------------------------------ MODULE MCBranches ------------------------------
(* What becomes of commits, branches and trees: FruitPublication and four     *)
(* more components.  They share no state here: a behaviour has its focus on   *)
(* one of them and the others rest, so that TLC explores the disjoint union   *)
(* of their graphs.                                                           *)
EXTENDS FruitPublication, TLC
CONSTANTS r1, r2, Legacy, NoRun,  \* runs, and one from before the ledger
          p1, p2, feat,           \* Pollens, and a name one gives
          c1, c2,                 \* calls under way at once
          Callers, Purposes, Outsiders, MaxPublished, MaxEdits,  \* of Checkouts
          Sprouts, Main, Unsaved, Untracked, Namesakes, Candidates, Awaiting,
          MaxTrouble, MaxDeaths                                  \* of SproutRun
VARIABLES
    focus,
    row, ref, tree, tip, pc, lock, job, booting, seeds, ended,
    name, maker, own, desk, seen, prs, asked, taken, made, crashes,
    upstream, tracking, objs, keeps, head, work, edits, refLock, gitLock, fetch,
    host, run, written, alone, trouble, deaths

Workspaces == INSTANCE RunWorkspaces WITH
    Runs <- {r1, r2}, None <- NoRun, Alone <- TRUE, MaxCrashes <- 1, MaxFaults <- 1
Delegated == INSTANCE DelegatedWorkspaces WITH
    Pollens <- {p1}, Features <- {feat}, Numbers <- {1}, Calls <- {c1, c2},
    Acts <- {"commit", "push", "pr", "branch", "prune"},
    Ignores <- TRUE, MaxCommits <- 2, MaxRequests <- 2, MaxCrashes <- 1,
    tip <- name, tree <- desk, call <- asked, held <- taken
\* Two Pollens over one repository, with the names generated for them.
Neighbours == INSTANCE DelegatedWorkspaces WITH
    Pollens <- {p1, p2}, Features <- {}, Numbers <- {1}, Calls <- {c1, c2},
    Acts <- {"commit", "push", "pr", "prune"},
    Ignores <- FALSE, MaxCommits <- 2, MaxRequests <- 1, MaxCrashes <- 0,
    tip <- name, tree <- desk, call <- asked, held <- taken
Repository == INSTANCE Checkouts WITH
    Kinds <- Purposes, ref <- tracking, remote <- upstream, call <- fetch

\* Runs on the operator's checkout, one after the other or overlapping.
Growth == INSTANCE SproutRun WITH
    Run <- Sprouts, Edit <- Unsaved, Clashes <- Untracked \X Namesakes, MaxFaults <- MaxTrouble, MaxCrashes <- MaxDeaths,
    faults <- trouble, crashes <- deaths

ASSUME Workspaces!RunWorkspacesAssumption
ASSUME GrowthIsBounded == Growth!SubstrateAssumption /\ Growth!SproutRunAssumption
\* A lock that is free is held by no call.
ASSUME FreeIsNobody == "free" \notin Callers

workspaces == <<row, ref, tree, tip, pc, lock, job, booting, seeds, ended>>
delegated == <<name, maker, own, desk, seen, prs, asked, taken, made, crashes>>
repository == <<upstream, tracking, objs, keeps, head, work, edits, refLock, gitLock, fetch>>
grown == <<host, run, written, alone, trouble, deaths>>

MCInit ==
    /\ focus \in {"workspaces", "delegated", "neighbours", "repository", "growth", "forge"}
    /\ IF focus = "neighbours" THEN Neighbours!Init ELSE Delegated!Init
    /\ Workspaces!Init /\ Repository!Init /\ Growth!Init /\ Init
    /\ focus # "workspaces" => ref = NoRun
    /\ focus # "delegated" => \A n \in DOMAIN name : name[n] # {}
    /\ focus # "repository" => tracking = 1
    /\ focus # "growth" => \A r \in Sprouts : run[r].kind = "sprout"
    /\ focus # "forge" => kind = "managed"

MCNext ==
    /\ \/ /\ focus = "workspaces" /\ Workspaces!Next
          /\ UNCHANGED <<delegated, repository, grown, vars>>
       \/ /\ focus = "delegated" /\ Delegated!Next
          /\ UNCHANGED <<workspaces, repository, grown, vars>>
       \/ /\ focus = "neighbours" /\ Neighbours!Next
          /\ UNCHANGED <<workspaces, repository, grown, vars>>
       \/ /\ focus = "repository" /\ Repository!Next
          /\ UNCHANGED <<workspaces, delegated, grown, vars>>
       \/ /\ focus = "growth" /\ Growth!Next
          /\ UNCHANGED <<workspaces, delegated, repository, vars>>
       \/ /\ focus = "forge" /\ Next
          /\ UNCHANGED <<workspaces, delegated, repository, grown>>
    /\ UNCHANGED focus

MCSpec == MCInit /\ [][MCNext]_<<focus, workspaces, delegated, repository, grown, vars>>

\* Two calls are alike, and two runs of a workspace: only one of these pairs moves.
Exchange == (c1 :> c2) @@ (c2 :> c1) @@ (r1 :> r2) @@ (r2 :> r1)
Alike == {f \in Permutations(DOMAIN Exchange) : f = Exchange \/ \A x \in DOMAIN f : f[x] = x}

-----------------------------------------------------------------------------
\* Whatever crashes, fails or is abandoned, a committed Fruit of a managed run
\* stays on a branch with an owner, and a worktree that is left has a row by
\* which the operator can give it up; no reconciliation, cleanup or reclaim
\* takes the branch of a Fruit that no Seed holds, nor the worktree of a run
\* that is growing, nor one with edits.
RunWorkIsKept ==
    /\ [](focus = "workspaces" => Workspaces!NothingIsLost)
    /\ Workspaces!FruitIsKept /\ Workspaces!LiveTreeIsSpared

\* A Pollinator's commit is on a branch until the forge has it, through every
\* replacement and crash, and every prune but of a merged branch that another
\* Pollen has gone on with; its workspace is on its own branch, and what it has
\* changed and not committed is dropped by an abandonment only, ignored files by
\* a replacement, too.
DelegatedWorkIsKept ==
    /\ [](focus = "delegated" => Delegated!TreesAreOnTheirOwnBranch)
    /\ [](focus = "neighbours" => Neighbours!TreesAreOnTheirOwnBranch)
    /\ [][/\ focus = "delegated" => Delegated!LosesNothing /\ Delegated!KeepsEdits
          /\ focus = "neighbours" => Neighbours!LosesNothing /\ Neighbours!KeepsEdits
         ]_<<focus, delegated>>

\* Work starts from the remote as it was asked for or newer, unless its Substrate
\* names no branch and the reset failed, or a start could not fetch; what a fetch took
\* in survives collection until its refs point at it, and no return keeps a lock.
FetchesHold ==
    focus = "repository" =>
        /\ Repository!StartsAtTheRemote
        /\ Repository!FetchedIsKept
        /\ Repository!LocksAreReturned

\* However runs that did not overlap end, over failed commands and the death
\* of the process, the operator's edits are in the tree or the stash, but for a
\* new file that a Sprout's commit has too, nothing
\* is grafted onto the protected branch, a reported Fruit is on its branch,
\* and the checkout is given back as it was.
CheckoutIsRespected ==
    focus = "growth" =>
        /\ Growth!EditsAreKept
        /\ Growth!ProtectedIsUntouched
        /\ Growth!FruitIsReachable
        /\ Growth!GrowingKeepsItsGround
        /\ Growth!CheckoutIsGivenBack

\* Refuted.  "Git ... restores every non-colliding untracked file, then leaves only
\* the redundant stash": what collides is taken for OpenTendril's own, whoever
\* wrote it, and is dropped with the stash.
DroppedIsRedundant == focus = "growth" => Growth!DroppedIsRedundant

===============================================================================
