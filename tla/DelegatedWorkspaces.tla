-------------------------- MODULE DelegatedWorkspaces --------------------------
(***************************************************************************)
(* The delegated git ladder.  Each Pollen works in a worktree of its own,  *)
(* on a branch recorded as its own.  Every call resolves the workspace     *)
(* under its lock, replacing one whose work is finished or was never       *)
(* begun, lets the lock go, and takes it again to act.  A tip is the set   *)
(* of the commits it has beyond the default branch.                        *)
(***************************************************************************)
EXTENDS Naturals, FiniteSets, TLC

CONSTANTS
    Pollens,
    Features,    \* names a Pollinator gives to branches
    Numbers,     \* that tell the generated names of a Pollen apart
    Calls,       \* calls in flight at once
    Acts,        \* what they may do in a workspace: "commit", "push", ...
    Ignores,     \* whether there are files that git ignores
    MaxCommits,  \* bound: commits made
    MaxRequests, \* bound: pull requests
    MaxCrashes   \* bound: crashes of the Stem

VARIABLES
    tip,      \* tip of each local branch, Gone when there is none
    maker,    \* the Pollen a branch was last created for
    own,      \* the registry of owned references
    tree,     \* the worktree of each Pollen
    seen,     \* commits the forge has been sent
    prs,      \* pull requests: name, tip, state
    call, held, made, crashes

git == <<tip, maker, tree>>
forge == <<seen, prs>>
vars == <<git, own, forge, call, held, made, crashes>>

Named == Features \X {0}               \* names asked for
Names == Named \cup (Pollens \X Numbers)  \* and the generated ones of each Pollen
NoBranch == <<"none", 0>>
Gone == {0}
NoRow == [pollen |-> "none", base |-> {}, pending |-> FALSE, retain |-> FALSE]
NoTree == [on |-> NoBranch, dirty |-> FALSE, ignored |-> FALSE]
Idle == [at |-> "idle", p |-> "none", kind |-> "none", name |-> NoBranch, head |-> {},
         merged |-> FALSE, left |-> {}]

Init ==
    \* the operator has branches of its own
    /\ \E theirs \in SUBSET Named : tip = [n \in Names |-> IF n \in theirs THEN {} ELSE Gone]
    /\ maker = [n \in Names |-> n[1]]
    /\ own = [n \in Names |-> NoRow] /\ tree = [p \in Pollens |-> NoTree]
    /\ seen = {} /\ prs = {}
    /\ call = [c \in Calls |-> Idle] /\ held = [p \in Pollens |-> "none"]
    /\ made = 0 /\ crashes = 0

-----------------------------------------------------------------------------
\* What a workspace is found to be.

\* The pull requests that hold the tip of a branch; a branch that adds nothing
\* to the default one, or that the forge has not been sent, is in none.
Holding(n) == {x \in prs : tip[n] # {} /\ tip[n] \subseteq x.tip}
\* Mutant: a pull request of the same name that was merged vouches for a tip.
MergedByName(n) == \E x \in prs : x.state = "merged" /\ x.name = n
\* One of them was merged, and ended with this very tip.
Merged(n) == \E x \in Holding(n) : x.state = "merged" /\ x.tip = tip[n]
InReview(n) ==
    /\ tip[n] # {} /\ tip[n] \subseteq seen
    /\ IF Holding(n) # {} THEN \A x \in Holding(n) : x.state # "merged" ELSE \E x \in prs : x.name = n
Owned(p, n) == own[n].pollen = p /\ ~own[n].pending
HasNoWork(n) == tip[n] \subseteq own[n].base
CheckedOut(n) == \E p \in Pollens : tree[p].on = n
Report(p, n, asked) ==
    LET merged == asked /\ Merged(n)
        review == asked /\ InReview(n)
    IN  [merged |-> merged,
         auto |-> /\ ~tree[p].dirty /\ ~tree[p].ignored /\ ~review
                  /\ ((HasNoWork(n) /\ ~own[n].retain) \/ merged)]

-----------------------------------------------------------------------------
\* A call, and the lock of its workspace.

At(c, at) == call' = [call EXCEPT ![c].at = at]
Free(c) == held' = [p \in Pollens |-> IF held[p] = c THEN "none" ELSE held[p]]
Done(c) == call' = [call EXCEPT ![c] = Idle] /\ Free(c)
Start(c, p, at, k) == call' = [call EXCEPT ![c] = [Idle EXCEPT !.at = at, !.p = p, !.kind = k]]
Become(c, at) == Start(c, call[c].p, at, call[c].kind)

Ask(c, p, k) ==
    /\ call[c].at = "idle" /\ Start(c, p, "resolve", k)
    /\ UNCHANGED <<git, own, forge, held, made, crashes>>
Enter(c) ==
    LET p == call[c].p IN
      /\ call[c].at = "resolve"
      /\ \/ /\ tree[p] = NoTree /\ call[c].kind \notin {"apply", "abandon"}
            /\ At(c, "create") /\ UNCHANGED held
         \/ /\ tree[p] = NoTree /\ call[c].kind = "apply" /\ Done(c)
         \/ /\ tree[p] # NoTree \/ call[c].kind = "abandon"
            /\ held[p] = "none" /\ held' = [held EXCEPT ![p] = c]
            /\ At(c, IF call[c].kind = "abandon" THEN "settle" ELSE "inspect")
      /\ UNCHANGED <<git, own, forge, made, crashes>>
\* Found and kept, found finished, or refused; a workspace to be replaced is
\* inspected twice.
Inspect(c, asked) ==
    LET p == call[c].p  n == tree[p].on IN
      /\ call[c].at \in {"inspect", "again"}
      /\ IF tree[p] = NoTree
         THEN IF call[c].kind = "apply" THEN Done(c) ELSE At(c, "create") /\ Free(c)
         ELSE LET r == Report(p, n, asked) IN
              \/ ~Owned(p, n) /\ Done(c)
              \/ Owned(p, n) /\ r.merged /\ (~r.auto \/ call[c].kind = "apply") /\ Done(c)
              \/ Owned(p, n) /\ ~r.merged /\ (~r.auto \/ call[c].kind = "apply")
                   /\ Become(c, "ready") /\ Free(c)
              \/ /\ Owned(p, n) /\ r.auto /\ call[c].kind # "apply"
                 /\ IF call[c].at = "inspect" THEN At(c, "again")
                    ELSE call' = [call EXCEPT ![c].at = "remove", ![c].name = n,
                                    ![c].head = tip[n], ![c].merged = r.merged]
                 /\ UNCHANGED held
      /\ UNCHANGED <<git, own, forge, made, crashes>>
\* Mutant: the worktree goes, changed or not.
RemoveForced(c) ==
    /\ call[c].at = "remove" /\ tree' = [tree EXCEPT ![call[c].p] = NoTree] /\ At(c, "reclaim")
    /\ UNCHANGED <<tip, maker, own, forge, held, made, crashes>>
\* git does not remove a worktree that has changes in it; it may fail, too.  An
\* ignored file is no change to it, whatever the inspections made of one.
Remove(c) ==
    /\ call[c].at = "remove"
    /\ \/ Done(c) /\ UNCHANGED tree
       \/ /\ ~tree[call[c].p].dirty /\ tree' = [tree EXCEPT ![call[c].p] = NoTree]
          /\ At(c, "reclaim") /\ UNCHANGED held
    /\ UNCHANGED <<tip, maker, own, forge, made, crashes>>
Replace(c) == IF call[c].kind = "abandon" THEN Done(c) ELSE Become(c, "create") /\ UNCHANGED held
\* The branch goes when it is still what was reported, and empty or merged.
Reclaim(c) ==
    LET n == call[c].name IN
      /\ call[c].at = "reclaim"
      /\ IF /\ Owned(call[c].p, n) /\ ~own[n].retain /\ tip[n] = call[c].head /\ ~CheckedOut(n)
            /\ (HasNoWork(n) \/ (call[c].merged /\ Merged(n)))
         THEN At(c, "delete") /\ UNCHANGED held
         ELSE Replace(c)
      /\ UNCHANGED <<git, own, forge, made, crashes>>
Delete(c) ==
    LET n == call[c].name IN
      /\ call[c].at = "delete"
      /\ IF CheckedOut(n) THEN Replace(c) /\ UNCHANGED tip
         ELSE tip' = [tip EXCEPT ![n] = Gone] /\ At(c, "forget") /\ UNCHANGED held
      /\ UNCHANGED <<maker, tree, own, forge, made, crashes>>
Forget(c) ==
    /\ call[c].at = "forget" /\ own' = [own EXCEPT ![call[c].name] = NoRow] /\ Replace(c)
    /\ UNCHANGED <<git, forge, made, crashes>>
\* A new worktree on a new branch, cut from the default branch.
Create(c) ==
    LET p == call[c].p
        free == {i \in Numbers : tip[<<p, i>>] = Gone}
        n == <<p, CHOOSE i \in free : \A j \in free : i <= j>>
    IN  /\ call[c].at = "create"
        /\ IF tree[p] # NoTree \/ free = {} THEN Done(c) /\ UNCHANGED git
           ELSE /\ tip' = [tip EXCEPT ![n] = {}] /\ UNCHANGED maker
                /\ tree' = [tree EXCEPT ![p] = [NoTree EXCEPT !.on = n]]
                /\ call' = [call EXCEPT ![c].at = "register", ![c].name = n]
                /\ UNCHANGED held
        /\ UNCHANGED <<own, forge, made, crashes>>
Register(c) ==
    /\ call[c].at = "register" /\ Become(c, "ready") /\ Free(c)
    /\ own' = [own EXCEPT ![call[c].name] =
                 [pollen |-> call[c].p, base |-> {}, pending |-> FALSE, retain |-> FALSE]]
    /\ UNCHANGED <<git, forge, made, crashes>>
Missing(c) ==
    /\ call[c].at = "ready" /\ held[call[c].p] = "none" /\ tree[call[c].p] = NoTree /\ Done(c)
    /\ UNCHANGED <<git, own, forge, made, crashes>>

-----------------------------------------------------------------------------
\* What a call does, under the lock taken again.

Present(c) == call[c].at = "ready" /\ held[call[c].p] = "none" /\ tree[call[c].p] # NoTree
Acting(c, act) == Present(c) /\ call[c].kind = "act" /\ act \in Acts
On(c) == tree[call[c].p].on
\* A patch is taken by a clean tree on the head it names, or not at all.
Apply(c) ==
    /\ Present(c) /\ call[c].kind = "apply" /\ Done(c)
    /\ \/ UNCHANGED tree
       \/ /\ ~tree[call[c].p].dirty /\ made < MaxCommits
          /\ tree' = [tree EXCEPT ![call[c].p].dirty = TRUE]
    /\ UNCHANGED <<tip, maker, own, forge, made, crashes>>
Commit(c) ==
    /\ Acting(c, "commit") /\ Done(c)
    /\ IF tree[call[c].p].dirty
       THEN /\ made' = made + 1 /\ tip' = [tip EXCEPT ![On(c)] = @ \cup {made + 1}]
            /\ tree' = [tree EXCEPT ![call[c].p].dirty = FALSE]
       ELSE UNCHANGED <<made, tip, tree>>
    /\ UNCHANGED <<maker, own, forge, crashes>>
\* An open pull request follows the branch it is for; the forge takes none
\* that has no commit.
Push(c) ==
    /\ Acting(c, "push") /\ Done(c) /\ seen' = seen \cup tip[On(c)]
    /\ prs' = {IF x.name = On(c) /\ x.state = "open" THEN [x EXCEPT !.tip = tip[On(c)]] ELSE x : x \in prs}
    /\ UNCHANGED <<git, own, made, crashes>>
PullRequest(c) ==
    /\ Acting(c, "pr") /\ Cardinality(prs) < MaxRequests /\ Done(c)
    /\ prs' = IF tip[On(c)] # {} /\ tip[On(c)] \subseteq seen /\ ~\E x \in prs : x.name = On(c) /\ x.state = "open"
              THEN prs \cup {[name |-> On(c), tip |-> tip[On(c)], state |-> "open"]} ELSE prs
    /\ UNCHANGED <<git, own, seen, made, crashes>>
\* Mutant: any branch that exists may be switched to.
SwitchToAny(c, f) == ~tree[call[c].p].dirty /\ ~CheckedOut(f)
MaySwitch(c, f) == Owned(call[c].p, f) /\ ~tree[call[c].p].dirty /\ ~CheckedOut(f)
Branch(c, f) ==
    LET p == call[c].p IN
      /\ Acting(c, "branch")
      /\ IF tip[f] = Gone /\ own[f] = NoRow
         THEN /\ own' = [own EXCEPT ![f] = [pollen |-> p, base |-> tip[On(c)],
                                            pending |-> TRUE, retain |-> TRUE]]
              /\ call' = [call EXCEPT ![c].at = "checkout", ![c].name = f, ![c].head = tip[On(c)]]
              /\ held' = [held EXCEPT ![p] = c] /\ UNCHANGED tree
         ELSE /\ Done(c) /\ UNCHANGED own
              /\ tree' = IF tip[f] # Gone /\ MaySwitch(c, f)
                         THEN [tree EXCEPT ![p].on = f] ELSE tree
      /\ UNCHANGED <<tip, maker, forge, made, crashes>>
\* The new branch takes the changes along; a failure that left no branch
\* gives the reservation back.
Checkout(c) ==
    LET p == call[c].p  f == call[c].name IN
      /\ call[c].at = "checkout" /\ UNCHANGED <<forge, made, crashes>>
      /\ \/ /\ tip[f] = Gone /\ tree[p] # NoTree
            /\ tip' = [tip EXCEPT ![f] = call[c].head] /\ maker' = [maker EXCEPT ![f] = p]
            /\ tree' = [tree EXCEPT ![p].on = f] /\ At(c, "finalize") /\ UNCHANGED <<own, held>>
         \/ /\ own' = IF tip[f] = Gone THEN [own EXCEPT ![f] = NoRow] ELSE own
            /\ Done(c) /\ UNCHANGED git
Finalize(c) ==
    LET f == call[c].name IN
      /\ call[c].at = "finalize" /\ Done(c) /\ UNCHANGED <<git, forge, made, crashes>>
      /\ \/ own' = own
         \/ own[f].pollen = call[c].p /\ own[f].pending /\ own' = [own EXCEPT ![f].pending = FALSE]
\* Every branch is classified, then the merged ones go, one by one.
List(c) ==
    /\ Acting(c, "prune")
    /\ call' = [call EXCEPT ![c].at = "pruning",
                  ![c].left = {n \in Names : tip[n] # Gone /\ Merged(n) /\ ~CheckedOut(n)}]
    /\ held' = [held EXCEPT ![call[c].p] = c] /\ UNCHANGED <<git, own, forge, made, crashes>>
Prune(c) ==
    /\ call[c].at = "pruning" /\ UNCHANGED <<maker, tree, own, forge, made, crashes>>
    /\ \/ call[c].left = {} /\ Done(c) /\ UNCHANGED tip
       \/ \E n \in call[c].left :
            /\ call' = [call EXCEPT ![c].left = @ \ {n}] /\ UNCHANGED held
            /\ tip' = IF CheckedOut(n) THEN tip ELSE [tip EXCEPT ![n] = Gone]

-----------------------------------------------------------------------------
\* The Botanist abandons a workspace: what was reserved is settled, the
\* worktree goes with what is in it, and the branch if nothing is lost by it.
Settle(c) ==
    LET p == call[c].p  n == tree[p].on
        Proven(m) == tree[p] # NoTree /\ m = n /\ tip[m] = own[m].base
    IN  /\ call[c].at = "settle"
        /\ own' = [m \in Names |-> IF own[m].pollen # p \/ ~own[m].pending THEN own[m]
                     ELSE IF Proven(m) THEN [own[m] EXCEPT !.pending = FALSE] ELSE NoRow]
        /\ IF tree[p] = NoTree THEN Done(c)
           ELSE /\ call' = [call EXCEPT ![c].at = "force", ![c].name = n, ![c].head = tip[n],
                              ![c].merged = Merged(n)]
                /\ UNCHANGED held
        /\ UNCHANGED <<git, forge, made, crashes>>
Force(c) ==
    /\ call[c].at = "force" /\ tree' = [tree EXCEPT ![call[c].p] = NoTree] /\ At(c, "reclaim")
    /\ UNCHANGED <<tip, maker, own, forge, held, made, crashes>>

\* The Pollinator edits files of its workspace, whenever it likes, ignored ones
\* among them.
Edit(p) ==
    /\ tree[p] # NoTree /\ made < MaxCommits
    /\ \/ tree' = [tree EXCEPT ![p].dirty = TRUE]
       \/ Ignores /\ tree' = [tree EXCEPT ![p].ignored = TRUE]
    /\ UNCHANGED <<tip, maker, own, forge, call, held, made, crashes>>
Review(x, state) ==
    /\ x.state = "open" /\ prs' = (prs \ {x}) \cup {[x EXCEPT !.state = state]}
    /\ UNCHANGED <<git, own, seen, call, held, made, crashes>>
Crash ==
    /\ crashes < MaxCrashes /\ crashes' = crashes + 1
    /\ call' = [c \in Calls |-> Idle] /\ held' = [p \in Pollens |-> "none"]
    /\ UNCHANGED <<git, own, forge, made>>

Resolve(c) == Enter(c) \/ Inspect(c, TRUE) \/ Inspect(c, FALSE) \/ Remove(c) \/ Reclaim(c)
    \/ Delete(c) \/ Forget(c) \/ Create(c) \/ Register(c) \/ Missing(c)
Act(c) == Apply(c) \/ Commit(c) \/ Push(c) \/ PullRequest(c) \/ (\E f \in Named : Branch(c, f))
    \/ Checkout(c) \/ Finalize(c) \/ List(c) \/ Prune(c) \/ Settle(c) \/ Force(c)
Next ==
    \/ \E c \in Calls : Resolve(c) \/ Act(c) \/ \E p \in Pollens, k \in {"apply", "act", "abandon"} : Ask(c, p, k)
    \/ \E p \in Pollens : Edit(p)
    \/ \E x \in prs : Review(x, "merged") \/ Review(x, "closed")
    \/ Crash
Spec == Init /\ [][Next]_vars
CallsAreAlike == Permutations(Calls)

-----------------------------------------------------------------------------
Held(k) == k \in seen \/ \E n \in Names : tip[n] # Gone /\ k \in tip[n]
\* A call prunes a branch of another Pollen, whose tip no merged request has.
PrunesOthers ==
    \E c \in Calls : \E n \in call[c].left :
        tip[n] # Gone /\ tip'[n] = Gone /\ maker[n] # call[c].p /\ ~Merged(n)

\* A commit stays reachable from a branch until the forge has been sent it,
\* through every replacement, abandonment and crash, and through every prune but
\* one: of a branch of another Pollen, whose workspace the prune does not lock,
\* which was merged when it was listed and has been committed on since.
LosesNothing == \A k \in 1..made' : k > made \/ Held(k) => Held(k)' \/ PrunesOthers
NothingIsLost == [][LosesNothing]_vars

\* What a Pollinator has changed and not committed is dropped by the
\* Botanist's abandonment and by nothing else; an ignored file goes, too, with
\* a worktree that was being replaced when it was made.
KeepsEdits ==
    \A p \in Pollens :
        LET Reaches(places) == \E c \in Calls : call[c].p = p /\ call[c].at \in places IN
        /\ tree[p].dirty => tree'[p].dirty \/ made' > made \/ Reaches({"force"})
        /\ tree[p].ignored => tree'[p].ignored \/ Reaches({"force", "remove"})
EditsAreKept == [][KeepsEdits]_vars

\* A workspace is on a branch that was created for its own Pollen, whoever
\* else uses the name, and one branch is in one workspace.
TreesAreOnTheirOwnBranch ==
    \A p \in Pollens : tree[p] # NoTree => tip[tree[p].on] # Gone /\ maker[tree[p].on] = p

\* Refuted.  What a prune deletes is merged when it is deleted, "re-classified
\* against fresh evidence": a branch is listed once, and deleted by its name.
PruneRestsOnFreshEvidence ==
    [][\A c \in Calls : \A n \in call[c].left :
         n \notin call'[c].left /\ tip[n] # Gone /\ tip'[n] = Gone => Merged(n)]_vars

\* Refuted.  A name whose branch is gone is free again: a prune leaves the
\* record of the branch it deletes.
NamesAreFreed ==
    (\A c \in Calls : call[c] = Idle) /\ crashes = 0 =>
        \A n \in Names : own[n] # NoRow => tip[n] # Gone

=============================================================================
