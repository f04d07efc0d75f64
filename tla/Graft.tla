-------------------------------- MODULE Graft --------------------------------
(***************************************************************************)
(* Stem grafting over the mesh: a Stem that may not push sends the patch   *)
(* of its latest commit to the central Stem, which applies it in a worktree*)
(* of its own, runs the governance sequence there, commits what stands in  *)
(* the tree and pushes it. The keys that sign the grafts' tokens lie in    *)
(* two files of the central workspace.                                     *)
(***************************************************************************)
EXTENDS Naturals, FiniteSets

CONSTANTS Stems,       \* local Stems that delegate their pushes
          MaxWork,     \* commits an operator makes in a local workspace
          MaxGrafts,   \* calls of DelegatePush, by all Stems together
          MaxKeys,     \* key pairs generated over time
          Crashes      \* processes may die

None == "none"
NoPatch == <<None, 0>>
Trunk == <<"trunk", 0>> \* a branch the callers name; the default is one per commit

VARIABLES top,      \* [Stems -> number of the latest local commit]
          call,     \* [Stems -> the DelegatePush under way]
          serve,    \* [Stems -> the handler that answers it]
          commits,  \* commits made in terrariums: patch, governed, past
          origin,   \* [branch -> commit], of the branches that exist
          head,     \* HEAD of the central workspace
          keys,     \* generations of the two key files
          used      \* calls made so far
vars == <<top, call, serve, commits, origin, head, keys, used>>

Patches == Stems \X (1 .. MaxWork)
Idle == [at |-> "idle", patch |-> NoPatch, branch |-> NoPatch, key |-> 0,
         up |-> FALSE, answer |-> None]
Absent == [at |-> None, base |-> 0, passed |-> FALSE]

Init == /\ top = [s \in Stems |-> 1]
        /\ call = [s \in Stems |-> Idle]
        /\ serve = [s \in Stems |-> Absent]
        /\ commits = [c \in {0} |-> [patch |-> NoPatch, governed |-> TRUE, past |-> {0}]]
        /\ origin = [b \in {Trunk} |-> 0]
        /\ head = 0
        /\ keys = [private |-> 1, public |-> 1]
        /\ used = 0

(* The commits a commit descends from, itself among them. *)
History(c) == commits[c].past
Holds(c, patch) == \E a \in History(c) : commits[a].patch = patch
Refused(s) == [Idle EXCEPT !.answer = "error", !.patch = call[s].patch, !.branch = call[s].branch]
Answer(s, what) == call' = [call EXCEPT ![s] = IF @.up THEN [Refused(s) EXCEPT !.answer = what] ELSE @]
----------------------------------------------------------------------------
(* tendril mesh keygen: the private key is written, then the public one. *)
KeygenPrivate ==
    /\ keys.private = keys.public /\ keys.private < MaxKeys
    /\ keys' = [keys EXCEPT !.private = @ + 1]
    /\ UNCHANGED <<top, call, serve, commits, origin, head, used>>
KeygenPublic ==
    /\ keys.public < keys.private
    /\ keys' = [keys EXCEPT !.public = keys.private]
    /\ UNCHANGED <<top, call, serve, commits, origin, head, used>>

(* The operator commits in a local workspace, and updates the central one. *)
Work(s) == /\ top[s] < MaxWork
           /\ top' = [top EXCEPT ![s] = @ + 1]
           /\ UNCHANGED <<call, serve, commits, origin, head, keys, used>>
Update == /\ head' = origin[Trunk] /\ head' # head
          /\ UNCHANGED <<top, call, serve, commits, origin, keys, used>>

(* A token was signed by IssueToken with the private key of its time; it   *)
(* is accepted by VerifyToken against the public key of the moment.        *)
Tokens == 1 .. keys.private
Accepts(key) == key = keys.public

(* DelegatePush: HEAD is read for the hash, and again for the patch; the   *)
(* token is the one in the environment.                                    *)
ReadHash(s, named) ==
    /\ call[s].at = "idle" /\ serve[s] = Absent /\ used < MaxGrafts
    /\ used' = used + 1
    /\ \E key \in Tokens :
          call' = [call EXCEPT ![s] = [Idle EXCEPT !.at = "hashed", !.key = key,
                                          !.branch = IF named THEN Trunk ELSE <<s, top[s]>>]]
    /\ UNCHANGED <<top, serve, commits, origin, head, keys>>
ReadPatch(s) ==
    /\ call[s].at = "hashed"
    /\ call' = [call EXCEPT ![s].at = "dial", ![s].patch = <<s, top[s]>>]
    /\ UNCHANGED <<top, serve, commits, origin, head, keys, used>>

(* The token is verified and the connection upgraded, or the dial fails. *)
Connect(s) ==
    /\ call[s].at = "dial"
    /\ \/ /\ Accepts(call[s].key)
          /\ call' = [call EXCEPT ![s].at = "waiting", ![s].up = TRUE]
          /\ serve' = [serve EXCEPT ![s] = [Absent EXCEPT !.at = "request"]]
       \/ /\ call' = [call EXCEPT ![s] = Refused(s)]
          /\ UNCHANGED serve
    /\ UNCHANGED <<top, commits, origin, head, keys, used>>
----------------------------------------------------------------------------
(* The handler's own steps: a worktree at HEAD with the governance sequence *)
(* of the workspace copied in, and the patch applied, all of it or nothing. *)
Prepare(s) ==
    /\ serve[s].at = "request" /\ ~Holds(head, call[s].patch)
    /\ serve' = [serve EXCEPT ![s] = [@ EXCEPT !.at = "applied", !.base = head]]
    /\ UNCHANGED <<top, call, commits, origin, head, keys, used>>

(* The sequence runs while its lines are streamed: a line that cannot be   *)
(* sent stops it, and a line still unread when the command ends is an error.*)
Govern(s) ==
    /\ serve[s].at = "applied" /\ call[s].up
    /\ serve' = [serve EXCEPT ![s].at = "governed", ![s].passed = TRUE]
    /\ UNCHANGED <<top, call, commits, origin, head, keys, used>>

(* Mutant: the push is forced. *)
FitsForced(b, parent) == TRUE

Fits(b, parent) == b \in DOMAIN origin => origin[b] \in History(parent)

(* Mutant: the tree is pushed whatever the sequence said of it. *)
PushUngoverned(s) ==
    /\ serve[s].at \in {"applied", "governed"} /\ Fits(call[s].branch, serve[s].base)
    /\ LET new == Cardinality(DOMAIN commits)
           made == [patch |-> call[s].patch, governed |-> serve[s].passed,
                   past |-> History(serve[s].base) \cup {new}]
       IN /\ commits' = [c \in DOMAIN commits \cup {new} |-> IF c = new THEN made ELSE commits[c]]
          /\ origin' = [b \in DOMAIN origin \cup {call[s].branch} |->
                          IF b = call[s].branch THEN new ELSE origin[b]]
    /\ serve' = [serve EXCEPT ![s] = [Absent EXCEPT !.at = "pushed"]]
    /\ UNCHANGED <<top, call, head, keys, used>>

(* Everything in the tree is committed on top of the worktree's HEAD and   *)
(* pushed without force: the branch is new, or it moves forward. A commit  *)
(* that could not be pushed is lost with the worktree.                     *)
CommitAndPush(s) ==
    /\ serve[s].at = "governed" /\ Fits(call[s].branch, serve[s].base)
    /\ LET new == Cardinality(DOMAIN commits)
           made == [patch |-> call[s].patch, governed |-> serve[s].passed,
                   past |-> History(serve[s].base) \cup {new}]
       IN /\ commits' = [c \in DOMAIN commits \cup {new} |-> IF c = new THEN made ELSE commits[c]]
          /\ origin' = [b \in DOMAIN origin \cup {call[s].branch} |->
                          IF b = call[s].branch THEN new ELSE origin[b]]
    /\ serve' = [serve EXCEPT ![s] = [Absent EXCEPT !.at = "pushed"]]
    /\ UNCHANGED <<top, call, head, keys, used>>

(* Mutant: an error of the push is not one of the graft. *)
CompleteAnyway(s) ==
    /\ serve[s].at \in {"governed", "pushed"}
    /\ Answer(s, "complete")
    /\ serve' = [serve EXCEPT ![s] = Absent]
    /\ UNCHANGED <<top, commits, origin, head, keys, used>>

(* The result goes out, and removeGraftTerrarium is deferred. *)
Complete(s) ==
    /\ serve[s].at = "pushed"
    /\ Answer(s, "complete")
    /\ serve' = [serve EXCEPT ![s] = Absent]
    /\ UNCHANGED <<top, commits, origin, head, keys, used>>

(* Any step may fail: the error goes out and the handler leaves. *)
Fail(s) ==
    /\ serve[s].at \in {"request", "applied", "governed"}
    /\ Answer(s, "error")
    /\ serve' = [serve EXCEPT ![s] = Absent]
    /\ UNCHANGED <<top, commits, origin, head, keys, used>>
----------------------------------------------------------------------------
(* The connection breaks, or the local process dies: the handler hears of *)
(* it when it next sends, the client when it next reads.                  *)
Disconnect(s) ==
    /\ call[s].up
    /\ call' = [call EXCEPT ![s] = [@ EXCEPT !.up = FALSE, !.at = "lost"]]
    /\ UNCHANGED <<top, serve, commits, origin, head, keys, used>>
GiveUp(s) ==
    /\ call[s].at = "lost" /\ serve[s] = Absent
    /\ call' = [call EXCEPT ![s] = Refused(s)]
    /\ UNCHANGED <<top, serve, commits, origin, head, keys, used>>

(* The central process dies with its handlers, in the middle of anything. *)
Crash ==
    /\ Crashes /\ \E s \in Stems : serve[s] # Absent
    /\ serve' = [s \in Stems |-> Absent]
    /\ call' = [s \in Stems |-> IF call[s].at \in {"waiting", "lost"} THEN Refused(s) ELSE call[s]]
    /\ UNCHANGED <<top, commits, origin, head, keys, used>>

Next == \/ KeygenPrivate \/ KeygenPublic \/ Update \/ Crash
        \/ \E s \in Stems :
              \/ Work(s) \/ ReadPatch(s) \/ Connect(s) \/ Prepare(s) \/ Govern(s)
              \/ CommitAndPush(s) \/ Complete(s) \/ Fail(s)
              \/ Disconnect(s) \/ GiveUp(s)
              \/ \E named \in BOOLEAN : ReadHash(s, named)
Spec == Init /\ [][Next]_vars
----------------------------------------------------------------------------
(* What stands on a branch of the remote passed the governance sequence in *)
(* the very tree that was pushed, and holds no patch twice, whoever asked  *)
(* again after an error or a lost answer.                                  *)
PushedIsGoverned == \A b \in DOMAIN origin : \A c \in History(origin[b]) :
    /\ commits[c].governed
    /\ \A a \in History(c) \ {c} : commits[a].patch # commits[c].patch

(* A graft leaves what others have pushed: a branch only moves forward. *)
BranchesMoveForward == [][origin' # origin => \A b \in DOMAIN origin :
    b \in DOMAIN origin' /\ origin[b] \in commits'[origin'[b]].past]_vars

(* A caller told the graft is complete finds its patch on the branch. *)
CompleteIsPushed == \A s \in Stems : call[s].answer = "complete" =>
    call[s].branch \in DOMAIN origin /\ Holds(origin[call[s].branch], call[s].patch)

(* Of the default branch, named for a commit: it holds that commit's patch. *)
(* The code reads HEAD twice.                                               *)
BranchNamesItsCommit == \A s \in Stems : call[s].answer = "complete" /\ call[s].branch # Trunk =>
    call[s].patch = call[s].branch

(* Of a caller told the graft failed: nothing was pushed. The answer may be *)
(* lost after the push.                                                     *)
ErrorMeansNotPushed == \A s \in Stems : call[s].answer = "error" /\ call[s].branch \in DOMAIN origin
    => ~Holds(origin[call[s].branch], call[s].patch)
=============================================================================
