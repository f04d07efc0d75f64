------------------------------- MODULE Checkouts -------------------------------
(***************************************************************************)
(* One checkout of a Substrate and the tracking refs it shares with every  *)
(* worktree cut from it: the delegated fetch that stages a copy of the     *)
(* remote and moves the refs in one transaction, the start point of a      *)
(* delegated workspace, and the runs that refresh the checkout.  A commit  *)
(* is its number on the remote's one branch; 0 is none.                    *)
(***************************************************************************)
EXTENDS Naturals

CONSTANTS
    Callers,
    Kinds,         \* what they do: "fetch", "start", "run", "track", "own" or "look";
                   \* "track" is a run of a Substrate that names no branch
    Outsiders,     \* whether the operator's git works in the repository, too
    MaxPublished,  \* bound: commits on the remote
    MaxEdits       \* bound: changes the operator makes in the checkout

VARIABLES
    remote,       \* tip of the branch on the remote
    ref, objs,    \* the tracking ref, and the commits the repository holds
    keeps,        \* fetched packs that are kept from collection, by caller
    head, work,   \* what the checkout is at, and the operator's work in it
    edits,
    refLock, gitLock,  \* holders of the two mutexes of the repository
    call

repo == <<ref, objs, keeps>>
checkout == <<head, work, edits>>
locks == <<refLock, gitLock>>
vars == <<remote, repo, checkout, locks, call>>

None == 0
\* asked: the tip of the remote when the call came; None once the call has given
\* up to be that new.
Idle == [at |-> "idle", kind |-> "none", asked |-> None, staged |-> None, old |-> None]

Init ==
    /\ remote = 1 /\ ref \in {None, 1} /\ objs = {ref} \ {None} /\ keeps = {}
    /\ head = ref /\ work = "none" /\ edits = 0
    /\ refLock = "free" /\ gitLock = "free" /\ call = [c \in Callers |-> Idle]

At(c, at) == call' = [call EXCEPT ![c].at = at]
Free(lock, c) == IF lock = c THEN "free" ELSE lock
Unlock(c) == refLock' = Free(refLock, c) /\ gitLock' = Free(gitLock, c)
\* Every return releases what the call holds, and drops its staged copy.
Return(c) == call' = [call EXCEPT ![c] = Idle] /\ Unlock(c)
\* Mutant: a return on the way forgets the lock of the refs.
ReturnLocked(c) == call' = [call EXCEPT ![c] = Idle] /\ gitLock' = Free(gitLock, c) /\ UNCHANGED refLock
Fail(c) == Return(c)

Ask(c, k) ==
    /\ call[c].at = "idle"
    /\ call' = [call EXCEPT ![c] = [Idle EXCEPT !.kind = k, !.asked = remote,
                  !.at = CASE k \in {"run", "track", "look"} -> "git" [] k = "own" -> "status" [] OTHER -> "refs"]]
    /\ UNCHANGED <<remote, repo, checkout, locks>>

-----------------------------------------------------------------------------
\* The lock of the tracking refs, one for all worktrees of a repository.

\* Mutant: the refs are written without it.
TakeNoLock(c) == UNCHANGED refLock
Take(c) == refLock = "free" /\ refLock' = c
\* The delegated fetch checks the origin of the repository again, under the lock.
LockRefs(c) ==
    /\ call[c].at = "refs" /\ Take(c) /\ UNCHANGED gitLock
    /\ At(c, CASE call[c].kind = "fetch" -> "prepare" [] call[c].kind = "start" -> "startFetch"
               [] OTHER -> "refresh")
    /\ UNCHANGED <<remote, repo, checkout>>
\* The origin is another repository, the credential is missing, git fails.  The
\* last reset fails the call only when there is a branch to reset to.
Refuse(c) ==
    /\ call[c].at \in {"refs", "prepare", "stage", "read", "import", "refresh", "reset", "clone"}
    /\ call[c].at = "reset" => call[c].kind # "track"
    /\ Fail(c) /\ UNCHANGED <<remote, repo, checkout>>

-----------------------------------------------------------------------------
\* The delegated fetch.

\* The credential and an empty repository to fetch into, with the lock held.
Prepare(c) ==
    /\ call[c].at = "prepare" /\ At(c, "stage") /\ UNCHANGED <<remote, repo, checkout, locks>>
Stage(c) ==
    /\ call[c].at = "stage" /\ call' = [call EXCEPT ![c].staged = remote, ![c].at = "read"]
    /\ UNCHANGED <<remote, repo, checkout, locks>>
Read(c) ==
    /\ call[c].at = "read" /\ call' = [call EXCEPT ![c].old = ref, ![c].at = "import"]
    /\ UNCHANGED <<remote, repo, checkout, locks>>
\* Mutant: the pack is taken in like any other.
ImportUnkept(c) ==
    /\ call[c].at = "import" /\ objs' = objs \cup {call[c].staged} /\ At(c, "imported")
    /\ UNCHANGED <<remote, ref, keeps, checkout, locks>>
\* What is missing comes in one pack, kept by a marker of this very fetch.
Import(c) ==
    LET staged == call[c].staged IN
      /\ call[c].at = "import" /\ UNCHANGED <<remote, ref, checkout>>
      /\ \/ staged \in objs /\ At(c, "update") /\ UNCHANGED <<objs, keeps, locks>>
         \/ /\ staged \notin objs
            /\ objs' = objs \cup {staged} /\ keeps' = keeps \cup {<<c, staged>>}
            /\ (At(c, "imported") /\ UNCHANGED locks) \/ Fail(c)
\* One transaction over what was read; it fails when a ref has moved since, or
\* when its commit is not there.
Update(c) ==
    /\ call[c].at \in {"update", "imported"} /\ UNCHANGED <<remote, objs, keeps, checkout>>
    /\ IF ref = call[c].old /\ call[c].staged \in objs
       THEN ref' = call[c].staged /\ At(c, "finish") /\ UNCHANGED locks
       ELSE Fail(c) /\ UNCHANGED ref
Finish(c) ==
    /\ call[c].at = "finish" /\ keeps' = {k \in keeps : k[1] # c} /\ Return(c)
    /\ UNCHANGED <<remote, ref, objs, checkout>>

-----------------------------------------------------------------------------
\* A plain fetch, by the start point of a delegated workspace.

Pull == ref' = remote /\ objs' = objs \cup {remote}
StartFetch(c) ==
    /\ call[c].at = "startFetch" /\ UNCHANGED <<remote, keeps, checkout, locks>>
    /\ \/ Pull /\ At(c, "startRead")
       \/ UNCHANGED <<ref, objs>> /\ call' = [call EXCEPT ![c].at = "startRead", ![c].asked = None]
\* Without a fetch the local branch is as good as the ref.
StartRead(c) ==
    /\ call[c].at = "startRead" /\ Unlock(c)
    /\ call' = [call EXCEPT ![c].at = "started", ![c].staged = IF @ = None THEN ref ELSE @]
    /\ UNCHANGED <<remote, repo, checkout>>
Started(c) == call[c].at = "started" /\ Return(c) /\ UNCHANGED <<remote, repo, checkout>>

-----------------------------------------------------------------------------
\* A run and the checkout.

LockGit(c) ==
    /\ call[c].at = "git" /\ gitLock = "free" /\ gitLock' = c /\ UNCHANGED refLock
    /\ At(c, IF head = None THEN "clone" ELSE "refs") /\ UNCHANGED <<remote, repo, checkout>>
Clone(c) ==
    /\ call[c].at = "clone" /\ Pull /\ head' = remote /\ At(c, "resolve") /\ gitLock' = "free"
    /\ UNCHANGED <<remote, keeps, work, edits, refLock>>
\* The operator's own checkout is refreshed only when nothing in it is changed.
Status(c) ==
    /\ call[c].at = "status"
    /\ IF work = "changed" THEN Fail(c) ELSE At(c, "refs") /\ UNCHANGED locks
    /\ UNCHANGED <<remote, repo, checkout>>
Refresh(c) ==
    /\ call[c].at = "refresh" /\ Pull /\ At(c, "reset")
    /\ UNCHANGED <<remote, keeps, checkout, locks>>
Reset(c) ==
    /\ call[c].at = "reset" /\ head' = ref /\ work' = "none" /\ Unlock(c)
    /\ At(c, IF call[c].kind \in {"run", "track"} THEN "resolve" ELSE "working")
    /\ UNCHANGED <<remote, repo, edits>>
\* Without a branch the reset is to the upstream of whatever is checked out; that
\* it fails is not noticed, and the call goes on with the checkout as it was.
ResetMissed(c) ==
    /\ call[c].at = "reset" /\ call[c].kind # "run" /\ Unlock(c)
    /\ call' = [call EXCEPT ![c].at = IF call[c].kind = "track" THEN "resolve" ELSE "working",
                           ![c].asked = None]
    /\ UNCHANGED <<remote, repo, checkout>>
\* The start of a run is read under the lock again, then cut into its own tree.
Resolve(c) ==
    /\ call[c].at = "resolve" /\ gitLock = "free"
    /\ call' = [call EXCEPT ![c].at = "started", ![c].staged = head]
    /\ UNCHANGED <<remote, repo, checkout, locks>>
\* An investigation looks at the checkout itself.
Leave(c) == call[c].at = "working" /\ Return(c) /\ UNCHANGED <<remote, repo, checkout>>

-----------------------------------------------------------------------------
Publish ==
    /\ remote < MaxPublished /\ remote' = remote + 1 /\ UNCHANGED <<repo, checkout, locks, call>>
\* git collects what no ref, checkout or keep holds, whenever it likes.
Collect ==
    /\ objs' = objs \cap ({ref, head} \cup {k[2] : k \in keeps}) /\ objs' # objs
    /\ UNCHANGED <<remote, ref, keeps, checkout, locks, call>>
OutsideFetch ==
    /\ Outsiders /\ Pull /\ ref' # ref /\ UNCHANGED <<remote, keeps, checkout, locks, call>>
Edit ==
    /\ head # None /\ edits < MaxEdits /\ edits' = edits + 1 /\ work' = "changed"
    /\ UNCHANGED <<remote, repo, head, locks, call>>
Commit ==
    /\ work = "changed" /\ work' = "committed" /\ UNCHANGED <<remote, repo, head, edits, locks, call>>

Step(c) == LockRefs(c) \/ Prepare(c) \/ Stage(c) \/ Read(c) \/ Import(c) \/ Update(c) \/ Finish(c)
    \/ StartFetch(c) \/ StartRead(c) \/ Started(c) \/ LockGit(c) \/ Clone(c) \/ Status(c)
    \/ Refresh(c) \/ Reset(c) \/ ResetMissed(c) \/ Resolve(c) \/ Leave(c)
Next ==
    \/ \E c \in Callers : Step(c) \/ Refuse(c) \/ \E k \in Kinds : Ask(c, k)
    \/ Publish \/ Collect \/ OutsideFetch \/ Edit \/ Commit
Spec == Init /\ [][Next]_vars

-----------------------------------------------------------------------------
\* Work starts from the remote as it was asked for, or as it is by then: no
\* call moves a ref or the checkout back under another.  Two calls may have given
\* that up, a start that could not fetch and a run of a Substrate that names no
\* branch, whose reset failed; a run that has a branch never does.
StartsAtTheRemote ==
    \A c \in Callers : call[c].at = "started" =>
        /\ call[c].staged >= call[c].asked
        /\ call[c].kind = "run" => call[c].asked # None

\* Refuted.  "This guarantees each run starts from a pristine tree": the run
\* whose reset failed starts from the tree that the last one left.
TracksTheRemote == \A c \in Callers : call[c].at = "started" /\ call[c].kind = "track" => call[c].asked # None

\* What a fetch has taken in stays until its refs are moved, whatever git
\* collects meanwhile.
FetchedIsKept ==
    \A c \in Callers : call[c].at = "imported" => call[c].staged \in objs

\* No return leaves a lock of the repository behind: the next call would wait
\* for it until the Stem is restarted.
LocksAreReturned == \A c \in Callers : call[c].at = "idle" => c \notin {refLock, gitLock}

\* Refuted.  A refresh never discards what the operator has done in a checkout
\* of its own: the status is read before the lock and the fetch, and says
\* nothing of commits that were not pushed.
OperatorsWorkIsKept == [][work # "none" => work' # "none"]_vars

\* Refuted.  The markers a fetch puts on its packs go with it: one that fails
\* after the import leaves its own.
MarkersAreDropped == (\A c \in Callers : call[c] = Idle) => keeps = {}

\* Refuted with Outsiders.  The tracking ref never goes back.
RefsNeverGoBack == [][ref' >= ref]_vars

\* Refuted.  A checkout is still while an investigation looks at it.
InvestigationIsStill ==
    [][\A c \in Callers : call[c].at = "working" /\ call'[c].at = "working" => head' = head]_vars

=============================================================================
