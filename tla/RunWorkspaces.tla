----------------------------- MODULE RunWorkspaces -----------------------------
(***************************************************************************)
(* The worktree of a managed run, on one branch of one repository, and the *)
(* two files that say whose it is: the allocation ledger (row) and the     *)
(* registry of owned references (ref).  The runs of the Stem allocate and  *)
(* release it under the Stem's git lock; the Stem at its start, and the    *)
(* operator's command line in a process of its own, reconcile or abandon   *)
(* what a crash or a failed step left.                                     *)
(***************************************************************************)
EXTENDS Naturals

CONSTANTS
    Runs,        \* allocations that use the branch, one after the other
    Legacy,      \* a run from before the ledger, whose branch may be left
    None,
    Alone,       \* no command runs during git work of the Stem, nor the reverse
    MaxCrashes,  \* bound: deaths of the Stem or of the command line
    MaxFaults    \* bound: git commands and registry writes that fail

RunWorkspacesAssumption ==
    None \notin Runs /\ Legacy \notin Runs \cup {None} /\ Alone \in BOOLEAN /\ MaxCrashes \in Nat /\ MaxFaults \in Nat

VARIABLES
    row,      \* the allocation in the ledger
    ref,      \* the owned reference of the branch
    tree,     \* the linked worktree at the path, and the run it was made for
    tip,      \* the branch: absent, at its base, or at the Fruit of a run
    pc,       \* where each run is
    lock,     \* the Stem's git lock
    job,      \* the reconciliation at the Stem's start, and the command
    booting,  \* the Stem has yet to reconcile
    seeds,    \* runs whose Fruit a Seed's branch holds
    ended     \* crashes and faults so far

vars == <<row, ref, tree, tip, pc, lock, job, booting, seeds, ended>>

Keeper == {"boot", "cli"}
Base == "base"
Rows == [run : Runs, final : BOOLEAN, linked : BOOLEAN, settled : BOOLEAN,
         leaving : BOOLEAN, removed : BOOLEAN]
Refs == [run : Runs \cup {Legacy}, pending : BOOLEAN]
Trees == [run : Runs, clean : BOOLEAN]
Idle == [step |-> "idle"]

Init ==
    /\ row = None /\ tree = None
    /\ \/ ref = None /\ tip = None
       \/ ref = [run |-> Legacy, pending |-> FALSE] /\ tip \in {Base, Legacy}
    /\ pc = [r \in Runs |-> "new"]
    /\ lock = None /\ job = [k \in Keeper |-> Idle] /\ booting = TRUE
    /\ seeds = {} /\ ended = [crashes |-> 0, faults |-> 0]

-----------------------------------------------------------------------------
\* The files and git.

Owns(r) == ref # None /\ ref.run = r
RowOf(r) == row # None /\ row.run = r
\* Mutant: the commits are not counted.
NoWorkUnchecked(t) == t # None
NoWork(t) == t = Base
Leaving == IF row.removed THEN row ELSE [row EXCEPT !.leaving = TRUE]
Removed == [row EXCEPT !.leaving = FALSE, !.removed = TRUE]

Held(r, at) == pc[r] = at /\ lock = r
To(r, at) == pc' = [pc EXCEPT ![r] = at]
Leaves(r, at) == To(r, at) /\ lock' = None
Kept == UNCHANGED <<job, booting, seeds>>
Works == UNCHANGED ended
Fault == ended.faults < MaxFaults /\ ended' = [ended EXCEPT !.faults = @ + 1]

-----------------------------------------------------------------------------
\* CreateRunWorkspace.

Free == row = None /\ tree = None
MayTake == tip # None => ref # None /\ NoWork(tip)

\* An earlier run's empty branch is deleted first, and its reference
\* forgotten; a reference whose branch is gone is stale.
ReclaimCollision(r) ==
    /\ pc[r] = "new" /\ lock = None /\ Free /\ tip # None /\ MayTake
    /\ tip' = None /\ lock' = r /\ To(r, "stale")
    /\ Works /\ Kept /\ UNCHANGED <<row, ref, tree>>
ForgetStale(r) ==
    /\ \/ Held(r, "stale")
       \/ pc[r] = "new" /\ lock = None /\ Free /\ tip = None /\ ref # None
    /\ ref' = None /\ lock' = r /\ To(r, "reserve")
    /\ Works /\ Kept /\ UNCHANGED <<row, tree, tip>>

Refuse(r) ==
    /\ pc[r] = "new" /\ lock = None /\ ~(Free /\ MayTake)
    /\ To(r, "over") /\ Works /\ Kept /\ UNCHANGED <<row, ref, tree, tip, lock>>

ReserveRow(r) ==
    /\ Held(r, "reserve") \/ (pc[r] = "new" /\ lock = None /\ Free /\ tip = None /\ ref = None)
    /\ lock' = r
    /\ \E linked \in BOOLEAN :
         row' = [run |-> r, final |-> FALSE, linked |-> linked,
                 settled |-> FALSE, leaving |-> FALSE, removed |-> FALSE]
    /\ To(r, "reserved") /\ Works /\ Kept /\ UNCHANGED <<ref, tree, tip>>

ReserveRef(r) ==
    /\ Held(r, "reserved") /\ UNCHANGED <<row, tree, tip, lock>> /\ Kept
    /\ \/ ref = None /\ ref' = [run |-> r, pending |-> TRUE] /\ To(r, "owned") /\ Works
       \/ ref' = ref /\ To(r, "unreserve") /\ IF ref = None THEN Fault ELSE Works

\* git makes the branch before the worktree, and leaves it if that fails.
AddTree(r) ==
    /\ Held(r, "owned") /\ UNCHANGED <<row, ref, lock>> /\ Kept
    /\ \/ tip = None /\ tip' = Base /\ tree' = [run |-> r, clean |-> TRUE]
          /\ To(r, "planted") /\ Works
       \/ tip = None /\ tip' \in {None, Base} /\ tree' = tree /\ To(r, "rollback") /\ Fault

FinalizeRef(r) ==
    /\ Held(r, "planted") /\ UNCHANGED <<row, tree, tip, lock>> /\ Kept
    /\ \/ /\ Owns(r) /\ ref.pending
          /\ ref' = [ref EXCEPT !.pending = FALSE] /\ To(r, "finalize") /\ Works
       \/ ref' = ref /\ To(r, "rollback") /\ IF Owns(r) THEN Fault ELSE Works

FinalizeRow(r) ==
    /\ Held(r, "finalize") /\ UNCHANGED <<ref, tree, tip>> /\ Kept
    /\ \/ RowOf(r) /\ row' = [row EXCEPT !.final = TRUE] /\ Leaves(r, "growing") /\ Works
       \/ row' = row /\ To(r, "rollback") /\ lock' = lock /\ IF RowOf(r) THEN Fault ELSE Works

-----------------------------------------------------------------------------
\* rollbackRunWorkspaceAllocation.  A rollback that fails keeps the row.

\* Mutant: a failed rollback retires the row as well.
RollbackGivenUp(r) ==
    /\ Held(r, "rollback") /\ row' = None /\ Leaves(r, "over")
    /\ Works /\ Kept /\ UNCHANGED <<ref, tree, tip>>
RollbackTree(r) ==
    /\ Held(r, "rollback") /\ Works /\ Kept /\ UNCHANGED <<ref, tree, tip>>
    /\ \/ ~Owns(r) /\ Leaves(r, "over") /\ row' = row
       \/ Owns(r) /\ tree = None /\ To(r, "unbranch") /\ UNCHANGED <<row, lock>>
       \/ /\ Owns(r) /\ tree # None
          /\ IF tree.clean /\ RowOf(r)
             THEN row' = Leaving /\ To(r, "uproot") /\ lock' = lock
             ELSE row' = row /\ Leaves(r, "over")
RollbackRemove(r) ==
    /\ Held(r, "uproot") /\ UNCHANGED <<row, ref, tip>> /\ Kept
    /\ \/ tree' = None /\ To(r, "unbranch") /\ lock' = lock /\ Works
       \/ tree # None /\ tree' = tree /\ Leaves(r, "over") /\ Fault
RollbackFinalize(r) ==
    /\ Held(r, "unbranch") /\ tip # None
    /\ IF RowOf(r) THEN row' = [row EXCEPT !.final = TRUE] /\ To(r, "unmark") /\ lock' = lock
                   ELSE row' = row /\ Leaves(r, "over")
    /\ Works /\ Kept /\ UNCHANGED <<ref, tree, tip>>
RollbackMark(r) ==
    /\ Held(r, "unmark")
    /\ IF RowOf(r) THEN row' = Removed /\ To(r, "unbase") /\ lock' = lock
                   ELSE row' = row /\ Leaves(r, "over")
    /\ Works /\ Kept /\ UNCHANGED <<ref, tree, tip>>
RollbackBranch(r) ==
    /\ Held(r, "unbase") /\ UNCHANGED <<row, ref, tree>> /\ Kept
    /\ \/ tip' = None /\ To(r, "unown") /\ lock' = lock /\ Works
       \/ tip' = tip /\ Leaves(r, "over") /\ Fault
RollbackForget(r) ==
    /\ Held(r, "unown") \/ (Held(r, "unbranch") /\ tip = None)
    /\ ref' = IF Owns(r) THEN None ELSE ref
    /\ To(r, "unreserve") /\ Works /\ Kept /\ UNCHANGED <<row, tree, tip, lock>>
Unreserve(r) ==
    /\ Held(r, "unreserve")
    /\ row' = IF RowOf(r) THEN None ELSE row
    /\ Leaves(r, "over") /\ Works /\ Kept /\ UNCHANGED <<ref, tree, tip>>

-----------------------------------------------------------------------------
\* The run itself, and the candidate of a Seed, whose Fruit moves to the
\* Seed's branch before the worktree goes.

Mine(r) == tree # None /\ tree.run = r
Grow(r) ==
    /\ pc[r] = "growing" /\ Mine(r) /\ tree' = [tree EXCEPT !.clean = ~@]
    /\ IF tree.clean THEN tip' = tip ELSE tip' \in {tip, r}
    /\ Works /\ Kept /\ UNCHANGED <<row, ref, pc, lock>>
Settle(r) ==
    /\ pc[r] = "growing" /\ \E how \in {"settled", "cleaning"} : To(r, how)
    /\ Works /\ Kept /\ UNCHANGED <<row, ref, tree, tip, lock>>

Integrate(r) ==
    /\ pc[r] = "growing" /\ Owns(r) /\ Mine(r) /\ tree.clean /\ tip = r
    /\ seeds' = seeds \cup {r} /\ To(r, "integrated")
    /\ Works /\ UNCHANGED <<row, ref, tree, tip, lock, job, booting>>
IntegrateRemove(r) ==
    /\ pc[r] = "integrated" /\ UNCHANGED <<row, ref, tip, lock>> /\ Kept
    /\ \/ tree' = None /\ To(r, "transferred") /\ Works
       \/ tree # None /\ tree' = tree /\ To(r, "cleaning") /\ Fault
IntegrateReclaim(r) ==
    /\ pc[r] = "transferred" /\ lock = None /\ UNCHANGED <<row, ref, tree>> /\ Works /\ Kept
    /\ IF Owns(r) /\ tip = r /\ tree = None
       THEN tip' = None /\ lock' = r /\ To(r, "forget")
       ELSE To(r, "cleaning") /\ UNCHANGED <<tip, lock>>
IntegrateForget(r) ==
    /\ Held(r, "forget") /\ UNCHANGED <<row, tree>> /\ Kept
    /\ \/ ref' = None /\ tip' = tip /\ Works /\ \E how \in {"settled", "cleaning"} : Leaves(r, how)
       \/ ref' = ref /\ tip' = r /\ Fault /\ Leaves(r, "cleaning")

-----------------------------------------------------------------------------
\* releaseManagedWorkspace and Cleanup.

Checkpoint(r) ==
    /\ pc[r] = "settled"
    /\ IF RowOf(r) /\ row.final /\ row.linked
       THEN row' = [row EXCEPT !.settled = TRUE] /\ To(r, "cleaning")
       ELSE row' = row /\ To(r, IF RowOf(r) /\ ~row.linked THEN "cleaning" ELSE "over")
    /\ Works /\ Kept /\ UNCHANGED <<ref, tree, tip, lock>>

Cleanup(r) ==
    /\ pc[r] = "cleaning" /\ lock = None
    /\ Works /\ Kept /\ UNCHANGED <<ref, tree, tip>>
    /\ \/ /\ ~Owns(r) /\ tree = None /\ tip = None
          /\ To(r, "retire") /\ lock' = r /\ row' = row
       \/ /\ Owns(r) /\ (tree # None => tree.clean)
          /\ row' = (IF RowOf(r) THEN Leaving ELSE row) /\ To(r, "remove") /\ lock' = r
       \/ /\ ~(Owns(r) /\ (tree # None => tree.clean))
          /\ ~(~Owns(r) /\ tree = None /\ tip = None)
          /\ To(r, "over") /\ UNCHANGED <<row, lock>>
CleanupRemove(r) ==
    /\ Held(r, "remove") /\ UNCHANGED <<row, ref, tip>> /\ Kept
    /\ \/ tree' = None /\ To(r, "mark") /\ lock' = lock /\ Works
       \/ tree # None /\ tree' = tree /\ Leaves(r, "over") /\ Fault
CleanupMark(r) ==
    /\ Held(r, "mark") /\ row' = (IF RowOf(r) THEN Removed ELSE row)
    /\ To(r, "branch") /\ Works /\ Kept /\ UNCHANGED <<ref, tree, tip, lock>>
CleanupBranch(r) ==
    /\ Held(r, "branch") /\ UNCHANGED <<row, tree>> /\ Kept
    /\ \/ tip = None /\ ref' = None /\ tip' = tip /\ To(r, "retire") /\ lock' = lock /\ Works
       \/ NoWork(tip) /\ tip' = None /\ ref' = ref /\ To(r, "disown") /\ lock' = lock /\ Works
       \/ NoWork(tip) /\ UNCHANGED <<tip, ref>> /\ Leaves(r, "over") /\ Fault
       \/ tip # None /\ ~NoWork(tip) /\ UNCHANGED <<tip, ref, lock>> /\ To(r, "retire") /\ Works
CleanupForget(r) ==
    /\ Held(r, "disown") /\ ref' = None /\ To(r, "retire")
    /\ Works /\ Kept /\ UNCHANGED <<row, tree, tip, lock>>
CleanupRetire(r) ==
    /\ Held(r, "retire") /\ row' = (IF RowOf(r) THEN None ELSE row)
    /\ Leaves(r, "over") /\ Works /\ Kept /\ UNCHANGED <<ref, tree, tip>>

-----------------------------------------------------------------------------
\* Reconciliation and abandonment: inspect, decide, and under the lock
\* compare everything with what was inspected before the first change.

Seen == [row |-> row, ref |-> ref, tree |-> tree, tip |-> tip]
Matched(s) == s.ref # None /\ s.ref.run = s.row.run
Torn(s) == s.row.leaving \/ s.row.removed
EmptyPending(s) == ~s.row.final /\ s.ref = None /\ s.tree = None /\ s.tip = None
\* Mutant: the checkpoint is not asked for.
RecordedUnread(s) == s.row.final
Recorded(s) == s.row.linked /\ s.row.settled

\* ClassifyRunWorkspace.
AutoReconcileable(s) ==
    /\ s.row.final /\ Recorded(s)
    /\ Matched(s) /\ ~s.ref.pending
    /\ s.tip # None
    /\ IF s.tree = None THEN Torn(s) ELSE s.tree.clean
\* AbandonRunWorkspace and the guards of mutateRunWorkspace.
Abandonable(s) ==
    \/ EmptyPending(s)
    \/ /\ Matched(s) /\ (s.row.final => ~s.ref.pending)
       /\ s.tree = None => Torn(s) \/ ~s.row.final
       /\ s.tip = None => s.tree = None /\ (Torn(s) \/ ~s.row.final)

\* The git lock is the process's own: it holds the command line off only
\* when the operator does.
Locks(k) == k = "boot" \/ Alone
Ready(k) == Locks(k) => lock = None
Inside(k, at) == job[k].step = at
Does(k, j) == job' = [job EXCEPT ![k] = j]
Next1(k, at) == Does(k, [job[k] EXCEPT !.step = at]) /\ UNCHANGED lock
Done(k) == Does(k, Idle) /\ lock' = IF Locks(k) THEN None ELSE lock
Rest == UNCHANGED <<pc, seeds, booting>>

Inspect(k, abandon) ==
    /\ Inside(k, "idle") /\ Ready(k) /\ row # None
    /\ k = "boot" => booting /\ ~abandon
    /\ booting' = (IF k = "boot" THEN FALSE ELSE booting)
    /\ IF abandon THEN Abandonable(Seen) ELSE AutoReconcileable(Seen)
    /\ Does(k, [step |-> "seen", seen |-> Seen, abandon |-> abandon])
    /\ Works /\ UNCHANGED <<row, ref, tree, tip, pc, lock, seeds>>
NothingToDo ==
    /\ booting /\ (row # None => ~AutoReconcileable(Seen)) /\ booting' = FALSE
    /\ Works /\ UNCHANGED <<row, ref, tree, tip, pc, lock, job, seeds>>

Enter(k) ==
    /\ Inside(k, "seen") /\ Ready(k) /\ Works /\ Rest /\ UNCHANGED <<ref, tree, tip>>
    /\ IF Seen = job[k].seen
       THEN /\ row' = Leaving /\ lock' = (IF Locks(k) THEN k ELSE lock)
            /\ Does(k, [job[k] EXCEPT !.step = "removing"])
       ELSE row' = row /\ Does(k, Idle) /\ lock' = lock

Same(k) == RowOf(job[k].seen.row.run) /\ row.settled = job[k].seen.row.settled
Remove(k) ==
    /\ Inside(k, "removing") /\ Rest /\ UNCHANGED <<row, ref, tip>>
    /\ \/ /\ job[k].seen.tree = None /\ tree' = tree /\ Next1(k, "marking") /\ Works
       \/ /\ job[k].seen.tree # None /\ tree # None /\ (tree.clean \/ job[k].abandon)
          /\ tree' = None /\ Next1(k, "marking") /\ Works
       \/ job[k].seen.tree # None /\ tree = None /\ tree' = tree /\ Done(k) /\ Works
       \/ job[k].seen.tree # None /\ tree # None /\ tree' = tree /\ Done(k) /\ (tree.clean => Fault) /\ (~tree.clean => Works)
Mark(k) ==
    /\ Inside(k, "marking") /\ Works /\ Rest /\ UNCHANGED <<ref, tree, tip>>
    /\ IF Same(k) THEN row' = Removed /\ Next1(k, "deciding") ELSE row' = row /\ Done(k)
\* Everything is inspected again; the branch goes by compare-and-swap.
Proved(k) == tree = None /\ (Owns(job[k].seen.row.run) \/ EmptyPending(job[k].seen))
Decide(k) ==
    /\ Inside(k, "deciding") /\ Works /\ Rest /\ UNCHANGED <<row, tree>>
    /\ \/ ~Proved(k) /\ Done(k) /\ UNCHANGED <<ref, tip>>
       \/ /\ Proved(k) /\ tip = None /\ tip' = tip /\ Next1(k, "retiring")
          /\ ref' = IF Owns(job[k].seen.row.run) THEN None ELSE ref
       \/ Proved(k) /\ NoWork(tip) /\ tip' = None /\ ref' = ref /\ Next1(k, "disowning")
       \/ Proved(k) /\ tip # None /\ ~NoWork(tip) /\ UNCHANGED <<tip, ref>> /\ Next1(k, "retiring")
Disown(k) ==
    /\ Inside(k, "disowning") /\ Rest /\ UNCHANGED <<row, tree>>
    /\ \/ Owns(job[k].seen.row.run) /\ ref' = None /\ tip' = tip /\ Next1(k, "retiring") /\ Works
       \/ /\ ref' = ref /\ tip' = (IF tip = None THEN Base ELSE tip) /\ Done(k)
          /\ IF Owns(job[k].seen.row.run) THEN Fault ELSE Works
Retire(k) ==
    /\ Inside(k, "retiring") /\ row' = (IF Same(k) THEN None ELSE row) /\ Done(k)
    /\ Works /\ Rest /\ UNCHANGED <<ref, tree, tip>>

-----------------------------------------------------------------------------
\* Processes die between any two writes.

Dies == ended.crashes < MaxCrashes /\ ended' = [ended EXCEPT !.crashes = @ + 1]
StemDies ==
    /\ Dies /\ lock' = (IF lock = "cli" THEN lock ELSE None) /\ booting' = TRUE /\ job' = [job EXCEPT !["boot"] = Idle]
    /\ pc' = [r \in Runs |-> IF pc[r] = "new" THEN "new" ELSE "over"]
    /\ UNCHANGED <<row, ref, tree, tip, seeds>>
CommandDies ==
    /\ Dies /\ ~Inside("cli", "idle") /\ job' = [job EXCEPT !["cli"] = Idle]
    /\ lock' = (IF lock = "cli" THEN None ELSE lock)
    /\ UNCHANGED <<row, ref, tree, tip, pc, booting, seeds>>

Create(r) == ReclaimCollision(r) \/ ForgetStale(r) \/ Refuse(r) \/ ReserveRow(r) \/ ReserveRef(r)
             \/ AddTree(r) \/ FinalizeRef(r) \/ FinalizeRow(r)
Rollback(r) == RollbackTree(r) \/ RollbackRemove(r) \/ RollbackFinalize(r) \/ RollbackMark(r)
               \/ RollbackBranch(r) \/ RollbackForget(r) \/ Unreserve(r)
Run(r) == Grow(r) \/ Settle(r) \/ Integrate(r) \/ IntegrateRemove(r) \/ IntegrateReclaim(r)
          \/ IntegrateForget(r)
Release(r) == Checkpoint(r) \/ Cleanup(r) \/ CleanupRemove(r) \/ CleanupMark(r)
              \/ CleanupBranch(r) \/ CleanupForget(r) \/ CleanupRetire(r)
Mutate(k) == Enter(k) \/ Remove(k) \/ Mark(k) \/ Decide(k) \/ Disown(k) \/ Retire(k)

Next ==
    \/ \E r \in Runs : Create(r) \/ Rollback(r) \/ Run(r) \/ Release(r)
    \/ \E k \in Keeper : (\E abandon \in BOOLEAN : Inspect(k, abandon)) \/ Mutate(k)
    \/ NothingToDo \/ StemDies \/ CommandDies

Spec == Init /\ [][Next]_vars

-----------------------------------------------------------------------------
TypeOK ==
    /\ row \in Rows \cup {None} /\ ref \in Refs \cup {None} /\ tree \in Trees \cup {None}
    /\ tip \in {None, Base, Legacy} \cup Runs /\ lock \in Runs \cup Keeper \cup {None}
    /\ seeds \subseteq Runs /\ booting \in BOOLEAN

\* A branch is deleted only while it holds no commit of its own, or once a
\* Seed's branch holds the same commit: whatever crashes, fails or is
\* abandoned, committed Fruit stays reachable.
FruitIsKept == [][tip \notin {None, Base} /\ tip' # tip => tip \in seeds]_vars

\* A worktree is removed under a run that is still growing, or with edits
\* in it, only by an explicit abandonment: reconciliation never takes the
\* tree of a live run for the leftover of a dead one.
LiveTreeIsSpared ==
    [][tree # None /\ tree' = None =>
         \/ tree.clean /\ pc[tree.run] # "growing"
         \/ Inside("cli", "removing") /\ job["cli"].abandon]_vars

\* Nothing that holds work is out of reach: with no process at it, a
\* worktree has an allocation that the operator can abandon, and a branch
\* with Fruit on it has an owner on record.
Quiet == lock = None /\ (\A k \in Keeper : Inside(k, "idle"))
         /\ \A r \in Runs : pc[r] \in {"new", "over"}
NothingIsLost ==
    /\ tip \notin {None, Base} => ref # None
    /\ Quiet /\ tree # None => row # None /\ Abandonable(Seen)

\* Refuted: a crash between forgetting the owner and retiring the row, or
\* before a candidate's row is retired, leaves a row that neither command
\* accepts, and the branch name cannot be used again.
\* Refuted too: the git lock is the process's own.  The Stem's cleanup, with
\* a reconciliation from the command line beside it, forgets the owner of the
\* branch that the other has deleted and then restores.
EveryBranchHasAnOwner == tip # None => ref # None
RowsAreRecoverable == Quiet /\ row # None => Abandonable(Seen) \/ AutoReconcileable(Seen)

=============================================================================
