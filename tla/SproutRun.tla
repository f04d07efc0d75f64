------------------------------- MODULE SproutRun -------------------------------
(***************************************************************************)
(* RunSprout on the operator's own checkout.  A run isolates itself on a   *)
(* branch of its own, stashes what the operator has not committed, grows   *)
(* in a linked worktree, commits there, fast-forwards the checkout, and    *)
(* undoes its preparations in reverse, however it ends.  The Stem waits    *)
(* for it no longer than the growth budget: a detached run keeps all it    *)
(* prepared until it ends, and announces its ending itself.                *)
(*                                                                         *)
(* Runs share the checkout and nothing stops two of them, or the operator, *)
(* from using it at the same time.                                         *)
(***************************************************************************)
EXTENDS Substrate

CONSTANTS
    Candidates, \* sets of runs that may be candidates of a Seed
    Awaiting,   \* does the caller of a Sprout wait for its ending: SUBSET BOOLEAN
    MaxFaults,  \* bound: commands that fail
    MaxCrashes  \* bound: deaths of the process

SproutRunAssumption ==
    /\ Candidates \subseteq SUBSET Run
    /\ Awaiting \subseteq BOOLEAN
    /\ {MaxFaults, MaxCrashes} \subseteq Nat

VARIABLES
    host,       \* the checkout
    run,        \* run[r]: what the call to RunSprout holds for run r
    written,    \* the edits the operator has made
    alone,      \* no two runs were ever under way at the same time
    faults, crashes

vars == <<host, run, written, alone, faults, crashes>>

Phase == {"idle", "isolated", "stashed", "growing", "turned", "committed",
          "recorded", "clearing", "returning", "restoring", "dropping", "over",
          "dead"}
Turn == {"none", "wrote", "idle", "broke", "failed", "timed-out", "reaped"}
Outcome == {"none", "complete", "no-changes", "failed", "timed-out", "reaped",
            "skipped"}

RunState == [phase : Phase, kind : {"sprout", "candidate"},
             from : Branch,             \* where the run was isolated from
             basis : SUBSET Run,        \* what its worktree started from
             stashed : BOOLEAN, session : BOOLEAN, detached : BOOLEAN,
             turn : Turn, committed : BOOLEAN,
             fruit : [branch : Branch \cup {"none"},
                      state : {"none", "local-only", "failed"}],
             outcome : Outcome,
             error : BOOLEAN,           \* what the run returns
             lost : BOOLEAN,            \* it could not undo a preparation
             event : {"none", "matured", "withered"}]

Asleep(k) == [phase |-> "idle", kind |-> k, from |-> Main,
              basis |-> {}, stashed |-> FALSE, session |-> FALSE,
              detached |-> FALSE, turn |-> "none",
              committed |-> FALSE,
              fruit |-> [branch |-> "none", state |-> "none"],
              outcome |-> "none", error |-> FALSE, lost |-> FALSE,
              event |-> "none"]

UnderWay(r) == run[r].phase \notin {"idle", "over", "dead"}

Init ==
    /\ host = Pristine
    /\ \E c \in Candidates :
         run = [r \in Run |-> Asleep(IF r \in c THEN "candidate" ELSE "sprout")]
    /\ written = {} /\ alone = TRUE /\ faults = 0 /\ crashes = 0

----------------------------------------------------------------------------
(* Steps of a run.  Move names what a step changes; a step that may fail   *)
(* spends one of the faults.                                               *)

Move(r, s, h) ==
    /\ run' = [run EXCEPT ![r] = s]
    /\ host' = h
    /\ UNCHANGED <<written, alone, crashes>>
Sound == UNCHANGED faults
Faulty == faults < MaxFaults /\ faults' = faults + 1

To(s, phase) == [s EXCEPT !.phase = phase]
Failing(s, phase) == [s EXCEPT !.phase = phase, !.error = TRUE]

\* publishTerminal: an outcome that was cleared, or never set, is classified
\* from the error; the event follows the outcome.
Final(s) == IF s.outcome # "none" THEN s.outcome
            ELSE IF s.error THEN "failed" ELSE "no-changes"
Event(outcome) == IF outcome \in {"complete", "no-changes", "skipped"}
                  THEN "matured" ELSE "withered"
Announced(s) ==
    [Asleep(s.kind) EXCEPT !.phase = "over", !.outcome = Final(s),
        !.event = Event(Final(s)), !.error = s.error, !.lost = s.lost,
        !.committed = s.committed, !.fruit = s.fruit]

Take(r, s, h) == run' = [run EXCEPT ![r] = s] /\ host' = h

\* A step whose status file says complete is skipped.
Skip(r, s) ==
    s.kind = "sprout" /\ Take(r, Announced([s EXCEPT !.outcome = "skipped"]), host) /\ Sound

\* The mind, the plan, the preflight or the status file refuse the run.
Refuse(r, s) == Take(r, Announced([s EXCEPT !.error = TRUE]), host) /\ Faulty

\* Branch protection; its ownership is what lets the branch be reclaimed.
BranchOff(r, s) ==
    IF Protected(host)
    THEN \/ Take(r, s, Isolated(host, r, TRUE)) /\ Sound
         \/ Take(r, [s EXCEPT !.lost = TRUE], Isolated(host, r, FALSE)) /\ Faulty
    ELSE Take(r, [s EXCEPT !.from = r], host) /\ Sound

\* The Seed's own branch stands at the revision the Seed started from.
OnSeed(r, s) ==
    Take(r, s, [host EXCEPT !.exists = @ \cup {r}, !.tip[r] = host.tip[host.head]]) /\ Sound

Call(r) ==
    LET s == [To(run[r], "isolated") EXCEPT !.from = host.head] IN
    /\ run[r].phase = "idle"
    /\ \/ Skip(r, s) \/ Refuse(r, s)
       \/ s.kind = "sprout" /\ BranchOff(r, s)
       \/ s.kind = "candidate" /\ OnSeed(r, s)
    /\ alone' = (alone /\ \A o \in Run \ {r} : ~UnderWay(o))
    /\ UNCHANGED <<written, crashes>>

Stash(r) ==
    LET s == run[r] IN
    /\ s.phase = "isolated"
    /\ IF s.kind = "sprout" /\ host.dirty # {}
       THEN \/ Move(r, [To(s, "stashed") EXCEPT !.stashed = TRUE], Stashed(host, r)) /\ Sound
            \/ Move(r, Failing(s, "clearing"), host) /\ Faulty
       ELSE Move(r, To(s, "stashed"), host) /\ Sound

\* `git worktree add --detach`, at HEAD or at the Seed's start revision.
Basis(s, r) == IF s.kind = "candidate" THEN host.tip[r] ELSE host.tip[host.head]

\* The session runs on the work's own context, not on the wait's.
Opened(s, r) == [To(s, "growing") EXCEPT !.session = TRUE, !.basis = Basis(s, r)]

\* Between the worktree and the session: the task context, the image and the
\* provider's authentication.  A failure removes the worktree again.
Plant(r) ==
    LET s == run[r] IN
    /\ s.phase = "stashed"
    /\ \/ Move(r, Opened(s, r), Planted(host, r)) /\ Sound
       \/ Move(r, Failing(s, "clearing"), host) /\ Faulty

----------------------------------------------------------------------------
(* Growing: the Sprout's turn ends by itself, or one of three clocks       *)
(* reaches it.                                                             *)

Ended(r, turn) ==
    Move(r, [To(run[r], "turned") EXCEPT !.turn = turn, !.detached = FALSE], host)

TurnEndsAttended(r) ==
    /\ run[r].phase = "growing" /\ ~run[r].detached
    /\ \E turn \in {"wrote", "idle", "broke"} : Ended(r, turn)
    /\ Sound
TurnEnds(r) ==
    /\ run[r].phase = "growing"
    /\ \E turn \in {"wrote", "idle", "broke"} : Ended(r, turn)
    /\ Sound

\* The growth budget bounds the wait.  A caller that must see the ending ends
\* the work; another detaches and leaves everything to the run.
DetachedTorn(r) == [run[r] EXCEPT !.detached = TRUE, !.session = FALSE]
Detached(r) == [run[r] EXCEPT !.detached = TRUE]
GrowthSpent(r) ==
    /\ run[r].phase = "growing" /\ ~run[r].detached
    /\ \E awaits \in IF run[r].kind = "sprout" THEN Awaiting ELSE {TRUE} :
         IF awaits THEN Ended(r, "timed-out") ELSE Move(r, Detached(r), host)
    /\ Sound

\* The reaper, and the caller's own context: both reach the work itself.  The
\* context of a request is cancelled when its handler returns, detached or not.
Reap(r) == run[r].phase = "growing" /\ Ended(r, "reaped") /\ Sound
Cancel(r) == run[r].phase = "growing" /\ Ended(r, "failed") /\ Sound

----------------------------------------------------------------------------
(* completeRun: the session is closed, the changes are measured, and work  *)
(* is committed, recorded and merged.                                      *)

Classified(turn) ==
    CASE turn = "wrote" -> "complete"
      [] turn = "idle" -> "no-changes"
      [] turn = "broke" -> "failed"
      [] OTHER -> turn

\* Only measured changes are committed, and those of a Sprout that broke after
\* writing only when they are a candidate.
Commits(s, measured) ==
    measured /\ (s.turn = "wrote" \/ (s.turn = "broke" /\ s.kind = "candidate"))

\* A measurement that fails is not a run that failed.
Measurements == IF faults < MaxFaults THEN BOOLEAN ELSE {TRUE}
Committed(s) == [To(s, "committed") EXCEPT !.committed = TRUE]
Uncommitted(s) == [Failing(s, "clearing") EXCEPT !.outcome = "none"]

Complete(r) ==
    /\ run[r].phase = "turned"
    /\ \E measured \in Measurements :
         LET s == [run[r] EXCEPT !.session = FALSE,
                                 !.outcome = Classified(run[r].turn),
                                 !.error = run[r].turn \notin {"wrote", "idle"}]
         IN  IF Commits(s, measured)
             THEN \/ Move(r, Committed(s), host) /\ Sound
                  \/ Move(r, Uncommitted(s), host) /\ Faulty
             ELSE Move(r, To(s, "clearing"), host) /\ IF measured THEN Sound ELSE Faulty

\* The Fruit is recorded on the branch the checkout is on.
Record(r) ==
    LET s == run[r] IN
    /\ s.phase = "committed" /\ s.kind = "sprout"
    /\ \/ /\ Move(r, [To(s, "recorded") EXCEPT !.fruit = [branch |-> host.head, state |-> "local-only"]], host)
          /\ Sound
       \/ Move(r, Failing(s, "clearing"), host) /\ Faulty

\* `git merge --ff-only` onto whatever the checkout is on by now.
Refused(s) == [Failing(s, "clearing") EXCEPT !.fruit.state = "failed", !.outcome = "none"]
Graft(r) ==
    LET s == run[r]
        c == s.basis \cup {r}
    IN
    /\ s.phase = "recorded"
    /\ \/ CanForward(host, c) /\ Move(r, To(s, "clearing"), Forwarded(host, c)) /\ Sound
       \/ ~CanForward(host, c) /\ Move(r, Refused(s), host) /\ Sound
       \/ Move(r, Refused(s), host) /\ Faulty      \* protected paths, edits in the way

\* A candidate becomes the Seed's ref, if nothing generated was tampered with,
\* the worktree settles and the ref is where the run found it; then its
\* worktree is removed, which may fail after the ref moved.
Tampered(s) == Uncommitted(s)
Advances(s, r) == host.tip[r] = s.basis
Integrate(r) ==
    LET s == run[r]
        moved == [host EXCEPT !.tip[r] = s.basis \cup {r}]
    IN
    /\ s.phase = "committed" /\ s.kind = "candidate"
    /\ \/ Advances(s, r) /\ Move(r, To(s, "clearing"), Uprooted(moved, r)) /\ Sound
       \/ Advances(s, r) /\ Move(r, Uncommitted(s), moved) /\ Faulty
       \/ ~Advances(s, r) /\ Move(r, Uncommitted(s), host) /\ Sound
       \/ Move(r, Tampered(s), host) /\ Faulty

----------------------------------------------------------------------------
(* Teardown, in reverse: the session and the worktree, the isolation       *)
(* branch, the stash; then the one terminal event.                         *)

\* The branch goes only if the run left nothing on it, and the checkout
\* returns to where the run found it.
ReclaimableUnfailed(s, r) == s.kind = "sprout" /\ s.from # r /\ NoWork(host, r) /\ ~s.error
Reclaimable(s, r) == s.kind = "sprout" /\ s.from # r /\ NoWork(host, r)
Clear(r) ==
    LET s == run[r] IN
    /\ s.phase = "clearing"
    /\ Move(r, [To(s, IF Reclaimable(s, r) THEN "returning" ELSE "restoring") EXCEPT !.session = FALSE],
            Uprooted(host, r))
    /\ Sound

Return(r) ==
    LET s == run[r]
        h == CheckedOut(host, s.from)
        barred == Obstructed(host, host.tip[s.from])
        kept == [To(s, "restoring") EXCEPT !.lost = TRUE]
    IN
    /\ s.phase = "returning"
    /\ \/ ~barred /\ Move(r, To(s, "restoring"), Deleted(h, r)) /\ Sound
       \/ barred /\ Move(r, kept, host) /\ Sound
       \/ ~barred /\ \E left \in {h, host} : Move(r, kept, left) /\ Faulty

\* A pop that fails leaves the entry where it is.  One failure is taken for a
\* success: files in the way of untracked ones are held to be OpenTendril's own,
\* generated again (the fault here), whoever they are of, and the entry is
\* dropped, by a second command, with what could not be laid down.
Unrestored(s) == Announced([s EXCEPT !.error = TRUE, !.lost = TRUE])
Restore(r) ==
    LET s == run[r] IN
    /\ s.phase = "restoring"
    /\ IF ~s.stashed THEN Move(r, Announced(s), host) /\ Sound
       ELSE \/ CanPop(host) /\ Overrun(host) = {} /\ Move(r, Announced(s), Popped(host)) /\ Sound
            \/ ~CanPop(host) /\ Move(r, Unrestored(s), host) /\ Sound
            \/ CanPop(host) /\ Move(r, Unrestored(s), host) /\ Faulty
            \/ /\ CanPop(host) /\ Move(r, To(s, "dropping"), Laid(host))
               /\ IF Overrun(host) = {} THEN Faulty ELSE Sound

DropRedundant(r) ==
    LET s == run[r] IN
    /\ s.phase = "dropping"
    /\ \/ CanPop(host) /\ Move(r, Announced(s), Dropped(host)) /\ Sound
       \/ ~CanPop(host) /\ Move(r, Unrestored(s), host) /\ Sound
       \/ Move(r, Unrestored(s), host) /\ Faulty

----------------------------------------------------------------------------
(* The operator, and the death of the process with every run in it.        *)

SwitchBack ==
    /\ \A r \in Run : ~UnderWay(r)
    /\ host.head # Main /\ ~Obstructed(host, host.tip[Main])
    /\ host' = CheckedOut(host, Main)
    /\ UNCHANGED <<run, written, alone, faults, crashes>>

Write ==
    /\ \E e \in Writable(host) \ written :
         /\ host' = [host EXCEPT !.dirty = @ \cup {e}]
         /\ written' = written \cup {e}
    /\ UNCHANGED <<run, alone, faults, crashes>>

Crash ==
    /\ crashes < MaxCrashes /\ crashes' = crashes + 1
    /\ \E r \in Run : UnderWay(r)
    /\ run' = [r \in Run |-> IF UnderWay(r) THEN [Asleep(run[r].kind) EXCEPT !.phase = "dead"]
                             ELSE run[r]]
    /\ UNCHANGED <<host, written, alone, faults>>

Prepare(r) == Stash(r) \/ Plant(r)
Finish(r) == Complete(r) \/ Record(r) \/ Graft(r) \/ Integrate(r)
Teardown(r) == Clear(r) \/ Return(r) \/ Restore(r) \/ DropRedundant(r)
Clocks(r) == GrowthSpent(r) \/ Reap(r) \/ Cancel(r)

Next ==
    \/ \E r \in Run : Call(r) \/ Prepare(r) \/ TurnEnds(r) \/ Clocks(r) \/ Finish(r) \/ Teardown(r)
    \/ SwitchBack \/ Write \/ Crash

\* A run that was called is executed; its turn ends, because the Terrarium's
\* watchdog is always armed.
Proceed(r) == Prepare(r) \/ TurnEnds(r) \/ Finish(r) \/ Teardown(r)
Fairness == \A r \in Run : WF_vars(Proceed(r))

Spec == Init /\ [][Next]_vars /\ Fairness

----------------------------------------------------------------------------
TypeOK ==
    /\ host \in Host
    /\ run \in [Run -> RunState]
    /\ written \subseteq Edit
    /\ alone \in BOOLEAN
    /\ faults \in 0 .. MaxFaults /\ crashes \in 0 .. MaxCrashes

\* A Sprout that grows has its worktree and its session, also after the Stem
\* stopped waiting for it: the teardown belongs to the run, not to the call.
GrowingKeepsItsGround ==
    \A r \in Run : run[r].phase = "growing" => run[r].session /\ r \in host.trees

\* A new file is lost when the Sprout it was stashed for commits one of that name.
Overwritten == {e \in Edit : \E r \in Run : run[r].committed /\ <<e, r>> \in Clashes}

\* Runs that did not overlap, however they ended, give the checkout back: the
\* operator's edits are where they were, but for overwritten new files, nothing
\* is left in the stash or in a worktree, and if no run committed the checkout
\* is on its branch again with no isolation branch left.  A run that could not
\* undo a step is excepted; one that detached is not.
CheckoutIsGivenBack ==
    alone /\ crashes = 0 /\ (\A r \in Run : ~UnderWay(r) /\ ~run[r].lost)
    => /\ host.dirty \subseteq written /\ written \ host.dirty \subseteq Overwritten
       /\ host.stash = <<>> /\ host.trees = {}
       /\ (\A r \in Run : ~run[r].committed) =>
            host.head = Main /\ \A r \in host.exists \cap Run : run[r].kind = "candidate"

\* What the operator had not committed is in the tree or in the stash at every
\* moment, over failures and the death of the process, but for a new file that
\* a Sprout's commit has too.
EditsAreKept == alone => Kept(host) \subseteq written /\ written \ Kept(host) \subseteq Overwritten

\* Stated by the comment on recoverFailedStashPop: the stash it drops is redundant.
DroppedIsRedundant == alone => Kept(host) = written

\* No run grafts onto the protected branch.
ProtectedIsUntouched == alone => host.tip[Main] = {}

\* The Fruit that a run reports stays on the branch it names.
FruitIsReachable ==
    alone => \A r \in Run :
        run[r].phase = "over" /\ run[r].fruit.state = "local-only" =>
            /\ run[r].fruit.branch \in host.exists
            /\ r \in host.tip[run[r].fruit.branch]

\* Every run that was called, waited for or not, ends with its one terminal
\* event, unless the process died.
RunEnds == \A r \in Run : UnderWay(r) ~> (run[r].event # "none" \/ run[r].phase = "dead")

\* Stated by the comment on publishSproutTerminal: a run that failed withers.
MaturedDidNotFail == \A r \in Run : run[r].event = "matured" => ~run[r].error

\* Stated by the comment on the detach: "The Stem stops waiting; the Sprout
\* keeps growing", until it ends or is reaped.
DetachedGrowsOn ==
    [][\A r \in Run : run[r].detached /\ run'[r].phase = "turned" /\ run[r].phase = "growing"
                      => run'[r].turn # "failed"]_vars
===============================================================================
