------------------------------- MODULE Sequence -------------------------------
(***************************************************************************)
(* The sequence runner: a DAG of steps stored in a YAML file, run with a   *)
(* concurrency limit, a failure policy, retries, a pause that an operator  *)
(* resolves in the file, and steps that are added while it runs.           *)
(*                                                                         *)
(* The file is the checkpoint: a run that ended, or whose process died, is *)
(* resumed by running the file again.  A runner works on its own copy and  *)
(* saves the whole copy after every change.  What a step does is outside:  *)
(* it ends well, fails, times out or asks for a review.                    *)
(***************************************************************************)
EXTENDS Naturals, FiniteSets, Sequences, TLC

CONSTANTS
    Runner,         \* processes that run this sequence
    Authored,       \* sequence of the steps in the file
    Spare,          \* ids of the steps that can be added while it runs
    After,          \* After[s]: what an authored step depends on
    Verifier,       \* steps whose failure buds a Debugger
    Meristem,       \* steps whose output may hold new steps
    Wants,          \* what a new step may depend on
    Modes,          \* the onFailure modes the file may start with
    Limit,          \* concurrencyLimit
    MaxRetries,     \* retry budget of a step
    DebuggerLimit,  \* 3 in the code: nesting and number of Debuggers
    MaxFaults,      \* bound: saves that fail
    MaxStarts,      \* bound: runs of the file
    MaxEdits        \* bound: edits by the operator

Step == {Authored[i] : i \in DOMAIN Authored} \cup Spare

SequenceAssumption ==
    /\ After \in [{Authored[i] : i \in DOMAIN Authored} -> SUBSET Step]
    /\ Verifier \cup Meristem \subseteq Step
    /\ Wants \subseteq SUBSET {Authored[i] : i \in DOMAIN Authored}
    /\ Modes \subseteq {"halt", "retry", "pause"}
    /\ {Limit, MaxRetries, DebuggerLimit} \subseteq Nat \ {0}
    /\ {MaxFaults, MaxStarts, MaxEdits} \subseteq Nat

VARIABLES
    file,       \* the sequence as it is on disk
    run,        \* run[r]: what runner r has in memory
    faults, starts, edits

vars == <<file, run, faults, starts, edits>>

----------------------------------------------------------------------------
(* A sequence and what a runner derives from it.                           *)

Status == {"none", "pending", "complete", "failed"}

\* `debuggers` is what the id of a Debugger tells: how many it is nested in.
Document == [mode : {"halt", "retry", "pause"}, steps : Seq(Step),
             status : [Step -> Status], deps : [Step -> SUBSET Step],
             debuggers : [Step -> Nat], verifier : SUBSET Step]

Ids(d) == {d.steps[i] : i \in DOMAIN d.steps}
Done(d) == {s \in Ids(d) : d.status[s] = "complete"}
Missing(d, s) == d.deps[s] \ Done(d)
Index(d, s) == CHOOSE i \in DOMAIN d.steps : d.steps[i] = s

\* sortReady: the order of the file decides who is dispatched first.
Sorted(d, ready) == SortSeq(ready, LAMBDA a, b : Index(d, a) < Index(d, b))

\* A budget is given once per step, and only in retry mode.
Budgets(d, tries) ==
    IF d.mode # "retry" THEN tries
    ELSE [s \in Ids(d) \cup DOMAIN tries |->
             IF s \in DOMAIN tries THEN tries[s] ELSE MaxRetries]

\* The id of the next step that is added; none when the bound is reached.
NewId(d) == IF Spare \subseteq Ids(d) THEN {}
            ELSE {CHOOSE n \in Spare : n \notin Ids(d)}

Idle == [pc |-> "idle"]
Active(r) == run[r].pc \in {"loop", "pause"}

\* MUTANT: a resumed run starts over.
RunnableAll(d) == {s \in Ids(d) : Missing(d, s) = {}}
\* The runner built from a file: counters, ready queue, retry budgets.
Runnable(d) == {s \in Ids(d) : d.status[s] # "complete" /\ Missing(d, s) = {}}
\* MUTANT: a failed step is counted as done.
FreshFailedDone(d, interactive) ==
    [pc |-> "loop", seq |-> d, interactive |-> interactive,
     ready |-> SelectSeq(d.steps, LAMBDA s : s \in Runnable(d)),
     queued |-> Runnable(d), left |-> [s \in Step |-> Cardinality(Missing(d, s))],
     tries |-> Budgets(d, <<>>),
     completed |-> Cardinality({s \in Ids(d) : d.status[s] # "pending"}),
     flight |-> {}, paused |-> <<>>]
Fresh(d, interactive) ==
    [pc |-> "loop", seq |-> d, interactive |-> interactive,
     ready |-> SelectSeq(d.steps, LAMBDA s : s \in Runnable(d)),
     queued |-> Runnable(d), left |-> [s \in Step |-> Cardinality(Missing(d, s))],
     tries |-> Budgets(d, <<>>), completed |-> Cardinality(Done(d)),
     flight |-> {}, paused |-> <<>>]

Init ==
    /\ \E m \in Modes :
          file = [mode |-> m, steps |-> Authored,
                  status |-> [s \in Step |-> IF s \in Spare THEN "none" ELSE "pending"],
                  deps |-> [s \in Step |-> IF s \in Spare THEN {} ELSE After[s]],
                  debuggers |-> [s \in Step |-> 0], verifier |-> Verifier]
    /\ run = [r \in Runner |-> Idle]
    /\ faults = 0 /\ starts = 0 /\ edits = 0

----------------------------------------------------------------------------
(* Helpers of the actions.  `u` is the runner's record after the change.   *)

\* The run returns; drainInFlight follows.
Over(outcome) == [pc |-> "drain", outcome |-> outcome]

\* SaveSequence and then go on with u, or return its error.
SaveThen(r, saved, u) ==
    \/ /\ file' = saved
       /\ run' = [run EXCEPT ![r] = u]
       /\ UNCHANGED faults
    \/ /\ faults < MaxFaults
       /\ faults' = faults + 1
       /\ run' = [run EXCEPT ![r] = Over("error")]
       /\ UNCHANGED file

Return(r, outcome) ==
    /\ run' = [run EXCEPT ![r] = Over(outcome)]
    /\ UNCHANGED <<file, faults>>

WithStatus(u, s, st) == [u EXCEPT !.seq.status[s] = st]

\* Put a step in the ready queue.
Enqueue(u, S) ==
    LET new == SelectSeq(u.seq.steps, LAMBDA s : s \in S) IN
    [u EXCEPT !.ready = Sorted(u.seq, u.ready \o new), !.queued = @ \cup S]

\* completeStep: the status is saved before the dependents are released.
Completed(u, s) ==
    [WithStatus(u, s, "complete") EXCEPT !.completed = @ + 1]
\* MUTANT: a dependent is released by the first dependency that completes.
ReleasedByFirst(u, s) ==
    Enqueue(u, {x \in Ids(u.seq) : /\ s \in u.seq.deps[x]
                                   /\ u.seq.status[x] # "complete"
                                   /\ x \notin u.queued})
Released(u, s) ==
    LET waiting == {x \in Ids(u.seq) : s \in u.seq.deps[x]}
        v == [u EXCEPT !.left = [x \in Step |-> IF x \in waiting /\ @[x] > 0
                                                THEN @[x] - 1 ELSE @[x]]]
    IN Enqueue(v, {x \in waiting : /\ v.left[x] = 0
                                   /\ v.seq.status[x] # "complete"
                                   /\ x \notin v.queued})
CompleteStep(r, u, s) ==
    LET v == Completed(u, s) IN SaveThen(r, v.seq, Released(v, s))

\* MUTANT: a new step that could run at once is not queued.
AppendedUnqueued(u, new, deps) ==
    LET d == [u.seq EXCEPT !.steps = @ \o new,
                 !.status = [s \in Step |-> IF \E i \in DOMAIN new : new[i] = s
                                            THEN "pending" ELSE @[s]],
                 !.deps = [s \in Step |-> IF s \in DOMAIN deps THEN deps[s] ELSE @[s]]]
    IN [u EXCEPT !.seq = d, !.tries = Budgets(d, @),
           !.left = [s \in Step |-> IF s \in DOMAIN deps
                                    THEN Cardinality(Missing(d, s)) ELSE @[s]]]
\* appendDynamicSteps, for new steps whose ids and dependencies are valid.
Appended(u, new, deps) ==
    LET d == [u.seq EXCEPT !.steps = @ \o new,
                 !.status = [s \in Step |-> IF \E i \in DOMAIN new : new[i] = s
                                            THEN "pending" ELSE @[s]],
                 !.deps = [s \in Step |-> IF s \in DOMAIN deps THEN deps[s] ELSE @[s]]]
        v == [u EXCEPT !.seq = d, !.tries = Budgets(d, @),
                 !.left = [s \in Step |-> IF s \in DOMAIN deps
                                          THEN Cardinality(Missing(d, s)) ELSE @[s]]]
    IN Enqueue(v, {s \in DOMAIN deps : Missing(d, s) = {}})

----------------------------------------------------------------------------
(* Starting and dispatching.                                               *)

\* LoadSequence, newSequenceRunner, and the save with which run begins.
Start(r) ==
    /\ run[r] = Idle
    /\ starts < MaxStarts
    /\ starts' = starts + 1
    /\ \E interactive \in BOOLEAN :
          LET u == Fresh(file, interactive) IN
          IF u.ready = <<>> /\ Done(file) # Ids(file)
          THEN Return(r, "error")
          ELSE SaveThen(r, file, u)
    /\ UNCHANGED edits

CanDispatch(u) == u.ready # <<>> /\ Cardinality(u.flight) < Limit

Dispatch(r) ==
    LET u == run[r] IN
    /\ u.pc = "loop"
    /\ CanDispatch(u)
    /\ run' = [run EXCEPT ![r] = [u EXCEPT !.ready = Tail(@),
                                           !.queued = @ \ {Head(u.ready)},
                                           !.flight = @ \cup {Head(u.ready)}]]
    /\ UNCHANGED <<file, faults, starts, edits>>

\* Everything is complete: a last save.
Finish(r) ==
    LET u == run[r] IN
    /\ u.pc = "loop"
    /\ ~ CanDispatch(u)
    /\ u.completed = Len(u.seq.steps)
    /\ SaveThen(r, u.seq, Over("complete"))
    /\ UNCHANGED <<starts, edits>>

Stalled(u) == u.flight = {} /\ u.ready = <<>>

Stall(r) ==
    LET u == run[r] IN
    /\ u.pc = "loop"
    /\ u.completed # Len(u.seq.steps)
    /\ Stalled(u)
    /\ Return(r, "stalled")
    /\ UNCHANGED <<starts, edits>>

\* The runner has dispatched what it can and waits for a worker.  That a
\* worker sends its result and that the runner receives it is one step here:
\* nothing else looks at the channel, which holds as many as there are steps.
Waits(u) ==
    /\ u.pc = "loop"
    /\ ~ CanDispatch(u)
    /\ u.completed # Len(u.seq.steps)
    /\ ~ Stalled(u)
Receives(r, s) == Waits(run[r]) /\ s \in run[r].flight

Received(u, s) == [u EXCEPT !.flight = @ \ {s}, !.queued = @ \ {s}]

----------------------------------------------------------------------------
(* Results.                                                                *)

\* A Meristem's output may hold new steps; bad ones end the run.  Output that
\* is no JSON, or empty, adds nothing.
Succeed(r, s) ==
    LET u == Received(run[r], s) IN
    /\ Receives(r, s)
    /\ \/ CompleteStep(r, u, s)
       \/ /\ s \in Meristem
          /\ \/ Return(r, "error")
             \/ \E n \in NewId(u.seq), d \in Wants :
                   CompleteStep(r, Appended(u, <<n>>, n :> d), s)
    /\ UNCHANGED <<starts, edits>>

\* A step that needs a review stops the loop until somebody decides.
AskReview(r, s) ==
    LET u == WithStatus(Received(run[r], s), s, "failed") IN
    /\ Receives(r, s)
    /\ SaveThen(r, u.seq, [u EXCEPT !.pc = "pause", !.paused = <<s, u.seq.mode>>])
    /\ UNCHANGED <<starts, edits>>

\* shouldBudRecursiveDebugger: by the step's name and its dependencies.
Buds(d, s) ==
    /\ s \in d.verifier
    /\ d.debuggers[s] < DebuggerLimit
    /\ Cardinality({x \in d.deps[s] : d.debuggers[x] > 0}) < DebuggerLimit

\* The Debugger is appended and the failed step waits for it.
BudDebugger(r, s) ==
    LET u == WithStatus(Received(run[r], s), s, "failed") IN
    /\ Receives(r, s)
    /\ Buds(u.seq, s)
    /\ \E n \in NewId(u.seq) :
          LET v == Appended(u, <<n>>, n :> {})
              w == [WithStatus(v, s, "pending") EXCEPT
                       !.seq.deps[s] = @ \cup {n}, !.left[s] = @ + 1,
                       !.seq.debuggers[n] = u.seq.debuggers[s] + 1,
                       !.seq.verifier = @ \cup {n}]
          IN SaveThen(r, w.seq, w)
    /\ UNCHANGED <<starts, edits>>

\* decideFailureAction: what the mode makes of a failure.
Action(mode, left, kind) ==
    IF mode # "retry" THEN mode
    ELSE IF kind = "timeout" THEN "halt"
    ELSE IF left > 0 THEN "retry" ELSE "exhausted"

\* MUTANT: a retry is not counted.
SpentNothing(tries, s) == tries
\* retriesLeft[s]--
Spent(tries, s) == [tries EXCEPT ![s] = @ - 1]

\* The failure is saved, then what the policy makes of it: one save here, as a
\* later run treats a failed and a pending step alike.
Fail(r, s, kind) ==
    LET u == WithStatus(Received(run[r], s), s, "failed")
        tries == IF s \in DOMAIN u.tries THEN u.tries[s] ELSE 0
        act == Action(u.seq.mode, tries, kind)
        again == Enqueue([WithStatus(u, s, "pending") EXCEPT
                             !.tries = Spent(@, s)], {s})
    IN
    /\ Receives(r, s)
    /\ kind \in {"fail", "timeout"}
    /\ ~ (Buds(u.seq, s) /\ NewId(u.seq) # {})
    /\ CASE act = "retry" -> SaveThen(r, again.seq, again)
         [] act = "pause" ->
               SaveThen(r, u.seq, [u EXCEPT !.pc = "pause", !.paused = <<s, "pause">>])
         [] OTHER -> SaveThen(r, u.seq, Over(act))
    /\ UNCHANGED <<starts, edits>>

----------------------------------------------------------------------------
(* The pause.  At a terminal the operator answers; else the file is polled *)
(* for the mode and the status of the paused step, and for nothing else.   *)

Retried(r, u, s) ==
    LET v == Enqueue(WithStatus([u EXCEPT !.pc = "loop"], s, "pending"), {s})
    IN SaveThen(r, v.seq, v)

Answered(r) ==
    LET u == run[r] IN
    /\ u.pc = "pause"
    /\ u.interactive
    /\ Retried(r, u, u.paused[1]) \/ Return(r, "halt")
    /\ UNCHANGED <<starts, edits>>

Polled(r) ==
    LET u == run[r]
        s == u.paused[1]
        changed == [u EXCEPT !.seq.mode = file.mode]
        v == [changed EXCEPT !.tries = Budgets(changed.seq, @)]
    IN
    /\ u.pc = "pause"
    /\ ~ u.interactive
    /\ CASE file.status[s] = "complete" -> CompleteStep(r, [u EXCEPT !.pc = "loop"], s)
         [] file.status[s] = "pending" -> Retried(r, u, s)
         [] file.status[s] = "failed" /\ file.mode # u.paused[2] ->
               IF file.mode = "retry" THEN Retried(r, v, s)
               ELSE Return(r, "halt")
         [] OTHER -> FALSE
    /\ UNCHANGED <<starts, edits>>

\* The operator edits the file of a paused run: the mode, or the paused step.
Edit(r) ==
    /\ run[r].pc = "pause"
    /\ edits < MaxEdits
    /\ edits' = edits + 1
    /\ \/ \E m \in {"halt", "retry", "pause"} : file' = [file EXCEPT !.mode = m]
       \/ \E st \in {"pending", "complete"} :
             file' = [file EXCEPT !.status[run[r].paused[1]] = st]
    /\ UNCHANGED <<run, faults, starts>>

----------------------------------------------------------------------------
(* Ends.                                                                   *)

Cancel(r) ==
    /\ Waits(run[r]) \/ run[r].pc = "pause"
    /\ Return(r, "cancelled")
    /\ UNCHANGED <<starts, edits>>

\* drainInFlight: every worker has answered, or the grace period is over.
\* What they answer is not recorded any more.
Drain(r) ==
    /\ run[r].pc = "drain"
    /\ run' = [run EXCEPT ![r] = Idle]
    /\ UNCHANGED <<file, faults, starts, edits>>

\* The process dies: the file is all that is left.
Crash(r) ==
    /\ Active(r)
    /\ run' = [run EXCEPT ![r] = Idle]
    /\ UNCHANGED <<file, faults, starts, edits>>

Advance(r) ==
    \/ Dispatch(r) \/ Finish(r) \/ Stall(r) \/ Polled(r) \/ Drain(r)
    \/ \E s \in Step :
          \/ Succeed(r, s) \/ AskReview(r, s) \/ BudDebugger(r, s)
          \/ \E kind \in {"fail", "timeout"} : Fail(r, s, kind)

Next ==
    \E r \in Runner :
       Start(r) \/ Advance(r) \/ Answered(r) \/ Edit(r) \/ Cancel(r) \/ Crash(r)

\* The runner's loop runs on, and a step ends: its context bounds it.
Fairness == \A r \in Runner : WF_vars(Advance(r))

Spec == Init /\ [][Next]_vars /\ Fairness

----------------------------------------------------------------------------
(* Properties.                                                             *)

TypeOK ==
    /\ file \in Document
    /\ \A r \in Runner : Active(r) => run[r].seq \in Document
    /\ faults \in 0..MaxFaults /\ starts \in 0..MaxStarts /\ edits \in 0..MaxEdits

\* A step is started once its dependencies are complete, those added while it
\* waited included, and it is queued or started once at a time: the counters
\* of missing dependencies and the queue are kept by hand at every change.
DependenciesFirst ==
    \A r \in Runner : Active(r) =>
       LET u == run[r] IN
       /\ \A s \in u.flight : Missing(u.seq, s) = {} /\ u.seq.status[s] # "complete"
       /\ \A i \in DOMAIN u.ready :
             /\ u.ready[i] \notin u.flight
             /\ \A j \in DOMAIN u.ready : u.ready[i] = u.ready[j] => i = j

\* No run ends because nothing can be run although steps are left: whatever
\* is added, retried, reviewed or resolved, some step is queued or started.
NeverStalls ==
    \A r \in Runner : run[r] # Over("stalled")

\* The file is a checkpoint to resume from at any moment: what it calls
\* complete rests on complete steps, and a run that reports success left
\* every step complete in it.
SavedIsClosed ==
    /\ \A s \in Done(file) : Missing(file, s) = {}
    /\ \A r \in Runner : run[r] = Over("complete") => Done(file) = Ids(file)

\* What the file calls complete is not run again, not by a later run either.
CompleteIsNotRerun ==
    [][\A r \in Runner : Active(r) /\ Active(r)' =>
          \A s \in run'[r].flight \ run[r].flight : file.status[s] # "complete"]_vars

\* What the file calls complete stays so.  Refuted when two processes run one
\* sequence: each saves its own copy of the whole.
CompleteStaysComplete ==
    [][\A s \in Step : file.status[s] = "complete" => file'.status[s] = "complete"]_vars

\* A run ends, or waits for the operator: no counter of retries, queue or
\* dependency keeps it waiting for ever.
RunEnds ==
    \A r \in Runner : (run[r].pc = "loop") ~> (run[r].pc # "loop")
===============================================================================
