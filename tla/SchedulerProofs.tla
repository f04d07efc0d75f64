--------------------------- MODULE SchedulerProofs ---------------------------
(***************************************************************************)
(* Proofs about Scheduler for any set of schedules, any number of retries  *)
(* and any edits.  OneRunAtATime is inductive together with the types and  *)
(* two facts the actions rely on: a fire time belongs to a schedule that   *)
(* is in force, and a run that backs off has attempts left.                *)
(***************************************************************************)
EXTENDS Scheduler, TLAPS

Active == {n \in Name : entries[n] # Absent}

Scheduled == due \subseteq Active /\ ticker.todo \subseteq Active

AttemptsLeft ==
    \A w \in Busy : worker[w].at = "backoff" => worker[w].attempt <= Retries

IInv == TypeOK /\ OneRunAtATime /\ Scheduled /\ AttemptsLeft

-----------------------------------------------------------------------------

\* A step that leaves the runs alone leaves what is known about them alone.
LEMMA RunsUntouched ==
    ASSUME IInv, UNCHANGED <<inFlight, pending, worker>>
    PROVE  OneRunAtATime' /\ AttemptsLeft'
  BY DEF IInv, OneRunAtATime, AttemptsLeft, Busy, Idle

\* The initial states are in the invariant.
LEMMA InitInv == Init => IInv
<1> SUFFICES ASSUME Init PROVE IInv
  OBVIOUS
<1> USE RetriesAssumption, MaxEditsAssumption DEF Init
<1>1. PICK c \in Config \cup {Bad} : file = [mtime |-> 0, says |-> c]
  OBVIOUS
<1>2. TypeOK
  <2>1. 0 \in 0 .. MaxEdits
    OBVIOUS
  <2>2. file \in [mtime : 0 .. MaxEdits, says : Config \cup {Bad}]
    BY <1>1, <2>1
  <2>3. worker \in [Worker -> Run \cup {Absent}] /\ queuedAs \in Config
    BY DEF Config
  <2> QED
    BY <1>1, <2>1, <2>2, <2>3 DEF TypeOK
<1>3. Busy = {}
  BY DEF Busy, Idle
<1>4. OneRunAtATime /\ AttemptsLeft
  BY <1>3 DEF OneRunAtATime, AttemptsLeft
<1>5. Scheduled
  BY DEF Scheduled, Active
<1> QED
  BY <1>2, <1>4, <1>5 DEF IInv

\* The world and the ticker goroutine, except for Fire.
LEMMA TickerInv ==
    ASSUME IInv,
           \/ Edit \/ Cancel \/ (\E n \in Name : BecomeDue(n))
           \/ Tick \/ Load \/ EndTick \/ Stop
    PROVE  IInv'
<1> USE RetriesAssumption, MaxEditsAssumption
<1>1. UNCHANGED <<inFlight, pending, worker, queuedAs>>
  BY DEF Edit, Cancel, BecomeDue, Tick, Load, EndTick, Stop
<1>2. OneRunAtATime' /\ AttemptsLeft'
  BY <1>1, RunsUntouched
<1>3. ASSUME Edit PROVE TypeOK' /\ Scheduled'
  BY <1>3 DEF IInv, TypeOK, Edit, Scheduled, Active
<1>4. ASSUME Cancel PROVE TypeOK' /\ Scheduled'
  BY <1>4 DEF IInv, TypeOK, Cancel, Scheduled, Active
<1>5. ASSUME NEW n \in Name, BecomeDue(n) PROVE TypeOK' /\ Scheduled'
  BY <1>5 DEF IInv, TypeOK, BecomeDue, Scheduled, Active
<1>6. ASSUME Tick PROVE TypeOK' /\ Scheduled'
  BY <1>6 DEF IInv, TypeOK, Tick, Scheduled, Active
<1>7. ASSUME Load PROVE TypeOK' /\ Scheduled'
  BY <1>7 DEF IInv, TypeOK, Load, Scheduled, Active
<1>8. ASSUME EndTick PROVE TypeOK' /\ Scheduled'
  BY <1>8 DEF IInv, TypeOK, EndTick, Scheduled, Active
<1>9. ASSUME Stop PROVE TypeOK' /\ Scheduled'
  BY <1>9 DEF IInv, TypeOK, Stop, Scheduled, Active
<1> QED
  BY <1>2, <1>3, <1>4, <1>5, <1>6, <1>7, <1>8, <1>9 DEF IInv

\* Fire: a latch that is free is taken by a goroutine that was idle.
LEMMA FireInv ==
    ASSUME IInv, NEW n \in Name, Fire(n)
    PROVE  IInv'
<1> USE RetriesAssumption DEF IInv
<1>1. n \in Active /\ entries[n] \in Entry
  BY DEF Fire, Scheduled, TypeOK, Active, Config
<1>2. Scheduled'
  BY DEF Fire, Scheduled, Active, TypeOK
<1>3. CASE n \in inFlight
  <2>1. UNCHANGED <<inFlight, worker>> /\ pending' \subseteq inFlight
    BY <1>3 DEF Fire, OneRunAtATime
  <2>2. OneRunAtATime' /\ AttemptsLeft'
    BY <2>1 DEF OneRunAtATime, AttemptsLeft, Busy, Idle
  <2>3. TypeOK'
    BY <1>1, <1>3 DEF Fire, TypeOK, Config
  <2> QED
    BY <1>2, <2>2, <2>3
<1>4. CASE n \notin inFlight
  <2>1. PICK w \in Idle : Grow(w, n, entries[n])
    BY <1>4 DEF Fire
  <2>2. inFlight' = inFlight \cup {n} /\ UNCHANGED <<pending, queuedAs>>
    BY <1>4 DEF Fire
  <2>3. /\ worker' = [worker EXCEPT ![w] = [name |-> n, entry |-> entries[n],
                                            at |-> "fire", attempt |-> 1]]
        /\ worker \in [Worker -> Run \cup {Absent}]
        /\ w \in Worker /\ w \notin Busy
    BY <2>1 DEF Grow, TypeOK, Idle, Busy
  <2>4. worker'[w].name = n /\ worker'[w].at = "fire"
    BY <2>3
  <2>5. \A v \in Worker : v # w => worker'[v] = worker[v]
    BY <2>3
  <2>6. worker'[w] \in Run
    BY <1>1, <2>3 DEF Run
  <2>7. worker'[w] # Absent
    BY <2>6, AbsentAssumption
  <2>8. Busy' = Busy \cup {w}
    BY <2>3, <2>5, <2>7 DEF Busy, Idle
  <2>9. \A v \in Busy : v # w /\ worker'[v] = worker[v] /\ worker[v].name # n
    BY <1>4, <2>3, <2>5 DEF OneRunAtATime, Busy
  <2>10. \A u, v \in Busy' : worker'[u].name = worker'[v].name => u = v
    BY <2>4, <2>8, <2>9 DEF OneRunAtATime
  <2>11. inFlight' = {worker'[v].name : v \in Busy'}
    BY <2>2, <2>4, <2>8, <2>9 DEF OneRunAtATime
  <2>12. pending' \subseteq inFlight'
    BY <2>2 DEF OneRunAtATime
  <2>13. AttemptsLeft'
    BY <2>4, <2>8, <2>9 DEF AttemptsLeft
  <2>14. worker' \in [Worker -> Run \cup {Absent}]
    BY <2>3, <2>6
  <2>15. TypeOK'
    BY <2>2, <2>14 DEF Fire, TypeOK
  <2> QED
    BY <1>2, <2>15, <2>10, <2>11, <2>12, <2>13 DEF OneRunAtATime
<1> QED
  BY <1>3, <1>4

\* A run goroutine that moves on without changing its name stays in the latch.
LEMMA RunMoves ==
    ASSUME IInv, NEW w \in Busy, NEW r \in Run,
           r.name = worker[w].name,
           r.at = "backoff" => r.attempt <= Retries,
           worker' = [worker EXCEPT ![w] = r],
           inFlight' = inFlight, pending' \subseteq pending
    PROVE  /\ OneRunAtATime' /\ AttemptsLeft'
           /\ worker' \in [Worker -> Run \cup {Absent}]
<1> USE DEF IInv
<1>1. worker \in [Worker -> Run \cup {Absent}] /\ w \in Worker
  BY DEF TypeOK, Busy
<1>2. worker'[w] = r /\ \A v \in Worker : v # w => worker'[v] = worker[v]
  BY <1>1
<1>3. r # Absent
  BY AbsentAssumption
<1>4. Busy' = Busy
  BY <1>1, <1>2, <1>3 DEF Busy, Idle
<1>5. \A v \in Busy : worker'[v].name = worker[v].name
  BY <1>2 DEF Busy
<1>6. {worker'[v].name : v \in Busy'} = {worker[v].name : v \in Busy}
  BY <1>4, <1>5
<1>7. OneRunAtATime'
  BY <1>4, <1>5, <1>6 DEF OneRunAtATime
<1>8. AttemptsLeft'
  BY <1>2, <1>4 DEF AttemptsLeft, Busy
<1> QED
  BY <1>1, <1>7, <1>8

\* What else a run goroutine may change is typed as before.
LEMMA RunTypes ==
    ASSUME IInv, worker' \in [Worker -> Run \cup {Absent}],
           inFlight' \subseteq inFlight, pending' \subseteq pending,
           queuedAs' \in Config,
           UNCHANGED <<file, seen, entries, due, ticker, cancelled>>
    PROVE  TypeOK' /\ Scheduled'
  BY DEF IInv, TypeOK, Scheduled, Active

\* growOnce: the goroutine keeps its name, and backs off only while it has
\* attempts left.
LEMMA AttemptInv ==
    ASSUME IInv, NEW w \in Worker, Attempt(w)
    PROVE  IInv'
<1> USE RetriesAssumption
<1>1. w \in Busy /\ worker[w] \in Run /\ worker \in [Worker -> Run \cup {Absent}]
  BY DEF IInv, TypeOK, Attempt, At, Busy, Idle
<1>2. PICK step \in {"finished", "backoff"} :
          /\ worker' = [worker EXCEPT ![w] = [worker[w] EXCEPT !.at = step]]
          /\ step = "backoff" => worker[w].attempt <= Retries
  BY <1>1 DEF Attempt, GoTo
<1> DEFINE r == [worker[w] EXCEPT !.at = step]
<1>3. /\ r \in Run /\ r.name = worker[w].name
      /\ r.at = "backoff" => r.attempt <= Retries
  BY <1>1, <1>2 DEF Run
<1>4. UNCHANGED <<inFlight, pending, queuedAs, file, seen, entries, due, ticker,
                  cancelled>>
  BY DEF Attempt
<1> HIDE DEF r
<1>5. worker' = [worker EXCEPT ![w] = r]
  BY <1>2 DEF r
<1>6. OneRunAtATime' /\ AttemptsLeft' /\ worker' \in [Worker -> Run \cup {Absent}]
  BY <1>1, <1>3, <1>4, <1>5, RunMoves
<1>7. TypeOK' /\ Scheduled'
  BY <1>4, <1>6, RunTypes DEF IInv, TypeOK
<1> QED
  BY <1>6, <1>7 DEF IInv

\* The next attempt, under the same latch; its number stays in range because
\* only a goroutine with attempts left backed off.
LEMMA BackoffInv ==
    ASSUME IInv, NEW w \in Worker, Backoff(w)
    PROVE  IInv'
<1> USE RetriesAssumption
<1>1. w \in Busy /\ worker[w] \in Run /\ worker \in [Worker -> Run \cup {Absent}]
  BY DEF IInv, TypeOK, Backoff, At, Busy, Idle
<1>2. worker[w].attempt <= Retries
  BY <1>1 DEF IInv, AttemptsLeft, Backoff, At
<1>3. PICK r \in {[worker[w] EXCEPT !.at = "finished"],
                  [worker[w] EXCEPT !.at = "fire", !.attempt = @ + 1]} :
          worker' = [worker EXCEPT ![w] = r]
  BY <1>1 DEF Backoff, GoTo
<1>4. r \in Run /\ r.name = worker[w].name /\ r.at # "backoff"
  <2>1. CASE r = [worker[w] EXCEPT !.at = "finished"]
    BY <1>1, <2>1 DEF Run
  <2>2. CASE r = [worker[w] EXCEPT !.at = "fire", !.attempt = @ + 1]
    <3>1. worker[w].attempt + 1 \in 1 .. Retries + 1
      BY <1>1, <1>2 DEF Run
    <3>2. r = [name |-> worker[w].name, entry |-> worker[w].entry, at |-> "fire",
               attempt |-> worker[w].attempt + 1]
      BY <1>1, <2>2 DEF Run
    <3> QED
      BY <1>1, <3>1, <3>2 DEF Run
  <2> QED
    BY <1>3, <2>1, <2>2
<1>5. UNCHANGED <<inFlight, pending, queuedAs, file, seen, entries, due, ticker,
                  cancelled>>
  BY DEF Backoff
<1>6. OneRunAtATime' /\ AttemptsLeft' /\ worker' \in [Worker -> Run \cup {Absent}]
  BY <1>1, <1>3, <1>4, <1>5, RunMoves
<1>7. TypeOK' /\ Scheduled'
  BY <1>5, <1>6, RunTypes DEF IInv, TypeOK
<1> QED
  BY <1>6, <1>7 DEF IInv

\* Release, draining: the same goroutine starts over under the same latch.
\* Release, letting go: by the uniqueness of the runs nobody else holds the name
\* that leaves the latch.
LEMMA ReleaseInv ==
    ASSUME IInv, NEW w \in Worker, Release(w)
    PROVE  IInv'
<1> USE RetriesAssumption
<1> DEFINE n == worker[w].name
<1>1. w \in Busy /\ worker[w] \in Run /\ worker \in [Worker -> Run \cup {Absent}]
  BY DEF IInv, TypeOK, Release, At, Busy, Idle
<1>2. n \in Name /\ worker[w].entry \in Entry
  BY <1>1 DEF Run
<1>3. /\ pending' = pending \ {n}
      /\ queuedAs' = [queuedAs EXCEPT ![n] = Absent]
      /\ UNCHANGED <<file, seen, entries, due, ticker, cancelled>>
  BY DEF Release
<1>4. queuedAs' \in Config /\ pending' \subseteq pending
  BY <1>2, <1>3 DEF IInv, TypeOK, Config
<1>5. CASE Grow(w, n, worker[w].entry) /\ UNCHANGED inFlight
  <2> DEFINE r == [name |-> n, entry |-> worker[w].entry, at |-> "fire",
                   attempt |-> 1]
  <2>1. r \in Run /\ r.name = worker[w].name /\ r.at # "backoff"
    BY <1>2 DEF Run
  <2>2. worker' = [worker EXCEPT ![w] = r]
    BY <1>5 DEF Grow
  <2> HIDE DEF r
  <2>3. OneRunAtATime' /\ AttemptsLeft' /\ worker' \in [Worker -> Run \cup {Absent}]
    BY <1>1, <1>4, <1>5, <2>1, <2>2, RunMoves
  <2>4. TypeOK' /\ Scheduled'
    BY <1>3, <1>4, <1>5, <2>3, RunTypes
  <2> QED
    BY <2>3, <2>4 DEF IInv
<1>6. CASE /\ inFlight' = inFlight \ {n}
           /\ worker' = [worker EXCEPT ![w] = Absent]
  <2>1. worker'[w] = Absent /\ \A v \in Worker : v # w => worker'[v] = worker[v]
    BY <1>1, <1>6
  <2>2. Busy' = Busy \ {w}
    BY <2>1 DEF Busy, Idle
  <2>3. \A v \in Busy' : v \in Busy /\ worker'[v] = worker[v]
                         /\ worker[v].name # n
    BY <1>1, <2>1, <2>2 DEF IInv, OneRunAtATime, Busy
  <2>4. \A u, v \in Busy' : worker'[u].name = worker'[v].name => u = v
    BY <2>3 DEF IInv, OneRunAtATime
  <2>5. inFlight' = {worker'[v].name : v \in Busy'}
    BY <1>6, <2>2, <2>3 DEF IInv, OneRunAtATime
  <2>6. pending' \subseteq inFlight'
    BY <1>3, <1>6 DEF IInv, OneRunAtATime
  <2>7. AttemptsLeft'
    BY <2>3 DEF IInv, AttemptsLeft
  <2>8. worker' \in [Worker -> Run \cup {Absent}] /\ inFlight' \subseteq inFlight
    BY <1>1, <1>6
  <2>9. TypeOK' /\ Scheduled'
    BY <1>3, <1>4, <2>8, RunTypes
  <2> QED
    BY <2>4, <2>5, <2>6, <2>7, <2>9 DEF IInv, OneRunAtATime
<1> QED
  BY <1>5, <1>6 DEF Release

-----------------------------------------------------------------------------

\* The invariant holds in every reachable state.
THEOREM Invariance == Spec => []IInv
<1>1. Init => IInv
  BY InitInv
<1>2. IInv /\ [Next]_vars => IInv'
  <2> SUFFICES ASSUME IInv, [Next]_vars PROVE IInv'
    OBVIOUS
  <2>1. ASSUME NEW n \in Name, Fire(n) PROVE IInv'
    BY <2>1, FireInv
  <2>2. CASE \/ Edit \/ Cancel \/ (\E n \in Name : BecomeDue(n))
             \/ Tick \/ Load \/ EndTick \/ Stop
    BY <2>2, TickerInv
  <2>3. ASSUME NEW w \in Worker, Attempt(w) PROVE IInv'
    BY <2>3, AttemptInv
  <2>4. ASSUME NEW w \in Worker, Backoff(w) PROVE IInv'
    BY <2>4, BackoffInv
  <2>5. ASSUME NEW w \in Worker, Release(w) PROVE IInv'
    BY <2>5, ReleaseInv
  <2>6. CASE UNCHANGED vars
    BY <2>6 DEF vars, IInv, TypeOK, OneRunAtATime, Scheduled, AttemptsLeft,
                Active, Busy, Idle
  <2> QED
    BY <2>1, <2>2, <2>3, <2>4, <2>5, <2>6 DEF Next
<1> QED
  BY <1>1, <1>2, PTL DEF Spec

\* Every variable keeps its type; in particular no run makes more than
\* Retries + 1 attempts (growOnce).
THEOREM TypeCorrectness == Spec => []TypeOK
  BY Invariance, PTL DEF IInv

\* Two runs of one schedule never overlap and the latch is held exactly by the
\* goroutines that grow (fire), whatever the number of schedules and retries.
THEOREM RunsNeverOverlap == Spec => []OneRunAtATime
  BY Invariance, PTL DEF IInv

\* A fire that was queued is grown when the run before it ends, or dropped by
\* the shutdown, and never otherwise lost (fire's drain).
THEOREM QueuedFiresAreGrown == Spec => QueuedFireIsGrown
<1>1. IInv /\ [Next]_vars =>
        [\A n \in pending \ pending' :
            \/ cancelled
            \/ \E w \in Busy : worker[w].name = n
                               /\ Grow(w, n, worker[w].entry)]_vars
  <2> SUFFICES ASSUME IInv, Next, NEW n \in pending \ pending', ~cancelled
               PROVE  \E w \in Busy : worker[w].name = n
                                      /\ Grow(w, n, worker[w].entry)
    BY DEF vars
  <2>1. PICK w \in Worker : Release(w)
    BY DEF Next, Edit, Cancel, BecomeDue, Fire, Tick, Load, EndTick, Stop,
           Attempt, Backoff
  <2>2. n = worker[w].name /\ w \in Busy
    BY <2>1 DEF Release, At, Busy, Idle
  <2>3. Grow(w, n, worker[w].entry)
    BY <2>1, <2>2 DEF Release
  <2> QED
    BY <2>2, <2>3
<1> QED
  BY <1>1, Invariance, PTL DEF Spec, QueuedFireIsGrown

\* The schedules in force change only to what a file that loads says as a whole
\* (maybeReloadConfig).
THEOREM ReloadsAreWholesale == Spec => ReloadIsWholesale
<1>1. [Next]_vars =>
        [entries' # entries => file.says # Bad /\ entries' = file.says]_vars
  BY DEF Next, vars, Edit, Cancel, BecomeDue, Fire, Tick, Load, EndTick, Stop,
         Attempt, Backoff, Release
<1> QED
  BY <1>1, PTL DEF Spec, ReloadIsWholesale

=============================================================================
