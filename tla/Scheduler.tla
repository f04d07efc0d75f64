----------------------------- MODULE Scheduler -----------------------------
(***************************************************************************)
(* scheduler.Scheduler: a ticker goroutine that re-reads schedules.yaml    *)
(* and fires due entries, and one goroutine per run that grows an entry,   *)
(* retries it and then drains at most one queued fire.  Only inFlight and  *)
(* pending are shared, under mu.                                           *)
(***************************************************************************)
EXTENDS Naturals, FiniteSets

CONSTANTS
    Name,      \* schedule names
    Entry,     \* what a schedule may say
    Queue,     \* the entries with overlap: queue; the others say skip
    Worker,    \* run goroutines
    Retries,   \* retries of every entry
    MaxEdits,  \* bound on edits of the configuration file
    Absent,    \* no schedule of that name, no goroutine
    Bad        \* a file that does not load

Config == [Name -> Entry \cup {Absent}]

\* A run is at its attempt-th call of the Firer, or waits after it, or is over.
Run == [name : Name, entry : Entry, at : {"fire", "backoff", "finished"},
        attempt : 1 .. Retries + 1]

ASSUME QueueAssumption == Queue \subseteq Entry
ASSUME RetriesAssumption == Retries \in Nat
ASSUME MaxEditsAssumption == MaxEdits \in Nat
ASSUME AbsentAssumption == Absent \notin Entry \cup Run
ASSUME BadAssumption == Bad \notin Config

VARIABLES
    file,       \* schedules.yaml: its mtime and what it says
    seen,       \* lastConfigModTime
    entries,    \* the schedules in force
    due,        \* schedules whose fire time has arrived
    ticker,     \* the ticker goroutine: where it is, and whom it has to fire
    inFlight, pending,
    worker,     \* the run goroutines
    queuedAs,   \* ghost: the entry whose fire is pending, per name
    cancelled   \* the daemon's context is done

vars == <<file, seen, entries, due, ticker, inFlight, pending, worker,
          queuedAs, cancelled>>

TypeOK ==
    /\ file \in [mtime : 0 .. MaxEdits, says : Config \cup {Bad}]
    /\ seen \in 0 .. MaxEdits
    /\ entries \in Config
    /\ due \in SUBSET Name
    /\ ticker \in [at : {"idle", "load", "check", "stopped"},
                   todo : SUBSET Name]
    /\ inFlight \in SUBSET Name
    /\ pending \in SUBSET Name
    /\ worker \in [Worker -> Run \cup {Absent}]
    /\ queuedAs \in Config
    /\ cancelled \in BOOLEAN

\* LoadConfig reads the file for New, and EnableHotReload takes its mtime later:
\* the first that counts, of a file that may have been edited since.
Init ==
    /\ entries \in Config
    /\ \E c \in Config \cup {Bad} : file = [mtime |-> 0, says |-> c]
    /\ seen = 0
    /\ due = {}
    /\ ticker = [at |-> "idle", todo |-> {}]
    /\ inFlight = {}
    /\ pending = {}
    /\ worker = [w \in Worker |-> Absent]
    /\ queuedAs = [n \in Name |-> Absent]
    /\ cancelled = FALSE

-----------------------------------------------------------------------------
(* The world: somebody edits the file, time passes, the daemon stops.      *)
(* Every edit advances the mtime by what the clock of the files can tell.  *)

Edit ==
    /\ file.mtime < MaxEdits
    /\ \E c \in Config \cup {Bad} :
          file' = [mtime |-> file.mtime + 1, says |-> c]
    /\ UNCHANGED <<seen, entries, due, ticker, inFlight, pending, worker,
                   queuedAs, cancelled>>

BecomeDue(n) ==
    /\ entries[n] # Absent
    /\ due' = due \cup {n}
    /\ UNCHANGED <<file, seen, entries, ticker, inFlight, pending, worker,
                   queuedAs, cancelled>>

Cancel ==
    /\ cancelled' = TRUE
    /\ UNCHANGED <<file, seen, entries, due, ticker, inFlight, pending, worker,
                   queuedAs>>

-----------------------------------------------------------------------------
(* The ticker goroutine.                                                   *)

\* MUTANT: the time of the reload is remembered instead of the file's mtime.
TickClock ==
    /\ ticker.at = "idle"
    /\ IF file.mtime > seen
       THEN /\ seen' = file.mtime + 1
            /\ ticker' = [at |-> "load", todo |-> {}]
       ELSE /\ ticker' = [at |-> "check", todo |-> due]
            /\ UNCHANGED seen
    /\ UNCHANGED <<file, entries, due, inFlight, pending, worker, queuedAs,
                   cancelled>>

\* A tick; the file's mtime is taken before the file is loaded.
Tick ==
    /\ ticker.at = "idle"
    /\ IF file.mtime > seen
       THEN /\ seen' = file.mtime
            /\ ticker' = [at |-> "load", todo |-> {}]
       ELSE /\ ticker' = [at |-> "check", todo |-> due]
            /\ UNCHANGED seen
    /\ UNCHANGED <<file, entries, due, inFlight, pending, worker, queuedAs,
                   cancelled>>

\* A file that does not load leaves the schedules as they are; any other
\* replaces them all, each with a fire time after now.
Load ==
    /\ ticker.at = "load"
    /\ \/ /\ file.says = Bad
          /\ ticker' = [at |-> "check", todo |-> due]
          /\ UNCHANGED <<entries, due>>
       \/ /\ file.says # Bad
          /\ entries' = file.says
          /\ due' = {}
          /\ ticker' = [at |-> "check", todo |-> {}]
    /\ UNCHANGED <<file, seen, inFlight, pending, worker, queuedAs, cancelled>>

Idle == {w \in Worker : worker[w] = Absent}

Grow(w, n, e) ==
    worker' = [worker EXCEPT ![w] = [name |-> n, entry |-> e, at |-> "fire",
                                     attempt |-> 1]]

\* fire: grow the entry, or skip, queue or coalesce the fire.
Fire(n) ==
    /\ ticker.at = "check" /\ n \in ticker.todo
    /\ ticker' = [ticker EXCEPT !.todo = @ \ {n}]
    /\ due' = due \ {n}
    /\ \/ /\ n \notin inFlight
          /\ inFlight' = inFlight \cup {n}
          /\ \E w \in Idle : Grow(w, n, entries[n])
          /\ UNCHANGED <<pending, queuedAs>>
       \/ /\ n \in inFlight
          /\ entries[n] \in Queue /\ n \notin pending
          /\ pending' = pending \cup {n}
          /\ queuedAs' = [queuedAs EXCEPT ![n] = entries[n]]
          /\ UNCHANGED <<inFlight, worker>>
       \/ /\ n \in inFlight
          /\ entries[n] \notin Queue \/ n \in pending
          /\ UNCHANGED <<inFlight, pending, worker, queuedAs>>
    /\ UNCHANGED <<file, seen, entries, cancelled>>

EndTick ==
    /\ ticker.at = "check" /\ ticker.todo = {}
    /\ ticker' = [ticker EXCEPT !.at = "idle"]
    /\ UNCHANGED <<file, seen, entries, due, inFlight, pending, worker,
                   queuedAs, cancelled>>

\* MUTANT: the ticker waits for the outstanding runs before it stops.
StopAfterRuns ==
    /\ ticker.at = "idle" /\ cancelled /\ inFlight = {}
    /\ ticker' = [ticker EXCEPT !.at = "stopped"]
    /\ UNCHANGED <<file, seen, entries, due, inFlight, pending, worker,
                   queuedAs, cancelled>>

Stop ==
    /\ ticker.at = "idle" /\ cancelled
    /\ ticker' = [ticker EXCEPT !.at = "stopped"]
    /\ UNCHANGED <<file, seen, entries, due, inFlight, pending, worker,
                   queuedAs, cancelled>>

-----------------------------------------------------------------------------
(* A run goroutine.                                                        *)

At(w, step) == worker[w] # Absent /\ worker[w].at = step

GoTo(w, step) == worker' = [worker EXCEPT ![w].at = step]

\* MUTANT: one retry too many.
AttemptOnceMore(w) ==
    /\ At(w, "fire")
    /\ \/ GoTo(w, "finished")
       \/ worker[w].attempt <= Retries + 1 /\ GoTo(w, "backoff")
    /\ UNCHANGED <<file, seen, entries, due, ticker, inFlight, pending,
                   queuedAs, cancelled>>

\* growOnce: one call of the Firer, which succeeds or withers.
Attempt(w) ==
    /\ At(w, "fire")
    /\ \/ GoTo(w, "finished")
       \/ worker[w].attempt <= Retries /\ GoTo(w, "backoff")
    /\ UNCHANGED <<file, seen, entries, due, ticker, inFlight, pending,
                   queuedAs, cancelled>>

\* MUTANT: the latch is released between attempts.
BackoffUnlatched(w) ==
    /\ At(w, "backoff")
    /\ worker' = [worker EXCEPT ![w].at = "fire", ![w].attempt = @ + 1]
    /\ inFlight' = inFlight \ {worker[w].name}
    /\ UNCHANGED <<file, seen, entries, due, ticker, pending, queuedAs,
                   cancelled>>

Backoff(w) ==
    /\ At(w, "backoff")
    /\ \/ worker' = [worker EXCEPT ![w].at = "fire", ![w].attempt = @ + 1]
       \/ cancelled /\ GoTo(w, "finished")
    /\ UNCHANGED <<file, seen, entries, due, ticker, inFlight, pending,
                   queuedAs, cancelled>>

\* MUTANT: the queued fire is dropped with the latch.
ReleaseForgetting(w) ==
    LET n == worker[w].name IN
    /\ At(w, "finished")
    /\ pending' = pending \ {n}
    /\ inFlight' = inFlight \ {n}
    /\ worker' = [worker EXCEPT ![w] = Absent]
    /\ queuedAs' = [queuedAs EXCEPT ![n] = Absent]
    /\ UNCHANGED <<file, seen, entries, due, ticker, cancelled>>

\* The run is over: drain the queued fire, with the entry of the run that just
\* ended, or release the latch.
Release(w) ==
    LET n == worker[w].name IN
    /\ At(w, "finished")
    /\ pending' = pending \ {n}
    /\ queuedAs' = [queuedAs EXCEPT ![n] = Absent]
    /\ \/ /\ n \in pending /\ ~cancelled
          /\ Grow(w, n, worker[w].entry)
          /\ UNCHANGED inFlight
       \/ /\ n \notin pending \/ cancelled
          /\ inFlight' = inFlight \ {n}
          /\ worker' = [worker EXCEPT ![w] = Absent]
    /\ UNCHANGED <<file, seen, entries, due, ticker, cancelled>>

Next ==
    \/ Edit \/ Cancel
    \/ \E n \in Name : BecomeDue(n) \/ Fire(n)
    \/ Tick \/ Load \/ EndTick \/ Stop
    \/ \E w \in Worker : Attempt(w) \/ Backoff(w) \/ Release(w)

Spec == Init /\ [][Next]_vars

-----------------------------------------------------------------------------

Busy == Worker \ Idle

\* The latch of a schedule is held exactly while one goroutine grows it, across
\* all its retries and queued fires: runs of a schedule never overlap and no
\* schedule is left latched; nothing is queued for a schedule that nobody
\* grows.
OneRunAtATime ==
    /\ \A v, w \in Busy : worker[v].name = worker[w].name => v = w
    /\ inFlight = {worker[w].name : w \in Busy}
    /\ pending \subseteq inFlight

\* A queued fire leaves the queue only to be grown, or at shutdown.
QueuedFireIsGrown ==
    [][\A n \in pending \ pending' :
          \/ cancelled
          \/ \E w \in Busy : worker[w].name = n /\ Grow(w, n, worker[w].entry)]_vars

\* A bad edit never blanks out a working schedule; a good one replaces it.
ReloadIsWholesale ==
    [][entries' # entries => file.says # Bad /\ entries' = file.says]_vars

\* The queued run grows what was queued: "it is remembered ... and grown as
\* soon as the in-flight run finishes" (fire).
QueuedFireGrowsItsEntry ==
    [][\A w \in Worker :
          At(w, "finished") /\ worker[w].name \in pending /\ worker'[w] # Absent
          /\ worker'[w].at = "fire" =>
              worker'[w].entry = queuedAs[worker[w].name]]_vars

\* Every fire time that arrives is acted on, unless the schedule was edited: "a
\* ~30s tick fires every entry within its scheduled minute".
DueEntryFires ==
    [][\A n \in due \ due' : n \in ticker.todo \/ entries'[n] # entries[n]]_vars

-----------------------------------------------------------------------------

Fairness ==
    /\ WF_vars(Tick \/ Load \/ EndTick \/ \E n \in Name : Fire(n))
    /\ SF_vars(Stop)
    /\ \A w \in Worker : WF_vars(Attempt(w) \/ Backoff(w) \/ Release(w))

FairSpec == Spec /\ Fairness

InForceFrom(first) ==
    \A m \in first .. MaxEdits :
        (file.mtime = m /\ file.says # Bad) ~>
            (entries = file.says \/ file.mtime # m \/ cancelled)

\* An edit that loads is in force after a tick, until the next edit: also one
\* made while a tick is reading the file.
EditIsPickedUp == InForceFrom(1)

\* Refuted.  So is what the file said when the scheduler was started: an edit
\* between LoadConfig and the stat of EnableHotReload is taken for seen.
StartsOnTheFile == InForceFrom(0)

\* After shutdown the outstanding runs end and nothing is grown any more.
ShutdownDrains == cancelled ~> [](ticker.at = "stopped" /\ inFlight = {})

=============================================================================
