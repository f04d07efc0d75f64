----------------------------- MODULE HistoryRows -----------------------------
(***************************************************************************)
(* The execution rows of the history database: the row a Sprout run opens  *)
(* before its caller hears that it was dispatched, the writes that follow  *)
(* it from the run's goroutine, the evidence a one-shot command must leave *)
(* behind before it exits, the reads that say whose run a phytomer carries,*)
(* and the retention sweep that works through the rows of Sprouts and of   *)
(* Seeds by their age.                                                     *)
(***************************************************************************)
EXTENDS Naturals, FiniteSets

CONSTANTS NRuns,       \* Sprout runs, of one process or of several, in order of dispatch
          Pollens,     \* dispatching subjects
          Phytomers,
          Reused,      \* a caller may name a step id that was used before
          LongRuns,    \* a run may still be growing when its row is too old
          MaxFaults    \* writes to the database that fail

Runs == 1 .. NRuns
RunIds == Runs         \* step ids; RunID is the step id, and a run's own is its number
None == "none"
NoRow == [kind |-> None]
RowKinds == {"plain", "fruit"}

VARIABLES runs,     \* [Runs -> what its goroutine knows]
          rows,     \* sproutruns, by runId
          missing,  \* lifecycle events a one-shot run published that are not on disk
          seed,     \* one row of seedruns
          faults
vars == <<runs, rows, missing, seed, faults>>

Fresh == [at |-> "new", id |-> 0, pollen |-> None, phytomer |-> None,
          oneShot |-> FALSE, failed |-> FALSE, answer |-> None]
NoSeed == [open |-> FALSE, keyed |-> FALSE, goal |-> FALSE,
           status |-> None, fruit |-> FALSE, old |-> FALSE]

Init == /\ runs = [r \in Runs |-> Fresh]
        /\ rows = [i \in RunIds |-> NoRow]
        /\ missing = {}
        /\ seed = NoSeed
        /\ faults = 0

Exists(i) == rows[i] # NoRow
Live(r) == runs[r].at \in {"dispatched", "growing", "assembled", "ended"}

(* A write that may fail: ok tells which way it went. *)
Write(ok) == IF ok THEN faults' = faults
             ELSE faults < MaxFaults /\ faults' = faults + 1

(* The upsert: the owner and the phytomer of an existing row stay, what the *)
(* write leaves empty keeps its stored value, the rest is replaced. A late  *)
(* ending that finds its row swept inserts it anew, as old as the run.      *)
RecordSproutRun(r, status, fruit) ==
    LET i == runs'[r].id
        written == [kind |-> IF fruit THEN "fruit" ELSE "plain", status |-> status,
                    pollen |-> runs'[r].pollen, phytomer |-> runs'[r].phytomer,
                    by |-> {r}, payload |-> TRUE, old |-> status # "running"]
    IN rows' = [rows EXCEPT ![i] =
                  IF ~Exists(i) THEN written
                  ELSE [@ EXCEPT !.kind = IF fruit THEN "fruit" ELSE @, !.status = status,
                                 !.by = @ \cup {r}, !.payload = TRUE]]

(* Mutant: the ready signal does not wait for the opening row. *)
DispatchUnrecorded(r, i, p, s, one) ==
    /\ runs[r].at = "new" /\ \A q \in 1 .. r - 1 : runs[q].at # "new"
    /\ i = r \/ (Reused /\ i < r)
    /\ \E ok \in BOOLEAN :
          /\ Write(ok)
          /\ runs' = [runs EXCEPT ![r] = [Fresh EXCEPT !.id = i, !.pollen = p, !.phytomer = s,
                        !.oneShot = one, !.at = "dispatched"]]
          /\ IF ok THEN RecordSproutRun(r, "running", FALSE) ELSE UNCHANGED rows
    /\ UNCHANGED <<missing, seed>>

(* persistDispatchSproutRun: the opening row comes before the ready signal *)
(* and before any work; when it cannot be written the run is refused.      *)
Dispatch(r, i, p, s, one) ==
    /\ runs[r].at = "new" /\ \A q \in 1 .. r - 1 : runs[q].at # "new"
    /\ i = r \/ (Reused /\ i < r)
    /\ \E ok \in BOOLEAN :
          /\ Write(ok)
          /\ runs' = [runs EXCEPT ![r] = [Fresh EXCEPT !.id = i, !.pollen = p, !.phytomer = s,
                        !.oneShot = one, !.at = IF ok THEN "dispatched" ELSE "done",
                        !.answer = IF ok THEN None ELSE "refused"]]
          /\ IF ok THEN RecordSproutRun(r, "running", FALSE) ELSE UNCHANGED rows
    /\ UNCHANGED <<missing, seed>>

(* RecordSproutTerrariumProvider, from OnTerrariumCreated: the row must be *)
(* open; what goes wrong is kept as the run's first failure.               *)
Created(r) ==
    /\ runs[r].at = "dispatched"
    /\ \E ok \in BOOLEAN :
          /\ Write(ok)
          /\ runs' = [runs EXCEPT ![r].at = "growing",
                                  ![r].failed = @ \/ (runs[r].oneShot /\ (~ok \/ ~Exists(runs[r].id)))]
    /\ UNCHANGED <<rows, missing, seed>>

(* One lifecycle event. A one-shot bus hands it to persistRequired before *)
(* Publish returns and keeps a failure; a daemon's bus is lossy, and what *)
(* it keeps is no part of this module.                                    *)
Publish(r, event, next) ==
    \E ok \in BOOLEAN :
       /\ Write(ok)
       /\ missing' = IF ok \/ ~runs[r].oneShot THEN missing ELSE missing \cup {<<r, event>>}
       /\ runs' = [runs EXCEPT ![r].at = next,
                               ![r].failed = @ \/ (runs[r].oneShot /\ ~ok)]
       /\ UNCHANGED <<rows, seed>>

Assembled(r) == runs[r].at = "growing" /\ Publish(r, "assembled", "assembled")
(* A run that fails before its Terrarium or its context still ends. *)
Ended(r) == runs[r].at \in {"dispatched", "growing", "assembled"} /\ Publish(r, "terminal", "ended")

(* persistTerminalSproutRun, from the opening record the run closed over. *)
Terminal(r) ==
    /\ runs[r].at = "ended"
    /\ \E ok \in BOOLEAN, fruit \in BOOLEAN :
          /\ Write(ok)
          /\ runs' = [runs EXCEPT ![r].at = IF runs[r].answer = None THEN "written" ELSE "done",
                                  ![r].failed = @ \/ (runs[r].oneShot /\ ~ok)]
          /\ IF ok THEN RecordSproutRun(r, "settled", fruit) ELSE UNCHANGED rows
    /\ UNCHANGED <<missing, seed>>

(* Mutant: a one-shot call returns what the run returned and no more. *)
ReturnUnjoined(r) ==
    /\ runs[r].at = "written"
    /\ runs' = [runs EXCEPT ![r].at = "done", ![r].answer = "ok"]
    /\ UNCHANGED <<rows, missing, seed, faults>>

(* The deferred shutdown of a one-shot bus: what could not be recorded is *)
(* joined to the call's error. A daemon's call never looks.               *)
Return(r) ==
    /\ runs[r].at = "written"
    /\ runs' = [runs EXCEPT ![r].at = "done",
                            ![r].answer = IF runs[r].oneShot /\ runs[r].failed THEN "error" ELSE "ok"]
    /\ UNCHANGED <<rows, missing, seed, faults>>

(* A daemon's call stops waiting; the run goes on and ends on its own. *)
Detach(r) ==
    /\ Live(r) /\ ~runs[r].oneShot /\ runs[r].answer = None
    /\ runs' = [runs EXCEPT ![r].answer = "detached"]
    /\ UNCHANGED <<rows, missing, seed, faults>>

(* The process of a run dies. *)
Crash(r) ==
    /\ runs[r].at \in {"dispatched", "growing", "assembled", "ended", "written"}
    /\ runs' = [runs EXCEPT ![r].at = "done", ![r].answer = IF @ = None THEN "crashed" ELSE @]
    /\ UNCHANGED <<rows, missing, seed, faults>>
----------------------------------------------------------------------------
(* RecordSeedOpening inserts; a handle that exists is refused. *)
OpenSeed(keyed) ==
    /\ ~seed.open
    /\ seed' = [open |-> TRUE, keyed |-> keyed, goal |-> TRUE,
                status |-> "running", fruit |-> FALSE, old |-> FALSE]
    /\ UNCHANGED <<runs, rows, missing, faults>>

(* RecordSeedRun: a row compacted to its identity takes only the status. *)
SettleSeed(fruit) ==
    /\ seed.open /\ seed.status = "running"
    /\ seed' = [seed EXCEPT !.status = "settled",
                            !.fruit = IF seed.keyed /\ ~seed.goal THEN @ ELSE fruit]
    /\ UNCHANGED <<runs, rows, missing, faults>>

(* Time passes the retention window of a row. *)
RowAges(i) ==
    /\ Exists(i) /\ ~rows[i].old
    /\ LongRuns \/ \A r \in rows[i].by : ~Live(r)
    /\ rows' = [rows EXCEPT ![i].old = TRUE]
    /\ UNCHANGED <<runs, missing, seed, faults>>

SeedAges ==
    /\ seed.open /\ ~seed.old /\ (LongRuns \/ seed.status # "running")
    /\ seed' = [seed EXCEPT !.old = TRUE]
    /\ UNCHANGED <<runs, rows, missing, faults>>

(* Mutant: age decides alone. *)
PruneByAge ==
    /\ rows' = [i \in RunIds |-> IF Exists(i) /\ rows[i].old THEN NoRow ELSE rows[i]]
    /\ rows' # rows
    /\ UNCHANGED <<runs, missing, seed, faults>>

(* PruneOlderThan: the statements are not one transaction, and each leaves *)
(* the rows of the others alone.                                           *)
PruneSprouts ==
    /\ rows' = [i \in RunIds |->
                  IF ~Exists(i) \/ ~rows[i].old THEN rows[i]
                  ELSE IF rows[i].kind = "fruit" THEN [rows[i] EXCEPT !.payload = FALSE]
                  ELSE NoRow]
    /\ rows' # rows
    /\ UNCHANGED <<runs, missing, seed, faults>>

PruneSeeds ==
    /\ seed.open /\ seed.old
    /\ seed' = IF seed.keyed \/ seed.fruit THEN [seed EXCEPT !.goal = FALSE] ELSE NoSeed
    /\ seed' # seed
    /\ UNCHANGED <<runs, rows, missing, faults>>
----------------------------------------------------------------------------
Next == \/ \E r \in Runs, i \in RunIds, p \in Pollens, s \in Phytomers, one \in BOOLEAN :
              Dispatch(r, i, p, s, one)
        \/ \E r \in Runs : \/ Created(r) \/ Assembled(r) \/ Ended(r) \/ Terminal(r)
                           \/ Return(r) \/ Detach(r) \/ Crash(r)
        \/ \E b \in BOOLEAN : OpenSeed(b) \/ SettleSeed(b)
        \/ \E i \in RunIds : RowAges(i)
        \/ SeedAges \/ PruneSprouts \/ PruneSeeds

Spec == Init /\ [][Next]_vars
----------------------------------------------------------------------------
(* SproutRunOwners and WatchAuthority: a phytomer is shown to the one     *)
(* subject that every run recorded against it names.                      *)
OwnersOf(s) == {rows[i].pollen : i \in {j \in RunIds : Exists(j) /\ rows[j].phytomer = s}}
MayWatch(p, s) == OwnersOf(s) = {p}

(* A caller told its run was dispatched finds the run on record under its *)
(* phytomer, by its own name, for as long as the run is growing: the      *)
(* opening row is durable before the ready signal and no other run, no    *)
(* late write and no sweep takes it away (persistDispatchSproutRun).      *)
DispatchedIsOwned == \A r \in Runs : Live(r) => runs[r].pollen \in OwnersOf(runs[r].phytomer)

(* A subject that may watch a phytomer dispatched every run growing in it. *)
WatchedIsOwn == \A r \in Runs, p \in Pollens :
    Live(r) /\ MayWatch(p, runs[r].phytomer) => runs[r].pollen = p

(* A one-shot command that reports no persistence failure leaves a settled *)
(* row, unless retention has had it since, and every event it must keep.   *)
ReportedIsRecorded == \A r \in Runs :
    runs[r].oneShot /\ runs[r].answer = "ok" =>
       /\ \A m \in missing : m[1] # r
       /\ Exists(runs[r].id) => rows[runs[r].id].status = "settled"

(* Age disposes of no Fruit: the row of a Sprout or a Seed that named its  *)
(* Fruit goes on naming it, and a keyed Seed's row stays to answer retries.*)
FruitOutlivesAge == [][/\ \A i \in RunIds : rows[i].kind = "fruit" => rows'[i].kind = "fruit"
                       /\ seed.fruit => seed'.fruit
                       /\ seed.open /\ seed.keyed => seed'.open /\ seed'.keyed]_vars

(* Of a database whose callers may name a step id again: no row mixes two *)
(* runs. The code lets it.                                                *)
RowIsOneRun == \A i \in RunIds : Exists(i) => Cardinality(rows[i].by) = 1

(* Of a run that outlives the retention window: what it bore is on record. *)
(* The code loses it for a Seed whose row was compacted meanwhile.         *)
LateFruitIsKept == [][\A fruit \in BOOLEAN : SettleSeed(fruit) /\ fruit => seed'.fruit]_vars
=============================================================================
