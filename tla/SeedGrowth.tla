----------------------------- MODULE SeedGrowth -----------------------------
(***************************************************************************)
(* The growth of durably opened Seeds, by several Stem processes (tendril  *)
(* serve, tendril mcp) that share one history database: the build/verify   *)
(* loop of conductor.RunSeed, the continuation boundary of core that it    *)
(* calls, terminal accounting, phytomer.continue requests racing with all  *)
(* of it, crashes, restarts with their reconciliation, and storage calls   *)
(* that fail before or after their transaction committed.                  *)
(*                                                                         *)
(* The ledger's transactions are those of SeedLedger; this module says who *)
(* calls them, in which order, and what each caller does with the answer.  *)
(***************************************************************************)
EXTENDS Naturals, Sequences, FiniteSets, TLC

CONSTANTS
    Phytomer, Pollen, Key, Intent,   \* as in SeedLedger
    Process,         \* Stem processes that share the history database
    MaxIterations,   \* build/verify passes of one Seed
    MaxFaults        \* bound on crashes and storage failures together

ASSUME MaxIterationsAssumption == MaxIterations \in Nat \ {0}
ASSUME MaxFaultsAssumption == MaxFaults \in Nat

VARIABLES
    seeds, continuations,   \* the durable ledger
    up,           \* the processes that are running
    growth,       \* the goroutine growing each Phytomer's Seed
    asking,       \* phytomer.continue calls between resolution and acceptance
    quarantine,   \* per process: Phytomers whose accounting is incomplete
    sent,         \* ghost: continuations a Sprout's own request carried
    probed,       \* ghost: continuations confirmed on a rejected auth probe
    acked,        \* ghost: acceptances a caller was told of
    faults

ledger == <<seeds, continuations>>
vars == <<seeds, continuations, up, growth, asking, quarantine, sent, probed,
          acked, faults>>

Ledger == INSTANCE SeedLedger

Request == [phytomer : Phytomer, pollen : Pollen, key : Key, intent : Intent]

\* Where the goroutine is.  "gone": its process died.
Step == {"none", "loop", "deliver", "build", "confirm", "judge", "fence",
         "final fence", "settle", "finalize", "done", "gone"}

Execution == {"", "completed", "failed", "timed-out", "bounds-exhausted",
              "boundary-refused"}
Verification == {"", "not-requested", "passed", "predicate-failed", "unusable"}
RunError == {"none", "run", "undeliverable", "publication"}

Growth == [at : Step, by : Process, pollen : Pollen, gated : BOOLEAN,
           iteration : 0 .. MaxIterations, expired : BOOLEAN,
           claimed : SUBSET Nat, built : BOOLEAN, requested : BOOLEAN,
           execution : Execution, verification : Verification,
           error : RunError, fruit : BOOLEAN]

\* The growth record of a Phytomer that no goroutine has been started for.
NoGrowth == [at |-> "none"]

TypeOK ==
    /\ Ledger!TypeOK
    /\ up \in SUBSET Process
    /\ growth \in [Phytomer -> Growth \cup {NoGrowth}]
    /\ asking \in [Process -> SUBSET Request]
    /\ quarantine \in [Process -> SUBSET Phytomer]
    /\ sent \in [Phytomer -> SUBSET Nat]
    /\ probed \in [Phytomer -> SUBSET Nat]
    /\ acked \in [Phytomer -> SUBSET Request]
    /\ faults \in 0 .. MaxFaults

Init ==
    /\ Ledger!Init
    /\ up = {}
    /\ growth = [p \in Phytomer |-> NoGrowth]
    /\ asking = [s \in Process |-> {}]
    /\ quarantine = [s \in Process |-> {}]
    /\ sent = [p \in Phytomer |-> {}]
    /\ probed = [p \in Phytomer |-> {}]
    /\ acked = [p \in Phytomer |-> {}]
    /\ faults = 0

-----------------------------------------------------------------------------
(* Storage.  A call succeeds, is refused by its transaction, or reports a  *)
(* failure; a reported failure may still have committed.                   *)


ghosts == <<sent, probed, acked>>

Fault == faults < MaxFaults /\ faults' = faults + 1

Call(able, transaction, success, failure) ==
    \/ able /\ transaction /\ success /\ UNCHANGED faults
    \/ ~able /\ UNCHANGED ledger /\ failure /\ UNCHANGED faults
    \/ Fault /\ failure /\ (UNCHANGED ledger \/ (able /\ transaction))

Becomes(p, g) == growth' = [growth EXCEPT ![p] = g]

At(p, step) == growth[p].at = step

\* RunSeed returns an error; GrowPreparedSeed goes on to terminal accounting.
Aborted(p, error) ==
    Becomes(p, [growth[p] EXCEPT !.at = "finalize", !.error = error,
                                 !.fruit = FALSE])

elsewhere == <<up, asking, acked>>

-----------------------------------------------------------------------------
(* Opening, and the loop of RunSeed.                                       *)

\* A durable opening and the launch of its goroutine (SeedOpening says how a
\* process gets there).
OpenSeed(s, p, q, gated) ==
    /\ s \in up
    /\ Ledger!Open(p, q)
    /\ Becomes(p, [at |-> "loop", by |-> s, pollen |-> q, gated |-> gated,
                   iteration |-> 0, expired |-> FALSE, claimed |-> {},
                   built |-> FALSE, requested |-> FALSE, execution |-> "",
                   verification |-> IF gated THEN "" ELSE "not-requested",
                   error |-> "none", fruit |-> FALSE])
    /\ UNCHANGED <<elsewhere, quarantine, sent, probed, faults>>

InRun(p) == growth[p].at \notin {"none", "finalize", "done", "gone"}

\* The wall-clock bound of the whole growth passes.  Nothing else ends its
\* context: an opened Seed is detached from the request that opened it.
Expire(p) ==
    /\ InRun(p) /\ ~growth[p].expired
    /\ Becomes(p, [growth[p] EXCEPT !.expired = TRUE])
    /\ UNCHANGED <<ledger, elsewhere, quarantine, sent, probed, faults>>

LoopHead(p) ==
    /\ At(p, "loop")
    /\ IF growth[p].iteration = MaxIterations
       THEN Becomes(p, [growth[p] EXCEPT !.at = "final fence"])
       ELSE IF growth[p].expired
       THEN Becomes(p, [growth[p] EXCEPT !.at = "final fence",
                                         !.execution = "timed-out"])
       ELSE Becomes(p, [growth[p] EXCEPT !.at = "deliver", !.iteration = @ + 1])
    /\ UNCHANGED <<ledger, elsewhere, quarantine, sent, probed, faults>>

\* PrepareSprout fails, or the claim's context is already spent.
NoSprout(p) ==
    /\ At(p, "deliver")
    /\ Aborted(p, "run")
    /\ \/ growth[p].expired /\ UNCHANGED faults
       \/ Fault
    /\ UNCHANGED <<ledger, elsewhere, quarantine, sent, probed>>

\* DeliverPending: the claim replaces whatever list the lifecycle held.
DeliverPending(p) ==
    LET g == growth[p] IN
    /\ At(p, "deliver")
    /\ Call(Ledger!Eligible(p, g.pollen),
            Ledger!ClaimPending(p, g.pollen),
            Becomes(p, [g EXCEPT !.at = "build",
                                 !.claimed = Ledger!InState(p, {"pending"})]),
            Aborted(p, "run"))
    /\ UNCHANGED <<elsewhere, quarantine, sent, probed>>

\* seedBuildFn.  A Sprout that built, or left a recoverable checkpoint, issued
\* its own provider requests.  One that failed may have failed before or after
\* its first request; a rejected authentication probe also reports
\* RequestsMade, and that probe carries none of the prompt.
BuildEnds(p, built, requested) ==
    Becomes(p, [growth[p] EXCEPT !.at = "confirm", !.built = built,
                                 !.requested = requested])

Build(p) ==
    /\ At(p, "build")
    /\ \/ /\ \E built \in BOOLEAN : BuildEnds(p, built, TRUE)
          /\ sent' = [sent EXCEPT ![p] = @ \cup growth[p].claimed]
          /\ UNCHANGED probed
       \/ BuildEnds(p, FALSE, FALSE) /\ UNCHANGED <<sent, probed>>
       \/ /\ BuildEnds(p, FALSE, TRUE)
          /\ probed' = [probed EXCEPT ![p] = @ \cup growth[p].claimed]
          /\ UNCHANGED sent
    /\ UNCHANGED <<ledger, elsewhere, quarantine, faults>>

\* MUTANT: delivery is confirmed whatever the report says.
ConfirmAlways(p) ==
    LET g == growth[p] IN
    /\ At(p, "confirm")
    /\ IF g.claimed # {}
       THEN Call(Ledger!Deliverable(p, g.pollen, g.claimed),
                 Ledger!MarkDelivered(p, g.pollen, g.claimed),
                 Becomes(p, [g EXCEPT !.at = "judge", !.claimed = {}]),
                 Aborted(p, "run"))
       ELSE /\ Becomes(p, [g EXCEPT !.at = "judge"])
            /\ UNCHANGED <<ledger, faults>>
    /\ UNCHANGED <<elsewhere, quarantine, sent, probed>>

\* ConfirmDelivery, only on a report that says a provider request was made.
ConfirmDelivery(p) ==
    LET g == growth[p] IN
    /\ At(p, "confirm")
    /\ IF g.requested /\ g.claimed # {}
       THEN Call(Ledger!Deliverable(p, g.pollen, g.claimed),
                 Ledger!MarkDelivered(p, g.pollen, g.claimed),
                 Becomes(p, [g EXCEPT !.at = "judge", !.claimed = {}]),
                 Aborted(p, "run"))
       ELSE /\ Becomes(p, [g EXCEPT !.at = "judge"])
            /\ UNCHANGED <<ledger, faults>>
    /\ UNCHANGED <<elsewhere, quarantine, sent, probed>>

\* The candidate is resolved and verified.  Only a predicate failure with a
\* pass left skips the fence.
Judge(p) ==
    LET g == growth[p]
        Judged(execution, verification) ==
            Becomes(p, [g EXCEPT !.at = "fence", !.execution = execution,
                                 !.verification = verification])
    IN
    /\ At(p, "judge")
    /\ \/ /\ ~g.built
          /\ \E execution \in {"failed", "timed-out"} :
                Judged(execution, g.verification)
       \/ /\ g.built   \* the candidate cannot be resolved
          /\ Judged("failed", IF g.gated THEN "unusable" ELSE g.verification)
       \/ g.built /\ ~g.gated /\ Judged("completed", g.verification)
       \/ /\ g.built /\ g.gated
          /\ \E verification \in {"passed", "unusable"} :
                Judged("completed", verification)
       \/ /\ g.built /\ g.gated
          /\ IF g.iteration < MaxIterations
             THEN Becomes(p, [g EXCEPT !.at = "loop",
                                       !.execution = "completed",
                                       !.verification = "predicate-failed"])
             ELSE Judged("bounds-exhausted", "predicate-failed")
    /\ UNCHANGED <<ledger, elsewhere, quarantine, sent, probed, faults>>

-----------------------------------------------------------------------------
(* Settlement.                                                             *)

Acceptable(g) ==
    g.execution = "completed" /\ g.verification \in {"not-requested", "passed"}

\* MUTANT: any refused fence with a pass left starts that pass.
MayAlwaysContinue(g) ==
    g.at = "fence" /\ g.iteration < MaxIterations /\ ~g.expired

\* A refused fence is tried again only by another pass within the bounds.
MayContinue(g) ==
    /\ g.at = "fence" /\ Acceptable(g)
    /\ g.iteration < MaxIterations /\ ~g.expired

\* Every fence of RunSeed: the one that closes a pass and the final one.
AcquireSettlementFence(p) ==
    LET g == growth[p] IN
    /\ g.at \in {"fence", "final fence"}
    /\ IF Ledger!FenceRefused(p, g.pollen)
       THEN Call(TRUE, UNCHANGED ledger,
                 IF MayContinue(g)
                 THEN Becomes(p, [g EXCEPT !.at = "loop"])
                 ELSE Becomes(p, [g EXCEPT !.at = "finalize",
                                           !.execution = "boundary-refused",
                                           !.error = "undeliverable"]),
                 Aborted(p, "run"))
       ELSE Call(Ledger!FenceGranted(p, g.pollen),
                 Ledger!AcquireFence(p, g.pollen),
                 Becomes(p, [g EXCEPT !.at = "settle"]),
                 Aborted(p, "run"))
    /\ UNCHANGED <<elsewhere, quarantine, sent, probed>>

\* MUTANT: the tail publishes what was built, acceptable or not.
SettleAnything(p) ==
    LET g == growth[p] IN
    /\ At(p, "settle")
    /\ \E fruit \in BOOLEAN :
          Becomes(p, [g EXCEPT !.at = "finalize", !.fruit = fruit])
    /\ UNCHANGED <<ledger, elsewhere, quarantine, sent, probed, faults>>

\* The tail of RunSeed: Fruit only for an acceptable outcome, and only when the
\* branch moved and its publication (and provenance) succeeded.
Settle(p) ==
    LET g == growth[p] IN
    /\ At(p, "settle")
    /\ \/ Becomes(p, [g EXCEPT !.at = "finalize"])
       \/ Acceptable(g) /\ Becomes(p, [g EXCEPT !.at = "finalize",
                                                !.fruit = TRUE])
       \/ Acceptable(g) /\ Becomes(p, [g EXCEPT !.at = "finalize",
                                                !.error = "publication"])
    /\ UNCHANGED <<ledger, elsewhere, quarantine, sent, probed, faults>>

Succeeded(g) == g.error = "none" /\ g.execution \in {"", "completed"}

\* MUTANT: a failed terminal transaction goes unnoticed.
FinalizeUnnoticed(p) ==
    LET g == growth[p] IN
    /\ At(p, "finalize")
    /\ Becomes(p, [g EXCEPT !.at = "done"])
    /\ IF Succeeded(g)
       THEN Call(Ledger!Completable(p, g.pollen),
                 Ledger!Complete(p, g.pollen, g.fruit), TRUE, TRUE)
       ELSE Call(Ledger!ExactTarget(p, g.pollen),
                 Ledger!AccountFailure(p, g.pollen, "run"), TRUE, TRUE)
    /\ UNCHANGED <<elsewhere, quarantine, sent, probed>>

\* finalizeOpenedSeed: a failed terminal transaction quarantines the Phytomer
\* in this process and reports the accounting as incomplete.
Finalize(p) ==
    LET g == growth[p]
        Accounted == UNCHANGED quarantine
        Incomplete ==
            quarantine' = [quarantine EXCEPT ![g.by] = @ \cup {p}]
    IN
    /\ At(p, "finalize")
    /\ Becomes(p, [g EXCEPT !.at = "done"])
    /\ IF Succeeded(g)
       THEN Call(Ledger!Completable(p, g.pollen),
                 Ledger!Complete(p, g.pollen, g.fruit),
                 Accounted, Incomplete)
       ELSE Call(Ledger!ExactTarget(p, g.pollen),
                 Ledger!AccountFailure(p, g.pollen,
                     IF g.error = "publication" THEN "run" ELSE g.error),
                 Accounted, Incomplete)
    /\ UNCHANGED <<elsewhere, sent, probed>>

-----------------------------------------------------------------------------
(* phytomer.continue: the target is resolved and authorized first, and the *)
(* acceptance transaction re-checks it.                                    *)

Ask(s, r) ==
    /\ s \in up
    /\ asking[s] = {}
    /\ Ledger!Eligible(r.phytomer, r.pollen)
    /\ r.phytomer \notin quarantine[s]
    /\ asking' = [asking EXCEPT ![s] = {r}]
    /\ UNCHANGED <<ledger, up, growth, quarantine, ghosts, faults>>

Answer(s, r) ==
    /\ r \in asking[s]
    /\ asking' = [asking EXCEPT ![s] = {}]
    /\ Call(Ledger!Acceptable(r.phytomer, r.pollen, r.key, r.intent),
            Ledger!Accept(r.phytomer, r.pollen, r.key, r.intent),
            acked' = [acked EXCEPT ![r.phytomer] = @ \cup {r}],
            UNCHANGED acked)
    /\ UNCHANGED <<up, growth, quarantine, sent, probed>>

-----------------------------------------------------------------------------
(* Processes.                                                              *)

\* MUTANT: a process starts without reconciling.
BootAtOnce(s) ==
    /\ s \notin up
    /\ up' = up \cup {s}
    /\ UNCHANGED <<ledger, growth, asking, quarantine, ghosts, faults>>

\* Every process that can accept detached Seeds reconciles before it serves;
\* one that cannot reconcile does not start.
Boot(s) ==
    /\ s \notin up
    /\ Call(TRUE, Ledger!Reconcile, up' = up \cup {s}, UNCHANGED up)
    /\ UNCHANGED <<growth, asking, quarantine, ghosts>>

\* A process dies (or is stopped) with its goroutines and its memory.
Crash(s) ==
    /\ s \in up
    /\ Fault
    /\ up' = up \ {s}
    /\ growth' = [p \in Phytomer |->
                    IF growth[p].at # "none" /\ growth[p].by = s
                    THEN [growth[p] EXCEPT !.at = "gone"] ELSE growth[p]]
    /\ asking' = [asking EXCEPT ![s] = {}]
    /\ quarantine' = [quarantine EXCEPT ![s] = {}]
    /\ UNCHANGED <<ledger, ghosts>>

-----------------------------------------------------------------------------

Grow(p) ==
    \/ LoopHead(p) \/ NoSprout(p) \/ DeliverPending(p) \/ Build(p)
    \/ ConfirmDelivery(p) \/ Judge(p) \/ AcquireSettlementFence(p)
    \/ Settle(p) \/ Finalize(p)

Next ==
    \/ \E s \in Process, p \in Phytomer, q \in Pollen, gated \in BOOLEAN :
          OpenSeed(s, p, q, gated)
    \/ \E p \in Phytomer : Expire(p) \/ Grow(p)
    \/ \E s \in Process, r \in Request : Ask(s, r) \/ Answer(s, r)
    \/ \E s \in Process : Boot(s) \/ Crash(s)

Spec == Init /\ [][Next]_vars

-----------------------------------------------------------------------------
(* Safety of the composition.                                              *)

Delivered(p) == Ledger!InState(p, {"delivered"})
Delivering(p) == Ledger!InState(p, {"delivering"})

\* A claim replaces the list of the previous claim, so an intent left
\* delivering when a pass begins, or when the Seed is fenced, would never be
\* confirmed: there is none.
NoIntentIsStranded ==
    \A p \in Phytomer :
        growth[p].at \in {"loop", "deliver", "settle"} /\ Ledger!Active(p) =>
            Delivering(p) = {}

\* An intent becomes delivered only after a pass that claimed it reported a
\* provider request; one claimed by a Sprout that never reached its provider
\* is not delivered, whatever happens later.
DeliveredWasRequested ==
    \A p \in Phytomer : Delivered(p) \subseteq sent[p] \cup probed[p]

\* What a caller was told is accepted is in the ledger under its own key and
\* intent, whatever crash, retry or storage failure came in between.
AcknowledgedIntentIsDurable ==
    \A p \in Phytomer : \A r \in acked[p] :
        \E i \in DOMAIN continuations[p] :
            /\ continuations[p][i].key = r.key
            /\ continuations[p][i].intent = r.intent
            /\ continuations[p][i].pollen = r.pollen

\* A growth that finished and is not quarantined left a settled row that tells
\* its outcome: Fruit exactly if it succeeded with Fruit.
OutcomeIsDurable ==
    \A p \in Phytomer :
        LET g == growth[p] IN
        g.at = "done" /\ g.by \in up /\ p \notin quarantine[g.by] =>
            /\ seeds[p].status = "settled"
            /\ seeds[p].fruit = (Succeeded(g) /\ g.fruit)

\* Fruit in the ledger passed its gate: the last pass completed and its
\* verification passed, or none was requested.
FruitIsAcceptable ==
    \A p \in Phytomer :
        seeds[p].fruit => growth[p].fruit /\ Acceptable(growth[p])

\* What a growth has done is what the ledger and the callers are told: intent is
\* confirmed only if a provider request carried it, an acknowledged intent is on
\* record, an outcome is settled or quarantined, and Fruit is there only when the
\* last pass passed its verification and nothing was left undelivered.
GrowthIsAccountable ==
    /\ DeliveredWasRequested
    /\ AcknowledgedIntentIsDurable
    /\ OutcomeIsDurable
    /\ FruitIsAcceptable

\* "RequestsMade is the typed evidence that continued intent crossed the
\* Mycorrhizal/provider boundary" (conductor/seed.go:245): delivered intent was
\* in a request of the Sprout that claimed it.
DeliveredCrossedProvider ==
    \A p \in Phytomer : Delivered(p) \subseteq sent[p]

\* Reconciliation "terminalizes running/settling Seeds from a previous
\* process" (historydb/continuationlifecycle.go:411): it never settles a Seed
\* whose growing process is still running.
ReconcileSparesLiveGrowth ==
    [][\A p \in Phytomer :
          Ledger!Active(p) /\ growth[p].at \notin {"none", "gone", "done"} =>
              seeds'[p].error # "restart"]_vars

-----------------------------------------------------------------------------
(* Refinement of the caller's view.                                        *)

Fate(status) ==
    CASE status = "absent" -> "unopened" [] status = "running" -> "open"
      [] status = "settling" -> "sealed" [] status = "settled" -> "closed"

Standing(state) == IF state \in Ledger!Unresolved THEN "waiting" ELSE state

Promise == INSTANCE SeedPromise WITH
    fate <- [p \in Phytomer |-> Fate(seeds[p].status)],
    intents <- [p \in Phytomer |->
                  [i \in DOMAIN continuations[p] |->
                      Standing(continuations[p][i].state)]],
    fruit <- {p \in Phytomer : seeds[p].fruit}

\* The processes together keep the promise: acceptance only while open, ordered
\* delivery, Fruit only behind the fence, failure of all the rest at once.
PromiseKept == Promise!Spec

-----------------------------------------------------------------------------
(* Liveness.  Each growth is a goroutine whose every wait is bounded, each *)
(* resolved request goes on to its acceptance, and a Stem that went down   *)
(* is started again.                                                       *)

Fairness ==
    /\ \A p \in Phytomer : WF_vars(Grow(p))
    /\ \A s \in Process : WF_vars(\E r \in Request : Answer(s, r))
    /\ \A s \in Process : WF_vars(Boot(s))

FairSpec == Spec /\ Fairness

Quarantined(p) == growth[p].at = "done" /\ p \in quarantine[growth[p].by]

\* Every opened Seed settles in the end (and a settled one leaves no intent
\* unresolved), unless its terminal accounting failed and the Phytomer is
\* quarantined until the next start.
SeedSettles ==
    \A p \in Phytomer :
        Ledger!Active(p) ~> seeds[p].status = "settled" \/ Quarantined(p)

-----------------------------------------------------------------------------
\* No operation tells keys, intents or processes apart: TLC may take one state
\* for all that differ in their names.
Symmetry == Permutations(Key) \cup Permutations(Intent) \cup Permutations(Process)

=============================================================================
