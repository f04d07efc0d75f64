----------------------------- MODULE SeedLedger -----------------------------
(***************************************************************************)
(* The durable ledger of Seeds and of the continued intent accepted for    *)
(* them: tables seedruns and continuations of .tendril/history.db, and the *)
(* transactions of internal/historydb that write them.  Every transaction  *)
(* is atomic (one SQLite write at a time, whichever Stem process issues    *)
(* it), so each is one action here.  Next lets any caller issue any        *)
(* transaction at any moment with any arguments: what is invariant here    *)
(* does not depend on how Stem processes behave.  SeedGrowth composes the  *)
(* same actions with the processes that really call them.                  *)
(***************************************************************************)
EXTENDS Naturals, Sequences, FiniteSets

CONSTANTS
    Phytomer,          \* Phytomers a Seed may be opened for
    Pollen,            \* authenticated callers; the local caller is one of them
    Key,               \* caller retry identities (idempotency keys)
    Intent             \* intent digests: equal digests mean equal intent

VARIABLES
    seeds,          \* the seedruns row of each Phytomer
    continuations   \* the continuations rows of each Phytomer, by sequence

vars == <<seeds, continuations>>

DeliveryState == {"pending", "delivering", "delivered", "failed"}
Unresolved == {"pending", "delivering"}

SeedStatus == {"absent", "running", "settling", "settled"}

\* "run" stands for whatever the failed run reported; "undeliverable" and
\* "restart" are the two safe diagnostics the ledger itself writes.
SeedError == {"none", "run", "undeliverable", "restart"}

\* The pollen of a row that does not exist yet.
Nobody == "nobody"

SeedRow == [status : SeedStatus, pollen : Pollen \cup {Nobody},
            error : SeedError, fruit : BOOLEAN]

Continuation == [pollen : Pollen, key : Key, intent : Intent,
                 state : DeliveryState]

TypeOK ==
    /\ seeds \in [Phytomer -> SeedRow]
    /\ continuations \in [Phytomer -> Seq(Continuation)]

-----------------------------------------------------------------------------
(* Sequence numbers: MAX(sequence) + 1 inside the transaction, and no      *)
(* continuation row is ever deleted, so a sequence number is an index.     *)

InState(p, states) ==
    {i \in DOMAIN continuations[p] : continuations[p][i].state \in states}

UnresolvedOf(p) == InState(p, Unresolved)

Moved(rows, ids, to) ==
    [i \in DOMAIN rows |->
        IF i \in ids THEN [rows[i] EXCEPT !.state = to] ELSE rows[i]]

Transition(p, ids, to) ==
    continuations' = [continuations EXCEPT ![p] = Moved(@, ids, to)]

ExactTarget(p, q) == seeds[p].status # "absent" /\ seeds[p].pollen = q

Active(p) == seeds[p].status \in {"running", "settling"}

Init ==
    /\ seeds = [p \in Phytomer |-> [status |-> "absent", pollen |-> Nobody,
                                    error |-> "none", fruit |-> FALSE]]
    /\ continuations = [p \in Phytomer |-> <<>>]

\* RecordSeedOpening: an insert, never an upsert.
Open(p, q) ==
    /\ seeds[p].status = "absent"
    /\ seeds' = [seeds EXCEPT ![p] = [status |-> "running", pollen |-> q,
                                      error |-> "none", fruit |-> FALSE]]
    /\ UNCHANGED continuations

-----------------------------------------------------------------------------
(* AcceptContinuation.  The row is re-read inside the transaction; the     *)
(* eligibility check comes before the idempotency lookup.                  *)

\* MUTANT: the status of the row is not re-read inside the transaction.
EligibleWhenOpened(p, q) == ExactTarget(p, q)

Eligible(p, q) == ExactTarget(p, q) /\ seeds[p].status = "running"

\* MUTANT: a retry is looked up among pending rows only.
PendingRetry(p, q, k) ==
    {i \in InState(p, {"pending"}) :
        continuations[p][i].pollen = q /\ continuations[p][i].key = k}

Retry(p, q, k) ==
    {i \in DOMAIN continuations[p] :
        continuations[p][i].pollen = q /\ continuations[p][i].key = k}

\* MUTANT: a retry is answered without comparing intents.
AcceptableUnderAnyIntent(p, q, k, intent) == Eligible(p, q)

\* What the transaction answers: the accepted row is returned for a first
\* acceptance and for an identical retry.
Acceptable(p, q, k, intent) ==
    /\ Eligible(p, q)
    /\ \A i \in Retry(p, q, k) : continuations[p][i].intent = intent

\* MUTANT: key and intent digest are swapped in the insert.
AcceptSwapped(p, q, k, intent) ==
    /\ Acceptable(p, q, k, intent)
    /\ continuations' =
          IF Retry(p, q, k) # {} THEN continuations
          ELSE [continuations EXCEPT ![p] =
                  Append(@, [pollen |-> q, key |-> intent, intent |-> k,
                             state |-> "pending"])]
    /\ UNCHANGED seeds

Accept(p, q, k, intent) ==
    /\ Acceptable(p, q, k, intent)
    /\ continuations' =
          IF Retry(p, q, k) # {} THEN continuations
          ELSE [continuations EXCEPT ![p] =
                  Append(@, [pollen |-> q, key |-> k, intent |-> intent,
                             state |-> "pending"])]
    /\ UNCHANGED seeds

-----------------------------------------------------------------------------
(* Delivery.                                                               *)

\* ClaimPendingContinuations: every pending row, all or nothing.
ClaimPending(p, q) ==
    /\ Eligible(p, q)
    /\ Transition(p, InState(p, {"pending"}), "delivering")
    /\ UNCHANGED seeds

\* MarkContinuationsDelivered: refuses as a whole if one row is not delivering.
\* It does not look at the status of the Seed.
Deliverable(p, q, ids) ==
    /\ ExactTarget(p, q)
    /\ ids # {}
    /\ ids \subseteq InState(p, {"delivering"})

MarkDelivered(p, q, ids) ==
    /\ Deliverable(p, q, ids)
    /\ Transition(p, ids, "delivered")
    /\ UNCHANGED seeds

-----------------------------------------------------------------------------
(* Settlement.                                                             *)

\* MUTANT: the fence does not count the unresolved rows.
FenceGrantedBlindly(p, q) == Eligible(p, q)

\* AcquireSeedSettlementFence: granted on a running Seed with nothing
\* unresolved, refused (false, no error) on one with something unresolved.
FenceGranted(p, q) == Eligible(p, q) /\ UnresolvedOf(p) = {}
FenceRefused(p, q) == Eligible(p, q) /\ UnresolvedOf(p) # {}

AcquireFence(p, q) ==
    /\ FenceGranted(p, q)
    /\ seeds' = [seeds EXCEPT ![p].status = "settling"]
    /\ UNCHANGED continuations

\* MUTANT: completion does not ask for the fence.
CompletableUnfenced(p, q) == ExactTarget(p, q) /\ UnresolvedOf(p) = {}

\* CompleteSeedSettlement.
Completable(p, q) ==
    /\ ExactTarget(p, q)
    /\ seeds[p].status = "settling"
    /\ UnresolvedOf(p) = {}

Complete(p, q, fruit) ==
    /\ Completable(p, q)
    /\ seeds' = [seeds EXCEPT ![p].status = "settled", ![p].error = "none",
                              ![p].fruit = fruit]
    /\ UNCHANGED continuations

\* MUTANT: the failure update has lost its delivery-state condition.
AccountFailureOfAll(p, q, error) ==
    /\ ExactTarget(p, q)
    /\ Transition(p, DOMAIN continuations[p], "failed")
    /\ seeds' = [seeds EXCEPT ![p].status = "settled",
                              ![p].error = "undeliverable",
                              ![p].fruit = FALSE]

\* AccountSeedTerminalFailure: fails what is unresolved and settles an active
\* row; a row already settled is rewritten only if something was unresolved.
AccountFailure(p, q, error) ==
    /\ ExactTarget(p, q)
    /\ Transition(p, UnresolvedOf(p), "failed")
    /\ seeds' =
          IF Active(p) \/ UnresolvedOf(p) # {}
          THEN [seeds EXCEPT
                  ![p].status = "settled",
                  ![p].error = IF UnresolvedOf(p) # {} THEN "undeliverable"
                                                       ELSE error,
                  ![p].fruit = FALSE]
          ELSE seeds

\* MUTANT: reconciliation settles rows and leaves their continuations alone.
ReconcileRowsOnly ==
    /\ seeds' = [p \in Phytomer |->
                    IF Active(p)
                    THEN [seeds[p] EXCEPT !.status = "settled",
                                          !.error = "restart",
                                          !.fruit = FALSE]
                    ELSE seeds[p]]
    /\ UNCHANGED continuations

\* ReconcileOrphanedSeedWork: settles every active row and fails what it left
\* unresolved; failStaleUnresolvedContinuationsTx then fails every row whose
\* Seed is not running, and by then none is.
Reconcile ==
    /\ seeds' = [p \in Phytomer |->
                    IF Active(p)
                    THEN [seeds[p] EXCEPT !.status = "settled",
                                          !.error = "restart",
                                          !.fruit = FALSE]
                    ELSE seeds[p]]
    /\ continuations' = [p \in Phytomer |->
                            Moved(continuations[p], UnresolvedOf(p), "failed")]

-----------------------------------------------------------------------------

Next ==
    \/ \E p \in Phytomer, q \in Pollen :
          \/ Open(p, q)
          \/ \E k \in Key, intent \in Intent : Accept(p, q, k, intent)
          \/ ClaimPending(p, q)
          \/ \E ids \in SUBSET InState(p, {"delivering"}) :
                MarkDelivered(p, q, ids)
          \/ AcquireFence(p, q)
          \/ \E fruit \in BOOLEAN : Complete(p, q, fruit)
          \/ \E error \in SeedError \ {"restart"} : AccountFailure(p, q, error)
    \/ Reconcile

Spec == Init /\ [][Next]_vars

-----------------------------------------------------------------------------
(* What the ledger promises, whoever calls it.                             *)

\* Once the settlement fence is taken (and from then on) no accepted intent is
\* left pending or delivering: the fence, acceptance, the claim and terminal
\* accounting exclude one another whatever their order.
SettledLeavesNothingUnresolved ==
    \A p \in Phytomer :
        seeds[p].status \in {"settling", "settled"} => UnresolvedOf(p) = {}

\* Fruit is recorded only for a Seed whose every accepted intent was delivered:
\* no interleaving of acceptance, reconciliation and settlement lets Fruit stand
\* next to an intent that was dropped.
FruitCarriesEveryIntent ==
    \A p \in Phytomer :
        seeds[p].fruit =>
            /\ seeds[p].status = "settled"
            /\ InState(p, {"delivered"}) = DOMAIN continuations[p]

\* An intent that failed is never silent: its Seed is settled and carries one of
\* the two diagnostics that say so, even if a later failure account tries to
\* overwrite it.
FailedIntentIsReported ==
    \A p \in Phytomer :
        InState(p, {"failed"}) # {} =>
            /\ seeds[p].status = "settled"
            /\ seeds[p].error \in {"undeliverable", "restart"}

\* A retry identity names at most one accepted intent of a Phytomer, and every
\* accepted intent belongs to the Pollen that owns the Seed.
RetryIdentityIsUnique ==
    \A p \in Phytomer : \A i, j \in DOMAIN continuations[p] :
        /\ continuations[p][i].pollen = seeds[p].pollen
        /\ continuations[p][i].key = continuations[p][j].key => i = j

Later(from, to) ==
    \/ from = to
    \/ from = "pending" /\ to \in {"delivering", "delivered", "failed"}
    \/ from = "delivering" /\ to \in {"delivered", "failed"}

\* An accepted row keeps its sequence number, owner, key and intent for ever,
\* and its delivery state only moves forward: a delivered intent is never
\* replayed or failed, a failed one never revived.
AcceptedIntentIsPermanent ==
    [][\A p \in Phytomer : \A i \in DOMAIN continuations[p] :
          /\ i \in DOMAIN continuations'[p]
          /\ [continuations[p][i] EXCEPT !.state = "pending"] =
             [continuations'[p][i] EXCEPT !.state = "pending"]
          /\ Later(continuations[p][i].state, continuations'[p][i].state)]_vars

\* A settled Seed is final: no late fence, completion, failure account or
\* reconciliation rewrites its row, and nothing more is accepted for it.
SettledIsFinal ==
    [][\A p \in Phytomer : seeds[p].status = "settled" =>
          UNCHANGED <<seeds[p], continuations[p]>>]_vars

=============================================================================
