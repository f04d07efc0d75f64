-------------------------- MODULE SeedGrowthProofs --------------------------
(***************************************************************************)
(* Proofs about SeedGrowth, for any number of Phytomers, Pollens, Stem     *)
(* processes, passes, crashes and storage failures.                        *)
(*                                                                         *)
(* A growth goroutine acts on one Phytomer, so the inductive invariant is  *)
(* a predicate of one Phytomer and most of a step's proof says that the    *)
(* others are untouched.  Reconciliation and a crash concern every one.    *)
(***************************************************************************)
EXTENDS SeedGrowth, SequenceTheorems, WellFoundedInduction, TLAPS

LedgerProofs == INSTANCE SeedLedgerProofs

Passing == {"loop", "deliver", "build", "confirm", "judge", "fence",
            "final fence"}
Ended == {"done", "gone"}

Pending(p) == Ledger!InState(p, {"pending"})

\* The growth of a Phytomer, its row and its process go together.
Joined(p) ==
    LET g == growth[p] IN
    /\ g.at = "none" <=> seeds[p].status = "absent"
    /\ g.at # "none" => g.pollen = seeds[p].pollen
    /\ g.at \notin {"none", "gone"} => g.by \in up
    /\ g.at \in Passing /\ Ledger!Active(p) => seeds[p].status = "running"

\* What is being delivered is older than what is pending.
Ordered(p) ==
    Ledger!Active(p) => \A i \in Delivering(p), j \in Pending(p) : i < j

\* The list of claimed intent is what the ledger has as delivering.
Tracked(p) ==
    LET g == growth[p] IN
    /\ g.at = "confirm" /\ g.built => g.requested
    /\ g.at = "judge" /\ g.built => g.claimed = {}
    /\ Ledger!Active(p) =>
          /\ g.at \in {"loop", "deliver", "settle"} => Delivering(p) = {}
          /\ g.at \in {"build", "confirm", "judge"} => Delivering(p) = g.claimed
          /\ g.at = "fence" /\ Acceptable(g) => Delivering(p) = {}
    /\ Ordered(p)

\* An acknowledged request is on record.
Recorded(p, r) ==
    \E i \in DOMAIN continuations[p] :
        /\ continuations[p][i].key = r.key
        /\ continuations[p][i].intent = r.intent
        /\ continuations[p][i].pollen = r.pollen

\* What is told to callers and to the ledger is what was done.
Told(p) ==
    LET g == growth[p] IN
    /\ Delivered(p) \subseteq sent[p] \cup probed[p]
    /\ g.at = "confirm" /\ g.requested =>
          g.claimed \subseteq sent[p] \cup probed[p]
    /\ \A r \in acked[p] : Recorded(p, r)
    /\ g.at \in Passing \cup {"settle"} => ~g.fruit
    /\ g.at # "none" => (g.fruit => Acceptable(g))
    /\ seeds[p].fruit => g.at \in Ended /\ g.fruit
    /\ g.at = "done" /\ p \notin quarantine[g.by] =>
          /\ seeds[p].status = "settled"
          /\ seeds[p].fruit = (Succeeded(g) /\ g.fruit)

Sound(p) == Joined(p) /\ Tracked(p) /\ Told(p)

IInv == TypeOK /\ LedgerProofs!IInv /\ \A p \in Phytomer : Sound(p)

-----------------------------------------------------------------------------
(* The ledger: its proofs speak of the same definitions.                   *)

LEMMA LedgerFacts ==
    ASSUME LedgerProofs!IInv
    PROVE  /\ Ledger!TypeOK
           /\ \A p \in Phytomer :
                 /\ seeds[p] \in Ledger!SeedRow
                 /\ continuations[p] \in Seq(Ledger!Continuation)
                 /\ seeds[p].status = "absent" => continuations[p] = <<>>
                 /\ seeds[p].status \in {"settling", "settled"} =>
                       Ledger!UnresolvedOf(p) = {}
                 /\ seeds[p].fruit => seeds[p].status = "settled"
<1>1. Ledger!TypeOK
  BY DEF LedgerProofs!IInv, LedgerProofs!TypeOK, Ledger!TypeOK,
     LedgerProofs!SeedRow, Ledger!SeedRow, LedgerProofs!SeedStatus,
     Ledger!SeedStatus, LedgerProofs!SeedError, Ledger!SeedError,
     LedgerProofs!Nobody, Ledger!Nobody, LedgerProofs!Continuation,
     Ledger!Continuation, LedgerProofs!DeliveryState, Ledger!DeliveryState
<1>2. ASSUME NEW p \in Phytomer
      PROVE  /\ seeds[p].status = "absent" => continuations[p] = <<>>
             /\ seeds[p].status \in {"settling", "settled"} =>
                   Ledger!UnresolvedOf(p) = {}
             /\ seeds[p].fruit => seeds[p].status = "settled"
  BY DEF LedgerProofs!IInv, LedgerProofs!Sound, LedgerProofs!Unresolved,
     Ledger!UnresolvedOf, Ledger!InState, Ledger!Unresolved
<1> QED
  BY <1>1, <1>2 DEF Ledger!TypeOK

LEMMA RowsShape ==
    ASSUME NEW rows \in Seq(Ledger!Continuation)
    PROVE  /\ Len(rows) \in Nat
           /\ DOMAIN rows = 1 .. Len(rows)
           /\ DOMAIN rows \subseteq Nat
           /\ \A i \in DOMAIN rows : rows[i] \in Ledger!Continuation
BY LenProperties, ElementOfSeq

\* A change of delivery state moves the rows it names and keeps their owners.
LEMMA MovedRows ==
    ASSUME NEW rows \in Seq(Ledger!Continuation), NEW ids,
           NEW to \in Ledger!DeliveryState
    PROVE  /\ Ledger!Moved(rows, ids, to) \in Seq(Ledger!Continuation)
           /\ DOMAIN Ledger!Moved(rows, ids, to) = DOMAIN rows
           /\ \A i \in DOMAIN rows :
                 /\ Ledger!Moved(rows, ids, to)[i].pollen = rows[i].pollen
                 /\ Ledger!Moved(rows, ids, to)[i].key = rows[i].key
                 /\ Ledger!Moved(rows, ids, to)[i].intent = rows[i].intent
                 /\ Ledger!Moved(rows, ids, to)[i].state =
                       IF i \in ids THEN to ELSE rows[i].state
<1>1. rows \in Seq(LedgerProofs!Continuation)
  BY DEF Ledger!Continuation, LedgerProofs!Continuation,
     Ledger!DeliveryState, LedgerProofs!DeliveryState
<1>2. to \in LedgerProofs!DeliveryState
  BY DEF Ledger!DeliveryState, LedgerProofs!DeliveryState
<1>3. LedgerProofs!Moved(rows, ids, to) = Ledger!Moved(rows, ids, to)
  BY DEF LedgerProofs!Moved, Ledger!Moved
<1>4. Seq(LedgerProofs!Continuation) = Seq(Ledger!Continuation)
  BY DEF Ledger!Continuation, LedgerProofs!Continuation,
     Ledger!DeliveryState, LedgerProofs!DeliveryState
<1> QED
  BY <1>1, <1>2, <1>3, <1>4, LedgerProofs!MovedRows

\* The intents in some states, after a transition of the intents ids of p.
LEMMA Transitioned ==
    ASSUME Ledger!TypeOK, NEW p \in Phytomer,
           NEW ids \in SUBSET DOMAIN continuations[p],
           NEW to \in Ledger!DeliveryState \ {"pending"},
           Ledger!Transition(p, ids, to)
    PROVE  /\ continuations' = [continuations EXCEPT ![p] =
                                   Ledger!Moved(continuations[p], ids, to)]
           /\ DOMAIN continuations'[p] = DOMAIN continuations[p]
           /\ \A i \in DOMAIN continuations[p] :
                 /\ continuations'[p][i].pollen = continuations[p][i].pollen
                 /\ continuations'[p][i].key = continuations[p][i].key
                 /\ continuations'[p][i].intent = continuations[p][i].intent
           /\ Pending(p)' = Pending(p) \ ids
           /\ Delivering(p)' = IF to = "delivering" THEN Delivering(p) \cup ids
                                                    ELSE Delivering(p) \ ids
           /\ Delivered(p)' = IF to = "delivered" THEN Delivered(p) \cup ids
                                                  ELSE Delivered(p) \ ids
<1>1. /\ continuations \in [Phytomer -> Seq(Ledger!Continuation)]
      /\ continuations[p] \in Seq(Ledger!Continuation)
  BY DEF Ledger!TypeOK
<1>2. continuations' = [continuations EXCEPT ![p] =
                           Ledger!Moved(continuations[p], ids, to)]
  BY DEF Ledger!Transition
<1>3. continuations'[p] = Ledger!Moved(continuations[p], ids, to)
  BY <1>1, <1>2
<1>4. /\ DOMAIN continuations'[p] = DOMAIN continuations[p]
      /\ \A i \in DOMAIN continuations[p] :
            /\ continuations'[p][i].pollen = continuations[p][i].pollen
            /\ continuations'[p][i].key = continuations[p][i].key
            /\ continuations'[p][i].intent = continuations[p][i].intent
            /\ continuations'[p][i].state =
                  IF i \in ids THEN to ELSE continuations[p][i].state
  BY <1>1, <1>3, MovedRows
<1>5. /\ Pending(p)' = Pending(p) \ ids
      /\ Delivering(p)' = IF to = "delivering" THEN Delivering(p) \cup ids
                                               ELSE Delivering(p) \ ids
      /\ Delivered(p)' = IF to = "delivered" THEN Delivered(p) \cup ids
                                             ELSE Delivered(p) \ ids
  BY <1>4 DEF Pending, Delivering, Delivered, Ledger!InState
<1> QED
  BY <1>2, <1>4, <1>5

\* An identical retry changes nothing; a first acceptance adds a pending row,
\* younger than all the others.
LEMMA Accepted ==
    ASSUME Ledger!TypeOK, NEW p \in Phytomer, NEW q \in Pollen,
           NEW k \in Key, NEW intent \in Intent,
           Ledger!Accept(p, q, k, intent)
    PROVE  /\ \/ UNCHANGED continuations
              \/ /\ continuations' =
                       [continuations EXCEPT ![p] =
                           Append(continuations[p],
                                  [pollen |-> q, key |-> k, intent |-> intent,
                                   state |-> "pending"])]
                 /\ DOMAIN continuations'[p] =
                       DOMAIN continuations[p] \cup {Len(continuations[p]) + 1}
                 /\ \A i \in DOMAIN continuations[p] :
                       /\ continuations'[p][i] = continuations[p][i]
                       /\ i < Len(continuations[p]) + 1
                 /\ continuations'[p][Len(continuations[p]) + 1] =
                       [pollen |-> q, key |-> k, intent |-> intent,
                        state |-> "pending"]
           /\ \E i \in DOMAIN continuations'[p] :
                 /\ continuations'[p][i].key = k
                 /\ continuations'[p][i].intent = intent
                 /\ continuations'[p][i].pollen = q
<1> DEFINE rows == continuations[p]
           new == [pollen |-> q, key |-> k, intent |-> intent,
                   state |-> "pending"]
<1>1. /\ continuations \in [Phytomer -> Seq(Ledger!Continuation)]
      /\ rows \in Seq(Ledger!Continuation)
  BY DEF Ledger!TypeOK
<1>2. CASE Ledger!Retry(p, q, k) # {}
  BY <1>2 DEF Ledger!Accept, Ledger!Acceptable, Ledger!Retry
<1>3. CASE Ledger!Retry(p, q, k) = {}
  <2>1. new \in Ledger!Continuation
    BY DEF Ledger!Continuation, Ledger!DeliveryState
  <2>2. continuations' = [continuations EXCEPT ![p] = Append(rows, new)]
    BY <1>3 DEF Ledger!Accept
  <2>3. continuations'[p] = Append(rows, new)
    BY <1>1, <2>2
  <2>4. DOMAIN rows = 1 .. Len(rows) /\ Len(rows) \in Nat
    BY <1>1, RowsShape
  <2>5. /\ DOMAIN Append(rows, new) = DOMAIN rows \cup {Len(rows) + 1}
        /\ \A i \in DOMAIN rows : /\ Append(rows, new)[i] = rows[i]
                                  /\ i < Len(rows) + 1
        /\ Append(rows, new)[Len(rows) + 1] = new
    BY <1>1, <2>1, <2>4, AppendProperties, LenProperties
  <2> QED
    BY <2>2, <2>3, <2>5
<1> QED
  BY <1>2, <1>3

-----------------------------------------------------------------------------
(* What each transaction does to the row of p, its intents and the rest.   *)

\* The rows of every other Phytomer are left alone.
RestKept(p) ==
    \A r \in Phytomer \ {p} : UNCHANGED <<seeds[r], continuations[r]>>

\* What is on record for p stays on record.
RecordKept(p) == \A r : Recorded(p, r) => Recorded(p, r)'

LEMMA OpenEffect ==
    ASSUME LedgerProofs!IInv, NEW p \in Phytomer, NEW q \in Pollen,
           Ledger!Open(p, q)
    PROVE  /\ RestKept(p) /\ RecordKept(p)
           /\ seeds[p].status = "absent"
           /\ seeds'[p].status = "running" /\ seeds'[p].pollen = q
           /\ seeds'[p].fruit = FALSE
           /\ continuations' = continuations
           /\ Pending(p)' = {} /\ Delivering(p)' = {} /\ Delivered(p)' = {}
<1>1. /\ seeds \in [Phytomer -> Ledger!SeedRow]
      /\ continuations[p] = <<>>
  BY LedgerFacts DEF Ledger!TypeOK, Ledger!Open
<1>2. DOMAIN continuations[p] = {}
  BY <1>1
<1> QED
  BY <1>1, <1>2 DEF Ledger!Open, RestKept, RecordKept, Recorded, Pending,
     Delivering, Delivered, Ledger!InState

LEMMA AcceptEffect ==
    ASSUME LedgerProofs!IInv, NEW p \in Phytomer, NEW r \in Request,
           Ledger!Accept(p, r.pollen, r.key, r.intent)
    PROVE  /\ RestKept(p) /\ RecordKept(p) /\ Recorded(p, r)'
           /\ UNCHANGED seeds /\ seeds[p].status = "running"
           /\ Delivering(p)' = Delivering(p)
           /\ Delivered(p)' = Delivered(p)
           /\ \A j \in Pending(p)' :
                 j \in Pending(p) \/ \A i \in Delivering(p) : i < j
<1> DEFINE new == [pollen |-> r.pollen, key |-> r.key, intent |-> r.intent,
                   state |-> "pending"]
           last == Len(continuations[p]) + 1
<1>1. /\ r.pollen \in Pollen /\ r.key \in Key /\ r.intent \in Intent
      /\ Ledger!TypeOK
  BY LedgerFacts DEF Request
<1>2. /\ UNCHANGED seeds
      /\ seeds[p].status = "running"
  BY DEF Ledger!Accept, Ledger!Acceptable, Ledger!Eligible
<1>3. /\ \/ UNCHANGED continuations
         \/ /\ continuations' =
                  [continuations EXCEPT ![p] = Append(continuations[p], new)]
            /\ DOMAIN continuations'[p] = DOMAIN continuations[p] \cup {last}
            /\ \A i \in DOMAIN continuations[p] :
                  continuations'[p][i] = continuations[p][i] /\ i < last
            /\ continuations'[p][last] = new
      /\ \E i \in DOMAIN continuations'[p] :
            /\ continuations'[p][i].key = r.key
            /\ continuations'[p][i].intent = r.intent
            /\ continuations'[p][i].pollen = r.pollen
  BY <1>1, Accepted
<1>4. Recorded(p, r)'
  BY <1>3 DEF Recorded
<1>5. CASE UNCHANGED continuations
  BY <1>2, <1>4, <1>5 DEF RestKept, RecordKept, Recorded, Pending, Delivering,
     Delivered, Ledger!InState
<1>6. CASE ~UNCHANGED continuations
  <2>1. /\ DOMAIN continuations'[p] = DOMAIN continuations[p] \cup {last}
        /\ \A i \in DOMAIN continuations[p] :
              continuations'[p][i] = continuations[p][i] /\ i < last
        /\ continuations'[p][last].state = "pending"
    BY <1>3, <1>6
  <2>2. \A x \in Phytomer \ {p} : continuations'[x] = continuations[x]
    BY <1>1, <1>3, <1>6 DEF Ledger!TypeOK
  <2> HIDE DEF last
  <2>3. RestKept(p) /\ RecordKept(p)
    BY <1>2, <2>1, <2>2 DEF RestKept, RecordKept, Recorded
  <2>4. /\ Delivering(p)' = Delivering(p) /\ Delivered(p)' = Delivered(p)
        /\ \A i \in Delivering(p) : i < last
        /\ Pending(p)' \subseteq Pending(p) \cup {last}
    BY <2>1 DEF Delivering, Delivered, Pending, Ledger!InState
  <2> QED
    BY <1>2, <1>4, <2>3, <2>4
<1> QED
  BY <1>5, <1>6

LEMMA ClaimEffect ==
    ASSUME LedgerProofs!IInv, NEW p \in Phytomer, NEW q \in Pollen,
           Ledger!ClaimPending(p, q)
    PROVE  /\ RestKept(p) /\ RecordKept(p)
           /\ UNCHANGED seeds
           /\ Pending(p)' = {}
           /\ Delivering(p)' = Delivering(p) \cup Pending(p)
           /\ Delivered(p)' = Delivered(p)
<1>1. Ledger!TypeOK /\ UNCHANGED seeds
  BY LedgerFacts DEF Ledger!ClaimPending
<1>2. /\ "delivering" \in Ledger!DeliveryState \ {"pending"}
      /\ Pending(p) \in SUBSET DOMAIN continuations[p]
      /\ Ledger!Transition(p, Pending(p), "delivering")
  BY DEF Ledger!DeliveryState, Pending, Ledger!ClaimPending, Ledger!InState
<1> HIDE DEF Pending
<1>3. /\ continuations' = [continuations EXCEPT ![p] =
                     Ledger!Moved(continuations[p], Pending(p), "delivering")]
      /\ DOMAIN continuations'[p] = DOMAIN continuations[p]
      /\ \A i \in DOMAIN continuations[p] :
            /\ continuations'[p][i].pollen = continuations[p][i].pollen
            /\ continuations'[p][i].key = continuations[p][i].key
            /\ continuations'[p][i].intent = continuations[p][i].intent
      /\ Pending(p)' = Pending(p) \ Pending(p)
      /\ Delivering(p)' = Delivering(p) \cup Pending(p)
      /\ Delivered(p)' = Delivered(p) \ Pending(p)
  BY <1>1, <1>2, Transitioned
<1>4. RestKept(p) /\ RecordKept(p)
  BY <1>1, <1>3 DEF RestKept, RecordKept, Recorded, Ledger!TypeOK
<1>5. Pending(p)' = {}
  BY <1>3
<1>6. Delivering(p) \cap Pending(p) = {} /\ Delivered(p) \cap Pending(p) = {}
  BY DEF Delivering, Delivered, Pending, Ledger!InState
<1>7. /\ Delivering(p)' = Delivering(p) \cup Pending(p)
      /\ Delivered(p)' = Delivered(p)
  BY <1>3, <1>6
<1> QED
  BY <1>1, <1>4, <1>5, <1>7

LEMMA DeliverEffect ==
    ASSUME LedgerProofs!IInv, NEW p \in Phytomer, NEW q \in Pollen, NEW ids,
           Ledger!MarkDelivered(p, q, ids)
    PROVE  /\ RestKept(p) /\ RecordKept(p)
           /\ UNCHANGED seeds
           /\ Pending(p)' = Pending(p)
           /\ ids \subseteq Delivering(p)
           /\ Delivering(p)' = Delivering(p) \ ids
           /\ Delivered(p)' = Delivered(p) \cup ids
<1>1. Ledger!TypeOK /\ UNCHANGED seeds
  BY LedgerFacts DEF Ledger!MarkDelivered
<1>2. /\ "delivered" \in Ledger!DeliveryState \ {"pending"}
      /\ ids \subseteq Delivering(p)
      /\ ids \in SUBSET DOMAIN continuations[p]
      /\ Ledger!Transition(p, ids, "delivered")
  BY DEF Ledger!DeliveryState, Ledger!MarkDelivered, Ledger!Deliverable,
     Ledger!InState, Delivering
<1>3. /\ continuations' = [continuations EXCEPT ![p] =
                     Ledger!Moved(continuations[p], ids, "delivered")]
      /\ DOMAIN continuations'[p] = DOMAIN continuations[p]
      /\ \A i \in DOMAIN continuations[p] :
            /\ continuations'[p][i].pollen = continuations[p][i].pollen
            /\ continuations'[p][i].key = continuations[p][i].key
            /\ continuations'[p][i].intent = continuations[p][i].intent
      /\ Pending(p)' = Pending(p) \ ids
      /\ Delivering(p)' = Delivering(p) \ ids
      /\ Delivered(p)' = Delivered(p) \cup ids
  BY <1>1, <1>2, Transitioned
<1>4. RestKept(p) /\ RecordKept(p)
  BY <1>1, <1>3 DEF RestKept, RecordKept, Recorded, Ledger!TypeOK
<1>5. ids \subseteq Delivering(p) /\ Pending(p) \cap ids = {}
      /\ Delivered(p) \cap ids = {}
  BY <1>2 DEF Delivering, Pending, Delivered, Ledger!InState
<1>6. /\ Pending(p)' = Pending(p)
      /\ Delivering(p)' = Delivering(p) \ ids
      /\ Delivered(p)' = Delivered(p) \cup ids
  BY <1>3, <1>5
<1> QED
  BY <1>1, <1>4, <1>5, <1>6

LEMMA FenceEffect ==
    ASSUME LedgerProofs!IInv, NEW p \in Phytomer, NEW q \in Pollen,
           Ledger!AcquireFence(p, q)
    PROVE  /\ RestKept(p) /\ RecordKept(p)
           /\ seeds'[p].status = "settling"
           /\ seeds'[p].pollen = seeds[p].pollen
           /\ seeds'[p].fruit = seeds[p].fruit
           /\ seeds[p].status = "running"
           /\ continuations' = continuations
           /\ Pending(p)' = {} /\ Delivering(p)' = {}
           /\ Delivered(p)' = Delivered(p)
<1>1. /\ seeds \in [Phytomer -> Ledger!SeedRow]
      /\ seeds[p] \in Ledger!SeedRow
  BY LedgerFacts DEF Ledger!TypeOK
<1>2. /\ seeds' = [seeds EXCEPT ![p] = [seeds[p] EXCEPT !.status = "settling"]]
      /\ continuations' = continuations
      /\ Ledger!UnresolvedOf(p) = {}
      /\ seeds[p].status = "running"
  BY <1>1 DEF Ledger!AcquireFence, Ledger!FenceGranted, Ledger!Eligible
<1>3. /\ seeds'[p].status = "settling"
      /\ seeds'[p].pollen = seeds[p].pollen
      /\ seeds'[p].fruit = seeds[p].fruit
  BY <1>1, <1>2 DEF Ledger!SeedRow
<1>4. RestKept(p) /\ RecordKept(p)
  BY <1>1, <1>2 DEF RestKept, RecordKept, Recorded
<1>5. Pending(p)' = {} /\ Delivering(p)' = {} /\ Delivered(p)' = Delivered(p)
  BY <1>2 DEF Pending, Delivering, Delivered, Ledger!UnresolvedOf,
     Ledger!InState, Ledger!Unresolved
<1> QED
  BY <1>2, <1>3, <1>4, <1>5

LEMMA CompleteEffect ==
    ASSUME LedgerProofs!IInv, NEW p \in Phytomer, NEW q \in Pollen,
           NEW fruit \in BOOLEAN, Ledger!Complete(p, q, fruit)
    PROVE  /\ RestKept(p) /\ RecordKept(p)
           /\ seeds'[p].status = "settled"
           /\ seeds'[p].pollen = seeds[p].pollen
           /\ seeds'[p].fruit = fruit
           /\ seeds[p].status = "settling"
           /\ continuations' = continuations
           /\ Delivered(p)' = Delivered(p)
<1>1. /\ seeds \in [Phytomer -> Ledger!SeedRow]
      /\ seeds[p] \in Ledger!SeedRow
  BY LedgerFacts DEF Ledger!TypeOK
<1>2. /\ seeds' = [seeds EXCEPT ![p] =
                      [seeds[p] EXCEPT !.status = "settled", !.error = "none",
                                       !.fruit = fruit]]
      /\ continuations' = continuations
      /\ seeds[p].status = "settling"
  BY <1>1 DEF Ledger!Complete, Ledger!Completable
<1>3. /\ seeds'[p].status = "settled"
      /\ seeds'[p].pollen = seeds[p].pollen
      /\ seeds'[p].fruit = fruit
  BY <1>1, <1>2 DEF Ledger!SeedRow
<1>4. RestKept(p) /\ RecordKept(p) /\ Delivered(p)' = Delivered(p)
  BY <1>1, <1>2 DEF RestKept, RecordKept, Recorded, Delivered, Ledger!InState
<1> QED
  BY <1>2, <1>3, <1>4

LEMMA FailedRows ==
    ASSUME Ledger!TypeOK, NEW p \in Phytomer,
           Ledger!Transition(p, Ledger!UnresolvedOf(p), "failed")
    PROVE  /\ RecordKept(p) /\ Delivered(p)' = Delivered(p)
           /\ \A r \in Phytomer \ {p} : continuations'[r] = continuations[r]
<1>1. /\ continuations \in [Phytomer -> Seq(Ledger!Continuation)]
      /\ continuations[p] \in Seq(Ledger!Continuation)
      /\ "failed" \in Ledger!DeliveryState
  BY DEF Ledger!TypeOK, Ledger!DeliveryState
<1>2. /\ continuations'[p] =
            Ledger!Moved(continuations[p], Ledger!UnresolvedOf(p), "failed")
      /\ \A r \in Phytomer \ {p} : continuations'[r] = continuations[r]
  BY <1>1 DEF Ledger!Transition
<1>3. /\ DOMAIN continuations'[p] = DOMAIN continuations[p]
      /\ \A i \in DOMAIN continuations[p] :
            /\ continuations'[p][i].pollen = continuations[p][i].pollen
            /\ continuations'[p][i].key = continuations[p][i].key
            /\ continuations'[p][i].intent = continuations[p][i].intent
            /\ continuations'[p][i].state =
                  IF i \in Ledger!UnresolvedOf(p) THEN "failed"
                  ELSE continuations[p][i].state
  BY <1>1, <1>2, MovedRows
<1>4. RecordKept(p)
  BY <1>3 DEF RecordKept, Recorded
<1>5. Delivered(p)' = Delivered(p)
  BY <1>3 DEF Delivered, Ledger!UnresolvedOf, Ledger!InState, Ledger!Unresolved
<1> QED
  BY <1>2, <1>4, <1>5

LEMMA FailureEffect ==
    ASSUME LedgerProofs!IInv, NEW p \in Phytomer, NEW q \in Pollen,
           NEW error, Ledger!AccountFailure(p, q, error)
    PROVE  /\ RestKept(p) /\ RecordKept(p)
           /\ seeds'[p].status = "settled"
           /\ seeds[p].status # "absent"
           /\ seeds'[p].pollen = seeds[p].pollen
           /\ IF Ledger!Active(p) THEN seeds'[p].fruit = FALSE
              ELSE seeds'[p] = seeds[p] /\ seeds[p].status = "settled"
           /\ Delivered(p)' = Delivered(p)
<1>1. /\ seeds \in [Phytomer -> Ledger!SeedRow]
      /\ seeds[p] \in Ledger!SeedRow
      /\ Ledger!TypeOK
  BY LedgerFacts DEF Ledger!TypeOK
<1>2. Ledger!Transition(p, Ledger!UnresolvedOf(p), "failed")
  BY DEF Ledger!AccountFailure
<1>3. /\ RecordKept(p) /\ Delivered(p)' = Delivered(p)
      /\ \A r \in Phytomer \ {p} : continuations'[r] = continuations[r]
  BY <1>1, <1>2, FailedRows
<1>5. seeds[p].status \in {"running", "settling", "settled"}
  BY <1>1 DEF Ledger!AccountFailure, Ledger!ExactTarget, Ledger!SeedRow,
     Ledger!SeedStatus
<1>6. RestKept(p)
  BY <1>1, <1>3 DEF RestKept, Ledger!AccountFailure
<1>7. CASE Ledger!Active(p)
  <2>1. PICK diagnostic :
           seeds' = [seeds EXCEPT ![p] =
                       [seeds[p] EXCEPT !.status = "settled",
                                        !.error = diagnostic, !.fruit = FALSE]]
    BY <1>1, <1>7 DEF Ledger!AccountFailure
  <2>2. /\ seeds'[p].status = "settled"
        /\ seeds'[p].pollen = seeds[p].pollen
        /\ seeds'[p].fruit = FALSE
    BY <1>1, <2>1 DEF Ledger!SeedRow
  <2> QED
    BY <1>3, <1>5, <1>6, <1>7, <2>2
<1>8. CASE ~Ledger!Active(p)
  <2>1. seeds[p].status = "settled"
    BY <1>5, <1>8 DEF Ledger!Active
  <2>2. Ledger!UnresolvedOf(p) = {}
    BY <2>1, LedgerFacts
  <2>3. UNCHANGED seeds
    BY <1>8, <2>2 DEF Ledger!AccountFailure
  <2> QED
    BY <1>3, <1>6, <1>8, <2>1, <2>3
<1> QED
  BY <1>7, <1>8

LEMMA ReconcileEffect ==
    ASSUME LedgerProofs!IInv, Ledger!Reconcile, NEW p \in Phytomer
    PROVE  /\ RecordKept(p)
           /\ seeds'[p].status = IF Ledger!Active(p) THEN "settled"
                                                     ELSE seeds[p].status
           /\ seeds'[p].pollen = seeds[p].pollen
           /\ seeds'[p].fruit = (seeds[p].fruit /\ ~Ledger!Active(p))
           /\ Delivered(p)' = Delivered(p)
<1>1. /\ seeds[p] \in Ledger!SeedRow
      /\ continuations[p] \in Seq(Ledger!Continuation)
      /\ "failed" \in Ledger!DeliveryState
  BY LedgerFacts DEF Ledger!DeliveryState
<1>2. continuations'[p] =
         Ledger!Moved(continuations[p], Ledger!UnresolvedOf(p), "failed")
  BY DEF Ledger!Reconcile
<1>3. /\ DOMAIN continuations'[p] = DOMAIN continuations[p]
      /\ \A i \in DOMAIN continuations[p] :
            /\ continuations'[p][i].pollen = continuations[p][i].pollen
            /\ continuations'[p][i].key = continuations[p][i].key
            /\ continuations'[p][i].intent = continuations[p][i].intent
            /\ continuations'[p][i].state =
                  IF i \in Ledger!UnresolvedOf(p) THEN "failed"
                  ELSE continuations[p][i].state
  BY <1>1, <1>2, MovedRows
<1>4. RecordKept(p)
  BY <1>3 DEF RecordKept, Recorded
<1>5. Delivered(p)' = Delivered(p)
  BY <1>3 DEF Delivered, Ledger!UnresolvedOf, Ledger!InState, Ledger!Unresolved
<1>6. /\ seeds'[p].status = IF Ledger!Active(p) THEN "settled"
                                                ELSE seeds[p].status
      /\ seeds'[p].pollen = seeds[p].pollen
      /\ seeds'[p].fruit = (seeds[p].fruit /\ ~Ledger!Active(p))
  <2>1. CASE Ledger!Active(p)
    BY <1>1, <2>1 DEF Ledger!Reconcile, Ledger!SeedRow
  <2>2. CASE ~Ledger!Active(p)
    BY <1>1, <2>2 DEF Ledger!Reconcile, Ledger!SeedRow
  <2> QED
    BY <2>1, <2>2
<1> QED
  BY <1>4, <1>5, <1>6

-----------------------------------------------------------------------------
(* Every step of the processes is a transaction of the ledger, or none.    *)

LEMMA SameTransactions == Ledger!Next => LedgerProofs!Next
<1>1. ASSUME NEW p \in Phytomer, NEW q \in Pollen, Ledger!Open(p, q)
      PROVE  LedgerProofs!Open(p, q)
  BY <1>1
  DEF Ledger!Open, LedgerProofs!Open
<1>2. ASSUME NEW p \in Phytomer, NEW q \in Pollen, NEW k \in Key,
             NEW intent \in Intent, Ledger!Accept(p, q, k, intent)
      PROVE  LedgerProofs!Accept(p, q, k, intent)
  BY <1>2
  DEF Ledger!Accept, LedgerProofs!Accept, Ledger!Acceptable,
      LedgerProofs!Acceptable, Ledger!Retry, LedgerProofs!Retry,
      Ledger!Eligible, LedgerProofs!Eligible, Ledger!ExactTarget,
      LedgerProofs!ExactTarget
<1>3. ASSUME NEW p \in Phytomer, NEW q \in Pollen, Ledger!ClaimPending(p, q)
      PROVE  LedgerProofs!ClaimPending(p, q)
  BY <1>3
  DEF Ledger!ClaimPending, LedgerProofs!ClaimPending, Ledger!Eligible,
      LedgerProofs!Eligible, Ledger!ExactTarget, LedgerProofs!ExactTarget,
      Ledger!Transition, LedgerProofs!Transition, Ledger!Moved,
      LedgerProofs!Moved, Ledger!InState, LedgerProofs!InState
<1>4. ASSUME NEW p \in Phytomer, NEW q \in Pollen,
             NEW ids \in SUBSET Ledger!InState(p, {"delivering"}),
             Ledger!MarkDelivered(p, q, ids)
      PROVE  /\ LedgerProofs!MarkDelivered(p, q, ids)
             /\ ids \in SUBSET LedgerProofs!InState(p, {"delivering"})
  BY <1>4
  DEF Ledger!MarkDelivered, LedgerProofs!MarkDelivered, Ledger!Deliverable,
      LedgerProofs!Deliverable, Ledger!ExactTarget, LedgerProofs!ExactTarget,
      Ledger!Transition, LedgerProofs!Transition, Ledger!Moved,
      LedgerProofs!Moved, Ledger!InState, LedgerProofs!InState
<1>5. ASSUME NEW p \in Phytomer, NEW q \in Pollen, Ledger!AcquireFence(p, q)
      PROVE  LedgerProofs!AcquireFence(p, q)
  BY <1>5
  DEF Ledger!AcquireFence, LedgerProofs!AcquireFence, Ledger!FenceGranted,
      LedgerProofs!FenceGranted, Ledger!UnresolvedOf,
      LedgerProofs!UnresolvedOf, Ledger!Unresolved, LedgerProofs!Unresolved,
      Ledger!InState, LedgerProofs!InState, Ledger!Eligible,
      LedgerProofs!Eligible, Ledger!ExactTarget, LedgerProofs!ExactTarget
<1>6. ASSUME NEW p \in Phytomer, NEW q \in Pollen, NEW fruit \in BOOLEAN,
             Ledger!Complete(p, q, fruit)
      PROVE  LedgerProofs!Complete(p, q, fruit)
  BY <1>6
  DEF Ledger!Complete, LedgerProofs!Complete, Ledger!Completable,
      LedgerProofs!Completable, Ledger!ExactTarget, LedgerProofs!ExactTarget,
      Ledger!UnresolvedOf, LedgerProofs!UnresolvedOf, Ledger!Unresolved,
      LedgerProofs!Unresolved, Ledger!InState, LedgerProofs!InState
<1>7. ASSUME NEW p \in Phytomer, NEW q \in Pollen,
             NEW error \in Ledger!SeedError \ {"restart"},
             Ledger!AccountFailure(p, q, error)
      PROVE  /\ LedgerProofs!AccountFailure(p, q, error)
             /\ error \in LedgerProofs!SeedError \ {"restart"}
  BY <1>7
  DEF Ledger!AccountFailure, LedgerProofs!AccountFailure, Ledger!ExactTarget,
      LedgerProofs!ExactTarget, Ledger!Active, LedgerProofs!Active,
      Ledger!UnresolvedOf, LedgerProofs!UnresolvedOf, Ledger!Unresolved,
      LedgerProofs!Unresolved, Ledger!SeedError, LedgerProofs!SeedError,
      Ledger!Transition, LedgerProofs!Transition, Ledger!Moved,
      LedgerProofs!Moved, Ledger!InState, LedgerProofs!InState
<1>8. Ledger!Reconcile => LedgerProofs!Reconcile
  BY DEF Ledger!Reconcile, LedgerProofs!Reconcile, Ledger!Active,
      LedgerProofs!Active, Ledger!Moved, LedgerProofs!Moved,
      Ledger!UnresolvedOf, LedgerProofs!UnresolvedOf, Ledger!Unresolved,
      LedgerProofs!Unresolved, Ledger!InState, LedgerProofs!InState
<1>9. ASSUME NEW p \in Phytomer, NEW q \in Pollen,
             \/ Ledger!Open(p, q)
             \/ \E k \in Key, intent \in Intent : Ledger!Accept(p, q, k, intent)
             \/ Ledger!ClaimPending(p, q)
             \/ \E ids \in SUBSET Ledger!InState(p, {"delivering"}) :
                   Ledger!MarkDelivered(p, q, ids)
             \/ Ledger!AcquireFence(p, q)
             \/ \E fruit \in BOOLEAN : Ledger!Complete(p, q, fruit)
             \/ \E error \in Ledger!SeedError \ {"restart"} :
                   Ledger!AccountFailure(p, q, error)
      PROVE  LedgerProofs!Next
  <2>1. \/ LedgerProofs!Open(p, q)
        \/ \E k \in Key, intent \in Intent :
              LedgerProofs!Accept(p, q, k, intent)
        \/ LedgerProofs!ClaimPending(p, q)
        \/ \E ids \in SUBSET LedgerProofs!InState(p, {"delivering"}) :
              LedgerProofs!MarkDelivered(p, q, ids)
        \/ LedgerProofs!AcquireFence(p, q)
        \/ \E fruit \in BOOLEAN : LedgerProofs!Complete(p, q, fruit)
        \/ \E error \in LedgerProofs!SeedError \ {"restart"} :
              LedgerProofs!AccountFailure(p, q, error)
    <3> USE <1>9
    <3>1. CASE Ledger!Open(p, q)
      BY <3>1, <1>1
    <3>2. CASE \E k \in Key, intent \in Intent : Ledger!Accept(p, q, k, intent)
      BY <3>2, <1>2
    <3>3. CASE Ledger!ClaimPending(p, q)
      BY <3>3, <1>3
    <3>4. CASE \E ids \in SUBSET Ledger!InState(p, {"delivering"}) :
                  Ledger!MarkDelivered(p, q, ids)
      BY <3>4, <1>4
    <3>5. CASE Ledger!AcquireFence(p, q)
      BY <3>5, <1>5
    <3>6. CASE \E fruit \in BOOLEAN : Ledger!Complete(p, q, fruit)
      BY <3>6, <1>6
    <3>7. CASE \E error \in Ledger!SeedError \ {"restart"} :
                  Ledger!AccountFailure(p, q, error)
      BY <3>7, <1>7
    <3> QED
      BY <3>1, <3>2, <3>3, <3>4, <3>5, <3>6, <3>7
  <2> QED
    BY <2>1 DEF LedgerProofs!Next
<1> QED
  BY <1>8, <1>9 DEF Ledger!Next, LedgerProofs!Next

\* What a goroutine holds, while there is one.
LEMMA GrowthShape ==
    ASSUME TypeOK, NEW p \in Phytomer, growth[p].at # "none"
    PROVE  /\ growth[p] \in Growth
           /\ growth[p].pollen \in Pollen /\ growth[p].by \in Process
           /\ growth[p].error \in RunError /\ growth[p].fruit \in BOOLEAN
BY DEF TypeOK, NoGrowth, Growth

LEMMA LedgerStep == TypeOK /\ [Next]_vars => [Ledger!Next]_ledger
<1> SUFFICES ASSUME TypeOK, [Next]_vars PROVE [Ledger!Next]_ledger
  OBVIOUS
<1>1. ASSUME NEW s \in Process, NEW p \in Phytomer, NEW q \in Pollen,
             NEW gated \in BOOLEAN, OpenSeed(s, p, q, gated)
      PROVE  Ledger!Next
  BY <1>1 DEF OpenSeed, Ledger!Next
<1>2. ASSUME NEW p \in Phytomer, DeliverPending(p)
      PROVE  [Ledger!Next]_ledger
  <2>1. growth[p].pollen \in Pollen
    BY <1>2, GrowthShape DEF DeliverPending, At
  <2>2. Ledger!ClaimPending(p, growth[p].pollen) \/ UNCHANGED ledger
    BY <1>2 DEF DeliverPending, Call
  <2> QED
    BY <2>1, <2>2 DEF Ledger!Next
<1>3. ASSUME NEW p \in Phytomer, ConfirmDelivery(p)
      PROVE  [Ledger!Next]_ledger
  <2>1. growth[p].pollen \in Pollen
    BY <1>3, GrowthShape DEF ConfirmDelivery, At
  <2>2. \/ Ledger!MarkDelivered(p, growth[p].pollen, growth[p].claimed)
        \/ UNCHANGED ledger
    BY <1>3 DEF ConfirmDelivery, Call
  <2>3. Ledger!MarkDelivered(p, growth[p].pollen, growth[p].claimed) =>
           growth[p].claimed \in SUBSET Ledger!InState(p, {"delivering"})
    BY DEF Ledger!MarkDelivered, Ledger!Deliverable
  <2> QED
    BY <2>1, <2>2, <2>3 DEF Ledger!Next
<1>4. ASSUME NEW p \in Phytomer, AcquireSettlementFence(p)
      PROVE  [Ledger!Next]_ledger
  <2>1. growth[p].pollen \in Pollen
    BY <1>4, GrowthShape DEF AcquireSettlementFence
  <2>2. Ledger!AcquireFence(p, growth[p].pollen) \/ UNCHANGED ledger
    BY <1>4 DEF AcquireSettlementFence, Call
  <2> QED
    BY <2>1, <2>2 DEF Ledger!Next
<1>5. ASSUME NEW p \in Phytomer, Finalize(p)
      PROVE  [Ledger!Next]_ledger
  <2> DEFINE error == IF growth[p].error = "publication" THEN "run"
                                                        ELSE growth[p].error
  <2>1. /\ growth[p].pollen \in Pollen /\ growth[p].fruit \in BOOLEAN
        /\ error \in Ledger!SeedError \ {"restart"}
    BY <1>5, GrowthShape DEF Finalize, At, RunError, Ledger!SeedError
  <2>2. \/ Ledger!Complete(p, growth[p].pollen, growth[p].fruit)
        \/ Ledger!AccountFailure(p, growth[p].pollen, error)
        \/ UNCHANGED ledger
    BY <1>5 DEF Finalize, Call
  <2> HIDE DEF error
  <2> QED
    BY <2>1, <2>2 DEF Ledger!Next
<1>6. ASSUME NEW s \in Process, NEW r \in Request, Answer(s, r)
      PROVE  [Ledger!Next]_ledger
  <2>1. /\ r.phytomer \in Phytomer /\ r.pollen \in Pollen
        /\ r.key \in Key /\ r.intent \in Intent
    BY DEF Request
  <2>2. \/ Ledger!Accept(r.phytomer, r.pollen, r.key, r.intent)
        \/ UNCHANGED ledger
    BY <1>6 DEF Answer, Call
  <2> QED
    BY <2>1, <2>2 DEF Ledger!Next
<1>7. ASSUME NEW s \in Process, Boot(s)
      PROVE  [Ledger!Next]_ledger
  BY <1>7 DEF Boot, Call, Ledger!Next
<1>8. ASSUME NEW p \in Phytomer,
             \/ Expire(p) \/ LoopHead(p) \/ NoSprout(p) \/ Build(p)
             \/ Judge(p) \/ Settle(p)
      PROVE  UNCHANGED ledger
  BY <1>8 DEF Expire, LoopHead, NoSprout, Build, Judge, Settle
<1>9. ASSUME NEW s \in Process, Crash(s) \/ \E r \in Request : Ask(s, r)
      PROVE  UNCHANGED ledger
  BY <1>9 DEF Ask, Crash
<1>10. CASE UNCHANGED vars
  BY <1>10 DEF vars, ledger
<1> QED
  BY <1>1, <1>2, <1>3, <1>4, <1>5, <1>6, <1>7, <1>8, <1>9, <1>10
  DEF Next, Grow

\* The ledger stays sound whatever the processes do.
LEMMA LedgerSound == IInv /\ [Next]_vars => LedgerProofs!IInv' /\ Ledger!TypeOK'
<1> SUFFICES ASSUME IInv, [Next]_vars
             PROVE  LedgerProofs!IInv' /\ Ledger!TypeOK'
  OBVIOUS
<1>1. [LedgerProofs!Next]_(LedgerProofs!vars)
  BY LedgerStep, SameTransactions DEF IInv, ledger, LedgerProofs!vars
<1>2. LedgerProofs!IInv'
  BY <1>1, LedgerProofs!NextSound DEF IInv
<1>3. LedgerProofs!IInv' => Ledger!TypeOK'
  BY DEF LedgerProofs!IInv, LedgerProofs!TypeOK, Ledger!TypeOK,
     LedgerProofs!SeedRow, Ledger!SeedRow, LedgerProofs!SeedStatus,
     Ledger!SeedStatus, LedgerProofs!SeedError, Ledger!SeedError,
     LedgerProofs!Nobody, Ledger!Nobody, LedgerProofs!Continuation,
     Ledger!Continuation, LedgerProofs!DeliveryState, Ledger!DeliveryState
<1> QED
  BY <1>2, <1>3

-----------------------------------------------------------------------------
(* A step about one Phytomer leaves the others as they are.                *)

\* What is kept about the growth of r.
GrowthKept(r) ==
    /\ UNCHANGED <<growth[r], sent[r], probed[r], acked[r]>>
    /\ UNCHANGED <<seeds[r], continuations[r]>>
    /\ growth[r].at \notin {"none", "gone"} =>
          /\ growth[r].by \in up'
          /\ r \in quarantine'[growth[r].by] <=> r \in quarantine[growth[r].by]

LEMMA Untouched ==
    ASSUME NEW r \in Phytomer, Sound(r), GrowthKept(r)
    PROVE  Sound(r)'
<1>1. /\ Delivering(r)' = Delivering(r) /\ Delivered(r)' = Delivered(r)
      /\ Pending(r)' = Pending(r)
      /\ Ledger!Active(r)' = Ledger!Active(r)
      /\ \A x : Recorded(r, x) => Recorded(r, x)'
  BY DEF GrowthKept, Delivering, Delivered, Pending, Ledger!InState,
     Ledger!Active, Recorded
<1>2. Joined(r)'
  BY <1>1 DEF Sound, Joined, GrowthKept
<1>3. Tracked(r)'
  BY <1>1 DEF Sound, Tracked, Ordered, GrowthKept
<1>4. Told(r)'
  BY <1>1 DEF Sound, Told, GrowthKept
<1> QED
  BY <1>2, <1>3, <1>4 DEF Sound

\* A step of the goroutine that grows p, or of its launch, that leaves what is
\* shared alone.
LEMMA GoroutineStep ==
    ASSUME IInv, [Next]_vars, NEW p \in Phytomer, NEW g \in Growth,
           Becomes(p, g), RestKept(p), faults' \in 0 .. MaxFaults,
           UNCHANGED <<up, asking, quarantine, sent, probed, acked>>,
           Sound(p)'
    PROVE  IInv'
<1>1. LedgerProofs!IInv' /\ Ledger!TypeOK'
  BY LedgerSound
<1>2. growth \in [Phytomer -> Growth \cup {NoGrowth}]
  BY DEF IInv, TypeOK
<1>3. TypeOK'
  BY <1>1, <1>2 DEF IInv, TypeOK, Becomes
<1>4. ASSUME NEW r \in Phytomer \ {p} PROVE Sound(r)'
  <2>1. Sound(r)
    BY DEF IInv
  <2>2. GrowthKept(r)
    BY <1>2, <2>1 DEF Becomes, GrowthKept, RestKept, Sound, Joined
  <2> QED
    BY <2>1, <2>2, Untouched
<1> QED
  BY <1>1, <1>3, <1>4 DEF IInv

\* The same, of a step that leaves the ledger alone too.
LEMMA LedgerKept ==
    ASSUME UNCHANGED ledger, NEW p \in Phytomer
    PROVE  /\ RestKept(p) /\ RecordKept(p)
           /\ UNCHANGED <<seeds, continuations>>
           /\ Delivering(p)' = Delivering(p) /\ Delivered(p)' = Delivered(p)
           /\ Pending(p)' = Pending(p)
           /\ Ledger!Active(p)' = Ledger!Active(p)
           /\ Ordered(p) => Ordered(p)'
BY DEF ledger, RestKept, RecordKept, Recorded, Delivering, Delivered, Pending,
   Ledger!InState, Ledger!Active, Ordered

-----------------------------------------------------------------------------
(* The steps of a goroutine.                                               *)

LEMMA OpenSeedSound ==
    ASSUME IInv, [Next]_vars, NEW s \in Process, NEW p \in Phytomer,
           NEW q \in Pollen, NEW gated \in BOOLEAN, OpenSeed(s, p, q, gated)
    PROVE  IInv'
<1> DEFINE g == [at |-> "loop", by |-> s, pollen |-> q, gated |-> gated,
                 iteration |-> 0, expired |-> FALSE, claimed |-> {},
                 built |-> FALSE, requested |-> FALSE, execution |-> "",
                 verification |-> IF gated THEN "" ELSE "not-requested",
                 error |-> "none", fruit |-> FALSE]
<1>1. /\ g \in Growth
      /\ g.at = "loop" /\ g.by = s /\ g.pollen = q /\ ~g.fruit
  BY MaxIterationsAssumption
  DEF Growth, Step, Execution, Verification, RunError
<1>2. /\ Becomes(p, g) /\ s \in up /\ Ledger!Open(p, q)
      /\ UNCHANGED <<up, asking, quarantine, sent, probed, acked, faults>>
  BY DEF OpenSeed, elsewhere
<1> HIDE DEF g
<1>3. /\ RestKept(p) /\ RecordKept(p)
      /\ seeds[p].status = "absent"
      /\ seeds'[p].status = "running" /\ seeds'[p].pollen = q
      /\ seeds'[p].fruit = FALSE
      /\ Pending(p)' = {} /\ Delivering(p)' = {} /\ Delivered(p)' = {}
  BY <1>2, OpenEffect DEF IInv
<1>4. growth'[p] = g /\ Sound(p)
  BY <1>2 DEF Becomes, IInv, TypeOK
<1>5. Joined(p)'
  BY <1>1, <1>2, <1>3, <1>4 DEF Joined
<1>6. Tracked(p)'
  BY <1>1, <1>3, <1>4 DEF Tracked, Ordered
<1>7. Told(p)'
  BY <1>1, <1>2, <1>3, <1>4 DEF Told, Sound, RecordKept, Ended
<1>8. faults' \in 0 .. MaxFaults
  BY <1>2 DEF IInv, TypeOK
<1> QED
  BY <1>1, <1>2, <1>3, <1>5, <1>6, <1>7, <1>8, GoroutineStep DEF Sound

\* RunSeed gave up: whatever its last call did to the ledger, it claimed
\* nothing it did not send and left Fruit and owner alone.
LEMMA AbortedSound ==
    ASSUME IInv, [Next]_vars, NEW p \in Phytomer, growth[p].at \in Passing,
           NEW error \in RunError, Aborted(p, error),
           UNCHANGED <<up, asking, quarantine, sent, probed, acked>>,
           faults' \in 0 .. MaxFaults,
           RestKept(p), RecordKept(p), Ordered(p)',
           seeds'[p].pollen = seeds[p].pollen,
           seeds'[p].fruit = seeds[p].fruit,
           seeds'[p].status = "absent" <=> seeds[p].status = "absent",
           Delivered(p)' \subseteq sent[p] \cup probed[p]
    PROVE  IInv'
<1> DEFINE g == [growth[p] EXCEPT !.at = "finalize", !.error = error,
                                  !.fruit = FALSE]
<1>1. growth[p] \in Growth /\ Sound(p)
  BY GrowthShape DEF IInv, Passing
<1>2. /\ g \in Growth /\ g.at = "finalize" /\ g.fruit = FALSE
      /\ g.pollen = growth[p].pollen /\ g.by = growth[p].by
  BY <1>1 DEF Growth, Step
<1>3. Becomes(p, g)
  BY DEF Aborted
<1> HIDE DEF g
<1>4. growth'[p] = g
  BY <1>3 DEF Becomes, IInv, TypeOK
<1>5. Joined(p)'
  BY <1>1, <1>2, <1>4 DEF Sound, Joined, Passing
<1>6. Tracked(p)'
  BY <1>2, <1>4 DEF Tracked
<1>7. Told(p)'
  BY <1>1, <1>2, <1>4 DEF Sound, Told, RecordKept, Passing, Ended
<1> QED
  BY <1>2, <1>3, <1>5, <1>6, <1>7, GoroutineStep DEF Sound

LEMMA ExpireSound ==
    ASSUME IInv, [Next]_vars, NEW p \in Phytomer, Expire(p)
    PROVE  IInv'
<1> DEFINE g == [growth[p] EXCEPT !.expired = TRUE]
<1>1. growth[p] \in Growth /\ Sound(p)
  BY GrowthShape DEF IInv, Expire, InRun
<1>2. /\ g \in Growth
      /\ \A field \in {"at", "by", "pollen", "claimed", "built", "requested",
                       "execution", "verification", "error", "fruit"} :
            g[field] = growth[p][field]
  BY <1>1 DEF Growth
<1>3. /\ Becomes(p, g) /\ UNCHANGED ledger
      /\ UNCHANGED <<up, asking, quarantine, sent, probed, acked, faults>>
  BY DEF Expire, elsewhere
<1> HIDE DEF g
<1>4. growth'[p] = g /\ faults' \in 0 .. MaxFaults
  BY <1>3 DEF Becomes, IInv, TypeOK
<1>5. /\ g.at = growth[p].at /\ g.by = growth[p].by
      /\ g.pollen = growth[p].pollen /\ g.claimed = growth[p].claimed
      /\ g.built = growth[p].built /\ g.requested = growth[p].requested
      /\ g.fruit = growth[p].fruit
      /\ Acceptable(g) = Acceptable(growth[p])
      /\ Succeeded(g) = Succeeded(growth[p])
  BY <1>2 DEF Acceptable, Succeeded
<1>6. Sound(p)'
  BY <1>1, <1>3, <1>4, <1>5, LedgerKept
  DEF Sound, Joined, Tracked, Told, RecordKept
<1> QED
  BY <1>2, <1>3, <1>4, <1>6, LedgerKept, GoroutineStep

LEMMA LoopHeadSound ==
    ASSUME IInv, [Next]_vars, NEW p \in Phytomer, LoopHead(p)
    PROVE  IInv'
<1>1. growth[p] \in Growth /\ Sound(p) /\ growth[p].at = "loop"
  BY GrowthShape DEF IInv, LoopHead, At
<1>2. PICK g \in Growth :
         /\ Becomes(p, g)
         /\ g.at \in {"deliver", "final fence"}
         /\ g.by = growth[p].by /\ g.pollen = growth[p].pollen
         /\ g.fruit = growth[p].fruit
  <2>1. CASE growth[p].iteration = MaxIterations
    <3> DEFINE g == [growth[p] EXCEPT !.at = "final fence"]
    <3>1. g \in Growth
      BY <1>1 DEF Growth, Step
    <3> QED
      BY <1>1, <2>1, <3>1 DEF LoopHead, Growth
  <2>2. CASE growth[p].iteration # MaxIterations /\ growth[p].expired
    <3> DEFINE g == [growth[p] EXCEPT !.at = "final fence",
                                      !.execution = "timed-out"]
    <3>1. g \in Growth
      BY <1>1 DEF Growth, Step, Execution
    <3> QED
      BY <1>1, <2>2, <3>1 DEF LoopHead, Growth
  <2>3. CASE growth[p].iteration # MaxIterations /\ ~growth[p].expired
    <3> DEFINE g == [growth[p] EXCEPT !.at = "deliver", !.iteration = @ + 1]
    <3>1. growth[p].iteration + 1 \in 0 .. MaxIterations
      BY <1>1, <2>3, MaxIterationsAssumption DEF Growth
    <3>2. g \in Growth
      BY <1>1, <3>1 DEF Growth, Step
    <3> QED
      BY <1>1, <2>3, <3>2 DEF LoopHead, Growth
  <2> QED
    BY <2>1, <2>2, <2>3
<1>3. /\ UNCHANGED ledger
      /\ UNCHANGED <<up, asking, quarantine, sent, probed, acked, faults>>
  BY DEF LoopHead, elsewhere
<1>4. growth'[p] = g /\ faults' \in 0 .. MaxFaults
  BY <1>2, <1>3 DEF Becomes, IInv, TypeOK
<1>5. Sound(p)'
  BY <1>1, <1>2, <1>3, <1>4, LedgerKept
  DEF Sound, Joined, Tracked, Told, RecordKept, Passing, Ended
<1> QED
  BY <1>2, <1>3, <1>4, <1>5, LedgerKept, GoroutineStep

LEMMA NoSproutSound ==
    ASSUME IInv, [Next]_vars, NEW p \in Phytomer, NoSprout(p)
    PROVE  IInv'
<1>1. Sound(p) /\ growth[p].at = "deliver" /\ Aborted(p, "run")
  BY DEF IInv, NoSprout, At
<1>2. /\ UNCHANGED ledger
      /\ UNCHANGED <<up, asking, quarantine, sent, probed, acked>>
  BY DEF NoSprout, elsewhere
<1>3. faults' \in 0 .. MaxFaults
  BY MaxFaultsAssumption DEF NoSprout, Fault, IInv, TypeOK
<1>4. /\ Ordered(p) /\ Delivered(p) \subseteq sent[p] \cup probed[p]
      /\ "run" \in RunError /\ growth[p].at \in Passing
  BY <1>1 DEF Sound, Tracked, Told, RunError, Passing
<1> QED
  BY <1>1, <1>2, <1>3, <1>4, LedgerKept, AbortedSound

\* The claim moves all that is pending, and the list of claimed intent is what
\* was pending: nothing else was being delivered.
LEMMA DeliverPendingSound ==
    ASSUME IInv, [Next]_vars, NEW p \in Phytomer, DeliverPending(p)
    PROVE  IInv'
<1> DEFINE g == [growth[p] EXCEPT !.at = "build", !.claimed = Pending(p)]
<1>1. /\ growth[p] \in Growth /\ Sound(p) /\ growth[p].at = "deliver"
      /\ growth[p].pollen \in Pollen
  BY GrowthShape DEF IInv, DeliverPending, At
<1>2. /\ UNCHANGED <<up, asking, quarantine, sent, probed, acked>>
      /\ faults' \in 0 .. MaxFaults
  BY MaxFaultsAssumption
  DEF DeliverPending, Call, Fault, elsewhere, IInv, TypeOK
<1>3. /\ \/ Ledger!ClaimPending(p, growth[p].pollen) \/ UNCHANGED ledger
      /\ \/ Ledger!ClaimPending(p, growth[p].pollen) /\ Becomes(p, g)
         \/ Aborted(p, "run")
  BY DEF DeliverPending, Call, Pending
<1>4. Ledger!ClaimPending(p, growth[p].pollen) =>
         /\ RestKept(p) /\ RecordKept(p)
         /\ UNCHANGED seeds
         /\ Pending(p)' = {}
         /\ Delivering(p)' = Delivering(p) \cup Pending(p)
         /\ Delivered(p)' = Delivered(p)
         /\ seeds[p].status = "running"
  BY <1>1, ClaimEffect DEF IInv, Ledger!ClaimPending, Ledger!Eligible
<1>5. CASE Aborted(p, "run")
  <2>1. /\ RestKept(p) /\ RecordKept(p) /\ Ordered(p)'
        /\ seeds'[p] = seeds[p]
        /\ Delivered(p)' = Delivered(p)
    BY <1>1, <1>3, <1>4, LedgerKept DEF Sound, Tracked, Ordered
  <2>2. /\ Delivered(p) \subseteq sent[p] \cup probed[p]
        /\ "run" \in RunError /\ growth[p].at \in Passing
    BY <1>1 DEF Sound, Told, RunError, Passing
  <2> QED
    BY <1>2, <1>5, <2>1, <2>2, AbortedSound
<1>6. CASE Ledger!ClaimPending(p, growth[p].pollen) /\ Becomes(p, g)
  <2>1. Pending(p) \subseteq Nat
    <3>1. continuations[p] \in Seq(Ledger!Continuation)
      BY LedgerFacts DEF IInv
    <3> QED
      BY <3>1, RowsShape DEF Pending, Ledger!InState
  <2> HIDE DEF Pending
  <2>2. /\ g \in Growth /\ g.at = "build" /\ g.claimed = Pending(p)
        /\ g.by = growth[p].by /\ g.pollen = growth[p].pollen
        /\ g.fruit = growth[p].fruit
    BY <1>1, <2>1 DEF Growth, Step
  <2> HIDE DEF g
  <2>3. growth'[p] = g
    BY <1>6 DEF Becomes, IInv, TypeOK
  <2>4. Delivering(p) = {}
    BY <1>1, <1>4, <1>6 DEF Sound, Tracked, Ledger!Active
  <2>5. Joined(p)'
    BY <1>1, <1>2, <1>4, <1>6, <2>2, <2>3 DEF Sound, Joined, Passing
  <2>6. Tracked(p)'
    BY <1>4, <1>6, <2>2, <2>3, <2>4 DEF Tracked, Ordered
  <2>7. Told(p)'
    BY <1>1, <1>2, <1>4, <1>6, <2>2, <2>3
    DEF Sound, Told, RecordKept, Passing, Ended
  <2> QED
    BY <1>2, <1>4, <1>6, <2>2, <2>5, <2>6, <2>7, GoroutineStep DEF Sound
<1> QED
  BY <1>3, <1>5, <1>6

\* A Sprout that built made a request, and a request carries what was claimed.
LEMMA BuildSound ==
    ASSUME IInv, [Next]_vars, NEW p \in Phytomer, Build(p)
    PROVE  IInv'
<1>1. growth[p] \in Growth /\ Sound(p) /\ growth[p].at = "build"
  BY GrowthShape DEF IInv, Build, At
<1>2. /\ growth \in [Phytomer -> Growth \cup {NoGrowth}]
      /\ sent \in [Phytomer -> SUBSET Nat]
      /\ probed \in [Phytomer -> SUBSET Nat]
      /\ growth[p].claimed \in SUBSET Nat
  BY <1>1 DEF IInv, TypeOK, Growth
<1>3. /\ UNCHANGED ledger /\ UNCHANGED <<up, asking, quarantine, acked, faults>>
  BY DEF Build, elsewhere
<1>4. PICK built \in BOOLEAN, requested \in BOOLEAN :
         /\ BuildEnds(p, built, requested)
         /\ built => requested
         /\ \A r \in Phytomer \ {p} : UNCHANGED <<sent[r], probed[r]>>
         /\ sent' \in [Phytomer -> SUBSET Nat]
         /\ probed' \in [Phytomer -> SUBSET Nat]
         /\ sent[p] \cup probed[p] \subseteq sent'[p] \cup probed'[p]
         /\ requested => growth[p].claimed \subseteq sent'[p] \cup probed'[p]
  <2>1. CASE /\ \E built \in BOOLEAN : BuildEnds(p, built, TRUE)
             /\ sent' = [sent EXCEPT ![p] = @ \cup growth[p].claimed]
             /\ UNCHANGED probed
    BY <1>2, <2>1
  <2>2. CASE BuildEnds(p, FALSE, FALSE) /\ UNCHANGED <<sent, probed>>
    BY <1>2, <2>2
  <2>3. CASE /\ BuildEnds(p, FALSE, TRUE)
             /\ probed' = [probed EXCEPT ![p] = @ \cup growth[p].claimed]
             /\ UNCHANGED sent
    BY <1>2, <2>3
  <2> QED
    BY <2>1, <2>2, <2>3 DEF Build
<1> DEFINE g == [growth[p] EXCEPT !.at = "confirm", !.built = built,
                                  !.requested = requested]
<1>5. /\ g \in Growth /\ g.at = "confirm" /\ g.built = built
      /\ g.requested = requested /\ g.claimed = growth[p].claimed
      /\ g.by = growth[p].by /\ g.pollen = growth[p].pollen
      /\ g.fruit = growth[p].fruit
  BY <1>1 DEF Growth, Step
<1>6. growth' = [growth EXCEPT ![p] = g]
  BY <1>4 DEF BuildEnds, Becomes
<1> HIDE DEF g
<1>7. growth'[p] = g
  BY <1>2, <1>6
<1>8. Joined(p)'
  BY <1>1, <1>3, <1>5, <1>7, LedgerKept DEF Sound, Joined, Passing
<1>9. Tracked(p)'
  BY <1>1, <1>3, <1>4, <1>5, <1>7, LedgerKept DEF Sound, Tracked
<1>10. Told(p)'
  BY <1>1, <1>3, <1>4, <1>5, <1>7, LedgerKept
  DEF Sound, Told, RecordKept, Passing, Ended
<1>11. TypeOK'
  BY <1>2, <1>3, <1>4, <1>5, <1>6, LedgerSound DEF IInv, TypeOK
<1>12. ASSUME NEW r \in Phytomer \ {p} PROVE Sound(r)'
  <2>1. Sound(r)
    BY DEF IInv
  <2>2. GrowthKept(r)
    BY <1>2, <1>3, <1>4, <1>6, <2>1
    DEF GrowthKept, ledger, Sound, Joined
  <2> QED
    BY <2>1, <2>2, Untouched
<1> QED
  BY <1>8, <1>9, <1>10, <1>11, <1>12, LedgerSound DEF IInv, Sound

\* Only what a request carried is confirmed, and the whole of it.
LEMMA ConfirmDeliverySound ==
    ASSUME IInv, [Next]_vars, NEW p \in Phytomer, ConfirmDelivery(p)
    PROVE  IInv'
<1> DEFINE told == growth[p].requested /\ growth[p].claimed # {}
           marked == Ledger!MarkDelivered(p, growth[p].pollen,
                                          growth[p].claimed)
<1>1. /\ growth[p] \in Growth /\ Sound(p) /\ growth[p].at = "confirm"
      /\ growth[p].pollen \in Pollen
  BY GrowthShape DEF IInv, ConfirmDelivery, At
<1>2. /\ UNCHANGED <<up, asking, quarantine, sent, probed, acked>>
      /\ faults' \in 0 .. MaxFaults
  BY MaxFaultsAssumption
  DEF ConfirmDelivery, Call, Fault, elsewhere, IInv, TypeOK
<1>3. \/ told /\ marked /\ Becomes(p, [growth[p] EXCEPT !.at = "judge",
                                                     !.claimed = {}])
      \/ told /\ (marked \/ UNCHANGED ledger) /\ Aborted(p, "run")
      \/ ~told /\ UNCHANGED ledger
         /\ Becomes(p, [growth[p] EXCEPT !.at = "judge"])
  BY DEF ConfirmDelivery, Call
<1>4. marked =>
         /\ RestKept(p) /\ RecordKept(p)
         /\ UNCHANGED seeds
         /\ Pending(p)' = Pending(p)
         /\ growth[p].claimed \subseteq Delivering(p)
         /\ Delivering(p)' = Delivering(p) \ growth[p].claimed
         /\ Delivered(p)' = Delivered(p) \cup growth[p].claimed
  BY <1>1, DeliverEffect DEF IInv
<1> HIDE DEF marked
<1>5. CASE told /\ (marked \/ UNCHANGED ledger) /\ Aborted(p, "run")
  <2>1. /\ RestKept(p) /\ RecordKept(p) /\ seeds'[p] = seeds[p]
        /\ Delivered(p)' \subseteq Delivered(p) \cup growth[p].claimed
    BY <1>4, <1>5, LedgerKept
  <2>2. Ordered(p)'
    BY <1>1, <1>4, <1>5, LedgerKept
    DEF Sound, Tracked, Ordered, Ledger!Active
  <2>3. /\ Delivered(p)' \subseteq sent[p] \cup probed[p]
        /\ "run" \in RunError /\ growth[p].at \in Passing
    BY <1>1, <1>5, <2>1 DEF Sound, Told, RunError, Passing
  <2> QED
    BY <1>2, <1>5, <2>1, <2>2, <2>3, AbortedSound
<1>6. CASE /\ told /\ marked
           /\ Becomes(p, [growth[p] EXCEPT !.at = "judge", !.claimed = {}])
  <2> DEFINE g == [growth[p] EXCEPT !.at = "judge", !.claimed = {}]
  <2>1. /\ g \in Growth /\ g.at = "judge" /\ g.claimed = {}
        /\ g.by = growth[p].by /\ g.pollen = growth[p].pollen
        /\ g.fruit = growth[p].fruit
    BY <1>1 DEF Growth, Step
  <2>2. Becomes(p, g)
    BY <1>6
  <2> HIDE DEF g
  <2>3. growth'[p] = g
    BY <2>2 DEF Becomes, IInv, TypeOK
  <2>4. Joined(p)'
    BY <1>1, <1>2, <1>4, <1>6, <2>1, <2>3
    DEF Sound, Joined, Passing, Ledger!Active
  <2>5. Tracked(p)'
    BY <1>1, <1>4, <1>6, <2>1, <2>3
    DEF Sound, Tracked, Ordered, Ledger!Active
  <2>6. Told(p)'
    BY <1>1, <1>2, <1>4, <1>6, <2>1, <2>3
    DEF Sound, Told, RecordKept, Passing, Ended
  <2> QED
    BY <1>2, <1>4, <1>6, <2>1, <2>2, <2>4, <2>5, <2>6, GoroutineStep
    DEF Sound
<1>7. CASE /\ ~told /\ UNCHANGED ledger
           /\ Becomes(p, [growth[p] EXCEPT !.at = "judge"])
  <2> DEFINE g == [growth[p] EXCEPT !.at = "judge"]
  <2>1. /\ g \in Growth /\ g.at = "judge" /\ g.claimed = growth[p].claimed
        /\ g.by = growth[p].by /\ g.pollen = growth[p].pollen
        /\ g.built = growth[p].built /\ g.fruit = growth[p].fruit
    BY <1>1 DEF Growth, Step
  <2>2. Becomes(p, g)
    BY <1>7
  <2> HIDE DEF g
  <2>3. growth'[p] = g
    BY <2>2 DEF Becomes, IInv, TypeOK
  <2>4. Joined(p)' /\ Tracked(p)'
    BY <1>1, <1>2, <1>7, <2>1, <2>3, LedgerKept
    DEF Sound, Joined, Tracked, Passing
  <2>5. Told(p)'
    BY <1>1, <1>2, <1>7, <2>1, <2>3, LedgerKept
    DEF Sound, Told, RecordKept, Passing, Ended
  <2> QED
    BY <1>2, <1>7, <2>1, <2>2, <2>4, <2>5, LedgerKept, GoroutineStep
    DEF Sound
<1> QED
  BY <1>3, <1>5, <1>6, <1>7

\* What was built had all its intent confirmed, so only a build that failed can
\* meet the fence with intent still being delivered, and that is not acceptable.
LEMMA JudgeSound ==
    ASSUME IInv, [Next]_vars, NEW p \in Phytomer, Judge(p)
    PROVE  IInv'
<1>1. growth[p] \in Growth /\ Sound(p) /\ growth[p].at = "judge"
  BY GrowthShape DEF IInv, Judge, At
<1>2. /\ UNCHANGED ledger
      /\ UNCHANGED <<up, asking, quarantine, sent, probed, acked, faults>>
  BY DEF Judge, elsewhere
<1> DEFINE Judged(at, execution, verification) ==
             Becomes(p, [growth[p] EXCEPT !.at = at, !.execution = execution,
                                          !.verification = verification])
<1>3. PICK at \in {"fence", "loop"}, execution \in Execution,
           verification \in Verification :
         /\ Judged(at, execution, verification)
         /\ ~growth[p].built => at = "fence" /\ execution # "completed"
  <2>1. /\ growth[p].verification \in Verification
        /\ "unusable" \in Verification /\ "passed" \in Verification
        /\ "predicate-failed" \in Verification
        /\ "completed" \in Execution /\ "failed" \in Execution
        /\ "timed-out" \in Execution /\ "bounds-exhausted" \in Execution
    BY <1>1 DEF Growth, Verification, Execution
  <2>2. \/ /\ ~growth[p].built
           /\ \E execution \in {"failed", "timed-out"} :
                 Judged("fence", execution, growth[p].verification)
        \/ /\ growth[p].built
           /\ \/ \E execution \in {"failed", "completed"},
                    verification \in Verification :
                    Judged("fence", execution, verification)
              \/ Judged("loop", "completed", "predicate-failed")
              \/ Judged("fence", "bounds-exhausted", "predicate-failed")
    BY <2>1 DEF Judge
  <2> HIDE DEF Judged
  <2>3. ASSUME ~growth[p].built, NEW execution \in {"failed", "timed-out"},
               Judged("fence", execution, growth[p].verification)
        PROVE  \E at \in {"fence", "loop"}, x \in Execution,
                  verification \in Verification :
                  /\ Judged(at, x, verification)
                  /\ ~growth[p].built => at = "fence" /\ x # "completed"
    <3>1. /\ "fence" \in {"fence", "loop"} /\ execution \in Execution
          /\ execution # "completed"
      BY <2>1
    <3> QED
      BY <2>1, <2>3, <3>1
  <2>4. ASSUME growth[p].built, NEW at \in {"fence", "loop"},
               NEW execution \in Execution, NEW verification \in Verification,
               Judged(at, execution, verification)
        PROVE  \E y \in {"fence", "loop"}, x \in Execution,
                  z \in Verification :
                  /\ Judged(y, x, z)
                  /\ ~growth[p].built => y = "fence" /\ x # "completed"
    <3>1. ~growth[p].built => at = "fence" /\ execution # "completed"
      BY <2>4
    <3> QED
      BY <2>4, <3>1
  <2>5. "fence" \in {"fence", "loop"} /\ "loop" \in {"fence", "loop"}
    OBVIOUS
  <2> QED
    BY <2>1, <2>2, <2>3, <2>4, <2>5
<1> DEFINE g == [growth[p] EXCEPT !.at = at, !.execution = execution,
                                  !.verification = verification]
<1>4. /\ g \in Growth /\ g.at = at /\ g.execution = execution
      /\ g.by = growth[p].by /\ g.pollen = growth[p].pollen
      /\ g.fruit = growth[p].fruit
  BY <1>1 DEF Growth, Step
<1>5. Becomes(p, g)
  BY <1>3
<1> HIDE DEF g, Judged
<1>6. growth'[p] = g /\ faults' \in 0 .. MaxFaults
  BY <1>2, <1>5 DEF Becomes, IInv, TypeOK
<1>7. Joined(p)'
  BY <1>1, <1>2, <1>4, <1>6, LedgerKept DEF Sound, Joined, Passing
<1>8. Tracked(p)'
  BY <1>1, <1>2, <1>3, <1>4, <1>6, LedgerKept DEF Sound, Tracked, Acceptable
<1>9. Told(p)'
  BY <1>1, <1>2, <1>4, <1>6, LedgerKept
  DEF Sound, Told, RecordKept, Passing, Ended
<1> QED
  BY <1>2, <1>4, <1>5, <1>6, <1>7, <1>8, <1>9, LedgerKept, GoroutineStep
  DEF Sound

\* A refused fence is tried again only after an acceptable pass, which left
\* nothing being delivered; a granted one leaves nothing at all.
LEMMA FenceSound ==
    ASSUME IInv, [Next]_vars, NEW p \in Phytomer, AcquireSettlementFence(p)
    PROVE  IInv'
<1> DEFINE fenced == Ledger!AcquireFence(p, growth[p].pollen)
           again == [growth[p] EXCEPT !.at = "loop"]
           refused == [growth[p] EXCEPT !.at = "finalize",
                                        !.execution = "boundary-refused",
                                        !.error = "undeliverable"]
           granted == [growth[p] EXCEPT !.at = "settle"]
<1>1. /\ growth[p] \in Growth /\ Sound(p)
      /\ growth[p].at \in {"fence", "final fence"}
      /\ growth[p].pollen \in Pollen /\ growth[p].fruit = FALSE
  BY GrowthShape DEF IInv, AcquireSettlementFence, Sound, Told, Passing
<1>2. /\ UNCHANGED <<up, asking, quarantine, sent, probed, acked>>
      /\ faults' \in 0 .. MaxFaults
  <2>1. /\ UNCHANGED <<up, asking, quarantine, sent, probed, acked>>
        /\ UNCHANGED faults \/ Fault
    BY DEF AcquireSettlementFence, Call, elsewhere
  <2> QED
    BY <2>1, MaxFaultsAssumption DEF Fault, IInv, TypeOK
<1>3. \/ MayContinue(growth[p]) /\ Becomes(p, again) /\ UNCHANGED ledger
      \/ Becomes(p, refused) /\ UNCHANGED ledger
      \/ Becomes(p, granted) /\ fenced
      \/ Aborted(p, "run") /\ (fenced \/ UNCHANGED ledger)
  BY DEF AcquireSettlementFence, Call
<1>4. fenced =>
         /\ RestKept(p) /\ RecordKept(p)
         /\ seeds'[p].status = "settling" /\ seeds[p].status = "running"
         /\ seeds'[p].pollen = seeds[p].pollen
         /\ seeds'[p].fruit = seeds[p].fruit
         /\ Pending(p)' = {} /\ Delivering(p)' = {}
         /\ Delivered(p)' = Delivered(p)
  BY <1>1, FenceEffect DEF IInv
<1> HIDE DEF fenced
<1>5. CASE Aborted(p, "run") /\ (fenced \/ UNCHANGED ledger)
  <2>1. /\ RestKept(p) /\ RecordKept(p) /\ Ordered(p)'
        /\ seeds'[p].pollen = seeds[p].pollen
        /\ seeds'[p].fruit = seeds[p].fruit
        /\ seeds'[p].status = "absent" <=> seeds[p].status = "absent"
        /\ Delivered(p)' \subseteq sent[p] \cup probed[p]
    BY <1>1, <1>4, <1>5, LedgerKept DEF Sound, Tracked, Ordered, Told
  <2>2. "run" \in RunError /\ growth[p].at \in Passing
    BY <1>1 DEF RunError, Passing
  <2> QED
    BY <1>2, <1>5, <2>1, <2>2, AbortedSound
<1>6. ASSUME NEW g \in Growth, Becomes(p, g), RestKept(p),
             g.by = growth[p].by, g.pollen = growth[p].pollen,
             g.fruit = growth[p].fruit,
             \/ /\ UNCHANGED ledger
                /\ \/ g.at = "loop" /\ MayContinue(growth[p])
                   \/ g.at = "finalize"
             \/ fenced /\ g.at = "settle"
      PROVE  IInv'
  <2>1. growth'[p] = g
    BY <1>6 DEF Becomes, IInv, TypeOK
  <2>2. Joined(p)'
    BY <1>1, <1>2, <1>4, <1>6, <2>1, LedgerKept DEF Sound, Joined, Passing
  <2>3. Tracked(p)'
    BY <1>1, <1>4, <1>6, <2>1, LedgerKept
    DEF Sound, Tracked, Ordered, MayContinue
  <2>4. Told(p)'
    BY <1>1, <1>2, <1>4, <1>6, <2>1, LedgerKept
    DEF Sound, Told, RecordKept, Passing, Ended
  <2> QED
    BY <1>2, <1>6, <2>2, <2>3, <2>4, GoroutineStep DEF Sound
<1>7. /\ again \in Growth /\ again.at = "loop"
      /\ again.by = growth[p].by /\ again.pollen = growth[p].pollen
      /\ again.fruit = growth[p].fruit
  BY <1>1 DEF Growth, Step
<1>8. /\ refused \in Growth /\ refused.at = "finalize"
      /\ refused.by = growth[p].by /\ refused.pollen = growth[p].pollen
      /\ refused.fruit = growth[p].fruit
  BY <1>1 DEF Growth, Step, Execution, RunError
<1>9. /\ granted \in Growth /\ granted.at = "settle"
      /\ granted.by = growth[p].by /\ granted.pollen = growth[p].pollen
      /\ granted.fruit = growth[p].fruit
  BY <1>1 DEF Growth, Step
<1> HIDE DEF again, refused, granted
<1>10. UNCHANGED ledger => RestKept(p)
  BY LedgerKept
<1> QED
  BY <1>3, <1>4, <1>5, <1>6, <1>7, <1>8, <1>9, <1>10

LEMMA SettleSound ==
    ASSUME IInv, [Next]_vars, NEW p \in Phytomer, Settle(p)
    PROVE  IInv'
<1>1. growth[p] \in Growth /\ Sound(p) /\ growth[p].at = "settle"
  BY GrowthShape DEF IInv, Settle, At
<1>2. /\ UNCHANGED ledger
      /\ UNCHANGED <<up, asking, quarantine, sent, probed, acked, faults>>
  BY DEF Settle, elsewhere
<1>3. PICK error \in RunError, fruit \in BOOLEAN :
         /\ Becomes(p, [growth[p] EXCEPT !.at = "finalize", !.error = error,
                                         !.fruit = fruit])
         /\ fruit => Acceptable(growth[p])
  <2>1. /\ growth[p].error \in RunError /\ "publication" \in RunError
        /\ growth[p].fruit \in BOOLEAN /\ growth[p].fruit = FALSE
    BY <1>1 DEF Growth, RunError, Sound, Told
  <2>2. /\ [growth[p] EXCEPT !.at = "finalize"] =
               [growth[p] EXCEPT !.at = "finalize", !.error = growth[p].error,
                                 !.fruit = growth[p].fruit]
        /\ [growth[p] EXCEPT !.at = "finalize", !.fruit = TRUE] =
               [growth[p] EXCEPT !.at = "finalize", !.error = growth[p].error,
                                 !.fruit = TRUE]
        /\ [growth[p] EXCEPT !.at = "finalize", !.error = "publication"] =
               [growth[p] EXCEPT !.at = "finalize", !.error = "publication",
                                 !.fruit = growth[p].fruit]
    BY <1>1 DEF Growth
  <2>3. CASE Becomes(p, [growth[p] EXCEPT !.at = "finalize"])
    BY <2>1, <2>2, <2>3
  <2>4. CASE /\ Acceptable(growth[p])
             /\ Becomes(p, [growth[p] EXCEPT !.at = "finalize", !.fruit = TRUE])
    BY <2>1, <2>2, <2>4
  <2>5. CASE Becomes(p, [growth[p] EXCEPT !.at = "finalize",
                                          !.error = "publication"])
    BY <2>1, <2>2, <2>5
  <2> QED
    BY <2>3, <2>4, <2>5 DEF Settle
<1> DEFINE g == [growth[p] EXCEPT !.at = "finalize", !.error = error,
                                  !.fruit = fruit]
<1>4. /\ g \in Growth /\ g.at = "finalize" /\ g.fruit = fruit
      /\ g.by = growth[p].by /\ g.pollen = growth[p].pollen
      /\ g.execution = growth[p].execution
      /\ g.verification = growth[p].verification
  BY <1>1 DEF Growth, Step
<1>5. Becomes(p, g)
  BY <1>3
<1> HIDE DEF g
<1>6. growth'[p] = g /\ faults' \in 0 .. MaxFaults
  BY <1>2, <1>5 DEF Becomes, IInv, TypeOK
<1>7. Joined(p)'
  BY <1>1, <1>2, <1>4, <1>6, LedgerKept DEF Sound, Joined, Passing
<1>8. Tracked(p)'
  BY <1>1, <1>2, <1>4, <1>6, LedgerKept DEF Sound, Tracked
<1>9. Told(p)'
  BY <1>1, <1>2, <1>3, <1>4, <1>6, LedgerKept
  DEF Sound, Told, RecordKept, Passing, Ended, Acceptable
<1> QED
  BY <1>2, <1>4, <1>5, <1>6, <1>7, <1>8, <1>9, LedgerKept, GoroutineStep
  DEF Sound

\* The terminal transaction committed and was reported, or the Phytomer is
\* quarantined.
LEMMA FinalizeSound ==
    ASSUME IInv, [Next]_vars, NEW p \in Phytomer, Finalize(p)
    PROVE  IInv'
<1> DEFINE by == growth[p].by
           error == IF growth[p].error = "publication" THEN "run"
                                                      ELSE growth[p].error
           completed == Ledger!Complete(p, growth[p].pollen, growth[p].fruit)
           failed == Ledger!AccountFailure(p, growth[p].pollen, error)
           g == [growth[p] EXCEPT !.at = "done"]
<1>1. /\ growth[p] \in Growth /\ Sound(p) /\ growth[p].at = "finalize"
      /\ growth[p].pollen \in Pollen /\ growth[p].fruit \in BOOLEAN
      /\ by \in Process /\ by \in up /\ seeds[p].fruit = FALSE
  <2>1. growth[p].at = "finalize" /\ growth[p] \in Growth /\ Sound(p)
    BY GrowthShape DEF IInv, Finalize, At
  <2>2. seeds[p] \in Ledger!SeedRow
    BY LedgerFacts DEF IInv
  <2>3. ~seeds[p].fruit /\ by \in up
    BY <2>1 DEF Sound, Told, Joined, Ended
  <2> QED
    BY <2>1, <2>2, <2>3 DEF Growth, Ledger!SeedRow
<1>2. /\ quarantine \in [Process -> SUBSET Phytomer]
      /\ growth \in [Phytomer -> Growth \cup {NoGrowth}]
  BY DEF IInv, TypeOK
<1>3. /\ UNCHANGED <<up, asking, sent, probed, acked>>
      /\ UNCHANGED faults \/ Fault
      /\ Becomes(p, g)
  BY DEF Finalize, Call, elsewhere
<1>4. faults' \in 0 .. MaxFaults
  BY <1>3, MaxFaultsAssumption DEF Fault, IInv, TypeOK
<1>5. /\ completed \/ failed \/ UNCHANGED ledger
      /\ \/ /\ UNCHANGED quarantine
            /\ IF Succeeded(growth[p]) THEN completed ELSE failed
         \/ quarantine' = [quarantine EXCEPT ![by] = @ \cup {p}]
  BY DEF Finalize, Call
<1>6. completed =>
         /\ RestKept(p) /\ RecordKept(p)
         /\ seeds'[p].status = "settled" /\ seeds[p].status = "settling"
         /\ seeds'[p].pollen = seeds[p].pollen
         /\ seeds'[p].fruit = growth[p].fruit
         /\ Delivered(p)' = Delivered(p)
  BY <1>1, CompleteEffect DEF IInv
<1>7. failed =>
         /\ RestKept(p) /\ RecordKept(p)
         /\ seeds'[p].status = "settled" /\ seeds[p].status # "absent"
         /\ seeds'[p].pollen = seeds[p].pollen
         /\ seeds'[p].fruit = FALSE
         /\ Delivered(p)' = Delivered(p)
  BY <1>1, FailureEffect DEF IInv
<1>8. /\ g \in Growth /\ g.at = "done" /\ g.by = by
      /\ g.pollen = growth[p].pollen /\ g.fruit = growth[p].fruit
      /\ Acceptable(g) = Acceptable(growth[p])
      /\ Succeeded(g) = Succeeded(growth[p])
  BY <1>1 DEF Growth, Step, Acceptable, Succeeded
<1> HIDE DEF completed, failed, g, error
<1>9. growth'[p] = g /\ growth' = [growth EXCEPT ![p] = g]
  BY <1>2, <1>3 DEF Becomes
<1>10. /\ RestKept(p) /\ RecordKept(p)
       /\ seeds'[p].pollen = seeds[p].pollen
       /\ seeds'[p].status = "absent" <=> seeds[p].status = "absent"
       /\ seeds'[p].fruit => growth[p].fruit
       /\ Delivered(p)' = Delivered(p)
  BY <1>1, <1>5, <1>6, <1>7, LedgerKept
<1>11. /\ quarantine' \in [Process -> SUBSET Phytomer]
       /\ \A s \in Process, r \in Phytomer \ {p} :
             r \in quarantine'[s] <=> r \in quarantine[s]
  BY <1>1, <1>2, <1>5
<1>12. Joined(p)'
  BY <1>1, <1>3, <1>8, <1>9, <1>10 DEF Sound, Joined, Passing
<1>13. Tracked(p)'
  <2>1. Ordered(p)'
    <3>1. CASE completed \/ failed
      BY <1>6, <1>7, <3>1 DEF Ordered, Ledger!Active
    <3>2. CASE UNCHANGED ledger
      BY <1>1, <3>2, LedgerKept DEF Sound, Tracked
    <3> QED
      BY <1>5, <3>1, <3>2
  <2> QED
    BY <1>8, <1>9, <2>1 DEF Tracked
<1>14. Told(p)'
  <2>1. p \notin quarantine'[by] =>
           /\ seeds'[p].status = "settled"
           /\ seeds'[p].fruit = (Succeeded(growth[p]) /\ growth[p].fruit)
    BY <1>1, <1>2, <1>5, <1>6, <1>7 DEF Succeeded
  <2> QED
    BY <1>1, <1>3, <1>8, <1>9, <1>10, <2>1
    DEF Sound, Told, RecordKept, Passing, Ended
<1>15. TypeOK'
  BY <1>2, <1>3, <1>4, <1>8, <1>9, <1>11, LedgerSound DEF IInv, TypeOK
<1>16. ASSUME NEW r \in Phytomer \ {p} PROVE Sound(r)'
  <2>1. Sound(r)
    BY DEF IInv
  <2>2. growth[r].at # "none" => growth[r].by \in Process
    BY GrowthShape DEF IInv
  <2>3. GrowthKept(r)
    BY <1>2, <1>3, <1>9, <1>10, <1>11, <2>1, <2>2
    DEF GrowthKept, RestKept, Sound, Joined
  <2> QED
    BY <2>1, <2>3, Untouched
<1> QED
  BY <1>12, <1>13, <1>14, <1>15, <1>16, LedgerSound DEF IInv, Sound

-----------------------------------------------------------------------------
(* The steps of callers and of processes.                                  *)

LEMMA AskSound ==
    ASSUME IInv, [Next]_vars, NEW s \in Process, NEW r \in Request, Ask(s, r)
    PROVE  IInv'
<1>1. /\ UNCHANGED ledger
      /\ UNCHANGED <<up, growth, quarantine, sent, probed, acked, faults>>
      /\ asking' = [asking EXCEPT ![s] = {r}]
  BY DEF Ask, ghosts
<1>2. TypeOK'
  BY <1>1, LedgerSound DEF IInv, TypeOK
<1>3. ASSUME NEW p \in Phytomer PROVE Sound(p)'
  <2>1. Sound(p) /\ GrowthKept(p)
    BY <1>1 DEF IInv, GrowthKept, ledger, Sound, Joined
  <2> QED
    BY <2>1, Untouched
<1> QED
  BY <1>2, <1>3, LedgerSound DEF IInv

\* A caller is told of an acceptance only when its row is there.
LEMMA AnswerSound ==
    ASSUME IInv, [Next]_vars, NEW s \in Process, NEW r \in Request,
           Answer(s, r)
    PROVE  IInv'
<1> DEFINE p == r.phytomer
           accepted == Ledger!Accept(p, r.pollen, r.key, r.intent)
<1>1. p \in Phytomer
  BY DEF Request
<1> HIDE DEF p
<1>2. /\ UNCHANGED <<up, growth, quarantine, sent, probed>>
      /\ UNCHANGED faults \/ Fault
      /\ asking' = [asking EXCEPT ![s] = {}]
      /\ accepted \/ UNCHANGED ledger
      /\ \/ UNCHANGED acked
         \/ accepted /\ acked' = [acked EXCEPT ![p] = @ \cup {r}]
  BY DEF Answer, Call, p
<1>3. accepted =>
         /\ RestKept(p) /\ RecordKept(p) /\ Recorded(p, r)'
         /\ UNCHANGED seeds /\ seeds[p].status = "running"
         /\ Delivering(p)' = Delivering(p)
         /\ Delivered(p)' = Delivered(p)
         /\ \A j \in Pending(p)' :
               j \in Pending(p) \/ \A i \in Delivering(p) : i < j
  BY <1>1, AcceptEffect DEF IInv
<1> HIDE DEF accepted
<1>4. acked \in [Phytomer -> SUBSET Request] /\ Sound(p)
  BY <1>1 DEF IInv, TypeOK
<1>5. /\ RestKept(p) /\ RecordKept(p) /\ UNCHANGED seeds[p]
      /\ Delivering(p)' = Delivering(p)
      /\ Delivered(p)' = Delivered(p)
  BY <1>1, <1>2, <1>3, LedgerKept
<1>6. Ordered(p)'
  BY <1>1, <1>2, <1>3, <1>4, LedgerKept
  DEF Sound, Tracked, Ordered, Ledger!Active
<1>7. Joined(p)' /\ Tracked(p)'
  BY <1>2, <1>4, <1>5, <1>6 DEF Sound, Joined, Tracked, Ledger!Active
<1>8. \A x \in acked'[p] : Recorded(p, x)'
  BY <1>1, <1>2, <1>3, <1>4, <1>5 DEF Sound, Told, RecordKept
<1>9. Told(p)'
  BY <1>2, <1>4, <1>5, <1>8 DEF Sound, Told
<1>10. faults' \in 0 .. MaxFaults
  BY <1>2, MaxFaultsAssumption DEF Fault, IInv, TypeOK
<1>11. TypeOK'
  BY <1>1, <1>2, <1>10, LedgerSound DEF IInv, TypeOK
<1>12. ASSUME NEW x \in Phytomer \ {p} PROVE Sound(x)'
  <2>1. Sound(x) /\ GrowthKept(x)
    BY <1>1, <1>2, <1>4, <1>5
    DEF IInv, GrowthKept, RestKept, Sound, Joined
  <2> QED
    BY <2>1, Untouched
<1> QED
  BY <1>1, <1>7, <1>9, <1>11, <1>12, LedgerSound DEF IInv, Sound

\* Reconciliation settles every active Seed, without Fruit, and leaves what was
\* delivered alone.
LEMMA BootSound ==
    ASSUME IInv, [Next]_vars, NEW s \in Process, Boot(s)
    PROVE  IInv'
<1>1. /\ UNCHANGED <<growth, asking, quarantine, sent, probed, acked>>
      /\ UNCHANGED faults \/ Fault
      /\ Ledger!Reconcile \/ UNCHANGED ledger
      /\ up' = up \cup {s} \/ UNCHANGED up
  BY DEF Boot, Call, ghosts
<1>2. faults' \in 0 .. MaxFaults
  BY <1>1, MaxFaultsAssumption DEF Fault, IInv, TypeOK
<1>3. TypeOK'
  BY <1>1, <1>2, LedgerSound DEF IInv, TypeOK
<1>4. CASE UNCHANGED ledger
  <2>1. ASSUME NEW p \in Phytomer PROVE Sound(p)'
    <3>1. Sound(p) /\ GrowthKept(p)
      BY <1>1, <1>4 DEF IInv, GrowthKept, ledger, Sound, Joined
    <3> QED
      BY <3>1, Untouched
  <2> QED
    BY <1>3, <2>1, LedgerSound DEF IInv
<1>5. CASE Ledger!Reconcile
  <2>1. ASSUME NEW p \in Phytomer PROVE Sound(p)'
    <3>1. /\ RecordKept(p)
          /\ seeds'[p].status = IF Ledger!Active(p) THEN "settled"
                                                    ELSE seeds[p].status
          /\ seeds'[p].pollen = seeds[p].pollen
          /\ seeds'[p].fruit = (seeds[p].fruit /\ ~Ledger!Active(p))
          /\ Delivered(p)' = Delivered(p)
      BY <1>5, ReconcileEffect DEF IInv
    <3>2. Sound(p) /\ ~Ledger!Active(p)'
      BY <3>1 DEF IInv, Ledger!Active
    <3>3. Joined(p)'
      BY <1>1, <3>1, <3>2 DEF Sound, Joined, Ledger!Active
    <3>4. Tracked(p)'
      BY <1>1, <3>2 DEF Sound, Tracked, Ordered
    <3>5. Told(p)'
      BY <1>1, <3>1, <3>2 DEF Sound, Told, RecordKept, Ledger!Active
    <3> QED
      BY <3>3, <3>4, <3>5 DEF Sound
  <2> QED
    BY <1>3, <2>1, LedgerSound DEF IInv
<1> QED
  BY <1>1, <1>4, <1>5

\* A crash ends the goroutines of the process; what they did stands.
LEMMA CrashSound ==
    ASSUME IInv, [Next]_vars, NEW s \in Process, Crash(s)
    PROVE  IInv'
<1> DEFINE ends(p) == growth[p].at # "none" /\ growth[p].by = s
           g(p) == [growth[p] EXCEPT !.at = "gone"]
<1>1. /\ UNCHANGED ledger /\ UNCHANGED <<sent, probed, acked>>
      /\ up' = up \ {s} /\ Fault
      /\ growth' = [p \in Phytomer |-> IF ends(p) THEN g(p) ELSE growth[p]]
      /\ asking' = [asking EXCEPT ![s] = {}]
      /\ quarantine' = [quarantine EXCEPT ![s] = {}]
  BY DEF Crash, ghosts
<1>2. ASSUME NEW p \in Phytomer, ends(p)
      PROVE  /\ g(p) \in Growth /\ g(p).at = "gone"
             /\ g(p).pollen = growth[p].pollen
             /\ g(p).fruit = growth[p].fruit
             /\ Acceptable(g(p)) = Acceptable(growth[p])
  <2>1. growth[p] \in Growth
    BY <1>2, GrowthShape DEF IInv
  <2> QED
    BY <2>1 DEF Growth, Step, Acceptable
<1> HIDE DEF g
<1>3. faults' \in 0 .. MaxFaults
  BY <1>1, MaxFaultsAssumption DEF Fault, IInv, TypeOK
<1>4. TypeOK'
  BY <1>1, <1>2, <1>3, LedgerSound DEF IInv, TypeOK
<1>5. ASSUME NEW p \in Phytomer PROVE Sound(p)'
  <2>1. Sound(p)
    BY DEF IInv
  <2>2. CASE ends(p)
    <3>1. growth'[p] = g(p) /\ growth[p].at # "none"
      BY <1>1, <2>2
    <3>2. Joined(p)'
      BY <1>1, <1>2, <2>1, <2>2, <3>1, LedgerKept DEF Sound, Joined, Passing
    <3>3. Tracked(p)'
      BY <1>1, <1>2, <2>1, <2>2, <3>1, LedgerKept DEF Sound, Tracked
    <3>4. Told(p)'
      BY <1>1, <1>2, <2>1, <2>2, <3>1, LedgerKept
      DEF Sound, Told, RecordKept, Passing, Ended
    <3> QED
      BY <3>2, <3>3, <3>4 DEF Sound
  <2>3. CASE ~ends(p)
    <3>1. growth'[p] = growth[p]
      BY <1>1, <2>3
    <3>2. growth[p].at # "none" => growth[p].by \in Process \ {s}
      BY <2>3, GrowthShape DEF IInv
    <3>3. GrowthKept(p)
      BY <1>1, <2>1, <3>1, <3>2
      DEF GrowthKept, ledger, Sound, Joined, IInv, TypeOK
    <3> QED
      BY <2>1, <3>3, Untouched
  <2> QED
    BY <2>2, <2>3
<1> QED
  BY <1>4, <1>5, LedgerSound DEF IInv

-----------------------------------------------------------------------------
(* The invariant of every behaviour.                                       *)

LEMMA InitSound == Init => IInv
<1> SUFFICES ASSUME Init PROVE IInv
  OBVIOUS
<1>1. LedgerProofs!IInv
  <2>1. LedgerProofs!Init
    BY DEF Init, Ledger!Init, LedgerProofs!Init, Ledger!Nobody,
       LedgerProofs!Nobody
  <2> QED
    BY <2>1, LedgerProofs!InitSound
<1>2. TypeOK
  BY <1>1, LedgerFacts, MaxFaultsAssumption DEF Init, TypeOK
<1>3. ASSUME NEW p \in Phytomer PROVE Sound(p)
  <2>1. /\ growth[p].at = "none" /\ seeds[p].status = "absent"
        /\ ~seeds[p].fruit /\ continuations[p] = <<>> /\ acked[p] = {}
    BY DEF Init, Ledger!Init, NoGrowth
  <2> QED
    BY <2>1 DEF Sound, Joined, Tracked, Ordered, Told, Passing, Delivered,
       Ledger!Active, Ledger!InState
<1> QED
  BY <1>1, <1>2, <1>3 DEF IInv

LEMMA NextSound == IInv /\ [Next]_vars => IInv'
<1> SUFFICES ASSUME IInv, [Next]_vars PROVE IInv'
  OBVIOUS
<1>1. CASE UNCHANGED vars
  <2>1. LedgerProofs!IInv' /\ TypeOK'
    BY <1>1, LedgerSound DEF vars, IInv, TypeOK
  <2>2. ASSUME NEW p \in Phytomer PROVE Sound(p)'
    <3>1. Sound(p) /\ GrowthKept(p)
      BY <1>1 DEF vars, IInv, GrowthKept, Sound, Joined
    <3> QED
      BY <3>1, Untouched
  <2> QED
    BY <2>1, <2>2 DEF IInv
<1>2. ASSUME NEW p \in Phytomer, Grow(p) PROVE IInv'
  BY <1>2, LoopHeadSound, NoSproutSound, DeliverPendingSound, BuildSound,
     ConfirmDeliverySound, JudgeSound, FenceSound, SettleSound, FinalizeSound
  DEF Grow
<1> QED
  BY <1>1, <1>2, OpenSeedSound, ExpireSound, AskSound, AnswerSound, BootSound,
     CrashSound DEF Next

\* The invariant of every behaviour of any number of processes.
THEOREM Invariance == Spec => []IInv
BY InitSound, NextSound, PTL DEF Spec

\* Every row, record and list has the shape the code gives it, for ever.
THEOREM TypeCorrectness == Spec => []TypeOK
<1>1. IInv => TypeOK
  BY DEF IInv
<1> QED
  BY <1>1, Invariance, PTL

\* No claim ever replaces a list that still holds intent: whatever processes
\* crash or transactions fail, a pass begins, and a fence is passed, with
\* nothing half delivered.
THEOREM IntentIsNeverStranded == Spec => []NoIntentIsStranded
<1>1. IInv => NoIntentIsStranded
  BY DEF IInv, Sound, Tracked, NoIntentIsStranded
<1> QED
  BY <1>1, Invariance, PTL

\* What callers and the ledger are told of a growth is what it did.
THEOREM GrowthIsAlwaysAccountable == Spec => []GrowthIsAccountable
<1>1. ASSUME IInv PROVE DeliveredWasRequested
  BY <1>1 DEF IInv, Sound, Told, DeliveredWasRequested
<1>2. ASSUME IInv PROVE AcknowledgedIntentIsDurable
  BY <1>2 DEF IInv, Sound, Told, Recorded, AcknowledgedIntentIsDurable
<1>3. ASSUME IInv PROVE OutcomeIsDurable
  BY <1>3 DEF IInv, Sound, Told, OutcomeIsDurable
<1>4. ASSUME IInv PROVE FruitIsAcceptable
  <2>1. ASSUME NEW p \in Phytomer, seeds[p].fruit
        PROVE  growth[p].fruit /\ Acceptable(growth[p])
    BY <1>4, <2>1 DEF IInv, Sound, Told, Ended
  <2> QED
    BY <2>1 DEF FruitIsAcceptable
<1>5. IInv => GrowthIsAccountable
  BY <1>1, <1>2, <1>3, <1>4 DEF GrowthIsAccountable
<1> QED
  BY <1>5, Invariance, PTL

\* The processes use the ledger only through its transactions, so that every
\* property proved of any callers of the ledger holds of these.
THEOREM LedgerIsImplemented == Spec => Ledger!Spec
<1>1. Init => Ledger!Init
  BY DEF Init
<1>2. IInv /\ [Next]_vars => [Ledger!Next]_(Ledger!vars)
  BY LedgerStep DEF IInv, ledger, Ledger!vars
<1> QED
  BY <1>1, <1>2, Invariance, PTL DEF Spec, Ledger!Spec

-----------------------------------------------------------------------------
(* The refinement of SeedPromise: a transaction is a step of the promise   *)
(* or none.  Claiming is none; confirming delivers the oldest intent.      *)

LEMMA Least ==
    ASSUME NEW S \in SUBSET Nat, S # {}
    PROVE  \E least \in S : \A i \in S : least <= i
<1>1. PICK least \in S : \A i \in S : ~ (<<i, least>> \in OpToRel(<, Nat))
  BY NatLessThanWellFounded, WFMin
<1>2. \A i \in S : ~ (i < least)
  BY <1>1 DEF OpToRel
<1> QED
  BY <1>2

LEMMA Last ==
    ASSUME NEW n \in Nat, NEW S \in SUBSET (1 .. n), S # {}
    PROVE  \E last \in S : \A i \in S : i <= last
<1> DEFINE fromEnd == {d \in Nat : n - d \in S}
<1>1. fromEnd \in SUBSET Nat /\ fromEnd # {}
  <2>1. PICK i \in S : TRUE
    OBVIOUS
  <2>2. i \in 1 .. n /\ n - i \in Nat /\ n - (n - i) = i
    BY <2>1
  <2>3. n - i \in fromEnd
    BY <2>1, <2>2
  <2> QED
    BY <2>3
<1>2. PICK least \in fromEnd : \A d \in fromEnd : least <= d
  BY <1>1, Least
<1>3. n - least \in S /\ least \in Nat
  BY <1>2
<1>4. ASSUME NEW i \in S PROVE i <= n - least
  <2>1. i \in 1 .. n /\ n - i \in Nat /\ n - (n - i) = i
    OBVIOUS
  <2>2. least <= n - i
    BY <1>2, <2>1
  <2> QED
    BY <1>3, <2>1, <2>2
<1> QED
  BY <1>3, <1>4

\* The variables of the promise.
Fates == [p \in Phytomer |-> Fate(seeds[p].status)]
Standings(rows) == [i \in DOMAIN rows |-> Standing(rows[i].state)]
Intents == [p \in Phytomer |-> Standings(continuations[p])]
Fruits == {p \in Phytomer : seeds[p].fruit}

Awaited(rows) == {i \in DOMAIN rows : rows[i].state \in Ledger!Unresolved}

LEMMA FateFacts ==
    /\ Fate("absent") = "unopened" /\ Fate("running") = "open"
    /\ Fate("settling") = "sealed" /\ Fate("settled") = "closed"
    /\ Standing("pending") = "waiting" /\ Standing("delivering") = "waiting"
    /\ Standing("delivered") = "delivered" /\ Standing("failed") = "failed"
BY DEF Fate, Standing, Ledger!Unresolved

LEMMA MovedStandings ==
    ASSUME NEW rows \in Seq(Ledger!Continuation), NEW ids,
           NEW to \in Ledger!DeliveryState
    PROVE  Standings(Ledger!Moved(rows, ids, to)) =
              [i \in DOMAIN rows |-> IF i \in ids THEN Standing(to)
                                                 ELSE Standings(rows)[i]]
<1> DEFINE moved == Ledger!Moved(rows, ids, to)
<1>1. /\ DOMAIN moved = DOMAIN rows
      /\ \A i \in DOMAIN rows : moved[i].state = IF i \in ids THEN to
                                                   ELSE rows[i].state
  BY MovedRows
<1> HIDE DEF moved
<1>2. Standings(moved) = [i \in DOMAIN rows |-> Standing(moved[i].state)]
  BY <1>1 DEF Standings
<1>3. \A i \in DOMAIN rows :
         Standing(moved[i].state) =
            IF i \in ids THEN Standing(to) ELSE Standings(rows)[i]
  BY <1>1 DEF Standings
<1> QED
  BY <1>2, <1>3 DEF moved

\* What waits in the promise is what the ledger has not resolved.
LEMMA WaitingRows ==
    ASSUME NEW rows \in Seq(Ledger!Continuation)
    PROVE  {i \in DOMAIN Standings(rows) : Standings(rows)[i] = "waiting"} =
              Awaited(rows)
<1>1. \A i \in DOMAIN rows : rows[i].state \in Ledger!DeliveryState
  BY RowsShape DEF Ledger!Continuation
<1> QED
  BY <1>1, FateFacts
  DEF Standings, Awaited, Ledger!Unresolved, Ledger!DeliveryState

LEMMA AppendedStandings ==
    ASSUME NEW rows \in Seq(Ledger!Continuation),
           NEW new \in Ledger!Continuation, new.state = "pending"
    PROVE  Standings(Append(rows, new)) = Append(Standings(rows), "waiting")
<1> DEFINE S == {"waiting", "delivered", "failed"}
           n == Len(rows)
<1>1. /\ n \in Nat /\ DOMAIN rows = 1 .. n
      /\ \A i \in DOMAIN rows : rows[i].state \in Ledger!DeliveryState
  BY RowsShape DEF Ledger!Continuation
<1> HIDE DEF n
<1>2. /\ Standings(rows) = [i \in 1 .. n |-> Standing(rows[i].state)]
      /\ \A i \in 1 .. n : Standing(rows[i].state) \in S
  BY <1>1, FateFacts DEF Standings, Ledger!DeliveryState
<1>3. Standings(rows) \in Seq(S)
  BY <1>1, <1>2, IsASeq
<1>4. Len(Standings(rows)) = n
  BY <1>1, <1>2, <1>3, LenProperties
<1>5. /\ DOMAIN Append(Standings(rows), "waiting") = 1 .. n + 1
      /\ \A i \in 1 .. n :
            Append(Standings(rows), "waiting")[i] = Standings(rows)[i]
      /\ Append(Standings(rows), "waiting")[n + 1] = "waiting"
      /\ Append(Standings(rows), "waiting") \in Seq(S)
  BY <1>1, <1>3, <1>4, AppendProperties, LenProperties
<1>6. /\ DOMAIN Append(rows, new) = 1 .. n + 1
      /\ \A i \in 1 .. n : Append(rows, new)[i] = rows[i]
      /\ Append(rows, new)[n + 1] = new
  BY <1>1, AppendProperties, LenProperties DEF n
<1>7. /\ Standings(Append(rows, new)) =
            [i \in 1 .. n + 1 |-> Standing(Append(rows, new)[i].state)]
      /\ \A i \in 1 .. n + 1 :
            Standing(Append(rows, new)[i].state) =
               Append(Standings(rows), "waiting")[i]
  <2>1. ASSUME NEW i \in 1 .. n + 1
        PROVE  Standing(Append(rows, new)[i].state) =
                  Append(Standings(rows), "waiting")[i]
    <3>1. CASE i \in 1 .. n
      BY <1>2, <1>5, <1>6, <3>1
    <3>2. CASE i = n + 1
      BY <1>5, <1>6, <3>2, FateFacts
    <3>3. n \in Nat
      BY <1>1
    <3>4. i \in 1 .. n \/ i = n + 1
      BY <3>3
    <3> QED
      BY <3>1, <3>2, <3>4
  <2> QED
    BY <1>6, <2>1 DEF Standings
<1>8. Append(Standings(rows), "waiting") =
         [i \in 1 .. n + 1 |-> Append(Standings(rows), "waiting")[i]]
  BY <1>5, LenProperties
<1> QED
  BY <1>7, <1>8

\* The actions of the promise, said of those variables.
LEMMA PromiseActions ==
    /\ Promise!Init <=> /\ Fates = [p \in Phytomer |-> "unopened"]
                        /\ Intents = [p \in Phytomer |-> <<>>]
                        /\ Fruits = {}
    /\ UNCHANGED Promise!vars <=> UNCHANGED <<Fates, Intents, Fruits>>
    /\ \A p \in Phytomer :
          /\ Promise!Open(p) <=>
                /\ Fates[p] = "unopened"
                /\ Fates' = [Fates EXCEPT ![p] = "open"]
                /\ UNCHANGED <<Intents, Fruits>>
          /\ Promise!Accept(p) <=>
                /\ Fates[p] = "open"
                /\ Intents' = [Intents EXCEPT ![p] = Append(@, "waiting")]
                /\ UNCHANGED <<Fates, Fruits>>
          /\ Promise!Seal(p) <=>
                /\ Fates[p] = "open"
                /\ {i \in DOMAIN Intents[p] : Intents[p][i] = "waiting"} = {}
                /\ Fates' = [Fates EXCEPT ![p] = "sealed"]
                /\ UNCHANGED <<Intents, Fruits>>
          /\ Promise!Harvest(p) <=>
                /\ Fates[p] = "sealed"
                /\ Fates' = [Fates EXCEPT ![p] = "closed"]
                /\ Fruits' \in {Fruits, Fruits \cup {p}}
                /\ UNCHANGED Intents
BY DEF Promise!Init, Promise!vars, Promise!Open, Promise!Accept, Promise!Seal,
   Promise!Harvest, Promise!Waiting, Fates, Intents, Fruits, Standings

\* What a transaction on the row of p changes in the promise.
LEMMA OneRow ==
    ASSUME NEW p \in Phytomer, RestKept(p)
    PROVE  /\ Fates' = [Fates EXCEPT ![p] = Fate(seeds'[p].status)]
           /\ Intents' = [Intents EXCEPT ![p] = Standings(continuations'[p])]
           /\ Fruits' = IF seeds'[p].fruit THEN Fruits \cup {p}
                                           ELSE Fruits \ {p}
<1>1. /\ Fates = [r \in Phytomer |-> Fate(seeds[r].status)]
      /\ Fates' = [r \in Phytomer |-> Fate(seeds'[r].status)]
      /\ Intents = [r \in Phytomer |-> Standings(continuations[r])]
      /\ Intents' = [r \in Phytomer |-> Standings(continuations'[r])]
  BY DEF Fates, Intents, Standings
<1>2. Fates' = [Fates EXCEPT ![p] = Fate(seeds'[p].status)]
  BY <1>1 DEF RestKept
<1>3. Intents' = [Intents EXCEPT ![p] = Standings(continuations'[p])]
  BY <1>1 DEF RestKept
<1>4. Fruits' = IF seeds'[p].fruit THEN Fruits \cup {p} ELSE Fruits \ {p}
  BY DEF RestKept, Fruits
<1> QED
  BY <1>2, <1>3, <1>4

LEMMA OpeningIsPromised ==
    ASSUME LedgerProofs!IInv, NEW p \in Phytomer, NEW q \in Pollen,
           Ledger!Open(p, q)
    PROVE  Promise!Open(p)
<1>1. /\ RestKept(p) /\ seeds[p].status = "absent"
      /\ seeds'[p].status = "running" /\ seeds'[p].fruit = FALSE
      /\ continuations' = continuations
  BY OpenEffect
<1>2. ~seeds[p].fruit
  BY <1>1, LedgerFacts
<1>3. /\ Fates' = [Fates EXCEPT ![p] = "open"]
      /\ Fates[p] = "unopened"
  BY <1>1, OneRow, FateFacts DEF Fates
<1>4. Intents' = Intents
  BY <1>1 DEF Intents, Standings
<1>5. Fruits' = Fruits
  BY <1>1, <1>2, OneRow DEF Fruits
<1> QED
  BY <1>3, <1>4, <1>5, PromiseActions

LEMMA AcceptanceIsPromised ==
    ASSUME LedgerProofs!IInv, NEW r \in Request,
           Ledger!Accept(r.phytomer, r.pollen, r.key, r.intent)
    PROVE  Promise!Accept(r.phytomer) \/ UNCHANGED Promise!vars
<1> DEFINE p == r.phytomer
           new == [pollen |-> r.pollen, key |-> r.key, intent |-> r.intent,
                   state |-> "pending"]
<1>1. /\ p \in Phytomer /\ r.pollen \in Pollen
      /\ r.key \in Key /\ r.intent \in Intent /\ Ledger!TypeOK
  BY LedgerFacts DEF Request
<1> HIDE DEF p
<1>2. /\ RestKept(p) /\ UNCHANGED seeds /\ seeds[p].status = "running"
  BY <1>1, AcceptEffect DEF p
<1>3. /\ Fates' = Fates /\ Fates[p] = "open"
      /\ Fruits' = Fruits
  BY <1>1, <1>2, FateFacts DEF Fates, Fruits
<1>4. \/ UNCHANGED continuations
      \/ continuations' =
            [continuations EXCEPT ![p] = Append(continuations[p], new)]
  BY <1>1, Accepted DEF p
<1>5. CASE UNCHANGED continuations
  <2>1. Intents' = Intents
    BY <1>5 DEF Intents, Standings
  <2> QED
    BY <2>1, <1>3, PromiseActions
<1>6. CASE continuations' =
              [continuations EXCEPT ![p] = Append(continuations[p], new)]
  <2>1. /\ continuations[p] \in Seq(Ledger!Continuation)
        /\ new \in Ledger!Continuation /\ new.state = "pending"
        /\ continuations'[p] = Append(continuations[p], new)
    BY <1>1, <1>6 DEF Ledger!TypeOK, Ledger!Continuation, Ledger!DeliveryState
  <2> HIDE DEF new
  <2>2. Standings(continuations'[p]) = Append(Standings(continuations[p]),
                                              "waiting")
    BY <2>1, AppendedStandings
  <2>3. Intents[p] = Standings(continuations[p])
    BY <1>1 DEF Intents
  <2>4. Intents' = [Intents EXCEPT ![p] = Append(Intents[p], "waiting")]
    BY <1>1, <1>2, <2>2, <2>3, OneRow
  <2> QED
    BY <1>1, <1>3, <2>4, PromiseActions DEF p
<1> QED
  BY <1>4, <1>5, <1>6

\* The intents ids of some rows in another standing.
Restood(rows, ids, to) ==
    [i \in DOMAIN rows |-> IF i \in ids THEN to ELSE Standings(rows)[i]]

\* Confirming a claim delivers the oldest of what waits: the claim is all that
\* is being delivered, and the rest is younger.
LEMMA DeliveryIsPromised ==
    ASSUME IInv, NEW p \in Phytomer, At(p, "confirm"),
           Ledger!MarkDelivered(p, growth[p].pollen, growth[p].claimed)
    PROVE  Promise!Deliver(p)
<1> DEFINE rows == continuations[p]
           ids == growth[p].claimed
           upto(last) == {i \in Awaited(rows) : i <= last}
<1>1. /\ LedgerProofs!IInv
      /\ seeds[p] \in Ledger!SeedRow
      /\ rows \in Seq(Ledger!Continuation)
      /\ Ledger!TypeOK
      /\ Sound(p)
  BY LedgerFacts DEF IInv
<1>2. /\ ids # {} /\ ids \subseteq Delivering(p)
      /\ ids \in SUBSET DOMAIN rows
      /\ "delivered" \in Ledger!DeliveryState
      /\ Ledger!Transition(p, ids, "delivered")
      /\ UNCHANGED seeds
  BY DEF Ledger!MarkDelivered, Ledger!Deliverable, Delivering, Ledger!InState,
     Ledger!DeliveryState
<1>3. seeds[p].status = "running"
  <2>1. Ledger!UnresolvedOf(p) # {}
    BY <1>2 DEF Delivering, Ledger!UnresolvedOf, Ledger!InState,
       Ledger!Unresolved
  <2>2. DOMAIN rows # {}
    BY <1>2
  <2>3. seeds[p].status \notin {"absent", "settling", "settled"}
    BY <1>1, <2>1, <2>2, LedgerFacts
  <2> QED
    BY <1>1, <2>3 DEF Ledger!SeedRow, Ledger!SeedStatus
<1>4. /\ Delivering(p) = ids
      /\ \A i \in Delivering(p), j \in Pending(p) : i < j
  BY <1>1, <1>3 DEF Sound, Tracked, Ordered, At, Ledger!Active
<1>5. Awaited(rows) = Delivering(p) \cup Pending(p)
  BY DEF Awaited, Delivering, Pending, Ledger!InState, Ledger!Unresolved
<1>6. DOMAIN rows = 1 .. Len(rows) /\ Len(rows) \in Nat
  BY <1>1, RowsShape
<1>7. PICK last \in ids : \A i \in ids : i <= last
  BY <1>2, <1>6, Last
<1>8. /\ last \in Awaited(rows)
      /\ upto(last) = ids
  <2>1. \A j \in Pending(p) : last < j /\ j \in Nat /\ last \in Nat
    BY <1>2, <1>4, <1>6 DEF Pending, Ledger!InState
  <2>2. \A j \in Pending(p) : ~ (j <= last)
    BY <2>1
  <2> QED
    BY <1>4, <1>5, <1>7, <2>2
<1>9. /\ continuations'[p] = Ledger!Moved(rows, ids, "delivered")
      /\ RestKept(p)
  <2>1. RestKept(p)
    <3>1. growth[p].pollen \in Pollen
      BY GrowthShape DEF IInv, At
    <3> QED
      BY <1>1, <3>1, DeliverEffect
  <2>2. continuations' = [continuations EXCEPT ![p] =
                             Ledger!Moved(continuations[p], ids, "delivered")]
    BY <1>2 DEF Ledger!Transition
  <2>3. continuations \in [Phytomer -> Seq(Ledger!Continuation)]
    BY <1>1 DEF Ledger!TypeOK
  <2> QED
    BY <2>1, <2>2, <2>3
<1>10. Standings(continuations'[p]) = Restood(rows, upto(last), "delivered")
  BY <1>1, <1>2, <1>8, <1>9, MovedStandings, FateFacts DEF Restood
<1>11. /\ Fates' = Fates /\ Fates[p] = "open" /\ Fruits' = Fruits
       /\ Intents[p] = Standings(rows)
  BY <1>2, <1>3, FateFacts DEF Fates, Fruits, Intents
<1>12. Intents' = [Intents EXCEPT ![p] = Restood(rows, upto(last), "delivered")]
  BY <1>9, <1>10, OneRow
<1>13. DOMAIN Intents[p] = DOMAIN rows
  BY <1>11 DEF Standings
<1>14. {i \in DOMAIN Intents[p] : Intents[p][i] = "waiting"} = Awaited(rows)
  BY <1>1, <1>11, WaitingRows
<1> HIDE DEF rows, ids
<1>15. \E end \in {i \in DOMAIN Intents[p] : Intents[p][i] = "waiting"} :
          Intents' = [Intents EXCEPT ![p] =
             [i \in DOMAIN Intents[p] |->
                IF i \in {j \in {k \in DOMAIN Intents[p] :
                                   Intents[p][k] = "waiting"} : j <= end}
                THEN "delivered" ELSE Intents[p][i]]]
  BY <1>8, <1>11, <1>12, <1>13, <1>14 DEF Restood
<1> QED
  BY <1>11, <1>15 DEF Promise!Deliver, Promise!Waiting, Promise!Becoming,
     Fates, Intents, Fruits, Standings

LEMMA SealingIsPromised ==
    ASSUME LedgerProofs!IInv, NEW p \in Phytomer, NEW q \in Pollen,
           Ledger!AcquireFence(p, q)
    PROVE  Promise!Seal(p)
<1>1. /\ RestKept(p) /\ seeds[p].status = "running"
      /\ seeds'[p].status = "settling"
      /\ seeds'[p].fruit = seeds[p].fruit
      /\ continuations' = continuations
  BY FenceEffect
<1>2. /\ Fates' = [Fates EXCEPT ![p] = "sealed"]
      /\ Fates[p] = "open"
  BY <1>1, OneRow, FateFacts DEF Fates
<1>3. Intents' = Intents
  BY <1>1 DEF Intents, Standings
<1>4. Fruits' = Fruits
  BY <1>1, OneRow DEF Fruits
<1>5. {i \in DOMAIN Intents[p] : Intents[p][i] = "waiting"} =
         Awaited(continuations[p])
  BY WaitingRows, LedgerFacts DEF Intents
<1>6. Awaited(continuations[p]) = {}
  BY DEF Awaited, Ledger!AcquireFence, Ledger!FenceGranted,
     Ledger!UnresolvedOf, Ledger!InState
<1> QED
  BY <1>2, <1>3, <1>4, <1>5, <1>6, PromiseActions

LEMMA HarvestIsPromised ==
    ASSUME LedgerProofs!IInv, NEW p \in Phytomer, NEW q \in Pollen,
           NEW bears \in BOOLEAN, Ledger!Complete(p, q, bears)
    PROVE  Promise!Harvest(p)
<1>1. /\ RestKept(p) /\ seeds[p].status = "settling"
      /\ seeds'[p].status = "settled"
      /\ seeds'[p].fruit = bears
      /\ continuations' = continuations
  BY CompleteEffect
<1>2. /\ Fates' = [Fates EXCEPT ![p] = "closed"]
      /\ Fates[p] = "sealed"
  BY <1>1, OneRow, FateFacts DEF Fates
<1>3. Intents' = Intents
  BY <1>1 DEF Intents, Standings
<1>4. p \notin Fruits
  BY <1>1, LedgerFacts DEF Fruits
<1>5. Fruits' \in {Fruits, Fruits \cup {p}}
  <2>1. Fruits \ {p} = Fruits
    BY <1>4
  <2>2. Fruits' = IF bears THEN Fruits \cup {p} ELSE Fruits \ {p}
    BY <1>1, OneRow
  <2> QED
    BY <2>1, <2>2
<1> QED
  BY <1>2, <1>3, <1>5, PromiseActions

\* A claim is the ledger's own business.
LEMMA ClaimIsUnseen ==
    ASSUME LedgerProofs!IInv, NEW p \in Phytomer, NEW q \in Pollen,
           Ledger!ClaimPending(p, q)
    PROVE  UNCHANGED Promise!vars
<1> DEFINE rows == continuations[p]
           ids == Ledger!InState(p, {"pending"})
<1>1. /\ rows \in Seq(Ledger!Continuation) /\ Ledger!TypeOK
      /\ UNCHANGED seeds /\ RestKept(p)
      /\ "delivering" \in Ledger!DeliveryState
  BY LedgerFacts, ClaimEffect DEF Ledger!DeliveryState
<1>2. continuations'[p] = Ledger!Moved(rows, ids, "delivering")
  BY <1>1 DEF Ledger!ClaimPending, Ledger!Transition, Ledger!TypeOK
<1>3. Standings(continuations'[p]) = Restood(rows, ids, "waiting")
  BY <1>1, <1>2, MovedStandings, FateFacts DEF Restood
<1>4. \A i \in ids : i \in DOMAIN rows /\ Standings(rows)[i] = "waiting"
  BY FateFacts DEF Ledger!InState, Standings
<1>5. Restood(rows, ids, "waiting") = Standings(rows)
  BY <1>4 DEF Restood, Standings
<1>6. Intents' = [Intents EXCEPT ![p] = Standings(rows)]
  BY <1>1, <1>3, <1>5, OneRow
<1>7. Intents' = Intents
  BY <1>6 DEF Intents
<1>8. Fates' = Fates /\ Fruits' = Fruits
  BY <1>1 DEF Fates, Fruits
<1> QED
  BY <1>7, <1>8, PromiseActions

\* What fails does so for every Phytomer at once.
LEMMA Withering ==
    ASSUME NEW failing \in SUBSET Phytomer,
           \A p \in failing : Fates[p] \in {"open", "sealed"},
           Fates' = [p \in Phytomer |-> IF p \in failing THEN "closed"
                                                         ELSE Fates[p]],
           Intents' = [p \in Phytomer |->
                          IF p \in failing
                          THEN Restood(continuations[p],
                                       Awaited(continuations[p]), "failed")
                          ELSE Intents[p]],
           continuations \in [Phytomer -> Seq(Ledger!Continuation)],
           UNCHANGED Fruits
    PROVE  Promise!Wither(failing)
<1>1. ASSUME NEW p \in Phytomer
      PROVE  Restood(continuations[p], Awaited(continuations[p]), "failed") =
                [i \in DOMAIN Intents[p] |->
                   IF i \in {k \in DOMAIN Intents[p] :
                                Intents[p][k] = "waiting"}
                   THEN "failed" ELSE Intents[p][i]]
  <2>1. Intents[p] = Standings(continuations[p])
    BY DEF Intents
  <2>2. DOMAIN Intents[p] = DOMAIN continuations[p]
    BY <2>1 DEF Standings
  <2>3. {k \in DOMAIN Intents[p] : Intents[p][k] = "waiting"} =
           Awaited(continuations[p])
    BY <2>1, WaitingRows
  <2> QED
    BY <2>1, <2>2, <2>3 DEF Restood
<1>2. Intents' = [p \in Phytomer |->
                     IF p \in failing
                     THEN [i \in DOMAIN Intents[p] |->
                             IF i \in {k \in DOMAIN Intents[p] :
                                          Intents[p][k] = "waiting"}
                             THEN "failed" ELSE Intents[p][i]]
                     ELSE Intents[p]]
  BY <1>1
<1> QED
  BY <1>2 DEF Promise!Wither, Promise!Waiting, Promise!Becoming, Fates,
     Intents, Fruits, Standings

\* Failing what waits, row by row.
LEMMA FailedStandings ==
    ASSUME NEW p \in Phytomer,
           continuations[p] \in Seq(Ledger!Continuation),
           continuations'[p] =
              Ledger!Moved(continuations[p], Ledger!UnresolvedOf(p), "failed")
    PROVE  Intents'[p] = Restood(continuations[p],
                                 Awaited(continuations[p]), "failed")
<1>1. Ledger!UnresolvedOf(p) = Awaited(continuations[p])
  BY DEF Ledger!UnresolvedOf, Ledger!InState, Awaited
<1>2. "failed" \in Ledger!DeliveryState
  BY DEF Ledger!DeliveryState
<1>3. Standings(continuations'[p]) =
         Restood(continuations[p], Awaited(continuations[p]), "failed")
  BY <1>1, <1>2, MovedStandings, FateFacts DEF Restood
<1>4. Intents'[p] = Standings(continuations'[p])
  BY DEF Intents, Standings
<1> QED
  BY <1>3, <1>4

\* With nothing unresolved, failing it changes no standing.
LEMMA NothingToFail ==
    ASSUME NEW p \in Phytomer,
           continuations[p] \in Seq(Ledger!Continuation),
           Ledger!UnresolvedOf(p) = {}
    PROVE  Restood(continuations[p], Awaited(continuations[p]), "failed") =
              Intents[p]
<1>1. Awaited(continuations[p]) = {}
  BY DEF Ledger!UnresolvedOf, Ledger!InState, Awaited
<1> QED
  BY <1>1 DEF Restood, Intents, Standings

LEMMA FailureIsPromised ==
    ASSUME LedgerProofs!IInv, NEW p \in Phytomer, NEW q \in Pollen,
           NEW error, Ledger!AccountFailure(p, q, error)
    PROVE  Promise!Wither({p}) \/ UNCHANGED Promise!vars
<1>1. /\ RestKept(p) /\ seeds'[p].status = "settled"
      /\ seeds[p].status # "absent" /\ seeds[p] \in Ledger!SeedRow
      /\ IF Ledger!Active(p) THEN seeds'[p].fruit = FALSE
         ELSE seeds'[p] = seeds[p] /\ seeds[p].status = "settled"
      /\ continuations \in [Phytomer -> Seq(Ledger!Continuation)]
  BY FailureEffect, LedgerFacts DEF Ledger!TypeOK
<1>2. continuations'[p] =
         Ledger!Moved(continuations[p], Ledger!UnresolvedOf(p), "failed")
  BY <1>1 DEF Ledger!AccountFailure, Ledger!Transition
<1>3. /\ Intents'[p] = Restood(continuations[p],
                               Awaited(continuations[p]), "failed")
      /\ Fates' = [Fates EXCEPT ![p] = "closed"]
      /\ \A r \in Phytomer \ {p} : Intents'[r] = Intents[r]
  <2>1. Intents'[p] = Restood(continuations[p],
                              Awaited(continuations[p]), "failed")
    BY <1>1, <1>2, FailedStandings
  <2>2. Fates' = [Fates EXCEPT ![p] = "closed"]
    BY <1>1, OneRow, FateFacts
  <2>3. \A r \in Phytomer \ {p} : Intents'[r] = Intents[r]
    BY <1>1 DEF RestKept, Intents, Standings
  <2> QED
    BY <2>1, <2>2, <2>3
<1>4. CASE Ledger!Active(p)
  <2>1. Fates[p] \in {"open", "sealed"}
    BY <1>4, FateFacts DEF Fates, Ledger!Active
  <2>2. ~seeds[p].fruit
    BY <1>4, LedgerFacts DEF Ledger!Active
  <2>3. Fruits' = Fruits
    BY <1>1, <1>4, <2>2, OneRow DEF Fruits
  <2>4. /\ Fates' = [r \in Phytomer |-> IF r \in {p} THEN "closed"
                                                     ELSE Fates[r]]
        /\ Intents' = [r \in Phytomer |->
                          IF r \in {p}
                          THEN Restood(continuations[r],
                                       Awaited(continuations[r]), "failed")
                          ELSE Intents[r]]
    <3>1. /\ Fates = [r \in Phytomer |-> Fates[r]]
          /\ Intents' = [r \in Phytomer |-> Intents'[r]]
      BY DEF Fates, Intents, Standings
    <3> QED
      BY <1>3, <3>1
  <2> QED
    BY <1>1, <2>1, <2>3, <2>4, Withering
<1>5. CASE ~Ledger!Active(p)
  <2>1. /\ seeds'[p] = seeds[p] /\ seeds[p].status = "settled"
        /\ Ledger!UnresolvedOf(p) = {}
    BY <1>1, <1>5, LedgerFacts
  <2>2. UNCHANGED <<Fates, Fruits>>
    BY <1>1, <2>1 DEF RestKept, Fates, Fruits
  <2>3. Intents'[p] = Intents[p]
    BY <1>1, <1>3, <2>1, NothingToFail
  <2>4. /\ Intents = [r \in Phytomer |-> Intents[r]]
        /\ Intents' = [r \in Phytomer |-> Intents'[r]]
    BY DEF Intents, Standings
  <2>5. UNCHANGED Intents
    BY <1>3, <2>3, <2>4
  <2> QED
    BY <2>2, <2>5, PromiseActions
<1> QED
  BY <1>4, <1>5

LEMMA RestartIsPromised ==
    ASSUME LedgerProofs!IInv, Ledger!Reconcile
    PROVE  \E failing \in SUBSET Phytomer : Promise!Wither(failing)
<1>0. PICK failing \in SUBSET Phytomer :
         failing = {p \in Phytomer : Ledger!Active(p)}
  OBVIOUS
<1>1. \A p \in failing : Fates[p] \in {"open", "sealed"}
  BY <1>0, FateFacts DEF Fates, Ledger!Active
<1>2. continuations \in [Phytomer -> Seq(Ledger!Continuation)]
  BY LedgerFacts DEF Ledger!TypeOK
<1>3. ASSUME NEW p \in Phytomer
      PROVE  /\ Fates'[p] = IF p \in failing THEN "closed" ELSE Fates[p]
             /\ p \in Fruits' <=> p \in Fruits
             /\ Intents'[p] = IF p \in failing
                              THEN Restood(continuations[p],
                                           Awaited(continuations[p]), "failed")
                              ELSE Intents[p]
  <2>1. /\ seeds'[p].status = IF Ledger!Active(p) THEN "settled"
                                                 ELSE seeds[p].status
        /\ seeds'[p].fruit = (seeds[p].fruit /\ ~Ledger!Active(p))
        /\ seeds[p] \in Ledger!SeedRow
    BY ReconcileEffect, LedgerFacts
  <2>2. Fates'[p] = IF p \in failing THEN "closed" ELSE Fates[p]
    BY <1>0, <2>1, FateFacts DEF Fates
  <2>3. p \in Fruits' <=> p \in Fruits
    BY <2>1, LedgerFacts DEF Fruits, Ledger!Active
  <2>4. Intents'[p] = Restood(continuations[p],
                              Awaited(continuations[p]), "failed")
    BY <1>2, FailedStandings DEF Ledger!Reconcile
  <2>5. ASSUME p \notin failing PROVE Ledger!UnresolvedOf(p) = {}
    <3>1. seeds[p].status \in {"absent", "settled"}
      BY <1>0, <2>1, <2>5 DEF Ledger!Active, Ledger!SeedRow, Ledger!SeedStatus
    <3>2. CASE seeds[p].status = "absent"
      <4>1. DOMAIN continuations[p] = {}
        BY <3>2, LedgerFacts
      <4> QED
        BY <4>1 DEF Ledger!UnresolvedOf, Ledger!InState
    <3>3. CASE seeds[p].status = "settled"
      BY <3>3, LedgerFacts
    <3> QED
      BY <3>1, <3>2, <3>3
  <2> QED
    BY <1>2, <2>2, <2>3, <2>4, <2>5, NothingToFail
<1>4. UNCHANGED Fruits
  <2>1. Fruits \subseteq Phytomer /\ Fruits' \subseteq Phytomer
    BY DEF Fruits
  <2> QED
    BY <1>3, <2>1
<1>5. /\ Fates' = [p \in Phytomer |-> Fates'[p]]
      /\ Intents' = [p \in Phytomer |-> Intents'[p]]
  BY DEF Fates, Intents, Standings
<1>6. /\ Fates' = [p \in Phytomer |-> IF p \in failing THEN "closed"
                                                       ELSE Fates[p]]
      /\ Intents' = [p \in Phytomer |->
                        IF p \in failing
                        THEN Restood(continuations[p],
                                     Awaited(continuations[p]), "failed")
                        ELSE Intents[p]]
  BY <1>3, <1>5
<1> QED
  BY <1>1, <1>2, <1>4, <1>6, Withering

LEMMA UnseenElsewhere == UNCHANGED ledger => UNCHANGED Promise!vars
BY DEF ledger, Promise!vars

LEMMA PromiseStep == IInv /\ [Next]_vars => [Promise!Next]_(Promise!vars)
<1> SUFFICES ASSUME IInv, [Next]_vars PROVE [Promise!Next]_(Promise!vars)
  OBVIOUS
<1>0. TypeOK /\ LedgerProofs!IInv
  BY DEF IInv
<1>1. ASSUME NEW s \in Process, NEW p \in Phytomer, NEW q \in Pollen,
             NEW gated \in BOOLEAN, OpenSeed(s, p, q, gated)
      PROVE  Promise!Next
  BY <1>0, <1>1, OpeningIsPromised DEF OpenSeed, Promise!Next
<1>2. ASSUME NEW p \in Phytomer, DeliverPending(p)
      PROVE  UNCHANGED Promise!vars
  <2>1. growth[p].pollen \in Pollen
    BY <1>0, <1>2, GrowthShape DEF DeliverPending, At
  <2>2. Ledger!ClaimPending(p, growth[p].pollen) \/ UNCHANGED ledger
    BY <1>2 DEF DeliverPending, Call
  <2> QED
    BY <1>0, <2>1, <2>2, ClaimIsUnseen, UnseenElsewhere
<1>3. ASSUME NEW p \in Phytomer, ConfirmDelivery(p)
      PROVE  [Promise!Next]_(Promise!vars)
  <2>1. \/ Ledger!MarkDelivered(p, growth[p].pollen, growth[p].claimed)
        \/ UNCHANGED ledger
    BY <1>3 DEF ConfirmDelivery, Call
  <2>2. At(p, "confirm")
    BY <1>3 DEF ConfirmDelivery
  <2> QED
    BY <2>1, <2>2, DeliveryIsPromised, UnseenElsewhere DEF Promise!Next
<1>4. ASSUME NEW p \in Phytomer, AcquireSettlementFence(p)
      PROVE  [Promise!Next]_(Promise!vars)
  <2>1. growth[p].pollen \in Pollen
    BY <1>0, <1>4, GrowthShape DEF AcquireSettlementFence
  <2>2. Ledger!AcquireFence(p, growth[p].pollen) \/ UNCHANGED ledger
    BY <1>4 DEF AcquireSettlementFence, Call
  <2> QED
    BY <1>0, <2>1, <2>2, SealingIsPromised, UnseenElsewhere DEF Promise!Next
<1>5. ASSUME NEW p \in Phytomer, Finalize(p)
      PROVE  [Promise!Next]_(Promise!vars)
  <2>1. growth[p].pollen \in Pollen /\ growth[p].fruit \in BOOLEAN
    BY <1>0, <1>5, GrowthShape DEF Finalize, At
  <2>2. \/ Ledger!Complete(p, growth[p].pollen, growth[p].fruit)
        \/ \E error : Ledger!AccountFailure(p, growth[p].pollen, error)
        \/ UNCHANGED ledger
    BY <1>5 DEF Finalize, Call
  <2>3. {p} \in SUBSET Phytomer
    OBVIOUS
  <2>4. CASE Ledger!Complete(p, growth[p].pollen, growth[p].fruit)
    BY <1>0, <2>1, <2>4, HarvestIsPromised DEF Promise!Next
  <2>5. CASE \E error : Ledger!AccountFailure(p, growth[p].pollen, error)
    BY <1>0, <2>1, <2>3, <2>5, FailureIsPromised DEF Promise!Next
  <2> QED
    BY <2>2, <2>4, <2>5, UnseenElsewhere
<1>6. ASSUME NEW s \in Process, NEW r \in Request, Answer(s, r)
      PROVE  [Promise!Next]_(Promise!vars)
  <2>1. \/ Ledger!Accept(r.phytomer, r.pollen, r.key, r.intent)
        \/ UNCHANGED ledger
    BY <1>6 DEF Answer, Call
  <2>2. r.phytomer \in Phytomer
    BY DEF Request
  <2> QED
    BY <1>0, <2>1, <2>2, AcceptanceIsPromised, UnseenElsewhere
    DEF Promise!Next
<1>7. ASSUME NEW s \in Process, Boot(s)
      PROVE  [Promise!Next]_(Promise!vars)
  <2>1. Ledger!Reconcile \/ UNCHANGED ledger
    BY <1>7 DEF Boot, Call
  <2> QED
    BY <1>0, <2>1, RestartIsPromised, UnseenElsewhere DEF Promise!Next
<1>8. ASSUME NEW p \in Phytomer,
             \/ Expire(p) \/ LoopHead(p) \/ NoSprout(p) \/ Build(p)
             \/ Judge(p) \/ Settle(p)
      PROVE  UNCHANGED ledger
  BY <1>8 DEF Expire, LoopHead, NoSprout, Build, Judge, Settle
<1>9. ASSUME NEW s \in Process, Crash(s) \/ \E r \in Request : Ask(s, r)
      PROVE  UNCHANGED ledger
  BY <1>9 DEF Ask, Crash
<1>10. UNCHANGED vars => UNCHANGED ledger
  BY DEF vars, ledger
<1> QED
  BY <1>1, <1>2, <1>3, <1>4, <1>5, <1>6, <1>7, <1>8, <1>9, <1>10,
     UnseenElsewhere
  DEF Next, Grow

\* The processes keep the promise of SeedPromise: intent is taken in only while
\* the Seed is open, delivered oldest first, and Fruit is borne only behind the
\* fence, with nothing left waiting.
THEOREM PromiseIsKept == Spec => PromiseKept
<1>1. Init => Promise!Init
  <2> SUFFICES ASSUME Init PROVE Promise!Init
    OBVIOUS
  <2>1. \A p \in Phytomer : /\ seeds[p].status = "absent" /\ ~seeds[p].fruit
                            /\ continuations[p] = <<>>
    BY DEF Init, Ledger!Init
  <2>2. Fates = [p \in Phytomer |-> "unopened"] /\ Fruits = {}
    BY <2>1, FateFacts DEF Fates, Fruits
  <2>3. Standings(<<>>) = <<>>
    BY DEF Standings
  <2>4. Intents = [p \in Phytomer |-> <<>>]
    BY <2>1, <2>3 DEF Intents
  <2> QED
    BY <2>2, <2>4, PromiseActions
<1> QED
  BY <1>1, PromiseStep, Invariance, PTL DEF Spec, PromiseKept, Promise!Spec

=============================================================================
