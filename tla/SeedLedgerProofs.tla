-------------------------- MODULE SeedLedgerProofs --------------------------
(***************************************************************************)
(* Proofs about SeedLedger, for any Phytomers, Pollens, keys and intents.  *)
(*                                                                         *)
(* Every transaction concerns the seedruns row and the continuations rows  *)
(* of one Phytomer (Reconcile: of each), so the inductive invariant is a   *)
(* predicate of one row and its continuations, and the proof is about one  *)
(* Phytomer at a time.                                                     *)
(***************************************************************************)
EXTENDS SeedLedger, SequenceTheorems, TLAPS

\* What holds of the row of a Phytomer and its continuations.
Sound(row, rows) ==
    /\ row.status = "absent" => rows = <<>>
    /\ row.status \in {"settling", "settled"} =>
          \A i \in DOMAIN rows : rows[i].state \notin Unresolved
    /\ row.fruit =>
          /\ row.status = "settled"
          /\ \A i \in DOMAIN rows : rows[i].state = "delivered"
    /\ (\E i \in DOMAIN rows : rows[i].state = "failed") =>
          /\ row.status = "settled"
          /\ row.error \in {"undeliverable", "restart"}
    /\ \A i \in DOMAIN rows : rows[i].pollen = row.pollen
    /\ \A i, j \in DOMAIN rows : rows[i].key = rows[j].key => i = j

IInv == TypeOK /\ \A p \in Phytomer : Sound(seeds[p], continuations[p])

-----------------------------------------------------------------------------
(* The shape of the rows of one Phytomer.                                  *)

LEMMA RowsShape ==
    ASSUME NEW rows \in Seq(Continuation)
    PROVE  /\ Len(rows) \in Nat
           /\ DOMAIN rows = 1 .. Len(rows)
           /\ \A i \in DOMAIN rows : rows[i] \in Continuation
BY LenProperties, ElementOfSeq

\* A change of delivery state keeps the rows, their number and their owners.
LEMMA MovedRows ==
    ASSUME NEW rows \in Seq(Continuation), NEW ids, NEW to \in DeliveryState
    PROVE  /\ Moved(rows, ids, to) \in Seq(Continuation)
           /\ DOMAIN Moved(rows, ids, to) = DOMAIN rows
           /\ \A i \in DOMAIN rows :
                 /\ Moved(rows, ids, to)[i].pollen = rows[i].pollen
                 /\ Moved(rows, ids, to)[i].key = rows[i].key
                 /\ Moved(rows, ids, to)[i].intent = rows[i].intent
                 /\ Moved(rows, ids, to)[i].state =
                       IF i \in ids THEN to ELSE rows[i].state
<1> DEFINE moved(i) == IF i \in ids THEN [rows[i] EXCEPT !.state = to]
                                    ELSE rows[i]
<1>1. DOMAIN rows = 1 .. Len(rows) /\ Len(rows) \in Nat
  BY LenProperties
<1>2. \A i \in DOMAIN rows : rows[i] \in Continuation
  BY ElementOfSeq, <1>1
<1>3. \A i \in DOMAIN rows : moved(i) \in Continuation
  BY <1>2 DEF Continuation
<1>4. Moved(rows, ids, to) = [i \in 1 .. Len(rows) |-> moved(i)]
  BY <1>1 DEF Moved
<1>5. Moved(rows, ids, to) \in Seq(Continuation)
  BY <1>1, <1>3, <1>4, IsASeq
<1>6. \A i \in DOMAIN rows : Moved(rows, ids, to)[i] = moved(i)
  BY <1>1, <1>4
<1>7. \A i \in DOMAIN rows :
         /\ moved(i).pollen = rows[i].pollen
         /\ moved(i).key = rows[i].key
         /\ moved(i).intent = rows[i].intent
         /\ moved(i).state = IF i \in ids THEN to ELSE rows[i].state
  BY <1>2 DEF Continuation
<1> QED
  BY <1>1, <1>4, <1>5, <1>6, <1>7

\* An acceptance adds one row at the end and keeps the others.
LEMMA AppendedRows ==
    ASSUME NEW rows \in Seq(Continuation), NEW row \in Continuation
    PROVE  /\ Append(rows, row) \in Seq(Continuation)
           /\ DOMAIN Append(rows, row) = DOMAIN rows \cup {Len(rows) + 1}
           /\ \A i \in DOMAIN rows : Append(rows, row)[i] = rows[i]
           /\ Append(rows, row)[Len(rows) + 1] = row
           /\ Len(rows) + 1 \notin DOMAIN rows
<1>1. DOMAIN rows = 1 .. Len(rows) /\ Len(rows) \in Nat
  BY LenProperties
<1> QED
  BY <1>1, AppendProperties, LenProperties

-----------------------------------------------------------------------------
(* Preservation, one lemma per transaction.                                *)

\* It is enough to look at the one Phytomer a transaction is about.
LEMMA OnePhytomer ==
    ASSUME IInv, NEW p \in Phytomer, NEW row \in SeedRow,
           NEW rows \in Seq(Continuation), Sound(row, rows),
           seeds' = [seeds EXCEPT ![p] = row],
           continuations' = [continuations EXCEPT ![p] = rows]
    PROVE  IInv'
<1>1. TypeOK'
  BY DEF IInv, TypeOK
<1>2. ASSUME NEW r \in Phytomer PROVE Sound(seeds'[r], continuations'[r])
  BY DEF IInv, TypeOK
<1> QED
  BY <1>1, <1>2 DEF IInv

LEMMA InitSound == Init => IInv
<1> SUFFICES ASSUME Init PROVE IInv
  OBVIOUS
<1>1. TypeOK
  BY EmptySeq DEF Init, TypeOK, SeedRow, SeedStatus, SeedError, Nobody
<1>2. ASSUME NEW p \in Phytomer PROVE Sound(seeds[p], continuations[p])
  BY DEF Init, Sound
<1> QED
  BY <1>1, <1>2 DEF IInv

LEMMA OpenSound ==
    ASSUME IInv, NEW p \in Phytomer, NEW q \in Pollen, Open(p, q)
    PROVE  IInv'
<1> DEFINE row == [status |-> "running", pollen |-> q,
                   error |-> "none", fruit |-> FALSE]
<1>1. continuations[p] = <<>> /\ continuations[p] \in Seq(Continuation)
  BY DEF IInv, TypeOK, Open, Sound
<1>2. row \in SeedRow
  BY DEF SeedRow, SeedStatus, SeedError
<1>3. Sound(row, continuations[p])
  BY <1>1 DEF Sound
<1>4. /\ seeds' = [seeds EXCEPT ![p] = row]
      /\ continuations' = [continuations EXCEPT ![p] = continuations[p]]
  BY DEF Open, IInv, TypeOK
<1> QED
  BY <1>1, <1>2, <1>3, <1>4, OnePhytomer

LEMMA AcceptSound ==
    ASSUME IInv, NEW p \in Phytomer, NEW q \in Pollen, NEW k \in Key,
           NEW intent \in Intent, Accept(p, q, k, intent)
    PROVE  IInv'
<1> DEFINE rows == continuations[p]
           new == [pollen |-> q, key |-> k, intent |-> intent,
                   state |-> "pending"]
<1>1. CASE Retry(p, q, k) # {}
  BY <1>1 DEF IInv, TypeOK, Accept
<1>2. CASE Retry(p, q, k) = {}
  <2>1. /\ seeds[p] \in SeedRow
        /\ rows \in Seq(Continuation)
        /\ Sound(seeds[p], rows)
    BY DEF IInv, TypeOK
  <2>2. new \in Continuation
    BY DEF Continuation, DeliveryState
  <2>3. seeds[p].status = "running" /\ seeds[p].pollen = q
    BY DEF Accept, Acceptable, Eligible, ExactTarget
  <2>4. \A i \in DOMAIN rows : rows[i].key # k
    BY <1>2, <2>1, <2>3 DEF Retry, Sound
  <2>5. /\ DOMAIN Append(rows, new) = DOMAIN rows \cup {Len(rows) + 1}
        /\ \A i \in DOMAIN rows : Append(rows, new)[i] = rows[i]
        /\ Append(rows, new)[Len(rows) + 1] = new
        /\ Append(rows, new) \in Seq(Continuation)
    BY <2>1, <2>2, AppendedRows
  <2>6. Sound(seeds[p], Append(rows, new))
    BY <2>1, <2>3, <2>4, <2>5 DEF Sound
  <2>7. /\ seeds' = [seeds EXCEPT ![p] = seeds[p]]
        /\ continuations' = [continuations EXCEPT ![p] = Append(rows, new)]
    BY <1>2 DEF Accept, IInv, TypeOK
  <2> QED
    BY <2>1, <2>5, <2>6, <2>7, OnePhytomer
<1> QED
  BY <1>1, <1>2

\* Claiming and confirming delivery move rows of a running Seed, or of one
\* whose rows have all left the states they move from.
LEMMA TransitionSound ==
    ASSUME IInv, NEW p \in Phytomer, seeds[p].status # "absent",
           NEW ids \in SUBSET InState(p, Unresolved),
           NEW to \in {"delivering", "delivered"},
           Transition(p, ids, to), UNCHANGED seeds
    PROVE  IInv'
<1> DEFINE rows == continuations[p]
           after == Moved(rows, ids, to)
<1>1. /\ seeds[p] \in SeedRow
      /\ rows \in Seq(Continuation)
      /\ Sound(seeds[p], rows)
  BY DEF IInv, TypeOK
<1>2. /\ after \in Seq(Continuation)
      /\ DOMAIN after = DOMAIN rows
      /\ \A i \in DOMAIN rows :
            /\ after[i].pollen = rows[i].pollen
            /\ after[i].key = rows[i].key
            /\ after[i].state = IF i \in ids THEN to ELSE rows[i].state
  BY <1>1, MovedRows DEF DeliveryState
<1>3. \A i \in ids : i \in DOMAIN rows /\ rows[i].state \in Unresolved
  BY DEF InState
<1>4. Sound(seeds[p], after)
  BY <1>1, <1>2, <1>3 DEF Sound, Unresolved
<1>5. /\ seeds' = [seeds EXCEPT ![p] = seeds[p]]
      /\ continuations' = [continuations EXCEPT ![p] = after]
  BY DEF Transition, IInv, TypeOK
<1> QED
  BY <1>1, <1>2, <1>4, <1>5, OnePhytomer

\* A transaction that writes the seedruns row alone.
LEMMA RowSound ==
    ASSUME IInv, NEW p \in Phytomer, NEW row \in SeedRow,
           Sound(row, continuations[p]),
           seeds' = [seeds EXCEPT ![p] = row], UNCHANGED continuations
    PROVE  IInv'
<1>1. continuations[p] \in Seq(Continuation)
  BY DEF IInv, TypeOK
<1>2. continuations' = [continuations EXCEPT ![p] = continuations[p]]
  BY DEF IInv, TypeOK
<1> QED
  BY <1>1, <1>2, OnePhytomer

LEMMA AcquireFenceSound ==
    ASSUME IInv, NEW p \in Phytomer, NEW q \in Pollen, AcquireFence(p, q)
    PROVE  IInv'
<1> DEFINE row == [seeds[p] EXCEPT !.status = "settling"]
<1>1. /\ seeds[p] \in SeedRow
      /\ Sound(seeds[p], continuations[p])
      /\ seeds[p].status = "running"
      /\ UnresolvedOf(p) = {}
  BY DEF IInv, TypeOK, AcquireFence, FenceGranted, Eligible
<1>2. row \in SeedRow
  BY <1>1 DEF SeedRow, SeedStatus
<1>3. /\ row.status = "settling" /\ row.pollen = seeds[p].pollen
      /\ row.fruit = seeds[p].fruit
  BY <1>1 DEF SeedRow
<1>4. \A i \in DOMAIN continuations[p] :
         continuations[p][i].state \notin Unresolved
  BY <1>1 DEF UnresolvedOf, InState
<1>5. Sound(row, continuations[p])
  BY <1>1, <1>3, <1>4 DEF Sound
<1>6. seeds' = [seeds EXCEPT ![p] = row] /\ UNCHANGED continuations
  BY DEF AcquireFence, IInv, TypeOK
<1> QED
  BY <1>2, <1>5, <1>6, RowSound

\* Nothing is unresolved and nothing failed on a fenced Seed, so all was
\* delivered: Fruit may stand.
LEMMA CompleteSound ==
    ASSUME IInv, NEW p \in Phytomer, NEW q \in Pollen, NEW fruit \in BOOLEAN,
           Complete(p, q, fruit)
    PROVE  IInv'
<1> DEFINE row == [seeds[p] EXCEPT !.status = "settled", !.error = "none",
                                   !.fruit = fruit]
           rows == continuations[p]
<1>1. /\ seeds[p] \in SeedRow
      /\ rows \in Seq(Continuation)
      /\ Sound(seeds[p], rows)
      /\ seeds[p].status = "settling"
  BY DEF IInv, TypeOK, Complete, Completable
<1>2. row \in SeedRow
  BY <1>1 DEF SeedRow, SeedStatus, SeedError
<1>3. /\ row.status = "settled" /\ row.pollen = seeds[p].pollen
      /\ row.fruit = fruit
  BY <1>1 DEF SeedRow
<1>4. \A i \in DOMAIN rows : rows[i].state \in DeliveryState
  BY <1>1, RowsShape DEF Continuation
<1>5. \A i \in DOMAIN rows : rows[i].state = "delivered"
  BY <1>1, <1>4 DEF Sound, Unresolved, DeliveryState
<1>6. Sound(row, rows)
  BY <1>1, <1>3, <1>5 DEF Sound, Unresolved
<1>7. seeds' = [seeds EXCEPT ![p] = row] /\ UNCHANGED continuations
  BY DEF Complete, IInv, TypeOK
<1> QED
  BY <1>2, <1>6, <1>7, RowSound

\* Failing what is unresolved and settling the row with a diagnostic that says
\* so is sound on any row that exists.
LEMMA FailedRowSound ==
    ASSUME NEW row \in SeedRow, NEW rows \in Seq(Continuation),
           Sound(row, rows), row.status # "absent",
           NEW ids, ids = {i \in DOMAIN rows : rows[i].state \in Unresolved},
           NEW after \in SeedRow, after.status = "settled", ~after.fruit,
           after.pollen = row.pollen,
           \/ after.error \in {"undeliverable", "restart"}
           \/ row.status # "settled" /\ ids = {}
    PROVE  /\ Moved(rows, ids, "failed") \in Seq(Continuation)
           /\ Sound(after, Moved(rows, ids, "failed"))
<1> DEFINE failed == Moved(rows, ids, "failed")
<1>1. /\ failed \in Seq(Continuation)
      /\ DOMAIN failed = DOMAIN rows
      /\ \A i \in DOMAIN rows :
            /\ failed[i].pollen = rows[i].pollen
            /\ failed[i].key = rows[i].key
            /\ failed[i].state = IF i \in ids THEN "failed" ELSE rows[i].state
  BY MovedRows DEF DeliveryState
<1> HIDE DEF failed
<1>2. \A i \in DOMAIN rows : failed[i].state \notin Unresolved
  BY <1>1 DEF Unresolved
<1>3. (\E i \in DOMAIN rows : failed[i].state = "failed") =>
         after.error \in {"undeliverable", "restart"}
  BY <1>1 DEF Sound
<1>4. /\ \A i \in DOMAIN failed : failed[i].pollen = after.pollen
      /\ \A i, j \in DOMAIN failed : failed[i].key = failed[j].key => i = j
  BY <1>1 DEF Sound
<1>5. after.status # "absent" /\ after.fruit = FALSE
  BY DEF SeedRow
<1>6. Sound(after, failed)
  BY <1>1, <1>2, <1>3, <1>4, <1>5 DEF Sound
<1> QED
  BY <1>1, <1>6 DEF failed

LEMMA AccountFailureSound ==
    ASSUME IInv, NEW p \in Phytomer, NEW q \in Pollen,
           NEW error \in SeedError, AccountFailure(p, q, error)
    PROVE  IInv'
<1> DEFINE rows == continuations[p]
           ids == UnresolvedOf(p)
           failed == Moved(rows, ids, "failed")
           row == [seeds[p] EXCEPT
                     !.status = "settled",
                     !.error = IF ids # {} THEN "undeliverable" ELSE error,
                     !.fruit = FALSE]
<1>1. /\ seeds[p] \in SeedRow
      /\ rows \in Seq(Continuation)
      /\ Sound(seeds[p], rows)
      /\ seeds[p].status # "absent"
      /\ ids = {i \in DOMAIN rows : rows[i].state \in Unresolved}
      /\ continuations' = [continuations EXCEPT ![p] = failed]
  BY DEF IInv, TypeOK, AccountFailure, ExactTarget, Transition, UnresolvedOf,
         InState
<1>2. CASE Active(p) \/ ids # {}
  <2>1. row \in SeedRow
    BY <1>1 DEF SeedRow, SeedStatus, SeedError
  <2>2. /\ row.status = "settled" /\ ~row.fruit /\ row.pollen = seeds[p].pollen
        /\ ids # {} => row.error = "undeliverable"
    BY <1>1 DEF SeedRow
  <2>3. ids = {} => seeds[p].status # "settled"
    BY <1>2 DEF Active
  <2>4. failed \in Seq(Continuation) /\ Sound(row, failed)
    BY <1>1, <2>1, <2>2, <2>3, FailedRowSound
  <2>5. seeds' = [seeds EXCEPT ![p] = row]
    BY <1>2 DEF AccountFailure, IInv, TypeOK
  <2> QED
    BY <1>1, <2>1, <2>4, <2>5, OnePhytomer
<1>3. CASE ~(Active(p) \/ ids # {})
  <2>1. UNCHANGED seeds
    BY <1>3 DEF AccountFailure
  <2>2. Transition(p, {}, "failed")
    BY <1>3 DEF AccountFailure
  <2>3. failed = rows
    BY <1>1, <1>3, MovedRows, RowsShape DEF Moved
  <2>4. seeds' = [seeds EXCEPT ![p] = seeds[p]]
    BY <2>1 DEF IInv, TypeOK
  <2> QED
    BY <1>1, <2>3, <2>4, OnePhytomer
<1> QED
  BY <1>2, <1>3

LEMMA ReconcileSound ==
    ASSUME IInv, Reconcile
    PROVE  IInv'
<1> DEFINE row(p) == IF Active(p)
                     THEN [seeds[p] EXCEPT !.status = "settled",
                                           !.error = "restart", !.fruit = FALSE]
                     ELSE seeds[p]
           rows(p) == Moved(continuations[p], UnresolvedOf(p), "failed")
<1>1. ASSUME NEW p \in Phytomer
      PROVE  row(p) \in SeedRow /\ rows(p) \in Seq(Continuation)
             /\ Sound(row(p), rows(p))
  <2>1. /\ seeds[p] \in SeedRow
        /\ continuations[p] \in Seq(Continuation)
        /\ Sound(seeds[p], continuations[p])
        /\ UnresolvedOf(p) = {i \in DOMAIN continuations[p] :
                                 continuations[p][i].state \in Unresolved}
    BY DEF IInv, TypeOK, UnresolvedOf, InState
  <2>2. CASE Active(p)
    <3>1. /\ row(p) \in SeedRow /\ row(p).status = "settled" /\ ~row(p).fruit
          /\ row(p).pollen = seeds[p].pollen /\ row(p).error = "restart"
      BY <2>1, <2>2 DEF SeedRow, SeedStatus, SeedError
    <3>2. seeds[p].status # "absent"
      BY <2>2 DEF Active
    <3> QED
      BY <2>1, <3>1, <3>2, FailedRowSound
  <2>3. CASE ~Active(p)
    <3>1. seeds[p].status \in {"absent", "settled"}
      BY <2>1, <2>3 DEF Active, SeedRow, SeedStatus
    <3>2. UnresolvedOf(p) = {}
      BY <2>1, <3>1, EmptySeq DEF Sound
    <3>3. rows(p) = continuations[p]
      BY <2>1, <3>2, RowsShape DEF Moved
    <3> QED
      BY <2>1, <2>3, <3>3
  <2> QED
    BY <2>2, <2>3
<1>2. /\ seeds' = [p \in Phytomer |-> row(p)]
      /\ continuations' = [p \in Phytomer |-> rows(p)]
  BY DEF Reconcile
<1>3. TypeOK'
  BY <1>1, <1>2 DEF TypeOK
<1>4. ASSUME NEW p \in Phytomer PROVE Sound(seeds'[p], continuations'[p])
  BY <1>1, <1>2
<1> QED
  BY <1>3, <1>4 DEF IInv

LEMMA NextSound == IInv /\ [Next]_vars => IInv'
<1> SUFFICES ASSUME IInv, [Next]_vars PROVE IInv'
  OBVIOUS
<1>1. ASSUME NEW p \in Phytomer, NEW q \in Pollen, ClaimPending(p, q)
      PROVE  IInv'
  <2>1. /\ seeds[p].status # "absent"
        /\ InState(p, {"pending"}) \in SUBSET InState(p, Unresolved)
    BY <1>1 DEF ClaimPending, Eligible, ExactTarget, InState, Unresolved
  <2> QED
    BY <1>1, <2>1, TransitionSound DEF ClaimPending
<1>2. ASSUME NEW p \in Phytomer, NEW q \in Pollen,
             NEW ids \in SUBSET InState(p, {"delivering"}),
             MarkDelivered(p, q, ids)
      PROVE  IInv'
  <2>1. seeds[p].status # "absent" /\ ids \in SUBSET InState(p, Unresolved)
    BY <1>2 DEF MarkDelivered, Deliverable, ExactTarget, InState, Unresolved
  <2> QED
    BY <1>2, <2>1, TransitionSound DEF MarkDelivered
<1>3. CASE UNCHANGED vars
  BY <1>3 DEF vars, IInv, TypeOK
<1> QED
  BY <1>1, <1>2, <1>3, OpenSound, AcceptSound, AcquireFenceSound,
     CompleteSound, AccountFailureSound, ReconcileSound DEF Next

\* The invariant of every behaviour, whoever calls the transactions.
THEOREM Invariance == Spec => []IInv
BY InitSound, NextSound, PTL DEF Spec

-----------------------------------------------------------------------------
(* The properties of SeedLedger.                                           *)

\* Every row ever written has the columns and states the schema and the code
\* admit.
THEOREM TypeCorrectness == Spec => []TypeOK
<1>1. IInv => TypeOK
  BY DEF IInv
<1> QED
  BY <1>1, Invariance, PTL

\* No behaviour of any callers leaves accepted intent pending or delivering
\* behind the settlement fence.
THEOREM NothingUnresolvedBehindFence == Spec => []SettledLeavesNothingUnresolved
<1>1. IInv => SettledLeavesNothingUnresolved
  BY DEF IInv, Sound, SettledLeavesNothingUnresolved, UnresolvedOf, InState
<1> QED
  BY <1>1, Invariance, PTL

\* No behaviour of any callers lets Fruit stand next to intent that was not
\* delivered.
THEOREM FruitOnlyWithEveryIntent == Spec => []FruitCarriesEveryIntent
<1>1. IInv => FruitCarriesEveryIntent
  BY DEF IInv, Sound, FruitCarriesEveryIntent, InState
<1> QED
  BY <1>1, Invariance, PTL

\* Failed intent is reported by the row of its Seed for ever after.
THEOREM FailedIntentAlwaysReported == Spec => []FailedIntentIsReported
<1>1. IInv => FailedIntentIsReported
  BY DEF IInv, Sound, FailedIntentIsReported, InState
<1> QED
  BY <1>1, Invariance, PTL

\* A retry identity never names two accepted intents.
THEOREM RetryIdentityAlwaysUnique == Spec => []RetryIdentityIsUnique
<1>1. IInv => RetryIdentityIsUnique
  BY DEF IInv, Sound, RetryIdentityIsUnique
<1> QED
  BY <1>1, Invariance, PTL

-----------------------------------------------------------------------------
(* What no step may do.                                                    *)

LEMMA SettledStep ==
    ASSUME IInv, [Next]_vars, NEW p \in Phytomer, seeds[p].status = "settled"
    PROVE  UNCHANGED <<seeds[p], continuations[p]>>
<1>1. /\ seeds \in [Phytomer -> SeedRow]
      /\ continuations \in [Phytomer -> Seq(Continuation)]
      /\ UnresolvedOf(p) = {}
  BY DEF IInv, TypeOK, Sound, UnresolvedOf, InState
<1>2. Moved(continuations[p], {}, "failed") = continuations[p]
  BY <1>1, RowsShape DEF Moved
<1>3. ASSUME NEW r \in Phytomer, NEW q \in Pollen, Open(r, q)
      PROVE  UNCHANGED <<seeds[p], continuations[p]>>
  BY <1>1, <1>3 DEF Open
<1>4. ASSUME NEW r \in Phytomer, NEW q \in Pollen, NEW k \in Key,
             NEW intent \in Intent, Accept(r, q, k, intent)
      PROVE  UNCHANGED <<seeds[p], continuations[p]>>
  BY <1>1, <1>4 DEF Accept, Acceptable, Eligible
<1>5. ASSUME NEW r \in Phytomer, NEW q \in Pollen, ClaimPending(r, q)
      PROVE  UNCHANGED <<seeds[p], continuations[p]>>
  BY <1>1, <1>5 DEF ClaimPending, Eligible, Transition
<1>6. ASSUME NEW r \in Phytomer, NEW q \in Pollen,
             NEW ids \in SUBSET InState(r, {"delivering"}),
             MarkDelivered(r, q, ids)
      PROVE  UNCHANGED <<seeds[p], continuations[p]>>
  <2>1. r # p
    BY <1>1, <1>6 DEF MarkDelivered, Deliverable, UnresolvedOf, InState,
       Unresolved
  <2> QED
    BY <1>1, <1>6, <2>1 DEF MarkDelivered, Transition
<1>7. ASSUME NEW r \in Phytomer, NEW q \in Pollen, AcquireFence(r, q)
      PROVE  UNCHANGED <<seeds[p], continuations[p]>>
  BY <1>1, <1>7 DEF AcquireFence, FenceGranted, Eligible
<1>8. ASSUME NEW r \in Phytomer, NEW q \in Pollen, NEW fruit \in BOOLEAN,
             Complete(r, q, fruit)
      PROVE  UNCHANGED <<seeds[p], continuations[p]>>
  BY <1>1, <1>8 DEF Complete, Completable
<1>9. ASSUME NEW r \in Phytomer, NEW q \in Pollen, NEW error \in SeedError,
             AccountFailure(r, q, error)
      PROVE  UNCHANGED <<seeds[p], continuations[p]>>
  <2>1. CASE r = p
    BY <1>1, <1>2, <1>9, <2>1 DEF AccountFailure, Transition, Active
  <2>2. CASE r # p
    BY <1>1, <1>9, <2>2 DEF AccountFailure, Transition
  <2> QED
    BY <2>1, <2>2
<1>10. CASE Reconcile
  BY <1>1, <1>2, <1>10 DEF Reconcile, Active
<1>11. CASE UNCHANGED vars
  BY <1>11 DEF vars
<1> QED
  BY <1>3, <1>4, <1>5, <1>6, <1>7, <1>8, <1>9, <1>10, <1>11 DEF Next

\* No transaction, in whatever order it arrives, rewrites a settled Seed.
THEOREM SettledSeedsAreFinal == Spec => SettledIsFinal
<1>1. IInv /\ [Next]_vars =>
         [\A p \in Phytomer : seeds[p].status = "settled" =>
             UNCHANGED <<seeds[p], continuations[p]>>]_vars
  BY SettledStep
<1> QED
  BY <1>1, Invariance, PTL DEF Spec, SettledIsFinal

-----------------------------------------------------------------------------

\* What an accepted row may become in one step.
Successor(row, next) ==
    /\ [row EXCEPT !.state = "pending"] = [next EXCEPT !.state = "pending"]
    /\ Later(row.state, next.state)

\* Rows moved forward are successors of themselves.
LEMMA MovedForward ==
    ASSUME NEW rows \in Seq(Continuation), NEW ids, NEW to \in DeliveryState,
           \A i \in DOMAIN rows : i \in ids => Later(rows[i].state, to),
           NEW i \in DOMAIN rows
    PROVE  /\ i \in DOMAIN Moved(rows, ids, to)
           /\ Successor(rows[i], Moved(rows, ids, to)[i])
<1>1. rows[i] \in Continuation
  BY RowsShape
<1>2. /\ i \in DOMAIN Moved(rows, ids, to)
      /\ Moved(rows, ids, to)[i] =
            IF i \in ids THEN [rows[i] EXCEPT !.state = to] ELSE rows[i]
  BY DEF Moved
<1>3. CASE i \in ids
  BY <1>1, <1>2, <1>3 DEF Successor, Later, Continuation
<1>4. CASE i \notin ids
  BY <1>1, <1>2, <1>4 DEF Successor, Later, Continuation
<1> QED
  BY <1>2, <1>3, <1>4

LEMMA AcceptedStep ==
    ASSUME IInv, [Next]_vars, NEW p \in Phytomer,
           NEW i \in DOMAIN continuations[p]
    PROVE  /\ i \in DOMAIN continuations'[p]
           /\ Successor(continuations[p][i], continuations'[p][i])
<1> DEFINE Good == /\ i \in DOMAIN continuations'[p]
                   /\ Successor(continuations[p][i], continuations'[p][i])
<1>1. /\ continuations \in [Phytomer -> Seq(Continuation)]
      /\ continuations[p] \in Seq(Continuation)
      /\ continuations[p][i] \in Continuation
  BY RowsShape DEF IInv, TypeOK
<1>2. ASSUME continuations'[p] = continuations[p] PROVE Good
  BY <1>1, <1>2 DEF Successor, Later
<1>3. ASSUME NEW r \in Phytomer, NEW q \in Pollen, NEW k \in Key,
             NEW intent \in Intent, Accept(r, q, k, intent)
      PROVE  Good
  <2> DEFINE new == [pollen |-> q, key |-> k, intent |-> intent,
                     state |-> "pending"]
  <2>1. new \in Continuation
    BY DEF Continuation, DeliveryState
  <2>2. \/ continuations'[p] = continuations[p]
        \/ continuations'[p] = Append(continuations[p], new)
    BY <1>1, <1>3 DEF Accept
  <2>3. CASE continuations'[p] = Append(continuations[p], new)
    <3>1. /\ i \in DOMAIN continuations'[p]
          /\ continuations'[p][i] = continuations[p][i]
      BY <1>1, <2>1, <2>3, AppendedRows
    <3> QED
      BY <3>1 DEF Successor, Later
  <2> QED
    BY <1>2, <2>2, <2>3
<1>4. ASSUME NEW r \in Phytomer, NEW from \in SUBSET Unresolved,
             NEW ids \in SUBSET InState(r, from), NEW to \in DeliveryState,
             \A state \in from : Later(state, to), Transition(r, ids, to)
      PROVE  Good
  <2>1. CASE r = p
    <3>1. \A j \in DOMAIN continuations[p] :
             j \in ids => Later(continuations[p][j].state, to)
      BY <1>4, <2>1 DEF InState
    <3>2. continuations'[p] = Moved(continuations[p], ids, to)
      BY <1>1, <1>4, <2>1 DEF Transition
    <3> QED
      BY <1>1, <3>1, <3>2, MovedForward
  <2>2. CASE r # p
    BY <1>1, <1>2, <1>4, <2>2 DEF Transition
  <2> QED
    BY <2>1, <2>2
<1>5. ASSUME NEW r \in Phytomer, NEW q \in Pollen, ClaimPending(r, q)
      PROVE  Good
  <2>1. /\ {"pending"} \in SUBSET Unresolved
        /\ InState(r, {"pending"}) \in SUBSET InState(r, {"pending"})
        /\ \A state \in {"pending"} : Later(state, "delivering")
        /\ "delivering" \in DeliveryState
    BY DEF Unresolved, Later, DeliveryState
  <2> QED
    BY <1>4, <1>5, <2>1 DEF ClaimPending
<1>6. ASSUME NEW r \in Phytomer, NEW q \in Pollen,
             NEW ids \in SUBSET InState(r, {"delivering"}),
             MarkDelivered(r, q, ids)
      PROVE  Good
  <2>1. /\ {"delivering"} \in SUBSET Unresolved
        /\ \A state \in {"delivering"} : Later(state, "delivered")
        /\ "delivered" \in DeliveryState
    BY DEF Unresolved, Later, DeliveryState
  <2> QED
    BY <1>4, <1>6, <2>1 DEF MarkDelivered
<1>7. ASSUME NEW r \in Phytomer, NEW q \in Pollen, NEW error \in SeedError,
             AccountFailure(r, q, error)
      PROVE  Good
  <2>1. /\ UnresolvedOf(r) \in SUBSET InState(r, Unresolved)
        /\ \A state \in Unresolved : Later(state, "failed")
        /\ "failed" \in DeliveryState
    BY DEF UnresolvedOf, Unresolved, Later, DeliveryState
  <2> QED
    BY <1>4, <1>7, <2>1 DEF AccountFailure
<1>8. CASE Reconcile
  <2>1. continuations'[p] = Moved(continuations[p], UnresolvedOf(p), "failed")
    BY <1>8 DEF Reconcile
  <2>2. \A j \in DOMAIN continuations[p] : j \in UnresolvedOf(p) =>
            Later(continuations[p][j].state, "failed")
    BY DEF UnresolvedOf, InState, Unresolved, Later
  <2> QED
    BY <1>1, <2>1, <2>2, MovedForward DEF DeliveryState
<1> QED
  BY <1>2, <1>3, <1>5, <1>6, <1>7, <1>8
  DEF Next, vars, Open, AcquireFence, Complete

\* An accepted continuation is never removed or altered, and its delivery state
\* never moves back.
THEOREM AcceptedIntentNeverChanges == Spec => AcceptedIntentIsPermanent
<1>1. IInv /\ [Next]_vars =>
         [\A p \in Phytomer : \A i \in DOMAIN continuations[p] :
             /\ i \in DOMAIN continuations'[p]
             /\ [continuations[p][i] EXCEPT !.state = "pending"] =
                [continuations'[p][i] EXCEPT !.state = "pending"]
             /\ Later(continuations[p][i].state,
                      continuations'[p][i].state)]_vars
  BY AcceptedStep DEF Successor
<1> QED
  BY <1>1, Invariance, PTL DEF Spec, AcceptedIntentIsPermanent

=============================================================================
