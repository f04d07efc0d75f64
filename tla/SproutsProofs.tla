---------------------------- MODULE SproutsProofs ----------------------------
(***************************************************************************)
(* What the growth of work promises, for every value of the constants of   *)
(* MCSprouts: that requests which race open one Seed (SeedOpening), that    *)
(* the turns of a mind are honest (SproutTurns), that an answer is whole    *)
(* (MindCall), that the constraints on a model yield in order               *)
(* (ModelChoice), that a silence is reported once (Dormancy) and that what  *)
(* a mind is told of the workspace is sound (TaskContext).                  *)
(***************************************************************************)
EXTENDS MCSprouts, SequenceTheorems, FiniteSetTheorems, WellFoundedInduction, TLAPS

-----------------------------------------------------------------------------
(***************************************************************************)
(* Requests that race with one retry identity come to one opening and one  *)
(* growth (SeedOpening.OpenedOnce), for any processes, identities, faults. *)
(*                                                                         *)
(* The invariant says what a request may know at each step of its handler   *)
(* (Standing): that nobody else has the Phytomer in hand (Apart), that it   *)
(* was never launched, and that once the insert was tried a row with it can *)
(* only be the request's own.  The last is what makes the adoption of an    *)
(* ambiguous insert, and the discarding of a lost one, safe.                *)
(***************************************************************************)
\* The row of the request's identity is the one that it opened.
Owned(s) ==
    /\ Owns(request[s].id, request[s].phytomer)
    /\ rows[request[s].id].digest = request[s].digest

\* What a caller was or will be told is what the row says.
Truthful(a) ==
    LET row == rows[a.id] IN
    /\ a.told \in Phytomer =>
          row # Absent /\ row.phytomer = a.told /\ row.digest = a.digest
    /\ a.told = "conflict" => row # Absent /\ row.digest # a.digest

\* What the step of a request says of the rest.
Standing(s) ==
    LET r == request[s] IN
    request[s] # Absent =>
        /\ s \in up
        /\ r.at \in {"find", "prepare"} <=> r.phytomer = Absent
        /\ r.phytomer # Absent =>
              r.phytomer \in phytomers /\ launches[r.phytomer] = 0
        /\ r.at = "record" => ~Opened(r.phytomer)
        /\ r.at = "recover" => (Opened(r.phytomer) => Owned(s))
        /\ r.at = "launch" => Owned(s)
        /\ r.at = "discard" => ~Opened(r.phytomer) /\ Truthful(r)

\* No two requests have one Phytomer in hand.
Apart ==
    \A s, t \in Process :
        /\ s # t /\ request[s] # Absent /\ request[t] # Absent
        /\ request[s].phytomer = request[t].phytomer
        => request[s].phytomer = Absent

Requests == (\A s \in Process : Standing(s)) /\ Apart

Leftovers == IsFiniteSet(Leftover) /\ LeftoversAreFaults

IInv == /\ TypeOK
        /\ Requests
        /\ GrownAtMostOnce
        /\ AnswersAgree
        /\ DiscardSparesOpened
        /\ Leftovers

\* The step leaves what the rows say of openings alone.
OpeningsStay ==
    \A id \in Identity :
        rows[id] # Absent => /\ rows'[id] # Absent
                             /\ rows'[id].phytomer = rows[id].phytomer
                             /\ rows'[id].digest = rows[id].digest

\* The step opens nothing.
NothingOpens == \A id \in Identity : rows[id] = Absent => rows'[id] = Absent

\* The step is one of the request of s.
OnlyOf(s) == \A t \in Process \ {s} : request'[t] = request[t]

USE AbsentAssumption, ToldAssumption, MaxFaultsAssumption

-----------------------------------------------------------------------------
(* Initially, and types. *)

LEMMA InitHolds == Init => IInv
<1> SUFFICES ASSUME Init PROVE IInv
  OBVIOUS
<1>1. TypeOK
  BY DEF Init, TypeOK
<1>2. Requests
  BY DEF Init, Requests, Standing, Apart
<1>3. GrownAtMostOnce /\ AnswersAgree /\ DiscardSparesOpened
  BY DEF Init, GrownAtMostOnce, AnswersAgree, DiscardSparesOpened
<1>4. Leftover = {} /\ faults = 0
  BY DEF Init, Leftover
<1>5. Leftovers
  BY <1>4, FS_EmptySet DEF Leftovers, LeftoversAreFaults
<1> QED
  BY <1>1, <1>2, <1>3, <1>5 DEF IInv

\* The request of a process, and its parts.
LEMMA RequestType ==
    ASSUME TypeOK, NEW s \in Process, request[s] # Absent
    PROVE  /\ request[s] \in Request
           /\ request[s].at \in Step /\ request[s].id \in Identity
           /\ request[s].digest \in Digest /\ request[s].told \in Told
           /\ request[s].phytomer \in Phytomer \cup {Absent}
BY DEF TypeOK, Request

LEMMA RowType ==
    ASSUME TypeOK, NEW id \in Identity, rows[id] # Absent
    PROVE  /\ rows[id] \in Row
           /\ rows[id].phytomer \in Phytomer /\ rows[id].digest \in Digest
BY DEF TypeOK, Row

LEMMA SettledType ==
    ASSUME NEW row \in Row \cup {Absent}
    PROVE  /\ Settled(row) \in Row \cup {Absent}
           /\ Settled(row) = Absent <=> row = Absent
           /\ row # Absent => /\ Settled(row).phytomer = row.phytomer
                              /\ Settled(row).digest = row.digest
<1>1. CASE row = Absent
  BY <1>1 DEF Settled
<1>2. CASE row # Absent
  <2>1. row \in Row
    BY <1>2
  <2>2. Settled(row) = [row EXCEPT !.status = "settled"]
    BY <1>2 DEF Settled
  <2>3. Settled(row) \in Row /\ Settled(row).phytomer = row.phytomer
          /\ Settled(row).digest = row.digest
    BY <2>1, <2>2 DEF Row
  <2> QED
    BY <1>2, <2>3
<1> QED
  BY <1>1, <1>2

LEMMA ReplyType ==
    ASSUME TypeOK, NEW s \in Process, request[s] # Absent,
           NEW answer \in Told, Reply(s, answer)
    PROVE  /\ answers' \in SUBSET Answer
           /\ request' \in [Process -> Request \cup {Absent}]
           /\ request'[s] = Absent /\ OnlyOf(s)
BY RequestType DEF TypeOK, Reply, Answer, OnlyOf

LEMMA GoToType ==
    ASSUME TypeOK, NEW s \in Process, request[s] # Absent,
           NEW stage \in Step, GoTo(s, stage)
    PROVE  /\ request' \in [Process -> Request \cup {Absent}]
           /\ request'[s] = [request[s] EXCEPT !.at = stage] /\ OnlyOf(s)
           /\ request'[s] # Absent /\ request'[s].at = stage
           /\ request'[s].id = request[s].id
           /\ request'[s].digest = request[s].digest
           /\ request'[s].phytomer = request[s].phytomer
           /\ request'[s].told = request[s].told
<1>1. request'[s] = [request[s] EXCEPT !.at = stage] /\ OnlyOf(s)
  BY DEF TypeOK, GoTo, OnlyOf
<1>2. [request[s] EXCEPT !.at = stage] \in Request
  BY RequestType DEF Request
<1>3. request' \in [Process -> Request \cup {Absent}]
  BY <1>2 DEF TypeOK, GoTo
<1> QED
  BY <1>1, <1>2, <1>3, RequestType DEF Request

LEMMA FaultType == ASSUME TypeOK, Fault
                   PROVE  faults' \in 0 .. MaxFaults /\ faults' = faults + 1
BY DEF TypeOK, Fault

LEMMA ReplayType ==
    ASSUME TypeOK, NEW s \in Process, request[s] # Absent,
           NEW row, row = rows[request[s].id], row # Absent
    PROVE  Replay(s, row) \in Told
BY RequestType, RowType DEF Replay, Told

-----------------------------------------------------------------------------
(* What the actions keep of the types, and of the rows. *)

\* All that the insert of Record can do.
Inserted(s) ==
    /\ rows[request[s].id] = Absent
    /\ rows' = [rows EXCEPT ![request[s].id] =
                   [phytomer |-> request[s].phytomer, digest |-> request[s].digest,
                    status |-> "running"]]

LEMMA RecordForm ==
    ASSUME TypeOK, Requests, NEW s \in Process, Record(s)
    PROVE  /\ request[s] # Absent /\ request[s].at = "record"
           /\ request[s].phytomer \in Phytomer
           /\ \/ Inserted(s) /\ (GoTo(s, "launch") \/ GoTo(s, "recover"))
              \/ UNCHANGED rows /\ GoTo(s, "recover")
           /\ faults' = faults \/ Fault
           /\ UNCHANGED <<phytomers, up, growing, launches, answers, stranded>>
<1>1. request[s] # Absent /\ request[s].at = "record"
  BY DEF Record, At
<1>2. request[s].phytomer \in Phytomer
  BY <1>1, RequestType DEF Requests, Standing
<1> QED
  BY <1>1, <1>2 DEF Record, Inserted

LEMMA InsertedType ==
    ASSUME TypeOK, NEW s \in Process, request[s] # Absent,
           request[s].phytomer \in Phytomer, Inserted(s)
    PROVE  /\ rows' \in [Identity -> Row \cup {Absent}]
           /\ rows'[request[s].id] # Absent
           /\ rows'[request[s].id].phytomer = request[s].phytomer
           /\ rows'[request[s].id].digest = request[s].digest
           /\ \A id \in Identity \ {request[s].id} : rows'[id] = rows[id]
           /\ OpeningsStay
<1> DEFINE new == [phytomer |-> request[s].phytomer, digest |-> request[s].digest,
                   status |-> "running"]
<1>1. new \in Row /\ request[s].id \in Identity
  BY RequestType DEF Row
<1>2. rows' = [rows EXCEPT ![request[s].id] = new]
  BY DEF Inserted
<1>3. new # Absent
  BY <1>1
<1> HIDE DEF new
<1>4. /\ rows' \in [Identity -> Row \cup {Absent}]
      /\ rows'[request[s].id] = new
      /\ \A id \in Identity \ {request[s].id} : rows'[id] = rows[id]
  BY <1>1, <1>2 DEF TypeOK
<1>5. OpeningsStay
  BY <1>4 DEF OpeningsStay, Inserted
<1> QED
  BY <1>3, <1>4, <1>5 DEF new

\* Whatever settles rows leaves their openings alone.
LEMMA SettlingKeeps ==
    ASSUME TypeOK,
           \A id \in Identity : rows'[id] \in {rows[id], Settled(rows[id])}
    PROVE  OpeningsStay /\ NothingOpens
BY SettledType DEF TypeOK, OpeningsStay, NothingOpens

LEMMA TypesStep == ASSUME TypeOK, Requests, [Next]_vars PROVE TypeOK'
<1>1. ASSUME UNCHANGED vars PROVE TypeOK'
  BY <1>1 DEF vars, TypeOK
<1>2. ASSUME NEW s \in Process, NEW id \in Identity, NEW digest \in Digest,
             Arrive(s, id, digest)
      PROVE  TypeOK'
  <2>1. [at |-> "find", id |-> id, digest |-> digest, phytomer |-> Absent,
         told |-> "error"] \in Request
    BY DEF Request, Step, Told
  <2> QED
    BY <1>2, <2>1 DEF Arrive, TypeOK
<1>3. ASSUME NEW s \in Process, Find(s) PROVE TypeOK'
  <2>1. request[s] # Absent
    BY <1>3 DEF Find, At
  <2>2. request' \in [Process -> Request \cup {Absent}] /\ answers' \in SUBSET Answer
    BY <1>3, <2>1, ReplyType, GoToType, ReplayType DEF Find, Step, Told, TypeOK
  <2>3. faults' \in 0 .. MaxFaults
    BY <1>3, FaultType DEF Find, TypeOK
  <2> QED
    BY <1>3, <2>2, <2>3 DEF Find, TypeOK
<1>4. ASSUME NEW s \in Process, Prepare(s) PROVE TypeOK'
  <2>1. request[s] # Absent
    BY <1>4 DEF Prepare, At
  <2>2. PICK p \in Unminted :
          \/ /\ phytomers' = phytomers \cup {p}
             /\ request' = [request EXCEPT ![s].at = "record",
                                           ![s].phytomer = p]
             /\ UNCHANGED <<answers, faults>>
          \/ /\ Fault
             /\ phytomers' \in {phytomers, phytomers \cup {p}}
             /\ Reply(s, "error")
    BY <1>4 DEF Prepare
  <2>3. p \in Phytomer
    BY DEF Unminted
  <2>4. request' \in [Process -> Request \cup {Absent}] /\ answers' \in SUBSET Answer
    <3>1. [request[s] EXCEPT !.at = "record", !.phytomer = p] \in Request
      BY <2>1, <2>3, RequestType DEF Request, Step
    <3>2. CASE Reply(s, "error")
      BY <2>1, <3>2, ReplyType DEF Told
    <3>3. CASE /\ request' = [request EXCEPT ![s].at = "record", ![s].phytomer = p]
               /\ UNCHANGED answers
      BY <3>1, <3>3 DEF TypeOK
    <3> QED
      BY <2>2, <3>2, <3>3
  <2>5. faults' \in 0 .. MaxFaults
    BY <2>2, FaultType DEF TypeOK
  <2> QED
    BY <1>4, <2>2, <2>3, <2>4, <2>5 DEF Prepare, TypeOK
<1>5. ASSUME NEW s \in Process, Record(s) PROVE TypeOK'
  <2>1. request' \in [Process -> Request \cup {Absent}]
    BY <1>5, RecordForm, GoToType DEF Step
  <2>2. rows' \in [Identity -> Row \cup {Absent}]
    BY <1>5, RecordForm, InsertedType DEF TypeOK
  <2>3. faults' \in 0 .. MaxFaults
    BY <1>5, RecordForm, FaultType DEF TypeOK
  <2> QED
    BY <1>5, RecordForm, <2>1, <2>2, <2>3 DEF TypeOK
<1>6. ASSUME NEW s \in Process, Recover(s) PROVE TypeOK'
  <2> DEFINE r == request[s]
             row == rows[r.id]
             answer == IF row = Absent THEN "error" ELSE Replay(s, row)
  <2>1. r # Absent
    BY <1>6 DEF Recover, At
  <2>2. answer \in Told
    BY <2>1, ReplayType DEF Told
  <2>3. [r EXCEPT !.at = "discard", !.told = answer] \in Request
    <3> HIDE DEF answer
    <3> QED
      BY <2>1, <2>2, RequestType DEF Request, Step
  <2>4. request' \in [Process -> Request \cup {Absent}] /\ answers' \in SUBSET Answer
    <3>1. CASE GoTo(s, "launch") /\ UNCHANGED answers
      BY <2>1, <3>1, GoToType DEF Step, TypeOK
    <3>2. CASE request' = [request EXCEPT ![s].at = "discard", ![s].told = answer]
               /\ UNCHANGED answers
      BY <2>3, <3>2 DEF TypeOK
    <3>3. CASE Reply(s, "error")
      BY <2>1, <3>3, ReplyType DEF Told
    <3> QED
      BY <1>6, <3>1, <3>2, <3>3 DEF Recover
  <2>5. faults' \in 0 .. MaxFaults /\ stranded' \in SUBSET Identity
    BY <1>6, <2>1, RequestType, FaultType DEF Recover, TypeOK
  <2> QED
    BY <1>6, <2>4, <2>5 DEF Recover, TypeOK
<1>7. ASSUME NEW s \in Process, Discard(s) PROVE TypeOK'
  <2>1. request[s] # Absent
    BY <1>7 DEF Discard, At
  <2>2. request' \in [Process -> Request \cup {Absent}] /\ answers' \in SUBSET Answer
    BY <1>7, <2>1, ReplyType, RequestType DEF Discard
  <2>3. faults' \in 0 .. MaxFaults
    BY <1>7, FaultType DEF Discard, TypeOK
  <2> QED
    BY <1>7, <2>2, <2>3 DEF Discard, TypeOK
<1>8. ASSUME NEW s \in Process, Launch(s) PROVE TypeOK'
  <2>1. request[s] # Absent /\ request[s].at = "launch"
    BY <1>8 DEF Launch, At
  <2>2. request[s].phytomer \in Phytomer
    BY <2>1, RequestType DEF Requests, Standing
  <2>3. request' \in [Process -> Request \cup {Absent}] /\ answers' \in SUBSET Answer
    BY <1>8, <2>1, <2>2, ReplyType DEF Launch, Told
  <2>4. growing' \in [Process -> SUBSET Phytomer] /\ launches' \in [Phytomer -> Nat]
    BY <1>8, <2>2 DEF Launch, TypeOK
  <2> QED
    BY <1>8, <2>3, <2>4 DEF Launch, TypeOK
<1>9. ASSUME NEW s \in Process, NEW p \in Phytomer, EndGrowth(s, p) PROVE TypeOK'
  <2>1. rows' \in [Identity -> Row \cup {Absent}]
    BY <1>9, SettledType DEF EndGrowth, TypeOK
  <2>2. faults' \in 0 .. MaxFaults /\ stranded' \in SUBSET Identity
    BY <1>9, FaultType DEF EndGrowth, TypeOK
  <2>3. growing' \in [Process -> SUBSET Phytomer]
    BY <1>9 DEF EndGrowth, TypeOK
  <2> QED
    BY <1>9, <2>1, <2>2, <2>3 DEF EndGrowth, TypeOK
<1>10. ASSUME NEW s \in Process, Boot(s) PROVE TypeOK'
  <2>1. rows' \in [Identity -> Row \cup {Absent}]
    BY <1>10, SettledType DEF Boot, TypeOK
  <2> QED
    BY <1>10, <2>1 DEF Boot, TypeOK
<1>11. ASSUME NEW s \in Process, Crash(s) PROVE TypeOK'
  BY <1>11, FaultType DEF Crash, TypeOK
<1> QED
  BY <1>1, <1>2, <1>3, <1>4, <1>5, <1>6, <1>7, <1>8, <1>9, <1>10, <1>11
  DEF Next, Serve

-----------------------------------------------------------------------------
(* What rows say of openings is permanent; only a record opens. *)

\* The steps that leave the openings alone, all but a record.
LEMMA OpeningsStep ==
    ASSUME TypeOK, Requests, [Next]_vars
    PROVE  /\ OpeningsStay
           /\ NothingOpens \/ \E s \in Process : Record(s) /\ Inserted(s)
<1>1. CASE UNCHANGED rows
  BY <1>1 DEF OpeningsStay, NothingOpens
<1>2. ASSUME NEW s \in Process, Record(s)
      PROVE  /\ OpeningsStay
             /\ NothingOpens \/ \E t \in Process : Record(t) /\ Inserted(t)
  BY <1>1, <1>2, RecordForm, InsertedType
<1>3. ASSUME NEW s \in Process, NEW p \in Phytomer, EndGrowth(s, p)
      PROVE  OpeningsStay /\ NothingOpens
  <2>1. \A id \in Identity : rows'[id] \in {rows[id], Settled(rows[id])}
    BY <1>3 DEF EndGrowth, TypeOK
  <2> QED
    BY <2>1, SettlingKeeps
<1>4. ASSUME NEW s \in Process, Boot(s) PROVE OpeningsStay /\ NothingOpens
  <2>1. \A id \in Identity : rows'[id] \in {rows[id], Settled(rows[id])}
    BY <1>4 DEF Boot, TypeOK
  <2> QED
    BY <2>1, SettlingKeeps
<1> QED
  BY <1>1, <1>2, <1>3, <1>4
  DEF Next, Serve, vars, Arrive, Find, Prepare, Recover, Discard, Launch, Crash

\* A true answer stays true.
LEMMA TruthStays ==
    ASSUME OpeningsStay, NEW a, a.id \in Identity, Truthful(a)
    PROVE  Truthful(a)'
BY DEF OpeningsStay, Truthful

\* What is opened stays so.
LEMMA OpenedStays ==
    ASSUME OpeningsStay, NEW p, Opened(p)
    PROVE  Opened(p)'
BY DEF OpeningsStay, Opened, Owns

LEMMA OpenedBefore ==
    ASSUME OpeningsStay, NothingOpens, NEW p, Opened(p)'
    PROVE  Opened(p)
BY DEF OpeningsStay, NothingOpens, Opened, Owns

LEMMA OpenedByInsert ==
    ASSUME TypeOK, NEW s \in Process, request[s] # Absent,
           request[s].phytomer \in Phytomer, Inserted(s),
           NEW p, Opened(p)'
    PROVE  Opened(p) \/ p = request[s].phytomer
BY InsertedType DEF Opened, Owns

\* A request at rest keeps its standing, unless the step opens or removes or
\* launches the Phytomer that it has in hand.
LEMMA Bystander ==
    ASSUME TypeOK, OpeningsStay, NEW t \in Process, Standing(t),
           request'[t] = request[t],
           request[t] # Absent =>
              /\ t \in up'
              /\ request[t].phytomer # Absent =>
                    /\ request[t].phytomer \in phytomers'
                    /\ launches'[request[t].phytomer] = launches[request[t].phytomer]
                    /\ Opened(request[t].phytomer)' => Opened(request[t].phytomer)
    PROVE  Standing(t)'
<1> SUFFICES ASSUME request[t] # Absent PROVE Standing(t)'
  BY DEF Standing
<1>1. request[t].id \in Identity /\ request[t].at \in Step
  BY RequestType
<1>2. Owned(t) => Owned(t)'
  BY <1>1 DEF Owned, Owns, OpeningsStay
<1>3. Truthful(request[t]) => Truthful(request[t])'
  BY <1>1 DEF Truthful, OpeningsStay
<1>4. request[t].at \notin {"find", "prepare"} => request[t].phytomer # Absent
  BY DEF Standing
<1> QED
  BY <1>1, <1>2, <1>3, <1>4 DEF Standing

-----------------------------------------------------------------------------
(* Requests keep their standing, and apart. *)

LEMMA ApartStays ==
    ASSUME Apart, NEW s \in Process, OnlyOf(s),
           \A t \in Process \ {s} :
              /\ request'[s] # Absent /\ request[t] # Absent
              /\ request'[s].phytomer = request[t].phytomer
              => request'[s].phytomer = Absent
    PROVE  Apart'
BY DEF Apart, OnlyOf

\* A request that leaves, or goes on with what it has in hand.
LEMMA ApartOnward ==
    ASSUME Apart, NEW s \in Process, OnlyOf(s),
           \/ request'[s] = Absent
           \/ request[s] # Absent /\ request'[s].phytomer = request[s].phytomer
    PROVE  Apart'
<1>1. ASSUME NEW t \in Process \ {s}, request'[s] # Absent, request[t] # Absent,
             request'[s].phytomer = request[t].phytomer
      PROVE  request'[s].phytomer = Absent
  BY <1>1 DEF Apart
<1> QED
  BY <1>1, ApartStays

\* The others, when a step of s opens nothing, removes and launches at most
\* what s has in hand.
LEMMA OthersStand ==
    ASSUME TypeOK, Requests, OpeningsStay, NothingOpens, NEW s \in Process, OnlyOf(s),
           up \ {s} \subseteq up',
           \A p \in phytomers :
              p \in phytomers' \/ (request[s] # Absent /\ p = request[s].phytomer),
           \A p \in Phytomer :
              launches'[p] = launches[p] \/ (request[s] # Absent /\ p = request[s].phytomer)
    PROVE  \A t \in Process \ {s} : Standing(t)'
<1> SUFFICES ASSUME NEW t \in Process \ {s} PROVE Standing(t)'
  OBVIOUS
<1>1. Standing(t) /\ request'[t] = request[t]
  BY DEF Requests, OnlyOf
<1>2. ASSUME request[t] # Absent PROVE t \in up'
  BY <1>1, <1>2 DEF Standing
<1>3. ASSUME request[t] # Absent, request[t].phytomer # Absent
      PROVE  /\ request[t].phytomer \in phytomers'
             /\ launches'[request[t].phytomer] = launches[request[t].phytomer]
             /\ Opened(request[t].phytomer)' => Opened(request[t].phytomer)
  <2>1. request[s] # Absent => request[t].phytomer # request[s].phytomer
    BY <1>3 DEF Requests, Apart
  <2>2. request[t].phytomer \in phytomers /\ request[t].phytomer \in Phytomer
    BY <1>1, <1>3, RequestType DEF Standing
  <2>3. Opened(request[t].phytomer)' => Opened(request[t].phytomer)
    <3> DEFINE p == request[t].phytomer
    <3>1. p = request'[t].phytomer
      BY <1>1
    <3> QED
      BY <1>1 DEF OpeningsStay, NothingOpens, Opened, Owns
  <2> QED
    BY <2>1, <2>2, <2>3
<1> QED
  BY <1>1, <1>2, <1>3, Bystander

\* When rows are untouched.
LEMMA RowsUntouched == ASSUME UNCHANGED rows PROVE OpeningsStay /\ NothingOpens
BY DEF OpeningsStay, NothingOpens

LEMMA ArriveRequests ==
    ASSUME TypeOK, Requests, NEW s \in Process, NEW id \in Identity,
           NEW digest \in Digest, Arrive(s, id, digest)
    PROVE  Requests'
<1>1. OnlyOf(s) /\ request'[s] = [at |-> "find", id |-> id, digest |-> digest,
                                 phytomer |-> Absent, told |-> "error"]
  BY DEF Arrive, OnlyOf, TypeOK
<1>2. \A t \in Process \ {s} : Standing(t)'
  BY <1>1, RowsUntouched, OthersStand DEF Arrive
<1>3. Standing(s)'
  BY <1>1 DEF Standing, Arrive
<1>4. Apart'
  BY <1>1, ApartStays DEF Requests
<1> QED
  BY <1>2, <1>3, <1>4 DEF Requests

LEMMA FindRequests ==
    ASSUME TypeOK, Requests, NEW s \in Process, Find(s)
    PROVE  Requests'
<1>1. request[s] # Absent /\ request[s].at = "find" /\ Standing(s)
  BY DEF Find, At, Requests
<1>2. /\ OnlyOf(s)
      /\ \/ request'[s] = Absent
         \/ /\ request'[s] # Absent /\ request'[s].at = "prepare"
            /\ request'[s].phytomer = request[s].phytomer
  BY <1>1, ReplyType, GoToType, ReplayType DEF Find, Step, Told
<1>3. \A t \in Process \ {s} : Standing(t)'
  BY <1>2, RowsUntouched, OthersStand DEF Find
<1>4. Standing(s)'
  BY <1>1, <1>2 DEF Standing, Find
<1>5. Apart'
  BY <1>1, <1>2, ApartOnward DEF Requests
<1> QED
  BY <1>3, <1>4, <1>5 DEF Requests

\* What a Prepare comes to: a Phytomer that nobody has, or nothing in hand.
LEMMA PrepareForm ==
    ASSUME TypeOK, Requests, DiscardSparesOpened, NEW s \in Process, Prepare(s)
    PROVE  /\ request[s] # Absent /\ request[s].phytomer = Absent /\ s \in up
           /\ OnlyOf(s)
           /\ \E p \in Phytomer \ phytomers :
                 /\ launches[p] = 0 /\ ~Opened(p)
                 /\ \/ /\ phytomers' = phytomers \cup {p}
                       /\ request'[s] # Absent /\ request'[s].at = "record"
                       /\ request'[s].phytomer = p
                       /\ UNCHANGED <<answers, faults>>
                    \/ /\ Fault
                       /\ phytomers' \in {phytomers, phytomers \cup {p}}
                       /\ request'[s] = Absent /\ Reply(s, "error")
           /\ UNCHANGED <<rows, up, growing, launches, stranded>>
<1>1. request[s] # Absent /\ request[s].phytomer = Absent /\ s \in up
  BY DEF Prepare, At, Requests, Standing
<1>2. PICK p \in Unminted :
        \/ /\ phytomers' = phytomers \cup {p}
           /\ request' = [request EXCEPT ![s].at = "record", ![s].phytomer = p]
           /\ UNCHANGED <<answers, faults>>
        \/ /\ Fault
           /\ phytomers' \in {phytomers, phytomers \cup {p}}
           /\ Reply(s, "error")
  BY DEF Prepare
<1>3. p \in Phytomer \ phytomers /\ launches[p] = 0
  BY DEF Unminted, TypeOK
<1>4. ~Opened(p)
  BY <1>3 DEF DiscardSparesOpened, Opened, Owns
<1>5. CASE Fault /\ phytomers' \in {phytomers, phytomers \cup {p}} /\ Reply(s, "error")
  <2>1. request'[s] = Absent /\ OnlyOf(s)
    BY <1>1, <1>5, ReplyType DEF Told
  <2> QED
    BY <1>1, <1>3, <1>4, <1>5, <2>1 DEF Prepare
<1>6. CASE /\ phytomers' = phytomers \cup {p}
           /\ request' = [request EXCEPT ![s].at = "record", ![s].phytomer = p]
           /\ UNCHANGED <<answers, faults>>
  <2>1. /\ OnlyOf(s)
        /\ request'[s] = [request[s] EXCEPT !.at = "record", !.phytomer = p]
    BY <1>6 DEF TypeOK, OnlyOf
  <2>2. /\ request'[s] \in Request /\ request'[s].at = "record"
        /\ request'[s].phytomer = p
    BY <1>1, <1>3, <2>1, RequestType DEF Request, Step
  <2> QED
    BY <1>1, <1>3, <1>4, <1>6, <2>1, <2>2 DEF Prepare
<1> QED
  BY <1>2, <1>5, <1>6

LEMMA PrepareRequests ==
    ASSUME TypeOK, Requests, DiscardSparesOpened, NEW s \in Process, Prepare(s)
    PROVE  Requests'
<1>1. PICK p \in Phytomer \ phytomers :
        /\ launches[p] = 0 /\ ~Opened(p)
        /\ \/ /\ phytomers' = phytomers \cup {p}
              /\ request'[s] # Absent /\ request'[s].at = "record"
              /\ request'[s].phytomer = p
           \/ /\ phytomers' \in {phytomers, phytomers \cup {p}}
              /\ request'[s] = Absent
  BY PrepareForm
<1>2. OnlyOf(s) /\ UNCHANGED <<rows, up, growing, launches, stranded>>
  BY PrepareForm
<1>3. \A t \in Process \ {s} : Standing(t)'
  BY <1>1, <1>2, RowsUntouched, OthersStand
<1>4. Standing(s)'
  <2>1. ~Opened(p)'
    BY <1>1, <1>2 DEF Opened, Owns
  <2> QED
    BY <1>1, <1>2, <2>1, PrepareForm DEF Standing
<1>5. \A t \in Process \ {s} : request[t] # Absent => request[t].phytomer # p
  BY <1>1 DEF Requests, Standing
<1>6. Apart'
  BY <1>1, <1>2, <1>5, ApartStays DEF Requests
<1> QED
  BY <1>3, <1>4, <1>6 DEF Requests

\* What a Record comes to: the request goes on with what it has in hand.
LEMMA RecordGoesOn ==
    ASSUME TypeOK, Requests, NEW s \in Process, Record(s)
    PROVE  /\ request[s] # Absent /\ s \in up /\ OnlyOf(s)
           /\ request[s].phytomer \in Phytomer \cap phytomers
           /\ launches[request[s].phytomer] = 0 /\ ~Opened(request[s].phytomer)
           /\ request'[s] # Absent /\ request'[s].phytomer = request[s].phytomer
           /\ request'[s].id = request[s].id /\ request'[s].digest = request[s].digest
           /\ request[s].id \in Identity
           /\ \/ Inserted(s) /\ request'[s].at \in {"launch", "recover"}
              \/ UNCHANGED rows /\ request'[s].at = "recover"
           /\ OpeningsStay
<1>1. /\ request[s] # Absent /\ request[s].at = "record"
      /\ request[s].phytomer \in Phytomer
      /\ \/ Inserted(s) /\ (GoTo(s, "launch") \/ GoTo(s, "recover"))
         \/ UNCHANGED rows /\ GoTo(s, "recover")
  BY RecordForm
<1>2. /\ s \in up /\ request[s].phytomer \in phytomers
      /\ launches[request[s].phytomer] = 0 /\ ~Opened(request[s].phytomer)
  BY <1>1 DEF Requests, Standing
<1>3. OpeningsStay
  BY <1>1, InsertedType, RowsUntouched
<1> QED
  BY <1>1, <1>2, <1>3, GoToType, RequestType DEF Step

LEMMA RecordRequests ==
    ASSUME TypeOK, Requests, NEW s \in Process, Record(s)
    PROVE  Requests'
<1> DEFINE p == request[s].phytomer
<1>1. /\ request[s] # Absent /\ s \in up /\ OnlyOf(s)
      /\ p \in Phytomer \cap phytomers /\ launches[p] = 0 /\ ~Opened(p)
      /\ request'[s] # Absent /\ request'[s].phytomer = p
      /\ request'[s].id = request[s].id /\ request'[s].digest = request[s].digest
      /\ request[s].id \in Identity
      /\ \/ Inserted(s) /\ request'[s].at \in {"launch", "recover"}
         \/ UNCHANGED rows /\ request'[s].at = "recover"
      /\ OpeningsStay
  BY RecordGoesOn
<1>2. UNCHANGED <<phytomers, up, growing, launches, answers, stranded>>
  BY RecordForm
<1>3. ASSUME NEW t \in Process \ {s} PROVE Standing(t)'
  <2>1. Standing(t) /\ request'[t] = request[t]
    BY <1>1 DEF Requests, OnlyOf
  <2>2. ASSUME request[t] # Absent, request[t].phytomer # Absent,
               Opened(request[t].phytomer)'
        PROVE  Opened(request[t].phytomer)
    <3>1. request[t].phytomer # p
      BY <1>1, <2>2 DEF Requests, Apart
    <3>2. CASE Inserted(s)
      <4>1. \E id \in Identity : rows'[id] # Absent /\ rows'[id].phytomer = request[t].phytomer
        BY <2>1, <2>2 DEF Opened, Owns
      <4>2. PICK id \in Identity :
              rows'[id] # Absent /\ rows'[id].phytomer = request[t].phytomer
        BY <4>1
      <4>3. id # request[s].id
        BY <1>1, <3>1, <3>2, <4>2, InsertedType
      <4>4. rows'[id] = rows[id]
        BY <1>1, <3>2, <4>3, InsertedType
      <4> QED
        BY <4>2, <4>4 DEF Opened, Owns
    <3>3. CASE UNCHANGED rows
      BY <2>1, <2>2, <3>3 DEF Opened, Owns
    <3> QED
      BY <1>1, <3>2, <3>3
  <2>3. request[t] # Absent => t \in up'
    BY <1>2, <2>1 DEF Standing
  <2>4. request[t] # Absent /\ request[t].phytomer # Absent =>
          request[t].phytomer \in phytomers'
    BY <1>2, <2>1 DEF Standing
  <2> QED
    BY <1>1, <1>2, <2>1, <2>2, <2>3, <2>4, Bystander
<1>4. Standing(s)'
  <2>1. CASE Inserted(s)
    <3>1. Owned(s)'
      BY <1>1, <2>1, InsertedType DEF Owned, Owns
    <3> QED
      BY <1>1, <1>2, <2>1, <3>1 DEF Standing
  <2>2. CASE UNCHANGED rows /\ request'[s].at = "recover"
    <3>1. ~Opened(p)'
      BY <1>1, <2>2 DEF Opened, Owns
    <3> QED
      BY <1>1, <1>2, <2>2, <3>1 DEF Standing
  <2> QED
    BY <1>1, <2>1, <2>2
<1>5. Apart'
  BY <1>1, ApartOnward DEF Requests
<1> QED
  BY <1>3, <1>4, <1>5 DEF Requests

\* What a Recover comes to: its own opening is adopted, or there is none and
\* the answer is the row's, or the request fails.
LEMMA RecoverForm ==
    ASSUME TypeOK, Requests, NEW s \in Process, Recover(s)
    PROVE  /\ request[s] # Absent /\ s \in up /\ OnlyOf(s)
           /\ request[s].phytomer \in Phytomer \cap phytomers
           /\ launches[request[s].phytomer] = 0
           /\ \/ /\ request'[s] # Absent /\ request'[s].at = "launch"
                 /\ request'[s].phytomer = request[s].phytomer
                 /\ request'[s].id = request[s].id
                 /\ request'[s].digest = request[s].digest
                 /\ Owned(s) /\ UNCHANGED <<answers, faults>>
              \/ /\ request'[s] # Absent /\ request'[s].at = "discard"
                 /\ request'[s].phytomer = request[s].phytomer
                 /\ ~Opened(request[s].phytomer) /\ Truthful(request'[s])
                 /\ request'[s].id \in Identity
                 /\ UNCHANGED <<answers, faults>>
              \/ request'[s] = Absent /\ Fault /\ Reply(s, "error")
           /\ UNCHANGED <<rows, phytomers, up, growing, launches>>
<1> DEFINE r == request[s]
           row == rows[r.id]
           answer == IF row = Absent THEN "error" ELSE Replay(s, row)
           won == row # Absent /\ row.phytomer = r.phytomer
<1>1. r # Absent /\ r.at = "recover"
  BY DEF Recover, At
<1>2. /\ r.id \in Identity /\ r.digest \in Digest /\ s \in up
      /\ r.phytomer \in Phytomer \cap phytomers /\ launches[r.phytomer] = 0
      /\ Opened(r.phytomer) => Owned(s)
  BY <1>1, RequestType DEF Requests, Standing
<1>3. UNCHANGED <<rows, phytomers, up, growing, launches>>
  BY DEF Recover
<1>4. won <=> Opened(r.phytomer)
  BY <1>2 DEF Opened, Owns, Owned
<1>5. CASE won /\ GoTo(s, "launch") /\ UNCHANGED <<answers, faults>>
  <2>1. Owned(s)
    BY <1>2, <1>4, <1>5
  <2> QED
    BY <1>1, <1>2, <1>3, <1>5, <2>1, GoToType DEF Step
<1>6. CASE /\ ~won
           /\ request' = [request EXCEPT ![s].at = "discard", ![s].told = answer]
           /\ UNCHANGED <<answers, faults>>
  <2>1. answer \in Told
    BY <1>1, ReplayType DEF Told
  <2>2. /\ answer \in Phytomer =>
              row # Absent /\ row.phytomer = answer /\ row.digest = r.digest
        /\ answer = "conflict" => row # Absent /\ row.digest # r.digest
    BY <1>2, RowType DEF Replay
  <2> HIDE DEF answer
  <2>3. /\ request'[s] = [r EXCEPT !.at = "discard", !.told = answer]
        /\ OnlyOf(s)
    BY <1>6 DEF TypeOK, OnlyOf
  <2>4. /\ request'[s] \in Request /\ request'[s].at = "discard"
        /\ request'[s].phytomer = r.phytomer /\ request'[s].id = r.id
        /\ request'[s].digest = r.digest /\ request'[s].told = answer
    BY <1>1, <2>1, <2>3, RequestType DEF Request, Step
  <2>5. Truthful(request'[s])
    BY <2>2, <2>4 DEF Truthful
  <2> QED
    BY <1>1, <1>2, <1>3, <1>4, <1>6, <2>3, <2>4, <2>5
<1>7. CASE Fault /\ Reply(s, "error")
  BY <1>1, <1>2, <1>3, <1>7, ReplyType DEF Told
<1> QED
  BY <1>5, <1>6, <1>7 DEF Recover

LEMMA RecoverRequests ==
    ASSUME TypeOK, Requests, NEW s \in Process, Recover(s)
    PROVE  Requests'
<1> DEFINE p == request[s].phytomer
<1>1. /\ request[s] # Absent /\ s \in up /\ OnlyOf(s)
      /\ p \in Phytomer \cap phytomers /\ launches[p] = 0
      /\ \/ /\ request'[s] # Absent /\ request'[s].at = "launch"
            /\ request'[s].phytomer = p /\ request'[s].id = request[s].id
            /\ request'[s].digest = request[s].digest /\ Owned(s)
         \/ /\ request'[s] # Absent /\ request'[s].at = "discard"
            /\ request'[s].phytomer = p /\ ~Opened(p) /\ Truthful(request'[s])
            /\ request'[s].id \in Identity
         \/ request'[s] = Absent
      /\ UNCHANGED <<rows, phytomers, up, growing, launches>>
  BY RecoverForm
<1>2. \A t \in Process \ {s} : Standing(t)'
  BY <1>1, RowsUntouched, OthersStand
<1>3. Standing(s)'
  <2>1. CASE request'[s].at = "launch" /\ Owned(s) /\ request'[s].phytomer = p
             /\ request'[s].id = request[s].id
             /\ request'[s].digest = request[s].digest
    <3>1. Owned(s)'
      BY <1>1, <2>1 DEF Owned, Owns
    <3> QED
      BY <1>1, <2>1, <3>1 DEF Standing
  <2>2. CASE request'[s].at = "discard" /\ ~Opened(p) /\ Truthful(request'[s])
             /\ request'[s].phytomer = p
    <3>1. ~Opened(p)'
      BY <1>1, <2>2 DEF Opened, Owns
    <3>2. Truthful(request[s])'
      BY <1>1, <2>2 DEF Truthful
    <3> QED
      BY <1>1, <2>2, <3>1, <3>2 DEF Standing
  <2>3. CASE request'[s] = Absent
    BY <2>3 DEF Standing
  <2> QED
    BY <1>1, <2>1, <2>2, <2>3
<1>4. Apart'
  BY <1>1, ApartOnward DEF Requests
<1> QED
  BY <1>2, <1>3, <1>4 DEF Requests

\* What a Discard comes to: a Phytomer that nobody opened may go.
LEMMA DiscardForm ==
    ASSUME TypeOK, Requests, NEW s \in Process, Discard(s)
    PROVE  /\ request[s] # Absent /\ OnlyOf(s) /\ request'[s] = Absent
           /\ request[s].phytomer \in Phytomer /\ ~Opened(request[s].phytomer)
           /\ request[s].id \in Identity /\ Truthful(request[s])
           /\ \/ phytomers' = phytomers \ {request[s].phytomer} /\ UNCHANGED faults
              \/ Fault /\ UNCHANGED phytomers
           /\ Reply(s, request[s].told)
           /\ UNCHANGED <<rows, up, growing, launches, stranded>>
<1>1. request[s] # Absent /\ request[s].at = "discard"
  BY DEF Discard, At
<1>2. /\ request[s].phytomer \in Phytomer /\ request[s].told \in Told
      /\ request[s].id \in Identity
  BY <1>1, RequestType DEF Requests, Standing
<1>3. ~Opened(request[s].phytomer) /\ Truthful(request[s])
  BY <1>1 DEF Requests, Standing
<1> QED
  BY <1>1, <1>2, <1>3, ReplyType DEF Discard

LEMMA DiscardRequests ==
    ASSUME TypeOK, Requests, NEW s \in Process, Discard(s)
    PROVE  Requests'
<1>1. /\ request[s] # Absent /\ OnlyOf(s) /\ request'[s] = Absent
      /\ \/ phytomers' = phytomers \ {request[s].phytomer}
         \/ UNCHANGED phytomers
      /\ UNCHANGED <<rows, up, growing, launches, stranded>>
  BY DiscardForm
<1>2. \A t \in Process \ {s} : Standing(t)'
  BY <1>1, RowsUntouched, OthersStand
<1>3. Standing(s)'
  BY <1>1 DEF Standing
<1>4. Apart'
  BY <1>1, ApartOnward DEF Requests
<1> QED
  BY <1>2, <1>3, <1>4 DEF Requests

\* What a Launch comes to: the first growth of an opened Phytomer.
LEMMA LaunchForm ==
    ASSUME TypeOK, Requests, NEW s \in Process, Launch(s)
    PROVE  /\ request[s] # Absent /\ OnlyOf(s) /\ request'[s] = Absent
           /\ request[s].phytomer \in Phytomer /\ Owned(s)
           /\ request[s].id \in Identity
           /\ launches[request[s].phytomer] = 0
           /\ launches' = [launches EXCEPT ![request[s].phytomer] = 1]
           /\ Reply(s, request[s].phytomer)
           /\ UNCHANGED <<rows, phytomers, up, stranded, faults>>
<1>1. request[s] # Absent /\ request[s].at = "launch"
  BY DEF Launch, At
<1>2. /\ request[s].phytomer \in Phytomer /\ request[s].id \in Identity
      /\ launches[request[s].phytomer] = 0 /\ Owned(s)
  BY <1>1, RequestType DEF Requests, Standing
<1>3. request'[s] = Absent /\ OnlyOf(s)
  BY <1>1, <1>2, ReplyType DEF Launch, Told
<1> QED
  BY <1>1, <1>2, <1>3 DEF Launch

LEMMA LaunchRequests ==
    ASSUME TypeOK, Requests, NEW s \in Process, Launch(s)
    PROVE  Requests'
<1>1. /\ request[s] # Absent /\ OnlyOf(s) /\ request'[s] = Absent
      /\ launches' = [launches EXCEPT ![request[s].phytomer] = 1]
      /\ UNCHANGED <<rows, phytomers, up, stranded, faults>>
  BY LaunchForm
<1>2. \A p \in Phytomer : launches'[p] = launches[p] \/ p = request[s].phytomer
  BY <1>1 DEF TypeOK
<1>3. \A t \in Process \ {s} : Standing(t)'
  BY <1>1, <1>2, RowsUntouched, OthersStand
<1>4. Standing(s)'
  BY <1>1 DEF Standing
<1>5. Apart'
  BY <1>1, ApartOnward DEF Requests
<1> QED
  BY <1>3, <1>4, <1>5 DEF Requests

\* The steps that are of no request: the requests are as they were.
LEMMA NoRequests ==
    ASSUME TypeOK, Requests, OpeningsStay, NothingOpens,
           up \subseteq up', UNCHANGED <<phytomers, request, launches>>
    PROVE  Requests'
<1>1. ASSUME NEW t \in Process PROVE Standing(t)'
  <2>1. Standing(t) /\ request'[t] = request[t]
    BY DEF Requests
  <2>2. ASSUME Opened(request[t].phytomer)' PROVE Opened(request[t].phytomer)
    BY <2>1, <2>2 DEF OpeningsStay, NothingOpens, Opened, Owns
  <2>3. request[t] # Absent =>
          /\ t \in up'
          /\ request[t].phytomer # Absent => request[t].phytomer \in phytomers'
    BY <2>1 DEF Standing
  <2> QED
    BY <2>1, <2>2, <2>3, Bystander
<1>2. Apart'
  BY DEF Requests, Apart
<1> QED
  BY <1>1, <1>2 DEF Requests

LEMMA CrashRequests ==
    ASSUME TypeOK, Requests, NEW s \in Process, Crash(s)
    PROVE  Requests'
<1>1. OnlyOf(s) /\ request'[s] = Absent
  BY DEF Crash, OnlyOf, TypeOK
<1>2. \A t \in Process \ {s} : Standing(t)'
  BY <1>1, RowsUntouched, OthersStand DEF Crash
<1>3. Standing(s)'
  BY <1>1 DEF Standing
<1>4. Apart'
  BY <1>1, ApartOnward DEF Requests
<1> QED
  BY <1>2, <1>3, <1>4 DEF Requests

LEMMA RequestsStep ==
    ASSUME TypeOK, Requests, DiscardSparesOpened, [Next]_vars
    PROVE  Requests'
<1>1. CASE UNCHANGED vars
  BY <1>1, RowsUntouched, NoRequests DEF vars
<1>2. ASSUME NEW s \in Process, NEW p \in Phytomer, EndGrowth(s, p)
      PROVE  Requests'
  <2>1. \A id \in Identity : rows'[id] \in {rows[id], Settled(rows[id])}
    BY <1>2 DEF EndGrowth, TypeOK
  <2> QED
    BY <1>2, <2>1, SettlingKeeps, NoRequests DEF EndGrowth
<1>3. ASSUME NEW s \in Process, Boot(s) PROVE Requests'
  <2>1. \A id \in Identity : rows'[id] \in {rows[id], Settled(rows[id])}
    BY <1>3 DEF Boot, TypeOK
  <2> QED
    BY <1>3, <2>1, SettlingKeeps, NoRequests DEF Boot
<1> QED
  BY <1>1, <1>2, <1>3, ArriveRequests, FindRequests, PrepareRequests, RecordRequests,
     RecoverRequests, DiscardRequests, LaunchRequests, CrashRequests
  DEF Next, Serve

-----------------------------------------------------------------------------
(* The parts of the property. *)

LEMMA GrownStep ==
    ASSUME TypeOK, Requests, GrownAtMostOnce, [Next]_vars
    PROVE  GrownAtMostOnce'
<1>1. OpeningsStay
  BY OpeningsStep
<1>2. ASSUME UNCHANGED launches PROVE GrownAtMostOnce'
  BY <1>1, <1>2, OpenedStays DEF GrownAtMostOnce
<1>3. ASSUME NEW s \in Process, Launch(s) PROVE GrownAtMostOnce'
  <2>1. PICK p \in Phytomer :
          Opened(p) /\ launches' = [launches EXCEPT ![p] = 1]
    BY <1>3, LaunchForm DEF Owned, Opened
  <2>2. Opened(p)'
    BY <1>1, <2>1, OpenedStays
  <2>3. ASSUME NEW q \in Phytomer, launches'[q] > 0
        PROVE  launches'[q] = 1 /\ Opened(q)'
    <3>1. CASE q = p
      BY <2>1, <2>2, <3>1 DEF TypeOK
    <3>2. CASE q # p
      <4>1. launches'[q] = launches[q]
        BY <2>1, <3>2 DEF TypeOK
      <4> QED
        BY <1>1, <2>3, <4>1, OpenedStays DEF GrownAtMostOnce
    <3> QED
      BY <3>1, <3>2
  <2> QED
    BY <2>3 DEF GrownAtMostOnce
<1> QED
  BY <1>2, <1>3
  DEF Next, Serve, vars, Arrive, Find, Prepare, Record, Recover, Discard, EndGrowth,
      Boot, Crash

\* A reply that is true keeps the answers true.
LEMMA TrueReply ==
    ASSUME TypeOK, AnswersAgree, OpeningsStay, NEW s \in Process, request[s] # Absent,
           NEW answer, Reply(s, answer),
           Truthful([id |-> request[s].id, digest |-> request[s].digest, told |-> answer])
    PROVE  AnswersAgree'
<1> DEFINE new == [id |-> request[s].id, digest |-> request[s].digest, told |-> answer]
<1>1. answers' = answers \cup {new}
  BY DEF Reply
<1>2. request[s].id \in Identity
  BY RequestType
<1>3. Truthful(new) /\ new.id \in Identity
  BY <1>2
<1> HIDE DEF new
<1>4. ASSUME NEW a \in answers' PROVE Truthful(a)'
  <2>1. Truthful(a) /\ a.id \in Identity
    BY <1>1, <1>3, <1>4 DEF AnswersAgree, Truthful, TypeOK, Answer
  <2> QED
    BY <2>1 DEF Truthful, OpeningsStay
<1> QED
  BY <1>4 DEF AnswersAgree, Truthful

LEMMA AnswersStep ==
    ASSUME TypeOK, Requests, AnswersAgree, DiscardSparesOpened, [Next]_vars
    PROVE  AnswersAgree'
<1>1. OpeningsStay
  BY OpeningsStep
<1>2. ASSUME UNCHANGED answers PROVE AnswersAgree'
  BY <1>1, <1>2 DEF AnswersAgree, OpeningsStay, TypeOK, Answer
<1>3. ASSUME NEW s \in Process, request[s] # Absent, Reply(s, "error")
      PROVE  AnswersAgree'
  <2>1. Truthful([id |-> request[s].id, digest |-> request[s].digest,
                  told |-> "error"])
    BY DEF Truthful
  <2> QED
    BY <1>1, <1>3, <2>1, TrueReply
<1>4. ASSUME NEW s \in Process, Find(s) PROVE AnswersAgree'
  <2> DEFINE row == rows[request[s].id]
  <2>1. request[s] # Absent
    BY <1>4 DEF Find, At
  <2>2. CASE row # Absent /\ Reply(s, Replay(s, row))
    <3>1. Truthful([id |-> request[s].id, digest |-> request[s].digest,
                    told |-> Replay(s, row)])
      BY <2>1, <2>2, RequestType, RowType DEF Truthful, Replay
    <3> QED
      BY <1>1, <2>1, <2>2, <3>1, TrueReply
  <2> QED
    BY <1>2, <1>3, <1>4, <2>1, <2>2 DEF Find
<1>5. ASSUME NEW s \in Process, Prepare(s) PROVE AnswersAgree'
  BY <1>2, <1>3, <1>5, PrepareForm
<1>6. ASSUME NEW s \in Process, Recover(s) PROVE AnswersAgree'
  BY <1>2, <1>3, <1>6, RecoverForm
<1>7. ASSUME NEW s \in Process, Discard(s) PROVE AnswersAgree'
  <2>1. request[s] # Absent /\ Truthful(request[s]) /\ Reply(s, request[s].told)
    BY <1>7, DiscardForm
  <2>2. Truthful([id |-> request[s].id, digest |-> request[s].digest,
                  told |-> request[s].told])
    BY <2>1 DEF Truthful
  <2> QED
    BY <1>1, <2>1, <2>2, TrueReply
<1>8. ASSUME NEW s \in Process, Launch(s) PROVE AnswersAgree'
  <2>1. /\ request[s] # Absent /\ Owned(s) /\ Reply(s, request[s].phytomer)
        /\ request[s].phytomer \in Phytomer
    BY <1>8, LaunchForm
  <2>2. Truthful([id |-> request[s].id, digest |-> request[s].digest,
                  told |-> request[s].phytomer])
    BY <2>1 DEF Truthful, Owned, Owns
  <2> QED
    BY <1>1, <2>1, <2>2, TrueReply
<1> QED
  BY <1>2, <1>4, <1>5, <1>6, <1>7, <1>8
  DEF Next, Serve, vars, Arrive, Record, EndGrowth, Boot, Crash

\* The Phytomers of openings stay in the store, and a new opening's is there.
LEMMA SparedStep ==
    ASSUME TypeOK, Requests, DiscardSparesOpened, [Next]_vars
    PROVE  DiscardSparesOpened'
<1>1. ASSUME OpeningsStay, NothingOpens,
             \A p \in phytomers : Opened(p) => p \in phytomers'
      PROVE  DiscardSparesOpened'
  <2>1. ASSUME NEW id \in Identity, rows'[id] # Absent
        PROVE  rows'[id].phytomer \in phytomers'
    <3>1. rows[id] # Absent /\ rows'[id].phytomer = rows[id].phytomer
      BY <1>1, <2>1 DEF OpeningsStay, NothingOpens
    <3>2. rows[id].phytomer \in phytomers /\ Opened(rows[id].phytomer)
      BY <3>1 DEF DiscardSparesOpened, Opened, Owns
    <3> QED
      BY <1>1, <3>1, <3>2
  <2> QED
    BY <2>1 DEF DiscardSparesOpened
<1>2. ASSUME NEW s \in Process, Record(s) PROVE DiscardSparesOpened'
  <2>1. /\ request[s] # Absent /\ request[s].phytomer \in Phytomer \cap phytomers
        /\ Inserted(s) \/ UNCHANGED rows
        /\ UNCHANGED phytomers
    BY <1>2, RecordGoesOn, RecordForm
  <2>2. CASE Inserted(s)
    BY <2>1, <2>2, InsertedType DEF DiscardSparesOpened
  <2>3. CASE UNCHANGED rows
    BY <2>1, <2>3 DEF DiscardSparesOpened
  <2> QED
    BY <2>1, <2>2, <2>3
<1>3. ASSUME ~ \E s \in Process : Record(s) PROVE DiscardSparesOpened'
  <2>1. OpeningsStay /\ NothingOpens
    BY <1>3, OpeningsStep
  <2>2. CASE UNCHANGED phytomers
    BY <1>1, <2>1, <2>2
  <2>3. ASSUME NEW s \in Process, Prepare(s) PROVE DiscardSparesOpened'
    BY <1>1, <2>1, <2>3, PrepareForm
  <2>4. ASSUME NEW s \in Process, Discard(s) PROVE DiscardSparesOpened'
    BY <1>1, <2>1, <2>4, DiscardForm
  <2> QED
    BY <1>3, <2>2, <2>3, <2>4
    DEF Next, Serve, vars, Arrive, Find, Recover, Launch, EndGrowth, Boot, Crash
<1> QED
  BY <1>2, <1>3

-----------------------------------------------------------------------------
(* What is left behind. *)

\* A set that loses elements, or gains one at the price of one fault.
LEMMA OnePerFault ==
    ASSUME NEW S, NEW T, NEW m \in Nat, NEW n \in Nat,
           IsFiniteSet(S), Cardinality(S) <= m,
           \/ T \subseteq S /\ n >= m
           \/ n = m + 1 /\ \E x : T \subseteq S \cup {x}
    PROVE  IsFiniteSet(T) /\ Cardinality(T) <= n
<1>1. CASE T \subseteq S /\ n >= m
  <2>1. IsFiniteSet(T) /\ Cardinality(T) <= Cardinality(S)
    BY <1>1, FS_Subset
  <2>2. Cardinality(S) \in Nat /\ Cardinality(T) \in Nat
    BY <2>1, FS_CardinalityType
  <2> QED
    BY <1>1, <2>1, <2>2
<1>2. CASE n = m + 1 /\ \E x : T \subseteq S \cup {x}
  <2>1. PICK x : T \subseteq S \cup {x}
    BY <1>2
  <2>2. /\ IsFiniteSet(S \cup {x})
        /\ Cardinality(S \cup {x}) = IF x \in S THEN Cardinality(S) ELSE Cardinality(S) + 1
    BY FS_AddElement
  <2>3. IsFiniteSet(T) /\ Cardinality(T) <= Cardinality(S \cup {x})
    BY <2>1, <2>2, FS_Subset
  <2>4. Cardinality(S) \in Nat /\ Cardinality(T) \in Nat
    BY <2>3, FS_CardinalityType
  <2> QED
    BY <1>2, <2>2, <2>3, <2>4
<1> QED
  BY <1>1, <1>2

LEMMA FewMore ==
    ASSUME TypeOK, TypeOK', Leftovers,
           \/ Leftover' \subseteq Leftover /\ (UNCHANGED faults \/ Fault)
           \/ Fault /\ \E x : Leftover' \subseteq Leftover \cup {x}
    PROVE  Leftovers'
<1>1. faults \in Nat /\ faults' \in Nat
  BY DEF TypeOK
<1>2. \/ Leftover' \subseteq Leftover /\ faults' >= faults
      \/ faults' = faults + 1 /\ \E x : Leftover' \subseteq Leftover \cup {x}
  BY <1>1 DEF Fault
<1>3. IsFiniteSet(Leftover) /\ Cardinality(Leftover) <= faults
  BY DEF Leftovers, LeftoversAreFaults
<1> HIDE DEF Leftover
<1>4. IsFiniteSet(Leftover') /\ Cardinality(Leftover') <= faults'
  BY <1>1, <1>2, <1>3, OnePerFault
<1> QED
  BY <1>4 DEF Leftovers, LeftoversAreFaults

\* A step of s leaves at most what s had in hand, or what it added.
LEMMA LeftBy ==
    ASSUME TypeOK, OpeningsStay, NEW s \in Process, OnlyOf(s), up \ {s} \subseteq up',
           NEW x, phytomers' \subseteq phytomers \cup {x},
           request[s] # Absent /\ request[s].phytomer # Absent => x = request[s].phytomer
    PROVE  Leftover' \subseteq Leftover \cup {x}
<1> SUFFICES ASSUME NEW p, p \in Leftover', p # x PROVE p \in Leftover
  OBVIOUS
<1>1. p \in phytomers /\ ~Opened(p)' /\ ~InHand(p)'
  BY DEF Leftover
<1>2. ~Opened(p)
  BY <1>1, OpenedStays
<1>3. ~InHand(p)
  <2>1. p # Absent
    BY <1>1 DEF TypeOK
  <2> QED
    BY <1>1, <2>1 DEF InHand, OnlyOf, TypeOK
<1> QED
  BY <1>1, <1>2, <1>3 DEF Leftover

\* A step of s leaves nothing when what s had in hand it still has, or it is
\* opened, or gone, and when whatever it adds it has in hand.
LEMMA NothingLeft ==
    ASSUME TypeOK, OpeningsStay, NEW s \in Process, OnlyOf(s), up \subseteq up',
           \A p \in phytomers' : p \in phytomers \/ InHand(p)',
           \A p \in phytomers' :
              request[s] # Absent /\ p = request[s].phytomer =>
                InHand(p)' \/ Opened(p)'
    PROVE  Leftover' \subseteq Leftover
<1> SUFFICES ASSUME NEW p, p \in Leftover' PROVE p \in Leftover
  OBVIOUS
<1>1. p \in phytomers' /\ p \in phytomers /\ ~Opened(p)' /\ ~InHand(p)'
  BY DEF Leftover
<1>2. ~Opened(p)
  BY <1>1, OpenedStays
<1>3. ~InHand(p)
  BY <1>1 DEF InHand, OnlyOf, TypeOK
<1> QED
  BY <1>1, <1>2, <1>3 DEF Leftover

\* A request that left no Phytomer behind.
LEMMA EmptyHanded ==
    ASSUME TypeOK, OpeningsStay, NEW s \in Process, OnlyOf(s), up \subseteq up',
           phytomers' \subseteq phytomers,
           request[s] = Absent \/ request[s].phytomer = Absent
    PROVE  Leftover' \subseteq Leftover
<1>1. Absent \notin phytomers
  BY DEF TypeOK
<1> QED
  BY <1>1, NothingLeft

\* A request that goes on with its Phytomer.
LEMMA StillInHand ==
    ASSUME TypeOK, OpeningsStay, NEW s \in Process, OnlyOf(s), up \subseteq up', s \in up,
           phytomers' \subseteq phytomers, request'[s] # Absent,
           request'[s].phytomer = request[s].phytomer
    PROVE  Leftover' \subseteq Leftover
<1>1. \A p : p = request[s].phytomer => InHand(p)'
  BY DEF InHand
<1> QED
  BY <1>1, NothingLeft

LEMMA LeftoversStep ==
    ASSUME TypeOK, TypeOK', Requests, DiscardSparesOpened, Leftovers, [Next]_vars
    PROVE  Leftovers'
<1>0. OpeningsStay
  BY OpeningsStep
<1>1. CASE UNCHANGED vars
  BY <1>1, FewMore DEF vars, Leftover, Opened, Owns, InHand
<1>2. ASSUME NEW s \in Process, NEW id \in Identity, NEW digest \in Digest,
             Arrive(s, id, digest)
      PROVE  Leftovers'
  <2>1. OnlyOf(s) /\ request[s] = Absent /\ UNCHANGED <<phytomers, up, faults>>
    BY <1>2 DEF Arrive, OnlyOf, TypeOK
  <2> QED
    BY <1>0, <2>1, EmptyHanded, FewMore
<1>3. ASSUME NEW s \in Process, Find(s) PROVE Leftovers'
  <2>1. request[s] # Absent /\ request[s].phytomer = Absent
    BY <1>3 DEF Find, At, Requests, Standing
  <2>2. OnlyOf(s)
    BY <1>3, <2>1, ReplyType, GoToType, ReplayType DEF Find, Step, Told
  <2>3. UNCHANGED <<phytomers, up>> /\ (UNCHANGED faults \/ Fault)
    BY <1>3 DEF Find
  <2> QED
    BY <1>0, <2>1, <2>2, <2>3, EmptyHanded, FewMore
<1>4. ASSUME NEW s \in Process, Prepare(s) PROVE Leftovers'
  <2>1. /\ request[s] # Absent /\ request[s].phytomer = Absent /\ s \in up
        /\ OnlyOf(s) /\ UNCHANGED up
    BY <1>4, PrepareForm
  <2>2. PICK p \in Phytomer \ phytomers :
          \/ /\ phytomers' = phytomers \cup {p}
             /\ request'[s] # Absent /\ request'[s].phytomer = p
             /\ UNCHANGED faults
          \/ /\ Fault
             /\ phytomers' \in {phytomers, phytomers \cup {p}}
    BY <1>4, PrepareForm
  <2>3. CASE /\ phytomers' = phytomers \cup {p}
             /\ request'[s] # Absent /\ request'[s].phytomer = p
             /\ UNCHANGED faults
    <3>1. InHand(p)'
      BY <2>1, <2>3 DEF InHand
    <3>2. Absent \notin phytomers'
      BY DEF TypeOK
    <3>3. Leftover' \subseteq Leftover
      BY <1>0, <2>1, <2>3, <3>1, <3>2, NothingLeft
    <3> QED
      BY <2>3, <3>3, FewMore
  <2>4. CASE Fault /\ phytomers' \in {phytomers, phytomers \cup {p}}
    <3>1. Leftover' \subseteq Leftover \cup {p}
      BY <1>0, <2>1, <2>4, LeftBy
    <3> QED
      BY <2>4, <3>1, FewMore
  <2> QED
    BY <2>2, <2>3, <2>4
<1>5. ASSUME NEW s \in Process, Record(s) PROVE Leftovers'
  <2>1. Leftover' \subseteq Leftover
    BY <1>0, <1>5, RecordGoesOn, RecordForm, StillInHand
  <2>2. UNCHANGED faults \/ Fault
    BY <1>5, RecordForm
  <2> QED
    BY <2>1, <2>2, FewMore
<1>6. ASSUME NEW s \in Process, Recover(s) PROVE Leftovers'
  <2>1. /\ request[s] # Absent /\ s \in up /\ OnlyOf(s)
        /\ UNCHANGED <<phytomers, up>>
        /\ \/ /\ request'[s] # Absent
              /\ request'[s].phytomer = request[s].phytomer
              /\ UNCHANGED faults
           \/ Fault
    BY <1>6, RecoverForm
  <2>2. CASE /\ request'[s] # Absent
             /\ request'[s].phytomer = request[s].phytomer
             /\ UNCHANGED faults
    BY <1>0, <2>1, <2>2, StillInHand, FewMore
  <2>3. CASE Fault
    <3>1. PICK x : x = request[s].phytomer
      OBVIOUS
    <3>2. Leftover' \subseteq Leftover \cup {x}
      BY <1>0, <2>1, <3>1, LeftBy
    <3> QED
      BY <2>3, <3>2, FewMore
  <2> QED
    BY <2>1, <2>2, <2>3
<1>7. ASSUME NEW s \in Process, Discard(s) PROVE Leftovers'
  <2>1. /\ request[s] # Absent /\ OnlyOf(s) /\ UNCHANGED up
        /\ \/ phytomers' = phytomers \ {request[s].phytomer} /\ UNCHANGED faults
           \/ Fault /\ UNCHANGED phytomers
    BY <1>7, DiscardForm
  <2>2. CASE phytomers' = phytomers \ {request[s].phytomer} /\ UNCHANGED faults
    <3>1. Leftover' \subseteq Leftover
      BY <1>0, <2>1, <2>2, NothingLeft
    <3> QED
      BY <2>2, <3>1, FewMore
  <2>3. CASE Fault /\ UNCHANGED phytomers
    <3>1. PICK x : x = request[s].phytomer
      OBVIOUS
    <3>2. Leftover' \subseteq Leftover \cup {x}
      BY <1>0, <2>1, <2>3, <3>1, LeftBy
    <3> QED
      BY <2>3, <3>2, FewMore
  <2> QED
    BY <2>1, <2>2, <2>3
<1>8. ASSUME NEW s \in Process, Launch(s) PROVE Leftovers'
  <2>1. /\ request[s] # Absent /\ OnlyOf(s) /\ Owned(s) /\ request[s].id \in Identity
        /\ UNCHANGED <<phytomers, up, rows, faults>>
    BY <1>8, LaunchForm
  <2>2. \A p : p = request[s].phytomer => Opened(p)'
    BY <2>1 DEF Owned, Opened, Owns
  <2>3. Leftover' \subseteq Leftover
    BY <1>0, <2>1, <2>2, NothingLeft
  <2> QED
    BY <2>1, <2>3, FewMore
<1>9. ASSUME UNCHANGED <<phytomers, request>>, up \subseteq up',
             UNCHANGED faults \/ Fault
      PROVE  Leftovers'
  <2>1. Leftover' \subseteq Leftover
    BY <1>0, <1>9, OpenedStays DEF Leftover, InHand
  <2> QED
    BY <1>9, <2>1, FewMore
<1>10. ASSUME NEW s \in Process, NEW p \in Phytomer, EndGrowth(s, p) PROVE Leftovers'
  BY <1>9, <1>10 DEF EndGrowth
<1>11. ASSUME NEW s \in Process, Boot(s) PROVE Leftovers'
  BY <1>9, <1>11 DEF Boot
<1>12. ASSUME NEW s \in Process, Crash(s) PROVE Leftovers'
  <2>1. OnlyOf(s) /\ up \ {s} \subseteq up' /\ UNCHANGED phytomers /\ Fault
    BY <1>12 DEF Crash, OnlyOf, TypeOK
  <2>2. PICK x : x = request[s].phytomer
    OBVIOUS
  <2>3. Leftover' \subseteq Leftover \cup {x}
    BY <1>0, <2>1, <2>2, LeftBy
  <2> QED
    BY <2>1, <2>3, FewMore
<1> QED
  BY <1>1, <1>2, <1>3, <1>4, <1>5, <1>6, <1>7, <1>8, <1>10, <1>11, <1>12
  DEF Next, Serve

-----------------------------------------------------------------------------
(* The theorems. *)

\* Whatever is true of requests, rows and Phytomers in the invariant is true
\* in every state that the Stem processes reach.
THEOREM Invariance == Spec => []IInv
<1>1. Init => IInv
  BY InitHolds
<1>2. IInv /\ [Next]_vars => IInv'
  <2> SUFFICES ASSUME IInv, [Next]_vars PROVE IInv'
    OBVIOUS
  <2>1. /\ TypeOK /\ Requests /\ GrownAtMostOnce /\ AnswersAgree
        /\ DiscardSparesOpened /\ Leftovers
    BY DEF IInv
  <2>2. TypeOK'
    BY <2>1, TypesStep
  <2>3. Requests' /\ GrownAtMostOnce' /\ AnswersAgree' /\ DiscardSparesOpened'
    BY <2>1, RequestsStep, GrownStep, AnswersStep, SparedStep
  <2>4. Leftovers'
    BY <2>1, <2>2, LeftoversStep
  <2> QED
    BY <2>2, <2>3, <2>4 DEF IInv
<1> QED
  BY <1>1, <1>2, PTL DEF Spec

\* Every variable of the openings keeps its type.
THEOREM TypeCorrectness == Spec => []TypeOK
<1>1. IInv => TypeOK
  BY DEF IInv
<1> QED
  BY <1>1, Invariance, PTL

\* Requests that race with one identity, over retries, crashes and storage
\* that fails before or after it committed, come to one growth of one durable
\* opening, are told the same Phytomer, discard none that is opened, and leave
\* at most one behind per fault (growDetachedSeed).
THEOREM RacesOpenOnce == Spec => []OpenedOnce
<1>1. IInv => OpenedOnce
  BY DEF IInv, OpenedOnce, Leftovers
<1> QED
  BY <1>1, Invariance, PTL

\* An opening on record keeps its Phytomer and its digest for ever: only its
\* status moves (RecordSeedOpening inserts and never replaces).
THEOREM OpeningsArePermanent == Spec => [][OpeningsStay]_vars
<1>1. IInv /\ [Next]_vars => [OpeningsStay]_vars
  BY OpeningsStep DEF IInv
<1> QED
  BY <1>1, Invariance, PTL DEF Spec

\* OpenedOnce, in the composition the run checks.
THEOREM RacesOpenOnceAlways == MCSpec => []OpenedOnce
<1>1. MCInit => Init
  BY DEF MCInit
<1>2. [MCNext]_<<focus, opening, planned, crew, turns, call, watch, choice, context>> => [Next]_vars
  BY DEF MCNext, opening
<1> QED
  BY <1>1, <1>2, RacesOpenOnce, PTL DEF MCSpec, Spec

-----------------------------------------------------------------------------
(***************************************************************************)
(* The turns of a mind.  While calls are handed over, what was answered    *)
(* and what is left of the reply make up the reply (Answering); a write    *)
(* that the container may perform has been credited (Crediting); and the   *)
(* pipe was broken by a clock only with its mark (Naming).                 *)
(***************************************************************************)
TurnPlaces == {"new", "ask", "tools", "calling", "ended", "measured"}
TurnErrors == {"none", "provider", "unusable", "limit", "nameless", "cut", "broken", "undecodable",
               "cancelled"}
Loops == [at : TurnPlaces, turn : Nat, native : BOOLEAN, taught : BOOLEAN, slips : {0, 1},
          wrote : BOOLEAN, seed : BOOLEAN, err : TurnErrors, calls : Nat]
Boxes == [pipe : {"open", "shut"}, by : {"none", "self", "clock", "timer", "observer", "close"},
          job : {"none"} \cup Turns!CallKinds, call : {"idle", "sent", "begun", "answered"},
          touched : BOOLEAN, timedOut : BOOLEAN, dog : {"armed", "bites", "off"},
          look : {"idle", "late", "taken"}, stop : {"no", "busy", "done"}]

TurnTypes == /\ loop \in Loops /\ box \in Boxes
             /\ todo \in Seq(Turns!CallKinds)
             /\ clock \in {"live", "expired", "cancelled"}

Tools(n) == [i \in 1..n |-> "tool"]

Answering ==
  /\ loop.native = ~loop.taught
  /\ loop.at = "new" => loop.calls = 0
  /\ loop.at = "ask" => told = IF loop.calls > 0 THEN Tools(loop.calls) ELSE <<"user">>
  /\ loop.at \in {"tools", "calling"} /\ loop.native =>
       /\ loop.calls > 0 /\ Len(todo) <= loop.calls
       /\ told = Tools(loop.calls - Len(todo))
  /\ loop.at \in {"tools", "calling"} /\ ~loop.native => loop.calls = 0
  /\ loop.at = "calling" => todo # <<>>

Crediting == box.touched \/ box.job = "write" => loop.wrote

Naming ==
  /\ box.pipe = "open" <=> box.by = "none"
  /\ box.dog = "bites" => box.timedOut
  /\ box.by \in {"timer", "observer"} => box.timedOut
  /\ box.by = "clock" => clock # "live"
  /\ box.by = "close" => loop.at = "measured"
  /\ loop.err = "broken" => box.pipe = "shut" /\ box.by \in {"self", "clock"}
  /\ loop.err = "undecodable" => box.pipe = "shut" /\ box.call = "begun"

TurnInv == TurnTypes /\ Answering /\ Crediting /\ Naming

LEMMA ToolsAre == ASSUME NEW n \in Nat PROVE Tools(n) \in Seq({"tool"}) /\ Len(Tools(n)) = n
<1>1. Tools(n) \in [1..n -> {"tool"}]
  BY DEF Tools
<1> QED
  BY <1>1

LEMMA NoTools == Tools(0) = <<>>
<1>1. Tools(0) \in Seq({"tool"}) /\ Len(Tools(0)) = 0
  BY ToolsAre
<1> QED
  BY <1>1, EmptySeq

LEMMA OneMoreTool == ASSUME NEW n \in Nat PROVE Append(Tools(n), "tool") = Tools(n + 1)
<1>1. Tools(n) \in Seq({"tool"}) /\ Len(Tools(n)) = n
  BY ToolsAre
<1> QED
  BY <1>1 DEF Tools

LEMMA TurnInit == Turns!Init => TurnInv
<1> SUFFICES ASSUME Turns!Init PROVE TurnInv
  OBVIOUS
<1> USE DEF Turns!Init
<1>1. TurnTypes
  BY DEF TurnTypes, Loops, Boxes, TurnPlaces, TurnErrors
<1>2. Answering
  BY DEF Answering
<1>3. Crediting /\ Naming
  BY DEF Crediting, Naming
<1> QED
  BY <1>1, <1>2, <1>3 DEF TurnInv

\* The container and its clocks, with the loop at rest.
LEMMA BoxMoves ==
  ASSUME TurnInv, UNCHANGED <<loop, todo, told, clock>>, box' \in Boxes, Crediting', Naming'
  PROVE  TurnInv'
BY DEF TurnInv, TurnTypes, Answering

LEMMA ContainerSteps ==
  ASSUME TurnInv, Turns!Act \/ Turns!PrintLine \/ Turns!Dies \/ Turns!ClientDies
                  \/ Turns!StopEnds \/ Turns!Bite \/ Turns!Look \/ Turns!CallTimesOut
  PROVE  TurnInv'
<1>k. loop \in Loops /\ box \in Boxes /\ Crediting /\ Naming
  BY DEF TurnInv, TurnTypes
<1>1. CASE Turns!Act
  <2>1. box' = [box EXCEPT !.touched = TRUE] /\ UNCHANGED <<loop, todo, told, clock>> /\ box.job = "write"
    BY <1>1 DEF Turns!Act
  <2>2. box' \in Boxes /\ Crediting' /\ Naming'
    BY <1>k, <2>1 DEF Boxes, Crediting, Naming
  <2> QED
    BY <2>1, <2>2, BoxMoves
<1>2. CASE Turns!PrintLine
  <2>1. PICK come \in {"begun", "answered"} : box' = [box EXCEPT !.call = come]
    BY <1>2 DEF Turns!PrintLine
  <2>3. UNCHANGED <<loop, todo, told, clock>> /\ box.pipe = "open"
    BY <1>2 DEF Turns!PrintLine
  <2>2. box' \in Boxes /\ Crediting' /\ Naming'
    BY <1>k, <2>1, <2>3 DEF Boxes, Crediting, Naming
  <2> QED
    BY <2>2, <2>3, BoxMoves
<1>3. CASE Turns!Dies
  <2>1. box' = [box EXCEPT !.pipe = "shut", !.by = "self"] /\ UNCHANGED <<loop, todo, told, clock>>
    BY <1>3 DEF Turns!Dies, Turns!Closed
  <2>2. box' \in Boxes /\ Crediting' /\ Naming'
    BY <1>k, <2>1 DEF Boxes, Crediting, Naming
  <2> QED
    BY <2>1, <2>2, BoxMoves
<1>4. CASE Turns!ClientDies
  <2>1. box' = [box EXCEPT !.pipe = "shut", !.by = "clock"] /\ UNCHANGED <<loop, todo, told, clock>>
        /\ clock # "live"
    BY <1>4 DEF Turns!ClientDies, Turns!Closed
  <2>2. box' \in Boxes /\ Crediting' /\ Naming'
    BY <1>k, <2>1 DEF Boxes, Crediting, Naming
  <2> QED
    BY <2>1, <2>2, BoxMoves
<1>5. CASE Turns!StopEnds
  <2>1. box' = [box EXCEPT !.stop = "done"] /\ UNCHANGED <<loop, todo, told, clock>>
    BY <1>5 DEF Turns!StopEnds
  <2>2. box' \in Boxes /\ Crediting' /\ Naming'
    BY <1>k, <2>1 DEF Boxes, Crediting, Naming
  <2> QED
    BY <2>1, <2>2, BoxMoves
<1>6. CASE Turns!Bite
  <2>1. box' = [box EXCEPT !.timedOut = TRUE, !.dog = "bites"] /\ UNCHANGED <<loop, todo, told, clock>>
    BY <1>6 DEF Turns!Bite, Turns!Flag
  <2>2. box' \in Boxes /\ Crediting' /\ Naming'
    BY <1>k, <2>1 DEF Boxes, Crediting, Naming
  <2> QED
    BY <2>1, <2>2, BoxMoves
<1>7. CASE Turns!Look
  <2>1. PICK l \in {"late", "taken"} : box' = [box EXCEPT !.look = l]
    BY <1>7 DEF Turns!Look
  <2>2. box' \in Boxes /\ Crediting' /\ Naming'
    BY <1>k, <1>7, <2>1 DEF Boxes, Crediting, Naming, Turns!Look
  <2> QED
    BY <1>7, <2>2, BoxMoves DEF Turns!Look
<1>8. CASE Turns!CallTimesOut
  <2>1. box' = [box EXCEPT !.timedOut = TRUE] /\ UNCHANGED <<loop, todo, told, clock>>
    BY <1>8 DEF Turns!CallTimesOut
  <2>2. box' \in Boxes /\ Crediting' /\ Naming'
    BY <1>k, <2>1 DEF Boxes, Crediting, Naming
  <2> QED
    BY <2>1, <2>2, BoxMoves
<1> QED
  BY <1>1, <1>2, <1>3, <1>4, <1>5, <1>6, <1>7, <1>8

\* A stop by a clock is marked as one first; by the teardown it comes when the
\* loop has ended, with the pipe still whole if nothing else has shut it.
LEMMA StoppingNames ==
  ASSUME NEW b \in Boxes, NEW who \in {"timer", "observer", "close"}
  PROVE  LET c == Turns!Stopping(b, who) IN
           /\ c \in Boxes /\ c.touched = b.touched /\ <<c.job, c.call>> = <<b.job, b.call>> /\ c.timedOut = b.timedOut
           /\ c.dog = "bites" => b.dog = "bites"
           /\ \/ c.pipe = b.pipe /\ c.by = b.by
              \/ b.pipe = "open" /\ c.pipe = "shut" /\ c.by = who
              \/ b.pipe = "shut" /\ c.pipe = "shut" /\ c.by = b.by
<1> DEFINE c == Turns!Stopping(b, who)
<1>1. CASE b.stop # "no"
  BY <1>1 DEF Turns!Stopping
<1>2. CASE b.stop = "no"
  <2> DEFINE by == IF b.pipe = "open" THEN who ELSE b.by
             dog == IF b.dog = "armed" THEN "off" ELSE b.dog
  <2>1. c = [b EXCEPT !.pipe = "shut", !.by = by, !.stop = "busy", !.dog = dog]
    BY <1>2 DEF Turns!Stopping, Turns!Closed, Boxes
  <2>2. by \in {who, b.by} /\ (b.pipe = "open" => by = who) /\ (b.pipe = "shut" => by = b.by)
    OBVIOUS
  <2>3. dog \in {"off", "bites"} /\ (dog = "bites" => b.dog = "bites")
    BY DEF Boxes
  <2> HIDE DEF c, by, dog
  <2>4. c \in Boxes
    <3>1. /\ by \in {"none", "self", "clock", "timer", "observer", "close"}
          /\ dog \in {"armed", "bites", "off"}
      BY <2>2, <2>3 DEF Boxes
    <3>2. c = [pipe |-> "shut", by |-> by, job |-> b.job, call |-> b.call, touched |-> b.touched,
               timedOut |-> b.timedOut, dog |-> dog, look |-> b.look, stop |-> "busy"]
      BY <2>1 DEF Boxes
    <3> QED
      BY <3>1, <3>2 DEF Boxes
  <2>5. c.touched = b.touched /\ <<c.job, c.call>> = <<b.job, b.call>> /\ c.timedOut = b.timedOut /\ c.dog = dog
        /\ c.pipe = "shut" /\ c.by = by
    BY <2>1 DEF Boxes
  <2>6. b.pipe = "open" \/ b.pipe = "shut"
    BY DEF Boxes
  <2> HIDE DEF c
  <2>7. /\ c \in Boxes /\ c.touched = b.touched /\ <<c.job, c.call>> = <<b.job, b.call>> /\ c.timedOut = b.timedOut
        /\ c.dog = "bites" => b.dog = "bites"
        /\ \/ c.pipe = b.pipe /\ c.by = b.by
           \/ b.pipe = "open" /\ c.pipe = "shut" /\ c.by = who
           \/ b.pipe = "shut" /\ c.pipe = "shut" /\ c.by = b.by
    BY <2>2, <2>3, <2>4, <2>5, <2>6
  <2> QED
    BY <2>7 DEF c
<1> QED
  BY <1>1, <1>2

LEMMA StopSteps ==
  ASSUME TurnInv, Turns!Bitten \/ Turns!LookStops \/ Turns!CallStops \/ Turns!Close
  PROVE  TurnInv'
<1>k. loop \in Loops /\ box \in Boxes /\ Crediting /\ Naming
  BY DEF TurnInv, TurnTypes
<1>1. CASE Turns!Bitten
  <2> DEFINE c == Turns!Stopping(box, "timer")
  <2>1. box' = [c EXCEPT !.dog = "off"] /\ UNCHANGED <<loop, todo, told, clock>> /\ box.timedOut
    BY <1>1, <1>k DEF Turns!Bitten, Naming
  <2>2. /\ c \in Boxes /\ c.touched = box.touched /\ <<c.job, c.call>> = <<box.job, box.call>> /\ c.timedOut = box.timedOut
        /\ c.dog = "bites" => box.dog = "bites"
        /\ \/ c.pipe = box.pipe /\ c.by = box.by
           \/ box.pipe = "open" /\ c.pipe = "shut" /\ c.by = "timer"
           \/ box.pipe = "shut" /\ c.pipe = "shut" /\ c.by = box.by
    BY <1>k, StoppingNames
  <2> HIDE DEF c
  <2>3. box' \in Boxes /\ Crediting'
    BY <1>k, <2>1, <2>2 DEF Boxes, Crediting
  <2>4. Naming'
    BY <1>k, <2>1, <2>2 DEF Boxes, Naming
  <2> QED
    BY <2>1, <2>3, <2>4, BoxMoves
<1>2. CASE Turns!LookStops
  <2> DEFINE b == [box EXCEPT !.timedOut = TRUE]
             c == Turns!Stopping(b, "observer")
  <2>1. box' = [c EXCEPT !.look = "taken"] /\ UNCHANGED <<loop, todo, told, clock>>
    BY <1>2 DEF Turns!LookStops, Turns!Flag
  <2>2. /\ b \in Boxes /\ b.touched = box.touched /\ <<b.job, b.call>> = <<box.job, box.call>> /\ b.timedOut = TRUE
        /\ b.dog = box.dog /\ b.pipe = box.pipe /\ b.by = box.by
    BY <1>k DEF Boxes
  <2> HIDE DEF b
  <2>3. /\ c \in Boxes /\ c.touched = b.touched /\ <<c.job, c.call>> = <<b.job, b.call>> /\ c.timedOut = b.timedOut
        /\ c.dog = "bites" => b.dog = "bites"
        /\ \/ c.pipe = b.pipe /\ c.by = b.by
           \/ b.pipe = "open" /\ c.pipe = "shut" /\ c.by = "observer"
           \/ b.pipe = "shut" /\ c.pipe = "shut" /\ c.by = b.by
    BY <2>2, StoppingNames
  <2> HIDE DEF c
  <2>4. box' \in Boxes /\ Crediting'
    BY <1>k, <2>1, <2>2, <2>3 DEF Boxes, Crediting
  <2>5. Naming'
    BY <1>k, <2>1, <2>2, <2>3 DEF Boxes, Naming
  <2> QED
    BY <2>1, <2>4, <2>5, BoxMoves
<1>3. CASE Turns!CallStops
  <2> DEFINE c == Turns!Stopping(box, "timer")
  <2>1. box' = c /\ UNCHANGED <<loop, todo, told, clock>> /\ box.timedOut
    BY <1>3 DEF Turns!CallStops
  <2>2. /\ c \in Boxes /\ c.touched = box.touched /\ <<c.job, c.call>> = <<box.job, box.call>> /\ c.timedOut = box.timedOut
        /\ c.dog = "bites" => box.dog = "bites"
        /\ \/ c.pipe = box.pipe /\ c.by = box.by
           \/ box.pipe = "open" /\ c.pipe = "shut" /\ c.by = "timer"
           \/ box.pipe = "shut" /\ c.pipe = "shut" /\ c.by = box.by
    BY <1>k, StoppingNames
  <2> HIDE DEF c
  <2>3. box' \in Boxes /\ Crediting' /\ Naming'
    BY <1>k, <2>1, <2>2 DEF Crediting, Naming
  <2> QED
    BY <2>1, <2>3, BoxMoves
<1>4. CASE Turns!Close
  <2> DEFINE c == Turns!Stopping(box, "close")
  <2>1. box' = c /\ UNCHANGED <<loop, todo, told, clock>> /\ loop.at = "measured"
    BY <1>4 DEF Turns!Close
  <2>2. /\ c \in Boxes /\ c.touched = box.touched /\ <<c.job, c.call>> = <<box.job, box.call>> /\ c.timedOut = box.timedOut
        /\ c.dog = "bites" => box.dog = "bites"
        /\ \/ c.pipe = box.pipe /\ c.by = box.by
           \/ box.pipe = "open" /\ c.pipe = "shut" /\ c.by = "close"
           \/ box.pipe = "shut" /\ c.pipe = "shut" /\ c.by = box.by
    BY <1>k, StoppingNames
  <2> HIDE DEF c
  <2>3. box' \in Boxes /\ Crediting' /\ Naming'
    BY <1>k, <2>1, <2>2 DEF Crediting, Naming
  <2> QED
    BY <2>1, <2>3, BoxMoves
<1> QED
  BY <1>1, <1>2, <1>3, <1>4

\* The loop moves; what is in the container stays, and nothing that was
\* credited is forgotten.
LEMMA LoopMoves ==
  ASSUME TurnInv, UNCHANGED <<box, clock>>, loop' \in Loops, todo' \in Seq(Turns!CallKinds),
         loop.wrote => loop'.wrote, Answering',
         loop.at = "measured" => loop'.at = "measured",
         loop'.err = "broken" =>
           loop.err = "broken" \/ (box.pipe = "shut" /\ ~box.timedOut /\ loop.at # "measured"),
         loop'.err = "undecodable" =>
           loop.err = "undecodable" \/ (box.pipe = "shut" /\ box.call = "begun")
  PROVE  TurnInv'
<1>1. TurnTypes' /\ Crediting'
  BY DEF TurnInv, TurnTypes, Crediting
<1>2. Naming'
  BY DEF TurnInv, TurnTypes, Naming, Boxes
<1> QED
  BY <1>1, <1>2 DEF TurnInv

LEMMA LoopKnown ==
  ASSUME TurnInv
  PROVE  loop \in Loops /\ box \in Boxes /\ todo \in Seq(Turns!CallKinds) /\ Answering /\ Naming
BY DEF TurnInv, TurnTypes

\* The loop ends for whatever reason.
LEMMA LoopEnds ==
  ASSUME TurnInv, UNCHANGED <<box, clock>>, todo' = <<>>, loop.at # "measured",
         NEW err \in TurnErrors, NEW l \in Loops, loop' = [l EXCEPT !.at = "ended", !.err = err],
         loop.wrote => l.wrote, l.native = ~l.taught,
         err = "broken" => box.pipe = "shut" /\ ~box.timedOut,
         err = "undecodable" => box.pipe = "shut" /\ box.call = "begun"
  PROVE  TurnInv'
<1>1. /\ loop' \in Loops /\ loop'.at = "ended" /\ loop'.err = err
      /\ loop'.wrote = l.wrote
      /\ loop'.native = l.native /\ loop'.taught = l.taught
  BY DEF Loops, TurnPlaces
<1>2. Answering'
  BY <1>1 DEF Answering
<1> QED
  BY <1>1, <1>2, LoopMoves

\* A mind that is taught the prose.
LEMMA Demoting ==
  ASSUME NEW l \in Loops
  PROVE  LET d == Turns!Demoted(l) IN
           /\ d \in Loops /\ d.native = FALSE /\ d.taught = TRUE
           /\ d.at = l.at /\ d.wrote = l.wrote /\ d.err = l.err /\ d.calls = l.calls
BY DEF Loops, Turns!Demoted

LEMMA ReplySteps ==
  ASSUME TurnInv,
         \/ Turns!Compose \/ Turns!Fails \/ Turns!Rejected \/ Turns!Answer \/ Turns!Slip
         \/ Turns!OutOfTurns
         \/ \E cs \in Turns!Calls : Turns!NativeReply(cs) \/ Turns!ProseReply(cs)
  PROVE  TurnInv'
<1>k. loop \in Loops /\ box \in Boxes /\ todo \in Seq(Turns!CallKinds) /\ Answering /\ Naming
  BY LoopKnown
<1>b. loop.native = ~loop.taught
  BY <1>k DEF Answering
<1> DEFINE d == Turns!Demoted(loop)
<1>d. /\ d \in Loops /\ d.native = FALSE /\ d.taught = TRUE
      /\ d.at = loop.at /\ d.wrote = loop.wrote /\ d.err = loop.err /\ d.calls = loop.calls
  BY <1>k, Demoting
<1>1. CASE Turns!Compose
  <2>1. PICK capable \in BOOLEAN, seed \in BOOLEAN :
          loop' = [(IF capable THEN loop ELSE d) EXCEPT !.at = "ask", !.seed = seed]
    BY <1>1 DEF Turns!Compose
  <2>2. /\ loop.at = "new" /\ told' = <<"user">> /\ todo' = todo /\ UNCHANGED <<box, clock>>
        /\ loop.calls = 0
    BY <1>1, <1>k DEF Turns!Compose, Answering
  <2> HIDE DEF d
  <2>3. PICK l \in {loop, d} : loop' = [l EXCEPT !.at = "ask", !.seed = seed]
    BY <2>1
  <2>4. /\ l \in Loops /\ l.native = ~l.taught /\ l.wrote = loop.wrote /\ l.err = loop.err
        /\ l.calls = 0
    BY <1>b, <1>d, <1>k, <2>2, <2>3
  <2>5. /\ loop' \in Loops /\ loop'.native = ~loop'.taught /\ loop'.wrote = loop.wrote
        /\ loop'.err = loop.err /\ loop'.calls = 0 /\ loop'.at = "ask"
    BY <2>3, <2>4 DEF Loops, TurnPlaces
  <2>6. Answering'
    BY <2>2, <2>5 DEF Answering
  <2> QED
    BY <1>k, <2>2, <2>5, <2>6, LoopMoves
<1>2. CASE Turns!Fails
  <2>1. loop' = [loop EXCEPT !.at = "ended", !.err = "provider"] /\ todo' = <<>>
        /\ UNCHANGED <<box, clock>> /\ loop.at = "ask"
    BY <1>2 DEF Turns!Fails, Turns!Ended
  <2> QED
    BY <1>k, <1>b, <2>1, LoopEnds DEF TurnErrors
<1>3. CASE Turns!Rejected
  <2>1. loop' = d /\ UNCHANGED <<todo, told, box, clock>> /\ loop.at = "ask"
    BY <1>3 DEF Turns!Rejected
  <2> HIDE DEF d
  <2>2. Answering'
    BY <1>k, <1>d, <2>1 DEF Answering
  <2> QED
    BY <1>k, <1>d, <2>1, <2>2, LoopMoves
<1>4. CASE Turns!Answer
  <2>1. loop' = [loop EXCEPT !.at = "ended", !.err = "none"] /\ todo' = <<>>
        /\ UNCHANGED <<box, clock>> /\ loop.at = "ask"
    BY <1>4 DEF Turns!Answer, Turns!Ended, Turns!Asked
  <2> QED
    BY <1>k, <1>b, <2>1, LoopEnds DEF TurnErrors
<1>5. CASE Turns!Slip
  <2>1. todo' = <<>> /\ told' = <<"user">> /\ UNCHANGED <<box, clock>> /\ loop.at = "ask"
    BY <1>5 DEF Turns!Slip, Turns!Asked
  <2>2. CASE (loop.seed /\ loop.wrote) \/ loop.slips = 1
    <3>1. loop' = [d EXCEPT !.at = "ended", !.err = "unusable"]
      BY <1>5, <2>2 DEF Turns!Slip, Turns!Ended
    <3> HIDE DEF d
    <3> QED
      BY <1>d, <2>1, <3>1, LoopEnds DEF TurnErrors
  <2>3. CASE ~((loop.seed /\ loop.wrote) \/ loop.slips = 1)
    <3>1. loop' = [Turns!Next1(d) EXCEPT !.slips = 1, !.calls = 0]
      BY <1>5, <2>3 DEF Turns!Slip
    <3> HIDE DEF d
    <3>2. loop' = [d EXCEPT !.turn = d.turn + 1, !.slips = 1, !.calls = 0]
      BY <1>d, <3>1 DEF Turns!Next1
    <3>n. d.turn + 1 \in Nat
      BY <1>d DEF Loops
    <3>3. /\ loop' \in Loops /\ loop'.at = d.at /\ loop'.native = FALSE
          /\ loop'.taught = TRUE /\ loop'.wrote = d.wrote /\ loop'.err = d.err /\ loop'.calls = 0
      BY <1>d, <3>n, <3>2 DEF Loops
    <3>a. loop'.at = "ask" /\ loop'.native = ~loop'.taught
      BY <1>d, <2>1, <3>3
    <3>4. Answering'
      BY <2>1, <3>3, <3>a DEF Answering
    <3> QED
      BY <1>d, <2>1, <3>3, <3>4, LoopMoves
  <2> QED
    BY <2>2, <2>3
<1>6. CASE Turns!OutOfTurns
  <2>1. loop' = [loop EXCEPT !.at = "ended", !.err = "limit"] /\ UNCHANGED <<todo, told, box, clock>>
        /\ loop.at = "ask"
    BY <1>6 DEF Turns!OutOfTurns, Turns!Ended
  <2>2. /\ loop' \in Loops /\ loop'.at = "ended" /\ loop'.err = "limit" /\ loop'.wrote = loop.wrote
        /\ loop'.native = loop.native /\ loop'.taught = loop.taught
    BY <1>k, <2>1 DEF Loops, TurnPlaces, TurnErrors
  <2>3. Answering'
    BY <1>b, <2>2 DEF Answering
  <2> QED
    BY <1>k, <2>1, <2>2, <2>3, LoopMoves
<1>7. ASSUME NEW cs \in Turns!Calls, Turns!NativeReply(cs) PROVE TurnInv'
  <2>1. PICK n \in 1..MaxCalls : cs \in [1..n -> Turns!CallKinds]
    BY <1>7 DEF Turns!Calls
  <2>2. cs \in Seq(Turns!CallKinds) /\ Len(cs) \in Nat /\ Len(cs) > 0
    BY <2>1
  <2>3. loop' = [loop EXCEPT !.at = "tools", !.calls = Len(cs)] /\ todo' = cs /\ told' = <<>>
        /\ UNCHANGED <<box, clock>> /\ loop.at = "ask" /\ loop.native
    BY <1>7 DEF Turns!NativeReply, Turns!Asked
  <2>4. /\ loop' \in Loops /\ loop'.at = "tools" /\ loop'.calls = Len(cs) /\ loop'.native = loop.native
        /\ loop'.taught = loop.taught /\ loop'.wrote = loop.wrote /\ loop'.err = loop.err
    BY <1>k, <2>2, <2>3 DEF Loops, TurnPlaces
  <2>5. told' = Tools(loop'.calls - Len(todo'))
    BY <2>2, <2>3, <2>4, NoTools
  <2>6. Answering'
    BY <1>b, <2>2, <2>3, <2>4, <2>5 DEF Answering
  <2> QED
    BY <2>2, <2>3, <2>4, <2>6, LoopMoves
<1>8. ASSUME NEW cs \in Turns!Calls, Turns!ProseReply(cs) PROVE TurnInv'
  <2>1. PICK n \in 1..MaxCalls : cs \in [1..n -> Turns!CallKinds]
    BY <1>8 DEF Turns!Calls
  <2>2. cs \in Seq(Turns!CallKinds)
    BY <2>1
  <2>3. loop' = [d EXCEPT !.at = "tools", !.calls = 0, !.slips = 0] /\ todo' = cs
        /\ UNCHANGED <<box, clock>> /\ loop.at = "ask"
    BY <1>8 DEF Turns!ProseReply, Turns!Asked
  <2> HIDE DEF d
  <2>4. /\ loop' \in Loops /\ loop'.at = "tools" /\ loop'.calls = 0 /\ loop'.native = FALSE
        /\ loop'.taught = TRUE /\ loop'.wrote = loop.wrote /\ loop'.err = loop.err
    BY <1>d, <2>3 DEF Loops, TurnPlaces
  <2>6. Answering'
    BY <2>4 DEF Answering
  <2> QED
    BY <2>2, <2>3, <2>4, <2>6, LoopMoves
<1> QED
  BY <1>1, <1>2, <1>3, <1>4, <1>5, <1>6, <1>7, <1>8

\* What is said of a call that has been handed over or answered.
LEMMA Observing ==
  ASSUME TurnInv, loop.at \in {"tools", "calling"}, todo # <<>>, Turns!Observed,
         NEW l \in Loops, l.at = "tools", l.native = loop.native, l.taught = loop.taught,
         l.calls = loop.calls, loop' = l
  PROVE  todo' \in Seq(Turns!CallKinds) /\ Answering'
<1>k. loop \in Loops /\ box \in Boxes /\ todo \in Seq(Turns!CallKinds) /\ Answering
  BY LoopKnown
<1>1. todo' = Tail(todo) /\ Tail(todo) \in Seq(Turns!CallKinds) /\ Len(Tail(todo)) = Len(todo) - 1
      /\ Len(todo) \in Nat /\ Len(todo) > 0
  BY <1>k DEF Turns!Observed
<1>2. CASE loop.native
  <2>1. told' = Append(told, "tool") /\ told = Tools(loop.calls - Len(todo))
        /\ Len(todo) <= loop.calls /\ loop.calls > 0
    BY <1>2, <1>k DEF Turns!Observed, Answering
  <2>2. loop.calls - Len(todo) \in Nat /\ loop.calls \in Nat
    BY <1>k, <1>1, <2>1 DEF Loops
  <2>3. told' = Tools((loop.calls - Len(todo)) + 1)
    BY <2>1, <2>2, OneMoreTool
  <2>4. (loop.calls - Len(todo)) + 1 = loop.calls - Len(todo')
    BY <1>1, <2>2
  <2>5. told' = Tools(loop'.calls - Len(todo')) /\ Len(todo') <= loop'.calls /\ loop'.calls > 0
    BY <1>1, <2>1, <2>2, <2>3, <2>4
  <2> QED
    BY <1>k, <1>1, <1>2, <2>5 DEF Answering
<1>3. CASE ~loop.native
  BY <1>k, <1>1, <1>3 DEF Answering
<1> QED
  BY <1>2, <1>3

LEMMA CallSteps ==
  ASSUME TurnInv,
         \/ Turns!AnsweredHere \/ Turns!Nameless \/ Turns!HandOver \/ Turns!Returned
  PROVE  TurnInv'
<1>k. loop \in Loops /\ box \in Boxes /\ todo \in Seq(Turns!CallKinds) /\ Answering /\ Naming
  BY LoopKnown
<1>b. loop.native = ~loop.taught
  BY <1>k DEF Answering
<1>c. Crediting /\ TurnTypes
  BY DEF TurnInv
<1> DEFINE credited == loop.wrote \/ Turns!Kind = "write"
           m == [loop EXCEPT !.wrote = credited]
<1>m. Turns!Credited(loop) = m
  BY <1>k DEF Turns!Credited, Loops
<1>n. credited \in BOOLEAN /\ (loop.wrote => credited) /\ (Turns!Kind = "write" => credited)
  BY <1>k DEF Loops
<1> HIDE DEF credited
<1>o. /\ m \in Loops /\ m.wrote = credited /\ m.at = loop.at /\ m.native = loop.native
      /\ m.taught = loop.taught /\ m.calls = loop.calls /\ m.err = loop.err
  BY <1>k, <1>n DEF Loops
<1>1. CASE Turns!AnsweredHere
  <2>1. loop' = loop /\ loop.at = "tools" /\ todo # <<>> /\ Turns!Observed /\ UNCHANGED <<box, clock>>
    BY <1>1 DEF Turns!AnsweredHere
  <2>2. todo' \in Seq(Turns!CallKinds) /\ Answering'
    BY <1>k, <2>1, Observing
  <2> QED
    BY <1>k, <2>1, <2>2, LoopMoves
<1>2. CASE Turns!Nameless
  <2>1. loop' = [loop EXCEPT !.at = "ended", !.err = "nameless"] /\ todo' = <<>>
        /\ UNCHANGED <<box, clock>> /\ loop.at = "tools"
    BY <1>2 DEF Turns!Nameless, Turns!Ended
  <2> QED
    BY <1>k, <1>b, <2>1, LoopEnds DEF TurnErrors
<1>3. CASE Turns!HandOver /\ box.pipe = "open"
  <2> HIDE DEF m
  <2>1. /\ loop' = [m EXCEPT !.at = "calling"] /\ todo' = todo
        /\ box' = [box EXCEPT !.call = "sent", !.job = Turns!Kind] /\ UNCHANGED <<told, clock>>
        /\ loop.at = "tools" /\ todo # <<>> /\ Turns!Kind \in {"read", "write"}
    BY <1>3, <1>m DEF Turns!HandOver
  <2>2. /\ loop' \in Loops /\ loop'.at = "calling" /\ loop'.wrote = credited
        /\ loop'.native = loop.native /\ loop'.taught = loop.taught /\ loop'.calls = loop.calls
        /\ loop'.err = loop.err
    BY <1>o, <2>1 DEF Loops, TurnPlaces
  <2>3. /\ box' \in Boxes /\ box'.touched = box.touched /\ box'.job = Turns!Kind
        /\ box'.pipe = box.pipe /\ box'.by = box.by /\ box'.dog = box.dog
        /\ box'.timedOut = box.timedOut
    BY <1>k, <2>1 DEF Boxes, Turns!CallKinds
  <2>4. Answering'
    BY <1>k, <2>1, <2>2 DEF Answering
  <2>5. Crediting'
    BY <1>c, <1>n, <2>2, <2>3 DEF Crediting
  <2>e. loop.err # "undecodable"
    BY <1>3, <1>k DEF Naming
  <2>6. Naming'
    BY <1>k, <2>e, <2>1, <2>2, <2>3 DEF Naming
  <2>7. TurnTypes'
    BY <1>c, <2>1, <2>2, <2>3 DEF TurnTypes
  <2> QED
    BY <2>4, <2>5, <2>6, <2>7 DEF TurnInv
<1>4. CASE Turns!HandOver /\ box.pipe # "open"
  <2> HIDE DEF m
  <2>1. /\ loop' = [m EXCEPT !.at = "ended", !.err = Turns!Pipe] /\ todo' = <<>>
        /\ UNCHANGED <<box, clock>> /\ loop.at = "tools"
    BY <1>4, <1>m DEF Turns!HandOver, Turns!Ended
  <2>2. /\ Turns!Pipe \in TurnErrors /\ Turns!Pipe # "undecodable"
        /\ Turns!Pipe = "broken" => ~box.timedOut
    BY DEF Turns!Pipe, TurnErrors
  <2>3. box.pipe = "shut"
    BY <1>k, <1>4 DEF Boxes
  <2> QED
    BY <1>b, <1>n, <1>o, <2>1, <2>2, <2>3, LoopEnds
<1>5. CASE Turns!Returned
  <2> HIDE DEF m
  <2>1. /\ loop' = [m EXCEPT !.at = "tools"] /\ Turns!Observed
        /\ box' = [box EXCEPT !.call = "idle", !.job = "none"] /\ UNCHANGED clock
        /\ loop.at = "calling"
    BY <1>5, <1>m DEF Turns!Returned
  <2>2. /\ loop' \in Loops /\ loop'.at = "tools" /\ loop'.wrote = credited
        /\ loop'.native = loop.native /\ loop'.taught = loop.taught /\ loop'.calls = loop.calls
        /\ loop'.err = loop.err
    BY <1>o, <2>1 DEF Loops, TurnPlaces
  <2>3. /\ box' \in Boxes /\ box'.touched = box.touched /\ box'.job = "none"
        /\ box'.pipe = box.pipe /\ box'.by = box.by /\ box'.dog = box.dog
        /\ box'.timedOut = box.timedOut
    BY <1>k, <2>1 DEF Boxes
  <2>4. todo # <<>>
    BY <1>k, <2>1 DEF Answering
  <2>5. todo' \in Seq(Turns!CallKinds) /\ Answering'
    BY <2>1, <2>2, <2>4, Observing
  <2>6. Crediting'
    BY <1>c, <1>n, <2>2, <2>3 DEF Crediting
  <2>e. loop.err # "undecodable"
    BY <1>5, <1>k DEF Naming, Turns!Returned
  <2>7. Naming'
    BY <1>k, <2>e, <2>1, <2>2, <2>3 DEF Naming
  <2>8. TurnTypes'
    BY <1>c, <2>1, <2>2, <2>3, <2>5 DEF TurnTypes
  <2> QED
    BY <2>5, <2>6, <2>7, <2>8 DEF TurnInv
<1> QED
  BY <1>1, <1>2, <1>3, <1>4, <1>5

LEMMA EndSteps ==
  ASSUME TurnInv,
         \/ Turns!PipeBroke \/ Turns!CalledOff \/ Turns!CutOff \/ Turns!Observations
         \/ Turns!Measure \/ Turns!Expire
  PROVE  TurnInv'
<1>k. loop \in Loops /\ box \in Boxes /\ todo \in Seq(Turns!CallKinds) /\ Answering /\ Naming
  BY LoopKnown
<1>b. loop.native = ~loop.taught
  BY <1>k DEF Answering
<1>1. CASE Turns!PipeBroke
  <2> DEFINE err == IF box.call = "begun" THEN "undecodable" ELSE Turns!Pipe
  <2>1. /\ loop' = [loop EXCEPT !.at = "ended", !.err = err] /\ todo' = <<>>
        /\ UNCHANGED <<box, clock>> /\ loop.at = "calling" /\ box.pipe # "open"
    BY <1>1 DEF Turns!PipeBroke, Turns!Ended
  <2>2. /\ err \in TurnErrors /\ (err = "broken" => ~box.timedOut)
        /\ err = "undecodable" => box.call = "begun"
    BY DEF Turns!Pipe, TurnErrors
  <2>3. box.pipe = "shut"
    BY <1>k, <2>1 DEF Boxes
  <2> HIDE DEF err
  <2> QED
    BY <1>b, <1>k, <2>1, <2>2, <2>3, LoopEnds
<1>2. CASE Turns!CalledOff
  <2>1. loop' = [loop EXCEPT !.at = "ended", !.err = "cancelled"] /\ todo' = <<>>
        /\ UNCHANGED <<box, clock>> /\ loop.at = "calling"
    BY <1>2 DEF Turns!CalledOff, Turns!Ended
  <2> QED
    BY <1>k, <1>b, <2>1, LoopEnds DEF TurnErrors
<1>3. CASE Turns!CutOff
  <2>1. loop' = [loop EXCEPT !.at = "ended", !.err = "cut"] /\ todo' = <<>>
        /\ UNCHANGED <<box, clock>> /\ loop.at = "calling"
    BY <1>3 DEF Turns!CutOff, Turns!Ended
  <2> QED
    BY <1>k, <1>b, <2>1, LoopEnds DEF TurnErrors
<1>4. CASE Turns!Observations
  <2>1. loop' = [loop EXCEPT !.turn = loop.turn + 1, !.at = "ask"]
    BY <1>4, <1>k DEF Turns!Observations, Turns!Next1
  <2>2. todo = <<>> /\ UNCHANGED <<todo, box, clock>> /\ loop.at = "tools"
        /\ told' = (IF loop.native THEN told ELSE <<"user">>)
    BY <1>4 DEF Turns!Observations
  <2>n. loop.turn + 1 \in Nat
    BY <1>k DEF Loops
  <2>3. /\ loop' \in Loops /\ loop'.at = "ask" /\ loop'.native = loop.native
        /\ loop'.taught = loop.taught /\ loop'.calls = loop.calls /\ loop'.err = loop.err
        /\ loop'.wrote = loop.wrote
    BY <1>k, <2>n, <2>1 DEF Loops, TurnPlaces
  <2>4. loop.native => told' = Tools(loop.calls) /\ loop.calls > 0
    <3>1. loop.native => told = Tools(loop.calls - Len(todo)) /\ loop.calls > 0
      BY <1>k, <2>2 DEF Answering
    <3>2. loop.calls - Len(todo) = loop.calls
      BY <1>k, <2>2 DEF Loops
    <3> QED
      BY <2>2, <3>1, <3>2
  <2>5. ~loop.native => told' = <<"user">> /\ loop.calls = 0
    BY <1>k, <2>2 DEF Answering
  <2>6. Answering'
    BY <1>b, <2>3, <2>4, <2>5 DEF Answering
  <2> QED
    BY <1>k, <2>2, <2>3, <2>6, LoopMoves
<1>5. CASE Turns!Measure
  <2>1. loop' = [loop EXCEPT !.at = "measured"] /\ UNCHANGED <<todo, told, box, clock>>
    BY <1>5 DEF Turns!Measure
  <2>2. /\ loop' \in Loops /\ loop'.at = "measured" /\ loop'.native = loop.native
        /\ loop'.taught = loop.taught /\ loop'.err = loop.err /\ loop'.wrote = loop.wrote
    BY <1>k, <2>1 DEF Loops, TurnPlaces
  <2>3. Answering'
    BY <1>b, <2>2 DEF Answering
  <2> QED
    BY <1>k, <2>1, <2>2, <2>3, LoopMoves
<1>6. CASE Turns!Expire
  <2>1. UNCHANGED <<loop, todo, told, box>> /\ clock' \in {"expired", "cancelled"}
    BY <1>6 DEF Turns!Expire
  <2>2. TurnTypes' /\ Answering' /\ Crediting'
    BY <2>1 DEF TurnInv, TurnTypes, Answering, Crediting
  <2>3. Naming'
    BY <1>k, <2>1 DEF Naming
  <2> QED
    BY <2>2, <2>3 DEF TurnInv
<1> QED
  BY <1>1, <1>2, <1>3, <1>4, <1>5, <1>6

LEMMA TurnKept == TurnInv /\ [Turns!Next]_Turns!vars => TurnInv'
<1> SUFFICES ASSUME TurnInv, [Turns!Next]_Turns!vars PROVE TurnInv'
  OBVIOUS
<1>1. CASE UNCHANGED Turns!vars
  BY <1>1 DEF TurnInv, TurnTypes, Answering, Crediting, Naming, Turns!vars
<1>2. CASE Turns!Speak
  BY <1>2, ReplySteps DEF Turns!Speak
<1>3. CASE Turns!Tools
  BY <1>3, CallSteps, EndSteps, ContainerSteps, StopSteps DEF Turns!Tools
<1>4. CASE Turns!Kill
  BY <1>4, ContainerSteps, StopSteps DEF Turns!Kill
<1>5. CASE \/ Turns!Act \/ Turns!PrintLine \/ Turns!Dies \/ Turns!Expire \/ Turns!Look
           \/ Turns!Measure \/ Turns!Close
  BY <1>5, ContainerSteps, StopSteps, EndSteps
<1> QED
  BY <1>1, <1>2, <1>3, <1>4, <1>5 DEF Turns!Next

LEMMA TurnInvImplies ==
  TurnInv => /\ Turns!ConversationIsWellFormed /\ Turns!WritesAreCredited /\ Turns!CutOffIsNamed
<1> SUFFICES ASSUME TurnInv
             PROVE  Turns!ConversationIsWellFormed /\ Turns!WritesAreCredited /\ Turns!CutOffIsNamed
  OBVIOUS
<1>1. Turns!ConversationIsWellFormed
  BY DEF TurnInv, Answering, Tools, Turns!ConversationIsWellFormed
<1>2. Turns!WritesAreCredited
  BY DEF TurnInv, Crediting, Turns!WritesAreCredited
<1>3. Turns!CutOffIsNamed
  BY DEF TurnInv, TurnTypes, Naming, Turns!CutOffIsNamed, Turns!Ending
<1> QED
  BY <1>1, <1>2, <1>3

\* However the container, the clocks and the provider interleave, what is sent
\* is a conversation, a write is credited and a run cut off is named so.
THEOREM TurnsAreHonestAlone ==
  Turns!Spec => [](/\ Turns!ConversationIsWellFormed
                   /\ Turns!WritesAreCredited
                   /\ Turns!CutOffIsNamed)
BY TurnInit, TurnKept, TurnInvImplies, PTL DEF Turns!Spec

\* TurnsAreHonest, in the composition the run checks.
THEOREM TurnsAreHonestAlways == MCSpec => []TurnsAreHonest
<1>1. MCInit => TurnInv
  BY TurnInit DEF MCInit
<1>2. [MCNext]_<<focus, opening, planned, crew, turns, call, watch, choice, context>>
          => [Turns!Next]_Turns!vars
  BY DEF MCNext, turns, Turns!vars
<1>3. TurnInv => TurnsAreHonest
  BY TurnInvImplies DEF TurnsAreHonest
<1> QED
  BY <1>1, <1>2, <1>3, TurnKept, PTL DEF MCSpec

-----------------------------------------------------------------------------
(***************************************************************************)
(* The answer of a mind.  What is collected of a call is what has come of  *)
(* it (Streamed), the calls that have begun are the first ones, and those  *)
(* taken are whole, in order; an error that is kept is what somebody       *)
(* answered, once somebody has (Erring).                                   *)
(***************************************************************************)
LEMMA LeastOf ==
  ASSUME NEW S \in SUBSET Nat, S # {}
  PROVE  \E least \in S : \A i \in S : least <= i
<1>1. PICK least \in S : \A i \in S : ~ (<<i, least>> \in OpToRel(<, Nat))
  BY NatLessThanWellFounded, WFMin
<1>2. \A i \in S : ~ (i < least)
  BY <1>1 DEF OpToRel
<1> QED
  BY <1>2

\* What rises within 1..n leaves no room.
LEMMA RisingIsIdentity ==
  ASSUME NEW n \in Nat, NEW s \in [1..n -> 1..n],
         \A i, j \in 1..n : i < j => s[i] < s[j]
  PROVE  \A i \in 1..n : s[i] = i
<1>1. \A i \in 1..n : s[i] >= i
  <2> DEFINE T == {i \in 1..n : s[i] < i}
  <2> SUFFICES ASSUME T # {} PROVE FALSE
    OBVIOUS
  <2>0. PICK m \in T : \A i \in T : m <= i
    <3>1. T \in SUBSET Nat
      OBVIOUS
    <3> HIDE DEF T
    <3> QED
      BY <3>1, LeastOf
  <2>1. m \in 1..n /\ s[m] < m /\ \A i \in 1..n : s[i] < i => m <= i
    BY <2>0
  <2>2. CASE m = 1
    BY <2>1, <2>2
  <2>3. CASE m # 1
    <3>1. m - 1 \in 1..n /\ m - 1 < m
      BY <2>1, <2>3
    <3>2. s[m - 1] >= m - 1 /\ s[m - 1] < s[m]
      BY <2>1, <3>1
    <3> QED
      BY <2>1, <3>1, <3>2
  <2> QED
    BY <2>2, <2>3
<1>2. \A i \in 1..n : s[i] <= i
  <2> DEFINE T == {k \in Nat : n - k \in 1..n /\ s[n - k] > n - k}
  <2> SUFFICES ASSUME T # {} PROVE FALSE
    <3>1. ASSUME NEW i \in 1..n, s[i] > i PROVE n - i \in T
      <4>1. n - (n - i) = i /\ n - i \in Nat
        OBVIOUS
      <4> QED
        BY <3>1, <4>1
    <3> HIDE DEF T
    <3> QED
      BY <3>1
  <2>1. PICK m \in T : \A k \in T : m <= k
    BY LeastOf
  <2>2. n - m \in 1..n /\ s[n - m] > n - m /\ m \in Nat
    BY <2>1
  <2>3. CASE m = 0
    BY <2>2, <2>3
  <2>4. CASE m # 0
    <3>1. m - 1 \in Nat /\ n - (m - 1) = n - m + 1 /\ n - m + 1 \in 1..n
      BY <2>2, <2>4
    <3>2. m - 1 \notin T
      <4> HIDE DEF T
      <4> QED
        BY <2>1, <2>2, <3>1
    <3>3. s[n - m + 1] <= n - m + 1
      <4>1. ~(s[n - (m - 1)] > n - (m - 1))
        BY <3>1, <3>2
      <4>2. s[n - m + 1] \in 1..n
        BY <3>1
      <4> QED
        BY <3>1, <4>1, <4>2
    <3>4. s[n - m] < s[n - m + 1]
      BY <2>2, <3>1
    <3> QED
      BY <2>2, <3>1, <3>3, <3>4
  <2> QED
    BY <2>3, <2>4
<1> QED
  BY <1>1, <1>2

LEMMA CountsAgree == ASSUME NEW S PROVE Call!Cardinality(S) = Cardinality(S)
BY DEF Call!Cardinality, Cardinality

LEMMA OrderOfTheFirst ==
  ASSUME NEW n \in Nat
  PROVE  LET s == Call!InOrder(1..n) IN
           s \in Seq(1..n) /\ Len(s) = n /\ \A i \in 1..n : s[i] = i
<1> DEFINE s == Call!InOrder(1..n)
           P(t) == \A i, j \in DOMAIN t : i < j => t[i] < t[j]
<1>1. Call!Cardinality(1..n) = n
  BY CountsAgree, FS_Interval
<1>2. s = CHOOSE t \in [1..n -> 1..n] : P(t)
  BY <1>1 DEF Call!InOrder
<1>3. \E t \in [1..n -> 1..n] : P(t)
  <2> DEFINE t == [i \in 1..n |-> i]
  <2>1. t \in [1..n -> 1..n] /\ P(t)
    OBVIOUS
  <2> QED
    BY <2>1
<1>4. s \in [1..n -> 1..n] /\ P(s)
  <2> HIDE DEF s, P
  <2> QED
    BY <1>2, <1>3
<1> HIDE DEF s
<1>5. \A i \in 1..n : s[i] = i
  BY <1>4, RisingIsIdentity
<1>6. s \in Seq(1..n) /\ Len(s) = n /\ \A i \in 1..n : s[i] = i
  BY <1>4, <1>5
<1> QED
  BY <1>6 DEF s

-----------------------------------------------------------------------------
MindPlaces == {"compose", "offer", "asked", "body", "stream", "returned", "acts"}
MindErrors == {None, "refused", "transport", "status", "rejected", "unreadable", "stream",
               "truncated", "empty"}
Minds == [at : MindPlaces, dialect : Dialects, tools : BOOLEAN, streams : BOOLEAN,
          address : Nat, error : MindErrors, sent : Nat, answered : BOOLEAN]
Numbers == 1..Offered
Wires == [text : Nat, pieces : [Numbers -> 0..Pieces], done : SUBSET Numbers]
Results == [text : Nat, calls : Seq([index : Nat, pieces : Nat])]

MindTypes == /\ turn \in Minds /\ wire \in Wires /\ result \in Results
             /\ decoder \in [Numbers -> Nat \cup {None}]

Blank == wire = Call!Silent /\ decoder = Call!Nothing /\ result = Call!NoResult

TakenWhole == \A k \in 1..Len(result.calls) : result.calls[k] = [index |-> k, pieces |-> Pieces]

\* Nothing that has begun is left out.
Covered == \A i \in Numbers : wire.pieces[i] > 0 => i <= Len(result.calls)

OneByOne ==
  /\ wire.done = 1..Len(result.calls)
  /\ \A i \in Numbers : wire.pieces[i] > 0 => i <= Len(result.calls) + 1
  /\ \A i \in Numbers : decoder[i] = IF i \in wire.done \/ wire.pieces[i] = 0 THEN None
                                     ELSE wire.pieces[i]

Collected ==
  /\ result.calls = <<>>
  /\ \A i \in Numbers : decoder[i] = IF wire.pieces[i] = 0 THEN None ELSE wire.pieces[i]
  /\ \E n \in 0..Offered : \A i \in Numbers : wire.pieces[i] > 0 <=> i <= n
  /\ \/ wire.done = {}
     \/ wire.done = Numbers /\ \E i \in Numbers : 0 < wire.pieces[i] /\ wire.pieces[i] < Pieces

Handed == /\ wire.done = Numbers /\ \A i \in Numbers : decoder[i] = None
          /\ Covered

Streamed == /\ TakenWhole
            /\ turn.dialect = "anthropic" => OneByOne
            /\ turn.dialect # "anthropic" => Collected \/ Handed

Erring ==
  /\ turn.at \notin {"returned", "acts"} => (turn.answered <=> turn.error \notin {None, "transport"})
  /\ turn.at \in {"returned", "acts"} => (turn.answered => turn.error # "transport")

MindInv ==
  /\ MindTypes /\ Erring
  /\ turn.at \in {"compose", "offer", "asked", "body"} => Blank
  /\ turn.at = "stream" => Streamed
  /\ turn.at \in {"returned", "acts"} => TakenWhole /\ Covered

LEMMA BlankIsTyped ==
  /\ Call!Silent \in Wires /\ Call!Nothing \in [Numbers -> Nat \cup {None}]
  /\ Call!NoResult \in Results
  /\ Call!Silent.done = {} /\ \A i \in Numbers : Call!Silent.pieces[i] = 0 /\ Call!Nothing[i] = None
  /\ Call!NoResult.calls = <<>>
BY CallsAreCounted DEF Call!Silent, Call!Nothing, Call!NoResult, Call!Call, Wires, Results, Numbers

LEMMA BlankIsFine ==
  ASSUME Blank
  PROVE  /\ TakenWhole /\ Covered /\ Streamed
         /\ wire \in Wires /\ result \in Results /\ decoder \in [Numbers -> Nat \cup {None}]
<1>1. /\ wire.done = {} /\ result.calls = <<>> /\ Len(result.calls) = 0
      /\ \A i \in Numbers : wire.pieces[i] = 0 /\ decoder[i] = None
  BY BlankIsTyped DEF Blank
<1>2. TakenWhole /\ Covered
  BY <1>1 DEF TakenWhole, Covered
<1>3. OneByOne
  BY <1>1 DEF OneByOne
<1>4. Collected
  <2>1. 0 \in 0..Offered /\ \A i \in Numbers : wire.pieces[i] > 0 <=> i <= 0
    BY <1>1, CallsAreCounted DEF Numbers
  <2> QED
    BY <1>1, <2>1 DEF Collected
<1> QED
  BY <1>2, <1>3, <1>4, BlankIsTyped DEF Streamed, Blank

LEMMA MindInit == Call!Init => MindInv
<1> SUFFICES ASSUME Call!Init PROVE MindInv
  OBVIOUS
<1>1. Blank
  BY DEF Call!Init, Blank
<1>2. turn \in [at : {"compose"}, dialect : Dialects, tools : BOOLEAN, streams : BOOLEAN,
                 address : {0}, error : {None}, sent : {0}, answered : {FALSE}]
  BY DEF Call!Init
<1>3. /\ turn \in Minds /\ turn.at = "compose" /\ turn.error = None /\ ~turn.answered
  <2>1. turn.at = "compose" /\ turn.error = None /\ turn.answered = FALSE
    BY <1>2
  <2>2. "compose" \in MindPlaces /\ None \in MindErrors /\ FALSE \in BOOLEAN /\ 0 \in Nat
    BY DEF MindPlaces, MindErrors
  <2> HIDE DEF Call!Init
  <2>3. turn \in Minds
    BY <1>2, <2>2, Zenon DEF Minds
  <2> QED
    BY <2>1, <2>3
<1> QED
  BY <1>1, <1>3, BlankIsFine DEF MindInv, MindTypes, Erring

LEMMA MindKnown ==
  ASSUME MindInv
  PROVE  /\ turn \in Minds /\ wire \in Wires /\ result \in Results
         /\ decoder \in [Numbers -> Nat \cup {None}] /\ Erring
BY DEF MindInv, MindTypes

\* Only where the turn is, and nothing of the answer.
LEMMA MindRests ==
  ASSUME MindInv, UNCHANGED <<turn, wire, decoder, result>>
  PROVE  MindInv'
BY DEF MindInv, MindTypes, Erring, Blank, Streamed, TakenWhole, Covered, OneByOne, Collected, Handed

\* An address fails: what it sent is dropped, and its error takes the place of
\* one that says less.
LEMMA FailedKeeps ==
  ASSUME MindInv, turn.at \in {"asked", "body", "stream"}, NEW error \in MindErrors \ {None},
         Call!Failed(error)
  PROVE  MindInv'
<1>k. turn \in Minds /\ Erring
  BY MindKnown
<1> DEFINE last == Call!Final(error) \/ turn.address = Addresses
           at == IF last THEN "returned" ELSE "offer"
           e == IF Call!Final(error) THEN error ELSE Call!Prefer(turn.error, error)
           a == turn.answered \/ ~Call!IsTransport(error)
<1>1. turn' = [turn EXCEPT !.at = at, !.error = e, !.answered = a]
  BY <1>k DEF Call!Failed, Minds
<1>2. Blank'
  BY DEF Call!Failed, Blank
<1>3. at \in {"returned", "offer"}
  OBVIOUS
<1>4. e \in MindErrors
  BY <1>k DEF Call!Prefer, Minds
<1>5. a \in BOOLEAN /\ (a <=> turn.answered \/ error # "transport")
  BY <1>k DEF Call!IsTransport, Minds
<1>6. a <=> e \notin {None, "transport"}
  <2>1. turn.answered <=> turn.error \notin {None, "transport"}
    BY <1>k DEF Erring
  <2>2. CASE Call!Final(error)
    <3>1. error # "transport" /\ error # None /\ e = error
      BY <2>2 DEF Call!Final
    <3> HIDE DEF e, a
    <3> QED
      BY <1>5, <3>1
  <2>3. CASE ~Call!Final(error)
    <3>1. e = Call!Prefer(turn.error, error)
      BY <2>3
    <3>2. e = (IF turn.error = None \/ (turn.error = "transport" /\ error # "transport")
               THEN error ELSE turn.error)
      BY <3>1 DEF Call!Prefer, Call!IsTransport
    <3> HIDE DEF e, a
    <3> QED
      BY <1>5, <2>1, <3>2
  <2> QED
    BY <2>2, <2>3
<1> HIDE DEF at, e, a
<1>7. turn' \in Minds /\ turn'.at = at /\ turn'.error = e /\ turn'.answered = a
  BY <1>k, <1>1, <1>3, <1>4, <1>5 DEF Minds, MindPlaces
<1>8. Erring'
  BY <1>3, <1>6, <1>7 DEF Erring
<1>9. (TakenWhole /\ Covered /\ wire \in Wires /\ result \in Results
       /\ decoder \in [Numbers -> Nat \cup {None}])'
  BY <1>2, BlankIsFine, PTL
<1> QED
  BY <1>2, <1>3, <1>7, <1>8, <1>9 DEF MindInv, MindTypes

\* The call returns.
LEMMA MindReturns ==
  ASSUME MindInv, NEW error \in MindErrors, error # "transport", NEW n \in Nat, Call!Return(error, n),
         wire' \in Wires, result' \in Results, decoder' \in [Numbers -> Nat \cup {None}],
         TakenWhole', Covered'
  PROVE  MindInv'
<1>k. turn \in Minds
  BY MindKnown
<1>1. turn' = [turn EXCEPT !.at = "returned", !.error = error, !.sent = n]
  BY DEF Call!Return
<1>2. turn' \in Minds /\ turn'.at = "returned" /\ turn'.error = error
  BY <1>k, <1>1 DEF Minds, MindPlaces
<1>3. Erring'
  BY <1>2 DEF Erring
<1> QED
  BY <1>2, <1>3 DEF MindInv, MindTypes

LEMMA AskingSteps ==
  ASSUME MindInv,
         \/ Call!Refuse \/ Call!Compose \/ Call!Offer \/ Call!Unreachable \/ Call!Refused
         \/ Call!Answered \/ Call!Broken
  PROVE  MindInv'
<1>k. turn \in Minds /\ Erring
  BY MindKnown
<1>e. {"refused", "transport", "status", "rejected", "unreadable", "stream", "truncated", "empty"}
        \subseteq MindErrors \ {None}
  BY NoneIsNothing DEF MindErrors
<1>1. CASE Call!Refuse
  <2>1. Blank /\ UNCHANGED <<wire, decoder, result>> /\ Call!Return("refused", 0)
    BY <1>1 DEF Call!Refuse, MindInv
  <2>2. TakenWhole /\ Covered /\ wire \in Wires /\ result \in Results
        /\ decoder \in [Numbers -> Nat \cup {None}]
    BY <2>1, BlankIsFine
  <2>3. TakenWhole' /\ Covered'
    BY <2>1, <2>2 DEF TakenWhole, Covered
  <2> QED
    BY <1>e, <2>1, <2>2, <2>3, MindReturns
<1>2. ASSUME NEW at \in {"offer", "asked", "stream", "body"}, NEW a \in Nat,
             turn' = [turn EXCEPT !.at = at, !.address = a],
             turn.at \in {"compose", "offer", "asked"},
             UNCHANGED <<wire, decoder, result>>
      PROVE  MindInv'
  <2>1. turn' \in Minds /\ turn'.at = at /\ turn'.error = turn.error /\ turn'.answered = turn.answered
    BY <1>k, <1>2 DEF Minds, MindPlaces
  <2>2. Erring'
    BY <1>k, <1>2, <2>1 DEF Erring
  <2>3. Blank
    BY <1>2 DEF MindInv
  <2>4. Blank'
    BY <1>2, <2>3 DEF Blank
  <2>5. (Streamed /\ wire \in Wires /\ result \in Results /\ decoder \in [Numbers -> Nat \cup {None}])'
    BY <2>4, BlankIsFine, PTL
  <2> QED
    BY <1>2, <2>1, <2>2, <2>4, <2>5 DEF MindInv, MindTypes
<1>3. CASE Call!Compose
  <2>1. turn' = [turn EXCEPT !.at = "offer", !.address = turn.address] /\ turn.address \in Nat
    BY <1>3, <1>k DEF Call!Compose, Minds
  <2> QED
    BY <1>3, <1>2, <2>1 DEF Call!Compose
<1>4. CASE Call!Offer
  <2>1. turn' = [turn EXCEPT !.at = "asked", !.address = turn.address + 1] /\ turn.address + 1 \in Nat
    BY <1>4, <1>k DEF Call!Offer, Minds
  <2> QED
    BY <1>4, <1>2, <2>1 DEF Call!Offer
<1>5. CASE Call!Answered
  <2> DEFINE at == IF turn.streams THEN "stream" ELSE "body"
  <2>1. at \in {"stream", "body"}
    OBVIOUS
  <2>2. turn' = [turn EXCEPT !.at = at, !.address = turn.address] /\ turn.address \in Nat
    BY <1>5, <1>k DEF Call!Answered, Minds
  <2> HIDE DEF at
  <2> QED
    BY <1>5, <1>2, <2>1, <2>2 DEF Call!Answered
<1>6. CASE Call!Unreachable
  BY <1>6, <1>e, FailedKeeps DEF Call!Unreachable
<1>7. CASE Call!Refused
  <2>1. PICK error \in {"status", "rejected"} : Call!Failed(error)
    BY <1>7 DEF Call!Refused
  <2> QED
    BY <1>7, <1>e, <2>1, FailedKeeps DEF Call!Refused
<1>8. CASE Call!Broken
  BY <1>8, <1>e, FailedKeeps DEF Call!Broken
<1> QED
  BY <1>1, <1>3, <1>4, <1>5, <1>6, <1>7, <1>8

\* A body is taken as it is.
LEMMA BodyKeeps == ASSUME MindInv, Call!Body PROVE MindInv'
<1>1. CASE Call!Failed("unreadable")
  <2>1. "unreadable" \in MindErrors \ {None} /\ turn.at = "body"
    BY NoneIsNothing DEF MindErrors, Call!Body
  <2> QED
    BY <1>1, <2>1, FailedKeeps
<1>2. CASE ~Call!Failed("unreadable")
  <2>1. Call!Return(None, 0) /\ UNCHANGED <<wire, decoder>> /\ turn.at = "body"
    BY <1>2 DEF Call!Body
  <2>2. PICK n \in 0..Offered, last \in {Pieces} :
          result' = [text |-> 1, calls |-> [i \in 1..n |->
                       [index |-> i, pieces |-> IF i = n THEN last ELSE Pieces]]]
    BY <1>2 DEF Call!Body
  <2> DEFINE calls == [i \in 1..n |-> [index |-> i, pieces |-> Pieces]]
  <2>3. result' = [text |-> 1, calls |-> calls]
    BY <2>2
  <2>4. calls \in Seq([index : Nat, pieces : Nat]) /\ Len(calls) = n
        /\ \A i \in 1..n : calls[i] = [index |-> i, pieces |-> Pieces]
    BY CallsAreCounted
  <2> HIDE DEF calls
  <2>5. result' \in Results /\ TakenWhole'
    BY <2>3, <2>4 DEF Results, TakenWhole
  <2>6. Blank
    BY <2>1 DEF MindInv
  <2>7. wire' \in Wires /\ decoder' \in [Numbers -> Nat \cup {None}]
        /\ \A i \in Numbers : wire'.pieces[i] = 0
    BY <2>1, <2>6, BlankIsFine, BlankIsTyped DEF Blank
  <2>8. Covered'
    BY <2>7 DEF Covered
  <2>9. None \in MindErrors /\ None # "transport"
    BY NoneIsNothing DEF MindErrors
  <2> QED
    BY <2>1, <2>5, <2>7, <2>8, <2>9, MindReturns
<1> QED
  BY <1>1, <1>2

\* Something of the answer comes while it streams.
LEMMA StreamMoves ==
  ASSUME MindInv, turn.at = "stream",
         turn' = turn \/ turn' = [turn EXCEPT !.sent = turn.sent + 1],
         wire' \in Wires, result' \in Results, decoder' \in [Numbers -> Nat \cup {None}],
         TakenWhole',
         turn.dialect = "anthropic" => OneByOne', turn.dialect # "anthropic" => Collected' \/ Handed'
  PROVE  MindInv'
<1>1. turn \in Minds /\ Erring
  BY MindKnown
<1>2. turn.sent + 1 \in Nat
  BY <1>1 DEF Minds
<1>3. /\ turn' \in Minds /\ turn'.at = "stream" /\ turn'.error = turn.error
      /\ turn'.answered = turn.answered /\ turn'.dialect = turn.dialect
  BY <1>1, <1>2 DEF Minds
<1>4. Erring'
  BY <1>1, <1>3 DEF Erring
<1>5. Streamed'
  BY <1>3 DEF Streamed
<1> QED
  BY <1>3, <1>4, <1>5 DEF MindInv, MindTypes

LEMMA StreamKnown ==
  ASSUME MindInv, turn.at = "stream"
  PROVE  /\ wire \in Wires /\ result \in Results /\ decoder \in [Numbers -> Nat \cup {None}]
         /\ TakenWhole /\ (turn.dialect = "anthropic" => OneByOne)
         /\ (turn.dialect # "anthropic" => Collected \/ Handed)
         /\ result.calls \in Seq([index : Nat, pieces : Nat]) /\ Len(result.calls) \in Nat
BY DEF MindInv, MindTypes, Streamed, Results

LEMMA TextKeeps == ASSUME MindInv, Call!Text PROVE MindInv'
<1>1. turn.at = "stream"
  BY DEF Call!Text
<1>k. /\ wire \in Wires /\ result \in Results /\ decoder \in [Numbers -> Nat \cup {None}]
      /\ TakenWhole /\ (turn.dialect = "anthropic" => OneByOne)
      /\ (turn.dialect # "anthropic" => Collected \/ Handed)
  BY <1>1, StreamKnown
<1>2. wire' = [wire EXCEPT !.text = 1] /\ result' = [result EXCEPT !.text = @ + 1]
      /\ turn' = [turn EXCEPT !.sent = turn.sent + 1] /\ decoder' = decoder
  BY DEF Call!Text, Call!Send
<1>n. result.text + 1 \in Nat
  BY <1>k DEF Results
<1>r. result' = [result EXCEPT !.text = result.text + 1]
  BY <1>2
<1>3. wire' \in Wires /\ result' \in Results /\ wire'.pieces = wire.pieces /\ wire'.done = wire.done
      /\ result'.calls = result.calls
  BY <1>k, <1>2, <1>n, <1>r DEF Wires, Results
<1>4. TakenWhole' /\ (turn.dialect = "anthropic" => OneByOne')
      /\ (turn.dialect # "anthropic" => Collected' \/ Handed')
  BY <1>k, <1>2, <1>3 DEF TakenWhole, OneByOne, Collected, Handed, Covered
<1> QED
  BY <1>k, <1>1, <1>2, <1>3, <1>4, StreamMoves

LEMMA FragmentKeeps ==
  ASSUME MindInv, NEW i \in Numbers, Call!Fragment(i)
  PROVE  MindInv'
<1>1. turn.at = "stream"
  BY DEF Call!Fragment
<1>k. /\ wire \in Wires /\ result \in Results /\ decoder \in [Numbers -> Nat \cup {None}]
      /\ TakenWhole /\ (turn.dialect = "anthropic" => OneByOne)
      /\ (turn.dialect # "anthropic" => Collected \/ Handed)
      /\ Len(result.calls) \in Nat
  BY <1>1, StreamKnown
<1> DEFINE p == [wire.pieces EXCEPT ![i] = wire.pieces[i] + 1]
           n == IF decoder[i] = None THEN 1 ELSE decoder[i] + 1
<1>2. /\ wire' = [wire EXCEPT !.pieces = p] /\ decoder' = [decoder EXCEPT ![i] = n]
      /\ turn' = [turn EXCEPT !.sent = turn.sent + 1] /\ result' = result
  BY DEF Call!Fragment, Call!Send
<1>3. /\ i \notin wire.done /\ i \in 1..Offered /\ i \in Nat
      /\ i > 1 => IF turn.dialect = "anthropic" THEN i - 1 \in wire.done ELSE wire.pieces[i - 1] > 0
  BY CallsAreCounted DEF Call!Fragment, Numbers
<1>4. wire.pieces \in [Numbers -> 0..Pieces] /\ wire.pieces[i] + 1 \in 0..Pieces
  <2>1. wire.pieces \in [Numbers -> 0..Pieces] /\ wire.pieces[i] < Pieces
    BY <1>k DEF Wires, Call!Fragment
  <2> QED
    BY <2>1, CallsAreCounted
<1>5. /\ p \in [Numbers -> 0..Pieces] /\ p[i] = wire.pieces[i] + 1 /\ p[i] > 0
      /\ \A j \in Numbers \ {i} : p[j] = wire.pieces[j]
  BY <1>4
<1>6. n \in Nat
  BY <1>k, NoneIsNothing
<1>7. decoder' \in [Numbers -> Nat \cup {None}] /\ decoder'[i] = n
      /\ \A j \in Numbers \ {i} : decoder'[j] = decoder[j]
  BY <1>k, <1>2, <1>6
<1>8. (decoder[i] = IF wire.pieces[i] = 0 THEN None ELSE wire.pieces[i]) => n = p[i]
  <2>1. decoder[i] = None => n = 1
    OBVIOUS
  <2>2. decoder[i] # None => n = decoder[i] + 1
    OBVIOUS
  <2>3. None \notin Nat
    BY NoneIsNothing
  <2> HIDE DEF p, n
  <2> QED
    BY <1>4, <1>5, <2>1, <2>2, <2>3
<1> HIDE DEF p, n
<1>9. wire' \in Wires /\ wire'.pieces = p /\ wire'.done = wire.done
  BY <1>k, <1>2, <1>5 DEF Wires
<1>10. TakenWhole'
  BY <1>k, <1>2 DEF TakenWhole
<1>11. ASSUME turn.dialect = "anthropic" PROVE OneByOne'
  <2>1. OneByOne
    BY <1>k, <1>11
  <2>2. i <= Len(result.calls) + 1
    BY <1>k, <1>3, <1>11, <2>1 DEF OneByOne
  <2>3. n = p[i]
    BY <1>3, <1>8, <2>1 DEF OneByOne
  <2>4. \A j \in Numbers : p[j] > 0 => j <= Len(result.calls) + 1
    BY <1>5, <2>1, <2>2 DEF OneByOne
  <2>5. \A j \in Numbers : decoder'[j] = IF j \in wire.done \/ p[j] = 0 THEN None ELSE p[j]
    <3>1. ASSUME NEW j \in Numbers, j # i
          PROVE  decoder'[j] = IF j \in wire.done \/ p[j] = 0 THEN None ELSE p[j]
      BY <1>5, <1>7, <2>1, <3>1 DEF OneByOne
    <3>2. decoder'[i] = IF i \in wire.done \/ p[i] = 0 THEN None ELSE p[i]
      BY <1>3, <1>5, <1>7, <2>3
    <3> QED
      BY <3>1, <3>2
  <2> QED
    BY <1>2, <1>9, <2>1, <2>4, <2>5 DEF OneByOne
<1>12. ASSUME turn.dialect # "anthropic" PROVE Collected'
  <2>1. Collected /\ wire.done = {}
    <3>1. ~Handed /\ wire.done # Numbers
      BY <1>3 DEF Handed
    <3> QED
      BY <1>k, <1>12, <3>1 DEF Collected
  <2>2. n = p[i]
    BY <1>8, <2>1 DEF Collected
  <2>3. \A j \in Numbers : decoder'[j] = IF p[j] = 0 THEN None ELSE p[j]
    <3>1. ASSUME NEW j \in Numbers, j # i PROVE decoder'[j] = IF p[j] = 0 THEN None ELSE p[j]
      BY <1>5, <1>7, <2>1, <3>1 DEF Collected
    <3>2. decoder'[i] = IF p[i] = 0 THEN None ELSE p[i]
      BY <1>5, <1>7, <2>2
    <3> QED
      BY <3>1, <3>2
  <2>4. PICK m \in 0..Offered : \A j \in Numbers : wire.pieces[j] > 0 <=> j <= m
    BY <2>1 DEF Collected
  <2>5. \E k \in 0..Offered : \A j \in Numbers : p[j] > 0 <=> j <= k
    <3>1. CASE i <= m
      <4>1. \A j \in Numbers : p[j] > 0 <=> j <= m
        BY <1>5, <2>4, <3>1
      <4> QED
        BY <4>1
    <3>2. CASE ~(i <= m)
      <4>1. i = m + 1
        <5>1. CASE i = 1
          BY <3>2, <5>1
        <5>2. CASE i # 1
          <6>0. i > 1 /\ i - 1 \in Numbers
            BY <1>3, <5>2, CallsAreCounted DEF Numbers
          <6>1. wire.pieces[i - 1] > 0
            BY <1>3, <1>12, <6>0
          <6>2. i - 1 <= m
            BY <2>4, <6>0, <6>1
          <6> QED
            BY <1>3, <3>2, <6>2
        <5> QED
          BY <5>1, <5>2
      <4>2. \A j \in Numbers : p[j] > 0 <=> j <= i
        BY <1>5, <1>4, <2>4, <4>1 DEF Numbers
      <4>3. i \in 0..Offered
        BY <1>3
      <4> QED
        BY <4>2, <4>3
    <3> QED
      BY <3>1, <3>2
  <2> QED
    BY <1>2, <1>9, <2>1, <2>3, <2>5 DEF Collected
<1> QED
  BY <1>k, <1>1, <1>2, <1>7, <1>9, <1>10, <1>11, <1>12, StreamMoves

\* content_block_stop: the call that is open is the next one.
LEMMA StopKeeps == ASSUME MindInv, NEW i \in Numbers, Call!Stop(i) PROVE MindInv'
<1>1. turn.at = "stream" /\ turn.dialect = "anthropic"
  BY DEF Call!Stop
<1>k. /\ wire \in Wires /\ result \in Results /\ decoder \in [Numbers -> Nat \cup {None}]
      /\ TakenWhole /\ (turn.dialect = "anthropic" => OneByOne)
      /\ (turn.dialect # "anthropic" => Collected \/ Handed)
      /\ result.calls \in Seq([index : Nat, pieces : Nat]) /\ Len(result.calls) \in Nat
  BY <1>1, StreamKnown
<1>o. OneByOne
  BY <1>k, <1>1
<1> DEFINE one == [index |-> i, pieces |-> decoder[i]]
           L == Len(result.calls)
<1>2. /\ wire' = [wire EXCEPT !.done = wire.done \cup {i}] /\ decoder' = [decoder EXCEPT ![i] = None]
      /\ result' = [result EXCEPT !.calls = Append(result.calls, one)] /\ turn' = turn
  BY DEF Call!Stop, Call!Complete
<1>3. decoder[i] # None /\ wire.pieces[i] = Pieces
  BY DEF Call!Stop, Call!Open, Call!Whole
<1>4. i \notin wire.done /\ wire.pieces[i] > 0 /\ decoder[i] = wire.pieces[i] /\ i \in Nat
      /\ wire.pieces[i] \in Nat
  <2>1. wire.pieces[i] \in Nat /\ i \in Nat
    BY <1>k, CallsAreCounted DEF Wires, Numbers
  <2>2. i \notin wire.done /\ wire.pieces[i] # 0 /\ decoder[i] = wire.pieces[i]
    BY <1>o, <1>3 DEF OneByOne
  <2> QED
    BY <2>1, <2>2
<1>5. i = L + 1
  <2>1. i <= L + 1 /\ i \notin 1..L
    BY <1>o, <1>4 DEF OneByOne
  <2>2. i >= 1
    BY DEF Numbers
  <2> QED
    BY <1>k, <1>4, <2>1, <2>2
<1>6. one \in [index : Nat, pieces : Nat] /\ one = [index |-> L + 1, pieces |-> Pieces]
  BY <1>3, <1>4, <1>5
<1> HIDE DEF one
<1>7. /\ Append(result.calls, one) \in Seq([index : Nat, pieces : Nat])
      /\ Len(Append(result.calls, one)) = L + 1
      /\ \A k \in 1..L : Append(result.calls, one)[k] = result.calls[k]
      /\ Append(result.calls, one)[L + 1] = one
  BY <1>k, <1>6
<1>8. /\ wire' \in Wires /\ wire'.pieces = wire.pieces /\ wire'.done = wire.done \cup {i}
      /\ result' \in Results /\ result'.calls = Append(result.calls, one)
  BY <1>k, <1>2, <1>7 DEF Wires, Results
<1>9. TakenWhole'
  <2>1. ASSUME NEW k \in 1..(L + 1)
        PROVE  Append(result.calls, one)[k] = [index |-> k, pieces |-> Pieces]
    <3>1. CASE k = L + 1
      BY <1>6, <1>7, <3>1
    <3>2. CASE k # L + 1
      <4>1. k \in 1..L
        BY <1>k, <3>2
      <4> QED
        BY <1>k, <1>7, <4>1 DEF TakenWhole
    <3> QED
      BY <3>1, <3>2
  <2> QED
    BY <1>7, <1>8, <2>1 DEF TakenWhole
<1>10. OneByOne'
  <2>1. wire'.done = 1..(L + 1)
    BY <1>k, <1>o, <1>5, <1>8 DEF OneByOne
  <2>2. \A j \in Numbers : wire'.pieces[j] > 0 => j <= (L + 1) + 1
    <3>1. ASSUME NEW j \in Numbers, wire.pieces[j] > 0 PROVE j <= (L + 1) + 1
      <4>1. j <= L + 1 /\ j \in Nat
        BY <1>o, <3>1, CallsAreCounted DEF OneByOne, Numbers
      <4> QED
        BY <1>k, <4>1
    <3> QED
      BY <1>8, <3>1
  <2>3. \A j \in Numbers : decoder'[j] = IF j \in wire'.done \/ wire'.pieces[j] = 0 THEN None
                                         ELSE wire'.pieces[j]
    BY <1>k, <1>o, <1>2, <1>8 DEF OneByOne
  <2> QED
    BY <1>7, <1>8, <2>1, <2>2, <2>3 DEF OneByOne
<1>11. decoder' \in [Numbers -> Nat \cup {None}]
  BY <1>k, <1>2
<1> QED
  BY <1>1, <1>2, <1>8, <1>9, <1>10, <1>11, StreamMoves

\* A finish reason hands over what was collected, or leaves it to Finalize.
LEMMA FinishKeeps ==
  ASSUME MindInv, NEW reason \in {"stop", "length"}, Call!Finish(reason)
  PROVE  MindInv'
<1>1. turn.at = "stream" /\ turn.dialect # "anthropic"
  BY DEF Call!Finish
<1>k. /\ wire \in Wires /\ result \in Results /\ decoder \in [Numbers -> Nat \cup {None}]
      /\ TakenWhole /\ (turn.dialect = "anthropic" => OneByOne)
      /\ (turn.dialect # "anthropic" => Collected \/ Handed)
      /\ result.calls \in Seq([index : Nat, pieces : Nat]) /\ Len(result.calls) \in Nat
  BY <1>1, StreamKnown
<1>2. PICK o \in Numbers : decoder[o] # None
  BY DEF Call!Finish, Call!Open, Call!Call, Numbers
<1>c. Collected
  BY <1>k, <1>1, <1>2 DEF Handed
<1> DEFINE taken == Call!Taken(reason)
           new == [k \in DOMAIN taken |-> [index |-> taken[k], pieces |-> decoder[taken[k]]]]
           left == [i \in Numbers |-> IF i \in {taken[k] : k \in DOMAIN taken} THEN None ELSE decoder[i]]
<1>3. /\ result' = [result EXCEPT !.calls = result.calls \o new] /\ decoder' = left
      /\ wire' = [wire EXCEPT !.done = Numbers] /\ turn' = turn
  BY DEF Call!Finish, Call!Complete, Call!ToSet, Call!Call, Numbers
<1>4. wire.pieces \in [Numbers -> 0..Pieces] /\ wire' \in Wires /\ wire'.pieces = wire.pieces
      /\ wire'.done = Numbers
  BY <1>k, <1>3 DEF Wires
<1>5. CASE reason = "length"
  <2>1. taken = <<>>
    BY <1>5 DEF Call!Taken
  <2>2. new = <<>> /\ left = [i \in Numbers |-> decoder[i]]
    BY <2>1
  <2> HIDE DEF new, left
  <2>3. result.calls = <<>> /\ result.calls \o new = <<>>
    BY <1>c, <2>2 DEF Collected
  <2>4. result' = result /\ decoder' = decoder
    BY <1>k, <1>3, <2>2, <2>3 DEF Results
  <2>5. \E i \in Numbers : 0 < wire.pieces[i] /\ wire.pieces[i] < Pieces
    <3>1. PICK i \in Numbers : decoder[i] # None /\ wire.pieces[i] # Pieces
      BY <1>5 DEF Call!Finish, Call!Open, Call!Whole, Call!Call, Numbers
    <3>2. wire.pieces[i] # 0
      BY <1>c, <3>1 DEF Collected
    <3>3. wire.pieces[i] \in 0..Pieces
      BY <1>4
    <3> QED
      BY <1>4, <3>1, <3>2, <3>3, CallsAreCounted
  <2>6. Collected' /\ TakenWhole'
    BY <1>c, <1>k, <1>4, <2>4, <2>5 DEF Collected, TakenWhole
  <2> QED
    BY <1>1, <1>3, <1>k, <1>4, <2>4, <2>6, StreamMoves
<1>6. CASE reason = "stop"
  <2>1. PICK n \in 0..Offered : \A i \in Numbers : wire.pieces[i] > 0 <=> i <= n
    BY <1>c DEF Collected
  <2>2. Call!Open = 1..n
    <3>1. \A i \in Numbers : decoder[i] # None <=> wire.pieces[i] > 0
      <4>1. \A i \in Numbers : wire.pieces[i] \in Nat
        BY <1>4
      <4> QED
        BY <1>c, <4>1, NoneIsNothing DEF Collected
    <3>2. Call!Open = {i \in Numbers : i <= n}
      <4>1. Call!Open = {i \in Numbers : decoder[i] # None}
        BY DEF Call!Open, Call!Call, Numbers
      <4> QED
        BY <2>1, <3>1, <4>1
    <3>3. n \in Nat /\ n <= Offered /\ Offered \in Nat
      BY CallsAreCounted
    <3>4. {i \in 1..Offered : i <= n} = 1..n
      BY <3>3
    <3> QED
      BY <3>2, <3>4 DEF Numbers
  <2>3. taken = Call!InOrder(1..n)
    BY <1>6, <2>2 DEF Call!Taken
  <2>4. n \in Nat /\ taken \in Seq(1..n) /\ Len(taken) = n /\ \A i \in 1..n : taken[i] = i
    BY <2>3, OrderOfTheFirst, CallsAreCounted
  <2>5. DOMAIN taken = 1..n
    BY <2>4
  <2>6. \A i \in 1..n : i \in Numbers /\ decoder[i] = Pieces
    <3>1. ASSUME NEW i \in 1..n PROVE i \in Numbers /\ decoder[i] = Pieces
      <4>1. i \in Numbers
        BY CallsAreCounted DEF Numbers
      <4>2. wire.pieces[i] = Pieces
        BY <1>6, <2>2 DEF Call!Finish, Call!Whole
      <4>3. wire.pieces[i] > 0
        BY <2>1, <4>1
      <4> QED
        BY <1>c, <1>4, <4>1, <4>2, <4>3 DEF Collected
    <3> QED
      BY <3>1
  <2>7. new = [k \in 1..n |-> [index |-> k, pieces |-> Pieces]]
    BY <2>4, <2>5, <2>6
  <2>8. \A i \in Numbers : left[i] = None
    <3>1. ASSUME NEW i \in Numbers PROVE left[i] = None
      <4>1. CASE i <= n
        <5>1. i \in 1..n
          BY <4>1 DEF Numbers
        <5>2. i \in {taken[k] : k \in DOMAIN taken}
          BY <2>4, <2>5, <5>1
        <5> QED
          BY <5>2
      <4>2. CASE ~(i <= n)
        <5>1. wire.pieces[i] = 0
          BY <1>4, <2>1, <4>2
        <5>2. decoder[i] = None
          BY <1>c, <5>1 DEF Collected
        <5> QED
          BY <5>2
      <4> QED
        BY <4>1, <4>2
    <3> QED
      BY <3>1
  <2>9. left \in [Numbers -> Nat \cup {None}]
    BY <2>8
  <2> HIDE DEF taken, left, new
  <2>10. new \in Seq([index : Nat, pieces : Nat]) /\ Len(new) = n
         /\ \A k \in 1..n : new[k] = [index |-> k, pieces |-> Pieces]
    BY <2>4, <2>7, CallsAreCounted
  <2>11. result.calls \o new = new
    BY <1>c, <2>10, ConcatEmptySeq DEF Collected
  <2>12. result' \in Results /\ result'.calls = new
    BY <1>k, <1>3, <2>10, <2>11 DEF Results
  <2>13. TakenWhole'
    BY <2>10, <2>12 DEF TakenWhole
  <2>14. Covered'
    BY <1>4, <2>1, <2>10, <2>12 DEF Covered
  <2>15. Handed'
    BY <1>3, <1>4, <2>8, <2>14 DEF Handed
  <2> QED
    BY <1>1, <1>3, <1>4, <2>9, <2>12, <2>13, <2>15, StreamMoves
<1> QED
  BY <1>5, <1>6

\* The end of the stream is taken for the end of the answer only when nothing
\* is open.
LEMMA EndOfStreamKeeps == ASSUME MindInv, Call!EndOfStream PROVE MindInv'
<1>1. turn.at = "stream"
  BY DEF Call!EndOfStream
<1>k. /\ wire \in Wires /\ result \in Results /\ decoder \in [Numbers -> Nat \cup {None}]
      /\ TakenWhole /\ (turn.dialect = "anthropic" => OneByOne)
      /\ (turn.dialect # "anthropic" => Collected \/ Handed)
      /\ result.calls \in Seq([index : Nat, pieces : Nat]) /\ Len(result.calls) \in Nat
  BY <1>1, StreamKnown
<1>2. {"truncated", "empty"} \subseteq MindErrors \ {None} /\ None \in MindErrors /\ None # "transport"
  BY NoneIsNothing DEF MindErrors
<1>3. CASE Call!Failed("truncated") \/ Call!Failed("empty")
  BY <1>1, <1>2, <1>3, FailedKeeps
<1>4. CASE Call!Open = {} /\ Call!Return(None, turn.sent) /\ UNCHANGED <<wire, decoder, result>>
  <2>1. \A i \in Numbers : decoder[i] = None
    BY <1>4 DEF Call!Open, Call!Call, Numbers
  <2>2. \A i \in Numbers : wire.pieces[i] \in Nat
    BY <1>k DEF Wires
  <2>3. Covered
    <3>1. CASE OneByOne
      <4>1. ASSUME NEW i \in Numbers, wire.pieces[i] > 0 PROVE i <= Len(result.calls)
        <5>1. i \in wire.done
          BY <2>1, <2>2, <3>1, <4>1, NoneIsNothing DEF OneByOne
        <5> QED
          BY <3>1, <5>1 DEF OneByOne
      <4> QED
        BY <4>1 DEF Covered
    <3>2. CASE Collected
      <4>1. ASSUME NEW i \in Numbers PROVE wire.pieces[i] = 0
        BY <2>1, <2>2, <3>2, NoneIsNothing DEF Collected
      <4> QED
        BY <4>1 DEF Covered
    <3>3. CASE Handed
      BY <3>3 DEF Handed
    <3> QED
      BY <1>k, <3>1, <3>2, <3>3
  <2>4. TakenWhole' /\ Covered'
    BY <1>k, <1>4, <2>3 DEF TakenWhole, Covered
  <2>5. turn.sent \in Nat
    BY MindKnown DEF Minds
  <2> QED
    BY <1>k, <1>2, <1>4, <2>4, <2>5, MindReturns
<1> QED
  BY <1>3, <1>4 DEF Call!EndOfStream

LEMMA GoOnKeeps == ASSUME MindInv, Call!GoOn PROVE MindInv'
<1>1. turn' = [turn EXCEPT !.at = "acts"] /\ turn.at = "returned" /\ UNCHANGED <<wire, decoder, result>>
  BY DEF Call!GoOn
<1>2. /\ turn' \in Minds /\ turn'.at = "acts" /\ turn'.error = turn.error
      /\ turn'.answered = turn.answered
  BY <1>1, MindKnown DEF Minds, MindPlaces
<1>3. Erring'
  BY <1>1, <1>2, MindKnown DEF Erring
<1>4. TakenWhole' /\ Covered'
  BY <1>1 DEF MindInv, TakenWhole, Covered
<1> QED
  BY <1>1, <1>2, <1>3, <1>4 DEF MindInv, MindTypes

LEMMA MindKept == MindInv /\ [Call!Next]_Call!vars => MindInv'
<1> SUFFICES ASSUME MindInv, [Call!Next]_Call!vars PROVE MindInv'
  OBVIOUS
<1>1. CASE UNCHANGED Call!vars
  BY <1>1, MindRests DEF Call!vars
<1>2. CASE Call!Publish \/ Call!EndPublishing
  BY <1>2, MindRests DEF Call!Publish, Call!EndPublishing
<1>3. CASE Call!GoOn
  BY <1>3, GoOnKeeps
<1>4. CASE Call!Client
  <2>1. ASSUME NEW i \in Numbers, Call!Fragment(i) \/ Call!Stop(i) PROVE MindInv'
    BY <2>1, FragmentKeeps, StopKeeps
  <2>2. ASSUME NEW reason \in {"stop", "length"}, Call!Finish(reason) PROVE MindInv'
    BY <2>2, FinishKeeps
  <2>3. Call!Call = Numbers
    BY DEF Call!Call, Numbers
  <2> QED
    BY <1>4, <2>1, <2>2, <2>3, AskingSteps, BodyKeeps, TextKeeps, EndOfStreamKeeps DEF Call!Client
<1> QED
  BY <1>1, <1>2, <1>3, <1>4 DEF Call!Next

LEMMA MindInvImplies == MindInv => Call!CallsAreWhole /\ Call!AnswerIsReported
<1> SUFFICES ASSUME MindInv PROVE Call!CallsAreWhole /\ Call!AnswerIsReported
  OBVIOUS
<1>1. Call!AnswerIsReported
  BY DEF MindInv, Erring, Call!AnswerIsReported, Call!IsTransport
<1>2. ASSUME turn.at \in {"returned", "acts"}
      PROVE  /\ \A k \in DOMAIN result.calls : result.calls[k] = [index |-> k, pieces |-> Pieces]
             /\ \A i \in Numbers : wire.pieces[i] > 0 => i \in DOMAIN result.calls
  <2>1. DOMAIN result.calls = 1..Len(result.calls)
    BY DEF MindInv, MindTypes, Results
  <2>2. TakenWhole /\ Covered
    BY <1>2 DEF MindInv
  <2>3. \A i \in Numbers : wire.pieces[i] > 0 => i \in 1..Len(result.calls)
    BY <2>2, CallsAreCounted DEF Covered, Numbers
  <2> QED
    BY <2>1, <2>2, <2>3 DEF TakenWhole
<1>3. Call!CallsAreWhole
  BY <1>2 DEF Call!CallsAreWhole, Call!Succeeded, Call!Call, Numbers
<1> QED
  BY <1>1, <1>3

\* However an answer is cut into fragments and however it ends, the calls that the
\* turn acts on are whole and in order, and what an endpoint answered is reported.
THEOREM AnswersAreWholeAlone ==
  Call!Behaviour => [](Call!CallsAreWhole /\ Call!AnswerIsReported)
BY MindInit, MindKept, MindInvImplies, PTL DEF Call!Behaviour

\* AnswersAreWhole, in the composition the run checks.
THEOREM AnswersAreWholeAlways == MCSpec => []AnswersAreWhole
<1>1. MCInit => MindInv
  BY MindInit DEF MCInit
<1>2. [MCNext]_<<focus, opening, planned, crew, turns, call, watch, choice, context>>
          => [Call!Next]_Call!vars
  BY DEF MCNext, call, Call!vars
<1>3. MindInv => AnswersAreWhole
  BY MindInvImplies DEF AnswersAreWhole
<1> QED
  BY <1>1, <1>2, <1>3, MindKept, PTL DEF MCSpec

-----------------------------------------------------------------------------
(***************************************************************************)
(* The choice of a model.  What a run that searches remembers of the       *)
(* registry (able, fitting) is true of the registry of the moment, and it  *)
(* has come to give up the ceiling, or tools, only when that memory says   *)
(* that nothing better was to be had (Searching); what it ended with obeys *)
(* the constraints that were left (WellChosen).                            *)
(***************************************************************************)
Allowed(x) == IF x.explicit THEN x.choice ELSE None

Searches == [at : {"ceiling", "raise", "relax"}, kind : {"tier", "named", "bypass"},
             tier : Choice!Tier \cup {Dearest}, tools : BOOLEAN,
             choice : Providers \cup {unknown, local}, explicit : BOOLEAN,
             able : BOOLEAN, fitting : BOOLEAN]

Searching(x) ==
  /\ x \in Searches
  /\ x.able => Choice!Able(Choice!Registry, Allowed(x))
  /\ x.fitting => Choice!Fitting(Choice!Registry, x.tier, Allowed(x))
  /\ x.at \in {"raise", "relax"} => x.tools /\ ~x.fitting
  /\ x.at = "relax" => ~x.able

Stepping(x) ==
  /\ x = [f \in DOMAIN x |-> x[f]]
  /\ {"at", "able", "fitting"} \subseteq DOMAIN x
  /\ x.at \in {"route", "assess"}

WellChosen(x) ==
  x.how = "selected" =>
    /\ x.explicit => x.model.provider = x.choice
    /\ x.tools /\ x.able => x.model.tools
    /\ x.model.tier > x.tier => x.tools /\ ~x.fitting /\ x.model.tools

Chooses(x) == \/ x.at = "idle"
              \/ Searching(x)
              \/ Stepping(x)
              \/ x.at = "ended" /\ WellChosen(x)

ChoiceInv ==
  /\ setup.available \subseteq Providers
  /\ chooser = [r \in Choosers |-> chooser[r]]
  /\ \A r \in Choosers : Chooses(chooser[r])

LEMMA ChoiceInit == Choice!Init => ChoiceInv
<1> SUFFICES ASSUME Choice!Init PROVE ChoiceInv
  OBVIOUS
<1>1. setup.available \subseteq Providers
  BY DEF Choice!Init, Choice!Setup
<1>2. chooser = [r \in Choosers |-> Choice!Idle]
  BY DEF Choice!Init
<1>3. \A r \in Choosers : chooser[r].at = "idle"
  BY <1>2 DEF Choice!Idle
<1> QED
  BY <1>1, <1>2, <1>3 DEF ChoiceInv, Chooses

\* A resolution that begins is told of the registry as it is.
LEMMA BegunIsSearching ==
  ASSUME NEW kind \in {"tier", "named", "bypass"}, NEW t \in Choice!Tier \cup {Dearest},
         NEW tools \in BOOLEAN, NEW c, c.explicit \in BOOLEAN,
         c.name \in Providers \cup {unknown, local}
  PROVE  Searching(Choice!Resolving(kind, t, tools, c))
<1> DEFINE x == Choice!Resolving(kind, t, tools, c)
           p == IF c.explicit THEN c.name ELSE None
<1>1. x = [at |-> "ceiling", kind |-> kind, tier |-> t, tools |-> tools,
           choice |-> c.name, explicit |-> c.explicit,
           able |-> Choice!Able(Choice!Registry, p),
           fitting |-> Choice!Fitting(Choice!Registry, t, p)]
  BY DEF Choice!Resolving
<1>2. Choice!Able(Choice!Registry, p) \in BOOLEAN /\ Choice!Fitting(Choice!Registry, t, p) \in BOOLEAN
  BY DEF Choice!Able, Choice!Fitting
<1>3. x \in Searches /\ x.at = "ceiling"
  BY <1>1, <1>2 DEF Searches
<1>4. Allowed(x) = p
  BY <1>1 DEF Allowed
<1>5. /\ x.able = Choice!Able(Choice!Registry, p)
      /\ x.fitting = Choice!Fitting(Choice!Registry, t, p) /\ x.tier = t
  BY <1>1
<1> HIDE DEF x, p
<1>6. Searching(x)
  BY <1>3, <1>4, <1>5 DEF Searching
<1> QED
  BY <1>6 DEF x

LEMMA ChoicesAre ==
  ASSUME ChoiceInv, NEW c \in Choice!Choice
  PROVE  c.explicit \in BOOLEAN /\ c.name \in Providers \cup {unknown, local}
BY DEF ChoiceInv, Choice!Choice, Choice!Names

LEMMA ByTierIsSearching ==
  ASSUME ChoiceInv, NEW kind \in {"tier", "named", "bypass"},
         NEW t \in Choice!Tier \cup {Dearest}, NEW tools \in BOOLEAN,
         NEW x \in Choice!ByTier(kind, t, tools)
  PROVE  Chooses(x)
BY ChoicesAre, BegunIsSearching DEF Choice!ByTier, Chooses

\* The registry says of a provider what it said, while it stays.
LEMMA RegistryRests ==
  ASSUME UNCHANGED <<setup, cache, fresh>>
  PROVE  /\ \A p : Choice!Able(Choice!Registry, p)' = Choice!Able(Choice!Registry, p)
         /\ \A t, p : Choice!Fitting(Choice!Registry, t, p)' = Choice!Fitting(Choice!Registry, t, p)
<1>1. setup' = setup /\ cache' = cache /\ fresh' = fresh
  OBVIOUS
<1>2. Choice!Registry' = Choice!Registry
  BY <1>1 DEF Choice!Registry, Choice!Active
<1>3. \A c : Choice!Matching(Choice!Registry, c)' = Choice!Matching(Choice!Registry, c)
  BY <1>1, <1>2, Zenon DEF Choice!Matching, Choice!Fits
<1> QED
  BY <1>3 DEF Choice!Able, Choice!Fitting, Choice!Caps

\* One run moves, the registry stays.
LEMMA OneChooses ==
  ASSUME ChoiceInv, UNCHANGED <<setup, cache, fresh>>, NEW r \in Choosers, NEW x, Chooses(x),
         chooser' = [chooser EXCEPT ![r] = x]
  PROVE  ChoiceInv'
<1>1. setup'.available \subseteq Providers
  BY DEF ChoiceInv
<1>2. chooser' = [q \in Choosers |-> IF q = r THEN x ELSE chooser[q]]
  BY DEF ChoiceInv
<1>3. \A q \in Choosers : Chooses(chooser'[q])
  BY <1>2 DEF ChoiceInv
<1>6. \A q \in Choosers : Chooses(chooser[q])'
  BY <1>3, RegistryRests DEF Chooses, Searching, Stepping, WellChosen, Searches, Allowed, Choice!Tier
<1> QED
  BY <1>1, <1>2, <1>6 DEF ChoiceInv

\* What a search found fits what was asked.
LEMMA FoundFits ==
  ASSUME NEW caps, NEW m \in Choice!Best(Choice!Registry, caps)
  PROVE  Choice!Fits(m, caps) /\ Choice!Matching(Choice!Registry, caps) # {}
BY DEF Choice!Best, Choice!Matching

\* What a resolution that has begun still knows of itself.
LEMMA SearchingOf ==
  ASSUME ChoiceInv, NEW r \in Choosers, chooser[r].at \in {"ceiling", "raise", "relax"}
  PROVE  Searching(chooser[r])
BY DEF ChoiceInv, Chooses, Stepping

LEMMA GivenUpChooses ==
  ASSUME ChoiceInv, NEW r \in Choosers, chooser[r].at \in {"ceiling", "raise", "relax"}
  PROVE  Chooses(Choice!GivenUp(r))
<1>1. chooser[r] \in Searches
  BY SearchingOf DEF Searching
<1> DEFINE x == [chooser[r] EXCEPT !.at = "assess"]
<1>2. DOMAIN x = {"at", "kind", "tier", "tools", "choice", "explicit", "able", "fitting"}
      /\ x.at = "assess" /\ x = [f \in DOMAIN x |-> x[f]]
  BY <1>1 DEF Searches
<1> HIDE DEF x
<1>3. Stepping(x)
  BY <1>2 DEF Stepping
<1>4. Choice!Ended(r, None, "failed").at = "ended" /\ Choice!Ended(r, None, "failed").how = "failed"
  BY DEF Choice!Ended
<1> QED
  BY <1>3, <1>4 DEF Choice!GivenUp, Chooses, WellChosen, x

\* A search ends with a model that fits, or goes on as it may.
LEMMA SearchChooses ==
  ASSUME ChoiceInv, UNCHANGED <<setup, cache, fresh>>, NEW r \in Choosers, NEW caps, NEW otherwise,
         chooser[r].at \in {"ceiling", "raise", "relax"},
         Choice!Search(r, caps, otherwise),
         Choice!Matching(Choice!Registry, caps) = {} => Chooses(otherwise),
         caps.provider = Allowed(chooser[r]),
         chooser[r].able /\ chooser[r].tools => caps.tools,
         \/ caps.ceiling = chooser[r].tier /\ caps.ceiling # None
         \/ chooser[r].tools /\ ~chooser[r].fitting /\ caps.tools
  PROVE  ChoiceInv'
<1>1. Searching(chooser[r])
  BY SearchingOf
<1>2. ASSUME NEW m \in Choice!Best(Choice!Registry, caps)
      PROVE  Chooses(Choice!Ended(r, m, "selected"))
  <2> DEFINE x == Choice!Ended(r, m, "selected")
  <2>1. /\ x.at = "ended" /\ x.how = "selected" /\ x.model = m
        /\ x.tier = chooser[r].tier /\ x.tools = chooser[r].tools /\ x.choice = chooser[r].choice
        /\ x.explicit = chooser[r].explicit /\ x.able = chooser[r].able
        /\ x.fitting = chooser[r].fitting
    BY DEF Choice!Ended
  <2>2. Choice!Fits(m, caps)
    BY FoundFits
  <2>3. /\ caps.provider \in {None, m.provider} /\ (caps.tools => m.tools)
        /\ caps.ceiling # None => ~(m.tier > caps.ceiling)
    BY <2>2 DEF Choice!Fits
  <2>4. chooser[r].explicit => chooser[r].choice # None
    BY <1>1, NoneIsNobody DEF Searching, Searches
  <2> HIDE DEF x
  <2>5. x.explicit => m.provider = x.choice
    BY <2>1, <2>3, <2>4 DEF Allowed
  <2>6. x.tools /\ x.able => m.tools
    BY <2>1, <2>3
  <2>7. m.tier > x.tier => x.tools /\ ~x.fitting /\ m.tools
    BY <2>1, <2>3
  <2>8. Chooses(x)
    BY <2>1, <2>5, <2>6, <2>7 DEF Chooses, WellChosen
  <2> QED
    BY <2>8 DEF x
<1>3. \E x : Chooses(x) /\ chooser' = [chooser EXCEPT ![r] = x]
  BY <1>2 DEF Choice!Search
<1> QED
  BY <1>3, OneChooses

LEMMA CapsAre ==
  ASSUME ChoiceInv, NEW r \in Choosers, chooser[r].at \in {"ceiling", "raise", "relax"}
  PROVE  /\ Choice!Wanted(r) = Choice!Caps(chooser[r].tier, chooser[r].tools, Allowed(chooser[r]))
         /\ Choice!Raised(Choice!Wanted(r)) = Choice!Caps(None, chooser[r].tools, Allowed(chooser[r]))
         /\ Choice!Relaxed(Choice!Wanted(r)) = Choice!Caps(chooser[r].tier, FALSE, Allowed(chooser[r]))
<1>1. Choice!Wanted(r) = Choice!Caps(chooser[r].tier, chooser[r].tools, Allowed(chooser[r]))
  BY DEF Choice!Wanted, Allowed
<1> DEFINE w == Choice!Wanted(r)
           k == chooser[r].tier
           u == chooser[r].tools
           p == Allowed(chooser[r])
<1> HIDE DEF w, k, u, p
<1>2. w = Choice!Caps(k, u, p)
  BY <1>1 DEF w, k, u, p
<1>3. w \in [ceiling : {k}, tools : {u}, provider : {p}]
  BY <1>2 DEF Choice!Caps
<1>4. /\ Choice!Raised(w) \in [ceiling : {None}, tools : {u}, provider : {p}]
      /\ Choice!Relaxed(w) \in [ceiling : {k}, tools : {FALSE}, provider : {p}]
  BY <1>3 DEF Choice!Raised, Choice!Relaxed
<1>5. ASSUME NEW c, NEW t, NEW y \in [ceiling : {c}, tools : {t}, provider : {p}]
      PROVE  y = Choice!Caps(c, t, p)
  BY DEF Choice!Caps
<1>6. Choice!Raised(w) = Choice!Caps(None, u, p)
  BY <1>4, <1>5
<1>7. Choice!Relaxed(w) = Choice!Caps(k, FALSE, p)
  BY <1>4, <1>5
<1> QED
  BY <1>2, <1>6, <1>7 DEF w, k, u, p

LEMMA TriesKeep ==
  ASSUME ChoiceInv, NEW r \in Choosers,
         Choice!TryCeiling(r) \/ Choice!TryRaised(r) \/ Choice!TryRelaxed(r)
  PROVE  ChoiceInv'
<1> DEFINE x == chooser[r]
           p == Allowed(x)
<1>1. /\ x.at \in {"ceiling", "raise", "relax"} /\ UNCHANGED <<setup, cache, fresh>>
  BY DEF Choice!TryCeiling, Choice!TryRaised, Choice!TryRelaxed
<1>2. Searching(x) /\ Chooses(Choice!GivenUp(r))
  BY <1>1, SearchingOf, GivenUpChooses
<1>3. x \in Searches /\ x.tier # None /\ x.tools \in BOOLEAN /\ x.fitting \in BOOLEAN
  BY <1>2, NoneIsNothing, SomeTier DEF Searching, Searches, Choice!Tier
<1>4. /\ Choice!Caps(x.tier, x.tools, p).provider = p /\ Choice!Caps(x.tier, x.tools, p).tools = x.tools
      /\ Choice!Caps(x.tier, x.tools, p).ceiling = x.tier
      /\ Choice!Caps(None, x.tools, p).provider = p /\ Choice!Caps(None, x.tools, p).tools = x.tools
      /\ Choice!Caps(None, x.tools, p).ceiling = None
      /\ Choice!Caps(x.tier, FALSE, p).provider = p /\ Choice!Caps(x.tier, FALSE, p).tools = FALSE
      /\ Choice!Caps(x.tier, FALSE, p).ceiling = x.tier
  BY DEF Choice!Caps
<1>5. CASE Choice!TryCeiling(r)
  <2> DEFINE c == Choice!Caps(x.tier, x.tools, p)
             y == [x EXCEPT !.at = "raise"]
             z == IF x.tools THEN y ELSE Choice!GivenUp(r)
  <2>1. Choice!Search(r, c, z)
    BY <1>5, <1>1, CapsAre DEF Choice!TryCeiling
  <2>2. ASSUME x.tools, Choice!Matching(Choice!Registry, c) = {} PROVE Chooses(y)
    <3>1. ~Choice!Fitting(Choice!Registry, x.tier, p)
      BY <2>2, <1>3 DEF Choice!Fitting
    <3>2. ~x.fitting
      BY <3>1, <1>2 DEF Searching
    <3>3. y \in Searches /\ y.at = "raise" /\ y.able = x.able /\ y.fitting = x.fitting
          /\ y.tools = x.tools /\ y.tier = x.tier /\ Allowed(y) = p
      BY <1>3 DEF Searches, Allowed
    <3> HIDE DEF x, y, p
    <3>4. Searching(y)
      BY <3>2, <3>3, <2>2, <1>2 DEF Searching, p
    <3> QED
      BY <3>4 DEF Chooses
  <2>3. Choice!Matching(Choice!Registry, c) = {} => Chooses(z)
    BY <2>2, <1>2
  <2> HIDE DEF y, z
  <2> QED
    BY <2>1, <2>3, <1>1, <1>3, <1>4, SearchChooses
<1>6. CASE Choice!TryRaised(r)
  <2> DEFINE c == Choice!Caps(None, x.tools, p)
             y == [x EXCEPT !.at = "relax"]
  <2>1. Choice!Search(r, c, y) /\ x.at = "raise"
    BY <1>6, <1>1, CapsAre DEF Choice!TryRaised
  <2>2. x.tools /\ ~x.fitting
    BY <2>1, <1>2 DEF Searching
  <2>3. ASSUME Choice!Matching(Choice!Registry, c) = {} PROVE Chooses(y)
    <3>1. ~Choice!Able(Choice!Registry, p)
      BY <2>2, <2>3, <1>3 DEF Choice!Able
    <3>2. ~x.able
      BY <3>1, <1>2 DEF Searching
    <3>3. y \in Searches /\ y.at = "relax" /\ y.able = x.able /\ y.fitting = x.fitting
          /\ y.tools = x.tools /\ y.tier = x.tier /\ Allowed(y) = p
      BY <1>3 DEF Searches, Allowed
    <3> HIDE DEF x, y, p
    <3>4. Searching(y)
      BY <3>2, <3>3, <2>2, <1>2 DEF Searching, p
    <3> QED
      BY <3>4 DEF Chooses
  <2>4. c.provider = p /\ c.tools
    BY <2>2, <1>4
  <2> HIDE DEF y, c
  <2> QED
    BY <2>1, <2>2, <2>3, <2>4, <1>1, SearchChooses
<1>7. CASE Choice!TryRelaxed(r)
  <2> DEFINE c == Choice!Caps(x.tier, FALSE, p)
  <2>1. Choice!Search(r, c, Choice!GivenUp(r)) /\ x.at = "relax"
    BY <1>7, <1>1, CapsAre DEF Choice!TryRelaxed
  <2>2. ~x.able
    BY <2>1, <1>2 DEF Searching
  <2>3. c.provider = p /\ c.ceiling = x.tier /\ c.ceiling # None
    BY <1>3, <1>4
  <2> HIDE DEF c
  <2> QED
    BY <2>1, <2>2, <2>3, <1>1, <1>2, SearchChooses
<1> QED
  BY <1>5, <1>6, <1>7

LEMMA BeginningsKeep ==
  ASSUME ChoiceInv, NEW r \in Choosers,
         \/ Choice!Begin(r) \/ Choice!BeginNamed(r) \/ Choice!Pinned(r)
         \/ Choice!Bypass(r) \/ Choice!Route(r) \/ Choice!Assess(r)
  PROVE  ChoiceInv'
<1>1. UNCHANGED <<setup, cache, fresh>>
  BY DEF Choice!Begin, Choice!BeginNamed, Choice!Pinned, Choice!Bypass, Choice!Route, Choice!Assess
<1>2. CASE Choice!Begin(r) \/ Choice!Assess(r)
  <2>1. \E t \in Choice!Tier, tools \in BOOLEAN : \E x \in Choice!ByTier("tier", t, tools) :
            chooser' = [chooser EXCEPT ![r] = x]
    BY <1>2 DEF Choice!Begin, Choice!Assess
  <2> QED
    BY <1>1, <2>1, ByTierIsSearching, OneChooses
<1>3. CASE Choice!BeginNamed(r)
  <2>1. PICK q \in Choice!Names : chooser' = [chooser EXCEPT ![r] =
            Choice!Resolving("named", Dearest, FALSE, [name |-> q, explicit |-> TRUE])]
    BY <1>3 DEF Choice!BeginNamed
  <2> DEFINE c == [name |-> q, explicit |-> TRUE]
  <2>2. c.explicit \in BOOLEAN /\ c.name \in Providers \cup {unknown, local}
    BY DEF Choice!Names
  <2> DEFINE no == FALSE
  <2>3. no \in BOOLEAN
    OBVIOUS
  <2> HIDE DEF c, no
  <2>5. Searching(Choice!Resolving("named", Dearest, no, c))
    BY <2>2, <2>3, BegunIsSearching
  <2>4. Chooses(Choice!Resolving("named", Dearest, FALSE, c))
    BY <2>5 DEF Chooses, no
  <2> QED
    BY <1>1, <2>1, <2>4, OneChooses DEF c
<1>4. ASSUME NEW m, NEW how, how # "selected" PROVE Chooses(Choice!Ended(r, m, how))
  BY <1>4 DEF Choice!Ended, Chooses, WellChosen
<1>5. CASE Choice!Pinned(r)
  BY <1>1, <1>4, <1>5, OneChooses DEF Choice!Pinned
<1>6. CASE Choice!Route(r)
  <2> DEFINE y == [chooser[r] EXCEPT !.at = "assess"]
  <2>1. Stepping(chooser[r])
    BY <1>6 DEF Choice!Route, ChoiceInv, Chooses, Searching, Searches
  <2>2. DOMAIN y = DOMAIN chooser[r] /\ y = [f \in DOMAIN y |-> y[f]] /\ y.at = "assess"
    BY <2>1 DEF Stepping
  <2>3. \/ \E m : chooser' = [chooser EXCEPT ![r] = Choice!Ended(r, m, "routed")]
        \/ chooser' = [chooser EXCEPT ![r] = y]
    BY <1>6 DEF Choice!Route
  <2> HIDE DEF y
  <2>4. Chooses(y)
    BY <2>1, <2>2 DEF Stepping, Chooses
  <2> QED
    BY <1>1, <1>4, <2>3, <2>4, OneChooses
<1>7. CASE Choice!Bypass(r)
  BY <1>1, <1>7, ByTierIsSearching, OneChooses DEF Choice!Bypass
<1> QED
  BY <1>2, <1>3, <1>5, <1>6, <1>7

LEMMA RestingIsNotSearching ==
  ASSUME NEW x, Chooses(x), x.at \in {"idle", "ended"}
  PROVE  x.at = "idle" \/ (x.at = "ended" /\ WellChosen(x))
<1>1. Searching(x) => x.at \in {"ceiling", "raise", "relax"}
  BY DEF Searching, Searches
<1>2. Stepping(x) => x.at \in {"route", "assess"}
  BY DEF Stepping
<1> QED
  BY <1>1, <1>2 DEF Chooses

\* What a run remembers stays true when the registry changes.
LEMMA WatchedChooses ==
  ASSUME ChoiceInv, NEW c, NEW f, setup' = setup, cache' = c, fresh' = f, NEW r \in Choosers,
         chooser'[r] = Choice!Watching(c, f)[r]
  PROVE  Chooses(chooser[r])'
<1> DEFINE now == Choice!Active(c, f)
           x == chooser[r]
           p == Allowed(x)
           y == [x EXCEPT !.able = @ /\ Choice!Able(now, p),
                          !.fitting = @ /\ Choice!Fitting(now, x.tier, p)]
<1>1. chooser'[r] = IF x.at \in {"idle", "ended"} THEN x ELSE y
  BY DEF Choice!Watching, Allowed
<1>2. Choice!Registry' = now
  BY DEF Choice!Registry, Choice!Active
<1> HIDE DEF now
<1>3. \A k : Choice!Matching(Choice!Registry, k)' = Choice!Matching(now, k)
  BY <1>2, Zenon DEF Choice!Matching, Choice!Fits
<1>4. /\ \A q : Choice!Able(Choice!Registry, q)' = Choice!Able(now, q)
      /\ \A t, q : Choice!Fitting(Choice!Registry, t, q)' = Choice!Fitting(now, t, q)
  BY <1>3 DEF Choice!Able, Choice!Fitting, Choice!Caps
<1>5. Chooses(x)
  BY DEF ChoiceInv
<1>6. CASE x.at \in {"idle", "ended"}
  <2>2. x.at = "idle" \/ (x.at = "ended" /\ WellChosen(x))
    BY <1>5, <1>6, RestingIsNotSearching
  <2> QED
    BY <1>1, <1>6, <2>2 DEF Chooses, WellChosen
<1>7. CASE Searching(x)
  <2> DEFINE able == x.able /\ Choice!Able(now, p)
             fitting == x.fitting /\ Choice!Fitting(now, x.tier, p)
  <2>1. x \in Searches /\ x.at \notin {"idle", "ended"}
    BY <1>7 DEF Searching, Searches
  <2>2. able \in BOOLEAN /\ fitting \in BOOLEAN
    BY <2>1 DEF Searches, Choice!Able, Choice!Fitting
  <2>3. chooser'[r] = [x EXCEPT !.able = able, !.fitting = fitting]
    BY <1>1, <2>1
  <2> HIDE DEF able, fitting
  <2>4. chooser'[r] \in Searches
    BY <2>1, <2>2, <2>3 DEF Searches
  <2>5. /\ chooser'[r].able = able /\ chooser'[r].fitting = fitting /\ chooser'[r].at = x.at
        /\ chooser'[r].tools = x.tools /\ chooser'[r].tier = x.tier
        /\ Allowed(chooser[r])' = p
    BY <2>1, <2>3 DEF Searches, Allowed
  <2>6. /\ x.at \in {"raise", "relax"} => x.tools /\ ~x.fitting
        /\ x.at = "relax" => ~x.able
    BY <1>7 DEF Searching
  <2> DEFINE tier == x.tier
             at == x.at
             tools == x.tools
  <2>7. /\ able => x.able /\ Choice!Able(now, p)
        /\ fitting => x.fitting /\ Choice!Fitting(now, tier, p)
    BY DEF able, fitting
  <2>8. (chooser[r] \in Searches)'
    BY <2>4 DEF Searches, Choice!Tier
  <2>9. Searching(chooser[r])'
    BY <1>4, <2>5, <2>6, <2>7, <2>8 DEF Searching
  <2> QED
    BY <2>9 DEF Chooses
<1>8. CASE Stepping(x)
  <2>1. y = [q \in DOMAIN x |-> y[q]] /\ y.at = x.at /\ DOMAIN y = DOMAIN x
    BY <1>8 DEF Stepping
  <2>2. chooser'[r] = y
    BY <1>1, <1>8 DEF Stepping
  <2> HIDE DEF y
  <2>3. Stepping(chooser[r])'
    BY <1>8, <2>1, <2>2 DEF Stepping
  <2> QED
    BY <2>3 DEF Chooses
<1> QED
  BY <1>5, <1>6, <1>7, <1>8 DEF Chooses

LEMMA RegistryChanges ==
  ASSUME ChoiceInv, \/ Choice!Discover \/ Choice!Expire
                    \/ \E r \in Choosers : Choice!BeginStep(r)
  PROVE  ChoiceInv'
<1>1. setup' = setup
  BY DEF Choice!Discover, Choice!Expire, Choice!BeginStep
<1>2. ASSUME NEW c, NEW f, cache' = c, fresh' = f, chooser' = Choice!Watching(c, f)
      PROVE  ChoiceInv'
  <2>1. \A r \in Choosers : Chooses(chooser[r])'
    BY <1>1, <1>2, WatchedChooses
  <2>2. chooser' = [r \in Choosers |-> chooser'[r]]
    BY <1>2 DEF Choice!Watching
  <2> QED
    BY <1>1, <2>1, <2>2 DEF ChoiceInv
<1>3. CASE Choice!Discover
  <2>1. \E l : cache' = l /\ fresh' = TRUE /\ chooser' = Choice!Watching(l, TRUE)
    BY <1>3 DEF Choice!Discover
  <2> QED
    BY <1>2, <2>1
<1>4. CASE Choice!Expire
  <2>1. cache' = cache /\ fresh' = FALSE /\ chooser' = Choice!Watching(cache, FALSE)
    BY <1>4 DEF Choice!Expire
  <2> QED
    BY <1>2, <2>1
<1>5. ASSUME NEW r \in Choosers, Choice!BeginStep(r) PROVE ChoiceInv'
  <2>1. PICK l : /\ cache' = l /\ fresh' = TRUE
                 /\ chooser' = [Choice!Watching(l, TRUE) EXCEPT ![r] =
                        [at |-> "route", kind |-> "step", tier |-> Dearest, tools |-> FALSE,
                         choice |-> None, explicit |-> FALSE, registry |-> l,
                         able |-> Choice!Able(l, None), fitting |-> TRUE]]
    BY <1>5 DEF Choice!BeginStep
  <2> DEFINE w == Choice!Watching(l, TRUE)
             x == [at |-> "route", kind |-> "step", tier |-> Dearest, tools |-> FALSE,
                   choice |-> None, explicit |-> FALSE, registry |-> l,
                   able |-> Choice!Able(l, None), fitting |-> TRUE]
  <2>2. /\ DOMAIN x = {"at", "kind", "tier", "tools", "choice", "explicit", "registry", "able",
                       "fitting"}
        /\ x = [q \in DOMAIN x |-> x[q]] /\ x.at = "route"
    OBVIOUS
  <2>3. w = [q \in Choosers |-> w[q]]
    BY DEF Choice!Watching
  <2>4. chooser' = [w EXCEPT ![r] = x]
    BY <2>1
  <2> HIDE DEF w, x
  <2>5. chooser' = [q \in Choosers |-> IF q = r THEN x ELSE w[q]]
    BY <2>3, <2>4
  <2>6. Chooses(chooser[r])'
    BY <2>2, <2>5 DEF Chooses, Stepping
  <2>7. ASSUME NEW q \in Choosers, q # r PROVE Chooses(chooser[q])'
    <3>1. chooser'[q] = w[q]
      BY <2>5, <2>7
    <3>2. chooser'[q] = Choice!Watching(l, TRUE)[q]
      BY <3>1 DEF w
    <3>3. ChoiceInv /\ setup' = setup /\ cache' = l /\ fresh' = TRUE
      BY <1>1, <2>1
    <3> QED
      BY <3>2, <3>3, WatchedChooses
  <2>8. setup'.available \subseteq Providers
    BY <1>1 DEF ChoiceInv
  <2> QED
    BY <2>5, <2>6, <2>7, <2>8 DEF ChoiceInv
<1> QED
  BY <1>3, <1>4, <1>5

LEMMA ChoiceKept == ChoiceInv /\ [Choice!Next]_Choice!vars => ChoiceInv'
<1> SUFFICES ASSUME ChoiceInv, [Choice!Next]_Choice!vars PROVE ChoiceInv'
  OBVIOUS
<1>1. CASE UNCHANGED Choice!vars
  <2>1. UNCHANGED <<setup, cache, fresh, chooser>>
    BY <1>1 DEF Choice!vars
  <2>2. \A r \in Choosers : Chooses(chooser[r])'
    BY <2>1, RegistryRests DEF ChoiceInv, Chooses, Searching, Stepping, WellChosen, Searches,
       Allowed, Choice!Tier
  <2> QED
    BY <2>1, <2>2 DEF ChoiceInv
<1>2. ASSUME NEW r \in Choosers,
             \/ Choice!Begin(r) \/ Choice!BeginNamed(r) \/ Choice!Pinned(r)
             \/ Choice!TryCeiling(r) \/ Choice!TryRaised(r) \/ Choice!TryRelaxed(r)
             \/ Choice!BeginStep(r) \/ Choice!Bypass(r) \/ Choice!Route(r) \/ Choice!Assess(r)
      PROVE  ChoiceInv'
  BY <1>2, TriesKeep, BeginningsKeep, RegistryChanges
<1>3. CASE Choice!Discover \/ Choice!Expire
  BY <1>3, RegistryChanges
<1> QED
  BY <1>1, <1>2, <1>3 DEF Choice!Next

LEMMA ChoiceInvImplies ==
  ChoiceInv => Choice!NamedIsKept /\ Choice!ToolsComeFirst /\ Choice!CeilingGivesWayToTools
<1> SUFFICES ASSUME ChoiceInv, NEW r \in Choosers, Choice!Selected(r)
             PROVE  /\ chooser[r].explicit => chooser[r].model.provider = chooser[r].choice
                    /\ chooser[r].tools /\ chooser[r].able => chooser[r].model.tools
                    /\ chooser[r].model.tier > chooser[r].tier =>
                           chooser[r].tools /\ ~chooser[r].fitting /\ chooser[r].model.tools
  BY DEF Choice!NamedIsKept, Choice!ToolsComeFirst, Choice!CeilingGivesWayToTools
<1>1. chooser[r].at = "ended" /\ chooser[r].how = "selected"
  BY DEF Choice!Selected
<1> QED
  BY <1>1 DEF ChoiceInv, Chooses, Searching, Searches, Stepping, WellChosen

\* Whatever listings arrive or expire between the searches of a resolution, the
\* provider named is kept, and cost gives way before tools do.
THEOREM ConstraintsYieldAlone ==
  Choice!Behaviour => [](/\ Choice!NamedIsKept
                         /\ Choice!ToolsComeFirst
                         /\ Choice!CeilingGivesWayToTools)
BY ChoiceInit, ChoiceKept, ChoiceInvImplies, PTL DEF Choice!Behaviour

\* ConstraintsYieldInOrder, in the composition the run checks.
THEOREM ConstraintsYieldAlways == MCSpec => []ConstraintsYieldInOrder
<1>1. MCInit => ChoiceInv
  BY ChoiceInit DEF MCInit
<1>2. [MCNext]_<<focus, opening, planned, crew, turns, call, watch, choice, context>>
          => [Choice!Next]_Choice!vars
  BY DEF MCNext, choice, Choice!vars
<1>3. ChoiceInv => ConstraintsYieldInOrder
  BY ChoiceInvImplies DEF ConstraintsYieldInOrder
<1> QED
  BY <1>1, <1>2, <1>3, ChoiceKept, PTL DEF MCSpec

-----------------------------------------------------------------------------
(***************************************************************************)
(* The watch for silence.  A watcher has no record of the end of its own   *)
(* run, so that its own record is never dropped, and once it has reported  *)
(* the silence of its run the record is disarmed until the next sign.      *)
(***************************************************************************)
Records == [known : BOOLEAN, last : BOOLEAN, ended : BOOLEAN, high : BOOLEAN,
            armed : BOOLEAN, based : BOOLEAN, seen : Nat]
Lives == [at : {"new", "emerged", "watched", "detached", "ended"}, signs : Nat, files : Nat]

WatchTypes == /\ growth \in [Runs -> Lives]
              /\ rec \in [Watchers -> [Runs -> Records]]
              /\ said \in [Watchers -> [Runs -> 0..2]]

WatchInv == /\ WatchTypes
            /\ \A w \in Watchers : /\ ~rec[w][w].ended
                                   /\ said[w][w] # 0 => /\ said[w][w] = 1
                                                        /\ rec[w][w].known /\ ~rec[w][w].armed

LEMMA WatchInit == Watch!Init => WatchInv
<1> SUFFICES ASSUME Watch!Init PROVE WatchInv
  OBVIOUS
<1>1. Watch!NoRecord \in Records /\ ~Watch!NoRecord.ended
  BY DEF Watch!NoRecord, Records
<1>2. /\ growth = [r \in Runs |-> [at |-> "new", signs |-> 0, files |-> 0]]
      /\ rec = [w \in Watchers |-> [r \in Runs |-> Watch!NoRecord]]
      /\ said = [w \in Watchers |-> [r \in Runs |-> 0]]
  BY DEF Watch!Init
<1>3. WatchTypes
  BY <1>1, <1>2 DEF WatchTypes, Lives
<1>4. \A w \in Watchers : ~rec[w][w].ended /\ said[w][w] = 0
  BY <1>1, <1>2, WatchersRun
<1> QED
  BY <1>3, <1>4 DEF WatchInv

\* What a watcher holds when it has heard of a run: every record of a run that
\* goes on, and of the run it heard of what it was told.
LEMMA HeardIs ==
  ASSUME WatchTypes, NEW w \in Watchers, NEW r \in Runs, NEW f \in Records
  PROVE  /\ Watch!Heard(w, r, f).rec \in [Runs -> Records]
         /\ \A x \in Runs : ~rec[w][x].ended =>
                Watch!Heard(w, r, f).rec[x] = IF x = r THEN f ELSE rec[w][x]
<1> DEFINE o == IF rec[w][r].known THEN order[w] ELSE Append(order[w], r)
           R == [rec[w] EXCEPT ![r].known = TRUE]
           gone == IF rec[w][r].known THEN {} ELSE {o[i] : i \in Watch!Evicted(R, o)}
           h == Watch!Heard(w, r, f).rec
<1>1. h = [x \in Runs |-> IF x \in gone THEN Watch!NoRecord ELSE IF x = r THEN f ELSE R[x]]
  BY DEF Watch!Heard
<1>2. Watch!NoRecord \in Records
  BY DEF Watch!NoRecord, Records
<1>3. R \in [Runs -> Records] /\ \A x \in Runs : /\ R[x].ended = rec[w][x].ended
                                                 /\ x # r => R[x] = rec[w][x]
  <2>1. rec[w] \in [Runs -> Records]
    BY DEF WatchTypes
  <2>2. R = [x \in Runs |-> IF x = r THEN [rec[w][r] EXCEPT !.known = TRUE] ELSE rec[w][x]]
    BY <2>1
  <2>3. [rec[w][r] EXCEPT !.known = TRUE] \in Records
        /\ [rec[w][r] EXCEPT !.known = TRUE].ended = rec[w][r].ended
    BY <2>1 DEF Records
  <2> HIDE DEF R
  <2> QED
    BY <2>1, <2>2, <2>3
<1>4. \A x \in gone : R[x].ended
  BY DEF Watch!Evicted
<1> HIDE DEF h, R, gone, o
<1>5. h \in [Runs -> Records]
  BY <1>1, <1>2, <1>3
<1>6. \A x \in Runs : ~rec[w][x].ended => h[x] = IF x = r THEN f ELSE rec[w][x]
  BY <1>1, <1>3, <1>4
<1> QED
  BY <1>5, <1>6 DEF h

\* What the watchers hold once they have heard f of a run.
Informed(r, f) == [w \in Watchers |-> IF growth[w].at = "watched" THEN Watch!Heard(w, r, f[w]).rec
                                  ELSE rec[w]]

\* Hearing of a run keeps the records and drops none of a run that goes on.
LEMMA TellingKeeps ==
  ASSUME WatchTypes, NEW r \in Runs, NEW f \in [Watchers -> Records], rec' = Informed(r, f),
         \A w \in Watchers : f[w].known
  PROVE  /\ rec' \in [Watchers -> [Runs -> Records]]
         /\ \A w \in Watchers : \A x \in Runs : ~rec[w][x].ended =>
                \/ rec'[w][x] = rec[w][x]
                \/ x = r /\ growth[w].at = "watched" /\ rec'[w][x] = f[w]
         /\ \A w \in Watchers : \A x \in Runs :
                rec[w][x].known /\ ~rec[w][x].ended => rec'[w][x].known
<1>1. ASSUME NEW w \in Watchers
      PROVE  /\ rec'[w] = IF growth[w].at = "watched" THEN Watch!Heard(w, r, f[w]).rec ELSE rec[w]
             /\ f[w] \in Records /\ rec[w] \in [Runs -> Records]
  BY <1>1 DEF Informed, WatchTypes
<1>2. \A w \in Watchers : rec'[w] \in [Runs -> Records]
  BY <1>1, HeardIs
<1>3. rec' = [w \in Watchers |-> rec'[w]]
  BY DEF Informed
<1>4. ASSUME NEW w \in Watchers, NEW x \in Runs, ~rec[w][x].ended
      PROVE  \/ rec'[w][x] = rec[w][x]
             \/ x = r /\ growth[w].at = "watched" /\ rec'[w][x] = f[w]
  BY <1>1, <1>4, HeardIs
<1> QED
  BY <1>2, <1>3, <1>4

LEMMA SignsAreRecords ==
  ASSUME NEW e \in Records
  PROVE  /\ Watch!Emergence(e) \in Records /\ Watch!Emergence(e).known
         /\ Watch!Inert(e) \in Records /\ Watch!Inert(e).known
         /\ Watch!Inert(e).ended = e.ended /\ Watch!Inert(e).armed = e.armed
         /\ Watch!Sign(e) \in Records /\ Watch!Sign(e).known /\ Watch!Sign(e).ended = e.ended
         /\ Watch!Ending(e) \in Records /\ Watch!Ending(e).known
<1>1. Watch!Emergence(e) \in Records /\ Watch!Emergence(e).known
  BY DEF Watch!Emergence, Records
<1>2. /\ Watch!Inert(e) \in Records /\ Watch!Inert(e).known
      /\ Watch!Inert(e).ended = e.ended /\ Watch!Inert(e).armed = e.armed
  BY DEF Watch!Inert, Records
<1>3. Watch!Sign(e) \in Records /\ Watch!Sign(e).known /\ Watch!Sign(e).ended = e.ended
  BY DEF Watch!Sign, Records
<1>4. Watch!Ending(e) \in Records /\ Watch!Ending(e).known
  BY DEF Watch!Ending, Records
<1> QED
  BY <1>1, <1>2, <1>3, <1>4

\* What LiveRecordsAreKept says of a step.
LiveKept == \A w \in Watchers, r \in Runs :
    rec[w][r].known /\ ~rec[w][r].ended => rec'[w][r].known \/ ~Watch!Subscribed(w)'

LEMMA LivesMove ==
  ASSUME WatchTypes, NEW r \in Runs, Watch!Growing(r)
  PROVE  growth' \in [Runs -> Lives]
<1> DEFINE x == growth[r]
<1>1. growth \in [Runs -> Lives] /\ x \in Lives /\ x.signs + 1 \in Nat /\ x.files + 1 \in Nat
  BY DEF WatchTypes, Lives
<1>2. /\ \A a \in {"emerged", "watched", "detached", "ended"} : [x EXCEPT !.at = a] \in Lives
      /\ [x EXCEPT !.signs = x.signs + 1] \in Lives /\ [x EXCEPT !.files = x.files + 1] \in Lives
  BY <1>1 DEF Lives
<1>3. \/ growth' = growth
      \/ \E a \in {"emerged", "watched", "detached", "ended"} :
             growth' = [growth EXCEPT ![r] = [x EXCEPT !.at = a]]
      \/ growth' = [growth EXCEPT ![r] = [x EXCEPT !.signs = x.signs + 1]]
      \/ growth' = [growth EXCEPT ![r] = [x EXCEPT !.files = x.files + 1]]
  BY <1>1 DEF Watch!Growing, Watch!Emerge, Watch!Watch, Watch!Stir, Watch!Show, Watch!Write,
     Watch!Detach, Watch!End
<1> HIDE DEF x
<1> QED
  BY <1>1, <1>2, <1>3

LEMMA HearingKeeps ==
  ASSUME WatchInv, NEW r \in Runs,
         Watch!Emerge(r) \/ Watch!Stir(r) \/ Watch!Show(r) \/ Watch!End(r)
  PROVE  WatchInv' /\ LiveKept
<1>1. WatchTypes /\ \A w \in Watchers : w \in Runs /\ ~rec[w][w].ended
                       /\ (said[w][w] # 0 => said[w][w] = 1 /\ rec[w][w].known /\ ~rec[w][w].armed)
  BY WatchersRun DEF WatchInv
<1>2. \A w \in Watchers : rec[w][r] \in Records
  BY <1>1 DEF WatchTypes
<1>3. growth' \in [Runs -> Lives]
  BY <1>1, LivesMove DEF Watch!Growing
<1>4. CASE Watch!Emerge(r) \/ Watch!End(r)
  <2> DEFINE f == [w \in Watchers |-> IF Watch!Emerge(r) THEN Watch!Emergence(rec[w][r])
                                      ELSE Watch!Ending(rec[w][r])]
  <2>1. /\ growth[r].at \in {"new", "detached"} /\ said' = said
        /\ Watch!Emerge(r) => growth[r].at = "new"
        /\ ~Watch!Emerge(r) => Watch!End(r)
    BY <1>4 DEF Watch!Emerge, Watch!End
  <2>2. rec' = Informed(r, f)
    BY <1>4, <2>1 DEF Informed, Watch!Emerge, Watch!End, Watch!Deliver, Watch!Subscribed
  <2>3. f \in [Watchers -> Records] /\ \A w \in Watchers : f[w].known
    BY <1>2, SignsAreRecords
  <2> HIDE DEF f
  <2>4. \A w \in Watchers : rec'[w][w] = rec[w][w]
    BY <1>1, <2>1, <2>2, <2>3, TellingKeeps
  <2>5. rec' \in [Watchers -> [Runs -> Records]] /\ LiveKept
    BY <1>1, <2>2, <2>3, TellingKeeps DEF LiveKept
  <2> QED
    BY <1>1, <1>3, <2>1, <2>4, <2>5 DEF WatchInv, WatchTypes
<1>5. CASE Watch!Stir(r)
  <2> DEFINE f == [w \in Watchers |-> Watch!Inert(rec[w][r])]
  <2>1. rec' = Informed(r, f) /\ said' = said
    BY <1>5 DEF Informed, Watch!Stir, Watch!Deliver, Watch!Subscribed
  <2>2. /\ f \in [Watchers -> Records]
        /\ \A w \in Watchers : /\ f[w].known /\ f[w].ended = rec[w][r].ended
                               /\ f[w].armed = rec[w][r].armed
    BY <1>2, SignsAreRecords
  <2> HIDE DEF f
  <2>3. \A w \in Watchers : /\ rec'[w][w].ended = rec[w][w].ended
                            /\ rec'[w][w].armed = rec[w][w].armed
                            /\ rec[w][w].known => rec'[w][w].known
    BY <1>1, <2>1, <2>2, TellingKeeps
  <2>4. rec' \in [Watchers -> [Runs -> Records]] /\ LiveKept
    BY <1>1, <2>1, <2>2, TellingKeeps DEF LiveKept
  <2> QED
    BY <1>1, <1>3, <2>1, <2>3, <2>4 DEF WatchInv, WatchTypes
<1>6. CASE Watch!Show(r)
  <2> DEFINE f == [w \in Watchers |-> Watch!Sign(rec[w][r])]
  <2>1. rec' = Informed(r, f) /\ said' = [w \in Watchers |-> [said[w] EXCEPT ![r] = 0]]
    BY <1>6 DEF Informed, Watch!Show, Watch!Deliver, Watch!Subscribed
  <2>2. f \in [Watchers -> Records]
        /\ \A w \in Watchers : f[w].known /\ f[w].ended = rec[w][r].ended
    BY <1>2, SignsAreRecords
  <2> HIDE DEF f
  <2>3. \A w \in Watchers : /\ rec'[w][w].ended = rec[w][w].ended
                            /\ w # r => rec'[w][w] = rec[w][w]
    BY <1>1, <2>1, <2>2, TellingKeeps
  <2>4. rec' \in [Watchers -> [Runs -> Records]] /\ LiveKept
    BY <1>1, <2>1, <2>2, TellingKeeps DEF LiveKept
  <2>5. /\ said' \in [Watchers -> [Runs -> 0..2]]
        /\ \A w \in Watchers : said'[w][w] = IF w = r THEN 0 ELSE said[w][w]
    BY <1>1, <2>1 DEF WatchTypes
  <2>6. \A w \in Watchers : said'[w][w] # 0 => /\ said'[w][w] = 1 /\ rec'[w][w].known
                                               /\ ~rec'[w][w].armed
    BY <1>1, <2>3, <2>5
  <2> QED
    BY <1>1, <1>3, <2>3, <2>4, <2>5, <2>6 DEF WatchInv, WatchTypes
<1> QED
  BY <1>4, <1>5, <1>6

\* The run does something that no watcher hears of, or its watcher is stopped.
LEMMA QuietKeeps ==
  ASSUME WatchInv, NEW r \in Runs, Watch!Watch(r) \/ Watch!Write(r) \/ Watch!Detach(r)
  PROVE  WatchInv' /\ LiveKept
<1>1. WatchTypes /\ \A w \in Watchers : w \in Runs /\ ~rec[w][w].ended
                       /\ (said[w][w] # 0 => said[w][w] = 1 /\ rec[w][w].known /\ ~rec[w][w].armed)
  BY WatchersRun DEF WatchInv
<1>3. growth' \in [Runs -> Lives]
  BY <1>1, LivesMove DEF Watch!Growing
<1>4. CASE UNCHANGED <<rec, said>>
  BY <1>1, <1>3, <1>4 DEF WatchInv, WatchTypes, LiveKept
<1>5. CASE Watch!Detach(r) /\ r \in Watchers
  <2>1. /\ growth' = [growth EXCEPT ![r].at = "detached"]
        /\ rec' = [rec EXCEPT ![r] = [x \in Runs |-> Watch!NoRecord]]
        /\ said' = [said EXCEPT ![r] = [x \in Runs |-> 0]]
    BY <1>5 DEF Watch!Detach
  <2>2. Watch!NoRecord \in Records /\ ~Watch!NoRecord.ended
    BY DEF Watch!NoRecord, Records
  <2>3. /\ rec' \in [Watchers -> [Runs -> Records]] /\ said' \in [Watchers -> [Runs -> 0..2]]
        /\ \A w \in Watchers : w # r => rec'[w] = rec[w] /\ said'[w] = said[w]
        /\ ~rec'[r][r].ended /\ said'[r][r] = 0
    BY <1>1, <1>5, <2>1, <2>2 DEF WatchTypes
  <2>4. growth'[r].at = "detached"
    BY <1>1, <2>1 DEF WatchTypes, Lives
  <2>5. LiveKept
    BY <2>3, <2>4 DEF LiveKept, Watch!Subscribed
  <2> QED
    BY <1>1, <1>3, <2>3, <2>5 DEF WatchInv, WatchTypes
<1> QED
  BY <1>4, <1>5 DEF Watch!Watch, Watch!Write, Watch!Detach

\* Time and the ticks: what a watcher does alone.
LEMMA TicksKeep ==
  ASSUME WatchInv, NEW w \in Watchers,
         Watch!Ticking(w) \/ \E r \in Runs : Watch!Linger(w, r)
  PROVE  WatchInv' /\ LiveKept
<1>1. WatchTypes /\ \A v \in Watchers : v \in Runs /\ ~rec[v][v].ended
                       /\ (said[v][v] # 0 => said[v][v] = 1 /\ rec[v][v].known /\ ~rec[v][v].armed)
  BY WatchersRun DEF WatchInv
<1>2. growth' = growth
  BY DEF Watch!Ticking, Watch!Tick, Watch!Evaluate, Watch!Rest, Watch!Probe, Watch!Linger
<1>3. CASE UNCHANGED <<rec, said>>
  BY <1>1, <1>2, <1>3 DEF WatchInv, WatchTypes, LiveKept
\* One record of the watcher is replaced.
<1>4. ASSUME NEW r \in Runs, NEW e \in Records, rec' = [rec EXCEPT ![w][r] = e],
             rec[w][r].known => e.known, e.ended = rec[w][r].ended,
             \/ said' = said /\ e.armed = rec[w][r].armed
             \/ w = r /\ said' = [said EXCEPT ![w][r] = 0]
             \/ w # r /\ said' = said
      PROVE  WatchInv' /\ LiveKept
  <2>1. /\ rec' \in [Watchers -> [Runs -> Records]]
        /\ \A v \in Watchers, x \in Runs : rec'[v][x] = IF v = w /\ x = r THEN e ELSE rec[v][x]
    BY <1>1, <1>4 DEF WatchTypes
  <2>2. /\ said' \in [Watchers -> [Runs -> 0..2]]
        /\ \A v \in Watchers : said'[v][v] # 0 =>
               /\ said'[v][v] = said[v][v]
               /\ v = w /\ w = r => e.armed = rec[w][r].armed
    BY <1>1, <1>4 DEF WatchTypes
  <2>3. LiveKept
    BY <1>4, <2>1 DEF LiveKept
  <2>4. \A v \in Watchers : ~rec'[v][v].ended
    BY <1>1, <1>4, <2>1
  <2>5. \A v \in Watchers : said'[v][v] # 0 => /\ said'[v][v] = 1 /\ rec'[v][v].known
                                               /\ ~rec'[v][v].armed
    BY <1>1, <1>4, <2>1, <2>2
  <2> QED
    BY <1>1, <1>2, <2>1, <2>2, <2>3, <2>4, <2>5 DEF WatchInv, WatchTypes
<1>5. ASSUME NEW r \in Runs, Watch!Linger(w, r) PROVE WatchInv' /\ LiveKept
  <2> DEFINE e == [rec[w][r] EXCEPT !.high = TRUE]
  <2>1. rec[w][r] \in Records
    BY <1>1 DEF WatchTypes
  <2>2. /\ e \in Records /\ e.known = rec[w][r].known /\ e.ended = rec[w][r].ended
        /\ e.armed = rec[w][r].armed
    BY <2>1 DEF Records
  <2>3. rec' = [rec EXCEPT ![w][r] = e] /\ said' = said
    BY <1>1, <1>5 DEF Watch!Linger, WatchTypes
  <2> HIDE DEF e
  <2> QED
    BY <1>4, <2>2, <2>3
<1>6. ASSUME NEW r \in Runs, Watch!Probe(w, r) PROVE WatchInv' /\ LiveKept
  <2> DEFINE b == rec[w][r]
             shown == b.based /\ growth[w].files > b.seen
             a == IF shown THEN Watch!Sign(b) ELSE b
             m == growth[w].files
             e == [a EXCEPT !.based = TRUE, !.seen = m]
  <2>1. \/ rec' = rec /\ said' = said
        \/ /\ b.known /\ rec' = [rec EXCEPT ![w][r] = e]
           /\ said' = IF shown /\ w = r THEN [said EXCEPT ![w][r] = 0] ELSE said
    BY <1>6 DEF Watch!Probe
  <2>2. b \in Records /\ growth[w].files \in Nat
    BY <1>1 DEF WatchTypes, Lives
  <2>3. /\ Watch!Sign(b) \in Records /\ Watch!Sign(b).known /\ Watch!Sign(b).ended = b.ended
    BY <2>2, SignsAreRecords
  <2>4. ASSUME NEW c \in Records, NEW n \in Nat
        PROVE  /\ [c EXCEPT !.based = TRUE, !.seen = n] \in Records
               /\ [c EXCEPT !.based = TRUE, !.seen = n].known = c.known
               /\ [c EXCEPT !.based = TRUE, !.seen = n].ended = c.ended
               /\ [c EXCEPT !.based = TRUE, !.seen = n].armed = c.armed
    BY DEF Records
  <2>6. /\ a \in Records /\ (b.known => a.known) /\ a.ended = b.ended
        /\ ~shown => a.armed = b.armed
    BY <2>2, <2>3
  <2> HIDE DEF a, m, shown
  <2>5. e \in Records /\ (b.known => e.known) /\ e.ended = b.ended /\ (~shown => e.armed = b.armed)
    BY <2>2, <2>4, <2>6 DEF m
  <2> HIDE DEF e
  <2>7. CASE rec' = rec /\ said' = said
    BY <1>3, <2>7
  <2>8. CASE /\ b.known /\ rec' = [rec EXCEPT ![w][r] = e]
             /\ said' = IF shown /\ w = r THEN [said EXCEPT ![w][r] = 0] ELSE said
    <3>1. (rec[w][r].known => e.known) /\ e.ended = rec[w][r].ended
      BY <2>5
    <3>2. \/ said' = said /\ e.armed = rec[w][r].armed
          \/ w = r /\ said' = [said EXCEPT ![w][r] = 0]
          \/ w # r /\ said' = said
      BY <2>5, <2>8
    <3> QED
      BY <1>4, <2>5, <2>8, <3>1, <3>2
  <2> QED
    BY <2>1, <2>7, <2>8
<1>7. CASE Watch!Evaluate(w)
  <2> DEFINE D == {r \in Runs : Watch!Watched(rec[w][r]) /\ rec[w][r].high /\ rec[w][r].armed}
             R == [r \in Runs |-> IF r \in D THEN Watch!Reported(w, r) ELSE rec[w][r]]
             S == [r \in Runs |-> IF r \in D /\ said[w][r] < 2 THEN said[w][r] + 1 ELSE said[w][r]]
  <2>1. rec' = [rec EXCEPT ![w] = R] /\ said' = [said EXCEPT ![w] = S]
    BY <1>1, <1>7 DEF Watch!Evaluate, WatchTypes
  <2>2. \A r \in Runs : rec[w][r] \in Records /\ said[w][r] \in 0..2
    BY <1>1 DEF WatchTypes
  <2>3. \A r \in Runs : /\ Watch!Reported(w, r) \in Records /\ ~Watch!Reported(w, r).armed
                        /\ Watch!Reported(w, r).known = rec[w][r].known
                        /\ Watch!Reported(w, r).ended = rec[w][r].ended
    BY <2>2 DEF Watch!Reported, Records
  <2>4. /\ R \in [Runs -> Records]
        /\ \A r \in Runs : R[r].known = rec[w][r].known /\ R[r].ended = rec[w][r].ended
    BY <2>2, <2>3
  <2>5. S \in [Runs -> 0..2]
    BY <2>2
  <2>6. S[w] # 0 => S[w] = 1 /\ R[w].known /\ ~R[w].armed
    BY <1>1, <2>2, <2>3 DEF Watch!Watched
  <2> HIDE DEF R, S
  <2>7. /\ rec' \in [Watchers -> [Runs -> Records]] /\ said' \in [Watchers -> [Runs -> 0..2]]
        /\ \A v \in Watchers : rec'[v] = (IF v = w THEN R ELSE rec[v])
                               /\ said'[v] = (IF v = w THEN S ELSE said[v])
    BY <1>1, <2>1, <2>4, <2>5 DEF WatchTypes
  <2>8. LiveKept
    BY <2>4, <2>7 DEF LiveKept
  <2>9. WatchTypes'
    BY <1>1, <1>2, <2>7 DEF WatchTypes
  <2>10. ASSUME NEW v \in Watchers
         PROVE  /\ ~rec'[v][v].ended
                /\ said'[v][v] # 0 => /\ said'[v][v] = 1
                                      /\ rec'[v][v].known /\ ~rec'[v][v].armed
    <3>1. CASE v = w
      <4>1. rec'[v][v] = R[w] /\ said'[v][v] = S[w]
        BY <2>7, <3>1
      <4> QED
        BY <1>1, <2>4, <2>6, <3>1, <4>1
    <3>2. CASE v # w
      <4>1. rec'[v][v] = rec[v][v] /\ said'[v][v] = said[v][v]
        BY <2>7, <3>2
      <4> QED
        BY <1>1, <4>1
    <3> QED
      BY <3>1, <3>2
  <2> QED
    BY <2>8, <2>9, <2>10 DEF WatchInv
<1>8. CASE Watch!Tick(w) \/ Watch!Rest(w)
  BY <1>3, <1>8 DEF Watch!Tick, Watch!Rest
<1> QED
  BY <1>5, <1>6, <1>7, <1>8 DEF Watch!Ticking

LEMMA WatchKept == WatchInv /\ [Watch!Next]_Watch!vars => WatchInv' /\ [LiveKept]_Watch!vars
<1> SUFFICES ASSUME WatchInv, [Watch!Next]_Watch!vars PROVE WatchInv' /\ [LiveKept]_Watch!vars
  OBVIOUS
<1>1. CASE UNCHANGED Watch!vars
  BY <1>1 DEF Watch!vars, WatchInv, WatchTypes
<1>2. ASSUME NEW r \in Runs, Watch!Growing(r) PROVE WatchInv' /\ LiveKept
  BY <1>2, HearingKeeps, QuietKeeps DEF Watch!Growing
<1>3. ASSUME NEW w \in Watchers, Watch!Ticking(w) \/ \E r \in Runs : Watch!Linger(w, r)
      PROVE  WatchInv' /\ LiveKept
  BY <1>3, TicksKeep
<1> QED
  BY <1>1, <1>2, <1>3 DEF Watch!Next

LEMMA WatchInvImplies == WatchInv => Watch!OwnSilenceIsReportedOnce
BY DEF WatchInv, Watch!OwnSilenceIsReportedOnce

-----------------------------------------------------------------------------
\* A watcher reports one silence of its own run once, and drops the record of no
\* run that still grows, whatever it hears, samples or reports meanwhile.
THEOREM SilencesAreReportedAlone ==
  Watch!Spec => []Watch!OwnSilenceIsReportedOnce /\ Watch!LiveRecordsAreKept
BY WatchInit, WatchKept, WatchInvImplies, PTL DEF Watch!Spec, Watch!LiveRecordsAreKept, LiveKept

\* SilenceIsReportedOnce, in the composition the run checks.
THEOREM SilenceIsReportedOnceAlways == MCSpec => SilenceIsReportedOnce
<1>1. MCInit => WatchInv
  BY WatchInit DEF MCInit
<1>2. [MCNext]_<<focus, opening, planned, crew, turns, call, watch, choice, context>>
          => [Watch!Next]_Watch!vars
  BY DEF MCNext, watch, Watch!vars
<1>3. WatchInv => (focus = "watch" => Watch!OwnSilenceIsReportedOnce)
  BY WatchInvImplies
<1> QED
  BY <1>1, <1>2, <1>3, WatchKept, PTL
  DEF MCSpec, SilenceIsReportedOnce, Watch!LiveRecordsAreKept, LiveKept

-----------------------------------------------------------------------------
(***************************************************************************)
(* TaskContext.  One reader at a time brings the index up to date.  What    *)
(* the index has of a file is no newer than the file, and its symbols are   *)
(* no older than its record, because the record is written last and a new   *)
(* content is one that the file never had: a record that equals the content *)
(* pins the symbols between them.  What was taken is a candidate that is no *)
(* longer pending, and none that is pending or was cut goes before it.      *)
(***************************************************************************)

\* What a reader is at: nothing, the scan, a statement of it, the choice.
Scanning == [at : {"scan"}, todo : SUBSET Files, seen : SUBSET Files]
Writing == [at : {"write"}, todo : SUBSET Files, seen : SUBSET Files,
            file : Files, version : Nat, step : 1 .. 3]
Kinds == {"anchor", "symbol", "git", "memory", "test"}
Found == [kind : Kinds, priority : 0 .. 5, path : Nat, lines : Nat]
Quoted == [priority : 0 .. 5, path : Nat, kind : Kinds, lines : Nat, of : Nat]
Choosing == [at : {"select", "ready"}, pending : SUBSET Found, known : SUBSET Found,
             items : SUBSET Quoted, used : Nat, omitted : Nat, cut : SUBSET Found]
Readings == {Context!Idle} \cup Scanning \cup Writing \cup Choosing

ContextTypes ==
    /\ content \in [Files -> Nat] /\ hash \in [Files -> Nat] /\ syms \in [Files -> Nat]
    /\ assembly \in [Readers -> Readings] /\ revisions \in Nat

OneReader ==
    \A r, q \in Readers : assembly[r].at # "idle" /\ assembly[q].at # "idle" => r = q

\* What the index has of a file is no newer than the file, and its symbols are
\* no older than its record.
Dated(p) ==
    /\ {content[p], hash[p], syms[p]} \subseteq 0 .. revisions + 1
    /\ content[p] # 0 => hash[p] <= content[p] /\ syms[p] <= content[p]
    /\ syms[p] # 0 => hash[p] <= syms[p]

\* What is about to be written is newer than what is recorded.
Newer(s) ==
    s.at = "write" =>
        /\ hash[s.file] < s.version /\ s.version <= revisions + 1
        /\ content[s.file] # 0 => s.version <= content[s.file]
        /\ s.step = 3 => syms[s.file] = s.version

\* What was found and what was taken of it.
Candid(c) ==
    /\ c.kind # "memory" => c.path \in Files /\ c.priority <= 4
    /\ c.kind = "symbol" => c.lines = syms[c.path] /\ c.lines # 0
Taken(i, s) ==
    /\ \E c \in s.known \ s.pending :
         c.kind = i.kind /\ c.priority = i.priority /\ c.path = i.path /\ c.lines = i.lines
    /\ i.kind = "symbol" => i.lines = i.of
    /\ \A c \in s.pending \cup s.cut : i.priority <= c.priority

Orderly(s) ==
    s.at \in {"select", "ready"} =>
        /\ IsFiniteSet(s.known) /\ IsFiniteSet(s.items) /\ s.pending \subseteq s.known
        /\ \A c \in s.known : Candid(c)
        /\ \A i \in s.items : Taken(i, s)
        /\ s.at = "ready" => s.pending = {}
        /\ s.at = "select" => s.cut = {}
        /\ s.used <= MaxBytes /\ Cardinality(s.items) <= MaxItems
        /\ Cardinality(s.known) = Cardinality(s.items) + s.omitted + Cardinality(s.pending)

ContextInv ==
    /\ ContextTypes /\ OneReader
    /\ \A p \in Files : Dated(p)
    /\ \A r \in Readers : Newer(assembly[r]) /\ Orderly(assembly[r])

-----------------------------------------------------------------------------
LEMMA MinIs ==
  ASSUME NEW T \in SUBSET Files, T # {}
  PROVE  Context!Min(T) \in T
<1>1. T \in SUBSET Nat
  BY ContextIsIndexed
<1>2. \E least \in T : \A i \in T : least <= i
  BY <1>1, LeastOf
<1> QED
  BY <1>2 DEF Context!Min

LEMMA FirstIs ==
  ASSUME NEW T \in SUBSET Found, T # {}
  PROVE  /\ Context!First(T) \in T
         /\ \A d \in T : Context!First(T).priority <= d.priority
<1>1. {c.priority : c \in T} \in SUBSET Nat /\ {c.priority : c \in T} # {}
  BY DEF Found
<1>2. PICK n \in {c.priority : c \in T} : \A m \in {c.priority : c \in T} : n <= m
  BY <1>1, LeastOf
<1> DEFINE U == {c \in T : c.priority = n}
<1>3. {c.path : c \in U} \in SUBSET Nat /\ {c.path : c \in U} # {}
  BY <1>2 DEF Found
<1>4. PICK m \in {c.path : c \in U} : \A k \in {c.path : c \in U} : m <= k
  BY <1>3, LeastOf
<1>5. PICK c \in U : c.path = m
  BY <1>4
<1>6. ASSUME NEW d \in T PROVE Context!Before(c, d)
  <2>1. c \in Found /\ d \in Found /\ c.priority <= d.priority
    BY <1>2, <1>5
  <2>2. CASE d.priority = n
    <3>1. m <= d.path
      BY <1>4, <1>6, <2>2
    <3> QED
      BY <1>5, <2>2, <3>1 DEF Context!Before
  <2>3. CASE d.priority # n
    BY <1>5, <2>1, <2>3 DEF Context!Before, Found
  <2> QED
    BY <2>2, <2>3
<1>7. \E e \in T : \A d \in T : Context!Before(e, d)
  BY <1>5, <1>6
<1>8. Context!First(T) \in T /\ \A d \in T : Context!Before(Context!First(T), d)
  BY <1>7 DEF Context!First
<1> QED
  BY <1>8 DEF Context!Before, Found

LEMMA Shapes ==
  ASSUME NEW s \in Readings
  PROVE  /\ s.at \in {"idle", "scan", "write", "select", "ready"}
         /\ s.at = "scan" => s \in Scanning
         /\ s.at = "write" => s \in Writing
         /\ s.at \in {"select", "ready"} => s \in Choosing
BY DEF Readings, Context!Idle, Scanning, Writing, Choosing

\* The step of a reader, while the others are idle.
LEMMA ReaderSteps ==
  ASSUME ContextInv, NEW r \in Readers, NEW s \in Readings,
         assembly' = [assembly EXCEPT ![r] = s], UNCHANGED <<content, revisions>>,
         \A q \in Readers : q # r => assembly[q].at = "idle",
         hash' \in [Files -> Nat], syms' \in [Files -> Nat],
         \A p \in Files : Dated(p)',
         s.at \in {"scan", "write"},
         s.at = "write" =>
           /\ hash'[s.file] < s.version /\ s.version <= revisions + 1
           /\ content[s.file] # 0 => s.version <= content[s.file]
           /\ s.step = 3 => syms'[s.file] = s.version
  PROVE  ContextInv'
<1>1. /\ assembly' \in [Readers -> Readings] /\ assembly'[r] = s
      /\ \A q \in Readers : q # r => assembly'[q].at = "idle"
  BY DEF ContextInv, ContextTypes
<1>2. ContextTypes'
  BY <1>1 DEF ContextInv, ContextTypes
<1>3. OneReader'
  BY <1>1 DEF OneReader
<1>4. ASSUME NEW q \in Readers PROVE Newer(assembly[q])' /\ Orderly(assembly[q])'
  <2>1. CASE q = r
    BY <1>1, <2>1 DEF Newer, Orderly
  <2>2. CASE q # r
    BY <1>1, <2>2 DEF Newer, Orderly
  <2> QED
    BY <2>1, <2>2
<1> QED
  BY <1>2, <1>3, <1>4 DEF ContextInv

\* One that leaves the index as it is.
LEMMA SilentSteps ==
  ASSUME ContextInv, NEW r \in Readers, NEW s \in Readings,
         assembly' = [assembly EXCEPT ![r] = s], UNCHANGED <<content, hash, syms, revisions>>,
         assembly[r].at # "idle" \/ \A q \in Readers : assembly[q].at = "idle",
         Newer(s), Orderly(s)
  PROVE  ContextInv'
<1>1. \A q \in Readers : q # r => assembly[q].at = "idle"
  BY DEF ContextInv, OneReader
<1>2. \A p \in Files : Dated(p)'
  BY DEF ContextInv, Dated
<1>3. /\ assembly' \in [Readers -> Readings] /\ assembly'[r] = s
      /\ \A q \in Readers : q # r => assembly'[q] = assembly[q]
  BY DEF ContextInv, ContextTypes
<1>4. ContextTypes' /\ OneReader'
  BY <1>1, <1>3 DEF ContextInv, ContextTypes, OneReader
<1>5. ASSUME NEW q \in Readers PROVE Newer(assembly[q])' /\ Orderly(assembly[q])'
  <2>1. CASE q = r
    BY <1>3, <2>1 DEF Newer, Orderly, Candid, Taken
  <2>2. CASE q # r
    BY <1>1, <1>3, <2>2 DEF Newer, Orderly
  <2> QED
    BY <2>1, <2>2
<1> QED
  BY <1>2, <1>4, <1>5 DEF ContextInv

LEMMA TypesOf ==
  ASSUME ContextInv
  PROVE  /\ content \in [Files -> Nat] /\ hash \in [Files -> Nat] /\ syms \in [Files -> Nat]
         /\ assembly \in [Readers -> Readings] /\ revisions \in Nat
BY DEF ContextInv, ContextTypes

LEMMA BeginKeeps == ASSUME ContextInv, NEW r \in Readers, Context!Begin(r) PROVE ContextInv'
<1> DEFINE s == [at |-> "scan", todo |-> Files, seen |-> {}]
<1>1. s \in Readings /\ Newer(s) /\ Orderly(s)
  BY DEF Readings, Scanning, Newer, Orderly
<1>2. assembly' = [assembly EXCEPT ![r] = s] /\ UNCHANGED <<content, hash, syms, revisions>>
      /\ \A q \in Readers : assembly[q].at = "idle"
  BY DEF Context!Begin
<1> HIDE DEF s
<1> QED
  BY <1>1, <1>2, SilentSteps

LEMMA ScanKeeps == ASSUME ContextInv, NEW r \in Readers, Context!ScanFile(r) PROVE ContextInv'
<1> DEFINE z == assembly[r]
           p == Context!Min(z.todo)
           next == [z EXCEPT !.todo = @ \ {p}]
           met == [next EXCEPT !.seen = @ \cup {p}]
           w == [at |-> "write", todo |-> next.todo, seen |-> next.seen \cup {p},
                 file |-> p, version |-> content[p], step |-> 1]
<1>1. z \in Scanning /\ p \in Files
  BY TypesOf, Shapes, MinIs DEF Context!ScanFile, Scanning
<1>2. /\ assembly' = [assembly EXCEPT ![r] = IF content[p] = 0 THEN next
                                   ELSE IF hash[p] = content[p] THEN met ELSE w]
      /\ UNCHANGED <<content, hash, syms, revisions>>
  BY DEF Context!ScanFile
<1>3. next \in Scanning /\ next.at = "scan"
  BY <1>1 DEF Scanning
<1>4. met \in Scanning /\ met.at = "scan"
  BY <1>1, <1>3 DEF Scanning
<1>5. content[p] # 0 /\ hash[p] # content[p] =>
        /\ w \in Writing /\ w.at = "write" /\ w.file = p /\ w.version = content[p] /\ w.step = 1
  BY <1>1, <1>3, TypesOf DEF Scanning, Writing
<1>6. content[p] # 0 => hash[p] <= content[p] /\ content[p] <= revisions + 1
  BY <1>1 DEF ContextInv, Dated
<1> HIDE DEF p, next, met, w
<1>7. PICK s \in Readings : assembly' = [assembly EXCEPT ![r] = s] /\ Newer(s) /\ Orderly(s)
  <2>1. CASE content[p] = 0
    BY <1>2, <1>3, <2>1 DEF Readings, Newer, Orderly
  <2>2. CASE content[p] # 0 /\ hash[p] = content[p]
    BY <1>2, <1>4, <2>2 DEF Readings, Newer, Orderly
  <2>3. CASE content[p] # 0 /\ hash[p] # content[p]
    <3>1. hash[p] < content[p] /\ content[p] <= revisions + 1
      BY <1>1, <1>6, <2>3, TypesOf
    <3>2. Newer(w)
      BY <1>1, <1>5, <2>3, <3>1, TypesOf DEF Newer
    <3> QED
      BY <1>2, <1>5, <2>3, <3>2 DEF Readings, Orderly
  <2> QED
    BY <2>1, <2>2, <2>3
<1>8. z.at # "idle"
  BY DEF Context!ScanFile
<1> QED
  BY <1>2, <1>7, <1>8, SilentSteps

LEMMA ParseKeeps == ASSUME ContextInv, NEW r \in Readers, Context!ParseFails(r) PROVE ContextInv'
<1> DEFINE z == assembly[r]
           s == [at |-> "scan", todo |-> z.todo, seen |-> z.seen]
<1>1. z \in Writing /\ z.at # "idle"
  BY TypesOf, Shapes DEF Context!ParseFails
<1>2. assembly' = [assembly EXCEPT ![r] = s] /\ UNCHANGED <<content, hash, syms, revisions>>
  BY DEF Context!ParseFails
<1>3. s \in Readings /\ Newer(s) /\ Orderly(s)
  BY <1>1 DEF Readings, Scanning, Writing, Newer, Orderly
<1> HIDE DEF s
<1> QED
  BY <1>1, <1>2, <1>3, SilentSteps

LEMMA WriteIndexKeeps == ASSUME ContextInv, NEW r \in Readers, Context!WriteIndex(r) PROVE ContextInv'
<1> DEFINE z == assembly[r]
           p == z.file
           back == [at |-> "scan", todo |-> z.todo, seen |-> z.seen]
           on == [z EXCEPT !.step = @ + 1]
<1>1. z \in Writing /\ z.at = "write" /\ p \in Files /\ z.step \in 1 .. 3 /\ z.version \in Nat
  BY TypesOf, Shapes DEF Context!WriteIndex, Writing
<1>2. /\ hash[p] < z.version /\ z.version <= revisions + 1
      /\ content[p] # 0 => z.version <= content[p]
      /\ z.step = 3 => syms[p] = z.version
  BY <1>1 DEF ContextInv, Newer
<1>3. /\ assembly' = [assembly EXCEPT ![r] = IF z.step = 3 THEN back ELSE on]
      /\ UNCHANGED <<content, revisions>>
      /\ z.step = 1 => syms' = [syms EXCEPT ![p] = 0] /\ hash' = hash
      /\ z.step = 2 => syms' = [syms EXCEPT ![p] = z.version] /\ hash' = hash
      /\ z.step = 3 => syms' = syms /\ hash' = [hash EXCEPT ![p] = z.version]
  <2>1. Context!Statements[1] = "delete" /\ Context!Statements[2] = "insert" /\ Context!Statements[3] = "file"
    BY DEF Context!Statements
  <2> QED
    BY <1>1, <2>1 DEF Context!WriteIndex
<1>4. hash' \in [Files -> Nat] /\ syms' \in [Files -> Nat]
  BY <1>1, <1>3, TypesOf
<1>5. ASSUME NEW f \in Files PROVE Dated(f)'
  <2>1. Dated(f)
    BY DEF ContextInv
  <2>2. CASE f # p
    <3>1. hash'[f] = hash[f] /\ syms'[f] = syms[f]
      BY <1>1, <1>3, <2>2, TypesOf
    <3> QED
      BY <1>3, <2>1, <3>1 DEF Dated
  <2>3. CASE f = p
    <3>1. /\ z.step = 1 => syms'[p] = 0 /\ hash'[p] = hash[p]
          /\ z.step = 2 => syms'[p] = z.version /\ hash'[p] = hash[p]
          /\ z.step = 3 => syms'[p] = z.version /\ hash'[p] = z.version
      BY <1>1, <1>2, <1>3, TypesOf
    <3>2. content[p] \in Nat /\ hash[p] \in Nat /\ syms[p] \in Nat /\ revisions \in Nat
      BY <1>1, TypesOf
    <3> QED
      BY <1>1, <1>2, <1>3, <2>1, <2>3, <3>1, <3>2 DEF Dated
  <2> QED
    BY <2>2, <2>3
<1>6. back \in Readings /\ back.at = "scan"
  BY <1>1 DEF Readings, Scanning, Writing
<1>7. z.step # 3 => /\ on \in Readings /\ on.at = "write" /\ on.file = p
                    /\ on.version = z.version /\ on.step = z.step + 1
  BY <1>1 DEF Readings, Writing
<1>8. \A q \in Readers : q # r => assembly[q].at = "idle"
  BY <1>1 DEF ContextInv, OneReader
<1> HIDE DEF back, on
<1>9. CASE z.step = 3
  BY <1>3, <1>4, <1>5, <1>6, <1>8, <1>9, ReaderSteps
<1>10. CASE z.step # 3
  <2>1. hash'[p] = hash[p] /\ (z.step = 2 => syms'[p] = z.version)
    BY <1>1, <1>3, <1>10, TypesOf
  <2>2. on.step = 3 => z.step = 2
    BY <1>1, <1>7, <1>10
  <2> QED
    BY <1>2, <1>3, <1>4, <1>5, <1>7, <1>8, <1>10, <2>1, <2>2, ReaderSteps
<1> QED
  BY <1>9, <1>10

LEMMA PurgeKeeps == ASSUME ContextInv, NEW r \in Readers, Context!Purge(r) PROVE ContextInv'
<1> DEFINE z == assembly[r]
           p == Context!Min(Context!Gone(r))
<1>1. z \in Scanning /\ z.at = "scan" /\ z \in Readings /\ p \in Files
  <2>1. z \in Scanning /\ z.at = "scan" /\ z \in Readings
    BY TypesOf, Shapes DEF Context!Purge
  <2>2. Context!Gone(r) \in SUBSET Files /\ Context!Gone(r) # {}
    BY DEF Context!Purge, Context!Gone
  <2> QED
    BY <2>1, <2>2, MinIs
<1>2. /\ assembly' = assembly /\ UNCHANGED <<content, revisions>>
      /\ \/ syms[p] # 0 /\ syms' = [syms EXCEPT ![p] = 0] /\ hash' = hash
         \/ syms[p] = 0 /\ hash' = [hash EXCEPT ![p] = 0] /\ syms' = syms
  BY DEF Context!Purge
<1> HIDE DEF p
<1>3. assembly' = [assembly EXCEPT ![r] = z]
  BY <1>2, TypesOf
<1>4. hash' \in [Files -> Nat] /\ syms' \in [Files -> Nat]
  BY <1>1, <1>2, TypesOf
<1>5. ASSUME NEW f \in Files PROVE Dated(f)'
  <2>1. Dated(f) /\ {content[f], hash[f], syms[f], revisions} \subseteq Nat
    BY TypesOf DEF ContextInv
  <2>2. \/ hash'[f] = hash[f] /\ syms'[f] \in {syms[f], 0}
        \/ hash'[f] = 0 /\ syms'[f] = 0
        \/ hash'[f] = hash[f] /\ syms'[f] = syms[f]
    BY <1>1, <1>2, TypesOf
  <2> QED
    BY <1>2, <2>1, <2>2 DEF Dated
<1>6. \A q \in Readers : q # r => assembly[q].at = "idle"
  BY <1>1 DEF ContextInv, OneReader
<1> HIDE DEF z
<1> QED
  BY <1>1, <1>2, <1>3, <1>4, <1>5, <1>6, ReaderSteps

LEMMA LeaveKeeps ==
  ASSUME ContextInv, NEW r \in Readers, Context!Interrupt(r) \/ Context!Finish(r)
  PROVE  ContextInv'
<1>1. /\ assembly[r].at # "idle" /\ assembly' = [assembly EXCEPT ![r] = Context!Idle]
      /\ UNCHANGED <<content, hash, syms, revisions>>
  BY DEF Context!Interrupt, Context!Finish
<1>2. Context!Idle \in Readings /\ Context!Idle.at = "idle"
  BY DEF Readings, Context!Idle
<1>3. Newer(Context!Idle) /\ Orderly(Context!Idle)
  BY <1>2 DEF Newer, Orderly
<1> QED
  BY <1>1, <1>2, <1>3, SilentSteps

LEMMA EditKeeps == ASSUME ContextInv, Context!Edit PROVE ContextInv'
<1>1. PICK p \in Files, v \in 0 .. MaxRevisions + 1 :
        /\ v = revisions + 2 \/ v = 0
        /\ content' = [content EXCEPT ![p] = v]
        /\ revisions' = revisions + 1
        /\ UNCHANGED <<hash, syms, assembly>>
  BY DEF Context!Edit
<1>2. v \in Nat /\ revisions' \in Nat /\ content' \in [Files -> Nat]
  BY <1>1, TypesOf
<1>3. ContextTypes' /\ OneReader'
  BY <1>1, <1>2 DEF ContextInv, ContextTypes, OneReader
<1>4. \A f \in Files : content'[f] = IF f = p THEN v ELSE content[f]
  BY <1>1, TypesOf
<1>5. ASSUME NEW f \in Files PROVE Dated(f)'
  <2>1. Dated(f) /\ {content[f], hash[f], syms[f], revisions} \subseteq Nat
    BY TypesOf DEF ContextInv
  <2> QED
    BY <1>1, <1>2, <1>4, <2>1 DEF Dated
<1>6. ASSUME NEW r \in Readers PROVE Newer(assembly[r])' /\ Orderly(assembly[r])'
  <2>1. Newer(assembly[r]) /\ Orderly(assembly[r]) /\ assembly' = assembly /\ hash' = hash /\ syms' = syms
    BY <1>1 DEF ContextInv
  <2>2. assembly[r].at = "write" => assembly[r].file \in Files /\ assembly[r].version \in Nat
    BY TypesOf, Shapes DEF Writing
  <2>3. Newer(assembly[r])'
    BY <1>1, <1>4, <2>1, <2>2, TypesOf DEF Newer
  <2>4. Orderly(assembly[r])'
    BY <2>1 DEF Orderly, Candid, Taken
  <2> QED
    BY <2>3, <2>4
<1> QED
  BY <1>3, <1>5, <1>6 DEF ContextInv

LEMMA SameSize == ASSUME NEW T PROVE Context!Cardinality(T) = Cardinality(T)
BY DEF Context!Cardinality, Cardinality

LEMMA OneMore ==
  ASSUME NEW T, IsFiniteSet(T), NEW x, x \notin T
  PROVE  IsFiniteSet(T \cup {x}) /\ Cardinality(T \cup {x}) = Cardinality(T) + 1
BY FS_AddElement

LEMMA OneLess ==
  ASSUME NEW T, IsFiniteSet(T), NEW x \in T
  PROVE  IsFiniteSet(T \ {x}) /\ Cardinality(T \ {x}) = Cardinality(T) - 1
BY FS_RemoveElement

\* The image of a finite set is finite.
LEMMA ImageIsFinite ==
  ASSUME NEW f, IsFiniteSet(DOMAIN f)
  PROVE  IsFiniteSet({f[x] : x \in DOMAIN f})
<1> DEFINE T == {f[x] : x \in DOMAIN f}
           g == [x \in DOMAIN f |-> f[x]]
<1>1. g \in Surjection(DOMAIN f, T)
  BY DEF Surjection
<1> QED
  BY <1>1, FS_Surjection

LEMMA GatheredIs ==
  ASSUME ContextInv, NEW A \in SUBSET Files, NEW C \in SUBSET Files,
         NEW X \in SUBSET Context!Indexed, NEW L \in SUBSET Context!Indexed,
         NEW M \in SUBSET {1}
  PROVE  LET found == Context!Gathered(A, X, L, C, M)
         IN  found \in SUBSET Found /\ IsFiniteSet(found) /\ \A c \in found : Candid(c)
<1> DEFINE B == (X \cup L) \ A
           G == C \ (A \cup X \cup L)
           fa == [p \in A |-> Context!Candidate("anchor", 0, p, 0)]
           fb == [p \in B |-> Context!Candidate("symbol", IF p \in X THEN 1 ELSE 2, p, syms[p])]
           fg == [p \in G |-> Context!Candidate("git", 3, p, 0)]
           fm == [m \in M |-> Context!Candidate("memory", 5, m, 0)]
           sa == {fa[p] : p \in A}
           sb == {fb[p] : p \in B}
           sg == {fg[p] : p \in G}
           sm == {fm[m] : m \in M}
           found == Context!Gathered(A, X, L, C, M)
<1>1. IsFiniteSet(A) /\ IsFiniteSet(B) /\ IsFiniteSet(G) /\ IsFiniteSet(M)
  <2>1. /\ A \in SUBSET Files /\ B \in SUBSET Files /\ G \in SUBSET Files
        /\ M \in SUBSET {1} /\ IsFiniteSet({1}) /\ IsFiniteSet(Files)
    BY ContextIsIndexed, FS_Singleton DEF Context!Indexed
  <2> QED
    BY <2>1, FS_Subset
<1>2. IsFiniteSet(sa) /\ IsFiniteSet(sb) /\ IsFiniteSet(sg) /\ IsFiniteSet(sm)
  <2>1. IsFiniteSet(sa)
    BY <1>1, ImageIsFinite
  <2>2. IsFiniteSet(sb)
    BY <1>1, ImageIsFinite
  <2>3. IsFiniteSet(sg)
    BY <1>1, ImageIsFinite
  <2>4. IsFiniteSet(sm)
    BY <1>1, ImageIsFinite
  <2> QED
    BY <2>1, <2>2, <2>3, <2>4
<1>3. found = sa \cup sb \cup sg \cup sm
  <2>1. /\ sa = {Context!Candidate("anchor", 0, p, 0) : p \in A}
        /\ sb = {Context!Candidate("symbol", IF p \in X THEN 1 ELSE 2, p, syms[p]) : p \in B}
        /\ sg = {Context!Candidate("git", 3, p, 0) : p \in G}
        /\ sm = {Context!Candidate("memory", 5, m, 0) : m \in M}
    OBVIOUS
  <2> HIDE DEF sa, sb, sg, sm
  <2> QED
    BY <2>1 DEF Context!Gathered
<1> HIDE DEF found
<1>4. ASSUME NEW c \in found PROVE c \in Found /\ Candid(c)
  <2>1. CASE c \in sa
    <3>1. PICK p \in A : c = [kind |-> "anchor", priority |-> 0, path |-> p, lines |-> 0]
      BY <2>1 DEF Context!Candidate
    <3> QED
      BY <3>1, ContextIsIndexed DEF Found, Kinds, Candid
  <2>2. CASE c \in sb
    <3>1. PICK p \in B : c = [kind |-> "symbol", priority |-> IF p \in X THEN 1 ELSE 2,
                              path |-> p, lines |-> syms[p]]
      BY <2>2 DEF Context!Candidate
    <3>2. p \in Files /\ syms[p] # 0 /\ p \in Nat /\ syms[p] \in Nat
      BY TypesOf, ContextIsIndexed DEF Context!Indexed
    <3> QED
      BY <3>1, <3>2 DEF Found, Kinds, Candid
  <2>3. CASE c \in sg
    <3>1. PICK p \in G : c = [kind |-> "git", priority |-> 3, path |-> p, lines |-> 0]
      BY <2>3 DEF Context!Candidate
    <3> QED
      BY <3>1, ContextIsIndexed DEF Found, Kinds, Candid
  <2>4. CASE c \in sm
    <3>1. c = [kind |-> "memory", priority |-> 5, path |-> 1, lines |-> 0]
      BY <2>4 DEF Context!Candidate
    <3> QED
      BY <3>1 DEF Found, Kinds, Candid
  <2> QED
    BY <1>3, <2>1, <2>2, <2>3, <2>4
<1>5. IsFiniteSet(found)
  <2> HIDE DEF sa, sb, sg, sm
  <2> QED
    BY <1>2, <1>3, FS_Union
<1> QED
  BY <1>4, <1>5 DEF found

LEMMA GatherKeeps == ASSUME ContextInv, NEW r \in Readers, Context!Gather(r) PROVE ContextInv'
<1>1. PICK A \in SUBSET Files, C \in SUBSET Files, X \in SUBSET Context!Indexed,
           L \in SUBSET Context!Indexed, M \in {{}, {1}} :
        LET found == Context!Gathered(A, X, L \ X, C, M)
        IN  assembly' = [assembly EXCEPT ![r] =
                           [at |-> "select", pending |-> found, known |-> found, items |-> {},
                            used |-> 0, omitted |-> 0, cut |-> {}]]
  BY DEF Context!Gather
<1>2. L \ X \in SUBSET Context!Indexed /\ M \in SUBSET {1}
  OBVIOUS
<1> DEFINE found == Context!Gathered(A, X, L \ X, C, M)
           s == [at |-> "select", pending |-> found, known |-> found, items |-> {},
                 used |-> 0, omitted |-> 0, cut |-> {}]
<1>3. assembly' = [assembly EXCEPT ![r] = s] /\ UNCHANGED <<content, hash, syms, revisions>>
      /\ assembly[r].at # "idle"
  BY <1>1 DEF Context!Gather
<1>4. found \in SUBSET Found /\ IsFiniteSet(found) /\ \A c \in found : Candid(c)
  BY <1>2, GatheredIs
<1> HIDE DEF found
<1>5. s \in Choosing
  BY <1>4 DEF Choosing
<1>6. Cardinality(found) \in Nat /\ IsFiniteSet({}) /\ Cardinality({}) = 0
  BY <1>4, FS_CardinalityType, FS_EmptySet
<1>7. MaxBytes \in Nat /\ MaxItems \in Nat
  BY ContextIsIndexed
<1>8. /\ s.at = "select" /\ s.pending = found /\ s.known = found /\ s.items = {}
      /\ s.used = 0 /\ s.omitted = 0 /\ s.cut = {}
  OBVIOUS
<1> HIDE DEF s
<1>9. s \in Readings /\ Newer(s) /\ Orderly(s)
  BY <1>4, <1>5, <1>6, <1>7, <1>8 DEF Readings, Newer, Orderly
<1> QED
  BY <1>3, <1>9, SilentSteps

\* What a reader that chooses holds.
LEMMA ChoosingHolds ==
  ASSUME ContextInv, NEW r \in Readers, assembly[r].at \in {"select", "ready"}
  PROVE  LET z == assembly[r] IN
         /\ z \in Choosing /\ Orderly(z) /\ z.pending \subseteq z.known
         /\ z.known \in SUBSET Found /\ z.items \in SUBSET Quoted /\ z.omitted \in Nat /\ z.used \in Nat
         /\ IsFiniteSet(z.pending) /\ IsFiniteSet(z.known) /\ IsFiniteSet(z.items)
         /\ {Cardinality(z.pending), Cardinality(z.known), Cardinality(z.items)} \subseteq Nat
<1> DEFINE z == assembly[r]
<1>1. z \in Choosing /\ Orderly(z)
  BY TypesOf, Shapes DEF ContextInv
<1>2. /\ z.pending \subseteq z.known /\ z.known \in SUBSET Found /\ z.items \in SUBSET Quoted
      /\ z.omitted \in Nat /\ z.used \in Nat /\ IsFiniteSet(z.known) /\ IsFiniteSet(z.items)
  BY <1>1 DEF Choosing, Orderly
<1>3. IsFiniteSet(z.pending)
  BY <1>2, FS_Subset
<1>4. {Cardinality(z.pending), Cardinality(z.known), Cardinality(z.items)} \subseteq Nat
  BY <1>2, <1>3, FS_CardinalityType
<1> QED
  BY <1>1, <1>2, <1>3, <1>4

LEMMA BudgetKeeps == ASSUME ContextInv, NEW r \in Readers, Context!Stop(r) PROVE ContextInv'
<1> DEFINE z == assembly[r]
           s == assembly'[r]
<1>1. /\ z.at = "select" /\ z \in Choosing /\ Orderly(z) /\ z.pending \subseteq z.known
      /\ z.omitted \in Nat /\ {Cardinality(z.pending), Cardinality(z.known), Cardinality(z.items)} \subseteq Nat
      /\ z.known \in SUBSET Found
  BY ChoosingHolds DEF Context!Stop
<1>2. assembly' = [assembly EXCEPT ![r] = [z EXCEPT !.at = "ready", !.pending = {}, !.cut = z.pending,
                                           !.omitted = z.omitted + Cardinality(z.pending)]]
      /\ UNCHANGED <<content, hash, syms, revisions>>
  BY SameSize DEF Context!Stop, Context!LeftOut
<1>3. s = [z EXCEPT !.at = "ready", !.pending = {}, !.cut = z.pending,
                    !.omitted = z.omitted + Cardinality(z.pending)]
  BY <1>2, TypesOf
<1>4. /\ s.at = "ready" /\ s.pending = {} /\ s.cut = z.pending /\ s.known = z.known
      /\ s.items = z.items /\ s.used = z.used /\ s.omitted = z.omitted + Cardinality(z.pending)
  BY <1>1, <1>3 DEF Choosing
<1>5. s \in Choosing
  <2>1. s.omitted \in Nat /\ s.cut \in SUBSET Found
    BY <1>1, <1>4
  <2> QED
    BY <1>1, <1>3, <1>4, <2>1 DEF Choosing
<1>6. assembly' = [assembly EXCEPT ![r] = s]
  BY <1>2, <1>3
<1> HIDE DEF s
<1>7. \A i \in z.items : Taken(i, s)
  BY <1>1, <1>4 DEF Orderly, Taken
<1>8. Orderly(s) /\ Newer(s)
  <2>1. Cardinality({}) = 0
    BY FS_EmptySet
  <2>2. Cardinality(s.known) = Cardinality(s.items) + s.omitted + Cardinality(s.pending)
    BY <1>1, <1>4, <2>1 DEF Orderly
  <2> QED
    BY <1>1, <1>4, <1>7, <2>2 DEF Orderly, Newer
<1>9. s \in Readings
  BY <1>5 DEF Readings
<1> QED
  BY <1>1, <1>2, <1>6, <1>8, <1>9, SilentSteps

LEMMA OmitKeeps == ASSUME ContextInv, NEW r \in Readers, Context!Omit(r) PROVE ContextInv'
<1> DEFINE z == assembly[r]
           c == Context!First(z.pending)
           s == assembly'[r]
<1>1. /\ z.at = "select" /\ z \in Choosing /\ Orderly(z) /\ z.pending \subseteq z.known
      /\ z.omitted \in Nat /\ {Cardinality(z.pending), Cardinality(z.known), Cardinality(z.items)} \subseteq Nat
      /\ IsFiniteSet(z.pending) /\ z.known \in SUBSET Found
  BY ChoosingHolds DEF Context!Omit
<1>2. c \in z.pending
  BY <1>1, FirstIs DEF Context!Omit
<1>3. assembly' = [assembly EXCEPT ![r] = [z EXCEPT !.pending = z.pending \ {c}, !.omitted = z.omitted + 1]]
      /\ UNCHANGED <<content, hash, syms, revisions>>
  BY TypesOf DEF Context!Omit
<1> HIDE DEF c
<1>4. s = [z EXCEPT !.pending = z.pending \ {c}, !.omitted = z.omitted + 1]
  BY <1>3, TypesOf
<1>5. /\ s.at = "select" /\ s.pending = z.pending \ {c} /\ s.cut = z.cut /\ s.known = z.known
      /\ s.items = z.items /\ s.used = z.used /\ s.omitted = z.omitted + 1
  BY <1>1, <1>4 DEF Choosing
<1>6. s \in Choosing
  <2>1. s.omitted \in Nat /\ s.pending \in SUBSET Found
    BY <1>1, <1>5
  <2> QED
    BY <1>1, <1>4, <1>5, <2>1 DEF Choosing
<1>7. assembly' = [assembly EXCEPT ![r] = s]
  BY <1>3, <1>4
<1> HIDE DEF s
<1>8. \A i \in z.items : Taken(i, s)
  BY <1>1, <1>5 DEF Orderly, Taken
<1>9. Cardinality(s.pending) = Cardinality(z.pending) - 1
  BY <1>1, <1>2, <1>5, OneLess
<1>10. Orderly(s) /\ Newer(s)
  <2>1. Cardinality(s.known) = Cardinality(s.items) + s.omitted + Cardinality(s.pending)
    BY <1>1, <1>5, <1>9 DEF Orderly
  <2> QED
    BY <1>1, <1>5, <1>8, <2>1 DEF Orderly, Newer
<1>11. s \in Readings
  BY <1>6 DEF Readings
<1> QED
  BY <1>1, <1>3, <1>7, <1>10, <1>11, SilentSteps

\* The test that an item brings was not known.
LEMMA AssociatedIs ==
  ASSUME ContextInv, NEW r \in Readers, assembly[r].at \in {"select", "ready"},
         NEW c \in assembly[r].known
  PROVE  LET new == Context!Associated(r, c) IN
         \/ new = {}
         \/ \E t \in Found : /\ new = {t} /\ t \notin assembly[r].known /\ Candid(t)
                            /\ t.priority = 4 /\ c.priority <= 4
<1> DEFINE z == assembly[r]
           t == Context!Partner(c.path)
           e == [kind |-> "test", priority |-> 4, path |-> t, lines |-> 0]
<1>1. z.known \in SUBSET Found /\ c \in Found /\ Candid(c)
  BY ChoosingHolds DEF Orderly
<1>2. \/ Context!Associated(r, c) = {}
      \/ /\ Context!Associated(r, c) = {e} /\ c.kind # "memory" /\ t # 0
         /\ \A k \in z.known : k.kind = "memory" \/ k.path # t
  BY DEF Context!Associated, Context!Candidate, Context!AssociatedPriority
<1>3. t # 0 => t \in Files
  BY ContextIsIndexed DEF Context!Partner
<1> HIDE DEF t
<1>4. CASE /\ Context!Associated(r, c) = {e} /\ c.kind # "memory" /\ t # 0
           /\ \A k \in z.known : k.kind = "memory" \/ k.path # t
  <2>1. e \in Found /\ Candid(e) /\ e.priority = 4 /\ e.kind = "test" /\ e.path = t
    <3>1. t \in Files /\ t \in Nat
      BY <1>3, <1>4, ContextIsIndexed
    <3> QED
      BY <3>1 DEF Found, Kinds, Candid
  <2>2. e \notin z.known
    BY <1>4, <2>1
  <2>3. c.priority <= 4
    BY <1>1, <1>4 DEF Candid
  <2> HIDE DEF e
  <2> QED
    BY <1>4, <2>1, <2>2, <2>3
<1> QED
  BY <1>2, <1>4

LEMMA AdmitKeeps == ASSUME ContextInv, NEW r \in Readers, Context!Admit(r) PROVE ContextInv'
<1> DEFINE z == assembly[r]
           c == Context!First(z.pending)
           new == Context!Associated(r, c)
           quoted == IF c.kind = "memory" THEN 0 ELSE content[c.path]
           item == [priority |-> c.priority, path |-> c.path, kind |-> c.kind, lines |-> c.lines,
                    of |-> quoted]
           fee == Context!Fee(z.used)
           s == assembly'[r]
<1>1. /\ z.at = "select" /\ z \in Choosing /\ Orderly(z) /\ z.pending \subseteq z.known
      /\ z.known \in SUBSET Found /\ z.items \in SUBSET Quoted /\ z.omitted \in Nat /\ z.used \in Nat
      /\ IsFiniteSet(z.pending) /\ IsFiniteSet(z.known) /\ IsFiniteSet(z.items)
      /\ {Cardinality(z.pending), Cardinality(z.known), Cardinality(z.items)} \subseteq Nat
  BY ChoosingHolds DEF Context!Admit
<1>2. /\ c \in z.pending /\ c \in z.known /\ c \in Found /\ Candid(c)
      /\ \A d \in z.pending : c.priority <= d.priority
  <2>1. z.pending \in SUBSET Found /\ z.pending # {}
    BY <1>1 DEF Context!Admit
  <2>2. c \in z.pending /\ \A d \in z.pending : c.priority <= d.priority
    BY <2>1, FirstIs
  <2> HIDE DEF c
  <2> QED
    BY <1>1, <2>1, <2>2 DEF Orderly
<1>3. PICK size \in 1 .. ItemMaxBytes :
        /\ size \in Context!Sizes(z.used)
        /\ Cardinality(z.items) < MaxItems /\ Context!Remaining(z.used) > 0 /\ Context!Readable(c)
        /\ assembly' = [assembly EXCEPT ![r] =
             [z EXCEPT !.pending = (z.pending \ {c}) \cup new, !.known = z.known \cup new,
                       !.items = z.items \cup {item}, !.used = z.used + fee + size]]
        /\ UNCHANGED <<content, hash, syms, revisions>>
  BY SameSize DEF Context!Admit
<1>4. \/ new = {}
      \/ \E t \in Found : /\ new = {t} /\ t \notin z.known /\ Candid(t) /\ t.priority = 4 /\ c.priority <= 4
  BY <1>1, <1>2, AssociatedIs
<1>5. c.kind = "symbol" => quoted = c.lines
  <2>1. c.kind = "symbol" =>
          /\ c.path \in Files /\ c.lines = syms[c.path] /\ c.lines # 0
          /\ content[c.path] # 0 /\ hash[c.path] = content[c.path]
    BY <1>2, <1>3 DEF Candid, Context!Readable, Context!Fresh
  <2>2. c.path \in Files => Dated(c.path) /\ {content[c.path], hash[c.path], syms[c.path]} \subseteq Nat
    BY TypesOf DEF ContextInv
  <2> QED
    BY <2>1, <2>2 DEF Dated
<1>6. quoted \in Nat
  BY <1>2, TypesOf DEF Candid
<1>7. z.used + fee + size \in Nat /\ z.used + fee + size <= MaxBytes
  <2>1. fee \in Nat /\ MaxBytes \in Nat /\ ItemMaxBytes \in Nat /\ z.used \in Nat /\ size \in Nat
    BY <1>1, ContextIsIndexed DEF Context!Fee, Context!Separator
  <2>2. /\ ~(MaxBytes < z.used + fee) /\ Context!Remaining(z.used) = MaxBytes - z.used - fee
    BY <1>3 DEF Context!Remaining
  <2>3. size <= Context!Remaining(z.used)
    <3>1. size <= Context!ItemBudget(z.used)
      BY <1>3 DEF Context!Sizes
    <3>2. Context!ItemBudget(z.used) <= Context!Remaining(z.used)
      <4>1. Context!Remaining(z.used) \in Int
        BY <2>1, <2>2
      <4> QED
        BY <2>1, <4>1 DEF Context!ItemBudget
    <3>3. Context!ItemBudget(z.used) \in Int /\ Context!Remaining(z.used) \in Int
      BY <2>1, <2>2 DEF Context!ItemBudget
    <3> QED
      BY <2>1, <3>1, <3>2, <3>3
  <2> HIDE DEF fee
  <2> QED
    BY <2>1, <2>2, <2>3
<1>8. s = [z EXCEPT !.pending = (z.pending \ {c}) \cup new, !.known = z.known \cup new,
                    !.items = z.items \cup {item}, !.used = z.used + fee + size]
  BY <1>3, TypesOf
<1>9. assembly' = [assembly EXCEPT ![r] = s] /\ UNCHANGED <<content, hash, syms, revisions>>
  BY <1>3, <1>8
<1>10. item \in Quoted
  BY <1>2, <1>6 DEF Found, Quoted
<1>11. item.kind = c.kind /\ item.priority = c.priority /\ item.path = c.path
       /\ item.lines = c.lines /\ item.of = quoted
  OBVIOUS
<1> HIDE DEF c, new, quoted, item, fee
<1>12. /\ s.at = "select" /\ s.pending = (z.pending \ {c}) \cup new /\ s.known = z.known \cup new
       /\ s.items = z.items \cup {item} /\ s.used = z.used + fee + size
       /\ s.omitted = z.omitted /\ s.cut = z.cut
  BY <1>1, <1>8 DEF Choosing
<1>13. s \in Choosing
  <2>1. s.pending \in SUBSET Found /\ s.known \in SUBSET Found /\ s.items \in SUBSET Quoted /\ s.used \in Nat
    BY <1>1, <1>4, <1>7, <1>10, <1>12
  <2> QED
    BY <1>1, <1>8, <1>12, <2>1 DEF Choosing
<1> HIDE DEF s
<1>14. z.cut = {} /\ \A i \in z.items : Taken(i, z)
  BY <1>1 DEF Orderly
<1>15. ASSUME NEW i \in s.items PROVE Taken(i, s)
  <2>1. c \notin s.pending
    BY <1>1, <1>2, <1>4, <1>12
  <2>2. CASE i \in z.items
    <3>1. Taken(i, z) /\ i.priority \in Nat /\ c.priority \in Nat
      BY <1>1, <1>2, <1>14, <2>2 DEF Found, Quoted
    <3>2. i.priority <= c.priority
      BY <1>2, <3>1 DEF Taken
    <3>3. \A d \in s.pending \cup s.cut : i.priority <= d.priority
      BY <1>4, <1>12, <1>14, <3>1, <3>2 DEF Taken
    <3>4. \A d \in z.known \ z.pending : d \in s.known \ s.pending
      BY <1>4, <1>12
    <3> QED
      BY <3>1, <3>3, <3>4 DEF Taken
  <2>3. CASE i = item
    <3>1. \A d \in s.pending \cup s.cut : i.priority <= d.priority
      BY <1>2, <1>4, <1>11, <1>12, <1>14, <2>3
    <3> QED
      BY <1>2, <1>5, <1>11, <1>12, <2>1, <2>3, <3>1 DEF Taken
  <2> QED
    BY <1>12, <2>2, <2>3
<1>16. item \notin z.items
  <2> SUFFICES ASSUME item \in z.items PROVE FALSE
    OBVIOUS
  <2>1. PICK d \in z.known \ z.pending :
          d.kind = c.kind /\ d.priority = c.priority /\ d.path = c.path /\ d.lines = c.lines
    BY <1>11, <1>14 DEF Taken
  <2>2. d = c
    BY <1>1, <1>2, <2>1 DEF Found
  <2> QED
    BY <1>2, <2>1, <2>2
<1>17. /\ IsFiniteSet(s.items) /\ IsFiniteSet(s.known)
       /\ Cardinality(s.items) = Cardinality(z.items) + 1
       /\ Cardinality(s.known) - Cardinality(s.pending)
            = Cardinality(z.known) - Cardinality(z.pending) + 1
       /\ Cardinality(s.pending) \in Nat /\ Cardinality(s.known) \in Nat
  <2>1. IsFiniteSet(s.items) /\ Cardinality(s.items) = Cardinality(z.items) + 1
    <3>1. Cardinality(z.items \cup {item}) = Cardinality(z.items) + 1
          /\ IsFiniteSet(z.items \cup {item})
      BY <1>1, <1>16, OneMore
    <3> QED
      BY <1>12, <3>1
  <2>2. IsFiniteSet(z.pending \ {c}) /\ Cardinality(z.pending \ {c}) = Cardinality(z.pending) - 1
    BY <1>1, <1>2, OneLess
  <2>3. CASE new = {}
    <3>1. s.known = z.known /\ s.pending = z.pending \ {c}
      BY <1>12, <2>3
    <3> QED
      BY <1>1, <2>1, <2>2, <3>1, FS_CardinalityType
  <2>4. CASE \E t \in Found : new = {t} /\ t \notin z.known
    <3>1. PICK t \in Found : new = {t} /\ t \notin z.known
      BY <2>4
    <3>2. s.known = z.known \cup {t} /\ s.pending = (z.pending \ {c}) \cup {t}
      BY <1>12, <3>1
    <3>3. IsFiniteSet(s.known) /\ Cardinality(s.known) = Cardinality(z.known) + 1
      BY <1>1, <3>1, <3>2, OneMore
    <3>4. t \notin z.pending \ {c}
      BY <1>1, <3>1
    <3>5. IsFiniteSet(s.pending) /\ Cardinality(s.pending) = Cardinality(z.pending \ {c}) + 1
      <4>1. IsFiniteSet((z.pending \ {c}) \cup {t})
            /\ Cardinality((z.pending \ {c}) \cup {t}) = Cardinality(z.pending \ {c}) + 1
        BY <2>2, <3>4, OneMore
      <4> QED
        BY <3>2, <4>1
    <3>6. Cardinality(s.pending) \in Nat
      BY <3>5, FS_CardinalityType
    <3> QED
      BY <1>1, <2>1, <2>2, <3>3, <3>5, <3>6
  <2> QED
    BY <1>4, <2>3, <2>4
<1>18. Cardinality(s.known) = Cardinality(s.items) + s.omitted + Cardinality(s.pending)
  <2>1. Cardinality(z.known) = Cardinality(z.items) + z.omitted + Cardinality(z.pending)
    BY <1>1 DEF Orderly
  <2> QED
    BY <1>1, <1>12, <1>17, <2>1
<1>19. Cardinality(s.items) <= MaxItems
  BY <1>1, <1>3, <1>17, ContextIsIndexed
<1>20. s.pending \subseteq s.known /\ \A d \in s.known : Candid(d)
  BY <1>1, <1>4, <1>12 DEF Orderly
<1>21. Orderly(s)
  BY <1>7, <1>12, <1>14, <1>15, <1>17, <1>18, <1>19, <1>20 DEF Orderly
<1>22. Newer(s) /\ s \in Readings
  BY <1>12, <1>13 DEF Newer, Readings
<1> QED
  BY <1>1, <1>9, <1>21, <1>22, SilentSteps

LEMMA ContextInit == Context!Init => ContextInv
<1> SUFFICES ASSUME Context!Init PROVE ContextInv
  OBVIOUS
<1>1. /\ content \in [Files -> {0, 1}] /\ hash = [p \in Files |-> 0] /\ syms = [p \in Files |-> 0]
      /\ assembly = [r \in Readers |-> Context!Idle] /\ revisions = 0
  BY DEF Context!Init
<1>2. Context!Idle \in Readings /\ Context!Idle.at = "idle"
  BY DEF Readings, Context!Idle
<1>3. ContextTypes
  BY <1>1, <1>2 DEF ContextTypes
<1>4. \A p \in Files : Dated(p)
  BY <1>1 DEF Dated
<1>5. OneReader /\ \A r \in Readers : Newer(assembly[r]) /\ Orderly(assembly[r])
  BY <1>1, <1>2 DEF OneReader, Newer, Orderly
<1> QED
  BY <1>3, <1>4, <1>5 DEF ContextInv

LEMMA ContextKept == ContextInv /\ [Context!Next]_context => ContextInv'
<1> SUFFICES ASSUME ContextInv, [Context!Next]_context PROVE ContextInv'
  OBVIOUS
<1>1. CASE UNCHANGED context
  BY <1>1 DEF context, ContextInv, ContextTypes, OneReader, Dated, Newer, Orderly, Candid, Taken
<1>2. ASSUME NEW r \in Readers,
             \/ Context!Begin(r) \/ Context!ScanFile(r) \/ Context!ParseFails(r)
             \/ Context!WriteIndex(r) \/ Context!Purge(r) \/ Context!Interrupt(r)
             \/ Context!Gather(r) \/ Context!Stop(r) \/ Context!Omit(r) \/ Context!Admit(r)
             \/ Context!Finish(r)
      PROVE  ContextInv'
  BY <1>2, BeginKeeps, ScanKeeps, ParseKeeps, WriteIndexKeeps, PurgeKeeps, LeaveKeeps,
     GatherKeeps, BudgetKeeps, OmitKeeps, AdmitKeeps
<1>3. CASE Context!Edit
  BY <1>3, EditKeeps
<1> QED
  BY <1>1, <1>2, <1>3 DEF Context!Next

LEMMA ContextInvImplies ==
  ContextInv => /\ Context!LinesFitTheText /\ Context!WithinBudget /\ Context!BestFirst
                /\ Context!EveryCandidateIsCounted
<1> SUFFICES ASSUME ContextInv, NEW r \in Readers, Context!Selecting(r)
             PROVE  /\ \A i \in assembly[r].items : i.kind = "symbol" => i.lines = i.of
                    /\ assembly[r].used <= MaxBytes /\ Cardinality(assembly[r].items) <= MaxItems
                    /\ \A c \in assembly[r].cut, i \in assembly[r].items : i.priority <= c.priority
                    /\ Cardinality(assembly[r].known) = Cardinality(assembly[r].items)
                           + assembly[r].omitted + Cardinality(assembly[r].pending)
  BY SameSize DEF Context!LinesFitTheText, Context!WithinBudget, Context!BestFirst,
                  Context!EveryCandidateIsCounted
<1>1. Orderly(assembly[r]) /\ assembly[r].at \in {"select", "ready"}
  BY DEF ContextInv, Context!Selecting
<1> QED
  BY <1>1 DEF Orderly, Taken

-----------------------------------------------------------------------------
\* While no two runs assemble at one time and no file gets an earlier content
\* again, the lines quoted for a symbol are lines of the content quoted, the
\* budget holds, it is spent on the best, and every candidate is counted
\* (assembleTaskContext, ScanRepository), whatever is edited or breaks off.
THEOREM ContextIsSoundAlone ==
  Context!Behaviour => [](/\ Context!LinesFitTheText /\ Context!WithinBudget
                          /\ Context!BestFirst /\ Context!EveryCandidateIsCounted)
<1>1. [Context!Next]_Context!vars => [Context!Next]_context
  BY DEF Context!vars, context
<1> QED
  BY <1>1, ContextInit, ContextKept, ContextInvImplies, PTL DEF Context!Behaviour

\* ContextIsSound, in the composition the run checks.
THEOREM ContextIsSoundAlways == MCSpec => []ContextIsSound
<1>1. MCInit => ContextInv
  BY ContextInit DEF MCInit
<1>2. [MCNext]_<<focus, opening, planned, crew, turns, call, watch, choice, context>>
          => [Context!Next]_context
  BY DEF MCNext
<1>3. ContextInv => ContextIsSound
  BY ContextInvImplies DEF ContextIsSound
<1> QED
  BY <1>1, <1>2, <1>3, ContextKept, PTL DEF MCSpec
===============================================================================
