-------------------------- MODULE DelegationProofs --------------------------
(***************************************************************************)
(* Proofs about Delegation for any pollens, operations, substrates,        *)
(* commands and requests.  The authorizations given keep their properties  *)
(* because of two facts about what is on the way: a request that waits for *)
(* a confirmation is covered by the grants it loaded, and a confirmation   *)
(* that can be consumed was approved at once and has not been given.       *)
(***************************************************************************)
EXTENDS Delegation, SequenceTheorems, TLAPS

Waiting ==
    \A r \in Requester : req[r].at \in {"confirming", "proposing"} =>
        Covers(Loaded(r), req[r].call)

Words ==
    \A id \in 1 .. Len(records) :
        /\ records[id].status = "open" => records[id].word = "none"
        /\ records[id].status = "approved" => records[id].word = "approved"

\* One authorization and the confirmation it used up.
Backed(x) ==
    /\ x.granted
    /\ x.bound => x.via # 0
    /\ x.via # 0 =>
          /\ x.via \in 1 .. Len(records)
          /\ records[x.via].status \in {"consumed", "lost"}
          /\ records[x.via].word = "approved"
          /\ records[x.via].call = x.call
          /\ x.when <= records[x.via].expires

AllBacked == \A i \in 1 .. Len(given) : Backed(given[i])

OneUse ==
    \A i, j \in 1 .. Len(given) : given[i].via # 0 /\ given[i].via = given[j].via => i = j

IInv == TypeOK /\ Waiting /\ Words /\ AllBacked /\ OneUse

-----------------------------------------------------------------------------

\* What a command that is not refused leaves of a grant is a grant or none.
LEMMA ChangedType ==
    ASSUME NEW c \in Command, NEW file \in File, ~Refused(c, file)
    PROVE  Changed(c, file[c.pollen]) \in Grant \cup {NoGrant}
<1> DEFINE g == file[c.pollen]
<1>1. /\ c.kind \in {"create", "remove", "add", "revoke"} /\ c.pollen \in Pollen
      /\ c.substrates \in NonEmpty(Substrate) /\ c.ops \in NonEmpty(Op)
  BY CommandAssumption
<1>2. g \in Grant \cup {NoGrant}
  BY <1>1 DEF File
<1>3. CASE c.kind = "create"
  <2>1. MaxTime + 1 \in 1 .. MaxTime + 1 /\ 0 \in 0 .. 3
    BY TimeAssumption
  <2> QED
    BY <1>1, <1>3, <2>1 DEF Changed, Grant
<1>4. CASE c.kind = "remove"
  BY <1>4 DEF Changed
<1>5. CASE c.kind = "add"
  <2>1. g \in Grant
    BY <1>2, <1>5 DEF Refused
  <2>2. g.ops \cup c.ops \in NonEmpty(Op)
    BY <1>1, <2>1 DEF Grant, NonEmpty
  <2>3. [g EXCEPT !.ops = @ \cup c.ops] \in Grant
    BY <2>1, <2>2 DEF Grant
  <2> QED
    BY <1>5, <2>3 DEF Changed
<1>6. CASE c.kind = "revoke" /\ g # NoGrant /\ ~(g.ops \subseteq c.ops)
  <2>1. g \in Grant
    BY <1>2, <1>6
  <2>2. g.ops \ c.ops \in NonEmpty(Op)
    BY <1>6, <2>1 DEF Grant, NonEmpty
  <2>3. [g EXCEPT !.ops = @ \ c.ops] \in Grant
    BY <2>1, <2>2 DEF Grant
  <2> QED
    BY <1>6, <2>3 DEF Changed
<1>7. CASE c.kind = "revoke" /\ (g = NoGrant \/ g.ops \subseteq c.ops)
  BY <1>7 DEF Changed
<1> QED
  BY <1>1, <1>3, <1>4, <1>5, <1>6, <1>7

LEMMA InitInv == Init => IInv
<1> SUFFICES ASSUME Init PROVE IInv
  OBVIOUS
<1> USE FileAssumption, TimeAssumption, BoundAssumption DEF Init
<1>1. records \in Seq(Record) /\ Len(records) = 0 /\ given \in Seq(Authorization) /\ Len(given) = 0
  OBVIOUS
<1>2. TypeOK
  BY <1>1 DEF TypeOK
<1>3. Waiting
  BY DEF Waiting, Idle
<1> QED
  BY <1>1, <1>2, <1>3 DEF IInv, Words, AllBacked, OneUse

\* The records and the authorizations are left alone.
LEMMA Untouched ==
    ASSUME IInv, UNCHANGED <<records, given>>
    PROVE  /\ records' \in Seq(Record) /\ Len(records') <= MaxRecords
           /\ given' \in Seq(Authorization)
           /\ Words' /\ AllBacked' /\ OneUse'
  BY DEF IInv, TypeOK, Words, AllBacked, Backed, OneUse

\* The Botanist's commands and the clock.
LEMMA CommandInv ==
    ASSUME IInv, Tick \/ (\E a \in Admin : ReadGrants(a) \/ WriteGrants(a))
    PROVE  IInv'
<1> USE DEF IInv
<1>1. UNCHANGED <<req, records, given>>
  BY DEF Tick, ReadGrants, WriteGrants
<1>2. Waiting'
  BY <1>1 DEF Waiting, Loaded
<1>3. clock' \in 0 .. MaxTime
  BY TimeAssumption DEF TypeOK, Tick, ReadGrants, WriteGrants
<1>4. CASE Tick
  <2>1. TypeOK'
    BY <1>1, <1>3, <1>4, Untouched DEF TypeOK, Tick
  <2> QED
    BY <1>1, <1>2, <2>1, Untouched
<1>5. ASSUME NEW a \in Admin, ReadGrants(a) PROVE IInv'
  <2>1. PICK c \in Command :
            cmd' = [cmd EXCEPT ![a] = [at |-> "read", what |-> c, copy |-> grants]]
    BY <1>5 DEF ReadGrants
  <2>2. [at |-> "read", what |-> c, copy |-> grants]
            \in [at : {"read"}, what : Command, copy : File]
    BY DEF TypeOK
  <2>3. cmd' \in [Admin -> [at : {"new", "done"}]
                           \cup [at : {"read"}, what : Command, copy : File]]
    BY <2>1, <2>2 DEF TypeOK
  <2>4. TypeOK'
    BY <1>1, <1>3, <1>5, <2>3, Untouched DEF TypeOK, ReadGrants
  <2> QED
    BY <1>1, <1>2, <2>4, Untouched
<1>6. ASSUME NEW a \in Admin, WriteGrants(a) PROVE IInv'
  <2> DEFINE c == cmd[a].what
             copy == cmd[a].copy
  <2>1. c \in Command /\ copy \in File
    BY <1>6 DEF WriteGrants, TypeOK
  <2>2. c.pollen \in Pollen /\ c.ops \in SUBSET Op
    BY <2>1, CommandAssumption DEF NonEmpty
  <2>3. grants' \in File
    <3>1. CASE Refused(c, copy)
      BY <1>6, <3>1 DEF WriteGrants, TypeOK
    <3>2. CASE ~Refused(c, copy)
      <4>1. Changed(c, copy[c.pollen]) \in Grant \cup {NoGrant}
        BY <2>1, <3>2, ChangedType
      <4>2. [copy EXCEPT ![c.pollen] = Changed(c, @)] \in File
        BY <2>1, <4>1 DEF File
      <4> QED
        BY <1>6, <3>2, <4>2 DEF WriteGrants, TypeOK
    <3> QED
      BY <3>1, <3>2
  <2>4. revoked' \subseteq Pollen \X Op
    <3>1. {c.pollen} \X c.ops \subseteq Pollen \X Op /\ {c.pollen} \X Op \subseteq Pollen \X Op
      BY <2>2
    <3>2. revoked \subseteq Pollen \X Op
      BY DEF TypeOK
    <3>3. \/ revoked' = revoked \cup ({c.pollen} \X c.ops)
          \/ revoked' = revoked \cup ({c.pollen} \X Op)
          \/ revoked' = revoked \ ({c.pollen} \X c.ops)
          \/ revoked' = revoked
      BY <1>6 DEF WriteGrants
    <3> QED
      BY <3>1, <3>2, <3>3
  <2>5. cmd' \in [Admin -> [at : {"new", "done"}]
                           \cup [at : {"read"}, what : Command, copy : File]]
    <3>1. [at |-> "done"] \in [at : {"new", "done"}]
      OBVIOUS
    <3>2. cmd' = [cmd EXCEPT ![a] = [at |-> "done"]]
      BY <1>6 DEF WriteGrants
    <3> QED
      BY <3>1, <3>2 DEF TypeOK
  <2>6. TypeOK'
    BY <1>1, <1>3, <2>3, <2>4, <2>5, Untouched DEF TypeOK
  <2> QED
    BY <1>1, <1>2, <2>6, Untouched
<1> QED
  BY <1>4, <1>5, <1>6

-----------------------------------------------------------------------------

\* A step of a request that neither answers it nor touches the confirmations:
\* it is gone, or it waits and is covered.
LEMMA RequestInv ==
    ASSUME IInv, NEW r \in Requester,
           Ask(r) \/ Deny(r) \/ Escalate(r) \/ FindNone(r)
    PROVE  IInv'
<1> USE DEF IInv
<1>1. UNCHANGED <<grants, cmd, records, clock, given, revoked>>
  BY DEF Ask, Deny, Escalate, FindNone
<1>2. req' \in [Requester -> {Idle} \cup Request]
  <2>1. CASE Ask(r)
    <3>1. PICK c \in Call : req' = [req EXCEPT ![r] =
                             [at |-> "deciding", call |-> c, grants |-> grants]]
      BY <2>1 DEF Ask
    <3>2. [at |-> "deciding", call |-> c, grants |-> grants] \in Request
      BY DEF TypeOK, Request
    <3> QED
      BY <3>1, <3>2 DEF TypeOK
  <2>2. CASE Deny(r)
    BY <2>2 DEF Deny, TypeOK
  <2>3. CASE Escalate(r) \/ FindNone(r)
    <3>1. req[r] \in Request
      BY <2>3 DEF TypeOK, Escalate, FindNone, Idle
    <3>2. PICK at \in {"confirming", "proposing"} : req' = [req EXCEPT ![r].at = at]
      BY <2>3 DEF Escalate, FindNone
    <3>3. [req[r] EXCEPT !.at = at] \in Request
      BY <3>1 DEF Request
    <3> QED
      BY <3>2, <3>3 DEF TypeOK
  <2> QED
    BY <2>1, <2>2, <2>3
<1>3. Waiting'
  <2> SUFFICES ASSUME NEW q \in Requester, req'[q].at \in {"confirming", "proposing"}
               PROVE  Covers(Loaded(q)', req'[q].call)
    BY DEF Waiting
  <2>1. CASE q # r
    BY <2>1 DEF Ask, Deny, Escalate, FindNone, TypeOK, Waiting, Loaded
  <2>2. CASE q = r
    <3>1. ~Ask(r) /\ ~Deny(r)
      BY <2>2 DEF Ask, Deny, TypeOK, Idle
    <3>2. req[r] \in Request /\ req'[r].call = req[r].call /\ req'[r].grants = req[r].grants
      BY <3>1 DEF Escalate, FindNone, TypeOK, Idle, Request
    <3>3. Covers(Loaded(r), req[r].call)
      BY <3>1 DEF Escalate, FindNone, Active, Waiting
    <3> QED
      BY <2>2, <3>2, <3>3 DEF Loaded
  <2> QED
    BY <2>1, <2>2
<1>4. TypeOK'
  BY <1>1, <1>2, Untouched DEF TypeOK
<1> QED
  BY <1>1, <1>3, <1>4, Untouched

\* The request is gone: the others wait as before.
LEMMA GoneInv ==
    ASSUME IInv, NEW r \in Requester, req' = [req EXCEPT ![r] = Idle]
    PROVE  req' \in [Requester -> {Idle} \cup Request] /\ Waiting'
  BY DEF IInv, TypeOK, Waiting, Loaded, Idle

\* What an authorization is, for a request that is covered.
LEMMA Given ==
    ASSUME IInv, NEW r \in Requester, req[r] \in Request, NEW id \in Nat,
           Covers(Loaded(r), req[r].call), Give(r, id)
    PROVE  \E x \in Authorization :
              /\ given' = Append(given, x)
              /\ x.call = req[r].call /\ x.via = id /\ x.when = clock /\ x.granted
              /\ x.bound <=> Escalates(Loaded(r), req[r].call)
<1> DEFINE c == req[r].call
           g == req[r].grants[c.pollen]
           x == [call |-> c, via |-> id, when |-> clock, granted |-> Covers(g, c),
                 bound |-> /\ Covers(g, c) /\ g.confirm # 0
                           /\ Impact[c.op] >= g.confirm]
<1>1. Covers(g, c) \in BOOLEAN /\ (Covers(g, c) /\ g.confirm # 0 /\ Impact[c.op] >= g.confirm) \in BOOLEAN
  BY DEF Covers
<1>2. c \in Call /\ clock \in Nat
  BY TimeAssumption DEF IInv, TypeOK, Request
<1>3. x \in Authorization
  BY <1>1, <1>2 DEF Authorization
<1>4. given' = Append(given, x)
  BY DEF Give
<1>5. x.granted /\ (x.bound <=> Escalates(Loaded(r), c))
  BY DEF Loaded, Escalates
<1> QED
  BY <1>3, <1>4, <1>5

\* A request the grant alone authorizes.
LEMMA AuthorizeInv ==
    ASSUME IInv, NEW r \in Requester, Authorize(r)
    PROVE  IInv'
<1> USE DEF IInv
<1>1. req[r] \in Request
  BY DEF Authorize, TypeOK, Idle
<1>2. Covers(Loaded(r), req[r].call) /\ ~Escalates(Loaded(r), req[r].call) /\ Give(r, 0)
  BY DEF Authorize, Active
<1>3. PICK x \in Authorization : /\ given' = Append(given, x) /\ x.via = 0
                                 /\ x.granted /\ ~x.bound
  BY <1>1, <1>2, Given
<1>4. UNCHANGED <<grants, cmd, records, clock, revoked>> /\ req' = [req EXCEPT ![r] = Idle]
  BY DEF Authorize, Give
<1>5. /\ given' \in Seq(Authorization) /\ Len(given') = Len(given) + 1
      /\ given'[Len(given) + 1] = x
      /\ \A i \in 1 .. Len(given) : given'[i] = given[i]
  BY <1>3 DEF TypeOK
<1>6. Words' /\ TypeOK'
  BY <1>4, <1>5, GoneInv DEF TypeOK, Words
<1>7. AllBacked'
  <2> SUFFICES ASSUME NEW i \in 1 .. Len(given') PROVE Backed(given[i])'
    BY DEF AllBacked
  <2>1. CASE i \in 1 .. Len(given)
    BY <1>4, <1>5, <2>1 DEF AllBacked, Backed
  <2>2. CASE i = Len(given) + 1
    BY <1>3, <1>5, <2>2 DEF Backed
  <2> QED
    BY <1>5, <2>1, <2>2 DEF TypeOK
<1>8. OneUse'
  BY <1>3, <1>5 DEF OneUse, TypeOK
<1> QED
  BY <1>4, <1>6, <1>7, <1>8, GoneInv

\* A confirmation is found and used up.
LEMMA ConsumeInv ==
    ASSUME IInv, NEW r \in Requester, Consume(r)
    PROVE  IInv'
<1> USE DEF IInv
<1>1. PICK id \in Consumable(r) :
          records' = [records EXCEPT ![id].status = "consumed"] /\ Give(r, id)
  BY DEF Consume
<1>2. /\ req[r] \in Request /\ Covers(Loaded(r), req[r].call)
      /\ req' = [req EXCEPT ![r] = Idle]
      /\ UNCHANGED <<grants, cmd, clock, revoked>>
  BY <1>1 DEF Consume, Give, TypeOK, Idle, Waiting
<1>3. /\ id \in 1 .. Len(records) /\ records[id] \in Record
      /\ records[id].status = "approved" /\ records[id].word = "approved"
      /\ records[id].call = req[r].call /\ clock <= records[id].expires
  BY DEF Consumable, TypeOK, Unexpired, Words
<1>4. PICK x \in Authorization :
          /\ given' = Append(given, x)
          /\ x.call = req[r].call /\ x.via = id /\ x.when = clock /\ x.granted
  BY <1>1, <1>2, <1>3, Given
<1>5. /\ given' \in Seq(Authorization) /\ Len(given') = Len(given) + 1
      /\ given'[Len(given) + 1] = x
      /\ \A i \in 1 .. Len(given) : given'[i] = given[i]
  BY <1>4 DEF TypeOK
<1> DEFINE rec == [records[id] EXCEPT !.status = "consumed"]
<1>6. /\ rec \in Record /\ rec.status = "consumed"
      /\ rec.word = records[id].word /\ rec.call = records[id].call
      /\ rec.expires = records[id].expires
  BY <1>3 DEF Record
<1>7. records' = [records EXCEPT ![id] = rec]
  BY <1>1
<1>8. /\ records' \in Seq(Record) /\ Len(records') = Len(records)
      /\ \A j \in 1 .. Len(records) : records'[j] = IF j = id THEN rec ELSE records[j]
  <2> HIDE DEF rec
  <2> QED
    BY <1>3, <1>6, <1>7, ExceptSeq DEF TypeOK
<1> HIDE DEF rec
<1>9. TypeOK'
  BY <1>2, <1>5, <1>8, GoneInv DEF TypeOK
<1>10. Words'
  BY <1>6, <1>8 DEF Words
<1>11. \A i \in 1 .. Len(given) : given[i].via # id
  BY <1>3 DEF AllBacked, Backed
<1>12. AllBacked'
  <2> SUFFICES ASSUME NEW i \in 1 .. Len(given') PROVE Backed(given[i])'
    BY DEF AllBacked
  <2>1. CASE i \in 1 .. Len(given)
    <3>1. Backed(given[i]) /\ given[i].via # id
      BY <1>11, <2>1 DEF AllBacked
    <3> QED
      BY <1>5, <1>8, <2>1, <3>1 DEF Backed
  <2>2. CASE i = Len(given) + 1
    BY <1>3, <1>4, <1>5, <1>6, <1>8, <2>2 DEF Backed
  <2> QED
    BY <1>5, <2>1, <2>2 DEF TypeOK
<1>13. OneUse'
  BY <1>4, <1>5, <1>11 DEF OneUse, TypeOK
<1> QED
  BY <1>2, <1>9, <1>10, <1>12, <1>13, GoneInv

\* A confirmation is added.
LEMMA CreateInv ==
    ASSUME IInv, NEW r \in Requester, Create(r)
    PROVE  IInv'
<1> USE DEF IInv
<1> DEFINE rec == [call |-> req[r].call, expires |-> clock + TTL,
                   status |-> "open", word |-> "none"]
<1>1. /\ req[r] \in Request /\ req' = [req EXCEPT ![r] = Idle]
      /\ records' = Append(records, rec) /\ Len(records) < MaxRecords
      /\ UNCHANGED <<grants, cmd, clock, given, revoked>>
  BY DEF Create, TypeOK, Idle
<1>2. rec \in Record /\ rec.status = "open" /\ rec.word = "none"
  BY <1>1, TimeAssumption DEF Record, Request, TypeOK
<1> HIDE DEF rec
<1>3. /\ records' \in Seq(Record) /\ Len(records') = Len(records) + 1
      /\ records'[Len(records) + 1] = rec
      /\ \A j \in 1 .. Len(records) : records'[j] = records[j]
  BY <1>1, <1>2 DEF TypeOK
<1>4. Len(records) \in Nat /\ 1 .. Len(records) \subseteq 1 .. Len(records')
  BY <1>3 DEF TypeOK
<1>5. TypeOK'
  BY <1>1, <1>3, <1>4, GoneInv, BoundAssumption DEF TypeOK
<1>6. Words'
  <2> SUFFICES ASSUME NEW j \in 1 .. Len(records')
               PROVE  /\ records'[j].status = "open" => records'[j].word = "none"
                      /\ records'[j].status = "approved" => records'[j].word = "approved"
    BY DEF Words
  <2>1. CASE j \in 1 .. Len(records)
    BY <1>3, <2>1 DEF Words
  <2>2. CASE j = Len(records) + 1
    BY <1>2, <1>3, <2>2
  <2> QED
    BY <1>3, <1>4, <2>1, <2>2
<1>7. AllBacked'
  BY <1>1, <1>3, <1>4 DEF AllBacked, Backed
<1>8. OneUse'
  BY <1>1 DEF OneUse
<1> QED
  BY <1>1, <1>5, <1>6, <1>7, <1>8, GoneInv

\* The Botanist answers.
LEMMA AnswerInv ==
    ASSUME IInv, NEW id \in DOMAIN records, Answer(id)
    PROVE  IInv'
<1> USE DEF IInv
<1>1. id \in 1 .. Len(records) /\ records[id] \in Record
      /\ records[id].status = "open" /\ records[id].word = "none"
  BY DEF TypeOK, Answer, Words
<1>2. PICK w \in {"approved", "denied"} :
          records' = [records EXCEPT ![id].status = w,
                                     ![id].word = IF @ = "none" THEN w ELSE @]
  BY DEF Answer
<1> DEFINE rec == [records[id] EXCEPT !.status = w, !.word = w]
<1>3. rec \in Record /\ rec.status = w /\ rec.word = w
  BY <1>1 DEF Record
<1>4. records' = [records EXCEPT ![id] = rec]
  BY <1>1, <1>2
<1> HIDE DEF rec
<1>5. /\ records' \in Seq(Record) /\ Len(records') = Len(records)
      /\ \A j \in 1 .. Len(records) : records'[j] = IF j = id THEN rec ELSE records[j]
  BY <1>1, <1>3, <1>4, ExceptSeq DEF TypeOK
<1>6. UNCHANGED <<grants, cmd, req, clock, given, revoked>>
  BY DEF Answer
<1>7. TypeOK' /\ Waiting'
  BY <1>5, <1>6 DEF TypeOK, Waiting, Loaded
<1>8. Words'
  BY <1>3, <1>5 DEF Words
<1>9. AllBacked'
  <2> SUFFICES ASSUME NEW i \in 1 .. Len(given) PROVE Backed(given[i])'
    BY <1>6 DEF AllBacked
  <2>1. Backed(given[i]) /\ given[i].via # id
    BY <1>1 DEF AllBacked, Backed
  <2> QED
    BY <1>5, <1>6, <2>1 DEF Backed
<1>10. OneUse'
  BY <1>6 DEF OneUse
<1> QED
  BY <1>7, <1>8, <1>9, <1>10

\* The confirmations are lost, and so are the requests.
LEMMA RestartInv ==
    ASSUME IInv, Restart
    PROVE  IInv'
<1> USE DEF IInv
<1>1. /\ records' = [j \in 1 .. Len(records) |-> [records[j] EXCEPT !.status = "lost"]]
      /\ Len(records) \in Nat
  BY DEF Restart, TypeOK
<1>2. \A j \in 1 .. Len(records) :
          /\ records[j] \in Record /\ records'[j] \in Record
          /\ records'[j].status = "lost" /\ records'[j].word = records[j].word
          /\ records'[j].call = records[j].call /\ records'[j].expires = records[j].expires
  <2> SUFFICES ASSUME NEW j \in 1 .. Len(records)
               PROVE  /\ records[j] \in Record /\ records'[j] \in Record
                      /\ records'[j].status = "lost" /\ records'[j].word = records[j].word
                      /\ records'[j].call = records[j].call
                      /\ records'[j].expires = records[j].expires
    OBVIOUS
  <2>1. records[j] \in Record /\ records'[j] = [records[j] EXCEPT !.status = "lost"]
    BY <1>1 DEF TypeOK
  <2> QED
    BY <2>1 DEF Record
<1>3. records' \in Seq(Record) /\ Len(records') = Len(records)
  <2>1. records' \in [1 .. Len(records) -> Record]
    BY <1>1, <1>2
  <2> QED
    BY <1>1, <2>1
<1>4. /\ UNCHANGED <<grants, cmd, clock, given, revoked>>
      /\ req' \in [Requester -> {Idle} \cup Request] /\ \A r \in Requester : req'[r].at = "idle"
  BY DEF Restart, Idle
<1>5. TypeOK' /\ Waiting'
  BY <1>3, <1>4 DEF TypeOK, Waiting
<1>6. Words'
  BY <1>2, <1>3 DEF Words
<1>7. AllBacked'
  BY <1>2, <1>3, <1>4 DEF AllBacked, Backed
<1>8. OneUse'
  BY <1>4 DEF OneUse
<1> QED
  BY <1>5, <1>6, <1>7, <1>8

LEMMA NextInv == IInv /\ [Next]_vars => IInv'
<1> SUFFICES ASSUME IInv, [Next]_vars PROVE IInv'
  OBVIOUS
<1>1. CASE UNCHANGED vars
  BY <1>1, Untouched DEF IInv, TypeOK, Waiting, Loaded, vars
<1>2. CASE Tick \/ \E a \in Admin : ReadGrants(a) \/ WriteGrants(a)
  BY <1>2, CommandInv
<1>3. ASSUME NEW r \in Requester, Ask(r) \/ Deny(r) \/ Escalate(r) \/ FindNone(r)
      PROVE  IInv'
  BY <1>3, RequestInv
<1>4. ASSUME NEW r \in Requester, Authorize(r) \/ Consume(r) \/ Create(r)
      PROVE  IInv'
  BY <1>4, AuthorizeInv, ConsumeInv, CreateInv
<1>5. CASE Restart \/ \E id \in DOMAIN records : Answer(id)
  BY <1>5, RestartInv, AnswerInv
<1> QED
  BY <1>1, <1>2, <1>3, <1>4, <1>5 DEF Next

\* The invariant holds in every reachable state.
THEOREM Invariance == Spec => []IInv
<1>1. Init => IInv
  BY InitInv
<1>2. IInv /\ [Next]_vars => IInv'
  BY NextInv
<1> QED
  BY <1>1, <1>2, PTL DEF Spec

\* Every variable keeps its type: the grants file always holds valid grants,
\* none of them empty, whatever commands rewrite it and in whatever order.
THEOREM TypeCorrectness == Spec => []TypeOK
<1>1. IInv => TypeOK
  BY DEF IInv
<1> QED
  BY <1>1, Invariance, PTL

LEMMA InvSound ==
    ASSUME IInv
    PROVE  ApprovalIsSingleUse /\ OnlyTheApprovedIsConsumed /\ GrantAndConfirmation
<1>1. DOMAIN given = 1 .. Len(given)
  BY DEF IInv, TypeOK
<1>2. ApprovalIsSingleUse
  BY <1>1 DEF IInv, OneUse, ApprovalIsSingleUse
<1>3. \A i \in DOMAIN given : Backed(given[i])
  BY <1>1 DEF IInv, AllBacked
<1>4. OnlyTheApprovedIsConsumed /\ GrantAndConfirmation
  BY <1>3 DEF Backed, OnlyTheApprovedIsConsumed, GrantAndConfirmation
<1> QED
  BY <1>2, <1>4

\* No approval of the Botanist has served twice, however many requests look for
\* one at the same time.
THEOREM ApprovalsServeOnce == Spec => []ApprovalIsSingleUse
<1>1. IInv => ApprovalIsSingleUse
  BY InvSound
<1> QED
  BY <1>1, Invariance, PTL

\* What a confirmation authorized is the call that the Botanist approved, and in
\* time, whatever the Botanist, the clock and the other requests do meanwhile.
THEOREM ApprovalsAreOfTheCall == Spec => []OnlyTheApprovedIsConsumed
<1>1. IInv => OnlyTheApprovedIsConsumed
  BY InvSound
<1> QED
  BY <1>1, Invariance, PTL

\* Whatever is authorized was covered by the grants its request loaded, and was
\* confirmed where the grant asks for it.
THEOREM AuthorizationsAreCovered == Spec => []GrantAndConfirmation
<1>1. IInv => GrantAndConfirmation
  BY InvSound
<1> QED
  BY <1>1, Invariance, PTL

-----------------------------------------------------------------------------

\* What a command opens beyond the file it read is what it names.
LEMMA ChangeNames ==
    ASSUME NEW c \in Command, NEW file \in File, ~Refused(c, file),
           NEW call \in Call,
           Covers([file EXCEPT ![c.pollen] = Changed(c, @)][call.pollen], call),
           ~Covers(file[call.pollen], call)
    PROVE  /\ call.pollen = c.pollen /\ call.op \in c.ops
           /\ call.substrate \in c.substrates
<1> DEFINE g == file[c.pollen]
<1>1. /\ c.kind \in {"create", "remove", "add", "revoke"} /\ c.pollen \in Pollen
      /\ call.pollen \in Pollen
  BY CommandAssumption DEF Call
<1>2. call.pollen = c.pollen /\ Covers(Changed(c, g), call) /\ ~Covers(g, call)
  BY <1>1 DEF File
<1>3. g \in Grant \cup {NoGrant}
  BY <1>1 DEF File
<1>4. CASE c.kind = "create"
  BY <1>2, <1>4 DEF Changed, Covers
<1>5. CASE c.kind = "remove"
  BY <1>2, <1>5 DEF Changed, Covers
<1>6. CASE c.kind = "add"
  <2>1. g \in Grant /\ g.substrates = c.substrates
    BY <1>3, <1>6 DEF Refused
  <2>2. /\ Changed(c, g) = [g EXCEPT !.ops = @ \cup c.ops]
        /\ Changed(c, g).ops = g.ops \cup c.ops
        /\ Changed(c, g).substrates = g.substrates
    BY <1>6, <2>1 DEF Changed, Grant
  <2> QED
    BY <1>2, <2>1, <2>2, FileAssumption DEF Covers
<1>7. CASE c.kind = "revoke"
  <2>1. CASE g = NoGrant \/ g.ops \subseteq c.ops
    BY <1>2, <1>7, <2>1 DEF Changed, Covers
  <2>2. CASE g # NoGrant /\ ~(g.ops \subseteq c.ops)
    <3>1. g \in Grant
      BY <1>3, <2>2
    <3>2. /\ Changed(c, g).ops = g.ops \ c.ops
          /\ Changed(c, g).substrates = g.substrates
      BY <1>7, <2>2, <3>1 DEF Changed, Grant
    <3> QED
      BY <1>2, <2>2, <3>2 DEF Covers
  <2> QED
    BY <2>1, <2>2
<1> QED
  BY <1>1, <1>4, <1>5, <1>6, <1>7

\* No command, however many rewrite the file at the same time, opens anything
\* that it does not name and that neither the file nor its copy had open.
THEOREM CommandsOpenWhatTheyName == Spec => CommandWidensOnlyWhatItNames
<1> DEFINE Widens(a) ==
        LET c == cmd[a].what
        IN  \A call \in Covered(grants') \ (Covered(grants) \cup Covered(cmd[a].copy)) :
               /\ call.pollen = c.pollen /\ call.op \in c.ops
               /\ call.substrate \in c.substrates
<1>1. ASSUME IInv, [Next]_vars
      PROVE  [\A a \in Admin : WriteGrants(a) => Widens(a)]_vars
  <2> SUFFICES ASSUME NEW a \in Admin, WriteGrants(a),
                      NEW call \in Covered(grants') \ (Covered(grants) \cup Covered(cmd[a].copy))
               PROVE  /\ call.pollen = cmd[a].what.pollen /\ call.op \in cmd[a].what.ops
                      /\ call.substrate \in cmd[a].what.substrates
    OBVIOUS
  <2> DEFINE c == cmd[a].what
             copy == cmd[a].copy
  <2>1. c \in Command /\ copy \in File
    BY <1>1 DEF IInv, WriteGrants, TypeOK
  <2>2. /\ call \in Call /\ Covers(grants'[call.pollen], call)
        /\ ~Covers(grants[call.pollen], call) /\ ~Covers(copy[call.pollen], call)
    BY DEF Covered
  <2>3. /\ ~Refused(c, copy)
        /\ grants' = [copy EXCEPT ![c.pollen] = Changed(c, @)]
    BY <2>2 DEF WriteGrants
  <2> QED
    BY <2>1, <2>2, <2>3, ChangeNames
<1>2. Spec => [][\A a \in Admin : WriteGrants(a) => Widens(a)]_vars
  BY <1>1, Invariance, PTL DEF Spec
<1> QED
  BY <1>2 DEF CommandWidensOnlyWhatItNames

=============================================================================
