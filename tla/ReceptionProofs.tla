--------------------------- MODULE ReceptionProofs ---------------------------
(***************************************************************************)
(* What holds at the door of a Stem, for every value of the constants of   *)
(* MCReception: that the public ingress stays bounded (Ingress), that      *)
(* whoever observes a Phytomer is shown what is its own (Observers), that  *)
(* what is grafted was governed (Graft), and that a Stem keeps its socket  *)
(* and closes in order (Daemon).  Each component is proved alone and in    *)
(* the composition that TLC explores.                                      *)
(***************************************************************************)
EXTENDS MCReception, SequenceTheorems, FiniteSetTheorems, TLAPS

-----------------------------------------------------------------------------
(***************************************************************************)
(* The public ingress, for any clients, limits, pace and bucket: every     *)
(* slot in use has a holder that will give it back, mints keep their pace, *)
(* only the proven cost, and a handler is given a whole body.              *)
(*                                                                         *)
(* The invariant needs two things more than these.  A request's place on   *)
(* its way says which slots it holds, whether its sender was authenticated *)
(* and whether a body is staged (Shape); and what the bucket holds now     *)
(* bounds every stretch of mints that lasts until the last refill (Paced). *)
(***************************************************************************)
\* The slots a request can hold, in the order in which it took them.
Ladders == {<<>>, <<"requests">>, <<"requests", "mints">>, <<"requests", "admissions">>,
            <<"requests", "admissions", "observations">>}

Records == [pc : Steps, kind : Kinds \cup {"none"}, body : Bodies, proven : BOOLEAN,
            held : Ladders, staged : BOOLEAN, whole : BOOLEAN, gone : BOOLEAN]

\* What the place of a request says of the rest of it.
Shape(r) ==
  /\ r.pc \in {"closed", "idle", "arrived"} => r.held = <<>>
  /\ r.pc \notin {"spooling", "serving", "answered"} => ~r.staged
  /\ r.pc \in {"minting", "authenticating"} => r.held = <<"requests">>
  /\ r.pc \in {"minting", "pacing"} => r.kind = "mint"
  /\ r.pc = "pacing" => r.held = <<"requests", "mints">>
  /\ r.pc = "sizing" =>
       r.held = IF r.kind = "mint" THEN <<"requests", "mints">> ELSE <<"requests">>
  /\ r.pc = "observing" => r.proven /\ r.held = <<"requests", "admissions">>
  /\ r.pc \in {"staging", "spooling"} => (~r.proven => r.kind = "mint")
  /\ r.pc = "spooling" => r.staged
  /\ r.pc = "serving" /\ r.body \in {"chunked", "chunkedLarge"} =>
       r.staged /\ r.whole /\ r.body = "chunked"
  /\ r.kind = "readiness" => r.body = "none"
  /\ r.staged /\ ~r.proven => r.kind = "mint"
  /\ ~r.proven => r.held \in {<<>>, <<"requests">>, <<"requests", "mints">>}

\* The pools a connection or its request occupies, as Holds counts them.
Occupies(r, p) == IF p = "connections" THEN r.pc # "closed" ELSE Contains(r.held, p)

Clientele == /\ client \in [Clients -> Records]
             /\ active \in [Pools -> Nat]
             /\ \A c \in Clients : Shape(client[c])
             /\ SlotsAreAccountedFor

Timely == /\ bucket \in [tokens : 0..(Burst * Parts), last : 0..MaxTime]
          /\ now \in 0..MaxTime
          /\ bucket.last <= now
          /\ minted \in Seq(0..MaxTime)

\* The mints from the i-th on and what is left in the bucket are no more than a
\* full bucket and what was earned from the i-th mint to the last refill.
Paced == \A i \in 1..Len(minted) :
           /\ minted[i] <= bucket.last
           /\ (Len(minted) - i + 1) * Parts + bucket.tokens
                <= Burst * Parts + (bucket.last - minted[i])

IInv == Clientele /\ Timely /\ Paced /\ MintsKeepPace

-----------------------------------------------------------------------------
(***************************************************************************)
(* What a request holds.                                                   *)
(***************************************************************************)
\* The ladders differ in what they contain.
LEMMA LadderContains ==
  ASSUME NEW p
  PROVE  /\ ~Contains(<<>>, p)
         /\ Contains(<<"requests">>, p) <=> p = "requests"
         /\ Contains(<<"requests", "mints">>, p) <=> p \in {"requests", "mints"}
         /\ Contains(<<"requests", "admissions">>, p) <=> p \in {"requests", "admissions"}
         /\ Contains(<<"requests", "admissions", "observations">>, p)
              <=> p \in {"requests", "admissions", "observations"}
<1>1. ~Contains(<<>>, p)  BY DEF Contains
<1>2. Contains(<<"requests">>, p) <=> p = "requests"  BY DEF Contains
<1>3. Contains(<<"requests", "mints">>, p) <=> p \in {"requests", "mints"}
  <2> DEFINE L == <<"requests", "mints">>
  <2>1. Len(L) = 2 /\ L[1] = "requests" /\ L[2] = "mints"  OBVIOUS
  <2>2. 1..2 = {1, 2}  OBVIOUS
  <2> QED  BY <2>1, <2>2 DEF Contains
<1>4. Contains(<<"requests", "admissions">>, p) <=> p \in {"requests", "admissions"}
  <2> DEFINE L == <<"requests", "admissions">>
  <2>1. Len(L) = 2 /\ L[1] = "requests" /\ L[2] = "admissions"  OBVIOUS
  <2>2. 1..2 = {1, 2}  OBVIOUS
  <2> QED  BY <2>1, <2>2 DEF Contains
<1>5. Contains(<<"requests", "admissions", "observations">>, p)
        <=> p \in {"requests", "admissions", "observations"}
  <2> DEFINE L == <<"requests", "admissions", "observations">>
  <2>1. Len(L) = 3 /\ L[1] = "requests" /\ L[2] = "admissions" /\ L[3] = "observations"
    OBVIOUS
  <2>2. 1..3 = {1, 2, 3}  OBVIOUS
  <2> QED  BY <2>1, <2>2 DEF Contains
<1> QED  BY <1>1, <1>2, <1>3, <1>4, <1>5

\* How a ladder grows, and that giving back undoes it.
LEMMA LadderGrows ==
  /\ Append(<<>>, "requests") = <<"requests">>
  /\ Append(<<"requests">>, "mints") = <<"requests", "mints">>
  /\ Append(<<"requests">>, "admissions") = <<"requests", "admissions">>
  /\ Append(<<"requests", "admissions">>, "observations")
       = <<"requests", "admissions", "observations">>
<1>1. Append(<<>>, "requests") = <<"requests">>
  <2> DEFINE s == <<>>
  <2>1. s \in Seq(Pools) /\ Len(s) = 0  OBVIOUS
  <2>2. "requests" \in Pools  BY DEF Pools
  <2>3. <<"requests">> \in Seq(Pools)  BY <2>2
  <2> QED  BY <2>1, <2>2, <2>3, AppendProperties, SeqEqual
<1>2. ASSUME NEW e \in {"mints", "admissions"}
      PROVE  Append(<<"requests">>, e) = <<"requests", e>>
  <2> DEFINE s == <<"requests">>
             t == <<"requests", e>>
  <2>1. "requests" \in Pools /\ e \in Pools  BY DEF Pools
  <2>2. s \in Seq(Pools) /\ Len(s) = 1 /\ s[1] = "requests"  BY <2>1
  <2>3. t \in Seq(Pools) /\ Len(t) = 2 /\ t[1] = "requests" /\ t[2] = e  BY <2>1
  <2>4. /\ Append(s, e) \in Seq(Pools) /\ Len(Append(s, e)) = 2
        /\ Append(s, e)[1] = "requests" /\ Append(s, e)[2] = e
    BY <2>1, <2>2, AppendProperties
  <2> HIDE DEF s, t
  <2>5. Append(s, e) = t  BY <2>3, <2>4, SeqEqual
  <2> QED  BY <2>5 DEF s, t
<1>3. Append(<<"requests", "admissions">>, "observations")
        = <<"requests", "admissions", "observations">>
  <2> DEFINE s == <<"requests", "admissions">>
             t == <<"requests", "admissions", "observations">>
  <2>1. {"requests", "admissions", "observations"} \subseteq Pools  BY DEF Pools
  <2>2. s \in Seq(Pools) /\ Len(s) = 2 /\ s[1] = "requests" /\ s[2] = "admissions"
    BY <2>1
  <2>3. /\ t \in Seq(Pools) /\ Len(t) = 3
        /\ t[1] = "requests" /\ t[2] = "admissions" /\ t[3] = "observations"
    BY <2>1
  <2>4. /\ Append(s, "observations") \in Seq(Pools) /\ Len(Append(s, "observations")) = 3
        /\ Append(s, "observations")[1] = "requests"
        /\ Append(s, "observations")[2] = "admissions"
        /\ Append(s, "observations")[3] = "observations"
    BY <2>1, <2>2, AppendProperties
  <2> HIDE DEF s, t
  <2>5. Append(s, "observations") = t  BY <2>3, <2>4, SeqEqual
  <2> QED  BY <2>5 DEF s, t
<1> QED  BY <1>1, <1>2, <1>3

\* Front and Last take apart what Append put together.
LEMMA AppendUndone ==
  ASSUME NEW S, NEW s \in Seq(S), NEW e \in S
  PROVE  Front(Append(s, e)) = s /\ Last(Append(s, e)) = e
<1> DEFINE t == Append(s, e)
<1>1. /\ t \in Seq(S) /\ Len(t) = Len(s) + 1 /\ t[Len(s) + 1] = e
      /\ \A i \in 1..Len(s) : t[i] = s[i]
  BY AppendProperties
<1>2. Len(s) \in Nat  BY LenProperties
<1> HIDE DEF t
<1>3. Last(t) = e  BY <1>1 DEF Last
<1>4. Front(t) = SubSeq(t, 1, Len(s))  BY <1>1, <1>2 DEF Front
<1>5. \A i \in 1..Len(s) : t[i] \in S  BY <1>1, <1>2, ElementOfSeq
<1>6. /\ SubSeq(t, 1, Len(s)) \in Seq(S)
      /\ Len(SubSeq(t, 1, Len(s))) = Len(s)
      /\ \A i \in 1..Len(s) : SubSeq(t, 1, Len(s))[i] = t[i]
  BY <1>2, <1>5, SubSeqProperties
<1>7. SubSeq(t, 1, Len(s)) = s  BY <1>1, <1>6, SeqEqual
<1> QED  BY <1>3, <1>4, <1>7 DEF t

\* Giving back the latest slot leaves a ladder that holds the others.
LEMMA LadderShrinks ==
  ASSUME NEW h \in Ladders, h # <<>>
  PROVE  /\ Front(h) \in Ladders
         /\ Last(h) \in Pools \ {"connections"}
         /\ Contains(h, Last(h))
         /\ \A p \in Pools : Contains(Front(h), p) <=> Contains(h, p) /\ p # Last(h)
         /\ h \in {<<"requests">>, <<"requests", "mints">>} =>
              Front(h) \in {<<>>, <<"requests">>}
<1>1. CASE h = <<"requests">>
  <2>1. h = Append(<<>>, "requests")  BY <1>1, LadderGrows
  <2>2. <<>> \in Seq(Pools) /\ "requests" \in Pools  BY DEF Pools
  <2>3. Front(h) = <<>> /\ Last(h) = "requests"  BY <2>1, <2>2, AppendUndone
  <2> QED  BY <1>1, <2>3, LadderContains DEF Ladders, Pools
<1>2. ASSUME NEW e \in {"mints", "admissions"}, h = <<"requests", e>>
      PROVE  Front(h) = <<"requests">> /\ Last(h) = e
  <2>1. h = Append(<<"requests">>, e)  BY <1>2, LadderGrows
  <2>2. <<"requests">> \in Seq(Pools) /\ e \in Pools  BY DEF Pools
  <2> QED  BY <2>1, <2>2, AppendUndone
<1>3. CASE h = <<"requests", "mints">>
  BY <1>2, <1>3, LadderContains DEF Ladders, Pools
<1>4. CASE h = <<"requests", "admissions">>
  BY <1>2, <1>4, LadderContains DEF Ladders, Pools
<1>5. CASE h = <<"requests", "admissions", "observations">>
  <2>1. h = Append(<<"requests", "admissions">>, "observations")  BY <1>5, LadderGrows
  <2>2. <<"requests", "admissions">> \in Seq(Pools) /\ "observations" \in Pools
    BY DEF Pools
  <2>3. Front(h) = <<"requests", "admissions">> /\ Last(h) = "observations"
    BY <2>1, <2>2, AppendUndone
  <2> QED  BY <1>5, <2>3, LadderContains DEF Ladders, Pools
<1> QED  BY <1>1, <1>3, <1>4, <1>5 DEF Ladders

-----------------------------------------------------------------------------
(***************************************************************************)
(* The one lemma behind every step of a client: a record in shape whose     *)
(* slots and the channels' lengths move together.                           *)
(***************************************************************************)
\* A pool is counted anew when one client takes, gives back or keeps a slot.
LEMMA Recount ==
  ASSUME IsFiniteSet(Clients), NEW S \in SUBSET Clients, NEW c \in Clients,
         NEW T, NEW n \in Nat, NEW m, NEW l \in Nat, n = Cardinality(S), n <= l,
         \/ T = S /\ m = n
         \/ T = S \cup {c} /\ c \notin S /\ m = n + 1 /\ n < l
         \/ T = S \ {c} /\ c \in S /\ m = n - 1
  PROVE  m = Cardinality(T) /\ m <= l /\ m \in Nat
<1>1. IsFiniteSet(S)  BY FS_Subset
<1>2. CASE T = S \cup {c} /\ c \notin S /\ m = n + 1 /\ n < l
  <2>1. Cardinality(T) = Cardinality(S) + 1  BY <1>1, <1>2, FS_AddElement
  <2> QED  BY <1>2, <2>1
<1>3. CASE T = S \ {c} /\ c \in S /\ m = n - 1
  <2>1. IsFiniteSet(T) /\ Cardinality(T) = Cardinality(S) - 1
    BY <1>1, <1>3, FS_RemoveElement
  <2>2. Cardinality(T) \in Nat  BY <2>1, FS_CardinalityType
  <2> QED  BY <1>3, <2>1, <2>2
<1> QED  BY <1>2, <1>3

LEMMA Moves ==
  ASSUME Clientele, NEW c \in Clients, NEW r \in Records, Shape(r), Become(c, r),
         active' = [p \in Pools |-> active'[p]],
         \A p \in Pools :
           \/ active'[p] = active[p] /\ (Occupies(r, p) <=> Occupies(client[c], p))
           \/ /\ active'[p] = active[p] + 1 /\ Room(p)
              /\ Occupies(r, p) /\ ~Occupies(client[c], p)
           \/ /\ active'[p] = active[p] - 1
              /\ ~Occupies(r, p) /\ Occupies(client[c], p)
  PROVE  Clientele'
<1> USE DEF Clientele
<1>1. client' = [client EXCEPT ![c] = r]  BY DEF Become
<1>2. client' \in [Clients -> Records]  BY <1>1
<1>3. \A x \in Clients : Shape(client'[x])  BY <1>1
<1>4. ASSUME NEW p \in Pools
      PROVE  /\ active'[p] = Cardinality({x \in Clients : Holds(x, p)'})
             /\ active'[p] <= Limit[p]
             /\ active'[p] \in Nat
  <2> DEFINE S == {x \in Clients : Occupies(client[x], p)}
             T == {x \in Clients : Occupies(client'[x], p)}
  <2>1. \A x \in Clients : Holds(x, p) <=> Occupies(client[x], p)
    BY DEF Holds, Occupies, At
  <2>2. \A x \in Clients : Holds(x, p)' <=> Occupies(client'[x], p)
    BY DEF Holds, Occupies, At
  <2>3. {x \in Clients : Holds(x, p)} = S  BY <2>1
  <2>4. {x \in Clients : Holds(x, p)'} = T  BY <2>2
  <2>5. active[p] = Cardinality(S) /\ active[p] <= Limit[p]
    BY <2>3 DEF SlotsAreAccountedFor
  <2>6. active[p] \in Nat /\ Limit[p] \in Nat /\ IsFiniteSet(Clients)
    BY IngressAssumption
  <2>7. client'[c] = r /\ \A x \in Clients \ {c} : client'[x] = client[x]
    BY <1>1
  <2>8. CASE active'[p] = active[p] /\ (Occupies(r, p) <=> Occupies(client[c], p))
    <3>1. T = S  BY <2>7, <2>8
    <3> HIDE DEF S, T
    <3> QED  BY <2>4, <2>5, <2>6, <2>8, <3>1
  <2>9. CASE /\ active'[p] = active[p] + 1 /\ Room(p)
             /\ Occupies(r, p) /\ ~Occupies(client[c], p)
    <3>1. T = S \cup {c} /\ c \notin S  BY <2>7, <2>9
    <3>2. S \in SUBSET Clients  OBVIOUS
    <3>3. active[p] < Limit[p]  BY <2>9 DEF Room
    <3> HIDE DEF S, T
    <3> QED  BY <2>4, <2>5, <2>6, <2>9, <3>1, <3>2, <3>3, Recount
  <2>10. CASE /\ active'[p] = active[p] - 1
              /\ ~Occupies(r, p) /\ Occupies(client[c], p)
    <3>1. T = S \ {c} /\ c \in S  BY <2>7, <2>10
    <3>2. S \in SUBSET Clients  OBVIOUS
    <3> HIDE DEF S, T
    <3> QED  BY <2>4, <2>5, <2>6, <2>10, <3>1, <3>2, Recount
  <2> QED  BY <2>8, <2>9, <2>10
<1>5. SlotsAreAccountedFor'  BY <1>4 DEF SlotsAreAccountedFor
<1>6. active' \in [Pools -> Nat]  BY <1>4
<1> QED  BY <1>2, <1>3, <1>5, <1>6

\* A step that leaves the slots alone.
LEMMA Stays ==
  ASSUME Clientele, NEW c \in Clients, NEW r \in Records, Shape(r), Become(c, r),
         r.held = client[c].held, r.pc = "closed" <=> client[c].pc = "closed",
         active' = active
  PROVE  Clientele'
<1>1. active' = [p \in Pools |-> active'[p]]  BY DEF Clientele
<1>2. \A p \in Pools : active'[p] = active[p] /\ (Occupies(r, p) <=> Occupies(client[c], p))
  BY DEF Occupies
<1> QED  BY <1>1, <1>2, Moves

LEMMA Answered ==
  ASSUME Clientele, NEW c \in Clients, client[c].pc # "closed", Answer(c), active' = active
  PROVE  Clientele'
<1> DEFINE r == [client[c] EXCEPT !.pc = "answered"]
<1>1. client[c] \in Records /\ Shape(client[c])  BY DEF Clientele
<1>2. r \in Records  BY <1>1 DEF Records, Steps
<1>3. /\ r.pc = "answered" /\ r.kind = client[c].kind /\ r.body = client[c].body
      /\ r.proven = client[c].proven /\ r.held = client[c].held
      /\ r.staged = client[c].staged
  BY <1>1 DEF Records
<1>4. Become(c, r)  BY DEF Answer, Goto
<1> HIDE DEF r
<1>5. Shape(r)  BY <1>1, <1>3, SMT DEF Shape, Records, Ladders
<1> QED  BY <1>2, <1>3, <1>4, <1>5, Stays

\* tryAcquire: a slot taken is on the ladder, a full pool answers the request.
LEMMA Taken ==
  ASSUME Clientele, NEW c \in Clients, NEW p \in Pools \ {"connections"}, NEW pc \in Steps,
         Take(c, p, pc), client[c].pc # "closed", pc # "closed",
         NEW h \in Ladders, Append(client[c].held, p) = h,
         ~Contains(client[c].held, p),
         \A q : Contains(h, q) <=> Contains(client[c].held, q) \/ q = p,
         Shape([client[c] EXCEPT !.pc = pc, !.held = h])
  PROVE  Clientele'
<1> DEFINE r == [client[c] EXCEPT !.pc = pc, !.held = h]
<1>1. client[c] \in Records /\ active \in [Pools -> Nat]  BY DEF Clientele
<1>2. CASE Room(p)
  <2>1. active' = [active EXCEPT ![p] = @ + 1] /\ Become(c, r)  BY <1>2 DEF Take
  <2>2. r \in Records /\ r.pc = pc /\ r.held = h  BY <1>1 DEF Records
  <2>3. active' = [q \in Pools |-> active'[q]]  BY <1>1, <2>1
  <2>4. active'[p] = active[p] + 1 /\ Occupies(r, p) /\ ~Occupies(client[c], p)
    BY <1>1, <2>1, <2>2 DEF Occupies
  <2>5. ASSUME NEW q \in Pools, q # p
        PROVE  active'[q] = active[q] /\ (Occupies(r, q) <=> Occupies(client[c], q))
    BY <1>1, <2>1, <2>2, <2>5 DEF Occupies
  <2>6. Shape(r)  OBVIOUS
  <2> HIDE DEF r
  <2>7. \A q \in Pools :
          \/ active'[q] = active[q] /\ (Occupies(r, q) <=> Occupies(client[c], q))
          \/ /\ active'[q] = active[q] + 1 /\ Room(q)
             /\ Occupies(r, q) /\ ~Occupies(client[c], q)
          \/ /\ active'[q] = active[q] - 1
             /\ ~Occupies(r, q) /\ Occupies(client[c], q)
    BY <1>2, <2>4, <2>5
  <2> QED  BY <2>1, <2>2, <2>3, <2>6, <2>7, Moves
<1>3. CASE ~Room(p)
  BY <1>3, Answered DEF Take
<1> QED  BY <1>2, <1>3

-----------------------------------------------------------------------------
(***************************************************************************)
(* Every step keeps clients in shape and slots accounted for.              *)
(***************************************************************************)
LEMMA InitClientele == Init => Clientele
<1> SUFFICES ASSUME Init PROVE Clientele
  OBVIOUS
<1>1. Closed \in Records /\ Closed.pc = "closed" /\ Closed.held = <<>> /\ ~Closed.staged
      /\ Closed.kind = "none" /\ Closed.body = "none"
  BY DEF Closed, Records, Steps, Kinds, Bodies, Ladders
<1>2. client \in [Clients -> Records] /\ \A c \in Clients : client[c] = Closed
  BY <1>1 DEF Init
<1>3. Shape(Closed)  BY <1>1 DEF Shape
<1>4. ASSUME NEW p \in Pools
      PROVE  active[p] = Cardinality({c \in Clients : Holds(c, p)}) /\ active[p] <= Limit[p]
  <2>1. \A c \in Clients : ~Holds(c, p)  BY <1>1, <1>2, LadderContains DEF Holds, At
  <2>2. {c \in Clients : Holds(c, p)} = {}  BY <2>1
  <2>3. active[p] = 0 /\ Limit[p] \in Nat  BY IngressAssumption DEF Init
  <2> QED  BY <2>2, <2>3, FS_EmptySet
<1>5. active \in [Pools -> Nat]  BY DEF Init
<1> QED  BY <1>2, <1>3, <1>4, <1>5 DEF Clientele, SlotsAreAccountedFor

\* A connection is opened and closed.
LEMMA ConnectionSteps ==
  ASSUME Clientele, NEW c \in Clients, Connect(c) \/ Disconnect(c)
  PROVE  Clientele'
<1>1. client[c] \in Records /\ Shape(client[c]) /\ active \in [Pools -> Nat]
  BY DEF Clientele
<1>2. Closed \in Records /\ Closed.pc = "closed" /\ Closed.held = <<>> /\ ~Closed.staged
      /\ Closed.kind = "none" /\ Closed.body = "none"
  BY DEF Closed, Records, Steps, Kinds, Bodies, Ladders
<1>3. Idle \in Records /\ Idle.pc = "idle" /\ Idle.held = <<>> /\ ~Idle.staged
      /\ Idle.kind = "none" /\ Idle.body = "none"
  BY <1>2 DEF Idle, Records, Steps
<1>4. Shape(Closed) /\ Shape(Idle)  BY <1>2, <1>3 DEF Shape
<1>5. client[c].held = <<>>  BY <1>1 DEF Connect, Disconnect, At, Shape
<1>6. \A p \in Pools \ {"connections"} :
        ~Occupies(Closed, p) /\ ~Occupies(Idle, p) /\ ~Occupies(client[c], p)
  BY <1>2, <1>3, <1>5, LadderContains DEF Occupies
<1>7. "connections" \in Pools  BY DEF Pools
<1>8. CASE Connect(c)
  <2>1. active' = [active EXCEPT !["connections"] = @ + 1] /\ Become(c, Idle)
        /\ Room("connections") /\ client[c].pc = "closed"
    BY <1>8 DEF Connect, At
  <2>2. active' = [p \in Pools |-> active'[p]]  BY <1>1, <2>1
  <2>3. \A p \in Pools :
          \/ active'[p] = active[p] /\ (Occupies(Idle, p) <=> Occupies(client[c], p))
          \/ /\ active'[p] = active[p] + 1 /\ Room(p)
             /\ Occupies(Idle, p) /\ ~Occupies(client[c], p)
          \/ /\ active'[p] = active[p] - 1
             /\ ~Occupies(Idle, p) /\ Occupies(client[c], p)
    BY <1>1, <1>3, <1>6, <1>7, <2>1 DEF Occupies
  <2> QED  BY <1>3, <1>4, <2>1, <2>2, <2>3, Moves
<1>9. CASE Disconnect(c)
  <2>1. active' = [active EXCEPT !["connections"] = @ - 1] /\ Become(c, Closed)
        /\ client[c].pc = "idle"
    BY <1>9 DEF Disconnect, At
  <2>2. active' = [p \in Pools |-> active'[p]]  BY <1>1, <2>1
  <2>3. \A p \in Pools :
          \/ active'[p] = active[p] /\ (Occupies(Closed, p) <=> Occupies(client[c], p))
          \/ /\ active'[p] = active[p] + 1 /\ Room(p)
             /\ Occupies(Closed, p) /\ ~Occupies(client[c], p)
          \/ /\ active'[p] = active[p] - 1
             /\ ~Occupies(Closed, p) /\ Occupies(client[c], p)
    BY <1>1, <1>2, <1>6, <1>7, <2>1 DEF Occupies
  <2> QED  BY <1>2, <1>4, <2>1, <2>2, <2>3, Moves
<1> QED  BY <1>8, <1>9

\* The four admissions of a request, each from the ladder of its place.
LEMMA AdmissionSteps ==
  ASSUME Clientele, NEW c \in Clients,
         Admit(c) \/ AdmitMint(c) \/ Authenticate(c) \/ Observe(c)
  PROVE  Clientele'
<1>1. client[c] \in Records /\ Shape(client[c])  BY DEF Clientele
<1> DEFINE Climbed(h, pc) == [client[c] EXCEPT !.pc = pc, !.held = h]
<1>2. ASSUME NEW h, NEW pc
      PROVE  /\ Climbed(h, pc).pc = pc /\ Climbed(h, pc).held = h
             /\ Climbed(h, pc).kind = client[c].kind /\ Climbed(h, pc).body = client[c].body
             /\ Climbed(h, pc).proven = client[c].proven
             /\ Climbed(h, pc).staged = client[c].staged
  BY <1>1 DEF Records
<1>3. CASE Admit(c)
  <2> DEFINE pc == IF Minting(c) THEN "minting" ELSE "sizing"
  <2>1. Take(c, "requests", pc) /\ client[c].pc = "arrived"  BY <1>3 DEF Admit, At
  <2>2. client[c].held = <<>> /\ ~client[c].staged  BY <1>1, <2>1 DEF Shape
  <2>3. pc \in Steps /\ pc # "closed"  BY DEF Steps
  <2>4. Shape(Climbed(<<"requests">>, pc))
    BY <1>1, <1>2, <2>2 DEF Shape, Minting
  <2>5. <<"requests">> \in Ladders /\ "requests" \in Pools \ {"connections"}
    BY DEF Ladders, Pools
  <2>6. /\ Append(client[c].held, "requests") = <<"requests">>
        /\ ~Contains(client[c].held, "requests")
        /\ \A q : Contains(<<"requests">>, q)
                     <=> Contains(client[c].held, q) \/ q = "requests"
    BY <2>2, LadderContains, LadderGrows
  <2> HIDE DEF pc
  <2> QED  BY <2>1, <2>3, <2>4, <2>5, <2>6, Taken
<1>4. CASE AdmitMint(c)
  <2>1. Take(c, "mints", "pacing") /\ client[c].pc = "minting"  BY <1>4 DEF AdmitMint, At
  <2>2. client[c].held = <<"requests">> /\ ~client[c].staged /\ client[c].kind = "mint"
    BY <1>1, <2>1 DEF Shape
  <2>3. Shape(Climbed(<<"requests", "mints">>, "pacing"))
    BY <1>1, <1>2, <2>2 DEF Shape
  <2>4. /\ <<"requests", "mints">> \in Ladders /\ "mints" \in Pools \ {"connections"}
        /\ "pacing" \in Steps
    BY DEF Ladders, Pools, Steps
  <2>5. /\ Append(client[c].held, "mints") = <<"requests", "mints">>
        /\ ~Contains(client[c].held, "mints")
        /\ \A q : Contains(<<"requests", "mints">>, q)
                     <=> Contains(client[c].held, q) \/ q = "mints"
    BY <2>2, LadderContains, LadderGrows
  <2> QED  BY <2>1, <2>3, <2>4, <2>5, Taken
<1>5. CASE Authenticate(c)
  <2>1. client[c].pc = "authenticating"  BY <1>5 DEF Authenticate, At
  <2>2. client[c].held = <<"requests">> /\ ~client[c].staged
    BY <1>1, <2>1 DEF Shape
  <2>3. CASE ~client[c].proven
    BY <1>5, <2>1, <2>3, Answered DEF Authenticate
  <2>4. CASE client[c].proven
    <3> DEFINE pc == IF client[c].kind = "watch" THEN "observing" ELSE "staging"
    <3>1. Take(c, "admissions", pc)  BY <1>5, <2>4 DEF Authenticate
    <3>2. pc \in Steps /\ pc # "closed"  BY DEF Steps
    <3>3. Shape(Climbed(<<"requests", "admissions">>, pc))
      BY <1>1, <1>2, <2>2, <2>4 DEF Shape
    <3>4. <<"requests", "admissions">> \in Ladders /\ "admissions" \in Pools \ {"connections"}
      BY DEF Ladders, Pools
    <3>5. /\ Append(client[c].held, "admissions") = <<"requests", "admissions">>
          /\ ~Contains(client[c].held, "admissions")
          /\ \A q : Contains(<<"requests", "admissions">>, q)
                       <=> Contains(client[c].held, q) \/ q = "admissions"
      BY <2>2, LadderContains, LadderGrows
    <3> HIDE DEF pc
    <3> QED  BY <2>1, <3>1, <3>2, <3>3, <3>4, <3>5, Taken
  <2> QED  BY <2>3, <2>4
<1>6. CASE Observe(c)
  <2>1. Take(c, "observations", "staging") /\ client[c].pc = "observing"
    BY <1>6 DEF Observe, At
  <2>2. /\ client[c].held = <<"requests", "admissions">>
        /\ ~client[c].staged /\ client[c].proven
    BY <1>1, <2>1 DEF Shape
  <2>3. Shape(Climbed(<<"requests", "admissions", "observations">>, "staging"))
    BY <1>1, <1>2, <2>2 DEF Shape
  <2>4. /\ <<"requests", "admissions", "observations">> \in Ladders
        /\ "observations" \in Pools \ {"connections"} /\ "staging" \in Steps
    BY DEF Ladders, Pools, Steps
  <2>5. /\ Append(client[c].held, "observations") = <<"requests", "admissions", "observations">>
        /\ ~Contains(client[c].held, "observations")
        /\ \A q : Contains(<<"requests", "admissions", "observations">>, q)
                     <=> Contains(client[c].held, q) \/ q = "observations"
    BY <2>2, LadderContains, LadderGrows
  <2> QED  BY <2>1, <2>3, <2>4, <2>5, Taken
<1> QED  BY <1>3, <1>4, <1>5, <1>6

\* The steps of a request that neither take nor give a slot.
LEMMA OtherSteps ==
  ASSUME Clientele, NEW c \in Clients,
         \/ Arrive(c) \/ Pace(c) \/ Size(c) \/ Stage(c) \/ Spool(c)
         \/ Serve(c) \/ CleanUp(c) \/ Finish(c) \/ HangUp(c)
  PROVE  Clientele'
<1>1. client[c] \in Records /\ Shape(client[c])  BY DEF Clientele
<1>2. active' = active
  BY DEF Arrive, Pace, Size, Stage, Spool, Serve, CleanUp, Finish, HangUp
<1>3. /\ Idle \in Records /\ Idle.pc = "idle" /\ Idle.held = <<>> /\ ~Idle.staged
      /\ Idle.kind = "none" /\ Idle.body = "none"
  BY DEF Closed, Idle, Records, Steps, Kinds, Bodies, Ladders
\* Only the place changes.
<1>4. ASSUME NEW pc \in Steps, Goto(c, pc), pc # "closed", client[c].pc # "closed",
             Shape([client[c] EXCEPT !.pc = pc])
      PROVE  Clientele'
  <2> DEFINE r == [client[c] EXCEPT !.pc = pc]
  <2>1. r \in Records /\ r.pc = pc /\ r.held = client[c].held  BY <1>1 DEF Records
  <2>2. Become(c, r) /\ Shape(r)  BY <1>4 DEF Goto
  <2> HIDE DEF r
  <2> QED  BY <1>2, <1>4, <2>1, <2>2, Stays
<1>5. ASSUME NEW pc
      PROVE  LET r == [client[c] EXCEPT !.pc = pc]
             IN  /\ r.pc = pc /\ r.held = client[c].held /\ r.kind = client[c].kind
                 /\ r.body = client[c].body /\ r.proven = client[c].proven
                 /\ r.staged = client[c].staged /\ r.whole = client[c].whole
  BY <1>1 DEF Records
<1>6. CASE Arrive(c)
  <2>1. PICK k \in Kinds, b \in Bodies, p \in BOOLEAN :
          /\ k \in {"watch", "readiness"} => b = "none"
          /\ Become(c, [Idle EXCEPT !.pc = "arrived", !.kind = k, !.body = b, !.proven = p])
    BY <1>6 DEF Arrive
  <2> DEFINE r == [Idle EXCEPT !.pc = "arrived", !.kind = k, !.body = b, !.proven = p]
  <2>2. /\ r \in Records /\ r.pc = "arrived" /\ r.held = <<>> /\ ~r.staged
        /\ r.kind = k /\ r.body = b
    BY <1>3 DEF Records, Steps
  <2>3. client[c].pc = "idle" /\ client[c].held = <<>>
    BY <1>1, <1>6 DEF Arrive, At, Shape
  <2>4. Become(c, r)  BY <2>1
  <2> HIDE DEF r
  <2>5. Shape(r)  BY <2>1, <2>2 DEF Shape
  <2> QED  BY <1>2, <2>2, <2>3, <2>4, <2>5, Stays
<1>7. CASE Pace(c)
  <2>1. client[c].pc = "pacing"  BY <1>7 DEF Pace, At
  <2>2. CASE Answer(c)  BY <1>2, <2>1, <2>2, Answered
  <2>3. CASE Goto(c, "sizing")
    <3>1. Shape([client[c] EXCEPT !.pc = "sizing"])  BY <1>1, <1>5, <2>1 DEF Shape
    <3> QED  BY <1>4, <2>1, <2>3, <3>1 DEF Steps
  <2> QED  BY <1>7, <2>2, <2>3 DEF Pace
<1>8. CASE Size(c)
  <2>1. client[c].pc = "sizing"  BY <1>8 DEF Size, At
  <2>2. CASE client[c].body = "knownLarge"
    BY <1>2, <1>8, <2>1, <2>2, Answered DEF Size
  <2>3. CASE client[c].body # "knownLarge" /\ Minting(c)
    <3>1. Goto(c, "staging")  BY <1>8, <2>3 DEF Size, Minting
    <3>2. Shape([client[c] EXCEPT !.pc = "staging"])
      BY <1>1, <1>5, <2>1, <2>3 DEF Shape, Minting
    <3> QED  BY <1>4, <2>1, <3>1, <3>2 DEF Steps
  <2>4. CASE client[c].body # "knownLarge" /\ ~Minting(c) /\ client[c].kind = "readiness"
    <3>1. Goto(c, "serving")  BY <1>8, <2>4 DEF Size, Minting
    <3>2. Shape([client[c] EXCEPT !.pc = "serving"])
      BY <1>1, <1>5, <2>1, <2>4 DEF Shape, Minting
    <3> QED  BY <1>4, <2>1, <3>1, <3>2 DEF Steps
  <2>5. CASE client[c].body # "knownLarge" /\ ~Minting(c) /\ client[c].kind # "readiness"
    <3>1. Goto(c, "authenticating")  BY <1>8, <2>5 DEF Size
    <3>2. Shape([client[c] EXCEPT !.pc = "authenticating"])
      BY <1>1, <1>5, <2>1, <2>5 DEF Shape, Minting
    <3> QED  BY <1>4, <2>1, <3>1, <3>2 DEF Steps
  <2> QED  BY <2>2, <2>3, <2>4, <2>5
<1>9. CASE Stage(c)
  <2>1. client[c].pc = "staging"  BY <1>9 DEF Stage, At
  <2>2. CASE Chunked(c)
    <3> DEFINE r == [client[c] EXCEPT !.pc = "spooling", !.staged = TRUE]
    <3>1. /\ r \in Records /\ r.pc = "spooling" /\ r.held = client[c].held
          /\ r.kind = client[c].kind /\ r.body = client[c].body
          /\ r.proven = client[c].proven /\ r.staged
      BY <1>1 DEF Records, Steps
    <3>2. Become(c, r)  BY <1>9, <2>2 DEF Stage
    <3> HIDE DEF r
    <3>3. Shape(r)  BY <1>1, <2>1, <3>1 DEF Shape
    <3> QED  BY <1>2, <2>1, <3>1, <3>2, <3>3, Stays
  <2>3. CASE ~Chunked(c)
    <3>1. Goto(c, "serving")  BY <1>9, <2>3 DEF Stage
    <3>2. Shape([client[c] EXCEPT !.pc = "serving"])
      BY <1>1, <1>5, <2>1, <2>3 DEF Shape, Chunked
    <3> QED  BY <1>4, <2>1, <3>1, <3>2 DEF Steps
  <2> QED  BY <2>2, <2>3
<1>10. CASE Spool(c)
  <2>1. client[c].pc = "spooling"  BY <1>10 DEF Spool, At
  <2>2. CASE /\ client[c].body = "chunked"
             /\ Become(c, [client[c] EXCEPT !.pc = "serving", !.whole = TRUE])
    <3> DEFINE r == [client[c] EXCEPT !.pc = "serving", !.whole = TRUE]
    <3>1. /\ r \in Records /\ r.pc = "serving" /\ r.held = client[c].held
          /\ r.kind = client[c].kind /\ r.body = "chunked"
          /\ r.proven = client[c].proven /\ r.staged = client[c].staged /\ r.whole
      BY <1>1, <2>2 DEF Records, Steps
    <3>2. Become(c, r)  BY <2>2
    <3> HIDE DEF r
    <3>3. Shape(r)  BY <1>1, <2>1, <2>2, <3>1 DEF Shape
    <3> QED  BY <1>2, <2>1, <3>1, <3>2, <3>3, Stays
  <2>3. CASE RemovePartial(c)
    <3> DEFINE r == [client[c] EXCEPT !.pc = "answered", !.staged = FALSE]
    <3>1. /\ r \in Records /\ r.pc = "answered" /\ r.held = client[c].held
          /\ r.kind = client[c].kind /\ r.body = client[c].body
          /\ r.proven = client[c].proven /\ ~r.staged
      BY <1>1 DEF Records, Steps
    <3>2. Become(c, r)  BY <2>3 DEF RemovePartial
    <3> HIDE DEF r
    <3>3. Shape(r)  BY <1>1, <2>1, <3>1 DEF Shape
    <3> QED  BY <1>2, <2>1, <3>1, <3>2, <3>3, Stays
  <2> QED  BY <1>10, <2>2, <2>3 DEF Spool
<1>11. CASE Serve(c)
  <2>1. client[c].pc = "serving"  BY <1>11 DEF Serve, At
  <2>2. CASE Answer(c)  BY <1>2, <2>1, <2>2, Answered
  <2>3. CASE Become(c, [client[c] EXCEPT !.pc = "answered", !.gone = TRUE])
    <3> DEFINE r == [client[c] EXCEPT !.pc = "answered", !.gone = TRUE]
    <3>1. /\ r \in Records /\ r.pc = "answered" /\ r.held = client[c].held
          /\ r.kind = client[c].kind /\ r.body = client[c].body
          /\ r.proven = client[c].proven /\ r.staged = client[c].staged
      BY <1>1 DEF Records, Steps
    <3>2. Become(c, r)  BY <2>3
    <3> HIDE DEF r
    <3>3. Shape(r)  BY <1>1, <2>1, <3>1 DEF Shape
    <3> QED  BY <1>2, <2>1, <3>1, <3>2, <3>3, Stays
  <2> QED  BY <1>11, <2>2, <2>3 DEF Serve
<1>12. CASE CleanUp(c)
  <2> DEFINE r == [client[c] EXCEPT !.staged = FALSE, !.whole = FALSE]
  <2>1. client[c].pc = "answered" /\ Become(c, r)  BY <1>12 DEF CleanUp, At
  <2>2. /\ r \in Records /\ r.pc = "answered" /\ r.held = client[c].held
        /\ r.kind = client[c].kind /\ r.body = client[c].body
        /\ r.proven = client[c].proven /\ ~r.staged
    BY <1>1, <2>1 DEF Records
  <2> HIDE DEF r
  <2>3. Shape(r)  BY <1>1, <2>1, <2>2 DEF Shape
  <2> QED  BY <1>2, <2>1, <2>2, <2>3, Stays
<1>13. CASE Finish(c)
  <2> DEFINE r == [Idle EXCEPT !.gone = client[c].gone]
  <2>1. client[c].pc = "answered" /\ client[c].held = <<>> /\ Become(c, r)
    BY <1>13 DEF Finish, At
  <2>2. /\ r \in Records /\ r.pc = "idle" /\ r.held = <<>> /\ ~r.staged
        /\ r.kind = "none" /\ r.body = "none"
    BY <1>1, <1>3 DEF Records
  <2> HIDE DEF r
  <2>3. Shape(r)  BY <2>2 DEF Shape
  <2> QED  BY <1>2, <2>1, <2>2, <2>3, Stays
<1>14. CASE HangUp(c)
  <2> DEFINE r == [client[c] EXCEPT !.gone = TRUE]
  <2>1. client[c].pc # "closed" /\ Become(c, r)  BY <1>14 DEF HangUp
  <2>2. /\ r \in Records /\ r.pc = client[c].pc /\ r.held = client[c].held
        /\ r.kind = client[c].kind /\ r.body = client[c].body
        /\ r.proven = client[c].proven /\ r.staged = client[c].staged
        /\ r.whole = client[c].whole
    BY <1>1 DEF Records
  <2> HIDE DEF r
  <2>3. Shape(r)  BY <1>1, <2>2 DEF Shape
  <2> QED  BY <1>2, <2>1, <2>2, <2>3, Stays
<1> QED  BY <1>6, <1>7, <1>8, <1>9, <1>10, <1>11, <1>12, <1>13, <1>14

\* The slot given back is the latest.
LEMMA ReleaseStep ==
  ASSUME Clientele, NEW c \in Clients, Release(c)
  PROVE  Clientele'
<1> DEFINE h == client[c].held
           r == [client[c] EXCEPT !.held = Front(h)]
<1>1. client[c] \in Records /\ Shape(client[c]) /\ active \in [Pools -> Nat]
  BY DEF Clientele
<1>2. /\ client[c].pc = "answered" /\ ~client[c].staged /\ h # <<>>
      /\ active' = [active EXCEPT ![Last(h)] = @ - 1] /\ Become(c, r)
  BY DEF Release, At
<1>3. h \in Ladders  BY <1>1 DEF Records
<1>4. /\ Front(h) \in Ladders /\ Last(h) \in Pools \ {"connections"}
      /\ Contains(h, Last(h))
      /\ \A p \in Pools : Contains(Front(h), p) <=> Contains(h, p) /\ p # Last(h)
      /\ h \in {<<"requests">>, <<"requests", "mints">>} =>
           Front(h) \in {<<>>, <<"requests">>}
  BY <1>2, <1>3, LadderShrinks
<1>5. /\ r \in Records /\ r.pc = "answered" /\ r.held = Front(h)
      /\ r.kind = client[c].kind /\ r.body = client[c].body
      /\ r.proven = client[c].proven /\ ~r.staged
  BY <1>1, <1>2, <1>4 DEF Records
<1>6. client[c].held = h  OBVIOUS
<1> HIDE DEF h, r
<1>7. Shape(r)  BY <1>1, <1>2, <1>4, <1>5, <1>6 DEF Shape
<1>8. active' = [p \in Pools |-> active'[p]]  BY <1>1, <1>2
<1>9. ASSUME NEW p \in Pools
      PROVE  \/ active'[p] = active[p] /\ (Occupies(r, p) <=> Occupies(client[c], p))
             \/ /\ active'[p] = active[p] - 1
                /\ ~Occupies(r, p) /\ Occupies(client[c], p)
  <2>1. CASE p = Last(h)
    BY <1>1, <1>2, <1>4, <1>5, <1>6, <2>1 DEF Occupies
  <2>2. CASE p # Last(h)
    BY <1>1, <1>2, <1>4, <1>5, <1>6, <2>2 DEF Occupies
  <2> QED  BY <2>1, <2>2
<1>10. \A p \in Pools :
          \/ active'[p] = active[p] /\ (Occupies(r, p) <=> Occupies(client[c], p))
          \/ /\ active'[p] = active[p] + 1 /\ Room(p)
             /\ Occupies(r, p) /\ ~Occupies(client[c], p)
          \/ /\ active'[p] = active[p] - 1
             /\ ~Occupies(r, p) /\ Occupies(client[c], p)
  BY <1>9
<1> QED  BY <1>2, <1>5, <1>7, <1>8, <1>10, Moves

LEMMA ClienteleKept ==
  ASSUME Clientele, [Next]_vars
  PROVE  Clientele'
<1>1. ASSUME client' = client, active' = active  PROVE Clientele'
  BY <1>1 DEF Clientele, SlotsAreAccountedFor, Holds, At
<1>2. CASE UNCHANGED vars  BY <1>1, <1>2 DEF vars
<1>3. CASE Elapse  BY <1>1, <1>3 DEF Elapse
<1>4. ASSUME NEW c \in Clients,
             \/ Connect(c) \/ Arrive(c) \/ Admit(c) \/ AdmitMint(c) \/ Pace(c)
             \/ Size(c) \/ Authenticate(c) \/ Observe(c) \/ Stage(c) \/ Spool(c)
             \/ Serve(c) \/ CleanUp(c) \/ Release(c) \/ Finish(c)
             \/ HangUp(c) \/ Disconnect(c)
      PROVE  Clientele'
  <2>1. CASE Connect(c) \/ Disconnect(c)  BY <2>1, ConnectionSteps
  <2>2. CASE Admit(c) \/ AdmitMint(c) \/ Authenticate(c) \/ Observe(c)
    BY <2>2, AdmissionSteps
  <2>3. CASE \/ Arrive(c) \/ Pace(c) \/ Size(c) \/ Stage(c) \/ Spool(c)
             \/ Serve(c) \/ CleanUp(c) \/ Finish(c) \/ HangUp(c)
    BY <2>3, OtherSteps
  <2>4. CASE Release(c)  BY <2>4, ReleaseStep
  <2> QED  BY <1>4, <2>1, <2>2, <2>3, <2>4
<1> QED  BY <1>2, <1>3, <1>4 DEF Next

-----------------------------------------------------------------------------
(***************************************************************************)
(* The pace of mints.  Products with Parts are taken apart once.           *)
(***************************************************************************)
LEMMA OneMore ==
  ASSUME NEW n \in Int, NEW k \in Int
  PROVE  (n + 1) * k = n * k + k /\ n * k \in Int
OBVIOUS

\* What was bounded at the last refill is bounded after one.
LEMMA Earned ==
  ASSUME NEW d \in Int, NEW t \in Nat, NEW l \in Nat, NEW n \in Nat, NEW b \in Nat,
         NEW f \in Nat, NEW m \in Nat, l <= n, f <= t + (n - l),
         d + t <= b + (l - m), m <= l
  PROVE  d + f <= b + (n - m) /\ m <= n
OBVIOUS

LEMMA InitPaced == Init => Timely /\ Paced /\ MintsKeepPace
<1> SUFFICES ASSUME Init PROVE Timely /\ Paced /\ MintsKeepPace
  OBVIOUS
<1>1. Burst * Parts \in Nat  BY IngressAssumption
<1>2. minted = <<>> /\ now = 0 /\ bucket = [tokens |-> Burst * Parts, last |-> 0]
  BY DEF Init
<1>3. Timely  BY <1>1, <1>2, IngressAssumption DEF Timely
<1>4. Len(minted) = 0  BY <1>2
<1> QED  BY <1>3, <1>4 DEF Paced, MintsKeepPace

\* What a mint leaves: the bucket has paid for it.
LEMMA PaceStep ==
  ASSUME Timely, Paced, MintsKeepPace, NEW c \in Clients, Pace(c)
  PROVE  (Timely /\ Paced /\ MintsKeepPace)'
<1> DEFINE B == Burst * Parts
           L == Len(minted)
<1>1. /\ Parts \in Nat /\ Parts > 0 /\ B \in Nat /\ MaxTime \in Nat
  BY IngressAssumption
<1>2. /\ bucket \in [tokens : 0..B, last : 0..MaxTime] /\ now \in 0..MaxTime
      /\ bucket.last <= now /\ minted \in Seq(0..MaxTime)
  BY DEF Timely
<1>3. bucket.tokens \in 0..B /\ bucket.last \in 0..MaxTime  BY <1>2
<1>4. L \in Nat /\ \A i \in 1..L : minted[i] \in Nat
  <2>1. L \in Nat  BY <1>2, LenProperties
  <2>2. \A i \in 1..L : minted[i] \in 0..MaxTime  BY <1>2, ElementOfSeq
  <2> QED  BY <1>1, <2>1, <2>2
<1>5. \A i \in 1..L : /\ minted[i] <= bucket.last
                     /\ (L - i + 1) * Parts + bucket.tokens <= B + (bucket.last - minted[i])
  BY DEF Paced
<1>6. \A i, j \in 1..L : i <= j => (j - i + 1) * Parts <= B + (minted[j] - minted[i])
  BY DEF MintsKeepPace
<1>7. /\ Refilled \in 0..B /\ Refilled <= bucket.tokens + (now - bucket.last)
  BY <1>1, <1>2, <1>3 DEF Refilled, Least
<1>8. now' = now  BY DEF Pace
<1>11. /\ bucket.tokens \in Nat /\ bucket.last \in Nat /\ now \in Nat /\ Refilled \in Nat
       /\ bucket.last <= now /\ Refilled <= bucket.tokens + (now - bucket.last)
  BY <1>1, <1>2, <1>3, <1>7
<1>9. CASE Refilled < Parts
  <2>1. bucket' = [tokens |-> Refilled, last |-> now] /\ minted' = minted
    BY <1>9 DEF Pace
  <2>2. bucket'.tokens = Refilled /\ bucket'.last = now  BY <2>1
  <2>3. Timely'  BY <1>2, <1>7, <1>8, <2>1 DEF Timely
  <2>4. MintsKeepPace'  BY <2>1 DEF MintsKeepPace
  <2>5. ASSUME NEW i \in 1..L
        PROVE  /\ minted[i] <= now
               /\ (L - i + 1) * Parts + Refilled <= B + (now - minted[i])
    <3>1. (L - i + 1) * Parts \in Int  BY <1>1, <1>4, OneMore
    <3> DEFINE d == (L - i + 1) * Parts
    <3>2. d + bucket.tokens <= B + (bucket.last - minted[i]) /\ minted[i] <= bucket.last
      BY <1>5
    <3>3. minted[i] \in Nat  BY <1>4
    <3>4. B \in Nat /\ d \in Int  BY <1>1, <3>1
    <3> HIDE DEF d, B
    <3>5. d + Refilled <= B + (now - minted[i]) /\ minted[i] <= now
      BY <1>11, <3>2, <3>3, <3>4, Earned
    <3> QED  BY <3>5 DEF d, B
  <2>6. Paced'  BY <2>1, <2>2, <2>5 DEF Paced
  <2> QED  BY <2>3, <2>4, <2>6
<1>10. CASE ~(Refilled < Parts)
  <2>1. /\ bucket' = [tokens |-> Refilled - Parts, last |-> now]
        /\ minted' = Append(minted, now)
    BY <1>10 DEF Pace
  <2>2. /\ bucket'.tokens = Refilled - Parts /\ bucket'.last = now
        /\ Refilled - Parts \in 0..B
    BY <1>1, <1>7, <1>10, <2>1
  <2>3. /\ minted' \in Seq(0..MaxTime) /\ Len(minted') = L + 1
        /\ \A i \in 1..L : minted'[i] = minted[i]
        /\ minted'[L + 1] = now
    BY <1>2, <2>1, AppendProperties
  <2>4. Timely'  BY <1>2, <1>8, <2>1, <2>2, <2>3 DEF Timely
  <2>5. ASSUME NEW i \in 1..(L + 1)
        PROVE  /\ minted'[i] <= now
               /\ (L + 1 - i + 1) * Parts + (Refilled - Parts) <= B + (now - minted'[i])
    <3>1. CASE i = L + 1
      <4>1. (L + 1 - i + 1) * Parts = Parts  BY <1>1, <1>4, <3>1
      <4> HIDE DEF B
      <4> QED  BY <1>1, <1>2, <1>7, <2>3, <3>1, <4>1
    <3>2. CASE i \in 1..L
      <4> DEFINE d == (L - i + 1) * Parts
                 e == (L + 1 - i + 1) * Parts
      <4>1. d \in Int /\ e = d + Parts
        <5>1. L - i + 1 \in Int /\ L + 1 - i + 1 = (L - i + 1) + 1  BY <1>4
        <5> QED  BY <1>1, <5>1, OneMore
      <4>2. d + bucket.tokens <= B + (bucket.last - minted[i]) /\ minted[i] <= bucket.last
        BY <1>5, <3>2
      <4>3. minted[i] \in Nat /\ minted'[i] = minted[i]  BY <1>4, <2>3, <3>2
      <4>4. B \in Nat /\ Parts \in Nat  BY <1>1
      <4> HIDE DEF d, e, B
      <4>5. d + Refilled <= B + (now - minted[i]) /\ minted[i] <= now
        <5>1. d \in Int /\ B \in Nat /\ minted[i] \in Nat  BY <4>1, <4>3, <4>4
        <5> QED  BY <1>11, <4>2, <5>1, Earned
      <4>6. e + (Refilled - Parts) = d + Refilled  BY <1>11, <4>1, <4>4
      <4>7. e + (Refilled - Parts) <= B + (now - minted'[i]) /\ minted'[i] <= now
        BY <4>3, <4>5, <4>6
      <4> QED  BY <4>7 DEF e, B
    <3> QED  BY <1>4, <3>1, <3>2
  <2>6. Paced'
    <3>1. \A i \in 1..Len(minted') :
            /\ minted'[i] <= bucket'.last
            /\ (Len(minted') - i + 1) * Parts + bucket'.tokens
                 <= Burst * Parts + (bucket'.last - minted'[i])
      BY <2>2, <2>3, <2>5
    <3> QED  BY <3>1 DEF Paced
  <2>7. ASSUME NEW i \in 1..(L + 1), NEW j \in 1..(L + 1), i <= j
        PROVE  (j - i + 1) * Parts <= B + (minted'[j] - minted'[i])
    <3>1. CASE j \in 1..L
      <4>1. i \in 1..L  BY <1>4, <2>7, <3>1
      <4>2. (j - i + 1) * Parts <= B + (minted[j] - minted[i])  BY <1>6, <2>7, <3>1, <4>1
      <4>3. minted'[j] = minted[j] /\ minted'[i] = minted[i]  BY <2>3, <3>1, <4>1
      <4> QED  BY <4>2, <4>3
    <3>2. CASE j = L + 1
      <4> DEFINE e == (L + 1 - i + 1) * Parts
      <4>1. e \in Int  BY <1>1, <1>4, OneMore
      <4>2. e + (Refilled - Parts) <= B + (now - minted'[i])  BY <2>5
      <4>3. minted'[j] = now  BY <2>3, <3>2
      <4>4. minted'[i] \in Nat
        <5>1. CASE i = L + 1  BY <1>11, <2>3, <5>1
        <5>2. CASE i \in 1..L  BY <1>4, <2>3, <5>2
        <5> QED  BY <1>4, <5>1, <5>2
      <4>5. B \in Nat /\ Parts \in Nat /\ Refilled - Parts \in Nat
        BY <1>1, <1>10, <1>11
      <4> HIDE DEF e, B
      <4>6. e <= B + (now - minted'[i])
        BY <1>11, <4>1, <4>2, <4>4, <4>5
      <4>7. e <= B + (minted'[j] - minted'[i])  BY <4>3, <4>6
      <4> QED  BY <3>2, <4>7 DEF e, B
    <3> QED  BY <1>4, <3>1, <3>2
  <2>8. MintsKeepPace'
    <3>1. \A i, j \in 1..Len(minted') :
            i <= j => (j - i + 1) * Parts <= Burst * Parts + (minted'[j] - minted'[i])
      BY <2>3, <2>7
    <3> QED  BY <3>1 DEF MintsKeepPace
  <2> QED  BY <2>4, <2>6, <2>8
<1> QED  BY <1>9, <1>10

LEMMA PaceKept ==
  ASSUME Timely, Paced, MintsKeepPace, [Next]_vars
  PROVE  (Timely /\ Paced /\ MintsKeepPace)'
<1>1. CASE bucket' = bucket /\ minted' = minted /\ now' = now
  BY <1>1 DEF Timely, Paced, MintsKeepPace
<1>2. CASE Elapse
  <2>1. bucket' = bucket /\ minted' = minted /\ now' = now + 1 /\ now < MaxTime
    BY <1>2 DEF Elapse
  <2>2. Timely'  BY <2>1, IngressAssumption DEF Timely
  <2> QED  BY <2>1, <2>2 DEF Paced, MintsKeepPace
<1>3. ASSUME NEW c \in Clients, Pace(c)  PROVE (Timely /\ Paced /\ MintsKeepPace)'
  BY <1>3, PaceStep
<1>4. ASSUME NEW c \in Clients,
             \/ Connect(c) \/ Arrive(c) \/ Admit(c) \/ AdmitMint(c)
             \/ Size(c) \/ Authenticate(c) \/ Observe(c) \/ Stage(c) \/ Spool(c)
             \/ Serve(c) \/ CleanUp(c) \/ Release(c) \/ Finish(c)
             \/ HangUp(c) \/ Disconnect(c)
      PROVE  bucket' = bucket /\ minted' = minted /\ now' = now
  BY <1>4 DEF Connect, Arrive, Admit, AdmitMint, Size, Authenticate, Observe, Stage, Spool,
     Serve, CleanUp, Release, Finish, HangUp, Disconnect
<1> QED  BY <1>1, <1>2, <1>3, <1>4 DEF Next, vars

-----------------------------------------------------------------------------
(***************************************************************************)
(* The theorems.                                                           *)
(***************************************************************************)
\* For any clients, limits and pace, the invariant holds of every reachable
\* state: place, slots, body and proof of a request agree, and the bucket
\* bounds what was minted.
THEOREM Invariance == Spec => []IInv
<1>1. Init => IInv  BY InitClientele, InitPaced DEF IInv
<1>2. IInv /\ [Next]_vars => IInv'  BY ClienteleKept, PaceKept DEF IInv
<1> QED  BY <1>1, <1>2, PTL DEF Spec

LEMMA LaddersAreShort == Ladders \subseteq SeqOf(Pools, 3)
<1>1. <<>> \in [1..0 -> Pools]  OBVIOUS
<1>2. <<"requests">> \in [1..1 -> Pools]  BY DEF Pools
<1>3. <<"requests", "mints">> \in [1..2 -> Pools]  BY DEF Pools
<1>4. <<"requests", "admissions">> \in [1..2 -> Pools]  BY DEF Pools
<1>5. <<"requests", "admissions", "observations">> \in [1..3 -> Pools]  BY DEF Pools
<1> QED  BY <1>1, <1>2, <1>3, <1>4, <1>5 DEF Ladders, SeqOf

\* Type correctness of the ingress.
THEOREM TypeCorrectness == Spec => []TypeOK
<1>1. IInv => TypeOK
  <2> SUFFICES ASSUME IInv PROVE TypeOK
    OBVIOUS
  <2>1. Records \subseteq
          [pc : Steps, kind : Kinds \cup {"none"}, body : Bodies,
           proven : BOOLEAN, held : SeqOf(Pools, 3),
           staged : BOOLEAN, whole : BOOLEAN, gone : BOOLEAN]
    BY LaddersAreShort DEF Records
  <2> QED  BY <2>1 DEF IInv, Clientele, Timely, TypeOK
<1> QED  BY <1>1, Invariance, PTL

\* For any clients, limits, pace and bucket, and whatever is refused, fails or
\* goes away: the limits hold, slots are given back, mints keep their pace, only
\* the proven cost, and what a handler reads is whole.
THEOREM IngressStaysBounded == Spec => []IngressIsBounded
<1>1. IInv => IngressIsBounded
  <2> SUFFICES ASSUME IInv PROVE IngressIsBounded
    OBVIOUS
  <2>1. \A c \in Clients : client[c] \in Records /\ Shape(client[c])
    BY DEF IInv, Clientele
  <2>2. ASSUME NEW c \in Clients, ~client[c].proven
        PROVE  /\ {"admissions", "observations"} \cap ToSet(client[c].held) = {}
               /\ client[c].staged => Minting(c)
    <3>1. client[c].held \in {<<>>, <<"requests">>, <<"requests", "mints">>}
          /\ (client[c].staged => client[c].kind = "mint")
      BY <2>1, <2>2 DEF Shape
    <3>2. \A p \in ToSet(client[c].held) : Contains(client[c].held, p)
      BY <3>1 DEF ToSet, Contains
    <3>3. ~Contains(client[c].held, "admissions") /\ ~Contains(client[c].held, "observations")
      BY <3>1, LadderContains
    <3> QED  BY <3>1, <3>2, <3>3 DEF Minting
  <2>3. OnlyTheProvenCost  BY <2>2 DEF OnlyTheProvenCost
  <2>4. BodiesAreWhole  BY <2>1 DEF BodiesAreWhole, Shape, At, Chunked
  <2> QED  BY <2>3, <2>4 DEF IngressIsBounded, IInv, Clientele
<1> QED  BY <1>1, Invariance, PTL

-----------------------------------------------------------------------------
(***************************************************************************)
(* Who observes.  A Pollen that was let through owns the Seed row of the   *)
(* Phytomer, or there is no row and there are runs, so that none will be   *)
(* opened (Entitled); what it is shown afterwards is asked of that row.    *)
(***************************************************************************)
\* Rows of the Phytomer, and what a request is while somebody is being shown it.
RunRows == [n : Nat, pollen : Views!Subjects, substrate : Substrates,
            ofSeed : BOOLEAN, live : BOOLEAN]
SeedRows == [pollen : Views!Subjects, substrate : Substrates, settled : BOOLEAN]
Asked == {"state", "runs", "events", "stream"}
Admitted == [at : {"admitted"}, bearer : Views!Bearers, view : Asked]
Identified == [at : {"named", "checked", "read", "waiting", "ended", "loaded", "listed", "streaming"},
               subject : Views!Subjects, bearer : Views!Bearers, view : Asked,
               settled : BOOLEAN, late : 0..2, shown : SUBSET (Views!Subjects \X Substrates)]

\* What is true of a request that acts for somebody, whatever the others did since:
\* a Pollen that was let through owns the Seed row, or there is none and there
\* are runs, so that none will be opened.
Entitled(p) == IF seed = NoSeed THEN runs # {} ELSE seed.pollen = p
Stands(r) ==
  /\ r.subject = r.bearer.of
  /\ r.late <= 1
  /\ r.at \in {"named", "checked", "read"} \/ r.subject = Operator => r.late = 0
  /\ r.at \in {"read", "waiting", "ended"} => r.view = "state"
  /\ r.at = "read" => seed # NoSeed
  /\ r.at = "streaming" => r.view = "stream"
  /\ r.subject # Operator =>
       /\ r.at = "checked" => r.view # "runs"
       /\ r.at \in {"checked", "read"} => Entitled(r.subject)
       /\ r.view \in {"state", "runs"} /\ r.at # "loaded" => \A x \in r.shown : x[1] = r.subject

PhytomerOk == /\ runs \in SUBSET RunRows
              /\ IsFiniteSet(runs)
              /\ seed \in SeedRows \cup {NoSeed}
WatchersOk == /\ watcher \in [Watchers -> {Views!Idle} \cup Admitted \cup Identified]
              /\ \A w \in Watchers : watcher[w].at \notin {"idle", "admitted"} => Stands(watcher[w])
ViewInv == PhytomerOk /\ WatchersOk

LEMMA ViewsInit == Views!Init => ViewInv
<1> SUFFICES ASSUME Views!Init PROVE ViewInv
  OBVIOUS
<1>1. PhytomerOk
  BY FS_EmptySet DEF Views!Init, PhytomerOk
<1>2. WatchersOk
  BY DEF Views!Init, WatchersOk, Views!Idle
<1> QED
  BY <1>1, <1>2 DEF ViewInv

\* A step that puts one request elsewhere keeps the invariant if the request's
\* new place stands.
LEMMA ViewsPut ==
  ASSUME ViewInv, NEW w \in Watchers, NEW r \in {Views!Idle} \cup Admitted \cup Identified,
         r.at \notin {"idle", "admitted"} => Stands(r), Views!Put(w, r)
  PROVE  ViewInv'
<1>1. PhytomerOk'
  BY DEF ViewInv, PhytomerOk, Views!Put
<1>2. watcher' \in [Watchers -> {Views!Idle} \cup Admitted \cup Identified]
  BY DEF ViewInv, WatchersOk, Views!Put
<1>3. ASSUME NEW v \in Watchers, watcher'[v].at \notin {"idle", "admitted"}
      PROVE  Stands(watcher[v])'
  <2>1. watcher'[v] = IF v = w THEN r ELSE watcher[v]
    BY DEF ViewInv, WatchersOk, Views!Put
  <2>2. seed' = seed /\ runs' = runs
    BY DEF Views!Put
  <2>3. CASE v = w
    BY <1>3, <2>1, <2>2, <2>3 DEF Stands, Entitled
  <2>4. CASE v # w
    <3>1. Stands(watcher[v])
      BY <1>3, <2>1, <2>4 DEF ViewInv, WatchersOk
    <3> QED
      BY <2>1, <2>2, <2>4, <3>1 DEF Stands, Entitled
  <2> QED
    BY <2>3, <2>4
<1> QED
  BY <1>1, <1>2, <1>3 DEF ViewInv, WatchersOk

\* Ending a request is always sound.
LEMMA ViewsEnd ==
  ASSUME ViewInv, NEW w \in Watchers, Views!End(w)
  PROVE  ViewInv'
BY ViewsPut DEF Views!End, Views!Idle

\* A step of the Phytomer keeps what stood, if it takes no Seed row back or
\* gives it to another, and forgets no run.
LEMMA ViewsCarry ==
  ASSUME ViewInv, PhytomerOk', watcher' = watcher,
         runs # {} => runs' # {},
         seed # NoSeed => seed' # NoSeed /\ seed'.pollen = seed.pollen,
         seed = NoSeed /\ runs # {} => seed' = NoSeed
  PROVE  ViewInv'
<1>1. ASSUME NEW w \in Watchers, watcher[w].at \notin {"idle", "admitted"}
      PROVE  Stands(watcher[w])'
  <2>1. Stands(watcher[w])
    BY <1>1 DEF ViewInv, WatchersOk
  <2>2. Entitled(watcher[w].subject) => Entitled(watcher[w].subject)'
    BY DEF Entitled
  <2> QED
    BY <2>1, <2>2 DEF Stands
<1> QED
  BY <1>1 DEF ViewInv, WatchersOk

LEMMA SubstratesOfRows ==
  ASSUME PhytomerOk, seed # NoSeed
  PROVE  seed \in SeedRows
BY DEF PhytomerOk

LEMMA SameCount == ASSUME NEW S PROVE Views!Cardinality(S) = Cardinality(S)
BY DEF Views!Cardinality, Cardinality

\* A run more, or one that ended.
LEMMA ViewsPhytomer ==
  ASSUME ViewInv,
         \/ \E p \in Views!Subjects, s \in Substrates :
              Views!OpenSeed(p, s) \/ Views!GrowSprout(p, s)
         \/ Views!GrowSeed \/ Views!SettleSeed \/ \E r \in runs : Views!EndRun(r)
  PROVE  ViewInv'
<1> USE DEF ViewInv
<1>1. ASSUME NEW p \in Views!Subjects, NEW s \in Substrates, Views!OpenSeed(p, s)
      PROVE  ViewInv'
  <2>1. /\ seed = NoSeed /\ runs = {} /\ runs' = runs /\ watcher' = watcher
        /\ seed' = [pollen |-> p, substrate |-> s, settled |-> FALSE]
    BY <1>1 DEF Views!OpenSeed
  <2>2. PhytomerOk'
    BY <2>1 DEF PhytomerOk, SeedRows
  <2> QED
    BY <2>1, <2>2, ViewsCarry
<1>2. ASSUME NEW p \in Views!Subjects, NEW s \in Substrates, NEW b \in BOOLEAN,
             runs' = runs \cup {Views!NewRun(p, s, b)}, seed' = seed, watcher' = watcher
      PROVE  ViewInv'
  <2>1. Views!Cardinality(runs) \in Nat
    BY FS_CardinalityType, SameCount DEF PhytomerOk
  <2>2. Views!NewRun(p, s, b) \in RunRows
    BY <2>1 DEF RunRows, Views!NewRun
  <2>3. IsFiniteSet(runs')
    BY <1>2, FS_AddElement DEF PhytomerOk
  <2>4. PhytomerOk'
    BY <1>2, <2>2, <2>3 DEF PhytomerOk
  <2> QED
    BY <1>2, <2>4, ViewsCarry
<1>3. ASSUME NEW p \in Views!Subjects, NEW s \in Substrates, Views!GrowSprout(p, s)
      PROVE  ViewInv'
  BY <1>2, <1>3 DEF Views!GrowSprout
<1>4. CASE Views!GrowSeed
  <2>1. seed.pollen \in Views!Subjects /\ seed.substrate \in Substrates
    BY <1>4 DEF Views!GrowSeed, PhytomerOk, SeedRows
  <2> QED
    BY <1>2, <1>4, <2>1 DEF Views!GrowSeed
<1>5. CASE Views!SettleSeed
  <2>1. /\ seed \in SeedRows /\ runs' = runs /\ watcher' = watcher
        /\ seed' = [seed EXCEPT !.settled = TRUE]
    BY <1>5 DEF Views!SettleSeed, PhytomerOk
  <2>2. seed' \in SeedRows /\ seed'.pollen = seed.pollen
    BY <2>1 DEF SeedRows
  <2>3. NoSeed \notin SeedRows
    BY NoSeedIsNoRow DEF SeedRows, Views!Subjects
  <2>4. PhytomerOk'
    BY <2>1, <2>2 DEF PhytomerOk
  <2> QED
    BY <2>1, <2>2, <2>3, <2>4, ViewsCarry
<1>6. ASSUME NEW r \in runs, Views!EndRun(r)
      PROVE  ViewInv'
  <2>1. /\ runs' = (runs \ {r}) \cup {[r EXCEPT !.live = FALSE]}
        /\ seed' = seed /\ watcher' = watcher
    BY <1>6 DEF Views!EndRun
  <2>2. [r EXCEPT !.live = FALSE] \in RunRows
    BY DEF PhytomerOk, RunRows
  <2>3. IsFiniteSet(runs')
    BY <2>1, FS_AddElement, FS_RemoveElement DEF PhytomerOk
  <2>4. PhytomerOk'
    BY <2>1, <2>2, <2>3 DEF PhytomerOk
  <2> QED
    BY <2>1, <2>4, ViewsCarry
<1> QED
  BY <1>1, <1>3, <1>4, <1>5, <1>6

\* Changes of authority leave what is shown and what is recorded alone.
LEMMA ViewsAuthority ==
  ASSUME ViewInv,
         \/ \E c \in Commands : Views!LoadCredentials(c) \/ Views!SaveCredentials(c)
         \/ \E p \in Pollens : Views!Mint(p) \/ Views!Expire(p)
         \/ \E g \in Pollens \X Substrates : Views!ChangeGrant(g)
         \/ UNCHANGED views
  PROVE  ViewInv'
<1>1. runs' = runs /\ seed' = seed /\ watcher' = watcher
  BY DEF Views!LoadCredentials, Views!SaveCredentials, Views!Mint, Views!Expire,
         Views!ChangeGrant, views
<1>2. PhytomerOk'
  BY <1>1 DEF ViewInv, PhytomerOk
<1> QED
  BY <1>1, <1>2, ViewsCarry

\* A bearer proves its own subject or none.
LEMMA ProvesItsOwn ==
  ASSUME NEW b \in Views!Bearers, NEW p \in Views!Proven(b)
  PROVE  p = b.of
BY DEF Views!Bearers, Views!Proven

\* Whom MayWatch lets through is entitled.
LEMMA LetThrough ==
  ASSUME NEW p, Views!MayWatch(p)
  PROVE  Entitled(p)
<1>1. CASE seed = NoSeed
  <2>1. {r.substrate : r \in runs} # {}
    BY <1>1 DEF Views!MayWatch, Views!Granted
  <2> QED
    BY <1>1, <2>1 DEF Entitled
<1>2. CASE seed # NoSeed
  BY <1>2 DEF Views!MayWatch, Entitled
<1> QED
  BY <1>1, <1>2

LEMMA WhatIsTold ==
  ASSUME PhytomerOk, NEW w
  PROVE  Views!Told(w) \in SUBSET (Views!Subjects \X Substrates)
<1>1. ASSUME NEW r \in runs PROVE Views!Whose(r) \in Views!Subjects \X Substrates
  BY DEF PhytomerOk, RunRows, Views!Whose
<1> QED
  BY <1>1 DEF Views!Told

\* The steps of one request.
LEMMA ViewsWatcher ==
  ASSUME ViewInv, NEW w \in Watchers, Views!WatcherStep(w)
  PROVE  ViewInv'
<1> DEFINE r == watcher[w]
<1>t. r \in {Views!Idle} \cup Admitted \cup Identified
  BY DEF ViewInv, WatchersOk
<1>s. r.at \notin {"idle", "admitted"} => r \in Identified /\ Stands(r)
  BY <1>t DEF ViewInv, WatchersOk, Views!Idle, Admitted
<1>1. CASE Views!Present(w)
  <2>1. PICK b \in Views!Bearers, v \in Asked :
          /\ watcher' = [watcher EXCEPT ![w] = [at |-> "admitted", bearer |-> b, view |-> v]]
          /\ UNCHANGED <<runs, seed>> /\ UNCHANGED Views!authority
    BY <1>1 DEF Views!Present, Asked
  <2>2. [at |-> "admitted", bearer |-> b, view |-> v] \in Admitted
    BY DEF Admitted
  <2> QED
    BY <2>1, <2>2, ViewsPut DEF Views!Put
<1>2. CASE Views!Resolve(w)
  <2>1. r \in Admitted
    BY <1>2, <1>t DEF Views!Resolve, Views!Idle, Identified
  <2>2. CASE Views!Proven(r.bearer) = {}
    BY <1>2, <2>2, ViewsEnd DEF Views!Resolve
  <2>3. ASSUME NEW p \in Views!Proven(r.bearer), Views!Put(w, Views!Named(p, r.bearer, r.view))
        PROVE  ViewInv'
    <3>1. r.bearer \in Views!Bearers /\ r.view \in Asked
      BY <2>1 DEF Admitted
    <3>2. p = r.bearer.of /\ p \in Views!Subjects
      BY <3>1, ProvesItsOwn DEF Views!Bearers
    <3>3. Views!Named(p, r.bearer, r.view) \in Identified
      BY <3>1, <3>2 DEF Identified, Views!Named
    <3>4. Stands(Views!Named(p, r.bearer, r.view))
      BY <3>2 DEF Stands, Views!Named
    <3> QED
      BY <2>3, <3>3, <3>4, ViewsPut
  <2> QED
    BY <1>2, <2>2, <2>3 DEF Views!Resolve
<1>3. CASE Views!Check(w)
  <2>1. CASE Views!MayWatch(r.subject)
    <3>1. r \in Identified /\ Stands(r) /\ r.at = "named" /\ r.view # "runs"
      BY <1>3, <1>s DEF Views!Check
    <3>2. [r EXCEPT !.at = "checked"] \in Identified
      BY <3>1 DEF Identified
    <3>3. Entitled(r.subject)
      BY <2>1, LetThrough
    <3>4. Stands([r EXCEPT !.at = "checked"])
      BY <3>1, <3>3 DEF Identified, Stands
    <3> QED
      BY <1>3, <2>1, <3>2, <3>4, ViewsPut DEF Views!Check
  <2>2. CASE ~Views!MayWatch(r.subject)
    BY <1>3, <2>2, ViewsEnd DEF Views!Check
  <2> QED
    BY <2>1, <2>2
<1>4. CASE Views!ReadSeed(w)
  <2>1. CASE seed = NoSeed
    BY <1>4, <2>1, ViewsEnd DEF Views!ReadSeed
  <2>2. CASE seed # NoSeed
    <3>1. r \in Identified /\ Stands(r) /\ r.at = "checked" /\ r.view = "state"
      BY <1>4, <1>s DEF Views!ReadSeed
    <3>2. seed.settled \in BOOLEAN
      BY <2>2 DEF ViewInv, PhytomerOk, SeedRows
    <3>3. [r EXCEPT !.at = "read", !.settled = seed.settled] \in Identified
      BY <3>1, <3>2 DEF Identified
    <3>4. Stands([r EXCEPT !.at = "read", !.settled = seed.settled])
      BY <2>2, <3>1 DEF Identified, Stands
    <3> QED
      BY <1>4, <2>2, <3>3, <3>4, ViewsPut DEF Views!ReadSeed
  <2> QED
    BY <2>1, <2>2
<1>5. CASE Views!Show(w)
  <2>1. CASE \A x \in runs : Views!Agrees(x)
    <3>1. r \in Identified /\ Stands(r) /\ r.at = "read" /\ Views!Put(w, Views!Shown(w))
      BY <1>5, <2>1, <1>s DEF Views!Show
    <3>2. Views!Late(w) \in {0, 1} /\ (r.subject = Operator => Views!Late(w) = 0)
      BY <3>1 DEF Views!Late, Stands
    <3>3. Views!Told(w) \in SUBSET (Views!Subjects \X Substrates)
      BY WhatIsTold DEF ViewInv
    <3>4. Views!Shown(w) \in Identified
      <4> DEFINE place == IF r.at = "read" /\ r.settled THEN "ended" ELSE "waiting"
      <4>1. Views!Late(w) \in 0..2
        BY <3>2
      <4>2. Views!Shown(w) = [r EXCEPT !.at = place, !.settled = FALSE, !.late = Views!Late(w),
                                       !.shown = Views!Told(w)]
        BY DEF Views!Shown
      <4> QED
        BY <3>1, <3>3, <4>1, <4>2 DEF Identified
    <3>5. ASSUME r.subject # Operator, NEW x \in Views!Told(w)
          PROVE  x[1] = r.subject
      <4>1. PICK y \in runs : x = <<y.pollen, y.substrate>>
        BY <3>5 DEF Views!Told, Views!Whose
      <4>2. y.pollen = seed.pollen
        BY <2>1 DEF Views!Agrees
      <4>3. seed.pollen = r.subject
        BY <3>1, <3>5 DEF Stands, Entitled
      <4> QED
        BY <4>1, <4>2, <4>3
    <3>6. Stands(Views!Shown(w))
      BY <3>1, <3>2, <3>5 DEF Identified, Stands, Views!Shown
    <3> QED
      BY <3>1, <3>4, <3>6, ViewsPut
  <2>2. CASE ~\A x \in runs : Views!Agrees(x)
    BY <1>5, <2>2, ViewsEnd DEF Views!Show
  <2> QED
    BY <2>1, <2>2
<1>6. CASE Views!Wake(w)
  <2>1. r \in Identified /\ Stands(r) /\ r.at = "waiting"
    BY <1>6, <1>s DEF Views!Wake
  <2>2. CASE r.subject = Operator
    <3> DEFINE to == [r EXCEPT !.at = "checked"]
    <3>1. to \in Identified
      BY <2>1 DEF Identified
    <3>2. Stands(to)
      BY <2>1, <2>2 DEF Identified, Stands
    <3>3. Views!Put(w, to)
      BY <1>6, <2>2 DEF Views!Wake
    <3> QED
      BY <3>1, <3>2, <3>3, ViewsPut
  <2>3. CASE r.subject # Operator /\ Views!MayWatch(r.subject)
    <3>1. [r EXCEPT !.at = "checked", !.late = 0] \in Identified
      <4>1. 0 \in 0..2
        OBVIOUS
      <4> QED
        BY <2>1, <4>1 DEF Identified
    <3>2. Entitled(r.subject)
      BY <2>3, LetThrough
    <3>3. Stands([r EXCEPT !.at = "checked", !.late = 0])
      BY <2>1, <2>3, <3>2 DEF Identified, Stands
    <3> QED
      BY <1>6, <2>3, <3>1, <3>3, ViewsPut DEF Views!Wake
  <2>4. CASE r.subject # Operator /\ ~Views!MayWatch(r.subject)
    BY <1>6, <2>4, ViewsEnd DEF Views!Wake
  <2> QED
    BY <2>2, <2>3, <2>4
<1>7. CASE Views!LoadRuns(w)
  <2> DEFINE to == [r EXCEPT !.at = IF @ = "named" THEN "loaded" ELSE "listed",
                             !.shown = Views!Told(w)]
  <2>1. /\ r \in Identified /\ Stands(r) /\ r.at \in {"checked", "named"} /\ r.view = "runs"
        /\ Views!Put(w, to)
    BY <1>7, <1>s DEF Views!LoadRuns
  <2>2. to \in Identified
    BY <2>1, WhatIsTold DEF ViewInv, Identified
  <2>3. Stands(to)
    BY <2>1 DEF Identified, Stands
  <2> QED
    BY <2>1, <2>2, <2>3, ViewsPut
<1>8. CASE Views!Narrow(w)
  <2> DEFINE own == {x \in r.shown : x[1] = r.subject}
             to == [r EXCEPT !.at = "listed", !.shown = own]
  <2>1. r \in Identified /\ Stands(r) /\ r.at = "loaded"
    BY <1>8, <1>s DEF Views!Narrow
  <2>2. Views!Put(w, to) \/ Views!End(w)
    BY <1>8 DEF Views!Narrow
  <2>3. to \in Identified
    BY <2>1 DEF Identified
  <2>4. Stands(to)
    BY <2>1 DEF Identified, Stands
  <2> QED
    BY <2>2, <2>3, <2>4, ViewsPut, ViewsEnd
<1>9. CASE Views!LoadEvents(w)
  <2> DEFINE to == [r EXCEPT !.at = "listed", !.shown = Views!Told(w)]
  <2>1. r \in Identified /\ Stands(r) /\ r.at = "checked" /\ r.view = "events" /\ Views!Put(w, to)
    BY <1>9, <1>s DEF Views!LoadEvents
  <2>2. to \in Identified
    BY <2>1, WhatIsTold DEF ViewInv, Identified
  <2>3. Stands(to)
    BY <2>1 DEF Identified, Stands
  <2> QED
    BY <2>1, <2>2, <2>3, ViewsPut
<1>10. CASE Views!OpenStream(w)
  <2> DEFINE to == [r EXCEPT !.at = "streaming"]
  <2>1. r \in Identified /\ Stands(r) /\ r.at = "checked" /\ r.view = "stream" /\ Views!Put(w, to)
    BY <1>10, <1>s DEF Views!OpenStream
  <2>2. to \in Identified
    BY <2>1 DEF Identified
  <2>3. Stands(to)
    BY <2>1 DEF Identified, Stands
  <2> QED
    BY <2>1, <2>2, <2>3, ViewsPut
<1>11. ASSUME NEW x \in runs, Views!Forward(w, x)
       PROVE  ViewInv'
  <2> DEFINE to == [r EXCEPT !.shown = @ \cup {Views!Whose(x)}]
  <2>1. r \in Identified /\ Stands(r) /\ r.at = "streaming" /\ Views!Put(w, to)
    BY <1>11, <1>s DEF Views!Forward
  <2>2. Views!Whose(x) \in Views!Subjects \X Substrates
    BY DEF ViewInv, PhytomerOk, RunRows, Views!Whose
  <2>3. to \in Identified
    BY <2>1, <2>2 DEF Identified
  <2>4. Stands(to)
    BY <2>1 DEF Identified, Stands
  <2> QED
    BY <2>1, <2>3, <2>4, ViewsPut
<1>12. CASE Views!Leave(w)
  BY <1>12, ViewsEnd DEF Views!Leave
<1> QED
  BY <1>1, <1>2, <1>3, <1>4, <1>5, <1>6, <1>7, <1>8, <1>9, <1>10, <1>11, <1>12
     DEF Views!WatcherStep

LEMMA ViewsKept == ViewInv /\ [Views!Next]_Views!vars => ViewInv'
BY ViewsWatcher, ViewsAuthority, ViewsPhytomer DEF Views!Next, Views!vars, views

LEMMA ViewInvImplies ==
  ViewInv => Views!NamedStaysNamed /\ Views!StateAndRunsAreOwn /\ Views!RevokedSeesNoMore
<1> SUFFICES ASSUME ViewInv
             PROVE  Views!NamedStaysNamed /\ Views!StateAndRunsAreOwn /\ Views!RevokedSeesNoMore
  OBVIOUS
<1>1. ASSUME NEW w \in Watchers, watcher[w].at \notin {"idle", "admitted"}
      PROVE  Stands(watcher[w])
  BY <1>1 DEF ViewInv, WatchersOk
<1>2. Views!NamedStaysNamed /\ Views!RevokedSeesNoMore
  BY <1>1 DEF Views!NamedStaysNamed, Views!RevokedSeesNoMore, Stands
<1>3. Views!StateAndRunsAreOwn
  BY <1>1 DEF Views!StateAndRunsAreOwn, Views!OwnView, Stands
<1> QED
  BY <1>2, <1>3

\* Of any Pollens, substrates, requests and commands that change authority: who
\* presents a credential acts as its subject or not at all, the views that ask
\* again show it what it dispatched, and after its authority lapsed one frame at most.
THEOREM ObserversSeeTheirOwn ==
  Views!Spec => [](Views!NamedStaysNamed /\ Views!StateAndRunsAreOwn /\ Views!RevokedSeesNoMore)
BY ViewsInit, ViewsKept, ViewInvImplies, PTL DEF Views!Spec

\* The same, of the composition: the invariant of the run.
THEOREM SeenByItsOwnerHolds == MCSpec => []SeenByItsOwner
<1>1. MCInit => ViewInv
  BY ViewsInit DEF MCInit
<1>2. ViewInv /\ [MCNext]_<<focus, views, service, vars, mesh>> => ViewInv'
  BY ViewsKept DEF MCNext, views, Views!vars
<1>3. ViewInv => SeenByItsOwner
  BY ViewInvImplies DEF SeenByItsOwner
<1> QED
  BY <1>1, <1>2, <1>3, PTL DEF MCSpec

LEMMA SameCountOfCommits == ASSUME NEW S PROVE Mesh!Cardinality(S) = Cardinality(S)
BY DEF Mesh!Cardinality, Cardinality

-----------------------------------------------------------------------------
(***************************************************************************)
(* Grafts.  Every commit there is passed the sequence and repeats no patch *)
(* of its past (Lineage), so that it is left to say that refs point at     *)
(* commits, and that a handler's worktree stands on one without the patch  *)
(* it is about to add (Grafted).                                           *)
(***************************************************************************)
Made == DOMAIN commits
Named == (Grafting \X Nat) \cup {Mesh!NoPatch, Mesh!Trunk}
Askings == [at : {"idle", "hashed", "dial", "waiting", "lost"}, patch : Named, branch : Named,
            key : Nat, up : BOOLEAN, answer : {"none", "error", "complete"}]
Servings == [at : {"none", "request", "applied", "governed", "pushed"}, base : Nat,
             passed : BOOLEAN]

GraftTypes == /\ top \in [Grafting -> Nat]
              /\ call \in [Grafting -> Askings]
              /\ serve \in [Grafting -> Servings]
              /\ keys \in [private : Nat, public : Nat]
              /\ \E n \in Nat : Made = 0..n
              /\ \A b \in DOMAIN origin : origin[b] \in Made
              /\ Mesh!Trunk \in DOMAIN origin
              /\ head \in Made

Lineage == \A c \in Made :
             /\ c \in commits[c].past
             /\ commits[c].past \in SUBSET Made
             /\ commits[c].governed
             /\ \A a \in commits[c].past : /\ commits[a].past \in SUBSET commits[c].past
                                           /\ a # c => commits[a].patch # commits[c].patch

\* The patch a caller asked to graft stands on the branch it asked for.
Landed(s) == call[s].branch \in DOMAIN origin /\ Mesh!Holds(origin[call[s].branch], call[s].patch)

Grafted(s) ==
  /\ call[s].up <=> call[s].at = "waiting"
  /\ call[s].at \in {"idle", "hashed", "dial"} => serve[s] = Mesh!Absent
  /\ serve[s].at \in {"applied", "governed"} =>
       serve[s].base \in Made /\ ~Mesh!Holds(serve[s].base, call[s].patch)
  /\ serve[s].at = "governed" => serve[s].passed
  /\ serve[s].at = "pushed" => Landed(s)
  /\ call[s].answer = "complete" => call[s].at = "idle" /\ Landed(s)

GraftInv == GraftTypes /\ Lineage /\ \A s \in Grafting : Grafted(s)

LEMMA GraftInit == Mesh!Init => GraftInv
<1> SUFFICES ASSUME Mesh!Init PROVE GraftInv
  OBVIOUS
<1>1. Made = 0..0 /\ commits[0].past = {0} /\ commits[0].governed
  BY DEF Mesh!Init, Made
<1>2. GraftTypes
  BY <1>1 DEF Mesh!Init, GraftTypes, Made, Askings, Servings, Mesh!Idle, Mesh!Absent, Mesh!None,
              Named
<1>3. Lineage
  BY <1>1 DEF Lineage
<1>4. \A s \in Grafting : Grafted(s)
  BY DEF Mesh!Init, Grafted, Mesh!Idle, Mesh!Absent, Mesh!None
<1> QED
  BY <1>2, <1>3, <1>4 DEF GraftInv

\* A step that makes no commit and moves no ref keeps the requests it does not touch.
LEMMA GraftElsewhere ==
  ASSUME GraftInv, commits' = commits, origin' = origin, NEW s \in Grafting,
         call'[s] = call[s], serve'[s] = serve[s]
  PROVE  Grafted(s)'
BY DEF GraftInv, Grafted, Landed, Mesh!Holds, Mesh!History, Made

LEMMA GraftStill ==
  ASSUME GraftInv, commits' = commits, origin' = origin, head' \in Made,
         top' \in [Grafting -> Nat], keys' \in [private : Nat, public : Nat],
         call' \in [Grafting -> Askings], serve' \in [Grafting -> Servings],
         \A s \in Grafting : Grafted(s)'
  PROVE  GraftInv'
BY DEF GraftInv, GraftTypes, Lineage, Made

\* The steps of one caller and its handler that neither commit nor push.
LEMMA GraftMoves ==
  ASSUME GraftInv, NEW s \in Grafting, NEW a \in Askings, NEW h \in Servings,
         call' = [call EXCEPT ![s] = a], serve' = [serve EXCEPT ![s] = h],
         UNCHANGED <<top, commits, origin, head, keys>>, Grafted(s)'
  PROVE  GraftInv'
<1>1. call' \in [Grafting -> Askings] /\ serve' \in [Grafting -> Servings]
  BY DEF GraftInv, GraftTypes
<1>2. ASSUME NEW u \in Grafting, u # s PROVE Grafted(u)'
  BY <1>2, GraftElsewhere DEF GraftInv, GraftTypes
<1>3. head' \in Made /\ top' \in [Grafting -> Nat] /\ keys' \in [private : Nat, public : Nat]
  BY DEF GraftInv, GraftTypes
<1> QED
  BY <1>1, <1>2, <1>3, GraftStill

LEMMA GraftAround ==
  ASSUME GraftInv,
         \/ Mesh!KeygenPrivate \/ Mesh!KeygenPublic \/ Mesh!Update
         \/ \E s \in Grafting : Mesh!Work(s)
         \/ UNCHANGED mesh
  PROVE  GraftInv'
<1>1. UNCHANGED <<call, serve, commits, origin>>
  BY DEF Mesh!KeygenPrivate, Mesh!KeygenPublic, Mesh!Update, Mesh!Work, mesh
<1>2. keys' \in [private : Nat, public : Nat]
  BY DEF GraftInv, GraftTypes, Mesh!KeygenPrivate, Mesh!KeygenPublic, Mesh!Update, Mesh!Work, mesh
<1>3. head' \in Made
  BY DEF GraftInv, GraftTypes, Mesh!KeygenPrivate, Mesh!KeygenPublic, Mesh!Update, Mesh!Work, mesh
<1>4. top' \in [Grafting -> Nat]
  BY DEF GraftInv, GraftTypes, Mesh!KeygenPrivate, Mesh!KeygenPublic, Mesh!Update, Mesh!Work, mesh
<1>5. call' \in [Grafting -> Askings] /\ serve' \in [Grafting -> Servings]
  BY <1>1 DEF GraftInv, GraftTypes
<1>6. \A s \in Grafting : Grafted(s)'
  BY <1>1, GraftElsewhere
<1> QED
  BY <1>1, <1>2, <1>3, <1>4, <1>5, <1>6, GraftStill

\* What a caller is left with when it is refused.
LEMMA RefusedAsking ==
  ASSUME GraftInv, NEW s \in Grafting, NEW w \in {"error", "complete"}
  PROVE  [Mesh!Refused(s) EXCEPT !.answer = w] \in Askings /\ Mesh!Refused(s) \in Askings
BY DEF GraftInv, GraftTypes, Mesh!Refused, Mesh!Idle, Mesh!None, Askings

LEMMA GraftCalls ==
  ASSUME GraftInv, NEW s \in Grafting,
         \/ \E named \in BOOLEAN : Mesh!ReadHash(s, named)
         \/ Mesh!ReadPatch(s) \/ Mesh!Connect(s) \/ Mesh!Disconnect(s) \/ Mesh!GiveUp(s)
  PROVE  GraftInv'
<1>t. call[s] \in Askings /\ serve[s] \in Servings /\ top[s] \in Nat /\ Grafted(s)
  BY DEF GraftInv, GraftTypes
<1>u. /\ call = [call EXCEPT ![s] = call[s]] /\ serve = [serve EXCEPT ![s] = serve[s]]
      /\ DOMAIN call = Grafting /\ DOMAIN serve = Grafting
  BY DEF GraftInv, GraftTypes
<1>1. ASSUME NEW named \in BOOLEAN, Mesh!ReadHash(s, named)
      PROVE  GraftInv'
  <2>1. PICK key \in Mesh!Tokens :
          call' = [call EXCEPT ![s] = [Mesh!Idle EXCEPT !.at = "hashed", !.key = key,
                             !.branch = IF named THEN Mesh!Trunk ELSE <<s, top[s]>>]]
    BY <1>1 DEF Mesh!ReadHash
  <2> DEFINE a == [Mesh!Idle EXCEPT !.at = "hashed", !.key = key,
                             !.branch = IF named THEN Mesh!Trunk ELSE <<s, top[s]>>]
  <2>0. key \in Nat /\ (IF named THEN Mesh!Trunk ELSE <<s, top[s]>>) \in Named
    BY <1>t DEF Mesh!Tokens, Named, GraftInv, GraftTypes
  <2>2. a \in Askings /\ a.at = "hashed" /\ ~a.up /\ a.answer = "none"
    <3>1. Mesh!NoPatch \in Named
      BY DEF Named
    <3> QED
      BY <2>0, <3>1 DEF Askings, Mesh!Idle, Mesh!None
  <2>3. call' = [call EXCEPT ![s] = a] /\ serve' = [serve EXCEPT ![s] = serve[s]]
    BY <1>1, <1>u, <2>1 DEF Mesh!ReadHash
  <2>4. call'[s] = a /\ serve'[s] = Mesh!Absent
    BY <1>1, <1>u, <2>3 DEF Mesh!ReadHash
  <2>5. Grafted(s)'
    BY <2>2, <2>4 DEF Grafted, Mesh!Absent, Mesh!None
  <2> HIDE DEF a
  <2> QED
    BY <1>1, <1>t, <2>2, <2>3, <2>5, GraftMoves DEF Mesh!ReadHash
<1>2. CASE Mesh!ReadPatch(s)
  <2> DEFINE a == [call[s] EXCEPT !.at = "dial", !.patch = <<s, top[s]>>]
  <2>1. a \in Askings /\ a.at = "dial" /\ a.up = call[s].up /\ a.answer = call[s].answer
    BY <1>t DEF Askings, Named
  <2>2. call' = [call EXCEPT ![s] = a] /\ serve' = [serve EXCEPT ![s] = serve[s]]
    BY <1>2, <1>u DEF Mesh!ReadPatch
  <2>3. call'[s] = a /\ serve'[s] = Mesh!Absent /\ ~a.up /\ a.answer # "complete"
    BY <1>2, <1>t, <1>u, <2>1, <2>2 DEF Mesh!ReadPatch, Grafted
  <2>4. Grafted(s)'
    BY <2>1, <2>3 DEF Grafted, Mesh!Absent, Mesh!None
  <2> HIDE DEF a
  <2> QED
    BY <1>2, <1>t, <2>1, <2>2, <2>4, GraftMoves DEF Mesh!ReadPatch
<1>3. CASE Mesh!Connect(s)
  <2>1. CASE /\ call' = [call EXCEPT ![s].at = "waiting", ![s].up = TRUE]
             /\ serve' = [serve EXCEPT ![s] = [Mesh!Absent EXCEPT !.at = "request"]]
    <3> DEFINE a == [call[s] EXCEPT !.at = "waiting", !.up = TRUE]
               h == [Mesh!Absent EXCEPT !.at = "request"]
    <3>1. a \in Askings /\ a.at = "waiting" /\ a.up /\ a.answer = call[s].answer
      BY <1>t DEF Askings
    <3>2. h \in Servings /\ h.at = "request"
      BY DEF Servings, Mesh!Absent, Mesh!None
    <3>3. call' = [call EXCEPT ![s] = a] /\ serve' = [serve EXCEPT ![s] = h]
      BY <2>1, <1>u
    <3>4. call'[s] = a /\ serve'[s] = h /\ a.answer # "complete"
      BY <1>3, <1>t, <1>u, <3>1, <3>3 DEF Mesh!Connect, Grafted
    <3>5. Grafted(s)'
      BY <3>1, <3>2, <3>4 DEF Grafted
    <3> HIDE DEF a, h
    <3> QED
      BY <1>3, <3>1, <3>2, <3>3, <3>5, GraftMoves DEF Mesh!Connect
  <2>2. CASE call' = [call EXCEPT ![s] = Mesh!Refused(s)] /\ serve' = serve
    <3>1. Mesh!Refused(s) \in Askings
      BY RefusedAsking
    <3>2. serve' = [serve EXCEPT ![s] = serve[s]] /\ serve[s] = Mesh!Absent
      BY <1>3, <1>t, <1>u, <2>2 DEF Mesh!Connect, Grafted
    <3>3. call'[s] = Mesh!Refused(s) /\ serve'[s] = Mesh!Absent
      BY <1>u, <2>2, <3>2
    <3>4. Grafted(s)'
      BY <3>3 DEF Grafted, Mesh!Refused, Mesh!Idle, Mesh!Absent, Mesh!None
    <3> QED
      BY <1>3, <1>t, <2>2, <3>1, <3>2, <3>4, GraftMoves DEF Mesh!Connect
  <2> QED
    BY <1>3, <2>1, <2>2 DEF Mesh!Connect
<1>4. CASE Mesh!Disconnect(s)
  <2> DEFINE a == [call[s] EXCEPT !.up = FALSE, !.at = "lost"]
  <2>1. a \in Askings /\ a.at = "lost" /\ ~a.up /\ a.answer = call[s].answer
        /\ a.branch = call[s].branch /\ a.patch = call[s].patch
    BY <1>t DEF Askings
  <2>2. call' = [call EXCEPT ![s] = a] /\ serve' = [serve EXCEPT ![s] = serve[s]]
    BY <1>4, <1>u DEF Mesh!Disconnect
  <2>3. call'[s] = a /\ serve'[s] = serve[s] /\ a.answer # "complete"
    BY <1>4, <1>t, <1>u, <2>1, <2>2 DEF Mesh!Disconnect, Grafted
  <2>4. commits' = commits /\ origin' = origin
    BY <1>4 DEF Mesh!Disconnect
  <2>5. Grafted(s)'
    BY <1>t, <2>1, <2>3, <2>4 DEF Grafted, Landed, Mesh!Holds, Mesh!History, Made
  <2> HIDE DEF a
  <2> QED
    BY <1>4, <1>t, <2>1, <2>2, <2>5, GraftMoves DEF Mesh!Disconnect
<1>5. CASE Mesh!GiveUp(s)
  <2>1. Mesh!Refused(s) \in Askings
    BY RefusedAsking
  <2>2. call' = [call EXCEPT ![s] = Mesh!Refused(s)] /\ serve' = [serve EXCEPT ![s] = serve[s]]
    BY <1>5, <1>u DEF Mesh!GiveUp
  <2>3. call'[s] = Mesh!Refused(s) /\ serve'[s] = Mesh!Absent
    BY <1>5, <1>u, <2>2 DEF Mesh!GiveUp
  <2>4. Grafted(s)'
    BY <2>3 DEF Grafted, Mesh!Refused, Mesh!Idle, Mesh!Absent, Mesh!None
  <2> QED
    BY <1>5, <1>t, <2>1, <2>2, <2>4, GraftMoves DEF Mesh!GiveUp
<1> QED
  BY <1>1, <1>2, <1>3, <1>4, <1>5

\* The steps of a handler that push nothing.
LEMMA GraftHandler ==
  ASSUME GraftInv, NEW s \in Grafting,
         Mesh!Prepare(s) \/ Mesh!Govern(s) \/ Mesh!Complete(s) \/ Mesh!Fail(s)
  PROVE  GraftInv'
<1>t. call[s] \in Askings /\ serve[s] \in Servings /\ Grafted(s)
  BY DEF GraftInv, GraftTypes
<1>u. /\ call = [call EXCEPT ![s] = call[s]] /\ serve = [serve EXCEPT ![s] = serve[s]]
      /\ DOMAIN call = Grafting /\ DOMAIN serve = Grafting
  BY DEF GraftInv, GraftTypes
<1>n. head \in Made /\ head \in Nat
  BY DEF GraftInv, GraftTypes
<1>1. CASE Mesh!Prepare(s)
  <2> DEFINE h == [serve[s] EXCEPT !.at = "applied", !.base = head]
  <2>1. h \in Servings /\ h.at = "applied" /\ h.base = head
    BY <1>t, <1>n DEF Servings
  <2>2. call' = [call EXCEPT ![s] = call[s]] /\ serve' = [serve EXCEPT ![s] = h]
    BY <1>1, <1>u DEF Mesh!Prepare
  <2>3. call'[s] = call[s] /\ serve'[s] = h /\ commits' = commits /\ origin' = origin
    BY <1>1, <1>u, <2>2 DEF Mesh!Prepare
  <2>4. serve[s] # Mesh!Absent /\ ~Mesh!Holds(head, call[s].patch)
    BY <1>1 DEF Mesh!Prepare, Mesh!Absent, Mesh!None
  <2>5. Grafted(s)'
    BY <1>t, <1>n, <2>1, <2>3, <2>4 DEF Grafted, Landed, Mesh!Holds, Mesh!History, Made
  <2> HIDE DEF h
  <2> QED
    BY <1>1, <1>t, <2>1, <2>2, <2>5, GraftMoves DEF Mesh!Prepare
<1>2. CASE Mesh!Govern(s)
  <2> DEFINE h == [serve[s] EXCEPT !.at = "governed", !.passed = TRUE]
  <2>1. h \in Servings /\ h.at = "governed" /\ h.base = serve[s].base /\ h.passed
    BY <1>t DEF Servings
  <2>2. call' = [call EXCEPT ![s] = call[s]] /\ serve' = [serve EXCEPT ![s] = h]
    BY <1>2, <1>u DEF Mesh!Govern
  <2>3. call'[s] = call[s] /\ serve'[s] = h /\ commits' = commits /\ origin' = origin
    BY <1>2, <1>u, <2>2 DEF Mesh!Govern
  <2>4. serve[s] # Mesh!Absent /\ serve[s].at = "applied"
    BY <1>2 DEF Mesh!Govern, Mesh!Absent, Mesh!None
  <2>5. Grafted(s)'
    BY <1>t, <2>1, <2>3, <2>4 DEF Grafted, Landed, Mesh!Holds, Mesh!History, Made
  <2> HIDE DEF h
  <2> QED
    BY <1>2, <1>t, <2>1, <2>2, <2>5, GraftMoves DEF Mesh!Govern
<1>3. ASSUME NEW w \in {"error", "complete"}, Mesh!Answer(s, w), serve[s] # Mesh!Absent,
             w = "complete" => Landed(s),
             serve' = [serve EXCEPT ![s] = Mesh!Absent],
             UNCHANGED <<top, commits, origin, head, keys>>
      PROVE  GraftInv'
  <2> DEFINE a == IF call[s].up THEN [Mesh!Refused(s) EXCEPT !.answer = w] ELSE call[s]
  <2>1. a \in Askings /\ a.branch = call[s].branch /\ a.patch = call[s].patch
    BY <1>t, RefusedAsking DEF Mesh!Refused, Mesh!Idle
  <2>2. IF call[s].up THEN a.at = "idle" /\ ~a.up /\ a.answer = w ELSE a = call[s]
    BY DEF Mesh!Refused, Mesh!Idle
  <2>3. call' = [call EXCEPT ![s] = a]
    BY <1>3 DEF Mesh!Answer
  <2>4. Mesh!Absent \in Servings
    BY DEF Servings, Mesh!Absent, Mesh!None
  <2>5. call'[s] = a /\ serve'[s] = Mesh!Absent
    BY <1>3, <1>u, <2>3
  <2>6. Landed(s) <=> Landed(s)'
    BY <1>3, <2>1, <2>5 DEF Landed, Mesh!Holds, Mesh!History
  <2>7. Grafted(s)'
    BY <1>3, <1>t, <2>2, <2>5, <2>6 DEF Grafted, Mesh!Absent, Mesh!None
  <2> HIDE DEF a
  <2> QED
    BY <1>3, <2>1, <2>3, <2>4, <2>7, GraftMoves
<1>4. CASE Mesh!Complete(s)
  <2>1. serve[s].at = "pushed" /\ serve[s] # Mesh!Absent
    BY <1>4 DEF Mesh!Complete, Mesh!Absent, Mesh!None
  <2>2. Landed(s)
    BY <1>t, <2>1 DEF Grafted
  <2> QED
    BY <1>3, <1>4, <2>1, <2>2 DEF Mesh!Complete
<1>5. CASE Mesh!Fail(s)
  BY <1>3, <1>5 DEF Mesh!Fail, Mesh!Absent, Mesh!None
<1> QED
  BY <1>1, <1>2, <1>4, <1>5

\* A commit more, on a worktree that stood on a commit without the patch.
LEMMA GraftPush ==
  ASSUME GraftInv, NEW s \in Grafting, Mesh!CommitAndPush(s)
  PROVE  /\ GraftInv'
         /\ \A b \in DOMAIN origin : b \in DOMAIN origin' /\ origin[b] \in commits'[origin'[b]].past
<1> DEFINE new == Mesh!Cardinality(Made)
           base == serve[s].base
           made == [patch |-> call[s].patch, governed |-> serve[s].passed,
                    past |-> commits[base].past \cup {new}]
<1>t. call[s] \in Askings /\ serve[s] \in Servings /\ Grafted(s)
  BY DEF GraftInv, GraftTypes
<1>1. /\ serve[s].at = "governed" /\ Mesh!Fits(call[s].branch, base)
      /\ commits' = [c \in Made \cup {new} |-> IF c = new THEN made ELSE commits[c]]
      /\ origin' = [b \in DOMAIN origin \cup {call[s].branch} |->
                       IF b = call[s].branch THEN new ELSE origin[b]]
      /\ serve' = [serve EXCEPT ![s] = [Mesh!Absent EXCEPT !.at = "pushed"]]
      /\ UNCHANGED <<top, call, head, keys, used>>
  BY DEF Mesh!CommitAndPush, Mesh!History, Made
<1>2. /\ base \in Made /\ ~Mesh!Holds(base, call[s].patch)
      /\ serve[s].passed
  BY <1>1, <1>t DEF Grafted
<1>3. PICK n \in Nat : Made = 0..n
  BY DEF GraftInv, GraftTypes
<1>4. new = n + 1
  <2>1. Cardinality(0..n) = n - 0 + 1
    BY FS_Interval
  <2> QED
    BY <1>3, <2>1, SameCountOfCommits
<1>5. Made' = 0..(n + 1) /\ new \notin Made /\ Made' = Made \cup {new}
  BY <1>1, <1>3, <1>4 DEF Made
<1>6. commits'[new] = made /\ \A c \in Made : commits'[c] = commits[c]
  BY <1>1, <1>5
<1>7. /\ made.past = commits[base].past \cup {new} /\ made.governed = serve[s].passed
      /\ made.patch = call[s].patch
  OBVIOUS
<1> HIDE DEF new, made
<1>8. Lineage'
  <2>1. ASSUME NEW c \in Made
        PROVE  /\ c \in commits'[c].past /\ commits'[c].past \in SUBSET Made'
               /\ commits'[c].governed
               /\ \A a \in commits'[c].past :
                     /\ commits'[a].past \in SUBSET commits'[c].past
                     /\ a # c => commits'[a].patch # commits'[c].patch
    BY <1>5, <1>6 DEF GraftInv, Lineage
  <2>2. /\ new \in commits'[new].past /\ commits'[new].past \in SUBSET Made'
        /\ commits'[new].governed
    BY <1>2, <1>5, <1>6, <1>7 DEF GraftInv, Lineage
  <2>3. ASSUME NEW a \in commits'[new].past
        PROVE  /\ commits'[a].past \in SUBSET commits'[new].past
               /\ a # new => commits'[a].patch # commits'[new].patch
    <3>1. CASE a = new
      BY <3>1
    <3>2. CASE a # new
      <4>1. a \in commits[base].past /\ a \in Made
        BY <1>2, <1>6, <1>7, <3>2 DEF GraftInv, Lineage
      <4>2. commits[a].past \in SUBSET commits[base].past
        BY <1>2, <4>1 DEF GraftInv, Lineage
      <4>3. commits[a].patch # call[s].patch
        BY <1>2, <4>1 DEF Mesh!Holds, Mesh!History
      <4> QED
        BY <1>6, <1>7, <4>1, <4>2, <4>3
    <3> QED
      BY <3>1, <3>2
  <2>4. Made' = Made \cup {new}
    BY <1>5
  <2> QED
    BY <2>1, <2>2, <2>3, <2>4 DEF Lineage
<1>9. GraftTypes'
  <2>1. serve' \in [Grafting -> Servings]
    BY <1>1 DEF GraftInv, GraftTypes, Servings, Mesh!Absent, Mesh!None
  <2>2. \A b \in DOMAIN origin' : origin'[b] \in Made'
    BY <1>1, <1>5 DEF GraftInv, GraftTypes
  <2>3. Mesh!Trunk \in DOMAIN origin' /\ head' \in Made'
    BY <1>1, <1>5 DEF GraftInv, GraftTypes
  <2>4. \E m \in Nat : Made' = 0..m
    BY <1>5
  <2> QED
    BY <1>1, <2>1, <2>2, <2>3, <2>4 DEF GraftInv, GraftTypes
<1>10. \A b \in DOMAIN origin : /\ b \in DOMAIN origin'
                                /\ commits[origin[b]].past \in SUBSET commits'[origin'[b]].past
                                /\ origin[b] \in commits'[origin'[b]].past
  <2> SUFFICES ASSUME NEW b \in DOMAIN origin
               PROVE  /\ b \in DOMAIN origin'
                      /\ commits[origin[b]].past \in SUBSET commits'[origin'[b]].past
                      /\ origin[b] \in commits'[origin'[b]].past
    OBVIOUS
  <2>1. origin[b] \in Made
    BY DEF GraftInv, GraftTypes
  <2>2. CASE b = call[s].branch
    <3>1. origin[b] \in commits[base].past
      BY <1>1, <2>2 DEF Mesh!Fits, Mesh!History
    <3>2. commits[origin[b]].past \in SUBSET commits[base].past
      BY <1>2, <3>1 DEF GraftInv, Lineage
    <3>3. origin'[b] = new
      BY <1>1, <2>2
    <3> QED
      BY <1>1, <1>6, <1>7, <3>1, <3>2, <3>3
  <2>3. CASE b # call[s].branch
    <3>1. origin'[b] = origin[b]
      BY <1>1, <2>3
    <3>2. origin[b] \in commits[origin[b]].past
      BY <2>1 DEF GraftInv, Lineage
    <3> QED
      BY <1>1, <1>6, <2>1, <3>1, <3>2
  <2> QED
    BY <2>2, <2>3
<1>11. ASSUME NEW u \in Grafting, Landed(u) PROVE Landed(u)'
  <2>1. PICK a \in commits[origin[call[u].branch]].past : commits[a].patch = call[u].patch
    BY <1>11 DEF Landed, Mesh!Holds, Mesh!History
  <2>2. a \in Made
    BY <1>11, <2>1 DEF Landed, GraftInv, GraftTypes, Lineage
  <2>3. a \in commits'[origin'[call[u].branch]].past /\ commits'[a].patch = call'[u].patch
    BY <1>1, <1>6, <1>10, <1>11, <2>1, <2>2 DEF Landed
  <2> QED
    BY <1>1, <1>10, <1>11, <2>3 DEF Landed, Mesh!Holds, Mesh!History
<1>12. ASSUME NEW u \in Grafting PROVE Grafted(u)'
  <2>1. Grafted(u)
    BY DEF GraftInv
  <2>2. CASE u = s
    <3>1. serve'[s].at = "pushed" /\ call' = call /\ serve[s] # Mesh!Absent
      BY <1>1 DEF GraftInv, GraftTypes, Mesh!Absent, Mesh!None
    <3>2. Landed(s)'
      <4>1. call[s].branch \in DOMAIN origin' /\ origin'[call[s].branch] = new
        BY <1>1
      <4> QED
        BY <1>1, <1>6, <1>7, <4>1 DEF Landed, Mesh!Holds, Mesh!History
    <3> QED
      BY <2>1, <2>2, <3>1, <3>2 DEF Grafted
  <2>3. CASE u # s
    <3>1. serve'[u] = serve[u] /\ call' = call
      BY <1>1, <2>3 DEF GraftInv, GraftTypes
    <3>2. ASSUME serve[u].base \in Made, ~Mesh!Holds(serve[u].base, call[u].patch)
          PROVE  ~Mesh!Holds(serve[u].base, call[u].patch)'
      BY <1>6, <3>1, <3>2 DEF Mesh!Holds, Mesh!History, GraftInv, Lineage
    <3>3. Made \in SUBSET Made'
      BY <1>5
    <3> QED
      BY <1>11, <2>1, <3>1, <3>2, <3>3 DEF Grafted
  <2> QED
    BY <2>2, <2>3
<1> QED
  BY <1>8, <1>9, <1>10, <1>12 DEF GraftInv

\* The handlers die, and who waited for one is refused.
LEMMA GraftCrash ==
  ASSUME GraftInv, Mesh!Crash
  PROVE  GraftInv'
<1>1. /\ serve' = [s \in Grafting |-> Mesh!Absent]
      /\ call' = [s \in Grafting |-> IF call[s].at \in {"waiting", "lost"} THEN Mesh!Refused(s)
                                     ELSE call[s]]
      /\ UNCHANGED <<top, commits, origin, head, keys>>
  BY DEF Mesh!Crash
<1>2. Mesh!Absent \in Servings
  BY DEF Servings, Mesh!Absent, Mesh!None
<1>3. \A s \in Grafting : Mesh!Refused(s) \in Askings
  BY RefusedAsking
<1>4. call' \in [Grafting -> Askings] /\ serve' \in [Grafting -> Servings]
  BY <1>1, <1>2, <1>3 DEF GraftInv, GraftTypes
<1>5. ASSUME NEW s \in Grafting PROVE Grafted(s)'
  <2>1. Grafted(s) /\ call[s] \in Askings /\ serve'[s] = Mesh!Absent
    BY <1>1 DEF GraftInv, GraftTypes
  <2>2. CASE call[s].at \in {"waiting", "lost"}
    <3>1. call'[s] = Mesh!Refused(s)
      BY <1>1, <2>2
    <3> QED
      BY <2>1, <3>1 DEF Grafted, Mesh!Refused, Mesh!Idle, Mesh!Absent, Mesh!None
  <2>3. CASE call[s].at \notin {"waiting", "lost"}
    <3>1. call'[s] = call[s]
      BY <1>1, <2>3
    <3>2. Landed(s) => Landed(s)'
      BY <1>1, <3>1 DEF Landed, Mesh!Holds, Mesh!History
    <3> QED
      BY <2>1, <2>3, <3>1, <3>2 DEF Grafted, Mesh!Absent, Mesh!None
  <2> QED
    BY <2>2, <2>3
<1>6. /\ head' \in Made /\ top' \in [Grafting -> Nat] /\ keys' \in [private : Nat, public : Nat]
      /\ commits' = commits /\ origin' = origin
  BY <1>1 DEF GraftInv, GraftTypes
<1> QED
  BY <1>4, <1>5, <1>6, GraftStill

LEMMA GraftKept == GraftInv /\ [Mesh!Next]_Mesh!vars => GraftInv'
<1>1. UNCHANGED Mesh!vars => UNCHANGED mesh
  BY DEF Mesh!vars, mesh
<1> QED
  BY <1>1, GraftAround, GraftCalls, GraftHandler, GraftPush, GraftCrash DEF Mesh!Next

\* Only the push moves a ref.
LEMMA GraftForward ==
  GraftInv /\ [Mesh!Next]_Mesh!vars =>
    (origin' # origin => \A b \in DOMAIN origin :
       b \in DOMAIN origin' /\ origin[b] \in commits'[origin'[b]].past)
<1> SUFFICES ASSUME GraftInv, Mesh!Next, origin' # origin
             PROVE  \A b \in DOMAIN origin :
                      b \in DOMAIN origin' /\ origin[b] \in commits'[origin'[b]].past
  BY DEF Mesh!vars
<1>1. \E s \in Grafting : Mesh!CommitAndPush(s)
  BY DEF Mesh!Next, Mesh!KeygenPrivate, Mesh!KeygenPublic, Mesh!Update, Mesh!Crash, Mesh!Work,
         Mesh!ReadPatch, Mesh!Connect, Mesh!Prepare, Mesh!Govern, Mesh!Complete, Mesh!Fail,
         Mesh!Disconnect, Mesh!GiveUp, Mesh!ReadHash
<1> QED
  BY <1>1, GraftPush

LEMMA GraftInvImplies == GraftInv => Mesh!PushedIsGoverned /\ Mesh!CompleteIsPushed
<1>1. GraftInv => Mesh!PushedIsGoverned
  BY DEF GraftInv, GraftTypes, Lineage, Mesh!PushedIsGoverned, Mesh!History
<1>2. GraftInv => Mesh!CompleteIsPushed
  BY DEF GraftInv, Grafted, Landed, Mesh!CompleteIsPushed
<1> QED
  BY <1>1, <1>2

\* Of any number of Stems, commits, grafts and keys: what stands on a branch of the
\* remote was governed and repeats no patch, who is told that its graft is complete
\* finds the patch there, and no graft takes away what others have pushed.
THEOREM GraftsAreGovernedAlone ==
  Mesh!Spec => [](Mesh!PushedIsGoverned /\ Mesh!CompleteIsPushed) /\ Mesh!BranchesMoveForward
<1>1. Mesh!Spec => []GraftInv
  BY GraftInit, GraftKept, PTL DEF Mesh!Spec
<1> QED
  BY <1>1, GraftForward, GraftInvImplies, PTL DEF Mesh!Spec, Mesh!BranchesMoveForward

\* The same, of the composition: the property of the run.
THEOREM GraftsAreGovernedHolds == MCSpec => GraftsAreGoverned
<1>1. MCInit => GraftInv
  BY GraftInit DEF MCInit
<1>2. [MCNext]_<<focus, views, service, vars, mesh>> => [Mesh!Next]_Mesh!vars
  BY DEF MCNext, mesh, Mesh!vars
<1>3. GraftInv => (focus = "mesh" => Mesh!PushedIsGoverned /\ Mesh!CompleteIsPushed)
  BY GraftInvImplies
<1> QED
  BY <1>1, <1>2, <1>3, GraftKept, GraftForward, PTL
     DEF MCSpec, GraftsAreGoverned, Mesh!BranchesMoveForward

-----------------------------------------------------------------------------
(***************************************************************************)
(* Stems that serve.  Whoever listens at the socket, or is about to remove *)
(* what is there, holds the lease, and one Stem does (Leased); a Stem that *)
(* is shutting down has closed and waited for the servers its place names  *)
(* (Drained).                                                              *)
(***************************************************************************)
Servers == {"api", "remote", "local"}
Places == {"off", "key", "generated", "socket", "stale", "listen", "identify", "bind", "serving",
           "api", "remote", "local", "unlink", "release", "bus", "history", "done"}
Processes == [pc : Places, port : Ports \cup {NoKey}, key : Serving \cup {NoKey, EnvKey},
              lock : BOOLEAN, lis : Inodes \cup {0}, id : Inodes \cup {0},
              open : SUBSET Servers, busy : SUBSET Servers, queued : BOOLEAN]

ServiceTypes == /\ stem \in [Serving -> Processes]
                /\ path \in Inodes \cup {0}
                /\ keyFile \in Serving \cup {NoKey}

Leased(r) ==
  /\ r.lis # 0 \/ r.id # 0 \/ r.pc \in {"stale", "listen", "identify", "unlink"} => r.lock
  /\ r.pc \in {"off", "key", "generated", "socket", "stale", "listen", "identify"} => r.id = 0
  /\ r.pc \in Places \ {"identify", "bind", "serving", "api", "remote", "local"} => r.lis = 0

Drained(r) ==
  /\ r.pc = "api" => "api" \notin r.open
  /\ r.pc = "remote" => "api" \notin r.open \cup r.busy /\ "remote" \notin r.open
  /\ r.pc = "local" => r.open = {} /\ r.busy \in SUBSET {"local"}
  /\ r.pc \in {"unlink", "release", "bus", "history", "done"} => r.open = {} /\ r.busy = {}
  /\ r.pc \in {"history", "done"} => ~r.queued

OneLease == \A d, e \in Serving : stem[d].lock /\ stem[e].lock => d = e

ServiceInv == /\ ServiceTypes /\ OneLease
              /\ \A d \in Serving : Leased(stem[d]) /\ Drained(stem[d])

LEMMA OffProcess == Service!Off \in Processes /\ Leased(Service!Off) /\ Drained(Service!Off)
                    /\ ~Service!Off.lock
BY DEF Service!Off, Processes, Places, Leased, Drained

LEMMA ServiceInit == Service!Init => ServiceInv
BY OffProcess DEF Service!Init, ServiceInv, ServiceTypes, OneLease

\* A step of one Stem that takes the lease only when it is free.
LEMMA ServiceBecomes ==
  ASSUME ServiceInv, NEW d \in Serving, NEW r \in Processes, Service!Become(d, r),
         Leased(r), Drained(r), r.lock => stem[d].lock \/ Service!LeaseIsFree,
         path' \in Inodes \cup {0}, keyFile' \in Serving \cup {NoKey}
  PROVE  ServiceInv'
<1>1. stem' = [stem EXCEPT ![d] = r] /\ stem \in [Serving -> Processes]
  BY DEF Service!Become, ServiceInv, ServiceTypes
<1>2. stem' \in [Serving -> Processes] /\ \A e \in Serving : stem'[e] = IF e = d THEN r ELSE stem[e]
  BY <1>1
<1>3. OneLease'
  BY <1>2 DEF OneLease, ServiceInv, Service!LeaseIsFree
<1>4. \A e \in Serving : Leased(stem[e])' /\ Drained(stem[e])'
  BY <1>2 DEF ServiceInv, Leased, Drained
<1> QED
  BY <1>2, <1>3, <1>4 DEF ServiceInv, ServiceTypes

LEMMA ServiceStarts ==
  ASSUME ServiceInv, NEW d \in Serving,
         \/ Service!Start(d) \/ Service!ReadKey(d) \/ Service!WriteKey(d)
         \/ Service!OpenLocalSocket(d) \/ Service!RemoveStale(d) \/ Service!Listen(d)
         \/ Service!Identify(d)
  PROVE  ServiceInv'
<1> DEFINE r == stem[d]
<1>t. /\ r \in Processes /\ Leased(r) /\ Drained(r)
      /\ path \in Inodes \cup {0} /\ keyFile \in Serving \cup {NoKey}
  BY DEF ServiceInv, ServiceTypes
<1>1. CASE Service!Start(d)
  <2> DEFINE to == [Service!Off EXCEPT !.pc = "key"]
  <2>1. to \in Processes /\ Leased(to) /\ Drained(to) /\ ~to.lock
    BY DEF Service!Off, Processes, Places, Leased, Drained
  <2> HIDE DEF to
  <2> QED
    BY <1>1, <1>t, <2>1, ServiceBecomes DEF Service!Start, to
<1>2. ASSUME NEW k \in Serving \cup {NoKey, EnvKey}, NEW pc \in {"socket", "generated"},
             r.pc \in {"key", "generated"}, Service!Become(d, [r EXCEPT !.pc = pc, !.key = k]),
             path' = path, keyFile' \in Serving \cup {NoKey}
      PROVE  ServiceInv'
  <2> DEFINE to == [r EXCEPT !.pc = pc, !.key = k]
  <2>1. to \in Processes
    BY <1>2, <1>t DEF Processes, Places
  <2>2. Leased(to) /\ Drained(to) /\ to.lock = r.lock
    BY <1>2, <1>t DEF Processes, Leased, Drained, Places
  <2> QED
    BY <1>2, <1>t, <2>1, <2>2, ServiceBecomes
<1>3. CASE Service!ReadKey(d)
  <2>1. [r EXCEPT !.pc = "generated"] = [r EXCEPT !.pc = "generated", !.key = r.key]
        /\ r.key \in Serving \cup {NoKey, EnvKey}
    BY <1>t DEF Processes
  <2> QED
    BY <1>2, <1>3, <1>t, <2>1 DEF Service!ReadKey, Service!At, Service!Goto
<1>4. CASE Service!WriteKey(d)
  BY <1>2, <1>4, <1>t DEF Service!WriteKey, Service!At
<1>5. CASE Service!OpenLocalSocket(d)
  <2>1. ASSUME NEW pc \in {"listen", "stale"}, Service!LeaseIsFree, r.pc = "socket",
               Service!Become(d, [r EXCEPT !.pc = pc, !.lock = TRUE]), UNCHANGED <<path, keyFile>>
        PROVE  ServiceInv'
    <3>1. [r EXCEPT !.pc = pc, !.lock = TRUE] \in Processes
          /\ Leased([r EXCEPT !.pc = pc, !.lock = TRUE])
          /\ Drained([r EXCEPT !.pc = pc, !.lock = TRUE])
      BY <2>1, <1>t DEF Processes, Places, Leased, Drained
    <3> QED
      BY <2>1, <1>t, <3>1, ServiceBecomes
  <2>2. CASE Service!Goto(d, "bind") /\ r.pc = "socket"
    <3>1. [r EXCEPT !.pc = "bind"] \in Processes /\ Leased([r EXCEPT !.pc = "bind"])
          /\ Drained([r EXCEPT !.pc = "bind"]) /\ [r EXCEPT !.pc = "bind"].lock = r.lock
      BY <2>2, <1>t DEF Processes, Places, Leased, Drained
    <3> QED
      BY <1>5, <2>2, <1>t, <3>1, ServiceBecomes DEF Service!Goto, Service!OpenLocalSocket
  <2> QED
    BY <1>5, <2>1, <2>2 DEF Service!OpenLocalSocket, Service!At
<1>6. CASE Service!RemoveStale(d)
  <2> DEFINE to == [r EXCEPT !.pc = "listen"]
  <2>1. to \in Processes /\ Leased(to) /\ Drained(to) /\ to.lock = r.lock
    BY <1>6, <1>t DEF Service!RemoveStale, Service!At, Processes, Places, Leased, Drained
  <2>2. path' \in Inodes \cup {0} /\ keyFile' = keyFile /\ Service!Become(d, to)
    BY <1>6, <1>t DEF Service!RemoveStale, Service!Goto
  <2> HIDE DEF to
  <2> QED
    BY <1>t, <2>1, <2>2, ServiceBecomes
<1>7. CASE Service!Listen(d)
  <2>1. CASE path # 0
    <3> DEFINE to == [r EXCEPT !.pc = "bind", !.lock = FALSE]
    <3>1. Service!Become(d, to) /\ path' = path /\ keyFile' = keyFile /\ r.pc = "listen"
      BY <1>7, <2>1 DEF Service!Listen, Service!At
    <3>2. to \in Processes /\ Leased(to) /\ Drained(to) /\ ~to.lock
      BY <3>1, <1>t DEF Processes, Places, Leased, Drained
    <3> HIDE DEF to
    <3> QED
      BY <1>t, <3>1, <3>2, ServiceBecomes
  <2>2. CASE path = 0
    <3>1. PICK i \in Inodes : path' = i /\ Service!Become(d, [r EXCEPT !.pc = "identify", !.lis = i])
      BY <1>7, <2>2 DEF Service!Listen
    <3> DEFINE to == [r EXCEPT !.pc = "identify", !.lis = i]
    <3>2. Service!Become(d, to) /\ keyFile' = keyFile /\ r.pc = "listen"
      BY <1>7, <3>1 DEF Service!Listen, Service!At
    <3>3. to \in Processes /\ Leased(to) /\ Drained(to) /\ to.lock = r.lock
      BY <3>2, <1>t DEF Processes, Places, Leased, Drained
    <3> HIDE DEF to
    <3> QED
      BY <1>t, <3>1, <3>2, <3>3, ServiceBecomes
  <2> QED
    BY <2>1, <2>2
<1>8. CASE Service!Identify(d)
  <2>k. r.pc = "identify" /\ keyFile' = keyFile /\ path' \in Inodes \cup {0}
    BY <1>8, <1>t DEF Service!Identify, Service!At, Service!Unopened
  <2>1. CASE Service!Become(d, [r EXCEPT !.pc = "bind", !.lock = FALSE, !.lis = 0])
    <3> DEFINE to == [r EXCEPT !.pc = "bind", !.lock = FALSE, !.lis = 0]
    <3>1. Service!Become(d, to)
      BY <2>1
    <3>2. to \in Processes /\ Leased(to) /\ Drained(to) /\ ~to.lock
      BY <2>k, <1>t DEF Processes, Places, Leased, Drained
    <3> HIDE DEF to
    <3> QED
      BY <1>t, <2>k, <3>1, <3>2, ServiceBecomes
  <2>2. CASE path # 0 /\ Service!Become(d, [r EXCEPT !.pc = "bind", !.id = path, !.open = {"local"}])
    <3> DEFINE to == [r EXCEPT !.pc = "bind", !.id = path, !.open = {"local"}]
    <3>1. Service!Become(d, to)
      BY <2>2
    <3>2. to \in Processes
      BY <2>k, <1>t DEF Processes, Places, Servers
    <3>3. Leased(to) /\ Drained(to) /\ to.lock = r.lock
      BY <2>k, <1>t DEF Processes, Places, Leased, Drained
    <3> HIDE DEF to
    <3> QED
      BY <1>t, <2>k, <3>1, <3>2, <3>3, ServiceBecomes
  <2> QED
    BY <1>8, <2>1, <2>2 DEF Service!Identify, Service!Unopened
<1> QED
  BY <1>1, <1>3, <1>4, <1>5, <1>6, <1>7, <1>8

\* However a process ends, it leaves nothing behind but the socket.
LEMMA ServiceEnds ==
  ASSUME ServiceInv, NEW d \in Serving, Service!Ended(d)
  PROVE  ServiceInv'
BY OffProcess, ServiceBecomes DEF Service!Ended, ServiceInv, ServiceTypes

\* What is under way, of a Stem that serves or shuts down.
LEMMA ServiceServes ==
  ASSUME ServiceInv, NEW d \in Serving,
         \/ Service!BindApi(d)
         \/ \E t \in Service!Transports : Service!Accept(d, t) \/ Service!Answer(d, t)
         \/ Service!Pump(d)
  PROVE  ServiceInv'
<1> DEFINE r == stem[d]
<1>t. /\ r \in Processes /\ Leased(r) /\ Drained(r)
      /\ path \in Inodes \cup {0} /\ keyFile \in Serving \cup {NoKey}
  BY DEF ServiceInv, ServiceTypes
<1>1. CASE Service!BindApi(d)
  <2>1. CASE Service!Ended(d)
    BY <2>1, ServiceEnds
  <2>2. CASE ~Service!Ended(d)
    <3>1. PICK p \in Ports : Service!Become(d, [r EXCEPT !.pc = "serving", !.port = p,
                                                    !.open = @ \cup {"api", "remote"}])
      BY <1>1, <2>2 DEF Service!BindApi
    <3> DEFINE to == [r EXCEPT !.pc = "serving", !.port = p, !.open = @ \cup {"api", "remote"}]
    <3>2. Service!Become(d, to) /\ path' = path /\ keyFile' = keyFile /\ r.pc = "bind"
      BY <1>1, <2>2, <3>1 DEF Service!BindApi, Service!At
    <3>3. to \in Processes
      BY <3>2, <1>t DEF Processes, Places, Servers
    <3>4. Leased(to) /\ Drained(to) /\ to.lock = r.lock
      BY <3>2, <1>t DEF Processes, Places, Leased, Drained
    <3> HIDE DEF to
    <3> QED
      BY <1>t, <3>2, <3>3, <3>4, ServiceBecomes
  <2> QED
    BY <2>1, <2>2
<1>2. ASSUME NEW t \in Service!Transports, Service!Accept(d, t)
      PROVE  ServiceInv'
  <2> DEFINE to == [r EXCEPT !.busy = @ \cup {t}]
  <2>1. Service!Become(d, to) /\ path' = path /\ keyFile' = keyFile /\ t \in r.open
    BY <1>2 DEF Service!Accept
  <2>2. to \in Processes /\ Leased(to) /\ to.lock = r.lock
    BY <2>1, <1>t DEF Processes, Leased
  <2>3. Drained(to)
    BY <2>1, <1>t DEF Processes, Servers, Drained
  <2> HIDE DEF to
  <2> QED
    BY <1>t, <2>1, <2>2, <2>3, ServiceBecomes
<1>3. ASSUME NEW t \in Service!Transports, Service!Answer(d, t)
      PROVE  ServiceInv'
  <2> DEFINE to == [r EXCEPT !.busy = @ \ {t}, !.queued = @ \/ Service!BusIsOpen(d)]
  <2>1. Service!Become(d, to) /\ path' = path /\ keyFile' = keyFile /\ t \in r.busy
    BY <1>3 DEF Service!Answer
  <2>2. (r.queued \/ Service!BusIsOpen(d)) \in BOOLEAN
    BY <1>t DEF Processes, Service!BusIsOpen
  <2>3. to \in Processes /\ Leased(to) /\ to.lock = r.lock
    BY <2>1, <2>2, <1>t DEF Processes, Leased
  <2>4. Drained(to)
    BY <2>1, <1>t DEF Processes, Servers, Drained
  <2> HIDE DEF to
  <2> QED
    BY <1>t, <2>1, <2>3, <2>4, ServiceBecomes
<1>4. CASE Service!Pump(d)
  <2> DEFINE to == [r EXCEPT !.queued = FALSE]
  <2>1. Service!Become(d, to) /\ path' = path /\ keyFile' = keyFile
    BY <1>4 DEF Service!Pump
  <2>2. to \in Processes /\ Leased(to) /\ Drained(to) /\ to.lock = r.lock
    BY <1>t DEF Processes, Leased, Drained
  <2> HIDE DEF to
  <2> QED
    BY <1>t, <2>1, <2>2, ServiceBecomes
<1> QED
  BY <1>1, <1>2, <1>3, <1>4

LEMMA ServiceShutsDown ==
  ASSUME ServiceInv, NEW d \in Serving,
         \/ Service!Signal(d) \/ Service!ShutdownServer(d, "api", "remote")
         \/ Service!ShutdownServer(d, "remote", "local") \/ Service!CloseLocal(d)
         \/ Service!Unlink(d) \/ Service!ReleaseLease(d) \/ Service!ShutdownBus(d)
         \/ Service!CloseHistory(d) \/ Service!MainReturns(d) \/ Service!Kill(d)
  PROVE  ServiceInv'
<1> DEFINE r == stem[d]
<1>t. /\ r \in Processes /\ Leased(r) /\ Drained(r)
      /\ path \in Inodes \cup {0} /\ keyFile \in Serving \cup {NoKey}
  BY DEF ServiceInv, ServiceTypes
<1>1. CASE Service!Signal(d)
  <2> DEFINE to == [r EXCEPT !.pc = "api", !.port = NoKey, !.open = @ \ {"api"}]
  <2>1. Service!Become(d, to) /\ path' = path /\ keyFile' = keyFile /\ r.pc = "serving"
    BY <1>1 DEF Service!Signal, Service!At
  <2>2. to \in Processes
    BY <2>1, <1>t DEF Processes, Places
  <2>3. Leased(to) /\ Drained(to) /\ to.lock = r.lock
    BY <2>1, <1>t DEF Processes, Places, Leased, Drained
  <2> HIDE DEF to
  <2> QED
    BY <1>t, <2>1, <2>2, <2>3, ServiceBecomes
<1>2. ASSUME NEW t \in {"api", "remote"}, NEW next \in {"remote", "local"},
             t = "api" <=> next = "remote", Service!ShutdownServer(d, t, next)
      PROVE  ServiceInv'
  <2> DEFINE to == [r EXCEPT !.pc = next, !.open = @ \ {next}]
  <2>1. /\ Service!Become(d, to) /\ path' = path /\ keyFile' = keyFile
        /\ r.pc = t /\ t \notin r.busy
    BY <1>2 DEF Service!ShutdownServer, Service!At
  <2>2. to \in Processes
    BY <2>1, <1>t DEF Processes, Places
  <2>3. Leased(to) /\ to.lock = r.lock
    BY <2>1, <1>t DEF Processes, Places, Leased
  <2>4. Drained(to)
    BY <1>2, <2>1, <1>t DEF Processes, Servers, Drained
  <2> HIDE DEF to
  <2> QED
    BY <1>t, <2>1, <2>2, <2>3, <2>4, ServiceBecomes
<1>3. CASE Service!CloseLocal(d)
  <2>1. PICK pc \in {"unlink", "release"} :
          Service!Become(d, [r EXCEPT !.lis = 0, !.pc = pc]) /\ (pc = "unlink" => r.id # 0)
    BY <1>3 DEF Service!CloseLocal
  <2> DEFINE to == [r EXCEPT !.lis = 0, !.pc = pc]
  <2>2. /\ Service!Become(d, to) /\ path' = path /\ keyFile' = keyFile /\ r.pc = "local"
        /\ "local" \notin r.busy
    BY <1>3, <2>1 DEF Service!CloseLocal, Service!At
  <2>3. to \in Processes
    BY <2>2, <1>t DEF Processes, Places
  <2>4. /\ to.lock = r.lock /\ to.pc = pc /\ to.lis = 0
        /\ to.open = r.open /\ to.busy = r.busy /\ to.id = r.id
    BY <1>t DEF Processes
  <2>5. r.open = {} /\ r.busy = {}
    BY <2>2, <1>t DEF Drained
  <2>7. Drained(to)
    BY <2>4, <2>5 DEF Drained
  <2>6. Leased(to)
    BY <2>1, <2>2, <2>4, <1>t DEF Leased
  <2> HIDE DEF to
  <2> QED
    BY <1>t, <2>2, <2>3, <2>4, <2>6, <2>7, ServiceBecomes
<1>4. CASE Service!Unlink(d)
  <2> DEFINE to == [r EXCEPT !.pc = "release"]
  <2>1. /\ Service!Become(d, to) /\ path' \in Inodes \cup {0} /\ keyFile' = keyFile
        /\ r.pc = "unlink"
    BY <1>4, <1>t DEF Service!Unlink, Service!Goto, Service!At
  <2>2. to \in Processes /\ Leased(to) /\ Drained(to) /\ to.lock = r.lock
    BY <2>1, <1>t DEF Processes, Places, Leased, Drained
  <2> HIDE DEF to
  <2> QED
    BY <1>t, <2>1, <2>2, ServiceBecomes
<1>5. CASE Service!ReleaseLease(d)
  <2> DEFINE to == [r EXCEPT !.pc = "bus", !.lock = FALSE, !.id = 0]
  <2>1. /\ Service!Become(d, to) /\ path' = path /\ keyFile' = keyFile /\ r.pc = "release"
    BY <1>5 DEF Service!ReleaseLease, Service!At
  <2>2. to \in Processes /\ Leased(to) /\ Drained(to) /\ ~to.lock
    BY <2>1, <1>t DEF Processes, Places, Leased, Drained
  <2> HIDE DEF to
  <2> QED
    BY <1>t, <2>1, <2>2, ServiceBecomes
<1>6. CASE Service!ShutdownBus(d)
  <2> DEFINE to == [r EXCEPT !.pc = "history"]
  <2>1. /\ Service!Become(d, to) /\ path' = path /\ keyFile' = keyFile
        /\ r.pc = "bus" /\ ~r.queued
    BY <1>6 DEF Service!ShutdownBus, Service!Goto, Service!At
  <2>2. to \in Processes /\ Leased(to) /\ Drained(to) /\ to.lock = r.lock
    BY <2>1, <1>t DEF Processes, Places, Leased, Drained
  <2> HIDE DEF to
  <2> QED
    BY <1>t, <2>1, <2>2, ServiceBecomes
<1>7. CASE Service!CloseHistory(d)
  <2> DEFINE to == [r EXCEPT !.pc = "done"]
  <2>1. /\ Service!Become(d, to) /\ path' = path /\ keyFile' = keyFile /\ r.pc = "history"
    BY <1>7 DEF Service!CloseHistory, Service!Goto, Service!At
  <2>2. to \in Processes /\ Leased(to) /\ Drained(to) /\ to.lock = r.lock
    BY <2>1, <1>t DEF Processes, Places, Leased, Drained
  <2> HIDE DEF to
  <2> QED
    BY <1>t, <2>1, <2>2, ServiceBecomes
<1>8. CASE Service!MainReturns(d) \/ Service!Kill(d)
  BY <1>8, ServiceEnds DEF Service!MainReturns, Service!Kill
<1> QED
  BY <1>1, <1>2, <1>3, <1>4, <1>5, <1>6, <1>7, <1>8

\* Whoever tampers with the path changes no Stem.
LEMMA ServiceTampered ==
  ASSUME ServiceInv, Service!Tamper \/ UNCHANGED service
  PROVE  ServiceInv'
<1>1. stem' = stem /\ path' \in Inodes \cup {0} /\ keyFile' \in Serving \cup {NoKey}
  BY DEF Service!Tamper, service, ServiceInv, ServiceTypes
<1>2. OneLease' /\ \A d \in Serving : Leased(stem[d])' /\ Drained(stem[d])'
  BY <1>1 DEF ServiceInv, OneLease, Leased, Drained
<1> QED
  BY <1>1, <1>2 DEF ServiceInv, ServiceTypes

LEMMA ServiceKept == ServiceInv /\ [Service!Next]_Service!vars => ServiceInv'
<1>1. UNCHANGED Service!vars => UNCHANGED service
  BY DEF Service!vars, service
<1> QED
  BY <1>1, ServiceStarts, ServiceServes, ServiceShutsDown, ServiceTampered
     DEF Service!Next, Service!Step

\* Who removes the file at the path holds the lease, and so does who listens.
LEMMA PathIsTakenByItsHolder ==
  ASSUME ServiceInv, [Service!Next]_Service!vars, path' # path,
         NEW d \in Serving, NEW e \in Serving, d # e, stem[e] # stem'[e],
         stem[d].lis # 0, path = stem[d].lis
  PROVE  FALSE
<1>1. stem \in [Serving -> Processes]
  BY DEF ServiceInv, ServiceTypes
<1>2. path # 0 /\ Service!Next
  BY DEF Service!vars
<1>3. PICK x \in Serving : Service!Step(x)
  BY <1>2 DEF Service!Next, Service!Tamper
<1>4. Service!RemoveStale(x) \/ Service!Unlink(x) \/ Service!Identify(x)
  BY <1>2, <1>3 DEF Service!Step, Service!Start, Service!ReadKey, Service!WriteKey,
     Service!OpenLocalSocket, Service!Listen, Service!BindApi, Service!Accept,
     Service!Answer, Service!Pump, Service!Signal, Service!ShutdownServer, Service!CloseLocal,
     Service!ReleaseLease, Service!ShutdownBus, Service!CloseHistory, Service!MainReturns,
     Service!Kill, Service!Ended
<1>5. x = e
  BY <1>1, <1>4 DEF Service!RemoveStale, Service!Unlink, Service!Identify, Service!Unopened,
     Service!Goto, Service!Become
<1>6. stem[e].pc \in {"stale", "unlink", "identify"}
  BY <1>4, <1>5 DEF Service!RemoveStale, Service!Unlink, Service!Identify, Service!At
<1>7. stem[e].lock /\ stem[d].lock
  BY <1>6 DEF ServiceInv, Leased
<1> QED
  BY <1>7 DEF ServiceInv, OneLease

LEMMA ServiceInvImplies == ServiceInv => Service!ClosedInOrder
BY DEF ServiceInv, Drained, Service!ClosedInOrder

\* Of any number of Stems, ports and sockets, and outsiders at the path: a Stem that
\* starts, dies or stops takes nobody's socket, and shuts its bus and its database
\* after the last request and the last event.
THEOREM ServiceIsOrderlyAlone ==
  Service!Spec => []Service!ClosedInOrder /\ Service!SocketIsNotStolen
<1>1. Service!Spec => []ServiceInv
  BY ServiceInit, ServiceKept, PTL DEF Service!Spec
<1>2. ServiceInv /\ [Service!Next]_Service!vars =>
        (path' # path => \A d, e \in Serving :
           (d # e /\ stem[e] # stem'[e] /\ stem[d].lis # 0 /\ path = stem[d].lis) => path' = path)
  BY PathIsTakenByItsHolder
<1> QED
  BY <1>1, <1>2, ServiceInvImplies, PTL DEF Service!Spec, Service!SocketIsNotStolen

\* The same, of the composition: the property of the run.
THEOREM ServiceIsOrderlyHolds == MCSpec => ServiceIsOrderly
<1>1. MCInit => ServiceInv
  BY ServiceInit DEF MCInit
<1>2. [MCNext]_<<focus, views, service, vars, mesh>> => [Service!Next]_Service!vars
  BY DEF MCNext, service, Service!vars
<1>3. ServiceInv => (focus = "service" => Service!ClosedInOrder)
  BY ServiceInvImplies
<1>4. ServiceInv /\ [Service!Next]_Service!vars =>
        (path' # path => \A d, e \in Serving :
           (d # e /\ stem[e] # stem'[e] /\ stem[d].lis # 0 /\ path = stem[d].lis) => path' = path)
  BY PathIsTakenByItsHolder
<1> QED
  BY <1>1, <1>2, <1>3, <1>4, ServiceKept, PTL
     DEF MCSpec, ServiceIsOrderly, Service!SocketIsNotStolen
=============================================================================
