--------------------------- MODULE EventBusProofs ---------------------------
(***************************************************************************)
(* What becomes of an event, for every value of the constants of MCEvents: *)
(* the bus accounts for each (EventBus), an open connection to the live    *)
(* feed has no gap (Gateway), the Resin log keeps what it took, a collector *)
(* has what it answered for, and each change of health is announced         *)
(* (Telemetry).                                                             *)
(***************************************************************************)
EXTENDS MCEvents, FiniteSetTheorems, SequenceTheorems, TLAPS

-----------------------------------------------------------------------------
(***************************************************************************)
(* The bus, for any publishers, handlers, sinks, capacity and number of    *)
(* events.  The invariant says where the shutdown stands                   *)
(* (Closing), that a publisher's event is its latest and its own (AtWork), *)
(* that an event is in one place for a sink (Placed), in which order the   *)
(* sink has it (SinksKeepOrder), and how far a publisher has come through  *)
(* its copy of the subscriptions (Called).                                 *)
(***************************************************************************)
Publication == [at : {"idle", "handlers", "locking", "sinks"},
                event : Event \cup {None},
                calls : Seq(Handler), next : Nat, todo : SUBSET Sink]

Pump == [on : {"detached", "open", "closed", "done"},
         buffer : Seq(Event), hand : Event \cup {None},
         consumed : Seq(Event), dropped : SUBSET Event, since : Nat]

\* The shutdown has come as far as the bus and the channels say; a pump that
\* ended has nothing left.
Closing ==
    /\ closed <=> stop \in {"draining", "stopped"}
    /\ exited /\ OneShot => stop = "stopped"
    /\ \A s \in Sink :
          /\ sink[s].on \in {"closed", "done"} => closed
          /\ sink[s].on \in {"detached", "done"} =>
                sink[s].buffer = <<>> /\ sink[s].hand = None
          /\ stop = "stopped" => sink[s].on \in {"detached", "done"}

\* A publisher at work has the latest event that it published; while it offers,
\* the bus and its sinks stay open.
AtWork ==
    \A p \in Publisher :
        /\ pub[p].at = "idle" => pub[p].event = None
        /\ pub[p].at # "idle" =>
              /\ pub[p].event \in 1 .. Len(published) /\ published[pub[p].event] = p
              /\ \A e \in 1 .. Len(published) : published[e] = p => e <= pub[p].event
        /\ pub[p].at # "sinks" => pub[p].todo = {}
        /\ pub[p].at = "sinks" =>
              ~closed /\ \A s \in pub[p].todo : sink[s].on = "open"

\* The publisher has not offered its event to the sink yet.
Owes(p, s) == pub[p].at \in {"handlers", "locking"} \/ s \in pub[p].todo

Has(s) == ToSet(Received(s))

\* What a sink has, what was dropped for it and what found the bus closed do
\* not meet.
InOnePlace(s) ==
    /\ Has(s) \subseteq 1 .. Len(published)
    /\ sink[s].dropped \subseteq 1 .. Len(published)
    /\ Has(s) \cap sink[s].dropped = {}
    /\ (Has(s) \cup sink[s].dropped) \cap missed = {}

NotYet(p, s) == Owes(p, s) => pub[p].event \notin Has(s) \cup sink[s].dropped

\* No event published since the sink was attached is lost.
Somewhere(s) ==
    sink[s].on # "detached" =>
        \A e \in sink[s].since + 1 .. Len(published) :
            \/ e \in Has(s) \cup sink[s].dropped \cup missed
            \/ \E p \in Publisher : pub[p].event = e /\ Owes(p, s)

Placed ==
    /\ missed \subseteq 1 .. Len(published)
    /\ \A p \in Publisher : pub[p].event \notin missed
    /\ \A s \in Sink : InOnePlace(s) /\ Somewhere(s)
    /\ \A p \in Publisher, s \in Sink : NotYet(p, s)

Distinct(q) == \A i, j \in 1 .. Len(q) : q[i] = q[j] => i = j

Saw(f, h, e) == \E k \in 1 .. Len(f[h]) : f[h][k] = e

\* A publisher has called the handlers before next in its copy and no other.
Copy(p) ==
    pub[p].at = "handlers" =>
        /\ Distinct(pub[p].calls)
        /\ \A h \in Handler : h \in owed[pub[p].event] <=>
              \E i \in 1 .. Len(pub[p].calls) : pub[p].calls[i] = h
        /\ pub[p].next \in 1 .. Len(pub[p].calls) + 1
        /\ \A i \in 1 .. Len(pub[p].calls) :
              Saw(seen, pub[p].calls[i], pub[p].event) <=> i < pub[p].next

\* A handler has seen what it is owed, or is being called.
Seen(h) ==
    /\ Distinct(seen[h])
    /\ \A k \in 1 .. Len(seen[h]) :
          seen[h][k] \in 1 .. Len(published) /\ h \in owed[seen[h][k]]
    /\ \A e \in 1 .. Len(published) : h \in owed[e] =>
          \/ Saw(seen, h, e)
          \/ \E p \in Publisher : pub[p].event = e /\ pub[p].at = "handlers"

Called ==
    /\ Distinct(handlers)
    /\ \A p \in Publisher : Copy(p)
    /\ \A h \in Handler : Seen(h)

IInv == TypeOK /\ Closing /\ AtWork /\ Placed /\ SinksKeepOrder /\ Called

-----------------------------------------------------------------------------
(* What a sink has received.                                               *)

LEMMA ReceivedType ==
    ASSUME TypeOK, NEW s \in Sink
    PROVE  /\ sink[s] \in Pump /\ Received(s) \in Seq(Event)
           /\ Len(Received(s)) \in Nat
           /\ Has(s) = {Received(s)[i] : i \in 1 .. Len(Received(s))}
<1>1. sink[s] \in Pump
  BY DEF TypeOK, Pump
<1>2. /\ sink[s].consumed \in Seq(Event) /\ sink[s].buffer \in Seq(Event)
      /\ (IF sink[s].hand = None THEN <<>> ELSE <<sink[s].hand>>) \in Seq(Event)
  BY <1>1 DEF Pump
<1>3. Received(s) \in Seq(Event)
  BY <1>2, ConcatProperties DEF Received
<1> QED
  BY <1>1, <1>3, LenProperties DEF Has, ToSet

\* The pump moves events along without changing what has been received.
LEMMA TakeReceives ==
    ASSUME TypeOK, NEW s \in Sink, Take(s)
    PROVE  Received(s)' = Received(s)
<1> DEFINE c == sink[s].consumed
           b == sink[s].buffer
<1>1. /\ sink[s] \in Pump /\ sink[s].hand = None /\ b # <<>>
      /\ sink'[s].consumed = c /\ sink'[s].hand = Head(b) /\ sink'[s].buffer = Tail(b)
  BY ReceivedType DEF Take, TypeOK
<1>2. c \in Seq(Event) /\ b \in Seq(Event)
  BY <1>1 DEF Pump
<1>3. Head(b) \in Event /\ Tail(b) \in Seq(Event) /\ Head(b) # None
  <2>1. Head(b) \in Event /\ Tail(b) \in Seq(Event)
    BY <1>1, <1>2, HeadTailProperties
  <2>2. None \notin Event
    BY MaxEventsAssumption DEF Event, None
  <2> QED
    BY <2>1, <2>2
<1>4. Received(s) = (c \o <<>>) \o b
  BY <1>1 DEF Received
<1>5. Received(s)' = (c \o <<Head(b)>>) \o Tail(b)
  BY <1>1, <1>3 DEF Received
<1>6. b = <<Head(b)>> \o Tail(b)
  BY <1>1, <1>2
<1> HIDE DEF c, b
<1>7. (c \o <<>>) \o b = c \o b
  BY <1>2, ConcatEmptySeq
<1>8. <<Head(b)>> \in Seq(Event)
  BY <1>3
<1>9. (c \o <<Head(b)>>) \o Tail(b) = c \o (<<Head(b)>> \o Tail(b))
  BY <1>2, <1>3, <1>8, ConcatAssociative
<1> QED
  BY <1>4, <1>5, <1>6, <1>7, <1>9

LEMMA ConsumeReceives ==
    ASSUME TypeOK, NEW s \in Sink, Consume(s)
    PROVE  Received(s)' = Received(s)
<1> DEFINE c == sink[s].consumed
           b == sink[s].buffer
           x == sink[s].hand
<1>1. /\ sink[s] \in Pump /\ x # None
      /\ sink'[s].consumed = Append(c, x) /\ sink'[s].hand = None
      /\ sink'[s].buffer = b
  BY ReceivedType DEF Consume, TypeOK
<1>2. c \in Seq(Event) /\ b \in Seq(Event) /\ x \in Event
  BY <1>1 DEF Pump
<1>3. Received(s) = (c \o <<x>>) \o b
  BY <1>1 DEF Received
<1>4. Received(s)' = (Append(c, x) \o <<>>) \o b
  BY <1>1 DEF Received
<1> HIDE DEF c, b, x
<1>5. Append(c, x) = c \o <<x>> /\ Append(c, x) \in Seq(Event)
  BY <1>2, AppendIsConcat, AppendProperties
<1>6. Append(c, x) \o <<>> = Append(c, x)
  BY <1>5, ConcatEmptySeq
<1> QED
  BY <1>3, <1>4, <1>5, <1>6

\* What enters the channel is received last.
LEMMA OfferReceives ==
    ASSUME TypeOK, NEW s \in Sink, NEW e \in Event,
           sink' = [sink EXCEPT ![s].buffer = Append(@, e)]
    PROVE  Received(s)' = Append(Received(s), e)
<1> DEFINE c == sink[s].consumed
           b == sink[s].buffer
           x == IF sink[s].hand = None THEN <<>> ELSE <<sink[s].hand>>
<1>1. /\ sink[s] \in Pump /\ sink'[s].consumed = c
      /\ sink'[s].hand = sink[s].hand /\ sink'[s].buffer = Append(b, e)
  BY ReceivedType DEF TypeOK
<1>2. c \in Seq(Event) /\ b \in Seq(Event) /\ x \in Seq(Event)
  BY <1>1 DEF Pump
<1>3. Received(s) = (c \o x) \o b /\ Received(s)' = (c \o x) \o Append(b, e)
  <2>1. Received(s) = (c \o x) \o b
    BY DEF Received
  <2>2. (IF sink'[s].hand = None THEN <<>> ELSE <<sink'[s].hand>>) = x
    BY <1>1
  <2>3. Received(s)' = (sink'[s].consumed
                        \o (IF sink'[s].hand = None THEN <<>> ELSE <<sink'[s].hand>>))
                       \o sink'[s].buffer
    BY DEF Received
  <2>4. sink'[s].consumed = c /\ sink'[s].buffer = Append(b, e)
    BY <1>1
  <2>5. Received(s)' = (c \o x) \o Append(b, e)
    BY <2>2, <2>3, <2>4
  <2> QED
    BY <2>1, <2>5
<1> HIDE DEF c, b, x
<1>4. c \o x \in Seq(Event) /\ (c \o x) \o b \in Seq(Event) /\ <<e>> \in Seq(Event)
  BY <1>2, ConcatProperties
<1>5. Append(b, e) = b \o <<e>>
  BY <1>2, AppendIsConcat
<1>6. (c \o x) \o (b \o <<e>>) = ((c \o x) \o b) \o <<e>>
  BY <1>2, <1>4, ConcatAssociative
<1> QED
  BY <1>3, <1>4, <1>5, <1>6, AppendIsConcat

-----------------------------------------------------------------------------
(* Types, the shutdown and the publishers.                                 *)

\* A step of a publisher changes what is in its own hands only.
LEMMA PublicationType ==
    ASSUME TypeOK, NEW p \in Publisher
    PROVE  /\ pub[p] \in Publication /\ Quiet \in Publication
           /\ Publish(p) => pub'[p] \in Publication /\ pub' = [pub EXCEPT ![p] = pub'[p]]
           /\ Publishing(p) => pub'[p] \in Publication /\ pub' = [pub EXCEPT ![p] = pub'[p]]
<1>1. pub[p] \in Publication /\ pub \in [Publisher -> Publication]
  BY DEF TypeOK, Publication
<1>2. Quiet \in Publication
  BY DEF Quiet, Publication
<1>3. ASSUME Publish(p)
      PROVE  pub'[p] \in Publication /\ pub' = [pub EXCEPT ![p] = pub'[p]]
  <2> DEFINE e == Len(published) + 1
             x == [Quiet EXCEPT !.at = "handlers", !.event = e, !.calls = handlers]
  <2>1. e \in Event /\ handlers \in Seq(Handler)
    BY <1>3, MaxEventsAssumption DEF Publish, TypeOK, Event
  <2>2. x \in Publication
    BY <2>1, <1>2 DEF Publication
  <2>3. pub' = [pub EXCEPT ![p] = x]
    BY <1>3 DEF Publish
  <2> HIDE DEF x
  <2> QED
    BY <1>1, <2>2, <2>3
<1>4. ASSUME NEW x \in Publication, pub' = [pub EXCEPT ![p] = x]
      PROVE  pub'[p] \in Publication /\ pub' = [pub EXCEPT ![p] = pub'[p]]
  BY <1>1, <1>4
<1>5. ASSUME Publishing(p) PROVE \E x \in Publication : pub' = [pub EXCEPT ![p] = x]
  <2>1. CASE Call(p)
    <3>1. [pub[p] EXCEPT !.next = pub[p].next + 1] \in Publication
      <4>1. pub[p].next + 1 \in Nat
        BY <1>1 DEF Publication
      <4> QED
        BY <1>1, <4>1 DEF Publication
    <3>2. [pub[p] EXCEPT !.at = "locking"] \in Publication
      BY <1>1 DEF Publication
    <3>3. \/ pub' = [pub EXCEPT ![p] = [pub[p] EXCEPT !.next = pub[p].next + 1]]
          \/ pub' = [pub EXCEPT ![p] = [pub[p] EXCEPT !.at = "locking"]]
      BY <2>1 DEF Call
    <3> QED
      BY <3>1, <3>2, <3>3
  <2>2. CASE LockSinks(p)
    <3>1. [pub[p] EXCEPT !.at = "sinks", !.todo = Opened] \in Publication
      BY <1>1 DEF Publication, Opened
    <3>2. \/ pub' = [pub EXCEPT ![p] = Quiet]
          \/ pub' = [pub EXCEPT ![p] = [pub[p] EXCEPT !.at = "sinks", !.todo = Opened]]
      BY <2>2 DEF LockSinks
    <3> QED
      BY <1>2, <3>1, <3>2
  <2>3. ASSUME NEW s \in Sink, Offer(p, s)
        PROVE  \E x \in Publication : pub' = [pub EXCEPT ![p] = x]
    <3>1. [pub[p] EXCEPT !.todo = @ \ {s}] \in Publication
      BY <1>1 DEF Publication
    <3>2. pub' = [pub EXCEPT ![p] = [pub[p] EXCEPT !.todo = @ \ {s}]]
      BY <2>3 DEF Offer, Offered
    <3> QED
      BY <3>1, <3>2
  <2>4. CASE Return(p)
    BY <1>2, <2>4 DEF Return
  <2> QED
    BY <1>5, <2>1, <2>2, <2>3, <2>4 DEF Publishing
<1> QED
  BY <1>1, <1>2, <1>3, <1>4, <1>5

\* So does a step of a sink.
LEMMA PumpType ==
    ASSUME TypeOK, NEW s \in Sink, Pumping(s) \/ AttachSink(s) \/ CloseSink(s)
    PROVE  /\ sink'[s] \in Pump /\ Len(sink'[s].buffer) <= Buffer
           /\ sink' = [sink EXCEPT ![s] = sink'[s]]
<1>1. /\ sink \in [Sink -> Pump] /\ sink[s] \in Pump /\ Len(sink[s].buffer) <= Buffer
      /\ Len(published) \in Nat
  BY DEF TypeOK, Pump
<1>2. ASSUME NEW x \in Pump, Len(x.buffer) <= Buffer, sink' = [sink EXCEPT ![s] = x]
      PROVE  /\ sink'[s] \in Pump /\ Len(sink'[s].buffer) <= Buffer
             /\ sink' = [sink EXCEPT ![s] = sink'[s]]
  BY <1>1, <1>2
<1>3. \E x \in Pump : Len(x.buffer) <= Buffer /\ sink' = [sink EXCEPT ![s] = x]
  <2>1. CASE Take(s)
    <3> DEFINE b == sink[s].buffer
               x == [sink[s] EXCEPT !.hand = Head(b), !.buffer = Tail(b)]
    <3>1. b \in Seq(Event) /\ b # <<>>
      BY <1>1, <2>1 DEF Pump, Take
    <3>2. Head(b) \in Event /\ Tail(b) \in Seq(Event) /\ Len(Tail(b)) = Len(b) - 1
      BY <3>1, HeadTailProperties
    <3>3. x \in Pump /\ Len(x.buffer) <= Buffer
      <4>1. Len(b) \in Nat /\ Len(b) <= Buffer
        BY <1>1, <3>1
      <4>2. Len(Tail(b)) <= Buffer
        BY <3>2, <4>1, BufferAssumption
      <4>3. x \in Pump /\ x.buffer = Tail(b)
        BY <1>1, <3>2 DEF Pump
      <4> QED
        BY <4>2, <4>3
    <3>4. sink' = [sink EXCEPT ![s] = x]
      BY <1>1, <2>1 DEF Take
    <3> QED
      BY <3>3, <3>4
  <2>2. CASE Consume(s)
    <3> DEFINE x == [sink[s] EXCEPT !.hand = None,
                                    !.consumed = Append(@, sink[s].hand)]
    <3>1. sink[s].hand \in Event /\ sink[s].consumed \in Seq(Event)
      BY <1>1, <2>2 DEF Pump, Consume
    <3>2. Append(sink[s].consumed, sink[s].hand) \in Seq(Event)
      BY <3>1
    <3>3. x \in Pump /\ Len(x.buffer) <= Buffer
      BY <1>1, <3>2 DEF Pump
    <3>4. sink' = [sink EXCEPT ![s] = x]
      BY <1>1, <2>2 DEF Consume
    <3> QED
      BY <3>3, <3>4
  <2>3. CASE AttachSink(s)
    <3> DEFINE x == [sink[s] EXCEPT !.on = "open", !.since = Len(published)]
    <3>1. x \in Pump /\ Len(x.buffer) <= Buffer
      BY <1>1 DEF Pump
    <3>2. sink' = [sink EXCEPT ![s] = x]
      BY <1>1, <2>3 DEF AttachSink
    <3> QED
      BY <3>1, <3>2
  <2>4. CASE PumpEnds(s) \/ CloseSink(s)
    <3>1. PICK on \in {"closed", "done"} : sink' = [sink EXCEPT ![s].on = on]
      BY <2>4 DEF PumpEnds, CloseSink
    <3> DEFINE x == [sink[s] EXCEPT !.on = on]
    <3>2. x \in Pump /\ Len(x.buffer) <= Buffer
      BY <1>1 DEF Pump
    <3>3. sink' = [sink EXCEPT ![s] = x]
      BY <1>1, <3>1
    <3> QED
      BY <3>2, <3>3
  <2> QED
    BY <2>1, <2>2, <2>3, <2>4 DEF Pumping
<1> QED
  BY <1>2, <1>3

LEMMA TypeInv == IInv /\ [Next]_vars => TypeOK'
<1> SUFFICES ASSUME IInv, [Next]_vars PROVE TypeOK'
  OBVIOUS
<1> USE DEF IInv
<1>1. /\ pub \in [Publisher -> Publication] /\ sink \in [Sink -> Pump]
      /\ published \in Seq(Publisher) /\ Len(published) \in Nat
  BY DEF TypeOK, Publication, Pump
<1>2. CASE UNCHANGED vars
  BY <1>2 DEF TypeOK, vars
<1>3. CASE Interrupt \/ CloseBus \/ ShutdownReturns \/ Exit
  BY <1>3 DEF TypeOK, Interrupt, CloseBus, ShutdownReturns, Exit
<1>4. ASSUME NEW h \in Handler, Subscribe(h) \/ Unsubscribe(h) PROVE TypeOK'
  <2>1. handlers' \in Seq(Handler)
    <3>1. CASE Subscribe(h)
      BY <3>1, AppendProperties DEF Subscribe, TypeOK
    <3>2. CASE Unsubscribe(h)
      <4>1. PICK i \in DOMAIN handlers : handlers' = RemoveAt(handlers, i)
        BY <3>2 DEF Unsubscribe
      <4>2. handlers \in Seq(Handler) /\ i \in 1 .. Len(handlers) /\ Len(handlers) \in Nat
        BY <4>1 DEF TypeOK
      <4>3. SubSeq(handlers, 1, i - 1) \in Seq(Handler)
        BY <4>2, SubSeqProperties
      <4>4. SubSeq(handlers, i + 1, Len(handlers)) \in Seq(Handler)
        BY <4>2, SubSeqProperties
      <4> QED
        BY <4>1, <4>3, <4>4, ConcatProperties DEF RemoveAt
    <3> QED
      BY <1>4, <3>1, <3>2
  <2>2. UNCHANGED <<published, pub, sink, closed, stop, exited, owed, seen, missed>>
    BY <1>4 DEF Subscribe, Unsubscribe
  <2> QED
    BY <2>1, <2>2 DEF TypeOK
<1>5. ASSUME NEW s \in Sink, Pumping(s) \/ AttachSink(s) \/ CloseSink(s) PROVE TypeOK'
  <2>1. UNCHANGED <<published, handlers, pub, closed, stop, exited, owed, seen, missed>>
    BY <1>5 DEF Pumping, Take, Consume, PumpEnds, AttachSink, CloseSink
  <2>2. sink' \in [Sink -> Pump] /\ \A t \in Sink : Len(sink'[t].buffer) <= Buffer
    <3>1. /\ sink'[s] \in Pump /\ Len(sink'[s].buffer) <= Buffer
          /\ sink' = [sink EXCEPT ![s] = sink'[s]]
      BY <1>5, PumpType
    <3>2. \A t \in Sink : Len(sink[t].buffer) <= Buffer
      BY DEF TypeOK
    <3>3. PICK x \in Pump : Len(x.buffer) <= Buffer /\ sink' = [sink EXCEPT ![s] = x]
      BY <3>1
    <3> QED
      BY <1>1, <3>2, <3>3
  <2> QED
    BY <2>1, <2>2 DEF TypeOK, Pump
<1>6. ASSUME NEW p \in Publisher, Publish(p) \/ Publishing(p) PROVE TypeOK'
  <2>1. pub' \in [Publisher -> Publication]
    <3>1. pub'[p] \in Publication /\ pub' = [pub EXCEPT ![p] = pub'[p]]
      BY <1>6, PublicationType
    <3>2. PICK x \in Publication : pub' = [pub EXCEPT ![p] = x]
      BY <3>1
    <3> QED
      BY <1>1, <3>2
  <2>2. UNCHANGED <<handlers, closed, stop, exited>>
    BY <1>6 DEF Publish, Publishing, Call, LockSinks, Offer, Return
  <2>3. CASE Publish(p)
    <3>1. published' \in Seq(Publisher) /\ Len(published') <= MaxEvents
      BY <1>1, <2>3, AppendProperties, MaxEventsAssumption DEF Publish
    <3>2. owed' \in [Event -> SUBSET Handler]
      <4>1. ToSet(handlers) \in SUBSET Handler
        BY DEF TypeOK, ToSet
      <4> QED
        BY <2>3, <4>1 DEF Publish, TypeOK
    <3> QED
      BY <2>1, <2>2, <2>3, <3>1, <3>2 DEF TypeOK, Publication, Publish
  <2>4. CASE Call(p)
    <3>1. seen' \in [Handler -> Seq(Event)]
      <4>1. CASE UNCHANGED seen
        BY <4>1 DEF TypeOK
      <4>2. CASE ~UNCHANGED seen
        <5>1. /\ pub[p].next <= Len(pub[p].calls) /\ pub[p].at = "handlers"
              /\ seen' = [seen EXCEPT ![pub[p].calls[pub[p].next]] =
                                 Append(@, pub[p].event)]
          BY <2>4, <4>2 DEF Call, Calls
        <5>2. pub[p].event \in Event
          BY <1>1, <5>1 DEF AtWork, Publication, Event, None
        <5>3. pub[p].calls \in Seq(Handler) /\ pub[p].next \in 1 .. Len(pub[p].calls)
          BY <1>1, <5>1 DEF Called, Copy, Publication
        <5>4. pub[p].calls[pub[p].next] \in Handler
          BY <5>3
        <5>5. seen[pub[p].calls[pub[p].next]] \in Seq(Event)
          BY <5>4 DEF TypeOK
        <5>6. Append(seen[pub[p].calls[pub[p].next]], pub[p].event) \in Seq(Event)
          BY <5>2, <5>5, AppendProperties
        <5> QED
          BY <5>1, <5>6 DEF TypeOK
      <4> QED
        BY <4>1, <4>2
    <3> QED
      BY <2>1, <2>2, <2>4, <3>1 DEF TypeOK, Publication, Call
  <2>5. CASE LockSinks(p) \/ Return(p)
    <3>1. missed' \in SUBSET Event
      <4>1. LockSinks(p) => pub[p].event \in Event
        BY <1>1 DEF Publication, LockSinks, AtWork, Event, None
      <4> QED
        BY <2>5, <4>1 DEF TypeOK, LockSinks, Return
    <3> QED
      BY <2>1, <2>2, <2>5, <3>1 DEF TypeOK, Publication, LockSinks, Return
  <2>6. ASSUME NEW s \in Sink, Offer(p, s) PROVE TypeOK'
    <3>1. pub[p].event \in Event /\ sink[s] \in Pump
      BY <1>1, <2>6 DEF Publication, Offer, AtWork, Event, None
    <3>2. CASE Len(sink[s].buffer) < Buffer
      <4> DEFINE x == [sink[s] EXCEPT !.buffer = Append(@, pub[p].event)]
      <4>1. sink[s].buffer \in Seq(Event)
        BY <3>1 DEF Pump
      <4>2. /\ Append(sink[s].buffer, pub[p].event) \in Seq(Event)
            /\ Len(Append(sink[s].buffer, pub[p].event)) <= Buffer
        BY <3>1, <3>2, <4>1, BufferAssumption
      <4>3. x \in Pump /\ Len(x.buffer) <= Buffer
        BY <3>1, <4>2 DEF Pump
      <4>4. sink' = [sink EXCEPT ![s] = x]
        BY <1>1, <2>6, <3>2, BufferAssumption DEF Offer
      <4> HIDE DEF x
      <4>5. sink' \in [Sink -> Pump] /\ \A t \in Sink : Len(sink'[t].buffer) <= Buffer
        BY <1>1, <4>3, <4>4 DEF TypeOK
      <4> QED
        BY <2>1, <2>2, <2>6, <4>5 DEF TypeOK, Publication, Pump, Offer
    <3>3. CASE Len(sink[s].buffer) = Buffer
      <4> DEFINE x == [sink[s] EXCEPT !.dropped = @ \cup {pub[p].event}]
      <4>1. x \in Pump /\ Len(x.buffer) <= Buffer
        BY <3>1, <3>3, BufferAssumption DEF Pump
      <4>2. sink' = [sink EXCEPT ![s] = x]
        BY <1>1, <2>6, <3>3, BufferAssumption DEF Offer
      <4> HIDE DEF x
      <4>3. sink' \in [Sink -> Pump] /\ \A t \in Sink : Len(sink'[t].buffer) <= Buffer
        BY <1>1, <4>1, <4>2 DEF TypeOK
      <4> QED
        BY <2>1, <2>2, <2>6, <4>3 DEF TypeOK, Publication, Pump, Offer
    <3> QED
      BY <2>6, <3>2, <3>3 DEF Offer
  <2> QED
    BY <1>6, <2>3, <2>4, <2>5, <2>6 DEF Publishing
<1> QED
  BY <1>2, <1>3, <1>4, <1>5, <1>6 DEF Next, Stopping

LEMMA InitInv == Init => IInv
<1> SUFFICES ASSUME Init PROVE IInv
  OBVIOUS
<1> USE BufferAssumption, MaxEventsAssumption DEF Init
<1>1. /\ published = <<>> /\ handlers = <<>> /\ Len(published) = 0
      /\ \A p \in Publisher : pub[p] = Quiet
      /\ \A s \in Sink : sink[s] = [on |-> "detached", buffer |-> <<>>, hand |-> None,
                                   consumed |-> <<>>, dropped |-> {}, since |-> 0]
  OBVIOUS
<1>2. TypeOK
  <2>1. published \in Seq(Publisher) /\ handlers \in Seq(Handler) /\ 0 <= MaxEvents
    OBVIOUS
  <2>2. Quiet \in Publication
    BY DEF Quiet, Publication
  <2>3. [on |-> "detached", buffer |-> <<>>, hand |-> None, consumed |-> <<>>,
         dropped |-> {}, since |-> 0] \in Pump
    BY DEF Pump
  <2>4. pub \in [Publisher -> Publication] /\ sink \in [Sink -> Pump]
    BY <2>2, <2>3
  <2>5. \A s \in Sink : Len(sink[s].buffer) <= Buffer
    BY <1>1
  <2>6. /\ missed \in SUBSET Event
        /\ closed \in BOOLEAN /\ exited \in BOOLEAN
        /\ stop \in {"serving", "interrupted", "draining", "stopped"}
    OBVIOUS
  <2>8. owed \in [Event -> SUBSET Handler]
    OBVIOUS
  <2>9. seen \in [Handler -> Seq(Event)]
    OBVIOUS
  <2>7. Len(published) <= MaxEvents
    BY <1>1, <2>1
  <2> HIDE DEF Init
  <2> QED
    BY <2>1, <2>4, <2>5, <2>6, <2>7, <2>8, <2>9 DEF TypeOK, Publication, Pump
<1>3. Closing
  BY <1>1 DEF Closing
<1>4. AtWork
  BY <1>1 DEF AtWork, Quiet
<1>5. \A s \in Sink : Received(s) = <<>> /\ Has(s) = {}
  <2> SUFFICES ASSUME NEW s \in Sink PROVE Received(s) = <<>> /\ Has(s) = {}
    OBVIOUS
  <2>1. Received(s) = <<>> \o <<>> \o <<>>
    BY <1>1 DEF Received
  <2>2. Received(s) = <<>>
    BY <2>1
  <2> QED
    BY <2>2 DEF Has, ToSet
<1>6. Placed
  BY <1>1, <1>5 DEF Placed, InOnePlace, Somewhere, NotYet, Quiet, Owes
<1>7. SinksKeepOrder
  BY <1>5 DEF SinksKeepOrder
<1>8. Called
  BY <1>1 DEF Called, Copy, Seen, Distinct, Quiet
<1> QED
  BY <1>2, <1>3, <1>4, <1>6, <1>7, <1>8 DEF IInv

\* What a step of a publisher leaves to the other publishers and sinks.
LEMMA ClosingInv == IInv /\ [Next]_vars => Closing'
<1> SUFFICES ASSUME IInv, [Next]_vars PROVE Closing'
  OBVIOUS
<1> USE DEF IInv
<1>1. /\ sink \in [Sink -> Pump] /\ pub \in [Publisher -> Publication]
      /\ closed \in BOOLEAN /\ stop \in {"serving", "interrupted", "draining", "stopped"}
      /\ exited \in BOOLEAN /\ OneShot \in BOOLEAN
  BY OneShotAssumption DEF TypeOK, Pump, Publication
<1>2. CASE UNCHANGED <<sink, closed, stop, exited>>
  BY <1>2 DEF Closing
<1>3. CASE Interrupt \/ CloseBus \/ ShutdownReturns \/ Exit
  BY <1>1, <1>3 DEF Closing, Interrupt, CloseBus, ShutdownReturns, Exit
<1>4. ASSUME NEW s \in Sink, Pumping(s) \/ AttachSink(s) \/ CloseSink(s) PROVE Closing'
  <2>1. UNCHANGED <<closed, stop, exited>> /\ ~exited
    BY <1>4 DEF Pumping, Take, Consume, PumpEnds, AttachSink, CloseSink
  <2>2. sink'[s] \in Pump /\ \A t \in Sink \ {s} : sink'[t] = sink[t]
    BY <1>1, <1>4, PumpType
  <2>3. /\ sink'[s].on \in {"closed", "done"} => closed
        /\ sink'[s].on \in {"detached", "done"} =>
              sink'[s].buffer = <<>> /\ sink'[s].hand = None
        /\ stop = "stopped" => sink'[s].on \in {"detached", "done"}
    <3>1. CASE Take(s)
      BY <1>1, <3>1 DEF Take, Closing
    <3>2. CASE Consume(s)
      BY <1>1, <3>2 DEF Consume, Closing
    <3>3. CASE PumpEnds(s)
      BY <1>1, <3>3 DEF PumpEnds, Closing
    <3>4. CASE AttachSink(s)
      BY <1>1, <3>4 DEF AttachSink, Closing
    <3>5. CASE CloseSink(s)
      BY <1>1, <3>5 DEF CloseSink, Closing
    <3> QED
      BY <1>4, <3>1, <3>2, <3>3, <3>4, <3>5 DEF Pumping
  <2> QED
    BY <2>1, <2>2, <2>3 DEF Closing
<1>5. ASSUME NEW p \in Publisher, NEW s \in Sink, Offer(p, s) PROVE Closing'
  <2>1. UNCHANGED <<closed, stop, exited>> /\ sink[s].on = "open"
    BY <1>5 DEF Offer, AtWork
  <2>2. sink'[s].on = "open" /\ \A t \in Sink \ {s} : sink'[t] = sink[t]
    BY <1>1, <1>5, <2>1 DEF Offer, Pump
  <2> QED
    BY <2>1, <2>2 DEF Closing
<1>6. ASSUME NEW p \in Publisher, Publish(p) \/ Call(p) \/ LockSinks(p) \/ Return(p)
      PROVE  UNCHANGED <<sink, closed, stop, exited>>
  BY <1>6 DEF Publish, Call, LockSinks, Return
<1>7. ASSUME NEW h \in Handler, Subscribe(h) \/ Unsubscribe(h)
      PROVE  UNCHANGED <<sink, closed, stop, exited>>
  BY <1>7 DEF Subscribe, Unsubscribe
<1> QED
  BY <1>2, <1>3, <1>4, <1>5, <1>6, <1>7 DEF Next, Publishing, Stopping, vars

LEMMA AtWorkInv == IInv /\ [Next]_vars => AtWork'
<1> SUFFICES ASSUME IInv, [Next]_vars PROVE AtWork'
  OBVIOUS
<1> USE DEF IInv
<1> DEFINE Works(p) ==
        /\ pub[p].at = "idle" => pub[p].event = None
        /\ pub[p].at # "idle" =>
              /\ pub[p].event \in 1 .. Len(published) /\ published[pub[p].event] = p
              /\ \A e \in 1 .. Len(published) : published[e] = p => e <= pub[p].event
        /\ pub[p].at # "sinks" => pub[p].todo = {}
        /\ pub[p].at = "sinks" =>
              ~closed /\ \A s \in pub[p].todo : sink[s].on = "open"
<1>1. /\ pub \in [Publisher -> Publication] /\ sink \in [Sink -> Pump]
      /\ published \in Seq(Publisher) /\ Len(published) \in Nat
  BY DEF TypeOK, Publication, Pump
<1>2. \A p \in Publisher : Works(p)
  BY DEF AtWork
<1>3. SUFFICES ASSUME NEW p \in Publisher PROVE Works(p)'
  BY DEF AtWork
<1>4. CASE UNCHANGED <<pub, published, closed, sink>>
  BY <1>2, <1>4
<1>5. CASE CloseBus
  BY <1>2, <1>5 DEF CloseBus, Unlocked
<1>6. ASSUME NEW s \in Sink, Pumping(s) \/ AttachSink(s) \/ CloseSink(s) PROVE Works(p)'
  <2>1. UNCHANGED <<published, pub, closed>>
    BY <1>6 DEF Pumping, Take, Consume, PumpEnds, AttachSink, CloseSink
  <2>2. ~CloseSink(s) => (sink[s].on = "open" => sink'[s].on = "open")
    <3>1. Take(s) \/ Consume(s) => sink'[s].on = sink[s].on
      BY <1>1 DEF Take, Consume, Pump
    <3>2. PumpEnds(s) \/ AttachSink(s) => sink[s].on # "open"
      BY DEF PumpEnds, AttachSink
    <3> QED
      BY <1>6, <3>1, <3>2 DEF Pumping
  <2>3. CloseSink(s) => closed
    BY DEF CloseSink, Closing
  <2>4. \A t \in Sink \ {s} : sink'[t] = sink[t]
    BY <1>1, <1>6, PumpType
  <2>5. pub[p].todo \subseteq Sink
    BY <1>1 DEF Publication
  <2> QED
    BY <1>2, <2>1, <2>2, <2>3, <2>4, <2>5
<1>7. ASSUME NEW q \in Publisher, Publish(q) PROVE Works(p)'
  <2> DEFINE n == Len(published) + 1
  <2>1. /\ published' = Append(published, q) /\ ~(pub[p].at = "sinks")
        /\ UNCHANGED <<closed, sink>>
    BY <1>7 DEF Publish, Unlocked
  <2>2. /\ Len(published') = n /\ published'[n] = q
        /\ \A e \in 1 .. Len(published) : published'[e] = published[e]
    BY <1>1, <2>1, AppendProperties
  <2>3. CASE p = q
    <3>1. pub'[p].at = "handlers" /\ pub'[p].event = n /\ pub'[p].todo = {}
      BY <1>1, <1>7, <2>3 DEF Publish, Quiet
    <3> QED
      BY <1>1, <2>2, <2>3, <3>1
  <2>4. CASE p # q
    <3>1. pub'[p] = pub[p]
      BY <1>1, <1>7, <2>4 DEF Publish
    <3>2. \A e \in 1 .. n : published'[e] = p => e \in 1 .. Len(published)
      BY <1>1, <2>2, <2>4
    <3> QED
      BY <1>1, <1>2, <2>1, <2>2, <3>1, <3>2
  <2> QED
    BY <2>3, <2>4
<1>8. ASSUME NEW q \in Publisher, Publishing(q) PROVE Works(p)'
  <2>1. UNCHANGED <<published, closed>>
    BY <1>8 DEF Publishing, Call, LockSinks, Offer, Return
  <2>2. \A t \in Sink : sink[t].on = "open" => sink'[t].on = "open"
    <3>1. CASE UNCHANGED sink
      BY <3>1
    <3>2. ASSUME NEW s \in Sink, Offer(q, s)
          PROVE  \A t \in Sink : sink[t].on = "open" => sink'[t].on = "open"
      <4>1. sink[s] \in Pump /\ \A t \in Sink \ {s} : sink'[t] = sink[t]
        BY <1>1, <3>2 DEF Offer
      <4>2. sink'[s].on = sink[s].on
        BY <1>1, <3>2, <4>1 DEF Offer, Pump
      <4> QED
        BY <4>1, <4>2
    <3> QED
      BY <1>8, <3>1, <3>2 DEF Publishing, Call, LockSinks, Return
  <2>3. pub[p].todo \subseteq Sink
    BY <1>1 DEF Publication
  <2>4. CASE p # q
    <3>1. pub'[p] = pub[p]
      BY <1>1, <1>8, <2>4, PublicationType
    <3> QED
      BY <1>2, <2>1, <2>2, <2>3, <3>1
  <2>5. CASE p = q
    <3>1. CASE Call(p)
      <4>1. /\ pub[p].at = "handlers" /\ pub'[p].at \in {"handlers", "locking"}
            /\ pub'[p].event = pub[p].event /\ pub'[p].todo = pub[p].todo
        BY <1>1, <3>1 DEF Call, Publication
      <4> QED
        BY <1>2, <2>1, <4>1
    <3>2. CASE LockSinks(p)
      <4>1. CASE closed
        BY <1>1, <3>2, <4>1 DEF LockSinks, Quiet
      <4>2. CASE ~closed
        <5>1. /\ pub[p].at = "locking" /\ pub'[p].at = "sinks"
              /\ pub'[p].event = pub[p].event /\ pub'[p].todo = Opened
              /\ UNCHANGED sink
          BY <1>1, <3>2, <4>2 DEF LockSinks, Publication
        <5> QED
          BY <1>2, <2>1, <4>2, <5>1 DEF Opened
      <4> QED
        BY <4>1, <4>2
    <3>3. ASSUME NEW s \in Sink, Offer(p, s) PROVE Works(p)'
      <4>1. /\ pub[p].at = "sinks" /\ pub'[p].at = "sinks"
            /\ pub'[p].event = pub[p].event /\ pub'[p].todo = pub[p].todo \ {s}
        BY <1>1, <3>3 DEF Offer, Offered, Publication
      <4> QED
        BY <1>2, <2>1, <2>2, <2>3, <4>1
    <3>4. CASE Return(p)
      BY <1>1, <3>4 DEF Return, Quiet
    <3> QED
      BY <1>8, <2>5, <3>1, <3>2, <3>3, <3>4 DEF Publishing
  <2> QED
    BY <2>4, <2>5
<1>9. Interrupt \/ ShutdownReturns \/ Exit => UNCHANGED <<pub, published, closed, sink>>
  BY DEF Interrupt, ShutdownReturns, Exit
<1>10. ASSUME NEW h \in Handler, Subscribe(h) \/ Unsubscribe(h)
       PROVE  UNCHANGED <<pub, published, closed, sink>>
  BY <1>10 DEF Subscribe, Unsubscribe
<1> QED
  BY <1>4, <1>5, <1>6, <1>7, <1>8, <1>9, <1>10 DEF Next, Stopping, vars

-----------------------------------------------------------------------------
(* Where an event is, and in which order a sink has received it.           *)

\* No two publishers have the same event.
LEMMA OwnEvent ==
    ASSUME IInv, NEW p \in Publisher, NEW q \in Publisher, p # q, pub[p].at # "idle"
    PROVE  pub[q].event # pub[p].event /\ pub[p].event \in 1 .. Len(published)
<1>1. Len(published) \in Nat
  BY DEF IInv, TypeOK
<1>2. pub[p].event \in 1 .. Len(published) /\ published[pub[p].event] = p
  BY DEF IInv, AtWork
<1>3. pub[q].at = "idle" => pub[q].event = 0
  BY DEF IInv, AtWork, None
<1>4. pub[q].at # "idle" => published[pub[q].event] = q
  BY DEF IInv, AtWork
<1> QED
  BY <1>1, <1>2, <1>3, <1>4

LEMMA SameReceived ==
    ASSUME NEW s \in Sink, sink'[s] = sink[s]
    PROVE  Received(s)' = Received(s) /\ Has(s)' = Has(s)
  BY DEF Received, Has

\* A sink that receives one event more.
LEMMA OneMore ==
    ASSUME TypeOK, NEW s \in Sink, NEW e \in Event,
           Received(s)' = Append(Received(s), e)
    PROVE  Has(s)' = Has(s) \cup {e}
<1> DEFINE r == Received(s)
<1>1. r \in Seq(Event) /\ Len(r) \in Nat /\ Has(s) = {r[i] : i \in 1 .. Len(r)}
  BY ReceivedType
<1> HIDE DEF r
<1>2. /\ Append(r, e) \in Seq(Event) /\ Len(Append(r, e)) = Len(r) + 1
      /\ \A i \in 1 .. Len(r) : Append(r, e)[i] = r[i]
      /\ Append(r, e)[Len(r) + 1] = e
  BY <1>1, AppendProperties
<1>3. Has(s)' = {Append(r, e)[i] : i \in 1 .. Len(r) + 1}
  <2>1. DOMAIN Append(r, e) = 1 .. Len(r) + 1
    BY <1>1, <1>2
  <2>2. Has(s)' = ToSet(Append(r, e))
    BY DEF Has, r
  <2> QED
    BY <2>1, <2>2 DEF ToSet
<1>4. 1 .. Len(r) + 1 = (1 .. Len(r)) \cup {Len(r) + 1}
  BY <1>1
<1> QED
  BY <1>1, <1>2, <1>3, <1>4

\* What holds of the events in place when nothing is published, offered or
\* given up.
LEMMA PlacedFrame ==
    ASSUME IInv, UNCHANGED <<published, missed>>,
           \A s \in Sink :
               /\ Has(s)' = Has(s) /\ sink'[s].dropped = sink[s].dropped
               /\ sink'[s].on # "detached" =>
                     \/ sink[s].on # "detached" /\ sink'[s].since = sink[s].since
                     \/ sink'[s].since = Len(published)
               /\ \A p \in Publisher :
                     sink'[s].on # "detached" /\ Owes(p, s) => Owes(p, s)',
           \A p \in Publisher :
               /\ \A s \in Sink : Owes(p, s)' => Owes(p, s)
               /\ \/ pub'[p].event = pub[p].event
                  \/ pub'[p] = Quiet /\ \A s \in Sink : ~Owes(p, s)
    PROVE  Placed'
<1> USE DEF IInv
<1>1. missed' \subseteq 1 .. Len(published')
  BY DEF Placed
<1>2. \A p \in Publisher : pub'[p].event \notin missed'
  BY DEF Placed, Quiet, None
<1>3. ASSUME NEW s \in Sink PROVE InOnePlace(s)'
  BY DEF Placed, InOnePlace
<1>4. ASSUME NEW p \in Publisher, NEW s \in Sink PROVE NotYet(p, s)'
  <2>1. Owes(p, s)' => Owes(p, s) /\ pub'[p].event = pub[p].event
    OBVIOUS
  <2> QED
    BY <2>1 DEF Placed, NotYet
<1>5. ASSUME NEW s \in Sink PROVE Somewhere(s)'
  <2> SUFFICES ASSUME sink'[s].on # "detached",
                      NEW e \in sink'[s].since + 1 .. Len(published)
               PROVE  \/ e \in Has(s) \cup sink[s].dropped \cup missed
                      \/ \E p \in Publisher : pub'[p].event = e /\ Owes(p, s)'
    BY DEF Somewhere
  <2>1. Len(published) \in Nat
    BY DEF TypeOK
  <2>2. sink[s].on # "detached" /\ sink'[s].since = sink[s].since
    BY <2>1
  <2>3. \/ e \in Has(s) \cup sink[s].dropped \cup missed
        \/ \E p \in Publisher : pub[p].event = e /\ Owes(p, s)
    BY <2>2 DEF Placed, Somewhere
  <2> QED
    BY <2>3
<1> QED
  BY <1>1, <1>2, <1>3, <1>4, <1>5 DEF Placed

\* The steps of the sinks, of the shutdown and of those that subscribe.
LEMMA PlacedElsewhere ==
    ASSUME IInv, UNCHANGED vars
                 \/ Interrupt \/ CloseBus \/ ShutdownReturns \/ Exit
                 \/ (\E h \in Handler : Subscribe(h) \/ Unsubscribe(h))
                 \/ (\E s \in Sink : Pumping(s) \/ AttachSink(s) \/ CloseSink(s))
    PROVE  /\ Placed' /\ \A s \in Sink : Received(s)' = Received(s)
           /\ published' = published
<1> USE DEF IInv
<1>1. /\ pub \in [Publisher -> Publication] /\ sink \in [Sink -> Pump]
      /\ published \in Seq(Publisher) /\ Len(published) \in Nat
  BY DEF TypeOK, Publication, Pump
<1>2. UNCHANGED <<published, pub, missed>>
  BY DEF vars, Interrupt, CloseBus, ShutdownReturns, Exit, Subscribe, Unsubscribe,
         Pumping, Take, Consume, PumpEnds, AttachSink, CloseSink
<1>4. \A p \in Publisher, t \in Sink : Owes(p, t)' <=> Owes(p, t)
  BY <1>2 DEF Owes
<1>5. CASE UNCHANGED sink
  <2>1. \A t \in Sink : Received(t)' = Received(t) /\ Has(t)' = Has(t)
    BY <1>5, SameReceived
  <2> QED
    BY <1>2, <1>4, <1>5, <2>1, PlacedFrame
<1>6. ASSUME NEW s \in Sink, Pumping(s) \/ AttachSink(s) \/ CloseSink(s)
      PROVE  Placed' /\ \A t \in Sink : Received(t)' = Received(t)
  <2>1. \A t \in Sink \ {s} : sink'[t] = sink[t]
    BY <1>1, <1>6, PumpType
  <2>2. /\ sink'[s].dropped = sink[s].dropped
        /\ sink'[s].on # "detached" =>
              \/ sink[s].on # "detached" /\ sink'[s].since = sink[s].since
              \/ sink'[s].since = Len(published)
        /\ Received(s)' = Received(s)
    <3>1. CASE Take(s)
      <4>1. Received(s)' = Received(s)
        BY <3>1, TakeReceives
      <4> QED
        BY <1>1, <3>1, <4>1 DEF Take, Pump
    <3>2. CASE Consume(s)
      <4>1. Received(s)' = Received(s)
        BY <3>2, ConsumeReceives
      <4> QED
        BY <1>1, <3>2, <4>1 DEF Consume, Pump
    <3>3. CASE PumpEnds(s) \/ CloseSink(s) \/ AttachSink(s)
      <4>1. /\ sink'[s].consumed = sink[s].consumed /\ sink'[s].hand = sink[s].hand
            /\ sink'[s].buffer = sink[s].buffer /\ sink'[s].dropped = sink[s].dropped
        BY <1>1, <3>3 DEF PumpEnds, CloseSink, AttachSink, Pump
      <4>2. Received(s)' = Received(s)
        BY <4>1 DEF Received
      <4>3. \/ sink[s].on # "detached" /\ sink'[s].since = sink[s].since
            \/ sink'[s].since = Len(published)
        BY <1>1, <3>3 DEF PumpEnds, CloseSink, AttachSink, Pump
      <4> QED
        BY <4>1, <4>2, <4>3
    <3> QED
      BY <1>6, <3>1, <3>2, <3>3 DEF Pumping
  <2>3. \A t \in Sink : Received(t)' = Received(t)
    BY <2>1, <2>2, SameReceived
  <2>4. \A t \in Sink : Has(t)' = Has(t)
    BY <2>3 DEF Has
  <2> QED
    BY <1>2, <1>4, <2>1, <2>2, <2>3, <2>4, PlacedFrame
<1>7. Interrupt \/ CloseBus \/ ShutdownReturns \/ Exit \/ UNCHANGED vars => UNCHANGED sink
  BY DEF vars, Interrupt, CloseBus, ShutdownReturns, Exit
<1>8. ASSUME NEW h \in Handler, Subscribe(h) \/ Unsubscribe(h) PROVE UNCHANGED sink
  BY <1>8 DEF Subscribe, Unsubscribe
<1>9. CASE UNCHANGED sink
  <2>1. \A t \in Sink : Received(t)' = Received(t)
    BY <1>9, SameReceived
  <2> QED
    BY <1>2, <1>5, <1>9, <2>1
<1> QED
  BY <1>2, <1>6, <1>7, <1>8, <1>9

\* A publisher publishes: the event is its own, and nobody has it yet.
LEMMA PlacedPublish ==
    ASSUME IInv, NEW p \in Publisher, Publish(p)
    PROVE  /\ Placed' /\ \A s \in Sink : Received(s)' = Received(s)
           /\ \A e \in 1 .. Len(published) : published'[e] = published[e]
<1> USE DEF IInv
<1> DEFINE n == Len(published) + 1
<1>1. /\ pub \in [Publisher -> Publication] /\ sink \in [Sink -> Pump]
      /\ published \in Seq(Publisher) /\ Len(published) \in Nat
  BY DEF TypeOK, Publication, Pump
<1>2. /\ published' = Append(published, p) /\ UNCHANGED <<sink, missed>>
      /\ pub[p].at = "idle"
      /\ pub'[p].at = "handlers" /\ pub'[p].event = n
      /\ \A q \in Publisher \ {p} : pub'[q] = pub[q]
  BY <1>1 DEF Publish, Quiet
<1>3. /\ Len(published') = n
      /\ \A e \in 1 .. Len(published) : published'[e] = published[e]
  BY <1>1, <1>2, AppendProperties
<1>4. \A s \in Sink : Received(s)' = Received(s) /\ Has(s)' = Has(s)
  BY <1>2, SameReceived
<1>5. /\ missed \subseteq 1 .. Len(published)
      /\ \A s \in Sink : /\ Has(s) \subseteq 1 .. Len(published)
                         /\ sink[s].dropped \subseteq 1 .. Len(published)
  BY DEF Placed, InOnePlace
<1>6. /\ 1 .. Len(published) \subseteq 1 .. n /\ n \notin 1 .. Len(published)
      /\ 1 .. n = (1 .. Len(published)) \cup {n}
  BY <1>1
<1>7. \A q \in Publisher : pub'[q].event \notin missed'
  BY <1>2, <1>5, <1>6 DEF Placed
<1>8. ASSUME NEW s \in Sink PROVE InOnePlace(s)'
  BY <1>2, <1>3, <1>4, <1>5, <1>6 DEF Placed, InOnePlace
<1>9. ASSUME NEW q \in Publisher, NEW s \in Sink PROVE NotYet(q, s)'
  <2>1. CASE q = p
    BY <1>2, <1>4, <1>5, <1>6, <2>1 DEF NotYet
  <2>2. CASE q # p
    BY <1>2, <1>4, <2>2 DEF Placed, NotYet, Owes
  <2> QED
    BY <2>1, <2>2
<1>10. ASSUME NEW s \in Sink PROVE Somewhere(s)'
  <2> SUFFICES ASSUME sink[s].on # "detached", NEW e \in sink[s].since + 1 .. n
               PROVE  \/ e \in Has(s) \cup sink[s].dropped \cup missed
                      \/ \E q \in Publisher : pub'[q].event = e /\ Owes(q, s)'
    BY <1>2, <1>3, <1>4 DEF Somewhere
  <2>1. CASE e = n
    BY <1>2, <2>1 DEF Owes
  <2>2. CASE e # n
    <3>1. sink[s].since \in Nat
      BY <1>1 DEF Pump
    <3>2. e \in sink[s].since + 1 .. Len(published)
      BY <1>1, <2>2, <3>1
    <3>3. CASE e \in Has(s) \cup sink[s].dropped \cup missed
      BY <3>3
    <3>4. ASSUME NEW q \in Publisher, pub[q].event = e, Owes(q, s)
          PROVE  \E r \in Publisher : pub'[r].event = e /\ Owes(r, s)'
      <4>1. q # p
        BY <1>2, <3>4 DEF Owes, AtWork
      <4> QED
        BY <1>2, <3>4, <4>1 DEF Owes
    <3> QED
      BY <3>2, <3>3, <3>4 DEF Placed, Somewhere
  <2> QED
    BY <2>1, <2>2
<1>11. missed' \subseteq 1 .. Len(published')
  BY <1>2, <1>3, <1>5, <1>6
<1> QED
  BY <1>3, <1>4, <1>7, <1>8, <1>9, <1>10, <1>11 DEF Placed

\* A publisher goes through its copy of the subscriptions, finds the bus open or
\* closed, or has offered the event to every sink.
LEMMA PlacedCall ==
    ASSUME IInv, NEW p \in Publisher, Call(p) \/ LockSinks(p) \/ Return(p)
    PROVE  /\ Placed' /\ \A s \in Sink : Received(s)' = Received(s)
           /\ published' = published
<1> USE DEF IInv
<1>1. /\ pub \in [Publisher -> Publication] /\ sink \in [Sink -> Pump]
      /\ pub[p] \in Publication
  BY DEF TypeOK, Publication, Pump
<1>2. UNCHANGED <<published, sink>> /\ \A q \in Publisher \ {p} : pub'[q] = pub[q]
  BY <1>1 DEF Call, LockSinks, Return
<1>3. \A s \in Sink : Received(s)' = Received(s) /\ Has(s)' = Has(s)
  BY <1>2, SameReceived
<1>4. \A q \in Publisher \ {p}, s \in Sink : Owes(q, s)' <=> Owes(q, s)
  BY <1>2 DEF Owes
<1>5. ASSUME UNCHANGED missed,
             \A s \in Sink : Owes(p, s)' => Owes(p, s),
             \A s \in Sink : sink[s].on # "detached" /\ Owes(p, s) => Owes(p, s)',
             \/ pub'[p].event = pub[p].event
             \/ pub'[p] = Quiet /\ \A s \in Sink : ~Owes(p, s)
      PROVE  Placed'
  BY <1>2, <1>3, <1>4, <1>5, PlacedFrame
<1>6. CASE Call(p)
  <2>1. /\ pub[p].at = "handlers" /\ pub'[p].at \in {"handlers", "locking"}
        /\ pub'[p].event = pub[p].event /\ UNCHANGED missed
    BY <1>1, <1>6 DEF Call, Publication
  <2>2. \A s \in Sink : Owes(p, s) /\ Owes(p, s)'
    BY <2>1 DEF Owes
  <2> QED
    BY <1>2, <1>3, <1>5, <2>1, <2>2
<1>7. CASE Return(p)
  <2>1. /\ pub[p].at = "sinks" /\ pub[p].todo = {} /\ pub'[p] = Quiet /\ UNCHANGED missed
    BY <1>1, <1>7 DEF Return
  <2>2. \A s \in Sink : ~Owes(p, s) /\ ~Owes(p, s)'
    BY <2>1 DEF Owes, Quiet
  <2> QED
    BY <1>2, <1>3, <1>5, <2>1, <2>2
<1>8. CASE LockSinks(p) /\ ~closed
  <2>1. /\ pub[p].at = "locking" /\ pub'[p].at = "sinks" /\ pub'[p].todo = Opened
        /\ pub'[p].event = pub[p].event /\ UNCHANGED missed
    BY <1>1, <1>8 DEF LockSinks, Publication
  <2>2. \A s \in Sink : sink[s].on # "detached" => s \in Opened
    BY <1>1, <1>8 DEF Closing, Opened, Pump
  <2>3. \A s \in Sink : Owes(p, s) /\ (sink[s].on # "detached" => Owes(p, s)')
    BY <2>1, <2>2 DEF Owes
  <2> QED
    BY <1>2, <1>3, <1>5, <2>1, <2>3
<1>9. CASE LockSinks(p) /\ closed
  <2> DEFINE e == pub[p].event
  <2>1. /\ pub[p].at = "locking" /\ pub'[p] = Quiet /\ missed' = missed \cup {e}
    BY <1>1, <1>9 DEF LockSinks
  <2>2. /\ e \in 1 .. Len(published)
        /\ \A q \in Publisher \ {p} : pub[q].event # e
    BY <2>1, OwnEvent DEF AtWork
  <2>3. \A s \in Sink : Owes(p, s) /\ ~Owes(p, s)'
    BY <2>1 DEF Owes, Quiet
  <2>4. \A s \in Sink : e \notin Has(s) \cup sink[s].dropped
    BY <2>3 DEF Placed, NotYet
  <2> HIDE DEF e
  <2>5. \A q \in Publisher : pub'[q].event \notin missed'
    <3> SUFFICES ASSUME NEW q \in Publisher PROVE pub'[q].event \notin missed'
      OBVIOUS
    <3>1. CASE q = p
      <4>1. 0 \notin missed /\ e # 0
        BY <2>2 DEF Placed
      <4> QED
        BY <2>1, <3>1, <4>1 DEF Quiet, None
    <3>2. CASE q # p
      BY <1>2, <2>1, <2>2, <3>2 DEF Placed
    <3> QED
      BY <3>1, <3>2
  <2>6. ASSUME NEW s \in Sink PROVE InOnePlace(s)'
    BY <1>2, <1>3, <2>1, <2>4 DEF Placed, InOnePlace
  <2>7. ASSUME NEW q \in Publisher, NEW s \in Sink PROVE NotYet(q, s)'
    BY <1>2, <1>3, <1>4, <2>3 DEF Placed, NotYet
  <2>8. ASSUME NEW s \in Sink PROVE Somewhere(s)'
    <3> SUFFICES ASSUME sink[s].on # "detached",
                        NEW x \in sink[s].since + 1 .. Len(published)
                 PROVE  \/ x \in Has(s) \cup sink[s].dropped \cup missed'
                        \/ \E q \in Publisher : pub'[q].event = x /\ Owes(q, s)'
      BY <1>2, <1>3 DEF Somewhere
    <3>1. \/ x \in Has(s) \cup sink[s].dropped \cup missed
          \/ \E q \in Publisher : pub[q].event = x /\ Owes(q, s)
      BY DEF Placed, Somewhere
    <3>2. ASSUME NEW q \in Publisher, pub[q].event = x, Owes(q, s)
          PROVE  \/ x \in missed'
                 \/ \E y \in Publisher : pub'[y].event = x /\ Owes(y, s)'
      <4>1. CASE q = p
        BY <2>1, <3>2, <4>1 DEF e
      <4>2. CASE q # p
        BY <1>2, <1>4, <3>2, <4>2
      <4> QED
        BY <4>1, <4>2
    <3> QED
      BY <2>1, <3>1, <3>2
  <2>9. missed' \subseteq 1 .. Len(published')
    BY <1>2, <2>1, <2>2 DEF Placed
  <2> QED
    BY <1>2, <1>3, <2>5, <2>6, <2>7, <2>8, <2>9 DEF Placed
<1> QED
  BY <1>6, <1>7, <1>8, <1>9

\* A publisher offers its event to a sink, which receives it or does not.
LEMMA PlacedOffer ==
    ASSUME IInv, NEW p \in Publisher, NEW s \in Sink, Offer(p, s)
    PROVE  /\ Placed' /\ published' = published
           /\ \A t \in Sink \ {s} : Received(t)' = Received(t)
           /\ \/ Received(s)' = Received(s)
              \/ Received(s)' = Append(Received(s), pub[p].event)
           /\ pub[p].event \notin Has(s)
           /\ pub[p].event \in Event /\ published[pub[p].event] = p
           /\ \A e \in 1 .. Len(published) : published[e] = p => e <= pub[p].event
<1> USE DEF IInv
<1> DEFINE e == pub[p].event
<1>1. /\ pub \in [Publisher -> Publication] /\ sink \in [Sink -> Pump]
      /\ pub[p] \in Publication /\ sink[s] \in Pump
  BY DEF TypeOK, Publication, Pump
<1>2. /\ pub[p].at = "sinks" /\ s \in pub[p].todo
      /\ pub'[p].at = "sinks" /\ pub'[p].event = e /\ pub'[p].todo = pub[p].todo \ {s}
      /\ \A q \in Publisher \ {p} : pub'[q] = pub[q]
      /\ \A t \in Sink \ {s} : sink'[t] = sink[t]
      /\ UNCHANGED <<published, missed>>
  BY <1>1 DEF Offer, Offered, Publication
<1>3. /\ e \in 1 .. Len(published) /\ published[e] = p
      /\ \A x \in 1 .. Len(published) : published[x] = p => x <= e
      /\ \A q \in Publisher \ {p} : pub[q].event # e
  BY <1>2, OwnEvent DEF AtWork
<1>4. e \in Event
  BY <1>1, <1>3, MaxEventsAssumption DEF Publication, Event, None
<1>5. e \notin Has(s) \cup sink[s].dropped /\ e \notin missed
  BY <1>2 DEF Placed, NotYet, Owes
<1>6. \A t \in Sink \ {s} : Received(t)' = Received(t) /\ Has(t)' = Has(t)
  BY <1>2, SameReceived
<1>7. /\ sink'[s].on = sink[s].on /\ sink'[s].since = sink[s].since
      /\ \/ /\ Received(s)' = Append(Received(s), e) /\ Has(s)' = Has(s) \cup {e}
            /\ sink'[s].dropped = sink[s].dropped
         \/ /\ Received(s)' = Received(s) /\ Has(s)' = Has(s)
            /\ sink'[s].dropped = sink[s].dropped \cup {e}
  <2>1. CASE sink' = [sink EXCEPT ![s].buffer = Append(@, e)]
    <3>1. Received(s)' = Append(Received(s), e)
      BY <1>4, <2>1, OfferReceives
    <3>2. Has(s)' = Has(s) \cup {e}
      BY <1>4, <3>1, OneMore
    <3> QED
      BY <1>1, <2>1, <3>1, <3>2 DEF Pump
  <2>2. CASE sink' = [sink EXCEPT ![s].dropped = @ \cup {e}]
    <3>1. /\ sink'[s].consumed = sink[s].consumed /\ sink'[s].hand = sink[s].hand
          /\ sink'[s].buffer = sink[s].buffer
      BY <1>1, <2>2 DEF Pump
    <3>2. Received(s)' = Received(s)
      BY <3>1 DEF Received
    <3> QED
      BY <1>1, <2>2, <3>2 DEF Pump, Has
  <2> QED
    BY <2>1, <2>2 DEF Offer
<1>8. \A t \in Sink : Owes(p, t)' <=> Owes(p, t) /\ t # s
  BY <1>2 DEF Owes
<1>9. \A q \in Publisher \ {p}, t \in Sink : Owes(q, t)' <=> Owes(q, t)
  BY <1>2 DEF Owes
<1>10. \A q \in Publisher : pub'[q].event = pub[q].event
  BY <1>2
<1> HIDE DEF e
<1>11. ASSUME NEW t \in Sink PROVE InOnePlace(t)'
  <2>1. CASE t = s
    BY <1>2, <1>3, <1>5, <1>7, <2>1 DEF Placed, InOnePlace
  <2>2. CASE t # s
    BY <1>2, <1>6, <2>2 DEF Placed, InOnePlace
  <2> QED
    BY <2>1, <2>2
<1>12. ASSUME NEW q \in Publisher, NEW t \in Sink PROVE NotYet(q, t)'
  <2>1. NotYet(q, t)
    BY DEF Placed
  <2>2. CASE t # s
    BY <1>2, <1>6, <1>8, <1>9, <1>10, <2>1, <2>2 DEF NotYet
  <2>3. CASE t = s /\ q = p
    BY <1>8, <2>3 DEF NotYet
  <2>4. CASE t = s /\ q # p
    BY <1>3, <1>7, <1>9, <1>10, <2>1, <2>4 DEF NotYet
  <2> QED
    BY <2>2, <2>3, <2>4
<1>13. ASSUME NEW t \in Sink PROVE Somewhere(t)'
  <2>1. /\ sink'[t].on = sink[t].on /\ sink'[t].since = sink[t].since
        /\ Has(t) \cup sink[t].dropped \subseteq Has(t)' \cup sink'[t].dropped
    BY <1>2, <1>6, <1>7
  <2> SUFFICES ASSUME sink[t].on # "detached",
                      NEW x \in sink[t].since + 1 .. Len(published)
               PROVE  \/ x \in Has(t)' \cup sink'[t].dropped \cup missed
                      \/ \E q \in Publisher : pub'[q].event = x /\ Owes(q, t)'
    BY <1>2, <2>1 DEF Somewhere
  <2>2. \/ x \in Has(t) \cup sink[t].dropped \cup missed
        \/ \E q \in Publisher : pub[q].event = x /\ Owes(q, t)
    BY DEF Placed, Somewhere
  <2>3. ASSUME NEW q \in Publisher, pub[q].event = x, Owes(q, t)
        PROVE  \/ x \in Has(t)' \cup sink'[t].dropped
               \/ \E y \in Publisher : pub'[y].event = x /\ Owes(y, t)'
    <3>1. CASE q = p /\ t = s
      BY <1>7, <2>3, <3>1 DEF e
    <3>2. CASE ~(q = p /\ t = s)
      BY <1>8, <1>9, <1>10, <2>3, <3>2
    <3> QED
      BY <3>1, <3>2
  <2> QED
    BY <2>1, <2>2, <2>3
<1>14. Placed'
  BY <1>2, <1>10, <1>11, <1>12, <1>13 DEF Placed
<1> QED
  BY <1>2, <1>3, <1>4, <1>5, <1>6, <1>7, <1>14 DEF e

LEMMA PlacedInv == IInv /\ [Next]_vars => Placed'
  BY PlacedElsewhere, PlacedPublish, PlacedCall, PlacedOffer
  DEF Next, Publishing, Stopping

LEMMA OrderInv == IInv /\ [Next]_vars => SinksKeepOrder'
<1> SUFFICES ASSUME IInv, [Next]_vars,
                    NEW t \in Sink, NEW i \in 1 .. Len(Received(t)'),
                    NEW j \in 1 .. Len(Received(t)'), i < j
             PROVE  LET r == Received(t)' IN
                    /\ r[i] # r[j]
                    /\ published'[r[i]] = published'[r[j]] => r[i] < r[j]
  BY DEF SinksKeepOrder
<1> USE DEF IInv
<1> DEFINE r == Received(t)
<1>1. /\ r \in Seq(Event) /\ Len(r) \in Nat
      /\ Has(t) = {r[k] : k \in 1 .. Len(r)} /\ Has(t) \subseteq 1 .. Len(published)
  BY ReceivedType DEF Placed, InOnePlace
<1>2. \A k, l \in 1 .. Len(r) :
          k < l => r[k] # r[l] /\ (published[r[k]] = published[r[l]] => r[k] < r[l])
  BY DEF SinksKeepOrder
<1>3. ASSUME r' = r, \A e \in 1 .. Len(published) : published'[e] = published[e]
      PROVE  /\ r'[i] # r'[j]
             /\ published'[r'[i]] = published'[r'[j]] => r'[i] < r'[j]
  <2>1. r[i] \in 1 .. Len(published) /\ r[j] \in 1 .. Len(published)
    BY <1>1, <1>3
  <2> QED
    BY <1>2, <1>3, <2>1
<1>4. ASSUME NEW p \in Publisher, NEW s \in Sink, Offer(p, s)
      PROVE  /\ r'[i] # r'[j]
             /\ published'[r'[i]] = published'[r'[j]] => r'[i] < r'[j]
  <2> DEFINE e == pub[p].event
  <2>1. /\ published' = published
        /\ r' = r \/ (t = s /\ r' = Append(r, e))
        /\ e \notin Has(s) /\ e \in Event /\ published[e] = p
        /\ \A x \in 1 .. Len(published) : published[x] = p => x <= e
    BY <1>4, PlacedOffer
  <2> HIDE DEF e
  <2>2. CASE r' = r
    BY <1>3, <2>1, <2>2
  <2>3. CASE t = s /\ r' = Append(r, e)
    <3>1. /\ Len(r') = Len(r) + 1 /\ r'[Len(r) + 1] = e
          /\ \A k \in 1 .. Len(r) : r'[k] = r[k]
      BY <1>1, <2>1, <2>3, AppendProperties
    <3>2. i \in 1 .. Len(r) /\ r[i] \in Has(t) /\ r[i] \in 1 .. Len(published)
      BY <1>1, <3>1
    <3>3. CASE j \in 1 .. Len(r)
      BY <1>2, <2>1, <3>1, <3>2, <3>3
    <3>4. CASE j = Len(r) + 1
      <4>1. r[i] # e
        BY <2>1, <2>3, <3>2
      <4>2. published[r[i]] = p => r[i] <= e
        BY <2>1, <3>2
      <4> QED
        BY <2>1, <3>1, <3>2, <3>4, <4>1, <4>2 DEF Event
    <3> QED
      BY <1>1, <3>1, <3>3, <3>4
  <2> QED
    BY <2>1, <2>2, <2>3
<1>5. ASSUME NEW p \in Publisher, Publish(p) \/ Call(p) \/ LockSinks(p) \/ Return(p)
      PROVE  r' = r /\ \A e \in 1 .. Len(published) : published'[e] = published[e]
  BY <1>5, PlacedPublish, PlacedCall
<1>6. ASSUME \/ UNCHANGED vars
             \/ Interrupt \/ CloseBus \/ ShutdownReturns \/ Exit
             \/ (\E h \in Handler : Subscribe(h) \/ Unsubscribe(h))
             \/ (\E s \in Sink : Pumping(s) \/ AttachSink(s) \/ CloseSink(s))
      PROVE  /\ r'[i] # r'[j]
             /\ published'[r'[i]] = published'[r'[j]] => r'[i] < r'[j]
  <2>1. r' = r /\ published' = published
    BY <1>6, PlacedElsewhere
  <2> QED
    BY <1>3, <2>1
<1> HIDE DEF r
<1>7. \/ UNCHANGED vars
      \/ Interrupt \/ CloseBus \/ ShutdownReturns \/ Exit
      \/ (\E h \in Handler : Subscribe(h) \/ Unsubscribe(h))
      \/ (\E s \in Sink : Pumping(s) \/ AttachSink(s) \/ CloseSink(s))
      \/ (\E p \in Publisher : Publish(p) \/ Call(p) \/ LockSinks(p) \/ Return(p))
      \/ (\E p \in Publisher, s \in Sink : Offer(p, s))
  BY DEF Next, Publishing, Stopping
<1>8. /\ r'[i] # r'[j]
      /\ published'[r'[i]] = published'[r'[j]] => r'[i] < r'[j]
  BY <1>3, <1>4, <1>5, <1>6, <1>7
<1> QED
  BY <1>8 DEF r

-----------------------------------------------------------------------------
(* The handlers that have seen an event.                                   *)

LEMMA RemoveAtDistinct ==
    ASSUME NEW q \in Seq(Handler), NEW i \in 1 .. Len(q), Distinct(q)
    PROVE  Distinct(RemoveAt(q, i))
<1> DEFINE a == SubSeq(q, 1, i - 1)
           b == SubSeq(q, i + 1, Len(q))
<1>1. Len(q) \in Nat /\ DOMAIN q = 1 .. Len(q)
  OBVIOUS
<1>2. a \in Seq(Handler) /\ Len(a) = i - 1 /\ \A k \in 1 .. i - 1 : a[k] = q[k]
  <2>1. \A k \in 1 .. i - 1 : q[k] \in Handler
    BY <1>1
  <2>2. /\ a \in Seq(Handler)
        /\ Len(a) = IF 1 <= i - 1 THEN (i - 1) - 1 + 1 ELSE 0
        /\ \A k \in 1 .. (i - 1) - 1 + 1 : a[k] = q[1 + k - 1]
    BY <1>1, <2>1, SubSeqProperties
  <2> HIDE DEF a
  <2> QED
    BY <1>1, <2>2
<1>3. /\ b \in Seq(Handler) /\ Len(b) = Len(q) - i
      /\ \A k \in 1 .. Len(q) - i : b[k] = q[k + i]
  <2>1. \A k \in i + 1 .. Len(q) : q[k] \in Handler
    BY <1>1
  <2>2. /\ b \in Seq(Handler)
        /\ Len(b) = IF i + 1 <= Len(q) THEN Len(q) - (i + 1) + 1 ELSE 0
        /\ \A k \in 1 .. Len(q) - (i + 1) + 1 : b[k] = q[(i + 1) + k - 1]
    BY <1>1, <2>1, SubSeqProperties
  <2> HIDE DEF b
  <2>3. \A k \in 1 .. Len(q) - i : (i + 1) + k - 1 = k + i
    BY <1>1
  <2> QED
    BY <1>1, <2>2, <2>3
<1> HIDE DEF a, b
<1>4. /\ Len(a \o b) = Len(q) - 1
      /\ \A k \in 1 .. Len(q) - 1 : (a \o b)[k] = IF k <= i - 1 THEN a[k] ELSE b[k - (i - 1)]
  <2>1. /\ Len(a \o b) = Len(a) + Len(b)
        /\ \A k \in 1 .. Len(a) + Len(b) :
              (a \o b)[k] = IF k <= Len(a) THEN a[k] ELSE b[k - Len(a)]
    BY <1>2, <1>3, ConcatProperties
  <2>2. Len(a) + Len(b) = Len(q) - 1
    BY <1>1, <1>2, <1>3
  <2> QED
    BY <1>2, <2>1, <2>2
<1>5. \A k \in 1 .. Len(q) - 1 : (a \o b)[k] = q[IF k < i THEN k ELSE k + 1]
  <2> SUFFICES ASSUME NEW k \in 1 .. Len(q) - 1
               PROVE  (a \o b)[k] = q[IF k < i THEN k ELSE k + 1]
    OBVIOUS
  <2>1. CASE k < i
    BY <1>1, <1>2, <1>4, <2>1
  <2>2. CASE ~(k < i)
    <3>1. (a \o b)[k] = b[k - (i - 1)] /\ k - (i - 1) \in 1 .. Len(q) - i
      BY <1>1, <1>4, <2>2
    <3>2. b[k - (i - 1)] = q[(k - (i - 1)) + i]
      BY <1>3, <3>1
    <3>3. (k - (i - 1)) + i = k + 1
      BY <1>1
    <3> QED
      BY <2>2, <3>1, <3>2, <3>3
  <2> QED
    BY <2>1, <2>2
<1>6. ASSUME NEW k \in 1 .. Len(q) - 1, NEW l \in 1 .. Len(q) - 1, (a \o b)[k] = (a \o b)[l]
      PROVE  k = l
  <2> DEFINE x == IF k < i THEN k ELSE k + 1
             y == IF l < i THEN l ELSE l + 1
  <2>1. x \in 1 .. Len(q) /\ y \in 1 .. Len(q) /\ q[x] = q[y]
    <3>1. x \in 1 .. Len(q) /\ y \in 1 .. Len(q)
      BY <1>1
    <3>2. (a \o b)[k] = q[x] /\ (a \o b)[l] = q[y]
      BY <1>5
    <3> QED
      BY <1>6, <3>1, <3>2
  <2>2. x = y
    BY <2>1 DEF Distinct
  <2> QED
    BY <1>1, <2>2
<1> QED
  BY <1>4, <1>6 DEF RemoveAt, Distinct, a, b

LEMMA AppendDistinct ==
    ASSUME NEW S, NEW q \in Seq(S), NEW e \in S, Distinct(q),
           \A k \in 1 .. Len(q) : q[k] # e
    PROVE  Distinct(Append(q, e))
<1>1. /\ Len(Append(q, e)) = Len(q) + 1 /\ Append(q, e)[Len(q) + 1] = e
      /\ \A k \in 1 .. Len(q) : Append(q, e)[k] = q[k]
      /\ Len(q) \in Nat
  BY AppendProperties
<1> QED
  BY <1>1 DEF Distinct

\* Nobody is called, and no publisher begins or ends its calls.
LEMMA CalledFrame ==
    ASSUME IInv, UNCHANGED <<published, owed, seen>>,
           Distinct(handlers)',
           \A p \in Publisher :
               \/ pub'[p] = pub[p]
               \/ pub'[p].at # "handlers" /\ pub[p].at # "handlers"
    PROVE  Called'
<1> USE DEF IInv
<1>1. ASSUME NEW p \in Publisher PROVE Copy(p)'
  <2>1. Copy(p)
    BY DEF Called
  <2>2. CASE pub'[p] = pub[p]
    BY <2>1, <2>2 DEF Copy
  <2>3. CASE pub'[p].at # "handlers"
    BY <2>3 DEF Copy
  <2> QED
    BY <2>2, <2>3
<1>2. ASSUME NEW h \in Handler PROVE Seen(h)'
  <2>1. Seen(h)
    BY DEF Called
  <2>2. \A p \in Publisher : pub[p].at = "handlers" => pub'[p] = pub[p]
    OBVIOUS
  <2> QED
    BY <2>1, <2>2 DEF Seen
<1> QED
  BY <1>1, <1>2 DEF Called

\* A publisher takes its copy of the subscriptions.
LEMMA CalledPublish ==
    ASSUME IInv, NEW p \in Publisher, Publish(p)
    PROVE  Called'
<1> USE DEF IInv
<1> DEFINE n == Len(published) + 1
<1>1. /\ pub \in [Publisher -> Publication] /\ handlers \in Seq(Handler)
      /\ published \in Seq(Publisher) /\ Len(published) \in Nat
      /\ owed \in [Event -> SUBSET Handler] /\ seen \in [Handler -> Seq(Event)]
  BY DEF TypeOK, Publication
<1>2. /\ UNCHANGED <<handlers, seen>> /\ pub[p].at = "idle" /\ n <= MaxEvents
      /\ pub'[p].at = "handlers" /\ pub'[p].event = n /\ pub'[p].calls = handlers
      /\ pub'[p].next = 1
      /\ \A q \in Publisher \ {p} : pub'[q] = pub[q]
      /\ owed' = [owed EXCEPT ![n] = ToSet(handlers)]
  <2>1. n <= MaxEvents
    BY <1>1, MaxEventsAssumption DEF Publish
  <2>2. pub' = [pub EXCEPT ![p] = [Quiet EXCEPT !.at = "handlers", !.event = n,
                                                !.calls = handlers]]
    BY DEF Publish
  <2>3. /\ UNCHANGED <<handlers, seen>> /\ pub[p].at = "idle"
        /\ owed' = [owed EXCEPT ![n] = ToSet(handlers)]
    BY DEF Publish
  <2> HIDE DEF n
  <2> QED
    BY <1>1, <2>1, <2>2, <2>3 DEF Quiet
<1>3. Len(published') = n
  BY <1>1, AppendProperties DEF Publish
<1>4. /\ n \in Event /\ owed'[n] = ToSet(handlers)
      /\ \A e \in 1 .. Len(published) : owed'[e] = owed[e]
  BY <1>1, <1>2, MaxEventsAssumption DEF Event
<1>5. \A h \in Handler : Seen(h)
  BY DEF Called
<1>6. \A h \in Handler, e \in Event : Saw(seen', h, e) <=> Saw(seen, h, e)
  BY <1>2 DEF Saw
<1>7. \A h \in Handler : ~Saw(seen, h, n)
  BY <1>1, <1>5 DEF Saw, Seen
<1>8. Copy(p)'
  <2>1. Distinct(handlers)
    BY DEF Called
  <2>2. \A h \in Handler : h \in owed'[n] <=> \E i \in 1 .. Len(handlers) : handlers[i] = h
    BY <1>1, <1>4 DEF ToSet
  <2>3. \A i \in 1 .. Len(handlers) : ~Saw(seen', handlers[i], n) /\ ~(i < 1)
    BY <1>1, <1>4, <1>6, <1>7
  <2>4. 1 \in 1 .. Len(handlers) + 1
    BY <1>1
  <2> HIDE DEF n
  <2> QED
    BY <1>2, <2>1, <2>2, <2>3, <2>4 DEF Copy
<1>9. ASSUME NEW q \in Publisher \ {p} PROVE Copy(q)'
  <2>1. Copy(q)
    BY DEF Called
  <2>2. pub[q].at = "handlers" => pub[q].event \in 1 .. Len(published)
    BY DEF AtWork
  <2>3. pub'[q] = pub[q] /\ seen' = seen
    BY <1>2
  <2>4. pub[q].at = "handlers" => owed'[pub[q].event] = owed[pub[q].event]
    BY <1>4, <2>2
  <2> QED
    BY <2>1, <2>3, <2>4 DEF Copy
<1>10. ASSUME NEW h \in Handler PROVE Seen(h)'
  <2>1. Seen(h)
    BY <1>5
  <2>2. \A k \in 1 .. Len(seen[h]) :
            seen[h][k] \in 1 .. n /\ h \in owed'[seen[h][k]]
    BY <1>1, <1>4, <2>1 DEF Seen
  <2>3. ASSUME NEW e \in 1 .. n, h \in owed'[e]
        PROVE  \/ Saw(seen', h, e)
               \/ \E q \in Publisher : pub'[q].event = e /\ pub'[q].at = "handlers"
    <3>1. CASE e = n
      BY <1>2, <3>1
    <3>2. CASE e # n
      <4>1. e \in 1 .. Len(published) /\ e \in Event
        <5>1. e \in 1 .. Len(published)
          BY <1>1, <3>2
        <5> QED
          BY <1>1, <1>2, <5>1, MaxEventsAssumption DEF Event
      <4>2. \/ Saw(seen, h, e)
            \/ \E q \in Publisher : pub[q].event = e /\ pub[q].at = "handlers"
        BY <1>4, <2>1, <2>3, <4>1 DEF Seen
      <4> QED
        BY <1>2, <1>6, <4>1, <4>2
    <3> QED
      BY <3>1, <3>2
  <2> QED
    BY <1>2, <1>3, <2>1, <2>2, <2>3 DEF Seen
<1> QED
  BY <1>2, <1>8, <1>9, <1>10 DEF Called

\* A publisher calls the next handler of its copy.
LEMMA CalledCall ==
    ASSUME IInv, NEW p \in Publisher, Call(p), pub[p].next <= Len(pub[p].calls)
    PROVE  Called'
<1> USE DEF IInv
<1> DEFINE n == pub[p].next
           e == pub[p].event
           c == pub[p].calls
           h == c[n]
<1>1. /\ pub \in [Publisher -> Publication] /\ pub[p] \in Publication
      /\ seen \in [Handler -> Seq(Event)]
      /\ \A q \in Publisher : Copy(q)
      /\ \A g \in Handler : Seen(g)
  BY DEF TypeOK, Publication, Called
<1>2. /\ c \in Seq(Handler) /\ n \in 1 .. Len(c) /\ Len(c) \in Nat
      /\ pub[p].at = "handlers" /\ Distinct(c)
      /\ \A g \in Handler : g \in owed[e] <=> \E i \in 1 .. Len(c) : c[i] = g
      /\ \A i \in 1 .. Len(c) : Saw(seen, c[i], e) <=> i < n
  BY <1>1 DEF Publication, Copy, Call
<1>3. /\ h \in Handler /\ h \in owed[e] /\ ~Saw(seen, h, e) /\ seen[h] \in Seq(Event)
  BY <1>1, <1>2
<1>4. /\ e \in 1 .. Len(published) /\ e \in Event
      /\ \A q \in Publisher \ {p} : pub[q].event # e
  BY <1>1, <1>2, OwnEvent, MaxEventsAssumption DEF AtWork, Publication, Event, None
<1>5. /\ seen' = [seen EXCEPT ![h] = Append(@, e)]
      /\ pub'[p].next = n + 1 /\ pub'[p].at = "handlers" /\ pub'[p].event = e
      /\ pub'[p].calls = c
      /\ \A q \in Publisher \ {p} : pub'[q] = pub[q]
      /\ UNCHANGED <<published, handlers, owed>>
  <2>1. pub' = [pub EXCEPT ![p].next = n + 1] /\ seen' = [seen EXCEPT ![h] = Append(@, e)]
    <3>1. Calls(p) = c /\ ~(n > Len(Calls(p)))
      BY <1>2 DEF Calls
    <3>2. \/ /\ seen' = [seen EXCEPT ![Calls(p)[n]] = Append(@, e)]
             /\ pub' = [pub EXCEPT ![p].next = n + 1]
          \/ n > Len(Calls(p))
      BY DEF Call
    <3> QED
      BY <3>1, <3>2
  <2>2. UNCHANGED <<published, handlers, owed>>
    BY DEF Call
  <2>3. /\ pub'[p].next = n + 1 /\ pub'[p].at = pub[p].at /\ pub'[p].event = e
        /\ pub'[p].calls = c
    BY <1>1, <2>1 DEF Publication
  <2>4. \A q \in Publisher \ {p} : pub'[q] = pub[q]
    BY <1>1, <2>1
  <2> QED
    BY <1>2, <2>1, <2>2, <2>3, <2>4
<1> HIDE DEF h, e, c, n
<1>6. /\ \A g \in Handler \ {h} : seen'[g] = seen[g]
      /\ seen'[h] = Append(seen[h], e)
      /\ Len(seen'[h]) = Len(seen[h]) + 1 /\ Len(seen[h]) \in Nat
      /\ seen'[h][Len(seen[h]) + 1] = e
      /\ \A k \in 1 .. Len(seen[h]) : seen'[h][k] = seen[h][k]
  BY <1>1, <1>3, <1>4, <1>5, AppendProperties
<1>7. \A g \in Handler, x \in Event : Saw(seen', g, x) <=> Saw(seen, g, x) \/ (g = h /\ x = e)
  <2> SUFFICES ASSUME NEW g \in Handler, NEW x \in Event
               PROVE  Saw(seen', g, x) <=> Saw(seen, g, x) \/ (g = h /\ x = e)
    OBVIOUS
  <2>1. CASE g = h
    <3>1. 1 .. Len(seen[h]) + 1 = (1 .. Len(seen[h])) \cup {Len(seen[h]) + 1}
      BY <1>6
    <3> QED
      BY <1>6, <2>1, <3>1 DEF Saw
  <2>2. CASE g # h
    BY <1>6, <2>2 DEF Saw
  <2> QED
    BY <2>1, <2>2
<1>8. Copy(p)'
  <2>1. \A i \in 1 .. Len(c) : Saw(seen', c[i], e) <=> i < n + 1
    <3> SUFFICES ASSUME NEW i \in 1 .. Len(c) PROVE Saw(seen', c[i], e) <=> i < n + 1
      OBVIOUS
    <3>1. c[i] \in Handler /\ (c[i] = h <=> i = n)
      <4>1. c[i] \in Handler
        BY <1>2
      <4>2. c[i] = c[n] => i = n
        BY <1>2 DEF Distinct
      <4> QED
        BY <4>1, <4>2 DEF h
    <3>2. Saw(seen', c[i], e) <=> Saw(seen, c[i], e) \/ c[i] = h
      BY <1>4, <1>7, <3>1
    <3> QED
      BY <1>2, <3>1, <3>2
  <2>2. n + 1 \in 1 .. Len(c) + 1
    BY <1>2
  <2> QED
    BY <1>2, <1>5, <2>1, <2>2 DEF Copy
<1>9. ASSUME NEW q \in Publisher \ {p} PROVE Copy(q)'
  <2>1. Copy(q) /\ pub'[q] = pub[q] /\ pub[q] \in Publication /\ pub[q].event # e
    BY <1>1, <1>4, <1>5
  <2> SUFFICES ASSUME pub[q].at = "handlers"
               PROVE  \A i \in 1 .. Len(pub[q].calls) :
                          Saw(seen', pub[q].calls[i], pub[q].event) <=> i < pub[q].next
    BY <1>5, <2>1 DEF Copy
  <2>2. pub[q].event \in Event
    BY <2>1 DEF AtWork, Publication, None
  <2>3. \A i \in 1 .. Len(pub[q].calls) : pub[q].calls[i] \in Handler
    BY <2>1 DEF Publication
  <2> QED
    BY <1>4, <1>7, <2>1, <2>2, <2>3 DEF Copy
<1>10. ASSUME NEW g \in Handler PROVE Seen(g)'
  <2>1. Seen(g) /\ \A x \in 1 .. Len(published) : x \in Event
    BY <1>1, MaxEventsAssumption DEF TypeOK, Event
  <2>2. ASSUME NEW x \in 1 .. Len(published), g \in owed[x]
        PROVE  \/ Saw(seen', g, x)
               \/ \E q \in Publisher : pub'[q].event = x /\ pub'[q].at = "handlers"
    <3>1. \/ Saw(seen, g, x)
          \/ \E q \in Publisher : pub[q].event = x /\ pub[q].at = "handlers"
      BY <2>1, <2>2 DEF Seen
    <3>2. \A q \in Publisher : pub'[q].event = pub[q].event /\ pub'[q].at = pub[q].at
      BY <1>2, <1>5 DEF e
    <3> QED
      BY <1>7, <2>1, <3>1, <3>2
  <2>3. Distinct(seen[g])' /\ \A k \in 1 .. Len(seen'[g]) :
            seen'[g][k] \in 1 .. Len(published) /\ g \in owed[seen'[g][k]]
    <3>1. CASE g = h
      <4>1. Distinct(Append(seen[h], e))
        BY <1>3, <1>4, <2>1, <3>1, AppendDistinct DEF Seen, Saw
      <4>2. \A k \in 1 .. Len(seen[h]) + 1 : k \in 1 .. Len(seen[h]) \/ k = Len(seen[h]) + 1
        BY <1>6
      <4> QED
        BY <1>3, <1>4, <1>6, <2>1, <3>1, <4>1, <4>2 DEF Seen
    <3>2. CASE g # h
      BY <1>6, <2>1, <3>2 DEF Seen
    <3> QED
      BY <3>1, <3>2
  <2> QED
    BY <1>5, <2>2, <2>3 DEF Seen
<1> QED
  BY <1>5, <1>8, <1>9, <1>10 DEF Called

\* A publisher has called its whole copy.
LEMMA CalledAll ==
    ASSUME IInv, NEW p \in Publisher, Call(p), ~(pub[p].next <= Len(pub[p].calls))
    PROVE  Called'
<1> USE DEF IInv
<1> DEFINE e == pub[p].event
           c == pub[p].calls
<1>1. /\ pub \in [Publisher -> Publication] /\ pub[p] \in Publication
      /\ \A q \in Publisher : Copy(q)
      /\ \A g \in Handler : Seen(g)
  BY DEF TypeOK, Publication, Called
<1>2. /\ Len(c) \in Nat /\ pub[p].at = "handlers"
      /\ \A g \in Handler : g \in owed[e] => Saw(seen, g, e)
  <2>1. pub[p].at = "handlers" /\ c \in Seq(Handler) /\ pub[p].next \in Nat
    BY <1>1 DEF Publication, Call
  <2>2. /\ \A g \in Handler : g \in owed[e] => \E i \in 1 .. Len(c) : c[i] = g
        /\ \A i \in 1 .. Len(c) : Saw(seen, c[i], e) <=> i < pub[p].next
    BY <1>1, <2>1 DEF Copy
  <2>3. \A i \in 1 .. Len(c) : i < pub[p].next
    BY <2>1
  <2> QED
    BY <2>1, <2>2, <2>3
<1>3. /\ pub'[p].at = "locking"
      /\ \A q \in Publisher \ {p} : pub'[q] = pub[q]
      /\ UNCHANGED <<published, handlers, owed, seen>>
  BY <1>1, <1>2 DEF Call, Calls, Publication
<1>4. ASSUME NEW q \in Publisher PROVE Copy(q)'
  <2>1. CASE q = p
    BY <1>3, <2>1 DEF Copy
  <2>2. CASE q # p
    BY <1>1, <1>3, <2>2 DEF Copy
  <2> QED
    BY <2>1, <2>2
<1>5. ASSUME NEW g \in Handler PROVE Seen(g)'
  <2>1. Seen(g)
    BY <1>1
  <2>2. ASSUME NEW x \in 1 .. Len(published), g \in owed[x]
        PROVE  \/ Saw(seen, g, x)
               \/ \E q \in Publisher : pub'[q].event = x /\ pub'[q].at = "handlers"
    <3>1. \/ Saw(seen, g, x)
          \/ \E q \in Publisher : pub[q].event = x /\ pub[q].at = "handlers"
      BY <2>1, <2>2 DEF Seen
    <3> QED
      BY <1>2, <1>3, <2>2, <3>1
  <2> QED
    BY <1>3, <2>1, <2>2 DEF Seen
<1> QED
  BY <1>3, <1>4, <1>5 DEF Called

LEMMA CalledInv == IInv /\ [Next]_vars => Called'
<1> SUFFICES ASSUME IInv, [Next]_vars PROVE Called'
  OBVIOUS
<1> USE DEF IInv
<1>1. /\ pub \in [Publisher -> Publication] /\ handlers \in Seq(Handler)
      /\ Distinct(handlers)
  BY DEF TypeOK, Publication, Called
<1>2. CASE UNCHANGED <<handlers, pub, published, owed, seen>>
  <2>1. Distinct(handlers)'
    BY <1>1, <1>2
  <2> QED
    BY <1>2, <2>1, CalledFrame
<1>3. ASSUME NEW h \in Handler, Subscribe(h) \/ Unsubscribe(h) PROVE Called'
  <2>1. UNCHANGED <<pub, published, owed, seen>>
    BY <1>3 DEF Subscribe, Unsubscribe
  <2>2. Distinct(handlers')
    <3>1. CASE Subscribe(h)
      <4>1. /\ handlers' = Append(handlers, h)
            /\ \A k \in 1 .. Len(handlers) : handlers[k] # h
        BY <1>1, <3>1 DEF Subscribe, ToSet
      <4>2. Distinct(Append(handlers, h))
        BY <1>1, <4>1, AppendDistinct
      <4> QED
        BY <4>1, <4>2
    <3>2. CASE Unsubscribe(h)
      <4>1. PICK i \in DOMAIN handlers : handlers' = RemoveAt(handlers, i)
        BY <3>2 DEF Unsubscribe
      <4>2. i \in 1 .. Len(handlers)
        BY <1>1, <4>1
      <4> QED
        BY <1>1, <4>1, <4>2, RemoveAtDistinct
    <3> QED
      BY <1>3, <3>1, <3>2
  <2>3. Distinct(handlers)'
    BY <2>2
  <2> QED
    BY <2>1, <2>3, CalledFrame
<1>4. ASSUME NEW p \in Publisher, Call(p) \/ Publish(p) PROVE Called'
  BY <1>4, CalledCall, CalledAll, CalledPublish
<1>5. ASSUME NEW p \in Publisher,
             LockSinks(p) \/ Return(p) \/ \E s \in Sink : Offer(p, s)
      PROVE  Called'
  <2>1. UNCHANGED <<handlers, published, owed, seen>>
    BY <1>5 DEF LockSinks, Return, Offer
  <2>2. pub'[p].at # "handlers" /\ pub[p].at # "handlers"
    BY <1>1, <1>5 DEF LockSinks, Return, Offer, Offered, Quiet, Publication
  <2>3. \A q \in Publisher \ {p} : pub'[q] = pub[q]
    BY <1>1, <1>5 DEF LockSinks, Return, Offer, Offered
  <2>4. Distinct(handlers)'
    BY <1>1, <2>1
  <2> QED
    BY <2>1, <2>2, <2>3, <2>4, CalledFrame
<1>6. Interrupt \/ CloseBus \/ ShutdownReturns \/ Exit \/ UNCHANGED vars
      => UNCHANGED <<handlers, pub, published, owed, seen>>
  BY DEF Interrupt, CloseBus, ShutdownReturns, Exit, vars
<1>7. ASSUME NEW s \in Sink, Pumping(s) \/ AttachSink(s) \/ CloseSink(s)
      PROVE  UNCHANGED <<handlers, pub, published, owed, seen>>
  BY <1>7 DEF Pumping, Take, Consume, PumpEnds, AttachSink, CloseSink
<1> QED
  BY <1>2, <1>3, <1>4, <1>5, <1>6, <1>7 DEF Next, Publishing, Stopping

-----------------------------------------------------------------------------

\* The invariant holds in every reachable state.
THEOREM Invariance == Spec => []IInv
<1>1. Init => IInv
  BY InitInv
<1>2. IInv /\ [Next]_vars => IInv'
  BY TypeInv, ClosingInv, AtWorkInv, PlacedInv, OrderInv, CalledInv DEF IInv
<1> QED
  BY <1>1, <1>2, PTL DEF Spec

\* Every variable keeps its type; in particular no channel holds more events than
\* its capacity.
THEOREM TypeCorrectness == Spec => []TypeOK
<1>1. IInv => TypeOK
  BY DEF IInv
<1> QED
  BY <1>1, Invariance, PTL

\* Publish never sends on a channel that Shutdown has closed; the process of a
\* command ends with what its sinks accepted consumed.
THEOREM ShutdownLeavesNothing == Spec => []ShutdownIsClean
<1>1. IInv => ShutdownIsClean
  <2> SUFFICES ASSUME IInv PROVE ShutdownIsClean
    OBVIOUS
  <2>1. NoSendAfterClose
    BY DEF IInv, AtWork, NoSendAfterClose
  <2>2. ASSUME OneShot, exited, NEW s \in Sink
        PROVE  sink[s].buffer = <<>> /\ sink[s].hand = None
    BY <2>2 DEF IInv, Closing
  <2> QED
    BY <2>1, <2>2 DEF ShutdownIsClean, DrainedAtExit
<1> QED
  BY <1>1, Invariance, PTL

\* Exactly one of four cases.
LEMMA ExactlyOne ==
    ASSUME NEW a \in BOOLEAN, NEW b \in BOOLEAN, NEW c \in BOOLEAN, NEW d \in BOOLEAN,
           a \/ b \/ c \/ d,
           ~(a /\ b), ~(a /\ c), ~(a /\ d), ~(b /\ c), ~(b /\ d), ~(c /\ d)
    PROVE  Cardinality({x \in {"underway", "received", "dropped", "missed"} :
                \/ x = "underway" /\ a
                \/ x = "received" /\ b
                \/ x = "dropped" /\ c
                \/ x = "missed" /\ d}) = 1
<1> DEFINE S == {x \in {"underway", "received", "dropped", "missed"} :
                \/ x = "underway" /\ a
                \/ x = "received" /\ b
                \/ x = "dropped" /\ c
                \/ x = "missed" /\ d}
<1>1. \E x \in {"underway", "received", "dropped", "missed"} : S = {x}
  <2>1. CASE a
    <3>1. ~b /\ ~c /\ ~d
      BY <2>1
    <3>2. "underway" \in S /\ \A x \in S : x = "underway"
      BY <2>1, <3>1
    <3>3. S = {"underway"}
      BY <3>2
    <3> QED
      BY <3>3
  <2>2. CASE b
    <3>1. ~a /\ ~c /\ ~d
      BY <2>2
    <3>2. "received" \in S /\ \A x \in S : x = "received"
      BY <2>2, <3>1
    <3>3. S = {"received"}
      BY <3>2
    <3> QED
      BY <3>3
  <2>3. CASE c
    <3>1. ~a /\ ~b /\ ~d
      BY <2>3
    <3>2. "dropped" \in S /\ \A x \in S : x = "dropped"
      BY <2>3, <3>1
    <3>3. S = {"dropped"}
      BY <3>2
    <3> QED
      BY <3>3
  <2>4. CASE d
    <3>1. ~a /\ ~b /\ ~c
      BY <2>4
    <3>2. "missed" \in S /\ \A x \in S : x = "missed"
      BY <2>4, <3>1
    <3>3. S = {"missed"}
      BY <3>2
    <3> QED
      BY <3>3
  <2> QED
    BY <2>1, <2>2, <2>3, <2>4
<1> HIDE DEF S
<1>2. Cardinality(S) = 1
  BY <1>1, FS_Singleton
<1> QED
  BY <1>2 DEF S

\* No event is seen twice by a handler.
LEMMA SeenOnce ==
    ASSUME NEW q \in Seq(Event), Distinct(q), NEW e
    PROVE  LET times == Cardinality({i \in 1 .. Len(q) : q[i] = e})
           IN  IF \E i \in 1 .. Len(q) : q[i] = e THEN times = 1 ELSE times = 0
<1> DEFINE S == {i \in 1 .. Len(q) : q[i] = e}
<1>1. CASE \E i \in 1 .. Len(q) : q[i] = e
  <2>1. PICK i \in 1 .. Len(q) : q[i] = e
    BY <1>1
  <2>2. S = {i}
    BY <2>1 DEF Distinct
  <2> QED
    BY <1>1, <2>2, FS_Singleton
<1>2. CASE ~ \E i \in 1 .. Len(q) : q[i] = e
  <2>1. S = {}
    BY <1>2
  <2> QED
    BY <1>2, <2>1, FS_EmptySet
<1> QED
  BY <1>1, <1>2

\* For every sink an event published since it was attached is on its way,
\* received, counted as dropped or found the bus closed, and one of these only;
\* what one publisher publishes arrives in order; and every handler subscribed
\* when the event was published is called with it once and no other is.
THEOREM EventsAreAccountedFor == Spec => []EveryEventIsAccountedFor
<1>1. IInv => SinksLoseNothingSilently
  <2> SUFFICES ASSUME IInv, NEW s \in Sink, sink[s].on # "detached",
                      NEW e \in sink[s].since + 1 .. Len(published)
               PROVE  Cardinality({c \in {"underway", "received", "dropped", "missed"} :
                          \/ c = "underway" /\ Underway(e, s)
                          \/ c = "received" /\ e \in ToSet(Received(s))
                          \/ c = "dropped" /\ e \in sink[s].dropped
                          \/ c = "missed" /\ e \in missed}) = 1
    BY DEF SinksLoseNothingSilently
  <2>1. Underway(e, s) \in BOOLEAN
        /\ (Underway(e, s) <=> \E p \in Publisher : pub[p].event = e /\ Owes(p, s))
    BY DEF Underway, Owes
  <2>2. InOnePlace(s) /\ Somewhere(s) /\ \A p \in Publisher : NotYet(p, s)
    BY DEF IInv, Placed
  <2>3. /\ Underway(e, s) \/ e \in Has(s) \/ e \in sink[s].dropped \/ e \in missed
        /\ ~(e \in Has(s) /\ e \in sink[s].dropped)
        /\ ~(e \in Has(s) /\ e \in missed) /\ ~(e \in sink[s].dropped /\ e \in missed)
    BY <2>1, <2>2 DEF InOnePlace, Somewhere
  <2>4. Underway(e, s) => e \notin Has(s) /\ e \notin sink[s].dropped /\ e \notin missed
    BY <2>1, <2>2 DEF NotYet, IInv, Placed
  <2>5. (e \in Has(s)) \in BOOLEAN /\ (e \in sink[s].dropped) \in BOOLEAN
        /\ (e \in missed) \in BOOLEAN
    OBVIOUS
  <2>6. PICK a \in BOOLEAN : a <=> Underway(e, s)
    BY <2>1
  <2>7. PICK b \in BOOLEAN : b <=> e \in Has(s)
    BY <2>5
  <2>8. PICK c \in BOOLEAN : c <=> e \in sink[s].dropped
    BY <2>5
  <2>9. PICK d \in BOOLEAN : d <=> e \in missed
    BY <2>5
  <2>10. Cardinality({x \in {"underway", "received", "dropped", "missed"} :
                \/ x = "underway" /\ a
                \/ x = "received" /\ b
                \/ x = "dropped" /\ c
                \/ x = "missed" /\ d}) = 1
    BY <2>3, <2>4, <2>6, <2>7, <2>8, <2>9, ExactlyOne
  <2>11. {x \in {"underway", "received", "dropped", "missed"} :
                \/ x = "underway" /\ a
                \/ x = "received" /\ b
                \/ x = "dropped" /\ c
                \/ x = "missed" /\ d}
         = {x \in {"underway", "received", "dropped", "missed"} :
                \/ x = "underway" /\ Underway(e, s)
                \/ x = "received" /\ e \in ToSet(Received(s))
                \/ x = "dropped" /\ e \in sink[s].dropped
                \/ x = "missed" /\ e \in missed}
    <3>1. d <=> e \in missed
      BY <2>9
    <3>2. b <=> e \in ToSet(Received(s))
      BY <2>7 DEF Has
    <3> QED
      BY <2>6, <2>8, <3>1, <3>2, Zenon
  <2> QED
    BY <2>10, <2>11
<1>2. IInv => HandlersSeeEveryEvent
  <2> SUFFICES ASSUME IInv, NEW e \in 1 .. Len(published), NEW h \in Handler
               PROVE  LET times == Cardinality({i \in 1 .. Len(seen[h]) : seen[h][i] = e})
                          inCall == \E p \in Publisher :
                                        pub[p].event = e /\ pub[p].at = "handlers"
                      IN  IF h \notin owed[e] THEN times = 0
                          ELSE times <= 1 /\ (times = 1 \/ inCall)
    BY DEF HandlersSeeEveryEvent
  <2> DEFINE times == Cardinality({i \in 1 .. Len(seen[h]) : seen[h][i] = e})
  <2>1. Seen(h) /\ seen[h] \in Seq(Event)
    BY DEF IInv, Called, TypeOK
  <2>2. IF Saw(seen, h, e) THEN times = 1 ELSE times = 0
    BY <2>1, SeenOnce DEF Seen, Saw
  <2>3. Saw(seen, h, e) => h \in owed[e]
    BY <2>1 DEF Seen, Saw
  <2>4. h \in owed[e] => \/ Saw(seen, h, e)
                         \/ \E p \in Publisher : pub[p].event = e /\ pub[p].at = "handlers"
    BY <2>1 DEF Seen
  <2> HIDE DEF times
  <2>5. IF h \notin owed[e] THEN times = 0
        ELSE /\ times <= 1
             /\ \/ times = 1
                \/ \E p \in Publisher : pub[p].event = e /\ pub[p].at = "handlers"
    BY <2>2, <2>3, <2>4
  <2> QED
    BY <2>5 DEF times
<1>3. IInv => EveryEventIsAccountedFor
  BY <1>1, <1>2 DEF IInv, EveryEventIsAccountedFor
<1> QED
  BY <1>3, Invariance, PTL

-----------------------------------------------------------------------------
(***************************************************************************)
(* One connection to the live feed (Gateway).  While its socket is open it *)
(* is subscribed to every type from the moment on from which the client is *)
(* owed the events, and has nothing to replay before it looks back; so an  *)
(* event that is owed is sent, on its way, or to be replayed.              *)
(***************************************************************************)
Shown(q) == {q[i].event : i \in 1 .. Len(q)}

FeedTypes ==
    /\ log \in Seq([type : Type, session : Session])
    /\ calling \in [Publisher -> Nat]
    /\ conn \in [at : {"subscribing", "greeting", "greeted", "replaying",
                       "pumping", "leaving", "gone"},
                 replay : Seq(Nat)]
    /\ send \in Seq([event : Nat, live : BOOLEAN])
    /\ frames \in Seq([event : Nat, live : BOOLEAN])
    /\ from \in Nat \ {0}

\* An event that the client is owed and may see is sent, on its way or to be
\* replayed.
Owed ==
    \A e \in from .. Len(log) :
        \/ ~Feed!Visible(e)
        \/ e \in Shown(frames) \cup Shown(send)
        \/ \E p \in Publisher : calling[p] = e
        \/ \E i \in 1 .. Len(conn.replay) : conn.replay[i] = e

\* The handler is there from the first event owed until the socket is closed.
Listening ==
    /\ conn.at = "subscribing" => from = FeedEvents + 1
    /\ conn.at # "subscribing" => subs = Type
    /\ conn.at \notin {"leaving", "gone"}
    /\ conn.at \in {"subscribing", "greeting", "greeted"} => conn.replay = <<>>

FeedInv == /\ FeedTypes /\ Len(log) <= FeedEvents
           /\ ~broken => Listening /\ Owed

FeedFrame == [event : Nat, live : BOOLEAN]

LEMMA ShownAppend ==
  ASSUME NEW q \in Seq(FeedFrame), NEW f \in FeedFrame
  PROVE  /\ Append(q, f) \in Seq(FeedFrame)
         /\ Shown(Append(q, f)) = Shown(q) \cup {f.event}
<1>1. /\ Append(q, f) \in Seq(FeedFrame) /\ Len(Append(q, f)) = Len(q) + 1
      /\ \A i \in 1 .. Len(q) : Append(q, f)[i] = q[i]
      /\ Append(q, f)[Len(q) + 1] = f
  OBVIOUS
<1>2. Len(q) \in Nat
  OBVIOUS
<1>3. Shown(Append(q, f)) \subseteq Shown(q) \cup {f.event}
  <2> SUFFICES ASSUME NEW i \in 1 .. Len(q) + 1
               PROVE  Append(q, f)[i].event \in Shown(q) \cup {f.event}
    BY <1>1 DEF Shown
  <2>1. CASE i = Len(q) + 1
    BY <1>1, <2>1
  <2>2. CASE i \in 1 .. Len(q)
    BY <1>1, <2>2 DEF Shown
  <2> QED
    BY <1>2, <2>1, <2>2
<1>4. f.event \in Shown(Append(q, f))
  BY <1>1, <1>2 DEF Shown
<1>5. Shown(q) \subseteq Shown(Append(q, f))
  <2> SUFFICES ASSUME NEW i \in 1 .. Len(q) PROVE q[i].event \in Shown(Append(q, f))
    BY DEF Shown
  <2>1. i \in 1 .. Len(Append(q, f)) /\ Append(q, f)[i].event = q[i].event
    BY <1>1, <1>2
  <2> QED
    BY <2>1 DEF Shown
<1> QED
  BY <1>1, <1>3, <1>4, <1>5

LEMMA ShownHead ==
  ASSUME NEW q \in Seq(FeedFrame), q # <<>>
  PROVE  /\ Head(q) \in FeedFrame /\ Tail(q) \in Seq(FeedFrame)
         /\ Shown(q) \subseteq {Head(q).event} \cup Shown(Tail(q))
<1>1. /\ Head(q) \in FeedFrame /\ Tail(q) \in Seq(FeedFrame) /\ Head(q) = q[1]
      /\ Len(q) \in Nat \ {0} /\ Len(Tail(q)) = Len(q) - 1
      /\ \A i \in 1 .. Len(Tail(q)) : Tail(q)[i] = q[i + 1]
  OBVIOUS
<1>2. ASSUME NEW i \in 1 .. Len(q) PROVE q[i].event \in {Head(q).event} \cup Shown(Tail(q))
  <2>1. CASE i = 1
    BY <1>1, <2>1
  <2>2. CASE i # 1
    <3>1. i - 1 \in 1 .. Len(Tail(q)) /\ Tail(q)[i - 1] = q[i]
      BY <1>1, <2>2
    <3> QED
      BY <3>1 DEF Shown
  <2> QED
    BY <2>1, <2>2
<1> QED
  BY <1>1, <1>2 DEF Shown

LEMMA FeedInit == Feed!Init => FeedInv
<1> SUFFICES ASSUME Feed!Init PROVE FeedInv
  OBVIOUS
<1>1. FeedTypes
  BY FeedIsBounded DEF Feed!Init, FeedTypes, Feed!MaxEventsAssumption
<1>2. Listening /\ Owed /\ Len(log) <= FeedEvents
  BY FeedIsBounded DEF Feed!Init, Listening, Owed, Feed!MaxEventsAssumption
<1> QED
  BY <1>1, <1>2 DEF FeedInv

LEMMA PublishKeepsFeed ==
  ASSUME FeedInv, NEW p \in Publisher, Feed!Publish(p)
  PROVE  FeedInv'
<1>1. PICK t \in Type, s \in Session :
         /\ log' = Append(log, [type |-> t, session |-> s])
         /\ calling' = [calling EXCEPT ![p] = IF t \in subs THEN Len(log) + 1 ELSE 0]
  BY DEF Feed!Publish
<1>2. /\ calling[p] = 0 /\ Len(log) < FeedEvents
      /\ UNCHANGED <<subs, conn, send, broken, frames, from>>
  BY DEF Feed!Publish
<1>3. /\ log' \in Seq([type : Type, session : Session]) /\ Len(log') = Len(log) + 1
      /\ \A e \in 1 .. Len(log) : log'[e] = log[e]
      /\ Len(log) \in Nat
  BY <1>1 DEF FeedInv, FeedTypes
<1>4. FeedTypes'
  BY <1>1, <1>2, <1>3 DEF FeedInv, FeedTypes
<1>5. ASSUME ~broken' PROVE Listening' /\ Owed'
  <2>1. Listening'
    BY <1>2, <1>5 DEF FeedInv, Listening
  <2>2. ASSUME NEW e \in from' .. Len(log')
        PROVE  \/ ~Feed!Visible(e)'
               \/ e \in Shown(frames)' \cup Shown(send)'
               \/ \E x \in Publisher : calling'[x] = e
               \/ \E i \in 1 .. Len(conn'.replay) : conn'.replay[i] = e
    <3>1. CASE e \in from .. Len(log)
      <4>3. e \in 1 .. Len(log)
        BY <1>3, <3>1 DEF FeedInv, FeedTypes
      <4>1. ~Feed!Visible(e) => ~Feed!Visible(e)'
        BY <1>3, <4>3 DEF Feed!Visible
      <4>2. \A x \in Publisher : calling[x] = e => calling'[x] = e
        BY <1>1, <1>2, <3>1 DEF FeedInv, FeedTypes
      <4> QED
        BY <1>2, <1>5, <3>1, <4>1, <4>2 DEF FeedInv, Owed, Shown
    <3>2. CASE e = Len(log) + 1
      <4>1. from # FeedEvents + 1
        BY <1>2, <1>3, <3>2, FeedIsBounded DEF FeedInv, FeedTypes, Feed!MaxEventsAssumption
      <4>2. t \in subs
        BY <1>2, <1>5, <4>1 DEF FeedInv, Listening
      <4> QED
        BY <1>1, <3>2, <4>2 DEF FeedInv, FeedTypes
    <3> QED
      BY <1>2, <1>3, <3>1, <3>2 DEF FeedInv, FeedTypes
  <2> QED
    BY <2>1, <2>2 DEF Owed
<1> QED
  <2>1. Len(log') <= FeedEvents
    BY <1>2, <1>3, FeedIsBounded DEF Feed!MaxEventsAssumption
  <2> QED
    BY <1>4, <1>5, <2>1 DEF FeedInv

\* What the handler is called with is queued, or not for this client, or the
\* socket is closed.
LEMMA HandleQueues ==
  ASSUME FeedTypes, NEW e \in Nat, NEW live \in BOOLEAN, Feed!Handle(e, live)
  PROVE  /\ send' \in Seq(FeedFrame) /\ (broken => broken')
         /\ Shown(send) \subseteq Shown(send')
         /\ ~broken' => ~Feed!Visible(e) \/ e \in Shown(send')
<1> DEFINE f == [event |-> e, live |-> live]
<1>1. send \in Seq(FeedFrame) /\ f \in FeedFrame /\ f.event = e
  BY DEF FeedTypes, FeedFrame
<1>2. Append(send, f) \in Seq(FeedFrame) /\ Shown(Append(send, f)) = Shown(send) \cup {e}
  BY <1>1, ShownAppend
<1>3. \/ ~Feed!Visible(e) /\ send' = send /\ broken' = broken
      \/ send' = Append(send, f) /\ broken' = broken
      \/ broken' = TRUE /\ send' = send
  BY DEF Feed!Handle
<1> HIDE DEF f
<1>4. broken => broken'
  BY Zenon, <1>3
<1>5. send' = send \/ send' = Append(send, f)
  BY <1>3
<1>6. send' \in Seq(FeedFrame) /\ Shown(send) \subseteq Shown(send')
  BY <1>1, <1>2, <1>5
<1>7. ~broken' => ~Feed!Visible(e) \/ e \in Shown(send')
  BY <1>2, <1>3
<1> QED
  BY <1>4, <1>6, <1>7

LEMMA DeliverKeepsFeed ==
  ASSUME FeedInv, NEW p \in Publisher, Feed!Deliver(p)
  PROVE  FeedInv'
<1> DEFINE e == calling[p]
           live == TRUE
<1>1. /\ calling' = [calling EXCEPT ![p] = 0] /\ Feed!Handle(e, live)
      /\ UNCHANGED <<log, subs, conn, frames, from>>
  BY DEF Feed!Deliver
<1>2. FeedTypes /\ e \in Nat /\ live \in BOOLEAN
  BY DEF FeedInv, FeedTypes
<1> HIDE DEF live
<1>3. /\ send' \in Seq(FeedFrame) /\ (broken => broken')
      /\ Shown(send) \subseteq Shown(send')
      /\ ~broken' => ~Feed!Visible(e) \/ e \in Shown(send')
  BY <1>1, <1>2, HandleQueues
<1>4. FeedTypes'
  BY <1>1, <1>2, <1>3 DEF FeedTypes, FeedFrame
<1>5. ASSUME ~broken' PROVE Listening' /\ Owed'
  <2>1. Listening'
    BY <1>1, <1>3, <1>5 DEF FeedInv, Listening
  <2>2. \A c : Feed!Visible(c)' = Feed!Visible(c)
    BY <1>1 DEF Feed!Visible
  <2>3. Shown(frames)' = Shown(frames) /\ Shown(send)' = Shown(send')
    BY <1>1 DEF Shown
  <2>4. \A x \in Publisher : x # p => calling'[x] = calling[x]
    BY <1>1, <1>2 DEF FeedTypes
  <2> QED
    BY <1>1, <1>3, <1>5, <2>1, <2>2, <2>3, <2>4 DEF FeedInv, Owed
<1> QED
  BY <1>1, <1>4, <1>5 DEF FeedInv

LEMMA ReplayKeepsFeed ==
  ASSUME FeedInv, Feed!ReplayNext
  PROVE  FeedInv'
<1> DEFINE q == conn.replay
           e == Head(q)
           live == FALSE
<1>1. /\ conn.at = "replaying" /\ q # <<>> /\ Feed!Handle(e, live)
      /\ conn' = [conn EXCEPT !.replay = Tail(q)]
      /\ UNCHANGED <<log, calling, subs, frames, from>>
  BY DEF Feed!ReplayNext
<1>2. FeedTypes /\ q \in Seq(Nat) /\ live \in BOOLEAN
  BY DEF FeedInv, FeedTypes
<1> HIDE DEF live
<1>3. /\ e \in Nat /\ Tail(q) \in Seq(Nat) /\ e = q[1]
      /\ Len(q) \in Nat \ {0} /\ Len(Tail(q)) = Len(q) - 1
      /\ \A i \in 1 .. Len(Tail(q)) : Tail(q)[i] = q[i + 1]
  BY <1>1, <1>2
<1>4. /\ send' \in Seq(FeedFrame) /\ (broken => broken')
      /\ Shown(send) \subseteq Shown(send')
      /\ ~broken' => ~Feed!Visible(e) \/ e \in Shown(send')
  BY <1>1, <1>2, <1>3, HandleQueues
<1>5. conn'.at = conn.at /\ conn'.replay = Tail(q)
  BY <1>1, <1>2 DEF FeedTypes
<1>6. FeedTypes'
  BY <1>1, <1>2, <1>3, <1>4 DEF FeedTypes, FeedFrame
<1>7. ASSUME ~broken' PROVE Listening' /\ Owed'
  <2>1. Listening'
    BY <1>1, <1>4, <1>5, <1>7 DEF FeedInv, Listening
  <2>2. \A c : Feed!Visible(c)' = Feed!Visible(c)
    BY <1>1 DEF Feed!Visible
  <2>3. Shown(frames)' = Shown(frames) /\ Shown(send)' = Shown(send')
    BY <1>1 DEF Shown
  <2>4. ASSUME NEW i \in 1 .. Len(q), q[i] # e
        PROVE  \E j \in 1 .. Len(conn'.replay) : conn'.replay[j] = q[i]
    <3>1. i - 1 \in 1 .. Len(Tail(q)) /\ Tail(q)[i - 1] = q[i]
      BY <1>3, <2>4
    <3> QED
      BY <1>5, <3>1
  <2> HIDE DEF q, e
  <2>5. \A i \in 1 .. Len(conn.replay) : conn.replay[i] = e \/
           \E j \in 1 .. Len(conn'.replay) : conn'.replay[j] = conn.replay[i]
    BY <2>4 DEF q
  <2> QED
    BY <1>1, <1>4, <1>7, <2>1, <2>2, <2>3, <2>5 DEF FeedInv, Owed
<1> QED
  BY <1>1, <1>6, <1>7 DEF FeedInv

LEMMA LookBackKeepsFeed ==
  ASSUME FeedInv, Feed!LookBack
  PROVE  FeedInv'
<1> DEFINE first == IF Len(log) > Window THEN Len(log) - Window + 1 ELSE 1
           past == [i \in 1 .. Len(log) - first + 1 |-> first + i - 1]
<1>1. /\ conn.at = "greeted" /\ UNCHANGED <<log, calling, subs, send, broken, frames>>
      /\ \/ conn' = [at |-> "replaying", replay |-> past]
            /\ from' = IF first < from THEN first ELSE from
         \/ conn' = [conn EXCEPT !.at = "replaying"] /\ from' = from
  BY DEF Feed!LookBack, Feed!GoTo
<1>2. FeedTypes /\ Len(log) \in Nat
  BY DEF FeedInv, FeedTypes
<1>3. first \in Nat \ {0} /\ Len(log) - first + 1 \in Nat
  BY <1>2, FeedIsBounded DEF Feed!CapacityAssumption
<1>4. past \in Seq(Nat) /\ Len(past) = Len(log) - first + 1
      /\ \A e \in first .. Len(log) : \E i \in 1 .. Len(past) : past[i] = e
  <2> HIDE DEF first
  <2>1. past \in [1 .. Len(log) - first + 1 -> Nat]
    BY <1>3
  <2>2. past \in Seq(Nat) /\ Len(past) = Len(log) - first + 1
    BY <1>3, <2>1, SeqDef, LenProperties
  <2>3. ASSUME NEW e \in first .. Len(log) PROVE \E i \in 1 .. Len(past) : past[i] = e
    <3>1. e - first + 1 \in 1 .. Len(log) - first + 1 /\ first + (e - first + 1) - 1 = e
      BY <1>2, <1>3
    <3>2. past[e - first + 1] = first + (e - first + 1) - 1
      BY <3>1
    <3> QED
      BY <2>2, <3>1, <3>2
  <2> QED
    BY <2>2, <2>3
<1> HIDE DEF past, first
<1>7. from' \in Nat \ {0}
  BY <1>1, <1>2, <1>3 DEF FeedTypes
<1>8. conn' \in [at : {"subscribing", "greeting", "greeted", "replaying",
                      "pumping", "leaving", "gone"}, replay : Seq(Nat)]
  <2>1. CASE conn' = [at |-> "replaying", replay |-> past]
    BY <1>4, <2>1
  <2>2. CASE conn' = [conn EXCEPT !.at = "replaying"]
    BY <1>2, <2>2 DEF FeedTypes
  <2> QED
    BY <1>1, <2>1, <2>2
<1>5. FeedTypes'
  BY <1>1, <1>2, <1>7, <1>8 DEF FeedTypes
<1>6. ASSUME ~broken' PROVE Listening' /\ Owed'
  <2>1. Listening /\ Owed
    BY <1>1, <1>6 DEF FeedInv
  <2>2. Listening'
    BY <1>1, <2>1, <1>2 DEF Listening, FeedTypes
  <2>3. \A c : Feed!Visible(c)' = Feed!Visible(c)
    BY <1>1 DEF Feed!Visible
  <2>4. Shown(frames)' = Shown(frames) /\ Shown(send)' = Shown(send)
    BY <1>1 DEF Shown
  <2>5. conn.replay = <<>> /\ Len(conn.replay) = 0
    BY <1>1, <2>1 DEF Listening
  <2>6. \A e \in from .. Len(log) :
          ~Feed!Visible(e) \/ e \in Shown(frames) \cup Shown(send) \/ \E p \in Publisher : calling[p] = e
    BY <2>1, <2>5 DEF Owed
  <2>7. \A e \in from' .. Len(log) : e \in from .. Len(log) \/
          (e \in first .. Len(log) /\ conn'.replay = past)
    BY <1>1, <1>2, <1>3 DEF FeedTypes
  <2> QED
    BY <1>1, <1>4, <2>2, <2>3, <2>4, <2>6, <2>7 DEF Owed
<1> QED
  BY <1>1, <1>5, <1>6 DEF FeedInv

\* A subscription: from the last one on, all that is published is owed.
LEMMA SubscribeKeepsFeed ==
  ASSUME FeedInv, NEW t \in Type, Feed!Subscribe(t)
  PROVE  FeedInv'
<1>1. /\ conn.at = "subscribing" /\ UNCHANGED <<log, calling, send, broken, frames>>
      /\ \/ subs' = Type /\ conn' = [conn EXCEPT !.at = "greeting"] /\ from' = Len(log) + 1
         \/ conn' = conn /\ from' = from
  BY DEF Feed!Subscribe, Feed!GoTo
<1>4. Len(log) \in Nat /\ FeedTypes
  BY DEF FeedInv, FeedTypes
<1>5. from' \in Nat \ {0}
  BY <1>1, <1>4 DEF FeedTypes
<1>2. FeedTypes'
  BY <1>1, <1>4, <1>5 DEF FeedTypes
<1>3. ASSUME ~broken' PROVE Listening' /\ Owed'
  <2>1. Listening'
    BY <1>1, <1>3 DEF FeedInv, FeedTypes, Listening
  <2>2. from' .. Len(log') = {}
    BY <1>1, <1>3, FeedIsBounded DEF FeedInv, FeedTypes, Listening, Feed!MaxEventsAssumption
  <2> QED
    BY <2>1, <2>2 DEF Owed
<1> QED
  BY <1>1, <1>2, <1>3 DEF FeedInv

\* What is written moves from the channel to the socket.
LEMMA WriteKeepsFeed ==
  ASSUME FeedInv, Feed!Write
  PROVE  FeedInv'
<1>1. /\ UNCHANGED <<log, calling, subs, conn, from, broken>>
      /\ \/ /\ send # <<>> /\ frames' = Append(frames, Head(send)) /\ send' = Tail(send)
         \/ UNCHANGED <<send, frames>>
  BY DEF Feed!Write
<1>2. CASE UNCHANGED <<send, frames>>
  BY <1>1, <1>2 DEF FeedInv, FeedTypes, Listening, Owed, Shown, Feed!Visible
<1>3. CASE send # <<>> /\ frames' = Append(frames, Head(send)) /\ send' = Tail(send)
  <2>1. send \in Seq(FeedFrame) /\ frames \in Seq(FeedFrame) /\ FeedTypes
    BY DEF FeedInv, FeedTypes, FeedFrame
  <2>2. /\ Head(send) \in FeedFrame /\ Tail(send) \in Seq(FeedFrame)
        /\ Shown(send) \subseteq {Head(send).event} \cup Shown(Tail(send))
    BY <1>3, <2>1, ShownHead
  <2>3. /\ frames' \in Seq(FeedFrame)
        /\ Shown(frames)' = Shown(frames) \cup {Head(send).event}
        /\ Shown(send)' = Shown(Tail(send))
    BY <1>3, <2>1, <2>2, ShownAppend DEF Shown
  <2>4. FeedTypes'
    BY <1>1, <1>3, <2>1, <2>2, <2>3 DEF FeedTypes, FeedFrame
  <2>5. \A c : Feed!Visible(c)' = Feed!Visible(c)
    BY <1>1 DEF Feed!Visible
  <2>6. Shown(frames) \cup Shown(send) \subseteq Shown(frames)' \cup Shown(send)'
    BY <2>2, <2>3
  <2>7. ASSUME ~broken' PROVE Listening' /\ Owed'
    <3>1. Listening'
      BY <1>1, <2>7 DEF FeedInv, Listening
    <3> QED
      BY <1>1, <2>5, <2>6, <2>7, <3>1 DEF FeedInv, Owed
  <2> QED
    BY <1>1, <2>4, <2>7 DEF FeedInv
<1> QED
  BY <1>1, <1>2, <1>3

LEMMA GreetKeepsFeed ==
  ASSUME FeedInv, Feed!Greet
  PROVE  FeedInv'
<1>1. /\ conn.at = "greeting" /\ send' = Append(send, Feed!Connected)
      /\ conn' = [conn EXCEPT !.at = "greeted"]
      /\ UNCHANGED <<log, calling, subs, broken, frames, from>>
  BY DEF Feed!Greet, Feed!GoTo
<1>2. /\ send \in Seq(FeedFrame) /\ Feed!Connected \in FeedFrame /\ FeedTypes
  BY DEF FeedInv, FeedTypes, FeedFrame, Feed!Connected
<1>3. /\ send' \in Seq(FeedFrame) /\ Shown(send) \subseteq Shown(send)'
  BY <1>1, <1>2, ShownAppend DEF Shown
<1>4. FeedTypes'
  BY <1>1, <1>2, <1>3 DEF FeedTypes, FeedFrame
<1>5. conn'.at = "greeted" /\ conn'.replay = conn.replay
  BY <1>1, <1>2 DEF FeedTypes
<1>6. \A c : Feed!Visible(c)' = Feed!Visible(c)
  BY <1>1 DEF Feed!Visible
<1>7. Shown(frames)' = Shown(frames)
  BY <1>1 DEF Shown
<1>8. ASSUME ~broken' PROVE Listening' /\ Owed'
  <2>1. Listening'
    BY <1>1, <1>5, <1>8 DEF FeedInv, Listening
  <2> QED
    BY <1>1, <1>3, <1>5, <1>6, <1>7, <1>8, <2>1 DEF FeedInv, Owed
<1> QED
  BY <1>1, <1>4, <1>8 DEF FeedInv

LEMMA FeedKept == FeedInv /\ [Feed!Next]_Feed!vars => FeedInv'
<1> SUFFICES ASSUME FeedInv, [Feed!Next]_Feed!vars PROVE FeedInv'
  OBVIOUS
<1>1. CASE UNCHANGED Feed!vars
  BY <1>1 DEF Feed!vars, FeedInv, FeedTypes, Listening, Owed, Shown, Feed!Visible
<1>2. CASE Feed!StartPumps
  <2>1. /\ conn.at = "replaying" /\ conn' = [conn EXCEPT !.at = "pumping"]
        /\ UNCHANGED <<log, calling, subs, send, broken, frames, from>>
    BY <1>2 DEF Feed!StartPumps, Feed!GoTo
  <2>2. conn'.at = "pumping" /\ conn'.replay = conn.replay
    BY <2>1 DEF FeedInv, FeedTypes
  <2>3. FeedTypes'
    BY <2>1 DEF FeedInv, FeedTypes
  <2> QED
    BY <2>1, <2>2, <2>3 DEF FeedInv, Listening, Owed, Shown, Feed!Visible
<1>3. CASE Feed!ReadEnds
  BY <1>3 DEF Feed!ReadEnds, Feed!GoTo, FeedInv, FeedTypes
<1>4. ASSUME NEW t \in Type, Feed!Unsubscribe(t) PROVE FeedInv'
  BY <1>4 DEF Feed!Unsubscribe, Feed!GoTo, FeedInv, FeedTypes, Listening
<1>5. CASE Feed!PeerLeaves
  BY <1>5 DEF Feed!PeerLeaves, FeedInv, FeedTypes
<1> QED
  BY <1>1, <1>2, <1>3, <1>4, <1>5, PublishKeepsFeed, DeliverKeepsFeed, ReplayKeepsFeed,
     LookBackKeepsFeed, SubscribeKeepsFeed, WriteKeepsFeed, GreetKeepsFeed
     DEF Feed!Next, Feed!Serve

LEMMA FeedInvImplies == FeedInv => Feed!NoSilentGap
<1> SUFFICES ASSUME FeedInv PROVE Feed!NoSilentGap
  OBVIOUS
<1>1. frames \in Seq(FeedFrame) /\ send \in Seq(FeedFrame)
  BY DEF FeedInv, FeedTypes, FeedFrame
<1>2. /\ Len(frames) \in Nat /\ Len(send) \in Nat
      /\ Len(frames \o send) = Len(frames) + Len(send)
      /\ \A i \in 1 .. Len(frames) : (frames \o send)[i] = frames[i]
      /\ \A i \in 1 .. Len(send) : (frames \o send)[Len(frames) + i] = send[i]
  BY <1>1
<1>3. Shown(frames) \subseteq Feed!Shown
  <2> SUFFICES ASSUME NEW i \in 1 .. Len(frames) PROVE frames[i].event \in Feed!Shown
    BY DEF Shown
  <2>1. i \in 1 .. Len(Feed!Feed) /\ Feed!Feed[i].event = frames[i].event
    BY <1>2 DEF Feed!Feed
  <2> QED
    BY <2>1 DEF Feed!Shown
<1>4. Shown(send) \subseteq Feed!Shown
  <2> SUFFICES ASSUME NEW i \in 1 .. Len(send) PROVE send[i].event \in Feed!Shown
    BY DEF Shown
  <2>1. Len(frames) + i \in 1 .. Len(Feed!Feed)
        /\ Feed!Feed[Len(frames) + i].event = send[i].event
    BY <1>2 DEF Feed!Feed
  <2> QED
    BY <2>1 DEF Feed!Shown
<1>5. conn.replay \in Seq(Nat)
  BY DEF FeedInv, FeedTypes
<1>6. \A i \in 1 .. Len(conn.replay) : conn.replay[i] \in Feed!ToSet(conn.replay)
  BY <1>5 DEF Feed!ToSet
<1>7. ~broken => Owed
  BY DEF FeedInv
<1>8. Owed => \A e \in from .. Len(log) :
        \/ ~Feed!Visible(e)
        \/ e \in Feed!Shown
        \/ \E p \in Publisher : calling[p] = e
        \/ e \in Feed!ToSet(conn.replay)
  BY <1>3, <1>4, <1>6 DEF Owed
<1> QED
  BY <1>7, <1>8, Zenon DEF Feed!NoSilentGap

-----------------------------------------------------------------------------
\* Of any publishers, types, sessions and sizes of channel and history: while the
\* socket is open, every event that the client is owed and may see was sent, waits
\* to be sent, or is on its way.
THEOREM FeedHasNoGapAlone == Feed!Spec => []Feed!NoSilentGap
BY FeedInit, FeedKept, FeedInvImplies, PTL DEF Feed!Spec

-----------------------------------------------------------------------------
\* What the sinks outside the process and the health monitor are bounded by.
LEMMA Limits ==
  /\ Attempts \in Nat \ {0} /\ MaxPosts \in Nat /\ MaxRuns \in Nat
  /\ Keep \in Nat /\ LogEvents \in Nat /\ IsFiniteSet(Prober)
BY OutsideIsBounded DEF Outside!TelemetryAssumption, Outside!IsFiniteSet, IsFiniteSet

-----------------------------------------------------------------------------
(***************************************************************************)
(* The Resin log (Telemetry), written by one Stem.  From any event that is *)
(* still there, all later ones are: in the log, in the same archive or in  *)
(* one after it (Onwards), so that what retention takes is the oldest.     *)
(* The archive being written is the last one and holds nothing yet, and    *)
(* the log restarts only when the last one has what is in it (InHand).     *)
(***************************************************************************)
Archive == [events : SUBSET Nat, whole : BOOLEAN]

Logged(q) == {q[i] : i \in 1 .. Len(q)}

Onwards(L, a, w) ==
    /\ \A f \in L : f \in 1 .. w /\ \A e \in f .. w : e \in L
    /\ \A i \in 1 .. Len(a) : \A f \in a[i].events :
         f \in 1 .. w /\ \A e \in f .. w : e \in L \/ \E k \in i .. Len(a) : e \in a[k].events

\* Some event is neither in the log nor in an archive.
Gone(L, a, w) == \E e \in 1 .. w : e \notin L /\ \A k \in 1 .. Len(a) : e \notin a[k].events

ResinTypes ==
    /\ resin \in [Stems -> [pc : {"ready", "oversize", "compressing", "archived", "pruning"},
                            of : Nat]]
    /\ active \in Seq(Nat) /\ amber \in Seq(Archive) /\ written \in Nat

InHand ==
    \A s \in Stems :
        /\ resin[s].pc = "compressing" =>
              /\ resin[s].of = Len(amber) /\ Len(amber) > 0
              /\ amber[Len(amber)].events = {}
        /\ resin[s].pc = "archived" =>
              Len(amber) > 0 /\ Logged(active) \subseteq amber[Len(amber)].events

\* Retention took something only to keep as many archives as it is to keep.
Enough ==
    Gone(Logged(active), amber, written) =>
        /\ Len(amber) >= Keep
        /\ \A s \in Stems : resin[s].pc = "compressing" => Len(amber) > Keep

ResinInv == /\ ResinTypes /\ InHand /\ Enough
            /\ Onwards(Logged(active), amber, written)

LEMMA ResinInit == Outside!Init => ResinInv
<1> SUFFICES ASSUME Outside!Init PROVE ResinInv
  OBVIOUS
<1>1. /\ resin = [s \in Stems |-> Outside!Ready] /\ active = <<>> /\ amber = <<>> /\ written = 0
  BY DEF Outside!Init
<1>2. ResinTypes
  BY <1>1 DEF ResinTypes, Outside!Ready
<1>3. InHand
  BY <1>1 DEF InHand, Outside!Ready
<1>4. Enough /\ Onwards(Logged(active), amber, written)
  BY <1>1 DEF Enough, Gone, Onwards, Logged
<1> QED
  BY <1>2, <1>3, <1>4 DEF ResinInv

\* Where the Stem that moved now is; there is no other.
LEMMA OnlyStem ==
  ASSUME ResinTypes, NEW s \in Stems, NEW pc, NEW of,
         resin' = [resin EXCEPT ![s] = [pc |-> pc, of |-> of]],
         pc \in {"ready", "oversize", "compressing", "archived", "pruning"}, of \in Nat
  PROVE  /\ resin' \in [Stems -> [pc : {"ready", "oversize", "compressing", "archived", "pruning"},
                                  of : Nat]]
         /\ \A t \in Stems : resin'[t].pc = pc /\ resin'[t].of = of
<1>1. \A t \in Stems : t = s
  BY OneStem
<1> QED
  BY <1>1 DEF ResinTypes

LEMMA GoesTo ==
  ASSUME ResinTypes, NEW s \in Stems, NEW pc, Outside!ResinTo(s, pc),
         pc \in {"ready", "oversize", "compressing", "archived", "pruning"}
  PROVE  /\ resin' \in [Stems -> [pc : {"ready", "oversize", "compressing", "archived", "pruning"},
                                  of : Nat]]
         /\ \A t \in Stems : resin'[t].pc = pc
<1>1. resin' = [resin EXCEPT ![s] = [pc |-> pc, of |-> resin[s].of]] /\ resin[s].of \in Nat
  <2>1. /\ resin[s] \in [pc : {"ready", "oversize", "compressing", "archived", "pruning"}, of : Nat]
        /\ resin' = [resin EXCEPT ![s] = [resin[s] EXCEPT !.pc = pc]]
    BY DEF ResinTypes, Outside!ResinTo
  <2>2. [resin[s] EXCEPT !.pc = pc] = [pc |-> pc, of |-> resin[s].of]
    BY <2>1
  <2> QED
    BY <2>1, <2>2
<1> QED
  BY <1>1, OnlyStem

LEMMA AppendKeeps ==
  ASSUME ResinInv, NEW s \in Stems, Outside!Append1(s)
  PROVE  ResinInv'
<1> DEFINE pc == IF Len(active) + 1 >= MaxSize THEN "oversize" ELSE "ready"
<1>1. /\ written' = written + 1 /\ active' = Append(active, written + 1)
      /\ amber' = amber /\ Outside!ResinTo(s, pc)
  BY DEF Outside!Append1
<1>2. pc \in {"ready", "oversize"}
  OBVIOUS
<1> HIDE DEF pc
<1>3. ResinTypes /\ Len(active) \in Nat /\ Len(amber) \in Nat
  BY DEF ResinInv, ResinTypes
<1>4. /\ resin' \in [Stems -> [pc : {"ready", "oversize", "compressing", "archived", "pruning"},
                               of : Nat]]
      /\ \A t \in Stems : resin'[t].pc = pc
  BY <1>1, <1>2, <1>3, GoesTo
<1>5. Logged(active') = Logged(active) \cup {written + 1} /\ active' \in Seq(Nat)
  <2>1. /\ active' \in Seq(Nat) /\ Len(active') = Len(active) + 1
        /\ \A i \in 1 .. Len(active) : active'[i] = active[i]
        /\ active'[Len(active) + 1] = written + 1
    BY <1>1, <1>3 DEF ResinTypes
  <2>2. ASSUME NEW i \in 1 .. Len(active') PROVE active'[i] \in Logged(active) \cup {written + 1}
    <3>1. i \in 1 .. Len(active) \/ i = Len(active) + 1
      BY <1>3, <2>1
    <3> QED
      BY <2>1, <3>1 DEF Logged
  <2>3. ASSUME NEW i \in 1 .. Len(active) PROVE active[i] \in Logged(active')
    <3>1. i \in 1 .. Len(active') /\ active'[i] = active[i]
      BY <1>3, <2>1
    <3> QED
      BY <3>1 DEF Logged
  <2>4. written + 1 \in Logged(active')
    <3>1. Len(active) + 1 \in 1 .. Len(active')
      BY <1>3, <2>1
    <3> QED
      BY <2>1, <3>1 DEF Logged
  <2> QED
    BY <2>1, <2>2, <2>3, <2>4 DEF Logged
<1>6. ResinTypes'
  BY <1>1, <1>3, <1>4, <1>5 DEF ResinTypes
<1>7. InHand'
  BY <1>2, <1>4 DEF InHand
<1> DEFINE L == Logged(active)
<1>8. Onwards(L \cup {written + 1}, amber, written + 1)
  <2>1. Onwards(L, amber, written) /\ written \in Nat
    BY <1>3 DEF ResinInv, ResinTypes
  <2> HIDE DEF L
  <2> QED
    BY <2>1 DEF Onwards
<1>9. Gone(L \cup {written + 1}, amber, written + 1) => Gone(L, amber, written)
  <2>1. written \in Nat
    BY <1>3 DEF ResinTypes
  <2> QED
    BY <2>1 DEF Gone
<1>10. Enough'
  BY <1>1, <1>2, <1>4, <1>5, <1>9 DEF ResinInv, Enough
<1> QED
  BY <1>1, <1>5, <1>6, <1>7, <1>8, <1>10 DEF ResinInv

LEMMA CreateKeeps ==
  ASSUME ResinInv, NEW s \in Stems, Outside!CreateArchive(s)
  PROVE  ResinInv'
<1> DEFINE r == [events |-> {}, whole |-> FALSE]
           L == Logged(active)
<1>1. /\ amber' = Append(amber, r) /\ active' = active /\ written' = written
      /\ resin' = [resin EXCEPT ![s] = [pc |-> "compressing", of |-> Len(amber) + 1]]
  BY DEF Outside!CreateArchive
<1>2. ResinTypes /\ Len(amber) \in Nat /\ r \in Archive /\ r.events = {}
  BY DEF ResinInv, ResinTypes, Archive
<1> HIDE DEF r
<1>3. /\ amber' \in Seq(Archive) /\ Len(amber') = Len(amber) + 1
      /\ \A i \in 1 .. Len(amber) : amber'[i] = amber[i]
      /\ amber'[Len(amber) + 1] = r
  BY <1>1, <1>2 DEF ResinTypes
<1>4. /\ resin' \in [Stems -> [pc : {"ready", "oversize", "compressing", "archived", "pruning"},
                               of : Nat]]
      /\ \A t \in Stems : resin'[t].pc = "compressing" /\ resin'[t].of = Len(amber) + 1
  <2> DEFINE pc == "compressing"
             of == Len(amber) + 1
  <2>1. /\ resin' = [resin EXCEPT ![s] = [pc |-> pc, of |-> of]] /\ of \in Nat
        /\ pc \in {"ready", "oversize", "compressing", "archived", "pruning"}
    BY <1>1, <1>2
  <2> HIDE DEF pc, of
  <2>2. /\ resin' \in [Stems -> [pc : {"ready", "oversize", "compressing", "archived", "pruning"},
                                 of : Nat]]
        /\ \A t \in Stems : resin'[t].pc = pc /\ resin'[t].of = of
    BY <1>2, <2>1, OnlyStem
  <2> QED
    BY <2>2 DEF pc, of
<1>5. ResinTypes'
  BY <1>1, <1>2, <1>3, <1>4 DEF ResinTypes
<1>6. InHand'
  BY <1>2, <1>3, <1>4 DEF InHand
<1>7. L' = L
  BY <1>1 DEF Logged
<1>8. Onwards(L, amber, written) /\ (Gone(L, amber, written) => Len(amber) >= Keep)
  BY DEF ResinInv, Enough
<1> HIDE DEF L
<1>9. Onwards(L, amber', written)
  <2>1. \A i \in 1 .. Len(amber') : \A f \in amber'[i].events :
          i \in 1 .. Len(amber) /\ f \in amber[i].events
    BY <1>2, <1>3
  <2>2. \A i \in 1 .. Len(amber) : \A e : \A k \in i .. Len(amber) : e \in amber[k].events =>
          k \in i .. Len(amber') /\ e \in amber'[k].events
    BY <1>2, <1>3
  <2> QED
    BY <1>8, <2>1, <2>2 DEF Onwards
<1>10. Gone(L, amber', written) => Gone(L, amber, written)
  <2>1. \A k \in 1 .. Len(amber) : k \in 1 .. Len(amber') /\ amber'[k] = amber[k]
    BY <1>2, <1>3
  <2> QED
    BY <2>1 DEF Gone
<1>11. Enough'
  BY <1>1, <1>2, <1>3, <1>7, <1>8, <1>10, Limits DEF Enough, L
<1> QED
  BY <1>1, <1>5, <1>6, <1>7, <1>9, <1>11 DEF ResinInv, L

\* The archive is written as a whole, or removed again.
LEMMA CompressKeeps ==
  ASSUME ResinInv, NEW s \in Stems, Outside!Compress(s)
  PROVE  ResinInv'
<1> DEFINE n == Len(amber)
           r == [events |-> Outside!ToSet(active), whole |-> TRUE]
           L == Logged(active)
<1>1. /\ ResinTypes /\ n \in Nat \ {0} /\ resin[s].pc = "compressing" /\ resin[s].of = n
      /\ amber[n].events = {} /\ amber \in Seq(Archive)
  BY DEF ResinInv, ResinTypes, InHand, Outside!Compress, Outside!ResinAt
<1>2. /\ active' = active /\ written' = written
      /\ \/ amber' = [amber EXCEPT ![n] = r] /\ Outside!ResinTo(s, "archived")
         \/ amber' = Outside!RemoveAt(amber, n) /\ Outside!ResinTo(s, "ready")
  BY <1>1 DEF Outside!Compress
<1>3. r \in Archive /\ r.events = L
  BY <1>1 DEF Archive, ResinTypes, Outside!ToSet, Logged
<1>4. L' = L
  BY <1>2 DEF Logged
<1>5. /\ Onwards(L, amber, written)
      /\ Gone(L, amber, written) => Len(amber) > Keep
  BY <1>1 DEF ResinInv, Enough
<1> HIDE DEF r, L, n
<1>6. CASE amber' = [amber EXCEPT ![n] = r] /\ Outside!ResinTo(s, "archived")
  <2>1. /\ amber' \in Seq(Archive) /\ Len(amber') = n /\ amber'[n] = r
        /\ \A i \in 1 .. n : i # n => amber'[i] = amber[i]
    BY <1>1, <1>3, <1>6 DEF n
  <2>2. /\ resin' \in [Stems -> [pc : {"ready", "oversize", "compressing", "archived", "pruning"},
                                 of : Nat]]
        /\ \A t \in Stems : resin'[t].pc = "archived"
    BY <1>1, <1>6, GoesTo
  <2>3. ResinTypes'
    BY <1>1, <1>2, <2>1, <2>2 DEF ResinTypes
  <2>4. InHand'
    BY <1>1, <1>3, <1>4, <2>1, <2>2 DEF InHand, L
  <2>5. Onwards(L, amber', written)
    <3>1. \A i \in 1 .. n : i # n => \A f \in amber'[i].events : f \in amber[i].events
      BY <2>1
    <3>2. \A i \in 1 .. n : \A e : \A k \in i .. n : e \in amber[k].events =>
            k \in i .. Len(amber') /\ e \in amber'[k].events
      BY <1>1, <2>1
    <3> QED
      BY <1>1, <1>3, <1>5, <2>1, <3>1, <3>2 DEF Onwards, n
  <2>6. Gone(L, amber', written) => Gone(L, amber, written)
    <3>1. \A k \in 1 .. n : \A e : e \in amber[k].events => e \in amber'[k].events
      BY <1>1, <2>1
    <3> QED
      BY <2>1, <3>1 DEF Gone, n
  <2>7. Enough'
    BY <1>1, <1>2, <1>4, <1>5, <2>1, <2>2, <2>6, Limits DEF Enough, L, n
  <2> QED
    BY <1>2, <1>4, <2>3, <2>4, <2>5, <2>7 DEF ResinInv, L
<1>7. CASE amber' = Outside!RemoveAt(amber, n) /\ Outside!ResinTo(s, "ready")
  <2>1. /\ amber' \in Seq(Archive) /\ Len(amber') = n - 1
        /\ \A i \in 1 .. n - 1 : amber'[i] = amber[i]
    <3>1. /\ SubSeq(amber, 1, n - 1) \in Seq(Archive) /\ Len(SubSeq(amber, 1, n - 1)) = n - 1
          /\ \A i \in 1 .. n - 1 : SubSeq(amber, 1, n - 1)[i] = amber[i]
      <4>1. n \in Nat \ {0} /\ n = Len(amber) /\ n - 1 \in Nat /\ amber \in Seq(Archive)
        BY <1>1 DEF n
      <4> QED
        BY <4>1, SubSeqProperties
    <3>2. SubSeq(amber, n + 1, n) = <<>>
      BY <1>1 DEF n
    <3>3. amber' = SubSeq(amber, 1, n - 1) \o <<>>
      BY <1>7, <3>2 DEF Outside!RemoveAt, n
    <3> HIDE DEF n
    <3>4. \A q \in Seq(Archive) : q \o <<>> = q
      BY ConcatEmptySeq
    <3>5. amber' = SubSeq(amber, 1, n - 1)
      BY <3>1, <3>3, <3>4
    <3> QED
      BY <3>1, <3>5
  <2>2. /\ resin' \in [Stems -> [pc : {"ready", "oversize", "compressing", "archived", "pruning"},
                                 of : Nat]]
        /\ \A t \in Stems : resin'[t].pc = "ready"
    BY <1>1, <1>7, GoesTo
  <2>3. ResinTypes'
    BY <1>1, <1>2, <2>1, <2>2 DEF ResinTypes
  <2>4. InHand'
    BY <2>2 DEF InHand
  <2>5. Onwards(L, amber', written)
    <3>1. \A i \in 1 .. n - 1 : i \in 1 .. n /\ \A f \in amber'[i].events : f \in amber[i].events
      BY <1>1, <2>1
    <3>2. \A i \in 1 .. n : \A e : \A k \in i .. n : e \in amber[k].events =>
            k \in i .. n - 1 /\ e \in amber'[k].events
      <4> SUFFICES ASSUME NEW i \in 1 .. n, NEW e, NEW k \in i .. n, e \in amber[k].events
                   PROVE  k \in i .. n - 1 /\ e \in amber'[k].events
        OBVIOUS
      <4>1. k # n
        BY <1>1
      <4> QED
        BY <1>1, <2>1, <4>1
    <3>3. ASSUME NEW i \in 1 .. n - 1, NEW f \in amber'[i].events
          PROVE  /\ f \in 1 .. written
                 /\ \A e \in f .. written : e \in L \/ \E k \in i .. n - 1 : e \in amber'[k].events
      <4>1. i \in 1 .. n /\ f \in amber[i].events
        BY <3>1
      <4>2. /\ f \in 1 .. written
            /\ \A e \in f .. written : e \in L \/ \E k \in i .. n : e \in amber[k].events
        BY <1>5, <4>1 DEF Onwards, n
      <4> QED
        BY <3>2, <4>1, <4>2
    <3>4. \A f \in L : f \in 1 .. written /\ \A e \in f .. written : e \in L
      BY <1>5 DEF Onwards
    <3> QED
      BY <2>1, <3>3, <3>4 DEF Onwards
  <2>6. Gone(L, amber', written) => Gone(L, amber, written)
    <3>1. \A k \in 1 .. n : \A e : e \in amber[k].events => k \in 1 .. n - 1 /\ e \in amber'[k].events
      BY <1>1, <2>1
    <3> QED
      BY <2>1, <3>1 DEF Gone, n
  <2>7. Enough'
    BY <1>1, <1>2, <1>4, <1>5, <2>1, <2>2, <2>6, Limits DEF Enough, L, n
  <2> QED
    BY <1>2, <1>4, <2>3, <2>4, <2>5, <2>7 DEF ResinInv, L
<1> QED
  BY <1>2, <1>6, <1>7

\* The log restarts when the last archive has what is in it.
LEMMA TruncateKeeps ==
  ASSUME ResinInv, NEW s \in Stems, Outside!Truncate(s)
  PROVE  ResinInv'
<1> DEFINE n == Len(amber)
           L == Logged(active)
<1>1. /\ ResinTypes /\ n \in Nat \ {0} /\ L \subseteq amber[n].events /\ amber \in Seq(Archive)
      /\ amber' = amber /\ written' = written
      /\ \/ active' = <<>> /\ Outside!ResinTo(s, "pruning")
         \/ active' = active /\ Outside!ResinTo(s, "ready")
  BY DEF ResinInv, ResinTypes, InHand, Outside!Truncate, Outside!ResinAt
<1>2. Onwards(L, amber, written) /\ (Gone(L, amber, written) => n >= Keep)
  BY DEF ResinInv, Enough
<1>3. /\ resin' \in [Stems -> [pc : {"ready", "oversize", "compressing", "archived", "pruning"},
                               of : Nat]]
      /\ \A t \in Stems : resin'[t].pc \in {"pruning", "ready"}
  BY <1>1, GoesTo
<1>4. Logged(active') = L \/ Logged(active') = {}
  BY <1>1 DEF Logged
<1>9. active' \in Seq(Nat)
  <2>1. active' = <<>> \/ active' = active
    BY <1>1
  <2>2. active \in Seq(Nat)
    BY <1>1 DEF ResinTypes
  <2>3. CASE active' = <<>>
    BY <2>3, EmptySeq
  <2>4. CASE active' = active
    BY <2>2, <2>4
  <2> QED
    BY <2>1, <2>3, <2>4
<1>5. InHand' /\ ResinTypes'
  BY <1>1, <1>3, <1>9 DEF InHand, ResinTypes
<1> DEFINE M == Logged(active')
<1> HIDE DEF L, n, M
<1>6. Onwards(M, amber, written)
  <2>1. CASE M = L
    BY <1>2, <2>1
  <2>2. CASE M = {}
    <3>1. \A i \in 1 .. n : n \in i .. n
      BY <1>1
    <3> QED
      BY <1>1, <1>2, <2>2, <3>1 DEF Onwards, n
  <2> QED
    BY <1>4, <2>1, <2>2 DEF M
<1>7. Gone(M, amber, written) => Gone(L, amber, written)
  <2>1. CASE M = L
    BY <2>1
  <2>2. CASE M = {}
    <3>1. n \in 1 .. Len(amber)
      BY <1>1 DEF n
    <3> QED
      BY <1>1, <2>2, <3>1 DEF Gone
  <2> QED
    BY <1>4, <2>1, <2>2 DEF M
<1>8. Enough'
  BY <1>1, <1>2, <1>3, <1>7 DEF Enough, L, M, n
<1> QED
  BY <1>1, <1>5, <1>6, <1>8 DEF ResinInv, M

\* Retention takes the oldest.
LEMMA PruneKeeps ==
  ASSUME ResinInv, NEW s \in Stems, Outside!PruneAmber(s)
  PROVE  ResinInv'
<1> DEFINE n == Len(amber)
           m == Outside!Surplus
           L == Logged(active)
<1>1. /\ ResinTypes /\ n \in Nat /\ amber \in Seq(Archive)
      /\ amber' = SubSeq(amber, m + 1, n) /\ written' = written /\ active' = active
      /\ Outside!ResinTo(s, "ready")
  BY DEF ResinInv, ResinTypes, Outside!PruneAmber
<1>2. m \in 0 .. n /\ (m = 0 \/ n - m = Keep)
  BY <1>1, Limits DEF Outside!Surplus
<1>3. Onwards(L, amber, written) /\ (Gone(L, amber, written) => n >= Keep)
  BY DEF ResinInv, Enough
<1>4. /\ resin' \in [Stems -> [pc : {"ready", "oversize", "compressing", "archived", "pruning"},
                               of : Nat]]
      /\ \A t \in Stems : resin'[t].pc = "ready"
  BY <1>1, GoesTo
<1>5. L' = L
  BY <1>1 DEF Logged
<1> HIDE DEF n, m, L
<1>6. /\ amber' \in Seq(Archive) /\ Len(amber') = n - m
      /\ \A i \in 1 .. n - m : amber'[i] = amber[i + m]
  BY <1>1, <1>2 DEF n
<1>7. InHand' /\ ResinTypes'
  BY <1>1, <1>4, <1>6 DEF InHand, ResinTypes
<1>8. Onwards(L, amber', written)
  <2>1. \A f \in L : f \in 1 .. written /\ \A e \in f .. written : e \in L
    BY <1>3 DEF Onwards
  <2>2. ASSUME NEW i \in 1 .. n - m, NEW f \in amber'[i].events
        PROVE  /\ f \in 1 .. written
               /\ \A e \in f .. written : e \in L \/ \E k \in i .. n - m : e \in amber'[k].events
    <3>1. i + m \in 1 .. n /\ f \in amber[i + m].events
      BY <1>1, <1>2, <1>6
    <3>2. /\ f \in 1 .. written
          /\ \A e \in f .. written : e \in L \/ \E k \in i + m .. n : e \in amber[k].events
      BY <1>3, <3>1 DEF Onwards, n
    <3>3. \A k \in i + m .. n : k - m \in i .. n - m /\ amber'[k - m] = amber[k]
      <4> SUFFICES ASSUME NEW k \in i + m .. n
                   PROVE  k - m \in i .. n - m /\ amber'[k - m] = amber[k]
        OBVIOUS
      <4>1. k - m \in i .. n - m /\ k - m \in 1 .. n - m /\ (k - m) + m = k
        BY <1>1, <1>2
      <4> QED
        BY <1>6, <4>1
    <3> QED
      BY <3>2, <3>3
  <2> QED
    BY <1>6, <2>1, <2>2 DEF Onwards
<1>9. CASE m = 0
  <2>1. Len(amber') = n /\ \A k \in 1 .. n : amber'[k] = amber[k]
    BY <1>1, <1>6, <1>9
  <2>2. Gone(L, amber', written) => Gone(L, amber, written)
    BY <2>1 DEF Gone, n
  <2>3. Enough'
    BY <1>1, <1>3, <1>4, <1>5, <2>1, <2>2 DEF Enough, L
  <2> QED
    BY <1>1, <1>5, <1>7, <1>8, <2>3 DEF ResinInv, L
<1>10. CASE n - m = Keep
  <2>1. Enough'
    BY <1>4, <1>6, <1>10, Limits DEF Enough
  <2> QED
    BY <1>1, <1>5, <1>7, <1>8, <2>1 DEF ResinInv, L
<1> QED
  BY <1>2, <1>9, <1>10

LEMMA ResinKept == ResinInv /\ [Outside!ResinNext]_Outside!rvars => ResinInv'
<1> SUFFICES ASSUME ResinInv, [Outside!ResinNext]_Outside!rvars PROVE ResinInv'
  OBVIOUS
<1>1. CASE UNCHANGED Outside!rvars
  BY <1>1 DEF Outside!rvars, ResinInv, ResinTypes, InHand, Enough, Logged
<1>2. ASSUME NEW s \in Stems, Outside!ResinDies(s) PROVE ResinInv'
  <2>1. /\ resin' = [resin EXCEPT ![s] = [pc |-> "ready", of |-> 0]]
        /\ UNCHANGED <<active, amber, written>>
    BY <1>2 DEF Outside!ResinDies, Outside!Ready
  <2>2. ResinTypes
    BY DEF ResinInv
  <2>3. /\ resin' \in [Stems -> [pc : {"ready", "oversize", "compressing", "archived", "pruning"},
                                 of : Nat]]
        /\ \A t \in Stems : resin'[t].pc = "ready"
    BY <2>1, <2>2, OnlyStem
  <2>4. ResinTypes' /\ InHand'
    BY <2>1, <2>2, <2>3 DEF ResinTypes, InHand
  <2>5. Logged(active') = Logged(active)
    BY <2>1
  <2>6. Enough'
    BY <2>1, <2>3, <2>5 DEF Enough, ResinInv
  <2> QED
    BY <2>1, <2>4, <2>5, <2>6 DEF ResinInv
<1> QED
  BY <1>1, <1>2, AppendKeeps, CreateKeeps, CompressKeeps, TruncateKeeps, PruneKeeps
  DEF Outside!ResinNext

LEMMA ResinInvImplies == ResinInv => Outside!ResinKeepsTheLatest /\ Outside!ResinKeepsTheLog
<1> SUFFICES ASSUME ResinInv PROVE Outside!ResinKeepsTheLatest /\ Outside!ResinKeepsTheLog
  OBVIOUS
<1> DEFINE L == Logged(active)
           K == Outside!Kept
<1>1. DOMAIN amber = 1 .. Len(amber) /\ DOMAIN active = 1 .. Len(active) /\ written \in Nat
  BY DEF ResinInv, ResinTypes
<1>2. \A e : e \in K <=> e \in L \/ \E k \in 1 .. Len(amber) : e \in amber[k].events
  BY <1>1 DEF Outside!Kept, Outside!ToSet, Logged
<1>3. Onwards(L, amber, written) /\ (Gone(L, amber, written) => Len(amber) >= Keep)
  BY DEF ResinInv, Enough
<1> HIDE DEF L, K
<1>4. ASSUME NEW e \in 1 .. written, e \notin K, NEW f \in K PROVE e < f
  <2>1. CASE f \in L
    <3>1. f \in 1 .. written /\ (e \in f .. written => e \in L)
      BY <1>3, <2>1 DEF Onwards
    <3> QED
      BY <1>2, <1>4, <3>1
  <2>2. ASSUME NEW i \in 1 .. Len(amber), f \in amber[i].events PROVE e < f
    <3>1. f \in 1 .. written /\ (e \in f .. written => e \in L \/ \E k \in i .. Len(amber) : e \in amber[k].events)
      BY <1>3, <2>2 DEF Onwards
    <3>2. \A k \in i .. Len(amber) : k \in 1 .. Len(amber)
      BY <1>1
    <3> QED
      BY <1>2, <1>4, <3>1, <3>2
  <2> QED
    BY <1>2, <2>1, <2>2
<1>5. Outside!ResinKeepsTheLatest
  BY <1>4 DEF Outside!ResinKeepsTheLatest, K
<1>6. CASE 1 .. written \ K = {}
  <2>1. Outside!Cardinality(1 .. written \ K) = 0
    BY <1>6, FS_EmptySet DEF Outside!Cardinality, Cardinality
  <2> QED
    BY <1>5, <2>1 DEF Outside!ResinKeepsTheLog, K
<1>7. ASSUME NEW e \in 1 .. written, e \notin K PROVE Len(amber) >= Keep
  BY <1>2, <1>3, <1>7 DEF Gone
<1> QED
  BY <1>5, <1>6, <1>7 DEF Outside!ResinKeepsTheLog, K

-----------------------------------------------------------------------------
(***************************************************************************)
(* The remote sink (Telemetry).  An event has arrived, or may still, no    *)
(* more often than it was attempted; so the count of its arrivals and what *)
(* is under way of it is bounded by the attempts behind it.                *)
(***************************************************************************)
Posts == 1 .. MaxPosts

Under(U, e) == {m \in U : m[1] = e}

Load(C, U, e) == C[e] + Cardinality(Under(U, e))

\* The attempts that the sink has made to post an event, at most.
Attempted(o, s, e) ==
    IF e <= Len(o) THEN Attempts
    ELSE IF s.pc # "idle" /\ e = s.event THEN s.attempt - 1 ELSE 0

SenderTypes ==
    /\ sender \in [pc : {"idle", "dial", "send"}, event : Nat, attempt : Nat, conn : BOOLEAN]
    /\ collector \in [Posts -> Nat]
    /\ under \subseteq Posts \X Nat /\ IsFiniteSet(under)
    /\ outcome \in Seq({"delivered", "failed"})

AtItsEvent ==
    sender.pc # "idle" => /\ sender.event = Len(outcome) + 1 /\ sender.event \in Posts
                          /\ sender.attempt \in 1 .. Attempts

SenderInv ==
    /\ SenderTypes /\ AtItsEvent
    /\ \A e \in Posts : Load(collector, under, e) <= Attempted(outcome, sender, e)
    /\ Transport # "websocket" =>
         \A e \in 1 .. Len(outcome) : outcome[e] = "delivered" => e \in Posts /\ collector[e] > 0
    /\ Len(outcome) <= MaxPosts



LEMMA UnderIsFinite ==
  ASSUME NEW U, IsFiniteSet(U), NEW e
  PROVE  IsFiniteSet(Under(U, e)) /\ Cardinality(Under(U, e)) \in Nat
BY FS_Subset, FS_CardinalityType DEF Under

LEMMA OneMoreUnder ==
  ASSUME NEW U, IsFiniteSet(U), NEW m, NEW e
  PROVE  /\ IsFiniteSet(U \cup {m})
         /\ Cardinality(Under(U \cup {m}, e)) <= Cardinality(Under(U, e)) + (IF m[1] = e THEN 1 ELSE 0)
<1>1. IsFiniteSet(U \cup {m})
  BY FS_AddElement
<1>2. IsFiniteSet(Under(U, e)) /\ Cardinality(Under(U, e)) \in Nat
  BY UnderIsFinite
<1>3. CASE m[1] = e
  <2>1. Under(U \cup {m}, e) = Under(U, e) \cup {m}
    BY <1>3 DEF Under
  <2>2. Cardinality(Under(U, e) \cup {m}) <= Cardinality(Under(U, e)) + 1
    BY <1>2, FS_AddElement
  <2> QED
    BY <1>1, <1>3, <2>1, <2>2
<1>4. CASE m[1] # e
  <2>1. Under(U \cup {m}, e) = Under(U, e)
    BY <1>4 DEF Under
  <2> QED
    BY <1>1, <1>2, <1>4, <2>1
<1> QED
  BY <1>3, <1>4

LEMMA OneLessUnder ==
  ASSUME NEW U, IsFiniteSet(U), NEW m \in U, NEW e
  PROVE  /\ IsFiniteSet(U \ {m})
         /\ Cardinality(Under(U \ {m}, e)) = Cardinality(Under(U, e)) - (IF m[1] = e THEN 1 ELSE 0)
<1>1. IsFiniteSet(U \ {m})
  BY FS_RemoveElement
<1>2. IsFiniteSet(Under(U, e)) /\ Cardinality(Under(U, e)) \in Nat
  BY UnderIsFinite
<1>3. CASE m[1] = e
  <2>1. Under(U \ {m}, e) = Under(U, e) \ {m} /\ m \in Under(U, e)
    BY <1>3 DEF Under
  <2>2. Cardinality(Under(U, e) \ {m}) = Cardinality(Under(U, e)) - 1
    BY <1>2, <2>1, FS_RemoveElement
  <2> QED
    BY <1>1, <1>3, <2>1, <2>2
<1>4. CASE m[1] # e
  <2>1. Under(U \ {m}, e) = Under(U, e)
    BY <1>4 DEF Under
  <2> QED
    BY <1>1, <1>2, <1>4, <2>1
<1> QED
  BY <1>3, <1>4

LEMMA SenderInit == Outside!Init => SenderInv
<1> SUFFICES ASSUME Outside!Init PROVE SenderInv
  OBVIOUS
<1>1. SenderTypes /\ AtItsEvent /\ Len(outcome) = 0
  BY Limits, FS_EmptySet DEF Outside!Init, Outside!Free, SenderTypes, AtItsEvent, Posts
<1>2. \A e \in Posts : Load(collector, under, e) = 0
  <2> SUFFICES ASSUME NEW e \in Posts PROVE Load(collector, under, e) = 0
    OBVIOUS
  <2>1. Under(under, e) = {} /\ collector[e] = 0
    BY DEF Outside!Init, Under, Posts
  <2> QED
    BY <2>1, FS_EmptySet DEF Load
<1>3. \A e \in Posts : Attempted(outcome, sender, e) = 0
  BY <1>1, Limits DEF Attempted, Posts, Outside!Init, Outside!Free
<1> QED
  BY <1>1, <1>2, <1>3, Limits DEF SenderInv

\* What an attempt leaves: an attempt more, or the event given up.
LEMMA GivingUp ==
  ASSUME SenderInv, sender.pc # "idle", NEW conn1 \in BOOLEAN, Outside!GiveUpOr(conn1)
  PROVE  /\ sender' \in [pc : {"idle", "dial", "send"}, event : Nat, attempt : Nat, conn : BOOLEAN]
         /\ outcome' \in Seq({"delivered", "failed"}) /\ AtItsEvent'
         /\ Len(outcome') <= MaxPosts
         /\ \A e \in 1 .. Len(outcome') : outcome'[e] = "delivered" =>
              e \in 1 .. Len(outcome) /\ outcome[e] = "delivered"
         /\ \A e \in Posts : Attempted(outcome', sender', e) >=
              Attempted(outcome, sender, e) + (IF e = sender.event THEN 1 ELSE 0)
<1>1. /\ SenderTypes /\ Len(outcome) \in Nat
      /\ sender.event = Len(outcome) + 1 /\ sender.event \in Posts
      /\ sender.attempt \in 1 .. Attempts /\ sender.attempt \in Nat
  BY DEF SenderInv, SenderTypes, AtItsEvent
<1>2. CASE sender.attempt < Attempts
  <2>1. /\ outcome' = outcome
        /\ sender' = [sender EXCEPT !.pc = "dial", !.attempt = @ + 1, !.conn = conn1]
    BY <1>2 DEF Outside!GiveUpOr, Outside!Become
  <2>2. /\ sender' \in [pc : {"idle", "dial", "send"}, event : Nat, attempt : Nat, conn : BOOLEAN]
        /\ sender'.pc = "dial" /\ sender'.attempt = sender.attempt + 1 /\ sender'.event = sender.event
    <3>1. sender' = [pc |-> "dial", event |-> sender.event, attempt |-> sender.attempt + 1,
                     conn |-> conn1]
      BY <1>1, <2>1 DEF SenderTypes
    <3>2. sender.event \in Nat /\ sender.attempt + 1 \in Nat
      BY <1>1 DEF SenderTypes
    <3> QED
      BY <3>1, <3>2
  <2>3. AtItsEvent'
    BY <1>1, <1>2, <2>1, <2>2, Limits DEF AtItsEvent
  <2>4. \A e \in Posts : Attempted(outcome', sender', e) >=
              Attempted(outcome, sender, e) + (IF e = sender.event THEN 1 ELSE 0)
    BY <1>1, <2>1, <2>2, Limits DEF Attempted, Posts
  <2> QED
    BY <1>1, <2>1, <2>2, <2>3, <2>4 DEF SenderTypes, SenderInv
<1>3. CASE ~(sender.attempt < Attempts)
  <2>1. /\ outcome' = Append(outcome, "failed")
        /\ sender' = [Outside!Free EXCEPT !.conn = conn1]
    BY <1>3 DEF Outside!GiveUpOr, Outside!Become
  <2>2. /\ sender' \in [pc : {"idle", "dial", "send"}, event : Nat, attempt : Nat, conn : BOOLEAN]
        /\ sender'.pc = "idle"
    BY <2>1 DEF Outside!Free
  <2>3. /\ outcome' \in Seq({"delivered", "failed"}) /\ Len(outcome') = Len(outcome) + 1
        /\ \A e \in 1 .. Len(outcome) : outcome'[e] = outcome[e]
        /\ outcome'[Len(outcome) + 1] = "failed"
    BY <1>1, <2>1 DEF SenderTypes
  <2>4. AtItsEvent'
    BY <2>2 DEF AtItsEvent
  <2>5. \A e \in Posts : Attempted(outcome', sender', e) >=
              Attempted(outcome, sender, e) + (IF e = sender.event THEN 1 ELSE 0)
    <3> SUFFICES ASSUME NEW e \in Posts
                 PROVE  Attempted(outcome', sender', e) >=
                          Attempted(outcome, sender, e) + (IF e = sender.event THEN 1 ELSE 0)
      OBVIOUS
    <3>1. CASE e <= Len(outcome)
      BY <1>1, <2>3, <3>1, Limits DEF Attempted, Posts
    <3>2. CASE e = Len(outcome) + 1
      BY <1>1, <2>3, <3>2, Limits DEF Attempted, Posts
    <3>3. CASE e > Len(outcome) + 1
      BY <1>1, <2>2, <2>3, <3>3, Limits DEF Attempted, Posts
    <3> QED
      BY <1>1, <3>1, <3>2, <3>3 DEF Posts
  <2>6. Len(outcome') <= MaxPosts
    BY <1>1, <2>3, Limits DEF Posts
  <2>7. \A e \in 1 .. Len(outcome') : outcome'[e] = "delivered" =>
              e \in 1 .. Len(outcome) /\ outcome[e] = "delivered"
    BY <1>1, <2>3
  <2> QED
    BY <2>2, <2>3, <2>4, <2>5, <2>6, <2>7
<1> QED
  BY <1>2, <1>3

LEMMA Delivering ==
  ASSUME SenderInv, sender.pc # "idle", NEW conn1 \in BOOLEAN, Outside!Delivered(conn1)
  PROVE  /\ sender' \in [pc : {"idle", "dial", "send"}, event : Nat, attempt : Nat, conn : BOOLEAN]
         /\ outcome' \in Seq({"delivered", "failed"}) /\ AtItsEvent'
         /\ Len(outcome') <= MaxPosts
         /\ \A e \in 1 .. Len(outcome') : outcome'[e] = "delivered" =>
              e = sender.event \/ (e \in 1 .. Len(outcome) /\ outcome[e] = "delivered")
         /\ \A e \in Posts : Attempted(outcome', sender', e) >=
              Attempted(outcome, sender, e) + (IF e = sender.event THEN 1 ELSE 0)
<1>1. /\ SenderTypes /\ Len(outcome) \in Nat
      /\ sender.event = Len(outcome) + 1 /\ sender.event \in Posts
      /\ sender.attempt \in 1 .. Attempts /\ sender.attempt \in Nat
  BY DEF SenderInv, SenderTypes, AtItsEvent
<1>2. /\ outcome' = Append(outcome, "delivered")
      /\ sender' = [Outside!Free EXCEPT !.conn = conn1]
  BY DEF Outside!Delivered, Outside!Become
<1>3. /\ sender' \in [pc : {"idle", "dial", "send"}, event : Nat, attempt : Nat, conn : BOOLEAN]
      /\ sender'.pc = "idle"
  BY <1>2 DEF Outside!Free
<1>4. /\ outcome' \in Seq({"delivered", "failed"}) /\ Len(outcome') = Len(outcome) + 1
      /\ \A e \in 1 .. Len(outcome) : outcome'[e] = outcome[e]
  BY <1>1, <1>2 DEF SenderTypes
<1>5. AtItsEvent'
  BY <1>3 DEF AtItsEvent
<1>6. ASSUME NEW e \in Posts
      PROVE  Attempted(outcome', sender', e) >=
               Attempted(outcome, sender, e) + (IF e = sender.event THEN 1 ELSE 0)
  <2>1. CASE e <= Len(outcome)
    BY <1>1, <1>4, <2>1, Limits DEF Attempted, Posts
  <2>2. CASE e = Len(outcome) + 1
    BY <1>1, <1>4, <2>2, Limits DEF Attempted, Posts
  <2>3. CASE e > Len(outcome) + 1
    BY <1>1, <1>3, <1>4, <2>3, Limits DEF Attempted, Posts
  <2> QED
    BY <1>1, <2>1, <2>2, <2>3 DEF Posts
<1>7. Len(outcome') <= MaxPosts
  BY <1>1, <1>4, Limits DEF Posts
<1>8. \A e \in 1 .. Len(outcome') : outcome'[e] = "delivered" =>
            e = sender.event \/ (e \in 1 .. Len(outcome) /\ outcome[e] = "delivered")
  BY <1>1, <1>4
<1> QED
  BY <1>3, <1>4, <1>5, <1>6, <1>7, <1>8

\* The invariant, from what an attempt adds to the load of its event.
LEMMA AttemptKeeps ==
  ASSUME SenderInv, sender.pc # "idle",
         sender' \in [pc : {"idle", "dial", "send"}, event : Nat, attempt : Nat, conn : BOOLEAN],
         outcome' \in Seq({"delivered", "failed"}), AtItsEvent', Len(outcome') <= MaxPosts,
         \A e \in Posts : Attempted(outcome', sender', e) >=
              Attempted(outcome, sender, e) + (IF e = sender.event THEN 1 ELSE 0),
         collector' \in [Posts -> Nat], under' \subseteq Posts \X Nat, IsFiniteSet(under'),
         \A e \in Posts : /\ collector'[e] >= collector[e]
                          /\ Load(collector', under', e) <= Load(collector, under, e)
                                                             + (IF e = sender.event THEN 1 ELSE 0),
         Transport # "websocket" =>
           \A e \in 1 .. Len(outcome') : outcome'[e] = "delivered" =>
              \/ e \in Posts /\ collector'[e] > 0
              \/ e \in 1 .. Len(outcome) /\ outcome[e] = "delivered"
  PROVE  SenderInv'
<1>1. SenderTypes'
  BY DEF SenderTypes
<1>2. ASSUME NEW e \in Posts
      PROVE  Load(collector', under', e) <= Attempted(outcome', sender', e)
  <2>1. /\ SenderTypes /\ sender.attempt \in Nat /\ Len(outcome) \in Nat /\ Attempts \in Nat
        /\ sender'.attempt \in Nat /\ Len(outcome') \in Nat
    BY Limits DEF SenderInv, SenderTypes
  <2>2. /\ Load(collector, under, e) \in Nat /\ Load(collector', under', e) \in Nat
    BY <2>1, <1>1, UnderIsFinite DEF Load, SenderTypes
  <2>3. Attempted(outcome, sender, e) \in Int /\ Attempted(outcome', sender', e) \in Int
    BY <2>1 DEF Attempted
  <2>4. Load(collector, under, e) <= Attempted(outcome, sender, e)
    BY DEF SenderInv
  <2> QED
    BY <2>2, <2>3, <2>4
<1>3. \A e \in Posts : collector[e] \in Nat /\ collector'[e] \in Nat
  BY DEF SenderInv, SenderTypes
<1>4. Transport # "websocket" =>
         \A e \in 1 .. Len(outcome') : outcome'[e] = "delivered" => e \in Posts /\ collector'[e] > 0
  BY <1>3 DEF SenderInv
<1> QED
  BY <1>1, <1>2, <1>4 DEF SenderInv

LEMMA ReceivedLoad ==
  ASSUME SenderTypes, NEW d \in Posts, Outside!Received(d)
  PROVE  /\ collector' \in [Posts -> Nat] /\ collector'[d] > 0
         /\ \A e \in Posts : collector'[e] = collector[e] + (IF e = d THEN 1 ELSE 0)
BY DEF Outside!Received, SenderTypes

LEMMA EmitKeeps == SenderInv /\ Outside!Emit => SenderInv'
<1> SUFFICES ASSUME SenderInv, Outside!Emit PROVE SenderInv'
  OBVIOUS
<1> DEFINE d == sender.event
           no == FALSE
           yes == TRUE
           keeps == Transport # "webhook"
           m == <<d, sender.attempt>>
<1>1. /\ sender.pc # "idle"
      /\ \/ Outside!Received(d) /\ Outside!Delivered(keeps) /\ under' = under
         \/ Outside!Received(d) /\ Outside!GiveUpOr(no) /\ under' = under
         \/ Outside!GiveUpOr(no) /\ collector' = collector /\ under' = under
         \/ under' = under \cup {m} /\ collector' = collector
            /\ Transport = "websocket" /\ Outside!Delivered(yes)
         \/ under' = under \cup {m} /\ collector' = collector /\ Outside!GiveUpOr(no)
  BY DEF Outside!Emit
<1>2. /\ SenderTypes /\ d \in Posts /\ sender.attempt \in Nat
      /\ no \in BOOLEAN /\ yes \in BOOLEAN /\ keeps \in BOOLEAN
  BY <1>1 DEF SenderInv, AtItsEvent, SenderTypes
<1>3. m \in Posts \X Nat /\ m[1] = d
  BY <1>2
<1> HIDE DEF d, no, yes, keeps, m
<1>4. /\ IsFiniteSet(under) /\ under \subseteq Posts \X Nat /\ collector \in [Posts -> Nat]
  BY <1>2 DEF SenderTypes
<1>5. \A e \in Posts : collector[e] \in Nat /\ Cardinality(Under(under, e)) \in Nat
  BY <1>4, UnderIsFinite
<1>6. ASSUME Outside!Received(d), under' = under
      PROVE  /\ collector' \in [Posts -> Nat] /\ collector'[d] > 0
             /\ \A e \in Posts : /\ collector'[e] >= collector[e]
                                 /\ Load(collector', under', e) <= Load(collector, under, e)
                                                                    + (IF e = d THEN 1 ELSE 0)
  <2>1. /\ collector' \in [Posts -> Nat] /\ collector'[d] > 0
        /\ \A e \in Posts : collector'[e] = collector[e] + (IF e = d THEN 1 ELSE 0)
    BY <1>2, <1>6, ReceivedLoad
  <2> QED
    BY <1>5, <1>6, <2>1 DEF Load
<1>7. ASSUME under' = under \cup {m}, collector' = collector
      PROVE  /\ under' \subseteq Posts \X Nat /\ IsFiniteSet(under')
             /\ \A e \in Posts : /\ collector'[e] >= collector[e]
                                 /\ Load(collector', under', e) <= Load(collector, under, e)
                                                                    + (IF e = d THEN 1 ELSE 0)
  <2>1. \A e \in Posts : Cardinality(Under(under', e)) <= Cardinality(Under(under, e))
                                                            + (IF e = d THEN 1 ELSE 0)
    BY <1>3, <1>4, <1>7, OneMoreUnder
  <2>2. IsFiniteSet(under')
    BY <1>4, <1>7, FS_AddElement
  <2>3. \A e \in Posts : Cardinality(Under(under', e)) \in Nat
    BY <2>2, UnderIsFinite
  <2>4. under' \subseteq Posts \X Nat
    BY <1>3, <1>4, <1>7
  <2>5. \A e \in Posts : Load(collector', under', e) <= Load(collector, under, e)
                                                          + (IF e = d THEN 1 ELSE 0)
    <3>1. \A e \in Posts : collector'[e] = collector[e]
      BY <1>7
    <3>2. d \in Posts
      BY <1>2
    <3> QED
      BY <1>5, <2>1, <2>3, <3>1, <3>2 DEF Load
  <2>6. \A e \in Posts : collector'[e] >= collector[e]
    BY <1>5, <1>7
  <2> QED
    BY <2>2, <2>4, <2>5, <2>6
<1>8. ASSUME under' = under, collector' = collector
      PROVE  \A e \in Posts : /\ collector'[e] >= collector[e]
                              /\ Load(collector', under', e) <= Load(collector, under, e)
                                                                 + (IF e = d THEN 1 ELSE 0)
  BY <1>5, <1>8 DEF Load
<1>9. CASE Outside!Received(d) /\ Outside!Delivered(keeps) /\ under' = under
  BY <1>1, <1>2, <1>4, <1>6, <1>9, Delivering, AttemptKeeps DEF d
<1>10. CASE Outside!Received(d) /\ Outside!GiveUpOr(no) /\ under' = under
  BY <1>1, <1>2, <1>4, <1>6, <1>10, GivingUp, AttemptKeeps DEF d
<1>11. CASE Outside!GiveUpOr(no) /\ collector' = collector /\ under' = under
  BY <1>1, <1>2, <1>4, <1>8, <1>11, GivingUp, AttemptKeeps DEF d
<1>12. CASE under' = under \cup {m} /\ collector' = collector
            /\ Transport = "websocket" /\ Outside!Delivered(yes)
  BY <1>1, <1>2, <1>4, <1>7, <1>12, Delivering, AttemptKeeps DEF d
<1>13. CASE under' = under \cup {m} /\ collector' = collector /\ Outside!GiveUpOr(no)
  BY <1>1, <1>2, <1>4, <1>7, <1>13, GivingUp, AttemptKeeps DEF d
<1> QED
  BY <1>1, <1>9, <1>10, <1>11, <1>12, <1>13

LEMMA ConsumeKeeps == SenderInv /\ Outside!Consume => SenderInv'
<1> SUFFICES ASSUME SenderInv, Outside!Consume PROVE SenderInv'
  OBVIOUS
<1>1. /\ sender.pc = "idle" /\ Len(outcome) < MaxPosts
      /\ sender' = [sender EXCEPT !.pc = "dial", !.event = Len(outcome) + 1, !.attempt = 1]
      /\ collector' = collector /\ under' = under /\ outcome' = outcome
  BY DEF Outside!Consume, Outside!Become
<1>2. SenderTypes /\ Len(outcome) \in Nat
  BY DEF SenderInv, SenderTypes
<1>3. /\ sender' \in [pc : {"idle", "dial", "send"}, event : Nat, attempt : Nat, conn : BOOLEAN]
      /\ sender'.pc = "dial" /\ sender'.event = Len(outcome) + 1 /\ sender'.attempt = 1
  <2>1. sender' = [pc |-> "dial", event |-> Len(outcome) + 1, attempt |-> 1,
                   conn |-> sender.conn]
    BY <1>1, <1>2 DEF SenderTypes
  <2>2. sender.conn \in BOOLEAN
    BY <1>2 DEF SenderTypes
  <2> QED
    BY <1>2, <2>1, <2>2
<1>4. SenderTypes' /\ AtItsEvent'
  BY <1>1, <1>2, <1>3, Limits DEF SenderTypes, AtItsEvent, Posts
<1>5. \A e \in Posts : Attempted(outcome', sender', e) = Attempted(outcome, sender, e)
  BY <1>1, <1>2, <1>3, Limits DEF Attempted, Posts
<1> QED
  BY <1>1, <1>4, <1>5 DEF SenderInv

LEMMA EnsureConnKeeps == SenderInv /\ Outside!EnsureConn => SenderInv'
<1> SUFFICES ASSUME SenderInv, Outside!EnsureConn PROVE SenderInv'
  OBVIOUS
<1> DEFINE no == FALSE
<1>1. /\ sender.pc = "dial" /\ collector' = collector /\ under' = under
      /\ \/ sender' = [sender EXCEPT !.pc = "send", !.conn = TRUE] /\ outcome' = outcome
         \/ Outside!GiveUpOr(no)
  BY DEF Outside!EnsureConn, Outside!Become
<1>2. SenderTypes /\ Len(outcome) \in Nat /\ no \in BOOLEAN
  BY DEF SenderInv, SenderTypes
<1> HIDE DEF no
<1>3. CASE sender' = [sender EXCEPT !.pc = "send", !.conn = TRUE] /\ outcome' = outcome
  <2>1. /\ sender' \in [pc : {"idle", "dial", "send"}, event : Nat, attempt : Nat, conn : BOOLEAN]
        /\ sender'.pc = "send" /\ sender'.event = sender.event /\ sender'.attempt = sender.attempt
    BY <1>2, <1>3 DEF SenderTypes
  <2>2. SenderTypes' /\ AtItsEvent'
    BY <1>1, <1>2, <1>3, <2>1 DEF SenderTypes, AtItsEvent, SenderInv
  <2>3. \A e \in Posts : Attempted(outcome', sender', e) = Attempted(outcome, sender, e)
    BY <1>1, <1>3, <2>1 DEF Attempted
  <2> QED
    BY <1>1, <1>3, <2>2, <2>3 DEF SenderInv
<1>4. CASE Outside!GiveUpOr(no)
  <2>1. /\ IsFiniteSet(under) /\ under \subseteq Posts \X Nat /\ collector \in [Posts -> Nat]
    BY <1>2 DEF SenderTypes
  <2>2. \A e \in Posts : collector[e] \in Nat /\ Cardinality(Under(under, e)) \in Nat
    BY <2>1, UnderIsFinite
  <2>3. \A e \in Posts : /\ collector'[e] >= collector[e]
                         /\ Load(collector', under', e) <= Load(collector, under, e)
                                                            + (IF e = sender.event THEN 1 ELSE 0)
    BY <1>1, <2>2 DEF Load
  <2> QED
    BY <1>1, <1>2, <1>4, <2>1, <2>3, GivingUp, AttemptKeeps
<1> QED
  BY <1>1, <1>3, <1>4

LEMMA ArriveKeeps == SenderInv /\ Outside!Arrive => SenderInv'
<1> SUFFICES ASSUME SenderInv, Outside!Arrive PROVE SenderInv'
  OBVIOUS
<1>1. PICK m \in under : /\ under' = under \ {m}
                         /\ Outside!Received(m[1]) \/ collector' = collector
  BY DEF Outside!Arrive
<1>2. sender' = sender /\ outcome' = outcome /\ SenderTypes
  BY DEF Outside!Arrive, SenderInv
<1>3. /\ IsFiniteSet(under) /\ under \subseteq Posts \X Nat /\ collector \in [Posts -> Nat]
      /\ m[1] \in Posts
  BY <1>2 DEF SenderTypes
<1>4. /\ IsFiniteSet(under')
      /\ \A e \in Posts : Cardinality(Under(under', e)) =
                            Cardinality(Under(under, e)) - (IF m[1] = e THEN 1 ELSE 0)
  BY <1>1, <1>3, OneLessUnder
<1>5. \A e \in Posts : collector[e] \in Nat /\ Cardinality(Under(under, e)) \in Nat
  BY <1>3, UnderIsFinite
<1>6. /\ collector' \in [Posts -> Nat]
      /\ \A e \in Posts : /\ collector'[e] >= collector[e]
                          /\ collector'[e] <= collector[e] + (IF m[1] = e THEN 1 ELSE 0)
  <2>1. CASE Outside!Received(m[1])
    <3>1. /\ collector' \in [Posts -> Nat]
          /\ \A e \in Posts : collector'[e] = collector[e] + (IF e = m[1] THEN 1 ELSE 0)
      BY <1>2, <1>3, <2>1, ReceivedLoad
    <3> QED
      BY <1>5, <3>1
  <2>2. CASE collector' = collector
    BY <1>3, <1>5, <2>2
  <2> QED
    BY <1>1, <2>1, <2>2
<1>7. ASSUME NEW e \in Posts
      PROVE  Load(collector', under', e) <= Load(collector, under, e)
  <2>1. collector'[e] \in Nat
    BY <1>6
  <2> QED
    BY <1>4, <1>5, <1>6, <2>1 DEF Load
<1>8. ASSUME NEW e \in Posts
      PROVE  Load(collector', under', e) <= Attempted(outcome', sender', e)
  <2>1. Load(collector, under, e) <= Attempted(outcome, sender, e)
    BY DEF SenderInv
  <2>2. Load(collector, under, e) \in Int /\ Load(collector', under', e) \in Int
    <3>1. collector'[e] \in Nat /\ Cardinality(Under(under', e)) \in Nat
      BY <1>4, <1>6, UnderIsFinite
    <3> QED
      BY <1>5, <3>1 DEF Load
  <2>3. Attempted(outcome, sender, e) \in Int
    BY <1>2, Limits DEF Attempted, SenderTypes
  <2> QED
    BY <1>2, <1>7, <2>1, <2>2, <2>3
<1>9. SenderTypes'
  BY <1>1, <1>2, <1>3, <1>4, <1>6 DEF SenderTypes
<1>10. \A e \in Posts : collector[e] > 0 => collector'[e] > 0
  BY <1>5, <1>6
<1>11. AtItsEvent'
  BY <1>2 DEF AtItsEvent, SenderInv
<1> QED
  BY <1>2, <1>8, <1>9, <1>10, <1>11 DEF SenderInv

LEMMA SenderKept == SenderInv /\ [Outside!RemoteNext]_Outside!tvars => SenderInv'
<1>1. SenderInv /\ UNCHANGED Outside!tvars => SenderInv'
  BY DEF Outside!tvars, SenderInv, SenderTypes, AtItsEvent, Load, Under, Attempted
<1> QED
  BY <1>1, EmitKeeps, ConsumeKeeps, EnsureConnKeeps, ArriveKeeps DEF Outside!RemoteNext

LEMMA SenderInvImplies == SenderInv => Outside!AnsweredIsReceived
<1> SUFFICES ASSUME SenderInv PROVE Outside!AnsweredIsReceived
  OBVIOUS
<1>1. SenderTypes /\ Len(outcome) \in Nat /\ DOMAIN outcome = 1 .. Len(outcome) /\ DOMAIN collector = Posts
  BY DEF SenderInv, SenderTypes
<1>2. ASSUME NEW e \in Posts
      PROVE  collector[e] <= Attempts /\ (e > Len(outcome) + 1 => collector[e] = 0)
  <2>1. Load(collector, under, e) <= Attempted(outcome, sender, e)
    BY DEF SenderInv
  <2>2. collector[e] \in Nat /\ Cardinality(Under(under, e)) \in Nat
    BY <1>1, UnderIsFinite DEF SenderTypes
  <2>3. /\ Attempted(outcome, sender, e) <= Attempts
        /\ e > Len(outcome) + 1 => Attempted(outcome, sender, e) = 0
        /\ Attempted(outcome, sender, e) \in Int
    BY <1>1, Limits DEF Attempted, SenderInv, AtItsEvent, Posts, SenderTypes
  <2> QED
    BY <2>1, <2>2, <2>3, Limits DEF Load
<1> QED
  BY <1>1, <1>2 DEF SenderInv, Outside!AnsweredIsReceived

-----------------------------------------------------------------------------
(***************************************************************************)
(* The health monitor (Telemetry).  What was announced, and what is about  *)
(* to be, counts the faults found and the changes from a fault to health   *)
(* in the order in which the runs exchanged the last result.               *)
(***************************************************************************)
Probe == [pc : {"idle", "checked", "publishing"}, healthy : BOOLEAN, recovered : BOOLEAN]

Faults(q)  == {i \in 1 .. Len(q) : ~q[i]}
Returns(q) == {i \in 1 .. Len(q) : i > 1 /\ q[i] /\ ~q[i - 1]}

\* The runs that are about to announce a fault, or a return to health.
Alarms(P) == {p \in Prober : P[p].pc = "publishing" /\ ~P[p].healthy}
Relief(P) == {p \in Prober : P[p].pc = "publishing" /\ P[p].healthy /\ P[p].recovered}

HealthTypes ==
    /\ health \in [hasRun : BOOLEAN, overall : BOOLEAN]
    /\ prober \in [Prober -> Probe]
    /\ runs \in Seq(BOOLEAN)
    /\ announced \in [degraded : Nat, recovered : Nat]

\* The monitor remembers the last run.
LastKnown == /\ health.hasRun <=> Len(runs) > 0
             /\ Len(runs) > 0 => (health.overall <=> runs[Len(runs)])

Counted ==
    /\ announced.degraded + Cardinality(Alarms(prober)) = Cardinality(Faults(runs))
    /\ announced.recovered + Cardinality(Relief(prober)) = Cardinality(Returns(runs))

HealthInv == HealthTypes /\ LastKnown /\ Counted

LEMMA Finite ==
  ASSUME NEW P
  PROVE  /\ IsFiniteSet(Alarms(P)) /\ Cardinality(Alarms(P)) \in Nat
         /\ IsFiniteSet(Relief(P)) /\ Cardinality(Relief(P)) \in Nat
BY Limits, FS_Subset, FS_CardinalityType DEF Alarms, Relief

LEMMA FiniteRuns ==
  ASSUME NEW q \in Seq(BOOLEAN)
  PROVE  /\ IsFiniteSet(Faults(q)) /\ Cardinality(Faults(q)) \in Nat
         /\ IsFiniteSet(Returns(q)) /\ Cardinality(Returns(q)) \in Nat
<1>1. IsFiniteSet(1 .. Len(q))
  BY FS_Interval
<1> QED
  BY <1>1, FS_Subset, FS_CardinalityType DEF Faults, Returns

LEMMA HealthInit == Outside!Init => HealthInv
<1> SUFFICES ASSUME Outside!Init PROVE HealthInv
  OBVIOUS
<1>1. /\ health = [hasRun |-> FALSE, overall |-> FALSE] /\ runs = <<>>
      /\ prober = [p \in Prober |-> Outside!Quiet]
      /\ announced = [degraded |-> 0, recovered |-> 0]
  BY DEF Outside!Init
<1>2. HealthTypes
  BY <1>1, EmptySeq DEF HealthTypes, Probe, Outside!Quiet
<1>3. LastKnown
  BY <1>1 DEF LastKnown
<1>4. Alarms(prober) = {} /\ Relief(prober) = {} /\ Faults(runs) = {} /\ Returns(runs) = {}
  BY <1>1 DEF Alarms, Relief, Faults, Returns, Outside!Quiet
<1>5. Cardinality({}) = 0
  BY FS_EmptySet
<1>6. announced.degraded = 0 /\ announced.recovered = 0
  BY <1>1
<1> QED
  BY <1>2, <1>3, <1>4, <1>5, <1>6 DEF HealthInv, Counted

LEMMA RunOnceKeeps ==
  ASSUME HealthInv, NEW p \in Prober, Outside!RunOnce(p)
  PROVE  HealthInv'
<1>1. PICK h \in BOOLEAN : prober' = [prober EXCEPT ![p] = [pc |-> "checked", healthy |-> h, recovered |-> FALSE]]
  BY DEF Outside!RunOnce, Outside!Quiet
<1>2. prober[p].pc = "idle" /\ UNCHANGED <<health, runs, announced>>
  BY DEF Outside!RunOnce
<1>3. HealthTypes
  BY DEF HealthInv
<1>4. HealthTypes'
  BY <1>1, <1>2, <1>3 DEF HealthTypes, Probe
<1>5. prober'[p].pc = "checked" /\ \A x \in Prober : x # p => prober'[x] = prober[x]
  BY <1>1, <1>3 DEF HealthTypes
<1>6. Alarms(prober') = Alarms(prober) /\ Relief(prober') = Relief(prober)
  BY <1>2, <1>5 DEF Alarms, Relief
<1>7. LastKnown'
  BY <1>2 DEF HealthInv, LastKnown
<1> QED
  BY <1>2, <1>4, <1>6, <1>7 DEF HealthInv, Counted

LEMMA ExchangeKeeps ==
  ASSUME HealthInv, NEW p \in Prober, Outside!Exchange(p)
  PROVE  HealthInv'
<1> DEFINE h == prober[p].healthy
           n == Len(runs) + 1
           back == health.hasRun /\ ~health.overall
<1>1. /\ prober[p].pc = "checked" /\ health' = [hasRun |-> TRUE, overall |-> h]
      /\ prober' = [prober EXCEPT ![p].pc = "publishing", ![p].recovered = back]
      /\ runs' = Append(runs, h) /\ announced' = announced
  BY DEF Outside!Exchange
<1>2. /\ HealthTypes /\ LastKnown /\ Counted /\ h \in BOOLEAN /\ back \in BOOLEAN
      /\ runs \in Seq(BOOLEAN) /\ n \in Nat \ {0} /\ prober[p] \in Probe
  BY DEF HealthInv, HealthTypes, Probe
<1>3. /\ runs' \in Seq(BOOLEAN) /\ Len(runs') = n /\ runs'[n] = h
      /\ \A i \in 1 .. n - 1 : runs'[i] = runs[i]
  BY <1>1, <1>2
<1>4. /\ prober' \in [Prober -> Probe]
      /\ prober'[p].pc = "publishing" /\ prober'[p].healthy = h /\ prober'[p].recovered = back
      /\ \A x \in Prober : x # p => prober'[x] = prober[x]
  <2>3. /\ prober' \in [Prober -> [pc : {"idle", "checked", "publishing"}, healthy : BOOLEAN,
                                 recovered : BOOLEAN]]
        /\ \A x \in Prober : x # p => prober'[x] = prober[x]
    BY <1>1, <1>2 DEF HealthTypes, Probe
  <2>4. prober'[p].pc = "publishing" /\ prober'[p].healthy = h /\ prober'[p].recovered = back
    BY <1>1, <1>2 DEF HealthTypes, Probe
  <2> QED
    BY <2>3, <2>4 DEF Probe
<1>5. HealthTypes'
  BY <1>1, <1>2, <1>3, <1>4 DEF HealthTypes
<1>6. LastKnown'
  BY <1>1, <1>2, <1>3 DEF LastKnown
<1>7. back <=> n > 1 /\ ~runs[n - 1]
  BY <1>2 DEF LastKnown
<1> HIDE DEF h, n, back
<1>8. /\ n \notin Faults(runs)
      /\ h => Faults(runs') = Faults(runs)
      /\ ~h => Faults(runs') = Faults(runs) \cup {n}
  <2>1. ASSUME NEW i \in 1 .. n PROVE i \in 1 .. n - 1 \/ i = n
    BY <1>2
  <2>2. 1 .. n - 1 = 1 .. Len(runs) /\ n \notin 1 .. Len(runs) /\ n \in 1 .. n
        /\ \A i \in 1 .. n - 1 : i \in 1 .. n
    BY <1>2 DEF n
  <2>3. \A i \in 1 .. n - 1 : i \in Faults(runs') <=> i \in Faults(runs)
    BY <1>3, <2>2 DEF Faults
  <2>4. n \in Faults(runs') <=> ~h
    BY <1>3, <2>2 DEF Faults
  <2>5. Faults(runs') \subseteq 1 .. n /\ Faults(runs) \subseteq 1 .. n - 1
    BY <1>3, <2>2 DEF Faults
  <2> QED
    BY <2>1, <2>2, <2>3, <2>4, <2>5
<1>9. /\ n \notin Returns(runs)
      /\ ~(h /\ back) => Returns(runs') = Returns(runs)
      /\ h /\ back => Returns(runs') = Returns(runs) \cup {n}
  <2>1. ASSUME NEW i \in 1 .. n PROVE i \in 1 .. n - 1 \/ i = n
    BY <1>2
  <2>2. 1 .. n - 1 = 1 .. Len(runs) /\ n \notin 1 .. Len(runs) /\ n \in 1 .. n
        /\ \A i \in 1 .. n - 1 : i \in 1 .. n
    BY <1>2 DEF n
  <2>6. \A i \in 1 .. n : i > 1 => i - 1 \in 1 .. n - 1
    BY <1>2
  <2>3. \A i \in 1 .. n - 1 : i \in Returns(runs') <=> i \in Returns(runs)
    BY <1>3, <2>2, <2>6 DEF Returns
  <2>4. n \in Returns(runs') <=> h /\ back
    BY <1>3, <1>7, <2>2, <2>6 DEF Returns
  <2>5. Returns(runs') \subseteq 1 .. n /\ Returns(runs) \subseteq 1 .. n - 1
    BY <1>3, <2>2 DEF Returns
  <2> QED
    BY <2>1, <2>2, <2>3, <2>4, <2>5
<1>10. /\ p \notin Alarms(prober)
       /\ h => Alarms(prober') = Alarms(prober)
       /\ ~h => Alarms(prober') = Alarms(prober) \cup {p}
  <2>1. p \notin Alarms(prober) /\ (p \in Alarms(prober') <=> ~h)
    BY <1>1, <1>4 DEF Alarms
  <2>2. \A x \in Prober : x # p => (x \in Alarms(prober') <=> x \in Alarms(prober))
    BY <1>4 DEF Alarms
  <2>3. Alarms(prober') \subseteq Prober /\ Alarms(prober) \subseteq Prober
    BY DEF Alarms
  <2> QED
    BY <2>1, <2>2, <2>3
<1>11. /\ p \notin Relief(prober)
       /\ ~(h /\ back) => Relief(prober') = Relief(prober)
       /\ h /\ back => Relief(prober') = Relief(prober) \cup {p}
  <2>1. p \notin Relief(prober) /\ (p \in Relief(prober') <=> (h /\ back))
    BY <1>1, <1>4 DEF Relief
  <2>2. \A x \in Prober : x # p => (x \in Relief(prober') <=> x \in Relief(prober))
    BY <1>4 DEF Relief
  <2>3. Relief(prober') \subseteq Prober /\ Relief(prober) \subseteq Prober
    BY DEF Relief
  <2> QED
    BY <2>1, <2>2, <2>3
<1>12. Cardinality(Alarms(prober')) - Cardinality(Alarms(prober)) =
         Cardinality(Faults(runs')) - Cardinality(Faults(runs))
  <2>1. IsFiniteSet(Alarms(prober)) /\ IsFiniteSet(Faults(runs))
        /\ Cardinality(Alarms(prober)) \in Nat /\ Cardinality(Faults(runs)) \in Nat
    BY <1>2, Finite, FiniteRuns
  <2>2. Cardinality(Alarms(prober) \cup {p}) = Cardinality(Alarms(prober)) + 1
    BY <1>10, <2>1, FS_AddElement
  <2>3. Cardinality(Faults(runs) \cup {n}) = Cardinality(Faults(runs)) + 1
    BY <1>8, <2>1, FS_AddElement
  <2>4. CASE h
    BY <1>8, <1>10, <2>1, <2>4
  <2>5. CASE ~h
    <3>1. Alarms(prober') = Alarms(prober) \cup {p} /\ Faults(runs') = Faults(runs) \cup {n}
      BY <1>8, <1>10, <2>5
    <3> QED
      BY <2>1, <2>2, <2>3, <3>1
  <2> QED
    BY <2>4, <2>5
<1>13. Cardinality(Relief(prober')) - Cardinality(Relief(prober)) =
         Cardinality(Returns(runs')) - Cardinality(Returns(runs))
  <2>1. IsFiniteSet(Relief(prober)) /\ IsFiniteSet(Returns(runs))
        /\ Cardinality(Relief(prober)) \in Nat /\ Cardinality(Returns(runs)) \in Nat
    BY <1>2, Finite, FiniteRuns
  <2>2. Cardinality(Relief(prober) \cup {p}) = Cardinality(Relief(prober)) + 1
    BY <1>11, <2>1, FS_AddElement
  <2>3. Cardinality(Returns(runs) \cup {n}) = Cardinality(Returns(runs)) + 1
    BY <1>9, <2>1, FS_AddElement
  <2>4. CASE ~(h /\ back)
    BY <1>9, <1>11, <2>1, <2>4
  <2>5. CASE h /\ back
    <3>1. Relief(prober') = Relief(prober) \cup {p} /\ Returns(runs') = Returns(runs) \cup {n}
      BY <1>9, <1>11, <2>5
    <3> QED
      BY <2>1, <2>2, <2>3, <3>1
  <2> QED
    BY <2>4, <2>5
<1>14. announced.degraded \in Nat /\ announced.recovered \in Nat
  BY <1>2 DEF HealthTypes
<1>15. Counted'
  <2>1. /\ Cardinality(Alarms(prober)) \in Nat /\ Cardinality(Relief(prober)) \in Nat
        /\ Cardinality(Faults(runs)) \in Nat /\ Cardinality(Returns(runs)) \in Nat
        /\ Cardinality(Alarms(prober')) \in Nat /\ Cardinality(Relief(prober')) \in Nat
        /\ Cardinality(Faults(runs')) \in Nat /\ Cardinality(Returns(runs')) \in Nat
    BY <1>2, <1>3, Finite, FiniteRuns
  <2>2. announced.degraded + Cardinality(Alarms(prober)) = Cardinality(Faults(runs))
    BY <1>2 DEF Counted
  <2>3. announced.recovered + Cardinality(Relief(prober)) = Cardinality(Returns(runs))
    BY <1>2 DEF Counted
  <2>4. announced.degraded + Cardinality(Alarms(prober')) = Cardinality(Faults(runs'))
    BY <1>12, <1>14, <2>1, <2>2
  <2>5. announced.recovered + Cardinality(Relief(prober')) = Cardinality(Returns(runs'))
    BY <1>13, <1>14, <2>1, <2>3
  <2> QED
    BY <1>1, <2>4, <2>5 DEF Counted
<1> QED
  BY <1>5, <1>6, <1>15 DEF HealthInv

LEMMA PublishKeeps ==
  ASSUME HealthInv, NEW p \in Prober, Outside!Publish(p)
  PROVE  HealthInv'
<1> DEFINE a == announced
<1>1. /\ prober[p].pc = "publishing" /\ prober' = [prober EXCEPT ![p] = Outside!Quiet]
      /\ health' = health /\ runs' = runs
  BY DEF Outside!Publish
<1>2. /\ HealthTypes /\ LastKnown /\ Counted /\ prober[p] \in Probe
      /\ a.degraded \in Nat /\ a.recovered \in Nat
  BY DEF HealthInv, HealthTypes
<1>3. /\ announced' \in [degraded : Nat, recovered : Nat]
      /\ announced'.degraded = a.degraded + (IF p \in Alarms(prober) THEN 1 ELSE 0)
      /\ announced'.recovered = a.recovered + (IF p \in Relief(prober) THEN 1 ELSE 0)
  <2>1. announced = [degraded |-> a.degraded, recovered |-> a.recovered]
    BY <1>2 DEF HealthTypes
  <2>2. CASE ~prober[p].healthy
    <3>1. announced' = [announced EXCEPT !.degraded = @ + 1]
      BY <2>2 DEF Outside!Publish
    <3>2. p \in Alarms(prober) /\ p \notin Relief(prober)
      BY <1>1, <2>2 DEF Alarms, Relief
    <3> QED
      BY <1>2, <2>1, <3>1, <3>2
  <2>3. CASE prober[p].healthy /\ prober[p].recovered
    <3>1. announced' = [announced EXCEPT !.recovered = @ + 1]
      BY <2>3 DEF Outside!Publish
    <3>2. p \notin Alarms(prober) /\ p \in Relief(prober)
      BY <1>1, <2>3 DEF Alarms, Relief
    <3> QED
      BY <1>2, <2>1, <3>1, <3>2
  <2>4. CASE prober[p].healthy /\ ~prober[p].recovered
    <3>1. announced' = announced
      BY <2>4 DEF Outside!Publish
    <3>2. p \notin Alarms(prober) /\ p \notin Relief(prober)
      BY <1>1, <2>4 DEF Alarms, Relief
    <3> QED
      BY <1>2, <2>1, <3>1, <3>2 DEF HealthTypes
  <2> QED
    BY <2>2, <2>3, <2>4
<1>4. /\ prober' \in [Prober -> Probe] /\ prober'[p].pc = "idle"
      /\ \A x \in Prober : x # p => prober'[x] = prober[x]
  BY <1>1, <1>2 DEF HealthTypes, Probe, Outside!Quiet
<1>5. HealthTypes' /\ LastKnown'
  BY <1>1, <1>2, <1>3, <1>4 DEF HealthTypes, LastKnown
<1>6. Alarms(prober') = Alarms(prober) \ {p} /\ Relief(prober') = Relief(prober) \ {p}
  BY <1>4 DEF Alarms, Relief
<1>7. /\ IsFiniteSet(Alarms(prober)) /\ Cardinality(Alarms(prober)) \in Nat
      /\ IsFiniteSet(Relief(prober)) /\ Cardinality(Relief(prober)) \in Nat
  BY Finite
<1>8. Cardinality(Alarms(prober')) = Cardinality(Alarms(prober)) - (IF p \in Alarms(prober) THEN 1 ELSE 0)
  <2>1. CASE p \in Alarms(prober)
    <3>1. Cardinality(Alarms(prober) \ {p}) = Cardinality(Alarms(prober)) - 1
      BY <1>7, <2>1, FS_RemoveElement
    <3> QED
      BY <1>6, <2>1, <3>1
  <2>2. CASE p \notin Alarms(prober)
    <3>1. Alarms(prober') = Alarms(prober)
      BY <1>6, <2>2
    <3> QED
      BY <1>7, <2>2, <3>1
  <2> QED
    BY <2>1, <2>2
<1>9. Cardinality(Relief(prober')) = Cardinality(Relief(prober)) - (IF p \in Relief(prober) THEN 1 ELSE 0)
  <2>1. CASE p \in Relief(prober)
    <3>1. Cardinality(Relief(prober) \ {p}) = Cardinality(Relief(prober)) - 1
      BY <1>7, <2>1, FS_RemoveElement
    <3> QED
      BY <1>6, <2>1, <3>1
  <2>2. CASE p \notin Relief(prober)
    <3>1. Relief(prober') = Relief(prober)
      BY <1>6, <2>2
    <3> QED
      BY <1>7, <2>2, <3>1
  <2> QED
    BY <2>1, <2>2
<1>10. Counted'
  BY <1>1, <1>2, <1>3, <1>7, <1>8, <1>9 DEF Counted
<1> QED
  BY <1>5, <1>10 DEF HealthInv

LEMMA HealthKept == HealthInv /\ [Outside!HealthNext]_Outside!hvars => HealthInv'
<1>1. HealthInv /\ UNCHANGED Outside!hvars => HealthInv'
  BY DEF Outside!hvars, HealthInv, HealthTypes, LastKnown, Counted, Alarms, Relief, Faults, Returns
<1> QED
  BY <1>1, RunOnceKeeps, ExchangeKeeps, PublishKeeps DEF Outside!HealthNext

LEMMA HealthInvImplies == HealthInv => Outside!ChangesAreAnnounced
<1> SUFFICES ASSUME HealthInv, \A p \in Prober : prober[p].pc # "publishing"
             PROVE  /\ announced.degraded = Outside!Cardinality({i \in DOMAIN runs : ~runs[i]})
                    /\ announced.recovered =
                         Outside!Cardinality({i \in DOMAIN runs : i > 1 /\ runs[i] /\ ~runs[i - 1]})
  BY DEF Outside!ChangesAreAnnounced
<1>1. \A S : Outside!Cardinality(S) = Cardinality(S)
  BY DEF Outside!Cardinality, Cardinality
<1>2. DOMAIN runs = 1 .. Len(runs) /\ announced.degraded \in Nat /\ announced.recovered \in Nat
  BY DEF HealthInv, HealthTypes
<1>3. Alarms(prober) = {} /\ Relief(prober) = {}
  BY DEF Alarms, Relief
<1>4. Cardinality({}) = 0
  BY FS_EmptySet
<1>5. announced.degraded = Cardinality(Faults(runs)) /\ announced.recovered = Cardinality(Returns(runs))
  BY <1>2, <1>3, <1>4 DEF HealthInv, Counted
<1> QED
  BY <1>1, <1>2, <1>5 DEF Faults, Returns

-----------------------------------------------------------------------------
\* Each part of what MCEvents checks, in a behaviour of its own: whatever fails,
\* an event that the Resin log took is kept until retention takes the oldest, a
\* collector has what it answered for, and each change of health is announced.
THEOREM TelemetryIsTrueAlone == Outside!Spec => []Outside!TelemetryIsTrue
<1> DEFINE OutsideInv == ResinInv /\ SenderInv /\ HealthInv
<1>1. Outside!Init => OutsideInv
  BY ResinInit, SenderInit, HealthInit
<1>2. ASSUME [Outside!Next]_Outside!vars
      PROVE  /\ [Outside!ResinNext]_Outside!rvars
             /\ [Outside!RemoteNext]_Outside!tvars
             /\ [Outside!HealthNext]_Outside!hvars
  BY <1>2 DEF Outside!Next, Outside!vars
<1>3. OutsideInv /\ [Outside!Next]_Outside!vars => OutsideInv'
  BY <1>2, ResinKept, SenderKept, HealthKept
<1>4. OutsideInv => Outside!TelemetryIsTrue
  BY ResinInvImplies, SenderInvImplies, HealthInvImplies DEF Outside!TelemetryIsTrue
<1> HIDE DEF OutsideInv
<1> QED
  BY <1>1, <1>3, <1>4, PTL DEF Outside!Spec

\* MCEvents composes them: wherever the focus lies, one part moves as it does
\* alone and the others rest, so each behaviour of the run is one of every part.
THEOREM EveryPartKeepsItsSpec == MCSpec => Spec /\ Feed!Spec /\ Outside!Spec
<1>1. MCInit => Init /\ Feed!Init /\ Outside!Init
  BY DEF MCInit
<1>2. ASSUME [MCNext]_<<focus, vars, feed, outside>>
      PROVE  [Next]_vars /\ [Feed!Next]_Feed!vars /\ [Outside!Next]_Outside!vars
  <2>1. UNCHANGED feed => UNCHANGED Feed!vars
    BY DEF feed, Feed!vars
  <2>2. /\ UNCHANGED archived => UNCHANGED Outside!rvars
        /\ UNCHANGED posted => UNCHANGED Outside!tvars
        /\ UNCHANGED watched => UNCHANGED Outside!hvars
    BY DEF archived, Outside!rvars, posted, Outside!tvars, watched, Outside!hvars
  <2>3. UNCHANGED outside => UNCHANGED Outside!vars
    BY <2>2 DEF outside, Outside!vars
  <2>4. CASE UNCHANGED <<focus, vars, feed, outside>>
    BY <2>1, <2>3, <2>4
  <2>5. CASE Next /\ UNCHANGED <<feed, outside>>
    BY <2>1, <2>3, <2>5
  <2>6. CASE Feed!Next /\ UNCHANGED <<vars, outside>>
    BY <2>3, <2>6
  <2>7. CASE Outside!ResinNext /\ UNCHANGED <<vars, feed, posted, watched>>
    BY <2>1, <2>2, <2>7 DEF Outside!Next
  <2>8. CASE Outside!RemoteNext /\ UNCHANGED <<vars, feed, archived, watched>>
    BY <2>1, <2>2, <2>8 DEF Outside!Next
  <2>9. CASE Outside!HealthNext /\ UNCHANGED <<vars, feed, archived, posted>>
    BY <2>1, <2>2, <2>9 DEF Outside!Next
  <2> QED
    BY <1>2, <2>4, <2>5, <2>6, <2>7, <2>8, <2>9 DEF MCNext
<1> QED
  BY <1>1, <1>2, PTL DEF MCSpec, Spec, Feed!Spec, Outside!Spec

\* WhatIsShownIsTrue, in the composition the run checks.
THEOREM ShownIsTrueAlways == MCSpec => []WhatIsShownIsTrue
<1>1. Feed!NoSilentGap /\ Outside!TelemetryIsTrue => WhatIsShownIsTrue
  BY DEF WhatIsShownIsTrue
<1> QED
  BY <1>1, EveryPartKeepsItsSpec, FeedHasNoGapAlone, TelemetryIsTrueAlone, PTL

\* And so the events the run's buses carry are accounted for, to the end.
THEOREM AccountedForAlways == MCSpec => [](EveryEventIsAccountedFor /\ ShutdownIsClean)
BY EveryPartKeepsItsSpec, EventsAreAccountedFor, ShutdownLeavesNothing, PTL

=============================================================================
