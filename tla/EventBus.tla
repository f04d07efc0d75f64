----------------------------- MODULE EventBus -----------------------------
(***************************************************************************)
(* eventbus.Bus: publishers append to the history and take the handlers    *)
(* of the event's type under mu, call them outside it, and then offer the  *)
(* event to every sink under the read lock.  Every sink drains its channel *)
(* on a goroutine of its own; Shutdown closes the channels one by one.     *)
(* Handlers and events are those of one type.                              *)
(***************************************************************************)
EXTENDS Naturals, Sequences, FiniteSets, SequencesExt

CONSTANTS
    Publisher, Handler, Sink,
    Buffer,     \* capacity of a sink's channel
    MaxEvents,  \* bound on the events published
    OneShot     \* the process ends after Shutdown returned, as the commands
                \* do; otherwise it may end as soon as its listener is closed

ASSUME BufferAssumption == Buffer \in Nat \ {0}
ASSUME MaxEventsAssumption == MaxEvents \in Nat
ASSUME OneShotAssumption == OneShot \in BOOLEAN

\* An event is its place in the order in which events enter the history.
Event == 1 .. MaxEvents

VARIABLES
    published,  \* who published the events; the history is its suffix
    handlers,   \* the subscriptions, in order
    pub,        \* the publishers
    sink,       \* the pumps
    closed,     \* the bus is closed
    stop,       \* the shutdown of the process
    exited,     \* the process is gone
    owed, seen, \* ghost: the handlers owed an event, the events one has seen
    missed      \* ghost: the events that found the bus closed

vars == <<published, handlers, pub, sink, closed, stop, exited, owed, seen,
          missed>>

\* No publisher, no event in hand.
None == 0

TypeOK ==
    /\ published \in Seq(Publisher) /\ Len(published) <= MaxEvents
    /\ handlers \in Seq(Handler)
    /\ pub \in [Publisher -> [at : {"idle", "handlers", "locking", "sinks"},
                              event : Event \cup {None},
                              calls : Seq(Handler), next : Nat,
                              todo : SUBSET Sink]]
    /\ sink \in [Sink -> [on : {"detached", "open", "closed", "done"},
                          buffer : Seq(Event), hand : Event \cup {None},
                          consumed : Seq(Event), dropped : SUBSET Event,
                          since : Nat]]
    /\ \A s \in Sink : Len(sink[s].buffer) <= Buffer
    /\ closed \in BOOLEAN /\ exited \in BOOLEAN
    /\ stop \in {"serving", "interrupted", "draining", "stopped"}
    /\ owed \in [Event -> SUBSET Handler]
    /\ seen \in [Handler -> Seq(Event)]
    /\ missed \in SUBSET Event

Quiet == [at |-> "idle", event |-> None, calls |-> <<>>, next |-> 1, todo |-> {}]

Init ==
    /\ published = <<>>
    /\ handlers = <<>>
    /\ pub = [p \in Publisher |-> Quiet]
    /\ sink = [s \in Sink |-> [on |-> "detached", buffer |-> <<>>, hand |-> None,
                               consumed |-> <<>>, dropped |-> {}, since |-> 0]]
    /\ closed = FALSE
    /\ stop = "serving"
    /\ exited = FALSE
    /\ owed = [e \in Event |-> {}]
    /\ seen = [h \in Handler |-> <<>>]
    /\ missed = {}

\* Publishers hold the read lock while they offer; mu is free for a writer
\* when none does.
Unlocked == \A p \in Publisher : pub[p].at # "sinks"

Opened == {s \in Sink : sink[s].on = "open"}

-----------------------------------------------------------------------------
(* Subscriptions and sinks.                                                *)

Subscribe(h) ==
    /\ ~exited /\ Unlocked
    /\ h \notin ToSet(handlers)
    /\ handlers' = Append(handlers, h)
    /\ UNCHANGED <<published, pub, sink, closed, stop, exited, owed, seen, missed>>

Unsubscribe(h) ==
    /\ ~exited /\ Unlocked
    /\ \E i \in DOMAIN handlers :
          handlers[i] = h /\ handlers' = RemoveAt(handlers, i)
    /\ UNCHANGED <<published, pub, sink, closed, stop, exited, owed, seen, missed>>

AttachSink(s) ==
    /\ ~exited /\ Unlocked /\ ~closed
    /\ sink[s].on = "detached"
    /\ sink' = [sink EXCEPT ![s].on = "open", ![s].since = Len(published)]
    /\ UNCHANGED <<published, handlers, pub, closed, stop, exited, owed, seen,
                   missed>>

-----------------------------------------------------------------------------
(* Publish.                                                                *)

\* Under mu: the history, and the handlers as they are now.
Publish(p) ==
    /\ ~exited /\ Unlocked
    /\ pub[p].at = "idle" /\ Len(published) < MaxEvents
    /\ LET e == Len(published) + 1 IN
          /\ published' = Append(published, p)
          /\ pub' = [pub EXCEPT ![p] = [Quiet EXCEPT !.at = "handlers",
                                                     !.event = e,
                                                     !.calls = handlers]]
          /\ owed' = [owed EXCEPT ![e] = ToSet(handlers)]
    /\ UNCHANGED <<handlers, sink, closed, stop, exited, seen, missed>>

\* MUTANT: the list of subscriptions itself is walked, not a copy of it.
CallsLive(p) == handlers

\* The handlers that a publisher calls.
Calls(p) == pub[p].calls

Call(p) ==
    LET i == pub[p].next IN
    /\ ~exited
    /\ pub[p].at = "handlers"
    /\ \/ /\ i <= Len(Calls(p))
          /\ seen' = [seen EXCEPT ![Calls(p)[i]] = Append(@, pub[p].event)]
          /\ pub' = [pub EXCEPT ![p].next = i + 1]
       \/ /\ i > Len(Calls(p))
          /\ pub' = [pub EXCEPT ![p].at = "locking"]
          /\ UNCHANGED seen
    /\ UNCHANGED <<published, handlers, sink, closed, stop, exited, owed, missed>>

\* The read lock is taken; a closed bus has no sinks to offer to.
LockSinks(p) ==
    /\ ~exited
    /\ pub[p].at = "locking"
    /\ IF closed
       THEN /\ pub' = [pub EXCEPT ![p] = Quiet]
            /\ missed' = missed \cup {pub[p].event}
       ELSE /\ pub' = [pub EXCEPT ![p].at = "sinks", ![p].todo = Opened]
            /\ UNCHANGED missed
    /\ UNCHANGED <<published, handlers, sink, closed, stop, exited, owed, seen>>

Offered(p, s) == pub' = [pub EXCEPT ![p].todo = @ \ {s}]

\* MUTANT: a full channel makes room by losing its oldest event.
OfferEvicting(p, s) ==
    /\ ~exited
    /\ pub[p].at = "sinks" /\ s \in pub[p].todo
    /\ Offered(p, s)
    /\ sink' = [sink EXCEPT ![s].buffer =
                    IF Len(@) < Buffer THEN Append(@, pub[p].event)
                    ELSE Append(Tail(@), pub[p].event)]
    /\ UNCHANGED <<published, handlers, closed, stop, exited, owed, seen, missed>>

\* MUTANT: the send waits for room in the channel.
OfferBlocking(p, s) ==
    /\ ~exited
    /\ pub[p].at = "sinks" /\ s \in pub[p].todo
    /\ Len(sink[s].buffer) < Buffer
    /\ Offered(p, s)
    /\ sink' = [sink EXCEPT ![s].buffer = Append(@, pub[p].event)]
    /\ UNCHANGED <<published, handlers, closed, stop, exited, owed, seen, missed>>

\* The event enters the channel or, if that is full, is dropped for this sink.
Offer(p, s) ==
    /\ ~exited
    /\ pub[p].at = "sinks" /\ s \in pub[p].todo
    /\ Offered(p, s)
    /\ \/ /\ Len(sink[s].buffer) < Buffer
          /\ sink' = [sink EXCEPT ![s].buffer = Append(@, pub[p].event)]
       \/ /\ Len(sink[s].buffer) = Buffer
          /\ sink' = [sink EXCEPT ![s].dropped = @ \cup {pub[p].event}]
    /\ UNCHANGED <<published, handlers, closed, stop, exited, owed, seen, missed>>

Return(p) ==
    /\ ~exited
    /\ pub[p].at = "sinks" /\ pub[p].todo = {}
    /\ pub' = [pub EXCEPT ![p] = Quiet]
    /\ UNCHANGED <<published, handlers, sink, closed, stop, exited, owed, seen,
                   missed>>

-----------------------------------------------------------------------------
(* The goroutine of a sink.                                                *)

Take(s) ==
    /\ ~exited
    /\ sink[s].hand = None /\ sink[s].buffer # <<>>
    /\ sink' = [sink EXCEPT ![s].hand = Head(sink[s].buffer),
                            ![s].buffer = Tail(@)]
    /\ UNCHANGED <<published, handlers, pub, closed, stop, exited, owed, seen,
                   missed>>

\* MUTANT: an event that the sink fails to consume is put back in the channel.
ConsumeRetrying(s) ==
    /\ ~exited
    /\ sink[s].hand # None
    /\ sink' = [sink EXCEPT ![s].hand = None,
                            ![s].buffer = IF Len(@) < Buffer
                                          THEN Append(@, sink[s].hand) ELSE @,
                            ![s].consumed = IF Len(sink[s].buffer) < Buffer THEN @
                                            ELSE Append(@, sink[s].hand)]
    /\ UNCHANGED <<published, handlers, pub, closed, stop, exited, owed, seen,
                   missed>>

\* Sink.Consume returns.
Consume(s) ==
    /\ ~exited
    /\ sink[s].hand # None
    /\ sink' = [sink EXCEPT ![s].hand = None,
                            ![s].consumed = Append(@, sink[s].hand)]
    /\ UNCHANGED <<published, handlers, pub, closed, stop, exited, owed, seen,
                   missed>>

\* MUTANT: done is announced when the channel is empty.
PumpEndsEarly(s) ==
    /\ ~exited
    /\ sink[s].on = "closed" /\ sink[s].buffer = <<>>
    /\ sink' = [sink EXCEPT ![s].on = "done"]
    /\ UNCHANGED <<published, handlers, pub, closed, stop, exited, owed, seen,
                   missed>>

\* The channel is closed and empty: the goroutine ends and closes done.
PumpEnds(s) ==
    /\ ~exited
    /\ sink[s].on = "closed" /\ sink[s].buffer = <<>> /\ sink[s].hand = None
    /\ sink' = [sink EXCEPT ![s].on = "done"]
    /\ UNCHANGED <<published, handlers, pub, closed, stop, exited, owed, seen,
                   missed>>

-----------------------------------------------------------------------------
(* Shutdown, and the end of the process.                                   *)

Interrupt ==
    /\ ~exited /\ stop = "serving"
    /\ stop' = "interrupted"
    /\ UNCHANGED <<published, handlers, pub, sink, closed, exited, owed, seen,
                   missed>>

\* MUTANT: the bus is closed without the write lock.
CloseBusUnlocked ==
    /\ ~exited /\ stop = "interrupted"
    /\ closed' = TRUE
    /\ stop' = "draining"
    /\ UNCHANGED <<published, handlers, pub, sink, exited, owed, seen, missed>>

CloseBus ==
    /\ ~exited /\ stop = "interrupted" /\ Unlocked
    /\ closed' = TRUE
    /\ stop' = "draining"
    /\ UNCHANGED <<published, handlers, pub, sink, exited, owed, seen, missed>>

\* The next channel is closed once the sink before it is done.
CloseSink(s) ==
    /\ ~exited /\ stop = "draining"
    /\ sink[s].on = "open"
    /\ \A t \in Sink : sink[t].on # "closed"
    /\ sink' = [sink EXCEPT ![s].on = "closed"]
    /\ UNCHANGED <<published, handlers, pub, closed, stop, exited, owed, seen,
                   missed>>

ShutdownReturns ==
    /\ ~exited /\ stop = "draining"
    /\ \A s \in Sink : sink[s].on \in {"detached", "done"}
    /\ stop' = "stopped"
    /\ UNCHANGED <<published, handlers, pub, sink, closed, exited, owed, seen,
                   missed>>

\* main returns: ListenAndServe does as soon as the server is told to shut
\* down, the commands after Shutdown.
Exit ==
    /\ ~exited
    /\ stop \in IF OneShot THEN {"stopped"}
                ELSE {"interrupted", "draining", "stopped"}
    /\ exited' = TRUE
    /\ UNCHANGED <<published, handlers, pub, sink, closed, stop, owed, seen,
                   missed>>

Publishing(p) ==
    Call(p) \/ LockSinks(p) \/ Return(p) \/ \E s \in Sink : Offer(p, s)

Pumping(s) == Take(s) \/ Consume(s) \/ PumpEnds(s)

Stopping == CloseBus \/ ShutdownReturns \/ \E s \in Sink : CloseSink(s)

Next ==
    \/ \E h \in Handler : Subscribe(h) \/ Unsubscribe(h)
    \/ \E s \in Sink : AttachSink(s) \/ Pumping(s)
    \/ \E p \in Publisher : Publish(p) \/ Publishing(p)
    \/ Interrupt \/ Stopping \/ Exit

Spec == Init /\ [][Next]_vars

-----------------------------------------------------------------------------

\* An event on its way: its publisher has not offered it to the sink yet.
Underway(e, s) ==
    \E p \in Publisher :
        /\ pub[p].event = e
        /\ pub[p].at \in {"handlers", "locking"} \/ s \in pub[p].todo

\* What a sink has received, in order.
Received(s) ==
    sink[s].consumed \o (IF sink[s].hand = None THEN <<>> ELSE <<sink[s].hand>>)
                     \o sink[s].buffer

\* Publish never sends on a channel that Shutdown has closed: that would
\* panic the publisher.
NoSendAfterClose ==
    \A p \in Publisher, s \in Sink :
        pub[p].at = "sinks" /\ s \in pub[p].todo => sink[s].on = "open"

\* The bus loses nothing silently: an event published since a sink was attached
\* is on its way, received by the sink, counted as dropped, or found the bus
\* closed; exactly one of these.
SinksLoseNothingSilently ==
    \A s \in Sink : sink[s].on # "detached" =>
        \A e \in sink[s].since + 1 .. Len(published) :
            Cardinality({c \in {"underway", "received", "dropped", "missed"} :
                \/ c = "underway" /\ Underway(e, s)
                \/ c = "received" /\ e \in ToSet(Received(s))
                \/ c = "dropped" /\ e \in sink[s].dropped
                \/ c = "missed" /\ e \in missed}) = 1

\* A sink receives what one publisher published in the order it published it,
\* and nothing twice, while several publishers offer at the same time.
SinksKeepOrder ==
    \A s \in Sink : \A i, j \in 1 .. Len(Received(s)) :
        LET r == Received(s) IN
        i < j => /\ r[i] # r[j]
                 /\ published[r[i]] = published[r[j]] => r[i] < r[j]

\* Publish calls every handler that was subscribed when the event was published
\* exactly once, whoever subscribes or unsubscribes meanwhile, and no other.
HandlersSeeEveryEvent ==
    \A e \in 1 .. Len(published), h \in Handler :
        LET times == Cardinality({i \in 1 .. Len(seen[h]) : seen[h][i] = e})
            calling == \E p \in Publisher :
                          pub[p].event = e /\ pub[p].at = "handlers"
        IN  IF h \notin owed[e] THEN times = 0
            ELSE times <= 1 /\ (times = 1 \/ calling)

\* When the process ends, what the sinks accepted has been consumed: "Drain
\* telemetry sinks, then release the history database" (runServeCmd).
DrainedAtExit ==
    exited => \A s \in Sink : sink[s].buffer = <<>> /\ sink[s].hand = None

\* What becomes of an event, at every sink and at every handler, while several
\* publishers are at work and others subscribe, attach and shut down.
EveryEventIsAccountedFor ==
    SinksLoseNothingSilently /\ SinksKeepOrder /\ HandlersSeeEveryEvent

\* Publish never sends on a channel that Shutdown has closed, and a command ends
\* with what its sinks accepted consumed.
ShutdownIsClean == NoSendAfterClose /\ (OneShot => DrainedAtExit)

\* "every exercise of (or attempt at) delegation leaves a durable record"
\* (EventDelegationAuthorized): no event is dropped for a sink.
NothingIsDropped == \A s \in Sink : sink[s].dropped = {}

-----------------------------------------------------------------------------

\* Publishers run on; nothing is assumed of the sinks.
PublisherFairness == \A p \in Publisher : WF_vars(Publishing(p))

\* Consume returns, and the goroutine that shuts down runs on.
ShutdownFairness ==
    /\ \A s \in Sink : WF_vars(Pumping(s))
    /\ WF_vars(Stopping)

PublisherSpec == Spec /\ PublisherFairness

\* A slow or disconnected sink never blocks Publish.
PublishNeverBlocks ==
    \A p \in Publisher : pub[p].at # "idle" ~> pub[p].at = "idle" \/ exited

\* Shutdown returns while publishers go on publishing, if the sinks run on.
ShutdownEnds ==
    ShutdownFairness => (stop = "interrupted" ~> stop = "stopped" \/ exited)

=============================================================================
