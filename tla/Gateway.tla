------------------------------ MODULE Gateway ------------------------------
(***************************************************************************)
(* gateway.HandleWebSocket: one connection to the live feed.  It           *)
(* subscribes one handler to every event type, greets, replays the bus's   *)
(* history if asked to, and pumps a bounded channel to the socket until    *)
(* the peer leaves or the channel overflows.  Publishers call the handler  *)
(* on their own goroutines; EventBus has the bus itself.                   *)
(***************************************************************************)
EXTENDS Naturals, Sequences, FiniteSets, SequencesExt

CONSTANTS
    Publisher, Type,
    Session,    \* the sessions that events name
    Scope,      \* the session a narrowed connection sees, or Unscoped
    Unscoped,
    Capacity,   \* of the send channel
    Window,     \* of the bus's history, and of a replay
    MaxEvents   \* bound on the events published

ScopeAssumption == Scope \in Session \cup {Unscoped}
\* The greeting and a replay fit into the channel (1 + 100 of 256).
CapacityAssumption == Capacity \in Nat /\ Window \in 1 .. Capacity - 1
MaxEventsAssumption == MaxEvents \in Nat

VARIABLES
    log,      \* the events published so far, as the history has them
    pub,      \* the event a publisher is about to call the handler with, or 0
    subs,     \* the types the handler is subscribed to
    conn,     \* HandleWebSocket: where it is, and what is left to replay
    send,     \* the send channel
    writer,   \* the write pump
    broken,   \* the socket is closed
    frames,   \* ghost: what was written to the socket
    from      \* ghost: the first event the client is owed

vars == <<log, pub, subs, conn, send, writer, broken, frames, from>>

\* A frame carries an event, live or replayed; Connected is the greeting.
Connected == [event |-> 0, live |-> FALSE]

Frame == [event : 0 .. MaxEvents, live : BOOLEAN]

TypeOK ==
    /\ log \in Seq([type : Type, session : Session]) /\ Len(log) <= MaxEvents
    /\ pub \in [Publisher -> 0 .. MaxEvents]
    /\ subs \in SUBSET Type
    /\ conn \in [at : {"subscribing", "greeting", "greeted", "replaying",
                       "pumping", "leaving", "gone"},
                 replay : Seq(1 .. MaxEvents)]
    /\ send \in Seq(Frame) /\ Len(send) <= Capacity
    /\ writer \in {"off", "on", "ended"}
    /\ broken \in BOOLEAN
    /\ frames \in Seq(Frame)
    /\ from \in 1 .. MaxEvents + 1

Init ==
    /\ log = <<>>
    /\ pub = [p \in Publisher |-> 0]
    /\ subs = {}
    /\ conn = [at |-> "subscribing", replay |-> <<>>]
    /\ send = <<>>
    /\ writer = "off"
    /\ broken = FALSE
    /\ frames = <<>>
    /\ from = MaxEvents + 1

Visible(e) == Scope = Unscoped \/ log[e].session = Scope

-----------------------------------------------------------------------------
(* The bus: an event enters the history together with the decision who is  *)
(* called with it; the handler is called later, without the bus's lock.    *)

Publish(p) ==
    /\ pub[p] = 0 /\ Len(log) < MaxEvents
    /\ \E t \in Type, s \in Session :
          /\ log' = Append(log, [type |-> t, session |-> s])
          /\ pub' = [pub EXCEPT ![p] = IF t \in subs THEN Len(log) + 1 ELSE 0]
    /\ UNCHANGED <<subs, conn, send, writer, broken, frames, from>>

\* MUTANT: an event that finds the channel full is skipped.
HandleSkipping(e, live) ==
    /\ send' = IF Visible(e) /\ Len(send) < Capacity
               THEN Append(send, [event |-> e, live |-> live]) ELSE send
    /\ UNCHANGED broken

\* MUTANT: the handler waits for room in the channel.
HandleBlocking(e, live) ==
    /\ Visible(e) => Len(send) < Capacity
    /\ send' = IF Visible(e) THEN Append(send, [event |-> e, live |-> live])
               ELSE send
    /\ UNCHANGED broken

\* The handler: an event of another session is ignored, a full channel closes
\* the connection.
Handle(e, live) ==
    \/ ~Visible(e) /\ UNCHANGED <<send, broken>>
    \/ /\ Visible(e) /\ Len(send) < Capacity
       /\ send' = Append(send, [event |-> e, live |-> live])
       /\ UNCHANGED broken
    \/ /\ Visible(e) /\ Len(send) = Capacity
       /\ broken' = TRUE
       /\ UNCHANGED send

Deliver(p) ==
    /\ pub[p] # 0
    /\ Handle(pub[p], TRUE)
    /\ pub' = [pub EXCEPT ![p] = 0]
    /\ UNCHANGED <<log, subs, conn, writer, frames, from>>

-----------------------------------------------------------------------------
(* HandleWebSocket.                                                        *)

GoTo(place) == conn' = [conn EXCEPT !.at = place]

\* From the last subscription on, every event reaches the handler.
Subscribe(t) ==
    /\ conn.at = "subscribing" /\ t \notin subs
    /\ subs' = subs \cup {t}
    /\ IF subs' = Type THEN GoTo("greeting") /\ from' = Len(log) + 1
                       ELSE UNCHANGED <<conn, from>>
    /\ UNCHANGED <<log, pub, send, writer, broken, frames>>

\* This send blocks, and the write pump is not running yet.
Greet ==
    /\ conn.at = "greeting" /\ Len(send) < Capacity
    /\ send' = Append(send, Connected)
    /\ GoTo("greeted")
    /\ UNCHANGED <<log, pub, subs, writer, broken, frames, from>>

\* The history, if the request asks for it; the client is owed what is in it.
LookBack ==
    /\ conn.at = "greeted"
    /\ \/ /\ LET first == IF Len(log) > Window THEN Len(log) - Window + 1 ELSE 1
             IN  /\ conn' = [at |-> "replaying",
                             replay |-> [i \in 1 .. Len(log) - first + 1 |->
                                            first + i - 1]]
                 /\ from' = IF first < from THEN first ELSE from
       \/ GoTo("replaying") /\ UNCHANGED from
    /\ UNCHANGED <<log, pub, subs, send, writer, broken, frames>>

ReplayNext ==
    /\ conn.at = "replaying" /\ conn.replay # <<>>
    /\ Handle(Head(conn.replay), FALSE)
    /\ conn' = [conn EXCEPT !.replay = Tail(@)]
    /\ UNCHANGED <<log, pub, subs, writer, frames, from>>

StartPumps ==
    /\ conn.at = "replaying" /\ conn.replay = <<>>
    /\ GoTo("pumping")
    /\ writer' = "on"
    /\ UNCHANGED <<log, pub, subs, send, broken, frames, from>>

\* The read pump returns, and the deferred unsubscriptions run.
ReadEnds ==
    /\ conn.at = "pumping" /\ broken
    /\ GoTo("leaving")
    /\ UNCHANGED <<log, pub, subs, send, writer, broken, frames, from>>

\* MUTANT: only the last subscription is cancelled.
UnsubscribeOnce(t) ==
    /\ conn.at = "leaving" /\ t \in subs
    /\ subs' = subs \ {t}
    /\ GoTo("gone")
    /\ UNCHANGED <<log, pub, send, writer, broken, frames, from>>

Unsubscribe(t) ==
    /\ conn.at = "leaving" /\ t \in subs
    /\ subs' = subs \ {t}
    /\ IF subs' = {} THEN GoTo("gone") ELSE UNCHANGED conn
    /\ UNCHANGED <<log, pub, send, writer, broken, frames, from>>

-----------------------------------------------------------------------------
(* The write pump and the peer.                                            *)

\* A frame is written, or the write or the ping fails and the socket is closed.
Write ==
    /\ writer = "on"
    /\ \/ /\ ~broken /\ send # <<>>
          /\ frames' = Append(frames, Head(send))
          /\ send' = Tail(send)
          /\ UNCHANGED <<writer, broken>>
       \/ /\ broken
          /\ writer' = "ended"
          /\ UNCHANGED <<send, frames, broken>>
    /\ UNCHANGED <<log, pub, subs, conn, from>>

\* The peer hangs up, or stops answering pings or taking frames.
PeerLeaves ==
    /\ ~broken
    /\ broken' = TRUE
    /\ UNCHANGED <<log, pub, subs, conn, send, writer, frames, from>>

Serve ==
    \/ \E t \in Type : Subscribe(t) \/ Unsubscribe(t)
    \/ Greet \/ LookBack \/ ReplayNext \/ StartPumps \/ ReadEnds

Next ==
    \/ \E p \in Publisher : Publish(p) \/ Deliver(p)
    \/ Serve \/ Write \/ PeerLeaves

Spec == Init /\ [][Next]_vars

-----------------------------------------------------------------------------

\* What the client gets, in order.
Feed == frames \o send

Shown == {Feed[i].event : i \in 1 .. Len(Feed)}

\* A narrowed connection sees events of its own session only, live or replayed.
OnlyItsOwnSession ==
    Scope # Unscoped => \A e \in Shown \ {0} : log[e].session = Scope

\* While the socket is open the feed has no gap: what the client is owed, from
\* the oldest event replayed or the last subscription on, was sent, is waiting
\* to be sent, or is on its way.  A client that is too slow is disconnected
\* and never skips an event.
NoSilentGap ==
    ~broken => \A e \in from .. Len(log) :
        \/ ~Visible(e)
        \/ e \in Shown
        \/ \E p \in Publisher : pub[p] = e
        \/ e \in ToSet(conn.replay)

\* "a first-frame {"type":"connected"} handshake so clients know the feed is
\* live before any bus event arrives" (docs/DESIGN-GATEWAY.md).
GreetingComesFirst == Feed # <<>> => Head(Feed) = Connected

\* "replays up to N events ... before the live feed begins" (docs/GREENHOUSE.md).
ReplayPrecedesLive ==
    \A i, j \in 1 .. Len(Feed) :
        Feed[i].live /\ Feed[j].event # 0 /\ ~Feed[j].live => j < i

-----------------------------------------------------------------------------

PublisherFairness == \A p \in Publisher : WF_vars(Deliver(p))

PublisherSpec == Spec /\ PublisherFairness

\* The goroutines of the connection run on.
ConnectionFairness == WF_vars(Serve) /\ WF_vars(Write)

FairSpec == PublisherSpec /\ ConnectionFairness

\* A publisher is never held up by a client, however slow.
ClientNeverBlocksPublisher == \A p \in Publisher : pub[p] # 0 ~> pub[p] = 0

\* A connection that was greeted leaves no handler on the bus when it breaks.
GreetedIsReleased ==
    ConnectionFairness =>
        (broken /\ conn.at \in {"greeted", "replaying", "pumping"} ~> subs = {})

\* "closes conn. readPump's blocked ReadMessage immediately errors and returns,
\* running the deferred unsubscribe loop" (docs/DESIGN-GATEWAY.md): no broken
\* connection keeps its handlers.
BrokenIsReleased == broken ~> subs = {}

=============================================================================
