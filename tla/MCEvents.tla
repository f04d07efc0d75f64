------------------------------- MODULE MCEvents -------------------------------
(* What becomes of an event: the sinks of the bus, its handlers, one          *)
(* connection to the live feed, and what the sinks and the health monitor do  *)
(* with it outside.  A behaviour has its focus on one of them and the others  *)
(* rest; the bus is there with sinks or with handlers, which it serves one    *)
(* after the other.                                                           *)
EXTENDS EventBus, TLC
CONSTANTS p1, p2,                           \* publishers
          Type, Session, Scope, Unscoped,   \* of Gateway
          Capacity, Window, FeedEvents,
          Stems, Prober, Transport,         \* of Telemetry
          MaxSize, Keep, Attempts, LogEvents, MaxPosts, MaxRuns
VARIABLES
    focus,
    log, calling, subs, conn, send, writer, broken, frames, from,
    resin, active, amber, written, sender, collector, under, outcome,
    health, prober, runs, announced

Feed == INSTANCE Gateway WITH MaxEvents <- FeedEvents, pub <- calling
Outside == INSTANCE Telemetry WITH MaxEvents <- LogEvents, log <- active

ASSUME FeedIsBounded ==
    Feed!ScopeAssumption /\ Feed!CapacityAssumption /\ Feed!MaxEventsAssumption
ASSUME OutsideIsBounded == Outside!TelemetryAssumption
\* Stems that share one log do lose events.
ASSUME OneStem == \A s, t \in Stems : s = t

feed == <<log, calling, subs, conn, send, writer, broken, frames, from>>
archived == <<resin, active, amber, written>>
posted   == <<sender, collector, under, outcome>>
watched  == <<health, prober, runs, announced>>
outside  == <<archived, posted, watched>>

MCInit == /\ focus \in {"sinks", "calls", "feed", "resin", "remote", "health"}
          /\ Init /\ Feed!Init /\ Outside!Init

MCNext ==
    /\ \/ /\ focus = "sinks" /\ Next /\ UNCHANGED <<feed, outside>>
          /\ handlers' = <<>>
       \/ /\ focus = "calls" /\ Next /\ UNCHANGED <<feed, outside>>
          /\ \A s \in Sink : sink'[s].on = "detached"
       \/ focus = "feed" /\ Feed!Next /\ UNCHANGED <<vars, outside>>
       \/ focus = "resin" /\ Outside!ResinNext /\ UNCHANGED <<vars, feed, posted, watched>>
       \/ focus = "remote" /\ Outside!RemoteNext /\ UNCHANGED <<vars, feed, archived, watched>>
       \/ focus = "health" /\ Outside!HealthNext /\ UNCHANGED <<vars, feed, archived, posted>>
    /\ UNCHANGED focus

\* Publishers run on; nothing is assumed of a sink or of a client.
MCSpec ==
    /\ MCInit /\ [][MCNext]_<<focus, vars, feed, outside>>
    /\ \A p \in {p1, p2} : /\ WF_vars(focus = "sinks" /\ Publishing(p))
                           /\ WF_feed(focus = "feed" /\ Feed!Deliver(p))

-----------------------------------------------------------------------------
\* The feed of an open connection has no gap; what the Resin log took is in the
\* log or an archive until retention takes the oldest; an event that a collector
\* answered for has arrived; each change of health is announced once.
WhatIsShownIsTrue ==
    /\ focus = "feed" => Feed!NoSilentGap
    /\ focus \in {"resin", "remote", "health"} => Outside!TelemetryIsTrue

\* A publisher is held up by no sink and by no client, however slow.
HeldUp == focus # "calls" /\ (pub[p1].at # "idle" \/ calling[p1] # 0)
PublishersGoOn == HeldUp ~> ~HeldUp \/ exited

\* Shutdown returns while publishers go on, if the sinks run on; a connection
\* that was greeted leaves no handler on the bus when it breaks, if its
\* goroutines run on.
Leaving == \/ focus = "sinks" /\ stop = "interrupted"
           \/ broken /\ conn.at \in {"greeted", "replaying", "pumping"}
Left == \/ focus = "sinks" /\ (stop = "stopped" \/ exited)
        \/ focus = "feed" /\ subs = {}
WhatLeavesIsReleased ==
    (/\ \A s \in Sink : WF_vars(focus = "sinks" /\ Pumping(s))
     /\ WF_vars(focus = "sinks" /\ Stopping)
     /\ WF_feed(focus = "feed" /\ Feed!Serve) /\ WF_feed(focus = "feed" /\ Feed!Write))
    => (Leaving ~> Left)

\* Neither those that publish nor those that leave wait for ever.
NothingIsHeldUp == PublishersGoOn /\ WhatLeavesIsReleased

===============================================================================
