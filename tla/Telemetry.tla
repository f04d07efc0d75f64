------------------------------ MODULE Telemetry ------------------------------
(***************************************************************************)
(* Where events go when they leave the bus, and one that makes them: the   *)
(* Resin log that hardens into Amber archives, a remote transporter with   *)
(* its retries, and the health monitor (telemetry/resin.go,                *)
(* telemetry/transporter.go, telemetry/remotesinks.go, healthmon).         *)
(*                                                                         *)
(* Events are numbered in the order in which the pump hands them on; what  *)
(* redaction takes out of them is left out.  The two sinks run on pumps of *)
(* their own, so that only the health monitor has several threads.         *)
(***************************************************************************)
EXTENDS Naturals, Sequences, FiniteSets, SequencesExt

CONSTANTS
  Stems,        \* processes that write one Resin log
  Prober,       \* requests and tickers that run the health checks
  MaxEvents,    \* bound on the events of the Resin log
  MaxPosts,     \* bound on the events of the remote sink
  MaxSize,      \* how many events make the log harden
  Keep,         \* archives that are kept
  Attempts,     \* telemetryRetryAttempts
  Transport,    \* "webhook", "redis" or "websocket"
  MaxRuns       \* bound on the runs of the checks

VARIABLES
  resin,        \* each Stem's sink: where it is, and the archive it writes
  log,          \* the active log
  amber,        \* the archives, oldest first: their events, and if they are whole
  written,      \* ghost: the events the log took
  sender,       \* the remote sink: its event, its attempts, its connection
  collector,    \* how often the collector received each event
  under,        \* events on their way on a connection
  outcome,      \* ghost: what the remote sink made of each event
  health,       \* the monitor's hasRun and lastOverall
  prober,       \* each run of the checks
  runs,         \* ghost: whether each run found all healthy, as the monitor saw them
  announced     \* how often each transition was published

rvars == <<resin, log, amber, written>>
tvars == <<sender, collector, under, outcome>>
hvars == <<health, prober, runs, announced>>
vars  == <<rvars, tvars, hvars>>

TelemetryAssumption == /\ {MaxSize, Keep, Attempts} \subseteq Nat \ {0}
                       /\ {MaxEvents, MaxPosts, MaxRuns} \subseteq Nat
                       /\ IsFiniteSet(Prober)
                       /\ Transport \in {"webhook", "redis", "websocket"}

Ready == [pc |-> "ready", of |-> 0]
Free  == [pc |-> "idle", event |-> 0, attempt |-> 0, conn |-> FALSE]
Quiet == [pc |-> "idle", healthy |-> TRUE, recovered |-> FALSE]

Init == /\ resin = [s \in Stems |-> Ready] /\ log = <<>> /\ amber = <<>> /\ written = 0
        /\ sender = Free /\ collector = [e \in 1..MaxPosts |-> 0] /\ under = {} /\ outcome = <<>>
        /\ health = [hasRun |-> FALSE, overall |-> FALSE]
        /\ prober = [p \in Prober |-> Quiet] /\ runs = <<>>
        /\ announced = [degraded |-> 0, recovered |-> 0]

-----------------------------------------------------------------------------
(***************************************************************************)
(* Resin.  handle holds the sink's lock; every error is swallowed, and the *)
(* sink turns to the next event.                                           *)
(***************************************************************************)
ResinAt(s, pc) == resin[s].pc = pc
ResinTo(s, pc) == resin' = [resin EXCEPT ![s] = [@ EXCEPT !.pc = pc]]

\* An event is appended or, if the disk says no, is not.
Append1(s) ==
  /\ ResinAt(s, "ready") /\ written < MaxEvents
  /\ written' = written + 1
  /\ log' = Append(log, written + 1)
  /\ ResinTo(s, IF Len(log) + 1 >= MaxSize THEN "oversize" ELSE "ready")
  /\ UNCHANGED amber

\* The archive is created under a name that sorts after all others.
CreateArchive(s) ==
  /\ ResinAt(s, "oversize")
  /\ amber' = Append(amber, [events |-> {}, whole |-> FALSE])
  /\ resin' = [resin EXCEPT ![s] = [pc |-> "compressing", of |-> Len(amber) + 1]]
  /\ UNCHANGED <<log, written>>

\* gzipFile copies what the log holds, and removes the archive if it cannot.
Compress(s) ==
  /\ ResinAt(s, "compressing")
  /\ LET i == resin[s].of IN
     \/ /\ amber' = [amber EXCEPT ![i] = [events |-> ToSet(log), whole |-> TRUE]]
        /\ ResinTo(s, "archived")
     \/ amber' = RemoveAt(amber, i) /\ ResinTo(s, "ready")
  /\ UNCHANGED <<log, written>>

\* MUTANT: the log restarts before the archive is complete.
TruncateEarly(s) ==
  /\ resin[s].pc = "compressing"
  /\ log' = <<>> /\ ResinTo(s, "pruning") /\ UNCHANGED <<amber, written>>

\* "The active log only restarts after a fully written archive."
Truncate(s) ==
  /\ ResinAt(s, "archived")
  /\ \/ log' = <<>> /\ ResinTo(s, "pruning")
     \/ UNCHANGED log /\ ResinTo(s, "ready")
  /\ UNCHANGED <<amber, written>>

Surplus == IF Len(amber) > Keep THEN Len(amber) - Keep ELSE 0
PruneAmber(s) ==
  /\ ResinAt(s, "pruning")
  /\ amber' = SubSeq(amber, Surplus + 1, Len(amber))
  /\ ResinTo(s, "ready")
  /\ UNCHANGED <<log, written>>

\* The Stem dies; a new one appends to the same log.
ResinDies(s) ==
  /\ ~ResinAt(s, "ready")
  /\ resin' = [resin EXCEPT ![s] = Ready]
  /\ UNCHANGED <<log, amber, written>>

ResinNext == \E s \in Stems : \/ Append1(s) \/ CreateArchive(s) \/ Compress(s)
                              \/ Truncate(s) \/ PruneAmber(s) \/ ResinDies(s)

-----------------------------------------------------------------------------
(***************************************************************************)
(* The remote sink.  A webhook and Redis answer; a WebSocket takes what is *)
(* written to it.  What a connection still carries when it is given up may *)
(* arrive later.                                                           *)
(***************************************************************************)
Become(r)   == sender' = r
Received(e) == collector' = [collector EXCEPT ![e] = @ + 1]

\* Consume: the next event; a webhook needs no connection kept.
Consume ==
  /\ sender.pc = "idle" /\ Len(outcome) < MaxPosts
  /\ Become([sender EXCEPT !.pc = "dial", !.event = Len(outcome) + 1, !.attempt = 1])
  /\ UNCHANGED <<collector, under, outcome>>

GiveUpOr(conn) ==
  IF sender.attempt < Attempts
  THEN /\ Become([sender EXCEPT !.pc = "dial", !.attempt = @ + 1, !.conn = conn])
       /\ UNCHANGED outcome
  ELSE /\ Become([Free EXCEPT !.conn = conn])
       /\ outcome' = Append(outcome, "failed")

\* ensureConn keeps the connection it has, or dials.
EnsureConn ==
  /\ sender.pc = "dial"
  /\ \/ Become([sender EXCEPT !.pc = "send", !.conn = TRUE]) /\ UNCHANGED outcome
     \/ ~sender.conn /\ GiveUpOr(FALSE)
  /\ UNCHANGED <<collector, under>>

Delivered(conn) == /\ Become([Free EXCEPT !.conn = conn])
                   /\ outcome' = Append(outcome, "delivered")
\* A failure drops the connection; the next attempt dials again.
Emit ==
  /\ sender.pc = "send"
  /\ \/ /\ Received(sender.event)    \* it arrives, and is answered
        /\ Delivered(Transport # "webhook") /\ UNCHANGED under
     \/ /\ Received(sender.event)    \* it arrives, the answer does not
        /\ GiveUpOr(FALSE) /\ UNCHANGED under
     \/ /\ GiveUpOr(FALSE) /\ UNCHANGED <<collector, under>>
     \/ /\ under' = under \cup {<<sender.event, sender.attempt>>}
        /\ UNCHANGED collector
        /\ IF Transport = "websocket" THEN Delivered(TRUE) ELSE GiveUpOr(FALSE)

Arrive ==
  /\ \E m \in under : /\ under' = under \ {m}
                      /\ \/ Received(m[1])
                         \/ UNCHANGED collector
  /\ UNCHANGED <<sender, outcome>>

RemoteNext == Consume \/ EnsureConn \/ Emit \/ Arrive

-----------------------------------------------------------------------------
(***************************************************************************)
(* The health monitor: every GET /health runs the checks; the lock covers  *)
(* the exchange of the last result and not the publication.                *)
(***************************************************************************)
RunOnce(p) ==
  /\ prober[p].pc = "idle" /\ Len(runs) + Cardinality({q \in Prober : prober[q].pc = "checked"}) < MaxRuns
  /\ \E h \in BOOLEAN : prober' = [prober EXCEPT ![p] = [Quiet EXCEPT !.pc = "checked", !.healthy = h]]
  /\ UNCHANGED <<health, runs, announced>>

Exchange(p) ==
  /\ prober[p].pc = "checked"
  /\ health' = [hasRun |-> TRUE, overall |-> prober[p].healthy]
  /\ prober' = [prober EXCEPT ![p].pc = "publishing",
                              ![p].recovered = health.hasRun /\ ~health.overall]
  /\ runs' = Append(runs, prober[p].healthy)
  /\ UNCHANGED announced

Publish(p) ==
  /\ prober[p].pc = "publishing"
  /\ announced' = CASE ~prober[p].healthy  -> [announced EXCEPT !.degraded = @ + 1]
                    [] prober[p].healthy /\ prober[p].recovered
                                           -> [announced EXCEPT !.recovered = @ + 1]
                    [] OTHER               -> announced
  /\ prober' = [prober EXCEPT ![p] = Quiet]
  /\ UNCHANGED <<health, runs>>

HealthNext == \E p \in Prober : RunOnce(p) \/ Exchange(p) \/ Publish(p)

Next == \/ ResinNext /\ UNCHANGED <<tvars, hvars>>
        \/ RemoteNext /\ UNCHANGED <<rvars, hvars>>
        \/ HealthNext /\ UNCHANGED <<rvars, tvars>>

Spec == Init /\ [][Next]_vars

-----------------------------------------------------------------------------
\* The shape of the state.
TypeOK ==
  /\ \A s \in Stems : resin[s].pc \in {"ready", "oversize", "compressing", "archived", "pruning"}
  /\ ToSet(log) \subseteq 1..MaxEvents /\ written \in 0..MaxEvents
  /\ sender.pc \in {"idle", "dial", "send"} /\ sender.attempt \in 0..Attempts
  /\ ToSet(outcome) \subseteq {"delivered", "failed"}
  /\ announced \in [{"degraded", "recovered"} -> 0..MaxRuns]

Kept == ToSet(log) \cup UNION {amber[i].events : i \in DOMAIN amber}

\* "A failed compression can never lose events": with one Stem, what the log
\* took is in the log or an archive, but for the oldest, which retention took;
\* wherever the sink fails or the Stem dies.
ResinKeepsTheLatest ==
  \A e \in 1..written : e \in Kept \/ \A f \in Kept : e < f
ResinKeepsTheLog ==
  Cardinality(1..written \ Kept) > 0 => Len(amber) >= Keep

\* The collector of a transport that answers has every event the sink did not
\* count as failed; no event arrives more often than it was attempted, and none
\* that was never sent.
AnsweredIsReceived ==
  /\ Transport # "websocket" =>
       \A e \in DOMAIN outcome : outcome[e] = "delivered" => collector[e] > 0
  /\ \A e \in DOMAIN collector :
       /\ collector[e] <= Attempts
       /\ e > Len(outcome) + 1 => collector[e] = 0

\* When no run is under way, each run that found a fault was announced, and each
\* change from a fault to health once, however the runs overlapped.
ChangesAreAnnounced ==
  (\A p \in Prober : prober[p].pc # "publishing") =>
    /\ announced.degraded = Cardinality({i \in DOMAIN runs : ~runs[i]})
    /\ announced.recovered = Cardinality({i \in DOMAIN runs : i > 1 /\ runs[i] /\ ~runs[i - 1]})

TelemetryIsTrue ==
  ResinKeepsTheLatest /\ ResinKeepsTheLog /\ AnsweredIsReceived /\ ChangesAreAnnounced

==============================================================================
