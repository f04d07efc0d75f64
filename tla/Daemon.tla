------------------------------- MODULE Daemon -------------------------------
(***************************************************************************)
(* `tendril serve` as a process: the API key it establishes, the lease and *)
(* the local Unix socket it opens, the TCP port it binds, the requests it  *)
(* serves and the order in which it shuts down (cmdserve.go,               *)
(* cmdservesocket.go, main.go).  Several Stems of one principal share one  *)
(* directory and one TENDRIL_LOCAL_SOCKET path; an outsider may put a      *)
(* socket of its own at that path.                                         *)
(*                                                                         *)
(* A request stands for everything a handler does; an event it publishes   *)
(* waits in the sink's buffer until the pump writes it to history.db.      *)
(***************************************************************************)
EXTENDS Naturals, FiniteSets, TLC

CONSTANTS
  Stems,        \* Stem processes (and, as a value, the key each generates)
  Ports,        \* TCP addresses a Stem may be configured with
  Inodes,       \* numbers of socket inodes; 0 is "no file"
  NoKey,        \* no api-key file
  EnvKey,       \* the key of EnvBotanistKey
  Outsiders,    \* whether an outsider touches the socket path
  MaxStarts,    \* bound on the starts
  MaxRequests   \* bound on the servers of a Stem with a request in flight

VARIABLES
  stem,         \* each Stem process
  path,         \* the inode the socket path names, 0 when it names none
  inode,        \* who owns each inode and whether something listens on it
  keyFile,      \* .tendril/api-key
  starts,       \* starts so far
  lost          \* an orderly exit abandoned a request or an event

vars == <<stem, path, inode, keyFile, starts, lost>>

\* The Stems are interchangeable.
StemsAreAlike == Permutations(Stems)

Transports == {"api", "remote", "local"}
Free == [owner |-> "none", live |-> FALSE]
Off  == [pc |-> "off", port |-> NoKey, key |-> NoKey, lock |-> FALSE,
         lis |-> 0, id |-> 0, open |-> {}, busy |-> {}, queued |-> FALSE]

Init == /\ stem = [d \in Stems |-> Off]
        /\ path = 0
        /\ inode = [i \in Inodes |-> Free]
        /\ keyFile = NoKey
        /\ starts = 0
        /\ lost = FALSE

Become(d, r) == stem' = [stem EXCEPT ![d] = r]
Goto(d, pc)  == Become(d, [stem[d] EXCEPT !.pc = pc])
At(d, pc)    == stem[d].pc = pc

(***************************************************************************)
(* Inodes.  An unlinked inode is freed once nothing listens on it.         *)
(***************************************************************************)
Unlinked(nodes) == [nodes EXCEPT ![path] = IF @.live THEN @ ELSE Free]
Deafened(nodes, i) ==
  IF i = 0 THEN nodes
  ELSE [nodes EXCEPT ![i] = IF path = i THEN [@ EXCEPT !.live = FALSE] ELSE Free]

-----------------------------------------------------------------------------
(***************************************************************************)
(* Starting: the key, the optional socket, the port.                       *)
(***************************************************************************)
Start(d) ==
  /\ At(d, "off") /\ starts < MaxStarts
  /\ starts' = starts + 1
  /\ Become(d, [Off EXCEPT !.pc = "key"])
  /\ UNCHANGED <<path, inode, keyFile, lost>>

ReadKey(d) ==
  /\ At(d, "key")
  /\ \/ Become(d, [stem[d] EXCEPT !.pc = "socket", !.key = EnvKey])
     \/ /\ keyFile # NoKey
        /\ Become(d, [stem[d] EXCEPT !.pc = "socket", !.key = keyFile])
     \/ /\ keyFile = NoKey
        /\ Goto(d, "generated")
  /\ UNCHANGED <<path, inode, keyFile, starts, lost>>

WriteKey(d) ==
  /\ At(d, "generated")
  /\ keyFile' = d
  /\ Become(d, [stem[d] EXCEPT !.pc = "socket", !.key = d])
  /\ UNCHANGED <<path, inode, starts, lost>>

LeaseIsFree == \A d \in Stems : ~stem[d].lock

(* Mutant: the socket is opened without the lease. *)
OpenWithoutLease(d) ==
  /\ At(d, "socket")
  /\ \/ Goto(d, "bind")
     \/ IF path = 0 THEN Goto(d, "listen")
        ELSE /\ ~inode[path].live /\ inode[path].owner = "stem"
             /\ Goto(d, "stale")
  /\ UNCHANGED <<path, inode, keyFile, starts, lost>>

\* The path must name nothing, or a stale socket of this principal.
OpenLocalSocket(d) ==
  /\ At(d, "socket")
  /\ \/ Goto(d, "bind")                         \* not configured, or an error
     \/ /\ LeaseIsFree
        /\ IF path = 0 THEN Become(d, [stem[d] EXCEPT !.pc = "listen", !.lock = TRUE])
           ELSE /\ ~inode[path].live /\ inode[path].owner = "stem"
                /\ Become(d, [stem[d] EXCEPT !.pc = "stale", !.lock = TRUE])
  /\ UNCHANGED <<path, inode, keyFile, starts, lost>>

RemoveStale(d) ==
  /\ At(d, "stale")
  /\ IF path = 0 THEN UNCHANGED <<path, inode>>
     ELSE path' = 0 /\ inode' = Unlinked(inode)
  /\ Goto(d, "listen")
  /\ UNCHANGED <<keyFile, starts, lost>>

Listen(d) ==
  /\ At(d, "listen")
  /\ IF path # 0
     THEN /\ Become(d, [stem[d] EXCEPT !.pc = "bind", !.lock = FALSE])
          /\ UNCHANGED <<path, inode>>
     ELSE \E i \in Inodes :
            /\ inode[i] = Free
            /\ path' = i
            /\ inode' = [inode EXCEPT ![i] = [owner |-> "stem", live |-> TRUE]]
            /\ Become(d, [stem[d] EXCEPT !.pc = "identify", !.lis = i])
  /\ UNCHANGED <<keyFile, starts, lost>>

\* The identity is whatever the path names after the listen.  Without one, or
\* if it cannot be given its mode, the listener is closed, and in the second
\* case the name goes with it, unless something listens there.
Unopened(d, nodes) ==
  /\ Become(d, [stem[d] EXCEPT !.pc = "bind", !.lock = FALSE, !.lis = 0])
  /\ IF path # 0 /\ ~nodes[path].live THEN path' = 0 /\ inode' = Unlinked(nodes)
     ELSE path' = path /\ inode' = nodes

Identify(d) ==
  /\ At(d, "identify")
  /\ \/ /\ path # 0
        /\ Become(d, [stem[d] EXCEPT !.pc = "bind", !.id = path, !.open = {"local"}])
        /\ UNCHANGED <<path, inode>>
     \/ Unopened(d, Deafened(inode, stem[d].lis))
  /\ UNCHANGED <<keyFile, starts, lost>>

PortIsFree(p) == \A d \in Stems : stem[d].port # p

\* The process ends: the kernel drops the lease and closes the listener, and
\* the path keeps naming a dead socket.
Ended(d) == /\ Become(d, Off)
            /\ inode' = Deafened(inode, stem[d].lis)
            /\ UNCHANGED <<path, keyFile, starts>>

BindApi(d) ==
  /\ At(d, "bind")
  /\ \E p \in Ports :
       IF PortIsFree(p)
       THEN /\ Become(d, [stem[d] EXCEPT !.pc = "serving", !.port = p,
                                         !.open = @ \cup {"api", "remote"}])
            /\ UNCHANGED <<path, inode, keyFile, starts>>
       ELSE Ended(d)
  /\ UNCHANGED lost

-----------------------------------------------------------------------------
(***************************************************************************)
(* Serving.                                                                *)
(***************************************************************************)
Accept(d, t) ==
  /\ t \in stem[d].open
  /\ Cardinality(stem[d].busy) < MaxRequests
  /\ t = "local" => path = stem[d].lis
  /\ Become(d, [stem[d] EXCEPT !.busy = @ \cup {t}])
  /\ UNCHANGED <<path, inode, keyFile, starts, lost>>

BusIsOpen(d) == stem[d].pc \notin {"off", "history", "done"}

\* The handler publishes and answers.
Answer(d, t) ==
  /\ t \in stem[d].busy
  /\ Become(d, [stem[d] EXCEPT !.busy = @ \ {t}, !.queued = @ \/ BusIsOpen(d)])
  /\ UNCHANGED <<path, inode, keyFile, starts, lost>>

Pump(d) ==
  /\ stem[d].queued
  /\ Become(d, [stem[d] EXCEPT !.queued = FALSE])
  /\ UNCHANGED <<path, inode, keyFile, starts, lost>>

-----------------------------------------------------------------------------
(***************************************************************************)
(* Shutting down.  Each server stops accepting and waits for its requests. *)
(***************************************************************************)
Signal(d) ==
  /\ At(d, "serving")
  /\ Become(d, [stem[d] EXCEPT !.pc = "api", !.port = NoKey, !.open = @ \ {"api"}])
  /\ UNCHANGED <<path, inode, keyFile, starts, lost>>

(* Mutant: the servers are closed and not waited for. *)
CloseServer(d, t, next) ==
  /\ At(d, t)
  /\ Become(d, [stem[d] EXCEPT !.pc = next, !.open = @ \ {next}])
  /\ UNCHANGED <<path, inode, keyFile, starts, lost>>

ShutdownServer(d, t, next) ==
  /\ At(d, t) /\ t \notin stem[d].busy
  /\ Become(d, [stem[d] EXCEPT !.pc = next, !.open = @ \ {next}])
  /\ UNCHANGED <<path, inode, keyFile, starts, lost>>

\* removeIfStillOwned: another inode, or a live one, is left alone.
CloseLocal(d) ==
  /\ At(d, "local") /\ "local" \notin stem[d].busy
  /\ LET nodes == Deafened(inode, stem[d].lis) IN
     /\ inode' = nodes
     /\ Become(d, [stem[d] EXCEPT !.lis = 0,
          !.pc = IF path # 0 /\ path = stem[d].id /\ ~nodes[path].live
                 THEN "unlink" ELSE "release"])
  /\ UNCHANGED <<path, keyFile, starts, lost>>

Unlink(d) ==
  /\ At(d, "unlink")
  /\ IF path = 0 THEN UNCHANGED <<path, inode>>
     ELSE path' = 0 /\ inode' = Unlinked(inode)
  /\ Goto(d, "release")
  /\ UNCHANGED <<keyFile, starts, lost>>

ReleaseLease(d) ==
  /\ At(d, "release")
  /\ Become(d, [stem[d] EXCEPT !.pc = "bus", !.lock = FALSE, !.id = 0])
  /\ UNCHANGED <<path, inode, keyFile, starts, lost>>

ShutdownBus(d) ==
  /\ At(d, "bus") /\ ~stem[d].queued
  /\ Goto(d, "history")
  /\ UNCHANGED <<path, inode, keyFile, starts, lost>>

CloseHistory(d) ==
  /\ At(d, "history")
  /\ Goto(d, "done")
  /\ UNCHANGED <<path, inode, keyFile, starts, lost>>

Closing == {"api", "remote", "local", "unlink", "release", "bus", "history", "done"}

\* ListenAndServe returns as soon as Shutdown has closed its listener, and
\* main returns with it.
MainReturns(d) ==
  /\ stem[d].pc \in Closing
  /\ lost' = (lost \/ stem[d].busy # {} \/ stem[d].queued)
  /\ Ended(d)

\* A crash, a second signal or the end of the grace period.
Kill(d) ==
  /\ stem[d].pc # "off"
  /\ Ended(d)
  /\ UNCHANGED lost

\* Somebody else puts a socket at the path, or takes the file away.
Tamper ==
  /\ Outsiders
  /\ \/ /\ path # 0 /\ path' = 0 /\ inode' = Unlinked(inode)
     \/ \E i \in Inodes, l \in BOOLEAN :
          /\ path = 0 /\ inode[i] = Free /\ path' = i
          /\ inode' = [inode EXCEPT ![i] = [owner |-> "outsider", live |-> l]]
  /\ UNCHANGED <<stem, keyFile, starts, lost>>

Step(d) ==
  \/ Start(d) \/ ReadKey(d) \/ WriteKey(d)
  \/ OpenLocalSocket(d) \/ RemoveStale(d) \/ Listen(d) \/ Identify(d) \/ BindApi(d)
  \/ \E t \in Transports : Accept(d, t) \/ Answer(d, t)
  \/ Pump(d) \/ Signal(d)
  \/ ShutdownServer(d, "api", "remote") \/ ShutdownServer(d, "remote", "local")
  \/ CloseLocal(d) \/ Unlink(d) \/ ReleaseLease(d)
  \/ ShutdownBus(d) \/ CloseHistory(d) \/ MainReturns(d) \/ Kill(d)

Next == (\E d \in Stems : Step(d)) \/ Tamper

Spec == Init /\ [][Next]_vars
-----------------------------------------------------------------------------
(***************************************************************************)
(* Properties.                                                             *)
(***************************************************************************)
\* The socket a Stem listens on is taken from its path only by that Stem or by
\* an outsider: a second Stem that starts, dies on a taken port or shuts down
\* never unlinks it (bindLocalSocketLocked, localSocket.Close).
SocketIsNotStolen ==
  [][path' # path => \A d, e \in Stems :
       (d # e /\ stem[e] # stem'[e] /\ stem[d].lis # 0 /\ path = stem[d].lis)
         => path' = path]_vars

\* What a request publishes still reaches the sinks, and what the sinks hold
\* still reaches history.db: the bus is shut down after the last request of
\* each server, the database after the last buffered event.
ClosedInOrder ==
  \A d \in Stems :
    /\ stem[d].pc \in {"history", "done"} => stem[d].busy = {} /\ ~stem[d].queued
    /\ stem[d].pc = "bus" => stem[d].busy = {}

\* A Stem that was asked to stop answers what it accepted and drains its sinks
\* before it exits ("Drain telemetry sinks, then release the history
\* database", runServeCmd; "let the running command unwind", main).
OrderlyExitDrains == ~lost

\* The key a serving Stem accepts is the one its own command line reads from
\* the file.  Two first starts each generate a key and the later write wins.
ServedKeyIsOnDisk ==
  \A d \in Stems :
    stem[d].pc = "serving" /\ stem[d].key # EnvKey => stem[d].key = keyFile
=============================================================================
