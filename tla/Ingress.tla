------------------------------- MODULE Ingress -------------------------------
(***************************************************************************)
(* The public ingress of a Stem: the limits on raw connections, requests,  *)
(* token mints, governed admissions and observations, the pace of mints,   *)
(* and the staging of bodies of unknown length (publicingress.go,          *)
(* remotetls.go, the remote mux of cmdserve.go).                           *)
(*                                                                         *)
(* A client has one connection and sends one request at a time over it.    *)
(* Time is counted in parts of the time in which one mint is earned; a     *)
(* bucket of tokens is counted in the same parts.  Deadlines of idle       *)
(* connections and of headers are a client that hangs up.                  *)
(***************************************************************************)
EXTENDS Naturals, Sequences, FiniteSets, SequencesExt

CONSTANTS
  Clients,
  Limit,        \* how many hold a slot of each pool at the same time
  Parts,        \* parts of the time in which a mint is earned
  Burst,        \* mints a full bucket allows at once
  MaxTime       \* bound on the clock

VARIABLES
  client,       \* each client's connection and its request in flight
  active,       \* the length of each pool's channel
  bucket,       \* [tokens, last] of publicMintRateLimiter
  now,          \* the clock
  minted        \* the times at which a mint was let through, in order

vars == <<client, active, bucket, now, minted>>

Pools  == {"connections", "requests", "mints", "admissions", "observations"}
Kinds  == {"mint", "watch", "governed", "readiness"}
Bodies == {"none", "known", "knownLarge", "chunked", "chunkedLarge"}

ASSUME IngressAssumption == /\ Limit \in [Pools -> Nat]
                            /\ {Parts, Burst} \subseteq Nat \ {0}
                            /\ MaxTime \in Nat
                            /\ IsFiniteSet(Clients)

\* held: the slots of the request in the order they were taken; staged: its
\* body is in a temporary file; whole: the handler reads that file to its end.
Closed == [pc |-> "closed", kind |-> "none", body |-> "none", proven |-> FALSE,
           held |-> <<>>, staged |-> FALSE, whole |-> FALSE, gone |-> FALSE]
Idle   == [Closed EXCEPT !.pc = "idle"]

Init == /\ client = [c \in Clients |-> Closed]
        /\ active = [p \in Pools |-> 0]
        /\ bucket = [tokens |-> Burst * Parts, last |-> 0]
        /\ now = 0
        /\ minted = <<>>

At(c, pc)    == client[c].pc = pc
Become(c, r) == client' = [client EXCEPT ![c] = r]
Goto(c, pc)  == Become(c, [client[c] EXCEPT !.pc = pc])
Answer(c)    == Goto(c, "answered")

Minting(c) == client[c].kind = "mint"

(***************************************************************************)
(* tryAcquire takes a slot if the channel has room, and never waits.       *)
(***************************************************************************)
Room(p) == active[p] < Limit[p]
Take(c, p, pc) ==
  IF Room(p)
  THEN /\ active' = [active EXCEPT ![p] = @ + 1]
       /\ Become(c, [client[c] EXCEPT !.pc = pc, !.held = Append(@, p)])
  ELSE Answer(c) /\ UNCHANGED active

-----------------------------------------------------------------------------
(***************************************************************************)
(* A connection over the limit is closed before anything is read from it.  *)
(***************************************************************************)
Connect(c) ==
  /\ At(c, "closed") /\ Room("connections")
  /\ active' = [active EXCEPT !["connections"] = @ + 1]
  /\ Become(c, Idle)
  /\ UNCHANGED <<bucket, now, minted>>

Arrive(c) ==
  /\ At(c, "idle") /\ ~client[c].gone
  /\ \E k \in Kinds, b \in Bodies, p \in BOOLEAN :
       /\ k \in {"watch", "readiness"} => b = "none"
       /\ k \in {"mint", "readiness"} => ~p
       /\ Become(c, [Idle EXCEPT !.pc = "arrived", !.kind = k, !.body = b, !.proven = p])
  /\ UNCHANGED <<active, bucket, now, minted>>

\* wrap: the slot of every request, then the slot and the pace of a mint.
Admit(c) ==
  /\ At(c, "arrived")
  /\ Take(c, "requests", IF Minting(c) THEN "minting" ELSE "sizing")
  /\ UNCHANGED <<bucket, now, minted>>

AdmitMint(c) ==
  /\ At(c, "minting")
  /\ Take(c, "mints", "pacing")
  /\ UNCHANGED <<bucket, now, minted>>

Least(a, b) == IF a < b THEN a ELSE b
\* MUTANT: what is earned is not bounded by the bucket.
RefilledUnbounded == bucket.tokens + (now - bucket.last)
Refilled == Least(bucket.tokens + (now - bucket.last), Burst * Parts)

\* allow: the bucket is filled for the time gone by, and a mint costs Parts.
Pace(c) ==
  /\ At(c, "pacing")
  /\ IF Refilled < Parts
     THEN /\ bucket' = [tokens |-> Refilled, last |-> now]
          /\ Answer(c) /\ UNCHANGED minted
     ELSE /\ bucket' = [tokens |-> Refilled - Parts, last |-> now]
          /\ minted' = Append(minted, now)
          /\ Goto(c, "sizing")
  /\ UNCHANGED <<active, now>>

\* A declared length over the limit is refused; the body of a mint is staged
\* before its handler, any other body after its sender was authenticated.
Size(c) ==
  /\ At(c, "sizing")
  /\ IF client[c].body = "knownLarge" THEN Answer(c)
     ELSE Goto(c, CASE Minting(c)                   -> "staging"
                    [] client[c].kind = "readiness" -> "serving"
                    [] OTHER                        -> "authenticating")
  /\ UNCHANGED <<active, bucket, now, minted>>

\* withPollinatorAccessTokenAuth, then a slot among the authenticated.
Authenticate(c) ==
  /\ At(c, "authenticating")
  /\ IF client[c].proven
     THEN Take(c, "admissions",
               IF client[c].kind = "watch" THEN "observing" ELSE "staging")
     ELSE Answer(c) /\ UNCHANGED active
  /\ UNCHANGED <<bucket, now, minted>>

Observe(c) ==
  /\ At(c, "observing")
  /\ Take(c, "observations", "staging")
  /\ UNCHANGED <<bucket, now, minted>>

\* spoolUnknownLengthPublicBody: a body of unknown length is read to its end
\* into a temporary file, or refused: too large, broken off, stalled, no disk.
Chunked(c) == client[c].body \in {"chunked", "chunkedLarge"}
Stage(c) ==
  /\ At(c, "staging")
  /\ IF Chunked(c)
     THEN Become(c, [client[c] EXCEPT !.pc = "spooling", !.staged = TRUE])
     ELSE Goto(c, "serving")
  /\ UNCHANGED <<active, bucket, now, minted>>

RemovePartial(c) == Become(c, [client[c] EXCEPT !.pc = "answered", !.staged = FALSE])
Spool(c) ==
  /\ At(c, "spooling")
  /\ \/ /\ client[c].body = "chunked" /\ ~client[c].gone
        /\ Become(c, [client[c] EXCEPT !.pc = "serving", !.whole = TRUE])
     \/ RemovePartial(c)
  /\ UNCHANGED <<active, bucket, now, minted>>

\* The handler answers or panics: net/http recovers, closes the connection, and
\* the deferred calls run either way.
Serve(c) ==
  /\ At(c, "serving")
  /\ \/ Answer(c)
     \/ Become(c, [client[c] EXCEPT !.pc = "answered", !.gone = TRUE])
  /\ UNCHANGED <<active, bucket, now, minted>>

(***************************************************************************)
(* The deferred calls: the temporary file is removed first, then each slot *)
(* is given back, the latest first.                                        *)
(***************************************************************************)
CleanUp(c) ==
  /\ At(c, "answered") /\ client[c].staged
  /\ Become(c, [client[c] EXCEPT !.staged = FALSE, !.whole = FALSE])
  /\ UNCHANGED <<active, bucket, now, minted>>

Release(c) ==
  /\ At(c, "answered") /\ ~client[c].staged /\ client[c].held # <<>>
  /\ active' = [active EXCEPT ![Last(client[c].held)] = @ - 1]
  /\ Become(c, [client[c] EXCEPT !.held = Front(@)])
  /\ UNCHANGED <<bucket, now, minted>>

Finish(c) ==
  /\ At(c, "answered") /\ ~client[c].staged /\ client[c].held = <<>>
  /\ Become(c, [Idle EXCEPT !.gone = client[c].gone])
  /\ UNCHANGED <<active, bucket, now, minted>>

\* The client goes away, or a deadline says so, which matters where it is read
\* from; the connection is closed when no handler uses it, and its slot is
\* given back once.
HangUp(c) ==
  /\ client[c].pc \in {"idle", "spooling"} /\ ~client[c].gone
  /\ Become(c, [client[c] EXCEPT !.gone = TRUE])
  /\ UNCHANGED <<active, bucket, now, minted>>

Disconnect(c) ==
  /\ At(c, "idle") /\ client[c].gone
  /\ active' = [active EXCEPT !["connections"] = @ - 1]
  /\ Become(c, Closed)
  /\ UNCHANGED <<bucket, now, minted>>

Elapse ==
  /\ now < MaxTime
  /\ now' = now + 1
  /\ UNCHANGED <<client, active, bucket, minted>>

Next == \/ Elapse
        \/ \E c \in Clients :
             \/ Connect(c) \/ Arrive(c) \/ Admit(c) \/ AdmitMint(c) \/ Pace(c)
             \/ Size(c) \/ Authenticate(c) \/ Observe(c) \/ Stage(c) \/ Spool(c)
             \/ Serve(c) \/ CleanUp(c) \/ Release(c) \/ Finish(c)
             \/ HangUp(c) \/ Disconnect(c)

Spec == Init /\ [][Next]_vars

-----------------------------------------------------------------------------
Steps == {"closed", "idle", "arrived", "minting", "pacing", "sizing", "authenticating",
          "observing", "staging", "spooling", "serving", "answered"}
\* The shape of the state.
TypeOK ==
  /\ client \in [Clients -> [pc : Steps, kind : Kinds \cup {"none"}, body : Bodies,
                             proven : BOOLEAN, held : SeqOf(Pools, 3),
                             staged : BOOLEAN, whole : BOOLEAN, gone : BOOLEAN]]
  /\ active \in [Pools -> Nat]
  /\ bucket.tokens \in 0..(Burst * Parts) /\ bucket.last \in 0..now
  /\ now \in 0..MaxTime
  /\ minted \in Seq(0..MaxTime)

Holds(c, p) == IF p = "connections" THEN ~At(c, "closed") ELSE Contains(client[c].held, p)

\* Every slot in use is held by one connection or request that will give it
\* back, and no pool is over its limit: refusals, faults and clients that go
\* away never wear a pool down.
SlotsAreAccountedFor ==
  \A p \in Pools : /\ active[p] = Cardinality({c \in Clients : Holds(c, p)})
                   /\ active[p] <= Limit[p]

\* In any stretch of time the mints let through are at most a full bucket and
\* what was earned meanwhile, however the time passed before it.
MintsKeepPace ==
  \A i, j \in 1..Len(minted) :
    i <= j => (j - i + 1) * Parts <= Burst * Parts + (minted[j] - minted[i])

\* But for a mint, nothing of a body is read, and none of the governed slots is
\* taken, for a sender that has not been authenticated.
OnlyTheProvenCost ==
  \A c \in Clients :
    ~client[c].proven =>
      /\ {"admissions", "observations"} \cap ToSet(client[c].held) = {}
      /\ client[c].staged => Minting(c)

\* A handler that decodes a body of unknown length is given all of it and never
\* the beginning of one that is too large; the file is gone when it has answered.
BodiesAreWhole ==
  \A c \in Clients :
    /\ At(c, "serving") /\ Chunked(c) =>
         client[c].staged /\ client[c].whole /\ client[c].body = "chunked"
    /\ At(c, "idle") => ~client[c].staged /\ client[c].held = <<>>

IngressIsBounded ==
  SlotsAreAccountedFor /\ MintsKeepPace /\ OnlyTheProvenCost /\ BodiesAreWhole

==============================================================================
