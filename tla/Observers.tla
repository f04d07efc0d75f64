----------------------------- MODULE Observers -----------------------------
(***************************************************************************)
(* Who is let in and what it is shown: the bearer a request presents, the  *)
(* subject it resolves to, and the views of one Phytomer -- the current    *)
(* state as server-sent events, the stored runs, the stored events, the    *)
(* live stream (cmdserve.go, receptors/config.go, receptors/watch.go,      *)
(* receptors/sessions.go, core/phytomerobservation.go, core/accesstoken.go,*)
(* core/pollinatorcredentials.go).                                         *)
(*                                                                         *)
(* The delegated subjects are Pollens; Operator is the holder of the       *)
(* Stem's own key.  A run of the Phytomer stands for its row, and for the  *)
(* events that name the Phytomer while it runs.                            *)
(***************************************************************************)
EXTENDS Naturals, FiniteSets, TLC

CONSTANTS
  Pollens,      \* delegated subjects
  Operator,     \* the subject of the Botanist key
  Substrates,   \* what a run targets
  Watchers,     \* requests that observe the Phytomer
  Commands,     \* processes that issue or revoke credentials
  Views,        \* the views asked for
  NoSeed,       \* the Phytomer is not Seed-owned
  MaxRuns,      \* bound on the runs recorded
  MaxChanges    \* bound on the changes of authority

VARIABLES
  roots,        \* Pollens with an active credential in pollinators.json
  tokens,       \* Pollens holding a token that has not expired
  grants,       \* active sprout.watch grants, <<Pollen, Substrate>>
  runs,         \* rows recorded against the Phytomer
  seed,         \* its Seed row
  watcher,      \* each request
  command,      \* each credential command
  changes       \* changes of authority so far

vars == <<roots, tokens, grants, runs, seed, watcher, command, changes>>
authority == <<roots, tokens, grants, command, changes>>

Subjects == Pollens \cup {Operator}
Bearers == [kind : {"root", "token", "key"}, of : Subjects]
\* Subjects, and what they target, are interchangeable.
SubjectsAreAlike == Permutations(Pollens) \cup Permutations(Substrates)
Idle == [at |-> "idle"]

Init == /\ roots = Pollens
        /\ tokens = {}
        /\ grants = Pollens \X Substrates
        /\ runs = {}
        /\ seed = NoSeed
        /\ watcher = [w \in Watchers |-> Idle]
        /\ command = [c \in Commands |-> Idle]
        /\ changes = 0

-----------------------------------------------------------------------------
(***************************************************************************)
(* Credentials, tokens and grants.  A command reads the file, and replaces *)
(* it; the lock it holds is one of its own process.                        *)
(***************************************************************************)
Change == changes < MaxChanges /\ changes' = changes + 1

LoadCredentials(c) ==
  /\ command[c].at = "idle" /\ Change
  /\ \E p \in Pollens, revoke \in BOOLEAN :
       /\ revoke => p \in roots
       /\ command' = [command EXCEPT ![c] =
            [at |-> "loaded", file |-> IF revoke THEN roots \ {p} ELSE roots \cup {p}]]
  /\ UNCHANGED <<roots, tokens, grants, runs, seed, watcher>>

SaveCredentials(c) ==
  /\ command[c].at = "loaded"
  /\ roots' = command[c].file
  /\ command' = [command EXCEPT ![c] = Idle]
  /\ UNCHANGED <<tokens, grants, runs, seed, watcher, changes>>

Mint(p) ==
  /\ p \in roots \ tokens /\ Change
  /\ tokens' = tokens \cup {p}
  /\ UNCHANGED <<roots, grants, runs, seed, watcher, command>>

Expire(p) ==
  /\ p \in tokens
  /\ tokens' = tokens \ {p}
  /\ UNCHANGED <<roots, grants, runs, seed, watcher, command, changes>>

\* A grant given or taken back.
ChangeGrant(g) ==
  /\ Change
  /\ grants' = IF g \in grants THEN grants \ {g} ELSE grants \cup {g}
  /\ UNCHANGED <<roots, tokens, runs, seed, watcher, command>>

-----------------------------------------------------------------------------
(***************************************************************************)
(* The Phytomer.  A Seed row belongs to one subject for good and settles   *)
(* after its own runs; a sprout may also be grown into a Phytomer that its *)
(* caller names.                                                           *)
(***************************************************************************)
NewRun(p, s, own) == [n |-> Cardinality(runs) + 1, pollen |-> p, substrate |-> s,
                      ofSeed |-> own, live |-> TRUE]

OpenSeed(p, s) ==
  /\ seed = NoSeed /\ runs = {}
  /\ seed' = [pollen |-> p, substrate |-> s, settled |-> FALSE]
  /\ UNCHANGED <<runs, watcher>> /\ UNCHANGED authority

GrowSeed ==
  /\ seed # NoSeed /\ ~seed.settled /\ Cardinality(runs) < MaxRuns
  /\ runs' = runs \cup {NewRun(seed.pollen, seed.substrate, TRUE)}
  /\ UNCHANGED <<seed, watcher>> /\ UNCHANGED authority

GrowSprout(p, s) ==
  /\ Cardinality(runs) < MaxRuns
  /\ runs' = runs \cup {NewRun(p, s, FALSE)}
  /\ UNCHANGED <<seed, watcher>> /\ UNCHANGED authority

EndRun(r) ==
  /\ r.live
  /\ runs' = (runs \ {r}) \cup {[r EXCEPT !.live = FALSE]}
  /\ UNCHANGED <<seed, watcher>> /\ UNCHANGED authority

SettleSeed ==
  /\ seed # NoSeed /\ ~seed.settled
  /\ \A r \in runs : r.ofSeed => ~r.live
  /\ seed' = [seed EXCEPT !.settled = TRUE]
  /\ UNCHANGED <<runs, watcher>> /\ UNCHANGED authority

-----------------------------------------------------------------------------
(***************************************************************************)
(* Admission: the bearer authenticates the request, and the subject is     *)
(* resolved again from the same bearer behind it.  A root or a token never *)
(* falls back to the key or to the Pollen header.                          *)
(***************************************************************************)
\* The subject a bearer proves, or the Pollen the holder of the key claims.
Proven(b) == CASE b.kind = "root"  -> IF b.of \in roots THEN {b.of} ELSE {}
               [] b.kind = "token" -> IF b.of \in tokens THEN {b.of} ELSE {}
               [] b.kind = "key"   -> {b.of}

\* Off-host the root only mints; the public listener takes tokens alone.
Refused(lane) == CASE lane = "local"   -> {}
                   [] lane = "offhost" -> {"root"}
                   [] lane = "public"  -> {"root", "key"}

Present(w) ==
  /\ watcher[w].at = "idle"
  /\ \E b \in Bearers, v \in Views, lane \in {"local", "offhost", "public"} :
       /\ b.kind = "key" \/ b.of # Operator
       /\ b.kind \notin Refused(lane) /\ Proven(b) # {}
       /\ lane = "public" => v = "state"
       /\ watcher' = [watcher EXCEPT ![w] = [at |-> "admitted", bearer |-> b, view |-> v]]
  /\ UNCHANGED <<runs, seed>> /\ UNCHANGED authority

Put(w, r) == /\ watcher' = [watcher EXCEPT ![w] = r]
             /\ UNCHANGED <<runs, seed>> /\ UNCHANGED authority
End(w) == Put(w, Idle)

Named(p, b, v) == [at |-> IF p = Operator THEN "checked" ELSE "named", subject |-> p,
                   bearer |-> b, view |-> v, settled |-> FALSE, late |-> 0, shown |-> {}]

(* Mutant: an unresolved credential is taken for no credential. *)
ResolveAnyway(w) ==
  /\ watcher[w].at = "admitted"
  /\ LET b == watcher[w].bearer
         p == IF Proven(b) = {} THEN Operator ELSE b.of
     IN Put(w, Named(p, b, watcher[w].view))

Resolve(w) ==
  /\ watcher[w].at = "admitted"
  /\ LET b == watcher[w].bearer IN
     IF Proven(b) = {} THEN End(w)
     ELSE \E p \in Proven(b) : Put(w, Named(p, b, watcher[w].view))

-----------------------------------------------------------------------------
(***************************************************************************)
(* The views.                                                              *)
(***************************************************************************)
Granted(p, subs) == subs # {} /\ \A s \in subs : <<p, s>> \in grants
Agrees(r) == r.pollen = seed.pollen /\ r.substrate = seed.substrate

\* What a view tells of the runs; the operator is told everything.
Whose(r) == <<r.pollen, r.substrate>>
Told(w) == IF watcher[w].subject = Operator THEN {} ELSE {Whose(r) : r \in runs}

\* The whole Phytomer is released: every run is the subject's own.
MayWatch(p) ==
  IF seed # NoSeed
  THEN seed.pollen = p /\ (\A r \in runs : Agrees(r)) /\ Granted(p, {seed.substrate})
  ELSE (\A r \in runs : r.pollen = p) /\ Granted(p, {r.substrate : r \in runs})

Check(w) ==
  /\ watcher[w].at = "named" /\ watcher[w].view # "runs"
  /\ IF MayWatch(watcher[w].subject) THEN Put(w, [watcher[w] EXCEPT !.at = "checked"])
     ELSE End(w)

\* ObservePhytomer reads the Seed row, then the runs, and releases nothing
\* when they disagree.
ReadSeed(w) ==
  /\ watcher[w].at = "checked" /\ watcher[w].view = "state"
  /\ IF seed = NoSeed THEN End(w)
     ELSE Put(w, [watcher[w] EXCEPT !.at = "read", !.settled = seed.settled])

\* Frames shown since the subject's authority lapsed.
Late(w) == IF watcher[w].subject = Operator \/ MayWatch(watcher[w].subject) THEN 0
           ELSE IF watcher[w].late < 2 THEN watcher[w].late + 1 ELSE 2

Shown(w) == [watcher[w] EXCEPT !.at = IF @ = "read" /\ watcher[w].settled THEN "ended" ELSE "waiting",
                               !.settled = FALSE, !.late = Late(w), !.shown = Told(w)]

(* Mutant: the runs are released without asking whose they are. *)
ShowUnasked(w) == watcher[w].at = "read" /\ Put(w, Shown(w))

Show(w) ==
  /\ watcher[w].at = "read"
  /\ IF \A r \in runs : Agrees(r) THEN Put(w, Shown(w)) ELSE End(w)

(* Mutant: a wakeup observes again and asks nothing. *)
WakeUnchecked(w) ==
  /\ watcher[w].at = "waiting"
  /\ Put(w, [watcher[w] EXCEPT !.at = "checked"])

\* A wakeup or a poll: the authority is asked again before the next read.
Wake(w) ==
  /\ watcher[w].at = "waiting"
  /\ IF watcher[w].subject = Operator THEN Put(w, [watcher[w] EXCEPT !.at = "checked"])
     ELSE IF MayWatch(watcher[w].subject)
          THEN Put(w, [watcher[w] EXCEPT !.at = "checked", !.late = 0])
          ELSE End(w)

\* The stored runs are loaded and then narrowed to the subject's own.
LoadRuns(w) ==
  /\ watcher[w].at \in {"checked", "named"} /\ watcher[w].view = "runs"
  /\ Put(w, [watcher[w] EXCEPT !.at = IF @ = "named" THEN "loaded" ELSE "listed",
                               !.shown = Told(w)])

Narrow(w) ==
  /\ watcher[w].at = "loaded"
  /\ LET p == watcher[w].subject
         own == {x \in watcher[w].shown : x[1] = p}
     IN IF IF seed # NoSeed
           THEN seed.pollen = p /\ (\A r \in runs : Agrees(r)) /\ Granted(p, {seed.substrate})
           ELSE Granted(p, {x[2] : x \in own})
        THEN Put(w, [watcher[w] EXCEPT !.at = "listed", !.shown = own])
        ELSE End(w)

\* The stored events are loaded after the check, whole.
LoadEvents(w) ==
  /\ watcher[w].at = "checked" /\ watcher[w].view = "events"
  /\ Put(w, [watcher[w] EXCEPT !.at = "listed", !.shown = Told(w)])

\* The live stream is authorized once, and then forwards what names the
\* Phytomer.
OpenStream(w) ==
  /\ watcher[w].at = "checked" /\ watcher[w].view = "stream"
  /\ Put(w, [watcher[w] EXCEPT !.at = "streaming"])

Forward(w, r) ==
  /\ watcher[w].at = "streaming" /\ r.live
  /\ Put(w, [watcher[w] EXCEPT !.shown = @ \cup {Whose(r)}])

Leave(w) == watcher[w].at \notin {"idle", "admitted"} /\ End(w)

WatcherStep(w) ==
  \/ Present(w) \/ Resolve(w) \/ Check(w) \/ ReadSeed(w) \/ Show(w) \/ Wake(w)
  \/ LoadRuns(w) \/ Narrow(w) \/ LoadEvents(w) \/ OpenStream(w)
  \/ (\E r \in runs : Forward(w, r)) \/ Leave(w)

Next ==
  \/ \E w \in Watchers : WatcherStep(w)
  \/ \E c \in Commands : LoadCredentials(c) \/ SaveCredentials(c)
  \/ \E p \in Pollens : Mint(p) \/ Expire(p)
  \/ \E g \in Pollens \X Substrates : ChangeGrant(g)
  \/ \E p \in Subjects, s \in Substrates : OpenSeed(p, s) \/ GrowSprout(p, s)
  \/ GrowSeed \/ SettleSeed \/ \E r \in runs : EndRun(r)

Spec == Init /\ [][Next]_vars
-----------------------------------------------------------------------------
(***************************************************************************)
(* Properties.                                                             *)
(***************************************************************************)
\* Whoever presents a credential or a token acts as its Pollen, or not at all:
\* revocation or expiry between the two resolutions never makes it the operator
\* (DelegationGate.PollenFor).
NamedStaysNamed ==
  \A w \in Watchers :
    watcher[w].at \notin {"idle", "admitted"} => watcher[w].subject = watcher[w].bearer.of

\* A delegated observer "sees only what that Pollen dispatched"
\* (receptors/watch.go), whoever grows a sprout into the Phytomer meanwhile.
\* It holds of the two views that ask again, or narrow, after they have read;
\* the stored events and the live stream ask before and not again.
OwnView(w) ==
  watcher[w].at \notin {"idle", "admitted", "loaded"} /\ watcher[w].subject # Operator
    => \A x \in watcher[w].shown : x[1] = watcher[w].subject
SeesOnlyItsOwn == \A w \in Watchers : OwnView(w)
StateAndRunsAreOwn ==
  \A w \in Watchers :
    watcher[w].at # "idle" /\ watcher[w].view \in {"state", "runs"} => OwnView(w)

\* Once its grant is taken back, or somebody else has grown into the Phytomer,
\* an observer is shown at most the frame it was already checked for ("current
\* grant removal or narrowing applies to subsequent admissions").
RevokedSeesNoMore ==
  \A w \in Watchers : watcher[w].at \notin {"idle", "admitted"} => watcher[w].late <= 1

\* A revoked credential stays revoked until it is issued again.
RevokedStaysRevoked ==
  [][\A c \in Commands :
       command[c].at = "loaded" /\ command'[c].at = "idle" =>
         Cardinality(roots' \ roots) + Cardinality(roots \ roots') <= 1]_vars
=============================================================================
