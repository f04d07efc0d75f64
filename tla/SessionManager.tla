--------------------------- MODULE SessionManager ---------------------------
(***************************************************************************)
(* session.Manager with a store attached: one Phytomer session, cached in  *)
(* memory under m.mu and persisted outside it.  Sessions are independent,  *)
(* so one stands for all.  A caller's request reads or changes the cached  *)
(* entry in one critical section and makes its storage calls afterwards,   *)
(* with the copy it took there; the idle sweep drops the cached entry and  *)
(* a later request loads it again.                                         *)
(***************************************************************************)
EXTENDS Naturals, FiniteSets

CONSTANTS
    Caller,    \* goroutines that serve requests on the session
    Update,    \* preference overrides and chat messages, each sent once
    Failing,   \* storage calls that may fail, a subset of StoreCall
    Absent     \* no entry, no request

StoreCall == {"load", "save", "append", "delete"}

FailingAssumption == Failing \subseteq StoreCall
AbsentAssumption == Absent \notin Update

VARIABLES
    cache,     \* m.sessions[id], or Absent
    store,     \* the sessions row, or Absent
    log,       \* the messages rows
    request,   \* what each caller is doing, or Absent
    life,      \* ghost: "new", "open" or, after a successful Prune, "pruned"
    saved,     \* ghost: preferences whose update was acknowledged
    logged,    \* ghost: messages whose recording was acknowledged
    refused,   \* ghost: a caller was told that a stored session is not found
    mishaps    \* ghost: what has happened that the promises do not survive

vars == <<cache, store, log, request, life, saved, logged, refused, mishaps>>

\* prefs are the overrides merged so far; idle says that LastActiveAt is at
\* least the TTL ago.
Session == [prefs : SUBSET Update, idle : BOOLEAN]

Op == {"get", "getOrInitiate", "update", "touch", "message", "prune"}

\* copy is the session a request took out of the critical section; raced says
\* that a Prune was at work meanwhile.
Request == [op : Op, at : {"start", "adopt"} \cup StoreCall \cup {"clear"},
            update : Update \cup {Absent}, copy : Session \cup {Absent},
            raced : BOOLEAN]

TypeOK ==
    /\ cache \in Session \cup {Absent}
    /\ store \in Session \cup {Absent}
    /\ log \in SUBSET Update
    /\ request \in [Caller -> Request \cup {Absent}]
    /\ life \in {"new", "open", "pruned"}
    /\ saved \in SUBSET Update
    /\ logged \in SUBSET Update
    /\ refused \in BOOLEAN
    /\ mishaps \subseteq {"overlap", "load"}

Init ==
    /\ cache = Absent
    /\ store = Absent
    /\ log = {}
    /\ request = [c \in Caller |-> Absent]
    /\ life = "new"
    /\ saved = {}
    /\ logged = {}
    /\ refused = FALSE
    /\ mishaps = {}

-----------------------------------------------------------------------------

At(c, step) == request[c] # Absent /\ request[c].at = step

Doing(c, op) == request[c] # Absent /\ request[c].op = op

GoTo(c, step, copy) ==
    request' = [request EXCEPT ![c].at = step, ![c].copy = copy]

Reply(c) == request' = [request EXCEPT ![c] = Absent]

\* "session not found": an error unless nothing is stored under the id.
ReplyNotFound(c) ==
    /\ Reply(c)
    /\ refused' = (refused \/ store # Absent)

Used == saved \cup logged \cup log
        \cup (IF cache = Absent THEN {} ELSE cache.prefs)
        \cup (IF store = Absent THEN {} ELSE store.prefs)
        \cup {request[c].update : c \in {d \in Caller : request[d] # Absent}}

Blank == [prefs |-> {}, idle |-> FALSE]

Arrive(c, op, u) ==
    /\ request[c] = Absent
    /\ IF op \in {"update", "message"} THEN u \in Update \ Used ELSE u = Absent
    /\ request' = [request EXCEPT ![c] = [op |-> op, at |-> "start", update |-> u,
                                          copy |-> Absent, raced |-> FALSE]]
    /\ mishaps' = IF \A d \in Caller : request[d] = Absent THEN mishaps
                  ELSE mishaps \cup {"overlap"}
    /\ UNCHANGED <<cache, store, log, life, saved, logged, refused>>

-----------------------------------------------------------------------------
(* Get, and GetOrInitiate of a given id.                                   *)

GetCached(c) ==
    /\ Doing(c, "get") \/ Doing(c, "getOrInitiate")
    /\ At(c, "start")
    /\ IF cache # Absent THEN Reply(c) ELSE GoTo(c, "load", Absent)
    /\ UNCHANGED <<cache, store, log, life, saved, logged, refused, mishaps>>

\* rehydrateFromStore, before its lock: a failed load is logged and counts as
\* a session that is not there.
Load(c) ==
    /\ At(c, "load")
    /\ \/ GoTo(c, "adopt", store) /\ UNCHANGED mishaps
       \/ /\ "load" \in Failing
          /\ GoTo(c, "adopt", Absent)
          /\ mishaps' = mishaps \cup {"load"}
    /\ UNCHANGED <<cache, store, log, life, saved, logged, refused>>

\* MUTANT: the loaded copy replaces whatever is cached by now.
AdoptOverwriting(c) ==
    LET copy == request[c].copy IN
    /\ At(c, "adopt")
    /\ cache' = IF copy = Absent THEN Blank ELSE copy
    /\ IF copy = Absent THEN GoTo(c, "save", Blank) ELSE Reply(c)
    /\ UNCHANGED <<store, log, life, saved, logged, refused, mishaps>>

\* The second critical section: an entry that is cached by now wins; otherwise
\* the loaded copy is cached.  Without a copy Get does not look again, and
\* GetOrInitiate adopts a blank session under the id and saves it.
Adopt(c) ==
    LET copy == request[c].copy IN
    /\ At(c, "adopt")
    /\ \/ /\ cache # Absent /\ (copy # Absent \/ Doing(c, "getOrInitiate"))
          /\ Reply(c)
          /\ UNCHANGED <<cache, life, refused, mishaps>>
       \/ /\ cache = Absent /\ copy # Absent
          /\ cache' = copy
          /\ Reply(c)
          /\ UNCHANGED <<life, refused, mishaps>>
       \/ /\ copy = Absent /\ Doing(c, "get")
          /\ ReplyNotFound(c)
          /\ UNCHANGED <<cache, life>>
       \/ /\ cache = Absent /\ copy = Absent /\ Doing(c, "getOrInitiate")
          /\ cache' = Blank
          /\ life' = "open"
          /\ GoTo(c, "save", Blank)
          /\ UNCHANGED refused
    /\ UNCHANGED <<store, log, saved, logged, mishaps>>

-----------------------------------------------------------------------------
(* UpdatePreferences, Touch and RecordMessage work on the cached entry.    *)

Merged(c) ==
    [prefs |-> cache.prefs \cup
                  (IF Doing(c, "update") THEN {request[c].update} ELSE {}),
     idle |-> FALSE]

Change(c) ==
    /\ request[c] # Absent
    /\ request[c].op \in {"update", "touch", "message"}
    /\ At(c, "start")
    /\ \/ /\ cache = Absent
          /\ IF Doing(c, "touch") THEN Reply(c) /\ UNCHANGED refused
                                  ELSE ReplyNotFound(c)
          /\ UNCHANGED cache
       \/ /\ cache # Absent
          /\ cache' = Merged(c)
          /\ GoTo(c, IF Doing(c, "message") THEN "append" ELSE "save", Merged(c))
          /\ UNCHANGED refused
    /\ UNCHANGED <<store, log, life, saved, logged, mishaps>>

Append(c) ==
    /\ At(c, "append")
    /\ \/ /\ log' = log \cup {request[c].update}
          /\ GoTo(c, "save", request[c].copy)
       \/ /\ "append" \in Failing
          /\ Reply(c)
          /\ UNCHANGED log
    /\ UNCHANGED <<cache, store, life, saved, logged, refused, mishaps>>

\* The caller is told that its change is recorded.
Acknowledge(c) ==
    LET done == IF request[c].raced THEN {} ELSE {request[c].update} IN
    /\ saved' = saved \cup (IF Doing(c, "update") THEN done ELSE {})
    /\ logged' = logged \cup (IF Doing(c, "message") THEN done ELSE {})

\* MUTANT: a failed save is acknowledged.
SaveUnnoticed(c) ==
    /\ At(c, "save")
    /\ store' \in {request[c].copy}
                 \cup (IF "save" \in Failing THEN {store} ELSE {})
    /\ Acknowledge(c)
    /\ Reply(c)
    /\ UNCHANGED <<cache, log, life, refused, mishaps>>

\* SaveSession upserts the copy taken earlier.
Save(c) ==
    /\ At(c, "save")
    /\ \/ store' = request[c].copy /\ Acknowledge(c)
       \/ "save" \in Failing /\ UNCHANGED <<store, saved, logged>>
    /\ Reply(c)
    /\ UNCHANGED <<cache, log, life, refused, mishaps>>

-----------------------------------------------------------------------------

\* A Prune releases the session from what was promised about it, also to the
\* requests it overlaps; next is what becomes of the pruning request itself.
Forget(c, next) ==
    /\ saved' = {}
    /\ logged' = {}
    /\ request' = [d \in Caller |->
                      CASE d = c -> next
                        [] d # c /\ request[d] = Absent -> Absent
                        [] OTHER -> [request[d] EXCEPT !.raced = TRUE]]

PruneStep(c, step) == [request[c] EXCEPT !.at = step]

\* Prune takes the entry out of the cache first, then deletes the row and the
\* messages, each in a statement of its own.
PruneCached(c) ==
    /\ Doing(c, "prune") /\ At(c, "start")
    /\ \/ /\ cache = Absent
          /\ ReplyNotFound(c)
          /\ UNCHANGED <<cache, saved, logged>>
       \/ /\ cache # Absent
          /\ cache' = Absent
          /\ Forget(c, PruneStep(c, "delete"))
          /\ UNCHANGED refused
    /\ UNCHANGED <<store, log, life, mishaps>>

\* MUTANT: only the cached entry and the messages are removed.
DeleteRowSkipped(c) ==
    /\ At(c, "delete")
    /\ Forget(c, PruneStep(c, "clear"))
    /\ UNCHANGED <<cache, store, log, life, refused, mishaps>>

DeleteRow(c) ==
    /\ At(c, "delete")
    /\ \/ /\ store' = Absent
          /\ Forget(c, PruneStep(c, "clear"))
       \/ /\ "delete" \in Failing
          /\ Reply(c)
          /\ UNCHANGED <<store, saved, logged>>
    /\ UNCHANGED <<cache, log, life, refused, mishaps>>

Clear(c) ==
    /\ At(c, "clear")
    /\ \/ /\ log' = {}
          /\ life' = "pruned"
          /\ Forget(c, Absent)
       \/ /\ "delete" \in Failing
          /\ Reply(c)
          /\ UNCHANGED <<log, life, saved, logged>>
    /\ UNCHANGED <<cache, store, refused, mishaps>>

-----------------------------------------------------------------------------

Aged(s) == IF s = Absent THEN Absent ELSE [s EXCEPT !.idle = TRUE]

\* The TTL passes with nobody using the session.  Bound: no request lasts that
\* long.
GrowIdle ==
    /\ \A c \in Caller : request[c] = Absent
    /\ cache' = Aged(cache)
    /\ store' = Aged(store)
    /\ UNCHANGED <<log, request, life, saved, logged, refused, mishaps>>

\* evictIdle: from the cache only.
Evict ==
    /\ cache # Absent /\ cache.idle
    /\ cache' = Absent
    /\ UNCHANGED <<store, log, request, life, saved, logged, refused, mishaps>>

\* The process stops at any point; NewManager loads what is stored.
Restart ==
    /\ cache' = store
    /\ request' = [c \in Caller |-> Absent]
    /\ UNCHANGED <<store, log, life, saved, logged, refused, mishaps>>

Serve(c) ==
    \/ GetCached(c) \/ Load(c) \/ Adopt(c)
    \/ Change(c) \/ Append(c) \/ Save(c)
    \/ PruneCached(c) \/ DeleteRow(c) \/ Clear(c)

Next ==
    \/ \E c \in Caller :
          \/ \E op \in Op, u \in Update \cup {Absent} : Arrive(c, op, u)
          \/ Serve(c)
    \/ GrowIdle \/ Evict \/ Restart

Spec == Init /\ [][Next]_vars

-----------------------------------------------------------------------------

\* Whatever requests, reloads and sweeps interleave, a cached session is never
\* replaced by an older copy: "prefer the live entry" (rehydrateFromStore).
LiveEntryWins ==
    [][\/ Restart
       \/ cache = Absent \/ cache' = Absent
       \/ cache.prefs \subseteq cache'.prefs]_vars

\* An acknowledged chat message stays in the log until the session is pruned.
LoggedIsDurable == logged \subseteq log

\* An acknowledged preference survives idle eviction and restarts: "an
\* idle-evicted session resumes instead of being silently replaced by a blank
\* one" (GetOrInitiate).
SavedIsDurable == saved # {} => store # Absent /\ saved \subseteq store.prefs

\* "Prune removes a session and its persisted state": it is gone until somebody
\* adopts its id again.
PrunedStaysPruned ==
    life = "pruned" => cache = Absent /\ store = Absent /\ log = {}

\* An acknowledged preference is lost only to overlapping requests on the
\* session or to a failing load: eviction, restarts and failing writes do not
\* lose it.
SavedIsDurableAlone == mishaps = {} => SavedIsDurable

\* A pruned session comes back only through a request that overlapped the
\* Prune or an earlier one, whatever storage call fails.
PrunedStaysPrunedAlone == "overlap" \notin mishaps => PrunedStaysPruned

\* "Idle eviction is transparent" (Get): nobody is told that a stored session
\* does not exist.
EvictionIsTransparent == ~refused

=============================================================================
