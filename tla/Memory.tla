------------------------------- MODULE Memory -------------------------------
(***************************************************************************)
(* The memories of one Substrate: the Botanist's commands decide what is   *)
(* established, the chroniclers of finished runs propose, and a Sprout     *)
(* that starts takes the established memories whose evidence still holds.  *)
(* Every one of them reads a record, decides, and writes the whole record  *)
(* back in a transaction of its own.                                       *)
(***************************************************************************)
EXTENDS Naturals, Sequences

CONSTANTS
    Proposal,    \* titles made from the content of a learning
    Rule,        \* titles the Botanist chooses
    Content,     \* contents of the file that evidence is bound to
    Command,     \* processes of the memory commands
    Stem,        \* processes that run chroniclers
    Chronicler,  \* chroniclers of finished runs, at one time
    Sprout,      \* runs that start
    Terms,       \* searches of one assembly
    None,
    MaxCommands, MaxEdits  \* bounds

VARIABLES
    source,      \* the content of the file in the Substrate itself
    store,       \* a record for every title, or None
    cmd, chron, sprout,
    corrects,    \* pairs of a replacement and what it replaced; not code
    out,         \* titles the Botanist has ruled out; not code
    held,        \* contents the Substrate has had; not code
    begun, edits \* counters

vars == <<source, store, cmd, chron, sprout, corrects, out, held, begun, edits>>

Title == Proposal \cup Rule

Memory(status, authority, bound) ==
    [status |-> status, authority |-> authority, bound |-> bound]

Proposed == Memory("proposed", "none", None)

Idle == [at |-> "idle"]

Request == [kind : {"add"}, title : Rule, binds : BOOLEAN]
           \cup [kind : {"confirm", "reject"}, title : Title]
           \cup {r \in [kind : {"supersede"}, title : Title, new : Rule, binds : BOOLEAN] :
                     r.title # r.new}

Init ==
    /\ source \in Content
    /\ store = [t \in Title |-> None]
    /\ cmd = [c \in Command |-> Idle]
    /\ chron = [k \in Chronicler |-> Idle]
    /\ sprout = [g \in Sprout |-> Idle]
    /\ corrects = {} /\ out = {} /\ held = {source}
    /\ begun = 0 /\ edits = 0

-----------------------------------------------------------------------------
\* GetMemory and SearchMemories read one record, or a set of them, in one query.
Get(t) == store[t]

Hits == {t \in Title : store[t] # None}

-----------------------------------------------------------------------------
(* The Botanist.                                                           *)

\* BindEvidence hashes the Substrate's own file.
Evidence(binds) == IF binds THEN source ELSE None

\* What a command makes of the records it finds; nothing when it refuses.
Looked(r) ==
    LET found == Get(r.title)
    IN  CASE r.kind = "add" ->
               IF found # None THEN {}
               ELSE {Memory("established", "botanist", Evidence(r.binds))}
          [] r.kind = "confirm" ->
               IF found = None \/ found.status # "proposed" THEN {}
               ELSE {[found EXCEPT !.status = "established", !.authority = "botanist"]}
          [] r.kind = "reject" ->
               IF found = None \/ found.status # "proposed" THEN {}
               ELSE {[found EXCEPT !.status = "rejected", !.authority = "botanist"]}
          [] r.kind = "supersede" ->
               IF found = None \/ found.status = "superseded" \/ Get(r.new) # None THEN {}
               ELSE {[found EXCEPT !.status = "superseded"]}

NewFirst(old, new) == <<new, old>>

\* The old record is marked before its replacement is stored.
Order(old, new) == <<old, new>>

Writes(r, memory) ==
    IF r.kind = "supersede"
    THEN Order(<<r.title, memory>>,
               <<r.new, Memory("established", "botanist", Evidence(r.binds))>>)
    ELSE <<<<r.title, memory>>>>

Look(c) == \E r \in Request :
    /\ cmd[c].at = "idle" /\ begun < MaxCommands
    /\ \E m \in Looked(r) :
          cmd' = [cmd EXCEPT ![c] = [at |-> "writing", req |-> r, writes |-> Writes(r, m)]]
    /\ begun' = begun + 1
    /\ UNCHANGED <<source, store, chron, sprout, corrects, out, held, edits>>

\* The Botanist's word on a title: whether it is out, and for a running
\* assembly what of that has stood since before it began.
Decide(t, isOut) ==
    /\ out' = IF isOut THEN out \cup {t} ELSE out \ {t}
    /\ sprout' = [g \in Sprout |->
                     IF sprout[g].at = "idle" \/ isOut THEN sprout[g]
                     ELSE [sprout[g] EXCEPT !.out = @ \ {t}]]

Write(c) ==
    /\ cmd[c].at = "writing"
    /\ LET r == cmd[c].req
           first == Head(cmd[c].writes)
       IN  /\ store' = [store EXCEPT ![first[1]] = first[2]]
           /\ Decide(first[1], first[2].status \in {"rejected", "superseded"})
           /\ corrects' = IF r.kind = "supersede" /\ first[1] = r.new
                          THEN corrects \cup {<<r.new, r.title>>} ELSE corrects
           /\ cmd' = [cmd EXCEPT ![c] =
                         IF Len(@.writes) = 1 THEN Idle ELSE [@ EXCEPT !.writes = Tail(@)]]
    /\ UNCHANGED <<source, chron, held, begun, edits>>

\* A read or a write fails, or the command is interrupted.
Fail(c) ==
    /\ cmd[c].at # "idle"
    /\ cmd' = [cmd EXCEPT ![c] = Idle]
    /\ UNCHANGED <<source, store, chron, sprout, corrects, out, held, begun, edits>>

Remove(c) == \E t \in Title :
    /\ cmd[c].at = "idle" /\ begun < MaxCommands /\ store[t] # None
    /\ store' = [store EXCEPT ![t] = None]
    /\ Decide(t, FALSE)
    /\ corrects' = {p \in corrects : t \notin {p[1], p[2]}}
    /\ begun' = begun + 1
    /\ UNCHANGED <<source, cmd, chron, held, edits>>

-----------------------------------------------------------------------------
(* The chroniclers: persistMycorrhizalProposals under the mutex of its     *)
(* process checks every learning and then stores those it did not find.    *)

AllOf(learnings) == learnings

Unknown(learnings) == {p \in learnings : Get(p) = None}

Check(k) == \E s \in Stem, learnings \in SUBSET Proposal \ {{}} :
    /\ chron[k].at = "idle"
    /\ \A j \in Chronicler : chron[j].at = "storing" => chron[j].stem # s
    /\ chron' = [chron EXCEPT ![k] = [at |-> "storing", stem |-> s, pending |-> Unknown(learnings)]]
    /\ UNCHANGED <<source, store, cmd, sprout, corrects, out, held, begun, edits>>

StoreProposal(k) ==
    /\ chron[k].at = "storing"
    /\ \E p \in chron[k].pending :
          /\ store' = [store EXCEPT ![p] = Proposed]
          /\ chron' = [chron EXCEPT ![k].pending = @ \ {p}]
    /\ UNCHANGED <<source, cmd, sprout, corrects, out, held, begun, edits>>

\* All are stored, or one failed and the rest is dropped.
EndProposals(k) ==
    /\ chron[k].at = "storing"
    /\ chron' = [chron EXCEPT ![k] = Idle]
    /\ UNCHANGED <<source, store, cmd, sprout, corrects, out, held, begun, edits>>

-----------------------------------------------------------------------------
(* A Sprout's task context.                                                *)

\* The workspace is the Substrate itself, or a tree at some content.
Begin(g) == \E own \in Content \cup {None} :
    /\ sprout[g].at = "idle"
    /\ sprout' = [sprout EXCEPT ![g] =
                     [at |-> "search", own |-> own, left |-> Terms, found |-> {},
                      candidates |-> {}, admitted |-> {}, out |-> out]]
    /\ UNCHANGED <<source, store, cmd, chron, corrects, out, held, begun, edits>>

\* What the first search that returns a title has read of it is used.
Search(g) == \E hits \in SUBSET Hits :
    /\ sprout[g].at = "search" /\ sprout[g].left > 0
    /\ sprout' = [sprout EXCEPT
          ![g].left = @ - 1,
          ![g].found = @ \cup {<<t, Get(t)>> : t \in
                                  hits \ {f[1] : f \in sprout[g].found}}]
    /\ UNCHANGED <<source, store, cmd, chron, corrects, out, held, begun, edits>>

\* The authority is there and the status is not looked at.
EligibleByAuthority(m) == m.authority = "botanist"

Eligible(m) == m.status = "established" /\ m.authority = "botanist"

Screen(g) ==
    /\ sprout[g].at = "search" /\ sprout[g].left = 0
    /\ sprout' = [sprout EXCEPT ![g].at = "judge", ![g].found = {},
                                ![g].candidates = {f \in sprout[g].found : Eligible(f[2])}]
    /\ UNCHANGED <<source, store, cmd, chron, corrects, out, held, begun, edits>>

Seen(g) == IF sprout[g].own = None THEN source ELSE sprout[g].own

PersistsAnywhere(g) == TRUE

\* Only a mismatch in the Substrate itself is written down.
Persists(g) == sprout[g].own = None

Judge(g) ==
    /\ sprout[g].at = "judge"
    /\ \E f \in sprout[g].candidates :
          LET holds == f[2].bound = None \/ f[2].bound = Seen(g)
              rest == [sprout[g] EXCEPT !.candidates = @ \ {f}]
          IN  sprout' = [sprout EXCEPT ![g] =
                 IF holds THEN [rest EXCEPT !.admitted = @ \cup {f[1]}]
                 ELSE IF Persists(g)
                 THEN [rest EXCEPT !.at = "stale", !.found = {<<f[1], [f[2] EXCEPT !.status = "stale"]>>}]
                 ELSE rest]
    /\ UNCHANGED <<source, store, cmd, chron, corrects, out, held, begun, edits>>

\* The copy that the search has read goes back with its new status; a store
\* that fails ends the assembly and the run.
MarkStale(g) ==
    /\ sprout[g].at = "stale"
    /\ \/ /\ \E f \in sprout[g].found : store' = [store EXCEPT ![f[1]] = f[2]]
          /\ sprout' = [sprout EXCEPT ![g].at = "judge", ![g].found = {}]
       \/ /\ sprout' = [sprout EXCEPT ![g] = Idle]
          /\ UNCHANGED store
    /\ UNCHANGED <<source, cmd, chron, corrects, out, held, begun, edits>>

Start(g) ==
    /\ sprout[g].at = "judge" /\ sprout[g].candidates = {}
    /\ sprout' = [sprout EXCEPT ![g] = Idle]
    /\ UNCHANGED <<source, store, cmd, chron, corrects, out, held, begun, edits>>

Edit == \E v \in Content \ {source} :
    /\ edits < MaxEdits
    /\ source' = v /\ held' = held \cup {v}
    /\ edits' = edits + 1
    /\ UNCHANGED <<store, cmd, chron, sprout, corrects, out, begun>>

Next ==
    \/ \E c \in Command : Look(c) \/ Write(c) \/ Fail(c) \/ Remove(c)
    \/ \E k \in Chronicler : Check(k) \/ StoreProposal(k) \/ EndProposals(k)
    \/ \E g \in Sprout : Begin(g) \/ Search(g) \/ Screen(g) \/ Judge(g) \/ MarkStale(g) \/ Start(g)
    \/ Edit

Behaviour == Init /\ [][Next]_vars

-----------------------------------------------------------------------------

\* A memory and the correction that replaced it are never both established
\* (ApplySupersede marks the old one first), while one process proposes and
\* the Botanist gives one command at a time.
NeverBoth == \A p \in corrects :
    ~(/\ store[p[1]] # None /\ store[p[1]].status = "established"
      /\ store[p[2]] # None /\ store[p[2]].status = "established")

\* What the Botanist had rejected or superseded before a Sprout was given its
\* memories is not among them, unless he has changed his mind since
\* (taskContextMemoryCandidates): rejected and superseded records carry his
\* authority too.
RuledOutStaysOut == \A g \in Sprout :
    sprout[g].at # "idle" => sprout[g].admitted \cap sprout[g].out = {}

\* A memory is stale only if the Substrate's own file has differed from its
\* evidence; a run in a tree of its own that has other contents, or none, says
\* nothing about it (assembleTaskContext).
StaleBecauseItMoved == \A t \in Title :
    (store[t] # None /\ store[t].status = "stale") => held \ {store[t].bound} # {}

\* A chronicler leaves a record that exists as it is, whatever its status
\* (persistMycorrhizalProposals).
ProposalsPreserve == [][store' # store => \A k \in Chronicler : StoreProposal(k) =>
                           \A t \in Title : store[t] # None => store'[t] = store[t]]_vars

\* Refuted when two searches of one assembly stand on both sides of a
\* supersession: one context then holds a memory and its correction.
OneOfTheTwo == \A g \in Sprout, p \in corrects :
    sprout[g].at # "idle" => ~({p[1], p[2]} \subseteq sprout[g].admitted)

\* Refuted when an assembly has read a memory before the command that rules
\* on it: its stale copy overwrites the Botanist's word, or brings a removed
\* memory back.
MarkingPreserves == [][\A g \in Sprout : MarkStale(g) =>
                          \A t \in Title : store'[t] # store[t] =>
                              store[t] # None /\ t \notin out]_vars
=============================================================================
