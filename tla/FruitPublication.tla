--------------------------- MODULE FruitPublication ---------------------------
(***************************************************************************)
(* Publication of a Fruit as a commit that the forge signs.  The branch is *)
(* a chain of commits on the forge; a request may be refused, never sent,  *)
(* or lost on its way back, and a lost one may still take effect later.    *)
(* Managed runs and Seeds publish once on a branch of their own; a         *)
(* Pollinator's commit is made in its workspace, may be called again, and  *)
(* moves the workspace to the commit it made; the Botanist's commit makes  *)
(* one request and moves nothing.                                          *)
(***************************************************************************)
EXTENDS Naturals, Sequences, FiniteSets

CONSTANTS
    Calls,       \* changes to publish; a call is named for its change
    Foreign,     \* a commit of somebody else
    Absent,      \* no such branch
    MaxTries,    \* bound: times a call is made
    MaxForeign   \* bound: changes others make on the forge or in the workspace

ASSUME FruitPublicationAssumption ==
    /\ Foreign \notin Calls /\ Absent \notin Seq(Calls \cup {Foreign})
    /\ MaxTries \in Nat /\ MaxForeign \in Nat

Kinds == {"managed", "delegated", "plain"}

VARIABLES
    kind,      \* which of the three, for the whole behaviour
    remote,    \* the branch on the forge
    held,      \* every chain the branch has been
    flight,    \* requests without an answer, which may still take effect
    ws,        \* the workspace: its HEAD, its changed files, their version
    call,      \* the calls
    others     \* what others did so far

vars == <<kind, remote, held, flight, ws, call, others>>

Requests == [call : Calls, act : {"ref", "commit"}, base : Seq(Calls \cup {Foreign})]

Init ==
    /\ kind \in Kinds
    /\ remote = (IF kind = "plain" THEN <<>> ELSE Absent) /\ held = {remote}
    /\ flight = {}
    /\ ws = [head |-> <<>>, dirty |-> Calls, version |-> 0]
    /\ call = [c \in Calls |-> [at |-> "new", base |-> <<>>, seen |-> ws,
                                oid |-> <<>>, tries |-> 0]]
    /\ others = 0

-----------------------------------------------------------------------------
\* The forge.  createCommitOnBranch names the head it expects.

\* Mutant: the mutation does not name the head it expects.
FitsAnyHead(m) == IF m.act = "ref" THEN remote = Absent ELSE remote # Absent
Fits(m) == IF m.act = "ref" THEN remote = Absent ELSE remote = m.base
Effect(m) ==
    /\ remote' = (IF m.act = "ref" THEN m.base ELSE Append(remote, m.call))
    /\ held' = held \cup {remote'}

\* One request, with the four things that may become of it.
Sent(m, ok) == Fits(m) /\ Effect(m) /\ flight' = flight /\ ok
Refused(m, no) == ~Fits(m) /\ UNCHANGED <<remote, held, flight>> /\ no
Unsent(no) == UNCHANGED <<remote, held, flight>> /\ no
Lost(m, unsure) == flight' = flight \cup {m} /\ UNCHANGED <<remote, held>> /\ unsure

\* Of a lost request the forge may have executed it already or do so later.
Land(m) ==
    /\ flight' = flight \ {m}
    /\ IF Fits(m) THEN Effect(m) ELSE UNCHANGED <<remote, held>>
    /\ UNCHANGED <<kind, ws, call, others>>

\* reconcileAPIFruit: what the branch is, for this change on this base.
Exact(c) == remote = Append(call[c].base, c)
Outcome(c) == IF remote = Absent THEN "absent"
              ELSE IF remote = call[c].base THEN "base"
              ELSE IF Exact(c) THEN "exact" ELSE "unexpected"

-----------------------------------------------------------------------------
\* The calls.

At(c, at) == call[c].at = at
To(c, at) == call' = [call EXCEPT ![c].at = at]
Has(c, at) == call' = [call EXCEPT ![c].at = at, ![c].oid = Append(call[c].base, c)]
Request(c, act) == [call |-> c, act |-> act, base |-> call[c].base]
Local == UNCHANGED <<remote, held, flight>>
Still == UNCHANGED <<kind, ws, others>>

Published == IF kind = "managed" THEN "done" ELSE "land"

\* The change and the HEAD it goes on are captured.  A delegated call whose
\* change is in HEAD already answers for the commit it finds there.
Start(c) ==
    /\ call[c].at \in {"new", "failed", "unsent"} /\ call[c].tries < MaxTries
    /\ kind # "delegated" => At(c, "new")
    /\ LET first == CASE kind = "managed" -> "create"
                      [] kind = "plain" -> "only"
                      [] kind = "delegated" /\ c \in ws.dirty -> "establish"
                      [] OTHER -> IF ws.dirty # {} /\ remote = ws.head
                                     /\ ws.head # <<>> /\ ws.head[Len(ws.head)] = c
                                  THEN "done" ELSE "nothing"
       IN  call' = [call EXCEPT ![c] =
                      [at |-> first, base |-> ws.head, seen |-> ws, tries |-> @.tries + 1,
                       oid |-> IF first = "done" THEN ws.head ELSE <<>>]]
    /\ Local /\ Still

\* publishAPIFruit: the branch must not be there.
Create(c) ==
    /\ At(c, "create") /\ Still
    /\ LET m == Request(c, "ref") IN
         \/ Sent(m, To(c, "commit")) \/ Refused(m, To(c, "whose"))
         \/ Unsent(To(c, "unsent")) \/ Lost(m, To(c, "whose"))
Whose(c) ==
    /\ At(c, "whose") /\ Local /\ Still
    /\ \/ Outcome(c) = "exact" /\ Has(c, Published)
       \/ To(c, "failed")      \* another outcome, or the read failed

\* establishDelegatedAPICommitBranch: the branch may be there, at the base or
\* with this very change; it is created once more only after an ambiguous
\* answer and a read that finds it absent.
Establish(c) ==
    /\ At(c, "establish") /\ Local /\ Still
    /\ \/ Outcome(c) = "exact" /\ Has(c, "land")
       \/ Outcome(c) = "base" /\ To(c, "commit")
       \/ Outcome(c) = "absent" /\ To(c, "root")
       \/ To(c, "failed")
Root(c) ==
    /\ \E at \in {"root", "reroot"} : At(c, at)
    /\ Still
    /\ LET m == Request(c, "ref") IN
         \/ Sent(m, To(c, "rooted")) \/ Refused(m, To(c, "rooted"))
         \/ Unsent(To(c, "failed"))
         \/ Lost(m, To(c, IF At(c, "root") THEN "unsure" ELSE "rooted"))
Rooted(c) ==
    /\ call[c].at \in {"rooted", "unsure"} /\ Local /\ Still
    /\ \/ Outcome(c) = "exact" /\ Has(c, "land")
       \/ Outcome(c) = "base" /\ To(c, "commit")
       \/ Outcome(c) = "absent" /\ At(c, "unsure") /\ To(c, "reroot")
       \/ To(c, "failed")

\* publishAPIFruitCommit: at most one replay, of the identical mutation, and
\* only after a read has found the branch still at the base.
Commit(c) ==
    /\ At(c, "commit") /\ Still
    /\ LET m == Request(c, "commit") IN
         \/ Sent(m, Has(c, Published)) \/ Refused(m, To(c, "look"))
         \/ Unsent(To(c, "unsent")) \/ Lost(m, To(c, "look"))
\* Mutant: a lost answer is taken for an acceptance.
LookTrusted(c) == At(c, "look") /\ Local /\ Still /\ Has(c, Published)
Look(c) ==
    /\ At(c, "look") /\ Local /\ Still
    /\ \/ Outcome(c) = "exact" /\ Has(c, Published)
       \/ Outcome(c) = "base" /\ To(c, "replay")
       \/ To(c, "failed")
\* Mutant: a replay that is not sent is reported as nothing sent at all.
ReplayUnsent(c) ==
    /\ At(c, "replay") /\ Still
    /\ LET m == Request(c, "commit") IN
         \/ Sent(m, Has(c, Published)) \/ Refused(m, To(c, "last"))
         \/ Unsent(To(c, "unsent")) \/ Lost(m, To(c, "last"))
Replay(c) ==
    /\ At(c, "replay") /\ Still
    /\ LET m == Request(c, "commit") IN
         \/ Sent(m, Has(c, Published)) \/ Refused(m, To(c, "last"))
         \/ Unsent(To(c, "last")) \/ Lost(m, To(c, "last"))
Last(c) ==
    /\ At(c, "last") /\ Local /\ Still
    /\ \/ Outcome(c) = "exact" /\ Has(c, Published)
       \/ To(c, "failed")

\* runAPICommit, the Botanist's: one mutation, its error is the answer.
Only(c) ==
    /\ At(c, "only") /\ Still
    /\ LET m == Request(c, "commit") IN
         \/ Sent(m, Has(c, "done")) \/ Refused(m, To(c, "failed"))
         \/ Unsent(To(c, "failed")) \/ Lost(m, To(c, "failed"))

\* reconcileDelegatedAPICommitWorkspace: the branch is fetched, and HEAD moves
\* if neither it nor a changed file moved since the capture.
Unmoved(c) == ws = call[c].seen
FetchFruit(c) ==
    /\ At(c, "land") /\ Local /\ Still
    /\ IF Unmoved(c) /\ remote = call[c].oid THEN To(c, "reset") ELSE To(c, "failed")
Reset(c) ==
    /\ At(c, "reset") /\ Local /\ UNCHANGED <<kind, others>>
    /\ IF Unmoved(c)
       THEN ws' = [ws EXCEPT !.head = call[c].oid, !.dirty = @ \ {c}] /\ To(c, "done")
       ELSE ws' = ws /\ To(c, "failed")

-----------------------------------------------------------------------------
\* Everybody else, and the end of the process.

Other == others < MaxForeign /\ others' = others + 1 /\ UNCHANGED <<kind, flight, call>>
Push == /\ Other /\ remote # Absent /\ remote' = Append(remote, Foreign)
        /\ held' = held \cup {remote'} /\ ws' = ws
Delete == Other /\ remote' = Absent /\ UNCHANGED <<held, ws>>
Edit == Other /\ ws' = [ws EXCEPT !.version = @ + 1] /\ UNCHANGED <<remote, held>>

Busy(c) == call[c].at \notin {"new", "done", "failed", "unsent", "nothing"}
Dies ==
    /\ \E c \in Calls : Busy(c)
    /\ call' = [c \in Calls |-> IF Busy(c) THEN [call[c] EXCEPT !.at = "failed"] ELSE call[c]]
    /\ Local /\ Still

Next ==
    \/ \E c \in Calls : \/ Start(c) \/ Create(c) \/ Whose(c) \/ Establish(c) \/ Root(c)
                        \/ Rooted(c) \/ Commit(c) \/ Look(c) \/ Replay(c) \/ Last(c)
                        \/ Only(c) \/ FetchFruit(c) \/ Reset(c)
    \/ \E m \in flight : Land(m)
    \/ Push \/ Delete \/ Edit \/ Dies

Spec == Init /\ [][Next]_vars

-----------------------------------------------------------------------------
\* A change is on the branch at most once, however many requests for it were
\* lost, replayed, overtaken or made again by a later call.
NoChangeTwice ==
    remote # Absent =>
        \A c \in Calls : Cardinality({i \in DOMAIN remote : remote[i] = c}) <= 1

\* A commit that is reported was on the branch, is this change, and stands on
\* the HEAD the caller saw.
ReportedIsPublished ==
    \A c \in Calls : At(c, "done") =>
        /\ call[c].oid \in held
        /\ call[c].oid[Len(call[c].oid)] = c

\* "No Fruit commit was accepted" is said only when none was and none can be
\* any more: no request of the call is still on its way.
NoneMeansNone ==
    \A c \in Calls : At(c, "unsent") /\ call[c].tries = 1 =>
        /\ \A m \in flight : m.call = c => m.act = "ref"
        /\ \A h \in held : h # Absent => \A i \in DOMAIN h : h[i] # c

\* A change is on the forge's branch at most once, a reported commit is there,
\* and "no commit was accepted" is said only when none was or can be, whatever
\* requests and answers were lost.
PublishedOnce == NoChangeTwice /\ ReportedIsPublished /\ NoneMeansNone

\* Refuted: a branch that a lost creation left at the base is taken for
\* somebody else's, and the publication of the run fails though the way is
\* free.
CreatedIsUsed == \A c \in Calls : At(c, "whose") /\ flight = {} => Outcome(c) # "base"

=============================================================================
