----------------------------- MODULE Delegation -----------------------------
(***************************************************************************)
(* Delegated execution: the grants file that the Botanist's commands       *)
(* rewrite, each command a process of its own; the authorizer, which reads *)
(* the file for every request; and the store of pending confirmations of   *)
(* the serving process.                                                    *)
(***************************************************************************)
EXTENDS Naturals, Sequences, FiniteSets, SequencesExt

CONSTANTS
    Pollen, Op, Substrate,
    Impact,      \* the impact rank of an operation-class, 1 low .. 4 undeclared
    Requester,   \* requests being served at one time
    Admin,       \* commands of the Botanist, one process each
    Command,     \* what the Botanist may type
    FirstGrants, \* the grants file at the start
    NoGrant,
    TTL,         \* of a pending confirmation
    MaxTime, MaxRecords, MaxGiven  \* bounds

ASSUME ImpactAssumption == Impact \in [Op -> 1 .. 4]
ASSUME TimeAssumption == TTL \in Nat /\ MaxTime \in Nat
ASSUME BoundAssumption == MaxRecords \in Nat /\ MaxGiven \in Nat

NonEmpty(S) == SUBSET S \ {{}}

\* A grant: confirm is the impact from which the Botanist is asked, 0 for never.
Grant == [ops : NonEmpty(Op), substrates : NonEmpty(Substrate),
          expires : 1 .. MaxTime + 1, confirm : 0 .. 3]

File == [Pollen -> Grant \cup {NoGrant}]

ASSUME FileAssumption == FirstGrants \in File /\ NoGrant \notin Grant
ASSUME CommandAssumption ==
    Command \subseteq [kind : {"create", "remove", "add", "revoke"}, pollen : Pollen,
                       substrates : NonEmpty(Substrate), ops : NonEmpty(Op)]

VARIABLES
    grants,   \* the grants file
    cmd,      \* the Botanist's commands
    req,      \* the requests being authorized
    records,  \* the pending confirmations; a restart loses them
    clock,
    given,    \* ghost: the authorizations given
    revoked   \* ghost: what a command revoked, and none has granted since

vars == <<grants, cmd, req, records, clock, given, revoked>>

Call == [pollen : Pollen, op : Op, substrate : Substrate]

Covers(g, c) == g # NoGrant /\ c.op \in g.ops /\ c.substrate \in g.substrates

Covered(file) == {c \in Call : Covers(file[c.pollen], c)}

Idle == [at |-> "idle"]

Request == [at : {"deciding", "confirming", "proposing"}, call : Call, grants : File]

Record == [call : Call, expires : Nat,
           status : {"open", "approved", "denied", "consumed", "lost"},
           word : {"none", "approved", "denied"}]

Authorization == [call : Call, via : Nat, when : Nat, granted : BOOLEAN, bound : BOOLEAN]

TypeOK ==
    /\ grants \in File
    /\ cmd \in [Admin -> [at : {"new", "done"}]
                         \cup [at : {"read"}, what : Command, copy : File]]
    /\ req \in [Requester -> {Idle} \cup Request]
    /\ records \in Seq(Record) /\ Len(records) <= MaxRecords
    /\ clock \in 0 .. MaxTime
    /\ given \in Seq(Authorization)
    /\ revoked \subseteq Pollen \X Op

Init ==
    /\ grants = FirstGrants
    /\ cmd = [a \in Admin |-> [at |-> "new"]]
    /\ req = [r \in Requester |-> Idle]
    /\ records = <<>>
    /\ clock = 0
    /\ given = <<>>
    /\ revoked = {}

-----------------------------------------------------------------------------
(* The Botanist's commands.                                                *)

\* MUTANT: a grant that covers several substrates is changed as well.
RefusedForOne(c, file) ==
    CASE c.kind = "create" -> file[c.pollen] # NoGrant
      [] c.kind = "remove" -> FALSE
      [] c.kind = "add" -> ~(/\ file[c.pollen] # NoGrant
                             /\ c.substrates \subseteq file[c.pollen].substrates)
      [] c.kind = "revoke" -> /\ file[c.pollen] # NoGrant
                              /\ ~(c.substrates \subseteq file[c.pollen].substrates)

\* create never touches an existing grant; add and revoke name the only
\* substrate of the grant; add needs a grant.
Refused(c, file) ==
    CASE c.kind = "create" -> file[c.pollen] # NoGrant
      [] c.kind = "remove" -> FALSE
      [] c.kind = "add" -> ~(/\ file[c.pollen] # NoGrant
                             /\ file[c.pollen].substrates = c.substrates)
      [] c.kind = "revoke" -> /\ file[c.pollen] # NoGrant
                              /\ file[c.pollen].substrates # c.substrates

\* MUTANT: a grant is removed by taking all its operations away.
ChangedToEmpty(c, g) ==
    CASE c.kind = "create" -> [ops |-> c.ops, substrates |-> c.substrates,
                               expires |-> MaxTime + 1, confirm |-> 0]
      [] c.kind = "remove" -> IF g = NoGrant THEN NoGrant ELSE [g EXCEPT !.ops = {}]
      [] c.kind = "add" -> [g EXCEPT !.ops = @ \cup c.ops]
      [] c.kind = "revoke" -> IF g = NoGrant \/ g.ops \subseteq c.ops THEN NoGrant
                              ELSE [g EXCEPT !.ops = @ \ c.ops]

\* The grant of c.pollen after the command.
Changed(c, g) ==
    CASE c.kind = "create" -> [ops |-> c.ops, substrates |-> c.substrates,
                               expires |-> MaxTime + 1, confirm |-> 0]
      [] c.kind = "remove" -> NoGrant
      [] c.kind = "add" -> [g EXCEPT !.ops = @ \cup c.ops]
      [] c.kind = "revoke" -> IF g = NoGrant \/ g.ops \subseteq c.ops THEN NoGrant
                              ELSE [g EXCEPT !.ops = @ \ c.ops]

\* The file is read; the mutex is the process's own and keeps no other
\* command out.
ReadGrants(a) ==
    /\ cmd[a].at = "new"
    /\ \E c \in Command :
          cmd' = [cmd EXCEPT ![a] = [at |-> "read", what |-> c, copy |-> grants]]
    /\ UNCHANGED <<grants, req, records, clock, given, revoked>>

\* The whole file is replaced by the changed copy, or the command fails.
WriteGrants(a) ==
    /\ cmd[a].at = "read"
    /\ LET c == cmd[a].what
           copy == cmd[a].copy
           named == {c.pollen} \X c.ops
       IN  \/ /\ ~Refused(c, copy)
              /\ grants' = IF Changed(c, copy[c.pollen]) = copy[c.pollen] THEN grants
                           ELSE [copy EXCEPT ![c.pollen] = Changed(c, @)]
              /\ revoked' = IF c.kind = "revoke" THEN revoked \cup named
                            ELSE IF c.kind = "remove"
                            THEN revoked \cup ({c.pollen} \X Op)
                            ELSE revoked \ named
           \/ Refused(c, copy) /\ UNCHANGED <<grants, revoked>>
    /\ cmd' = [cmd EXCEPT ![a] = [at |-> "done"]]
    /\ UNCHANGED <<req, records, clock, given>>

-----------------------------------------------------------------------------
(* A delegated request.                                                    *)

\* The impact reaches the grant's bound.
Escalates(g, c) == g.confirm # 0 /\ Impact[c.op] >= g.confirm

\* The grants are loaded; if that fails the request is denied.
Ask(r) ==
    /\ req[r] = Idle /\ Len(given) < MaxGiven
    /\ \E c \in Call :
          req' = [req EXCEPT ![r] = [at |-> "deciding", call |-> c, grants |-> grants]]
    /\ UNCHANGED <<grants, cmd, records, clock, given, revoked>>

Loaded(r) == req[r].grants[req[r].call.pollen]

Active(r) == Covers(Loaded(r), req[r].call) /\ clock < Loaded(r).expires

\* The request is authorized, by confirmation id or by the grant alone (0).
Give(r, id) ==
    LET c == req[r].call
        g == req[r].grants[c.pollen]
    IN  /\ given' = Append(given, [call |-> c, via |-> id, when |-> clock,
                            granted |-> Covers(g, c),
                            bound |-> /\ Covers(g, c) /\ g.confirm # 0
                                      /\ Impact[c.op] >= g.confirm])
        /\ req' = [req EXCEPT ![r] = Idle]

Deny(r) ==
    /\ req[r].at = "deciding"
    /\ ~Active(r)
    /\ req' = [req EXCEPT ![r] = Idle]
    /\ UNCHANGED <<grants, cmd, records, clock, given, revoked>>

Authorize(r) ==
    /\ req[r].at = "deciding" /\ Len(given) < MaxGiven
    /\ Active(r) /\ ~Escalates(Loaded(r), req[r].call)
    /\ Give(r, 0)
    /\ UNCHANGED <<grants, cmd, records, clock, revoked>>

\* MUTANT: a request that the Botanist has approved needs no grant any more.
EscalateFirst(r) ==
    /\ req[r].at = "deciding"
    /\ \/ Active(r) /\ Escalates(Loaded(r), req[r].call)
       \/ \E id \in DOMAIN records : /\ records[id].status = "approved"
                                     /\ records[id].call = req[r].call
    /\ req' = [req EXCEPT ![r].at = "confirming"]
    /\ UNCHANGED <<grants, cmd, records, clock, given, revoked>>

Escalate(r) ==
    /\ req[r].at = "deciding"
    /\ Active(r) /\ Escalates(Loaded(r), req[r].call)
    /\ req' = [req EXCEPT ![r].at = "confirming"]
    /\ UNCHANGED <<grants, cmd, records, clock, given, revoked>>

Unexpired(id) == clock <= records[id].expires

\* MUTANT: an approval serves every operation of the pollen.
ConsumableByPollen(r) ==
    {id \in DOMAIN records : /\ records[id].status = "approved" /\ Unexpired(id)
                             /\ records[id].call.pollen = req[r].call.pollen}

Consumable(r) ==
    {id \in DOMAIN records : /\ records[id].status = "approved" /\ Unexpired(id)
                             /\ records[id].call = req[r].call}

\* MUTANT: the approval is found but not used up.
ConsumeFound(r) ==
    /\ req[r].at = "confirming" /\ Len(given) < MaxGiven
    /\ \E id \in Consumable(r) : Give(r, id)
    /\ UNCHANGED <<grants, cmd, records, clock, revoked>>

\* Under one lock: an approval is found and used up, whichever the map yields.
Consume(r) ==
    /\ req[r].at = "confirming" /\ Len(given) < MaxGiven
    /\ \E id \in Consumable(r) :
          /\ records' = [records EXCEPT ![id].status = "consumed"]
          /\ Give(r, id)
    /\ UNCHANGED <<grants, cmd, clock, revoked>>

FindNone(r) ==
    /\ req[r].at = "confirming"
    /\ Consumable(r) = {}
    /\ req' = [req EXCEPT ![r].at = "proposing"]
    /\ UNCHANGED <<grants, cmd, records, clock, given, revoked>>

\* Under the lock again: a new confirmation, one for every attempt.
Create(r) ==
    /\ req[r].at = "proposing" /\ Len(records) < MaxRecords
    /\ records' = Append(records, [call |-> req[r].call, expires |-> clock + TTL,
                                   status |-> "open", word |-> "none"])
    /\ req' = [req EXCEPT ![r] = Idle]
    /\ UNCHANGED <<grants, cmd, clock, given, revoked>>

\* The Botanist approves or denies an open confirmation in time.
Answer(id) ==
    /\ records[id].status = "open" /\ Unexpired(id)
    /\ \E w \in {"approved", "denied"} :
          records' = [records EXCEPT ![id].status = w,
                                     ![id].word = IF @ = "none" THEN w ELSE @]
    /\ UNCHANGED <<grants, cmd, req, clock, given, revoked>>

\* The serving process ends and is started again.
Restart ==
    /\ records # <<>>
    /\ records' = [id \in DOMAIN records |-> [records[id] EXCEPT !.status = "lost"]]
    /\ req' = [r \in Requester |-> Idle]
    /\ UNCHANGED <<grants, cmd, clock, given, revoked>>

Tick ==
    /\ clock < MaxTime
    /\ clock' = clock + 1
    /\ UNCHANGED <<grants, cmd, req, records, given, revoked>>

Next ==
    \/ \E a \in Admin : ReadGrants(a) \/ WriteGrants(a)
    \/ \E r \in Requester : \/ Ask(r) \/ Deny(r) \/ Authorize(r) \/ Escalate(r)
                            \/ Consume(r) \/ FindNone(r) \/ Create(r)
    \/ \E id \in DOMAIN records : Answer(id)
    \/ Restart \/ Tick

Spec == Init /\ [][Next]_vars

-----------------------------------------------------------------------------

\* An approval of the Botanist authorizes at most one request, however many
\* are being decided at the same time.
ApprovalIsSingleUse ==
    \A i, j \in DOMAIN given : given[i].via # 0 /\ given[i].via = given[j].via => i = j

\* What is authorized by a confirmation is the very call that the Botanist
\* was shown, was approved and never denied, and is still in time.
OnlyTheApprovedIsConsumed ==
    \A i \in DOMAIN given : given[i].via # 0 =>
        LET rec == records[given[i].via]
        IN  /\ rec.word = "approved" /\ rec.call = given[i].call
            /\ given[i].when <= rec.expires

\* No approval stands in for a grant: a request made after the grant was
\* withdrawn is not authorized by a confirmation that is still outstanding; and
\* no grant stands in for a confirmation at or above the bound it sets.
GrantAndConfirmation ==
    \A i \in DOMAIN given :
        given[i].granted /\ (given[i].bound => given[i].via # 0)

\* A command grants what it names and nothing else: in particular an operation
\* added for one substrate is not opened on another.
CommandWidensOnlyWhatItNames ==
    [][\A a \in Admin : WriteGrants(a) =>
          LET c == cmd[a].what
          IN  \A call \in Covered(grants') \ (Covered(grants) \cup Covered(cmd[a].copy)) :
                 /\ call.pollen = c.pollen /\ call.op \in c.ops
                 /\ call.substrate \in c.substrates]_vars

\* "RevokeGrantOperationClasses removes the named operation classes from an
\* existing single-Substrate grant for pollen" (delegationconfig.go): what was
\* revoked and not granted again is not granted.
RevokedStaysRevoked ==
    \A g \in revoked : grants[g[1]] = NoGrant \/ g[2] \notin grants[g[1]].ops

=============================================================================
