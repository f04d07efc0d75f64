----------------------------- MODULE SeedOpening -----------------------------
(***************************************************************************)
(* Detached seed.grow: how Stem processes that share one history database  *)
(* turn a request that names a retry identity (Pollen and idempotency key) *)
(* into one durable opening, one Phytomer and one growth.  Requests are    *)
(* serialized inside a process by seedOpenMu; between processes only the   *)
(* unique index of the seedruns table decides, and a storage call may      *)
(* report a failure after it committed.                                    *)
(***************************************************************************)
EXTENDS Naturals, FiniteSets

CONSTANTS
    Process,      \* Stem processes over one history database
    Identity,     \* retry identities: a Pollen and an idempotency key
    Digest,       \* request digests: equal digests mean equal requests
    Phytomer,     \* Phytomer ids that may be minted
    Absent,       \* no row, no request
    MaxFaults     \* bound on crashes and storage failures together

VARIABLES
    rows,        \* the seedruns row of each retry identity, or Absent
    phytomers,   \* Phytomers that exist in the session store
    up,          \* running processes
    request,     \* the request inside seedOpenMu of each process, or Absent
    growing,     \* Phytomers whose growth a process is running
    launches,    \* ghost: growths ever launched per Phytomer
    answers,     \* ghost: what callers were told
    stranded,    \* ghost: openings nobody grows after a storage failure
    faults

vars == <<rows, phytomers, up, request, growing, launches, answers, stranded,
          faults>>

Row == [phytomer : Phytomer, digest : Digest, status : {"running", "settled"}]

Step == {"find", "prepare", "record", "recover", "launch", "discard"}

\* A handle names a row, so a successful answer is the row's Phytomer.
Told == Phytomer \cup {"conflict", "error"}

\* told is the answer a request will give once it has cleaned up.
Request == [at : Step, id : Identity, digest : Digest,
            phytomer : Phytomer \cup {Absent}, told : Told]

Answer == [id : Identity, digest : Digest, told : Told]

\* Absent is none of the values it stands in for, and a refusal is no Phytomer.
ASSUME AbsentAssumption ==
    /\ Absent \notin Phytomer \cup Identity \cup Digest
    /\ Absent \notin Row /\ Absent \notin Request
ASSUME ToldAssumption == "conflict" \notin Phytomer /\ "error" \notin Phytomer
ASSUME MaxFaultsAssumption == MaxFaults \in Nat

TypeOK ==
    /\ rows \in [Identity -> Row \cup {Absent}]
    /\ phytomers \in SUBSET Phytomer
    /\ up \in SUBSET Process
    /\ request \in [Process -> Request \cup {Absent}]
    /\ growing \in [Process -> SUBSET Phytomer]
    /\ launches \in [Phytomer -> Nat]
    /\ answers \in SUBSET Answer
    /\ stranded \in SUBSET Identity
    /\ faults \in 0 .. MaxFaults

Init ==
    /\ rows = [id \in Identity |-> Absent]
    /\ phytomers = {}
    /\ up = {}
    /\ request = [s \in Process |-> Absent]
    /\ growing = [s \in Process |-> {}]
    /\ launches = [p \in Phytomer |-> 0]
    /\ answers = {}
    /\ stranded = {}
    /\ faults = 0

-----------------------------------------------------------------------------

Fault == faults < MaxFaults /\ faults' = faults + 1

At(s, step) == request[s] # Absent /\ request[s].at = step

GoTo(s, step) == request' = [request EXCEPT ![s].at = step]

\* The request leaves seedOpenMu with an answer.
Reply(s, told) ==
    /\ answers' = answers \cup {[id |-> request[s].id,
                                 digest |-> request[s].digest, told |-> told]}
    /\ request' = [request EXCEPT ![s] = Absent]

\* replaySeedOpening.
Replay(s, row) ==
    IF row.digest = request[s].digest THEN row.phytomer ELSE "conflict"

\* Ids are minted afresh and never reused.
Unminted == Phytomer \ (phytomers \cup {p \in Phytomer : launches[p] > 0})

\* Bound: a request that may need a Phytomer arrives only while one is spare.
PhytomerBound ==
    Cardinality(Unminted) >
        Cardinality({s \in up : At(s, "find") \/ At(s, "prepare")})

Arrive(s, id, digest) ==
    /\ s \in up
    /\ request[s] = Absent
    /\ rows[id] # Absent \/ PhytomerBound
    /\ request' = [request EXCEPT ![s] = [at |-> "find", id |-> id,
                                          digest |-> digest,
                                          phytomer |-> Absent,
                                          told |-> "error"]]
    /\ UNCHANGED <<rows, phytomers, up, growing, launches, answers, stranded,
                   faults>>

\* The durable identity is looked up before anything is created.
Find(s) ==
    LET row == rows[request[s].id] IN
    /\ At(s, "find")
    /\ \/ row # Absent /\ Reply(s, Replay(s, row)) /\ UNCHANGED faults
       \/ row = Absent /\ GoTo(s, "prepare") /\ UNCHANGED <<answers, faults>>
       \/ Fault /\ Reply(s, "error")
    /\ UNCHANGED <<rows, phytomers, up, growing, launches, stranded>>

\* prepareResolvedSeed: a Phytomer of its own for the new Seed.  When the
\* session cannot be saved the request fails; it may have been saved.
Prepare(s) ==
    /\ At(s, "prepare")
    /\ \E p \in Unminted :
          \/ /\ phytomers' = phytomers \cup {p}
             /\ request' = [request EXCEPT ![s].at = "record",
                                           ![s].phytomer = p]
             /\ UNCHANGED <<answers, faults>>
          \/ /\ Fault
             /\ phytomers' \in {phytomers, phytomers \cup {p}}
             /\ Reply(s, "error")
    /\ UNCHANGED <<rows, up, growing, launches, stranded>>

\* MUTANT: the opening is an upsert, so that a retry finds its row.
RecordUpsert(s) ==
    LET r == request[s] IN
    /\ At(s, "record")
    /\ rows' = [rows EXCEPT ![r.id] = [phytomer |-> r.phytomer,
                                       digest |-> r.digest,
                                       status |-> "running"]]
    /\ GoTo(s, "launch")
    /\ UNCHANGED <<phytomers, up, growing, launches, answers, stranded, faults>>

\* OpenPreparedSeed: an insert under the unique index of retry identities.
Record(s) ==
    LET r == request[s]
        Insert == rows' = [rows EXCEPT ![r.id] =
                              [phytomer |-> r.phytomer, digest |-> r.digest,
                               status |-> "running"]]
    IN
    /\ At(s, "record")
    /\ \/ /\ rows[r.id] = Absent /\ Insert
          /\ GoTo(s, "launch") /\ UNCHANGED faults
       \/ /\ rows[r.id] # Absent /\ UNCHANGED rows
          /\ GoTo(s, "recover") /\ UNCHANGED faults
       \/ /\ Fault /\ GoTo(s, "recover")
          /\ UNCHANGED rows \/ (rows[r.id] = Absent /\ Insert)
    /\ UNCHANGED <<phytomers, up, growing, launches, answers, stranded>>

\* MUTANT: every failed insert discards what was prepared.
RecoverByDiscarding(s) ==
    /\ At(s, "recover")
    /\ GoTo(s, "discard")
    /\ UNCHANGED <<rows, phytomers, up, growing, launches, answers, stranded,
                   faults>>

\* MUTANT: a row found after a failed insert is launched without asking whose
\* it is.
RecoverByAdopting(s) ==
    /\ At(s, "recover")
    /\ GoTo(s, IF rows[request[s].id] # Absent THEN "launch" ELSE "discard")
    /\ UNCHANGED <<rows, phytomers, up, growing, launches, answers, stranded,
                   faults>>

\* MUTANT: a request that lost the race answers without cleaning up.
RecoverWithoutDiscard(s) ==
    LET row == rows[request[s].id] IN
    /\ At(s, "recover")
    /\ IF row # Absent /\ row.phytomer = request[s].phytomer
       THEN GoTo(s, "launch") /\ UNCHANGED answers
       ELSE Reply(s, IF row = Absent THEN "error" ELSE Replay(s, row))
    /\ UNCHANGED <<rows, phytomers, up, growing, launches, stranded, faults>>

\* After any failed insert the durable state is read again: this request's own
\* Phytomer there means that the insert did commit (it is adopted), another's
\* that the race was lost, none that nothing was opened.
Recover(s) ==
    LET r == request[s]
        row == rows[r.id]
        Won == row # Absent /\ row.phytomer = r.phytomer
    IN
    /\ At(s, "recover")
    /\ \/ Won /\ GoTo(s, "launch") /\ UNCHANGED <<answers, stranded, faults>>
       \/ /\ ~Won
          /\ request' = [request EXCEPT
                 ![s].at = "discard",
                 ![s].told = IF row = Absent THEN "error" ELSE Replay(s, row)]
          /\ UNCHANGED <<answers, stranded, faults>>
       \/ /\ Fault
          /\ Reply(s, "error")
          /\ stranded' = stranded \cup (IF Won THEN {r.id} ELSE {})
    /\ UNCHANGED <<rows, phytomers, up, growing, launches>>

\* discardPreparedSeed, then the answer that the re-read row gave.  A failed
\* cleanup leaves the Phytomer in the store.
Discard(s) ==
    /\ At(s, "discard")
    /\ \/ phytomers' = phytomers \ {request[s].phytomer} /\ UNCHANGED faults
       \/ Fault /\ UNCHANGED phytomers
    /\ Reply(s, request[s].told)
    /\ UNCHANGED <<rows, up, growing, launches, stranded>>

\* launchDetachedSeed: the growth outlives the request.
Launch(s) ==
    LET p == request[s].phytomer IN
    /\ At(s, "launch")
    /\ growing' = [growing EXCEPT ![s] = @ \cup {p}]
    /\ launches' = [launches EXCEPT ![p] = @ + 1]
    /\ Reply(s, p)
    /\ UNCHANGED <<rows, phytomers, up, stranded, faults>>

-----------------------------------------------------------------------------
(* The rest of a Seed's life, as far as openings depend on it (SeedGrowth  *)
(* has the detail).                                                        *)

Settled(row) == IF row = Absent THEN Absent
                ELSE [row EXCEPT !.status = "settled"]

Owns(id, p) == rows[id] # Absent /\ rows[id].phytomer = p

\* The terminal transaction may fail; the row then waits for a restart.
EndGrowth(s, p) ==
    /\ p \in growing[s]
    /\ growing' = [growing EXCEPT ![s] = @ \ {p}]
    /\ \/ /\ rows' = [id \in Identity |->
                         IF Owns(id, p) THEN Settled(rows[id]) ELSE rows[id]]
          /\ UNCHANGED <<stranded, faults>>
       \/ /\ Fault
          /\ stranded' = stranded \cup {id \in Identity : Owns(id, p)}
          /\ UNCHANGED rows
    /\ UNCHANGED <<phytomers, up, request, launches, answers>>

\* MUTANT: a process starts without reconciling.
BootAtOnce(s) ==
    /\ s \notin up
    /\ up' = up \cup {s}
    /\ UNCHANGED <<rows, phytomers, request, growing, launches, answers, stranded,
                   faults>>

\* A starting process reconciles: every active row is settled.
Boot(s) ==
    /\ s \notin up
    /\ up' = up \cup {s}
    /\ rows' = [id \in Identity |-> Settled(rows[id])]
    /\ stranded' = {}
    /\ UNCHANGED <<phytomers, request, growing, launches, answers, faults>>

Crash(s) ==
    /\ s \in up
    /\ Fault
    /\ up' = up \ {s}
    /\ request' = [request EXCEPT ![s] = Absent]
    /\ growing' = [growing EXCEPT ![s] = {}]
    /\ UNCHANGED <<rows, phytomers, launches, answers, stranded>>

Serve(s) ==
    Find(s) \/ Prepare(s) \/ Record(s) \/ Recover(s) \/ Discard(s) \/ Launch(s)

Next ==
    \E s \in Process :
        \/ \E id \in Identity, digest \in Digest : Arrive(s, id, digest)
        \/ Serve(s)
        \/ \E p \in Phytomer : EndGrowth(s, p)
        \/ Boot(s) \/ Crash(s)

Spec == Init /\ [][Next]_vars

-----------------------------------------------------------------------------

InHand(p) == \E s \in up : request[s] # Absent /\ request[s].phytomer = p

Opened(p) == \E id \in Identity : Owns(id, p)

HasStatus(id, status) == rows[id] # Absent /\ rows[id].status = status

\* A growth is launched only for the Phytomer of a durable opening and at most
\* once, whatever races, retries and ambiguous inserts there were: "an insert
\* loser resolves the winning row and never starts its own execution"
\* (core/seed.go).
GrownAtMostOnce ==
    \A p \in Phytomer : launches[p] > 0 => launches[p] = 1 /\ Opened(p)

\* All callers that used one identity for one request are told the same
\* Phytomer, and only those whose request differs are refused.
AnswersAgree ==
    \A a \in answers :
        LET row == rows[a.id] IN
        /\ a.told \in Phytomer =>
              row # Absent /\ row.phytomer = a.told /\ row.digest = a.digest
        /\ a.told = "conflict" => row # Absent /\ row.digest # a.digest

\* The cleanup of a lost race never removes the Phytomer of a durable opening.
DiscardSparesOpened ==
    \A id \in Identity : rows[id] # Absent => rows[id].phytomer \in phytomers

Leftover == {p \in phytomers : ~Opened(p) /\ ~InHand(p)}

\* Lost races leave nothing behind: every Phytomer is opened or in the hands of
\* the request that is preparing it, except at most one per crash or storage
\* failure.
LeftoversAreFaults ==
    Cardinality(Leftover) <= faults

\* However retries of one identity race, fail and are repeated (OpenDetached):
\* one growth at most and only of an opening on record, one answer per request,
\* no opened Phytomer discarded, and no leftover that a fault does not explain.
OpenedOnce ==
    /\ GrownAtMostOnce
    /\ AnswersAgree
    /\ DiscardSparesOpened
    /\ LeftoversAreFaults

-----------------------------------------------------------------------------

Fairness ==
    /\ \A s \in Process : WF_vars(Serve(s))
    /\ \A s \in Process : WF_vars(\E p \in Phytomer : EndGrowth(s, p))
    /\ \A s \in Process : WF_vars(Boot(s))

FairSpec == Spec /\ Fairness

\* Every durable opening is grown or settled by a restart, unless a storage
\* failure strands it (the re-read after an insert that reported a failure, or
\* the terminal transaction): it then stays running until the next start.
OpeningSettles ==
    \A id \in Identity :
        HasStatus(id, "running") ~> (HasStatus(id, "settled") \/ id \in stranded)

=============================================================================
