------------------------------- MODULE MCRulings -------------------------------
(* What the Botanist allows and rules out, and is told: Delegation, beside it *)
(* the memories of the Rhizome, and the rows of runs with their retention.  A *)
(* behaviour has its focus on one of the three and the others rest.           *)
EXTENDS Delegation, TLC
CONSTANTS pollen, o1, o2,   \* a Pollen, operation-classes of high and low impact
          plot, field,      \* Substrates
          p1, b1, b2,       \* a proposal's title, titles of the Botanist
          v1, v2,           \* contents of a file
          k1, k2,           \* chroniclers
          s1, c1, g1,       \* a Stem, a command, a Sprout
          l1, l2, f1,       \* Pollens, a Phytomer
          r1, r2, Unset     \* requests
VARIABLES focus, source, store, ruling, chron, sprout, corrects, out, held, begun, edits,
          runs, rows, missing, seed, faults

Rhizome == INSTANCE Memory WITH
    Proposal <- {p1}, Rule <- {b1, b2}, Content <- {v1, v2}, Command <- {c1},
    Stem <- {s1}, Chronicler <- {k1, k2}, Sprout <- {g1}, Terms <- 1, None <- Unset,
    MaxCommands <- 3, MaxEdits <- 1, cmd <- ruling

Rows == INSTANCE HistoryRows WITH
    NRuns <- 2, Pollens <- {l1, l2}, Phytomers <- {f1}, Reused <- FALSE,
    LongRuns <- FALSE, MaxFaults <- 1

rhizome == <<source, store, ruling, chron, sprout, corrects, out, held, begun, edits>>
history == <<runs, rows, missing, seed, faults>>

MCImpact == (o1 :> 3) @@ (o2 :> 1)

\* A grant for two substrates, which add and revoke must refuse; high impact
\* is to be confirmed, and the grant runs out when the clock moves.
MCWideGrants == [p \in Pollen |-> [ops |-> {o1}, substrates |-> {plot, field},
                                   expires |-> 1, confirm |-> 3]]

Typed(kind, ops) ==
    [kind |-> kind, pollen |-> pollen, substrates |-> {plot}, ops |-> ops]

MCCommand == {Typed("create", {o1}), Typed("remove", {o1}),
              Typed("add", {o2}), Typed("revoke", {o1})}

\* Two requests are alike, two chroniclers and two Pollens of runs: one exchange
\* of all is enough, as only one of these pairs ever moves.  So are two Botanists,
\* or one with two terminals.
Exchange == (r1 :> r2) @@ (r2 :> r1) @@ (k1 :> k2) @@ (k2 :> k1) @@ (l1 :> l2) @@ (l2 :> l1)
Symmetric == {f \in Permutations(DOMAIN Exchange) : f = Exchange \/ \A x \in DOMAIN f : f[x] = x}
             \cup Permutations(Admin)

MCInit ==
    /\ focus \in {"delegation", "rhizome", "rows"}
    /\ Init /\ Rhizome!Init /\ Rows!Init
    /\ focus # "rhizome" => source = v1

MCNext ==
    /\ \/ focus = "delegation" /\ Next /\ UNCHANGED <<rhizome, history>>
       \/ focus = "rhizome" /\ Rhizome!Next /\ UNCHANGED <<vars, history>>
       \/ focus = "rows" /\ Rows!Next /\ UNCHANGED <<vars, rhizome>>
    /\ UNCHANGED focus

MCSpec == MCInit /\ [][MCNext]_<<focus, vars, rhizome, history>>

-----------------------------------------------------------------------------
\* What the Botanist ruled out stays out of every later assembly, a memory and
\* its correction are never both established, a memory is stale only because
\* the Substrate's own file has moved, and a proposal alters no memory that is
\* on record.
RhizomeIsObeyed ==
    /\ [](focus = "rhizome" => /\ Rhizome!RuledOutStaysOut
                               /\ Rhizome!NeverBoth
                               /\ Rhizome!StaleBecauseItMoved)
    /\ Rhizome!ProposalsPreserve

\* A run that was reported dispatched is on record by its own name, a subject
\* that may watch a Phytomer dispatched every run in it, a one-shot command that
\* reports no failure has left its row settled and its events on disk, and age
\* disposes of no Fruit and of no Seed that has to answer retries.
RowsTellTheTruth ==
    /\ [](focus = "rows" => /\ Rows!DispatchedIsOwned
                            /\ Rows!WatchedIsOwn
                            /\ Rows!ReportedIsRecorded)
    /\ Rows!FruitOutlivesAge

===============================================================================
