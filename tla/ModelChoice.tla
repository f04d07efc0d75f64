----------------------------- MODULE ModelChoice -----------------------------
(***************************************************************************)
(* Which model a run is grown with.  A resolution searches the registry of *)
(* models up to three times, giving up the cost ceiling before the demand  *)
(* for tools; a step of a Sequence is first offered to a router.  Every    *)
(* search reads the registry anew: a listing of the providers, if one was  *)
(* made within a day, else the table compiled into the program.            *)
(***************************************************************************)
EXTENDS Integers, Sequences, FiniteSets, SequencesExt

CONSTANTS
    Provider,       \* providers the program knows
    Unknown,        \* the name of a provider it does not know
    Local,          \* the provider of a local endpoint, which needs no key
    Run,
    None,
    Dearest,        \* cost tiers are 1 (cheapest) .. Dearest (premium)
    Misnamed,       \* the operator may name a provider the program does not know
    Routing,        \* runs may be steps of a Sequence, which are routed
    MaxDiscoveries  \* bound on listings made in the background

VARIABLES
    setup,        \* the credentials present and the table, fixed for the process
    cache,        \* the models of the last listing, or None
    fresh,        \* the listing is younger than its time to live
    run,
    discoveries   \* counter

vars == <<setup, cache, fresh, run, discoveries>>

Tier == 1 .. Dearest

Model == [provider : Provider, tools : BOOLEAN, tier : Tier]

Names == Provider \cup (IF Misnamed THEN {Unknown} ELSE {})

Setup == [available : SUBSET Provider, table : {<<m, n>> : m, n \in Model}]

Idle == [at |-> "idle"]

Init ==
    /\ setup \in Setup
    /\ cache = None /\ fresh = FALSE
    /\ run = [r \in Run |-> Idle]
    /\ discoveries = 0

-----------------------------------------------------------------------------
(* The registry.                                                           *)

Active(c, f) == IF c # None /\ f THEN c ELSE setup.table

Registry == Active(cache, fresh)

\* What the table or the operator's declarations say of one provider's models.
Known(p) == SelectSeq(setup.table, LAMBDA m : m.provider = p)

\* A name that is neither declared nor in the table is taken to drive no tools.
Served(p) == {<<m>> : m \in {x \in Model : x.provider = p /\ (x.tools => x \in ToSet(setup.table))}}

\* The list a provider answers with; the known models when it does not answer.
Answers(p) == Served(p) \cup {Known(p)}

Listings ==
    LET order == SetToSeq(setup.available)
        all   == {FlattenSeq([i \in DOMAIN order |-> f[order[i]]]) :
                      f \in {g \in [setup.available -> UNION {Answers(p) : p \in setup.available}] :
                                 \A p \in setup.available : g[p] \in Answers(p)}}
    IN  {IF l = <<>> THEN setup.table ELSE l : l \in all}

-----------------------------------------------------------------------------
(* One search.                                                             *)

Caps(ceiling, tools, provider) ==
    [ceiling |-> ceiling, tools |-> tools, provider |-> provider]

Fits(m, caps) ==
    /\ m.provider \in setup.available
    /\ caps.provider \in {None, m.provider}
    /\ caps.tools => m.tools
    /\ caps.ceiling # None => ~(m.tier > caps.ceiling)

Matching(registry, caps) == {i \in DOMAIN registry : Fits(registry[i], caps)}

\* The dearest of the models that fit, the first of equals; none when none fits.
Best(registry, caps) ==
    LET ms == Matching(registry, caps)
        Precedes(i, j) == \/ registry[i].tier > registry[j].tier
                          \/ registry[i].tier = registry[j].tier /\ i <= j
    IN  {registry[i] : i \in {k \in ms : \A j \in ms : Precedes(k, j)}}

\* What the run asked for, kept through all its searches.
Wanted(r) ==
    Caps(run[r].tier, run[r].tools, IF run[r].explicit THEN run[r].choice ELSE None)

\* The demand for tools is given up while the ceiling stands.
RaisedForCost(caps) == [caps EXCEPT !.tools = FALSE]

Raised(caps) == [caps EXCEPT !.ceiling = None]

\* The demand is given up together with something that was to stand.
RelaxedFurther(caps) == [caps EXCEPT !.tools = FALSE, !.ceiling = None]

RelaxedAnywhere(caps) == [caps EXCEPT !.tools = FALSE, !.provider = None]

Relaxed(caps) == [caps EXCEPT !.tools = FALSE]

-----------------------------------------------------------------------------
(* A resolution.                                                           *)

\* A provider the program does not know is taken for the local one.
Spec(name) == IF name \in Provider THEN name ELSE Local

\* The operator's choice, or a guess from the credentials present. The file
\* that may name a provider or a model is read again by every resolution.
Choice ==
    [name : Names, explicit : {TRUE}]
    \cup [name : IF setup.available = {} THEN {Local} ELSE setup.available, explicit : {FALSE}]

\* Models that would do in the registry r, for a run that may use provider p.
Able(registry, p) == Matching(registry, Caps(None, TRUE, p)) # {}

Fitting(registry, t, p) == Matching(registry, Caps(t, TRUE, p)) # {}

\* A run begins to resolve; able and fitting are kept for the properties only.
Resolving(kind, tier, tools, choice) ==
    LET p == IF choice.explicit THEN choice.name ELSE None
    IN  [at |-> "ceiling", kind |-> kind, tier |-> tier, tools |-> tools,
         choice |-> choice.name, explicit |-> choice.explicit,
         able |-> Able(Registry, p), fitting |-> Fitting(Registry, tier, p)]

Ended(r, model, how) ==
    [at |-> "ended", how |-> how, model |-> model, kind |-> run[r].kind,
     tier |-> run[r].tier, tools |-> run[r].tools, choice |-> run[r].choice,
     explicit |-> run[r].explicit, able |-> run[r].able, fitting |-> run[r].fitting]

ByTier(kind, tier, tools) == {Resolving(kind, tier, tools, c) : c \in Choice}

\* An orchestrator without a preference, or a client of a helper.
Begin(r) ==
    /\ run[r].at = "idle"
    /\ \E t \in Tier, tools \in BOOLEAN : \E x \in ByTier("tier", t, tools) :
          run' = [run EXCEPT ![r] = x]
    /\ UNCHANGED <<setup, cache, fresh, discoveries>>

\* A preference that names a provider and no model.
BeginNamed(r) ==
    /\ run[r].at = "idle"
    /\ \E p \in Names :
          run' = [run EXCEPT ![r] =
                      Resolving("named", Dearest, FALSE, [name |-> p, explicit |-> TRUE])]
    /\ UNCHANGED <<setup, cache, fresh, discoveries>>

\* A model set in the environment or the configuration ends the resolution.
\* What it can do is not looked up: only the provider is recorded of it.
Pinned(r) ==
    /\ run[r].at = "ceiling"
    /\ run' = [run EXCEPT ![r] =
                   Ended(r, [provider |-> Spec(run[r].choice), tools |-> TRUE, tier |-> 1], "pinned")]
    /\ UNCHANGED <<setup, cache, fresh, discoveries>>

\* Nothing is left to give up: a step is assessed, any other run fails.
GivenUp(r) ==
    IF run[r].kind = "bypass" THEN [run[r] EXCEPT !.at = "assess"] ELSE Ended(r, None, "failed")

\* A search ends the resolution with the best; when nothing fits it goes on.
Search(r, caps, otherwise) ==
    \/ \E m \in Best(Registry, caps) : run' = [run EXCEPT ![r] = Ended(r, m, "selected")]
    \/ Matching(Registry, caps) = {} /\ run' = [run EXCEPT ![r] = otherwise]

TryCeiling(r) ==
    /\ run[r].at = "ceiling"
    /\ Search(r, Wanted(r), IF run[r].tools THEN [run[r] EXCEPT !.at = "raise"] ELSE GivenUp(r))
    /\ UNCHANGED <<setup, cache, fresh, discoveries>>

TryRaised(r) ==
    /\ run[r].at = "raise"
    /\ Search(r, Raised(Wanted(r)), [run[r] EXCEPT !.at = "relax"])
    /\ UNCHANGED <<setup, cache, fresh, discoveries>>

TryRelaxed(r) ==
    /\ run[r].at = "relax"
    /\ Search(r, Relaxed(Wanted(r)), GivenUp(r))
    /\ UNCHANGED <<setup, cache, fresh, discoveries>>

-----------------------------------------------------------------------------
(* A step of a Sequence.                                                   *)

Usable(registry) == {registry[i] : i \in Matching(registry, Caps(None, FALSE, None))}

\* Every run that has begun, in a registry that has changed.
Watching(c, f) ==
    [r \in Run |->
        IF run[r].at \in {"idle", "ended"} THEN run[r]
        ELSE LET p == IF run[r].explicit THEN run[r].choice ELSE None
             IN  [run[r] EXCEPT !.able = @ /\ Able(Active(c, f), p),
                                !.fitting = @ /\ Fitting(Active(c, f), run[r].tier, p)]]

\* The cache while it is young, or a listing made now.
BeginStep(r) ==
    /\ Routing /\ run[r].at = "idle"
    /\ \E l \in IF cache # None /\ fresh THEN {cache} ELSE Listings :
          /\ cache' = l /\ fresh' = TRUE
          /\ run' = [Watching(l, TRUE) EXCEPT ![r] =
                        [at |-> "route", kind |-> "step", tier |-> Dearest, tools |-> FALSE,
                         choice |-> None, explicit |-> FALSE, registry |-> l,
                         able |-> Able(l, None), fitting |-> TRUE]]
    /\ UNCHANGED <<setup, discoveries>>

\* The configuration may say to bypass the router.
Bypass(r) ==
    /\ run[r].at = "route"
    /\ \E x \in ByTier("bypass", Dearest, FALSE) : run' = [run EXCEPT ![r] = x]
    /\ UNCHANGED <<setup, cache, fresh, discoveries>>

\* The router is asked when there is more than one model to choose from, and
\* may name any; an answer outside the list, or none, falls back to the best
\* of the list.
Route(r) ==
    /\ run[r].at = "route"
    /\ LET usable == Usable(run[r].registry)
       IN  \/ \E m \in usable : run' = [run EXCEPT ![r] = Ended(r, m, "routed")]
           \/ usable = {} /\ run' = [run EXCEPT ![r].at = "assess"]
    /\ UNCHANGED <<setup, cache, fresh, discoveries>>

\* The tier the assessor names, or premium when it names none.
Assess(r) ==
    /\ run[r].at = "assess"
    /\ \E t \in Tier : \E x \in ByTier("tier", t, TRUE) : run' = [run EXCEPT ![r] = x]
    /\ UNCHANGED <<setup, cache, fresh, discoveries>>

-----------------------------------------------------------------------------
(* The cache.                                                              *)

Discover ==
    /\ discoveries < MaxDiscoveries /\ discoveries' = discoveries + 1
    /\ \E l \in Listings :
          cache' = l /\ fresh' = TRUE /\ run' = Watching(l, TRUE)
    /\ UNCHANGED setup

Expire ==
    /\ fresh /\ fresh' = FALSE
    /\ run' = Watching(cache, FALSE)
    /\ UNCHANGED <<setup, cache, discoveries>>

Next ==
    \/ \E r \in Run :
          \/ Begin(r) \/ BeginNamed(r) \/ Pinned(r)
          \/ TryCeiling(r) \/ TryRaised(r) \/ TryRelaxed(r)
          \/ BeginStep(r) \/ Bypass(r) \/ Route(r) \/ Assess(r)
    \/ Discover
    \/ Expire

Behaviour == Init /\ [][Next]_vars

-----------------------------------------------------------------------------
(* Properties.                                                             *)

TypeOK ==
    /\ setup \in Setup
    /\ cache = None \/ cache \in Seq(Model)
    /\ fresh \in BOOLEAN
    /\ \A r \in Run : run[r].at \in {"idle", "ceiling", "raise", "relax",
                                     "route", "assess", "ended"}

Selected(r) == run[r].at = "ended" /\ run[r].how = "selected"

\* However often a search is repeated, and whatever listing arrives between
\* two of them, a selection never leaves the provider that was named
\* (resolveForProviderChoiceInContext keeps caps.Provider in every attempt).
NamedIsKept ==
    \A r \in Run : Selected(r) /\ run[r].explicit => run[r].model.provider = run[r].choice

\* An autonomous run is given a model that drives no tools only if, at some
\* moment since it began, the registry held no such model it was allowed to
\* use at any price (the order in which the constraints are given up).
ToolsComeFirst ==
    \A r \in Run : Selected(r) /\ run[r].tools /\ run[r].able => run[r].model.tools

\* The ceiling on cost is passed only for the sake of tools, and only when
\* nothing under it drove them at some moment of the resolution.
CeilingGivesWayToTools ==
    \A r \in Run :
        Selected(r) /\ run[r].model.tier > run[r].tier =>
            run[r].tools /\ ~run[r].fitting /\ run[r].model.tools

\* No run is grown with a model that drives no tools while the registry held
\* one that does, throughout, at a provider it might use: models that do not
\* "must never be auto-selected for an autonomous sprout" (registry.go:93).
AutonomousDrivesTools ==
    \A r \in Run :
        run[r].at = "ended" /\ run[r].how \in {"selected", "routed"}
        /\ (run[r].tools \/ run[r].kind = "step") /\ run[r].able => run[r].model.tools
=============================================================================
