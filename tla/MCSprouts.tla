------------------------------- MODULE MCSprouts -------------------------------
(* The growth of work: the opening of a Seed, a sequence of steps, one step   *)
(* on the checkout, the choice of a run's model, what the model is told, the  *)
(* turns of its mind, a call in a turn, and the watch for its silence.  A     *)
(* behaviour has its focus on one of the eight, the others rest.  One run on  *)
(* the checkout is in MCBranches; what must come to an end, in MCEndings.     *)
EXTENDS SeedOpening, Sequences, TLC
CONSTANTS plan, check, land, x1, x2,         \* steps of a file, and spare ones
          r1, s1, s2, lone, elsewhere, past, main,   \* runs; branches and commits
          e1, e2,                            \* edits of the operator
          local, unknown,                    \* providers
          None,
          MaxTurns, MaxCalls,                \* of SproutTurns
          Addresses, Offered, Pieces, Dialects, Buffer,         \* of MindCall
          Providers, Choosers, Dearest, MaxDiscoveries,         \* of ModelChoice
          Files, Tests, Readers, MaxBytes, ItemMaxBytes, MaxItems,
          MaxRevisions, MaxScans,                               \* of TaskContext
          Runs, Watchers, MaxRetained, MaxSigns, MaxFiles       \* of Dormancy
VARIABLES
    focus,
    file, runner, failures, starts, changes,
    checkout, step, sprout, kept, mishaps,
    loop, todo, told, box, clock,
    turn, wire, decoder, result, channel, published,
    growth, rec, order, tick, said,
    setup, cache, fresh, chooser, discoveries,
    content, hash, syms, assembly, revisions, assembled

\* A Meristem, a verifier that follows it, a step that follows both.
Plan == INSTANCE Sequence WITH
    Runner <- {r1}, Authored <- <<plan, check, land>>, Spare <- {x1, x2},
    After <- (plan :> {}) @@ (check :> {plan}) @@ (land :> {plan, check}),
    Verifier <- {check}, Meristem <- {plan}, Wants <- {{plan}, {check}},
    Modes <- {"halt", "retry", "pause"}, Limit <- 2, MaxRetries <- 1,
    DebuggerLimit <- 1, MaxFaults <- 1, MaxStarts <- 2, MaxEdits <- 1,
    run <- runner, faults <- failures, edits <- changes
\* A step of each kind, with a crew of two, on stale or fresh branches.
Crew == INSTANCE StepRun WITH
    Run <- {s1, s2, lone, elsewhere, past}, Main <- main, Edit <- {e1, e2},
    Clashes <- {<<e2, s1>>, <<e2, lone>>},
    Lone <- lone, Elsewhere <- elsewhere, Past <- past, MaxFaults <- 2,
    host <- checkout, written <- kept, faults <- mishaps
Turns == INSTANCE SproutTurns
Call == INSTANCE MindCall WITH Calls <- Offered, Cuts <- FALSE
Watch == INSTANCE Dormancy WITH run <- growth

Choice == INSTANCE ModelChoice WITH
    Provider <- Providers, Unknown <- unknown, Local <- local, Run <- Choosers,
    Misnamed <- TRUE, Routing <- TRUE, run <- chooser
Context == INSTANCE TaskContext WITH
    Path <- Files, Test <- Tests, Run <- Readers, Alone <- TRUE, Reverts <- FALSE,
    MaxEdits <- MaxRevisions, MaxRuns <- MaxScans,
    run <- assembly, edits <- revisions, begun <- assembled

ASSUME /\ Plan!SequenceAssumption
       /\ Crew!SubstrateAssumption /\ Crew!StepRunAssumption
\* None is none of the things it stands for.
ASSUME NoneIsNothing ==
    /\ None \notin Nat
    /\ None \notin {"refused", "transport", "status", "rejected", "unreadable", "stream",
                    "truncated", "empty"}
ASSUME NoneIsNobody == None \notin Providers \cup {unknown, local}
ASSUME WatchersRun == Watchers \subseteq Runs
ASSUME ContextIsIndexed ==
    /\ Files \subseteq Nat \ {0} /\ IsFiniteSet(Files) /\ Tests \subseteq Files
    /\ {MaxBytes, ItemMaxBytes, MaxItems} \subseteq Nat
ASSUME SomeTier == Dearest \in Nat \ {0}
ASSUME CallsAreCounted == Offered \in Nat /\ Pieces \in Nat

opening == vars
planned == <<file, runner, failures, starts, changes>>
crew == <<checkout, step, sprout, kept, mishaps>>
turns == <<loop, todo, told, box, clock>>
call == <<turn, wire, decoder, result, channel, published>>
watch == <<growth, rec, order, tick, said>>
choice == <<setup, cache, fresh, chooser, discoveries>>
context == <<content, hash, syms, assembly, revisions, assembled>>

MCInit ==
    /\ focus \in {"opening", "plan", "crew", "turns", "call", "watch", "choice", "context"}
    /\ Init
    /\ Plan!Init /\ (focus # "plan" => file.mode = "halt")
    /\ Crew!Init /\ (focus # "crew" => step.kind = "plain" /\ checkout.exists = {main})
    /\ Turns!Init
    /\ Call!Init
    /\ focus # "call" => turn.dialect = "openai" /\ ~turn.tools /\ ~turn.streams
    /\ Watch!Init
    /\ Choice!Init
    /\ IF focus = "choice" THEN setup.table[1].provider = local
                           ELSE setup = CHOOSE s \in Choice!Setup : TRUE
    /\ Context!Init /\ (focus # "context" => content = [p \in Files |-> 0])

MCNext ==
    /\ \/ focus = "opening" /\ Next
          /\ UNCHANGED <<planned, crew, turns, call, watch, choice, context>>
       \/ focus = "plan" /\ Plan!Next
          /\ UNCHANGED <<opening, crew, turns, call, watch, choice, context>>
       \/ focus = "crew" /\ Crew!Next
          /\ UNCHANGED <<opening, planned, turns, call, watch, choice, context>>
       \/ focus = "turns" /\ Turns!Next
          /\ UNCHANGED <<opening, planned, crew, call, watch, choice, context>>
       \/ focus = "call" /\ Call!Next
          /\ UNCHANGED <<opening, planned, crew, turns, watch, choice, context>>
       \/ focus = "watch" /\ Watch!Next
          /\ UNCHANGED <<opening, planned, crew, turns, call, choice, context>>
       \/ focus = "choice" /\ Choice!Next
          /\ UNCHANGED <<opening, planned, crew, turns, call, watch, context>>
       \/ focus = "context" /\ Context!Next
          /\ UNCHANGED <<opening, planned, crew, turns, call, watch, choice>>
    /\ UNCHANGED focus

MCSpec ==
    /\ MCInit
    /\ [][MCNext]_<<focus, opening, planned, crew, turns, call, watch, choice, context>>

-----------------------------------------------------------------------------
\* A step runs once its dependencies are complete, those added meanwhile too,
\* no run ends while steps are left because nothing can be run, the file can be
\* resumed from at any moment, and what it calls complete is not run again.
PlanIsFollowed ==
    /\ [](focus = "plan" => /\ Plan!DependenciesFirst
                            /\ Plan!NeverStalls
                            /\ Plan!SavedIsClosed)
    /\ Plan!CompleteIsNotRerun

\* A selection grafts one Sprout at most and nothing that it found unfit, a step
\* reported good has landed, growth keeps its tree and the operator's edits come
\* back, but for a new file that a grafted commit has too.
StepsAreTrue ==
    focus = "crew" =>
        /\ Crew!OnlyTheFitAreGrafted
        /\ Crew!OkHasLanded
        /\ Crew!GrowthKeepsItsTree
        /\ Crew!EditsComeBack

\* The conversation is one the provider accepts, what the container wrote is
\* credited to the mind however its call ended, and a run that a clock cut off
\* between two lines of the agent is never filed as one that broke.
TurnsAreHonest ==
    focus = "turns" =>
        /\ Turns!ConversationIsWellFormed
        /\ Turns!WritesAreCredited
        /\ Turns!CutOffIsNamed

\* A call that the turn acts on has all its arguments, once, in order, and
\* none that the model began is left out; the error of an endpoint that
\* answered is not covered by one that could not be reached.
AnswersAreWhole == focus = "call" => Call!CallsAreWhole /\ Call!AnswerIsReported

\* The constraints are given up in their order: the provider that was named
\* never, tools only when nothing at all drove them, the ceiling on cost only
\* for tools that nothing under it drove, whatever listing arrives meanwhile.
ConstraintsYieldInOrder ==
    focus = "choice" =>
        /\ Choice!NamedIsKept
        /\ Choice!ToolsComeFirst
        /\ Choice!CeilingGivesWayToTools

\* The lines quoted for a symbol are lines of the content quoted, nothing left
\* out for the budget was better than what was taken, and the manifest counts
\* every candidate.
ContextIsSound ==
    focus = "context" =>
        /\ Context!LinesFitTheText
        /\ Context!WithinBudget
        /\ Context!BestFirst
        /\ Context!EveryCandidateIsCounted

\* A watcher reports one silence of its own run once, however long it lasts,
\* and drops no record of a run that still grows to make room for another.
SilenceIsReportedOnce ==
    /\ [](focus = "watch" => Watch!OwnSilenceIsReportedOnce)
    /\ Watch!LiveRecordsAreKept

===============================================================================
