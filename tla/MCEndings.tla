------------------------------ MODULE MCEndings ------------------------------
(* What must come to an end: the growth of a Seed, its opening, a silence, a  *)
(* sequence, a step, a run, the turns of a mind, a call in one of them.  A    *)
(* behaviour has its focus on one of the eight and the others rest; each is   *)
(* fair as its module says, while it has the focus.  The bounds are smaller   *)
(* than where the same modules are asked for safety.                          *)
EXTENDS Naturals, Sequences, FiniteSets, TLC
CONSTANTS local, key, intent,                \* a Pollen, its key, its intent
          serve, mcp,                        \* Stem processes over one history
          id1, d1, d2, q1, q2, q3, Absent,   \* openings
          plan, check, land, x1, x2,         \* steps of a file, and spare ones
          r1, r2, s1, s2, lone, abroad, past, main,   \* runs; branches and commits
          None
VARIABLES
    focus,
    seeds, continuations, up, growth, asking, quarantine, sent, probed, acked, faults,
    rows, phytomers, running, request, growing, launches, answers, stranded, losses,
    watched, rec, order, tick, said,
    file, runner, failures, starts, changes,
    checkout, step, sprout, kept, mishaps,
    host, run, written, alone, errors, crashes,
    loop, todo, told, box, clock,
    turn, wire, decoder, result, channel, published

Seed == INSTANCE SeedGrowth WITH
    Phytomer <- {q1}, Pollen <- {local}, Key <- {key}, Intent <- {intent},
    Process <- {serve, mcp}, MaxIterations <- 1, MaxFaults <- 1
Opening == INSTANCE SeedOpening WITH
    Process <- {serve, mcp}, Identity <- {id1}, Digest <- {d1, d2},
    Phytomer <- {q1, q2, q3}, MaxFaults <- 1, up <- running, faults <- losses
Watch == INSTANCE Dormancy WITH
    Runs <- {r1, r2}, Watchers <- {r1}, MaxRetained <- 1, MaxSigns <- 1,
    MaxFiles <- 1, run <- watched
Plan == INSTANCE Sequence WITH
    Runner <- {r1}, Authored <- <<plan, check, land>>, Spare <- {x1, x2},
    After <- (plan :> {}) @@ (check :> {plan}) @@ (land :> {plan, check}),
    Verifier <- {check}, Meristem <- {plan}, Wants <- {{plan}, {check}},
    Modes <- {"halt", "retry", "pause"}, Limit <- 2, MaxRetries <- 1,
    DebuggerLimit <- 1, MaxFaults <- 1, MaxStarts <- 2, MaxEdits <- 0,
    run <- runner, faults <- failures, edits <- changes
Crew == INSTANCE StepRun WITH
    Run <- {s1, s2, lone, abroad, past}, Main <- main, Edit <- {}, Clashes <- {},
    Lone <- lone, Elsewhere <- abroad, Past <- past, MaxFaults <- 1,
    host <- checkout, written <- kept, faults <- mishaps
Growth == INSTANCE SproutRun WITH
    Run <- {r1, r2}, Main <- main, Edit <- {}, Clashes <- {}, Candidates <- {{}, {r2}},
    Awaiting <- {TRUE, FALSE}, MaxFaults <- 1, MaxCrashes <- 0, faults <- errors
Turns == INSTANCE SproutTurns WITH MaxTurns <- 2, MaxCalls <- 1
Call == INSTANCE MindCall WITH
    Addresses <- 2, Calls <- 2, Pieces <- 2, Dialects <- {"anthropic", "openai"},
    Cuts <- FALSE, Buffer <- 2

seed == <<seeds, continuations, up, growth, asking, quarantine, sent, probed, acked,
          faults>>
opening == <<rows, phytomers, running, request, growing, launches, answers, stranded,
             losses>>
watch == <<watched, rec, order, tick, said>>
planned == <<file, runner, failures, starts, changes>>
crew == <<checkout, step, sprout, kept, mishaps>>
grown == <<host, run, written, alone, errors, crashes>>
turns == <<loop, todo, told, box, clock>>
call == <<turn, wire, decoder, result, channel, published>>

MCInit ==
    /\ focus \in {"seed", "opening", "watch", "plan", "crew", "growth", "turns", "call"}
    /\ Seed!Init /\ Opening!Init /\ Watch!Init
    /\ Plan!Init /\ Crew!Init /\ Growth!Init /\ Turns!Init /\ Call!Init
    /\ focus # "plan" => file.mode = "halt"
    /\ focus # "crew" => step.kind = "plain" /\ checkout.exists = {main}
    /\ focus # "growth" => run[r2].kind = "sprout"
    /\ focus # "call" => turn.dialect = "openai" /\ ~turn.tools /\ ~turn.streams

MCNext ==
    /\ \/ /\ focus = "seed" /\ Seed!Next
          /\ UNCHANGED <<opening, watch, planned, crew, grown, turns, call>>
       \/ /\ focus = "opening" /\ Opening!Next
          /\ UNCHANGED <<seed, watch, planned, crew, grown, turns, call>>
       \/ /\ focus = "watch" /\ Watch!Next
          /\ UNCHANGED <<seed, opening, planned, crew, grown, turns, call>>
       \/ /\ focus = "plan" /\ Plan!Next
          /\ UNCHANGED <<seed, opening, watch, crew, grown, turns, call>>
       \/ /\ focus = "crew" /\ Crew!Next
          /\ UNCHANGED <<seed, opening, watch, planned, grown, turns, call>>
       \/ /\ focus = "growth" /\ Growth!Next
          /\ UNCHANGED <<seed, opening, watch, planned, crew, turns, call>>
       \/ /\ focus = "turns" /\ Turns!Next
          /\ UNCHANGED <<seed, opening, watch, planned, crew, grown, call>>
       \/ /\ focus = "call" /\ Call!Next
          /\ UNCHANGED <<seed, opening, watch, planned, crew, grown, turns>>
    /\ UNCHANGED focus

\* What each of the modules is given as its fairness.
MCFairness ==
    /\ WF_seed(focus = "seed" /\ Seed!Grow(q1))
    /\ \A s \in {serve, mcp} :
         /\ WF_seed(focus = "seed" /\ \E r \in Seed!Request : Seed!Answer(s, r))
         /\ WF_seed(focus = "seed" /\ Seed!Boot(s))
         /\ WF_opening(focus = "opening" /\ Opening!Serve(s))
         /\ WF_opening(focus = "opening" /\ \E p \in {q1, q2, q3} : Opening!EndGrowth(s, p))
         /\ WF_opening(focus = "opening" /\ Opening!Boot(s))
    /\ WF_watch(focus = "watch" /\ Watch!Watch(r1))
    /\ WF_watch(focus = "watch" /\ Watch!Ticking(r1))
    /\ \A r \in {r1, r2} : WF_watch(focus = "watch" /\ Watch!Linger(r1, r))
    /\ WF_planned(focus = "plan" /\ Plan!Advance(r1))
    /\ \A r \in {s1, s2, lone, abroad} : WF_crew(focus = "crew" /\ Crew!Grow(r))
    /\ WF_crew(focus = "crew" /\ Crew!Judge) /\ WF_crew(focus = "crew" /\ Crew!LoneSteps)
    /\ \A r \in {r1, r2} : WF_grown(focus = "growth" /\ Growth!Proceed(r))
    /\ WF_turns(focus = "turns" /\ Turns!Speak) /\ WF_turns(focus = "turns" /\ Turns!Tools)
    /\ WF_turns(focus = "turns" /\ Turns!Kill) /\ WF_turns(focus = "turns" /\ Turns!Measure)
    /\ WF_turns(focus = "turns" /\ Turns!Close)
    /\ WF_call(focus = "call" /\ Call!Client) /\ WF_call(focus = "call" /\ Call!Publish)
    /\ WF_call(focus = "call" /\ Call!EndPublishing) /\ WF_call(focus = "call" /\ Call!GoOn)

MCSpec ==
    /\ MCInit
    /\ [][MCNext]_<<focus, seed, opening, watch, planned, crew, grown, turns, call>>
    /\ MCFairness

-----------------------------------------------------------------------------
Ends(r) == run[r].event # "none" \/ run[r].phase = "dead"

Begun ==
    \/ focus = "seed" /\ Seed!Ledger!Active(q1)
    \/ focus = "opening" /\ Opening!HasStatus(id1, "running")
    \/ focus = "watch" /\ Watch!Subscribed(r1) /\ rec[r1][r1].last
    \/ focus = "plan" /\ runner[r1].pc = "loop"
    \/ focus = "crew" /\ step.phase = "growing"
    \/ focus = "growth" /\ \E r \in {r1, r2} : Growth!UnderWay(r) /\ ~Ends(r)
    \/ focus \in {"turns", "call"}

Ended ==
    \/ focus = "seed" /\ (seeds[q1].status = "settled" \/ Seed!Quarantined(q1))
    \/ focus = "opening" /\ (Opening!HasStatus(id1, "settled") \/ id1 \in stranded)
    \/ focus = "watch" /\ (said[r1][r1] > 0 \/ ~Watch!Subscribed(r1))
    \/ focus = "plan" /\ runner[r1].pc # "loop"
    \/ focus = "crew" /\ Crew!Quiet /\ checkout.trees = {}
    \/ focus = "growth" /\ \A r \in {r1, r2} : Growth!UnderWay(r) => Ends(r)
    \/ focus = "turns" /\ box.stop = "done" /\ loop.at = "measured"
    \/ focus = "call" /\ turn.at = "acts"

\* Every opened Seed is settled, unless its accounting failed; every durable
\* opening is grown or settled by a restart, unless a storage failure strands
\* it; a silence is reported; a sequence ends or waits for the operator; a step
\* returns and the Sprouts it left behind end; a run has its terminal event;
\* the loop of a mind ends with its container stopped, and so does each call.
WhatBeginsEnds == Begun ~> Ended

===============================================================================
