-------------------------------- MODULE MCStem --------------------------------
(* What a Stem keeps to and keeps: its schedules, beside them the search for a *)
(* fire time, a session, and the registry of Substrates.  A behaviour has its  *)
(* focus on one of them and the others rest; the registry has two, on commands *)
(* that overlap and on a growth that one command crosses.                      *)
EXTENDS Scheduler, Integers, TLC
CONSTANTS Zones, Starts,
          c1, c2, u1,                       \* callers, and what one sends
          a, b, url1, url2, secret, g1,     \* Substrates, profiles, a growth
          NoName, NoDoc, Broken
VARIABLES
    focus,
    cron, zone, after, t, scan,
    cache, store, log, asked, life, saved, logged, refused, mishaps,
    legacy, registry, grants, cmd, stem, growth, edits, begun

\* Parts of an expression: "*", "*/2" and v.
Every == [star |-> TRUE, lo |-> 0, hi |-> 0, step |-> 1]
Other == [star |-> TRUE, lo |-> 0, hi |-> 0, step |-> 2]
At1(v) == [star |-> FALSE, lo |-> v, hi |-> v, step |-> 1]
\* The fourth day of a month of three never comes; weekday 2 is weekday 0; the
\* last hour is an empty range, and refused.
MCSpecs == [minute : {{Every}, {At1(1)}},
            hour   : {{Every}, {At1(2)}, {At1(3), Other}, {[At1(2) EXCEPT !.hi = 1]}},
            dom    : {{Every}, {At1(2)}, {At1(4)}},
            month  : {{Every}, {At1(2)}},
            dow    : {{Every}, {At1(1)}, {At1(2)}}]

Clock == INSTANCE Cron WITH
    MinutesPerHour <- 2, HoursPerDay <- 4, DaysPerWeek <- 2, DaysPerMonth <- 3,
    MonthsPerYear <- 2, ScanYears <- 2, Specs <- MCSpecs

Session == INSTANCE SessionManager WITH
    Caller <- {c1, c2}, Update <- {u1},
    Failing <- {"load", "save", "append", "delete"}, request <- asked
Substrates == INSTANCE Registry WITH
    Name <- {a, b}, Url <- {url1, url2}, Key <- {secret}, Default <- b,
    Command <- {c1, c2}, Growth <- {g1}, None <- NoName,
    MaxCommands <- 2, MaxEdits <- 1, file <- registry
Crossed == INSTANCE Registry WITH
    Name <- {a, b}, Url <- {url1, url2}, Key <- {secret}, Default <- b,
    Command <- {c1, c2}, Growth <- {g1}, None <- NoName,
    MaxCommands <- 1, MaxEdits <- 1, file <- registry

\* Zones that never change, and two that lose an hour, not the first of a day:
\* one west, one east.
MCZones == {[before |-> 0, after |-> 0, change |-> 0],
            [before |-> 2, after |-> 2, change |-> 0],
            [before |-> -2, after |-> 0, change |-> 70],
            [before |-> 2, after |-> 4, change |-> 66]}
\* A zone west of UTC that repeats an hour.
MCFallBack == {[before |-> -2, after |-> -4, change |-> 70]}
MCStarts   == {40 + 3 * k : k \in 0 .. 12}
MCStart    == {65}
ASSUME /\ Clock!CronAssumption
       /\ Session!FailingAssumption /\ Session!AbsentAssumption

clock == <<cron, zone, after, t, scan>>
session == <<cache, store, log, asked, life, saved, logged, refused, mishaps>>
substrates == <<legacy, registry, grants, cmd, stem, growth, edits, begun>>

MCInit ==
    /\ focus \in {"runs", "clock", "session", "substrates", "growths"}
    /\ IF focus = "clock" THEN Clock!Init
       ELSE cron = Absent /\ zone = Absent /\ after = 0 /\ t = 0 /\ scan = Absent
    /\ Init /\ (focus # "runs" => file.says = [n \in Name |-> Absent] /\ entries = file.says)
    /\ Session!Init
    /\ Substrates!Init /\ (focus \notin {"substrates", "growths"} => legacy = NoDoc)
MCNext ==
    /\ \/ focus = "runs" /\ Next /\ UNCHANGED <<clock, session, substrates>>
       \/ focus = "clock" /\ Clock!Next /\ UNCHANGED <<vars, session, substrates>>
       \/ focus = "session" /\ Session!Next /\ UNCHANGED <<vars, clock, substrates>>
       \/ focus = "substrates" /\ Substrates!Changes /\ UNCHANGED <<vars, clock, session>>
       \/ focus = "growths" /\ Crossed!Next /\ UNCHANGED <<vars, clock, session>>
    /\ UNCHANGED focus
MCPlain == MCInit /\ [][MCNext]_<<focus, vars, clock, session, substrates>>
MCClockSpec == MCPlain /\ focus = "clock"

\* The fairness of Scheduler; nothing is assumed of the clock.
Runs(A) == focus = "runs" /\ A
MCSpec ==
    /\ MCPlain
    /\ WF_vars(Runs(Tick \/ Load \/ EndTick \/ \E n \in Name : Fire(n)))
    /\ SF_vars(Runs(Stop))
    /\ \A w \in Worker : WF_vars(Runs(Attempt(w) \/ Backoff(w) \/ Release(w)))

-----------------------------------------------------------------------------
\* "Next returns the first fire time strictly after the given instant", and
\* every turn of its loop looks at a later one.
SearchEnds == focus = "clock" => Clock!SearchAdvances
\* An edit of the file under a running scheduler is in force after a tick, and
\* shutdown waits for the runs there are and no longer; the fire time computed
\* from an expression is the first that matches, and the search for it ends.
SchedulesAreKept ==
    /\ EditIsPickedUp /\ ShutdownDrains
    /\ [](focus = "clock" => Clock!FireTimeIsTheFirst /\ Clock!SearchAdvances)

\* An acknowledged preference is lost only to overlapping requests or a failing
\* load, a pruned session comes back only through a request that overlapped, and
\* a cached session is never replaced by an older copy.
SessionIsDurableAlone ==
    /\ [](focus = "session" => Session!SavedIsDurableAlone /\ Session!PrunedStaysPrunedAlone)
    /\ Session!LiveEntryWins

\* A Substrate in the registry can be resolved whatever the commands did, and a
\* command changes no Substrate that it does not name but back to what it read.
RegistryIsKept ==
    /\ [](focus \in {"substrates", "growths"} => Substrates!ProfilesResolve)
    /\ Substrates!OthersAreKept

===============================================================================
