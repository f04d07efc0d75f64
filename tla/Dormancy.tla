------------------------------- MODULE Dormancy -------------------------------
(***************************************************************************)
(* The dormancy watchers.  Every run has one of its own, but all listen to *)
(* the one event bus and keep a record of every run they hear of.  A tick  *)
(* probes the workspace of the watcher's own run for each record that is   *)
(* due, decides which silences to report, and reports them outside the     *)
(* lock.  Whether a silence is long for a run is left open: the level of a *)
(* record may rise at any time after its last sign of life.                *)
(***************************************************************************)
EXTENDS Naturals, Sequences, FiniteSets, SequencesExt

CONSTANTS
    Runs,         \* growths; a watcher is named for the run it belongs to
    Watchers,     \* the runs whose watchers are followed
    MaxRetained,  \* records a watcher keeps, 64 in the code
    MaxSigns,     \* bound: signs of life a run publishes
    MaxFiles      \* bound: files a run adds to its workspace

VARIABLES
    run,    \* what each run is doing
    rec,    \* rec[w][r]: what watcher w has retained of run r
    order,  \* the records of a watcher, oldest first
    tick,   \* the tick of each watcher
    said    \* said[w][r]: reports w decided on since the last sign of r

vars == <<run, rec, order, tick, said>>

\* last: a sign of life, or the emergence, has been seen.
NoRecord == [known |-> FALSE, last |-> FALSE, ended |-> FALSE, high |-> FALSE,
             armed |-> TRUE, based |-> FALSE, seen |-> 0]

Idle == [at |-> "idle", left |-> {}]

Init ==
    /\ run = [r \in Runs |-> [at |-> "new", signs |-> 0, files |-> 0]]
    /\ rec = [w \in Watchers |-> [r \in Runs |-> NoRecord]]
    /\ order = [w \in Watchers |-> <<>>]
    /\ tick = [w \in Watchers |-> Idle]
    /\ said = [w \in Watchers |-> [r \in Runs |-> 0]]

-----------------------------------------------------------------------------
\* A watcher hears an event: recordLocked, evictLocked, Observe.

\* Mutant: past the bound the oldest record goes, its run ended or not.
EvictedOldest(R, o) == {i \in DOMAIN o : i <= Len(o) - MaxRetained}
\* Past the bound the oldest records of ended runs go.
Evicted(R, o) ==
    LET Ended == {i \in DOMAIN o : R[o[i]].ended}
    IN  {i \in Ended : Cardinality({j \in Ended : j < i}) < Len(o) - MaxRetained}

\* The record of r afterwards: f of the one there is, or of a new one.
Heard(w, r, f) ==
    LET o == IF rec[w][r].known THEN order[w] ELSE Append(order[w], r)
        R == [rec[w] EXCEPT ![r].known = TRUE]
        gone == IF rec[w][r].known THEN {} ELSE {o[i] : i \in Evicted(R, o)}
    IN  [rec |-> [x \in Runs |-> IF x \in gone THEN NoRecord ELSE IF x = r THEN f ELSE R[x]],
         order |-> SelectSeq(o, LAMBDA x : x \notin gone)]

\* A sign of life ends the silence and arms the report of the next one.
Sign(e) == [e EXCEPT !.known = TRUE, !.last = TRUE, !.high = FALSE, !.armed = TRUE]
Emergence(e) == [e EXCEPT !.known = TRUE, !.last = TRUE]
Inert(e) == [e EXCEPT !.known = TRUE]
Ending(e) == [e EXCEPT !.known = TRUE, !.ended = TRUE]

Subscribed(w) == run[w].at = "watched"
Deliver(r, F(_)) ==
    LET to == {w \in Watchers : Subscribed(w)} IN
      /\ rec' = [w \in Watchers |-> IF w \in to THEN Heard(w, r, F(rec[w][r])).rec ELSE rec[w]]
      /\ order' = [w \in Watchers |-> IF w \in to THEN Heard(w, r, F(rec[w][r])).order ELSE order[w]]

-----------------------------------------------------------------------------
\* The run.  It is announced before its own watcher subscribes, and its
\* watcher is stopped before its end is announced.

Emerge(r) ==
    /\ run[r].at = "new" /\ run' = [run EXCEPT ![r].at = "emerged"]
    /\ Deliver(r, Emergence) /\ UNCHANGED <<tick, said>>
Watch(r) ==
    /\ run[r].at = "emerged" /\ run' = [run EXCEPT ![r].at = "watched"]
    /\ UNCHANGED <<rec, order, tick, said>>
\* A request has begun, a call is repeated, the Stem stops waiting.
Stir(r) ==
    /\ Subscribed(r) /\ Deliver(r, Inert) /\ UNCHANGED <<run, tick, said>>
\* A token of the stream, a call nobody has seen before.
Show(r) ==
    /\ Subscribed(r) /\ run[r].signs < MaxSigns
    /\ run' = [run EXCEPT ![r].signs = @ + 1]
    /\ Deliver(r, Sign) /\ said' = [w \in Watchers |-> [said[w] EXCEPT ![r] = 0]]
    /\ UNCHANGED tick
Write(r) ==
    /\ Subscribed(r) /\ run[r].files < MaxFiles
    /\ run' = [run EXCEPT ![r].files = @ + 1] /\ UNCHANGED <<rec, order, tick, said>>
Detach(r) ==
    /\ Subscribed(r) /\ run' = [run EXCEPT ![r].at = "detached"]
    /\ IF r \in Watchers
       THEN /\ rec' = [rec EXCEPT ![r] = [x \in Runs |-> NoRecord]]
            /\ order' = [order EXCEPT ![r] = <<>>] /\ tick' = [tick EXCEPT ![r] = Idle]
            /\ said' = [said EXCEPT ![r] = [x \in Runs |-> 0]]
       ELSE UNCHANGED <<rec, order, tick, said>>
End(r) ==
    /\ run[r].at = "detached" /\ run' = [run EXCEPT ![r].at = "ended"]
    /\ Deliver(r, Ending) /\ UNCHANGED <<tick, said>>

-----------------------------------------------------------------------------
\* Time: a silence becomes longer than four of the widest the run has shown.
Watched(e) == e.known /\ e.last /\ ~e.ended
Linger(w, r) ==
    /\ Subscribed(w) /\ Watched(rec[w][r]) /\ ~rec[w][r].high
    /\ rec' = [rec EXCEPT ![w][r].high = TRUE] /\ UNCHANGED <<run, order, tick, said>>

\* The tick: sampleScratch, then evaluate.
Tick(w) ==
    /\ Subscribed(w) /\ tick[w].at = "idle"
    /\ tick' = [tick EXCEPT ![w] = [at |-> "probe",
                   left |-> {r \in Runs : rec[w][r].known /\ ~rec[w][r].ended}]]
    /\ UNCHANGED <<run, rec, order, said>>
\* The probe asks about the watcher's own workspace, whatever record it is
\* for; the first answer is a baseline, a failed one changes nothing.
Probe(w, r) ==
    /\ tick[w].at = "probe" /\ r \in tick[w].left
    /\ tick' = [tick EXCEPT ![w].left = @ \ {r}]
    /\ LET e == rec[w][r]  grown == run[w].files > e.seen IN
         \/ rec' = rec /\ said' = said
         \/ /\ e.known
            /\ rec' = [rec EXCEPT ![w][r] =
                 [(IF e.based /\ grown THEN Sign(e) ELSE e)
                      EXCEPT !.based = TRUE, !.seen = run[w].files]]
            /\ said' = IF e.based /\ grown /\ w = r THEN [said EXCEPT ![w][r] = 0] ELSE said
    /\ UNCHANGED <<run, order>>
\* Mutant: a silence that was reported stays armed.
ReportedStillArmed(w, r) == rec[w][r]
Reported(w, r) == [rec[w][r] EXCEPT !.armed = FALSE]
Evaluate(w) ==
    /\ tick[w].at = "probe" /\ tick[w].left = {}
    /\ LET D == {r \in Runs : Watched(rec[w][r]) /\ rec[w][r].high /\ rec[w][r].armed} IN
         /\ tick' = [tick EXCEPT ![w].at = "report"]
         /\ rec' = [rec EXCEPT ![w] = [r \in Runs |-> IF r \in D THEN Reported(w, r) ELSE @[r]]]
         /\ said' = [said EXCEPT ![w] = [r \in Runs |-> IF r \in D /\ @[r] < 2 THEN @[r] + 1
                                                           ELSE @[r]]]
    /\ UNCHANGED <<run, order>>
\* Mutant: the loop ends after the tick that reported something.
RestOnce(w) == /\ tick[w].at = "report" /\ \A r \in Runs : said[w][r] = 0
               /\ tick' = [tick EXCEPT ![w].at = "idle"] /\ UNCHANGED <<run, rec, order, said>>
\* The evidence is captured and the reports are published; a run may show
\* life, or end, between the decision and its report.
Rest(w) ==
    /\ tick[w].at = "report"
    /\ tick' = [tick EXCEPT ![w].at = "idle"] /\ UNCHANGED <<run, rec, order, said>>

Ticking(w) == Tick(w) \/ Evaluate(w) \/ Rest(w) \/ \E r \in Runs : Probe(w, r)
Growing(r) == Emerge(r) \/ Watch(r) \/ Stir(r) \/ Show(r) \/ Write(r) \/ Detach(r) \/ End(r)
Next == \E r \in Runs : Growing(r) \/ \E w \in Watchers : Ticking(w) \/ Linger(w, r)

\* Ticks go on, probes and captures return, and time passes; no run need do
\* anything once it is watched.
Spec ==
    /\ Init /\ [][Next]_vars
    /\ \A w \in Watchers : WF_vars(Watch(w)) /\ WF_vars(Ticking(w))
    /\ \A w \in Watchers, r \in Runs : WF_vars(Linger(w, r))

-----------------------------------------------------------------------------
\* A watcher reports one silence of its own run once, however many ticks the
\* silence lasts and whatever happens while the report is being made.
OwnSilenceIsReportedOnce == \A r \in Watchers : said[r][r] <= 1

\* No record of a run that is still growing is dropped to make room.
LiveRecordsAreKept ==
    [][\A w \in Watchers, r \in Runs :
        rec[w][r].known /\ ~rec[w][r].ended => rec'[w][r].known \/ ~Subscribed(w)']_vars

\* A run that falls silent after a sign of life is reported, or shows life
\* again, or ends.
SilenceIsReported ==
    \A r \in Watchers : (Subscribed(r) /\ rec[r][r].last) ~> (said[r][r] > 0 \/ ~Subscribed(r))

\* Refuted.  A run that never shows life is reported as well: its watcher
\* subscribes after the emergence that would have started its silence.
SilenceFromBirthIsReported ==
    \A r \in Watchers : Subscribed(r) ~> (said[r][r] > 0 \/ ~Subscribed(r))

\* Refuted.  One report is published for a silence: every watcher that has
\* heard of the run publishes one.
OneReportPerSilence ==
    \A r \in Runs : Cardinality({w \in Watchers : said[w][r] > 0}) <= 1

=============================================================================
