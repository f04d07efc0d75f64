----------------------------- MODULE SproutTurns -----------------------------
(***************************************************************************)
(* The Sprout's turn loop and the Terrarium it works in.  The loop asks    *)
(* the mind, reads the reply in one of two protocols, and hands each tool  *)
(* call to the agent inside the container over a pipe.  The container is   *)
(* stopped by whoever comes first: the watchdog, a clock of the call, the  *)
(* dormancy capture whose process listing timed out, or the teardown.      *)
(***************************************************************************)
EXTENDS Naturals, Sequences

CONSTANTS
    MaxTurns,    \* bound: sproutMaxIterations, 20 in the code
    MaxCalls     \* bound: tool calls in one reply

\* What a call asks for: a tool that can write, one that cannot, one that is
\* denied, unknown or answered by the Stem itself, one whose arguments do not
\* parse, one without a name.
CallKinds == {"write", "read", "aside", "garbled", "nameless"}
Calls == UNION {[1..n -> CallKinds] : n \in 1..MaxCalls}

VARIABLES
    loop,    \* the loop's own state
    todo,    \* calls of the reply still to be handed over
    told,    \* roles of the messages after the last reply
    box,     \* the Terrarium
    clock    \* the context the work runs on

vars == <<loop, todo, told, box, clock>>

Init ==
    /\ loop = [at |-> "new", turn |-> 0, native |-> TRUE, taught |-> FALSE, slips |-> 0,
               wrote |-> FALSE, seed |-> FALSE, err |-> "none", calls |-> 0]
    /\ todo = <<>> /\ told = <<>>
    /\ box = [pipe |-> "open", by |-> "none", job |-> "none", call |-> "idle", touched |-> FALSE,
              timedOut |-> FALSE, dog |-> "armed", look |-> "idle", stop |-> "no"]
    /\ clock = "live"

-----------------------------------------------------------------------------
\* The two protocols.

\* announceDowngrade: the prose rules are taught and the native client dropped.
Demoted(l) == [l EXCEPT !.native = FALSE, !.taught = TRUE]

\* An endpoint declared incapable is known before the prompt is composed.
Compose ==
    /\ loop.at = "new"
    /\ \E capable \in BOOLEAN, seed \in BOOLEAN :
         loop' = [(IF capable THEN loop ELSE Demoted(loop)) EXCEPT !.at = "ask", !.seed = seed]
    /\ told' = <<"user">> /\ UNCHANGED <<todo, box, clock>>

Ended(l, err) == [l EXCEPT !.at = "ended", !.err = err]
Next1(l) == [l EXCEPT !.turn = @ + 1]

\* The request fails; or the endpoint refuses it with the tools and answers
\* without them: the same turn is put again in prose.
Fails ==
    /\ loop.at = "ask" /\ loop.turn < MaxTurns
    /\ loop' = Ended(loop, "provider")
    /\ todo' = <<>> /\ UNCHANGED <<told, box, clock>>
Rejected ==
    /\ loop.at = "ask" /\ loop.turn < MaxTurns /\ loop.native /\ clock = "live"
    /\ loop' = Demoted(loop)
    /\ UNCHANGED <<todo, told, box, clock>>

Asked == loop.at = "ask" /\ loop.turn < MaxTurns /\ clock = "live" /\ UNCHANGED <<box, clock>>

\* Structured calls; a prose call, which a native mind is demoted for; a
\* final answer.
NativeReply(cs) ==
    /\ Asked /\ loop.native
    /\ loop' = [loop EXCEPT !.at = "tools", !.calls = Len(cs)]
    /\ todo' = cs /\ told' = <<>>
ProseReply(cs) ==
    /\ Asked /\ \A i \in DOMAIN cs : cs[i] # "garbled"
    /\ loop' = [Demoted(loop) EXCEPT !.at = "tools", !.calls = 0, !.slips = 0]
    /\ todo' = cs /\ told' = <<>>
Answer == /\ Asked /\ loop' = Ended(loop, "none") /\ todo' = <<>> /\ told' = <<>>

\* An attempt at a call that cannot be read: once corrected, twice fatal, and
\* fatal at once in a Seed that has already changed its candidate.
Slip ==
    /\ Asked
    /\ loop' = (IF (loop.seed /\ loop.wrote) \/ loop.slips = 1
                THEN Ended(Demoted(loop), "unusable")
                ELSE [Next1(Demoted(loop)) EXCEPT !.slips = 1, !.calls = 0])
    /\ todo' = <<>> /\ told' = <<"user">>

OutOfTurns ==
    /\ loop.at = "ask" /\ loop.turn = MaxTurns
    /\ loop' = Ended(loop, "limit") /\ UNCHANGED <<todo, told, box, clock>>

-----------------------------------------------------------------------------
\* The tool calls of one reply, in order.

Kind == todo[1]
Observed == told' = (IF loop.native THEN Append(told, "tool") ELSE told) /\ todo' = Tail(todo)

\* Mutant: a call whose arguments do not parse gets no observation.
AnsweredHereDropping ==
    /\ loop.at = "tools" /\ todo # <<>> /\ Kind \in {"aside", "garbled"}
    /\ IF Kind = "garbled" THEN told' = told /\ todo' = Tail(todo) ELSE Observed
    /\ UNCHANGED <<loop, box, clock>>
AnsweredHere ==
    /\ loop.at = "tools" /\ todo # <<>> /\ Kind \in {"aside", "garbled"}
    /\ Observed /\ UNCHANGED <<loop, box, clock>>
Nameless ==
    /\ loop.at = "tools" /\ todo # <<>> /\ Kind = "nameless"
    /\ loop' = Ended(loop, "nameless") /\ todo' = <<>> /\ UNCHANGED <<told, box, clock>>

\* A failed write or read of the pipe is the timeout if the watchdog says so.
Pipe == IF box.timedOut THEN "cut" ELSE "broken"

\* The intent to write is recorded before the call, whatever becomes of it.
Credited(l) == [l EXCEPT !.wrote = @ \/ Kind = "write"]
\* Mutant: the write is credited when its answer arrives.
HandOverUncredited ==
    /\ loop.at = "tools" /\ todo # <<>> /\ Kind \in {"read", "write"}
    /\ IF box.pipe = "open"
       THEN /\ loop' = [loop EXCEPT !.at = "calling"]
            /\ box' = [box EXCEPT !.call = "sent", !.job = Kind] /\ todo' = todo
       ELSE loop' = Ended(loop, Pipe) /\ todo' = <<>> /\ box' = box
    /\ UNCHANGED <<told, clock>>
HandOver ==
    /\ loop.at = "tools" /\ todo # <<>> /\ Kind \in {"read", "write"}
    /\ IF box.pipe = "open"
       THEN /\ loop' = [Credited(loop) EXCEPT !.at = "calling"]
            /\ box' = [box EXCEPT !.call = "sent", !.job = Kind] /\ todo' = todo
       ELSE loop' = Ended(Credited(loop), Pipe) /\ todo' = <<>> /\ box' = box
    /\ UNCHANGED <<told, clock>>

Returned ==
    /\ loop.at = "calling" /\ box.call = "answered"
    /\ loop' = [Credited(loop) EXCEPT !.at = "tools"]
    /\ box' = [box EXCEPT !.call = "idle", !.job = "none"]
    /\ Observed /\ UNCHANGED clock
\* readResponseLine hands out what there is of a line without an error, and
\* what does not decode is not asked about the watchdog.
PipeBroke ==
    /\ loop.at = "calling" /\ box.call # "answered" /\ box.pipe # "open"
    /\ loop' = Ended(loop, IF box.call = "begun" THEN "undecodable" ELSE Pipe)
    /\ todo' = <<>> /\ UNCHANGED <<told, box, clock>>
\* The call's context ends: a deadline stops the Terrarium before the call
\* returns, a cancellation leaves it as it is.  Either is what the run is
\* filed by, whatever its last call reports.
CalledOff ==
    /\ loop.at = "calling" /\ clock = "cancelled"
    /\ loop' = Ended(loop, "cancelled") /\ todo' = <<>> /\ UNCHANGED <<told, box, clock>>
CallTimesOut ==
    /\ loop.at = "calling" /\ clock = "expired" /\ ~box.timedOut
    /\ box' = [box EXCEPT !.timedOut = TRUE] /\ UNCHANGED <<loop, todo, told, clock>>
CutOff ==
    /\ loop.at = "calling" /\ clock = "expired" /\ box.timedOut /\ box.stop = "done"
    /\ loop' = Ended(loop, "cut") /\ todo' = <<>> /\ UNCHANGED <<told, box, clock>>

Observations ==
    /\ loop.at = "tools" /\ todo = <<>>
    /\ loop' = [Next1(loop) EXCEPT !.at = "ask"]
    /\ told' = (IF loop.native THEN told ELSE <<"user">>)
    /\ UNCHANGED <<todo, box, clock>>

\* attributeSproutEnding, with the timeout a cut-off call reports itself.
Ending == IF loop.err = "none" THEN "finished"
          ELSE IF clock = "expired" \/ loop.err = "cut" THEN "timed out"
          ELSE IF clock = "cancelled" THEN "cancelled" ELSE "failed"

-----------------------------------------------------------------------------
\* The agent in the container: it acts, then prints one line, which may be on
\* its way in part when the pipe is shut.

Alive == box.stop # "done" /\ box.by # "self"
Act == /\ Alive /\ box.call = "sent" /\ box.job = "write" /\ ~box.touched
       /\ box' = [box EXCEPT !.touched = TRUE] /\ UNCHANGED <<loop, todo, told, clock>>
PrintLine == /\ Alive /\ box.pipe = "open" /\ box.call \in {"sent", "begun"}
             /\ (box.job = "write" => box.touched)
             /\ \E whole \in BOOLEAN :
                  box' = [box EXCEPT !.call = IF whole THEN "answered" ELSE "begun"]
             /\ UNCHANGED <<loop, todo, told, clock>>
Closed(b, who) == [b EXCEPT !.pipe = "shut", !.by = IF b.pipe = "open" THEN who ELSE @]
Dies == /\ Alive /\ box.pipe = "open" /\ loop.at # "ended"
        /\ box' = Closed(box, "self") /\ UNCHANGED <<loop, todo, told, clock>>

\* The work's context: the reaper or a deadline, or a cancellation.  The
\* docker client dies with it; the container does not.
Expire == /\ clock = "live" /\ loop.at # "ended" /\ clock' \in {"expired", "cancelled"}
          /\ UNCHANGED <<loop, todo, told, box>>
ClientDies == /\ clock # "live" /\ box.pipe = "open"
              /\ box' = Closed(box, "clock") /\ UNCHANGED <<loop, todo, told, clock>>

\* Stop, once, whoever calls it: the watchdog is cancelled and stdin closed.
Stopping(b, who) == IF b.stop # "no" THEN b
                    ELSE [Closed(b, who) EXCEPT !.stop = "busy",
                              !.dog = IF @ = "armed" THEN "off" ELSE @]
StopEnds == /\ box.stop = "busy" /\ box' = [box EXCEPT !.stop = "done"]
            /\ UNCHANGED <<loop, todo, told, clock>>

\* stopAfterTimeout: the flag is visible before the kill lands.
\* Mutant: the kill does not say that it was one.
FlagForgotten(b) == b
Flag(b) == [b EXCEPT !.timedOut = TRUE]
\* Mutant: the watchdog takes the lock that a call holds.
BiteLocked == /\ box.dog = "armed" /\ loop.at # "calling" /\ box' = [Flag(box) EXCEPT !.dog = "bites"]
              /\ UNCHANGED <<loop, todo, told, clock>>
Bite == /\ box.dog = "armed" /\ box' = [Flag(box) EXCEPT !.dog = "bites"]
        /\ UNCHANGED <<loop, todo, told, clock>>
Bitten == /\ box.dog = "bites"
          /\ box' = [Stopping(box, "timer") EXCEPT !.dog = "off"]
          /\ UNCHANGED <<loop, todo, told, clock>>
CallStops == /\ loop.at = "calling" /\ clock = "expired" /\ box.timedOut /\ box.stop = "no"
             /\ box' = Stopping(box, "timer") /\ UNCHANGED <<loop, todo, told, clock>>

\* The dormancy capture lists the container's processes; a listing that times
\* out stops the Terrarium like any command that does.
Look == /\ box.look = "idle" /\ box.stop = "no"
        /\ \E late \in BOOLEAN : box' = [box EXCEPT !.look = IF late THEN "late" ELSE "taken"]
        /\ UNCHANGED <<loop, todo, told, clock>>
LookStops == /\ box.look = "late"
             /\ box' = [Stopping(Flag(box), "observer") EXCEPT !.look = "taken"]
             /\ UNCHANGED <<loop, todo, told, clock>>

\* The post-mortem, then the teardown.
Measure == /\ loop.at = "ended" /\ loop' = [loop EXCEPT !.at = "measured"]
           /\ UNCHANGED <<todo, told, box, clock>>
Close == /\ loop.at = "measured" /\ box.stop = "no" /\ box' = Stopping(box, "close")
         /\ UNCHANGED <<loop, todo, told, clock>>

Speak == \/ Compose \/ Fails \/ Rejected \/ Answer \/ Slip \/ OutOfTurns
         \/ \E cs \in Calls : NativeReply(cs) \/ ProseReply(cs)
Tools == \/ AnsweredHere \/ Nameless \/ HandOver \/ Returned \/ PipeBroke \/ CalledOff
         \/ CallTimesOut \/ CallStops \/ CutOff \/ Observations
Kill == Bite \/ Bitten \/ LookStops \/ StopEnds \/ ClientDies
Next == Speak \/ Tools \/ Act \/ PrintLine \/ Dies \/ Expire \/ Look \/ Kill \/ Measure \/ Close

\* The loop's own steps, the watchdog and the stop; never the mind's protocol,
\* the agent or the clocks, which may do as they like.
Spec == Init /\ [][Next]_vars /\ WF_vars(Speak) /\ WF_vars(Tools) /\ WF_vars(Kill)
             /\ WF_vars(Measure) /\ WF_vars(Close)

-----------------------------------------------------------------------------
\* Every structured call is answered in its own message before the mind is
\* asked again, and the prompt teaches the protocol the parser expects.
ConversationIsWellFormed ==
    loop.at = "ask" =>
        /\ told = IF loop.calls > 0 THEN [i \in 1..loop.calls |-> "tool"]
                  ELSE <<"user">>
        /\ loop.native = ~loop.taught

\* What the container did to the workspace is credited to the mind, however
\* the call that did it ended.
WritesAreCredited == box.touched => loop.wrote

\* A run is filed as broken, or as one whose agent could not be understood,
\* only if the agent broke it: unless the clock's cut fell inside a line.
CutOffIsNamed ==
    loop.err \in {"broken", "undecodable"} /\ Ending = "failed" /\ box.by \notin {"none", "self"}
        => loop.err = "undecodable" /\ box.call = "begun"

\* The loop ends and the container is stopped, whatever mind and agent do.
TurnsEnd == <>(box.stop = "done" /\ loop.at = "measured")

\* Refuted.  The dormancy capture stops no Terrarium.
ObservationEndsNothing == box.by # "observer"

\* Refuted.  A kill by the watchdog is never dressed as a decode failure.
KillIsNeverUndecodable == Ending = "failed" /\ loop.err = "undecodable" => box.by = "self"

\* Refuted.  The post-mortem measures a tree nobody writes to any more.
MeasuredTreeIsStill == [][loop.at = "measured" => box'.touched = box.touched]_vars

=============================================================================
