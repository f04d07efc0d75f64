------------------------------ MODULE MindCall ------------------------------
(***************************************************************************)
(* One request to a model: the client offers it to the addresses of the    *)
(* provider one after another, decodes the stream of the one that answers  *)
(* and passes its tokens on through a channel, from which a goroutine of   *)
(* the turn publishes them until the channel is closed.                    *)
(***************************************************************************)
EXTENDS Naturals, Sequences, SequencesExt

CONSTANTS
    Addresses,  \* addresses at which the provider may be reached
    Calls,      \* tool calls a model makes in one answer, at most
    Pieces,     \* fragments in which the arguments of a call arrive
    Dialects,   \* the wire protocols spoken, of {"anthropic", "openai"}
    Cuts,       \* a provider reports as complete a call it cut at the output limit
    Buffer,     \* capacity of the channel (100 in the code)
    None

VARIABLES
    turn,       \* where the turn is, and what the call has given it
    wire,       \* what the answering address has sent: text, and pieces of each call
    decoder,    \* the pieces collected of each open call
    result,     \* text, and the calls taken as complete with their pieces
    channel,    \* tokens sent and not yet received, and whether it is closed
    published   \* the publishing goroutine: tokens published, and whether it has ended

vars == <<turn, wire, decoder, result, channel, published>>

Call == 1 .. Calls

Silent == [text |-> 0, pieces |-> [i \in Call |-> 0], done |-> {}]

Nothing == [i \in Call |-> None]

NoResult == [text |-> 0, calls |-> <<>>]

Init ==
    /\ turn \in [at : {"compose"}, dialect : Dialects, tools : BOOLEAN, streams : BOOLEAN,
                 address : {0}, error : {None}, sent : {0}, answered : {FALSE}]
    /\ wire = Silent /\ decoder = Nothing /\ result = NoResult
    /\ channel = [waiting |-> 0, closed |-> FALSE]
    /\ published = [tokens |-> 0, ended |-> FALSE]

-----------------------------------------------------------------------------
(* The end of a call.                                                      *)

\* The channel is closed where the client streamed, and nowhere else.
ClosedAfterStream == [channel EXCEPT !.closed = turn.address > 0]

\* Every return closes the channel.
Closed == [channel EXCEPT !.closed = TRUE]

Return(error, sent) ==
    turn' = [turn EXCEPT !.at = "returned", !.error = error, !.sent = sent]

IsTransport(error) == error = "transport"

PreferFirst(current, new) == IF current = None THEN new ELSE current

\* What an endpoint that answered said is kept rather than a failure to reach one.
Prefer(current, new) ==
    IF current = None \/ (IsTransport(current) /\ ~IsTransport(new)) THEN new ELSE current

\* A rejected request, or an answer with nothing in it, is not offered again.
Final(error) == error \in {"rejected", "empty"}

\* One address has failed: the next one is tried, or the call returns. A new
\* attempt has a decoder and a result of its own.
Failed(error) ==
    LET last == Final(error) \/ turn.address = Addresses
    IN  /\ turn' = [turn EXCEPT !.at = IF last THEN "returned" ELSE "offer",
                                !.error = IF Final(error) THEN error ELSE Prefer(@, error),
                                !.answered = @ \/ ~IsTransport(error)]
        /\ channel' = IF last THEN Closed ELSE channel
        /\ wire' = Silent /\ decoder' = Nothing /\ result' = NoResult

-----------------------------------------------------------------------------
(* The client.                                                             *)

\* No endpoint, model or key: the call returns before any request.
Refuse ==
    /\ turn.at = "compose"
    /\ Return("refused", 0) /\ channel' = Closed
    /\ UNCHANGED <<wire, decoder, result, published>>

Compose ==
    /\ turn.at = "compose"
    /\ turn' = [turn EXCEPT !.at = "offer"]
    /\ UNCHANGED <<wire, decoder, result, channel, published>>

Offer ==
    /\ turn.at = "offer"
    /\ turn' = [turn EXCEPT !.at = "asked", !.address = @ + 1]
    /\ UNCHANGED <<wire, decoder, result, channel, published>>

Unreachable ==
    /\ turn.at = "asked"
    /\ Failed("transport")
    /\ UNCHANGED published

\* A status other than 200; 400 and 422 reject a request that carries tools.
Refused ==
    /\ turn.at = "asked"
    /\ \E error \in {"status"} \cup (IF turn.tools THEN {"rejected"} ELSE {}) : Failed(error)
    /\ UNCHANGED published

Answered ==
    /\ turn.at = "asked"
    /\ turn' = [turn EXCEPT !.at = IF turn.streams THEN "stream" ELSE "body"]
    /\ UNCHANGED <<wire, decoder, result, channel, published>>

\* A body is taken whole; that a provider cut it short is not looked at.
Body ==
    /\ turn.at = "body"
    /\ \/ Failed("unreadable")
       \/ /\ \E n \in 0 .. Calls, last \in IF Cuts THEN 1 .. Pieces ELSE {Pieces} :
                result' = [text |-> 1, calls |-> [i \in 1 .. n |->
                              [index |-> i, pieces |-> IF i = n THEN last ELSE Pieces]]]
          /\ Return(None, 0) /\ channel' = Closed
          /\ UNCHANGED <<wire, decoder>>
    /\ UNCHANGED published

Open == {i \in Call : decoder[i] # None}

\* A text or a fragment is a token; the client waits while the channel is full.
Send == /\ channel.waiting < Buffer
        /\ channel' = [channel EXCEPT !.waiting = @ + 1]
        /\ turn' = [turn EXCEPT !.sent = @ + 1]

Text ==
    /\ turn.at = "stream" /\ wire.text = 0 /\ wire.done = {}
    /\ wire' = [wire EXCEPT !.text = 1]
    /\ result' = [result EXCEPT !.text = @ + 1]
    /\ Send
    /\ UNCHANGED <<decoder, published>>

\* A call begins after the one before it has; Anthropic sends them one by one.
Fragment(i) ==
    /\ turn.at = "stream" /\ i \notin wire.done /\ wire.pieces[i] < Pieces
    /\ i > 1 => IF turn.dialect = "anthropic" THEN i - 1 \in wire.done ELSE wire.pieces[i - 1] > 0
    /\ wire' = [wire EXCEPT !.pieces[i] = @ + 1]
    /\ decoder' = [decoder EXCEPT ![i] = IF @ = None THEN 1 ELSE @ + 1]
    /\ Send
    /\ UNCHANGED <<result, published>>

Whole(i) == wire.pieces[i] = Pieces

Complete(i) == [index |-> i, pieces |-> decoder[i]]

\* content_block_stop
Stop(i) ==
    /\ turn.at = "stream" /\ turn.dialect = "anthropic" /\ i \in Open
    /\ Whole(i) \/ Cuts
    /\ wire' = [wire EXCEPT !.done = @ \cup {i}]
    /\ decoder' = [decoder EXCEPT ![i] = None]
    /\ result' = [result EXCEPT !.calls = Append(@, Complete(i))]
    /\ UNCHANGED <<turn, channel, published>>

\* The indexes of calls in their order.
InOrder(S) ==
    CHOOSE s \in [1 .. Cardinality(S) -> S] : \A i, j \in DOMAIN s : i < j => s[i] < s[j]

\* Whatever the reason, the calls collected are taken as complete.
TakenAnyway(reason) == InOrder(Open)

\* At the output limit the calls collected are left to Finalize.
Taken(reason) == IF reason = "length" THEN <<>> ELSE InOrder(Open)

\* The chunk with a finish_reason.
Finish(reason) ==
    /\ turn.at = "stream" /\ turn.dialect = "openai" /\ Open # {}
    /\ \/ reason = "stop" /\ \A i \in Open : Whole(i) \/ Cuts
       \/ reason = "length" /\ \E i \in Open : ~Whole(i)
    /\ LET taken == Taken(reason)
       IN  /\ result' = [result EXCEPT !.calls = @ \o [k \in DOMAIN taken |-> Complete(taken[k])]]
           /\ decoder' = [i \in Call |-> IF i \in ToSet(taken) THEN None ELSE decoder[i]]
    /\ wire' = [wire EXCEPT !.done = Call]
    /\ UNCHANGED <<turn, channel, published>>

\* The connection fails, or the ten minutes of the HTTP client are over.
Broken ==
    /\ turn.at = "stream"
    /\ Failed("stream")
    /\ UNCHANGED published

\* The stream ends, with or without a last event.
EndOfStream ==
    /\ turn.at = "stream"
    /\ IF Open # {} THEN Failed("truncated")
       ELSE IF result.text = 0 /\ result.calls = <<>> THEN Failed("empty")
       ELSE /\ Return(None, turn.sent) /\ channel' = Closed
            /\ UNCHANGED <<wire, decoder, result>>
    /\ UNCHANGED published

-----------------------------------------------------------------------------
(* The turn.                                                               *)

Publish ==
    /\ channel.waiting > 0
    /\ channel' = [channel EXCEPT !.waiting = @ - 1]
    /\ published' = [published EXCEPT !.tokens = @ + 1]
    /\ UNCHANGED <<turn, wire, decoder, result>>

EndPublishing ==
    /\ channel.closed /\ channel.waiting = 0 /\ ~published.ended
    /\ published' = [published EXCEPT !.ended = TRUE]
    /\ UNCHANGED <<turn, wire, decoder, result, channel>>

\* The turn waits for the publishing goroutine before it looks at the result.
GoOn ==
    /\ turn.at = "returned" /\ published.ended
    /\ turn' = [turn EXCEPT !.at = "acts"]
    /\ UNCHANGED <<wire, decoder, result, channel, published>>

Client ==
    \/ Refuse \/ Compose \/ Offer \/ Unreachable \/ Refused \/ Answered \/ Body
    \/ Text \/ Broken \/ EndOfStream
    \/ \E i \in Call : Fragment(i) \/ Stop(i)
    \/ \E reason \in {"stop", "length"} : Finish(reason)

Next == Client \/ Publish \/ EndPublishing \/ GoOn

\* The goroutines run; a request the provider never answers is given up after
\* ten minutes, so that the client, too, always takes another step.
Behaviour ==
    /\ Init /\ [][Next]_vars
    /\ WF_vars(Client) /\ WF_vars(Publish) /\ WF_vars(EndPublishing) /\ WF_vars(GoOn)

-----------------------------------------------------------------------------
(* Properties.                                                             *)

Succeeded == turn.at \in {"returned", "acts"} /\ turn.error = None

\* However a stream ends, a call is given to the turn only when all of its
\* arguments have arrived, once, in the order of the calls, and none that the
\* model began is left out (Finalize, and the finish reason that leaves the
\* collected calls to it).
CallsAreWhole ==
    Succeeded =>
        /\ \A k \in DOMAIN result.calls : result.calls[k] = [index |-> k, pieces |-> Pieces]
        /\ turn.streams => \A i \in Call : wire.pieces[i] > 0 => i \in DOMAIN result.calls

\* When the request fails everywhere, the error is what an endpoint that
\* answered said, and not that another address could not be reached
\* (preferAttemptError).
AnswerIsReported ==
    turn.at = "acts" /\ turn.answered /\ turn.error # None => ~IsTransport(turn.error)

\* Every call lets the turn go on: the channel is closed on every path, so the
\* goroutine that ranges over it ends (callInternal's deferred close).
TurnGoesOn == <>(turn.at = "acts")

\* The tokens shown are those of the answer the turn acts on.
ShownIsTheAnswer ==
    turn.at = "acts" /\ Succeeded /\ turn.streams =>
        published.tokens = result.text + FoldLeft(LAMBDA n, c : n + c.pieces, 0, result.calls)
=============================================================================
