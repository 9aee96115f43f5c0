----------------------------- MODULE ModelStream -----------------------------
(***************************************************************************)
(* One streamed model response on its way through the OpenAI client, which *)
(* maps the provider's events to events of the runtime and fills in what   *)
(* the provider did not stream, and through the attempt state of the turn  *)
(* engine, which makes blocks and tool calls of them.  The provider may be *)
(* any gateway: it sends the events of an item in order and may leave some *)
(* out, or mix those of several items.                                     *)
(***************************************************************************)
EXTENDS Naturals, Sequences, SequencesExt

CONSTANT MsOutputs  \* responses: sequences of items; kind ("text" or "call"), parts (of a text),
                    \* args (of a call): "fit", "unfit" (not restorable) or "broken" (no JSON object)

VARIABLE ms  \* the response, the provider's progress, _ResponsesStreamState, _StreamAttemptState

Progress == {"unseen", "added", "half", "whole", "argsdone", "done"}
Later(phase) ==
    CASE phase = "unseen" -> Progress \ {"unseen"}
      [] phase = "added" -> {"half", "argsdone", "done"}
      [] phase = "half" -> {"whole", "argsdone", "done"}
      [] phase = "whole" -> {"argsdone", "done"}
      [] phase = "argsdone" -> {"done"}
      [] phase = "done" -> {}
Items == 1..Len(ms.output)
IsCall(i) == ms.output[i].kind = "call"
Parts(i) == ms.output[i].parts

\* A content block: text as a sequence of parts, or the call of an item with the items whose
\* arguments its input is made of.
Block(id, text, input) == [id |-> id, text |-> text, input |-> input]
NoBlock == Block(0, <<>>, {})
Call(i) == Block(i, <<>>, {i})

UnknownCall == [known |-> FALSE, args |-> "none", emitted |-> FALSE, closed |-> FALSE]

MsInit == \E o \in MsOutputs :
    ms = [output |-> o, phase |-> [i \in 1..Len(o) |-> "unseen"], texts |-> [i \in 1..Len(o) |-> 0],
          orderly |-> TRUE,
          calls |-> [i \in 1..Len(o) |-> UnknownCall], emitted |-> <<>>, text |-> <<>>,
          blocks |-> <<>>, pending |-> NoBlock, taken |-> <<>>, stop |-> "none", error |-> FALSE,
          stage |-> "open", stops |-> 0, told |-> 0]

----
(* _StreamAttemptState                                                     *)
Event(type, block) == [type |-> type, block |-> block]
TextEvent(part) == Event("text", Block(0, <<part>>, {}))
Started(i) == Event("start", Block(i, <<>>, {}))
Delta(i, input) == Event("delta", Block(i, <<>>, input))
Stopped(i) == Event("stop", NoBlock)

FinalizePending(a) ==
    IF a.pending = NoBlock THEN a
    ELSE [a EXCEPT !.blocks = Append(@, a.pending), !.pending = NoBlock,
                   !.taken = IF a.pending.id # 0 THEN Append(@, a.pending) ELSE @]

StartBlock(a, block) == [FinalizePending(a) EXCEPT !.pending = block]

\* A delta goes to the pending block of its type, whatever its id.
ApplyDelta(a, block) ==
    IF a.pending.id = 0 THEN StartBlock(a, block)
    ELSE [a EXCEPT !.pending.input = @ \cup block.input]

AppendText(a, block) ==
    IF a.pending.text = <<>> THEN StartBlock(a, block)
    ELSE [a EXCEPT !.pending.text = @ \o block.text]

Observe(a, event) ==
    CASE event.type = "start" -> StartBlock(a, event.block)
      [] event.type = "delta" -> ApplyDelta(a, event.block)
      [] event.type = "stop" -> FinalizePending(a)
      [] event.type = "text" -> AppendText(a, event.block)
      [] event.type = "message_stop" -> [FinalizePending(a) EXCEPT !.stops = @ + 1]
      [] event.type = "error" -> [a EXCEPT !.error = TRUE]

Emit(a, events) == FoldLeft(Observe, a, events)

----
(* _map_responses_stream_payload                                           *)
FinalizeText(c) ==
    IF c.text = <<>> THEN c ELSE [c EXCEPT !.emitted = Append(@, Block(0, c.text, {})), !.text = <<>>]

Errors(c) == [Emit(c, <<Event("error", NoBlock)>>) EXCEPT !.stage = "over"]

TextDelta(c, i) ==
    LET part == <<i, c.texts[i] + 1>> IN
    Emit([c EXCEPT !.texts[i] = @ + 1, !.text = Append(@, part)], <<TextEvent(part)>>)

ItemAdded(c, i) ==
    Emit([FinalizeText(c) EXCEPT !.calls[i] = [UnknownCall EXCEPT !.known = TRUE]], <<Started(i)>>)

\* The arguments are a JSON object; what the tool's schema was turned into can be turned back.
IsObject(item) == item.args # "broken"
Restores(item) == item.args # "unfit"
Fits(item) == IsObject(item) /\ Restores(item)

\* Arguments that parse are restored at once; half of them, or no JSON, are passed on as text.
ArgumentsDelta(c, i, args) ==
    IF ~c.calls[i].known THEN c
    ELSE LET heard == [c EXCEPT !.calls[i].args = args] IN
         IF args = "half" \/ ~IsObject(c.output[i]) THEN Emit(heard, <<Delta(i, {})>>)
         ELSE IF ~Restores(c.output[i]) THEN Errors(heard)
         ELSE Emit([heard EXCEPT !.calls[i].emitted = TRUE], <<Delta(i, {i})>>)

Closed(c, i, deltas) ==
    Emit([c EXCEPT !.emitted = Append(@, Call(i)), !.calls[i].closed = TRUE, !.calls[i].emitted = TRUE],
         deltas \o <<Stopped(i)>>)

ArgumentsDone(c, i) ==
    IF ~c.calls[i].known \/ c.calls[i].closed THEN c
    ELSE IF ~Fits(c.output[i]) THEN Errors(c)
    ELSE Closed(c, i, <<Delta(i, {i})>>)

\* An item that was not announced is taken up; what was heard of its arguments goes before
\* what the item says.
ItemDoneAgain(c, i) ==                   \* Mutant: a closed call is closed again.
    IF c.calls[i].args = "half" \/ ~Fits(c.output[i]) THEN Errors(c)
    ELSE Closed([c EXCEPT !.calls[i].known = TRUE], i, <<Delta(i, {i})>>)

ItemDone(c, i) ==
    IF c.calls[i].closed THEN c
    ELSE IF c.calls[i].args = "half" \/ ~Fits(c.output[i]) THEN Errors(c)
    ELSE Closed([c EXCEPT !.calls[i].known = TRUE], i,
                IF c.calls[i].emitted THEN <<>> ELSE <<Delta(i, {i})>>)

\* _parse_responses_payload: the blocks of a complete response.
BlocksOf(items, i) ==
    IF items[i].kind = "call" THEN <<Call(i)>> ELSE [k \in 1..items[i].parts |-> Block(0, <<<<i, k>>>>, {})]
Parsed(items) == FlattenSeq([i \in 1..Len(items) |-> BlocksOf(items, i)])
Parses(items) == \A i \in 1..Len(items) : items[i].kind = "call" => Fits(items[i])
HasCalls(blocks) == \E k \in 1..Len(blocks) : blocks[k].id # 0

\* _missing_stream_blocks: nothing is missing when what was streamed is no prefix.
Observed(c) == IF c.text = <<>> THEN c.emitted ELSE Append(c.emitted, Block(0, c.text, {}))

MissingAll(c, final) == final            \* Mutant: what was streamed is sent again.

Missing(c, final) ==
    IF IsPrefix(Observed(c), final) THEN SubSeq(final, Len(Observed(c)) + 1, Len(final)) ELSE <<>>

Fallback(block) ==
    IF block.id = 0 THEN <<Event("text", block)>>
    ELSE <<Started(block.id), Delta(block.id, block.input), Stopped(block.id)>>

MessageStops(c, final, reason) ==
    LET missing == Missing(c, final)
        fallbacks == FlattenSeq([k \in 1..Len(missing) |-> Fallback(missing[k])]) IN
    [Emit(c, Append(fallbacks, Event("message_stop", NoBlock)))
        EXCEPT !.stop = reason, !.stage = "after"]

\* response.completed: an empty output is made up for by the calls that were streamed.
ReconciledNot(c, items) ==               \* Mutant: it is not.
    MessageStops(c, Parsed(items), IF HasCalls(Parsed(items)) THEN "tool_use" ELSE "end_turn")

Reconciled(c, items) ==
    IF items = <<>> /\ HasCalls(c.emitted) THEN MessageStops(c, c.emitted, "tool_use")
    ELSE MessageStops(c, Parsed(items), IF HasCalls(Parsed(items)) THEN "tool_use" ELSE "end_turn")

Completes(c, items) == IF Parses(items) THEN Reconciled(c, items) ELSE Errors(c)

\* response.incomplete
Incompletes(c, items) ==
    IF ~Parses(items) THEN Errors(c)
    ELSE MessageStops(c, Parsed(items), IF HasCalls(Parsed(items)) THEN "tool_use" ELSE "output_limit")

----
(* The provider                                                            *)
Whole(c, i) == IF IsCall(i) THEN c.calls[i].closed ELSE c.texts[i] = Parts(i)
Begun(c, i) == IF IsCall(i) THEN c.phase[i] # "unseen" ELSE c.texts[i] > 0

\* The events of an item come after those of the items before it and before those of the
\* items after it, and a call is announced.
InOrder(i, phase) ==
    /\ \A j \in Items : j < i => Whole(ms, j)
    /\ \A j \in Items : j > i => ~Begun(ms, j)
    /\ ms.phase[i] = "unseen" => phase = "added"

Send(i, phase, mapped) ==
    /\ ms.stage = "open"
    /\ ms' = [mapped EXCEPT !.phase[i] = phase, !.orderly = @ /\ InOrder(i, phase)]

SendText(i) == ~IsCall(i) /\ ms.texts[i] < Parts(i) /\ Send(i, "added", TextDelta(ms, i))

SendCall(i, phase) ==
    /\ IsCall(i) /\ phase \in Later(ms.phase[i])
    /\ Send(i, phase,
            CASE phase = "added" -> ItemAdded(ms, i)
              [] phase \in {"half", "whole"} -> ArgumentsDelta(ms, i, phase)
              [] phase = "argsdone" -> ArgumentsDone(ms, i)
              [] phase = "done" -> ItemDone(ms, i))

\* The last event; what was begun and not finished is out of order.
Ends(mapped) ==
    /\ ms.stage = "open"
    /\ ms' = [mapped EXCEPT !.orderly = @ /\ \A i \in Items : Begun(ms, i) => Whole(ms, i)]

\* told: how many items its output has, none or all that were begun.
Told(n) == [ms EXCEPT !.told = n]
SendCompleted == \E n \in {0, Len(ms.output)} : Ends(Completes(Told(n), SubSeq(ms.output, 1, n)))
SendIncomplete ==
    \E n \in {0} \cup {k \in Items : \A i \in Items : Begun(ms, i) => i <= k} :
        Ends(Incompletes(Told(n), SubSeq(ms.output, 1, n)))
SendFailed == Ends(Errors(ms))

\* The connection ends, or breaks, before the last event or after it.
StreamEnds == ms.stage \in {"open", "after"} /\ ms' = [ms EXCEPT !.stage = "over"]
StreamBreaks == ms.stage \in {"open", "after"} /\ ms' = Errors(ms)

MsNext ==
    \/ \E i \in Items : SendText(i) \/ \E phase \in Progress : SendCall(i, phase)
    \/ SendCompleted \/ SendIncomplete \/ SendFailed
    \/ StreamEnds \/ StreamBreaks

MsSpec == MsInit /\ [][MsNext]_ms

----
Flat(blocks) ==
    FlattenSeq([k \in 1..Len(blocks) |->
        IF blocks[k].id = 0 THEN blocks[k].text ELSE <<<<blocks[k].id, 0>>>>])

\* Every field has its type.
MsTypeOK ==
    /\ ms.phase \in [Items -> Progress]
    /\ ms.stage \in {"open", "after", "over"}
    /\ ms.stop \in {"none", "tool_use", "end_turn", "output_limit"}
    /\ ms.orderly \in BOOLEAN /\ ms.error \in BOOLEAN

\* From a provider that streams one item after the other, the engine takes every call once and
\* with the arguments of that call (it has one pending block and does not look at the ids).
CallsAreWhole ==
    ms.orderly =>
        \A m, n \in 1..Len(ms.taken) :
            ms.taken[m].input = {ms.taken[m].id} /\ (ms.taken[m].id = ms.taken[n].id => m = n)

TextsApart == \A i \in Items : Parts(i) < 2 /\ (i > 1 => IsCall(i) \/ IsCall(i - 1))

\* When the last event gives the output of such a provider, what the engine has is the
\* output, streamed or filled in, unless parts of a text ran together and items were left out.
GivenIsTaken ==
    (/\ ms.stop # "none" /\ ms.told > 0 /\ ms.orderly
     /\ TextsApart \/ \A i \in Items : Whole(ms, i)) =>
        Flat(ms.blocks) = Flat(Parsed(SubSeq(ms.output, 1, ms.told)))

\* However the events were mixed, a response is stopped once, and one that is completed
\* without an output stops for the calls that were finished.
StopsForCalls ==
    /\ ms.stops <= 1
    /\ (ms.stop \notin {"none", "output_limit"} /\ ms.told = 0) =>
           (ms.stop = "tool_use" <=> \E i \in Items : ms.calls[i].closed)

\* What the runs check of streamed responses.
StreamSafe == MsTypeOK /\ CallsAreWhole /\ GivenIsTaken /\ StopsForCalls
=============================================================================
