----------------------------- MODULE ChatToResp -----------------------------
(***************************************************************************)
(* translate.ChatToRespState: chat chunks of the upstream become events    *)
(* for a Responses client.                                                 *)
(*                                                                         *)
(* Texts are sequences of fragments.  An operator takes and returns the    *)
(* pair of the accumulator and the events a call has emitted so far; the   *)
(* sequence number of an event is its place in the stream.  Events that    *)
(* are always emitted together are one here: created (with in_progress),   *)
(* open (output_item.added with the part), close (the texts' done events   *)
(* with output_item.done).                                                 *)
(***************************************************************************)
EXTENDS Integers, FiniteSets, Sequences, SequencesExt

CONSTANTS
    ChoiceIds,      \* indices of choices
    CallSlots     \* indices of tool calls

\* The keys of the maps of one stream: ints, as many as the stream names.
ASSUME IndicesAssumption ==
    /\ ChoiceIds \in SUBSET Int /\ IsFiniteSet(ChoiceIds)
    /\ CallSlots \in SUBSET Int /\ IsFiniteSet(CallSlots)

\* One entry of delta.tool_calls: its slot, whether it has an id, its name
\* or "", its arguments.
\* A chunk: a delta of the first choice.  content is cut at its marks:
\*   opens   it has a <think>, which is removed
\*   head    the text ahead of </think>, all of the text if there is none
\*   closes  it has a </think>
\*   tail    the text after it
\* Any other kind of message has no choices.
NoContent == [opens |-> FALSE, head |-> <<>>, closes |-> FALSE, tail |-> <<>>]

NewChatToResp ==
    [started   |-> FALSE,
     thinking  |-> FALSE,
     reasoning |-> [at |-> <<>>, done |-> FALSE, buf |-> <<>>],
     msg       |-> [i \in ChoiceIds |-> [added |-> FALSE, done |-> FALSE, buf |-> <<>>]],
     func      |-> [i \in CallSlots |-> [id |-> FALSE, name |-> "", args |-> <<>>,
                                         added |-> FALSE, done |-> FALSE]],
     completed |-> FALSE]

Emit(w, type, item, text) ==
    [w EXCEPT !.out = Append(@, [type |-> type, item |-> item, text |-> text])]

-----------------------------------------------------------------------------
(* Reasoning.  An item that was never started has no index. *)

ReasoningItem(w) == <<"reasoning">> \o w.st.reasoning.at

startReasoning(w, idx) ==
    IF w.st.reasoning.at # <<>> THEN w
    ELSE Emit([w EXCEPT !.st.reasoning.at = <<idx>>], "open", <<"reasoning", idx>>, <<>>)

emitReasoningDelta(w, text) ==
    IF text = <<>> THEN w
    ELSE Emit([w EXCEPT !.st.reasoning.buf = @ \o text], "delta", ReasoningItem(w), text)

closeReasoning(w) ==
    IF w.st.reasoning.at = <<>> \/ w.st.reasoning.done THEN w
    ELSE Emit([w EXCEPT !.st.reasoning.done = TRUE], "close", ReasoningItem(w), w.st.reasoning.buf)

-----------------------------------------------------------------------------
(* Messages, one per choice. *)

emitTextContent(w, idx, text) ==
    LET item == <<"message", idx>>
        opened == IF w.st.msg[idx].added THEN w
                  ELSE Emit([w EXCEPT !.st.msg[idx].added = TRUE], "open", item, <<>>)
    IN Emit([opened EXCEPT !.st.msg[idx].buf = @ \o text], "delta", item, text)

closeMessage(w, idx) ==
    IF ~w.st.msg[idx].added \/ w.st.msg[idx].done THEN w
    ELSE Emit([w EXCEPT !.st.msg[idx].done = TRUE], "close", <<"message", idx>>, w.st.msg[idx].buf)

-----------------------------------------------------------------------------
(* Tool calls.  A custom tool's input is held back until the call closes.  *)

isCustomTool(name) == name = "custom"

NoArguments == <<<<"{}">>>>

\* The JSON object that chat puts around a custom tool's input: one fragment
\* ahead of the input, one behind it.
Wrapped(args) ==
    /\ Len(args) >= 2
    /\ \A i \in DOMAIN args : (args[i][2] = "{input:" <=> i = 1) /\ (args[i][2] = "}" <=> i = Len(args))

\* What does not parse as the object stays as it is.
extractCustomToolInput(args) == IF Wrapped(args) THEN SubSeq(args, 2, Len(args) - 1) ELSE args

\* Whether a piece of arguments is told at once.
Streams_CustomToo(f, tc) == tc.args # <<>> /\ f.added

Streams(f, tc) == tc.args # <<>> /\ f.added /\ ~isCustomTool(f.name)

\* The call is announced when both its id and its name are known.
emitToolCall(w, tc) ==
    LET f == w.st.func[tc.slot]
        known == [f EXCEPT !.id = @ \/ tc.id, !.name = IF tc.name = "" THEN @ ELSE tc.name, !.args = @ \o tc.args]
        item == <<"call", tc.slot>>
        announced == [known EXCEPT !.added = @ \/ (known.id /\ known.name # "")]
        w1 == [w EXCEPT !.st.func[tc.slot] = announced]
        w2 == IF announced.added /\ ~f.added THEN Emit(w1, "open", item, <<>>) ELSE w1
    IN IF Streams(announced, tc) THEN Emit(w2, "delta", item, tc.args) ELSE w2

\* What a call is closed with.
FinalText(name, args) ==
    LET given == IF args = <<>> THEN NoArguments ELSE args
    IN IF isCustomTool(name) THEN extractCustomToolInput(given) ELSE given

\* A call is closed if it has an id, announced or not.
closeToolCall(w, slot) ==
    LET f == w.st.func[slot]
        text == FinalText(f.name, f.args)
        w1 == IF isCustomTool(f.name) THEN Emit(w, "delta", <<"call", slot>>, text) ELSE w
    IN IF ~f.id \/ f.done THEN w
       ELSE Emit([w1 EXCEPT !.st.func[slot].done = TRUE], "close", <<"call", slot>>, text)

-----------------------------------------------------------------------------
(* The end of the response. *)

sendCompleted(w) ==
    IF w.st.completed THEN w
    ELSE Emit([w EXCEPT !.st.completed = TRUE], "completed", <<>>, <<>>)

Ascending(S) ==
    CHOOSE s \in [1 .. Cardinality(S) -> S] : \A i, j \in DOMAIN s : i < j => s[i] < s[j]

\* Messages, the reasoning, the calls, each kind in ascending order.
CloseAll_NoCalls(w) ==
    sendCompleted(closeReasoning(FoldLeft(closeMessage, w, Ascending(ChoiceIds))))

CloseAll(w) ==
    LET texts == closeReasoning(FoldLeft(closeMessage, w, Ascending(ChoiceIds)))
    IN sendCompleted(FoldLeft(closeToolCall, texts, Ascending(CallSlots)))

flushEvents(s) ==
    LET w == [st |-> s, out |-> <<>>] IN IF s.completed THEN w ELSE CloseAll(w)

-----------------------------------------------------------------------------
(* One chunk. *)

scaffold(w) ==
    IF w.st.started THEN w ELSE Emit([w EXCEPT !.st.started = TRUE], "created", <<>>, <<>>)

ReasoningField(w, c) ==
    IF c.reasoning = <<>> THEN w
    ELSE emitReasoningDelta(startReasoning(w, c.choice), c.reasoning)

\* What the marks of the content do.  It leaves the text that is still to be
\* placed.
Marks(w, c) ==
    LET opened == IF c.content.opens
                  THEN startReasoning([w EXCEPT !.st.thinking = TRUE], c.choice) ELSE w
    IN IF c.content.closes
       THEN [closeReasoning(emitReasoningDelta(opened, c.content.head)) EXCEPT !.st.thinking = FALSE]
       ELSE opened

Remaining(c) == IF c.content.closes THEN c.content.tail ELSE c.content.head

ToolCalls(w, c) ==
    IF c.calls = <<>> THEN w ELSE FoldLeft(emitToolCall, closeMessage(w, c.choice), c.calls)

\* Text inside a thinking block ends the work on its chunk: a tool call or
\* a finish reason beside it is not looked at.
Delta_BufferFirst(w0, c) ==
    LET w == Marks(ReasoningField(w0, c), c)
        text == Remaining(c)
        placed == IF text = <<>> THEN w ELSE emitTextContent(w, c.choice, text)
        called == ToolCalls(placed, c)
    IN IF c.finish THEN CloseAll(called) ELSE called

Delta(w0, c) ==
    LET w == Marks(ReasoningField(w0, c), c)
        text == Remaining(c)
        placed == IF text = <<>> THEN w ELSE emitTextContent(w, c.choice, text)
        called == ToolCalls(placed, c)
    IN IF w.st.thinking /\ text # <<>> THEN emitReasoningDelta(w, text)
       ELSE IF c.finish THEN CloseAll(called) ELSE called

ConvertChat(s, c) ==
    LET w == [st |-> s, out |-> <<>>]
    IN IF c.kind # "chunk" THEN w ELSE Delta(scaffold(w), c)
=============================================================================
