------------------------------- MODULE Forced -------------------------------
(***************************************************************************)
(* relay/nonstream.go and forcedSSEToJson: the whole stream of an upstream *)
(* that always streams is folded into the one JSON answer of a client that *)
(* did not ask for a stream.  Messages of the upstream are those of        *)
(* ChatToResp and of RespToChat.                                           *)
(*                                                                         *)
(* An answer is its HTTP status and, when that is 200, its text, its       *)
(* reasoning, its tool calls in order (id, name, arguments), its finish    *)
(* reason or status, and its usage.                                        *)
(***************************************************************************)
EXTENDS Pieces, Naturals, Sequences, SequencesExt, FiniteSetsExt

CONSTANT MaxOutputIndex    \* config.MaxResponsesOutputIndex

BadGateway == [status |-> 502, text |-> <<>>, reasoning |-> <<>>, calls |-> <<>>, finish |-> "", usage |-> "none"]

LastUsage(events) ==
    FoldLeft(LAMBDA u, e : IF e.usage = "none" THEN u ELSE e.usage, "none", events)

-----------------------------------------------------------------------------
(* A chat upstream: ParseSSEToOpenAIResponse. *)

Mark(there, m) == IF there THEN <<m>> ELSE <<>>

\* The content of a chunk as it stands, marks included.
RawContent(c) ==
    Mark(c.content.opens, <<"think">>) \o c.content.head
        \o Mark(c.content.closes, <<"/think">>) \o c.content.tail

\* All that was said of the call of one slot: the id that was given, the
\* pieces of its name and of its arguments.
AssembledCall_Overwrites(deltas) ==
    [id   |-> \E i \in DOMAIN deltas : deltas[i].id,
     name |-> Texts(Mapped(LAMBDA d : IF d.name = "" THEN <<>> ELSE <<d.name>>, deltas)),
     args |-> IF deltas = <<>> THEN <<>> ELSE Last(deltas).args]

AssembledCall(deltas) ==
    [id   |-> \E i \in DOMAIN deltas : deltas[i].id,
     name |-> Texts(Mapped(LAMBDA d : IF d.name = "" THEN <<>> ELSE <<d.name>>, deltas)),
     args |-> Texts(Mapped(LAMBDA d : d.args, deltas))]

\* Calls in the order of their slots.
AssembledCalls(chunks) ==
    LET deltas == Texts(Mapped(LAMBDA c : c.calls, chunks))
        slots == SetToSortSeq({deltas[i].slot : i \in DOMAIN deltas}, LAMBDA a, b : a < b)
    IN Mapped(LAMBDA slot : AssembledCall(SelectSeq(deltas, LAMBDA d : d.slot = slot)), slots)

\* One error frame anywhere fails the whole answer, and so does a body
\* without a single message.  Reasoning is dropped next to a text
\* (StripRedundantReasoning), and only its standard field is read.
FoldChat(events) ==
    LET parsed == SelectSeq(events, LAMBDA e : e.kind # "noise")
        chunks == SelectSeq(parsed, LAMBDA e : e.kind = "chunk")
        text == Texts(Mapped(RawContent, chunks))
        reasoning == Texts(Mapped(LAMBDA c : IF c.vendor THEN <<>> ELSE c.reasoning, chunks))
        calls == AssembledCalls(chunks)
    IN IF parsed = <<>> \/ \E i \in DOMAIN parsed : parsed[i].kind = "error" THEN BadGateway
       ELSE [status    |-> 200,
             text      |-> text,
             reasoning |-> IF text # <<>> THEN <<>> ELSE reasoning,
             calls     |-> calls,
             finish    |-> IF \E i \in DOMAIN chunks : chunks[i].finish THEN "upstream" ELSE "stop",
             usage     |-> LastUsage(parsed)]

\* ChatCompletionToResponses, for a Responses client.
ToResponses(answer) == IF answer.status = 200 THEN [answer EXCEPT !.finish = "completed"] ELSE answer

-----------------------------------------------------------------------------
(* A Responses upstream: ConvertResponsesStreamToJson. *)

DoneKinds == {"message.done", "reasoning.done", "call.done"}

\* The finished items by output index, the last event of an index winning;
\* what is missing in between is an empty message.
Placeholder == [kind |-> "message.done", key |-> <<>>, callId |-> 0, custom |-> FALSE, index |-> 0,
                text |-> <<>>, usage |-> "none", error |-> FALSE]

Output(events) ==
    LET done == SelectSeq(events, LAMBDA e : e.kind \in DoneKinds /\ e.index <= MaxOutputIndex)
        of(i) == SelectSeq(done, LAMBDA e : e.index = i)
        size == FoldLeft(LAMBDA n, e : IF e.index >= n THEN e.index + 1 ELSE n, 0, done)
    IN [i \in 1 .. size |-> IF of(i - 1) = <<>> THEN Placeholder ELSE Last(of(i - 1))]

Status(events) ==
    FoldLeft(LAMBDA s, e : CASE e.kind = "completed" -> "completed"
                             [] e.kind = "failed" -> "failed"
                             [] OTHER -> s, "in_progress", events)

\* The last message with a text is the answer.
pickAssistantMessage(output) ==
    LET told == SelectSeq(output, LAMBDA e : e.kind = "message.done" /\ e.text # <<>>)
    IN IF told = <<>> THEN <<>> ELSE Last(told).text

CallItems(output) == SelectSeq(output, LAMBDA e : e.kind = "call.done")

Listed(calls) == Mapped(LAMBDA e : [id |-> e.callId, args |-> e.text], calls)

UsageOf(events) == LastUsage(SelectSeq(events, LAMBDA e : e.kind = "completed"))

\* A Responses client gets the items as they are.
FoldToResponses(events) ==
    LET output == Output(events)
    IN [status    |-> 200,
        text      |-> Texts(Mapped(LAMBDA e : IF e.kind = "message.done" THEN e.text ELSE <<>>, output)),
        reasoning |-> <<>>,
        calls     |-> Listed(CallItems(output)),
        finish    |-> Status(events),
        usage     |-> UsageOf(events)]

\* BuildChatFromResponses, for a chat client: calls of custom tools are left
\* out.
FoldToChat(events) ==
    LET output == Output(events)
        calls == Listed(SelectSeq(CallItems(output), LAMBDA e : ~e.custom))
        status == Status(events)
    IN [status    |-> 200,
        text      |-> pickAssistantMessage(output),
        reasoning |-> <<>>,
        calls     |-> calls,
        finish    |-> IF calls # <<>> THEN "tool_calls"
                      ELSE IF status = "completed" THEN "stop" ELSE status,
        usage     |-> UsageOf(events)]
=============================================================================
