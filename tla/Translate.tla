----------------------------- MODULE Translate -----------------------------
(***************************************************************************)
(* An answer whose client and upstream speak different formats, or whose   *)
(* client did not ask for the stream the upstream sends.                   *)
(*                                                                         *)
(*   stream  TranslateRelay: one message of the upstream at a time through *)
(*           the state machine of the pair, written before the next        *)
(*   forced  forcedSSEToJson: the body is read to its end, then folded     *)
(*                                                                         *)
(* How lines reach ProcessLine is the subject of Stream; here a line is    *)
(* handled in one step, a write may fail after any event of it, and the    *)
(* scan ends cleanly or not at any line.                                   *)
(***************************************************************************)
EXTENDS ChatToResp, RespToChat, Forced, ForcedRead, Filtering

CONSTANTS
    ChatKinds,    \* messages of a chat upstream, their fragments unstamped
    PlainKinds,   \* the kinds that may follow VariedEvents messages
    VariedEvents, \* bound, per route: messages of any kind
    LateEvents,   \* bound: messages of a Responses upstream behind its first ending
    MaxEvents     \* bound, per upstream: messages of a stream

\* Fragments are named; a chunk speaks of the choices and calls of its stream.
ASSUME ChatKindsAssumption ==
    \A c \in ChatKinds \cup PlainKinds :
        /\ c \in [kind : STRING, choice : ChoiceIds, reasoning : Seq(STRING), vendor : BOOLEAN,
                  content : [opens : BOOLEAN, head : Seq(STRING), closes : BOOLEAN, tail : Seq(STRING)],
                  calls : Seq([slot : CallSlots, id : BOOLEAN, name : STRING, args : Seq(STRING)]),
                  finish : BOOLEAN, usage : STRING]
        /\ c.content.closes \/ c.content.tail = <<>>

VARIABLES
    route,      \* "stream" or "forced"
    upstream,   \* the format of the upstream
    client,     \* the format of the client
    heard,      \* history: what the upstream of the stream has sent
    tr,         \* the translator's state
    tracked,    \* trackedUsage
    sent,       \* what was written to the client, in order
    stage,      \* "open", then how the answer ended
    answer      \* the JSON answer

translateVars == <<route, upstream, client, heard, tr, tracked, sent, stage, answer>>
vars == <<readVars, translateVars>>

NoAnswer == [BadGateway EXCEPT !.status = 0]

\* Equal formats are relayed by the passthrough relay.
Init ==
    /\ ReadInit /\ heard = <<>>
    /\ upstream \in {"chat", "responses"} /\ client \in {"chat", "responses"}
    /\ route \in {"stream", "forced"}
    /\ route = "stream" => client # upstream
    /\ tr = IF upstream = "chat" THEN NewChatToResp ELSE NewRespToChat
    /\ tracked = "none" /\ sent = <<>> /\ stage = "open"
    /\ answer = NoAnswer

-----------------------------------------------------------------------------
(* What the upstream may send.  Every fragment carries the place of its    *)
(* message, so that no two are alike.                                      *)

At(n, text) == [i \in DOMAIN text |-> <<n, text[i]>>]

StampedCalls(n, calls) == [i \in DOMAIN calls |-> [calls[i] EXCEPT !.args = At(n, @)]]

StampedChat(n, c) ==
    [c EXCEPT !.reasoning = At(n, @), !.content.head = At(n, @), !.content.tail = At(n, @),
              !.calls = StampedCalls(n, @)]

ChatMessages(b) ==
    {StampedChat(Len(b) + 1, c) : c \in IF Len(b) < VariedEvents[route] THEN ChatKinds ELSE PlainKinds}

Message(kind) == [Placeholder EXCEPT !.kind = kind]

TextOf(events) == Texts(Mapped(LAMBDA e : e.text, events))

Of(b, kind) == Only(b, {e \in Range(b) : e.kind = kind})
OfCall(b, kind, i) == Only(b, {e \in Range(b) : e.kind = kind /\ e.index = i})
ArgumentDeltas(b, i) == OfCall(b, "call.delta", i)

OpenCalls(b) == {e \in Range(Of(b, "call.added")) : OfCall(b, "call.done", e.index) = <<>>}

\* Announcements without their retries.
Announces(b, i) ==
    /\ b[i].kind = "call.added"
    /\ \A j \in 1 .. i - 1 : b[j].kind = "call.added" => b[j].index # b[i].index

FirstStarts(b) ==
    Mapped(LAMBDA i : b[i], Only([i \in DOMAIN b |-> i], {i \in DOMAIN b : Announces(b, i)}))

\* Every item has an output index of its own, in the order of their starts.
\* The message is the item its finished form is sent for.
FreshIndex(b) == Len(FirstStarts(b)) + Len(Of(b, "message.done"))

\* Text since the last finished message.
Unfinished(b) ==
    LET unfinished(i) == \A j \in i .. Len(b) : b[j].kind # "message.done"
    IN Texts([i \in DOMAIN b |-> IF b[i].kind = "text" /\ unfinished(i) THEN b[i].text ELSE <<>>])

Saying(b) == <<<<Len(b) + 1, "said">>>>

Utterance(b, kind) == [Message(kind) EXCEPT !.text = Saying(b)]
Announce(b, key, custom) ==
    [Message("call.added") EXCEPT !.key = key, !.callId = Len(b) + 1, !.custom = custom, !.index = FreshIndex(b)]
PieceOf(b, call) == [call EXCEPT !.kind = "call.delta", !.text = Saying(b)]
Finished(call, text) == [call EXCEPT !.kind = "call.done", !.text = text]
FinishedMessage(b) == [Message("message.done") EXCEPT !.index = FreshIndex(b), !.text = Unfinished(b)]
Completion(usage) == [Message("completed") EXCEPT !.usage = usage]
Failure(error) == [Message("failed") EXCEPT !.error = error]

\* A finished call repeats its pieces.
FinalTexts(b, call) ==
    LET pieces == TextOf(ArgumentDeltas(b, call.index))
    IN IF pieces = <<>> THEN {<<>>, <<<<Len(b) + 1, "full">>>>} ELSE {pieces}

\* A Responses upstream keeps to the protocol of its items: a call, of a
\* function or of a custom tool, is announced, told in pieces and finished; a
\* retried announcement comes before the pieces.  Calls without a key come one
\* at a time.  Nothing says that an end of the response comes last.
ResponsesMessages(b) ==
    LET open == OpenCalls(b)
    IN {Utterance(b, kind) : kind \in {"text", "reasoning"}}
       \cup {Message("other")}
       \cup {Announce(b, key, custom) : custom \in BOOLEAN,
                 key \in {k \in {<<>>, <<Len(b) + 1>>} : \A e \in open : e.key # <<>> /\ k # <<>>}}
       \cup {e \in open : ArgumentDeltas(b, e.index) = <<>>}
       \cup {PieceOf(b, e) : e \in open}
       \cup (UNION {{Finished(e, text) : text \in FinalTexts(b, e)} : e \in open})
       \cup (IF Unfinished(b) = <<>> THEN {} ELSE {FinishedMessage(b)})
       \cup {Completion(usage) : usage \in {"none", "zero", "valid"}}
       \cup {Failure(error) : error \in BOOLEAN}

\* The events that end a response: its completion, or an error that says
\* something.
Ending(e) == e.kind = "completed" \/ (e.kind = "failed" /\ e.error)

FirstEnding(b, k) == Ending(b[k]) /\ \A j \in 1 .. k - 1 : ~Ending(b[j])

Messages(b) ==
    IF upstream = "chat" THEN ChatMessages(b)
    ELSE IF \E i \in 1 .. Len(b) - LateEvents : Ending(b[i]) THEN {} ELSE ResponsesMessages(b)

-----------------------------------------------------------------------------
(* The stream. *)

\* applyUsageSeam.  The events of a Responses client are framed and never
\* look like a finish chunk; a Responses upstream has no choices to
\* estimate from.
Seam(u, item) ==
    IF item.finish # "" /\ item.usage # "valid" /\ u # "none" THEN [item EXCEPT !.usage = "padded"] ELSE item

ToClient(u, items) == IF client = "chat" THEN Mapped(LAMBDA item : Seam(u, item), items) ELSE items

Merged(u, e) == IF e.usage = "none" \/ u = "valid" THEN u ELSE e.usage

Convert(s, e) == IF upstream = "chat" THEN ConvertChat(s, e) ELSE ConvertResp(s, e)

ProcessLine ==
    /\ route = "stream" /\ stage = "open" /\ Len(heard) < MaxEvents[upstream]
    /\ \E e \in Messages(heard) :
          LET w == Convert(tr, e)
              items == ToClient(Merged(tracked, e), w.out)
          IN \E k \in 0 .. Len(items) :
                /\ heard' = Append(heard, e)
                /\ tr' = w.st
                /\ tracked' = Merged(tracked, e)
                /\ sent' = sent \o SubSeq(items, 1, k)
                /\ stage' = IF k = Len(items) THEN "open" ELSE "cut"
    /\ UNCHANGED <<readVars, route, upstream, client, answer>>

Flush(s) == IF upstream = "chat" THEN flushEvents(s) ELSE flushChat(s)

\* The scan ended cleanly.
StreamEnds ==
    /\ route = "stream" /\ stage = "open"
    /\ LET w == Flush(tr)
       IN /\ tr' = w.st
          /\ sent' = sent \o ToClient(tracked, w.out)
    /\ stage' = "flushed"
    /\ UNCHANGED <<readVars, route, upstream, client, heard, tracked, answer>>

\* A stall, a read error or a client that left: nothing more is written.
StreamAborts ==
    /\ route = "stream" /\ stage = "open"
    /\ stage' = "aborted"
    /\ UNCHANGED <<readVars, route, upstream, client, heard, tr, tracked, sent, answer>>

-----------------------------------------------------------------------------
(* The forced answer. *)

Fold(b) ==
    CASE upstream = "responses" /\ client = "chat"      -> FoldToChat(b)
      [] upstream = "responses" /\ client = "responses" -> FoldToResponses(b)
      [] upstream = "chat" /\ client = "chat"           -> FoldChat(b)
      [] upstream = "chat" /\ client = "responses"      -> ToResponses(FoldChat(b))

ForcedStarts ==
    /\ route = "forced" /\ StartRead
    /\ UNCHANGED translateVars

\* A read brings one message, or none with the end.
Upstream ==
    /\ Len(body) <= MaxBytes
    /\ \E end \in Ends :
          \/ ReadReturns(<<>>, end)
          \/ \E e \in Messages(body) : ReadReturns(<<e>>, end)
    /\ UNCHANGED translateVars

ForcedAnswers ==
    /\ HandlerReturns
    /\ answer' = IF verdict = "ok" THEN Fold(out) ELSE BadGateway
    /\ stage' = "answered"
    /\ UNCHANGED <<route, upstream, client, heard, tr, tracked, sent>>

Reading ==
    /\ ReadFails \/ Pass \/ GoroutineQuits \/ Collect \/ Stalls \/ SeesCancel \/ TimePasses
    /\ UNCHANGED translateVars

Cancels == ClientCancels /\ UNCHANGED translateVars

Next ==
    \/ ProcessLine \/ StreamEnds \/ StreamAborts
    \/ ForcedStarts \/ Upstream \/ Reading \/ ForcedAnswers \/ Cancels

Spec == Init /\ [][Next]_vars
FairSpec == Spec /\ WF_vars(Reading \/ ForcedAnswers)

-----------------------------------------------------------------------------
(* The client of a stream: what it puts together from what it was sent. *)

OfType(events, type) == Only(events, {e \in Range(events) : e.type = type})
OfItem(events, item) == Only(events, {e \in Range(events) : e.item = item})
Places(events, type) == {i \in DOMAIN events : events[i].type = type}

DeltasOf(events, kind) ==
    TextOf(Only(events, {e \in Range(events) : e.type = "delta" /\ e.item[1] = kind}))

ClosedCalls(events) == Only(events, {e \in Range(events) : e.type = "close" /\ e.item[1] = "call"})

ArgumentsOf(events, idx) == TextOf(Only(events, {e \in Range(events) : e.type = "args" /\ e.idx = idx}))

\* The whole stream for a body.
Translated(step(_, _), last(_), new, b) ==
    LET then(w, e) == LET r == step(w.st, e) IN [st |-> r.st, out |-> w.out \o r.out]
        w == FoldLeft(then, [st |-> new, out |-> <<>>], b)
    IN w.out \o last(w.st).out

AsStream(b) ==
    IF upstream = "chat" THEN Translated(ConvertChat, flushEvents, NewChatToResp, b)
    ELSE Translated(ConvertResp, flushChat, NewRespToChat, b)

-----------------------------------------------------------------------------
(* What a chat upstream said, whatever the cuts between its messages. *)

Chunks(b) == Of(b, "chunk")

\* Whether thinking goes on after the first i chunks.
Thinking(cs, i) == \E j \in 1 .. i : cs[j].content.opens /\ \A k \in j .. i : ~cs[k].content.closes

InThought(cs, i) == cs[i].content.opens \/ Thinking(cs, i - 1)

\* What stands between the marks is thought.
ThoughtAt(cs, i) == cs[i].reasoning \o (IF InThought(cs, i) THEN cs[i].content.head ELSE <<>>)
SaidAt(cs, i) == (IF InThought(cs, i) THEN <<>> ELSE cs[i].content.head) \o cs[i].content.tail

Thought(cs) == Texts([i \in DOMAIN cs |-> ThoughtAt(cs, i)])
Said(cs) == Texts([i \in DOMAIN cs |-> SaidAt(cs, i)])

\* The entries of all calls, and what they add up to for one.
Entries(cs) == Texts(Mapped(LAMBDA c : c.calls, cs))

ArgumentsSaid(ds, slot) == Texts([i \in DOMAIN ds |-> IF ds[i].slot = slot THEN ds[i].args ELSE <<>>])

\* The name of a call, if it has one.
NameSaid(ds, slot) ==
    IF \E i \in DOMAIN ds : ds[i].slot = slot /\ ds[i].name # ""
    THEN ds[CHOOSE i \in DOMAIN ds : ds[i].slot = slot /\ ds[i].name # ""].name ELSE ""

\* Every mark is opened before it is closed.
MarksPair(cs) ==
    \A i \in DOMAIN cs :
        /\ cs[i].content.opens => ~Thinking(cs, i - 1)
        /\ cs[i].content.closes => InThought(cs, i)

\* A call says its id and its name before it says its arguments, and keeps
\* to one name.
NamedFirst(ds) ==
    \A i \in DOMAIN ds :
        LET earlier == {j \in 1 .. i : ds[j].slot = ds[i].slot}
            named == {j \in earlier : ds[j].name # ""}
        IN /\ \A j, k \in named : ds[j].name = ds[k].name
           /\ ds[i].args # <<>> => named # {} /\ \E j \in earlier : ds[j].id

\* Thinking ends before a call.
ThoughtEnds(cs) == \A i \in DOMAIN cs : cs[i].calls # <<>> => ~Thinking(cs, i)

FinishIsLast(cs) == \A i \in DOMAIN cs : cs[i].finish => i = Len(cs)

Coherent(cs) == MarksPair(cs) /\ NamedFirst(Entries(cs)) /\ ThoughtEnds(cs)
Orderly(cs) == Coherent(cs) /\ FinishIsLast(cs)

\* Nothing is thought once a mark closed the thinking, and no choice says more
\* once it called.
Sequenced(cs) ==
    /\ Orderly(cs)
    /\ \A i, j \in DOMAIN cs : i < j =>
          /\ cs[i].content.closes => ThoughtAt(cs, j) = <<>>
          /\ cs[i].calls # <<>> /\ cs[i].choice = cs[j].choice => SaidAt(cs, j) = <<>>

-----------------------------------------------------------------------------
(* What a Responses upstream said. *)

\* The end of a function's call repeats its arguments; the translator does not
\* look at the input a custom tool's call ends with.
Repeated(b, index) ==
    Only(b, {e \in Range(b) : e.kind = "call.done" /\ e.index = index /\ ~e.custom})

UpstreamArguments(b, index) ==
    TextOf(IF ArgumentDeltas(b, index) # <<>> THEN ArgumentDeltas(b, index) ELSE Repeated(b, index))

-----------------------------------------------------------------------------
(* Properties. *)

ToChatClient == route = "stream" /\ client = "chat" /\ stage # "cut"
ToResponsesClient == route = "stream" /\ client = "responses" /\ stage # "cut"

\* Whatever chunks come: no item starts or ends twice, none is left open when
\* the response completes, and it completes once (stream_chat2resp.go:
\* closeMessage, closeToolCall, closeReasoning, sendCompleted, flushEvents).
ItemsEnd ==
    route = "stream" /\ client = "responses" =>
        /\ \A type \in {"open", "close"} : \A i, j \in Places(sent, type) : sent[i].item = sent[j].item => i = j
        /\ \A i, j \in Places(sent, "completed") : i = j
        /\ \A c \in Places(sent, "completed") : \A o \in Places(sent, "open") :
              o < c => \E k \in Places(sent, "close") : o < k /\ k < c /\ sent[k].item = sent[o].item
        /\ stage = "flushed" => Places(sent, "completed") # {}

\* In a coherent stream, wherever the upstream stops: an item that ends has
\* started first and repeats exactly what its deltas said until then, {} where
\* those of a call said nothing (stream_chat2resp.go: MsgTextBuf, FuncArgsBuf and
\* what closeMessage and closeToolCall make of them).  Nothing of an item
\* follows its end, unless the upstream resumes a text after a call, a thought
\* after its mark or anything after a finish: emitTextContent and
\* emitReasoningDelta do not look whether their item is over.
ItemsRepeatTheirDeltas ==
    ToResponsesClient /\ Coherent(Chunks(heard)) =>
        \A k \in Places(sent, "close") :
            LET own == OfItem(SubSeq(sent, 1, k - 1), sent[k].item)
            IN /\ \/ sent[k].text = TextOf(own)
                  \/ sent[k].text = NoArguments /\ TextOf(own) = <<>> /\ sent[k].item[1] = "call"
               /\ own # <<>> => own[1].type = "open"
               /\ Sequenced(Chunks(heard)) => \A j \in k + 1 .. Len(sent) : sent[j].item # sent[k].item

\* A fragment of the upstream reaches the Responses client once, in its
\* order, as thought or as text; the arguments of every call of the stream
\* are told in full (stream_chat2resp.go: the think marks and InThinking, which
\* carry over from chunk to chunk, and emitToolCall).
NothingIsLost ==
    ToResponsesClient /\ Orderly(Chunks(heard)) =>
        /\ DeltasOf(sent, "message") = Said(Chunks(heard))
        /\ DeltasOf(sent, "reasoning") = Thought(Chunks(heard))
        /\ stage = "flushed" =>
              LET ds == Entries(Chunks(heard)) IN
                  \A i \in DOMAIN ds : ds[i].id =>
                      LET slot == ds[i].slot
                          told == OfItem(ClosedCalls(sent), <<"call", slot>>)
                      IN /\ Len(told) = 1
                         /\ told[1].text = FinalText(NameSaid(ds, slot), ArgumentsSaid(ds, slot))

\* Each call of a Responses upstream has one place at the chat client, and
\* its arguments arrive there once: from its pieces or, for the call of a
\* function that came without any, from its end (stream_resp2chat.go:
\* RespToolChatIndex, which maps the upstream's output indexes, and the
\* fallback of output_item.done).
ArgumentsReachTheirCall ==
    ToChatClient =>
        LET starts == FirstStarts(heard)
        IN /\ \A i \in DOMAIN starts :
                 ArgumentsOf(sent, i - 1) = UpstreamArguments(heard, starts[i].index)
           /\ {e.idx : e \in Range(OfType(sent, "call"))} = {i - 1 : i \in DOMAIN starts}
           /\ TextOf(OfType(sent, "text")) = TextOf(Of(heard, "text"))

\* However often, and in whatever order, the upstream completes, fails and
\* goes on: a chat client sees one finish at most, that of the first ending,
\* with the counts it gave, as soon as it came; a clean end of anything at all
\* makes up for one that never came.  The finish is last unless the upstream
\* goes on behind it (stream_resp2chat.go: FinishReasonSent, finalChunk;
\* translate.go: Flush).
OneFinish ==
    ToChatClient =>
        LET ends == {i \in DOMAIN sent : sent[i].finish # ""}
            first == {k \in DOMAIN heard : FirstEnding(heard, k)}
        IN /\ \A i, j \in ends : i = j
           /\ first # {} \/ (stage = "flushed" /\ heard # <<>>) => ends # {}
           /\ first \subseteq {Len(heard)} => ends \subseteq {Len(sent)}
           /\ \A i \in ends :
                 /\ sent[i].type = "error" <=> \E k \in first : heard[k].kind = "failed"
                 /\ \A k \in first : heard[k].kind = "completed" /\ heard[k].usage = "valid" => sent[i].usage = "valid"

\* The folded answer and the stream of the same body hold the same function
\* calls and the same text: for every stream, and for every answer of a body that was
\* read in pieces (nonstream.go and forced.go against the two stream
\* translators: two implementations of the same conversion).
SameAnswer(b, streamed, a) ==
    LET args(c) == IF c.args = <<>> THEN NoArguments ELSE c.args
    IN IF upstream = "chat"
       THEN Orderly(Chunks(b)) /\ (\A d \in Range(Entries(Chunks(b))) : ~isCustomTool(d.name)) =>
               /\ Mapped(args, SelectSeq(a.calls, LAMBDA c : c.id)) = Mapped(LAMBDA e : e.text, ClosedCalls(streamed))
               /\ (\A c \in Range(Chunks(b)) : ~(c.content.opens \/ c.content.closes)) =>
                     a.text = DeltasOf(streamed, "message")
       ELSE OpenCalls(b) = {} /\ Unfinished(b) = <<>> /\ (\A e \in Range(b) : ~e.custom) =>
               /\ Len(a.calls) = Len(FirstStarts(b))
               /\ \A i \in DOMAIN a.calls : a.calls[i].args = ArgumentsOf(streamed, i - 1)
               /\ client = "responses" \/ Len(Of(b, "message.done")) = 1 =>
                     a.text = TextOf(OfType(streamed, "text"))

ForcedTellsTheSame ==
    /\ stage = "flushed" /\ Fold(heard).status = 200 => SameAnswer(heard, sent, Fold(heard))
    /\ stage = "answered" /\ answer.status = 200 => SameAnswer(body, AsStream(body), answer)

\* A forced answer comes, whatever the upstream does, and its goroutine ends
\* (forced.go: readBoundedSSE, its timer and its done channel).
ForcedEnds == rd.at # "unborn" ~> (stage = "answered" /\ rd.at = "done")
=============================================================================
