----------------------------- MODULE RespToChat -----------------------------
(***************************************************************************)
(* translate.RespToChatState: events of a Responses upstream become chat   *)
(* chunks, at most one for an event.                                       *)
(*                                                                         *)
(* The map from item keys to indices of tool calls is the sequence of keys *)
(* in the order their calls were announced.  A key is absent (<<>>) or     *)
(* present (<<k>>); usage is absent, present but without a positive count, *)
(* or valid.                                                               *)
(***************************************************************************)
EXTENDS Naturals, Sequences, SequencesExt

NewRespToChat ==
    [started |-> FALSE, calls |-> <<>>, argsEmitted |-> {}, finishSent |-> FALSE, usage |-> "none"]

\* A chunk for the client: what its delta holds, the call it belongs to, its
\* text, its finish reason or "", and its usage.
Chunk(type, idx, text) ==
    [type |-> type, idx |-> idx, text |-> text, finish |-> "", usage |-> "none"]

One(s, chunk) == [st |-> s, out |-> <<chunk>>]
Nothing(s) == [st |-> s, out |-> <<>>]

computeFinishReason(s) == IF s.calls # <<>> THEN "tool_calls" ELSE "stop"

finalChunk(s) ==
    One([s EXCEPT !.finishSent = TRUE],
        [Chunk("finish", 0, <<>>) EXCEPT !.finish = computeFinishReason(s), !.usage = s.usage])

\* Known calls by key; the newest for an item without one, or of no known key.
CallIndex_Newest(s, key) == IF s.calls = <<>> THEN 0 ELSE Len(s.calls) - 1

CallIndex(s, key) ==
    IF \E i \in DOMAIN s.calls : <<s.calls[i]>> = key
    THEN (CHOOSE i \in DOMAIN s.calls : <<s.calls[i]>> = key) - 1
    ELSE IF s.calls = <<>> THEN 0 ELSE Len(s.calls) - 1

\* A call is announced once per key; its call id stands in for a key.
CallAdded(s, e) ==
    LET k == IF e.key = <<>> THEN e.callId ELSE Head(e.key)
        known == [s EXCEPT !.calls = IF Contains(@, k) THEN @ ELSE Append(@, k)]
    IN One(known, Chunk("call", CallIndex(known, <<k>>), <<>>))

Arguments(s, idx, text) ==
    One([s EXCEPT !.argsEmitted = @ \cup {idx}], Chunk("args", idx, text))

\* The arguments of a finished item stand in for deltas that never came.  The
\* input of a custom tool's call is not looked at.
CallDone(s, e) ==
    LET idx == CallIndex(s, e.key)
    IN IF ~e.custom /\ e.text # <<>> /\ idx \notin s.argsEmitted THEN Arguments(s, idx, e.text) ELSE Nothing(s)

Completed_Again(s, e) == finalChunk([s EXCEPT !.usage = IF e.usage = "none" THEN @ ELSE e.usage])

Completed(s, e) ==
    LET counted == [s EXCEPT !.usage = IF e.usage = "none" THEN @ ELSE e.usage]
    IN IF s.finishSent THEN Nothing(counted) ELSE finalChunk(counted)

\* Only an error with a payload is shown, as a last piece of text.
Failed(s, e) ==
    IF s.finishSent \/ ~e.error THEN Nothing(s)
    ELSE One([s EXCEPT !.finishSent = TRUE], [Chunk("error", 0, <<>>) EXCEPT !.finish = "stop"])

ConvertResp(s0, e) ==
    LET s == [s0 EXCEPT !.started = TRUE]
    IN CASE e.kind = "text" /\ e.text # <<>>      -> One(s, Chunk("text", 0, e.text))
         [] e.kind = "reasoning" /\ e.text # <<>> -> One(s, Chunk("reasoning", 0, e.text))
         [] e.kind = "call.added"                 -> CallAdded(s, e)
         [] e.kind = "call.delta" /\ e.text # <<>> -> Arguments(s, CallIndex(s, e.key), e.text)
         [] e.kind = "call.done"                  -> CallDone(s, e)
         [] e.kind = "completed"                  -> Completed(s, e)
         [] e.kind = "failed"                     -> Failed(s, e)
         [] OTHER                                 -> Nothing(s)

flushChat(s) == IF s.finishSent \/ ~s.started THEN Nothing(s) ELSE finalChunk(s)
=============================================================================
