-------------------------- MODULE TranslateProofs --------------------------
(***************************************************************************)
(* Theorems of Translate and of its parts, for any messages of a chat      *)
(* upstream, streams of any length and any constants.                      *)
(***************************************************************************)
EXTENDS Translate, SequenceFacts

-----------------------------------------------------------------------------
(* ForcedRead: bodies of any length read in pieces of any size, any cap    *)
(* and any stall window.                                                   *)

CONSTANT Byte       \* what a body is made of

\* readBoundedSSE on its own: the body is read in arbitrary pieces.
ReadNext ==
    \/ StartRead
    \/ \E data \in Seq(Byte), end \in Ends : ReadReturns(data, end)
    \/ Goroutines
    \/ ClientCancels

ReadSpec == ReadInit /\ [][ReadNext]_readVars

Piece(S) == [data : Seq(S), end : Ends]
Verdicts == {"reading", "ok", "too_large", "read", "cancel", "stall"}

ReadTypeOK(S) ==
    /\ rd \in [at : {"unborn", "reading", "passing", "done"}, holds : Piece(S)]
    /\ chunks = <<>> \/ \E ch \in Piece(S) : chunks = <<ch>>
    /\ out \in Seq(S) /\ body \in Seq(S)
    /\ verdict \in Verdicts
    /\ ctxDone \in BOOLEAN /\ bodyClosed \in BOOLEAN

\* The channel holds the piece that ends the body.
EndWaits == chunks # <<>> /\ Head(chunks).end # "no"

\* Nothing that was read is on the floor: it can only get there with the
\* goroutine that held it.
Whole == rd.at # "done" \/ EndWaits

ReadInv(S) ==
    /\ ReadTypeOK(S)
    /\ rd.at # "passing" => rd.holds = NoRead
    /\ rd.at = "unborn" => verdict = "reading" /\ chunks = <<>>
    /\ EndWaits => rd.at = "done"
    /\ bodyClosed => verdict # "reading"
    /\ verdict = "ok" => out = body /\ rd.at = "done"
    /\ Len(out) <= MaxBytes
    /\ verdict = "reading" /\ ~ctxDone => Whole
    /\ verdict = "reading" /\ Whole => body = out \o Waiting \o rd.holds.data

\* The handler starts with nothing read.
LEMMA ReadStarts == ASSUME NEW S, ReadInit PROVE ReadInv(S)
<1>1. ReadTypeOK(S)
  <2>1. NoRead \in Piece(S)
    BY EmptySeq DEF NoRead, Piece, Ends
  <2> QED
    BY <2>1, EmptySeq DEF ReadInit, ReadTypeOK, Verdicts
<1>2. body = out \o Waiting \o rd.holds.data
  BY DEF ReadInit, Waiting, NoRead
<1>3. Len(out) <= MaxBytes
  <2>1. out = <<>>
    BY DEF ReadInit
  <2> QED
    BY <2>1, EmptySeq, ForcedReadConstants
<1>4. ~EndWaits /\ chunks = <<>> /\ rd.at = "unborn" /\ rd.holds = NoRead /\ verdict = "reading" /\ ~bodyClosed
  BY DEF ReadInit, EndWaits
<1> QED
  BY <1>1, <1>2, <1>3, <1>4 DEF ReadInv, Whole

\* What is read goes to the end of what is held.
LEMMA ReadReturnsStep ==
  ASSUME NEW S, ReadInv(S), NEW data \in Seq(S), NEW end \in Ends, ReadReturns(data, end)
  PROVE  ReadInv(S)'
<1> USE DEF ReadReturns
<1>1. ReadTypeOK(S)'
  BY DEF ReadInv, ReadTypeOK, Piece
<1>2. Waiting \in Seq(S)
  BY DEF ReadInv, ReadTypeOK, Waiting, Piece
<1>3. verdict = "reading" => body' = (out \o Waiting) \o data
  <2> SUFFICES ASSUME verdict = "reading" PROVE body' = (out \o Waiting) \o data
    OBVIOUS
  <2>0. rd.holds.data = <<>> /\ Whole /\ verdict = "reading"
    BY DEF ReadInv, Whole, NoRead
  <2>1. body = (out \o Waiting) \o <<>>
    BY <2>0 DEF ReadInv
  <2>2. body = out \o Waiting
    BY <2>1, <1>2, ConcatEmptySeq, ConcatProperties DEF ReadInv, ReadTypeOK
  <2> QED
    BY <2>2
<1>4. Waiting' = Waiting /\ rd'.holds.data = data /\ rd'.at = "passing" /\ (EndWaits' <=> EndWaits)
  BY DEF Waiting, EndWaits
<1> QED
  BY <1>1, <1>3, <1>4 DEF ReadInv, Whole

\* The piece moves from the goroutine's hand into the channel.
LEMMA PassStep == ASSUME NEW S, ReadInv(S), Pass PROVE ReadInv(S)'
<1> USE DEF Pass
<1>1. ReadTypeOK(S)'
  BY DEF ReadInv, ReadTypeOK, Piece, NoRead, Ends
<1>2. Waiting = <<>> /\ Waiting' = rd.holds.data /\ rd'.holds.data = <<>>
  BY DEF Waiting, NoRead, ReadInv, ReadTypeOK, Piece
<1>3. rd.holds.data \in Seq(S) /\ out \in Seq(S)
  BY DEF ReadInv, ReadTypeOK, Piece
<1>4. (out \o <<>>) \o rd.holds.data = (out \o rd.holds.data) \o <<>>
  BY <1>3, ConcatEmptySeq, ConcatProperties
<1>5. EndWaits' <=> rd.holds.end # "no"
  BY DEF EndWaits, ReadInv, ReadTypeOK, Piece
<1>6. verdict = "reading" => body' = out' \o Waiting' \o rd'.holds.data
  BY <1>2, <1>4 DEF ReadInv, Whole
<1> QED
  BY <1>1, <1>5, <1>6 DEF ReadInv, Whole, ReadTypeOK, Piece, NoRead

\* The handler takes the piece; the last one makes the answer whole.
LEMMA CollectStep == ASSUME NEW S, ReadInv(S), Collect PROVE ReadInv(S)'
<1> DEFINE ch == Head(chunks)
           fits == ch.data = <<>> \/ Fits(ch.data)
<1>1. ch \in Piece(S) /\ chunks # <<>> /\ Waiting = ch.data /\ (EndWaits <=> ch.end # "no")
  BY DEF ReadInv, ReadTypeOK, Collect, Waiting, EndWaits
<1>2. Len(out') <= MaxBytes /\ out' \in Seq(S)
  <2>1. CASE fits
    <3>1. out' = out \o ch.data
      BY <2>1 DEF Collect
    <3>2. Len(out') = Len(out) + Len(ch.data)
      BY <3>1, <1>1, ConcatProperties DEF ReadInv, ReadTypeOK, Piece
    <3>3. out' \in Seq(S)
      BY <3>1, <1>1, ConcatProperties DEF ReadInv, ReadTypeOK, Piece
    <3>4. CASE ch.data = <<>>
      BY <3>2, <3>3, <3>4, ForcedReadConstants DEF ReadInv, ReadTypeOK
    <3>5. CASE Fits(ch.data)
      BY <3>2, <3>3, <3>5 DEF Fits
    <3> QED
      BY <2>1, <3>4, <3>5
  <2>2. CASE ~fits
    BY <2>2 DEF Collect, ReadInv, ReadTypeOK
  <2> QED
    BY <2>1, <2>2
<1>3. ReadTypeOK(S)'
  BY <1>1, <1>2 DEF ReadInv, ReadTypeOK, Collect, Verdicts, ReadError
<1>4. verdict = "reading" /\ (ctxDone \in BOOLEAN) /\ UNCHANGED <<rd, ctxDone, bodyClosed, body>> /\ chunks' = <<>>
  BY DEF Collect, ReadInv, ReadTypeOK
<1>5. ~EndWaits' /\ Waiting' = <<>>
  BY <1>4 DEF EndWaits, Waiting
<1>6. verdict' = IF ~fits THEN "too_large"
                 ELSE IF ch.end = "eof" THEN "ok"
                 ELSE IF ch.end = "error" THEN ReadError ELSE "reading"
  BY DEF Collect
<1>11. verdict' \in {"reading", "ok"} => fits /\ out' = out \o ch.data
  BY <1>6 DEF Collect
<1>7. ASSUME verdict' = "ok" PROVE out' = body' /\ rd'.at = "done"
  <2>1. ch.end = "eof" /\ fits
    BY <1>6, <1>7, <1>11 DEF ReadError
  <2>2. EndWaits /\ rd.at = "done" /\ rd.holds = NoRead
    BY <2>1, <1>1 DEF ReadInv
  <2>3. body = (out \o ch.data) \o <<>>
    BY <2>2, <1>1, <1>4 DEF ReadInv, Whole, NoRead
  <2>4. body = out \o ch.data
    BY <2>3, <1>1, ConcatEmptySeq, ConcatProperties DEF ReadInv, ReadTypeOK, Piece
  <2> QED
    BY <2>2, <2>4, <1>4, <1>11, <1>7
<1>8. ASSUME verdict' = "reading" PROVE ch.end = "no"
  BY <1>6, <1>8, <1>1 DEF ReadError, Piece, Ends
<1>9. ASSUME verdict' = "reading", Whole'
      PROVE  body' = out' \o Waiting' \o rd'.holds.data
  <2>1. body = (out \o ch.data) \o rd.holds.data
    BY <1>9, <1>8, <1>1, <1>4, <1>5 DEF ReadInv, Whole
  <2>2. (out' \o <<>>) = out'
    BY <1>2, ConcatEmptySeq
  <2> QED
    BY <2>1, <2>2, <1>4, <1>5, <1>11, <1>9
<1>10. verdict' = "reading" /\ ~ctxDone' => Whole'
  BY <1>8, <1>1, <1>4 DEF ReadInv, Whole
<1>12. rd'.at # "passing" => rd'.holds = NoRead
  BY <1>4 DEF ReadInv
<1>13. rd'.at # "unborn" /\ (bodyClosed' => verdict' # "reading")
  BY <1>1, <1>4 DEF ReadInv
<1> QED
  BY <1>2, <1>3, <1>5, <1>7, <1>9, <1>10, <1>12, <1>13 DEF ReadInv

\* The steps that only end something.
LEMMA OtherSteps ==
  ASSUME NEW S, ReadInv(S),
         \/ StartRead \/ ReadFails \/ GoroutineQuits \/ Stalls \/ SeesCancel
         \/ HandlerReturns \/ TimePasses \/ ClientCancels \/ UNCHANGED readVars
  PROVE  ReadInv(S)'
<1> USE DEF ReadInv, ReadTypeOK, EndWaits, Whole, Waiting, Piece, Ends, Verdicts, NoRead
<1>1. CASE StartRead
  BY <1>1 DEF StartRead
<1>2. CASE ReadFails
  <2>1. rd.holds.data = <<>> /\ rd'.holds.data = <<>> /\ rd'.at = "passing"
    BY <1>2 DEF ReadFails
  <2>2. ReadTypeOK(S)'
    BY <1>2, EmptySeq DEF ReadFails
  <2> QED
    BY <1>2, <2>1, <2>2 DEF ReadFails
<1>3. CASE GoroutineQuits
  BY <1>3 DEF GoroutineQuits
<1>4. CASE Stalls
  BY <1>4 DEF Stalls
<1>5. CASE SeesCancel
  BY <1>5 DEF SeesCancel
<1>6. CASE HandlerReturns
  BY <1>6 DEF HandlerReturns
<1>7. CASE TimePasses
  BY <1>7 DEF TimePasses
<1>8. CASE ClientCancels
  BY <1>8 DEF ClientCancels
<1>9. CASE UNCHANGED readVars
  BY <1>9 DEF readVars
<1> QED
  BY <1>1, <1>2, <1>3, <1>4, <1>5, <1>6, <1>7, <1>8, <1>9

\* The read's invariant holds through any interleaving of the goroutine, the
\* handler, the stall timer and the client.
LEMMA ReadInvariant == ReadSpec => []ReadInv(Byte)
<1>1. ReadInv(Byte) /\ [ReadNext]_readVars => ReadInv(Byte)'
  BY ReadReturnsStep, PassStep, CollectStep, OtherSteps DEF ReadNext, Goroutines
<1>2. ReadInit => ReadInv(Byte)
  BY ReadStarts
<1> QED
  BY <1>1, <1>2, PTL DEF ReadSpec

\* What the forced path converts is exactly the body, within the cap, and no
\* byte is lost between the goroutine and the handler while neither gave up
\* (router/forced.go, readBoundedSSE).
THEOREM ReadCorrect == ReadSpec => []ReadIsExact
<1>1. ReadInv(Byte) => ReadIsExact
  BY DEF ReadInv, ReadIsExact
<1> QED
  BY <1>1, ReadInvariant, PTL

\* A body over fewer messages is one over more.
LEMMA ReadInvGrows ==
  ASSUME NEW S, NEW T, S \subseteq T, ReadInv(S)
  PROVE  ReadInv(T)
<1>1. Seq(S) \subseteq Seq(T)
  BY SeqDef
<1>2. Piece(S) \subseteq Piece(T)
  BY <1>1 DEF Piece
<1> QED
  BY <1>1, <1>2 DEF ReadInv, ReadTypeOK

\* The body of a forced answer is whatever the upstream sends.
LEMMA TranslateReads == Spec => [](\E S : ReadInv(S))
<1>1. Init => \E S : ReadInv(S)
  BY ReadStarts DEF Init
<1>2. (\E S : ReadInv(S)) /\ [Next]_vars => (\E S : ReadInv(S))'
  <2> SUFFICES ASSUME NEW S, ReadInv(S), [Next]_vars PROVE \E T : ReadInv(T)'
    OBVIOUS
  <2>1. CASE Upstream
    <3>1. PICK end \in Ends : ReadReturns(<<>>, end) \/ \E e : ReadReturns(<<e>>, end)
      BY <2>1 DEF Upstream
    <3>2. CASE ReadReturns(<<>>, end)
      BY <3>2, EmptySeq, ReadReturnsStep
    <3>3. CASE \E e : ReadReturns(<<e>>, end)
      <4>1. PICK e : ReadReturns(<<e>>, end)
        BY <3>3
      <4>2. <<e>> \in Seq(S \cup {e})
        OBVIOUS
      <4>3. ReadInv(S \cup {e})
        BY ReadInvGrows
      <4>4. ReadInv(S \cup {e})'
        BY <3>1, <4>1, <4>2, <4>3, ReadReturnsStep
      <4> QED
        BY <4>4
    <3> QED
      BY <3>1, <3>2, <3>3
  <2>2. CASE UNCHANGED readVars
    BY <2>2, OtherSteps
  <2>3. CASE ForcedStarts \/ Reading \/ ForcedAnswers \/ Cancels
    BY <2>3, PassStep, CollectStep, OtherSteps DEF ForcedStarts, Reading, ForcedAnswers, Cancels
  <2>4. CASE ProcessLine \/ StreamEnds \/ StreamAborts
    BY <2>2, <2>4 DEF ProcessLine, StreamEnds, StreamAborts
  <2> QED
    BY <2>1, <2>2, <2>3, <2>4 DEF Next, vars
<1> QED
  BY <1>1, <1>2, PTL DEF Spec

\* The body that a forced answer folds is the whole of what the upstream sent,
\* and never longer than the cap (router/forced.go, readBoundedSSE).
THEOREM ForcedReadCorrect == Spec => []ReadIsExact
<1>1. (\E S : ReadInv(S)) => ReadIsExact
  BY DEF ReadInv, ReadIsExact
<1> QED
  BY <1>1, TranslateReads, PTL

-----------------------------------------------------------------------------
(* The stream has no use for the reader. *)

ReaderRests == route = "stream" => rd.at = "unborn" /\ verdict = "reading" /\ chunks = <<>>

LEMMA StreamSteps ==
  ASSUME ReaderRests, [Next]_vars
  PROVE  /\ ReaderRests'
         /\ UNCHANGED <<route, upstream, client>>
         /\ route = "stream" => ProcessLine \/ StreamEnds \/ StreamAborts \/ UNCHANGED translateVars
<1> USE DEF ReaderRests, readVars, translateVars
<1>1. CASE ProcessLine \/ StreamEnds \/ StreamAborts
  BY <1>1 DEF ProcessLine, StreamEnds, StreamAborts
<1>2. CASE ForcedStarts \/ ForcedAnswers \/ Cancels
  BY <1>2 DEF ForcedStarts, ForcedAnswers, Cancels, HandlerReturns, ClientCancels
<1>3. CASE Upstream
  BY <1>3 DEF Upstream, ReadReturns
<1>4. CASE Reading
  BY <1>4 DEF Reading, ReadFails, Pass, GoroutineQuits, Collect, Stalls, SeesCancel, TimePasses, Idle
<1>5. CASE UNCHANGED vars
  BY <1>5 DEF vars
<1> QED
  BY <1>1, <1>2, <1>3, <1>4, <1>5 DEF Next

-----------------------------------------------------------------------------
(* A Responses upstream and a chat client. *)

RespState(s) ==
    s \in [started : BOOLEAN, calls : {s.calls}, argsEmitted : {s.argsEmitted},
           finishSent : BOOLEAN, usage : {s.usage}]

IsChunk(c) ==
    c \in [type : {c.type}, idx : {c.idx}, text : {c.text}, finish : {c.finish}, usage : {c.usage}]

\* What one event of the upstream may come to: no chunk, a chunk without a
\* finish, or the finish.
Silent(s, w) == w.out = <<>> /\ (w.st.finishSent <=> s.finishSent)
Speaks(s, w) ==
    \E c : IsChunk(c) /\ w.out = <<c>> /\ c.finish = "" /\ (w.st.finishSent <=> s.finishSent)

\* The finish an ending leads to: an error if it failed, with its counts if it
\* gave any.
SaysWhy(c, e) ==
    /\ c.type = "error" <=> e.kind = "failed"
    /\ e.kind = "completed" /\ e.usage = "valid" => c.usage = "valid"

Finishes(s, w, e) ==
    \E c : /\ IsChunk(c) /\ w.out = <<c>> /\ c.finish # "" /\ SaysWhy(c, e)
           /\ ~s.finishSent /\ w.st.finishSent

LEMMA FinalChunk ==
  ASSUME NEW s, RespState(s)
  PROVE  /\ RespState(finalChunk(s).st)
         /\ finalChunk(s).st.finishSent /\ (finalChunk(s).st.started <=> s.started)
         /\ \E c : /\ IsChunk(c) /\ finalChunk(s).out = <<c>> /\ c.finish # "" /\ c.usage = s.usage
                /\ c.type # "error"
<1> DEFINE c == [Chunk("finish", 0, <<>>) EXCEPT !.finish = computeFinishReason(s), !.usage = s.usage]
<1>1. IsChunk(c) /\ c.finish # "" /\ c.usage = s.usage /\ c.type # "error"
  BY DEF IsChunk, Chunk, computeFinishReason
<1>2. finalChunk(s) = [st |-> [s EXCEPT !.finishSent = TRUE], out |-> <<c>>]
  BY DEF finalChunk, One
<1>3. RespState([s EXCEPT !.finishSent = TRUE]) /\ ([s EXCEPT !.finishSent = TRUE]).finishSent
      /\ (([s EXCEPT !.finishSent = TRUE]).started <=> s.started)
  BY DEF RespState
<1> HIDE DEF c
<1>4. finalChunk(s).st = [s EXCEPT !.finishSent = TRUE] /\ finalChunk(s).out = <<c>>
  BY <1>2
<1> QED
  BY <1>1, <1>3, <1>4

\* The finish is only for the ends of the upstream, and only once.
LEMMA ConvertRespEffect ==
  ASSUME NEW s, RespState(s), NEW e
  PROVE  /\ RespState(ConvertResp(s, e).st) /\ ConvertResp(s, e).st.started
         /\ \/ Silent(s, ConvertResp(s, e)) /\ (Ending(e) => s.finishSent)
            \/ Speaks(s, ConvertResp(s, e)) /\ ~Ending(e)
            \/ Ending(e) /\ Finishes(s, ConvertResp(s, e), e)
<1> DEFINE t == [s EXCEPT !.started = TRUE]
           w == ConvertResp(s, e)
           Goal == /\ RespState(w.st) /\ w.st.started
                   /\ \/ Silent(s, w) /\ (Ending(e) => s.finishSent)
                      \/ Speaks(s, w) /\ ~Ending(e)
                      \/ Ending(e) /\ Finishes(s, w, e)
<1>1. RespState(t) /\ t.started /\ (t.finishSent <=> s.finishSent)
  BY DEF RespState
<1>2. ASSUME NEW u, RespState(u), u.started, u.finishSent <=> s.finishSent, NEW type, NEW idx, NEW text,
             w = One(u, Chunk(type, idx, text)), ~Ending(e)
      PROVE  Goal
  <2>1. IsChunk(Chunk(type, idx, text)) /\ Chunk(type, idx, text).finish = ""
    BY DEF IsChunk, Chunk
  <2>2. w.st = u /\ w.out = <<Chunk(type, idx, text)>>
    BY <1>2 DEF One
  <2>3. Speaks(s, w)
    BY <1>2, <2>1, <2>2 DEF Speaks
  <2> QED
    BY <1>2, <2>2, <2>3
<1>3. ASSUME NEW u, RespState(u), u.started, u.finishSent <=> s.finishSent,
             w = Nothing(u), Ending(e) => s.finishSent
      PROVE  Goal
  <2>1. w.st = u /\ w.out = <<>>
    BY <1>3 DEF Nothing
  <2> QED
    BY <1>3, <2>1 DEF Silent
<1>4. ASSUME ~Ending(e), NEW idx, NEW text, w = Arguments(t, idx, text) PROVE Goal
  <2>1. RespState([t EXCEPT !.argsEmitted = @ \cup {idx}]) /\ ([t EXCEPT !.argsEmitted = @ \cup {idx}]).started
        /\ (([t EXCEPT !.argsEmitted = @ \cup {idx}]).finishSent <=> s.finishSent)
    BY <1>1 DEF RespState
  <2> QED
    BY <1>2, <1>4, <2>1 DEF Arguments
<1>5. CASE e.kind = "text"
  <2>1. w = IF e.text # <<>> THEN One(t, Chunk("text", 0, e.text)) ELSE Nothing(t)
    BY <1>5 DEF ConvertResp
  <2>2. ~Ending(e)
    BY <1>5 DEF Ending
  <2> QED
    BY <1>1, <1>2, <1>3, <2>1, <2>2
<1>6. CASE e.kind = "reasoning"
  <2>1. w = IF e.text # <<>> THEN One(t, Chunk("reasoning", 0, e.text)) ELSE Nothing(t)
    BY <1>6 DEF ConvertResp
  <2>2. ~Ending(e)
    BY <1>6 DEF Ending
  <2> QED
    BY <1>1, <1>2, <1>3, <2>1, <2>2
<1>7. CASE e.kind = "call.added"
  <2> DEFINE k == IF e.key = <<>> THEN e.callId ELSE Head(e.key)
             u == [t EXCEPT !.calls = IF Contains(@, k) THEN @ ELSE Append(@, k)]
  <2>1. w = One(u, Chunk("call", CallIndex(u, <<k>>), <<>>))
    BY <1>7 DEF ConvertResp, CallAdded
  <2>2. RespState(u) /\ u.started /\ (u.finishSent <=> s.finishSent)
    BY <1>1 DEF RespState
  <2>3. ~Ending(e)
    BY <1>7 DEF Ending
  <2> HIDE DEF k, u
  <2> QED
    BY <1>2, <2>1, <2>2, <2>3
<1>8. CASE e.kind = "call.delta"
  <2>1. w = IF e.text # <<>> THEN Arguments(t, CallIndex(t, e.key), e.text) ELSE Nothing(t)
    BY <1>8 DEF ConvertResp
  <2>2. ~Ending(e)
    BY <1>8 DEF Ending
  <2> QED
    BY <1>1, <1>3, <1>4, <2>1, <2>2
<1>9. CASE e.kind = "call.done"
  <2>1. w = IF ~e.custom /\ e.text # <<>> /\ CallIndex(t, e.key) \notin t.argsEmitted
            THEN Arguments(t, CallIndex(t, e.key), e.text) ELSE Nothing(t)
    BY <1>9 DEF ConvertResp, CallDone
  <2>2. ~Ending(e)
    BY <1>9 DEF Ending
  <2> QED
    BY <1>1, <1>3, <1>4, <2>1, <2>2
<1>10. CASE e.kind = "completed"
  <2> DEFINE u == [t EXCEPT !.usage = IF e.usage = "none" THEN @ ELSE e.usage]
  <2>1. RespState(u) /\ u.started /\ (u.finishSent <=> s.finishSent) /\ (e.usage = "valid" => u.usage = "valid")
    BY <1>1 DEF RespState
  <2>2. w = IF s.finishSent THEN Nothing(u) ELSE finalChunk(u)
    BY <1>1, <1>10, <2>1 DEF ConvertResp, Completed
  <2> HIDE DEF u
  <2>3. CASE s.finishSent
    BY <1>3, <2>1, <2>2, <2>3
  <2>4. CASE ~s.finishSent
    <3>0. \E c : IsChunk(c) /\ finalChunk(u).out = <<c>> /\ c.finish # "" /\ c.usage = u.usage /\ c.type # "error"
      BY <2>1, FinalChunk
    <3>1. PICK c : IsChunk(c) /\ w.out = <<c>> /\ c.finish # "" /\ c.usage = u.usage /\ c.type # "error"
      BY <2>2, <2>4, <3>0
    <3>2. w.st.finishSent /\ RespState(w.st) /\ w.st.started
      BY <2>1, <2>2, <2>4, FinalChunk
    <3>3. SaysWhy(c, e)
      BY <1>10, <2>1, <3>1 DEF SaysWhy
    <3>4. Finishes(s, w, e)
      BY <2>4, <3>1, <3>2, <3>3 DEF Finishes
    <3> QED
      BY <1>10, <3>2, <3>4 DEF Ending
  <2> QED
    BY <2>3, <2>4
<1>11. CASE e.kind = "failed"
  <2> DEFINE c == [Chunk("error", 0, <<>>) EXCEPT !.finish = "stop"]
             u == [t EXCEPT !.finishSent = TRUE]
  <2>1. w = IF s.finishSent \/ ~e.error THEN Nothing(t) ELSE One(u, c)
    BY <1>1, <1>11 DEF ConvertResp, Failed
  <2>2. IsChunk(c) /\ c.finish # "" /\ SaysWhy(c, e)
    BY <1>11 DEF IsChunk, Chunk, SaysWhy
  <2>3. RespState(u) /\ u.started /\ u.finishSent
    BY <1>1 DEF RespState
  <2>4. Ending(e) <=> e.error
    BY <1>11 DEF Ending
  <2> HIDE DEF c, u
  <2>5. CASE e.error /\ ~s.finishSent
    <3>1. w.st = u /\ w.out = <<c>>
      BY <2>1, <2>5 DEF One
    <3>2. Finishes(s, w, e)
      BY <2>2, <2>3, <2>5, <3>1 DEF Finishes
    <3> QED
      BY <2>3, <2>4, <2>5, <3>1, <3>2
  <2>6. CASE ~e.error \/ s.finishSent
    BY <1>1, <1>3, <2>1, <2>4, <2>6
  <2> QED
    BY <2>5, <2>6
<1>12. CASE e.kind \notin {"text", "reasoning", "call.added", "call.delta", "call.done", "completed", "failed"}
  <2>1. w = Nothing(t)
    BY <1>12 DEF ConvertResp
  <2>2. ~Ending(e)
    BY <1>12 DEF Ending
  <2> QED
    BY <1>1, <1>3, <2>1, <2>2
<1> QED
  BY <1>5, <1>6, <1>7, <1>8, <1>9, <1>10, <1>11, <1>12

\* Padding the usage leaves the finish alone, and an exact usage too.
LEMMA SeamKeeps ==
  ASSUME NEW u, NEW c, IsChunk(c)
  PROVE  /\ Seam(u, c).finish = c.finish /\ Seam(u, c).type = c.type
         /\ c.usage = "valid" => Seam(u, c).usage = "valid"
BY DEF Seam, IsChunk

LEMMA OneToClient ==
  ASSUME client = "chat", NEW u, NEW c
  PROVE  ToClient(u, <<>>) = <<>> /\ ToClient(u, <<c>>) = <<Seam(u, c)>>
BY DEF ToClient, Mapped

\* Where a response ends for the first time: at one place, if at all.
Firsts(b) == {k \in 1..Len(b) : FirstEnding(b, k)}

\* Before the finish nothing ended; after it there is one, at p, that says what
\* the first ending said and is last unless the upstream went on.
FinishTold ==
    /\ tr.started <=> heard # <<>>
    /\ ~tr.finishSent =>
          /\ \A k \in 1..Len(heard) : ~Ending(heard[k])
          /\ \A i \in 1..Len(sent) : sent[i].finish = ""
          /\ stage = "flushed" => heard = <<>>
    /\ tr.finishSent =>
          /\ stage # "flushed" => Firsts(heard) # {}
          /\ \E p \in 1..Len(sent) :
                /\ \A i \in 1..Len(sent) : sent[i].finish # "" <=> i = p
                /\ sent[p].type = "error" <=> \E k \in Firsts(heard) : heard[k].kind = "failed"
                /\ \A k \in Firsts(heard) :
                      heard[k].kind = "completed" /\ heard[k].usage = "valid" => sent[p].usage = "valid"
                /\ Firsts(heard) \subseteq {Len(heard)} => p = Len(sent)

FinishInv ==
    route = "stream" /\ client = "chat" =>
        /\ upstream = "responses"
        /\ RespState(tr)
        /\ heard \in Seq(Range(heard)) /\ sent \in Seq(Range(sent))
        /\ stage \in {"open", "cut", "flushed", "aborted"}
        /\ stage # "cut" => FinishTold

LEMMA FirstsAppend ==
  ASSUME NEW b, b \in Seq(Range(b)), NEW e
  PROVE  /\ Firsts(b) \subseteq 1..Len(b) /\ Len(b) \in Nat
         /\ Ending(e) /\ (\A k \in 1..Len(b) : ~Ending(b[k])) => Firsts(Append(b, e)) = {Len(b) + 1} /\ Firsts(b) = {}
         /\ ~Ending(e) \/ Firsts(b) # {} => Firsts(Append(b, e)) = Firsts(b)
<1> DEFINE c == Append(b, e)
           n == Len(b)
<1>1. n \in Nat /\ Len(c) = n + 1 /\ (\A k \in 1..n : c[k] = b[k]) /\ c[n + 1] = e
  BY SelfTyped
<1> HIDE DEF c, n
<1>2. \A k \in 1..n : FirstEnding(c, k) <=> FirstEnding(b, k)
  <2> TAKE k \in 1..n
  <2>1. \A j \in 1..(k - 1) : j \in 1..n
    BY <1>1
  <2> QED
    BY <1>1, <2>1 DEF FirstEnding
<1>3. FirstEnding(c, n + 1) <=> Ending(e) /\ \A k \in 1..n : ~Ending(b[k])
  <2>1. 1..((n + 1) - 1) = 1..n
    BY <1>1
  <2> QED
    BY <1>1, <2>1 DEF FirstEnding
<1>4. /\ \A k \in 1..(n + 1) : k \in 1..n \/ k = n + 1
      /\ n + 1 \in 1..(n + 1) /\ n + 1 \notin 1..n /\ \A k \in 1..n : k \in 1..(n + 1)
  BY <1>1
<1>5. Firsts(b) = {k \in 1..n : FirstEnding(b, k)} /\ Firsts(c) = {k \in 1..(n + 1) : FirstEnding(c, k)}
  BY <1>1 DEF Firsts, n
<1>6. \A k \in Firsts(b) : k \in 1..n /\ Ending(b[k])
  BY <1>5 DEF FirstEnding
<1>7. ASSUME Ending(e), \A k \in 1..n : ~Ending(b[k]) PROVE Firsts(c) = {n + 1} /\ Firsts(b) = {}
  <2>1. Firsts(b) = {}
    BY <1>6, <1>7
  <2>2. \A k : k \in Firsts(c) <=> k = n + 1
    BY <1>2, <1>3, <1>4, <1>5, <1>7, <2>1
  <2> QED
    BY <2>1, <2>2
<1>8. ASSUME ~Ending(e) \/ Firsts(b) # {} PROVE Firsts(c) = Firsts(b)
  <2>1. ~FirstEnding(c, n + 1)
    BY <1>3, <1>6, <1>8
  <2>2. \A k : k \in Firsts(c) <=> k \in Firsts(b)
    BY <1>2, <1>4, <1>5, <2>1
  <2> QED
    BY <2>2
<1> QED
  BY <1>1, <1>5, <1>7, <1>8 DEF c, n

LEMMA FinishStarts == Init => FinishInv
<1> SUFFICES ASSUME Init, route = "stream", client = "chat" PROVE FinishInv
  BY DEF FinishInv
<1>1. upstream = "responses" /\ tr = NewRespToChat /\ heard = <<>> /\ sent = <<>> /\ stage = "open"
  BY DEF Init
<1>2. RespState(NewRespToChat) /\ ~NewRespToChat.finishSent /\ ~NewRespToChat.started
  BY DEF RespState, NewRespToChat
<1>3. <<>> \in Seq(Range(<<>>)) /\ Len(<<>>) = 0
  BY EmptySeq
<1>4. \A k \in 1..0 : FALSE
  OBVIOUS
<1>5. FinishTold
  BY <1>1, <1>2, <1>3, <1>4 DEF FinishTold
<1> QED
  BY <1>1, <1>2, <1>3, <1>5 DEF FinishInv

\* The line after which the stream goes on.
LEMMA LineFinishes ==
  ASSUME FinishInv, ProcessLine, client = "chat"
  PROVE  FinishInv'
<1>1. route = "stream" /\ upstream = "responses" /\ stage = "open" /\ RespState(tr)
      /\ heard \in Seq(Range(heard)) /\ sent \in Seq(Range(sent))
      /\ UNCHANGED <<route, upstream, client>> /\ FinishTold
  BY DEF FinishInv, ProcessLine
<1>2. PICK e \in Messages(heard) :
        LET w == Convert(tr, e)
            items == ToClient(Merged(tracked, e), w.out)
        IN \E k \in 0 .. Len(items) :
              /\ heard' = Append(heard, e)
              /\ tr' = w.st
              /\ tracked' = Merged(tracked, e)
              /\ sent' = sent \o SubSeq(items, 1, k)
              /\ stage' = IF k = Len(items) THEN "open" ELSE "cut"
  BY DEF ProcessLine
<1> DEFINE w == ConvertResp(tr, e)
           items == ToClient(Merged(tracked, e), w.out)
<1>3. PICK k \in 0 .. Len(items) :
              /\ heard' = Append(heard, e)
              /\ tr' = w.st
              /\ sent' = sent \o SubSeq(items, 1, k)
              /\ stage' = IF k = Len(items) THEN "open" ELSE "cut"
  BY <1>1, <1>2 DEF Convert
<1>5. /\ RespState(w.st) /\ w.st.started
      /\ \/ Silent(tr, w) /\ (Ending(e) => tr.finishSent)
         \/ Speaks(tr, w) /\ ~Ending(e)
         \/ Ending(e) /\ Finishes(tr, w, e)
  BY <1>1, ConvertRespEffect
<1>6. heard' \in Seq(Range(heard')) /\ heard' # <<>> /\ Len(heard') = Len(heard) + 1
      /\ (\A i \in 1..Len(heard) : heard'[i] = heard[i]) /\ heard'[Len(heard) + 1] = e
  BY <1>1, <1>3, SelfTyped
<1>7. \/ /\ items = <<>> /\ (w.st.finishSent <=> tr.finishSent) /\ (Ending(e) => tr.finishSent)
      \/ \E c : /\ items = <<c>>
                /\ \/ c.finish = "" /\ (w.st.finishSent <=> tr.finishSent) /\ ~Ending(e)
                   \/ c.finish # "" /\ w.st.finishSent /\ ~tr.finishSent /\ Ending(e) /\ SaysWhy(c, e)
  <2>1. CASE Silent(tr, w) /\ (Ending(e) => tr.finishSent)
    BY <1>1, <2>1, OneToClient DEF Silent
  <2>2. CASE Speaks(tr, w) /\ ~Ending(e)
    <3>1. PICK c : IsChunk(c) /\ w.out = <<c>> /\ c.finish = "" /\ (w.st.finishSent <=> tr.finishSent)
      BY <2>2 DEF Speaks
    <3>2. items = <<Seam(Merged(tracked, e), c)>> /\ Seam(Merged(tracked, e), c).finish = ""
      BY <1>1, <3>1, OneToClient, SeamKeeps
    <3> QED
      BY <2>2, <3>1, <3>2
  <2>3. CASE Ending(e) /\ Finishes(tr, w, e)
    <3>1. PICK c : /\ IsChunk(c) /\ w.out = <<c>> /\ c.finish # "" /\ SaysWhy(c, e)
                   /\ w.st.finishSent /\ ~tr.finishSent
      BY <2>3 DEF Finishes
    <3> DEFINE d == Seam(Merged(tracked, e), c)
    <3>2. items = <<d>>
      BY <1>1, <3>1, OneToClient
    <3>3. d.finish = c.finish /\ d.type = c.type /\ (c.usage = "valid" => d.usage = "valid")
      BY <3>1, SeamKeeps
    <3> HIDE DEF d
    <3>4. d.finish # "" /\ SaysWhy(d, e)
      BY <3>1, <3>3 DEF SaysWhy
    <3> QED
      BY <2>3, <3>1, <3>2, <3>4
  <2> QED
    BY <1>5, <2>1, <2>2, <2>3
<1> HIDE DEF w, items
<1>8. sent' \in Seq(Range(sent')) /\ (stage' # "cut" => sent' = sent \o items)
  <2>1. CASE items = <<>>
    <3>1. k = 0 /\ SubSeq(items, 1, k) = <<>>
      BY <1>3, <2>1
    <3> QED
      BY <1>1, <1>3, <2>1, <3>1, SelfTyped
  <2>2. CASE \E c : items = <<c>>
    <3>1. PICK c : items = <<c>>
      BY <2>2
    <3>2. (k = 0 /\ SubSeq(items, 1, k) = <<>>) \/ (k = 1 /\ SubSeq(items, 1, k) = items)
      <4>1. k \in 0 .. Len(<<c>>)
        BY <1>3, <3>1
      <4>2. /\ k = 0 \/ k = 1
            /\ k = 0 => SubSeq(<<c>>, 1, k) = <<>>
            /\ k = 1 => SubSeq(<<c>>, 1, k) = <<c>>
        BY <4>1, PrefixesOfOne
      <4> QED
        BY ONLY <3>1, <4>2
    <3>3. sent' = sent \/ sent' = Append(sent, c)
      BY <1>1, <1>3, <3>1, <3>2, SelfTyped
    <3>4. Len(items) = 1
      BY <3>1
    <3>5. stage' # "cut" => sent' = sent \o items
      <4>1. k # 1 => stage' = "cut"
        BY <1>3, <3>4
      <4>2. k = 1 => SubSeq(items, 1, k) = items
        BY <3>2
      <4> QED
        BY <1>3, <4>1, <4>2
    <3> QED
      BY <1>1, <3>3, <3>5, SelfTyped
  <2> QED
    BY <1>7, <2>1, <2>2
<1>9. stage' \in {"open", "cut"}
  BY <1>3
<1>10. ASSUME stage' # "cut" PROVE FinishTold'
  <2>1. /\ Firsts(heard) \subseteq 1..Len(heard) /\ Len(heard) \in Nat
        /\ Ending(e) /\ (\A j \in 1..Len(heard) : ~Ending(heard[j])) =>
              Firsts(heard') = {Len(heard) + 1} /\ Firsts(heard) = {}
        /\ ~Ending(e) \/ Firsts(heard) # {} => Firsts(heard') = Firsts(heard)
    BY <1>1, <1>3, FirstsAppend
  <2>2. Len(sent) \in Nat
    BY <1>1
  <2>3. tr'.started /\ tr' = w.st
    BY <1>3, <1>5
  <2>4. ASSUME ~w.st.finishSent
        PROVE  /\ \A i \in 1..Len(heard') : ~Ending(heard'[i])
               /\ \A i \in 1..Len(sent') : sent'[i].finish = ""
    <3>1. ~tr.finishSent /\ ~Ending(e)
      BY <1>7, <2>4
    <3>2. (\A i \in 1..Len(heard) : ~Ending(heard[i])) /\ \A i \in 1..Len(sent) : sent[i].finish = ""
      BY <1>1, <3>1 DEF FinishTold
    <3>3. \A i \in 1..(Len(heard) + 1) : i \in 1..Len(heard) \/ i = Len(heard) + 1
      BY <2>1
    <3>4. \A i \in 1..Len(heard') : ~Ending(heard'[i])
      BY <1>6, <3>1, <3>2, <3>3
    <3>5. CASE items = <<>>
      <4>1. sent' = sent
        BY <1>1, <1>8, <1>10, <3>5, SelfTyped
      <4> QED
        BY <3>2, <3>4, <4>1
    <3>6. CASE \E c : items = <<c>> /\ c.finish = ""
      <4>1. PICK c : items = <<c>> /\ c.finish = ""
        BY <3>6
      <4>2. sent' = Append(sent, c)
        BY <1>1, <1>8, <1>10, <4>1, SelfTyped
      <4>3. Len(sent') = Len(sent) + 1 /\ (\A i \in 1..Len(sent) : sent'[i] = sent[i]) /\ sent'[Len(sent) + 1] = c
        BY <1>1, <4>2, SelfTyped
      <4>4. \A i \in 1..(Len(sent) + 1) : i \in 1..Len(sent) \/ i = Len(sent) + 1
        BY <2>2
      <4>5. \A i \in 1..Len(sent') : sent'[i].finish = ""
        BY <3>2, <4>1, <4>3, <4>4
      <4> QED
        BY <3>4, <4>5
    <3> QED
      BY <1>7, <2>4, <3>5, <3>6
  <2> DEFINE Told(q, b, p) ==
               /\ \A i \in 1..Len(q) : q[i].finish # "" <=> i = p
               /\ q[p].type = "error" <=> \E j \in Firsts(b) : b[j].kind = "failed"
               /\ \A j \in Firsts(b) : b[j].kind = "completed" /\ b[j].usage = "valid" => q[p].usage = "valid"
               /\ Firsts(b) \subseteq {Len(b)} => p = Len(q)
  <2>5. ASSUME w.st.finishSent, tr.finishSent
        PROVE  Firsts(heard') # {} /\ \E p \in 1..Len(sent') : Told(sent', heard', p)
    <3>1. Firsts(heard) # {}
      BY <1>1, <2>5 DEF FinishTold
    <3>2. Firsts(heard') = Firsts(heard) /\ ~(Firsts(heard') \subseteq {Len(heard')})
      <4>1. \A j \in 1..Len(heard) : j # Len(heard) + 1
        BY <2>1
      <4> QED
        BY <1>6, <2>1, <3>1, <4>1
    <3>3. PICK p \in 1..Len(sent) : Told(sent, heard, p)
      BY <1>1, <2>5 DEF FinishTold
    <3>4. \A j \in Firsts(heard) : heard'[j] = heard[j]
      BY <1>6, <2>1
    <3>5. CASE items = <<>>
      <4>1. sent' = sent
        BY <1>1, <1>8, <1>10, <3>5, SelfTyped
      <4>2. Told(sent', heard', p)
        BY <3>2, <3>3, <3>4, <4>1
      <4> QED
        BY <3>1, <3>2, <3>3, <4>1, <4>2
    <3>6. CASE \E c : items = <<c>> /\ c.finish = ""
      <4>1. PICK c : items = <<c>> /\ c.finish = ""
        BY <3>6
      <4>2. sent' = Append(sent, c)
        BY <1>1, <1>8, <1>10, <4>1, SelfTyped
      <4>3. Len(sent') = Len(sent) + 1 /\ (\A i \in 1..Len(sent) : sent'[i] = sent[i]) /\ sent'[Len(sent) + 1] = c
        BY <1>1, <4>2, SelfTyped
      <4>7. p \in 1..Len(sent)
        BY <3>3
      <4>4. (\A i \in 1..(Len(sent) + 1) : i \in 1..Len(sent) \/ i = Len(sent) + 1) /\ Len(sent) + 1 # p
            /\ p \in 1..(Len(sent) + 1)
        BY <2>2, <4>7
      <4>5. \A i \in 1..Len(sent') : sent'[i].finish # "" <=> i = p
        BY <3>3, <4>1, <4>3, <4>4
      <4>6. Told(sent', heard', p)
        BY <3>2, <3>3, <3>4, <4>3, <4>5
      <4> QED
        BY <3>1, <3>2, <4>3, <4>4, <4>6
    <3> QED
      BY <1>7, <2>5, <3>5, <3>6
  <2>6. ASSUME w.st.finishSent, ~tr.finishSent
        PROVE  Firsts(heard') # {} /\ \E p \in 1..Len(sent') : Told(sent', heard', p)
    <3>1. PICK c : items = <<c>> /\ c.finish # "" /\ Ending(e) /\ SaysWhy(c, e)
      BY <1>7, <2>6
    <3>2. (\A i \in 1..Len(heard) : ~Ending(heard[i])) /\ \A i \in 1..Len(sent) : sent[i].finish = ""
      BY <1>1, <2>6 DEF FinishTold
    <3>3. Firsts(heard') = {Len(heard')} /\ heard'[Len(heard')] = e
      BY <1>6, <2>1, <3>1, <3>2
    <3>4. sent' = Append(sent, c)
      BY <1>1, <1>8, <1>10, <3>1, SelfTyped
    <3>5. Len(sent') = Len(sent) + 1 /\ (\A i \in 1..Len(sent) : sent'[i] = sent[i]) /\ sent'[Len(sent) + 1] = c
      BY <1>1, <3>4, SelfTyped
    <3>6. (\A i \in 1..(Len(sent) + 1) : i \in 1..Len(sent) \/ i = Len(sent) + 1)
          /\ (\A i \in 1..Len(sent) : i # Len(sent) + 1) /\ Len(sent) + 1 \in 1..(Len(sent) + 1)
      BY <2>2
    <3>7. \A i \in 1..Len(sent') : sent'[i].finish # "" <=> i = Len(sent')
      BY <3>1, <3>2, <3>5, <3>6
    <3>8. sent'[Len(sent')] = c /\ Len(sent') \in 1..Len(sent')
      BY <3>5, <3>6
    <3>9. Told(sent', heard', Len(sent'))
      BY <3>1, <3>3, <3>7, <3>8 DEF SaysWhy
    <3> QED
      BY <3>3, <3>8, <3>9
  <2>7. (\E p \in 1..Len(sent') : Told(sent', heard', p)) =>
          \E p \in 1..Len(sent') :
                /\ \A i \in 1..Len(sent') : sent'[i].finish # "" <=> i = p
                /\ sent'[p].type = "error" <=> \E j \in Firsts(heard') : heard'[j].kind = "failed"
                /\ \A j \in Firsts(heard') :
                      heard'[j].kind = "completed" /\ heard'[j].usage = "valid" => sent'[p].usage = "valid"
                /\ Firsts(heard') \subseteq {Len(heard')} => p = Len(sent')
    OBVIOUS
  <2>8. stage' # "flushed"
    BY <1>9
  <2> HIDE DEF Told
  <2> QED
    BY <1>6, <2>3, <2>4, <2>5, <2>6, <2>7, <2>8 DEF FinishTold, Firsts
<1> QED
  BY <1>1, <1>3, <1>5, <1>6, <1>8, <1>9, <1>10 DEF FinishInv

LEMMA EndFinishes ==
  ASSUME FinishInv, StreamEnds, client = "chat"
  PROVE  FinishInv'
<1>1. route = "stream" /\ upstream = "responses" /\ stage = "open" /\ stage' = "flushed" /\ RespState(tr)
      /\ heard \in Seq(Range(heard)) /\ sent \in Seq(Range(sent))
      /\ UNCHANGED <<route, upstream, client, heard>> /\ FinishTold
  BY DEF FinishInv, StreamEnds
<1>2. tr' = flushChat(tr).st /\ sent' = sent \o ToClient(tracked, flushChat(tr).out)
  BY <1>1 DEF StreamEnds, Flush
<1>3. CASE tr.finishSent \/ ~tr.started
  <2>1. tr' = tr /\ sent' = sent
    BY <1>1, <1>2, <1>3, OneToClient, SelfTyped DEF flushChat, Nothing
  <2>2. ~tr.finishSent => heard = <<>>
    BY <1>1, <1>3 DEF FinishTold
  <2>3. FinishTold'
    BY <1>1, <2>1, <2>2 DEF FinishTold, Firsts
  <2> QED
    BY <1>1, <2>1, <2>3 DEF FinishInv
<1>4. CASE ~tr.finishSent /\ tr.started
  <2>1. flushChat(tr) = finalChunk(tr)
    BY <1>4 DEF flushChat
  <2>2. RespState(tr') /\ tr'.finishSent /\ tr'.started
    BY <1>1, <1>2, <1>4, <2>1, FinalChunk
  <2>3. PICK c : IsChunk(c) /\ flushChat(tr).out = <<c>> /\ c.finish # "" /\ c.type # "error"
    BY <1>1, <2>1, FinalChunk
  <2> DEFINE d == Seam(tracked, c)
  <2>4. sent' = Append(sent, d) /\ d.finish # "" /\ d.type # "error"
    <3>1. ToClient(tracked, flushChat(tr).out) = <<d>> /\ d.finish # "" /\ d.type # "error"
      BY <2>3, OneToClient, SeamKeeps
    <3> HIDE DEF d
    <3>2. sent' = sent \o <<d>>
      BY <1>2, <3>1
    <3>3. sent \o <<d>> = Append(sent, d)
      BY <1>1, SelfTyped
    <3> QED
      BY <3>1, <3>2, <3>3
  <2> HIDE DEF d
  <2>5. sent' \in Seq(Range(sent')) /\ Len(sent') = Len(sent) + 1 /\ (\A i \in 1..Len(sent) : sent'[i] = sent[i])
        /\ sent'[Len(sent) + 1] = d /\ sent' # <<>>
    BY <1>1, <2>4, SelfTyped
  <2>6. /\ \A i \in 1..Len(sent) : sent[i].finish = ""
        /\ \A k \in 1..Len(heard) : ~Ending(heard[k])
        /\ heard # <<>>
    BY <1>1, <1>4 DEF FinishTold
  <2>7. (\A i \in 1..(Len(sent) + 1) : i \in 1..Len(sent) \/ i = Len(sent) + 1)
        /\ (\A i \in 1..Len(sent) : i # Len(sent) + 1) /\ Len(sent) + 1 \in 1..(Len(sent) + 1)
    BY <1>1
  <2>8. \A i \in 1..Len(sent') : sent'[i].finish # "" <=> i = Len(sent')
    BY <2>4, <2>5, <2>6, <2>7
  <2>9. Firsts(heard) = {}
    BY <2>6 DEF Firsts, FirstEnding
  <2>10. Firsts(heard)' = {} /\ Len(sent') \in 1..Len(sent') /\ sent'[Len(sent')] = d
    BY <1>1, <2>5, <2>7, <2>9 DEF Firsts
  <2>11. FinishTold'
    <3>1. \E p \in 1..Len(sent') :
                /\ \A i \in 1..Len(sent') : sent'[i].finish # "" <=> i = p
                /\ sent'[p].type = "error" <=> \E k \in Firsts(heard)' : heard'[k].kind = "failed"
                /\ \A k \in Firsts(heard)' :
                      heard'[k].kind = "completed" /\ heard'[k].usage = "valid" => sent'[p].usage = "valid"
                /\ Firsts(heard)' \subseteq {Len(heard')} => p = Len(sent')
      BY <2>4, <2>8, <2>10
    <3> QED
      BY <1>1, <2>2, <2>6, <3>1 DEF FinishTold
  <2> QED
    BY <1>1, <2>2, <2>5, <2>11 DEF FinishInv
<1> QED
  BY <1>3, <1>4, <1>1 DEF RespState

LEMMA FinishInvariant == Spec => []FinishInv
<1>1. Init => FinishInv /\ ReaderRests
  BY FinishStarts DEF Init, ReaderRests, ReadInit
<1>2. FinishInv /\ ReaderRests /\ [Next]_vars => (FinishInv /\ ReaderRests)'
  <2> SUFFICES ASSUME FinishInv, ReaderRests, [Next]_vars PROVE FinishInv'
    BY StreamSteps
  <2>1. UNCHANGED <<route, upstream, client>>
    BY StreamSteps
  <2>2. CASE ~(route = "stream" /\ client = "chat")
    BY <2>1, <2>2 DEF FinishInv
  <2>3. CASE route = "stream" /\ client = "chat"
    <3>1. ProcessLine \/ StreamEnds \/ StreamAborts \/ UNCHANGED translateVars
      BY <2>3, StreamSteps
    <3>2. CASE StreamAborts
      BY <3>2 DEF StreamAborts, FinishInv, FinishTold, Firsts
    <3>3. CASE UNCHANGED translateVars
      BY <3>3 DEF translateVars, FinishInv, FinishTold, Firsts
    <3> QED
      BY <2>3, <3>1, <3>2, <3>3, LineFinishes, EndFinishes
  <2> QED
    BY <2>2, <2>3
<1> QED
  BY <1>1, <1>2, PTL DEF Spec

\* A chat client sees one finish at most, that of the first completion or error
\* of the upstream, with its counts, whatever the upstream sends before, between
\* and behind them; after a clean end of anything it has seen one
\* (stream_resp2chat.go: FinishReasonSent, finalChunk; translate.go: Flush).
THEOREM FinishCorrect == Spec => []OneFinish
<1>1. FinishInv => OneFinish
  <2> SUFFICES ASSUME FinishInv, ToChatClient PROVE OneFinish
    BY DEF OneFinish
  <2>1. route = "stream" /\ client = "chat" /\ stage # "cut"
    BY DEF ToChatClient
  <2> DEFINE ends == {i \in DOMAIN sent : sent[i].finish # ""}
             first == {k \in DOMAIN heard : FirstEnding(heard, k)}
  <2>2. heard \in Seq(Range(heard)) /\ sent \in Seq(Range(sent)) /\ FinishTold
    BY <2>1 DEF FinishInv
  <2>3. DOMAIN sent = 1..Len(sent) /\ DOMAIN heard = 1..Len(heard)
    BY <2>2
  <2>4. first = Firsts(heard)
    BY <2>3 DEF Firsts
  <2>5. CASE ~tr.finishSent
    <3>1. ends = {} /\ first = {} /\ ~(stage = "flushed" /\ heard # <<>>)
      BY <2>2, <2>3, <2>5 DEF FinishTold, FirstEnding
    <3> HIDE DEF ends, first
    <3> QED
      BY <3>1 DEF OneFinish, ends, first
  <2>6. CASE tr.finishSent
    <3>1. PICK p \in 1..Len(sent) :
                /\ \A i \in 1..Len(sent) : sent[i].finish # "" <=> i = p
                /\ sent[p].type = "error" <=> \E k \in Firsts(heard) : heard[k].kind = "failed"
                /\ \A k \in Firsts(heard) :
                      heard[k].kind = "completed" /\ heard[k].usage = "valid" => sent[p].usage = "valid"
                /\ Firsts(heard) \subseteq {Len(heard)} => p = Len(sent)
      BY <2>2, <2>6 DEF FinishTold
    <3>2. ends = {p}
      BY <2>3, <3>1
    <3> HIDE DEF ends, first
    <3> QED
      BY <2>4, <3>1, <3>2 DEF OneFinish, ends, first
  <2> QED
    BY <2>5, <2>6
<1> QED
  BY <1>1, FinishInvariant, PTL

-----------------------------------------------------------------------------
(* A chat upstream and a Responses client: the ledger of the items. *)

Fragment == (Nat \X STRING) \cup {<<"{}">>}
Text == Seq(Fragment)

\* An item without an index is the reasoning that was never started.
Items ==
    {<<>>, <<"reasoning">>} \cup {<<"reasoning", c>> : c \in ChoiceIds}
        \cup {<<"message", c>> : c \in ChoiceIds} \cup {<<"call", n>> : n \in CallSlots}

EventTypes == {"created", "open", "delta", "close", "completed"}
Event == [type : EventTypes, item : Items, text : Text]

\* What holds of the events a client has: every cut of them included.
Proper(evs) ==
    /\ \A i, j \in Places(evs, "open") : evs[i].item = evs[j].item => i = j
    /\ \A i, j \in Places(evs, "close") : evs[i].item = evs[j].item => i = j
    /\ \A i, j \in Places(evs, "completed") : i = j
    /\ \A c \in Places(evs, "completed") : \A o \in Places(evs, "open") :
          o < c => \E k \in Places(evs, "close") : o < k /\ k < c /\ evs[k].item = evs[o].item

\* opened and closed are the items the translator knows to be, over is its
\* mark of the end.
Ledger(opened, closed, over, evs) ==
    /\ Proper(evs)
    /\ \A i \in Places(evs, "open") : evs[i].item \in opened
    /\ \A i \in Places(evs, "close") : evs[i].item \in closed
    /\ \A x \in closed : \E i \in Places(evs, "close") : evs[i].item = x
    /\ over <=> Places(evs, "completed") # {}
    /\ ~over => \A o \in Places(evs, "open"), k \in Places(evs, "close") : evs[o].item = evs[k].item => o < k

LEMMA PlacesAppend ==
  ASSUME NEW evs \in Seq(Event), NEW e \in Event
  PROVE  /\ Len(evs) \in Nat
         /\ \A i \in 1..Len(evs) : Append(evs, e)[i] = evs[i]
         /\ Append(evs, e)[Len(evs) + 1] = e
         /\ \A t : Places(evs, t) \subseteq 1..Len(evs)
         /\ \A t : t # e.type => Places(Append(evs, e), t) = Places(evs, t)
         /\ Places(Append(evs, e), e.type) = Places(evs, e.type) \cup {Len(evs) + 1}
<1> DEFINE n == Len(evs)
           a == Append(evs, e)
<1>1. n \in Nat /\ DOMAIN evs = 1..n /\ DOMAIN a = 1..(n + 1) /\ (\A i \in 1..n : a[i] = evs[i]) /\ a[n + 1] = e
  BY AppendProperties, LenProperties
<1> HIDE DEF a, n
<1>2. \A i \in 1..(n + 1) : i \in 1..n \/ i = n + 1
  BY <1>1
<1>3. \A i \in 1..n : i \in 1..(n + 1)
  BY <1>1
<1>4. \A t : Places(evs, t) \subseteq 1..n
  BY <1>1 DEF Places
<1>5. \A t : t # e.type => Places(a, t) = Places(evs, t)
  BY <1>1, <1>2, <1>3 DEF Places
<1>6. n + 1 \in 1..(n + 1)
  BY <1>1
<1>7. Places(a, e.type) = Places(evs, e.type) \cup {n + 1}
  BY <1>1, <1>2, <1>3, <1>6 DEF Places
<1> QED
  BY <1>1, <1>4, <1>5, <1>7 DEF a, n

LEMMA Later ==
  ASSUME NEW n \in Nat
  PROVE  /\ n + 1 \notin 1..n
         /\ \A i \in 1..n : i < n + 1 /\ ~(n + 1 < i)
OBVIOUS

\* An item that was not opened yet, and not closed while the response goes on.
LEMMA LedgerOpens ==
  ASSUME NEW opened, NEW closed, NEW over, NEW evs \in Seq(Event), Ledger(opened, closed, over, evs),
         NEW e \in Event, e.type = "open", e.item \notin opened, over \/ e.item \notin closed
  PROVE  Ledger(opened \cup {e.item}, closed, over, Append(evs, e))
<1> DEFINE n == Len(evs)
           a == Append(evs, e)
<1>1. /\ n \in Nat /\ (\A i \in 1..n : a[i] = evs[i]) /\ a[n + 1] = e
      /\ Places(evs, "open") \subseteq 1..n /\ Places(evs, "close") \subseteq 1..n /\ Places(evs, "completed") \subseteq 1..n
      /\ Places(a, "open") = Places(evs, "open") \cup {n + 1}
      /\ Places(a, "close") = Places(evs, "close") /\ Places(a, "completed") = Places(evs, "completed")
  BY PlacesAppend
<1>2. n + 1 \notin 1..n /\ \A i \in 1..n : i < n + 1 /\ ~(n + 1 < i)
  BY <1>1, Later
<1> HIDE DEF a, n
<1>3. Proper(a)
  <2>1. Proper(evs)
    BY DEF Ledger
  <2>2. \A i \in Places(evs, "open") : evs[i].item # e.item
    BY DEF Ledger
  <2>3. \A i, j \in Places(a, "open") : a[i].item = a[j].item => i = j
    BY <1>1, <2>1, <2>2 DEF Proper
  <2>4. \A c \in Places(a, "completed") : \A o \in Places(a, "open") : o < c => o \in Places(evs, "open")
    BY <1>1, <1>2
  <2> QED
    BY <1>1, <2>1, <2>3, <2>4 DEF Proper
<1> QED
  BY <1>1, <1>2, <1>3 DEF Ledger, a

LEMMA LedgerCloses ==
  ASSUME NEW opened, NEW closed, NEW over, NEW evs \in Seq(Event), Ledger(opened, closed, over, evs),
         NEW e \in Event, e.type = "close", e.item \notin closed
  PROVE  Ledger(opened, closed \cup {e.item}, over, Append(evs, e))
<1> DEFINE n == Len(evs)
           a == Append(evs, e)
<1>1. /\ n \in Nat /\ (\A i \in 1..n : a[i] = evs[i]) /\ a[n + 1] = e
      /\ Places(evs, "open") \subseteq 1..n /\ Places(evs, "close") \subseteq 1..n /\ Places(evs, "completed") \subseteq 1..n
      /\ Places(a, "close") = Places(evs, "close") \cup {n + 1}
      /\ Places(a, "open") = Places(evs, "open") /\ Places(a, "completed") = Places(evs, "completed")
  BY PlacesAppend
<1>2. n + 1 \notin 1..n /\ \A i \in 1..n : i < n + 1 /\ ~(n + 1 < i)
  BY <1>1, Later
<1> HIDE DEF a, n
<1>3. Proper(a)
  BY <1>1, <1>2 DEF Ledger, Proper
<1>4. \A x \in closed \cup {e.item} : \E i \in Places(a, "close") : a[i].item = x
  <2>1. \A x \in closed : \E i \in Places(a, "close") : a[i].item = x
    BY <1>1 DEF Ledger
  <2>2. n + 1 \in Places(a, "close") /\ a[n + 1].item = e.item
    BY <1>1
  <2> QED
    BY <2>1, <2>2
<1>5. \A i \in Places(a, "close") : a[i].item \in closed \cup {e.item}
  BY <1>1 DEF Ledger
<1>6. \A i \in Places(a, "open") : a[i].item \in opened
  BY <1>1 DEF Ledger
<1>7. over <=> Places(a, "completed") # {}
  BY <1>1 DEF Ledger
<1>8. ~over => \A o \in Places(a, "open"), k \in Places(a, "close") : a[o].item = a[k].item => o < k
  BY <1>1, <1>2 DEF Ledger
<1> QED
  BY <1>3, <1>4, <1>5, <1>6, <1>7, <1>8 DEF Ledger, a

\* The response may only complete once all that was opened is closed.
LEMMA LedgerCompletes ==
  ASSUME NEW opened, NEW closed, NEW evs \in Seq(Event), Ledger(opened, closed, FALSE, evs),
         opened \subseteq closed, NEW e \in Event, e.type = "completed"
  PROVE  Ledger(opened, closed, TRUE, Append(evs, e))
<1> DEFINE n == Len(evs)
           a == Append(evs, e)
<1>1. /\ n \in Nat /\ (\A i \in 1..n : a[i] = evs[i]) /\ a[n + 1] = e
      /\ Places(evs, "open") \subseteq 1..n /\ Places(evs, "close") \subseteq 1..n
      /\ Places(a, "completed") = Places(evs, "completed") \cup {n + 1}
      /\ Places(a, "open") = Places(evs, "open") /\ Places(a, "close") = Places(evs, "close")
  BY PlacesAppend
<1>2. n + 1 \notin 1..n /\ \A i \in 1..n : i < n + 1 /\ ~(n + 1 < i)
  BY <1>1, Later
<1>3. Places(evs, "completed") = {}
  BY DEF Ledger
<1> HIDE DEF a, n
<1>4. \A o \in Places(a, "open") : \E k \in Places(a, "close") : o < k /\ k < n + 1 /\ a[k].item = a[o].item
  BY <1>1, <1>2 DEF Ledger
<1>5. Proper(a)
  BY <1>1, <1>2, <1>3, <1>4, SMTT(60) DEF Ledger, Proper
<1>6. Places(a, "completed") # {}
  BY <1>1
<1>7. /\ \A i \in Places(a, "open") : a[i].item \in opened
      /\ \A i \in Places(a, "close") : a[i].item \in closed
      /\ \A x \in closed : \E i \in Places(a, "close") : a[i].item = x
  BY <1>1 DEF Ledger
<1> QED
  BY <1>5, <1>6, <1>7 DEF Ledger, a

LEMMA LedgerSkips ==
  ASSUME NEW opened, NEW closed, NEW over, NEW evs \in Seq(Event), Ledger(opened, closed, over, evs),
         NEW e \in Event, e.type \notin {"open", "close", "completed"}
  PROVE  Ledger(opened, closed, over, Append(evs, e))
<1> DEFINE n == Len(evs)
           a == Append(evs, e)
<1>1. /\ n \in Nat /\ (\A i \in 1..n : a[i] = evs[i]) /\ a[n + 1] = e
      /\ Places(evs, "open") \subseteq 1..n /\ Places(evs, "close") \subseteq 1..n /\ Places(evs, "completed") \subseteq 1..n
      /\ Places(a, "close") = Places(evs, "close")
      /\ Places(a, "open") = Places(evs, "open") /\ Places(a, "completed") = Places(evs, "completed")
  BY PlacesAppend
<1> HIDE DEF a, n
<1>3. Proper(a)
  BY <1>1 DEF Ledger, Proper
<1> QED
  BY <1>1, <1>3 DEF Ledger, a

\* A cut of a proper stream is proper.
LEMMA ProperCut ==
  ASSUME NEW evs \in Seq(Event), NEW cut \in Seq(Event), Proper(evs), Len(cut) <= Len(evs),
         \A i \in 1..Len(cut) : cut[i] = evs[i]
  PROVE  Proper(cut)
<1>1. DOMAIN evs = 1..Len(evs) /\ DOMAIN cut = 1..Len(cut) /\ Len(evs) \in Nat /\ Len(cut) \in Nat
  BY LenProperties
<1>2. \A i \in 1..Len(cut) : i \in 1..Len(evs)
  BY <1>1
<1>3. \A t : \A i \in Places(cut, t) : i \in Places(evs, t) /\ cut[i] = evs[i] /\ i \in 1..Len(cut)
  BY <1>1, <1>2 DEF Places
<1>4. \A t : \A c \in 1..Len(cut) : \A k \in Places(evs, t) : k < c => k \in Places(cut, t) /\ cut[k] = evs[k]
  BY <1>1 DEF Places
<1>5. \A c \in Places(cut, "completed") : \A o \in Places(cut, "open") :
          o < c => \E k \in Places(cut, "close") : o < k /\ k < c /\ cut[k].item = cut[o].item
  <2> SUFFICES ASSUME NEW c \in Places(cut, "completed"), NEW o \in Places(cut, "open"), o < c
               PROVE  \E k \in Places(cut, "close") : o < k /\ k < c /\ cut[k].item = cut[o].item
    OBVIOUS
  <2>1. PICK k \in Places(evs, "close") : o < k /\ k < c /\ evs[k].item = evs[o].item
    BY <1>3 DEF Proper
  <2> QED
    BY <1>3, <1>4, <2>1
<1> QED
  BY <1>3, <1>5 DEF Proper

-----------------------------------------------------------------------------
(* The state of the translator against the ledger. *)

ReasoningState == [at : {<<>>} \cup {<<c>> : c \in ChoiceIds}, done : BOOLEAN, buf : Text]
MessageState == [added : BOOLEAN, done : BOOLEAN, buf : Text]
Names == STRING \cup {""}
CallState == [id : BOOLEAN, name : Names, args : Text, added : BOOLEAN, done : BOOLEAN]

ChatState ==
    [started : BOOLEAN, thinking : BOOLEAN, reasoning : ReasoningState,
     msg : [ChoiceIds -> MessageState], func : [CallSlots -> CallState], completed : BOOLEAN]

Work == [st : ChatState, out : Seq(Event)]

Opened(s) ==
    {<<"reasoning", c>> : c \in {c \in ChoiceIds : s.reasoning.at = <<c>>}}
        \cup {<<"message", c>> : c \in {c \in ChoiceIds : s.msg[c].added}}
        \cup {<<"call", n>> : n \in {n \in CallSlots : s.func[n].added}}

Closed(s) ==
    {<<"reasoning", c>> : c \in {c \in ChoiceIds : s.reasoning.at = <<c>> /\ s.reasoning.done}}
        \cup {<<"message", c>> : c \in {c \in ChoiceIds : s.msg[c].done}}
        \cup {<<"call", n>> : n \in {n \in CallSlots : s.func[n].done}}

\* What is closed was opened, a call that is announced has its id.
Sound(s) ==
    /\ s.reasoning.done => s.reasoning.at # <<>>
    /\ \A c \in ChoiceIds : s.msg[c].done => s.msg[c].added
    /\ \A n \in CallSlots : s.func[n].added => s.func[n].id

\* Calls are closed by the end only.
Fresh(s) == ~s.completed => \A n \in CallSlots : ~s.func[n].done

\* The events of earlier lines, and those of this line so far, add up.
Good(pre, w) ==
    /\ w \in Work /\ Sound(w.st)
    /\ Ledger(Opened(w.st), Closed(w.st), w.st.completed, pre \o w.out)

WithReasoning(w, r) == [w EXCEPT !.st.reasoning = r]
WithMessage(w, c, m) == [w EXCEPT !.st.msg[c] = m]
WithCall(w, n, f) == [w EXCEPT !.st.func[n] = f]

LEMMA WithReasoningIs ==
  ASSUME NEW w \in Work, NEW r \in ReasoningState
  PROVE  /\ WithReasoning(w, r) \in Work /\ WithReasoning(w, r).out = w.out
         /\ WithReasoning(w, r).st.reasoning = r
         /\ WithReasoning(w, r).st.msg = w.st.msg /\ WithReasoning(w, r).st.func = w.st.func
         /\ WithReasoning(w, r).st.completed = w.st.completed /\ WithReasoning(w, r).st.thinking = w.st.thinking
BY DEF WithReasoning, Work, ChatState

LEMMA WithMessageIs ==
  ASSUME NEW w \in Work, NEW c \in ChoiceIds, NEW m \in MessageState
  PROVE  /\ WithMessage(w, c, m) \in Work /\ WithMessage(w, c, m).out = w.out
         /\ WithMessage(w, c, m).st.msg = [w.st.msg EXCEPT ![c] = m]
         /\ WithMessage(w, c, m).st.reasoning = w.st.reasoning /\ WithMessage(w, c, m).st.func = w.st.func
         /\ WithMessage(w, c, m).st.completed = w.st.completed /\ WithMessage(w, c, m).st.thinking = w.st.thinking
BY DEF WithMessage, Work, ChatState

LEMMA WithCallIs ==
  ASSUME NEW w \in Work, NEW n \in CallSlots, NEW f \in CallState
  PROVE  /\ WithCall(w, n, f) \in Work /\ WithCall(w, n, f).out = w.out
         /\ WithCall(w, n, f).st.func = [w.st.func EXCEPT ![n] = f]
         /\ WithCall(w, n, f).st.reasoning = w.st.reasoning /\ WithCall(w, n, f).st.msg = w.st.msg
         /\ WithCall(w, n, f).st.completed = w.st.completed /\ WithCall(w, n, f).st.thinking = w.st.thinking
BY DEF WithCall, Work, ChatState

LEMMA WorkIs ==
  ASSUME NEW w \in Work
  PROVE  /\ w.out \in Seq(Event) /\ w.st \in ChatState
         /\ w.st.reasoning \in ReasoningState
         /\ w.st.msg \in [ChoiceIds -> MessageState] /\ w.st.func \in [CallSlots -> CallState]
         /\ w.st.completed \in BOOLEAN /\ w.st.started \in BOOLEAN /\ w.st.thinking \in BOOLEAN
BY DEF Work, ChatState

LEMMA ItemsKnown ==
  ASSUME NEW s
  PROVE  /\ \A c \in ChoiceIds : <<"reasoning", c>> \in Opened(s) <=> s.reasoning.at = <<c>>
         /\ \A c \in ChoiceIds : <<"reasoning", c>> \in Closed(s) <=> s.reasoning.at = <<c>> /\ s.reasoning.done
         /\ \A c \in ChoiceIds : <<"message", c>> \in Opened(s) <=> s.msg[c].added
         /\ \A c \in ChoiceIds : <<"message", c>> \in Closed(s) <=> s.msg[c].done
         /\ \A n \in CallSlots : <<"call", n>> \in Opened(s) <=> s.func[n].added
         /\ \A n \in CallSlots : <<"call", n>> \in Closed(s) <=> s.func[n].done
BY DEF Opened, Closed

LEMMA MessageItems ==
  ASSUME NEW s, NEW t, NEW c \in ChoiceIds,
         t.reasoning = s.reasoning, t.func = s.func,
         \A d \in ChoiceIds \ {c} : t.msg[d] = s.msg[d],
         s.msg[c].added => t.msg[c].added, s.msg[c].done => t.msg[c].done
  PROVE  /\ Opened(t) = Opened(s) \cup (IF t.msg[c].added THEN {<<"message", c>>} ELSE {})
         /\ Closed(t) = Closed(s) \cup (IF t.msg[c].done THEN {<<"message", c>>} ELSE {})
BY DEF Opened, Closed

LEMMA CallLedger ==
  ASSUME NEW s, NEW t, NEW n \in CallSlots,
         t.reasoning = s.reasoning, t.msg = s.msg,
         \A d \in CallSlots \ {n} : t.func[d] = s.func[d],
         s.func[n].added => t.func[n].added, s.func[n].done => t.func[n].done
  PROVE  /\ Opened(t) = Opened(s) \cup (IF t.func[n].added THEN {<<"call", n>>} ELSE {})
         /\ Closed(t) = Closed(s) \cup (IF t.func[n].done THEN {<<"call", n>>} ELSE {})
BY DEF Opened, Closed

LEMMA EmitIs ==
  ASSUME NEW pre \in Seq(Event), NEW w \in Work, NEW type \in EventTypes, NEW item \in Items, NEW text \in Text
  PROVE  /\ Emit(w, type, item, text) \in Work /\ Emit(w, type, item, text).st = w.st
         /\ [type |-> type, item |-> item, text |-> text] \in Event
         /\ pre \o Emit(w, type, item, text).out = Append(pre \o w.out, [type |-> type, item |-> item, text |-> text])
         /\ pre \o w.out \in Seq(Event)
<1> DEFINE e == [type |-> type, item |-> item, text |-> text]
<1>1. e \in Event
  BY DEF Event
<1>2. w.out \in Seq(Event)
  BY WorkIs
<1> HIDE DEF e
<1>3. Append(w.out, e) \in Seq(Event)
  BY <1>1, <1>2
<1>4. Emit(w, type, item, text) = [w EXCEPT !.out = Append(@, e)]
  BY DEF Emit, e
<1>5. Emit(w, type, item, text) \in Work /\ Emit(w, type, item, text).st = w.st
      /\ Emit(w, type, item, text).out = Append(w.out, e)
  BY <1>3, <1>4 DEF Work
<1>6. pre \o Append(w.out, e) = Append(pre \o w.out, e)
  BY <1>1, <1>2
<1>7. pre \o w.out \in Seq(Event)
  BY <1>2
<1> QED
  BY <1>1, <1>5, <1>6, <1>7 DEF e

\* Nothing but a call's own events moves it, and nothing but the end completes.
Beside(w, v) == v.st.func = w.st.func /\ v.st.completed = w.st.completed

LEMMA EmitSkips ==
  ASSUME NEW pre \in Seq(Event), NEW w, Good(pre, w), NEW type \in EventTypes, NEW item \in Items, NEW text \in Text,
         type \notin {"open", "close", "completed"}
  PROVE  /\ Good(pre, Emit(w, type, item, text))
         /\ Emit(w, type, item, text).st = w.st
<1> DEFINE e == [type |-> type, item |-> item, text |-> text]
           v == Emit(w, type, item, text)
<1>1. w \in Work
  BY DEF Good
<1>0. /\ Emit(w, type, item, text) \in Work /\ Emit(w, type, item, text).st = w.st
      /\ [type |-> type, item |-> item, text |-> text] \in Event
      /\ pre \o Emit(w, type, item, text).out = Append(pre \o w.out, [type |-> type, item |-> item, text |-> text])
      /\ pre \o w.out \in Seq(Event)
  BY <1>1, EmitIs
<1>2. v \in Work /\ v.st = w.st /\ e \in Event /\ pre \o v.out = Append(pre \o w.out, e) /\ pre \o w.out \in Seq(Event)
  BY <1>0
<1>3. e.type = type
  OBVIOUS
<1> HIDE DEF e, v
<1>4. Ledger(Opened(w.st), Closed(w.st), w.st.completed, Append(pre \o w.out, e))
  BY <1>2, <1>3, LedgerSkips DEF Good
<1>5. Good(pre, v)
  BY <1>2, <1>4 DEF Good
<1> QED
  BY <1>2, <1>5 DEF v

LEMMA EmitOpens ==
  ASSUME NEW pre \in Seq(Event), NEW w, Good(pre, w), NEW u \in Work, Sound(u.st),
         NEW item \in Items, NEW text \in Text,
         u.out = w.out, u.st.completed = w.st.completed,
         Opened(u.st) = Opened(w.st) \cup {item}, Closed(u.st) = Closed(w.st),
         item \notin Opened(w.st), w.st.completed \/ item \notin Closed(w.st)
  PROVE  /\ Good(pre, Emit(u, "open", item, text))
         /\ Emit(u, "open", item, text).st = u.st
<1> DEFINE e == [type |-> "open", item |-> item, text |-> text]
           v == Emit(u, "open", item, text)
<1>0. /\ Emit(u, "open", item, text) \in Work /\ Emit(u, "open", item, text).st = u.st
      /\ [type |-> "open", item |-> item, text |-> text] \in Event
      /\ pre \o Emit(u, "open", item, text).out = Append(pre \o u.out, [type |-> "open", item |-> item, text |-> text])
      /\ pre \o u.out \in Seq(Event)
  <2>1. "open" \in EventTypes
    BY DEF EventTypes
  <2> QED
    BY <2>1, EmitIs
<1>2. v \in Work /\ v.st = u.st /\ e \in Event /\ pre \o v.out = Append(pre \o u.out, e) /\ pre \o u.out \in Seq(Event)
  BY <1>0
<1>3. e.type = "open" /\ e.item = item
  OBVIOUS
<1> HIDE DEF e, v
<1>4. Ledger(Opened(w.st) \cup {e.item}, Closed(w.st), w.st.completed, Append(pre \o w.out, e))
  BY <1>2, <1>3, LedgerOpens DEF Good
<1>5. Good(pre, v)
  BY <1>2, <1>3, <1>4 DEF Good
<1> QED
  BY <1>2, <1>5 DEF v

LEMMA EmitCloses ==
  ASSUME NEW pre \in Seq(Event), NEW w, Good(pre, w), NEW u \in Work, Sound(u.st),
         NEW item \in Items, NEW text \in Text,
         u.out = w.out, u.st.completed = w.st.completed,
         Opened(u.st) = Opened(w.st), Closed(u.st) = Closed(w.st) \cup {item},
         item \notin Closed(w.st)
  PROVE  /\ Good(pre, Emit(u, "close", item, text))
         /\ Emit(u, "close", item, text).st = u.st
<1> DEFINE e == [type |-> "close", item |-> item, text |-> text]
           v == Emit(u, "close", item, text)
<1>0. /\ Emit(u, "close", item, text) \in Work /\ Emit(u, "close", item, text).st = u.st
      /\ [type |-> "close", item |-> item, text |-> text] \in Event
      /\ pre \o Emit(u, "close", item, text).out = Append(pre \o u.out, [type |-> "close", item |-> item, text |-> text])
      /\ pre \o u.out \in Seq(Event)
  <2>1. "close" \in EventTypes
    BY DEF EventTypes
  <2> QED
    BY <2>1, EmitIs
<1>2. v \in Work /\ v.st = u.st /\ e \in Event /\ pre \o v.out = Append(pre \o u.out, e) /\ pre \o u.out \in Seq(Event)
  BY <1>0
<1>3. e.type = "close" /\ e.item = item
  OBVIOUS
<1> HIDE DEF e, v
<1>4. Ledger(Opened(w.st), Closed(w.st) \cup {e.item}, w.st.completed, Append(pre \o w.out, e))
  BY <1>2, <1>3, LedgerCloses DEF Good
<1>5. Good(pre, v)
  BY <1>2, <1>3, <1>4 DEF Good
<1> QED
  BY <1>2, <1>5 DEF v

LEMMA TextJoins == ASSUME NEW a \in Text, NEW b \in Text PROVE a \o b \in Text
BY DEF Text

\* Every place an event can speak of.
LEMMA ItemsAre ==
  /\ \A c \in ChoiceIds : <<"reasoning", c>> \in Items /\ <<"message", c>> \in Items
  /\ \A n \in CallSlots : <<"call", n>> \in Items
  /\ <<>> \in Items /\ <<"reasoning">> \in Items
  /\ <<>> \in Text /\ NoArguments \in Text
BY DEF Items, Text, Fragment, NoArguments

LEMMA ReasoningItemIs ==
  ASSUME NEW w \in Work
  PROVE  /\ w.st.reasoning.at = <<>> => ReasoningItem(w) = <<"reasoning">>
         /\ \A c \in ChoiceIds : w.st.reasoning.at = <<c>> => ReasoningItem(w) = <<"reasoning", c>>
         /\ ReasoningItem(w) \in Items
         /\ w.st.reasoning.at # <<>> => \E c \in ChoiceIds : w.st.reasoning.at = <<c>>
<1>1. w.st.reasoning.at \in {<<>>} \cup {<<c>> : c \in ChoiceIds}
  BY WorkIs DEF ReasoningState
<1>2. w.st.reasoning.at = <<>> => ReasoningItem(w) = <<"reasoning">>
  BY DEF ReasoningItem
<1>3. ASSUME NEW c \in ChoiceIds, w.st.reasoning.at = <<c>> PROVE ReasoningItem(w) = <<"reasoning", c>>
  <2>1. <<"reasoning">> \o <<c>> = <<"reasoning", c>>
    BY JoinTwo
  <2> QED
    BY <1>3, <2>1 DEF ReasoningItem
<1> QED
  BY <1>1, <1>2, <1>3, ItemsAre

LEMMA StartReasoningKeeps ==
  ASSUME NEW pre \in Seq(Event), NEW w, Good(pre, w), NEW c \in ChoiceIds
  PROVE  Good(pre, startReasoning(w, c)) /\ Beside(w, startReasoning(w, c))
<1>1. CASE w.st.reasoning.at # <<>>
  BY <1>1 DEF startReasoning, Beside
<1>2. CASE w.st.reasoning.at = <<>>
  <2> DEFINE r == [w.st.reasoning EXCEPT !.at = <<c>>]
             u == WithReasoning(w, r)
  <2>1. w \in Work /\ w.st.reasoning \in ReasoningState /\ Sound(w.st)
    BY WorkIs DEF Good
  <2>2. r \in ReasoningState /\ r.at = <<c>> /\ r.done = w.st.reasoning.done
    BY <2>1 DEF ReasoningState
  <2>3. startReasoning(w, c) = Emit(u, "open", <<"reasoning", c>>, <<>>)
    BY <1>2 DEF startReasoning, WithReasoning
  <2> HIDE DEF r
  <2>4. u \in Work /\ u.out = w.out /\ u.st.reasoning = r /\ u.st.msg = w.st.msg /\ u.st.func = w.st.func
        /\ u.st.completed = w.st.completed
    BY <2>1, <2>2, WithReasoningIs
  <2> HIDE DEF u
  <2>5. ~w.st.reasoning.done
    BY <1>2, <2>1 DEF Sound
  <2>6. Sound(u.st)
    BY <2>1, <2>2, <2>4, <2>5 DEF Sound
  <2>7. Opened(u.st) = Opened(w.st) \cup {<<"reasoning", c>>} /\ Closed(u.st) = Closed(w.st)
    BY <1>2, <2>2, <2>4, <2>5 DEF Opened, Closed
  <2>8. <<"reasoning", c>> \notin Opened(w.st) /\ <<"reasoning", c>> \notin Closed(w.st)
    BY <1>2 DEF Opened, Closed
  <2>9. Good(pre, startReasoning(w, c)) /\ startReasoning(w, c).st = u.st
    <3>1. <<"reasoning", c>> \in Items /\ <<>> \in Text
      BY ItemsAre
    <3>2. Good(pre, Emit(u, "open", <<"reasoning", c>>, <<>>)) /\ Emit(u, "open", <<"reasoning", c>>, <<>>).st = u.st
      BY <2>4, <2>6, <2>7, <2>8, <3>1, EmitOpens
    <3> QED
      BY <2>3, <3>2
  <2> QED
    BY <2>4, <2>9 DEF Beside
<1> QED
  BY <1>1, <1>2

LEMMA ReasoningDeltaKeeps ==
  ASSUME NEW pre \in Seq(Event), NEW w, Good(pre, w), NEW text \in Text
  PROVE  Good(pre, emitReasoningDelta(w, text)) /\ Beside(w, emitReasoningDelta(w, text))
<1>1. CASE text = <<>>
  BY <1>1 DEF emitReasoningDelta, Beside
<1>2. CASE text # <<>>
  <2> DEFINE r == [w.st.reasoning EXCEPT !.buf = @ \o text]
             u == WithReasoning(w, r)
  <2>1. w \in Work /\ w.st.reasoning \in ReasoningState /\ Sound(w.st)
    BY WorkIs DEF Good
  <2>0. w.st.reasoning.buf \o text \in Text
    <3>1. w.st.reasoning.buf \in Text
      BY <2>1 DEF ReasoningState
    <3> QED
      BY <3>1, TextJoins
  <2>2. r \in ReasoningState /\ r.at = w.st.reasoning.at /\ r.done = w.st.reasoning.done
    BY <2>0, <2>1 DEF ReasoningState
  <2>3. emitReasoningDelta(w, text) = Emit(u, "delta", ReasoningItem(w), text)
    BY <1>2 DEF emitReasoningDelta, WithReasoning
  <2> HIDE DEF r
  <2>4. u \in Work /\ u.out = w.out /\ u.st.reasoning = r /\ u.st.msg = w.st.msg /\ u.st.func = w.st.func
        /\ u.st.completed = w.st.completed
    BY <2>1, <2>2, WithReasoningIs
  <2> HIDE DEF u
  <2>5. Sound(u.st) /\ Opened(u.st) = Opened(w.st) /\ Closed(u.st) = Closed(w.st)
    BY <2>1, <2>2, <2>4 DEF Sound, Opened, Closed
  <2>6. Good(pre, u)
    BY <2>4, <2>5 DEF Good
  <2>7. Good(pre, emitReasoningDelta(w, text)) /\ emitReasoningDelta(w, text).st = u.st
    <3>1. ReasoningItem(w) \in Items /\ "delta" \in EventTypes /\ "delta" \notin {"open", "close", "completed"}
      BY <2>1, ReasoningItemIs DEF EventTypes
    <3>2. Good(pre, Emit(u, "delta", ReasoningItem(w), text)) /\ Emit(u, "delta", ReasoningItem(w), text).st = u.st
      BY <2>6, <3>1, EmitSkips
    <3> QED
      BY <2>3, <3>2
  <2> QED
    BY <2>4, <2>7 DEF Beside
<1> QED
  BY <1>1, <1>2

\* Either way the reasoning is closed if it was ever opened.
LEMMA CloseReasoningKeeps ==
  ASSUME NEW pre \in Seq(Event), NEW w, Good(pre, w)
  PROVE  /\ Good(pre, closeReasoning(w)) /\ Beside(w, closeReasoning(w))
         /\ closeReasoning(w).st.msg = w.st.msg
         /\ closeReasoning(w).st.reasoning.at = <<>> \/ closeReasoning(w).st.reasoning.done
<1>1. CASE w.st.reasoning.at = <<>> \/ w.st.reasoning.done
  BY <1>1 DEF closeReasoning, Beside
<1>2. CASE w.st.reasoning.at # <<>> /\ ~w.st.reasoning.done
  <2> DEFINE r == [w.st.reasoning EXCEPT !.done = TRUE]
             u == WithReasoning(w, r)
  <2>1. w \in Work /\ w.st.reasoning \in ReasoningState /\ Sound(w.st)
    BY WorkIs DEF Good
  <2>2. r \in ReasoningState /\ r.at = w.st.reasoning.at /\ r.done
    BY <2>1 DEF ReasoningState
  <2>3. closeReasoning(w) = Emit(u, "close", ReasoningItem(w), w.st.reasoning.buf)
    BY <1>2 DEF closeReasoning, WithReasoning
  <2> HIDE DEF r
  <2>4. u \in Work /\ u.out = w.out /\ u.st.reasoning = r /\ u.st.msg = w.st.msg /\ u.st.func = w.st.func
        /\ u.st.completed = w.st.completed
    BY <2>1, <2>2, WithReasoningIs
  <2> HIDE DEF u
  <2>5. PICK c \in ChoiceIds : w.st.reasoning.at = <<c>> /\ ReasoningItem(w) = <<"reasoning", c>>
    BY <1>2, <2>1, ReasoningItemIs
  <2>6. Sound(u.st)
    BY <1>2, <2>1, <2>2, <2>4 DEF Sound
  <2>7. Opened(u.st) = Opened(w.st)
    BY <2>2, <2>4 DEF Opened
  <2>8. Closed(u.st) = Closed(w.st) \cup {<<"reasoning", c>>}
    BY <1>2, <2>2, <2>4, <2>5 DEF Closed
  <2>9. <<"reasoning", c>> \notin Closed(w.st)
    BY <1>2, ItemsKnown
  <2>10. w.st.reasoning.buf \in Text
    BY <2>1 DEF ReasoningState
  <2>11. Good(pre, closeReasoning(w)) /\ closeReasoning(w).st = u.st
    <3>1. <<"reasoning", c>> \in Items
      BY ItemsAre
    <3>2. /\ Good(pre, Emit(u, "close", <<"reasoning", c>>, w.st.reasoning.buf))
          /\ Emit(u, "close", <<"reasoning", c>>, w.st.reasoning.buf).st = u.st
      BY <2>4, <2>6, <2>7, <2>8, <2>9, <2>10, <3>1, EmitCloses
    <3> QED
      BY <2>3, <2>5, <3>2
  <2> QED
    BY <2>2, <2>4, <2>11 DEF Beside
<1> QED
  BY <1>1, <1>2

\* Text goes to the buffer of a message that is open.
LEMMA BufferKeeps ==
  ASSUME NEW pre \in Seq(Event), NEW w, Good(pre, w), NEW c \in ChoiceIds, NEW text \in Text
  PROVE  /\ Good(pre, [w EXCEPT !.st.msg[c].buf = @ \o text])
         /\ Beside(w, [w EXCEPT !.st.msg[c].buf = @ \o text])
<1> DEFINE m == [w.st.msg[c] EXCEPT !.buf = @ \o text]
           u == WithMessage(w, c, m)
<1>1. w \in Work /\ w.st.msg[c] \in MessageState /\ Sound(w.st) /\ w.st.msg \in [ChoiceIds -> MessageState]
  BY WorkIs DEF Good
<1>2. w.st.msg[c].buf \o text \in Text
  BY <1>1, TextJoins DEF MessageState
<1>3. m \in MessageState /\ m.added = w.st.msg[c].added /\ m.done = w.st.msg[c].done
  BY <1>1, <1>2 DEF MessageState
<1>4. [w EXCEPT !.st.msg[c].buf = @ \o text] = u
  BY DEF WithMessage
<1> HIDE DEF m
<1>5. u \in Work /\ u.out = w.out /\ u.st.msg = [w.st.msg EXCEPT ![c] = m] /\ u.st.reasoning = w.st.reasoning
      /\ u.st.func = w.st.func /\ u.st.completed = w.st.completed
  BY <1>1, <1>3, WithMessageIs
<1> HIDE DEF u
<1>6. \A d \in ChoiceIds : (u.st.msg[d].added <=> w.st.msg[d].added) /\ (u.st.msg[d].done <=> w.st.msg[d].done)
  BY <1>1, <1>3, <1>5
<1>7. Sound(u.st) /\ Opened(u.st) = Opened(w.st) /\ Closed(u.st) = Closed(w.st)
  BY <1>1, <1>5, <1>6 DEF Sound, Opened, Closed
<1> QED
  BY <1>4, <1>5, <1>7 DEF Good, Beside

OpenMessage(w, c) ==
    IF w.st.msg[c].added THEN w
    ELSE Emit([w EXCEPT !.st.msg[c].added = TRUE], "open", <<"message", c>>, <<>>)

LEMMA OpenMessageKeeps ==
  ASSUME NEW pre \in Seq(Event), NEW w, Good(pre, w), NEW c \in ChoiceIds
  PROVE  Good(pre, OpenMessage(w, c)) /\ Beside(w, OpenMessage(w, c))
<1>1. CASE w.st.msg[c].added
  BY <1>1 DEF OpenMessage, Beside
<1>2. CASE ~w.st.msg[c].added
  <2> DEFINE m == [w.st.msg[c] EXCEPT !.added = TRUE]
             u == WithMessage(w, c, m)
  <2>1. w \in Work /\ w.st.msg[c] \in MessageState /\ Sound(w.st) /\ w.st.msg \in [ChoiceIds -> MessageState]
    BY WorkIs DEF Good
  <2>2. m \in MessageState /\ m.added /\ m.done = w.st.msg[c].done
    BY <2>1 DEF MessageState
  <2>3. OpenMessage(w, c) = Emit(u, "open", <<"message", c>>, <<>>)
    BY <1>2 DEF OpenMessage, WithMessage
  <2> HIDE DEF m
  <2>4. u \in Work /\ u.out = w.out /\ u.st.msg = [w.st.msg EXCEPT ![c] = m] /\ u.st.reasoning = w.st.reasoning
        /\ u.st.func = w.st.func /\ u.st.completed = w.st.completed
    BY <2>1, <2>2, WithMessageIs
  <2> HIDE DEF u
  <2>5. u.st.msg[c].added /\ ~u.st.msg[c].done /\ ~w.st.msg[c].done /\ \A d \in ChoiceIds \ {c} : u.st.msg[d] = w.st.msg[d]
    BY <1>2, <2>1, <2>2, <2>4 DEF Sound
  <2>6. Sound(u.st)
    BY <2>1, <2>4, <2>5 DEF Sound
  <2>7. Opened(u.st) = Opened(w.st) \cup {<<"message", c>>} /\ Closed(u.st) = Closed(w.st)
    <3>1. /\ Opened(u.st) = Opened(w.st) \cup (IF u.st.msg[c].added THEN {<<"message", c>>} ELSE {})
          /\ Closed(u.st) = Closed(w.st) \cup (IF u.st.msg[c].done THEN {<<"message", c>>} ELSE {})
      BY <2>4, <2>5, MessageItems
    <3> QED
      BY <2>5, <3>1
  <2>8. <<"message", c>> \notin Opened(w.st) /\ <<"message", c>> \notin Closed(w.st)
    BY <1>2, <2>5 DEF Opened, Closed
  <2>9. <<"message", c>> \in Items /\ <<>> \in Text
    BY ItemsAre
  <2>10. Good(pre, Emit(u, "open", <<"message", c>>, <<>>)) /\ Emit(u, "open", <<"message", c>>, <<>>).st = u.st
    BY <2>4, <2>6, <2>7, <2>8, <2>9, EmitOpens
  <2> QED
    BY <2>3, <2>4, <2>10 DEF Beside
<1> QED
  BY <1>1, <1>2

LEMMA TextKeeps ==
  ASSUME NEW pre \in Seq(Event), NEW w, Good(pre, w), NEW c \in ChoiceIds, NEW text \in Text
  PROVE  Good(pre, emitTextContent(w, c, text)) /\ Beside(w, emitTextContent(w, c, text))
<1> DEFINE o == OpenMessage(w, c)
           b == [o EXCEPT !.st.msg[c].buf = @ \o text]
<1>1. Good(pre, o) /\ Beside(w, o)
  BY OpenMessageKeeps
<1>2. emitTextContent(w, c, text) = Emit(b, "delta", <<"message", c>>, text)
  BY DEF emitTextContent, OpenMessage
<1> HIDE DEF o
<1>3. Good(pre, b) /\ Beside(o, b)
  BY <1>1, BufferKeeps
<1> HIDE DEF b
<1>4. <<"message", c>> \in Items /\ "delta" \in EventTypes /\ "delta" \notin {"open", "close", "completed"}
  BY ItemsAre DEF EventTypes
<1>5. Good(pre, Emit(b, "delta", <<"message", c>>, text)) /\ Emit(b, "delta", <<"message", c>>, text).st = b.st
  BY <1>3, <1>4, EmitSkips
<1> QED
  BY <1>1, <1>2, <1>3, <1>5 DEF Beside

\* Either way the message is closed if it was ever opened.
LEMMA CloseMessageKeeps ==
  ASSUME NEW pre \in Seq(Event), NEW w, Good(pre, w), NEW c \in ChoiceIds
  PROVE  /\ Good(pre, closeMessage(w, c)) /\ Beside(w, closeMessage(w, c))
         /\ closeMessage(w, c).st.msg[c].added => closeMessage(w, c).st.msg[c].done
         /\ \A d \in ChoiceIds \ {c} : closeMessage(w, c).st.msg[d] = w.st.msg[d]
<1>1. CASE ~w.st.msg[c].added \/ w.st.msg[c].done
  BY <1>1 DEF closeMessage, Beside
<1>2. CASE w.st.msg[c].added /\ ~w.st.msg[c].done
  <2> DEFINE m == [w.st.msg[c] EXCEPT !.done = TRUE]
             u == WithMessage(w, c, m)
  <2>1. w \in Work /\ w.st.msg[c] \in MessageState /\ Sound(w.st) /\ w.st.msg \in [ChoiceIds -> MessageState]
    BY WorkIs DEF Good
  <2>2. m \in MessageState /\ m.added = w.st.msg[c].added /\ m.done
    BY <2>1 DEF MessageState
  <2>3. closeMessage(w, c) = Emit(u, "close", <<"message", c>>, w.st.msg[c].buf)
    BY <1>2 DEF closeMessage, WithMessage
  <2> HIDE DEF m
  <2>4. u \in Work /\ u.out = w.out /\ u.st.msg = [w.st.msg EXCEPT ![c] = m] /\ u.st.reasoning = w.st.reasoning
        /\ u.st.func = w.st.func /\ u.st.completed = w.st.completed
    BY <2>1, <2>2, WithMessageIs
  <2> HIDE DEF u
  <2>5. u.st.msg[c].added /\ u.st.msg[c].done /\ \A d \in ChoiceIds \ {c} : u.st.msg[d] = w.st.msg[d]
    BY <1>2, <2>1, <2>2, <2>4
  <2>6. Sound(u.st)
    BY <2>1, <2>4, <2>5 DEF Sound
  <2>7. Opened(u.st) = Opened(w.st) \cup {<<"message", c>>} /\ Closed(u.st) = Closed(w.st) \cup {<<"message", c>>}
    BY <2>4, <2>5, MessageItems
  <2>8. <<"message", c>> \in Opened(w.st) /\ <<"message", c>> \notin Closed(w.st)
    BY <1>2 DEF Opened, Closed
  <2>9. <<"message", c>> \in Items /\ w.st.msg[c].buf \in Text
    BY <2>1, ItemsAre DEF MessageState
  <2>11. Opened(u.st) = Opened(w.st)
    BY <2>7, <2>8
  <2>10. /\ Good(pre, Emit(u, "close", <<"message", c>>, w.st.msg[c].buf))
         /\ Emit(u, "close", <<"message", c>>, w.st.msg[c].buf).st = u.st
    BY <2>4, <2>6, <2>7, <2>8, <2>9, <2>11, EmitCloses, SMTT(20)
  <2> QED
    BY <2>3, <2>4, <2>5, <2>10 DEF Beside
<1> QED
  BY <1>1, <1>2

CallEntry == [slot : CallSlots, id : BOOLEAN, name : Names, args : Text]

\* A call that the response has not closed may be announced.
LEMMA ToolCallKeeps ==
  ASSUME NEW pre \in Seq(Event), NEW w, Good(pre, w), Fresh(w.st), NEW tc \in CallEntry
  PROVE  Good(pre, emitToolCall(w, tc)) /\ Fresh(emitToolCall(w, tc).st)
<1> DEFINE n == tc.slot
           f == w.st.func[n]
           known == [f EXCEPT !.id = @ \/ tc.id, !.name = IF tc.name = "" THEN @ ELSE tc.name, !.args = @ \o tc.args]
           announced == [known EXCEPT !.added = @ \/ (known.id /\ known.name # "")]
           u == WithCall(w, n, announced)
           item == <<"call", n>>
           v == IF announced.added /\ ~f.added THEN Emit(u, "open", item, <<>>) ELSE u
<1>1. w \in Work /\ n \in CallSlots /\ f \in CallState /\ Sound(w.st) /\ w.st.func \in [CallSlots -> CallState]
      /\ tc.id \in BOOLEAN /\ tc.name \in Names /\ tc.args \in Text /\ w.st.completed \in BOOLEAN
  BY WorkIs DEF Good, CallEntry
<1>2. emitToolCall(w, tc) = IF Streams(announced, tc) THEN Emit(v, "delta", item, tc.args) ELSE v
  BY DEF emitToolCall, WithCall
<1>3. known \in CallState /\ (f.id => known.id) /\ (known.added <=> f.added) /\ (known.done <=> f.done)
  <2>1. f.args \o tc.args \in Text
    BY <1>1, TextJoins DEF CallState
  <2>2. (IF tc.name = "" THEN f.name ELSE tc.name) \in Names
    BY <1>1 DEF CallState
  <2> QED
    BY <1>1, <2>1, <2>2 DEF CallState
<1> HIDE DEF known
<1>4. /\ announced \in CallState /\ (known.added => announced.added) /\ (announced.done <=> known.done)
      /\ (announced.id <=> known.id) /\ (announced.added => known.added \/ known.id)
  BY <1>3 DEF CallState
<1> HIDE DEF announced
<1>5. u \in Work /\ u.out = w.out /\ u.st.func = [w.st.func EXCEPT ![n] = announced] /\ u.st.reasoning = w.st.reasoning
      /\ u.st.msg = w.st.msg /\ u.st.completed = w.st.completed
  BY <1>1, <1>4, WithCallIs
<1> HIDE DEF u
<1>6. u.st.func[n] = announced /\ \A d \in CallSlots \ {n} : u.st.func[d] = w.st.func[d]
  BY <1>1, <1>5
<1>7. announced.added => announced.id
  BY <1>1, <1>3, <1>4 DEF Sound
<1>8. Sound(u.st) /\ Fresh(u.st)
  BY <1>1, <1>3, <1>4, <1>5, <1>6, <1>7 DEF Sound, Fresh
<1>9. Opened(u.st) = Opened(w.st) \cup (IF announced.added THEN {item} ELSE {})
      /\ Closed(u.st) = Closed(w.st) \cup (IF announced.done THEN {item} ELSE {})
  <2>1. (f.added => announced.added) /\ (f.done => announced.done)
    BY <1>3, <1>4
  <2>2. (w.st.func[n].added => u.st.func[n].added) /\ (w.st.func[n].done => u.st.func[n].done)
    BY <1>6, <2>1
  <2>3. /\ Opened(u.st) = Opened(w.st) \cup (IF u.st.func[n].added THEN {<<"call", n>>} ELSE {})
        /\ Closed(u.st) = Closed(w.st) \cup (IF u.st.func[n].done THEN {<<"call", n>>} ELSE {})
    <3> HIDE DEF n
    <3> QED
      BY <1>1, <1>5, <1>6, <2>2, CallLedger
  <2> QED
    BY <1>6, <2>3
<1>10. (item \in Opened(w.st) <=> f.added) /\ (item \in Closed(w.st) <=> f.done)
  BY <1>1, ItemsKnown
<1>11. Closed(u.st) = Closed(w.st)
  BY <1>3, <1>4, <1>9, <1>10
<1>12. item \in Items /\ <<>> \in Text /\ "delta" \in EventTypes /\ "delta" \notin {"open", "close", "completed"}
  BY <1>1, ItemsAre DEF EventTypes
<1>13. Good(pre, v) /\ v.st = u.st
  <2>1. CASE announced.added /\ ~f.added
    <3>1. Opened(u.st) = Opened(w.st) \cup {item} /\ item \notin Opened(w.st)
      BY <1>9, <1>10, <2>1
    <3>2. w.st.completed \/ item \notin Closed(w.st)
      BY <1>1, <1>10 DEF Fresh
    <3> HIDE DEF item, f, n
    <3>3. Good(pre, Emit(u, "open", item, <<>>)) /\ Emit(u, "open", item, <<>>).st = u.st
      BY <1>5, <1>8, <1>11, <1>12, <3>1, <3>2, EmitOpens
    <3> QED
      BY <2>1, <3>3
  <2>2. CASE ~(announced.added /\ ~f.added)
    <3>1. Opened(u.st) = Opened(w.st)
      BY <1>3, <1>4, <1>9, <1>10, <2>2
    <3>2. Good(pre, u)
      BY <1>5, <1>8, <1>11, <3>1 DEF Good
    <3> QED
      BY <2>2, <3>2
  <2> QED
    BY <2>1, <2>2
<1> HIDE DEF v, item
<1>14. Good(pre, Emit(v, "delta", item, tc.args)) /\ Emit(v, "delta", item, tc.args).st = v.st
  BY <1>1, <1>12, <1>13, EmitSkips
<1> QED
  BY <1>2, <1>8, <1>13, <1>14

LEMMA FinalTextTyped ==
  ASSUME NEW name, NEW args \in Text
  PROVE  /\ FinalText(name, args) \in Text
         /\ ~isCustomTool(name) => FinalText(name, args) = IF args = <<>> THEN NoArguments ELSE args
<1> DEFINE given == IF args = <<>> THEN NoArguments ELSE args
<1>1. given \in Text
  BY ItemsAre
<1>2. FinalText(name, args) = IF isCustomTool(name) THEN extractCustomToolInput(given) ELSE given
  BY DEF FinalText
<1> HIDE DEF given
<1>3. extractCustomToolInput(given) \in Text
  <2>1. Len(given) \in Nat /\ \A i \in 1..Len(given) : given[i] \in Fragment
    BY <1>1, LenProperties, ElementOfSeq DEF Text
  <2>2. Len(given) - 1 \in Int /\ \A i \in 2..(Len(given) - 1) : given[i] \in Fragment
    BY <2>1
  <2>3. SubSeq(given, 2, Len(given) - 1) \in Seq(Fragment)
    BY <2>2, SubSeqProperties
  <2> QED
    BY <1>1, <2>3 DEF extractCustomToolInput, Text
<1> QED
  BY <1>1, <1>2, <1>3 DEF given

\* Either way the call is closed if it was ever announced.
LEMMA CloseToolCallKeeps ==
  ASSUME NEW pre \in Seq(Event), NEW w, Good(pre, w), NEW n \in CallSlots
  PROVE  /\ Good(pre, closeToolCall(w, n))
         /\ closeToolCall(w, n).st.reasoning = w.st.reasoning /\ closeToolCall(w, n).st.msg = w.st.msg
         /\ closeToolCall(w, n).st.completed = w.st.completed
         /\ closeToolCall(w, n).st.func[n].added => closeToolCall(w, n).st.func[n].done
         /\ \A d \in CallSlots \ {n} : closeToolCall(w, n).st.func[d] = w.st.func[d]
<1> DEFINE f == w.st.func[n]
           args == FinalText(f.name, f.args)
           item == <<"call", n>>
           v == IF isCustomTool(f.name) THEN Emit(w, "delta", item, args) ELSE w
<1>1. w \in Work /\ f \in CallState /\ Sound(w.st) /\ w.st.func \in [CallSlots -> CallState]
  BY WorkIs DEF Good
<1>2. CASE ~f.id \/ f.done
  <2>1. closeToolCall(w, n) = w
    BY <1>2 DEF closeToolCall
  <2>2. f.added => f.done
    BY <1>1, <1>2 DEF Sound
  <2> QED
    BY <2>1, <2>2
<1>3. CASE f.id /\ ~f.done
  <2> DEFINE g == [v.st.func[n] EXCEPT !.done = TRUE]
             u == WithCall(v, n, g)
  <2>1. closeToolCall(w, n) = Emit(u, "close", item, args)
    BY <1>3 DEF closeToolCall, WithCall
  <2>2. args \in Text /\ item \in Items /\ "delta" \in EventTypes /\ "delta" \notin {"open", "close", "completed"}
    BY <1>1, ItemsAre, FinalTextTyped DEF EventTypes, CallState
  <2>3. Good(pre, v) /\ v.st = w.st
    <3> HIDE DEF args, item, f
    <3>1. Good(pre, Emit(w, "delta", item, args)) /\ Emit(w, "delta", item, args).st = w.st
      BY <2>2, EmitSkips
    <3> QED
      BY <3>1
  <2> HIDE DEF v, args
  <2>4. v \in Work /\ g \in CallState /\ (g.added <=> f.added) /\ g.done /\ (g.id <=> f.id)
    BY <1>1, <2>3 DEF Good, CallState
  <2> HIDE DEF g
  <2>5. u \in Work /\ u.out = v.out /\ u.st.func = [v.st.func EXCEPT ![n] = g] /\ u.st.reasoning = v.st.reasoning
        /\ u.st.msg = v.st.msg /\ u.st.completed = v.st.completed
    BY <2>4, WithCallIs
  <2> HIDE DEF u
  <2>6. u.st.func[n] = g /\ \A d \in CallSlots \ {n} : u.st.func[d] = v.st.func[d]
    BY <1>1, <2>3, <2>5
  <2>7. Sound(u.st)
    BY <1>1, <2>3, <2>4, <2>5, <2>6 DEF Sound
  <2>8. Opened(u.st) = Opened(v.st) \cup (IF g.added THEN {item} ELSE {}) /\ Closed(u.st) = Closed(v.st) \cup {item}
    <3>1. (v.st.func[n].added => u.st.func[n].added) /\ (v.st.func[n].done => u.st.func[n].done)
      BY <2>3, <2>4, <2>6
    <3>2. /\ Opened(u.st) = Opened(v.st) \cup (IF u.st.func[n].added THEN {<<"call", n>>} ELSE {})
          /\ Closed(u.st) = Closed(v.st) \cup (IF u.st.func[n].done THEN {<<"call", n>>} ELSE {})
      BY <2>5, <2>6, <3>1, CallLedger
    <3> QED
      BY <2>4, <2>6, <3>2
  <2>9. (item \in Opened(v.st) <=> f.added) /\ item \notin Closed(v.st)
    BY <1>3, <2>3, ItemsKnown
  <2>10. Opened(u.st) = Opened(v.st)
    BY <2>4, <2>8, <2>9
  <2> HIDE DEF item, f
  <2>11. Good(pre, Emit(u, "close", item, args)) /\ Emit(u, "close", item, args).st = u.st
    BY <2>2, <2>3, <2>5, <2>7, <2>8, <2>9, <2>10, EmitCloses
  <2>12. Good(pre, closeToolCall(w, n)) /\ closeToolCall(w, n).st = u.st
    BY <2>1, <2>11
  <2> QED
    BY <2>3, <2>4, <2>5, <2>6, <2>12
<1> QED
  BY <1>2, <1>3

\* The loops over the choices, the calls of a stream and those of a chunk.
CloseMessages(w, s) == FoldLeft(closeMessage, w, s)
CloseCalls(w, s) == FoldLeft(closeToolCall, w, s)
EmitCalls(w, s) == FoldLeft(emitToolCall, w, s)

\* What FoldLeft makes of closeMessage, piece by piece.
LEMMA CloseMessagesFold ==
  ASSUME NEW pre \in Seq(Event), NEW w, Good(pre, w), NEW s \in Seq(ChoiceIds)
  PROVE  \E f : /\ CloseMessages(w, s) = f[1..Len(s)]
                /\ f[{}] = w
                /\ \A k \in 1..Len(s) : f[1..k] = closeMessage(f[1..(k - 1)], s[k])
<1> DEFINE n == Len(s)
           W == {v \in Work : Good(pre, v)}
           g == [i \in 1..n |-> [a \in W |-> closeMessage(a, s[i])]]
           Unfolds(f) == f = [t \in SUBSET (1..n) |-> IF t = {} THEN w ELSE closeMessage(f[t \ {Max(t)}], s[Max(t)])]
<1>1. n \in Nat /\ DOMAIN s = 1..n /\ \A i \in 1..n : s[i] \in ChoiceIds
  BY LenProperties, ElementOfSeq
<1> HIDE DEF n
<1>2. \A i \in 1..n : \A a \in W : closeMessage(a, s[i]) \in W
  BY <1>1, CloseMessageKeeps DEF Good
<1>3. g \in [1..n -> [W -> W]] /\ w \in W
  BY <1>2 DEF Good
<1> HIDE DEF W
<1>4. PICK h \in [SUBSET (1..n) -> W] : FoldsTo(h, w, g, n)
  <2> HIDE DEF g
  <2> QED
    BY <1>1, <1>3, FoldTableExists
<1>5. \A t \in SUBSET (1..n) : t # {} => Max(t) \in 1..n
  BY <1>1, MaxOfPlaces
<1>6. \A t \in SUBSET (1..n) : h[t] = IF t = {} THEN w ELSE closeMessage(h[t \ {Max(t)}], s[Max(t)])
  <2> TAKE t \in SUBSET (1..n)
  <2>1. h[t] = IF t = {} THEN w ELSE g[Max(t)][h[t \ {Max(t)}]]
    BY <1>4 DEF FoldsTo
  <2>2. t \ {Max(t)} \in SUBSET (1..n)
    OBVIOUS
  <2>3. h[t \ {Max(t)}] \in W
    BY <1>4, <2>2
  <2> QED
    BY <1>5, <2>1, <2>3
<1>7. Unfolds(h)
  BY <1>4, <1>6
<1>8. PICK f : f = (CHOOSE i : Unfolds(i))
  OBVIOUS
<1>9. Unfolds(f)
  BY <1>7, <1>8
<1>10. CloseMessages(w, s) = f[1..n]
  BY <1>1, <1>8 DEF CloseMessages, FoldLeft, MapThenFoldSet
<1>11. \A t \in SUBSET (1..n) : f[t] = IF t = {} THEN w ELSE closeMessage(f[t \ {Max(t)}], s[Max(t)])
  BY <1>9
<1>12. {} \in SUBSET (1..n) /\ f[{}] = w
  BY <1>11
<1>13. ASSUME NEW k \in 1..n PROVE f[1..k] = closeMessage(f[1..(k - 1)], s[k])
  <2>1. Max(1..k) = k /\ (1..k) \ {k} = 1..(k - 1) /\ 1..k \in SUBSET (1..n) /\ k \in 1..k
    BY <1>1, MaxOfUpTo
  <2> HIDE DEF Unfolds
  <2> QED
    BY <1>11, <2>1
<1> QED
  BY <1>10, <1>12, <1>13 DEF n

\* Every message of the list is closed, if it was ever opened.
LEMMA CloseMessagesKeep ==
  ASSUME NEW pre \in Seq(Event), NEW w, Good(pre, w), NEW s \in Seq(ChoiceIds)
  PROVE  LET v == CloseMessages(w, s)
         IN  /\ Good(pre, v) /\ Beside(w, v)
             /\ \A i \in 1..Len(s) : v.st.msg[s[i]].added => v.st.msg[s[i]].done
<1> DEFINE n == Len(s)
           Q(v, k) == /\ Good(pre, v) /\ Beside(w, v)
                      /\ \A i \in 1..k : v.st.msg[s[i]].added => v.st.msg[s[i]].done
           P == [k \in 0..n |-> {v \in Work : Q(v, k)}]
<1>1. n \in Nat /\ \A i \in 1..n : s[i] \in ChoiceIds
  BY LenProperties, ElementOfSeq
<1>2. PICK f : /\ CloseMessages(w, s) = f[1..n]
               /\ f[{}] = w
               /\ \A k \in 1..n : f[1..k] = closeMessage(f[1..(k - 1)], s[k])
  BY CloseMessagesFold
<1> HIDE DEF n
<1>3. ASSUME NEW v, NEW k \in 1..n, Q(v, k - 1) PROVE Q(closeMessage(v, s[k]), k)
  <2> DEFINE u == closeMessage(v, s[k])
             c == s[k]
  <2>1. c \in ChoiceIds
    BY <1>1
  <2>2. /\ Good(pre, u) /\ Beside(v, u) /\ (u.st.msg[c].added => u.st.msg[c].done)
        /\ \A d \in ChoiceIds \ {c} : u.st.msg[d] = v.st.msg[d]
    BY <1>3, <2>1, CloseMessageKeeps
  <2> HIDE DEF u
  <2>3. \A i \in 1..k : s[i] \in ChoiceIds /\ (i \in 1..(k - 1) \/ i = k)
    BY <1>1
  <2>4. \A i \in 1..k : u.st.msg[s[i]].added => u.st.msg[s[i]].done
    BY <1>3, <2>2, <2>3
  <2>5. Beside(w, u)
    BY <1>3, <2>2 DEF Beside
  <2> QED
    BY <2>2, <2>4, <2>5 DEF u
<1>4. Q(w, 0)
  BY DEF Beside
<1>5. \A v : \A k : Q(v, k) => v \in Work
  BY DEF Good
<1> HIDE DEF Q
<1>6. \A k \in 0..n : P[k] = {v \in Work : Q(v, k)}
  OBVIOUS
<1>7. 0 \in 0..n /\ n \in 0..n /\ \A k \in 1..n : k \in 0..n /\ k - 1 \in 0..n
  BY <1>1
<1> HIDE DEF P
<1>8. f[{}] \in P[0]
  BY <1>2, <1>4, <1>5, <1>6, <1>7
<1>9. \A k \in 1..n : f[1..(k - 1)] \in P[k - 1] => f[1..k] \in P[k]
  BY <1>2, <1>3, <1>5, <1>6, <1>7
<1>10. f[1..n] \in P[n]
  BY <1>1, <1>8, <1>9, FoldAlongSegments
<1>11. Q(CloseMessages(w, s), n)
  BY <1>2, <1>6, <1>7, <1>10
<1> QED
  BY <1>11 DEF Q, n

LEMMA CloseCallsFold ==
  ASSUME NEW pre \in Seq(Event), NEW w, Good(pre, w), NEW s \in Seq(CallSlots)
  PROVE  \E f : /\ CloseCalls(w, s) = f[1..Len(s)]
                /\ f[{}] = w
                /\ \A k \in 1..Len(s) : f[1..k] = closeToolCall(f[1..(k - 1)], s[k])
<1> DEFINE n == Len(s)
           W == {v \in Work : Good(pre, v)}
           g == [i \in 1..n |-> [a \in W |-> closeToolCall(a, s[i])]]
           Unfolds(f) == f = [t \in SUBSET (1..n) |-> IF t = {} THEN w ELSE closeToolCall(f[t \ {Max(t)}], s[Max(t)])]
<1>1. n \in Nat /\ DOMAIN s = 1..n /\ \A i \in 1..n : s[i] \in CallSlots
  BY LenProperties, ElementOfSeq
<1> HIDE DEF n
<1>2. \A i \in 1..n : \A a \in W : closeToolCall(a, s[i]) \in W
  BY <1>1, CloseToolCallKeeps DEF Good
<1>3. g \in [1..n -> [W -> W]] /\ w \in W
  BY <1>2 DEF Good
<1> HIDE DEF W
<1>4. PICK h \in [SUBSET (1..n) -> W] : FoldsTo(h, w, g, n)
  <2> HIDE DEF g
  <2> QED
    BY <1>1, <1>3, FoldTableExists
<1>5. \A t \in SUBSET (1..n) : t # {} => Max(t) \in 1..n
  BY <1>1, MaxOfPlaces
<1>6. \A t \in SUBSET (1..n) : h[t] = IF t = {} THEN w ELSE closeToolCall(h[t \ {Max(t)}], s[Max(t)])
  <2> TAKE t \in SUBSET (1..n)
  <2>1. h[t] = IF t = {} THEN w ELSE g[Max(t)][h[t \ {Max(t)}]]
    BY <1>4 DEF FoldsTo
  <2>2. t \ {Max(t)} \in SUBSET (1..n)
    OBVIOUS
  <2>3. h[t \ {Max(t)}] \in W
    BY <1>4, <2>2
  <2> QED
    BY <1>5, <2>1, <2>3
<1>7. Unfolds(h)
  BY <1>4, <1>6
<1>8. PICK f : f = (CHOOSE i : Unfolds(i))
  OBVIOUS
<1>9. Unfolds(f)
  BY <1>7, <1>8
<1>10. CloseCalls(w, s) = f[1..n]
  BY <1>1, <1>8 DEF CloseCalls, FoldLeft, MapThenFoldSet
<1>11. \A t \in SUBSET (1..n) : f[t] = IF t = {} THEN w ELSE closeToolCall(f[t \ {Max(t)}], s[Max(t)])
  BY <1>9
<1>12. {} \in SUBSET (1..n) /\ f[{}] = w
  BY <1>11
<1>13. ASSUME NEW k \in 1..n PROVE f[1..k] = closeToolCall(f[1..(k - 1)], s[k])
  <2>1. Max(1..k) = k /\ (1..k) \ {k} = 1..(k - 1) /\ 1..k \in SUBSET (1..n) /\ k \in 1..k
    BY <1>1, MaxOfUpTo
  <2> HIDE DEF Unfolds
  <2> QED
    BY <1>11, <2>1
<1> QED
  BY <1>10, <1>12, <1>13 DEF n

\* Nothing but calls.
Past(w, v) ==
    v.st.reasoning = w.st.reasoning /\ v.st.msg = w.st.msg /\ v.st.completed = w.st.completed

\* Every call of the list is closed, if it was ever announced.
LEMMA CloseCallsKeep ==
  ASSUME NEW pre \in Seq(Event), NEW w, Good(pre, w), NEW s \in Seq(CallSlots)
  PROVE  LET v == CloseCalls(w, s)
         IN  /\ Good(pre, v) /\ Past(w, v)
             /\ \A i \in 1..Len(s) : v.st.func[s[i]].added => v.st.func[s[i]].done
<1> DEFINE n == Len(s)
           Q(v, k) == /\ Good(pre, v) /\ Past(w, v)
                      /\ \A i \in 1..k : v.st.func[s[i]].added => v.st.func[s[i]].done
           P == [k \in 0..n |-> {v \in Work : Q(v, k)}]
<1>1. n \in Nat /\ \A i \in 1..n : s[i] \in CallSlots
  BY LenProperties, ElementOfSeq
<1>2. PICK f : /\ CloseCalls(w, s) = f[1..n]
               /\ f[{}] = w
               /\ \A k \in 1..n : f[1..k] = closeToolCall(f[1..(k - 1)], s[k])
  BY CloseCallsFold
<1> HIDE DEF n
<1>3. ASSUME NEW v, NEW k \in 1..n, Q(v, k - 1) PROVE Q(closeToolCall(v, s[k]), k)
  <2> DEFINE u == closeToolCall(v, s[k])
             c == s[k]
  <2>1. c \in CallSlots
    BY <1>1
  <2>2. /\ Good(pre, u) /\ Past(v, u) /\ (u.st.func[c].added => u.st.func[c].done)
        /\ \A d \in CallSlots \ {c} : u.st.func[d] = v.st.func[d]
    <3>1. Good(pre, v)
      BY <1>3
    <3>2. /\ Good(pre, closeToolCall(v, c))
          /\ closeToolCall(v, c).st.reasoning = v.st.reasoning /\ closeToolCall(v, c).st.msg = v.st.msg
          /\ closeToolCall(v, c).st.completed = v.st.completed
          /\ closeToolCall(v, c).st.func[c].added => closeToolCall(v, c).st.func[c].done
          /\ \A d \in CallSlots \ {c} : closeToolCall(v, c).st.func[d] = v.st.func[d]
      <4> HIDE DEF c, Q
      <4> QED
        BY <2>1, <3>1, CloseToolCallKeeps
    <3> QED
      BY <3>2 DEF Past
  <2> HIDE DEF u
  <2>3. \A i \in 1..k : s[i] \in CallSlots /\ (i \in 1..(k - 1) \/ i = k)
    BY <1>1
  <2>4. \A i \in 1..k : u.st.func[s[i]].added => u.st.func[s[i]].done
    BY <1>3, <2>2, <2>3
  <2>5. Past(w, u)
    BY <1>3, <2>2 DEF Past
  <2> QED
    BY <2>2, <2>4, <2>5 DEF u
<1>4. Q(w, 0)
  BY DEF Past
<1>5. \A v : \A k : Q(v, k) => v \in Work
  BY DEF Good
<1> HIDE DEF Q
<1>6. \A k \in 0..n : P[k] = {v \in Work : Q(v, k)}
  OBVIOUS
<1>7. 0 \in 0..n /\ n \in 0..n /\ \A k \in 1..n : k \in 0..n /\ k - 1 \in 0..n
  BY <1>1
<1> HIDE DEF P
<1>8. f[{}] \in P[0]
  BY <1>2, <1>4, <1>5, <1>6, <1>7
<1>9. \A k \in 1..n : f[1..(k - 1)] \in P[k - 1] => f[1..k] \in P[k]
  BY <1>2, <1>3, <1>5, <1>6, <1>7
<1>10. f[1..n] \in P[n]
  BY <1>1, <1>8, <1>9, FoldAlongSegments
<1>11. Q(CloseCalls(w, s), n)
  BY <1>2, <1>6, <1>7, <1>10
<1> QED
  BY <1>11 DEF Q, n

LEMMA EmitCallsFold ==
  ASSUME NEW pre \in Seq(Event), NEW w, Good(pre, w), Fresh(w.st), NEW s \in Seq(CallEntry)
  PROVE  \E f : /\ EmitCalls(w, s) = f[1..Len(s)]
                /\ f[{}] = w
                /\ \A k \in 1..Len(s) : f[1..k] = emitToolCall(f[1..(k - 1)], s[k])
<1> DEFINE n == Len(s)
           W == {v \in Work : Good(pre, v) /\ Fresh(v.st)}
           g == [i \in 1..n |-> [a \in W |-> emitToolCall(a, s[i])]]
           Unfolds(f) == f = [t \in SUBSET (1..n) |-> IF t = {} THEN w ELSE emitToolCall(f[t \ {Max(t)}], s[Max(t)])]
<1>1. n \in Nat /\ DOMAIN s = 1..n /\ \A i \in 1..n : s[i] \in CallEntry
  BY LenProperties, ElementOfSeq
<1> HIDE DEF n
<1>2. \A i \in 1..n : \A a \in W : emitToolCall(a, s[i]) \in W
  BY <1>1, ToolCallKeeps DEF Good
<1>3. g \in [1..n -> [W -> W]] /\ w \in W
  BY <1>2 DEF Good
<1> HIDE DEF W
<1>4. PICK h \in [SUBSET (1..n) -> W] : FoldsTo(h, w, g, n)
  <2> HIDE DEF g
  <2> QED
    BY <1>1, <1>3, FoldTableExists
<1>5. \A t \in SUBSET (1..n) : t # {} => Max(t) \in 1..n
  BY <1>1, MaxOfPlaces
<1>6. \A t \in SUBSET (1..n) : h[t] = IF t = {} THEN w ELSE emitToolCall(h[t \ {Max(t)}], s[Max(t)])
  <2> TAKE t \in SUBSET (1..n)
  <2>1. h[t] = IF t = {} THEN w ELSE g[Max(t)][h[t \ {Max(t)}]]
    BY <1>4 DEF FoldsTo
  <2>2. t \ {Max(t)} \in SUBSET (1..n)
    OBVIOUS
  <2>3. h[t \ {Max(t)}] \in W
    BY <1>4, <2>2
  <2> QED
    BY <1>5, <2>1, <2>3
<1>7. Unfolds(h)
  BY <1>4, <1>6
<1>8. PICK f : f = (CHOOSE i : Unfolds(i))
  OBVIOUS
<1>9. Unfolds(f)
  BY <1>7, <1>8
<1>10. EmitCalls(w, s) = f[1..n]
  BY <1>1, <1>8 DEF EmitCalls, FoldLeft, MapThenFoldSet
<1>11. \A t \in SUBSET (1..n) : f[t] = IF t = {} THEN w ELSE emitToolCall(f[t \ {Max(t)}], s[Max(t)])
  BY <1>9
<1>12. {} \in SUBSET (1..n) /\ f[{}] = w
  BY <1>11
<1>13. ASSUME NEW k \in 1..n PROVE f[1..k] = emitToolCall(f[1..(k - 1)], s[k])
  <2>1. Max(1..k) = k /\ (1..k) \ {k} = 1..(k - 1) /\ 1..k \in SUBSET (1..n) /\ k \in 1..k
    BY <1>1, MaxOfUpTo
  <2> HIDE DEF Unfolds
  <2> QED
    BY <1>11, <2>1
<1> QED
  BY <1>10, <1>12, <1>13 DEF n

\* The calls of a chunk, in their order.
LEMMA EmitCallsKeep ==
  ASSUME NEW pre \in Seq(Event), NEW w, Good(pre, w), Fresh(w.st), NEW s \in Seq(CallEntry)
  PROVE  LET v == EmitCalls(w, s)
         IN  Good(pre, v) /\ Fresh(v.st)
<1> DEFINE n == Len(s)
           Q(v, k) == Good(pre, v) /\ Fresh(v.st)
           P == [k \in 0..n |-> {v \in Work : Q(v, k)}]
<1>1. n \in Nat /\ \A i \in 1..n : s[i] \in CallEntry
  BY LenProperties, ElementOfSeq
<1>2. PICK f : /\ EmitCalls(w, s) = f[1..n]
               /\ f[{}] = w
               /\ \A k \in 1..n : f[1..k] = emitToolCall(f[1..(k - 1)], s[k])
  BY EmitCallsFold
<1> HIDE DEF n
<1>3. ASSUME NEW v, NEW k \in 1..n, Q(v, k - 1) PROVE Q(emitToolCall(v, s[k]), k)
  BY <1>1, <1>3, ToolCallKeeps
<1>4. Q(w, 0)
  OBVIOUS
<1>5. \A v : \A k : Q(v, k) => v \in Work
  BY DEF Good
<1> HIDE DEF Q
<1>6. \A k \in 0..n : P[k] = {v \in Work : Q(v, k)}
  OBVIOUS
<1>7. 0 \in 0..n /\ n \in 0..n /\ \A k \in 1..n : k \in 0..n /\ k - 1 \in 0..n
  BY <1>1
<1> HIDE DEF P
<1>8. f[{}] \in P[0]
  BY <1>2, <1>4, <1>5, <1>6, <1>7
<1>9. \A k \in 1..n : f[1..(k - 1)] \in P[k - 1] => f[1..k] \in P[k]
  BY <1>2, <1>3, <1>5, <1>6, <1>7
<1>10. f[1..n] \in P[n]
  BY <1>1, <1>8, <1>9, FoldAlongSegments
<1>11. Q(EmitCalls(w, s), n)
  BY <1>2, <1>6, <1>7, <1>10
<1> QED
  BY <1>11 DEF Q, n

LEMMA AscendingIs ==
  ASSUME NEW S \in SUBSET Int, IsFiniteSet(S)
  PROVE  /\ Ascending(S) \in Seq(S)
         /\ \A x \in S : \E i \in 1..Len(Ascending(S)) : Ascending(S)[i] = x
<1> DEFINE n == Cardinality(S)
           s == Ascending(S)
<1>1. n \in Nat
  BY FS_CardinalityType
<1>2. PICK u \in [1..n -> S] : Increasing(u)
  BY AscendingExists
<1>3. s \in [1..n -> S] /\ Increasing(s)
  BY <1>2 DEF Ascending, Increasing
<1>4. \A x \in S : \E i \in 1..n : s[i] = x
  BY <1>3, AscendingListsAll
<1> HIDE DEF s
<1>5. s \in Seq(S) /\ Len(s) = n
  BY <1>1, <1>3, FunctionIsSeq
<1> QED
  BY <1>4, <1>5 DEF s

Over(w) == [w EXCEPT !.st.completed = TRUE]

\* The response completes when nothing is open.
LEMMA SendCompletedKeeps ==
  ASSUME NEW pre \in Seq(Event), NEW w, Good(pre, w), Opened(w.st) \subseteq Closed(w.st)
  PROVE  Good(pre, sendCompleted(w)) /\ sendCompleted(w).st.completed
<1>1. CASE w.st.completed
  BY <1>1 DEF sendCompleted
<1>2. CASE ~w.st.completed
  <2> DEFINE u == Over(w)
             e == [type |-> "completed", item |-> <<>>, text |-> <<>>]
             v == Emit(u, "completed", <<>>, <<>>)
  <2>1. w \in Work /\ Sound(w.st) /\ w.st.completed = FALSE
    BY <1>2, WorkIs DEF Good
  <2>2. sendCompleted(w) = v
    BY <1>2 DEF sendCompleted, Over
  <2>3. u \in Work /\ u.out = w.out /\ u.st.reasoning = w.st.reasoning /\ u.st.msg = w.st.msg
        /\ u.st.func = w.st.func /\ u.st.completed
    BY <2>1 DEF Over, Work, ChatState
  <2> HIDE DEF u
  <2>4. Sound(u.st) /\ Opened(u.st) = Opened(w.st) /\ Closed(u.st) = Closed(w.st)
    BY <2>1, <2>3 DEF Sound, Opened, Closed
  <2>5. "completed" \in EventTypes /\ <<>> \in Items /\ <<>> \in Text
    BY ItemsAre DEF EventTypes
  <2>6. /\ v \in Work /\ v.st = u.st /\ e \in Event
        /\ pre \o v.out = Append(pre \o u.out, e) /\ pre \o u.out \in Seq(Event)
    <3>1. /\ Emit(u, "completed", <<>>, <<>>) \in Work /\ Emit(u, "completed", <<>>, <<>>).st = u.st
          /\ [type |-> "completed", item |-> <<>>, text |-> <<>>] \in Event
          /\ pre \o Emit(u, "completed", <<>>, <<>>).out
                = Append(pre \o u.out, [type |-> "completed", item |-> <<>>, text |-> <<>>])
          /\ pre \o u.out \in Seq(Event)
      BY <2>3, <2>5, EmitIs
    <3> QED
      BY <3>1
  <2>7. e.type = "completed"
    OBVIOUS
  <2> HIDE DEF v, e
  <2>8. Ledger(Opened(w.st), Closed(w.st), FALSE, pre \o w.out)
    BY <2>1 DEF Good
  <2>9. Ledger(Opened(w.st), Closed(w.st), TRUE, Append(pre \o w.out, e))
    BY <2>3, <2>6, <2>7, <2>8, LedgerCompletes
  <2>10. u.st.completed = TRUE
    BY <2>3, <2>6, WorkIs
  <2>11. Good(pre, v)
    BY <2>3, <2>4, <2>6, <2>9, <2>10 DEF Good
  <2> QED
    BY <2>2, <2>6, <2>10, <2>11
<1> QED
  BY <1>1, <1>2

\* At the end of the response every item that was opened is closed.
LEMMA CloseAllKeeps ==
  ASSUME NEW pre \in Seq(Event), NEW w, Good(pre, w)
  PROVE  Good(pre, CloseAll(w)) /\ CloseAll(w).st.completed
<1> DEFINE a == CloseMessages(w, Ascending(ChoiceIds))
           b == closeReasoning(a)
           c == CloseCalls(b, Ascending(CallSlots))
<1>1. CloseAll(w) = sendCompleted(c)
  BY DEF CloseAll, CloseMessages, CloseCalls
<1>2. /\ Ascending(ChoiceIds) \in Seq(ChoiceIds) /\ Ascending(CallSlots) \in Seq(CallSlots)
      /\ \A x \in ChoiceIds : \E i \in 1..Len(Ascending(ChoiceIds)) : Ascending(ChoiceIds)[i] = x
      /\ \A x \in CallSlots : \E i \in 1..Len(Ascending(CallSlots)) : Ascending(CallSlots)[i] = x
  BY IndicesAssumption, AscendingIs
<1>3. Good(pre, a) /\ \A x \in ChoiceIds : a.st.msg[x].added => a.st.msg[x].done
  <2>1. /\ Good(pre, a)
        /\ \A i \in 1..Len(Ascending(ChoiceIds)) :
              a.st.msg[Ascending(ChoiceIds)[i]].added => a.st.msg[Ascending(ChoiceIds)[i]].done
    BY <1>2, CloseMessagesKeep
  <2> HIDE DEF a
  <2> QED
    BY <1>2, <2>1
<1> HIDE DEF a
<1>4. Good(pre, b) /\ b.st.msg = a.st.msg /\ (b.st.reasoning.at # <<>> => b.st.reasoning.done)
  BY <1>3, CloseReasoningKeeps
<1> HIDE DEF b
<1>5. Good(pre, c) /\ Past(b, c) /\ \A x \in CallSlots : c.st.func[x].added => c.st.func[x].done
  <2>1. /\ Good(pre, c) /\ Past(b, c)
        /\ \A i \in 1..Len(Ascending(CallSlots)) :
              c.st.func[Ascending(CallSlots)[i]].added => c.st.func[Ascending(CallSlots)[i]].done
    BY <1>2, <1>4, CloseCallsKeep
  <2> HIDE DEF c
  <2> QED
    BY <1>2, <2>1
<1> HIDE DEF c
<1>6. /\ \A x \in ChoiceIds : c.st.msg[x].added => c.st.msg[x].done
      /\ c.st.reasoning.at # <<>> => c.st.reasoning.done
  BY <1>3, <1>4, <1>5 DEF Past
<1>7. Opened(c.st) \subseteq Closed(c.st)
  <2>1. \A x : c.st.reasoning.at = <<x>> => c.st.reasoning.done
    BY <1>6
  <2> QED
    BY <1>5, <1>6, <2>1 DEF Opened, Closed
<1> QED
  BY <1>1, <1>5, <1>7, SendCompletedKeeps

-----------------------------------------------------------------------------
(* One chunk. *)

\* Between the messages of the upstream nothing more is known.
Steady(pre, w) == Good(pre, w) /\ Fresh(w.st)

LEMMA BesideSteady ==
  ASSUME NEW pre, NEW w, NEW v, Fresh(w.st), Good(pre, v), Beside(w, v)
  PROVE  Steady(pre, v)
BY DEF Steady, Fresh, Beside

Starts(w) == [w EXCEPT !.st.started = TRUE]
Thinks(w, b) == [w EXCEPT !.st.thinking = b]

LEMMA FlagsKeep ==
  ASSUME NEW pre, NEW w, Good(pre, w), NEW b \in BOOLEAN
  PROVE  /\ Good(pre, Starts(w)) /\ Beside(w, Starts(w))
         /\ Good(pre, Thinks(w, b)) /\ Beside(w, Thinks(w, b))
<1> DEFINE Same(v) == /\ v \in Work /\ v.out = w.out /\ v.st.reasoning = w.st.reasoning /\ v.st.msg = w.st.msg
                      /\ v.st.func = w.st.func /\ v.st.completed = w.st.completed
<1>1. w \in Work
  BY DEF Good
<1>2. Same(Starts(w)) /\ Same(Thinks(w, b))
  BY <1>1 DEF Starts, Thinks, Work, ChatState
<1>3. ASSUME NEW v, Same(v) PROVE Good(pre, v) /\ Beside(w, v)
  BY <1>3 DEF Good, Sound, Opened, Closed, Beside
<1> HIDE DEF Same
<1> QED
  BY <1>2, <1>3

ChatChunk ==
    {c \in [kind : STRING, choice : ChoiceIds, reasoning : Text, vendor : BOOLEAN,
            content : [opens : BOOLEAN, head : Text, closes : BOOLEAN, tail : Text],
            calls : Seq(CallEntry), finish : BOOLEAN, usage : STRING] :
        c.content.closes \/ c.content.tail = <<>>}

LEMMA ScaffoldKeeps ==
  ASSUME NEW pre \in Seq(Event), NEW w, Steady(pre, w)
  PROVE  Steady(pre, scaffold(w))
<1>1. CASE w.st.started
  BY <1>1 DEF scaffold
<1>2. CASE ~w.st.started
  <2>1. scaffold(w) = Emit(Starts(w), "created", <<>>, <<>>)
    BY <1>2 DEF scaffold, Starts
  <2>2. Good(pre, Starts(w)) /\ Beside(w, Starts(w))
    BY FlagsKeep DEF Steady
  <2>3. "created" \in EventTypes /\ "created" \notin {"open", "close", "completed"} /\ <<>> \in Items /\ <<>> \in Text
    BY ItemsAre DEF EventTypes
  <2>4. /\ Good(pre, Emit(Starts(w), "created", <<>>, <<>>))
        /\ Emit(Starts(w), "created", <<>>, <<>>).st = Starts(w).st
    BY <2>2, <2>3, EmitSkips
  <2>5. Beside(w, Emit(Starts(w), "created", <<>>, <<>>))
    BY <2>2, <2>4 DEF Beside
  <2> QED
    BY <2>1, <2>4, <2>5, BesideSteady DEF Steady
<1> QED
  BY <1>1, <1>2

LEMMA ReasoningFieldKeeps ==
  ASSUME NEW pre \in Seq(Event), NEW w, Steady(pre, w), NEW c \in ChatChunk
  PROVE  Steady(pre, ReasoningField(w, c))
<1>1. c.choice \in ChoiceIds /\ c.reasoning \in Text
  BY DEF ChatChunk
<1>2. Steady(pre, startReasoning(w, c.choice))
  BY <1>1, StartReasoningKeeps, BesideSteady DEF Steady
<1>3. Steady(pre, emitReasoningDelta(startReasoning(w, c.choice), c.reasoning))
  BY <1>1, <1>2, ReasoningDeltaKeeps, BesideSteady DEF Steady
<1> QED
  BY <1>3 DEF ReasoningField

LEMMA MarksKeep ==
  ASSUME NEW pre \in Seq(Event), NEW w, Steady(pre, w), NEW c \in ChatChunk
  PROVE  Steady(pre, Marks(w, c))
<1> DEFINE opened == IF c.content.opens THEN startReasoning(Thinks(w, TRUE), c.choice) ELSE w
           said == emitReasoningDelta(opened, c.content.head)
<1>1. c.choice \in ChoiceIds /\ c.content.head \in Text
  BY DEF ChatChunk
<1>2. Marks(w, c) = IF c.content.closes THEN Thinks(closeReasoning(said), FALSE) ELSE opened
  BY DEF Marks, Thinks
<1>3. Steady(pre, Thinks(w, TRUE))
  BY FlagsKeep, BesideSteady DEF Steady
<1>4. Steady(pre, startReasoning(Thinks(w, TRUE), c.choice))
  BY <1>1, <1>3, StartReasoningKeeps, BesideSteady DEF Steady
<1>5. Steady(pre, opened)
  BY <1>4
<1> HIDE DEF opened
<1>6. Steady(pre, said)
  BY <1>1, <1>5, ReasoningDeltaKeeps, BesideSteady DEF Steady
<1> HIDE DEF said
<1>7. Steady(pre, closeReasoning(said))
  BY <1>6, CloseReasoningKeeps, BesideSteady DEF Steady
<1>8. Steady(pre, Thinks(closeReasoning(said), FALSE))
  BY <1>7, FlagsKeep, BesideSteady DEF Steady
<1> QED
  BY <1>2, <1>5, <1>8

LEMMA ToolCallsKeep ==
  ASSUME NEW pre \in Seq(Event), NEW w, Steady(pre, w), NEW c \in ChatChunk
  PROVE  Steady(pre, ToolCalls(w, c))
<1>1. c.choice \in ChoiceIds /\ c.calls \in Seq(CallEntry)
  BY DEF ChatChunk
<1>2. ToolCalls(w, c) = IF c.calls = <<>> THEN w ELSE EmitCalls(closeMessage(w, c.choice), c.calls)
  BY DEF ToolCalls, EmitCalls
<1>3. Steady(pre, closeMessage(w, c.choice))
  BY <1>1, CloseMessageKeeps, BesideSteady DEF Steady
<1>4. Steady(pre, EmitCalls(closeMessage(w, c.choice), c.calls))
  BY <1>1, <1>3, EmitCallsKeep DEF Steady
<1> QED
  BY <1>2, <1>4

LEMMA DeltaKeeps ==
  ASSUME NEW pre \in Seq(Event), NEW v, Steady(pre, v), NEW c \in ChatChunk
  PROVE  Steady(pre, Delta(v, c))
<1> DEFINE w == Marks(ReasoningField(v, c), c)
           text == Remaining(c)
           placed == IF text = <<>> THEN w ELSE emitTextContent(w, c.choice, text)
           called == ToolCalls(placed, c)
<1>1. c.choice \in ChoiceIds /\ text \in Text
  BY DEF ChatChunk, Remaining
<1>2. Delta(v, c) = IF w.st.thinking /\ text # <<>> THEN emitReasoningDelta(w, text)
                    ELSE IF c.finish THEN CloseAll(called) ELSE called
  BY DEF Delta
<1>3. Steady(pre, w)
  BY ReasoningFieldKeeps, MarksKeep
<1> HIDE DEF w, text
<1>4. Steady(pre, emitTextContent(w, c.choice, text))
  BY <1>1, <1>3, TextKeeps, BesideSteady DEF Steady
<1>5. Steady(pre, placed)
  BY <1>3, <1>4
<1> HIDE DEF placed
<1>6. Steady(pre, called)
  BY <1>5, ToolCallsKeep
<1> HIDE DEF called
<1>7. Steady(pre, CloseAll(called))
  BY <1>6, CloseAllKeeps DEF Steady, Fresh
<1>8. Steady(pre, emitReasoningDelta(w, text))
  BY <1>1, <1>3, ReasoningDeltaKeeps, BesideSteady DEF Steady
<1> QED
  BY <1>2, <1>6, <1>7, <1>8

LEMMA FreshLine ==
  ASSUME NEW s \in ChatState, NEW pre \in Seq(Event), Sound(s), Fresh(s),
         Ledger(Opened(s), Closed(s), s.completed, pre)
  PROVE  Steady(pre, [st |-> s, out |-> <<>>])
<1> DEFINE w == [st |-> s, out |-> <<>>]
<1>1. <<>> \in Seq(Event)
  OBVIOUS
<1>2. w \in Work /\ w.st = s /\ w.out = <<>>
  BY <1>1 DEF Work
<1>3. pre \o <<>> = pre
  OBVIOUS
<1> HIDE DEF w
<1> QED
  BY <1>2, <1>3 DEF Steady, Good, w

LEMMA ConvertChatKeeps ==
  ASSUME NEW s \in ChatState, NEW pre \in Seq(Event), Sound(s), Fresh(s),
         Ledger(Opened(s), Closed(s), s.completed, pre), NEW c \in ChatChunk
  PROVE  Steady(pre, ConvertChat(s, c))
<1> DEFINE w == [st |-> s, out |-> <<>>]
<1>1. Steady(pre, w)
  BY FreshLine
<1>2. ConvertChat(s, c) = IF c.kind # "chunk" THEN w ELSE Delta(scaffold(w), c)
  BY DEF ConvertChat
<1> HIDE DEF w
<1>3. Steady(pre, Delta(scaffold(w), c))
  BY <1>1, ScaffoldKeeps, DeltaKeeps
<1> QED
  BY <1>1, <1>2, <1>3

LEMMA FlushEventsKeeps ==
  ASSUME NEW s \in ChatState, NEW pre \in Seq(Event), Sound(s), Fresh(s),
         Ledger(Opened(s), Closed(s), s.completed, pre)
  PROVE  Good(pre, flushEvents(s)) /\ flushEvents(s).st.completed
<1> DEFINE w == [st |-> s, out |-> <<>>]
<1>1. Steady(pre, w)
  BY FreshLine
<1>2. flushEvents(s) = IF s.completed THEN w ELSE CloseAll(w)
  BY DEF flushEvents
<1>3. w.st = s
  OBVIOUS
<1> HIDE DEF w
<1> QED
  BY <1>1, <1>2, <1>3, CloseAllKeeps DEF Steady
-----------------------------------------------------------------------------
(* The stream of a Responses client. *)

LEMMA StampedIsChunk ==
  ASSUME NEW n \in Nat, NEW c \in ChatKinds \cup PlainKinds
  PROVE  StampedChat(n, c) \in ChatChunk
<1>1. /\ c \in [kind : STRING, choice : ChoiceIds, reasoning : Seq(STRING), vendor : BOOLEAN,
                 content : [opens : BOOLEAN, head : Seq(STRING), closes : BOOLEAN, tail : Seq(STRING)],
                 calls : Seq([slot : CallSlots, id : BOOLEAN, name : STRING, args : Seq(STRING)]),
                 finish : BOOLEAN, usage : STRING]
      /\ c.content.closes \/ c.content.tail = <<>>
  BY ChatKindsAssumption
<1>2. ASSUME NEW text \in Seq(STRING) PROVE At(n, text) \in Text
  <2>1. DOMAIN text = 1..Len(text) /\ Len(text) \in Nat /\ \A i \in 1..Len(text) : text[i] \in STRING
    BY LenProperties, ElementOfSeq
  <2>2. \A i \in 1..Len(text) : <<n, text[i]>> \in Fragment
    BY <2>1 DEF Fragment
  <2>3. At(n, text) \in [1..Len(text) -> Fragment]
    BY <2>1, <2>2 DEF At
  <2> QED
    BY <2>1, <2>3, FunctionIsSeq DEF Text
<1>3. ASSUME NEW d \in [slot : CallSlots, id : BOOLEAN, name : STRING, args : Seq(STRING)]
      PROVE  [d EXCEPT !.args = At(n, @)] \in CallEntry
  <2>1. At(n, d.args) \in Text
    BY <1>2
  <2> QED
    BY <2>1 DEF CallEntry, Names
<1>4. StampedCalls(n, c.calls) \in Seq(CallEntry)
  <2>1. /\ DOMAIN c.calls = 1..Len(c.calls) /\ Len(c.calls) \in Nat
        /\ \A i \in 1..Len(c.calls) :
              c.calls[i] \in [slot : CallSlots, id : BOOLEAN, name : STRING, args : Seq(STRING)]
    BY <1>1, LenProperties, ElementOfSeq, ZenonT(60)
  <2>2. StampedCalls(n, c.calls) \in [1..Len(c.calls) -> CallEntry]
    BY <1>3, <2>1 DEF StampedCalls
  <2> QED
    BY <2>1, <2>2, FunctionIsSeq
<1>5. At(n, c.reasoning) \in Text /\ At(n, c.content.head) \in Text /\ At(n, c.content.tail) \in Text
  BY <1>1, <1>2
<1>6. c.content.tail = <<>> => At(n, c.content.tail) = <<>>
  BY DEF At
<1> QED
  BY <1>1, <1>4, <1>5, <1>6 DEF ChatChunk, StampedChat

ItemsInv ==
    route = "stream" /\ client = "responses" =>
        /\ upstream = "chat"
        /\ heard \in Seq(ChatChunk) /\ sent \in Seq(Event)
        /\ stage \in {"open", "cut", "flushed", "aborted"}
        /\ Proper(sent)
        /\ stage # "cut" =>
              /\ tr \in ChatState /\ Sound(tr) /\ Fresh(tr)
              /\ Ledger(Opened(tr), Closed(tr), tr.completed, sent)
        /\ stage = "flushed" => tr.completed

LEMMA NothingYet ==
  /\ NewChatToResp \in ChatState /\ Sound(NewChatToResp) /\ Fresh(NewChatToResp)
  /\ Ledger(Opened(NewChatToResp), Closed(NewChatToResp), NewChatToResp.completed, <<>>)
<1>1. "" \in Names
  BY DEF Names
<1>2. <<>> \in Text
  BY ItemsAre
<1>3. [i \in ChoiceIds |-> [added |-> FALSE, done |-> FALSE, buf |-> <<>>]] \in [ChoiceIds -> MessageState]
  BY <1>2 DEF MessageState
<1>4. [i \in CallSlots |-> [id |-> FALSE, name |-> "", args |-> <<>>, added |-> FALSE, done |-> FALSE]]
        \in [CallSlots -> CallState]
  BY <1>1, <1>2 DEF CallState
<1>5. [at |-> <<>>, done |-> FALSE, buf |-> <<>>] \in ReasoningState
  BY <1>2 DEF ReasoningState
<1>6. NewChatToResp \in ChatState
  BY <1>3, <1>4, <1>5 DEF NewChatToResp, ChatState
<1>7. Sound(NewChatToResp) /\ Fresh(NewChatToResp) /\ NewChatToResp.completed = FALSE
  BY DEF Sound, Fresh, NewChatToResp
<1>8. Closed(NewChatToResp) = {}
  BY DEF Closed, NewChatToResp
<1>9. \A type : Places(<<>>, type) = {}
  BY DEF Places
<1>10. Ledger(Opened(NewChatToResp), {}, FALSE, <<>>)
  BY <1>9 DEF Ledger, Proper
<1> QED
  BY <1>6, <1>7, <1>8, <1>10

LEMMA LineKeepsItems ==
  ASSUME ItemsInv, ProcessLine, client = "responses"
  PROVE  ItemsInv'
<1>1. /\ route = "stream" /\ upstream = "chat" /\ stage = "open" /\ UNCHANGED <<route, upstream, client>>
      /\ heard \in Seq(ChatChunk) /\ sent \in Seq(Event) /\ tr \in ChatState /\ Sound(tr) /\ Fresh(tr)
      /\ Ledger(Opened(tr), Closed(tr), tr.completed, sent)
  BY DEF ItemsInv, ProcessLine
<1>2. PICK e \in Messages(heard) :
        LET w == Convert(tr, e)
            items == ToClient(Merged(tracked, e), w.out)
        IN \E k \in 0 .. Len(items) :
              /\ heard' = Append(heard, e)
              /\ tr' = w.st
              /\ tracked' = Merged(tracked, e)
              /\ sent' = sent \o SubSeq(items, 1, k)
              /\ stage' = IF k = Len(items) THEN "open" ELSE "cut"
  BY DEF ProcessLine
<1> DEFINE w == ConvertChat(tr, e)
<1>3. PICK k \in 0 .. Len(w.out) :
              /\ heard' = Append(heard, e)
              /\ tr' = w.st
              /\ sent' = sent \o SubSeq(w.out, 1, k)
              /\ stage' = IF k = Len(w.out) THEN "open" ELSE "cut"
  BY <1>1, <1>2 DEF Convert, ToClient
<1>4. e \in ChatChunk
  <2>1. PICK c \in ChatKinds \cup PlainKinds : e = StampedChat(Len(heard) + 1, c)
    BY <1>1, <1>2 DEF Messages, ChatMessages
  <2>2. Len(heard) + 1 \in Nat
    BY <1>1, LenProperties
  <2> QED
    BY <2>1, <2>2, StampedIsChunk
<1>5. Steady(sent, w)
  BY <1>1, <1>4, ConvertChatKeeps
<1> HIDE DEF w
<1>6. /\ w.out \in Seq(Event) /\ w.st \in ChatState /\ Sound(w.st) /\ Fresh(w.st)
      /\ Ledger(Opened(w.st), Closed(w.st), w.st.completed, sent \o w.out)
  BY <1>5, WorkIs DEF Steady, Good
<1>7. heard' \in Seq(ChatChunk)
  BY <1>1, <1>3, <1>4, AppendProperties
<1>8. SubSeq(w.out, 1, k) \in Seq(Event) /\ Len(SubSeq(w.out, 1, k)) = k
      /\ (\A i \in 1..k : SubSeq(w.out, 1, k)[i] = w.out[i]) /\ k \in Nat /\ k <= Len(w.out)
  <2>1. Len(w.out) \in Nat
    BY <1>6, LenProperties
  <2>2. k \in Nat /\ k <= Len(w.out)
    BY <2>1
  <2> QED
    BY <1>6, <2>1, <2>2, SubSeqProperties
<1>9. sent' \in Seq(Event) /\ Proper(sent')
  <2> DEFINE cut == SubSeq(w.out, 1, k)
  <2>1. Proper(sent \o w.out)
    BY <1>6 DEF Ledger
  <2>2. /\ sent \o w.out \in Seq(Event) /\ Len(sent \o w.out) = Len(sent) + Len(w.out)
        /\ \A i \in 1..(Len(sent) + Len(w.out)) : (sent \o w.out)[i] = IF i <= Len(sent) THEN sent[i] ELSE w.out[i - Len(sent)]
    BY <1>1, <1>6, ConcatProperties
  <2>3. /\ sent \o cut \in Seq(Event) /\ Len(sent \o cut) = Len(sent) + k
        /\ \A i \in 1..(Len(sent) + k) : (sent \o cut)[i] = IF i <= Len(sent) THEN sent[i] ELSE cut[i - Len(sent)]
    BY <1>1, <1>8, ConcatProperties
  <2>4. Len(sent) \in Nat /\ Len(w.out) \in Nat
    BY <1>1, <1>6, LenProperties
  <2>5. \A i \in 1..(Len(sent) + k) : i \in 1..(Len(sent) + Len(w.out)) /\ (~(i <= Len(sent)) => i - Len(sent) \in 1..k)
    BY <1>8, <2>4
  <2>6. \A i \in 1..Len(sent \o cut) : (sent \o cut)[i] = (sent \o w.out)[i]
    BY <1>8, <2>2, <2>3, <2>5
  <2>7. Len(sent \o cut) <= Len(sent \o w.out)
    BY <1>8, <2>2, <2>3, <2>4
  <2> HIDE DEF cut
  <2>8. Proper(sent \o cut)
    BY <2>1, <2>2, <2>3, <2>6, <2>7, ProperCut
  <2> QED
    BY <1>3, <2>3, <2>8 DEF cut
<1>10. CASE k = Len(w.out)
  <2>1. SubSeq(w.out, 1, Len(w.out)) = w.out
    BY <1>6, SubSeqFull
  <2>2. sent' = sent \o w.out /\ stage' = "open"
    BY <1>3, <1>10, <2>1
  <2> QED
    BY <1>1, <1>3, <1>6, <1>7, <1>9, <2>2 DEF ItemsInv
<1>11. CASE k # Len(w.out)
  <2>1. stage' = "cut"
    BY <1>3, <1>11
  <2> QED
    BY <1>1, <1>7, <1>9, <2>1 DEF ItemsInv
<1> QED
  BY <1>10, <1>11

LEMMA EndKeepsItems ==
  ASSUME ItemsInv, StreamEnds, client = "responses"
  PROVE  ItemsInv'
<1>1. /\ route = "stream" /\ upstream = "chat" /\ stage = "open" /\ stage' = "flushed"
      /\ UNCHANGED <<route, upstream, client, heard>>
      /\ heard \in Seq(ChatChunk) /\ sent \in Seq(Event) /\ tr \in ChatState /\ Sound(tr) /\ Fresh(tr)
      /\ Ledger(Opened(tr), Closed(tr), tr.completed, sent)
  BY DEF ItemsInv, StreamEnds
<1> DEFINE w == flushEvents(tr)
<1>2. tr' = w.st /\ sent' = sent \o w.out
  BY <1>1 DEF StreamEnds, Flush, ToClient
<1>3. Good(sent, w) /\ w.st.completed
  BY <1>1, FlushEventsKeeps
<1> HIDE DEF w
<1>4. /\ w.out \in Seq(Event) /\ w.st \in ChatState /\ Sound(w.st) /\ Fresh(w.st)
      /\ Ledger(Opened(w.st), Closed(w.st), w.st.completed, sent \o w.out)
  BY <1>3, WorkIs DEF Good, Fresh
<1>5. sent' \in Seq(Event) /\ Proper(sent')
  BY <1>1, <1>2, <1>4 DEF Ledger
<1> QED
  BY <1>1, <1>2, <1>3, <1>4, <1>5 DEF ItemsInv

LEMMA ItemsInvariant == Spec => []ItemsInv
<1>1. Init => ItemsInv /\ ReaderRests
  <2>1. Init => ReaderRests
    BY DEF Init, ReaderRests, ReadInit
  <2>2. ASSUME Init, route = "stream", client = "responses" PROVE ItemsInv
    <3>1. upstream = "chat" /\ tr = NewChatToResp /\ heard = <<>> /\ sent = <<>> /\ stage = "open"
      BY <2>2 DEF Init
    <3>2. <<>> \in Seq(ChatChunk) /\ <<>> \in Seq(Event)
      BY EmptySeq
    <3> QED
      BY <3>1, <3>2, NothingYet DEF ItemsInv, Ledger
  <2> QED
    BY <2>1, <2>2 DEF ItemsInv
<1>2. ItemsInv /\ ReaderRests /\ [Next]_vars => (ItemsInv /\ ReaderRests)'
  <2> SUFFICES ASSUME ItemsInv, ReaderRests, [Next]_vars PROVE ItemsInv'
    BY StreamSteps
  <2>1. UNCHANGED <<route, upstream, client>>
    BY StreamSteps
  <2>2. CASE ~(route = "stream" /\ client = "responses")
    BY <2>1, <2>2 DEF ItemsInv
  <2>3. CASE route = "stream" /\ client = "responses"
    <3>1. ProcessLine \/ StreamEnds \/ StreamAborts \/ UNCHANGED translateVars
      BY <2>3, StreamSteps
    <3>2. CASE StreamAborts
      BY <3>2 DEF StreamAborts, ItemsInv
    <3>3. CASE UNCHANGED translateVars
      BY <3>3 DEF translateVars, ItemsInv
    <3> QED
      BY <2>3, <3>1, <3>2, <3>3, LineKeepsItems, EndKeepsItems
  <2> QED
    BY <2>2, <2>3
<1> QED
  BY <1>1, <1>2, PTL DEF Spec

\* Whatever chunks come, and wherever the stream is cut: no item starts or
\* ends twice, none is left open when the response completes, and it completes
\* once, at the latest with the stream (stream_chat2resp.go: closeMessage,
\* closeToolCall, closeReasoning, sendCompleted, flushEvents).
THEOREM ItemsCorrect == Spec => []ItemsEnd
<1>1. ItemsInv => ItemsEnd
  <2> SUFFICES ASSUME ItemsInv, route = "stream", client = "responses" PROVE ItemsEnd
    BY DEF ItemsEnd
  <2>1. Proper(sent)
    BY DEF ItemsInv
  <2>2. stage = "flushed" => Places(sent, "completed") # {}
    BY DEF ItemsInv, Ledger
  <2>3. \A type \in {"open", "close"} : \A i, j \in Places(sent, type) : sent[i].item = sent[j].item => i = j
    BY <2>1 DEF Proper
  <2> QED
    BY <2>1, <2>2, <2>3 DEF ItemsEnd, Proper
<1> QED
  BY <1>1, ItemsInvariant, PTL

-----------------------------------------------------------------------------
(* Texts put together from events. *)

\* One event more.
LEMMA TextOfAppend ==
  ASSUME NEW S, NEW E, \A x \in E : x.text \in Seq(S), NEW s \in Seq(E), NEW e \in E
  PROVE  TextOf(s) \in Seq(S) /\ TextOf(Append(s, e)) = TextOf(s) \o e.text
<1> DEFINE said(q) == [i \in DOMAIN q |-> q[i].text]
<1>1. \A q : TextOf(q) = Texts(said(q))
  BY DEF TextOf, Mapped
<1>2. /\ Len(s) \in Nat /\ DOMAIN s = 1..Len(s) /\ \A i \in 1..Len(s) : s[i] \in E
      /\ Append(s, e) \in Seq(E) /\ DOMAIN Append(s, e) = 1..(Len(s) + 1)
      /\ (\A i \in 1..Len(s) : Append(s, e)[i] = s[i]) /\ Append(s, e)[Len(s) + 1] = e
  BY AppendProperties, LenProperties, ElementOfSeq
<1>3. said(s) \in [1..Len(s) -> Seq(S)]
  BY <1>2
<1>4. said(s) \in Seq(Seq(S)) /\ Len(said(s)) = Len(s)
  <2> HIDE DEF said
  <2> QED
    BY <1>2, <1>3, FunctionIsSeq
<1>5. said(Append(s, e)) = Append(said(s), e.text)
  <2> DEFINE a == said(s)
             b == said(Append(s, e))
  <2>0. e.text \in Seq(S)
    OBVIOUS
  <2>1. /\ Append(a, e.text) \in Seq(Seq(S)) /\ Len(Append(a, e.text)) = Len(s) + 1
        /\ (\A i \in 1..Len(s) : Append(a, e.text)[i] = a[i]) /\ Append(a, e.text)[Len(s) + 1] = e.text
    <3> HIDE DEF a
    <3> QED
      BY <1>4, <2>0, AppendProperties DEF a
  <2>2. DOMAIN b = 1..(Len(s) + 1) /\ (\A i \in 1..(Len(s) + 1) : b[i] = Append(s, e)[i].text)
        /\ \A i \in 1..Len(s) : a[i] = s[i].text
    BY <1>2
  <2>3. DOMAIN Append(a, e.text) = 1..(Len(s) + 1)
    <3> HIDE DEF a
    <3> QED
      BY <2>1, LenProperties
  <2>4. b = [i \in 1..(Len(s) + 1) |-> b[i]]
    BY <2>2
  <2> HIDE DEF a, b
  <2>5. \A i \in 1..(Len(s) + 1) : b[i] = Append(a, e.text)[i]
    BY <1>2, <2>1, <2>2
  <2>6. b = Append(a, e.text)
    BY <2>1, <2>3, <2>4, <2>5
  <2> QED
    BY <2>6 DEF a, b
<1> HIDE DEF said
<1>6. Texts(said(s)) \in Seq(S)
  BY <1>4, TextsTyped
<1>7. e.text \in Seq(S)
  OBVIOUS
<1>8. Texts(Append(said(s), e.text)) = Texts(said(s)) \o e.text
  BY <1>4, <1>7, TextsAppend
<1> QED
  BY <1>1, <1>5, <1>6, <1>8

LEMMA TextOfEmpty == TextOf(<<>>) = <<>>
<1>1. Mapped(LAMBDA e : e.text, <<>>) = <<>>
  BY DEF Mapped
<1> QED
  BY <1>1, TextsEmpty DEF TextOf

-----------------------------------------------------------------------------
(* The events of a Responses upstream. *)

Words == Seq(Nat \X {"said", "full"})

RespKinds == {"text", "reasoning", "other", "call.added", "call.delta", "call.done", "message.done",
              "completed", "failed"}

Keys == {<<>>} \cup {<<n>> : n \in Nat}

RespEvent == [kind : RespKinds, key : Keys, callId : Nat, custom : BOOLEAN, index : Nat, text : Words,
              usage : {"none", "zero", "valid"}, error : BOOLEAN]

LEMMA OfAppend ==
  ASSUME NEW E, NEW b \in Seq(E), NEW e \in E, NEW kind, NEW n
  PROVE  /\ Of(b, kind) \in Seq(E) /\ OfCall(b, kind, n) \in Seq(E)
         /\ Of(Append(b, e), kind) = IF e.kind = kind THEN Append(Of(b, kind), e) ELSE Of(b, kind)
         /\ OfCall(Append(b, e), kind, n) =
               IF e.kind = kind /\ e.index = n THEN Append(OfCall(b, kind, n), e) ELSE OfCall(b, kind, n)
<1> DEFINE U(q) == {x \in Range(q) : x.kind = kind}
           V(q) == {x \in Range(q) : x.kind = kind /\ x.index = n}
           c == Append(b, e)
<1>1. /\ DOMAIN b = 1..Len(b) /\ Range(c) = Range(b) \cup {e}
      /\ \A i \in 1..Len(b) : b[i] \in Range(b)
  BY AppendIs DEF Range
<1> HIDE DEF c
<1>2. /\ \A i \in DOMAIN b : (b[i] \in U(b) <=> b[i] \in U(c)) /\ (b[i] \in V(b) <=> b[i] \in V(c))
      /\ (e \in U(c) <=> e.kind = kind) /\ (e \in V(c) <=> (e.kind = kind /\ e.index = n))
  BY <1>1
<1>3. \A q : Of(q, kind) = Only(q, U(q)) /\ OfCall(q, kind, n) = Only(q, V(q))
  BY DEF Of, OfCall
<1> HIDE DEF U, V
<1>4. Only(b, U(b)) \in Seq(E) /\ Only(b, V(b)) \in Seq(E)
  BY OnlyTyped
<1>5. Only(c, U(c)) = IF e \in U(c) THEN Append(Only(b, U(b)), e) ELSE Only(b, U(b))
  BY <1>2, OnlyNext DEF c
<1>6. Only(c, V(c)) = IF e \in V(c) THEN Append(Only(b, V(b)), e) ELSE Only(b, V(b))
  BY <1>2, OnlyNext DEF c
<1> QED
  BY <1>2, <1>3, <1>4, <1>5, <1>6 DEF c

LEMMA OfEmpty == ASSUME NEW kind, NEW n PROVE Of(<<>>, kind) = <<>> /\ OfCall(<<>>, kind, n) = <<>>
BY OnlyEmpty DEF Of, OfCall

\* What is picked of a kind is all there is of it.
LEMMA OfRange ==
  ASSUME NEW E, NEW b \in Seq(E), NEW kind
  PROVE  Range(Of(b, kind)) = {x \in Range(b) : x.kind = kind}
<1> DEFINE P == {q \in Seq(E) : Range(Of(q, kind)) = {x \in Range(q) : x.kind = kind}}
<1>1. <<>> \in P
  BY OfEmpty, EmptySeq DEF Range
<1>2. ASSUME NEW q \in Seq(E), NEW e \in E, q \in P PROVE Append(q, e) \in P
  <2>0. /\ Of(q, kind) \in Seq(E) /\ OfCall(q, kind, 0) \in Seq(E)
        /\ Of(Append(q, e), kind) = IF e.kind = kind THEN Append(Of(q, kind), e) ELSE Of(q, kind)
        /\ OfCall(Append(q, e), kind, 0) =
              IF e.kind = kind /\ e.index = 0 THEN Append(OfCall(q, kind, 0), e) ELSE OfCall(q, kind, 0)
    BY OfAppend
  <2>1. Of(q, kind) \in Seq(E) /\ Of(Append(q, e), kind) = IF e.kind = kind THEN Append(Of(q, kind), e) ELSE Of(q, kind)
    BY <2>0
  <2>2. Range(Append(q, e)) = Range(q) \cup {e} /\ Append(q, e) \in Seq(E)
    BY AppendIs
  <2>3. Range(Append(Of(q, kind), e)) = Range(Of(q, kind)) \cup {e}
    BY <2>1, AppendIs
  <2>4. Range(Of(q, kind)) = {x \in Range(q) : x.kind = kind}
    BY <1>2
  <2>5. Range(Of(Append(q, e), kind)) = {x \in Range(Append(q, e)) : x.kind = kind}
    BY <2>1, <2>2, <2>3, <2>4
  <2> QED
    BY <2>2, <2>5
<1> HIDE DEF P
<1>3. Seq(E) \subseteq P
  BY <1>1, <1>2, SequenceInduction
<1> QED
  BY <1>3 DEF P

\* A call is started by the first announcement of its index.
LEMMA FirstStartsAppend ==
  ASSUME NEW E, NEW b \in Seq(E), NEW e \in E
  PROVE  /\ FirstStarts(b) \in Seq(E)
         /\ FirstStarts(Append(b, e)) =
               IF e.kind = "call.added" /\ \A i \in 1..Len(b) : b[i].kind = "call.added" => b[i].index # e.index
               THEN Append(FirstStarts(b), e) ELSE FirstStarts(b)
<1> DEFINE c == Append(b, e)
           n == Len(b)
           at(q) == [i \in DOMAIN q |-> i]
           U(q) == {i \in DOMAIN q : Announces(q, i)}
           is(q, o) == [i \in DOMAIN o |-> q[o[i]]]
           new == e.kind = "call.added" /\ \A i \in 1..Len(b) : b[i].kind = "call.added" => b[i].index # e.index
<1>1. /\ c \in Seq(E) /\ n \in Nat /\ Len(c) = n + 1 /\ DOMAIN b = 1..n /\ DOMAIN c = 1..(n + 1)
      /\ (\A i \in 1..n : c[i] = b[i] /\ b[i] \in E) /\ c[n + 1] = e
  BY AppendIs
<1>0. \A q : FirstStarts(q) = is(q, Only(at(q), U(q)))
  BY DEF FirstStarts, Mapped
<1>2. /\ \A i \in 1..n : i \in U(b) <=> i \in U(c)
      /\ n + 1 \in U(c) <=> new
  <2> HIDE DEF c
  <2>1. \A i \in 1..n : \A j \in 1..(i - 1) : j \in 1..n
    BY <1>1
  <2>2. \A i \in 1..n : Announces(b, i) <=> Announces(c, i)
    BY <1>1, <2>1 DEF Announces
  <2>3. 1..((n + 1) - 1) = 1..n /\ n + 1 \in 1..(n + 1) /\ \A i \in 1..n : i \in 1..(n + 1)
    BY <1>1
  <2>4. Announces(c, n + 1) <=> new
    BY <1>1, <2>3 DEF Announces
  <2> QED
    BY <1>1, <2>2, <2>3, <2>4
<1> DEFINE M == 1..(n + 1)
<1>3. at(b) \in Seq(1..n) /\ at(b) \in Seq(M) /\ Len(at(b)) = n /\ DOMAIN at(b) = 1..n /\ \A i \in 1..n : at(b)[i] = i
  <2>1. at(b) \in [1..n -> 1..n] /\ at(b) \in [1..n -> M]
    BY <1>1
  <2>2. at(b) \in Seq(1..n) /\ at(b) \in Seq(M) /\ Len(at(b)) = n
    <3> HIDE DEF at, M
    <3> QED
      BY <1>1, <2>1, FunctionIsSeq
  <2> QED
    BY <1>1, <2>2
<1>4. at(c) = Append(at(b), n + 1)
  <2> DEFINE s == at(b)
  <2>1. /\ Append(s, n + 1) \in Seq(M) /\ DOMAIN Append(s, n + 1) = 1..(n + 1)
        /\ (\A i \in 1..n : Append(s, n + 1)[i] = i) /\ Append(s, n + 1)[n + 1] = n + 1
    <3>1. n + 1 \in M
      BY <1>1
    <3> HIDE DEF s, M
    <3> QED
      BY <1>3, <3>1, AppendIs DEF s
  <2>2. Append(s, n + 1) = [i \in 1..(n + 1) |-> Append(s, n + 1)[i]]
    <3> HIDE DEF s, M
    <3> QED
      BY <2>1
  <2> HIDE DEF s
  <2>3. \A i \in 1..(n + 1) : Append(s, n + 1)[i] = i
    BY <1>1, <2>1
  <2> QED
    BY <1>1, <2>2, <2>3 DEF s
<1> HIDE DEF at, U, new
<1> DEFINE o == Only(at(b), U(b))
           p == Only(at(c), U(c))
<1>5. o \in Seq(1..n)
  BY <1>3, OnlyTyped
<1>6. p = IF new THEN Append(o, n + 1) ELSE o
  <2>1. n + 1 \in M
    BY <1>1
  <2> HIDE DEF M
  <2>2. \A i \in DOMAIN at(b) : at(b)[i] \in U(b) <=> at(b)[i] \in U(c)
    BY <1>2, <1>3
  <2> DEFINE s == at(b)
             u == U(b)
             v == U(c)
             x == n + 1
  <2>3. s \in Seq(M) /\ x \in M /\ \A i \in DOMAIN s : s[i] \in u <=> s[i] \in v
    BY <1>3, <2>1, <2>2
  <2> HIDE DEF s, u, v, x
  <2>4. Only(Append(s, x), v) = IF x \in v THEN Append(Only(s, u), x) ELSE Only(s, u)
    BY <2>3, OnlyNext, SMTT(20)
  <2> QED
    BY <1>2, <1>4, <2>4 DEF s, u, v, x
<1> HIDE DEF o, p
<1>7. DOMAIN o = 1..Len(o) /\ Len(o) \in Nat /\ \A i \in 1..Len(o) : o[i] \in 1..n
  BY <1>5, LenProperties, ElementOfSeq
<1>8. is(b, o) \in Seq(E) /\ Len(is(b, o)) = Len(o) /\ DOMAIN is(b, o) = 1..Len(o)
  <2>1. is(b, o) \in [1..Len(o) -> E] /\ DOMAIN is(b, o) = 1..Len(o)
    BY <1>1, <1>7
  <2> HIDE DEF is
  <2> QED
    BY <1>7, <2>1, FunctionIsSeq
<1>9. is(c, o) = is(b, o)
  BY <1>1, <1>7
<1>10. is(c, Append(o, n + 1)) = Append(is(b, o), e)
  <2> DEFINE q == Append(o, n + 1)
             r == Append(is(b, o), e)
  <2>1. DOMAIN q = 1..(Len(o) + 1) /\ (\A i \in 1..Len(o) : q[i] = o[i]) /\ q[Len(o) + 1] = n + 1
    <3>1. o \in Seq(M) /\ n + 1 \in M
      BY <1>1, <1>5
    <3> HIDE DEF M
    <3> QED
      BY <3>1, AppendIs
  <2>2. /\ r \in Seq(E) /\ DOMAIN r = 1..(Len(o) + 1) /\ (\A i \in 1..Len(o) : r[i] = is(b, o)[i])
        /\ r[Len(o) + 1] = e
    <3> HIDE DEF is
    <3> QED
      BY <1>8, AppendIs
  <2> HIDE DEF q, r
  <2>3. r = [i \in 1..(Len(o) + 1) |-> r[i]]
    BY <2>2
  <2>4. \A i \in 1..Len(o) : is(b, o)[i] = b[o[i]]
    BY <1>7
  <2>5. \A i \in 1..(Len(o) + 1) : r[i] = c[q[i]]
    <3> TAKE i \in 1..(Len(o) + 1)
    <3>1. CASE i \in 1..Len(o)
      BY <1>1, <1>7, <2>1, <2>2, <2>4, <3>1
    <3>2. CASE i = Len(o) + 1
      BY <1>1, <2>1, <2>2, <3>2
    <3>3. i \in 1..Len(o) \/ i = Len(o) + 1
      BY <1>7
    <3> QED
      BY <3>1, <3>2, <3>3
  <2> QED
    BY <2>1, <2>3, <2>5 DEF q, r
<1> HIDE DEF is
<1> QED
  BY <1>0, <1>6, <1>8, <1>9, <1>10 DEF o, p, new, c

LEMMA FirstStartsEmpty == FirstStarts(<<>>) = <<>>
<1> DEFINE at == [i \in DOMAIN <<>> |-> i]
           U == {i \in DOMAIN <<>> : Announces(<<>>, i)}
<1>1. at = <<>>
  OBVIOUS
<1> HIDE DEF at, U
<1>2. Only(at, U) = <<>>
  BY <1>1, OnlyEmpty
<1> QED
  BY <1>2 DEF FirstStarts, Mapped, at, U

\* Calls that are announced and not finished.
LEMMA OpenCallsAre ==
  ASSUME NEW b \in Seq(RespEvent), NEW o \in OpenCalls(b)
  PROVE  /\ o \in RespEvent /\ o.kind = "call.added" /\ OfCall(b, "call.done", o.index) = <<>>
         /\ \E i \in 1..Len(b) : b[i] = o
<1>1. Range(Of(b, "call.added")) = {x \in Range(b) : x.kind = "call.added"}
  BY OfRange
<1>2. o \in Range(b) /\ o.kind = "call.added" /\ OfCall(b, "call.done", o.index) = <<>>
  BY <1>1 DEF OpenCalls
<1>3. DOMAIN b = 1..Len(b) /\ \A i \in 1..Len(b) : b[i] \in RespEvent
  BY LenProperties, ElementOfSeq
<1> QED
  BY <1>2, <1>3 DEF Range

LEMMA MessageIs ==
  ASSUME NEW kind \in RespKinds
  PROVE  Message(kind) \in RespEvent /\ Message(kind).kind = kind
<1>1. <<>> \in Words /\ <<>> \in Keys
  BY EmptySeq DEF Words, Keys
<1>2. Placeholder \in RespEvent
  BY <1>1 DEF Placeholder, RespEvent, RespKinds
<1>3. Message(kind) = [Placeholder EXCEPT !.kind = kind]
  BY DEF Message
<1> QED
  BY <1>2, <1>3 DEF RespEvent

\* The next message of a Responses upstream, by what it does to the calls.
Speech(e) == e.kind \in {"text", "reasoning"} /\ e.text # <<>>
Aside(b, e) ==
    /\ e.kind \in {"other", "message.done", "completed", "failed"}
    /\ e.kind = "message.done" => e.index = FreshIndex(b)
Announcement(b, e) ==
    /\ e.kind = "call.added" /\ e.callId = Len(b) + 1 /\ e.index = FreshIndex(b)
    /\ e.key \in {<<>>, <<e.callId>>}
    /\ \A o \in OpenCalls(b) : o.key # <<>> /\ e.key # <<>>
Retry(b, e) == e \in OpenCalls(b)
Portion(b, e) == e.kind = "call.delta" /\ e.text # <<>> /\ \E o \in OpenCalls(b) : o.key = e.key /\ o.index = e.index
Finish(b, e) == e.kind = "call.done" /\ \E o \in OpenCalls(b) : o.key = e.key /\ o.index = e.index

LEMMA TextOfTyped ==
  ASSUME NEW E, NEW S, \A x \in E : x.text \in Seq(S), NEW s \in Seq(E)
  PROVE  TextOf(s) \in Seq(S)
<1>1. /\ Len(s) \in Nat /\ DOMAIN s = 1..Len(s) /\ \A i \in 1..Len(s) : s[i] \in E
  BY LenProperties, ElementOfSeq
<1> DEFINE f == [i \in DOMAIN s |-> s[i].text]
<1>2. f \in [1..Len(s) -> Seq(S)]
  BY <1>1
<1>3. TextOf(s) = Texts(f)
  BY DEF TextOf, Mapped
<1> HIDE DEF f
<1>4. f \in Seq(Seq(S))
  BY <1>1, <1>2, FunctionIsSeq
<1> QED
  BY <1>3, <1>4, TextsTyped

LEMMA UnfinishedTyped == ASSUME NEW b \in Seq(RespEvent) PROVE Unfinished(b) \in Words
<1>1. /\ Len(b) \in Nat /\ DOMAIN b = 1..Len(b) /\ \A i \in 1..Len(b) : b[i] \in RespEvent
  BY LenProperties, ElementOfSeq
<1> DEFINE f == [i \in DOMAIN b |-> IF b[i].kind = "text" /\ \A j \in i .. Len(b) : b[j].kind # "message.done"
                                   THEN b[i].text ELSE <<>>]
<1>2. \A i \in 1..Len(b) : b[i].text \in Words
  BY <1>1 DEF RespEvent
<1>3. <<>> \in Words
  BY EmptySeq DEF Words
<1>4. f \in [1..Len(b) -> Words]
  BY <1>1, <1>2, <1>3
<1>5. Unfinished(b) = Texts(f)
  BY DEF Unfinished
<1> HIDE DEF f
<1>6. f \in Seq(Words)
  BY <1>1, <1>4, FunctionIsSeq
<1> QED
  BY <1>5, <1>6, TextsTyped DEF Words

LEMMA FreshIndexTyped == ASSUME NEW b \in Seq(RespEvent) PROVE FreshIndex(b) \in Nat
<1>1. Of(b, "message.done") \in Seq(RespEvent)
  BY OnlyTyped DEF Of
<1>2. FirstStarts(b) \in Seq(RespEvent)
  <2>1. DOMAIN b = 1..Len(b) /\ Len(b) \in Nat
    BY LenProperties
  <2>2. CASE b = <<>>
    BY <2>2, FirstStartsEmpty, EmptySeq
  <2>3. CASE b # <<>>
    <3>1. b[1] \in RespEvent
      BY <2>3, EmptySeq, ElementOfSeq, LenProperties
    <3> QED
      BY <3>1, FirstStartsAppend
  <2> QED
    BY <2>2, <2>3
<1> QED
  BY <1>1, <1>2, LenProperties DEF FreshIndex

LEMMA SayingTyped ==
  ASSUME NEW b \in Seq(RespEvent)
  PROVE  Saying(b) \in Words /\ Saying(b) # <<>> /\ <<<<Len(b) + 1, "full">>>> \in Words /\ <<>> \in Words
BY LenProperties, EmptySeq DEF Saying, Words

\* The parts of what a Responses upstream says.
LEMMA RespMessageParts ==
  ASSUME NEW b, NEW e \in ResponsesMessages(b)
  PROVE  \/ \E kind \in {"text", "reasoning"} : e = Utterance(b, kind)
         \/ e = Message("other")
         \/ \E key \in {<<>>, <<Len(b) + 1>>}, custom \in BOOLEAN :
               e = Announce(b, key, custom) /\ \A o \in OpenCalls(b) : o.key # <<>> /\ key # <<>>
         \/ e \in OpenCalls(b)
         \/ \E o \in OpenCalls(b) : e = PieceOf(b, o)
         \/ \E o \in OpenCalls(b) : \E text \in FinalTexts(b, o) : e = Finished(o, text)
         \/ Unfinished(b) # <<>> /\ e = FinishedMessage(b)
         \/ \E usage \in {"none", "zero", "valid"} : e = Completion(usage)
         \/ \E error \in BOOLEAN : e = Failure(error)
BY DEF ResponsesMessages

LEMMA RespMessageIs ==
  ASSUME NEW b \in Seq(RespEvent), NEW e \in ResponsesMessages(b)
  PROVE  /\ e \in RespEvent
         /\ Speech(e) \/ Aside(b, e) \/ Announcement(b, e) \/ Retry(b, e) \/ Portion(b, e) \/ Finish(b, e)
<1> DEFINE Goal == /\ e \in RespEvent
                   /\ Speech(e) \/ Aside(b, e) \/ Announcement(b, e) \/ Retry(b, e) \/ Portion(b, e) \/ Finish(b, e)
<1>1. Saying(b) \in Words /\ Saying(b) # <<>> /\ Len(b) \in Nat
  BY SayingTyped, LenProperties
<1>2. FreshIndex(b) \in Nat
  BY FreshIndexTyped
<1>3. \A o \in OpenCalls(b) : o \in RespEvent /\ o.kind = "call.added"
  BY OpenCallsAre
<1>4. ASSUME NEW kind \in {"text", "reasoning"}, e = Utterance(b, kind) PROVE Goal
  <2>1. Message(kind) \in RespEvent /\ Message(kind).kind = kind
    BY MessageIs DEF RespKinds
  <2>2. e = [Message(kind) EXCEPT !.text = Saying(b)]
    BY <1>4 DEF Utterance
  <2>3. e \in RespEvent /\ e.text = Saying(b) /\ e.kind = kind
    BY <1>1, <2>1, <2>2 DEF RespEvent
  <2> QED
    BY <1>1, <2>3 DEF Speech
<1>5. CASE e = Message("other")
  <2>1. e \in RespEvent /\ e.kind = "other"
    BY <1>5, MessageIs DEF RespKinds
  <2> QED
    BY <2>1 DEF Aside
<1>6. ASSUME NEW key \in {<<>>, <<Len(b) + 1>>}, NEW custom \in BOOLEAN, e = Announce(b, key, custom),
             \A o \in OpenCalls(b) : o.key # <<>> /\ key # <<>>
      PROVE  Goal
  <2> DEFINE m == Message("call.added")
  <2>1. m \in RespEvent /\ m.kind = "call.added"
    BY MessageIs DEF RespKinds
  <2>2. key \in Keys
    BY <1>1 DEF Keys
  <2>3. e = [m EXCEPT !.key = key, !.callId = Len(b) + 1, !.custom = custom, !.index = FreshIndex(b)]
    BY <1>6 DEF Announce
  <2> HIDE DEF m
  <2> DEFINE n == Len(b) + 1
             f == FreshIndex(b)
  <2>5. n \in Nat /\ f \in Nat /\ e = [m EXCEPT !.key = key, !.callId = n, !.custom = custom, !.index = f]
    BY <1>1, <1>2, <2>3
  <2> HIDE DEF n, f
  <2>6. e \in RespEvent /\ e.kind = "call.added" /\ e.key = key /\ e.callId = n /\ e.index = f
    BY <2>1, <2>2, <2>5 DEF RespEvent
  <2>4. e \in RespEvent /\ e.kind = "call.added" /\ e.key = key /\ e.callId = Len(b) + 1 /\ e.index = FreshIndex(b)
    BY <2>6 DEF n, f
  <2> QED
    BY <1>6, <2>4 DEF Announcement
<1>7. CASE e \in OpenCalls(b)
  BY <1>3, <1>7 DEF Retry
<1>8. ASSUME NEW o \in OpenCalls(b), e = PieceOf(b, o) PROVE Goal
  <2>1. o \in RespEvent
    BY <1>3
  <2>2. e = [o EXCEPT !.kind = "call.delta", !.text = Saying(b)]
    BY <1>8 DEF PieceOf
  <2>3. e \in RespEvent /\ e.kind = "call.delta" /\ e.text = Saying(b) /\ e.key = o.key /\ e.index = o.index
    BY <1>1, <2>1, <2>2 DEF RespEvent, RespKinds
  <2> QED
    BY <1>1, <2>3 DEF Portion
<1>9. ASSUME NEW o \in OpenCalls(b), NEW t \in FinalTexts(b, o), e = Finished(o, t) PROVE Goal
  <2>1. o \in RespEvent
    BY <1>3
  <2>2. t \in Words
    <3>1. ArgumentDeltas(b, o.index) \in Seq(RespEvent)
      BY OnlyTyped DEF ArgumentDeltas, OfCall
    <3>2. \A x \in RespEvent : x.text \in Seq(Nat \X {"said", "full"})
      BY DEF RespEvent, Words
    <3>3. TextOf(ArgumentDeltas(b, o.index)) \in Words
      BY <3>1, <3>2, TextOfTyped DEF Words
    <3>4. t \in {<<>>, <<<<Len(b) + 1, "full">>>>, TextOf(ArgumentDeltas(b, o.index))}
      BY <1>9 DEF FinalTexts
    <3> QED
      BY <3>3, <3>4, SayingTyped
  <2>3. e = [o EXCEPT !.kind = "call.done", !.text = t]
    BY <1>9 DEF Finished
  <2>4. e \in RespEvent /\ e.kind = "call.done" /\ e.key = o.key /\ e.index = o.index
    BY <2>1, <2>2, <2>3 DEF RespEvent, RespKinds
  <2> QED
    BY <2>4 DEF Finish
<1>10. CASE e = FinishedMessage(b)
  <2> DEFINE m == Message("message.done")
  <2>1. m \in RespEvent /\ m.kind = "message.done"
    BY MessageIs DEF RespKinds
  <2>2. Unfinished(b) \in Words
    BY UnfinishedTyped
  <2>3. e = [m EXCEPT !.index = FreshIndex(b), !.text = Unfinished(b)]
    BY <1>10 DEF FinishedMessage
  <2> HIDE DEF m
  <2>4. e \in RespEvent /\ e.kind = "message.done" /\ e.index = FreshIndex(b)
    BY <1>2, <2>1, <2>2, <2>3 DEF RespEvent
  <2> QED
    BY <2>4 DEF Aside
<1>11. ASSUME NEW u \in {"none", "zero", "valid"}, e = Completion(u) PROVE Goal
  <2>1. Message("completed") \in RespEvent /\ Message("completed").kind = "completed"
    BY MessageIs DEF RespKinds
  <2>2. e \in RespEvent /\ e.kind = "completed"
    BY <1>11, <2>1 DEF RespEvent, Completion
  <2> QED
    BY <2>2 DEF Aside
<1>12. ASSUME NEW x \in BOOLEAN, e = Failure(x) PROVE Goal
  <2>1. Message("failed") \in RespEvent /\ Message("failed").kind = "failed"
    BY MessageIs DEF RespKinds
  <2>2. e \in RespEvent /\ e.kind = "failed"
    BY <1>12, <2>1 DEF RespEvent, Failure
  <2> QED
    BY <2>2 DEF Aside
<1>13. \/ \E kind \in {"text", "reasoning"} : e = Utterance(b, kind)
       \/ e = Message("other")
       \/ \E key \in {<<>>, <<Len(b) + 1>>}, custom \in BOOLEAN :
             e = Announce(b, key, custom) /\ \A o \in OpenCalls(b) : o.key # <<>> /\ key # <<>>
       \/ e \in OpenCalls(b)
       \/ \E o \in OpenCalls(b) : e = PieceOf(b, o)
       \/ \E o \in OpenCalls(b) : \E text \in FinalTexts(b, o) : e = Finished(o, text)
       \/ Unfinished(b) # <<>> /\ e = FinishedMessage(b)
       \/ \E usage \in {"none", "zero", "valid"} : e = Completion(usage)
       \/ \E error \in BOOLEAN : e = Failure(error)
  BY RespMessageParts
<1>14. CASE \E kind \in {"text", "reasoning"} : e = Utterance(b, kind)
  BY <1>4, <1>14
<1>15. CASE \E key \in {<<>>, <<Len(b) + 1>>}, custom \in BOOLEAN :
              e = Announce(b, key, custom) /\ \A o \in OpenCalls(b) : o.key # <<>> /\ key # <<>>
  BY <1>6, <1>15
<1>16. CASE \E o \in OpenCalls(b) : e = PieceOf(b, o)
  BY <1>8, <1>16
<1>17. CASE \E o \in OpenCalls(b) : \E text \in FinalTexts(b, o) : e = Finished(o, text)
  BY <1>9, <1>17
<1>18. CASE \E usage \in {"none", "zero", "valid"} : e = Completion(usage)
  BY <1>11, <1>18
<1>19. CASE \E error \in BOOLEAN : e = Failure(error)
  BY <1>12, <1>19
<1>20. Goal
  BY <1>5, <1>7, <1>10, <1>13, <1>14, <1>15, <1>16, <1>17, <1>18, <1>19
<1> QED
  BY <1>20 DEF Goal

\* What the calls of a Responses upstream keep to: every call has an id and an
\* index of its own, later than all before it; a call without a key is the
\* last while it is open; only announced calls are told or finished.
CallsKnown(b) ==
    LET s == FirstStarts(b)
    IN /\ b \in Seq(RespEvent) /\ s \in Seq(RespEvent)
       /\ \A i \in 1..Len(s) :
             /\ s[i].callId <= Len(b) /\ s[i].index < FreshIndex(b)
             /\ s[i].key \in {<<>>, <<s[i].callId>>}
             /\ \E j \in 1..Len(b) : b[j] = s[i] /\ b[j].kind = "call.added"
             /\ s[i].key = <<>> /\ OfCall(b, "call.done", s[i].index) = <<>> => i = Len(s)
       /\ \A i, j \in 1..Len(s) : i # j => s[i].callId # s[j].callId /\ s[i].index # s[j].index
       /\ \A j \in 1..Len(b) : b[j].kind = "call.added" => \E i \in 1..Len(s) : s[i] = b[j]
       /\ \A n \in Nat : n >= FreshIndex(b) =>
             OfCall(b, "call.delta", n) = <<>> /\ OfCall(b, "call.done", n) = <<>>

LEMMA NoCallsYet == CallsKnown(<<>>)
<1>1. <<>> \in Seq(RespEvent) /\ Len(<<>>) = 0 /\ 1..0 = {}
  BY EmptySeq
<1> QED
  BY <1>1, FirstStartsEmpty, OfEmpty DEF CallsKnown

\* An open call is one of those that were started.
LEMMA OpenIsKnown ==
  ASSUME NEW b, CallsKnown(b), NEW o \in OpenCalls(b)
  PROVE  \E i \in 1..Len(FirstStarts(b)) :
            /\ FirstStarts(b)[i] = o /\ OfCall(b, "call.done", o.index) = <<>>
            /\ o.key = <<>> => i = Len(FirstStarts(b))
<1>1. /\ o.kind = "call.added" /\ OfCall(b, "call.done", o.index) = <<>> /\ b \in Seq(RespEvent)
      /\ \E j \in 1..Len(b) : b[j] = o
  BY OpenCallsAre DEF CallsKnown
<1>2. PICK i \in 1..Len(FirstStarts(b)) : FirstStarts(b)[i] = o
  BY <1>1 DEF CallsKnown
<1>3. FirstStarts(b)[i].key = <<>> /\ OfCall(b, "call.done", FirstStarts(b)[i].index) = <<>> => i = Len(FirstStarts(b))
  BY DEF CallsKnown
<1> QED
  BY <1>1, <1>2, <1>3

LEMMA KnownIsOpen ==
  ASSUME NEW b, CallsKnown(b), NEW i \in 1..Len(FirstStarts(b)),
         OfCall(b, "call.done", FirstStarts(b)[i].index) = <<>>
  PROVE  FirstStarts(b)[i] \in OpenCalls(b)
<1> DEFINE o == FirstStarts(b)[i]
<1>1. b \in Seq(RespEvent) /\ \E j \in 1..Len(b) : b[j] = o /\ b[j].kind = "call.added"
  BY DEF CallsKnown
<1>2. DOMAIN b = 1..Len(b)
  BY <1>1, LenProperties
<1>3. o \in Range(b) /\ o.kind = "call.added"
  BY <1>1, <1>2 DEF Range
<1>4. Range(Of(b, "call.added")) = {x \in Range(b) : x.kind = "call.added"}
  BY <1>1, OfRange
<1> QED
  BY <1>3, <1>4 DEF OpenCalls

\* How a message of the upstream moves its calls.
LEMMA KnownNext ==
  ASSUME NEW b, CallsKnown(b), NEW e \in ResponsesMessages(b)
  PROVE  /\ Announcement(b, e) => FirstStarts(Append(b, e)) = Append(FirstStarts(b), e)
         /\ ~Announcement(b, e) => FirstStarts(Append(b, e)) = FirstStarts(b)
         /\ FreshIndex(Append(b, e)) = IF Announcement(b, e) \/ e.kind = "message.done" THEN FreshIndex(b) + 1 ELSE FreshIndex(b)
<1> DEFINE s == FirstStarts(b)
           new == e.kind = "call.added" /\ \A i \in 1..Len(b) : b[i].kind = "call.added" => b[i].index # e.index
<1>1. /\ e \in RespEvent /\ b \in Seq(RespEvent) /\ s \in Seq(RespEvent)
      /\ Speech(e) \/ Aside(b, e) \/ Announcement(b, e) \/ Retry(b, e) \/ Portion(b, e) \/ Finish(b, e)
  BY RespMessageIs DEF CallsKnown
<1>2. FirstStarts(Append(b, e)) = IF new THEN Append(s, e) ELSE s
  BY <1>1, FirstStartsAppend
<1>3. Announcement(b, e) => new
  <2> SUFFICES ASSUME Announcement(b, e), NEW j \in 1..Len(b), b[j].kind = "call.added" PROVE b[j].index # e.index
    BY DEF Announcement
  <2>1. PICK i \in 1..Len(s) : s[i] = b[j]
    BY DEF CallsKnown
  <2>2. b[j].index < FreshIndex(b)
    BY <2>1 DEF CallsKnown
  <2>3. e.index = FreshIndex(b) /\ FreshIndex(b) \in Nat
    BY <1>1, FreshIndexTyped DEF Announcement
  <2>4. b[j].index \in Nat
    <3>1. b[j] \in RespEvent
      BY <1>1, ElementOfSeq
    <3> QED
      BY <3>1 DEF RespEvent
  <2> QED
    BY <2>2, <2>3, <2>4
<1>4. ~Announcement(b, e) => ~new
  <2>1. Retry(b, e) => ~new
    <3> SUFFICES ASSUME e \in OpenCalls(b) PROVE ~new
      BY DEF Retry
    <3>1. \E i \in 1..Len(b) : b[i] = e
      BY <1>1, OpenCallsAre
    <3> QED
      BY <3>1
  <2>2. Speech(e) \/ Aside(b, e) \/ Portion(b, e) \/ Finish(b, e) => e.kind # "call.added"
    BY DEF Speech, Aside, Portion, Finish
  <2> QED
    BY <1>1, <2>1, <2>2
<1>5. Of(b, "message.done") \in Seq(RespEvent)
      /\ Of(Append(b, e), "message.done") = IF e.kind = "message.done" THEN Append(Of(b, "message.done"), e) ELSE Of(b, "message.done")
  <2> DEFINE k == "message.done"
  <2>1. /\ Of(b, k) \in Seq(RespEvent) /\ OfCall(b, k, 0) \in Seq(RespEvent)
        /\ Of(Append(b, e), k) = IF e.kind = k THEN Append(Of(b, k), e) ELSE Of(b, k)
        /\ OfCall(Append(b, e), k, 0) =
               IF e.kind = k /\ e.index = 0 THEN Append(OfCall(b, k, 0), e) ELSE OfCall(b, k, 0)
    <3> HIDE DEF k
    <3> QED
      BY <1>1, OfAppend
  <2> QED
    BY <2>1
<1>6. Announcement(b, e) => e.kind = "call.added"
  BY DEF Announcement
<1> DEFINE m == Of(b, "message.done")
<1> HIDE DEF s, new, m
<1>7. Len(s) \in Nat /\ Len(m) \in Nat /\ Len(Append(s, e)) = Len(s) + 1 /\ Len(Append(m, e)) = Len(m) + 1
  BY <1>1, <1>5, LenProperties, AppendProperties DEF m
<1>8. FreshIndex(b) = Len(s) + Len(m)
  BY DEF FreshIndex, s, m
<1>9. FreshIndex(Append(b, e)) = Len(FirstStarts(Append(b, e))) + Len(Of(Append(b, e), "message.done"))
  BY DEF FreshIndex
<1>10. CASE Announcement(b, e)
  <2>1. e.kind # "message.done"
    BY <1>6, <1>10
  <2> QED
    BY <1>2, <1>3, <1>5, <1>7, <1>8, <1>9, <1>10, <2>1 DEF s, m
<1>11. CASE ~Announcement(b, e)
  BY <1>2, <1>4, <1>5, <1>7, <1>8, <1>9, <1>11, SMTT(60) DEF s, m
<1> QED
  BY <1>10, <1>11

\* What is told of a call, one message more.
LEMMA OfCallNext ==
  ASSUME NEW b \in Seq(RespEvent), NEW e \in RespEvent, NEW kind, NEW n
  PROVE  /\ OfCall(b, kind, n) \in Seq(RespEvent)
         /\ e.kind = kind /\ e.index = n => OfCall(Append(b, e), kind, n) = Append(OfCall(b, kind, n), e)
         /\ ~(e.kind = kind /\ e.index = n) => OfCall(Append(b, e), kind, n) = OfCall(b, kind, n)
<1>1. /\ Of(b, kind) \in Seq(RespEvent) /\ OfCall(b, kind, n) \in Seq(RespEvent)
      /\ Of(Append(b, e), kind) = IF e.kind = kind THEN Append(Of(b, kind), e) ELSE Of(b, kind)
      /\ OfCall(Append(b, e), kind, n) =
               IF e.kind = kind /\ e.index = n THEN Append(OfCall(b, kind, n), e) ELSE OfCall(b, kind, n)
  BY OfAppend
<1> QED
  BY <1>1

\* A message that concerns a call speaks of one that was started, and a new
\* call has the index and the id that no other has.
LEMMA KnownKeeps ==
  ASSUME NEW b, CallsKnown(b), NEW e \in ResponsesMessages(b)
  PROVE  CallsKnown(Append(b, e))
<1> DEFINE c == Append(b, e)
           s == FirstStarts(b)
           t == FirstStarts(c)
           m == Len(s)
           f == FreshIndex(b)
           done(q, n) == OfCall(q, "call.done", n)
           told(q, n) == OfCall(q, "call.delta", n)
<1>1. /\ e \in RespEvent /\ b \in Seq(RespEvent) /\ s \in Seq(RespEvent)
      /\ Speech(e) \/ Aside(b, e) \/ Announcement(b, e) \/ Retry(b, e) \/ Portion(b, e) \/ Finish(b, e)
  BY RespMessageIs DEF CallsKnown
<1>2. /\ Announcement(b, e) => t = Append(s, e)
      /\ ~Announcement(b, e) => t = s
      /\ FreshIndex(c) = IF Announcement(b, e) \/ e.kind = "message.done" THEN f + 1 ELSE f
  BY KnownNext
<1>3. /\ c \in Seq(RespEvent) /\ Len(b) \in Nat /\ Len(c) = Len(b) + 1
      /\ (\A i \in 1..Len(b) : c[i] = b[i]) /\ c[Len(b) + 1] = e
  BY <1>1, AppendIs
<1>4. /\ Append(s, e) \in Seq(RespEvent) /\ m \in Nat /\ Len(Append(s, e)) = m + 1
      /\ (\A i \in 1..m : Append(s, e)[i] = s[i] /\ s[i] \in RespEvent) /\ Append(s, e)[m + 1] = e
  BY <1>1, AppendIs
<1>5. f \in Nat /\ FreshIndex(c) >= f /\ FreshIndex(c) \in Nat
  BY <1>1, <1>2, FreshIndexTyped
<1>6. \A n : /\ done(b, n) \in Seq(RespEvent) /\ told(b, n) \in Seq(RespEvent)
             /\ e.kind # "call.done" \/ e.index # n => done(c, n) = done(b, n)
             /\ e.kind # "call.delta" \/ e.index # n => told(c, n) = told(b, n)
  BY <1>1, OfCallNext
<1>7. \A n : done(c, n) = <<>> => done(b, n) = <<>>
  <2> SUFFICES ASSUME NEW n, done(b, n) # <<>> PROVE done(c, n) # <<>>
    OBVIOUS
  <2>1. CASE e.kind = "call.done" /\ e.index = n
    <3>1. done(c, n) = Append(done(b, n), e)
      BY <1>1, <2>1, OfCallNext
    <3> HIDE DEF done
    <3> QED
      BY <1>1, <1>6, <3>1, AppendProperties
  <2>2. CASE ~(e.kind = "call.done" /\ e.index = n)
    BY <1>6, <2>2
  <2> QED
    BY <2>1, <2>2
<1>8. /\ \A i \in 1..m :
             /\ s[i].callId <= Len(b) /\ s[i].index < f
             /\ s[i].key \in {<<>>, <<s[i].callId>>}
             /\ \E j \in 1..Len(b) : b[j] = s[i] /\ b[j].kind = "call.added"
             /\ s[i].key = <<>> /\ done(b, s[i].index) = <<>> => i = m
      /\ \A i, j \in 1..m : i # j => s[i].callId # s[j].callId /\ s[i].index # s[j].index
      /\ \A j \in 1..Len(b) : b[j].kind = "call.added" => \E i \in 1..m : s[i] = b[j]
      /\ \A n \in Nat : n >= f => told(b, n) = <<>> /\ done(b, n) = <<>>
  BY DEF CallsKnown
<1>9. \A i \in 1..m : s[i].callId \in Nat /\ s[i].index \in Nat
  BY <1>4 DEF RespEvent
<1>10. Portion(b, e) \/ Finish(b, e) => \E i \in 1..m : s[i].index = e.index
  BY OpenIsKnown DEF Portion, Finish
<1>11. \A n \in Nat : n >= FreshIndex(c) => told(c, n) = <<>> /\ done(c, n) = <<>>
  <2> SUFFICES ASSUME NEW n \in Nat, n >= FreshIndex(c) PROVE told(c, n) = <<>> /\ done(c, n) = <<>>
    OBVIOUS
  <2>1. told(b, n) = <<>> /\ done(b, n) = <<>> /\ n >= f
    BY <1>5, <1>8
  <2>2. Portion(b, e) \/ Finish(b, e) => e.index # n
    <3> SUFFICES ASSUME Portion(b, e) \/ Finish(b, e) PROVE e.index # n
      OBVIOUS
    <3>1. PICK i \in 1..m : s[i].index = e.index
      BY <1>10
    <3>2. s[i].index < f /\ s[i].index \in Nat
      BY <1>8, <1>9
    <3> QED
      BY <1>5, <2>1, <3>1, <3>2
  <2>3. Speech(e) \/ Aside(b, e) \/ Announcement(b, e) \/ Retry(b, e) => e.kind \notin {"call.delta", "call.done"}
    <3>1. Retry(b, e) => e.kind = "call.added"
      BY <1>1, OpenCallsAre DEF Retry
    <3> QED
      BY <3>1 DEF Speech, Aside, Announcement
  <2> QED
    BY <1>1, <1>6, <2>1, <2>2, <2>3
<1> HIDE DEF c, t, s, m, f, done, told
<1>12. Len(c) \in Nat /\ (\A j \in 1..Len(b) : j \in 1..Len(c)) /\ Len(c) \in 1..Len(c) /\ c[Len(c)] = e
       /\ \A j \in 1..Len(c) : j \in 1..Len(b) \/ j = Len(c)
  BY <1>3
<1>13. CASE ~Announcement(b, e)
  <2>1. t = s
    BY <1>2, <1>13
  <2>2. ASSUME NEW i \in 1..m
        PROVE  /\ s[i].callId <= Len(c) /\ s[i].index < FreshIndex(c)
               /\ s[i].key \in {<<>>, <<s[i].callId>>}
               /\ \E j \in 1..Len(c) : c[j] = s[i] /\ c[j].kind = "call.added"
               /\ s[i].key = <<>> /\ done(c, s[i].index) = <<>> => i = m
    <3>1. s[i].callId <= Len(c) /\ s[i].index < FreshIndex(c)
      <4>1. s[i].callId <= Len(b) /\ s[i].index < f /\ s[i].callId \in Nat /\ s[i].index \in Nat
        BY <1>8, <1>9
      <4> QED
        BY <1>3, <1>5, <4>1
    <3>2. PICK j \in 1..Len(b) : b[j] = s[i] /\ b[j].kind = "call.added"
      BY <1>8
    <3>3. j \in 1..Len(c) /\ c[j] = b[j]
      BY <1>3, <1>12
    <3> QED
      BY <1>7, <1>8, <3>1, <3>2, <3>3
  <2>3. ASSUME NEW j \in 1..Len(c), c[j].kind = "call.added" PROVE \E i \in 1..m : s[i] = c[j]
    <3>1. CASE j \in 1..Len(b)
      <4>1. c[j] = b[j] /\ b[j].kind = "call.added"
        BY <1>3, <2>3, <3>1
      <4>2. \E i \in 1..m : s[i] = b[j]
        BY <1>8, <3>1, <4>1
      <4> QED
        BY <4>1, <4>2
    <3>2. CASE j = Len(c)
      <4>1. e.kind = "call.added"
        BY <1>12, <2>3, <3>2
      <4>2. Retry(b, e)
        BY <1>1, <1>13, <4>1 DEF Speech, Aside, Portion, Finish
      <4>3. \E i \in 1..m : s[i] = e
        BY <4>2, OpenIsKnown DEF Retry, s, m
      <4> QED
        BY <1>12, <3>2, <4>3
    <3> QED
      BY <1>12, <3>1, <3>2
  <2> QED
    BY <1>1, <1>3, <1>8, <1>11, <2>1, <2>2, <2>3 DEF CallsKnown, c, t, s, m, done, told
<1>14. CASE Announcement(b, e)
  <2>1. t = Append(s, e) /\ Len(t) = m + 1 /\ t[m + 1] = e /\ (\A i \in 1..m : t[i] = s[i]) /\ t \in Seq(RespEvent)
        /\ FreshIndex(c) = f + 1
    BY <1>2, <1>4, <1>14
  <2>2. e.kind = "call.added" /\ e.callId = Len(b) + 1 /\ e.index = f /\ e.key \in {<<>>, <<e.callId>>}
        /\ \A o \in OpenCalls(b) : o.key # <<>> /\ e.key # <<>>
    BY <1>14 DEF Announcement, f
  <2>3. \A i \in 1..(m + 1) : i \in 1..m \/ i = m + 1
    BY <1>4
  <2>4. ASSUME NEW i \in 1..(m + 1)
        PROVE  /\ t[i].callId <= Len(c) /\ t[i].index < FreshIndex(c)
               /\ t[i].key \in {<<>>, <<t[i].callId>>}
               /\ \E j \in 1..Len(c) : c[j] = t[i] /\ c[j].kind = "call.added"
               /\ t[i].key = <<>> /\ done(c, t[i].index) = <<>> => i = m + 1
    <3>1. CASE i = m + 1
      BY <1>3, <1>5, <1>12, <2>1, <2>2, <3>1
    <3>2. CASE i \in 1..m
      <4>1. t[i] = s[i] /\ s[i].callId <= Len(b) /\ s[i].index < f /\ s[i].callId \in Nat /\ s[i].index \in Nat
        BY <1>8, <1>9, <2>1, <3>2
      <4>2. t[i].callId <= Len(c) /\ t[i].index < FreshIndex(c)
        BY <1>3, <1>5, <2>1, <4>1
      <4>3. PICK j \in 1..Len(b) : b[j] = s[i] /\ b[j].kind = "call.added"
        BY <1>8, <3>2
      <4>4. j \in 1..Len(c) /\ c[j] = b[j]
        BY <1>3, <1>12
      <4>5. ASSUME s[i].key = <<>>, done(c, s[i].index) = <<>> PROVE FALSE
        <5>1. done(b, s[i].index) = <<>>
          BY <1>7, <4>5
        <5>2. s[i] \in OpenCalls(b)
          BY <3>2, <5>1, KnownIsOpen DEF s, m, done
        <5> QED
          BY <2>2, <4>5, <5>2
      <4> QED
        BY <1>8, <3>2, <4>1, <4>2, <4>3, <4>4, <4>5
    <3> QED
      BY <2>3, <3>1, <3>2
  <2>5. ASSUME NEW i \in 1..(m + 1), NEW j \in 1..(m + 1), i # j
        PROVE  t[i].callId # t[j].callId /\ t[i].index # t[j].index
    <3>1. \A k \in 1..m : /\ t[k] = s[k] /\ s[k].callId <= Len(b) /\ s[k].index < f
                           /\ s[k].callId \in Nat /\ s[k].index \in Nat
      BY <1>8, <1>9, <2>1
    <3>2. \A k \in 1..m : t[k].callId # t[m + 1].callId /\ t[k].index # t[m + 1].index
      <4> TAKE k \in 1..m
      <4>1. t[k].callId <= Len(b) /\ t[k].index < f /\ t[k].callId \in Nat /\ t[k].index \in Nat
        BY <3>1
      <4>2. t[m + 1].callId = Len(b) + 1 /\ t[m + 1].index = f
        BY <2>1, <2>2
      <4> QED
        BY <1>3, <1>5, <4>1, <4>2
    <3>3. CASE i \in 1..m /\ j \in 1..m
      BY <1>8, <2>1, <2>5, <3>3
    <3> QED
      BY <2>3, <2>5, <3>2, <3>3
  <2>6. ASSUME NEW j \in 1..Len(c), c[j].kind = "call.added" PROVE \E i \in 1..(m + 1) : t[i] = c[j]
    <3>1. CASE j \in 1..Len(b)
      <4>1. PICK i \in 1..m : s[i] = b[j]
        BY <1>3, <1>8, <2>6, <3>1
      <4>2. i \in 1..(m + 1)
        BY <1>4
      <4> QED
        BY <1>3, <2>1, <3>1, <4>1, <4>2
    <3>2. CASE j = Len(c)
      <4>1. m + 1 \in 1..(m + 1)
        BY <1>4
      <4> QED
        BY <1>12, <2>1, <3>2, <4>1
    <3> QED
      BY <1>12, <3>1, <3>2
  <2> QED
    BY <1>3, <1>11, <2>1, <2>4, <2>5, <2>6, ZenonT(60) DEF CallsKnown, c, t, done, told
<1> QED
  BY <1>13, <1>14 DEF c

-----------------------------------------------------------------------------
(* The translator of a Responses upstream. *)

Usages == {"none", "zero", "valid"}

RespTranslator ==
    [started : BOOLEAN, calls : Seq(Nat), argsEmitted : SUBSET Nat, finishSent : BOOLEAN, usage : Usages]

ChunkTypes == {"text", "reasoning", "call", "args", "finish", "error"}
FinishReasons == {"", "stop", "tool_calls"}

ToldChunk == [type : ChunkTypes, idx : Nat, text : Words, finish : FinishReasons, usage : Usages \cup {"padded"}]

LEMMA ChunkIs ==
  ASSUME NEW type \in ChunkTypes, NEW idx \in Nat, NEW text \in Words
  PROVE  /\ Chunk(type, idx, text) \in ToldChunk /\ Chunk(type, idx, text).type = type
         /\ Chunk(type, idx, text).idx = idx /\ Chunk(type, idx, text).text = text
BY DEF Chunk, ToldChunk, FinishReasons, Usages

LEMMA CallIndexTyped ==
  ASSUME NEW s \in RespTranslator, NEW key
  PROVE  CallIndex(s, key) \in Nat
<1>1. s.calls \in Seq(Nat)
  BY DEF RespTranslator
<1>2. Len(s.calls) \in Nat /\ DOMAIN s.calls = 1..Len(s.calls) /\ (s.calls # <<>> => Len(s.calls) # 0)
  BY <1>1, LenProperties, EmptySeq
<1>3. CASE \E i \in DOMAIN s.calls : <<s.calls[i]>> = key
  <2>1. (CHOOSE i \in DOMAIN s.calls : <<s.calls[i]>> = key) \in 1..Len(s.calls)
    BY <1>2, <1>3
  <2>2. CallIndex(s, key) = (CHOOSE i \in DOMAIN s.calls : <<s.calls[i]>> = key) - 1
    BY <1>3 DEF CallIndex
  <2> QED
    BY <1>2, <2>1, <2>2
<1>4. CASE ~\E i \in DOMAIN s.calls : <<s.calls[i]>> = key
  <2>1. CallIndex(s, key) = IF s.calls = <<>> THEN 0 ELSE Len(s.calls) - 1
    BY <1>4 DEF CallIndex
  <2> QED
    BY <1>2, <2>1
<1> QED
  BY <1>3, <1>4

\* What an event does to the calls, and the chunk it comes to.
Same(s, u) == u \in RespTranslator /\ u.calls = s.calls /\ u.argsEmitted = s.argsEmitted

LEMMA StartedIs ==
  ASSUME NEW s \in RespTranslator
  PROVE  Same(s, [s EXCEPT !.started = TRUE]) /\ [s EXCEPT !.started = TRUE].finishSent = s.finishSent
BY DEF RespTranslator, Same

LEMMA ConvertSpeech ==
  ASSUME NEW s \in RespTranslator, NEW e \in RespEvent, Speech(e)
  PROVE  /\ Same(s, ConvertResp(s, e).st)
         /\ ConvertResp(s, e).out = <<Chunk(e.kind, 0, e.text)>>
<1> DEFINE t == [s EXCEPT !.started = TRUE]
<1>1. Same(s, t)
  BY StartedIs
<1>2. ConvertResp(s, e) = One(t, Chunk(e.kind, 0, e.text))
  BY DEF ConvertResp, Speech
<1> HIDE DEF t
<1> QED
  BY <1>1, <1>2 DEF One

Closing(c) == c \in ToldChunk /\ c.type \in {"finish", "error"}

LEMMA ClosesWith ==
  ASSUME NEW s \in RespTranslator
  PROVE  /\ Same(s, finalChunk(s).st)
         /\ \E c : Closing(c) /\ finalChunk(s).out = <<c>>
<1> DEFINE k == Chunk("finish", 0, <<>>)
           c == [k EXCEPT !.finish = computeFinishReason(s), !.usage = s.usage]
           u == [s EXCEPT !.finishSent = TRUE]
<1>0. "finish" \in ChunkTypes /\ 0 \in Nat /\ <<>> \in Words
  BY EmptySeq DEF ChunkTypes, Words
<1>1. k \in ToldChunk /\ k.type = "finish"
  <2>1. /\ Chunk("finish", 0, <<>>) \in ToldChunk /\ Chunk("finish", 0, <<>>).type = "finish"
        /\ Chunk("finish", 0, <<>>).idx = 0 /\ Chunk("finish", 0, <<>>).text = <<>>
    BY <1>0, ChunkIs
  <2> QED
    BY <2>1
<1>2. Same(s, u)
  BY DEF Same, RespTranslator
<1>3. computeFinishReason(s) \in FinishReasons /\ s.usage \in Usages
  BY DEF computeFinishReason, FinishReasons, RespTranslator
<1>4. finalChunk(s) = One(u, c)
  BY DEF finalChunk
<1> HIDE DEF k, u
<1>5. c \in ToldChunk /\ c.type = "finish"
  BY <1>1, <1>3 DEF ToldChunk
<1> HIDE DEF c
<1> QED
  BY <1>2, <1>4, <1>5 DEF One, Closing

LEMMA ConvertAside ==
  ASSUME NEW s \in RespTranslator, NEW e \in RespEvent, e.kind \in {"other", "message.done", "completed", "failed"}
  PROVE  /\ Same(s, ConvertResp(s, e).st)
         /\ ConvertResp(s, e).out = <<>> \/ \E c : Closing(c) /\ ConvertResp(s, e).out = <<c>>
<1> DEFINE t == [s EXCEPT !.started = TRUE]
           Goal(w) == /\ Same(s, w.st)
                      /\ w.out = <<>> \/ \E c : Closing(c) /\ w.out = <<c>>
<1>1. Same(s, t)
  BY StartedIs
<1>2. ASSUME NEW u, Same(s, u) PROVE Goal(Nothing(u)) /\ Goal(finalChunk(u))
  <2>1. u \in RespTranslator
    BY <1>2 DEF Same
  <2>2. /\ Same(u, finalChunk(u).st)
        /\ \E c : Closing(c) /\ finalChunk(u).out = <<c>>
    BY <2>1, ClosesWith
  <2> QED
    BY <1>2, <2>2 DEF Nothing, Same
<1>3. CASE e.kind \in {"other", "message.done"}
  <2>1. ConvertResp(s, e) = Nothing(t)
    BY <1>3 DEF ConvertResp
  <2> HIDE DEF t, Goal
  <2>2. Goal(ConvertResp(s, e))
    BY <1>1, <1>2, <2>1
  <2> QED
    BY <2>2 DEF Goal
<1>4. CASE e.kind = "completed"
  <2> DEFINE u == [t EXCEPT !.usage = IF e.usage = "none" THEN @ ELSE e.usage]
  <2>1. Same(s, u)
    <3>1. e.usage \in Usages
      BY DEF RespEvent, Usages
    <3> HIDE DEF t
    <3> QED
      BY <1>1, <3>1 DEF Same, RespTranslator
  <2>2. ConvertResp(s, e) = IF t.finishSent THEN Nothing(u) ELSE finalChunk(u)
    <3>1. ConvertResp(s, e) = Completed(t, e)
      BY <1>4 DEF ConvertResp
    <3> HIDE DEF t
    <3> QED
      BY <3>1 DEF Completed
  <2> HIDE DEF t, u, Goal
  <2>3. Goal(ConvertResp(s, e))
    BY <1>2, <2>1, <2>2
  <2> QED
    BY <2>3 DEF Goal
<1>5. CASE e.kind = "failed"
  <2> DEFINE k == Chunk("error", 0, <<>>)
             c == [k EXCEPT !.finish = "stop"]
             u == [t EXCEPT !.finishSent = TRUE]
  <2>1. ConvertResp(s, e) = IF t.finishSent \/ ~e.error THEN Nothing(t) ELSE One(u, c)
    <3>1. ConvertResp(s, e) = Failed(t, e)
      BY <1>5 DEF ConvertResp
    <3> HIDE DEF t
    <3> QED
      BY <3>1 DEF Failed
  <2>0. "error" \in ChunkTypes /\ 0 \in Nat /\ <<>> \in Words
    BY EmptySeq DEF ChunkTypes, Words
  <2>2. k \in ToldChunk /\ k.type = "error"
    <3>1. /\ Chunk("error", 0, <<>>) \in ToldChunk /\ Chunk("error", 0, <<>>).type = "error"
          /\ Chunk("error", 0, <<>>).idx = 0 /\ Chunk("error", 0, <<>>).text = <<>>
      BY <2>0, ChunkIs
    <3> QED
      BY <3>1
  <2> HIDE DEF k, t
  <2>3. Closing(c)
    BY <2>2 DEF Closing, ToldChunk, FinishReasons
  <2>4. Same(s, u)
    BY <1>1 DEF Same, RespTranslator
  <2> HIDE DEF c, u
  <2>5. Goal(One(u, c))
    BY <2>3, <2>4 DEF One
  <2> HIDE DEF Goal
  <2>6. Goal(ConvertResp(s, e))
    BY <1>1, <1>2, <2>1, <2>5
  <2> QED
    BY <2>6 DEF Goal
<1> QED
  BY <1>3, <1>4, <1>5

\* The place of a call among those that were announced.
LEMMA CallIndexFinds ==
  ASSUME NEW s \in RespTranslator, NEW i \in 1..Len(s.calls),
         \A j \in 1..Len(s.calls) : j # i => s.calls[j] # s.calls[i]
  PROVE  CallIndex(s, <<s.calls[i]>>) = i - 1
<1>1. s.calls \in Seq(Nat) /\ DOMAIN s.calls = 1..Len(s.calls)
  BY LenProperties DEF RespTranslator
<1> DEFINE key == <<s.calls[i]>>
<1>2. \A j \in DOMAIN s.calls : <<s.calls[j]>> = key <=> j = i
  BY <1>1
<1> HIDE DEF key
<1>3. (CHOOSE j \in DOMAIN s.calls : <<s.calls[j]>> = key) = i
  BY <1>1, <1>2
<1> QED
  BY <1>1, <1>2, <1>3 DEF CallIndex, key

LEMMA CallIndexNewest ==
  ASSUME NEW s \in RespTranslator, s.calls # <<>>
  PROVE  CallIndex(s, <<>>) = Len(s.calls) - 1
<1>1. \A j : <<s.calls[j]>> # <<>>
  OBVIOUS
<1> QED
  BY <1>1 DEF CallIndex

LEMMA ConvertAdded ==
  ASSUME NEW s \in RespTranslator, NEW e \in RespEvent, e.kind = "call.added", e.key \in {<<>>, <<e.callId>>}
  PROVE  LET u == ConvertResp(s, e).st
         IN /\ u \in RespTranslator /\ u.argsEmitted = s.argsEmitted
            /\ u.calls = IF \E i \in 1..Len(s.calls) : s.calls[i] = e.callId THEN s.calls ELSE Append(s.calls, e.callId)
            /\ ConvertResp(s, e).out = <<Chunk("call", CallIndex(u, <<e.callId>>), <<>>)>>
<1> DEFINE t == [s EXCEPT !.started = TRUE]
           k == IF e.key = <<>> THEN e.callId ELSE Head(e.key)
           calls == IF Contains(t.calls, k) THEN t.calls ELSE Append(t.calls, k)
           u == [t EXCEPT !.calls = IF Contains(@, k) THEN @ ELSE Append(@, k)]
<1>1. Same(s, t)
  BY StartedIs
<1>2. k = e.callId /\ k \in Nat
  BY DEF RespEvent
<1>3. ConvertResp(s, e) = One(u, Chunk("call", CallIndex(u, <<k>>), <<>>))
  BY DEF ConvertResp, CallAdded
<1> HIDE DEF t, k
<1>4. s.calls \in Seq(Nat) /\ t.calls = s.calls /\ t \in RespTranslator
  BY <1>1 DEF Same, RespTranslator
<1>5. Contains(t.calls, k) <=> \E i \in 1..Len(s.calls) : s.calls[i] = e.callId
  BY <1>2, <1>4, LenProperties DEF Contains
<1>6. calls \in Seq(Nat)
  BY <1>2, <1>4, AppendProperties
<1>7. u = [t EXCEPT !.calls = calls]
  BY <1>4 DEF RespTranslator
<1> HIDE DEF u
<1>8. calls = IF \E i \in 1..Len(s.calls) : s.calls[i] = e.callId THEN s.calls ELSE Append(s.calls, e.callId)
  BY <1>2, <1>4, <1>5
<1> HIDE DEF calls
<1>9. u \in RespTranslator /\ u.argsEmitted = s.argsEmitted /\ u.calls = calls
  BY <1>1, <1>6, <1>7 DEF RespTranslator, Same
<1>10. ConvertResp(s, e).st = u /\ ConvertResp(s, e).out = <<Chunk("call", CallIndex(u, <<e.callId>>), <<>>)>>
  BY <1>2, <1>3 DEF One
<1> QED
  BY <1>8, <1>9, <1>10

LEMMA ArgumentsAre ==
  ASSUME NEW s \in RespTranslator, NEW idx \in Nat, NEW text
  PROVE  LET w == Arguments(s, idx, text)
         IN /\ w.st \in RespTranslator /\ w.st.calls = s.calls /\ w.st.argsEmitted = s.argsEmitted \cup {idx}
            /\ w.out = <<Chunk("args", idx, text)>>
<1> DEFINE u == [s EXCEPT !.argsEmitted = @ \cup {idx}]
<1>1. u \in RespTranslator /\ u.calls = s.calls /\ u.argsEmitted = s.argsEmitted \cup {idx}
  BY DEF RespTranslator
<1>2. Arguments(s, idx, text) = One(u, Chunk("args", idx, text))
  BY DEF Arguments
<1> HIDE DEF u
<1> QED
  BY <1>1, <1>2 DEF One

LEMMA ConvertPortion ==
  ASSUME NEW s \in RespTranslator, NEW e \in RespEvent, e.kind = "call.delta", e.text # <<>>
  PROVE  LET w == ConvertResp(s, e)
             idx == CallIndex(s, e.key)
         IN /\ w.st \in RespTranslator /\ w.st.calls = s.calls /\ w.st.argsEmitted = s.argsEmitted \cup {idx}
            /\ w.out = <<Chunk("args", idx, e.text)>> /\ idx \in Nat
<1> DEFINE t == [s EXCEPT !.started = TRUE]
<1>1. Same(s, t)
  BY StartedIs
<1>2. ConvertResp(s, e) = Arguments(t, CallIndex(t, e.key), e.text)
  BY DEF ConvertResp
<1> HIDE DEF t
<1>3. CallIndex(t, e.key) = CallIndex(s, e.key)
  BY <1>1 DEF CallIndex, Same
<1>4. CallIndex(s, e.key) \in Nat
  BY CallIndexTyped
<1> DEFINE idx == CallIndex(s, e.key)
<1>5. LET w == Arguments(t, idx, e.text)
      IN /\ w.st \in RespTranslator /\ w.st.calls = t.calls /\ w.st.argsEmitted = t.argsEmitted \cup {idx}
         /\ w.out = <<Chunk("args", idx, e.text)>>
  <2> HIDE DEF idx
  <2> QED
    BY <1>1, <1>4, ArgumentsAre DEF idx, Same
<1> HIDE DEF idx
<1> QED
  BY <1>1, <1>2, <1>3, <1>4, <1>5 DEF Same, idx

\* The end of a call says something of its arguments: that of a custom tool's
\* call is not looked at.
Says(e) == ~e.custom /\ e.text # <<>>

LEMMA ConvertFinish ==
  ASSUME NEW s \in RespTranslator, NEW e \in RespEvent, e.kind = "call.done"
  PROVE  LET w == ConvertResp(s, e)
             idx == CallIndex(s, e.key)
         IN /\ idx \in Nat /\ w.st \in RespTranslator /\ w.st.calls = s.calls
            /\ Says(e) /\ idx \notin s.argsEmitted =>
                  w.st.argsEmitted = s.argsEmitted \cup {idx} /\ w.out = <<Chunk("args", idx, e.text)>>
            /\ ~Says(e) \/ idx \in s.argsEmitted =>
                  w.st.argsEmitted = s.argsEmitted /\ w.out = <<>>
<1> DEFINE t == [s EXCEPT !.started = TRUE]
<1>1. Same(s, t)
  BY StartedIs
<1>2. ConvertResp(s, e) = CallDone(t, e)
  BY DEF ConvertResp
<1> HIDE DEF t
<1>3. CallIndex(t, e.key) = CallIndex(s, e.key)
  BY <1>1 DEF CallIndex, Same
<1>4. CallIndex(s, e.key) \in Nat
  BY CallIndexTyped
<1> DEFINE idx == CallIndex(s, e.key)
<1>5. LET w == Arguments(t, idx, e.text)
      IN /\ w.st \in RespTranslator /\ w.st.calls = t.calls /\ w.st.argsEmitted = t.argsEmitted \cup {idx}
         /\ w.out = <<Chunk("args", idx, e.text)>>
  <2> HIDE DEF idx
  <2> QED
    BY <1>1, <1>4, ArgumentsAre DEF idx, Same
<1>6. CallDone(t, e) = IF Says(e) /\ idx \notin t.argsEmitted THEN Arguments(t, idx, e.text) ELSE Nothing(t)
  BY <1>3 DEF CallDone, Says
<1>7. Nothing(t).st = t /\ Nothing(t).out = <<>>
  BY DEF Nothing
<1> HIDE DEF idx
<1> QED
  BY <1>1, <1>2, <1>4, <1>5, <1>6, <1>7 DEF Same, idx

-----------------------------------------------------------------------------
(* What a chat client has, and what the upstream said. *)

\* What a client has of a type, and of the arguments of a call, one event more.
ArgumentChunks(w, n) == Only(w, {e \in Range(w) : e.type = "args" /\ e.idx = n})

LEMMA OfTypeAppend ==
  ASSUME NEW E, NEW w \in Seq(E), NEW d \in E, NEW type, NEW n
  PROVE  /\ OfType(w, type) \in Seq(E) /\ ArgumentChunks(w, n) \in Seq(E)
         /\ OfType(Append(w, d), type) = IF d.type = type THEN Append(OfType(w, type), d) ELSE OfType(w, type)
         /\ ArgumentChunks(Append(w, d), n) =
               IF d.type = "args" /\ d.idx = n THEN Append(ArgumentChunks(w, n), d) ELSE ArgumentChunks(w, n)
<1> DEFINE U(q) == {x \in Range(q) : x.type = type}
           V(q) == {x \in Range(q) : x.type = "args" /\ x.idx = n}
           c == Append(w, d)
<1>1. /\ DOMAIN w = 1..Len(w) /\ Range(c) = Range(w) \cup {d}
      /\ \A i \in 1..Len(w) : w[i] \in Range(w)
  BY AppendIs DEF Range
<1> HIDE DEF c
<1>2. /\ \A i \in DOMAIN w : (w[i] \in U(w) <=> w[i] \in U(c)) /\ (w[i] \in V(w) <=> w[i] \in V(c))
      /\ (d \in U(c) <=> d.type = type) /\ (d \in V(c) <=> (d.type = "args" /\ d.idx = n))
  BY <1>1
<1>3. \A q : OfType(q, type) = Only(q, U(q)) /\ ArgumentChunks(q, n) = Only(q, V(q))
  BY DEF OfType, ArgumentChunks
<1> HIDE DEF U, V
<1>4. Only(w, U(w)) \in Seq(E) /\ Only(w, V(w)) \in Seq(E)
  BY OnlyTyped
<1>5. Only(c, U(c)) = IF d \in U(c) THEN Append(Only(w, U(w)), d) ELSE Only(w, U(w))
  BY <1>2, OnlyNext DEF c
<1>6. Only(c, V(c)) = IF d \in V(c) THEN Append(Only(w, V(w)), d) ELSE Only(w, V(w))
  BY <1>2, OnlyNext DEF c
<1> QED
  BY <1>2, <1>3, <1>4, <1>5, <1>6 DEF c

\* The indices of the calls a client was told of.
Called(w) == {e.idx : e \in Range(OfType(w, "call"))}

LEMMA ToldTyped == \A x \in ToldChunk : x.text \in Seq(Nat \X {"said", "full"})
BY DEF ToldChunk, Words

LEMMA ToldNext ==
  ASSUME NEW w \in Seq(ToldChunk), NEW d \in ToldChunk
  PROVE  /\ Append(w, d) \in Seq(ToldChunk)
         /\ \A n : /\ ArgumentsOf(w, n) \in Words
                   /\ d.type = "args" /\ d.idx = n => ArgumentsOf(Append(w, d), n) = ArgumentsOf(w, n) \o d.text
                   /\ ~(d.type = "args" /\ d.idx = n) => ArgumentsOf(Append(w, d), n) = ArgumentsOf(w, n)
         /\ d.type = "call" => Called(Append(w, d)) = Called(w) \cup {d.idx}
         /\ d.type # "call" => Called(Append(w, d)) = Called(w)
         /\ TextOf(OfType(w, "text")) \in Words
         /\ d.type = "text" => TextOf(OfType(Append(w, d), "text")) = TextOf(OfType(w, "text")) \o d.text
         /\ d.type # "text" => OfType(Append(w, d), "text") = OfType(w, "text")
<1> DEFINE c == Append(w, d)
<1>0. c \in Seq(ToldChunk)
  BY AppendProperties
<1>1. \A type : /\ OfType(w, type) \in Seq(ToldChunk)
                /\ OfType(c, type) = IF d.type = type THEN Append(OfType(w, type), d) ELSE OfType(w, type)
  <2> TAKE type
  <2>1. /\ OfType(w, type) \in Seq(ToldChunk) /\ ArgumentChunks(w, 0) \in Seq(ToldChunk)
        /\ OfType(c, type) = IF d.type = type THEN Append(OfType(w, type), d) ELSE OfType(w, type)
        /\ ArgumentChunks(c, 0) =
              IF d.type = "args" /\ d.idx = 0 THEN Append(ArgumentChunks(w, 0), d) ELSE ArgumentChunks(w, 0)
    BY OfTypeAppend
  <2> QED
    BY <2>1
<1>2. \A n : /\ ArgumentChunks(w, n) \in Seq(ToldChunk)
             /\ ArgumentChunks(c, n) =
                   IF d.type = "args" /\ d.idx = n THEN Append(ArgumentChunks(w, n), d) ELSE ArgumentChunks(w, n)
  <2> TAKE n
  <2>1. /\ OfType(w, 0) \in Seq(ToldChunk) /\ ArgumentChunks(w, n) \in Seq(ToldChunk)
        /\ OfType(c, 0) = IF d.type = 0 THEN Append(OfType(w, 0), d) ELSE OfType(w, 0)
        /\ ArgumentChunks(c, n) =
              IF d.type = "args" /\ d.idx = n THEN Append(ArgumentChunks(w, n), d) ELSE ArgumentChunks(w, n)
    BY OfTypeAppend
  <2> QED
    BY <2>1
<1>3. \A q \in Seq(ToldChunk) : TextOf(q) \in Words /\ TextOf(Append(q, d)) = TextOf(q) \o d.text
  BY ToldTyped, TextOfAppend, SMTT(30) DEF Words
<1>4. \A q, n : ArgumentsOf(q, n) = TextOf(ArgumentChunks(q, n))
  BY DEF ArgumentsOf, ArgumentChunks
<1> HIDE DEF c
<1>5. \A n : /\ ArgumentsOf(w, n) \in Words
             /\ d.type = "args" /\ d.idx = n => ArgumentsOf(c, n) = ArgumentsOf(w, n) \o d.text
             /\ ~(d.type = "args" /\ d.idx = n) => ArgumentsOf(c, n) = ArgumentsOf(w, n)
  <2> TAKE n
  <2>1. ArgumentChunks(w, n) \in Seq(ToldChunk)
        /\ ArgumentChunks(c, n) = IF d.type = "args" /\ d.idx = n THEN Append(ArgumentChunks(w, n), d) ELSE ArgumentChunks(w, n)
    BY <1>2
  <2>2. ArgumentsOf(w, n) = TextOf(ArgumentChunks(w, n)) /\ ArgumentsOf(c, n) = TextOf(ArgumentChunks(c, n))
    BY <1>4
  <2> QED
    BY <1>3, <2>1, <2>2
<1>6. d.type = "call" => Called(c) = Called(w) \cup {d.idx}
  <2> SUFFICES ASSUME d.type = "call" PROVE Called(c) = Called(w) \cup {d.idx}
    OBVIOUS
  <2> DEFINE o == OfType(w, "call")
  <2>1. o \in Seq(ToldChunk) /\ OfType(c, "call") = Append(o, d)
    BY <1>1
  <2>2. Range(Append(o, d)) = Range(o) \cup {d}
    <3> HIDE DEF o
    <3> QED
      BY <2>1, AppendIs
  <2> DEFINE R == Range(o)
             S == Range(OfType(c, "call"))
  <2>3. Called(w) = {x.idx : x \in R} /\ Called(c) = {x.idx : x \in S} /\ S = R \cup {d}
    BY <2>1, <2>2 DEF Called
  <2> HIDE DEF R, S, o
  <2>4. {x.idx : x \in R \cup {d}} = {x.idx : x \in R} \cup {d.idx}
    OBVIOUS
  <2> QED
    BY <2>3, <2>4
<1>7. d.type # "call" => Called(c) = Called(w)
  BY <1>1 DEF Called
<1>8. /\ TextOf(OfType(w, "text")) \in Words
      /\ d.type = "text" => TextOf(OfType(c, "text")) = TextOf(OfType(w, "text")) \o d.text
      /\ d.type # "text" => OfType(c, "text") = OfType(w, "text")
  BY <1>1, <1>3
<1> QED
  BY <1>0, <1>5, <1>6, <1>7, <1>8 DEF c

LEMMA NothingTold ==
  /\ <<>> \in Seq(ToldChunk) /\ Called(<<>>) = {} /\ TextOf(OfType(<<>>, "text")) = <<>>
  /\ \A n : ArgumentsOf(<<>>, n) = <<>>
<1>1. OfType(<<>>, "call") = <<>> /\ OfType(<<>>, "text") = <<>>
  BY OnlyEmpty DEF OfType
<1>2. \A n : ArgumentsOf(<<>>, n) = <<>>
  BY OnlyEmpty, TextOfEmpty DEF ArgumentsOf
<1>3. Range(<<>>) = {}
  BY EmptySeq DEF Range
<1> QED
  BY <1>1, <1>2, <1>3, TextOfEmpty, EmptySeq DEF Called

LEMMA RespTyped == \A x \in RespEvent : x.text \in Seq(Nat \X {"said", "full"})
BY DEF RespEvent, Words

\* What was said of a call, one message more.
LEMMA SaidNext ==
  ASSUME NEW q \in Seq(RespEvent), NEW e \in RespEvent
  PROVE  TextOf(q) \in Words /\ TextOf(Append(q, e)) = TextOf(q) \o e.text
BY RespTyped, TextOfAppend, SMTT(20) DEF Words

\* Something of the arguments of a call was said, in a piece or at its end.
Told(b, i) == ArgumentDeltas(b, i) # <<>> \/ TextOf(Repeated(b, i)) # <<>>

LEMMA TextEmptyConcat == ASSUME NEW t \in Words PROVE <<>> \o t = t
BY ConcatProperties DEF Words

\* The ends of a call that are looked at, one message more.
LEMMA RepeatedNext ==
  ASSUME NEW b \in Seq(RespEvent), NEW e \in RespEvent, NEW i
  PROVE  /\ Repeated(b, i) \in Seq(RespEvent)
         /\ e.kind = "call.done" /\ e.index = i /\ ~e.custom => Repeated(Append(b, e), i) = Append(Repeated(b, i), e)
         /\ e.kind # "call.done" \/ e.index # i \/ e.custom => Repeated(Append(b, e), i) = Repeated(b, i)
<1> DEFINE U(q) == {x \in Range(q) : x.kind = "call.done" /\ x.index = i /\ ~x.custom}
           c == Append(b, e)
<1>1. /\ DOMAIN b = 1..Len(b) /\ Range(c) = Range(b) \cup {e}
      /\ \A j \in 1..Len(b) : b[j] \in Range(b)
  BY AppendIs DEF Range
<1> HIDE DEF c
<1>2. /\ \A j \in DOMAIN b : b[j] \in U(b) <=> b[j] \in U(c)
      /\ e \in U(c) <=> (e.kind = "call.done" /\ e.index = i /\ ~e.custom)
  BY <1>1
<1>3. \A q : Repeated(q, i) = Only(q, U(q))
  BY DEF Repeated
<1> HIDE DEF U
<1>4. Only(b, U(b)) \in Seq(RespEvent)
  BY OnlyTyped
<1>5. Only(c, U(c)) = IF e \in U(c) THEN Append(Only(b, U(b)), e) ELSE Only(b, U(b))
  BY <1>2, OnlyNext DEF c
<1> QED
  BY <1>2, <1>3, <1>4, <1>5 DEF c

\* A call that did not end has no end that is looked at.
LEMMA RepeatedNone ==
  ASSUME NEW b \in Seq(RespEvent), NEW i, OfCall(b, "call.done", i) = <<>>
  PROVE  Repeated(b, i) = <<>>
<1> DEFINE P == {q \in Seq(RespEvent) : OfCall(q, "call.done", i) = <<>> => Repeated(q, i) = <<>>}
<1>1. <<>> \in P
  BY OnlyEmpty, EmptySeq DEF Repeated
<1>2. ASSUME NEW q \in Seq(RespEvent), NEW e \in RespEvent, q \in P PROVE Append(q, e) \in P
  <2> DEFINE d == OfCall(q, "call.done", i)
             u == OfCall(Append(q, e), "call.done", i)
  <2>1. /\ d \in Seq(RespEvent)
        /\ e.kind = "call.done" /\ e.index = i => u = Append(d, e)
        /\ ~(e.kind = "call.done" /\ e.index = i) => u = d
    BY OfCallNext
  <2>2. d = <<>> => Repeated(q, i) = <<>>
    BY <1>2
  <2> HIDE DEF d, u
  <2>3. u = <<>> => d = <<>> /\ ~(e.kind = "call.done" /\ e.index = i)
    BY <2>1, AppendProperties
  <2>4. u = <<>> => Repeated(Append(q, e), i) = <<>>
    BY <2>2, <2>3, RepeatedNext
  <2>5. Append(q, e) \in Seq(RespEvent)
    BY AppendProperties
  <2> QED
    BY <2>4, <2>5 DEF u
<1> HIDE DEF P
<1>3. Seq(RespEvent) \subseteq P
  BY <1>1, <1>2, SequenceInduction
<1> QED
  BY <1>3 DEF P

\* A piece of the arguments of an open call, and its end.
LEMMA PieceSaid ==
  ASSUME NEW b \in Seq(RespEvent), NEW e \in RespEvent, NEW i, OfCall(b, "call.done", i) = <<>>,
         e.index = i, e.kind = "call.delta", e.text # <<>>
  PROVE  /\ Told(Append(b, e), i)
         /\ UpstreamArguments(Append(b, e), i) = UpstreamArguments(b, i) \o e.text
<1>1. OfCall(b, "call.delta", i) \in Seq(RespEvent)
      /\ OfCall(Append(b, e), "call.delta", i) = Append(OfCall(b, "call.delta", i), e)
  BY OfCallNext
<1> DEFINE p == ArgumentDeltas(b, i)
<1>2. p \in Seq(RespEvent) /\ ArgumentDeltas(Append(b, e), i) = Append(p, e)
  BY <1>1 DEF ArgumentDeltas
<1>5. Repeated(b, i) = <<>>
  BY RepeatedNone
<1> HIDE DEF p
<1>3. Append(p, e) # <<>> /\ TextOf(Append(p, e)) = TextOf(p) \o e.text
  BY <1>2, AppendProperties, SaidNext, ZenonT(60)
<1>4. UpstreamArguments(b, i) = TextOf(p)
  BY <1>5 DEF UpstreamArguments, p
<1> QED
  BY <1>2, <1>3, <1>4 DEF Told, UpstreamArguments

LEMMA EndSaid ==
  ASSUME NEW b \in Seq(RespEvent), NEW e \in RespEvent, NEW i, OfCall(b, "call.done", i) = <<>>,
         e.index = i, e.kind = "call.done"
  PROVE  /\ Told(Append(b, e), i) <=> (Told(b, i) \/ Says(e))
         /\ Told(b, i) \/ ~Says(e) => UpstreamArguments(Append(b, e), i) = UpstreamArguments(b, i)
         /\ ~Told(b, i) =>
               UpstreamArguments(b, i) = <<>> /\ (Says(e) => UpstreamArguments(Append(b, e), i) = e.text)
<1>0. Repeated(b, i) = <<>>
  BY RepeatedNone
<1>1. /\ ~e.custom => Repeated(Append(b, e), i) = Append(<<>>, e)
      /\ e.custom => Repeated(Append(b, e), i) = <<>>
  <2>1. /\ ~e.custom => Repeated(Append(b, e), i) = Append(Repeated(b, i), e)
        /\ e.custom => Repeated(Append(b, e), i) = Repeated(b, i)
    BY RepeatedNext
  <2> QED
    BY <1>0, <2>1
<1>2. TextOf(Append(<<>>, e)) = e.text
  <2>1. <<>> \in Seq(RespEvent) /\ e.text \in Words
    BY EmptySeq DEF RespEvent
  <2>2. TextOf(Append(<<>>, e)) = TextOf(<<>>) \o e.text
    BY <2>1, SaidNext
  <2> QED
    BY <2>1, <2>2, TextOfEmpty, TextEmptyConcat
<1>3. ArgumentDeltas(Append(b, e), i) = ArgumentDeltas(b, i)
  BY OfCallNext DEF ArgumentDeltas
<1>4. TextOf(Repeated(Append(b, e), i)) = IF Says(e) THEN e.text ELSE <<>>
  BY <1>1, <1>2, TextOfEmpty DEF Says
<1>5. TextOf(Repeated(b, i)) = <<>>
  BY <1>0, TextOfEmpty
<1> QED
  BY <1>3, <1>4, <1>5 DEF Told, UpstreamArguments, Says

LEMMA OthersSaid ==
  ASSUME NEW b \in Seq(RespEvent), NEW e \in RespEvent, NEW i,
         e.kind \notin {"call.delta", "call.done"} \/ e.index # i
  PROVE  /\ Told(Append(b, e), i) <=> Told(b, i)
         /\ UpstreamArguments(Append(b, e), i) = UpstreamArguments(b, i)
<1>1. OfCall(Append(b, e), "call.delta", i) = OfCall(b, "call.delta", i)
      /\ Repeated(Append(b, e), i) = Repeated(b, i)
  BY OfCallNext, RepeatedNext
<1> QED
  BY <1>1 DEF Told, UpstreamArguments, ArgumentDeltas

LEMMA TextSaid ==
  ASSUME NEW b \in Seq(RespEvent), NEW e \in RespEvent
  PROVE  /\ e.kind = "text" => TextOf(Of(Append(b, e), "text")) = TextOf(Of(b, "text")) \o e.text
         /\ e.kind # "text" => Of(Append(b, e), "text") = Of(b, "text")
<1> DEFINE k == "text"
<1>1. /\ Of(b, k) \in Seq(RespEvent) /\ OfCall(b, k, 0) \in Seq(RespEvent)
      /\ Of(Append(b, e), k) = IF e.kind = k THEN Append(Of(b, k), e) ELSE Of(b, k)
      /\ OfCall(Append(b, e), k, 0) = IF e.kind = k /\ e.index = 0 THEN Append(OfCall(b, k, 0), e) ELSE OfCall(b, k, 0)
  <2> HIDE DEF k
  <2> QED
    BY OfAppend
<1> QED
  BY <1>1, SaidNext

-----------------------------------------------------------------------------
(* The upstream, the translator and the client agree on the calls. *)

Indices(n) == {i - 1 : i \in 1..n}

\* The calls of the upstream, of the translator and of the client are the same
\* calls in the same order, and the client has of each what was said of it.
AgreesOn(starts, b, s, w) ==
    /\ CallsKnown(b) /\ s \in RespTranslator /\ w \in Seq(ToldChunk)
    /\ Len(s.calls) = Len(starts)
    /\ \A i \in 1..Len(starts) :
          /\ s.calls[i] = starts[i].callId
          /\ ArgumentsOf(w, i - 1) = UpstreamArguments(b, starts[i].index)
          /\ i - 1 \in s.argsEmitted <=> Told(b, starts[i].index)
    /\ \A n \in Nat : n >= Len(starts) => ArgumentsOf(w, n) = <<>> /\ n \notin s.argsEmitted
    /\ Called(w) = Indices(Len(starts))
    /\ TextOf(OfType(w, "text")) = TextOf(Of(b, "text"))

Agrees(b, s, w) == AgreesOn(FirstStarts(b), b, s, w)

LEMMA AgreesAtFirst == Agrees(<<>>, NewRespToChat, <<>>)
<1>1. NewRespToChat \in RespTranslator /\ NewRespToChat.calls = <<>> /\ NewRespToChat.argsEmitted = {}
  BY EmptySeq DEF NewRespToChat, RespTranslator, Usages
<1>2. FirstStarts(<<>>) = <<>> /\ Len(<<>>) = 0 /\ 1..0 = {}
  BY FirstStartsEmpty, EmptySeq
<1>3. Of(<<>>, "text") = <<>>
  BY OnlyEmpty DEF Of
<1> QED
  BY <1>1, <1>2, <1>3, NoCallsYet, NothingTold, TextOfEmpty DEF Agrees, AgreesOn, Indices

\* The calls that a translator knows, by their places.
LEMMA AgreesFacts ==
  ASSUME NEW b, NEW s, NEW w, Agrees(b, s, w)
  PROVE  /\ b \in Seq(RespEvent) /\ FirstStarts(b) \in Seq(RespEvent)
         /\ s.calls \in Seq(Nat) /\ Len(FirstStarts(b)) \in Nat
         /\ \A i \in 1..Len(FirstStarts(b)) :
               /\ FirstStarts(b)[i] \in RespEvent
               /\ CallIndex(s, <<FirstStarts(b)[i].callId>>) = i - 1
         /\ \A o \in OpenCalls(b) : \E i \in 1..Len(FirstStarts(b)) :
               /\ FirstStarts(b)[i] = o /\ CallIndex(s, o.key) = i - 1
               /\ OfCall(b, "call.done", o.index) = <<>>
<1> DEFINE starts == FirstStarts(b)
<1>1. b \in Seq(RespEvent) /\ starts \in Seq(RespEvent) /\ s.calls \in Seq(Nat) /\ s \in RespTranslator
  BY DEF Agrees, AgreesOn, CallsKnown, RespTranslator
<1>2. /\ Len(starts) \in Nat /\ \A i \in 1..Len(starts) : starts[i] \in RespEvent
  BY <1>1, LenProperties, ElementOfSeq
<1>3. Len(s.calls) = Len(starts) /\ \A i \in 1..Len(starts) : s.calls[i] = starts[i].callId
  BY DEF Agrees, AgreesOn
<1>4. \A i, j \in 1..Len(starts) : i # j => starts[i].callId # starts[j].callId
  BY DEF Agrees, AgreesOn, CallsKnown
<1>5. \A i \in 1..Len(starts) : CallIndex(s, <<starts[i].callId>>) = i - 1
  <2> TAKE i \in 1..Len(starts)
  <2>1. i \in 1..Len(s.calls) /\ \A j \in 1..Len(s.calls) : j # i => s.calls[j] # s.calls[i]
    BY <1>3, <1>4
  <2>2. CallIndex(s, <<s.calls[i]>>) = i - 1
    BY <1>1, <2>1, CallIndexFinds
  <2> QED
    BY <1>3, <2>2
<1>6. ASSUME NEW o \in OpenCalls(b)
      PROVE  \E i \in 1..Len(starts) : /\ starts[i] = o /\ CallIndex(s, o.key) = i - 1
                                       /\ OfCall(b, "call.done", o.index) = <<>>
  <2>0. CallsKnown(b)
    BY DEF Agrees, AgreesOn
  <2>1. PICK i \in 1..Len(starts) : /\ starts[i] = o /\ OfCall(b, "call.done", o.index) = <<>>
                                    /\ o.key = <<>> => i = Len(starts)
    BY <2>0, OpenIsKnown
  <2>2. o.key \in {<<>>, <<o.callId>>}
    BY <2>0, <2>1 DEF CallsKnown
  <2>3. CASE o.key = <<>>
    <3>1. s.calls # <<>>
      <4>1. Len(s.calls) # 0
        BY <1>2, <1>3, <2>1
      <4> QED
        BY <4>1, EmptySeq
    <3>2. CallIndex(s, <<>>) = Len(s.calls) - 1
      BY <1>1, <3>1, CallIndexNewest
    <3> QED
      BY <1>3, <2>1, <2>3, <3>2
  <2>4. CASE o.key = <<o.callId>>
    BY <1>5, <2>1, <2>4
  <2> QED
    BY <2>2, <2>3, <2>4
<1> QED
  BY <1>1, <1>2, <1>5, <1>6

\* An event that says nothing of a call.
LEMMA AgreesAside ==
  ASSUME NEW b, NEW s, NEW w, Agrees(b, s, w), NEW e \in ResponsesMessages(b),
         ~Announcement(b, e), e.kind \notin {"call.delta", "call.done"},
         NEW u, Same(s, u), NEW v \in Seq(ToldChunk),
         \A n : ArgumentsOf(v, n) = ArgumentsOf(w, n),
         Called(v) = Called(w),
         TextOf(OfType(v, "text")) = TextOf(Of(Append(b, e), "text"))
  PROVE  Agrees(Append(b, e), u, v)
<1> DEFINE c == Append(b, e)
           starts == FirstStarts(b)
<1>1. CallsKnown(b)
  BY DEF Agrees, AgreesOn
<1>2. CallsKnown(c) /\ FirstStarts(c) = starts
  BY <1>1, KnownKeeps, KnownNext
<1>3. b \in Seq(RespEvent) /\ e \in RespEvent
  BY <1>1, RespMessageIs DEF CallsKnown
<1>4. \A i : (Told(c, i) <=> Told(b, i)) /\ UpstreamArguments(c, i) = UpstreamArguments(b, i)
  BY <1>3, OthersSaid
<1>5. u \in RespTranslator /\ u.calls = s.calls /\ u.argsEmitted = s.argsEmitted
  BY DEF Same
<1> HIDE DEF c
<1> QED
  BY <1>2, <1>4, <1>5 DEF Agrees, AgreesOn, c

LEMMA AgreesSpeech ==
  ASSUME NEW b, NEW s, NEW w, Agrees(b, s, w), NEW e \in ResponsesMessages(b), e \in RespEvent, Speech(e),
         NEW u, Same(s, u), NEW d \in ToldChunk, d.type = e.kind, d.text = e.text
  PROVE  Agrees(Append(b, e), u, Append(w, d))
<1> DEFINE v == Append(w, d)
<1>1. b \in Seq(RespEvent) /\ w \in Seq(ToldChunk) /\ TextOf(OfType(w, "text")) = TextOf(Of(b, "text"))
  BY DEF Agrees, AgreesOn, CallsKnown
<1>2. e.kind \in {"text", "reasoning"}
  BY DEF Speech
<1>3. ~Announcement(b, e) /\ e.kind \notin {"call.delta", "call.done"} /\ d.type \notin {"args", "call"}
  BY <1>2 DEF Announcement
<1>4. /\ v \in Seq(ToldChunk)
      /\ \A n : ArgumentsOf(v, n) = ArgumentsOf(w, n)
      /\ Called(v) = Called(w)
      /\ d.type = "text" => TextOf(OfType(v, "text")) = TextOf(OfType(w, "text")) \o d.text
      /\ d.type # "text" => OfType(v, "text") = OfType(w, "text")
  BY <1>1, <1>3, ToldNext
<1>5. /\ e.kind = "text" => TextOf(Of(Append(b, e), "text")) = TextOf(Of(b, "text")) \o e.text
      /\ e.kind # "text" => Of(Append(b, e), "text") = Of(b, "text")
  BY <1>1, TextSaid
<1>6. TextOf(OfType(v, "text")) = TextOf(Of(Append(b, e), "text"))
  BY <1>1, <1>4, <1>5
<1> HIDE DEF v
<1>7. Agrees(Append(b, e), u, v)
  BY <1>3, <1>4, <1>6, AgreesAside
<1> QED
  BY <1>7 DEF v

\* A chunk that is no text, no call and no piece of its arguments.
LEMMA AgreesClosing ==
  ASSUME NEW b, NEW s, NEW w, Agrees(b, s, w), NEW e \in ResponsesMessages(b), Aside(b, e),
         NEW u, Same(s, u), NEW v, v = w \/ \E d \in ToldChunk : d.type \in {"finish", "error"} /\ v = Append(w, d)
  PROVE  Agrees(Append(b, e), u, v)
<1>0. CallsKnown(b)
  BY DEF Agrees, AgreesOn
<1>1. b \in Seq(RespEvent) /\ e \in RespEvent /\ w \in Seq(ToldChunk) /\ TextOf(OfType(w, "text")) = TextOf(Of(b, "text"))
  BY <1>0, RespMessageIs DEF Agrees, AgreesOn, CallsKnown
<1>2. ~Announcement(b, e) /\ e.kind \notin {"call.delta", "call.done", "text"}
  BY DEF Announcement, Aside
<1>3. /\ v \in Seq(ToldChunk)
      /\ \A n : ArgumentsOf(v, n) = ArgumentsOf(w, n)
      /\ Called(v) = Called(w)
      /\ OfType(v, "text") = OfType(w, "text")
  <2>1. CASE v = w
    BY <1>1, <2>1
  <2>2. ASSUME NEW d \in ToldChunk, d.type \in {"finish", "error"}, v = Append(w, d)
        PROVE  /\ v \in Seq(ToldChunk)
               /\ \A n : ArgumentsOf(v, n) = ArgumentsOf(w, n)
               /\ Called(v) = Called(w)
               /\ OfType(v, "text") = OfType(w, "text")
    BY <1>1, <2>2, ToldNext
  <2> QED
    BY <2>1, <2>2
<1>4. Of(Append(b, e), "text") = Of(b, "text")
  BY <1>1, <1>2, TextSaid
<1>5. TextOf(OfType(v, "text")) = TextOf(Of(Append(b, e), "text"))
  BY <1>1, <1>3, <1>4
<1> QED
  BY <1>2, <1>3, <1>5, AgreesAside

\* A retried announcement repeats the place of its call.
LEMMA AgreesRetry ==
  ASSUME NEW b, NEW s, NEW w, Agrees(b, s, w), NEW e \in ResponsesMessages(b), Retry(b, e),
         NEW d \in ToldChunk, d.type = "call", d.idx = CallIndex(ConvertResp(s, e).st, <<e.callId>>)
  PROVE  Agrees(Append(b, e), ConvertResp(s, e).st, Append(w, d))
<1> DEFINE v == Append(w, d)
           u == ConvertResp(s, e).st
           known == FirstStarts(b)
<1>1. /\ b \in Seq(RespEvent) /\ w \in Seq(ToldChunk) /\ TextOf(OfType(w, "text")) = TextOf(Of(b, "text"))
      /\ CallsKnown(b) /\ s \in RespTranslator /\ Len(s.calls) = Len(known)
      /\ \A i \in 1..Len(known) : s.calls[i] = known[i].callId
      /\ Called(w) = Indices(Len(known))
  BY DEF Agrees, AgreesOn, CallsKnown
<1>2. e \in RespEvent /\ e.kind = "call.added"
  BY <1>1, OpenCallsAre DEF Retry
<1>3. PICK i \in 1..Len(known) : known[i] = e
  BY AgreesFacts DEF Retry
<1>4. e.key \in {<<>>, <<e.callId>>}
  BY <1>1, <1>3 DEF CallsKnown
<1>5. /\ u \in RespTranslator /\ u.argsEmitted = s.argsEmitted
      /\ u.calls = IF \E j \in 1..Len(s.calls) : s.calls[j] = e.callId THEN s.calls ELSE Append(s.calls, e.callId)
  BY <1>1, <1>2, <1>4, ConvertAdded
<1> HIDE DEF u
<1>6. i \in 1..Len(s.calls) /\ s.calls[i] = e.callId
  BY <1>1, <1>3
<1>7. u.calls = s.calls
  BY <1>5, <1>6
<1>8. Same(s, u)
  BY <1>5, <1>7 DEF Same
<1>9. d.idx = i - 1
  <2>1. CallIndex(s, <<known[i].callId>>) = i - 1
    BY AgreesFacts
  <2>2. CallIndex(u, <<e.callId>>) = CallIndex(s, <<e.callId>>)
    BY <1>7 DEF CallIndex
  <2> QED
    BY <1>3, <2>1, <2>2 DEF u
<1>10. /\ v \in Seq(ToldChunk)
       /\ \A n : ArgumentsOf(v, n) = ArgumentsOf(w, n)
       /\ Called(v) = Called(w) \cup {d.idx}
       /\ OfType(v, "text") = OfType(w, "text")
  BY <1>1, ToldNext
<1> HIDE DEF v
<1>11. Called(v) = Called(w)
  BY <1>1, <1>9, <1>10 DEF Indices
<1>12. ~Announcement(b, e)
  <2>1. e.callId <= Len(b) /\ e.callId \in Nat /\ Len(b) \in Nat
    BY <1>1, <1>2, <1>3, LenProperties DEF CallsKnown, RespEvent
  <2> QED
    BY <2>1 DEF Announcement
<1>13. Of(Append(b, e), "text") = Of(b, "text")
  BY <1>1, <1>2, TextSaid
<1>14. TextOf(OfType(v, "text")) = TextOf(Of(Append(b, e), "text"))
  BY <1>1, <1>10, <1>13
<1>15. Agrees(Append(b, e), u, v)
  BY <1>2, <1>8, <1>10, <1>11, <1>12, <1>14, AgreesAside
<1> QED
  BY <1>15 DEF u, v

\* A new call gets the next place, at the upstream, here and at the client.
LEMMA AgreesAnnouncement ==
  ASSUME NEW b, NEW s, NEW w, Agrees(b, s, w), NEW e \in ResponsesMessages(b), Announcement(b, e),
         NEW d \in ToldChunk, d.type = "call", d.idx = CallIndex(ConvertResp(s, e).st, <<e.callId>>)
  PROVE  Agrees(Append(b, e), ConvertResp(s, e).st, Append(w, d))
<1> DEFINE v == Append(w, d)
           u == ConvertResp(s, e).st
           c == Append(b, e)
           known == FirstStarts(b)
           m == Len(known)
<1>1. /\ b \in Seq(RespEvent) /\ w \in Seq(ToldChunk) /\ TextOf(OfType(w, "text")) = TextOf(Of(b, "text"))
      /\ CallsKnown(b) /\ s \in RespTranslator /\ Len(s.calls) = m
      /\ \A i \in 1..m :
             /\ s.calls[i] = known[i].callId
             /\ ArgumentsOf(w, i - 1) = UpstreamArguments(b, known[i].index)
             /\ i - 1 \in s.argsEmitted <=> Told(b, known[i].index)
      /\ \A n \in Nat : n >= m => ArgumentsOf(w, n) = <<>> /\ n \notin s.argsEmitted
      /\ Called(w) = Indices(m)
  BY DEF Agrees, AgreesOn, CallsKnown
<1>2. e \in RespEvent /\ e.kind = "call.added" /\ e.callId = Len(b) + 1 /\ e.index = FreshIndex(b)
      /\ e.key \in {<<>>, <<e.callId>>}
  BY <1>1, RespMessageIs DEF Announcement
<1>3. known \in Seq(RespEvent) /\ s.calls \in Seq(Nat) /\ m \in Nat /\ Len(b) \in Nat /\ e.callId \in Nat
  BY <1>1, <1>2, AgreesFacts, LenProperties DEF RespEvent
<1>4. /\ Append(known, e) \in Seq(RespEvent) /\ Len(Append(known, e)) = m + 1
      /\ (\A i \in 1..m : Append(known, e)[i] = known[i] /\ known[i] \in RespEvent) /\ Append(known, e)[m + 1] = e
  BY <1>2, <1>3, AppendIs
<1>5. FirstStarts(c) = Append(known, e) /\ CallsKnown(c)
  BY <1>1, KnownNext, KnownKeeps
<1>6. /\ u \in RespTranslator /\ u.argsEmitted = s.argsEmitted
      /\ u.calls = IF \E j \in 1..Len(s.calls) : s.calls[j] = e.callId THEN s.calls ELSE Append(s.calls, e.callId)
  BY <1>1, <1>2, ConvertAdded
<1>7. \A i \in 1..m : s.calls[i] <= Len(b) /\ s.calls[i] \in Nat /\ s.calls[i] # e.callId
  <2> TAKE i \in 1..m
  <2>1. s.calls[i] = known[i].callId /\ known[i].callId <= Len(b) /\ known[i].callId \in Nat
    BY <1>1, <1>4 DEF CallsKnown, RespEvent
  <2> QED
    BY <1>2, <1>3, <2>1
<1> HIDE DEF u
<1>8. /\ u.calls = Append(s.calls, e.callId) /\ Len(u.calls) = m + 1
      /\ (\A i \in 1..m : u.calls[i] = s.calls[i]) /\ u.calls[m + 1] = e.callId
  <2>1. u.calls = Append(s.calls, e.callId)
    BY <1>1, <1>6, <1>7
  <2>2. Len(Append(s.calls, e.callId)) = Len(s.calls) + 1
        /\ (\A i \in 1..Len(s.calls) : Append(s.calls, e.callId)[i] = s.calls[i])
        /\ Append(s.calls, e.callId)[Len(s.calls) + 1] = e.callId
    BY <1>3, AppendProperties
  <2> QED
    BY <1>1, <2>1, <2>2
<1>9. d.idx = m
  <2> DEFINE x == m + 1
  <2>1. x \in 1..Len(u.calls) /\ u.calls[x] = e.callId /\ \A j \in 1..Len(u.calls) : j # x => u.calls[j] # u.calls[x]
    <3>1. \A j \in 1..(m + 1) : j \in 1..m \/ j = m + 1
      BY <1>3
    <3>2. m + 1 \in 1..(m + 1)
      BY <1>3
    <3> QED
      BY <1>7, <1>8, <3>1, <3>2
  <2> HIDE DEF x
  <2>2. CallIndex(u, <<u.calls[x]>>) = x - 1
    BY <1>6, <2>1, CallIndexFinds
  <2>3. x - 1 = m
    BY <1>3 DEF x
  <2> QED
    BY <2>1, <2>2, <2>3 DEF u
<1>10. /\ v \in Seq(ToldChunk)
       /\ \A n : ArgumentsOf(v, n) = ArgumentsOf(w, n)
       /\ Called(v) = Called(w) \cup {d.idx}
       /\ OfType(v, "text") = OfType(w, "text")
  BY <1>1, ToldNext
<1>11. \A i : (Told(c, i) <=> Told(b, i)) /\ UpstreamArguments(c, i) = UpstreamArguments(b, i)
  BY <1>1, <1>2, OthersSaid
<1>12. Of(c, "text") = Of(b, "text")
  BY <1>1, <1>2, TextSaid
<1>13. ~Told(b, e.index) /\ UpstreamArguments(b, e.index) = <<>>
  <2>1. FreshIndex(b) \in Nat
    BY <1>1, FreshIndexTyped
  <2>2. OfCall(b, "call.delta", e.index) = <<>> /\ OfCall(b, "call.done", e.index) = <<>>
    BY <1>1, <1>2, <2>1 DEF CallsKnown
  <2>3. Repeated(b, e.index) = <<>>
    BY <1>1, <2>2, RepeatedNone
  <2> QED
    BY <2>2, <2>3, TextOfEmpty DEF Told, UpstreamArguments, ArgumentDeltas
<1> DEFINE t == Append(known, e)
<1>14. \A i \in 1..(m + 1) :
          /\ u.calls[i] = t[i].callId
          /\ ArgumentsOf(v, i - 1) = UpstreamArguments(c, t[i].index)
          /\ i - 1 \in u.argsEmitted <=> Told(c, t[i].index)
  <2> TAKE i \in 1..(m + 1)
  <2>1. CASE i \in 1..m
    BY <1>1, <1>4, <1>6, <1>8, <1>10, <1>11, <2>1
  <2>2. CASE i = m + 1
    <3>1. i - 1 = m /\ m >= m /\ m \in Nat
      BY <1>3, <2>2
    <3>2. ArgumentsOf(w, m) = <<>> /\ m \notin s.argsEmitted
      BY <1>1, <3>1
    <3>3. t[i] = e
      BY <1>4, <2>2
    <3> HIDE DEF m, c, v, t
    <3> QED
      BY <1>6, <1>8, <1>10, <1>11, <1>13, <2>2, <3>1, <3>2, <3>3
  <2>3. i \in 1..m \/ i = m + 1
    BY <1>3
  <2> QED
    BY <2>1, <2>2, <2>3
<1>15. \A n \in Nat : n >= m + 1 => ArgumentsOf(v, n) = <<>> /\ n \notin u.argsEmitted
  <2> TAKE n \in Nat
  <2>1. n >= m + 1 => n >= m
    BY <1>3
  <2> QED
    BY <1>1, <1>6, <1>10, <2>1
<1>16. Called(v) = Indices(m + 1)
  <2>1. (m + 1) - 1 = m /\ m + 1 \in 1..(m + 1) /\ (\A i \in 1..m : i \in 1..(m + 1))
        /\ \A i \in 1..(m + 1) : i \in 1..m \/ i = m + 1
    BY <1>3
  <2> HIDE DEF m, v
  <2>2. Called(v) = Indices(m) \cup {m}
    BY <1>1, <1>9, <1>10
  <2> QED
    BY <2>1, <2>2 DEF Indices
<1>17. TextOf(OfType(v, "text")) = TextOf(Of(c, "text"))
  BY <1>1, <1>10, <1>12
<1>18. FirstStarts(c) = t /\ Len(t) = m + 1 /\ Len(u.calls) = m + 1
  BY <1>4, <1>5, <1>8
<1> DEFINE x == m + 1
<1> HIDE DEF c, v, t, m, known
<1>19. AgreesOn(t, c, u, v)
  <2>1. Len(t) = x /\ Called(v) = Indices(x) /\ Len(u.calls) = x
    BY <1>16, <1>18
  <2>2. /\ \A i \in 1..x :
              /\ u.calls[i] = t[i].callId
              /\ ArgumentsOf(v, i - 1) = UpstreamArguments(c, t[i].index)
              /\ i - 1 \in u.argsEmitted <=> Told(c, t[i].index)
        /\ \A n \in Nat : n >= x => ArgumentsOf(v, n) = <<>> /\ n \notin u.argsEmitted
    BY <1>14, <1>15
  <2> HIDE DEF x
  <2> QED
    BY <1>5, <1>6, <1>10, <1>17, <2>1, <2>2 DEF AgreesOn
<1>20. Agrees(c, u, v)
  BY <1>18, <1>19 DEF Agrees
<1> QED
  BY <1>20 DEF u, v, c

\* What is said of an open call is told at its place.
LEMMA AgreesSaid ==
  ASSUME NEW b, NEW s, NEW w, Agrees(b, s, w), NEW e \in ResponsesMessages(b), e \in RespEvent,
         e.kind \in {"call.delta", "call.done"},
         NEW i \in 1..Len(FirstStarts(b)), FirstStarts(b)[i].index = e.index,
         NEW u \in RespTranslator, u.calls = s.calls, NEW v \in Seq(ToldChunk),
         Called(v) = Called(w), OfType(v, "text") = OfType(w, "text"),
         \A n : n # i - 1 => ArgumentsOf(v, n) = ArgumentsOf(w, n) /\ (n \in u.argsEmitted <=> n \in s.argsEmitted),
         ArgumentsOf(v, i - 1) = UpstreamArguments(Append(b, e), e.index),
         i - 1 \in u.argsEmitted <=> Told(Append(b, e), e.index)
  PROVE  Agrees(Append(b, e), u, v)
<1> DEFINE c == Append(b, e)
           known == FirstStarts(b)
           m == Len(known)
<1>1. /\ b \in Seq(RespEvent) /\ w \in Seq(ToldChunk) /\ TextOf(OfType(w, "text")) = TextOf(Of(b, "text"))
      /\ CallsKnown(b) /\ s \in RespTranslator /\ Len(s.calls) = m
      /\ \A j \in 1..m :
             /\ s.calls[j] = known[j].callId
             /\ ArgumentsOf(w, j - 1) = UpstreamArguments(b, known[j].index)
             /\ j - 1 \in s.argsEmitted <=> Told(b, known[j].index)
      /\ \A n \in Nat : n >= m => ArgumentsOf(w, n) = <<>> /\ n \notin s.argsEmitted
      /\ Called(w) = Indices(m)
      /\ \A j, k \in 1..m : j # k => known[j].index # known[k].index
  BY DEF Agrees, AgreesOn, CallsKnown
<1>2. ~Announcement(b, e)
  BY DEF Announcement
<1>3. CallsKnown(c) /\ FirstStarts(c) = known /\ m \in Nat
  BY <1>1, <1>2, KnownKeeps, KnownNext, AgreesFacts
<1>4. Of(c, "text") = Of(b, "text")
  BY <1>1, TextSaid
<1>5. \A n : n # e.index => (Told(c, n) <=> Told(b, n)) /\ UpstreamArguments(c, n) = UpstreamArguments(b, n)
  BY <1>1, OthersSaid
<1>6. \A j \in 1..m :
         /\ u.calls[j] = known[j].callId
         /\ ArgumentsOf(v, j - 1) = UpstreamArguments(c, known[j].index)
         /\ j - 1 \in u.argsEmitted <=> Told(c, known[j].index)
  <2> TAKE j \in 1..m
  <2>1. CASE j = i
    BY <1>1, <2>1
  <2>2. CASE j # i
    <3>1. known[j].index # e.index
      BY <1>1, <2>2
    <3>2. j - 1 # i - 1
      BY <1>3, <2>2
    <3> QED
      BY <1>1, <1>5, <3>1, <3>2
  <2> QED
    BY <2>1, <2>2
<1>7. \A n \in Nat : n >= m => ArgumentsOf(v, n) = <<>> /\ n \notin u.argsEmitted
  <2> TAKE n \in Nat
  <2>1. n >= m => n # i - 1
    BY <1>3
  <2> QED
    BY <1>1, <2>1
<1> HIDE DEF c, known
<1>8. AgreesOn(known, c, u, v)
  <2>1. CallsKnown(c) /\ u \in RespTranslator /\ v \in Seq(ToldChunk)
    BY <1>3
  <2>2. Len(u.calls) = Len(known)
    BY <1>1
  <2>3. \A j \in 1..Len(known) :
           /\ u.calls[j] = known[j].callId
           /\ ArgumentsOf(v, j - 1) = UpstreamArguments(c, known[j].index)
           /\ j - 1 \in u.argsEmitted <=> Told(c, known[j].index)
    BY <1>6
  <2>4. \A n \in Nat : n >= Len(known) => ArgumentsOf(v, n) = <<>> /\ n \notin u.argsEmitted
    BY <1>7
  <2>5. Called(v) = Indices(Len(known))
    BY <1>1
  <2>6. TextOf(OfType(v, "text")) = TextOf(Of(c, "text"))
    BY <1>1, <1>4
  <2> QED
    BY <2>1, <2>2, <2>3, <2>4, <2>5, <2>6 DEF AgreesOn
<1>9. Agrees(c, u, v)
  BY <1>3, <1>8 DEF Agrees
<1> QED
  BY <1>9 DEF c

LEMMA AgreesPortion ==
  ASSUME NEW b, NEW s, NEW w, Agrees(b, s, w), NEW e \in ResponsesMessages(b), e \in RespEvent, Portion(b, e),
         NEW d \in ToldChunk, d.type = "args", d.idx = CallIndex(s, e.key), d.text = e.text,
         NEW u \in RespTranslator, u.calls = s.calls, u.argsEmitted = s.argsEmitted \cup {CallIndex(s, e.key)}
  PROVE  Agrees(Append(b, e), u, Append(w, d))
<1> DEFINE v == Append(w, d)
           known == FirstStarts(b)
<1>1. b \in Seq(RespEvent) /\ w \in Seq(ToldChunk)
  BY DEF Agrees, AgreesOn, CallsKnown
<1>2. PICK o \in OpenCalls(b) : o.key = e.key /\ o.index = e.index
  BY DEF Portion
<1>3. PICK i \in 1..Len(known) : /\ known[i] = o /\ CallIndex(s, o.key) = i - 1
                                  /\ OfCall(b, "call.done", o.index) = <<>>
  BY AgreesFacts
<1>4. ArgumentsOf(w, i - 1) = UpstreamArguments(b, e.index)
  BY <1>2, <1>3 DEF Agrees, AgreesOn
<1>5. e.kind = "call.delta" /\ e.text # <<>>
  BY DEF Portion
<1>6. /\ Told(Append(b, e), e.index)
      /\ UpstreamArguments(Append(b, e), e.index) = UpstreamArguments(b, e.index) \o e.text
  BY <1>1, <1>2, <1>3, <1>5, PieceSaid
<1>7. /\ v \in Seq(ToldChunk)
      /\ \A n : /\ d.idx = n => ArgumentsOf(v, n) = ArgumentsOf(w, n) \o d.text
                /\ d.idx # n => ArgumentsOf(v, n) = ArgumentsOf(w, n)
      /\ Called(v) = Called(w) /\ OfType(v, "text") = OfType(w, "text")
  BY <1>1, ToldNext
<1>8. d.idx = i - 1 /\ u.argsEmitted = s.argsEmitted \cup {i - 1}
  BY <1>2, <1>3
<1> HIDE DEF v
<1>9. ArgumentsOf(v, i - 1) = UpstreamArguments(Append(b, e), e.index)
  BY <1>4, <1>6, <1>7, <1>8
<1>10. \A n : n # i - 1 => ArgumentsOf(v, n) = ArgumentsOf(w, n) /\ (n \in u.argsEmitted <=> n \in s.argsEmitted)
  BY <1>7, <1>8
<1>11. e.kind \in {"call.delta", "call.done"} /\ FirstStarts(b)[i].index = e.index
  BY <1>2, <1>3, <1>5
<1>12. Agrees(Append(b, e), u, v)
  BY <1>6, <1>7, <1>8, <1>9, <1>10, <1>11, AgreesSaid
<1> QED
  BY <1>12 DEF v

\* The end of a call tells its arguments when no piece did.
LEMMA AgreesFinish ==
  ASSUME NEW b, NEW s, NEW w, Agrees(b, s, w), NEW e \in ResponsesMessages(b), e \in RespEvent, Finish(b, e),
         NEW u \in RespTranslator, u.calls = s.calls, NEW v,
         LET idx == CallIndex(s, e.key)
         IN \/ /\ Says(e) /\ idx \notin s.argsEmitted /\ u.argsEmitted = s.argsEmitted \cup {idx}
               /\ \E d \in ToldChunk : d.type = "args" /\ d.idx = idx /\ d.text = e.text /\ v = Append(w, d)
            \/ (~Says(e) \/ idx \in s.argsEmitted) /\ u.argsEmitted = s.argsEmitted /\ v = w
  PROVE  Agrees(Append(b, e), u, v)
<1> DEFINE known == FirstStarts(b)
<1>1. b \in Seq(RespEvent) /\ w \in Seq(ToldChunk)
  BY DEF Agrees, AgreesOn, CallsKnown
<1>2. PICK o \in OpenCalls(b) : o.key = e.key /\ o.index = e.index
  BY DEF Finish
<1>3. PICK i \in 1..Len(known) : /\ known[i] = o /\ CallIndex(s, o.key) = i - 1
                                  /\ OfCall(b, "call.done", o.index) = <<>>
  BY AgreesFacts
<1>4. /\ ArgumentsOf(w, i - 1) = UpstreamArguments(b, e.index)
      /\ i - 1 \in s.argsEmitted <=> Told(b, e.index)
  BY <1>2, <1>3 DEF Agrees, AgreesOn
<1>5. e.kind = "call.done" /\ e.text \in Words
  BY DEF Finish, RespEvent
<1>6. /\ Told(Append(b, e), e.index) <=> (Told(b, e.index) \/ Says(e))
      /\ Told(b, e.index) \/ ~Says(e) =>
            UpstreamArguments(Append(b, e), e.index) = UpstreamArguments(b, e.index)
      /\ ~Told(b, e.index) =>
            /\ UpstreamArguments(b, e.index) = <<>>
            /\ Says(e) => UpstreamArguments(Append(b, e), e.index) = e.text
  BY <1>1, <1>2, <1>3, <1>5, EndSaid
<1>7. CallIndex(s, e.key) = i - 1
  BY <1>2, <1>3
<1>8. e.kind \in {"call.delta", "call.done"} /\ FirstStarts(b)[i].index = e.index
  BY <1>2, <1>3, <1>5
<1>9. ASSUME Says(e), i - 1 \notin s.argsEmitted, u.argsEmitted = s.argsEmitted \cup {i - 1},
             NEW d \in ToldChunk, d.type = "args", d.idx = i - 1, d.text = e.text, v = Append(w, d)
      PROVE  Agrees(Append(b, e), u, v)
  <2>1. /\ v \in Seq(ToldChunk)
        /\ \A n : /\ d.idx = n => ArgumentsOf(v, n) = ArgumentsOf(w, n) \o d.text
                  /\ d.idx # n => ArgumentsOf(v, n) = ArgumentsOf(w, n)
        /\ Called(v) = Called(w) /\ OfType(v, "text") = OfType(w, "text")
    BY <1>1, <1>9, ToldNext, ZenonT(60)
  <2>2. ArgumentsOf(v, i - 1) = <<>> \o e.text
    BY <1>4, <1>6, <1>9, <2>1
  <2>3. ArgumentsOf(v, i - 1) = UpstreamArguments(Append(b, e), e.index)
    BY <1>4, <1>5, <1>6, <1>9, <2>2, TextEmptyConcat
  <2>4. \A n : n # i - 1 => ArgumentsOf(v, n) = ArgumentsOf(w, n) /\ (n \in u.argsEmitted <=> n \in s.argsEmitted)
    BY <1>9, <2>1
  <2>5. i - 1 \in u.argsEmitted <=> Told(Append(b, e), e.index)
    BY <1>6, <1>9
  <2> QED
    BY <1>8, <2>1, <2>3, <2>4, <2>5, AgreesSaid
<1>10. ASSUME ~Says(e) \/ i - 1 \in s.argsEmitted, u.argsEmitted = s.argsEmitted, v = w
       PROVE  Agrees(Append(b, e), u, v)
  <2>1. ArgumentsOf(v, i - 1) = UpstreamArguments(Append(b, e), e.index)
    BY <1>4, <1>6, <1>10
  <2>2. i - 1 \in u.argsEmitted <=> Told(Append(b, e), e.index)
    BY <1>4, <1>6, <1>10
  <2>3. v \in Seq(ToldChunk) /\ Called(v) = Called(w) /\ OfType(v, "text") = OfType(w, "text")
        /\ \A n : n # i - 1 => ArgumentsOf(v, n) = ArgumentsOf(w, n) /\ (n \in u.argsEmitted <=> n \in s.argsEmitted)
    BY <1>1, <1>10
  <2> QED
    BY <1>8, <2>1, <2>2, <2>3, AgreesSaid
<1> QED
  BY <1>7, <1>9, <1>10

LEMMA SeamIs ==
  ASSUME NEW u, NEW c \in ToldChunk
  PROVE  /\ Seam(u, c) \in ToldChunk
         /\ Seam(u, c).type = c.type /\ Seam(u, c).idx = c.idx /\ Seam(u, c).text = c.text
BY DEF Seam, ToldChunk

\* What goes to the client for one event, and that they agree when it is there.
LEMMA AgreesNext ==
  ASSUME client = "chat", NEW b, NEW s, NEW w, Agrees(b, s, w), NEW e \in ResponsesMessages(b), NEW u
  PROVE  LET r == ConvertResp(s, e)
             items == ToClient(u, r.out)
         IN \/ items = <<>> /\ Agrees(Append(b, e), r.st, w)
            \/ \E d \in ToldChunk : items = <<d>> /\ Agrees(Append(b, e), r.st, Append(w, d))
<1> DEFINE r == ConvertResp(s, e)
           items == ToClient(u, r.out)
           Goal == \/ items = <<>> /\ Agrees(Append(b, e), r.st, w)
                   \/ \E d \in ToldChunk : items = <<d>> /\ Agrees(Append(b, e), r.st, Append(w, d))
<1>1. b \in Seq(RespEvent) /\ s \in RespTranslator /\ w \in Seq(ToldChunk) /\ CallsKnown(b)
  BY DEF Agrees, AgreesOn, CallsKnown
<1>2. /\ e \in RespEvent
      /\ Speech(e) \/ Aside(b, e) \/ Announcement(b, e) \/ Retry(b, e) \/ Portion(b, e) \/ Finish(b, e)
  BY <1>1, RespMessageIs
<1>3. ASSUME r.out = <<>> PROVE items = <<>>
  BY <1>3, OneToClient
<1>4. ASSUME NEW c \in ToldChunk, r.out = <<c>>
      PROVE  \E d \in ToldChunk : items = <<d>> /\ d.type = c.type /\ d.idx = c.idx /\ d.text = c.text
  <2>1. items = <<Seam(u, c)>>
    BY <1>4, OneToClient
  <2> QED
    BY <2>1, SeamIs
<1>5. CASE Speech(e)
  <2>1. Same(s, r.st) /\ r.out = <<Chunk(e.kind, 0, e.text)>>
    BY <1>1, <1>2, <1>5, ConvertSpeech
  <2>2. e.kind \in ChunkTypes /\ 0 \in Nat /\ e.text \in Words
    BY <1>2, <1>5 DEF Speech, ChunkTypes, RespEvent
  <2> DEFINE c == Chunk(e.kind, 0, e.text)
  <2>3. /\ Chunk(e.kind, 0, e.text) \in ToldChunk /\ Chunk(e.kind, 0, e.text).type = e.kind
        /\ Chunk(e.kind, 0, e.text).idx = 0 /\ Chunk(e.kind, 0, e.text).text = e.text
    BY <2>2, ChunkIs
  <2>4. PICK d \in ToldChunk : items = <<d>> /\ d.type = c.type /\ d.idx = c.idx /\ d.text = c.text
    BY <1>4, <2>1, <2>3
  <2>5. d.type = e.kind /\ d.text = e.text
    BY <2>3, <2>4
  <2> HIDE DEF r, items
  <2>6. Agrees(Append(b, e), r.st, Append(w, d))
    BY <1>2, <1>5, <2>1, <2>5, AgreesSpeech
  <2> QED
    BY <2>4, <2>6 DEF r, items
<1>6. CASE Aside(b, e)
  <2>1. e.kind \in {"other", "message.done", "completed", "failed"}
    BY <1>6 DEF Aside
  <2>2. /\ Same(s, r.st)
        /\ r.out = <<>> \/ \E c : Closing(c) /\ r.out = <<c>>
    BY <1>1, <1>2, <2>1, ConvertAside
  <2>3. CASE r.out = <<>>
    <3>1. items = <<>>
      BY <1>3, <2>3
    <3> HIDE DEF r, items
    <3>2. w = w \/ \E d \in ToldChunk : d.type \in {"finish", "error"} /\ w = Append(w, d)
      OBVIOUS
    <3>3. Agrees(Append(b, e), r.st, w)
      BY <1>6, <2>2, <3>2, AgreesClosing
    <3> QED
      BY <3>1, <3>3 DEF r, items
  <2>4. ASSUME NEW c, Closing(c), r.out = <<c>> PROVE Goal
    <3>1. c \in ToldChunk /\ c.type \in {"finish", "error"}
      BY <2>4 DEF Closing
    <3>2. PICK d \in ToldChunk : items = <<d>> /\ d.type = c.type /\ d.idx = c.idx /\ d.text = c.text
      BY <1>4, <2>4, <3>1
    <3>3. d.type \in {"finish", "error"}
      BY <3>1, <3>2
    <3> HIDE DEF r, items
    <3> DEFINE v == Append(w, d)
    <3>4. v = w \/ \E x \in ToldChunk : x.type \in {"finish", "error"} /\ v = Append(w, x)
      BY <3>3
    <3> HIDE DEF v
    <3>5. Agrees(Append(b, e), r.st, v)
      BY <1>6, <2>2, <3>4, AgreesClosing
    <3> QED
      BY <3>2, <3>5 DEF v
  <2> QED
    BY <2>2, <2>3, <2>4
<1>7. CASE Announcement(b, e) \/ Retry(b, e)
  <2>1. e.kind = "call.added" /\ e.key \in {<<>>, <<e.callId>>} /\ e.callId \in Nat
    <3>1. CASE Announcement(b, e)
      BY <1>2, <3>1 DEF Announcement, RespEvent
    <3>2. CASE Retry(b, e)
      <4>1. e \in OpenCalls(b)
        BY <3>2 DEF Retry
      <4>2. e.kind = "call.added" /\ \E i \in 1..Len(FirstStarts(b)) : FirstStarts(b)[i] = e
        BY <1>1, <4>1, OpenCallsAre, OpenIsKnown
      <4> QED
        BY <1>1, <1>2, <4>2 DEF CallsKnown, RespEvent
    <3> QED
      BY <1>7, <3>1, <3>2
  <2> DEFINE key == <<e.callId>>
             idx == CallIndex(r.st, <<e.callId>>)
             c == Chunk("call", idx, <<>>)
  <2>2. r.st \in RespTranslator /\ r.out = <<c>>
    BY <1>1, <1>2, <2>1, ConvertAdded
  <2> HIDE DEF r
  <2>3. idx \in Nat /\ "call" \in ChunkTypes /\ <<>> \in Words
    BY <2>2, CallIndexTyped, EmptySeq DEF ChunkTypes, Words
  <2> HIDE DEF idx
  <2>4. /\ Chunk("call", idx, <<>>) \in ToldChunk /\ Chunk("call", idx, <<>>).type = "call"
        /\ Chunk("call", idx, <<>>).idx = idx /\ Chunk("call", idx, <<>>).text = <<>>
    BY <2>3, ChunkIs
  <2>5. PICK d \in ToldChunk : items = <<d>> /\ d.type = c.type /\ d.idx = c.idx /\ d.text = c.text
    BY <1>4, <2>2, <2>4
  <2>6. d.type = "call" /\ d.idx = CallIndex(ConvertResp(s, e).st, <<e.callId>>)
    BY <2>4, <2>5 DEF idx, r
  <2> HIDE DEF items
  <2>7. Agrees(Append(b, e), ConvertResp(s, e).st, Append(w, d))
    BY <1>7, <2>6, AgreesAnnouncement, AgreesRetry
  <2> QED
    BY <2>5, <2>7 DEF r, items
<1>8. CASE Portion(b, e)
  <2> DEFINE idx == CallIndex(s, e.key)
             c == Chunk("args", idx, e.text)
  <2>1. e.kind = "call.delta" /\ e.text # <<>> /\ e.text \in Words
    BY <1>2, <1>8 DEF Portion, RespEvent
  <2>2. /\ r.st \in RespTranslator /\ r.st.calls = s.calls /\ r.st.argsEmitted = s.argsEmitted \cup {idx}
        /\ r.out = <<c>> /\ idx \in Nat
    BY <1>1, <1>2, <2>1, ConvertPortion
  <2> HIDE DEF r, idx
  <2>3. "args" \in ChunkTypes
    BY DEF ChunkTypes
  <2>4. /\ Chunk("args", idx, e.text) \in ToldChunk /\ Chunk("args", idx, e.text).type = "args"
        /\ Chunk("args", idx, e.text).idx = idx /\ Chunk("args", idx, e.text).text = e.text
    BY <2>1, <2>2, <2>3, ChunkIs
  <2>5. PICK d \in ToldChunk : items = <<d>> /\ d.type = c.type /\ d.idx = c.idx /\ d.text = c.text
    BY <1>4, <2>2, <2>4
  <2>6. d.type = "args" /\ d.idx = CallIndex(s, e.key) /\ d.text = e.text
        /\ r.st.argsEmitted = s.argsEmitted \cup {CallIndex(s, e.key)}
    BY <2>2, <2>4, <2>5 DEF idx
  <2> HIDE DEF items
  <2>7. Agrees(Append(b, e), r.st, Append(w, d))
    BY <1>2, <1>8, <2>2, <2>6, AgreesPortion
  <2> QED
    BY <2>5, <2>7 DEF r, items
<1>9. CASE Finish(b, e)
  <2> DEFINE idx == CallIndex(s, e.key)
             c == Chunk("args", idx, e.text)
  <2>1. e.kind = "call.done" /\ e.text \in Words
    BY <1>2, <1>9 DEF Finish, RespEvent
  <2>2. /\ idx \in Nat /\ r.st \in RespTranslator /\ r.st.calls = s.calls
        /\ Says(e) /\ idx \notin s.argsEmitted =>
              r.st.argsEmitted = s.argsEmitted \cup {idx} /\ r.out = <<c>>
        /\ ~Says(e) \/ idx \in s.argsEmitted => r.st.argsEmitted = s.argsEmitted /\ r.out = <<>>
    BY <1>1, <1>2, <2>1, ConvertFinish
  <2>3. CASE Says(e) /\ idx \notin s.argsEmitted
    <3> HIDE DEF r, idx
    <3>1. r.st.argsEmitted = s.argsEmitted \cup {idx} /\ r.out = <<c>> /\ "args" \in ChunkTypes
      BY <2>2, <2>3 DEF ChunkTypes
    <3>2. /\ Chunk("args", idx, e.text) \in ToldChunk /\ Chunk("args", idx, e.text).type = "args"
          /\ Chunk("args", idx, e.text).idx = idx /\ Chunk("args", idx, e.text).text = e.text
      BY <2>1, <2>2, <3>1, ChunkIs
    <3>3. PICK d \in ToldChunk : items = <<d>> /\ d.type = c.type /\ d.idx = c.idx /\ d.text = c.text
      BY <1>4, <3>1, <3>2
    <3> DEFINE v == Append(w, d)
    <3>4. \/ /\ Says(e) /\ CallIndex(s, e.key) \notin s.argsEmitted
             /\ r.st.argsEmitted = s.argsEmitted \cup {CallIndex(s, e.key)}
             /\ \E x \in ToldChunk : x.type = "args" /\ x.idx = CallIndex(s, e.key) /\ x.text = e.text /\ v = Append(w, x)
          \/ (~Says(e) \/ CallIndex(s, e.key) \in s.argsEmitted) /\ r.st.argsEmitted = s.argsEmitted /\ v = w
      BY <2>3, <3>1, <3>2, <3>3 DEF idx
    <3> HIDE DEF items, v
    <3>5. Agrees(Append(b, e), r.st, v)
      BY <1>2, <1>9, <2>2, <3>4, AgreesFinish
    <3> QED
      BY <3>3, <3>5 DEF v, r, items
  <2>4. CASE ~Says(e) \/ idx \in s.argsEmitted
    <3>1. r.st.argsEmitted = s.argsEmitted /\ items = <<>>
      BY <1>3, <2>2, <2>4
    <3> HIDE DEF r, items
    <3> DEFINE v == w
    <3>4. \/ /\ Says(e) /\ CallIndex(s, e.key) \notin s.argsEmitted
             /\ r.st.argsEmitted = s.argsEmitted \cup {CallIndex(s, e.key)}
             /\ \E x \in ToldChunk : x.type = "args" /\ x.idx = CallIndex(s, e.key) /\ x.text = e.text /\ v = Append(w, x)
          \/ (~Says(e) \/ CallIndex(s, e.key) \in s.argsEmitted) /\ r.st.argsEmitted = s.argsEmitted /\ v = w
      BY <2>4, <3>1
    <3> HIDE DEF v
    <3>5. Agrees(Append(b, e), r.st, v)
      BY <1>2, <1>9, <2>2, <3>4, AgreesFinish
    <3> QED
      BY <3>1, <3>5 DEF v, r, items
  <2> QED
    BY <2>3, <2>4
<1> QED
  BY <1>2, <1>5, <1>6, <1>7, <1>8, <1>9

\* The end of the stream closes without a word on the calls.
LEMMA AgreesAtEnd ==
  ASSUME client = "chat", NEW b, NEW s, NEW w, Agrees(b, s, w), NEW u
  PROVE  Agrees(b, flushChat(s).st, w \o ToClient(u, flushChat(s).out))
<1>1. s \in RespTranslator /\ w \in Seq(ToldChunk)
  BY DEF Agrees, AgreesOn
<1>2. CASE s.finishSent \/ ~s.started
  <2>1. flushChat(s).st = s /\ flushChat(s).out = <<>>
    BY <1>2 DEF flushChat, Nothing
  <2>2. w \o ToClient(u, flushChat(s).out) = w
    <3>1. ToClient(u, flushChat(s).out) = <<>>
      BY <2>1, OneToClient
    <3>2. w \o <<>> = w
      BY <1>1
    <3> QED
      BY <3>1, <3>2
  <2> QED
    BY <2>1, <2>2
<1>3. CASE ~(s.finishSent \/ ~s.started)
  <2>1. flushChat(s) = finalChunk(s)
    BY <1>3 DEF flushChat
  <2>2. /\ Same(s, finalChunk(s).st)
        /\ \E c : Closing(c) /\ finalChunk(s).out = <<c>>
    BY <1>1, ClosesWith
  <2>3. PICK c : Closing(c) /\ finalChunk(s).out = <<c>>
    BY <2>2
  <2> DEFINE d == Seam(u, c)
             t == finalChunk(s).st
  <2>4. ToClient(u, flushChat(s).out) = <<d>> /\ d \in ToldChunk /\ d.type \in {"finish", "error"}
    BY <2>1, <2>3, OneToClient, SeamIs DEF Closing
  <2>5. flushChat(s).st = t /\ Same(s, t)
    BY <2>1, <2>2
  <2> HIDE DEF d, t
  <2>6. w \o <<d>> = Append(w, d)
    BY <1>1, <2>4, AppendProperties
  <2>7. /\ Append(w, d) \in Seq(ToldChunk)
        /\ \A n : ArgumentsOf(Append(w, d), n) = ArgumentsOf(w, n)
        /\ Called(Append(w, d)) = Called(w)
        /\ OfType(Append(w, d), "text") = OfType(w, "text")
    BY <1>1, <2>4, ToldNext
  <2>8. Agrees(b, t, Append(w, d))
    BY <2>5, <2>7 DEF Agrees, AgreesOn, Same
  <2> QED
    BY <2>4, <2>5, <2>6, <2>8
<1> QED
  BY <1>2, <1>3

-----------------------------------------------------------------------------
(* The stream of a chat client. *)

CallsTold ==
    route = "stream" /\ client = "chat" =>
        /\ upstream = "responses"
        /\ stage # "cut" => Agrees(heard, tr, sent)

LEMMA LineTells ==
  ASSUME CallsTold, ProcessLine, client = "chat"
  PROVE  CallsTold'
<1>1. /\ route = "stream" /\ upstream = "responses" /\ stage = "open" /\ Agrees(heard, tr, sent)
      /\ UNCHANGED <<route, upstream, client>>
  BY DEF CallsTold, ProcessLine
<1>2. PICK e \in Messages(heard) :
        LET w == Convert(tr, e)
            items == ToClient(Merged(tracked, e), w.out)
        IN \E k \in 0 .. Len(items) :
              /\ heard' = Append(heard, e)
              /\ tr' = w.st
              /\ tracked' = Merged(tracked, e)
              /\ sent' = sent \o SubSeq(items, 1, k)
              /\ stage' = IF k = Len(items) THEN "open" ELSE "cut"
  BY DEF ProcessLine
<1> DEFINE u == Merged(tracked, e)
           r == ConvertResp(tr, e)
           items == ToClient(u, r.out)
<1>3. PICK k \in 0 .. Len(items) :
              /\ heard' = Append(heard, e)
              /\ tr' = r.st
              /\ sent' = sent \o SubSeq(items, 1, k)
              /\ stage' = IF k = Len(items) THEN "open" ELSE "cut"
  BY <1>1, <1>2 DEF Convert
<1>4. e \in ResponsesMessages(heard)
  BY <1>1, <1>2, Zenon DEF Messages
<1>5. \/ items = <<>> /\ Agrees(Append(heard, e), r.st, sent)
      \/ \E d \in ToldChunk : items = <<d>> /\ Agrees(Append(heard, e), r.st, Append(sent, d))
  <2> HIDE DEF u
  <2> QED
    BY <1>1, <1>4, AgreesNext
<1>6. sent \in Seq(ToldChunk)
  BY <1>1 DEF Agrees, AgreesOn
<1> HIDE DEF r, items
<1>7. ASSUME stage' # "cut" PROVE Agrees(heard', tr', sent')
  <2>1. k = Len(items)
    BY <1>3, <1>7
  <2>2. CASE items = <<>> /\ Agrees(Append(heard, e), r.st, sent)
    <3>1. SubSeq(items, 1, k) = <<>>
      BY <2>1, <2>2, SubSeqEmpty
    <3>2. sent \o <<>> = sent
      BY <1>6
    <3> QED
      BY <1>3, <2>2, <3>1, <3>2
  <2>3. ASSUME NEW d \in ToldChunk, items = <<d>>, Agrees(Append(heard, e), r.st, Append(sent, d))
        PROVE  Agrees(heard', tr', sent')
    <3>1. k \in 0 .. Len(<<d>>) /\ k = 1
      BY <1>3, <2>1, <2>3
    <3>2. SubSeq(items, 1, k) = <<d>>
      BY <2>3, <3>1, PrefixesOfOne
    <3>3. sent \o <<d>> = Append(sent, d)
      BY <1>6, AppendProperties
    <3> QED
      BY <1>3, <2>3, <3>2, <3>3
  <2> QED
    BY <1>5, <2>2, <2>3
<1> QED
  BY <1>1, <1>7 DEF CallsTold

LEMMA CallsToldInvariant == Spec => []CallsTold
<1>1. Init => CallsTold /\ ReaderRests
  <2>0. Init => ReaderRests
    BY DEF Init, ReaderRests, ReadInit
  <2> SUFFICES ASSUME Init PROVE CallsTold
    BY <2>0
  <2>1. ASSUME route = "stream", client = "chat" PROVE upstream = "responses" /\ Agrees(heard, tr, sent)
    <3>1. upstream = "responses" /\ tr = NewRespToChat /\ heard = <<>> /\ sent = <<>>
      BY <2>1 DEF Init
    <3> QED
      BY <3>1, AgreesAtFirst
  <2> QED
    BY <2>1 DEF CallsTold
<1>2. CallsTold /\ ReaderRests /\ [Next]_vars => (CallsTold /\ ReaderRests)'
  <2> SUFFICES ASSUME CallsTold, ReaderRests, [Next]_vars PROVE CallsTold'
    BY StreamSteps
  <2>1. UNCHANGED <<route, upstream, client>>
    BY StreamSteps
  <2>2. CASE ~(route = "stream" /\ client = "chat")
    BY <2>1, <2>2 DEF CallsTold
  <2>3. CASE route = "stream" /\ client = "chat"
    <3>1. ProcessLine \/ StreamEnds \/ StreamAborts \/ UNCHANGED translateVars
      BY <2>3, StreamSteps
    <3>2. CASE StreamAborts
      BY <3>2 DEF StreamAborts, CallsTold
    <3>3. CASE UNCHANGED translateVars
      BY <3>3 DEF translateVars, CallsTold
    <3>4. CASE StreamEnds
      <4>1. upstream = "responses" /\ Agrees(heard, tr, sent)
        BY <2>3, <3>4 DEF CallsTold, StreamEnds
      <4>2. tr' = flushChat(tr).st /\ sent' = sent \o ToClient(tracked, flushChat(tr).out) /\ heard' = heard
        BY <3>4, <4>1 DEF StreamEnds, Flush
      <4>3. Agrees(heard, flushChat(tr).st, sent \o ToClient(tracked, flushChat(tr).out))
        BY <2>3, <4>1, AgreesAtEnd
      <4>4. Agrees(heard', tr', sent')
        BY <4>2, <4>3
      <4> QED
        BY <2>1, <2>3, <4>1, <4>4 DEF CallsTold
    <3>5. CASE ProcessLine
      BY <2>3, <3>5, LineTells
    <3> QED
      BY <3>1, <3>2, <3>3, <3>4, <3>5
  <2> QED
    BY <2>2, <2>3
<1> QED
  BY <1>1, <1>2, PTL DEF Spec

\* Each call of a Responses upstream, of a function or of a custom tool, has one
\* place at the chat client, and its arguments arrive there once: from its pieces,
\* or from its end if it is a function's and had none; the text arrives in full,
\* what is said behind an ending too (stream_resp2chat.go: RespToolChatIndex and the
\* fallback of output_item.done).
THEOREM ArgumentsCorrect == Spec => []ArgumentsReachTheirCall
<1>1. CallsTold => ArgumentsReachTheirCall
  <2> SUFFICES ASSUME CallsTold, ToChatClient PROVE ArgumentsReachTheirCall
    BY DEF ArgumentsReachTheirCall
  <2> DEFINE starts == FirstStarts(heard)
  <2>1. Agrees(heard, tr, sent)
    BY DEF CallsTold, ToChatClient
  <2>2. starts \in Seq(RespEvent)
    BY <2>1, AgreesFacts
  <2>3. DOMAIN starts = 1..Len(starts)
    BY <2>2, LenProperties
  <2>4. /\ \A i \in 1..Len(starts) : ArgumentsOf(sent, i - 1) = UpstreamArguments(heard, starts[i].index)
        /\ Called(sent) = Indices(Len(starts))
        /\ TextOf(OfType(sent, "text")) = TextOf(Of(heard, "text"))
    BY <2>1 DEF Agrees, AgreesOn
  <2>5. {e.idx : e \in Range(OfType(sent, "call"))} = {i - 1 : i \in DOMAIN starts}
    BY <2>3, <2>4 DEF Called, Indices
  <2> HIDE DEF starts
  <2>6. \A i \in DOMAIN starts : ArgumentsOf(sent, i - 1) = UpstreamArguments(heard, starts[i].index)
    BY <2>3, <2>4
  <2> QED
    BY <2>4, <2>5, <2>6 DEF ArgumentsReachTheirCall, starts
<1> QED
  BY <1>1, CallsToldInvariant, PTL

-----------------------------------------------------------------------------
(* What a Responses client puts together from its events. *)

LEMMA EventTexts == \A x \in Event : x.text \in Seq(Fragment)
BY DEF Event, Text

\* The deltas of one kind.
Spoken(evs, kind) == Only(evs, {e \in Range(evs) : e.type = "delta" /\ e.item[1] = kind})

LEMMA PickedNext ==
  ASSUME NEW evs \in Seq(Event), NEW e \in Event, NEW x, NEW kind
  PROVE  /\ OfItem(evs, x) \in Seq(Event) /\ Spoken(evs, kind) \in Seq(Event)
         /\ OfItem(Append(evs, e), x) = IF e.item = x THEN Append(OfItem(evs, x), e) ELSE OfItem(evs, x)
         /\ Spoken(Append(evs, e), kind) =
               IF e.type = "delta" /\ e.item[1] = kind THEN Append(Spoken(evs, kind), e) ELSE Spoken(evs, kind)
<1> DEFINE U(q) == {y \in Range(q) : y.item = x}
           V(q) == {y \in Range(q) : y.type = "delta" /\ y.item[1] = kind}
           c == Append(evs, e)
<1>1. /\ DOMAIN evs = 1..Len(evs) /\ Range(c) = Range(evs) \cup {e}
      /\ \A i \in 1..Len(evs) : evs[i] \in Range(evs)
  BY AppendIs DEF Range
<1> HIDE DEF c
<1>2. /\ \A i \in DOMAIN evs : (evs[i] \in U(evs) <=> evs[i] \in U(c)) /\ (evs[i] \in V(evs) <=> evs[i] \in V(c))
      /\ (e \in U(c) <=> e.item = x) /\ (e \in V(c) <=> (e.type = "delta" /\ e.item[1] = kind))
  BY <1>1
<1>3. \A q : OfItem(q, x) = Only(q, U(q)) /\ Spoken(q, kind) = Only(q, V(q))
  BY DEF OfItem, Spoken
<1> HIDE DEF U, V
<1>4. Only(evs, U(evs)) \in Seq(Event) /\ Only(evs, V(evs)) \in Seq(Event)
  BY OnlyTyped
<1>5. Only(c, U(c)) = IF e \in U(c) THEN Append(Only(evs, U(evs)), e) ELSE Only(evs, U(evs))
  BY <1>2, OnlyNext DEF c
<1>6. Only(c, V(c)) = IF e \in V(c) THEN Append(Only(evs, V(evs)), e) ELSE Only(evs, V(evs))
  BY <1>2, OnlyNext DEF c
<1> QED
  BY <1>2, <1>3, <1>4, <1>5, <1>6 DEF c

LEMMA TextNext ==
  ASSUME NEW q \in Seq(Event), NEW e \in Event
  PROVE  TextOf(q) \in Text /\ TextOf(Append(q, e)) = TextOf(q) \o e.text
BY EventTexts, TextOfAppend DEF Text

LEMMA OwnNext ==
  ASSUME NEW evs \in Seq(Event), NEW e \in Event
  PROVE  /\ \A x : OfItem(evs, x) \in Seq(Event)
         /\ \A x : OfItem(Append(evs, e), x) = IF e.item = x THEN Append(OfItem(evs, x), e) ELSE OfItem(evs, x)
         /\ TextOf(OfItem(Append(evs, e), e.item)) = TextOf(OfItem(evs, e.item)) \o e.text
<1>1. \A x : /\ OfItem(evs, x) \in Seq(Event)
             /\ OfItem(Append(evs, e), x) = IF e.item = x THEN Append(OfItem(evs, x), e) ELSE OfItem(evs, x)
  <2> TAKE x
  <2>1. /\ OfItem(evs, x) \in Seq(Event) /\ Spoken(evs, x) \in Seq(Event)
        /\ OfItem(Append(evs, e), x) = IF e.item = x THEN Append(OfItem(evs, x), e) ELSE OfItem(evs, x)
        /\ Spoken(Append(evs, e), x) =
              IF e.type = "delta" /\ e.item[1] = x THEN Append(Spoken(evs, x), e) ELSE Spoken(evs, x)
    BY PickedNext
  <2> QED
    BY <2>1
<1>2. TextOf(Append(OfItem(evs, e.item), e)) = TextOf(OfItem(evs, e.item)) \o e.text
  <2> DEFINE q == OfItem(evs, e.item)
  <2>1. q \in Seq(Event)
    BY <1>1
  <2> HIDE DEF q
  <2>2. TextOf(Append(q, e)) = TextOf(q) \o e.text
    BY <2>1, TextNext
  <2> QED
    BY <2>2 DEF q
<1> QED
  BY <1>1, <1>2

LEMMA DeltasNext ==
  ASSUME NEW evs \in Seq(Event), NEW e \in Event, NEW kind
  PROVE  /\ DeltasOf(evs, kind) \in Text
         /\ e.type = "delta" /\ e.item[1] = kind => DeltasOf(Append(evs, e), kind) = DeltasOf(evs, kind) \o e.text
         /\ ~(e.type = "delta" /\ e.item[1] = kind) => DeltasOf(Append(evs, e), kind) = DeltasOf(evs, kind)
<1>1. /\ OfItem(evs, kind) \in Seq(Event) /\ Spoken(evs, kind) \in Seq(Event)
      /\ OfItem(Append(evs, e), kind) = IF e.item = kind THEN Append(OfItem(evs, kind), e) ELSE OfItem(evs, kind)
      /\ Spoken(Append(evs, e), kind) =
            IF e.type = "delta" /\ e.item[1] = kind THEN Append(Spoken(evs, kind), e) ELSE Spoken(evs, kind)
  BY PickedNext
<1>2. DeltasOf(evs, kind) = TextOf(Spoken(evs, kind)) /\ DeltasOf(Append(evs, e), kind) = TextOf(Spoken(Append(evs, e), kind))
  BY DEF DeltasOf, Spoken
<1> DEFINE q == Spoken(evs, kind)
<1>3. q \in Seq(Event)
  BY <1>1
<1> HIDE DEF q
<1>4. TextOf(q) \in Text /\ TextOf(Append(q, e)) = TextOf(q) \o e.text
  BY <1>3, TextNext
<1> QED
  BY <1>1, <1>2, <1>4 DEF q

LEMMA NothingPicked ==
  /\ \A x : OfItem(<<>>, x) = <<>>
  /\ \A kind : DeltasOf(<<>>, kind) = <<>>
BY OnlyEmpty, TextOfEmpty DEF OfItem, DeltasOf

\* A close repeats what the item's events said so far.
RepeatsAt(evs, k) ==
    LET own == OfItem(SubSeq(evs, 1, k - 1), evs[k].item)
    IN  /\ \/ evs[k].text = TextOf(own)
           \/ evs[k].text = NoArguments /\ TextOf(own) = <<>> /\ evs[k].item[1] = "call"
        /\ own # <<>> => own[1].type = "open"

Repeats(evs) == \A k \in Places(evs, "close") : RepeatsAt(evs, k)

Restates(evs, e) ==
    LET own == OfItem(evs, e.item)
    IN  /\ \/ e.text = TextOf(own)
           \/ e.text = NoArguments /\ TextOf(own) = <<>> /\ e.item[1] = "call"
        /\ own # <<>> => own[1].type = "open"

LEMMA SegmentsStay ==
  ASSUME NEW evs \in Seq(Event), NEW e \in Event
  PROVE  /\ \A k \in 1..Len(evs) : SubSeq(Append(evs, e), 1, k - 1) = SubSeq(evs, 1, k - 1)
         /\ SubSeq(Append(evs, e), 1, Len(evs)) = evs
<1> DEFINE c == Append(evs, e)
<1>1. /\ c \in Seq(Event) /\ Len(evs) \in Nat /\ Len(c) = Len(evs) + 1
      /\ \A i \in 1..Len(evs) : c[i] = evs[i]
  BY AppendIs
<1> HIDE DEF c
<1>2. ASSUME NEW m \in 0..Len(evs) PROVE SubSeq(c, 1, m) = SubSeq(evs, 1, m)
  <2>0. m \in Nat /\ m <= Len(evs) /\ m <= Len(c)
    BY <1>1
  <2>1. /\ SubSeq(c, 1, m) \in Seq(Event) /\ Len(SubSeq(c, 1, m)) = m
        /\ \A i \in 1..m : SubSeq(c, 1, m)[i] = c[i]
    BY <1>1, <2>0, SubSeqProperties
  <2>2. /\ SubSeq(evs, 1, m) \in Seq(Event) /\ Len(SubSeq(evs, 1, m)) = m
        /\ \A i \in 1..m : SubSeq(evs, 1, m)[i] = evs[i]
    BY <1>1, <2>0, SubSeqProperties
  <2>3. \A i \in 1..m : i \in 1..Len(evs)
    BY <1>1, <2>0
  <2> QED
    BY <1>1, <2>1, <2>2, <2>3, SeqEqual
<1>3. SubSeq(evs, 1, Len(evs)) = evs
  BY SubSeqFull
<1>4. \A k \in 1..Len(evs) : k - 1 \in 0..Len(evs)
  BY <1>1
<1>5. Len(evs) \in 0..Len(evs)
  BY <1>1
<1> QED
  BY <1>2, <1>3, <1>4, <1>5 DEF c

LEMMA RepeatsNext ==
  ASSUME NEW evs \in Seq(Event), NEW e \in Event, Repeats(evs), e.type = "close" => Restates(evs, e)
  PROVE  Repeats(Append(evs, e))
<1> DEFINE c == Append(evs, e)
           n == Len(evs)
<1>1. /\ n \in Nat /\ (\A i \in 1..n : c[i] = evs[i]) /\ c[n + 1] = e
      /\ \A t : Places(evs, t) \subseteq 1..n
      /\ \A t : t # e.type => Places(c, t) = Places(evs, t)
      /\ Places(c, e.type) = Places(evs, e.type) \cup {n + 1}
  BY PlacesAppend
<1>2. /\ \A k \in 1..n : SubSeq(c, 1, k - 1) = SubSeq(evs, 1, k - 1)
      /\ SubSeq(c, 1, n) = evs
  BY SegmentsStay
<1> HIDE DEF c, n
<1>3. ASSUME NEW k \in Places(evs, "close") PROVE RepeatsAt(c, k)
  <2>1. k \in 1..n /\ c[k] = evs[k] /\ SubSeq(c, 1, k - 1) = SubSeq(evs, 1, k - 1)
    BY <1>1, <1>2
  <2>2. RepeatsAt(evs, k)
    BY DEF Repeats
  <2> QED
    BY <2>1, <2>2 DEF RepeatsAt
<1>4. (n + 1) - 1 = n
  BY <1>1
<1>5. e.type = "close" => RepeatsAt(c, n + 1)
  BY <1>1, <1>2, <1>4 DEF Restates, RepeatsAt
<1> QED
  BY <1>1, <1>3, <1>5 DEF Repeats, c

\* What the client has of one item: nothing before its start; from then on
\* the start and the text.
Kept(evs, x, begun, text) ==
    /\ begun => OfItem(evs, x) # <<>> /\ OfItem(evs, x)[1].type = "open"
    /\ ~begun => OfItem(evs, x) = <<>>
    /\ TextOf(OfItem(evs, x)) = text

LEMMA KeptElsewhere ==
  ASSUME NEW evs \in Seq(Event), NEW e \in Event, NEW x, NEW begun, NEW text, Kept(evs, x, begun, text), e.item # x
  PROVE  Kept(Append(evs, e), x, begun, text)
<1>1. OfItem(Append(evs, e), x) = OfItem(evs, x)
  BY OwnNext
<1> QED
  BY <1>1 DEF Kept

LEMMA KeptStarts ==
  ASSUME NEW evs \in Seq(Event), NEW e \in Event, NEW text, Kept(evs, e.item, FALSE, text),
         e.type = "open", e.text = <<>>
  PROVE  Kept(Append(evs, e), e.item, TRUE, text)
<1> DEFINE own == OfItem(evs, e.item)
           a == Append(evs, e)
<1>1. own = <<>> /\ TextOf(own) = text
  BY DEF Kept
<1>2. OfItem(a, e.item) = Append(own, e) /\ TextOf(OfItem(a, e.item)) = TextOf(own) \o e.text
  BY OwnNext
<1>3. Append(<<>>, e) # <<>> /\ Append(<<>>, e)[1] = e
  OBVIOUS
<1>4. text = <<>> /\ <<>> \o <<>> = <<>>
  BY <1>1, TextOfEmpty
<1> HIDE DEF own, a
<1> QED
  BY <1>1, <1>2, <1>3, <1>4 DEF Kept, a

LEMMA KeptSays ==
  ASSUME NEW evs \in Seq(Event), NEW e \in Event, NEW text, Kept(evs, e.item, TRUE, text)
  PROVE  Kept(Append(evs, e), e.item, TRUE, text \o e.text)
<1> DEFINE own == OfItem(evs, e.item)
           a == Append(evs, e)
<1>1. own # <<>> /\ own[1].type = "open" /\ TextOf(own) = text /\ own \in Seq(Event)
  BY OwnNext DEF Kept
<1>2. OfItem(a, e.item) = Append(own, e) /\ TextOf(OfItem(a, e.item)) = TextOf(own) \o e.text
  BY OwnNext
<1> HIDE DEF own, a
<1>3. Append(own, e) # <<>> /\ Append(own, e)[1] = own[1]
  BY <1>1
<1> QED
  BY <1>1, <1>2, <1>3 DEF Kept, a

LEMMA KeptRestates ==
  ASSUME NEW evs, NEW e, NEW begun \in BOOLEAN, NEW text, Kept(evs, e.item, begun, text),
         e.text = text \/ (e.text = NoArguments /\ text = <<>> /\ e.item[1] = "call")
  PROVE  Restates(evs, e)
<1> DEFINE own == OfItem(evs, e.item)
<1>1. TextOf(own) = text /\ (own # <<>> => own[1].type = "open")
  BY DEF Kept
<1> HIDE DEF own
<1>2. e.text = TextOf(own) \/ (e.text = NoArguments /\ TextOf(own) = <<>> /\ e.item[1] = "call")
  BY <1>1
<1> QED
  BY <1>1, <1>2 DEF Restates, own

\* An item that is closed is of no more interest.
MessagesKept(msg, evs) ==
    \A c \in ChoiceIds : msg[c].done \/ Kept(evs, <<"message", c>>, msg[c].added, msg[c].buf)

ReasoningKept(r, evs) ==
    /\ \A c \in ChoiceIds :
          /\ r.at = <<c>> => r.done \/ Kept(evs, <<"reasoning", c>>, TRUE, r.buf)
          /\ r.at # <<c>> => Kept(evs, <<"reasoning", c>>, FALSE, <<>>)
    /\ r.at = <<>> => r.buf = <<>>

\* The input of a custom tool is told at its close.
Buffered(f) == IF isCustomTool(f.name) THEN <<>> ELSE f.args

CallsKept(func, evs) ==
    \A n \in CallSlots : func[n].done \/ Kept(evs, <<"call", n>>, func[n].added, Buffered(func[n]))

LEMMA MessagesStay ==
  ASSUME NEW msg, NEW evs \in Seq(Event), NEW e \in Event, MessagesKept(msg, evs),
         \A c \in ChoiceIds : e.item # <<"message", c>>
  PROVE  MessagesKept(msg, Append(evs, e))
BY KeptElsewhere DEF MessagesKept

LEMMA ReasoningStays ==
  ASSUME NEW r, NEW evs \in Seq(Event), NEW e \in Event, ReasoningKept(r, evs),
         \A c \in ChoiceIds : e.item # <<"reasoning", c>>
  PROVE  ReasoningKept(r, Append(evs, e))
BY KeptElsewhere DEF ReasoningKept

LEMMA CallsStay ==
  ASSUME NEW func, NEW evs \in Seq(Event), NEW e \in Event, CallsKept(func, evs),
         \A n \in CallSlots : e.item # <<"call", n>>
  PROVE  CallsKept(func, Append(evs, e))
BY KeptElsewhere DEF CallsKept

\* What the translator knows of the calls is what their entries add up to.
KnowsCall(ds, f, n) ==
    /\ f.id <=> \E j \in DOMAIN ds : ds[j].slot = n /\ ds[j].id
    /\ \A j \in DOMAIN ds : ds[j].slot = n /\ ds[j].name # "" => ds[j].name = f.name
    /\ f.name # "" => \E j \in DOMAIN ds : ds[j].slot = n /\ ds[j].name = f.name
    /\ f.args = ArgumentsSaid(ds, n)
    /\ f.added <=> f.id /\ f.name # ""
    /\ f.args # <<>> => f.added

Knows(ds, func) == \A n \in CallSlots : KnowsCall(ds, func[n], n)

\* The client has the arguments of each call that is closed.
AllTold(func, evs) ==
    \A n \in CallSlots : func[n].done =>
        \E k \in Places(evs, "close") :
            /\ evs[k].item = <<"call", n>>
            /\ evs[k].text = FinalText(func[n].name, func[n].args)

LEMMA ToldStays ==
  ASSUME NEW func, NEW evs \in Seq(Event), NEW e \in Event, AllTold(func, evs)
  PROVE  AllTold(func, Append(evs, e))
<1> DEFINE c == Append(evs, e)
           n == Len(evs)
<1>1. /\ n \in Nat /\ (\A i \in 1..n : c[i] = evs[i]) /\ c[n + 1] = e
      /\ \A t : Places(evs, t) \subseteq 1..n
      /\ \A t : t # e.type => Places(c, t) = Places(evs, t)
      /\ Places(c, e.type) = Places(evs, e.type) \cup {n + 1}
  BY PlacesAppend
<1> HIDE DEF c, n
<1>2. \A k \in Places(evs, "close") : k \in Places(c, "close") /\ c[k] = evs[k]
  BY <1>1
<1> QED
  BY <1>2, ZenonT(60) DEF AllTold, c

\* What the client has fits the translator's state; said and thought are all
\* that was said and thought.  If no call may follow its close, the client has
\* its arguments in full.
Records(said, thought, last, s, evs) ==
    /\ Repeats(evs)
    /\ MessagesKept(s.msg, evs) /\ ReasoningKept(s.reasoning, evs) /\ CallsKept(s.func, evs)
    /\ DeltasOf(evs, "message") = said /\ DeltasOf(evs, "reasoning") = thought
    /\ last => AllTold(s.func, evs)

Tells(said, thought, ds, last, pre, w) ==
    /\ Good(pre, w)
    /\ Records(said, thought, last, w.st, pre \o w.out)
    /\ Knows(ds, w.st.func)
    /\ w.st.thinking => w.st.reasoning.at # <<>>

Event3(type, item, text) == [type |-> type, item |-> item, text |-> text]

LEMMA EventIs ==
  ASSUME NEW type \in EventTypes, NEW item \in Items, NEW text \in Text
  PROVE  /\ Event3(type, item, text) \in Event
         /\ Event3(type, item, text).type = type /\ Event3(type, item, text).item = item
         /\ Event3(type, item, text).text = text
BY DEF Event3, Event

\* v is u with one event more.
After(pre, u, e, v) ==
    pre \o u.out \in Seq(Event) /\ pre \o v.out = Append(pre \o u.out, e) /\ v.st = u.st

LEMMA EmitAfter ==
  ASSUME NEW pre \in Seq(Event), NEW u \in Work, NEW type \in EventTypes, NEW item \in Items, NEW text \in Text
  PROVE  After(pre, u, Event3(type, item, text), Emit(u, type, item, text))
<1>1. /\ Emit(u, type, item, text) \in Work /\ Emit(u, type, item, text).st = u.st
      /\ [type |-> type, item |-> item, text |-> text] \in Event
      /\ pre \o Emit(u, type, item, text).out = Append(pre \o u.out, [type |-> type, item |-> item, text |-> text])
      /\ pre \o u.out \in Seq(Event)
  BY EmitIs
<1> QED
  BY <1>1 DEF Event3, After

\* Items of different kinds are different.
LEMMA ItemsDiffer ==
  /\ \A c, d : <<"reasoning", c>> # <<"message", d>> /\ <<"reasoning", c>> # <<"call", d>>
               /\ <<"message", c>> # <<"call", d>>
  /\ \A c, d : (<<"reasoning", c>> = <<"reasoning", d>> => c = d) /\ (<<"message", c>> = <<"message", d>> => c = d)
               /\ (<<"call", c>> = <<"call", d>> => c = d)
  /\ \A c : <<"reasoning", c>>[1] = "reasoning" /\ <<"message", c>>[1] = "message" /\ <<"call", c>>[1] = "call"
OBVIOUS

\* An event of the reasoning concerns nothing else.
LEMMA ThoughtRecords ==
  ASSUME NEW said, NEW thought, NEW last, NEW s, NEW t, NEW evs \in Seq(Event), NEW e \in Event,
         Records(said, thought, last, s, evs), NEW c \in ChoiceIds, e.item = <<"reasoning", c>>,
         t.msg = s.msg, t.func = s.func, ReasoningKept(t.reasoning, Append(evs, e)),
         e.type = "close" => Restates(evs, e)
  PROVE  /\ e.type = "delta" => Records(said, thought \o e.text, last, t, Append(evs, e))
         /\ e.type # "delta" => Records(said, thought, last, t, Append(evs, e))
<1> DEFINE a == Append(evs, e)
<1>1. Repeats(a)
  BY RepeatsNext DEF Records
<1>2. MessagesKept(s.msg, a)
  BY ItemsDiffer, MessagesStay DEF Records
<1>3. CallsKept(s.func, a)
  BY ItemsDiffer, CallsStay DEF Records
<1>4. last => AllTold(s.func, a)
  BY ToldStays DEF Records
<1>5. e.item[1] = "reasoning" /\ "reasoning" # "message"
  BY ItemsDiffer
<1>6. DeltasOf(a, "message") = said
  BY <1>5, DeltasNext DEF Records
<1>7. /\ e.type = "delta" => DeltasOf(a, "reasoning") = thought \o e.text
      /\ e.type # "delta" => DeltasOf(a, "reasoning") = thought
  BY <1>5, DeltasNext DEF Records
<1> HIDE DEF a
<1> QED
  BY <1>1, <1>2, <1>3, <1>4, <1>6, <1>7 DEF Records, a

LEMMA StartReasoningTells ==
  ASSUME NEW said, NEW thought, NEW ds, NEW last, NEW pre \in Seq(Event), NEW w,
         Tells(said, thought, ds, last, pre, w), NEW c \in ChoiceIds
  PROVE  /\ Tells(said, thought, ds, last, pre, startReasoning(w, c))
         /\ startReasoning(w, c).st.reasoning.at # <<>>
         /\ startReasoning(w, c).st.thinking = w.st.thinking /\ startReasoning(w, c).st.func = w.st.func
<1>1. CASE w.st.reasoning.at # <<>>
  BY <1>1 DEF startReasoning
<1>2. CASE w.st.reasoning.at = <<>>
  <2> DEFINE r == [w.st.reasoning EXCEPT !.at = <<c>>]
             u == WithReasoning(w, r)
             v == startReasoning(w, c)
             evs == pre \o w.out
             e == Event3("open", <<"reasoning", c>>, <<>>)
  <2>1. w \in Work /\ w.st.reasoning \in ReasoningState
    BY WorkIs DEF Tells, Good
  <2>2. r \in ReasoningState /\ r.at = <<c>> /\ r.buf = w.st.reasoning.buf
    BY <2>1 DEF ReasoningState
  <2>3. v = Emit(u, "open", <<"reasoning", c>>, <<>>)
    BY <1>2 DEF startReasoning, WithReasoning
  <2> HIDE DEF r
  <2>4. u \in Work /\ u.out = w.out /\ u.st.reasoning = r /\ u.st.msg = w.st.msg /\ u.st.func = w.st.func
        /\ u.st.completed = w.st.completed /\ u.st.thinking = w.st.thinking
    BY <2>1, <2>2, WithReasoningIs
  <2> HIDE DEF u, v
  <2>5. "open" \in EventTypes /\ <<"reasoning", c>> \in Items /\ <<>> \in Text
    BY ItemsAre DEF EventTypes
  <2>6. /\ evs \in Seq(Event) /\ e \in Event /\ e.type = "open" /\ e.item = <<"reasoning", c>> /\ e.text = <<>>
        /\ pre \o v.out = Append(evs, e) /\ v.st = u.st
    <3>1. /\ Event3("open", <<"reasoning", c>>, <<>>) \in Event
          /\ Event3("open", <<"reasoning", c>>, <<>>).type = "open"
          /\ Event3("open", <<"reasoning", c>>, <<>>).item = <<"reasoning", c>>
          /\ Event3("open", <<"reasoning", c>>, <<>>).text = <<>>
      BY <2>5, EventIs
    <3>2. After(pre, u, Event3("open", <<"reasoning", c>>, <<>>), Emit(u, "open", <<"reasoning", c>>, <<>>))
      BY <2>4, <2>5, EmitAfter
    <3> QED
      BY <2>3, <2>4, <3>1, <3>2 DEF After
  <2> HIDE DEF evs, e
  <2>7. Records(said, thought, last, w.st, evs) /\ Good(pre, w)
    BY DEF Tells, evs
  <2>8. ReasoningKept(w.st.reasoning, evs) /\ w.st.reasoning.buf = <<>> /\ \A d \in ChoiceIds : <<d>> # <<>>
    BY <1>2, <2>7 DEF Records, ReasoningKept
  <2>9. \A d \in ChoiceIds : Kept(evs, <<"reasoning", d>>, FALSE, <<>>)
    BY <1>2, <2>8 DEF ReasoningKept
  <2>10. Kept(Append(evs, e), <<"reasoning", c>>, TRUE, <<>>)
    BY <2>6, <2>9, KeptStarts
  <2>11. \A d \in ChoiceIds : d # c => Kept(Append(evs, e), <<"reasoning", d>>, FALSE, <<>>)
    BY <2>6, <2>9, KeptElsewhere, ItemsDiffer
  <2>12. ReasoningKept(r, Append(evs, e))
    <3>1. \A d : <<c>> = <<d>> => c = d
      OBVIOUS
    <3>2. r.at # <<>> /\ \A d \in ChoiceIds : (r.at = <<d>> => d = c) /\ (r.at # <<d>> => d # c)
      BY <2>2, <2>8, <3>1
    <3> QED
      BY <2>2, <2>8, <2>10, <2>11, <3>2 DEF ReasoningKept
  <2>13. Records(said, thought, last, v.st, pre \o v.out)
    BY <2>4, <2>6, <2>7, <2>12, ThoughtRecords
  <2>14. Good(pre, v)
    BY <2>7, StartReasoningKeeps DEF v
  <2>15. Knows(ds, v.st.func) /\ v.st.reasoning.at # <<>> /\ v.st.thinking = w.st.thinking /\ v.st.func = w.st.func
    BY <2>2, <2>4, <2>6, <2>8 DEF Tells
  <2> QED
    BY <2>13, <2>14, <2>15 DEF Tells, v
<1> QED
  BY <1>1, <1>2

LEMMA ReasoningDeltaTells ==
  ASSUME NEW said, NEW thought \in Text, NEW ds, NEW last, NEW pre \in Seq(Event), NEW w,
         Tells(said, thought, ds, last, pre, w), NEW text \in Text,
         text # <<>> => w.st.reasoning.at # <<>>
  PROVE  /\ Tells(said, thought \o text, ds, last, pre, emitReasoningDelta(w, text))
         /\ emitReasoningDelta(w, text).st.reasoning.at = w.st.reasoning.at
         /\ emitReasoningDelta(w, text).st.thinking = w.st.thinking
         /\ emitReasoningDelta(w, text).st.func = w.st.func
<1>1. CASE text = <<>>
  <2>1. thought \o <<>> = thought
    BY DEF Text
  <2>2. emitReasoningDelta(w, text) = w
    BY <1>1 DEF emitReasoningDelta
  <2> QED
    BY <1>1, <2>1, <2>2
<1>2. CASE text # <<>>
  <2> DEFINE r == [w.st.reasoning EXCEPT !.buf = @ \o text]
             u == WithReasoning(w, r)
             v == emitReasoningDelta(w, text)
             evs == pre \o w.out
  <2>1. w \in Work /\ w.st.reasoning \in ReasoningState /\ Good(pre, w)
    BY WorkIs DEF Tells, Good
  <2>2. PICK c \in ChoiceIds : w.st.reasoning.at = <<c>> /\ ReasoningItem(w) = <<"reasoning", c>>
    BY <1>2, <2>1, ReasoningItemIs
  <2> DEFINE e == Event3("delta", <<"reasoning", c>>, text)
  <2>3. w.st.reasoning.buf \in Text /\ w.st.reasoning.buf \o text \in Text
    BY <2>1, TextJoins DEF ReasoningState
  <2>4. /\ r \in ReasoningState /\ r.at = <<c>> /\ r.done = w.st.reasoning.done
        /\ r.buf = w.st.reasoning.buf \o text
    BY <2>1, <2>2, <2>3 DEF ReasoningState
  <2>5. v = Emit(u, "delta", <<"reasoning", c>>, text)
    BY <1>2, <2>2 DEF emitReasoningDelta, WithReasoning
  <2> HIDE DEF r
  <2>6. u \in Work /\ u.out = w.out /\ u.st.reasoning = r /\ u.st.msg = w.st.msg /\ u.st.func = w.st.func
        /\ u.st.completed = w.st.completed /\ u.st.thinking = w.st.thinking
    BY <2>1, <2>4, WithReasoningIs
  <2> HIDE DEF u, v
  <2>7. "delta" \in EventTypes /\ <<"reasoning", c>> \in Items
    BY ItemsAre DEF EventTypes
  <2>8. e \in Event /\ e.type = "delta" /\ e.item = <<"reasoning", c>> /\ e.text = text
    BY <2>7, EventIs
  <2>9. After(pre, u, Event3("delta", <<"reasoning", c>>, text), Emit(u, "delta", <<"reasoning", c>>, text))
    BY <2>6, <2>7, EmitAfter
  <2>10. evs \in Seq(Event) /\ pre \o v.out = Append(evs, e) /\ v.st = u.st
    BY <2>5, <2>6, <2>9 DEF After
  <2> HIDE DEF evs, e
  <2>11. Records(said, thought, last, w.st, evs)
    BY DEF Tells, evs
  <2>12. ReasoningKept(w.st.reasoning, evs)
    BY <2>11 DEF Records
  <2>13. r.done \/ Kept(Append(evs, e), <<"reasoning", c>>, TRUE, r.buf)
    <3>1. CASE w.st.reasoning.done
      BY <2>4, <3>1
    <3>2. CASE ~w.st.reasoning.done
      <4>1. Kept(evs, e.item, TRUE, w.st.reasoning.buf)
        BY <2>2, <2>8, <2>12, <3>2 DEF ReasoningKept
      <4>2. Kept(Append(evs, e), e.item, TRUE, w.st.reasoning.buf \o e.text)
        BY <2>8, <2>10, <4>1, KeptSays
      <4> QED
        BY <2>4, <2>8, <4>2
    <3> QED
      BY <3>1, <3>2
  <2>14. ReasoningKept(r, Append(evs, e))
    <3>1. \A d : <<c>> = <<d>> => c = d
      OBVIOUS
    <3>2. r.at # <<>> /\ \A d \in ChoiceIds : (r.at = <<d>> => d = c) /\ (r.at # <<d>> => d # c)
      BY <2>4, <3>1
    <3>3. \A d \in ChoiceIds : r.at # <<d>> => Kept(evs, <<"reasoning", d>>, FALSE, <<>>)
      BY <2>2, <2>4, <2>12 DEF ReasoningKept
    <3>4. \A d \in ChoiceIds : r.at # <<d>> => Kept(Append(evs, e), <<"reasoning", d>>, FALSE, <<>>)
      BY <2>8, <2>10, <3>2, <3>3, KeptElsewhere, ItemsDiffer
    <3> QED
      BY <2>4, <2>13, <3>2, <3>4 DEF ReasoningKept
  <2>15. Records(said, thought \o text, last, v.st, pre \o v.out)
    BY <2>6, <2>8, <2>10, <2>11, <2>14, ThoughtRecords
  <2>16. Good(pre, v)
    BY <2>1, ReasoningDeltaKeeps DEF v
  <2>17. Knows(ds, v.st.func) /\ v.st.reasoning.at = w.st.reasoning.at /\ v.st.thinking = w.st.thinking
         /\ v.st.func = w.st.func /\ (v.st.thinking => v.st.reasoning.at # <<>>)
    BY <2>2, <2>4, <2>6, <2>10 DEF Tells
  <2> QED
    BY <2>15, <2>16, <2>17 DEF Tells, v
<1> QED
  BY <1>1, <1>2

LEMMA CloseReasoningTells ==
  ASSUME NEW said, NEW thought, NEW ds, NEW last, NEW pre \in Seq(Event), NEW w,
         Tells(said, thought, ds, last, pre, w)
  PROVE  /\ Tells(said, thought, ds, last, pre, closeReasoning(w))
         /\ closeReasoning(w).st.func = w.st.func /\ closeReasoning(w).st.completed = w.st.completed
         /\ closeReasoning(w).st.thinking = w.st.thinking
<1>1. CASE w.st.reasoning.at = <<>> \/ w.st.reasoning.done
  BY <1>1 DEF closeReasoning
<1>2. CASE w.st.reasoning.at # <<>> /\ ~w.st.reasoning.done
  <2> DEFINE r == [w.st.reasoning EXCEPT !.done = TRUE]
             u == WithReasoning(w, r)
             v == closeReasoning(w)
             evs == pre \o w.out
             text == w.st.reasoning.buf
  <2>1. w \in Work /\ w.st.reasoning \in ReasoningState /\ Good(pre, w)
    BY WorkIs DEF Tells, Good
  <2>2. PICK c \in ChoiceIds : w.st.reasoning.at = <<c>> /\ ReasoningItem(w) = <<"reasoning", c>>
    BY <1>2, <2>1, ReasoningItemIs
  <2> DEFINE e == Event3("close", <<"reasoning", c>>, text)
  <2>3. text \in Text
    BY <2>1 DEF ReasoningState
  <2>4. r \in ReasoningState /\ r.at = <<c>> /\ r.done
    BY <2>1, <2>2 DEF ReasoningState
  <2>5. v = Emit(u, "close", <<"reasoning", c>>, text)
    BY <1>2, <2>2 DEF closeReasoning, WithReasoning
  <2> HIDE DEF r
  <2>6. u \in Work /\ u.out = w.out /\ u.st.reasoning = r /\ u.st.msg = w.st.msg /\ u.st.func = w.st.func
        /\ u.st.completed = w.st.completed /\ u.st.thinking = w.st.thinking
    BY <2>1, <2>4, WithReasoningIs
  <2> HIDE DEF u, v
  <2>7. "close" \in EventTypes /\ <<"reasoning", c>> \in Items
    BY ItemsAre DEF EventTypes
  <2>8. e \in Event /\ e.type = "close" /\ e.item = <<"reasoning", c>> /\ e.text = text
    <3> HIDE DEF text
    <3> QED
      BY <2>3, <2>7, EventIs
  <2>9. After(pre, u, Event3("close", <<"reasoning", c>>, text), Emit(u, "close", <<"reasoning", c>>, text))
    <3> HIDE DEF text
    <3> QED
      BY <2>3, <2>6, <2>7, EmitAfter
  <2>10. evs \in Seq(Event) /\ pre \o v.out = Append(evs, e) /\ v.st = u.st
    BY <2>5, <2>6, <2>9 DEF After
  <2> HIDE DEF evs, e
  <2>11. Records(said, thought, last, w.st, evs)
    BY DEF Tells, evs
  <2>12. ReasoningKept(w.st.reasoning, evs)
    BY <2>11 DEF Records
  <2>13. Kept(evs, e.item, TRUE, text)
    BY <1>2, <2>2, <2>8, <2>12 DEF ReasoningKept
  <2>14. Restates(evs, e)
    <3>1. e.item[1] = "reasoning" /\ "reasoning" # "call" /\ TRUE \in BOOLEAN
      BY <2>8, ItemsDiffer
    <3> HIDE DEF text
    <3> QED
      BY <2>8, <2>13, <3>1, KeptRestates
  <2>15. ReasoningKept(r, Append(evs, e))
    <3>1. \A d : <<c>> = <<d>> => c = d
      OBVIOUS
    <3>2. r.at # <<>> /\ \A d \in ChoiceIds : (r.at = <<d>> => d = c) /\ (r.at # <<d>> => d # c)
      BY <2>4, <3>1
    <3>3. \A d \in ChoiceIds : r.at # <<d>> => Kept(evs, <<"reasoning", d>>, FALSE, <<>>)
      BY <2>2, <2>4, <2>12 DEF ReasoningKept
    <3>4. \A d \in ChoiceIds : r.at # <<d>> => Kept(Append(evs, e), <<"reasoning", d>>, FALSE, <<>>)
      BY <2>8, <2>10, <3>2, <3>3, KeptElsewhere, ItemsDiffer
    <3> QED
      BY <2>4, <3>2, <3>4 DEF ReasoningKept
  <2>16. Records(said, thought, last, v.st, pre \o v.out)
    BY <2>6, <2>8, <2>10, <2>11, <2>14, <2>15, ThoughtRecords
  <2>17. Good(pre, v)
    BY <2>1, CloseReasoningKeeps DEF v
  <2>18. Knows(ds, v.st.func) /\ v.st.thinking = w.st.thinking
         /\ v.st.func = w.st.func /\ v.st.completed = w.st.completed /\ (v.st.thinking => v.st.reasoning.at # <<>>)
    BY <2>2, <2>4, <2>6, <2>10 DEF Tells
  <2> QED
    BY <2>16, <2>17, <2>18 DEF Tells, v
<1> QED
  BY <1>1, <1>2

\* An event of a message concerns nothing else.
LEMMA MessageRecords ==
  ASSUME NEW said, NEW thought, NEW last, NEW s, NEW t, NEW evs \in Seq(Event), NEW e \in Event,
         Records(said, thought, last, s, evs), NEW c \in ChoiceIds, e.item = <<"message", c>>,
         t.reasoning = s.reasoning, t.func = s.func, MessagesKept(t.msg, Append(evs, e)),
         e.type = "close" => Restates(evs, e)
  PROVE  /\ e.type = "delta" => Records(said \o e.text, thought, last, t, Append(evs, e))
         /\ e.type # "delta" => Records(said, thought, last, t, Append(evs, e))
<1> DEFINE a == Append(evs, e)
<1>1. Repeats(a)
  BY RepeatsNext DEF Records
<1>2. ReasoningKept(s.reasoning, a)
  BY ItemsDiffer, ReasoningStays DEF Records
<1>3. CallsKept(s.func, a)
  BY ItemsDiffer, CallsStay DEF Records
<1>4. last => AllTold(s.func, a)
  BY ToldStays DEF Records
<1>5. e.item[1] = "message" /\ "reasoning" # "message"
  BY ItemsDiffer
<1>6. DeltasOf(a, "reasoning") = thought
  BY <1>5, DeltasNext DEF Records
<1>7. /\ e.type = "delta" => DeltasOf(a, "message") = said \o e.text
      /\ e.type # "delta" => DeltasOf(a, "message") = said
  BY <1>5, DeltasNext DEF Records
<1> HIDE DEF a
<1> QED
  BY <1>1, <1>2, <1>3, <1>4, <1>6, <1>7 DEF Records, a

\* The events of a message, for what the message is afterwards.
LEMMA MessagesNext ==
  ASSUME NEW msg, NEW next, NEW evs \in Seq(Event), NEW e \in Event, MessagesKept(msg, evs),
         NEW c \in ChoiceIds, e.item = <<"message", c>>, \A d \in ChoiceIds : d # c => next[d] = msg[d],
         next[c].done \/ Kept(Append(evs, e), <<"message", c>>, next[c].added, next[c].buf)
  PROVE  MessagesKept(next, Append(evs, e))
<1>1. \A d \in ChoiceIds : d # c => msg[d].done \/ Kept(Append(evs, e), <<"message", d>>, msg[d].added, msg[d].buf)
  BY KeptElsewhere, ItemsDiffer DEF MessagesKept
<1>2. \A d \in ChoiceIds : d # c => next[d].done \/ Kept(Append(evs, e), <<"message", d>>, next[d].added, next[d].buf)
  BY <1>1
<1> QED
  BY <1>2 DEF MessagesKept

LEMMA OpenMessageTells ==
  ASSUME NEW said, NEW thought, NEW ds, NEW last, NEW pre \in Seq(Event), NEW w,
         Tells(said, thought, ds, last, pre, w), NEW c \in ChoiceIds
  PROVE  /\ Tells(said, thought, ds, last, pre, OpenMessage(w, c))
         /\ OpenMessage(w, c).st.msg[c].added
         /\ OpenMessage(w, c).st.thinking = w.st.thinking /\ OpenMessage(w, c).st.func = w.st.func
<1>1. CASE w.st.msg[c].added
  BY <1>1 DEF OpenMessage
<1>2. CASE ~w.st.msg[c].added
  <2> DEFINE m == [w.st.msg[c] EXCEPT !.added = TRUE]
             u == WithMessage(w, c, m)
             v == OpenMessage(w, c)
             evs == pre \o w.out
             e == Event3("open", <<"message", c>>, <<>>)
  <2>1. w \in Work /\ w.st.msg[c] \in MessageState /\ Sound(w.st) /\ Good(pre, w)
        /\ w.st.msg \in [ChoiceIds -> MessageState]
    BY WorkIs DEF Tells, Good
  <2>2. m \in MessageState /\ m.added = TRUE /\ m.done = w.st.msg[c].done /\ m.buf = w.st.msg[c].buf
    BY <2>1 DEF MessageState
  <2>3. v = Emit(u, "open", <<"message", c>>, <<>>)
    BY <1>2 DEF OpenMessage, WithMessage
  <2> HIDE DEF m
  <2>4. u \in Work /\ u.out = w.out /\ u.st.msg = [w.st.msg EXCEPT ![c] = m] /\ u.st.reasoning = w.st.reasoning
        /\ u.st.func = w.st.func /\ u.st.completed = w.st.completed /\ u.st.thinking = w.st.thinking
    BY <2>1, <2>2, WithMessageIs
  <2> HIDE DEF u, v
  <2>5. u.st.msg[c] = m /\ \A d \in ChoiceIds : d # c => u.st.msg[d] = w.st.msg[d]
    BY <2>1, <2>4
  <2>6. "open" \in EventTypes /\ <<"message", c>> \in Items /\ <<>> \in Text
    BY ItemsAre DEF EventTypes
  <2>7. e \in Event /\ e.type = "open" /\ e.item = <<"message", c>> /\ e.text = <<>>
    BY <2>6, EventIs
  <2>8. After(pre, u, Event3("open", <<"message", c>>, <<>>), Emit(u, "open", <<"message", c>>, <<>>))
    BY <2>4, <2>6, EmitAfter
  <2>9. evs \in Seq(Event) /\ pre \o v.out = Append(evs, e) /\ v.st = u.st
    BY <2>3, <2>4, <2>8 DEF After
  <2> HIDE DEF evs, e
  <2>10. Records(said, thought, last, w.st, evs)
    BY DEF Tells, evs
  <2>11. MessagesKept(w.st.msg, evs)
    BY <2>10 DEF Records
  <2>12. Kept(evs, e.item, FALSE, w.st.msg[c].buf)
    BY <1>2, <2>1, <2>7, <2>11 DEF MessagesKept, Sound, MessageState
  <2>13. Kept(Append(evs, e), <<"message", c>>, m.added, m.buf)
    BY <2>2, <2>7, <2>9, <2>12, KeptStarts
  <2>14. MessagesKept(u.st.msg, Append(evs, e))
    <3>1. u.st.msg[c].done \/ Kept(Append(evs, e), <<"message", c>>, u.st.msg[c].added, u.st.msg[c].buf)
      BY <2>5, <2>13
    <3> QED
      BY <2>5, <2>7, <2>9, <2>11, <3>1, MessagesNext
  <2>15. Records(said, thought, last, v.st, pre \o v.out)
    BY <2>4, <2>7, <2>9, <2>10, <2>14, MessageRecords
  <2>16. Good(pre, v)
    BY <2>1, OpenMessageKeeps DEF v
  <2>17. Knows(ds, v.st.func) /\ v.st.reasoning = w.st.reasoning /\ v.st.thinking = w.st.thinking
         /\ v.st.func = w.st.func /\ (v.st.thinking => v.st.reasoning.at # <<>>) /\ v.st.msg[c].added
    BY <2>2, <2>4, <2>5, <2>9 DEF Tells
  <2> QED
    BY <2>15, <2>16, <2>17 DEF Tells, v
<1> QED
  BY <1>1, <1>2

LEMMA TextTells ==
  ASSUME NEW said, NEW thought, NEW ds, NEW last, NEW pre \in Seq(Event), NEW w,
         Tells(said, thought, ds, last, pre, w), NEW c \in ChoiceIds, NEW text \in Text
  PROVE  /\ Tells(said \o text, thought, ds, last, pre, emitTextContent(w, c, text))
         /\ emitTextContent(w, c, text).st.thinking = w.st.thinking
         /\ emitTextContent(w, c, text).st.func = w.st.func
<1> DEFINE o == OpenMessage(w, c)
           m == [o.st.msg[c] EXCEPT !.buf = @ \o text]
           u == WithMessage(o, c, m)
           v == emitTextContent(w, c, text)
           evs == pre \o o.out
           e == Event3("delta", <<"message", c>>, text)
<1>0. v = Emit(u, "delta", <<"message", c>>, text)
  BY DEF emitTextContent, OpenMessage, WithMessage
<1>1. /\ Tells(said, thought, ds, last, pre, o) /\ o.st.msg[c].added
      /\ o.st.thinking = w.st.thinking /\ o.st.func = w.st.func
  BY OpenMessageTells
<1> HIDE DEF o, v
<1>2. o \in Work /\ o.st.msg[c] \in MessageState /\ o.st.msg \in [ChoiceIds -> MessageState]
  BY <1>1, WorkIs DEF Tells, Good
<1>3. o.st.msg[c].buf \in Text /\ o.st.msg[c].buf \o text \in Text
  BY <1>2, TextJoins DEF MessageState
<1>4. m \in MessageState /\ m.added = o.st.msg[c].added /\ m.done = o.st.msg[c].done /\ m.buf = o.st.msg[c].buf \o text
  BY <1>2, <1>3 DEF MessageState
<1> HIDE DEF m
<1>5. u \in Work /\ u.out = o.out /\ u.st.msg = [o.st.msg EXCEPT ![c] = m] /\ u.st.reasoning = o.st.reasoning
      /\ u.st.func = o.st.func /\ u.st.completed = o.st.completed /\ u.st.thinking = o.st.thinking
  BY <1>2, <1>4, WithMessageIs
<1> HIDE DEF u
<1>6. u.st.msg[c] = m /\ \A d \in ChoiceIds : d # c => u.st.msg[d] = o.st.msg[d]
  BY <1>2, <1>5
<1>7. "delta" \in EventTypes /\ <<"message", c>> \in Items
  BY ItemsAre DEF EventTypes
<1>8. e \in Event /\ e.type = "delta" /\ e.item = <<"message", c>> /\ e.text = text
  BY <1>7, EventIs
<1>9. After(pre, u, Event3("delta", <<"message", c>>, text), Emit(u, "delta", <<"message", c>>, text))
  BY <1>5, <1>7, EmitAfter
<1>10. evs \in Seq(Event) /\ pre \o v.out = Append(evs, e) /\ v.st = u.st
  BY <1>0, <1>5, <1>9 DEF After
<1> HIDE DEF evs, e
<1>11. Records(said, thought, last, o.st, evs)
  BY <1>1 DEF Tells, evs
<1>12. MessagesKept(o.st.msg, evs)
  BY <1>11 DEF Records
<1>13. m.done \/ Kept(Append(evs, e), <<"message", c>>, m.added, m.buf)
  <2>1. CASE o.st.msg[c].done
    BY <1>4, <2>1
  <2>2. CASE ~o.st.msg[c].done
    <3>1. o.st.msg[c].added = TRUE
      BY <1>1, <1>2 DEF MessageState
    <3>2. Kept(evs, e.item, TRUE, o.st.msg[c].buf)
      BY <1>8, <1>12, <2>2, <3>1 DEF MessagesKept
    <3>3. Kept(Append(evs, e), e.item, TRUE, o.st.msg[c].buf \o e.text)
      BY <1>8, <1>10, <3>2, KeptSays
    <3> QED
      BY <1>4, <1>8, <3>1, <3>3
  <2> QED
    BY <2>1, <2>2
<1>14. MessagesKept(u.st.msg, Append(evs, e))
  <2>1. u.st.msg[c].done \/ Kept(Append(evs, e), <<"message", c>>, u.st.msg[c].added, u.st.msg[c].buf)
    BY <1>6, <1>13
  <2>2. \A d \in ChoiceIds : d # c => u.st.msg[d] = o.st.msg[d]
    BY <1>6
  <2> QED
    BY <1>8, <1>10, <1>12, <2>1, <2>2, MessagesNext
<1>15. Records(said \o text, thought, last, v.st, pre \o v.out)
  BY <1>5, <1>8, <1>10, <1>11, <1>14, MessageRecords, SMTT(30)
<1>16. Good(pre, w)
  BY DEF Tells
<1>17. Good(pre, v)
  BY <1>16, TextKeeps DEF v
<1>18. Knows(ds, v.st.func) /\ v.st.thinking = w.st.thinking /\ v.st.func = w.st.func
       /\ (v.st.thinking => v.st.reasoning.at # <<>>)
  BY <1>1, <1>5, <1>10 DEF Tells
<1> QED
  BY <1>15, <1>17, <1>18 DEF Tells, v

LEMMA CloseMessageTells ==
  ASSUME NEW said, NEW thought, NEW ds, NEW last, NEW pre \in Seq(Event), NEW w,
         Tells(said, thought, ds, last, pre, w), NEW c \in ChoiceIds
  PROVE  /\ Tells(said, thought, ds, last, pre, closeMessage(w, c))
         /\ closeMessage(w, c).st.thinking = w.st.thinking /\ closeMessage(w, c).st.func = w.st.func
         /\ closeMessage(w, c).st.completed = w.st.completed
<1>1. CASE ~w.st.msg[c].added \/ w.st.msg[c].done
  BY <1>1 DEF closeMessage
<1>2. CASE w.st.msg[c].added /\ ~w.st.msg[c].done
  <2> DEFINE m == [w.st.msg[c] EXCEPT !.done = TRUE]
             u == WithMessage(w, c, m)
             v == closeMessage(w, c)
             evs == pre \o w.out
             text == w.st.msg[c].buf
             e == Event3("close", <<"message", c>>, text)
  <2>1. w \in Work /\ w.st.msg[c] \in MessageState /\ Good(pre, w)
        /\ w.st.msg \in [ChoiceIds -> MessageState]
    BY WorkIs DEF Tells, Good
  <2>2. m \in MessageState /\ m.done /\ text \in Text /\ w.st.msg[c].added = TRUE
    BY <1>2, <2>1 DEF MessageState
  <2>3. v = Emit(u, "close", <<"message", c>>, text)
    BY <1>2 DEF closeMessage, WithMessage
  <2> HIDE DEF m
  <2>4. u \in Work /\ u.out = w.out /\ u.st.msg = [w.st.msg EXCEPT ![c] = m] /\ u.st.reasoning = w.st.reasoning
        /\ u.st.func = w.st.func /\ u.st.completed = w.st.completed /\ u.st.thinking = w.st.thinking
    BY <2>1, <2>2, WithMessageIs
  <2> HIDE DEF u, v
  <2>5. u.st.msg[c] = m /\ \A d \in ChoiceIds : d # c => u.st.msg[d] = w.st.msg[d]
    BY <2>1, <2>4
  <2>6. "close" \in EventTypes /\ <<"message", c>> \in Items
    BY ItemsAre DEF EventTypes
  <2>7. e \in Event /\ e.type = "close" /\ e.item = <<"message", c>> /\ e.text = text
    <3> HIDE DEF text
    <3> QED
      BY <2>2, <2>6, EventIs
  <2>8. After(pre, u, Event3("close", <<"message", c>>, text), Emit(u, "close", <<"message", c>>, text))
    <3> HIDE DEF text
    <3> QED
      BY <2>2, <2>4, <2>6, EmitAfter
  <2>9. evs \in Seq(Event) /\ pre \o v.out = Append(evs, e) /\ v.st = u.st
    BY <2>3, <2>4, <2>8 DEF After
  <2> HIDE DEF evs, e
  <2>10. Records(said, thought, last, w.st, evs)
    BY DEF Tells, evs
  <2>11. MessagesKept(w.st.msg, evs)
    BY <2>10 DEF Records
  <2>12. Kept(evs, e.item, TRUE, text)
    BY <1>2, <2>2, <2>7, <2>11 DEF MessagesKept
  <2>13. Restates(evs, e)
    <3>1. e.item[1] = "message" /\ "message" # "call" /\ TRUE \in BOOLEAN
      BY <2>7, ItemsDiffer
    <3> HIDE DEF text
    <3> QED
      BY <2>7, <2>12, <3>1, KeptRestates
  <2>14. MessagesKept(u.st.msg, Append(evs, e))
    BY <2>2, <2>5, <2>7, <2>9, <2>11, MessagesNext, ZenonT(60)
  <2>15. Records(said, thought, last, v.st, pre \o v.out)
    BY <2>4, <2>7, <2>9, <2>10, <2>13, <2>14, MessageRecords
  <2>16. Good(pre, v)
    BY <2>1, CloseMessageKeeps DEF v
  <2>17. Knows(ds, v.st.func) /\ v.st.reasoning = w.st.reasoning /\ v.st.thinking = w.st.thinking
         /\ v.st.func = w.st.func /\ v.st.completed = w.st.completed /\ (v.st.thinking => v.st.reasoning.at # <<>>)
    BY <2>4, <2>9 DEF Tells
  <2> QED
    BY <2>15, <2>16, <2>17 DEF Tells, v
<1> QED
  BY <1>1, <1>2

-----------------------------------------------------------------------------
(* The calls: what their entries add up to. *)

\* One piece more, of texts given place by place.
LEMMA ArgumentsSaidNext ==
  ASSUME NEW ds \in Seq(CallEntry), NEW tc \in CallEntry, NEW n
  PROVE  /\ ArgumentsSaid(ds, n) \in Text
         /\ tc.slot = n => ArgumentsSaid(Append(ds, tc), n) = ArgumentsSaid(ds, n) \o tc.args
         /\ tc.slot # n => ArgumentsSaid(Append(ds, tc), n) = ArgumentsSaid(ds, n)
<1> DEFINE c == Append(ds, tc)
           f == [i \in DOMAIN ds |-> IF ds[i].slot = n THEN ds[i].args ELSE <<>>]
           g == [i \in DOMAIN c |-> IF c[i].slot = n THEN c[i].args ELSE <<>>]
           k == Len(ds)
<1>1. /\ c \in Seq(CallEntry) /\ k \in Nat /\ DOMAIN ds = 1..k /\ DOMAIN c = 1..(k + 1)
      /\ (\A i \in 1..k : c[i] = ds[i] /\ ds[i] \in CallEntry) /\ c[k + 1] = tc
  BY AppendIs
<1>2. \A i \in 1..(k + 1) : i \in 1..k \/ i = k + 1
  BY <1>1
<1>3. k + 1 \in 1..(k + 1) /\ \A i \in 1..k : i \in 1..(k + 1)
  BY <1>1
<1>4. \A x \in CallEntry : x.args \in Text
  BY DEF CallEntry
<1>5. <<>> \in Text
  BY ItemsAre
<1> HIDE DEF c, k
<1>6. f \in [1..k -> Text] /\ g \in [1..(k + 1) -> Text]
  BY <1>1, <1>2, <1>4, <1>5
<1>7. (\A i \in 1..k : g[i] = f[i]) /\ g[k + 1] = IF tc.slot = n THEN tc.args ELSE <<>>
  BY <1>1, <1>3
<1>8. ArgumentsSaid(ds, n) = Texts(f) /\ ArgumentsSaid(c, n) = Texts(g)
  BY DEF ArgumentsSaid
<1> HIDE DEF f, g
<1>9. Texts(f) \in Seq(Fragment) /\ Texts(g) = Texts(f) \o g[k + 1]
  BY <1>1, <1>6, <1>7, TextsOneMore DEF Text
<1>10. Texts(f) \o <<>> = Texts(f)
  BY <1>9
<1> QED
  BY <1>7, <1>8, <1>9, <1>10 DEF Text, c

\* What emitToolCall makes of the call of an entry.
Announced(f, tc) ==
    LET known == [f EXCEPT !.id = @ \/ tc.id, !.name = IF tc.name = "" THEN @ ELSE tc.name, !.args = @ \o tc.args]
    IN [known EXCEPT !.added = @ \/ (known.id /\ known.name # "")]

LEMMA AnnouncedIs ==
  ASSUME NEW f \in CallState, NEW tc \in CallEntry
  PROVE  /\ Announced(f, tc) \in CallState
         /\ Announced(f, tc).id <=> f.id \/ tc.id
         /\ tc.name = "" => Announced(f, tc).name = f.name
         /\ tc.name # "" => Announced(f, tc).name = tc.name
         /\ Announced(f, tc).args = f.args \o tc.args
         /\ Announced(f, tc).done = f.done
         /\ Announced(f, tc).added <=> f.added \/ (Announced(f, tc).id /\ Announced(f, tc).name # "")
<1> DEFINE known == [f EXCEPT !.id = @ \/ tc.id, !.name = IF tc.name = "" THEN @ ELSE tc.name, !.args = @ \o tc.args]
           announced == [known EXCEPT !.added = @ \/ (known.id /\ known.name # "")]
<1>0. Announced(f, tc) = announced
  BY DEF Announced
<1>1. /\ known \in CallState /\ (known.id <=> f.id \/ tc.id) /\ known.args = f.args \o tc.args
      /\ known.name = (IF tc.name = "" THEN f.name ELSE tc.name)
      /\ known.done = f.done /\ known.added = f.added
  <2>1. f.args \o tc.args \in Text
    BY TextJoins DEF CallState, CallEntry
  <2>2. (IF tc.name = "" THEN f.name ELSE tc.name) \in Names
    BY DEF CallState, CallEntry
  <2>3. (f.id \/ tc.id) \in BOOLEAN
    OBVIOUS
  <2> QED
    BY <2>1, <2>2, <2>3 DEF CallState
<1> HIDE DEF known
<1>2. /\ announced \in CallState /\ announced.id = known.id /\ announced.name = known.name
      /\ announced.args = known.args /\ announced.done = known.done
      /\ announced.added = (known.added \/ (known.id /\ known.name # ""))
  BY <1>1 DEF CallState
<1> HIDE DEF announced
<1>3. (announced.id <=> f.id \/ tc.id) /\ announced.args = f.args \o tc.args /\ announced.done = f.done
  BY <1>1, <1>2
<1>4. (tc.name = "" => announced.name = f.name) /\ (tc.name # "" => announced.name = tc.name)
  BY <1>1, <1>2
<1>5. announced.added <=> f.added \/ (announced.id /\ announced.name # "")
  BY <1>1, <1>2
<1> QED
  BY <1>0, <1>2, <1>3, <1>4, <1>5

\* What NamedFirst says of the newest entry.
LEMMA NamedAtLast ==
  ASSUME NEW ds \in Seq(CallEntry), NEW tc \in CallEntry, NamedFirst(Append(ds, tc))
  PROVE  /\ \A j \in DOMAIN ds : ds[j].slot = tc.slot /\ ds[j].name # "" /\ tc.name # "" => ds[j].name = tc.name
         /\ tc.args # <<>> => /\ tc.id \/ \E j \in DOMAIN ds : ds[j].slot = tc.slot /\ ds[j].id
                              /\ tc.name # "" \/ \E j \in DOMAIN ds : ds[j].slot = tc.slot /\ ds[j].name # ""
<1> DEFINE c == Append(ds, tc)
           k == Len(ds)
           earlier == {j \in 1..(k + 1) : c[j].slot = c[k + 1].slot}
           named == {j \in earlier : c[j].name # ""}
<1>1. /\ c \in Seq(CallEntry) /\ k \in Nat /\ DOMAIN ds = 1..k /\ DOMAIN c = 1..(k + 1)
      /\ (\A i \in 1..k : c[i] = ds[i]) /\ c[k + 1] = tc
  BY AppendIs
<1>2. \A i \in 1..(k + 1) : i \in 1..k \/ i = k + 1
  BY <1>1
<1>3. k + 1 \in 1..(k + 1) /\ \A i \in 1..k : i \in 1..(k + 1)
  BY <1>1
<1> HIDE DEF c, k
<1>4. /\ \A i, j \in named : c[i].name = c[j].name
      /\ c[k + 1].args # <<>> => named # {} /\ \E j \in earlier : c[j].id
  BY <1>1, <1>3 DEF NamedFirst, c
<1>5. \A j \in 1..k : ds[j].slot = tc.slot => j \in earlier /\ (ds[j].name # "" => j \in named)
  BY <1>1, <1>3
<1>6. tc.name # "" => k + 1 \in named
  BY <1>1, <1>3
<1>7. \A j \in earlier : j = k + 1 \/ (j \in 1..k /\ ds[j].slot = tc.slot /\ c[j] = ds[j])
  BY <1>1, <1>2
<1>8. named \subseteq earlier /\ \A j \in named : c[j].name # ""
  OBVIOUS
<1> HIDE DEF named, earlier
<1>9. \A j \in 1..k : ds[j].slot = tc.slot /\ ds[j].name # "" /\ tc.name # "" => ds[j].name = tc.name
  BY <1>1, <1>4, <1>5, <1>6
<1>10. tc.args # <<>> => tc.id \/ \E j \in 1..k : ds[j].slot = tc.slot /\ ds[j].id
  BY <1>1, <1>4, <1>7
<1>11. tc.args # <<>> => tc.name # "" \/ \E j \in 1..k : ds[j].slot = tc.slot /\ ds[j].name # ""
  BY <1>1, <1>4, <1>7, <1>8, ZenonT(60)
<1> QED
  BY <1>1, <1>9, <1>10, <1>11

\* An entry of another call.
LEMMA KnowsElsewhere ==
  ASSUME NEW ds \in Seq(CallEntry), NEW tc \in CallEntry, NEW f, NEW n, KnowsCall(ds, f, n), tc.slot # n
  PROVE  KnowsCall(Append(ds, tc), f, n)
<1> DEFINE c == Append(ds, tc)
           k == Len(ds)
<1>1. /\ k \in Nat /\ DOMAIN ds = 1..k /\ DOMAIN c = 1..(k + 1)
      /\ (\A i \in 1..k : c[i] = ds[i]) /\ c[k + 1] = tc
  BY AppendIs
<1>2. \A i \in 1..(k + 1) : i \in 1..k \/ i = k + 1
  BY <1>1
<1>3. \A i \in 1..k : i \in 1..(k + 1)
  BY <1>1
<1>4. ArgumentsSaid(c, n) = ArgumentsSaid(ds, n)
  BY ArgumentsSaidNext
<1> HIDE DEF c, k
<1>5. (\E j \in DOMAIN c : c[j].slot = n /\ c[j].id) <=> (\E j \in DOMAIN ds : ds[j].slot = n /\ ds[j].id)
  BY <1>1, <1>2, <1>3
<1>6. \A j \in DOMAIN c : c[j].slot = n => j \in DOMAIN ds /\ c[j] = ds[j]
  BY <1>1, <1>2
<1>7. \A j \in DOMAIN ds : j \in DOMAIN c /\ c[j] = ds[j]
  BY <1>1, <1>3
<1> QED
  BY <1>4, <1>5, <1>6, <1>7 DEF KnowsCall, c

\* A call keeps its name, and its arguments come after it is announced.
LEMMA KnowsNext ==
  ASSUME NEW ds \in Seq(CallEntry), NEW tc \in CallEntry, NamedFirst(Append(ds, tc)),
         NEW f \in CallState, KnowsCall(ds, f, tc.slot)
  PROVE  /\ KnowsCall(Append(ds, tc), Announced(f, tc), tc.slot)
         /\ f.name # "" => Announced(f, tc).name = f.name
         /\ tc.args # <<>> => Announced(f, tc).added
<1> DEFINE c == Append(ds, tc)
           k == Len(ds)
           g == Announced(f, tc)
           n == tc.slot
<1>1. /\ k \in Nat /\ DOMAIN ds = 1..k /\ DOMAIN c = 1..(k + 1)
      /\ (\A i \in 1..k : c[i] = ds[i]) /\ c[k + 1] = tc
  BY AppendIs
<1>2. \A i \in 1..(k + 1) : i \in 1..k \/ i = k + 1
  BY <1>1
<1>3. k + 1 \in 1..(k + 1) /\ \A i \in 1..k : i \in 1..(k + 1)
  BY <1>1
<1>4. ArgumentsSaid(c, n) = ArgumentsSaid(ds, n) \o tc.args
  BY ArgumentsSaidNext
<1>5. /\ \A j \in DOMAIN ds : ds[j].slot = n /\ ds[j].name # "" /\ tc.name # "" => ds[j].name = tc.name
      /\ tc.args # <<>> => /\ tc.id \/ \E j \in DOMAIN ds : ds[j].slot = n /\ ds[j].id
                           /\ tc.name # "" \/ \E j \in DOMAIN ds : ds[j].slot = n /\ ds[j].name # ""
  BY NamedAtLast
<1>6. /\ g.id <=> f.id \/ tc.id
      /\ tc.name = "" => g.name = f.name
      /\ tc.name # "" => g.name = tc.name
      /\ g.args = f.args \o tc.args
      /\ g.added <=> f.added \/ (g.id /\ g.name # "")
  BY AnnouncedIs
<1>7. /\ f.id <=> \E j \in DOMAIN ds : ds[j].slot = n /\ ds[j].id
      /\ \A j \in DOMAIN ds : ds[j].slot = n /\ ds[j].name # "" => ds[j].name = f.name
      /\ f.name # "" => \E j \in DOMAIN ds : ds[j].slot = n /\ ds[j].name = f.name
      /\ f.args = ArgumentsSaid(ds, n)
      /\ f.added <=> f.id /\ f.name # ""
      /\ f.args # <<>> => f.added
  BY DEF KnowsCall
<1> HIDE DEF c, k, g
<1>8. f.name # "" => g.name = f.name
  BY <1>5, <1>6, <1>7
<1>9. g.id <=> \E j \in DOMAIN c : c[j].slot = n /\ c[j].id
  BY <1>1, <1>2, <1>3, <1>6, <1>7
<1>10. \A j \in DOMAIN c : c[j].slot = n /\ c[j].name # "" => c[j].name = g.name
  <2> SUFFICES ASSUME NEW j \in DOMAIN c, c[j].slot = n, c[j].name # "" PROVE c[j].name = g.name
    OBVIOUS
  <2>1. CASE j = k + 1
    BY <1>1, <1>6, <2>1
  <2>2. CASE j \in 1..k
    BY <1>1, <1>5, <1>6, <1>7, <2>2
  <2> QED
    BY <1>1, <1>2, <2>1, <2>2
<1>11. g.name # "" => \E j \in DOMAIN c : c[j].slot = n /\ c[j].name = g.name
  <2>1. CASE tc.name # ""
    BY <1>1, <1>3, <1>6, <2>1
  <2>2. CASE tc.name = ""
    BY <1>1, <1>3, <1>6, <1>7, <2>2
  <2> QED
    BY <2>1, <2>2
<1>12. g.added <=> g.id /\ g.name # ""
  BY <1>6, <1>7, <1>8
<1>13. tc.args # <<>> => g.added
  <2> SUFFICES ASSUME tc.args # <<>> PROVE g.id /\ g.name # ""
    BY <1>12
  <2>1. g.id
    BY <1>5, <1>6, <1>7
  <2>2. g.name # ""
    <3>1. CASE tc.name # ""
      BY <1>6, <3>1
    <3>2. CASE tc.name = ""
      <4>1. PICK j \in DOMAIN ds : ds[j].slot = n /\ ds[j].name # ""
        BY <1>5, <3>2
      <4> QED
        BY <1>6, <1>7, <3>2, <4>1
    <3> QED
      BY <3>1, <3>2
  <2> QED
    BY <2>1, <2>2
<1>14. g.args # <<>> => g.added
  <2>1. CASE tc.args = <<>>
    <3>1. f.args \o <<>> = f.args
      BY DEF CallState, Text
    <3> QED
      BY <1>6, <1>7, <2>1, <3>1
  <2> QED
    BY <1>13, <2>1
<1>15. g.args = ArgumentsSaid(c, n)
  BY <1>4, <1>6, <1>7
<1> QED
  BY <1>8, <1>9, <1>10, <1>11, <1>12, <1>13, <1>14, <1>15 DEF KnowsCall, c, g

\* The records, but for one call: what the client has of it.
RecordsBut(said, thought, last, s, evs, n, begun, text) ==
    /\ Repeats(evs)
    /\ MessagesKept(s.msg, evs) /\ ReasoningKept(s.reasoning, evs)
    /\ \A d \in CallSlots : d # n => s.func[d].done \/ Kept(evs, <<"call", d>>, s.func[d].added, Buffered(s.func[d]))
    /\ s.func[n].done \/ Kept(evs, <<"call", n>>, begun, text)
    /\ DeltasOf(evs, "message") = said /\ DeltasOf(evs, "reasoning") = thought
    /\ last => AllTold(s.func, evs)

LEMMA RecordsApart ==
  ASSUME NEW said, NEW thought, NEW last, NEW s, NEW t, NEW evs, Records(said, thought, last, s, evs),
         NEW n \in CallSlots, t.msg = s.msg, t.reasoning = s.reasoning,
         \A d \in CallSlots : d # n => t.func[d] = s.func[d],
         t.func[n].done = s.func[n].done, last => AllTold(t.func, evs)
  PROVE  RecordsBut(said, thought, last, t, evs, n, s.func[n].added, Buffered(s.func[n]))
<1>1. CallsKept(s.func, evs)
  BY DEF Records
<1>2. t.func[n].done \/ Kept(evs, <<"call", n>>, s.func[n].added, Buffered(s.func[n]))
  BY <1>1 DEF CallsKept
<1>3. \A d \in CallSlots : d # n => t.func[d].done \/ Kept(evs, <<"call", d>>, t.func[d].added, Buffered(t.func[d]))
  BY <1>1 DEF CallsKept
<1> QED
  BY <1>2, <1>3 DEF Records, RecordsBut

LEMMA RecordsTogether ==
  ASSUME NEW said, NEW thought, NEW last, NEW s, NEW evs, NEW n \in CallSlots, NEW begun, NEW text,
         RecordsBut(said, thought, last, s, evs, n, begun, text),
         s.func[n].done \/ (begun = s.func[n].added /\ text = Buffered(s.func[n]))
  PROVE  Records(said, thought, last, s, evs)
<1>1. s.func[n].done \/ Kept(evs, <<"call", n>>, s.func[n].added, Buffered(s.func[n]))
  BY DEF RecordsBut
<1>2. CallsKept(s.func, evs)
  BY <1>1 DEF RecordsBut, CallsKept
<1> QED
  BY <1>2 DEF Records, RecordsBut

\* An event of a call concerns nothing else.
LEMMA CallRecords ==
  ASSUME NEW said, NEW thought, NEW last, NEW s, NEW evs \in Seq(Event), NEW e \in Event, NEW n \in CallSlots,
         NEW begun, NEW text, RecordsBut(said, thought, last, s, evs, n, begun, text), e.item = <<"call", n>>,
         NEW next, NEW more, s.func[n].done \/ Kept(Append(evs, e), <<"call", n>>, next, more),
         e.type = "close" => Restates(evs, e)
  PROVE  RecordsBut(said, thought, last, s, Append(evs, e), n, next, more)
<1> DEFINE a == Append(evs, e)
<1>1. Repeats(a)
  BY RepeatsNext DEF RecordsBut
<1>2. MessagesKept(s.msg, a)
  BY ItemsDiffer, MessagesStay DEF RecordsBut
<1>3. ReasoningKept(s.reasoning, a)
  BY ItemsDiffer, ReasoningStays DEF RecordsBut
<1>4. \A d \in CallSlots : d # n => s.func[d].done \/ Kept(a, <<"call", d>>, s.func[d].added, Buffered(s.func[d]))
  BY ItemsDiffer, KeptElsewhere DEF RecordsBut
<1>5. last => AllTold(s.func, a)
  BY ToldStays DEF RecordsBut
<1>6. e.item[1] = "call" /\ "call" # "message" /\ "call" # "reasoning"
  BY ItemsDiffer
<1>7. DeltasOf(a, "message") = said /\ DeltasOf(a, "reasoning") = thought
  BY <1>6, DeltasNext DEF RecordsBut
<1> HIDE DEF a
<1> QED
  BY <1>1, <1>2, <1>3, <1>4, <1>5, <1>7 DEF RecordsBut, a

LEMMA EmitToolCallTells ==
  ASSUME NEW said, NEW thought, NEW ds \in Seq(CallEntry), NEW last, NEW pre \in Seq(Event), NEW w,
         Tells(said, thought, ds, last, pre, w), Fresh(w.st), last => ~w.st.completed,
         NEW tc \in CallEntry, NamedFirst(Append(ds, tc))
  PROVE  /\ Tells(said, thought, Append(ds, tc), last, pre, emitToolCall(w, tc))
         /\ emitToolCall(w, tc).st.thinking = w.st.thinking
         /\ emitToolCall(w, tc).st.completed = w.st.completed
<1> DEFINE n == tc.slot
           f == w.st.func[n]
           g == Announced(f, tc)
           u == WithCall(w, n, g)
           item == <<"call", n>>
           v == IF g.added /\ ~f.added THEN Emit(u, "open", item, <<>>) ELSE u
           z == emitToolCall(w, tc)
           evs == pre \o w.out
<1>1. w \in Work /\ n \in CallSlots /\ f \in CallState /\ w.st.func \in [CallSlots -> CallState] /\ Good(pre, w)
      /\ tc.id \in BOOLEAN /\ tc.name \in Names /\ tc.args \in Text
  BY WorkIs DEF Tells, Good, CallEntry
<1>2. z = IF Streams(g, tc) THEN Emit(v, "delta", item, tc.args) ELSE v
  BY DEF emitToolCall, WithCall, Announced
<1>3. KnowsCall(ds, f, n) /\ Records(said, thought, last, w.st, evs)
  BY <1>1 DEF Tells, Knows
<1>4. KnowsCall(Append(ds, tc), g, n) /\ (f.name # "" => g.name = f.name) /\ (tc.args # <<>> => g.added)
  <2>1. KnowsCall(ds, f, tc.slot)
    BY <1>3
  <2>2. /\ KnowsCall(Append(ds, tc), Announced(f, tc), tc.slot)
        /\ f.name # "" => Announced(f, tc).name = f.name
        /\ tc.args # <<>> => Announced(f, tc).added
    <3> HIDE DEF f
    <3> QED
      BY <1>1, <2>1, KnowsNext
  <2> QED
    BY <2>2
<1>5. /\ g \in CallState /\ g.args = f.args \o tc.args /\ g.done = f.done
      /\ g.added <=> f.added \/ (g.id /\ g.name # "")
  BY <1>1, AnnouncedIs
<1>6. (f.added <=> f.id /\ f.name # "") /\ (f.args # <<>> => f.added) /\ f.args \in Text
  BY <1>1, <1>3 DEF KnowsCall, CallState
<1> HIDE DEF g
<1>7. u \in Work /\ u.out = w.out /\ u.st.func = [w.st.func EXCEPT ![n] = g] /\ u.st.reasoning = w.st.reasoning
      /\ u.st.msg = w.st.msg /\ u.st.completed = w.st.completed /\ u.st.thinking = w.st.thinking
  BY <1>1, <1>5, WithCallIs, ZenonT(60)
<1> HIDE DEF u
<1>8. u.st.func[n] = g /\ \A d \in CallSlots : d # n => u.st.func[d] = w.st.func[d]
  BY <1>1, <1>7
<1>9. last => AllTold(u.st.func, evs)
  <2>1. last => \A d \in CallSlots : ~w.st.func[d].done
    BY DEF Fresh
  <2>2. last => \A d \in CallSlots : ~u.st.func[d].done
    BY <1>1, <1>5, <1>8, <2>1
  <2> QED
    BY <2>2 DEF AllTold
<1>10. RecordsBut(said, thought, last, u.st, evs, n, f.added, Buffered(f))
  <2>1. u.st.func[n].done = w.st.func[n].done
    BY <1>5, <1>8
  <2>2. RecordsBut(said, thought, last, u.st, evs, n, w.st.func[n].added, Buffered(w.st.func[n]))
    <3> HIDE DEF n, f, evs
    <3> QED
      BY <1>1, <1>3, <1>7, <1>8, <1>9, <2>1, RecordsApart
  <2> QED
    BY <2>2
<1>11. evs \in Seq(Event) /\ pre \o u.out = evs
  BY <1>1, <1>7, WorkIs
<1>12. item \in Items /\ <<>> \in Text /\ "delta" \in EventTypes /\ "open" \in EventTypes
  BY <1>1, ItemsAre DEF EventTypes
<1> HIDE DEF evs
<1>13. /\ v.st = u.st /\ pre \o v.out \in Seq(Event) /\ v \in Work
       /\ RecordsBut(said, thought, last, u.st, pre \o v.out, n, g.added, Buffered(f))
  <2>1. CASE g.added /\ ~f.added
    <3> DEFINE e == Event3("open", item, <<>>)
    <3>1. v = Emit(u, "open", item, <<>>)
      BY <2>1
    <3> HIDE DEF v
    <3>2. e \in Event /\ e.type = "open" /\ e.item = item /\ e.text = <<>>
      <4> HIDE DEF item
      <4> QED
        BY <1>12, EventIs
    <3>3. After(pre, u, Event3("open", item, <<>>), Emit(u, "open", item, <<>>)) /\ v \in Work
      <4> HIDE DEF item
      <4> QED
        BY <1>7, <1>12, <3>1, EmitAfter, EmitIs
    <3>4. pre \o v.out = Append(evs, e) /\ v.st = u.st
      BY <1>11, <3>1, <3>3 DEF After
    <3> HIDE DEF e
    <3>5. g.added = TRUE /\ f.added = FALSE
      BY <1>1, <1>5, <2>1 DEF CallState
    <3>6. u.st.func[n].done \/ Kept(evs, item, FALSE, Buffered(f))
      BY <1>10, <3>5 DEF RecordsBut
    <3>7. u.st.func[n].done \/ Kept(Append(evs, e), item, TRUE, Buffered(f))
      BY <1>11, <3>2, <3>6, KeptStarts
    <3>8. RecordsBut(said, thought, last, u.st, Append(evs, e), n, TRUE, Buffered(f))
      <4> HIDE DEF n, f
      <4> QED
        BY <1>1, <1>10, <1>11, <3>2, <3>7, CallRecords
    <3>9. Append(evs, e) \in Seq(Event)
      BY <1>11, <3>2, AppendIs
    <3> QED
      BY <3>3, <3>4, <3>5, <3>8, <3>9
  <2>2. CASE ~(g.added /\ ~f.added)
    <3>1. g.added = f.added
      BY <1>1, <1>5, <2>2 DEF CallState
    <3> QED
      BY <1>7, <1>10, <1>11, <2>2, <3>1
  <2> QED
    BY <2>1, <2>2
<1> HIDE DEF v
<1>14. /\ Streams(g, tc) => Buffered(g) = Buffered(f) \o tc.args
       /\ ~Streams(g, tc) => Buffered(g) = Buffered(f)
  <2>0. <<>> \o tc.args = tc.args /\ f.args \o <<>> = f.args
    <3> DEFINE a == tc.args
               b == f.args
    <3>1. a \in Seq(Fragment) /\ b \in Seq(Fragment)
      BY <1>1, <1>6 DEF Text
    <3> HIDE DEF a, b
    <3>2. <<>> \o a = a /\ b \o <<>> = b
      BY <3>1, ConcatEmptySeq
    <3> QED
      BY <3>2 DEF a, b
  <2>1. CASE tc.args = <<>>
    <3>1. g.args = f.args /\ ~Streams(g, tc)
      BY <1>5, <2>0, <2>1 DEF Streams
    <3>2. CASE f.args = <<>>
      BY <3>1, <3>2 DEF Buffered
    <3>3. CASE f.args # <<>>
      BY <1>4, <1>6, <3>1, <3>3 DEF Buffered
    <3> QED
      BY <3>1, <3>2, <3>3
  <2>2. CASE tc.args # <<>>
    <3>1. g.added /\ (Streams(g, tc) <=> ~isCustomTool(g.name))
      BY <1>4, <2>2 DEF Streams
    <3>2. CASE f.args = <<>>
      <4>1. Buffered(f) = <<>> /\ g.args = tc.args
        BY <1>5, <2>0, <3>2 DEF Buffered
      <4> QED
        BY <2>0, <3>1, <4>1 DEF Buffered
    <3>3. CASE f.args # <<>>
      <4>1. g.name = f.name
        BY <1>4, <1>6, <3>3
      <4> QED
        BY <1>5, <3>1, <4>1 DEF Buffered
    <3> QED
      BY <3>2, <3>3
  <2> QED
    BY <2>1, <2>2
<1>15. z.st = u.st /\ Records(said, thought, last, u.st, pre \o z.out)
  <2>1. CASE Streams(g, tc)
    <3> DEFINE e == Event3("delta", item, tc.args)
    <3>1. z = Emit(v, "delta", item, tc.args)
      BY <1>2, <2>1
    <3> HIDE DEF z
    <3>2. e \in Event /\ e.type = "delta" /\ e.item = item /\ e.text = tc.args
      <4> HIDE DEF item
      <4> QED
        BY <1>1, <1>12, EventIs
    <3>3. After(pre, v, Event3("delta", item, tc.args), Emit(v, "delta", item, tc.args))
      <4> HIDE DEF item
      <4> QED
        BY <1>1, <1>12, <1>13, EmitAfter
    <3>4. pre \o z.out = Append(pre \o v.out, e) /\ z.st = u.st
      BY <1>13, <3>1, <3>3 DEF After
    <3> HIDE DEF e
    <3>5. g.added = TRUE
      BY <1>4, <1>5, <2>1 DEF CallState, Streams
    <3>6. u.st.func[n].done \/ Kept(pre \o v.out, item, TRUE, Buffered(f))
      BY <1>13, <3>5 DEF RecordsBut
    <3>7. u.st.func[n].done \/ Kept(Append(pre \o v.out, e), item, TRUE, Buffered(f) \o tc.args)
      BY <1>13, <3>2, <3>6, KeptSays
    <3>8. RecordsBut(said, thought, last, u.st, Append(pre \o v.out, e), n, TRUE, Buffered(f) \o tc.args)
      <4> HIDE DEF n, f
      <4> QED
        BY <1>1, <1>13, <3>2, <3>7, CallRecords
    <3>9. TRUE = u.st.func[n].added /\ Buffered(f) \o tc.args = Buffered(u.st.func[n])
      BY <1>8, <1>14, <2>1, <3>5
    <3>10. Records(said, thought, last, u.st, Append(pre \o v.out, e))
      <4> HIDE DEF n, f
      <4> QED
        BY <1>1, <3>8, <3>9, RecordsTogether
    <3> QED
      BY <3>4, <3>10
  <2>2. CASE ~Streams(g, tc)
    <3>1. z = v
      BY <1>2, <2>2
    <3>2. g.added = u.st.func[n].added /\ Buffered(f) = Buffered(u.st.func[n])
      BY <1>8, <1>14, <2>2
    <3>3. Records(said, thought, last, u.st, pre \o v.out)
      <4> HIDE DEF n, f
      <4> QED
        BY <1>1, <1>13, <3>2, RecordsTogether
    <3> QED
      BY <1>13, <3>1, <3>3
  <2> QED
    BY <2>1, <2>2
<1>16. Good(pre, z)
  BY <1>1, ToolCallKeeps DEF z
<1>17. Knows(Append(ds, tc), z.st.func)
  <2>1. \A d \in CallSlots : d # n => KnowsCall(ds, w.st.func[d], d)
    BY DEF Tells, Knows
  <2>2. \A d \in CallSlots : d # n => KnowsCall(Append(ds, tc), w.st.func[d], d)
    BY <2>1, KnowsElsewhere
  <2> QED
    BY <1>4, <1>8, <1>15, <2>2 DEF Knows
<1>18. z.st.thinking => z.st.reasoning.at # <<>>
  BY <1>7, <1>15 DEF Tells
<1>19. z.st.thinking = w.st.thinking /\ z.st.completed = w.st.completed
  BY <1>7, <1>15
<1> HIDE DEF z
<1> QED
  BY <1>15, <1>16, <1>17, <1>18, <1>19 DEF Tells, z

LEMMA TextAlone == ASSUME NEW t \in Text PROVE <<>> \o t = t /\ t \o <<>> = t
BY ConcatEmptySeq DEF Text

\* v is w with one call closed, if it has an id.
CallEnds(w, v, n) ==
    /\ v.st.thinking = w.st.thinking /\ v.st.completed = w.st.completed
    /\ v.st.func[n].id => v.st.func[n].done
    /\ \A d \in CallSlots : d # n => v.st.func[d] = w.st.func[d]

\* A call is closed with all of its arguments, announced or not.
LEMMA CloseToolCallTells ==
  ASSUME NEW said, NEW thought, NEW ds, NEW last, NEW pre \in Seq(Event), NEW w,
         Tells(said, thought, ds, last, pre, w), NEW n \in CallSlots
  PROVE  /\ Tells(said, thought, ds, last, pre, closeToolCall(w, n))
         /\ CallEnds(w, closeToolCall(w, n), n)
<1> DEFINE f == w.st.func[n]
           args == FinalText(f.name, f.args)
           item == <<"call", n>>
           v == IF isCustomTool(f.name) THEN Emit(w, "delta", item, args) ELSE w
           z == closeToolCall(w, n)
           evs == pre \o w.out
           more == IF isCustomTool(f.name) THEN args ELSE f.args
<1>1. w \in Work /\ f \in CallState /\ w.st.func \in [CallSlots -> CallState] /\ Good(pre, w)
  BY WorkIs DEF Tells, Good
<1>2. CASE ~f.id \/ f.done
  <2>1. z = w
    BY <1>2 DEF closeToolCall
  <2> QED
    BY <1>2, <2>1 DEF CallEnds
<1>3. CASE f.id /\ ~f.done
  <2> DEFINE g == [f EXCEPT !.done = TRUE]
             u == WithCall(v, n, g)
             e == Event3("close", item, args)
  <2>1. f.id = TRUE /\ f.done = FALSE /\ f.args \in Text
    BY <1>1, <1>3 DEF CallState
  <2>2. KnowsCall(ds, f, n) /\ Records(said, thought, last, w.st, evs)
    BY DEF Tells, Knows
  <2>3. (f.added <=> f.name # "") /\ (f.args # <<>> => f.added)
    BY <2>1, <2>2 DEF KnowsCall
  <2>4. args \in Text /\ more \in Text /\ (args = more \/ (args = NoArguments /\ more = <<>>))
    BY <2>1, FinalTextTyped
  <2>5. item \in Items /\ "delta" \in EventTypes /\ "close" \in EventTypes
    BY ItemsAre DEF EventTypes
  <2>6. g \in CallState /\ g.done = TRUE /\ g.id = f.id /\ g.name = f.name /\ g.args = f.args /\ g.added = f.added
    BY <1>1 DEF CallState
  <2>7. v \in Work /\ v.st = w.st /\ evs \in Seq(Event)
    <3>0. /\ Emit(w, "delta", item, args) \in Work /\ Emit(w, "delta", item, args).st = w.st
          /\ [type |-> "delta", item |-> item, text |-> args] \in Event
          /\ pre \o Emit(w, "delta", item, args).out
                = Append(pre \o w.out, [type |-> "delta", item |-> item, text |-> args])
          /\ pre \o w.out \in Seq(Event)
      <4> HIDE DEF item, args
      <4> QED
        BY <1>1, <2>4, <2>5, EmitIs
    <3> QED
      BY <1>1, <3>0
  <2>8. z = Emit(u, "close", item, args)
    <3>1. v.st.func[n] = f
      BY <2>7
    <3> QED
      BY <1>3, <3>1 DEF closeToolCall, WithCall
  <2> HIDE DEF g, z
  <2>9. u \in Work /\ u.out = v.out /\ u.st.func = [w.st.func EXCEPT ![n] = g] /\ u.st.reasoning = w.st.reasoning
        /\ u.st.msg = w.st.msg /\ u.st.completed = w.st.completed /\ u.st.thinking = w.st.thinking
    <3> HIDE DEF v
    <3>1. u \in Work /\ u.out = v.out /\ u.st.func = [v.st.func EXCEPT ![n] = g] /\ u.st.reasoning = v.st.reasoning
          /\ u.st.msg = v.st.msg /\ u.st.completed = v.st.completed /\ u.st.thinking = v.st.thinking
      BY <2>6, <2>7, WithCallIs
    <3> QED
      BY <2>7, <3>1
  <2> HIDE DEF u, evs, args, more
  <2>10. u.st.func[n] = g /\ \A d \in CallSlots : d # n => u.st.func[d] = w.st.func[d]
    BY <1>1, <2>9
  <2>11. Records(said, thought, FALSE, w.st, evs)
    BY <2>2 DEF Records
  <2>12. RecordsBut(said, thought, FALSE, w.st, evs, n, f.added, Buffered(f))
    BY <2>11, RecordsApart
  <2>13. /\ pre \o v.out \in Seq(Event)
         /\ last => AllTold(w.st.func, pre \o v.out)
         /\ RecordsBut(said, thought, FALSE, w.st, pre \o v.out, n, f.added, more)
    <3>1. CASE isCustomTool(f.name)
      <4> DEFINE x == Event3("delta", item, args)
      <4>1. v = Emit(w, "delta", item, args)
        BY <3>1
      <4> HIDE DEF v
      <4>2. x \in Event /\ x.type = "delta" /\ x.item = item /\ x.text = args
        <5> HIDE DEF item
        <5> QED
          BY <2>4, <2>5, EventIs
      <4>3. After(pre, w, Event3("delta", item, args), Emit(w, "delta", item, args))
        <5> HIDE DEF item
        <5> QED
          BY <1>1, <2>4, <2>5, EmitAfter
      <4>4. pre \o v.out = Append(evs, x)
        BY <4>1, <4>3 DEF After, evs
      <4> HIDE DEF x
      <4>5. f.added = TRUE /\ Buffered(f) = <<>> /\ more = args
        <5>1. f.name # ""
          BY <3>1 DEF isCustomTool
        <5> QED
          BY <1>1, <2>3, <3>1, <5>1 DEF CallState, Buffered, more
      <4>6. w.st.func[n].done \/ Kept(evs, item, TRUE, <<>>)
        BY <2>12, <4>5 DEF RecordsBut
      <4>7. w.st.func[n].done \/ Kept(Append(evs, x), item, TRUE, <<>> \o args)
        BY <2>7, <4>2, <4>6, KeptSays
      <4>8. <<>> \o args = args
        BY <2>4, TextAlone
      <4>9. w.st.func[n].done \/ Kept(Append(evs, x), item, f.added, more)
        BY <4>5, <4>7, <4>8
      <4>10. RecordsBut(said, thought, FALSE, w.st, Append(evs, x), n, f.added, more)
        <5> HIDE DEF f
        <5> QED
          BY <2>7, <2>12, <4>2, <4>9, CallRecords
      <4>11. Append(evs, x) \in Seq(Event)
        BY <2>7, <4>2, AppendIs
      <4>12. last => AllTold(w.st.func, Append(evs, x))
        BY <2>2, <2>7, <4>2, ToldStays DEF Records
      <4> QED
        BY <4>4, <4>10, <4>11, <4>12
    <3>2. CASE ~isCustomTool(f.name)
      <4>1. pre \o v.out = evs
        BY <3>2 DEF evs
      <4>2. more = Buffered(f)
        BY <3>2 DEF Buffered, more
      <4> QED
        BY <2>2, <2>7, <2>12, <4>1, <4>2 DEF Records
    <3> QED
      BY <3>1, <3>2
  <2> HIDE DEF v
  <2> DEFINE a == pre \o v.out
  <2>14. e \in Event /\ e.type = "close" /\ e.item = item /\ e.text = args
    <3> HIDE DEF item
    <3> QED
      BY <2>4, <2>5, EventIs
  <2>15. After(pre, u, Event3("close", item, args), Emit(u, "close", item, args))
    <3> HIDE DEF item
    <3> QED
      BY <2>4, <2>5, <2>9, EmitAfter
  <2>16. pre \o z.out = Append(a, e) /\ z.st = u.st
    BY <2>8, <2>9, <2>15 DEF After
  <2> HIDE DEF e, a
  <2>17. Restates(a, e)
    <3>1. Kept(a, e.item, f.added, more)
      BY <2>1, <2>13, <2>14 DEF RecordsBut, a
    <3>2. e.item[1] = "call" /\ f.added \in BOOLEAN
      BY <1>1, <2>14, ItemsDiffer DEF CallState
    <3>3. e.text = more \/ (e.text = NoArguments /\ more = <<>> /\ e.item[1] = "call")
      BY <2>4, <2>14, <3>2
    <3> HIDE DEF f
    <3> QED
      BY <3>1, <3>2, <3>3, KeptRestates
  <2>18. RecordsBut(said, thought, FALSE, u.st, a, n, f.added, more)
    BY <2>6, <2>9, <2>10, <2>13 DEF RecordsBut, a
  <2>19. u.st.func[n].done
    BY <2>6, <2>10
  <2>20. a \in Seq(Event)
    BY <2>13 DEF a
  <2>21. RecordsBut(said, thought, FALSE, u.st, Append(a, e), n, f.added, more)
    <3> HIDE DEF f
    <3> QED
      BY <2>14, <2>17, <2>18, <2>19, <2>20, CallRecords
  <2>22. Records(said, thought, FALSE, u.st, Append(a, e))
    <3> HIDE DEF f
    <3> QED
      BY <2>19, <2>21, RecordsTogether
  <2>23. last => AllTold(u.st.func, Append(a, e))
    <3> SUFFICES ASSUME last PROVE AllTold(u.st.func, Append(a, e))
      OBVIOUS
    <3>1. AllTold(w.st.func, Append(a, e))
      BY <2>13, <2>14, <2>20, ToldStays DEF a
    <3>2. /\ Append(a, e)[Len(a) + 1] = e
          /\ Places(Append(a, e), e.type) = Places(a, e.type) \cup {Len(a) + 1}
      BY <2>14, <2>20, PlacesAppend
    <3>3. Len(a) + 1 \in Places(Append(a, e), "close")
      BY <2>14, <3>2
    <3>4. args = FinalText(u.st.func[n].name, u.st.func[n].args)
      BY <2>6, <2>10 DEF args
    <3> DEFINE told(func, d) ==
                 \E k \in Places(Append(a, e), "close") :
                     /\ Append(a, e)[k].item = <<"call", d>>
                     /\ Append(a, e)[k].text = FinalText(func[d].name, func[d].args)
    <3>5. told(u.st.func, n)
      BY <2>14, <3>2, <3>3, <3>4
    <3>6. \A d \in CallSlots : w.st.func[d].done => told(w.st.func, d)
      BY <3>1 DEF AllTold
    <3>7. \A d \in CallSlots : d # n => (told(w.st.func, d) <=> told(u.st.func, d))
      BY <2>10
    <3>8. AllTold(u.st.func, Append(a, e)) <=> \A d \in CallSlots : u.st.func[d].done => told(u.st.func, d)
      BY DEF AllTold
    <3> HIDE DEF told
    <3> QED
      BY <2>10, <3>5, <3>6, <3>7, <3>8
  <2>24. Records(said, thought, last, z.st, pre \o z.out)
    BY <2>16, <2>22, <2>23 DEF Records
  <2>25. Good(pre, z)
    BY <1>1, CloseToolCallKeeps DEF z
  <2>26. Knows(ds, z.st.func)
    <3>1. KnowsCall(ds, g, n)
      BY <2>2, <2>6 DEF KnowsCall
    <3> QED
      BY <2>10, <2>16, <3>1 DEF Tells, Knows
  <2>27. z.st.thinking => z.st.reasoning.at # <<>>
    BY <2>9, <2>16 DEF Tells
  <2>28. Tells(said, thought, ds, last, pre, z)
    BY <2>24, <2>25, <2>26, <2>27 DEF Tells
  <2> QED
    BY <2>6, <2>9, <2>10, <2>16, <2>28, ZenonT(60) DEF z, CallEnds
<1> QED
  BY <1>2, <1>3

-----------------------------------------------------------------------------
(* The end of the response, and the chunk's own steps. *)

\* An event of no item.
LEMMA AsideRecords ==
  ASSUME NEW said, NEW thought, NEW last, NEW s, NEW t, NEW evs \in Seq(Event), NEW e \in Event,
         Records(said, thought, last, s, evs), e.item = <<>>, e.type \notin {"delta", "close"},
         t.msg = s.msg, t.func = s.func, t.reasoning = s.reasoning
  PROVE  Records(said, thought, last, t, Append(evs, e))
<1> DEFINE a == Append(evs, e)
<1>0. \A x, c : <<>> # <<x, c>>
  OBVIOUS
<1>1. Repeats(a)
  BY RepeatsNext DEF Records
<1>2. MessagesKept(s.msg, a)
  BY <1>0, MessagesStay DEF Records
<1>3. CallsKept(s.func, a)
  BY <1>0, CallsStay DEF Records
<1>4. ReasoningKept(s.reasoning, a)
  BY <1>0, ReasoningStays DEF Records
<1>5. last => AllTold(s.func, a)
  BY ToldStays DEF Records
<1>6. DeltasOf(a, "reasoning") = thought /\ DeltasOf(a, "message") = said
  BY DeltasNext DEF Records
<1> HIDE DEF a
<1> QED
  BY <1>1, <1>2, <1>3, <1>4, <1>5, <1>6 DEF Records, a

\* A state with other marks.
LEMMA MarkedTells ==
  ASSUME NEW said, NEW thought, NEW ds, NEW last, NEW pre, NEW w, NEW v,
         Tells(said, thought, ds, last, pre, w), Good(pre, v), v.out = w.out,
         v.st.msg = w.st.msg, v.st.func = w.st.func, v.st.reasoning = w.st.reasoning,
         v.st.thinking => w.st.reasoning.at # <<>>
  PROVE  Tells(said, thought, ds, last, pre, v)
BY DEF Tells, Records

LEMMA AsideTells ==
  ASSUME NEW said, NEW thought, NEW ds, NEW last, NEW pre \in Seq(Event), NEW w,
         Tells(said, thought, ds, last, pre, w), NEW type \in EventTypes, type \notin {"delta", "close"},
         Good(pre, Emit(w, type, <<>>, <<>>))
  PROVE  /\ Tells(said, thought, ds, last, pre, Emit(w, type, <<>>, <<>>))
         /\ Emit(w, type, <<>>, <<>>).st = w.st
<1> DEFINE e == Event3(type, <<>>, <<>>)
           v == Emit(w, type, <<>>, <<>>)
<1>1. <<>> \in Items /\ <<>> \in Text /\ w \in Work
  BY ItemsAre DEF Tells, Good
<1>2. e \in Event /\ e.type = type /\ e.item = <<>>
  BY <1>1, EventIs
<1>3. After(pre, w, Event3(type, <<>>, <<>>), Emit(w, type, <<>>, <<>>))
  BY <1>1, EmitAfter
<1>4. pre \o w.out \in Seq(Event) /\ pre \o v.out = Append(pre \o w.out, e) /\ v.st = w.st
  BY <1>3 DEF After
<1> HIDE DEF e, v
<1>5. Records(said, thought, last, w.st, Append(pre \o w.out, e))
  BY <1>2, <1>4, AsideRecords DEF Tells
<1> QED
  BY <1>4, <1>5 DEF Tells, v

LEMMA SendCompletedTells ==
  ASSUME NEW said, NEW thought, NEW ds, NEW last, NEW pre \in Seq(Event), NEW w,
         Tells(said, thought, ds, last, pre, w), Good(pre, sendCompleted(w))
  PROVE  /\ Tells(said, thought, ds, last, pre, sendCompleted(w))
         /\ sendCompleted(w).st.thinking = w.st.thinking /\ sendCompleted(w).st.func = w.st.func
<1>1. CASE w.st.completed
  BY <1>1 DEF sendCompleted
<1>2. CASE ~w.st.completed
  <2> DEFINE e == Event3("completed", <<>>, <<>>)
             u == Over(w)
             v == sendCompleted(w)
  <2>1. <<>> \in Items /\ <<>> \in Text /\ w \in Work /\ "completed" \in EventTypes
    BY ItemsAre DEF Tells, Good, EventTypes
  <2>2. v = Emit(u, "completed", <<>>, <<>>)
    BY <1>2 DEF sendCompleted, Over
  <2>3. u \in Work /\ u.out = w.out /\ u.st.reasoning = w.st.reasoning /\ u.st.msg = w.st.msg
        /\ u.st.func = w.st.func /\ u.st.thinking = w.st.thinking
    BY <2>1 DEF Over, Work, ChatState
  <2> HIDE DEF u, v
  <2>4. e \in Event /\ e.type = "completed" /\ e.item = <<>>
    BY <2>1, EventIs
  <2>5. After(pre, u, Event3("completed", <<>>, <<>>), Emit(u, "completed", <<>>, <<>>))
    BY <2>1, <2>3, EmitAfter
  <2>6. pre \o w.out \in Seq(Event) /\ pre \o v.out = Append(pre \o w.out, e) /\ v.st = u.st
    BY <2>2, <2>3, <2>5 DEF After
  <2> HIDE DEF e
  <2>7. Records(said, thought, last, v.st, Append(pre \o w.out, e))
    BY <2>3, <2>4, <2>6, AsideRecords DEF Tells
  <2>8. Good(pre, v)
    BY DEF v
  <2> QED
    BY <2>3, <2>6, <2>7, <2>8 DEF Tells, v
<1> QED
  BY <1>1, <1>2

LEMMA ScaffoldTells ==
  ASSUME NEW said, NEW thought, NEW ds, NEW last, NEW pre \in Seq(Event), NEW w,
         Tells(said, thought, ds, last, pre, w), Fresh(w.st)
  PROVE  /\ Tells(said, thought, ds, last, pre, scaffold(w))
         /\ scaffold(w).st.thinking = w.st.thinking /\ scaffold(w).st.completed = w.st.completed
         /\ Fresh(scaffold(w).st)
<1>1. CASE w.st.started
  BY <1>1 DEF scaffold
<1>2. CASE ~w.st.started
  <2> DEFINE u == Starts(w)
             v == Emit(u, "created", <<>>, <<>>)
  <2>1. scaffold(w) = v
    BY <1>2 DEF scaffold, Starts
  <2>2. Good(pre, u) /\ w \in Work
    BY FlagsKeep DEF Tells, Good
  <2>3. u.out = w.out /\ u.st.reasoning = w.st.reasoning /\ u.st.msg = w.st.msg
        /\ u.st.func = w.st.func /\ u.st.thinking = w.st.thinking /\ u.st.completed = w.st.completed
    BY <2>2 DEF Starts, Work, ChatState
  <2> HIDE DEF u
  <2>4. Tells(said, thought, ds, last, pre, u)
    <3>1. u.st.thinking => w.st.reasoning.at # <<>>
      BY <2>3 DEF Tells
    <3> QED
      BY <2>2, <2>3, <3>1, MarkedTells
  <2>5. "created" \in EventTypes /\ "created" \notin {"open", "close", "completed"} /\ <<>> \in Items /\ <<>> \in Text
        /\ "created" \notin {"delta", "close"}
    BY ItemsAre DEF EventTypes
  <2>6. Good(pre, Emit(u, "created", <<>>, <<>>)) /\ Emit(u, "created", <<>>, <<>>).st = u.st
    BY <2>2, <2>5, EmitSkips
  <2>7. Tells(said, thought, ds, last, pre, Emit(u, "created", <<>>, <<>>))
    BY <2>4, <2>5, <2>6, AsideTells
  <2>8. Fresh(u.st)
    BY <2>3 DEF Fresh
  <2> QED
    BY <2>1, <2>3, <2>6, <2>7, <2>8
<1> QED
  BY <1>1, <1>2

LEMMA CloseMessagesTell ==
  ASSUME NEW said, NEW thought, NEW ds, NEW last, NEW pre \in Seq(Event), NEW w,
         Tells(said, thought, ds, last, pre, w), NEW s \in Seq(ChoiceIds)
  PROVE  /\ Tells(said, thought, ds, last, pre, CloseMessages(w, s))
         /\ CloseMessages(w, s).st.thinking = w.st.thinking
<1> DEFINE n == Len(s)
           Q(v) == Tells(said, thought, ds, last, pre, v) /\ v.st.thinking = w.st.thinking
           P == [k \in 0..n |-> {v \in Work : Q(v)}]
<1>0. Good(pre, w)
  BY DEF Tells
<1>1. n \in Nat /\ \A i \in 1..n : s[i] \in ChoiceIds
  BY LenProperties, ElementOfSeq
<1>2. PICK f : /\ CloseMessages(w, s) = f[1..n]
               /\ f[{}] = w
               /\ \A k \in 1..n : f[1..k] = closeMessage(f[1..(k - 1)], s[k])
  BY <1>0, CloseMessagesFold
<1> HIDE DEF n
<1>3. ASSUME NEW v, NEW c \in ChoiceIds, Q(v) PROVE Q(closeMessage(v, c))
  BY <1>3, CloseMessageTells
<1>4. Q(w)
  OBVIOUS
<1>5. \A v : Q(v) => v \in Work
  BY DEF Tells, Good
<1> HIDE DEF Q
<1>6. \A k \in 0..n : P[k] = {v \in Work : Q(v)}
  OBVIOUS
<1>7. 0 \in 0..n /\ n \in 0..n /\ \A k \in 1..n : k \in 0..n /\ k - 1 \in 0..n
  BY <1>1
<1> HIDE DEF P
<1>8. f[{}] \in P[0]
  BY <1>2, <1>4, <1>5, <1>6, <1>7
<1>9. \A k \in 1..n : f[1..(k - 1)] \in P[k - 1] => f[1..k] \in P[k]
  BY <1>1, <1>2, <1>3, <1>5, <1>6, <1>7
<1>10. f[1..n] \in P[n]
  BY <1>1, <1>8, <1>9, FoldAlongSegments
<1>11. Q(CloseMessages(w, s))
  BY <1>2, <1>6, <1>7, <1>10
<1> QED
  BY <1>11 DEF Q

\* Every call of the list is closed, if it has an id.
EveryOver(v, s) == \A i \in 1..Len(s) : v.st.func[s[i]].id => v.st.func[s[i]].done

LEMMA CloseCallsTell ==
  ASSUME NEW said, NEW thought, NEW ds, NEW last, NEW pre \in Seq(Event), NEW w,
         Tells(said, thought, ds, last, pre, w), NEW s \in Seq(CallSlots)
  PROVE  /\ Tells(said, thought, ds, last, pre, CloseCalls(w, s))
         /\ CloseCalls(w, s).st.thinking = w.st.thinking
         /\ EveryOver(CloseCalls(w, s), s)
<1> DEFINE n == Len(s)
           Q(v, k) == /\ Tells(said, thought, ds, last, pre, v) /\ v.st.thinking = w.st.thinking
                      /\ \A i \in 1..k : v.st.func[s[i]].id => v.st.func[s[i]].done
           P == [k \in 0..n |-> {v \in Work : Q(v, k)}]
<1>0. Good(pre, w)
  BY DEF Tells
<1>1. n \in Nat /\ \A i \in 1..n : s[i] \in CallSlots
  BY LenProperties, ElementOfSeq
<1>2. PICK f : /\ CloseCalls(w, s) = f[1..n]
               /\ f[{}] = w
               /\ \A k \in 1..n : f[1..k] = closeToolCall(f[1..(k - 1)], s[k])
  BY <1>0, CloseCallsFold
<1> HIDE DEF n
<1>3. ASSUME NEW v, NEW k \in 1..n, Q(v, k - 1) PROVE Q(closeToolCall(v, s[k]), k)
  <2> DEFINE u == closeToolCall(v, s[k])
             c == s[k]
  <2>1. c \in CallSlots
    BY <1>1
  <2>2. /\ Tells(said, thought, ds, last, pre, u) /\ u.st.thinking = w.st.thinking
        /\ u.st.func[c].id => u.st.func[c].done
        /\ \A d \in CallSlots : d # c => u.st.func[d] = v.st.func[d]
    <3>1. Tells(said, thought, ds, last, pre, v) /\ v.st.thinking = w.st.thinking
      BY <1>3
    <3>2. Tells(said, thought, ds, last, pre, closeToolCall(v, c)) /\ CallEnds(v, closeToolCall(v, c), c)
      BY <2>1, <3>1, CloseToolCallTells
    <3> QED
      BY <3>1, <3>2 DEF CallEnds
  <2> HIDE DEF u
  <2>3. \A i \in 1..k : s[i] \in CallSlots /\ (i \in 1..(k - 1) \/ i = k)
    BY <1>1
  <2>4. \A i \in 1..k : u.st.func[s[i]].id => u.st.func[s[i]].done
    BY <1>3, <2>2, <2>3
  <2> QED
    BY <2>2, <2>4 DEF u
<1>4. Q(w, 0)
  OBVIOUS
<1>5. \A v : \A k : Q(v, k) => v \in Work
  BY DEF Tells, Good
<1> HIDE DEF Q
<1>6. \A k \in 0..n : P[k] = {v \in Work : Q(v, k)}
  OBVIOUS
<1>7. 0 \in 0..n /\ n \in 0..n /\ \A k \in 1..n : k \in 0..n /\ k - 1 \in 0..n
  BY <1>1
<1> HIDE DEF P
<1>8. f[{}] \in P[0]
  BY <1>2, <1>4, <1>5, <1>6, <1>7
<1>9. \A k \in 1..n : f[1..(k - 1)] \in P[k - 1] => f[1..k] \in P[k]
  BY <1>2, <1>3, <1>5, <1>6, <1>7
<1>10. f[1..n] \in P[n]
  BY <1>1, <1>8, <1>9, FoldAlongSegments
<1>11. Q(CloseCalls(w, s), n)
  BY <1>2, <1>6, <1>7, <1>10
<1> QED
  BY <1>11 DEF Q, n, EveryOver

\* NamedFirst, entry by entry.
Joins(ds, j, i) == ds[j].slot = ds[i].slot
NamesAt(ds, j, i) == Joins(ds, j, i) /\ ds[j].name # ""

NamedAt(ds, i) ==
    /\ \A j, k \in 1..i : NamesAt(ds, j, i) /\ NamesAt(ds, k, i) => ds[j].name = ds[k].name
    /\ ds[i].args # <<>> => \E j \in 1..i : NamesAt(ds, j, i)
    /\ ds[i].args # <<>> => \E j \in 1..i : Joins(ds, j, i) /\ ds[j].id

LEMMA NamedFirstIs == ASSUME NEW ds PROVE NamedFirst(ds) <=> \A i \in DOMAIN ds : NamedAt(ds, i)
<1> DEFINE earlier(i) == {j \in 1 .. i : ds[j].slot = ds[i].slot}
           named(i) == {j \in earlier(i) : ds[j].name # ""}
           Inner(i) == /\ \A j, k \in named(i) : ds[j].name = ds[k].name
                       /\ ds[i].args # <<>> => named(i) # {} /\ \E j \in earlier(i) : ds[j].id
<1>1. NamedFirst(ds) <=> \A i \in DOMAIN ds : Inner(i)
  BY DEF NamedFirst
<1>2. /\ \A i : \A j : j \in earlier(i) <=> j \in 1..i /\ Joins(ds, j, i)
      /\ \A i : \A j : j \in named(i) <=> j \in 1..i /\ NamesAt(ds, j, i)
  BY DEF Joins, NamesAt
<1> HIDE DEF earlier, named
<1>3. \A i : named(i) # {} <=> \E j \in 1..i : NamesAt(ds, j, i)
  BY <1>2
<1>4. ASSUME NEW i PROVE Inner(i) <=> NamedAt(ds, i)
  BY <1>2, <1>3 DEF NamedAt
<1> HIDE DEF Inner
<1> QED
  BY <1>1, <1>4

\* A list of entries that is cut short is in order as well.
LEMMA NamedFirstCut ==
  ASSUME NEW ds \in Seq(CallEntry), NEW cut \in Seq(CallEntry), Len(cut) <= Len(ds),
         \A i \in 1..Len(cut) : cut[i] = ds[i], NamedFirst(ds)
  PROVE  NamedFirst(cut)
<1>1. DOMAIN ds = 1..Len(ds) /\ DOMAIN cut = 1..Len(cut) /\ Len(ds) \in Nat /\ Len(cut) \in Nat
  BY LenProperties
<1>2. \A i \in 1..Len(cut) : i \in 1..Len(ds) /\ \A j \in 1..i : j \in 1..Len(cut)
  BY <1>1
<1>3. ASSUME NEW i \in 1..Len(cut) PROVE NamedAt(cut, i)
  <2>1. NamedAt(ds, i)
    BY <1>1, <1>2, NamedFirstIs
  <2>2. cut[i] = ds[i] /\ \A j \in 1..i : cut[j] = ds[j]
    BY <1>2
  <2>4. \A j \in 1..i : (Joins(ds, j, i) <=> Joins(cut, j, i)) /\ (NamesAt(ds, j, i) <=> NamesAt(cut, j, i))
    BY <2>2 DEF Joins, NamesAt
  <2> QED
    BY <2>1, <2>2, <2>4 DEF NamedAt
<1> QED
  BY <1>1, <1>3, NamedFirstIs

\* The lists of entries on the way through those of a chunk.
LEMMA EntriesOnTheWay ==
  ASSUME NEW ds \in Seq(CallEntry), NEW s \in Seq(CallEntry), NEW k \in 1..Len(s)
  PROVE  /\ ds \o SubSeq(s, 1, k - 1) \in Seq(CallEntry)
         /\ ds \o SubSeq(s, 1, k) = Append(ds \o SubSeq(s, 1, k - 1), s[k])
         /\ NamedFirst(ds \o s) => NamedFirst(ds \o SubSeq(s, 1, k))
<1> DEFINE n == Len(s)
           m == Len(ds)
           a == SubSeq(s, 1, k - 1)
           b == SubSeq(s, 1, k)
<1>1. n \in Nat /\ m \in Nat /\ k \in Nat /\ k - 1 \in Nat /\ k <= n /\ k - 1 <= n /\ s[k] \in CallEntry
  BY LenProperties, ElementOfSeq
<1>2. a \in Seq(CallEntry) /\ Len(a) = k - 1 /\ \A i \in 1..(k - 1) : a[i] = s[i]
  BY <1>1, SubSeqProperties
<1>3. b \in Seq(CallEntry) /\ Len(b) = k /\ \A i \in 1..k : b[i] = s[i]
  BY <1>1, SubSeqProperties
<1> HIDE DEF a, b, n, m
<1>4. b = Append(a, s[k])
  <2>1. /\ Append(a, s[k]) \in Seq(CallEntry) /\ Len(Append(a, s[k])) = (k - 1) + 1
        /\ (\A i \in 1..(k - 1) : Append(a, s[k])[i] = a[i]) /\ Append(a, s[k])[(k - 1) + 1] = s[k]
    BY <1>1, <1>2, AppendIs
  <2>2. (k - 1) + 1 = k /\ \A i \in 1..k : i \in 1..(k - 1) \/ i = k
    BY <1>1
  <2> QED
    BY <1>1, <1>2, <1>3, <2>1, <2>2, SeqEqual
<1>5. ds \o Append(a, s[k]) = Append(ds \o a, s[k])
  BY <1>1, <1>2
<1>6. ds \o a \in Seq(CallEntry)
  BY <1>2
<1>7. ASSUME NamedFirst(ds \o s) PROVE NamedFirst(ds \o b)
  <2>1. /\ ds \o s \in Seq(CallEntry) /\ Len(ds \o s) = m + n
        /\ \A i \in 1..(m + n) : (ds \o s)[i] = IF i <= m THEN ds[i] ELSE s[i - m]
    BY ConcatProperties DEF m, n
  <2>2. /\ ds \o b \in Seq(CallEntry) /\ Len(ds \o b) = m + k
        /\ \A i \in 1..(m + k) : (ds \o b)[i] = IF i <= m THEN ds[i] ELSE b[i - m]
    BY <1>3, ConcatProperties DEF m
  <2>3. \A i \in 1..(m + k) : i \in 1..(m + n) /\ (~(i <= m) => i - m \in 1..k)
    BY <1>1
  <2>4. \A i \in 1..(m + k) : (ds \o b)[i] = (ds \o s)[i]
    BY <1>3, <2>1, <2>2, <2>3
  <2>5. m + k <= m + n
    BY <1>1
  <2> QED
    BY <1>7, <2>1, <2>2, <2>4, <2>5, NamedFirstCut
<1> QED
  BY <1>4, <1>5, <1>6, <1>7 DEF a, b

\* The entries of a chunk, in their order.
LEMMA EmitCallsTell ==
  ASSUME NEW said, NEW thought, NEW ds \in Seq(CallEntry), NEW last, NEW pre \in Seq(Event), NEW w,
         Tells(said, thought, ds, last, pre, w), Fresh(w.st), last => ~w.st.completed,
         NEW s \in Seq(CallEntry), NamedFirst(ds \o s)
  PROVE  /\ Tells(said, thought, ds \o s, last, pre, EmitCalls(w, s))
         /\ EmitCalls(w, s).st.thinking = w.st.thinking
         /\ EmitCalls(w, s).st.completed = w.st.completed
<1> DEFINE n == Len(s)
           Q(v, k) == /\ Tells(said, thought, ds \o SubSeq(s, 1, k), last, pre, v) /\ Fresh(v.st)
                      /\ v.st.thinking = w.st.thinking /\ v.st.completed = w.st.completed
           P == [k \in 0..n |-> {v \in Work : Q(v, k)}]
<1>0. Good(pre, w)
  BY DEF Tells
<1>1. n \in Nat /\ \A i \in 1..n : s[i] \in CallEntry
  BY LenProperties, ElementOfSeq
<1>2. PICK f : /\ EmitCalls(w, s) = f[1..n]
               /\ f[{}] = w
               /\ \A k \in 1..n : f[1..k] = emitToolCall(f[1..(k - 1)], s[k])
  BY <1>0, EmitCallsFold
<1>3. ASSUME NEW v, NEW k \in 1..n, Q(v, k - 1) PROVE Q(emitToolCall(v, s[k]), k)
  <2> DEFINE es == ds \o SubSeq(s, 1, k - 1)
             tc == s[k]
  <2>1. es \in Seq(CallEntry) /\ ds \o SubSeq(s, 1, k) = Append(es, tc) /\ NamedFirst(Append(es, tc)) /\ tc \in CallEntry
    BY <1>1, EntriesOnTheWay
  <2>2. /\ Tells(said, thought, es, last, pre, v) /\ Fresh(v.st) /\ Good(pre, v)
        /\ v.st.thinking = w.st.thinking /\ v.st.completed = w.st.completed /\ (last => ~v.st.completed)
    BY <1>3 DEF Tells
  <2> HIDE DEF es, tc, Q
  <2>3. /\ Tells(said, thought, Append(es, tc), last, pre, emitToolCall(v, tc))
        /\ emitToolCall(v, tc).st.thinking = v.st.thinking
        /\ emitToolCall(v, tc).st.completed = v.st.completed
    BY <2>1, <2>2, EmitToolCallTells
  <2>4. Fresh(emitToolCall(v, tc).st)
    BY <2>1, <2>2, ToolCallKeeps
  <2> QED
    BY <2>1, <2>2, <2>3, <2>4 DEF Q, tc
<1>4. Q(w, 0)
  <2>1. SubSeq(s, 1, 0) = <<>> /\ ds \o <<>> = ds
    BY ConcatEmptySeq, <1>1
  <2> QED
    BY <2>1
<1>5. \A v : \A k : Q(v, k) => v \in Work
  BY DEF Tells, Good
<1>12. SubSeq(s, 1, n) = s
  BY SubSeqFull
<1> HIDE DEF n, Q
<1>6. \A k \in 0..n : P[k] = {v \in Work : Q(v, k)}
  OBVIOUS
<1>7. 0 \in 0..n /\ n \in 0..n /\ \A k \in 1..n : k \in 0..n /\ k - 1 \in 0..n
  BY <1>1
<1> HIDE DEF P
<1>8. f[{}] \in P[0]
  BY <1>2, <1>4, <1>5, <1>6, <1>7
<1>9. \A k \in 1..n : f[1..(k - 1)] \in P[k - 1] => f[1..k] \in P[k]
  BY <1>2, <1>3, <1>5, <1>6, <1>7
<1>10. f[1..n] \in P[n]
  BY <1>1, <1>8, <1>9, FoldAlongSegments
<1>11. Q(EmitCalls(w, s), n)
  BY <1>2, <1>6, <1>7, <1>10
<1> QED
  BY <1>11, <1>12 DEF Q

\* Every call with an id has been closed by the end.
CallsOver(w) == \A n \in CallSlots : w.st.func[n].id => w.st.func[n].done

LEMMA CloseAllTells ==
  ASSUME NEW said, NEW thought, NEW ds, NEW last, NEW pre \in Seq(Event), NEW w,
         Tells(said, thought, ds, last, pre, w)
  PROVE  /\ Tells(said, thought, ds, last, pre, CloseAll(w))
         /\ CloseAll(w).st.thinking = w.st.thinking
         /\ CallsOver(CloseAll(w))
<1> DEFINE a == CloseMessages(w, Ascending(ChoiceIds))
           b == closeReasoning(a)
           c == CloseCalls(b, Ascending(CallSlots))
           n == Len(Ascending(CallSlots))
           z == CloseAll(w)
<1>1. z = sendCompleted(c)
  BY DEF CloseAll, CloseMessages, CloseCalls
<1>2. /\ Ascending(ChoiceIds) \in Seq(ChoiceIds) /\ Ascending(CallSlots) \in Seq(CallSlots)
      /\ \A x \in CallSlots : \E i \in 1..n : Ascending(CallSlots)[i] = x
  BY IndicesAssumption, AscendingIs
<1>3. Tells(said, thought, ds, last, pre, a) /\ a.st.thinking = w.st.thinking
  BY <1>2, CloseMessagesTell
<1> HIDE DEF a
<1>4. Tells(said, thought, ds, last, pre, b) /\ b.st.thinking = w.st.thinking
  BY <1>3, CloseReasoningTells
<1> HIDE DEF b
<1>5. /\ Tells(said, thought, ds, last, pre, c) /\ c.st.thinking = w.st.thinking
      /\ EveryOver(c, Ascending(CallSlots))
  BY <1>2, <1>4, CloseCallsTell
<1> HIDE DEF c
<1>6. CallsOver(c)
  BY <1>2, <1>5 DEF CallsOver, EveryOver
<1>7. Good(pre, z)
  BY CloseAllKeeps DEF Tells, z
<1> HIDE DEF z, n
<1>8. /\ Tells(said, thought, ds, last, pre, sendCompleted(c))
      /\ sendCompleted(c).st.thinking = c.st.thinking /\ sendCompleted(c).st.func = c.st.func
  BY <1>1, <1>5, <1>7, SendCompletedTells
<1>9. CallsOver(z)
  BY <1>1, <1>6, <1>8 DEF CallsOver
<1> QED
  BY <1>1, <1>5, <1>8, <1>9 DEF z

-----------------------------------------------------------------------------
(* One chunk against what it says. *)

\* What a chunk says after another, t being whether thinking goes on.
WithinThought(t, c) == c.content.opens \/ t
ThinksOn(t, c) == WithinThought(t, c) /\ ~c.content.closes
ThoughtOf(t, c) == c.reasoning \o (IF WithinThought(t, c) THEN c.content.head ELSE <<>>)
SaidOf(t, c) == (IF WithinThought(t, c) THEN <<>> ELSE c.content.head) \o c.content.tail

LEMMA ReasoningFieldTells ==
  ASSUME NEW said, NEW thought \in Text, NEW ds, NEW last, NEW pre \in Seq(Event), NEW w,
         Tells(said, thought, ds, last, pre, w), NEW c \in ChatChunk
  PROVE  /\ Tells(said, thought \o c.reasoning, ds, last, pre, ReasoningField(w, c))
         /\ ReasoningField(w, c).st.thinking = w.st.thinking
<1> DEFINE a == startReasoning(w, c.choice)
<1>1. c.choice \in ChoiceIds /\ c.reasoning \in Text
  BY DEF ChatChunk
<1>2. CASE c.reasoning = <<>>
  <2>1. thought \o <<>> = thought
    BY TextAlone
  <2> QED
    BY <1>2, <2>1 DEF ReasoningField
<1>3. CASE c.reasoning # <<>>
  <2>1. /\ Tells(said, thought, ds, last, pre, a) /\ a.st.reasoning.at # <<>>
        /\ a.st.thinking = w.st.thinking
    BY <1>1, StartReasoningTells
  <2>2. ReasoningField(w, c) = emitReasoningDelta(a, c.reasoning)
    BY <1>3 DEF ReasoningField
  <2> HIDE DEF a
  <2>3. /\ Tells(said, thought \o c.reasoning, ds, last, pre, emitReasoningDelta(a, c.reasoning))
        /\ emitReasoningDelta(a, c.reasoning).st.thinking = a.st.thinking
    BY <1>1, <2>1, ReasoningDeltaTells
  <2> QED
    BY <2>1, <2>2, <2>3
<1> QED
  BY <1>2, <1>3

LEMMA ThinksTells ==
  ASSUME NEW said, NEW thought, NEW ds, NEW last, NEW pre \in Seq(Event), NEW w,
         Tells(said, thought, ds, last, pre, w), NEW b \in BOOLEAN, b => w.st.reasoning.at # <<>>
  PROVE  Tells(said, thought, ds, last, pre, Thinks(w, b)) /\ Thinks(w, b).st.thinking = b
<1>1. Good(pre, Thinks(w, b)) /\ w \in Work
  BY FlagsKeep DEF Tells, Good
<1>2. /\ Thinks(w, b).out = w.out /\ Thinks(w, b).st.reasoning = w.st.reasoning
      /\ Thinks(w, b).st.msg = w.st.msg /\ Thinks(w, b).st.func = w.st.func /\ Thinks(w, b).st.thinking = b
  BY <1>1 DEF Thinks, Work, ChatState
<1> QED
  BY <1>1, <1>2, MarkedTells

\* startReasoning does not look at the mark of thinking.
LEMMA StartThinking ==
  ASSUME NEW w \in Work, NEW c \in ChoiceIds
  PROVE  startReasoning(Thinks(w, TRUE), c) = Thinks(startReasoning(w, c), TRUE)
<1>1. CASE w.st.reasoning.at # <<>>
  BY <1>1 DEF startReasoning, Thinks, Work, ChatState
<1>2. CASE w.st.reasoning.at = <<>>
  BY <1>2 DEF startReasoning, Thinks, Work, ChatState, Emit
<1> QED
  BY <1>1, <1>2

\* Neither the reasoning nor the marks touch a call or end the response.
LEMMA MarksBeside ==
  ASSUME NEW pre \in Seq(Event), NEW v, Steady(pre, v), NEW c \in ChatChunk
  PROVE  /\ Marks(ReasoningField(v, c), c).st.completed = v.st.completed
         /\ Marks(ReasoningField(v, c), c).st.func = v.st.func
<1> DEFINE a == startReasoning(v, c.choice)
           r == ReasoningField(v, c)
           o == startReasoning(Thinks(r, TRUE), c.choice)
           opened == IF c.content.opens THEN o ELSE r
           told == emitReasoningDelta(opened, c.content.head)
           x == closeReasoning(told)
<1>1. c.choice \in ChoiceIds /\ c.content.head \in Text /\ c.reasoning \in Text /\ Good(pre, v)
  BY DEF ChatChunk, Steady
<1>2. Good(pre, a) /\ Beside(v, a)
  BY <1>1, StartReasoningKeeps
<1>3. Good(pre, emitReasoningDelta(a, c.reasoning)) /\ Beside(a, emitReasoningDelta(a, c.reasoning))
  BY <1>1, <1>2, ReasoningDeltaKeeps
<1>4. Good(pre, r) /\ Beside(v, r)
  BY <1>1, <1>2, <1>3 DEF ReasoningField, Beside
<1>5. Marks(r, c) = IF c.content.closes THEN Thinks(x, FALSE) ELSE opened
  BY DEF Marks, Thinks
<1> HIDE DEF r, a
<1>6. Good(pre, Thinks(r, TRUE)) /\ Beside(r, Thinks(r, TRUE))
  BY <1>4, FlagsKeep
<1>7. Good(pre, o) /\ Beside(Thinks(r, TRUE), o)
  BY <1>1, <1>6, StartReasoningKeeps
<1> HIDE DEF o
<1>8. Good(pre, opened) /\ Beside(r, opened)
  BY <1>4, <1>6, <1>7 DEF Beside
<1> HIDE DEF opened
<1>9. Good(pre, told) /\ Beside(opened, told)
  BY <1>1, <1>8, ReasoningDeltaKeeps
<1> HIDE DEF told
<1>10. Good(pre, x) /\ Beside(told, x)
  BY <1>9, CloseReasoningKeeps
<1> HIDE DEF x
<1>11. Beside(x, Thinks(x, FALSE))
  BY <1>10, FlagsKeep
<1> QED
  BY <1>4, <1>5, <1>8, <1>9, <1>10, <1>11 DEF Beside, r

\* The text a closing mark is found behind is thought.
LEMMA MarksTell ==
  ASSUME NEW said, NEW thought \in Text, NEW ds, NEW last, NEW pre \in Seq(Event), NEW w,
         Tells(said, thought, ds, last, pre, w), NEW c \in ChatChunk,
         c.content.closes => WithinThought(w.st.thinking, c)
  PROVE  /\ Tells(said, thought \o (IF c.content.closes THEN c.content.head ELSE <<>>), ds, last, pre, Marks(w, c))
         /\ Marks(w, c).st.thinking = ThinksOn(w.st.thinking, c)
<1> DEFINE a == startReasoning(w, c.choice)
           opened == IF c.content.opens THEN Thinks(a, TRUE) ELSE w
           told == emitReasoningDelta(opened, c.content.head)
<1>1. /\ c.choice \in ChoiceIds /\ c.content.head \in Text /\ w \in Work
      /\ c.content.opens \in BOOLEAN /\ c.content.closes \in BOOLEAN /\ w.st.thinking \in BOOLEAN
  BY WorkIs DEF ChatChunk, Tells, Good
<1>2. Marks(w, c) = IF c.content.closes THEN Thinks(closeReasoning(told), FALSE) ELSE opened
  BY <1>1, StartThinking DEF Marks, Thinks
<1>3. Tells(said, thought, ds, last, pre, a) /\ a.st.reasoning.at # <<>>
  BY <1>1, StartReasoningTells
<1> HIDE DEF a
<1>4. TRUE \in BOOLEAN /\ FALSE \in BOOLEAN
  OBVIOUS
<1>5. Tells(said, thought, ds, last, pre, Thinks(a, TRUE)) /\ Thinks(a, TRUE).st.thinking = TRUE
  BY <1>3, <1>4, ThinksTells
<1>6. Tells(said, thought, ds, last, pre, opened) /\ opened.st.thinking = WithinThought(w.st.thinking, c)
  BY <1>1, <1>5 DEF WithinThought
<1> HIDE DEF opened
<1>7. CASE ~c.content.closes
  <2>1. thought \o <<>> = thought
    BY TextAlone
  <2>2. ThinksOn(w.st.thinking, c) = WithinThought(w.st.thinking, c)
    BY <1>1, <1>7 DEF ThinksOn, WithinThought
  <2> QED
    BY <1>2, <1>6, <1>7, <2>1, <2>2
<1>8. CASE c.content.closes
  <2>1. opened.st.reasoning.at # <<>>
    BY <1>6, <1>8 DEF Tells
  <2>2. Tells(said, thought \o c.content.head, ds, last, pre, told)
    BY <1>1, <1>6, <2>1, ReasoningDeltaTells
  <2> HIDE DEF told
  <2>3. Tells(said, thought \o c.content.head, ds, last, pre, closeReasoning(told))
    BY <2>2, CloseReasoningTells
  <2>4. /\ Tells(said, thought \o c.content.head, ds, last, pre, Thinks(closeReasoning(told), FALSE))
        /\ Thinks(closeReasoning(told), FALSE).st.thinking = FALSE
    BY <1>4, <2>3, ThinksTells
  <2>5. ThinksOn(w.st.thinking, c) = FALSE
    BY <1>8 DEF ThinksOn
  <2> QED
    BY <1>2, <1>8, <2>4, <2>5
<1> QED
  BY <1>7, <1>8

LEMMA ToolCallsTell ==
  ASSUME NEW said, NEW thought, NEW ds \in Seq(CallEntry), NEW last, NEW pre \in Seq(Event), NEW w,
         Tells(said, thought, ds, last, pre, w), Fresh(w.st), last => ~w.st.completed,
         NEW c \in ChatChunk, NamedFirst(ds \o c.calls)
  PROVE  /\ Tells(said, thought, ds \o c.calls, last, pre, ToolCalls(w, c))
         /\ ToolCalls(w, c).st.thinking = w.st.thinking
         /\ ToolCalls(w, c).st.completed = w.st.completed
<1> DEFINE a == closeMessage(w, c.choice)
<1>1. c.choice \in ChoiceIds /\ c.calls \in Seq(CallEntry) /\ Good(pre, w)
  BY DEF ChatChunk, Tells
<1>2. CASE c.calls = <<>>
  <2>1. ds \o <<>> = ds
    BY ConcatEmptySeq
  <2> QED
    BY <1>2, <2>1 DEF ToolCalls
<1>3. CASE c.calls # <<>>
  <2>1. ToolCalls(w, c) = EmitCalls(a, c.calls)
    BY <1>3 DEF ToolCalls, EmitCalls
  <2>2. /\ Tells(said, thought, ds, last, pre, a)
        /\ a.st.thinking = w.st.thinking /\ a.st.func = w.st.func /\ a.st.completed = w.st.completed
    <3> DEFINE i == c.choice
    <3>1. i \in ChoiceIds
      BY <1>1
    <3> HIDE DEF i
    <3>2. /\ Tells(said, thought, ds, last, pre, closeMessage(w, i))
          /\ closeMessage(w, i).st.thinking = w.st.thinking /\ closeMessage(w, i).st.func = w.st.func
          /\ closeMessage(w, i).st.completed = w.st.completed
      BY <3>1, CloseMessageTells
    <3> QED
      BY <3>2 DEF i
  <2>3. Fresh(a.st) /\ (last => ~a.st.completed)
    BY <2>2 DEF Fresh
  <2> HIDE DEF a
  <2>4. /\ Tells(said, thought, ds \o c.calls, last, pre, EmitCalls(a, c.calls))
        /\ EmitCalls(a, c.calls).st.thinking = a.st.thinking
        /\ EmitCalls(a, c.calls).st.completed = a.st.completed
    BY <1>1, <2>2, <2>3, EmitCallsTell
  <2> QED
    BY <2>1, <2>2, <2>4
<1> QED
  BY <1>2, <1>3

\* A chunk that keeps to the order of the marks and of the calls tells what it
\* says.
LEMMA DeltaTells ==
  ASSUME NEW said \in Text, NEW thought \in Text, NEW ds \in Seq(CallEntry), NEW last, NEW pre \in Seq(Event), NEW v,
         Tells(said, thought, ds, last, pre, v), Fresh(v.st), last => ~v.st.completed, NEW c \in ChatChunk,
         c.content.closes => WithinThought(v.st.thinking, c),
         c.calls # <<>> => ~ThinksOn(v.st.thinking, c), NamedFirst(ds \o c.calls)
  PROVE  /\ Tells(said \o SaidOf(v.st.thinking, c), thought \o ThoughtOf(v.st.thinking, c), ds \o c.calls,
                  last, pre, Delta(v, c))
         /\ Delta(v, c).st.thinking = ThinksOn(v.st.thinking, c)
         /\ Delta(v, c).st.completed => v.st.completed \/ (c.finish /\ CallsOver(Delta(v, c)))
<1> DEFINE t == v.st.thinking
           w == Marks(ReasoningField(v, c), c)
           text == Remaining(c)
           placed == IF text = <<>> THEN w ELSE emitTextContent(w, c.choice, text)
           called == ToolCalls(placed, c)
           z == Delta(v, c)
           marked == IF c.content.closes THEN c.content.head ELSE <<>>
           soFar == (thought \o c.reasoning) \o marked
<1>1. /\ c.choice \in ChoiceIds /\ text \in Text /\ c.reasoning \in Text /\ c.content.head \in Text
      /\ c.content.tail \in Text /\ (c.content.closes \/ c.content.tail = <<>>)
      /\ c.content.opens \in BOOLEAN /\ c.content.closes \in BOOLEAN /\ c.calls \in Seq(CallEntry)
      /\ <<>> \in Text /\ marked \in Text
  BY ItemsAre DEF ChatChunk, Remaining
<1>2. z = IF w.st.thinking /\ text # <<>> THEN emitReasoningDelta(w, text)
          ELSE IF c.finish THEN CloseAll(called) ELSE called
  BY DEF Delta
<1>3. thought \o c.reasoning \in Text /\ soFar \in Text
  BY <1>1, TextJoins
<1>4. /\ Tells(said, thought \o c.reasoning, ds, last, pre, ReasoningField(v, c))
      /\ ReasoningField(v, c).st.thinking = t
  BY ReasoningFieldTells
<1>5. Tells(said, soFar, ds, last, pre, w) /\ w.st.thinking = ThinksOn(t, c)
  <2> DEFINE u == ReasoningField(v, c)
             told == thought \o c.reasoning
  <2>1. c.content.closes => WithinThought(u.st.thinking, c)
    BY <1>4
  <2> HIDE DEF u, told
  <2>2. /\ Tells(said, told \o (IF c.content.closes THEN c.content.head ELSE <<>>), ds, last, pre, Marks(u, c))
        /\ Marks(u, c).st.thinking = ThinksOn(u.st.thinking, c)
    BY <1>3, <1>4, <2>1, MarksTell DEF u, told
  <2> QED
    BY <1>4, <2>2 DEF u, told
<1>6. w.st.completed = v.st.completed /\ w.st.func = v.st.func
  <2>1. Steady(pre, v)
    BY DEF Steady, Tells
  <2> QED
    BY <2>1, MarksBeside
<1> HIDE DEF w
<1>7. v.st.thinking \in BOOLEAN /\ Good(pre, v) /\ Good(pre, w)
  BY <1>5, WorkIs DEF Tells, Good
<1>8. /\ ThoughtOf(t, c) = c.reasoning \o (IF WithinThought(t, c) THEN c.content.head ELSE <<>>)
      /\ thought \o ThoughtOf(t, c) = (thought \o c.reasoning) \o (IF WithinThought(t, c) THEN c.content.head ELSE <<>>)
  <2> DEFINE x == IF WithinThought(t, c) THEN c.content.head ELSE <<>>
             r == c.reasoning
  <2>1. x \in Text /\ r \in Text
    BY <1>1
  <2>2. ThoughtOf(t, c) = r \o x
    BY DEF ThoughtOf
  <2> HIDE DEF x, r
  <2>3. thought \in Seq(Fragment) /\ r \in Seq(Fragment) /\ x \in Seq(Fragment)
    BY <2>1 DEF Text
  <2>4. (thought \o r) \o x = thought \o (r \o x)
    BY <2>3, ConcatAssociative
  <2> QED
    BY <2>2, <2>4 DEF x, r
<1>9. CASE w.st.thinking /\ text # <<>>
  <2>1. WithinThought(t, c) /\ ~c.content.closes /\ c.calls = <<>> /\ c.content.tail = <<>>
    BY <1>1, <1>5, <1>9 DEF ThinksOn
  <2>2. text = c.content.head /\ marked = <<>>
    BY <2>1 DEF Remaining
  <2>3. soFar = thought \o c.reasoning
    BY <1>3, <2>2, TextAlone
  <2>4. ds \o <<>> = ds
    BY ConcatEmptySeq
  <2>5. SaidOf(t, c) = <<>> /\ said \o <<>> = said
    <3>1. <<>> \o <<>> = <<>> /\ said \o <<>> = said
      BY <1>1, TextAlone
    <3> QED
      BY <2>1, <3>1 DEF SaidOf
  <2>6. thought \o ThoughtOf(t, c) = soFar \o text
    BY <1>8, <2>1, <2>2, <2>3
  <2>7. w.st.reasoning.at # <<>>
    BY <1>5, <1>9 DEF Tells
  <2> HIDE DEF soFar, text, z
  <2>8. /\ Tells(said, soFar \o text, ds, last, pre, emitReasoningDelta(w, text))
        /\ emitReasoningDelta(w, text).st.thinking = w.st.thinking
    BY <1>1, <1>3, <1>5, <2>7, ReasoningDeltaTells
  <2>9. emitReasoningDelta(w, text).st.completed = w.st.completed
    BY <1>1, <1>7, ReasoningDeltaKeeps DEF Beside
  <2>10. z = emitReasoningDelta(w, text)
    BY <1>2, <1>9
  <2> QED
    BY <1>5, <1>6, <2>1, <2>4, <2>5, <2>6, <2>8, <2>9, <2>10 DEF z
<1>10. CASE ~(w.st.thinking /\ text # <<>>)
  <2>1. soFar = thought \o ThoughtOf(t, c)
    <3>1. CASE c.content.closes
      BY <1>8, <3>1
    <3>2. CASE ~c.content.closes
      <4>1. WithinThought(t, c) => c.content.head = <<>>
        BY <1>5, <1>10, <3>2 DEF ThinksOn, Remaining
      <4> QED
        BY <1>8, <3>2, <4>1
    <3> QED
      BY <3>1, <3>2
  <2>2. SaidOf(t, c) = text
    <3>1. <<>> \o c.content.tail = c.content.tail /\ c.content.head \o <<>> = c.content.head /\ <<>> \o <<>> = <<>>
      BY <1>1, TextAlone
    <3>2. CASE c.content.closes
      BY <3>1, <3>2 DEF SaidOf, Remaining
    <3>3. CASE ~c.content.closes
      <4>1. WithinThought(t, c) => c.content.head = <<>>
        BY <1>5, <1>10, <3>3 DEF ThinksOn, Remaining
      <4> QED
        BY <1>1, <3>1, <3>3, <4>1 DEF SaidOf, Remaining
    <3> QED
      BY <3>2, <3>3
  <2> HIDE DEF soFar, text
  <2>3. /\ Tells(said \o text, soFar, ds, last, pre, placed) /\ placed.st.thinking = w.st.thinking
        /\ placed.st.completed = w.st.completed /\ placed.st.func = w.st.func
    <3>1. CASE text = <<>>
      <4>1. said \o <<>> = said
        BY TextAlone
      <4> QED
        BY <1>5, <3>1, <4>1
    <3>2. CASE text # <<>>
      <4>1. /\ Tells(said \o text, soFar, ds, last, pre, emitTextContent(w, c.choice, text))
            /\ emitTextContent(w, c.choice, text).st.thinking = w.st.thinking
            /\ emitTextContent(w, c.choice, text).st.func = w.st.func
        BY <1>1, <1>5, TextTells, SMTT(60)
      <4>2. emitTextContent(w, c.choice, text).st.completed = w.st.completed
        BY <1>1, <1>7, TextKeeps DEF Beside
      <4> QED
        BY <3>2, <4>1, <4>2
    <3> QED
      BY <3>1, <3>2
  <2> HIDE DEF placed
  <2>4. Fresh(placed.st) /\ (last => ~placed.st.completed)
    BY <1>6, <2>3 DEF Fresh
  <2>5. /\ Tells(said \o text, soFar, ds \o c.calls, last, pre, called)
        /\ called.st.thinking = placed.st.thinking /\ called.st.completed = placed.st.completed
    BY <2>3, <2>4, ToolCallsTell
  <2> HIDE DEF called
  <2>6. /\ Tells(said \o text, soFar, ds \o c.calls, last, pre, CloseAll(called))
        /\ CloseAll(called).st.thinking = called.st.thinking /\ CallsOver(CloseAll(called))
    BY <2>5, CloseAllTells
  <2>7. z = IF c.finish THEN CloseAll(called) ELSE called
    BY <1>2, <1>10 DEF text
  <2> HIDE DEF z
  <2>8. Tells(said \o text, soFar, ds \o c.calls, last, pre, z) /\ z.st.thinking = ThinksOn(t, c)
    BY <1>5, <2>3, <2>5, <2>6, <2>7
  <2>9. z.st.completed => v.st.completed \/ (c.finish /\ CallsOver(z))
    BY <1>6, <2>3, <2>5, <2>6, <2>7
  <2> QED
    BY <2>1, <2>2, <2>8, <2>9 DEF z
<1> QED
  BY <1>9, <1>10

LEMMA ConvertChatTells ==
  ASSUME NEW said \in Text, NEW thought \in Text, NEW ds \in Seq(CallEntry), NEW last, NEW pre \in Seq(Event), NEW v,
         Tells(said, thought, ds, last, pre, v), v.out = <<>>, Fresh(v.st), last => ~v.st.completed,
         NEW c \in ChatChunk, c.kind = "chunk",
         c.content.closes => WithinThought(v.st.thinking, c),
         c.calls # <<>> => ~ThinksOn(v.st.thinking, c), NamedFirst(ds \o c.calls)
  PROVE  /\ Tells(said \o SaidOf(v.st.thinking, c), thought \o ThoughtOf(v.st.thinking, c), ds \o c.calls,
                  last, pre, ConvertChat(v.st, c))
         /\ ConvertChat(v.st, c).st.thinking = ThinksOn(v.st.thinking, c)
         /\ ConvertChat(v.st, c).st.completed => v.st.completed \/ (c.finish /\ CallsOver(ConvertChat(v.st, c)))
<1> DEFINE u == scaffold(v)
<1>1. v = [st |-> v.st, out |-> <<>>]
  BY DEF Tells, Good, Work
<1>2. ConvertChat(v.st, c) = Delta(u, c)
  BY <1>1 DEF ConvertChat
<1>3. /\ Tells(said, thought, ds, last, pre, u)
      /\ u.st.thinking = v.st.thinking /\ u.st.completed = v.st.completed /\ Fresh(u.st)
  BY ScaffoldTells
<1> HIDE DEF u
<1>4. /\ Tells(said \o SaidOf(u.st.thinking, c), thought \o ThoughtOf(u.st.thinking, c), ds \o c.calls,
               last, pre, Delta(u, c))
      /\ Delta(u, c).st.thinking = ThinksOn(u.st.thinking, c)
      /\ Delta(u, c).st.completed => u.st.completed \/ (c.finish /\ CallsOver(Delta(u, c)))
  <2>1. /\ c.content.closes => WithinThought(u.st.thinking, c)
        /\ c.calls # <<>> => ~ThinksOn(u.st.thinking, c)
        /\ last => ~u.st.completed
    BY <1>3
  <2> QED
    BY <1>3, <2>1, DeltaTells
<1> QED
  BY <1>2, <1>3, <1>4

LEMMA FlushTells ==
  ASSUME NEW said, NEW thought, NEW ds, NEW last, NEW pre \in Seq(Event), NEW v,
         Tells(said, thought, ds, last, pre, v), v.out = <<>>
  PROVE  /\ Tells(said, thought, ds, last, pre, flushEvents(v.st))
         /\ flushEvents(v.st).st.thinking = v.st.thinking
         /\ CallsOver(flushEvents(v.st)) \/ (v.st.completed /\ flushEvents(v.st).st = v.st)
<1>1. v = [st |-> v.st, out |-> <<>>]
  BY DEF Tells, Good, Work
<1>2. flushEvents(v.st) = IF v.st.completed THEN v ELSE CloseAll(v)
  BY <1>1 DEF flushEvents
<1>3. /\ Tells(said, thought, ds, last, pre, CloseAll(v))
      /\ CloseAll(v).st.thinking = v.st.thinking /\ CallsOver(CloseAll(v))
  BY CloseAllTells
<1> QED
  BY <1>2, <1>3

-----------------------------------------------------------------------------
(* What the chunks say, one chunk more. *)

LEMMA ChunksNext ==
  ASSUME NEW b \in Seq(ChatChunk), NEW e \in ChatChunk
  PROVE  /\ Chunks(b) \in Seq(ChatChunk)
         /\ Chunks(Append(b, e)) = IF e.kind = "chunk" THEN Append(Chunks(b), e) ELSE Chunks(b)
<1>1. /\ Of(b, "chunk") \in Seq(ChatChunk) /\ OfCall(b, "chunk", 0) \in Seq(ChatChunk)
      /\ Of(Append(b, e), "chunk") = IF e.kind = "chunk" THEN Append(Of(b, "chunk"), e) ELSE Of(b, "chunk")
      /\ OfCall(Append(b, e), "chunk", 0) =
            IF e.kind = "chunk" /\ e.index = 0 THEN Append(OfCall(b, "chunk", 0), e) ELSE OfCall(b, "chunk", 0)
  BY OfAppend
<1> QED
  BY <1>1 DEF Chunks

LEMMA ThinkingNext ==
  ASSUME NEW cs \in Seq(ChatChunk), NEW c \in ChatChunk
  PROVE  /\ \A i \in 1..(Len(cs) + 1) : Thinking(Append(cs, c), i - 1) <=> Thinking(cs, i - 1)
         /\ \A i \in 1..Len(cs) : Thinking(Append(cs, c), i) <=> Thinking(cs, i)
         /\ Thinking(Append(cs, c), Len(cs) + 1) <=> ThinksOn(Thinking(cs, Len(cs)), c)
<1> DEFINE n == Len(cs)
           d == Append(cs, c)
<1>1. n \in Nat /\ (\A i \in 1..n : d[i] = cs[i]) /\ d[n + 1] = c
  BY AppendIs
<1> HIDE DEF d, n
<1>2. \A i \in 0..n : Thinking(d, i) <=> Thinking(cs, i)
  <2> TAKE i \in 0..n
  <2>1. \A j \in 1..i : j \in 1..n /\ \A k \in j..i : k \in 1..n
    BY <1>1
  <2> QED
    BY <1>1, <2>1 DEF Thinking
<1>3. \A i \in 1..(n + 1) : i - 1 \in 0..n
  BY <1>1
<1>4. \A i \in 1..n : i \in 0..n
  BY <1>1
<1>5. Thinking(d, n + 1) <=> ThinksOn(Thinking(d, n), c)
  <2>1. \A j \in 1..(n + 1) : j \in 1..n \/ j = n + 1
    BY <1>1
  <2>2. /\ \A j \in 1..n : j \in 1..(n + 1) /\ n + 1 \in j..(n + 1) /\ \A k \in j..n : k \in j..(n + 1)
        /\ \A j \in 1..n : \A k \in j..(n + 1) : k \in j..n \/ k = n + 1
        /\ n + 1 \in 1..(n + 1) /\ \A k \in (n + 1)..(n + 1) : k = n + 1
        /\ n + 1 \in (n + 1)..(n + 1)
    BY <1>1
  <2>3. ASSUME Thinking(d, n + 1) PROVE ThinksOn(Thinking(d, n), c)
    <3>1. PICK j \in 1..(n + 1) : d[j].content.opens /\ \A k \in j..(n + 1) : ~d[k].content.closes
      BY <2>3 DEF Thinking
    <3>2. CASE j = n + 1
      BY <1>1, <2>2, <3>1, <3>2 DEF ThinksOn, WithinThought
    <3>3. CASE j \in 1..n
      <4>1. Thinking(d, n) /\ ~c.content.closes
        BY <1>1, <2>2, <3>1, <3>3 DEF Thinking
      <4> QED
        BY <4>1 DEF ThinksOn, WithinThought
    <3> QED
      BY <2>1, <3>1, <3>2, <3>3
  <2>4. ASSUME ThinksOn(Thinking(d, n), c) PROVE Thinking(d, n + 1)
    <3>1. ~c.content.closes
      BY <2>4 DEF ThinksOn
    <3>2. CASE c.content.opens
      BY <1>1, <2>2, <3>1, <3>2 DEF Thinking
    <3>3. CASE Thinking(d, n)
      <4>1. PICK j \in 1..n : d[j].content.opens /\ \A k \in j..n : ~d[k].content.closes
        BY <3>3 DEF Thinking
      <4>2. \A k \in j..(n + 1) : ~d[k].content.closes
        BY <1>1, <2>2, <3>1, <4>1
      <4> QED
        BY <2>2, <4>1, <4>2 DEF Thinking
    <3> QED
      BY <2>4, <3>2, <3>3 DEF ThinksOn, WithinThought
  <2> QED
    BY <2>3, <2>4 DEF ThinksOn, Thinking
<1>6. n \in 0..n
  BY <1>1
<1>7. Thinking(d, n) <=> Thinking(cs, n)
  BY <1>2, <1>6
<1> QED
  BY <1>2, <1>3, <1>4, <1>5, <1>7 DEF n, d, ThinksOn, WithinThought

LEMMA InThoughtNext ==
  ASSUME NEW cs \in Seq(ChatChunk), NEW c \in ChatChunk
  PROVE  /\ \A i \in 1..Len(cs) : InThought(Append(cs, c), i) <=> InThought(cs, i)
         /\ InThought(Append(cs, c), Len(cs) + 1) <=> WithinThought(Thinking(cs, Len(cs)), c)
<1> DEFINE n == Len(cs)
           d == Append(cs, c)
<1>1. n \in Nat /\ (\A i \in 1..n : d[i] = cs[i]) /\ d[n + 1] = c
  BY AppendIs
<1>2. /\ \A i \in 1..(n + 1) : Thinking(d, i - 1) <=> Thinking(cs, i - 1)
      /\ \A i \in 1..n : Thinking(d, i) <=> Thinking(cs, i)
      /\ Thinking(d, n + 1) <=> ThinksOn(Thinking(cs, n), c)
  BY ThinkingNext
<1> HIDE DEF d, n
<1>3. \A i \in 1..n : i \in 1..(n + 1)
  BY <1>1
<1>4. n + 1 \in 1..(n + 1) /\ (n + 1) - 1 = n
  BY <1>1
<1>5. Thinking(d, (n + 1) - 1) <=> Thinking(cs, n)
  BY <1>2, <1>4
<1>6. InThought(d, n + 1) <=> WithinThought(Thinking(cs, n), c)
  BY <1>1, <1>5 DEF InThought, WithinThought
<1>7. \A i \in 1..n : InThought(d, i) <=> InThought(cs, i)
  BY <1>1, <1>2, <1>3 DEF InThought
<1> QED
  BY <1>6, <1>7 DEF n, d

\* What the place of a chunk says and thinks.
LEMMA SaidAtTyped ==
  ASSUME NEW cs \in Seq(ChatChunk), NEW i \in 1..Len(cs)
  PROVE  SaidAt(cs, i) \in Text /\ ThoughtAt(cs, i) \in Text
<1> DEFINE c == cs[i]
           said == IF InThought(cs, i) THEN <<>> ELSE c.content.head
           thought == IF InThought(cs, i) THEN c.content.head ELSE <<>>
<1>1. c \in ChatChunk
  BY ElementOfSeq
<1>2. c.content.head \in Text /\ c.content.tail \in Text /\ c.reasoning \in Text /\ <<>> \in Text
  BY <1>1, ItemsAre DEF ChatChunk
<1>3. said \in Text /\ thought \in Text
  BY <1>2
<1> HIDE DEF said, thought
<1>4. said \o c.content.tail \in Text /\ c.reasoning \o thought \in Text
  BY <1>2, <1>3, TextJoins
<1> QED
  BY <1>4 DEF SaidAt, ThoughtAt, said, thought

LEMMA ChunkSays ==
  ASSUME NEW cs \in Seq(ChatChunk), NEW c \in ChatChunk, NEW t \in BOOLEAN, t <=> Thinking(cs, Len(cs))
  PROVE  /\ \A i \in 1..Len(cs) : /\ SaidAt(Append(cs, c), i) = SaidAt(cs, i)
                                   /\ ThoughtAt(Append(cs, c), i) = ThoughtAt(cs, i)
         /\ SaidAt(Append(cs, c), Len(cs) + 1) = SaidOf(t, c)
         /\ ThoughtAt(Append(cs, c), Len(cs) + 1) = ThoughtOf(t, c)
<1> DEFINE n == Len(cs)
           d == Append(cs, c)
<1>1. (\A i \in 1..n : d[i] = cs[i]) /\ d[n + 1] = c
  BY AppendIs
<1>2. /\ \A i \in 1..n : InThought(d, i) <=> InThought(cs, i)
      /\ InThought(d, n + 1) <=> WithinThought(Thinking(cs, n), c)
  BY InThoughtNext
<1> HIDE DEF d
<1>3. /\ \A i \in 1..n : SaidAt(d, i) = SaidAt(cs, i) /\ ThoughtAt(d, i) = ThoughtAt(cs, i)
      /\ SaidAt(d, n + 1) = SaidOf(t, c) /\ ThoughtAt(d, n + 1) = ThoughtOf(t, c)
  BY <1>1, <1>2 DEF SaidAt, ThoughtAt, SaidOf, ThoughtOf, WithinThought
<1> QED
  BY <1>3 DEF d

LEMMA TextsOfChunksNext ==
  ASSUME NEW cs \in Seq(ChatChunk), NEW c \in ChatChunk, NEW t \in BOOLEAN, t <=> Thinking(cs, Len(cs))
  PROVE  /\ Said(cs) \in Text /\ Thought(cs) \in Text
         /\ Said(Append(cs, c)) = Said(cs) \o SaidOf(t, c)
         /\ Thought(Append(cs, c)) = Thought(cs) \o ThoughtOf(t, c)
<1> DEFINE n == Len(cs)
           d == Append(cs, c)
           f == [i \in DOMAIN cs |-> SaidAt(cs, i)]
           g == [i \in DOMAIN d |-> SaidAt(d, i)]
           p == [i \in DOMAIN cs |-> ThoughtAt(cs, i)]
           q == [i \in DOMAIN d |-> ThoughtAt(d, i)]
<1>1. /\ n \in Nat /\ (\A i \in 1..n : d[i] = cs[i]) /\ d[n + 1] = c /\ d \in Seq(ChatChunk)
      /\ DOMAIN cs = 1..n /\ DOMAIN d = 1..(n + 1) /\ Len(d) = n + 1
  BY AppendIs
<1>3. Said(cs) = Texts(f) /\ Said(d) = Texts(g) /\ Thought(cs) = Texts(p) /\ Thought(d) = Texts(q)
  BY DEF Said, Thought, SaidAt, ThoughtAt
<1>4. /\ \A i \in 1..n : SaidAt(cs, i) \in Text /\ ThoughtAt(cs, i) \in Text
      /\ \A i \in 1..(n + 1) : SaidAt(d, i) \in Text /\ ThoughtAt(d, i) \in Text
  <2> HIDE DEF d
  <2> QED
    BY <1>1, SaidAtTyped
<1>5. /\ \A i \in 1..n : SaidAt(d, i) = SaidAt(cs, i) /\ ThoughtAt(d, i) = ThoughtAt(cs, i)
      /\ SaidAt(d, n + 1) = SaidOf(t, c) /\ ThoughtAt(d, n + 1) = ThoughtOf(t, c)
  BY ChunkSays
<1> HIDE DEF d, n
<1>6. /\ f \in [1..n -> Seq(Fragment)] /\ g \in [1..(n + 1) -> Seq(Fragment)]
      /\ p \in [1..n -> Seq(Fragment)] /\ q \in [1..(n + 1) -> Seq(Fragment)]
  BY <1>1, <1>4 DEF Text
<1>7. n + 1 \in 1..(n + 1) /\ \A i \in 1..n : i \in 1..(n + 1)
  BY <1>1
<1>8. /\ \A i \in 1..n : g[i] = f[i] /\ q[i] = p[i]
      /\ g[n + 1] = SaidOf(t, c) /\ q[n + 1] = ThoughtOf(t, c)
  BY <1>1, <1>5, <1>7
<1> HIDE DEF f, g, p, q
<1>9. /\ Texts(f) \in Seq(Fragment) /\ Texts(g) = Texts(f) \o g[n + 1]
      /\ Texts(p) \in Seq(Fragment) /\ Texts(q) = Texts(p) \o q[n + 1]
  BY <1>1, <1>6, <1>8, TextsOneMore, ZenonT(60)
<1>10. Said(cs) \in Text /\ Thought(cs) \in Text
  BY <1>3, <1>9 DEF Text
<1>11. Said(d) = Said(cs) \o SaidOf(t, c) /\ Thought(d) = Thought(cs) \o ThoughtOf(t, c)
  BY <1>3, <1>8, <1>9
<1> QED
  BY <1>10, <1>11 DEF d

LEMMA EntriesNext ==
  ASSUME NEW cs \in Seq(ChatChunk), NEW c \in ChatChunk
  PROVE  Entries(cs) \in Seq(CallEntry) /\ Entries(Append(cs, c)) = Entries(cs) \o c.calls
<1> DEFINE n == Len(cs)
           d == Append(cs, c)
           f == [i \in DOMAIN cs |-> cs[i].calls]
           g == [i \in DOMAIN d |-> d[i].calls]
<1>1. /\ n \in Nat /\ (\A i \in 1..n : d[i] = cs[i] /\ cs[i] \in ChatChunk) /\ d[n + 1] = c
      /\ DOMAIN cs = 1..n /\ DOMAIN d = 1..(n + 1)
  BY AppendIs
<1>2. Entries(cs) = Texts(f) /\ Entries(d) = Texts(g)
  BY DEF Entries, Mapped
<1> HIDE DEF d, n
<1>3. \A i \in 1..(n + 1) : i \in 1..n \/ i = n + 1
  BY <1>1
<1>4. c.calls \in Seq(CallEntry) /\ \A i \in 1..n : cs[i].calls \in Seq(CallEntry)
  BY <1>1 DEF ChatChunk
<1>5. f \in [1..n -> Seq(CallEntry)] /\ g \in [1..(n + 1) -> Seq(CallEntry)]
  BY <1>1, <1>3, <1>4
<1>6. n + 1 \in 1..(n + 1) /\ \A i \in 1..n : i \in 1..(n + 1)
  BY <1>1
<1>7. (\A i \in 1..n : g[i] = f[i]) /\ g[n + 1] = c.calls
  BY <1>1, <1>6
<1> HIDE DEF f, g
<1>8. Texts(f) \in Seq(CallEntry) /\ Texts(g) = Texts(f) \o g[n + 1]
  BY <1>1, <1>5, <1>7, TextsOneMore
<1> QED
  BY <1>2, <1>7, <1>8 DEF d

\* What a coherent stream has said so far was coherent as well.
LEMMA CoherentCut ==
  ASSUME NEW cs \in Seq(ChatChunk), NEW c \in ChatChunk, Coherent(Append(cs, c)),
         NEW t \in BOOLEAN, t <=> Thinking(cs, Len(cs))
  PROVE  /\ Coherent(cs)
         /\ c.content.closes => WithinThought(t, c)
         /\ c.calls # <<>> => ~ThinksOn(t, c)
         /\ NamedFirst(Entries(cs) \o c.calls)
<1> DEFINE n == Len(cs)
           d == Append(cs, c)
<1>1. /\ n \in Nat /\ (\A i \in 1..n : d[i] = cs[i]) /\ d[n + 1] = c
      /\ DOMAIN cs = 1..n /\ DOMAIN d = 1..(n + 1)
  BY AppendIs
<1>2. /\ \A i \in 1..(n + 1) : Thinking(d, i - 1) <=> Thinking(cs, i - 1)
      /\ \A i \in 1..n : Thinking(d, i) <=> Thinking(cs, i)
      /\ Thinking(d, n + 1) <=> ThinksOn(Thinking(cs, n), c)
  BY ThinkingNext
<1>3. /\ \A i \in 1..n : InThought(d, i) <=> InThought(cs, i)
      /\ InThought(d, n + 1) <=> WithinThought(Thinking(cs, n), c)
  BY InThoughtNext
<1>4. MarksPair(d) /\ NamedFirst(Entries(d)) /\ ThoughtEnds(d)
  BY DEF Coherent
<1>5. Entries(cs) \in Seq(CallEntry) /\ Entries(d) = Entries(cs) \o c.calls
  BY EntriesNext
<1>6. c.calls \in Seq(CallEntry)
  BY DEF ChatChunk
<1>7. t <=> Thinking(cs, n)
  OBVIOUS
<1> HIDE DEF d, n
<1>8. n + 1 \in 1..(n + 1) /\ \A i \in 1..n : i \in 1..(n + 1)
  BY <1>1
<1>9. MarksPair(cs)
  BY <1>1, <1>2, <1>3, <1>4, <1>8 DEF MarksPair
<1>10. ThoughtEnds(cs)
  BY <1>1, <1>2, <1>4, <1>8 DEF ThoughtEnds
<1>11. c.content.closes => WithinThought(t, c)
  BY <1>1, <1>3, <1>4, <1>7, <1>8 DEF MarksPair, WithinThought
<1>12. c.calls # <<>> => ~ThinksOn(t, c)
  BY <1>1, <1>2, <1>4, <1>7, <1>8 DEF ThoughtEnds, ThinksOn, WithinThought
<1>13. NamedFirst(Entries(cs))
  <2> DEFINE a == Entries(cs)
             z == a \o c.calls
  <2>1. NamedFirst(z)
    BY <1>4, <1>5
  <2>2. a \in Seq(CallEntry)
    BY <1>5
  <2> HIDE DEF a
  <2>3. /\ z \in Seq(CallEntry) /\ Len(z) = Len(a) + Len(c.calls) /\ Len(a) \in Nat /\ Len(c.calls) \in Nat
        /\ \A i \in 1..(Len(a) + Len(c.calls)) : z[i] = IF i <= Len(a) THEN a[i] ELSE c.calls[i - Len(a)]
    BY <1>6, <2>2, ConcatProperties, LenProperties
  <2> HIDE DEF z
  <2>4. Len(a) <= Len(z) /\ \A i \in 1..Len(a) : a[i] = z[i]
    BY <2>3
  <2> QED
    BY <2>1, <2>2, <2>3, <2>4, NamedFirstCut DEF a
<1> QED
  BY <1>4, <1>5, <1>9, <1>10, <1>11, <1>12, <1>13 DEF Coherent

LEMMA CoherentBefore ==
  ASSUME NEW cs \in Seq(ChatChunk), NEW c \in ChatChunk, Coherent(Append(cs, c))
  PROVE  Coherent(cs)
<1> DEFINE b == IF Thinking(cs, Len(cs)) THEN TRUE ELSE FALSE
<1>1. b \in BOOLEAN /\ (b <=> Thinking(cs, Len(cs)))
  OBVIOUS
<1>2. \A x \in BOOLEAN : (x <=> Thinking(cs, Len(cs))) => Coherent(cs)
  BY CoherentCut
<1> QED
  BY <1>1, <1>2

LEMMA FinishCut ==
  ASSUME NEW cs \in Seq(ChatChunk), NEW c \in ChatChunk, FinishIsLast(Append(cs, c))
  PROVE  FinishIsLast(cs) /\ \A i \in DOMAIN cs : ~cs[i].finish
<1> DEFINE n == Len(cs)
           d == Append(cs, c)
<1>1. /\ n \in Nat /\ (\A i \in 1..n : d[i] = cs[i]) /\ Len(d) = n + 1
      /\ DOMAIN cs = 1..n /\ DOMAIN d = 1..(n + 1)
  BY AppendIs
<1> HIDE DEF d, n
<1>2. \A i \in 1..n : i \in 1..(n + 1) /\ i # n + 1
  BY <1>1
<1>3. \A i \in DOMAIN cs : ~cs[i].finish
  BY <1>1, <1>2 DEF FinishIsLast, d
<1> QED
  BY <1>3 DEF FinishIsLast

-----------------------------------------------------------------------------
(* Nothing of an item follows its end. *)

Settled(evs) ==
    \A k \in Places(evs, "close") : \A j \in (k + 1)..Len(evs) : evs[j].item # evs[k].item

\* The item has not ended.
Undone(evs, x) == \A k \in Places(evs, "close") : evs[k].item # x

LEMMA SettledNext ==
  ASSUME NEW evs \in Seq(Event), NEW e \in Event, Settled(evs), Undone(evs, e.item)
  PROVE  /\ Settled(Append(evs, e))
         /\ e.type # "close" => Undone(Append(evs, e), e.item)
<1> DEFINE n == Len(evs)
           a == Append(evs, e)
<1>1. /\ n \in Nat /\ (\A i \in 1..n : a[i] = evs[i]) /\ a[n + 1] = e
      /\ \A t : Places(evs, t) \subseteq 1..n
      /\ \A t : t # e.type => Places(a, t) = Places(evs, t)
      /\ Places(a, e.type) = Places(evs, e.type) \cup {n + 1}
  BY PlacesAppend
<1>2. Len(a) = n + 1
  BY AppendIs
<1>3. \A k \in Places(evs, "close") : \A j \in (k + 1)..n : evs[j].item # evs[k].item
  BY DEF Settled
<1> HIDE DEF a, n
<1>4. ASSUME NEW k \in Places(evs, "close"), NEW j \in (k + 1)..(n + 1) PROVE a[j].item # a[k].item
  <2>1. k \in 1..n /\ a[k] = evs[k]
    BY <1>1
  <2>2. CASE j = n + 1
    BY <1>1, <2>1, <2>2 DEF Undone
  <2>3. CASE j # n + 1
    <3>1. j \in (k + 1)..n /\ j \in 1..n
      BY <1>1, <2>1, <2>3
    <3> QED
      BY <1>1, <1>3, <2>1, <3>1
  <2> QED
    BY <2>2, <2>3
<1>5. \A j : j \notin ((n + 1) + 1)..(n + 1)
  BY <1>1
<1>6. \A k \in Places(a, "close") : k \in Places(evs, "close") \/ k = n + 1
  BY <1>1
<1>7. Settled(a)
  BY <1>2, <1>4, <1>5, <1>6 DEF Settled
<1>8. e.type # "close" => Undone(a, e.item)
  BY <1>1 DEF Undone
<1> QED
  BY <1>7, <1>8 DEF a

LEMMA EmitSettles ==
  ASSUME NEW pre \in Seq(Event), NEW u \in Work, NEW type \in EventTypes, NEW item \in Items, NEW text \in Text,
         Settled(pre \o u.out), Undone(pre \o u.out, item)
  PROVE  /\ Settled(pre \o Emit(u, type, item, text).out)
         /\ type # "close" => Undone(pre \o Emit(u, type, item, text).out, item)
         /\ Emit(u, type, item, text) \in Work /\ Emit(u, type, item, text).st = u.st
<1> DEFINE e == Event3(type, item, text)
<1>1. e \in Event /\ e.type = type /\ e.item = item
  BY EventIs
<1>2. After(pre, u, Event3(type, item, text), Emit(u, type, item, text))
  BY EmitAfter
<1> HIDE DEF e
<1>3. pre \o u.out \in Seq(Event) /\ pre \o Emit(u, type, item, text).out = Append(pre \o u.out, e)
  BY <1>2 DEF After, e
<1>4. /\ Settled(Append(pre \o u.out, e))
      /\ e.type # "close" => Undone(Append(pre \o u.out, e), e.item)
  BY <1>1, <1>3, SettledNext
<1>5. u.out \in Seq(Event) /\ Append(u.out, e) \in Seq(Event)
  BY <1>1, WorkIs
<1>6. Emit(u, type, item, text) = [u EXCEPT !.out = Append(@, e)]
  BY DEF Emit, Event3, e
<1>7. Emit(u, type, item, text) \in Work /\ Emit(u, type, item, text).st = u.st
  BY <1>5, <1>6 DEF Work
<1> QED
  BY <1>1, <1>3, <1>4, <1>7

Calm(pre, w) == Good(pre, w) /\ Settled(pre \o w.out)

\* What has ended so far, and the thinking, stay as they are.
Rests(w, v) ==
    /\ v.st.reasoning.done = w.st.reasoning.done /\ v.st.thinking = w.st.thinking
    /\ \A c \in ChoiceIds : v.st.msg[c].done = w.st.msg[c].done

LEMMA StillOpen ==
  ASSUME NEW pre, NEW w, Calm(pre, w), NEW x, x \notin Closed(w.st)
  PROVE  Undone(pre \o w.out, x) /\ Settled(pre \o w.out) /\ w \in Work /\ Good(pre, w)
BY DEF Calm, Good, Ledger, Undone

LEMMA NeverClosed == ASSUME NEW s PROVE <<>> \notin Closed(s) /\ <<"reasoning">> \notin Closed(s)
<1>1. \A x, c : <<>> # <<x, c>> /\ <<"reasoning">> # <<x, c>>
  OBVIOUS
<1> QED
  BY <1>1 DEF Closed

\* The step of an operator: an event of an item that has not ended.
LEMMA StepSettles ==
  ASSUME NEW pre \in Seq(Event), NEW w, Calm(pre, w), NEW u \in Work, u.out = w.out,
         NEW type \in EventTypes, NEW item \in Items, NEW text \in Text, item \notin Closed(w.st),
         NEW v, v = Emit(u, type, item, text), Good(pre, v)
  PROVE  Calm(pre, v) /\ v.st = u.st
<1>1. Undone(pre \o u.out, item) /\ Settled(pre \o u.out)
  BY StillOpen
<1>2. Settled(pre \o v.out)
  BY <1>1, EmitSettles
<1>3. After(pre, u, Event3(type, item, text), v)
  BY EmitAfter
<1> QED
  BY <1>2, <1>3 DEF Calm, After

LEMMA StartReasoningSettles ==
  ASSUME NEW pre \in Seq(Event), NEW w, Calm(pre, w), NEW c \in ChoiceIds
  PROVE  Calm(pre, startReasoning(w, c)) /\ Rests(w, startReasoning(w, c))
<1> DEFINE r == [w.st.reasoning EXCEPT !.at = <<c>>]
           u == WithReasoning(w, r)
           v == startReasoning(w, c)
           item == <<"reasoning", c>>
<1>1. Good(pre, w) /\ w \in Work /\ w.st.reasoning \in ReasoningState
  BY WorkIs DEF Calm, Good
<1>2. CASE w.st.reasoning.at # <<>>
  BY <1>2 DEF startReasoning, Rests
<1>3. CASE w.st.reasoning.at = <<>>
  <2>1. v = Emit(u, "open", item, <<>>)
    BY <1>3 DEF startReasoning, WithReasoning
  <2>2. r \in ReasoningState /\ r.done = w.st.reasoning.done
    BY <1>1 DEF ReasoningState
  <2> HIDE DEF r
  <2>3. u \in Work /\ u.out = w.out /\ u.st.reasoning = r /\ u.st.msg = w.st.msg /\ u.st.thinking = w.st.thinking
    BY <1>1, <2>2, WithReasoningIs
  <2>4. item \in Items /\ <<>> \in Text /\ "open" \in EventTypes
    BY ItemsAre DEF EventTypes
  <2>5. item \notin Closed(w.st)
    BY <1>3 DEF Closed
  <2>6. Good(pre, v)
    BY <1>1, StartReasoningKeeps
  <2> HIDE DEF u, v, item
  <2>7. Calm(pre, v) /\ v.st = u.st
    BY <2>1, <2>3, <2>4, <2>5, <2>6, StepSettles
  <2> QED
    BY <2>2, <2>3, <2>7 DEF Rests, v
<1> QED
  BY <1>2, <1>3

LEMMA ReasoningDeltaSettles ==
  ASSUME NEW pre \in Seq(Event), NEW w, Calm(pre, w), NEW text \in Text, text = <<>> \/ ~w.st.reasoning.done
  PROVE  Calm(pre, emitReasoningDelta(w, text)) /\ Rests(w, emitReasoningDelta(w, text))
<1> DEFINE r == [w.st.reasoning EXCEPT !.buf = @ \o text]
           u == WithReasoning(w, r)
           v == emitReasoningDelta(w, text)
           item == ReasoningItem(w)
<1>1. Good(pre, w) /\ w \in Work /\ w.st.reasoning \in ReasoningState
  BY WorkIs DEF Calm, Good
<1>2. CASE text = <<>>
  BY <1>2 DEF emitReasoningDelta, Rests
<1>3. CASE text # <<>>
  <2>1. v = Emit(u, "delta", item, text)
    BY <1>3 DEF emitReasoningDelta, WithReasoning
  <2>0. w.st.reasoning.buf \in Text /\ w.st.reasoning.buf \o text \in Text
    BY <1>1, TextJoins DEF ReasoningState
  <2>2. r \in ReasoningState /\ r.done = w.st.reasoning.done
    BY <1>1, <2>0 DEF ReasoningState
  <2> HIDE DEF r
  <2>3. u \in Work /\ u.out = w.out /\ u.st.reasoning = r /\ u.st.msg = w.st.msg /\ u.st.thinking = w.st.thinking
    BY <1>1, <2>2, WithReasoningIs
  <2>4. item \in Items /\ "delta" \in EventTypes
    BY <1>1, ReasoningItemIs DEF EventTypes
  <2>5. item \notin Closed(w.st)
    <3>1. CASE w.st.reasoning.at = <<>>
      BY <1>1, <3>1, ReasoningItemIs, NeverClosed
    <3>2. CASE w.st.reasoning.at # <<>>
      <4>1. PICK c \in ChoiceIds : w.st.reasoning.at = <<c>> /\ item = <<"reasoning", c>>
        BY <1>1, <3>2, ReasoningItemIs
      <4> QED
        BY <1>3, <4>1, ItemsKnown
    <3> QED
      BY <3>1, <3>2
  <2>6. Good(pre, v)
    BY <1>1, ReasoningDeltaKeeps
  <2> HIDE DEF u, v, item
  <2>7. Calm(pre, v) /\ v.st = u.st
    BY <2>1, <2>3, <2>4, <2>5, <2>6, StepSettles
  <2> QED
    BY <2>2, <2>3, <2>7 DEF Rests, v
<1> QED
  BY <1>2, <1>3

LEMMA CloseReasoningSettles ==
  ASSUME NEW pre \in Seq(Event), NEW w, Calm(pre, w)
  PROVE  Calm(pre, closeReasoning(w)) /\ closeReasoning(w).st.msg = w.st.msg
<1> DEFINE r == [w.st.reasoning EXCEPT !.done = TRUE]
           u == WithReasoning(w, r)
           v == closeReasoning(w)
           item == ReasoningItem(w)
           text == w.st.reasoning.buf
<1>1. Good(pre, w) /\ w \in Work /\ w.st.reasoning \in ReasoningState
  BY WorkIs DEF Calm, Good
<1>2. CASE w.st.reasoning.at = <<>> \/ w.st.reasoning.done
  BY <1>2 DEF closeReasoning
<1>3. CASE w.st.reasoning.at # <<>> /\ ~w.st.reasoning.done
  <2>1. v = Emit(u, "close", item, text)
    BY <1>3 DEF closeReasoning, WithReasoning
  <2>2. r \in ReasoningState /\ text \in Text
    BY <1>1 DEF ReasoningState
  <2> HIDE DEF r
  <2>3. u \in Work /\ u.out = w.out /\ u.st.msg = w.st.msg
    BY <1>1, <2>2, WithReasoningIs
  <2>4. item \in Items /\ "close" \in EventTypes
    BY <1>1, ReasoningItemIs DEF EventTypes
  <2>5. item \notin Closed(w.st)
    <3>1. PICK c \in ChoiceIds : w.st.reasoning.at = <<c>> /\ item = <<"reasoning", c>>
      BY <1>1, <1>3, ReasoningItemIs
    <3> QED
      BY <1>3, <3>1, ItemsKnown
  <2>6. Good(pre, v)
    BY <1>1, CloseReasoningKeeps
  <2> HIDE DEF u, v, item, text
  <2>7. Calm(pre, v) /\ v.st = u.st
    BY <2>1, <2>2, <2>3, <2>4, <2>5, <2>6, StepSettles
  <2> QED
    BY <2>3, <2>7 DEF v
<1> QED
  BY <1>2, <1>3

LEMMA TextSettles ==
  ASSUME NEW pre \in Seq(Event), NEW w, Calm(pre, w), NEW c \in ChoiceIds, NEW text \in Text, ~w.st.msg[c].done
  PROVE  Calm(pre, emitTextContent(w, c, text)) /\ Rests(w, emitTextContent(w, c, text))
<1> DEFINE m == [w.st.msg[c] EXCEPT !.added = TRUE]
           u == WithMessage(w, c, m)
           o == OpenMessage(w, c)
           p == [o.st.msg[c] EXCEPT !.buf = @ \o text]
           b == WithMessage(o, c, p)
           v == emitTextContent(w, c, text)
           item == <<"message", c>>
<1>1. Good(pre, w) /\ w \in Work /\ w.st.msg[c] \in MessageState /\ w.st.msg \in [ChoiceIds -> MessageState]
  BY WorkIs DEF Calm, Good
<1>2. item \in Items /\ "open" \in EventTypes /\ "delta" \in EventTypes /\ <<>> \in Text
  BY ItemsAre DEF EventTypes
<1>3. item \notin Closed(w.st)
  BY ItemsKnown
<1>4. Good(pre, o)
  BY <1>1, OpenMessageKeeps
<1>5. v = Emit(b, "delta", item, text)
  BY DEF emitTextContent, OpenMessage, WithMessage
<1>6. Calm(pre, o) /\ Rests(w, o)
  <2>1. CASE w.st.msg[c].added
    BY <2>1 DEF OpenMessage, Rests
  <2>2. CASE ~w.st.msg[c].added
    <3>1. o = Emit(u, "open", item, <<>>)
      BY <2>2 DEF OpenMessage, WithMessage
    <3>2. m \in MessageState /\ m.done = w.st.msg[c].done
      BY <1>1 DEF MessageState
    <3> HIDE DEF m
    <3>3. u \in Work /\ u.out = w.out /\ u.st.msg = [w.st.msg EXCEPT ![c] = m] /\ u.st.reasoning = w.st.reasoning
          /\ u.st.thinking = w.st.thinking
      BY <1>1, <3>2, WithMessageIs
    <3> HIDE DEF u, o, item
    <3>4. Calm(pre, o) /\ o.st = u.st
      BY <1>2, <1>3, <1>4, <3>1, <3>3, StepSettles
    <3>5. \A d \in ChoiceIds : u.st.msg[d].done = w.st.msg[d].done
      BY <1>1, <3>2, <3>3
    <3> QED
      BY <3>3, <3>4, <3>5 DEF Rests
  <2> QED
    BY <2>1, <2>2
<1> HIDE DEF o
<1>7. o \in Work /\ o.st.msg[c] \in MessageState /\ o.st.msg \in [ChoiceIds -> MessageState]
  BY <1>4, WorkIs DEF Good
<1>8. o.st.msg[c].buf \in Text /\ o.st.msg[c].buf \o text \in Text
  BY <1>7, TextJoins DEF MessageState
<1>9. p \in MessageState /\ p.done = o.st.msg[c].done
  BY <1>7, <1>8 DEF MessageState
<1> HIDE DEF p
<1>10. b \in Work /\ b.out = o.out /\ b.st.msg = [o.st.msg EXCEPT ![c] = p] /\ b.st.reasoning = o.st.reasoning
       /\ b.st.thinking = o.st.thinking
  BY <1>7, <1>9, WithMessageIs
<1>11. item \notin Closed(o.st)
  BY <1>6, ItemsKnown DEF Rests
<1>12. Good(pre, v)
  BY <1>1, TextKeeps
<1> HIDE DEF b, v, item
<1>13. Calm(pre, v) /\ v.st = b.st
  BY <1>2, <1>5, <1>6, <1>10, <1>11, <1>12, StepSettles
<1>14. \A d \in ChoiceIds : b.st.msg[d].done = o.st.msg[d].done
  BY <1>7, <1>9, <1>10
<1> QED
  BY <1>6, <1>10, <1>13, <1>14 DEF Rests, v

LEMMA CloseMessageSettles ==
  ASSUME NEW pre \in Seq(Event), NEW w, Calm(pre, w), NEW c \in ChoiceIds
  PROVE  /\ Calm(pre, closeMessage(w, c)) /\ closeMessage(w, c).st.reasoning = w.st.reasoning
         /\ closeMessage(w, c).st.thinking = w.st.thinking /\ closeMessage(w, c).st.completed = w.st.completed
         /\ \A d \in ChoiceIds \ {c} : closeMessage(w, c).st.msg[d] = w.st.msg[d]
<1> DEFINE m == [w.st.msg[c] EXCEPT !.done = TRUE]
           u == WithMessage(w, c, m)
           v == closeMessage(w, c)
           item == <<"message", c>>
           text == w.st.msg[c].buf
<1>1. Good(pre, w) /\ w \in Work /\ w.st.msg[c] \in MessageState
  BY WorkIs DEF Calm, Good
<1>2. CASE ~w.st.msg[c].added \/ w.st.msg[c].done
  BY <1>2 DEF closeMessage
<1>3. CASE w.st.msg[c].added /\ ~w.st.msg[c].done
  <2>1. v = Emit(u, "close", item, text)
    BY <1>3 DEF closeMessage, WithMessage
  <2>2. m \in MessageState /\ text \in Text
    BY <1>1 DEF MessageState
  <2> HIDE DEF m
  <2>3. u \in Work /\ u.out = w.out /\ u.st.reasoning = w.st.reasoning /\ u.st.thinking = w.st.thinking
        /\ u.st.completed = w.st.completed
    BY <1>1, <2>2, WithMessageIs
  <2>4. item \in Items /\ "close" \in EventTypes
    BY ItemsAre DEF EventTypes
  <2>5. item \notin Closed(w.st)
    BY <1>3, ItemsKnown
  <2>6. Good(pre, v) /\ \A d \in ChoiceIds \ {c} : v.st.msg[d] = w.st.msg[d]
    BY <1>1, CloseMessageKeeps
  <2> HIDE DEF u, v, item, text
  <2>7. Calm(pre, v) /\ v.st = u.st
    BY <2>1, <2>2, <2>3, <2>4, <2>5, <2>6, StepSettles
  <2> QED
    BY <2>3, <2>6, <2>7 DEF v
<1> QED
  BY <1>2, <1>3

\* Only the calls move.
CallsOnly(w, v) == Past(w, v) /\ v.st.thinking = w.st.thinking

LEMMA EmitToolCallSettles ==
  ASSUME NEW pre \in Seq(Event), NEW w, Calm(pre, w), Fresh(w.st), ~w.st.completed, NEW tc \in CallEntry
  PROVE  Calm(pre, emitToolCall(w, tc)) /\ CallsOnly(w, emitToolCall(w, tc))
<1> DEFINE n == tc.slot
           f == w.st.func[n]
           g == Announced(f, tc)
           u == WithCall(w, n, g)
           item == <<"call", n>>
           v == IF g.added /\ ~f.added THEN Emit(u, "open", item, <<>>) ELSE u
           z == emitToolCall(w, tc)
<1>1. w \in Work /\ n \in CallSlots /\ f \in CallState /\ Good(pre, w) /\ tc.args \in Text
  BY WorkIs DEF Calm, Good, CallEntry
<1>2. z = IF Streams(g, tc) THEN Emit(v, "delta", item, tc.args) ELSE v
  BY DEF emitToolCall, WithCall, Announced
<1>3. g \in CallState
  BY <1>1, AnnouncedIs
<1>4. Good(pre, z)
  BY <1>1, ToolCallKeeps
<1>5. item \notin Closed(w.st)
  BY <1>1, ItemsKnown DEF Fresh
<1>6. item \in Items /\ <<>> \in Text /\ "delta" \in EventTypes /\ "open" \in EventTypes
  BY <1>1, ItemsAre DEF EventTypes
<1> HIDE DEF g, z
<1>7. u \in Work /\ u.out = w.out /\ u.st.reasoning = w.st.reasoning
      /\ u.st.msg = w.st.msg /\ u.st.completed = w.st.completed /\ u.st.thinking = w.st.thinking
  BY <1>1, <1>3, WithCallIs
<1> HIDE DEF u, item, f, n
<1>8. Undone(pre \o u.out, item) /\ Settled(pre \o u.out)
  BY <1>5, <1>7, StillOpen
<1>9. Undone(pre \o v.out, item) /\ Settled(pre \o v.out) /\ v \in Work /\ v.st = u.st
  <2>1. /\ Settled(pre \o Emit(u, "open", item, <<>>).out) /\ Undone(pre \o Emit(u, "open", item, <<>>).out, item)
        /\ Emit(u, "open", item, <<>>) \in Work /\ Emit(u, "open", item, <<>>).st = u.st
    BY <1>6, <1>7, <1>8, EmitSettles
  <2> QED
    BY <1>7, <1>8, <2>1
<1> HIDE DEF v
<1>10. /\ Settled(pre \o Emit(v, "delta", item, tc.args).out)
       /\ Emit(v, "delta", item, tc.args).st = v.st
  BY <1>1, <1>6, <1>9, EmitSettles
<1>11. Settled(pre \o z.out) /\ z.st = u.st
  BY <1>2, <1>9, <1>10
<1> QED
  BY <1>4, <1>7, <1>11 DEF Calm, CallsOnly, Past, z

LEMMA CloseToolCallSettles ==
  ASSUME NEW pre \in Seq(Event), NEW w, Calm(pre, w), NEW n \in CallSlots
  PROVE  Calm(pre, closeToolCall(w, n))
<1> DEFINE f == w.st.func[n]
           text == FinalText(f.name, f.args)
           item == <<"call", n>>
           v == IF isCustomTool(f.name) THEN Emit(w, "delta", item, text) ELSE w
           g == [v.st.func[n] EXCEPT !.done = TRUE]
           u == WithCall(v, n, g)
           z == closeToolCall(w, n)
<1>1. w \in Work /\ f \in CallState /\ w.st.func \in [CallSlots -> CallState] /\ Good(pre, w)
  BY WorkIs DEF Calm, Good
<1>2. CASE ~f.id \/ f.done
  BY <1>2 DEF closeToolCall
<1>3. CASE f.id /\ ~f.done
  <2>1. z = Emit(u, "close", item, text)
    BY <1>3 DEF closeToolCall, WithCall
  <2>2. text \in Text /\ item \in Items /\ "delta" \in EventTypes /\ "close" \in EventTypes
    BY <1>1, ItemsAre, FinalTextTyped DEF EventTypes, CallState
  <2>3. item \notin Closed(w.st)
    BY <1>3, ItemsKnown
  <2>4. Good(pre, z)
    BY <1>1, CloseToolCallKeeps
  <2>5. Undone(pre \o w.out, item) /\ Settled(pre \o w.out)
    BY <2>3, StillOpen
  <2> HIDE DEF z, item, text
  <2>6. Undone(pre \o v.out, item) /\ Settled(pre \o v.out) /\ v \in Work /\ v.st = w.st
    <3>1. /\ Settled(pre \o Emit(w, "delta", item, text).out) /\ Undone(pre \o Emit(w, "delta", item, text).out, item)
          /\ Emit(w, "delta", item, text) \in Work /\ Emit(w, "delta", item, text).st = w.st
      BY <1>1, <2>2, <2>5, EmitSettles
    <3> QED
      BY <1>1, <2>5, <3>1
  <2> HIDE DEF v
  <2>7. g \in CallState
    BY <1>1, <2>6 DEF CallState
  <2> HIDE DEF g
  <2>8. u \in Work /\ u.out = v.out
    BY <2>6, <2>7, WithCallIs
  <2> HIDE DEF u
  <2>9. Settled(pre \o z.out)
    BY <2>1, <2>2, <2>6, <2>8, EmitSettles
  <2> QED
    BY <2>4, <2>9 DEF Calm, z
<1> QED
  BY <1>2, <1>3

LEMMA CloseMessagesSettle ==
  ASSUME NEW pre \in Seq(Event), NEW w, Calm(pre, w), NEW s \in Seq(ChoiceIds)
  PROVE  Calm(pre, CloseMessages(w, s))
<1> DEFINE n == Len(s)
           Q(v) == Calm(pre, v)
           P == [k \in 0..n |-> {v \in Work : Q(v)}]
<1>0. Good(pre, w)
  BY DEF Calm
<1>1. n \in Nat /\ \A i \in 1..n : s[i] \in ChoiceIds
  BY LenProperties, ElementOfSeq
<1>2. PICK f : /\ CloseMessages(w, s) = f[1..n]
               /\ f[{}] = w
               /\ \A k \in 1..n : f[1..k] = closeMessage(f[1..(k - 1)], s[k])
  BY <1>0, CloseMessagesFold
<1> HIDE DEF n
<1>3. ASSUME NEW v, NEW c \in ChoiceIds, Q(v) PROVE Q(closeMessage(v, c))
  BY <1>3, CloseMessageSettles
<1>4. Q(w)
  OBVIOUS
<1>5. \A v : Q(v) => v \in Work
  BY DEF Calm, Good
<1> HIDE DEF Q
<1>6. \A k \in 0..n : P[k] = {v \in Work : Q(v)}
  OBVIOUS
<1>7. 0 \in 0..n /\ n \in 0..n /\ \A k \in 1..n : k \in 0..n /\ k - 1 \in 0..n
  BY <1>1
<1> HIDE DEF P
<1>8. f[{}] \in P[0]
  BY <1>2, <1>4, <1>5, <1>6, <1>7
<1>9. \A k \in 1..n : f[1..(k - 1)] \in P[k - 1] => f[1..k] \in P[k]
  BY <1>1, <1>2, <1>3, <1>5, <1>6, <1>7
<1>10. f[1..n] \in P[n]
  BY <1>1, <1>8, <1>9, FoldAlongSegments
<1>11. Q(CloseMessages(w, s))
  BY <1>2, <1>6, <1>7, <1>10
<1> QED
  BY <1>11 DEF Q

LEMMA CloseCallsSettle ==
  ASSUME NEW pre \in Seq(Event), NEW w, Calm(pre, w), NEW s \in Seq(CallSlots)
  PROVE  Calm(pre, CloseCalls(w, s))
<1> DEFINE n == Len(s)
           Q(v) == Calm(pre, v)
           P == [k \in 0..n |-> {v \in Work : Q(v)}]
<1>0. Good(pre, w)
  BY DEF Calm
<1>1. n \in Nat /\ \A i \in 1..n : s[i] \in CallSlots
  BY LenProperties, ElementOfSeq
<1>2. PICK f : /\ CloseCalls(w, s) = f[1..n]
               /\ f[{}] = w
               /\ \A k \in 1..n : f[1..k] = closeToolCall(f[1..(k - 1)], s[k])
  BY <1>0, CloseCallsFold
<1> HIDE DEF n
<1>3. ASSUME NEW v, NEW c \in CallSlots, Q(v) PROVE Q(closeToolCall(v, c))
  BY <1>3, CloseToolCallSettles
<1>4. Q(w)
  OBVIOUS
<1>5. \A v : Q(v) => v \in Work
  BY DEF Calm, Good
<1> HIDE DEF Q
<1>6. \A k \in 0..n : P[k] = {v \in Work : Q(v)}
  OBVIOUS
<1>7. 0 \in 0..n /\ n \in 0..n /\ \A k \in 1..n : k \in 0..n /\ k - 1 \in 0..n
  BY <1>1
<1> HIDE DEF P
<1>8. f[{}] \in P[0]
  BY <1>2, <1>4, <1>5, <1>6, <1>7
<1>9. \A k \in 1..n : f[1..(k - 1)] \in P[k - 1] => f[1..k] \in P[k]
  BY <1>1, <1>2, <1>3, <1>5, <1>6, <1>7
<1>10. f[1..n] \in P[n]
  BY <1>1, <1>8, <1>9, FoldAlongSegments
<1>11. Q(CloseCalls(w, s))
  BY <1>2, <1>6, <1>7, <1>10
<1> QED
  BY <1>11 DEF Q

LEMMA EmitCallsSettle ==
  ASSUME NEW pre \in Seq(Event), NEW w, Calm(pre, w), Fresh(w.st), ~w.st.completed, NEW s \in Seq(CallEntry)
  PROVE  Calm(pre, EmitCalls(w, s)) /\ CallsOnly(w, EmitCalls(w, s))
<1> DEFINE n == Len(s)
           Q(v) == Calm(pre, v) /\ Fresh(v.st) /\ CallsOnly(w, v)
           P == [k \in 0..n |-> {v \in Work : Q(v)}]
<1>0. Good(pre, w)
  BY DEF Calm
<1>1. n \in Nat /\ \A i \in 1..n : s[i] \in CallEntry
  BY LenProperties, ElementOfSeq
<1>2. PICK f : /\ EmitCalls(w, s) = f[1..n]
               /\ f[{}] = w
               /\ \A k \in 1..n : f[1..k] = emitToolCall(f[1..(k - 1)], s[k])
  BY <1>0, EmitCallsFold
<1> HIDE DEF n
<1>3. ASSUME NEW v, NEW c \in CallEntry, Q(v) PROVE Q(emitToolCall(v, c))
  <2>1. Calm(pre, v) /\ Fresh(v.st) /\ ~v.st.completed /\ Good(pre, v)
    BY <1>3 DEF CallsOnly, Past, Calm
  <2>2. Calm(pre, emitToolCall(v, c)) /\ CallsOnly(v, emitToolCall(v, c))
    BY <2>1, EmitToolCallSettles
  <2>3. Fresh(emitToolCall(v, c).st)
    BY <2>1, ToolCallKeeps
  <2> QED
    BY <1>3, <2>2, <2>3 DEF CallsOnly, Past
<1>4. Q(w)
  BY DEF CallsOnly, Past
<1>5. \A v : Q(v) => v \in Work
  BY DEF Calm, Good
<1> HIDE DEF Q
<1>6. \A k \in 0..n : P[k] = {v \in Work : Q(v)}
  OBVIOUS
<1>7. 0 \in 0..n /\ n \in 0..n /\ \A k \in 1..n : k \in 0..n /\ k - 1 \in 0..n
  BY <1>1
<1> HIDE DEF P
<1>8. f[{}] \in P[0]
  BY <1>2, <1>4, <1>5, <1>6, <1>7
<1>9. \A k \in 1..n : f[1..(k - 1)] \in P[k - 1] => f[1..k] \in P[k]
  BY <1>1, <1>2, <1>3, <1>5, <1>6, <1>7
<1>10. f[1..n] \in P[n]
  BY <1>1, <1>8, <1>9, FoldAlongSegments
<1>11. Q(EmitCalls(w, s))
  BY <1>2, <1>6, <1>7, <1>10
<1> QED
  BY <1>11 DEF Q

LEMMA SendCompletedSettles ==
  ASSUME NEW pre \in Seq(Event), NEW w, Calm(pre, w), NEW v, v = sendCompleted(w), Good(pre, v)
  PROVE  Calm(pre, v)
<1>1. CASE w.st.completed
  BY <1>1 DEF sendCompleted
<1>2. CASE ~w.st.completed
  <2> DEFINE u == Over(w)
  <2>1. v = Emit(u, "completed", <<>>, <<>>)
    BY <1>2 DEF sendCompleted, Over
  <2>2. u \in Work /\ u.out = w.out
    BY DEF Calm, Good, Over, Work, ChatState
  <2> HIDE DEF u
  <2>3. "completed" \in EventTypes /\ <<>> \in Items /\ <<>> \in Text /\ <<>> \notin Closed(w.st)
    BY ItemsAre, NeverClosed DEF EventTypes
  <2> QED
    BY <2>1, <2>2, <2>3, StepSettles
<1> QED
  BY <1>1, <1>2

LEMMA ScaffoldSettles ==
  ASSUME NEW pre \in Seq(Event), NEW w, Calm(pre, w), Fresh(w.st)
  PROVE  /\ Calm(pre, scaffold(w)) /\ Rests(w, scaffold(w))
         /\ Fresh(scaffold(w).st) /\ scaffold(w).st.completed = w.st.completed
<1> DEFINE u == Starts(w)
           v == scaffold(w)
<1>1. Good(pre, w) /\ w \in Work
  BY DEF Calm, Good
<1>2. CASE w.st.started
  BY <1>2 DEF scaffold, Rests
<1>3. CASE ~w.st.started
  <2>1. v = Emit(u, "created", <<>>, <<>>)
    BY <1>3 DEF scaffold, Starts
  <2>2. u \in Work /\ u.out = w.out /\ u.st.reasoning = w.st.reasoning /\ u.st.msg = w.st.msg
        /\ u.st.thinking = w.st.thinking /\ u.st.completed = w.st.completed
    BY <1>1 DEF Starts, Work, ChatState
  <2>3. "created" \in EventTypes /\ <<>> \in Items /\ <<>> \in Text /\ <<>> \notin Closed(w.st)
    BY ItemsAre, NeverClosed DEF EventTypes
  <2>4. Good(pre, v) /\ Fresh(v.st)
    BY <1>1, ScaffoldKeeps DEF Steady
  <2> HIDE DEF u, v
  <2>5. Calm(pre, v) /\ v.st = u.st
    BY <2>1, <2>2, <2>3, <2>4, StepSettles
  <2> QED
    BY <2>2, <2>4, <2>5 DEF Rests, v
<1> QED
  BY <1>2, <1>3

LEMMA CloseAllSettles ==
  ASSUME NEW pre \in Seq(Event), NEW w, Calm(pre, w)
  PROVE  Calm(pre, CloseAll(w)) /\ CloseAll(w).st.completed
<1> DEFINE a == CloseMessages(w, Ascending(ChoiceIds))
           b == closeReasoning(a)
           c == CloseCalls(b, Ascending(CallSlots))
<1>1. CloseAll(w) = sendCompleted(c)
  BY DEF CloseAll, CloseMessages, CloseCalls
<1>2. Ascending(ChoiceIds) \in Seq(ChoiceIds) /\ Ascending(CallSlots) \in Seq(CallSlots)
  BY IndicesAssumption, AscendingIs
<1>3. Calm(pre, a)
  BY <1>2, CloseMessagesSettle
<1> HIDE DEF a
<1>4. Calm(pre, b)
  BY <1>3, CloseReasoningSettles
<1> HIDE DEF b
<1>5. Calm(pre, c)
  BY <1>2, <1>4, CloseCallsSettle
<1> HIDE DEF c
<1>6. Good(pre, CloseAll(w)) /\ CloseAll(w).st.completed
  BY CloseAllKeeps DEF Calm
<1> QED
  BY <1>1, <1>5, <1>6, SendCompletedSettles

\* Reasoning ends by a mark of the chunk, a message by a call of its choice.
Explained(w, v, c) ==
    /\ v.st.reasoning.done => w.st.reasoning.done \/ c.content.closes
    /\ \A d \in ChoiceIds : v.st.msg[d].done => w.st.msg[d].done \/ (c.calls # <<>> /\ c.choice = d)

LEMMA ThinksSettles ==
  ASSUME NEW pre, NEW w, Calm(pre, w), NEW b \in BOOLEAN
  PROVE  /\ Calm(pre, Thinks(w, b)) /\ Thinks(w, b).st.thinking = b
         /\ Thinks(w, b).st.reasoning = w.st.reasoning /\ Thinks(w, b).st.msg = w.st.msg
<1>1. Good(pre, Thinks(w, b)) /\ w \in Work
  BY FlagsKeep DEF Calm, Good
<1>2. /\ Thinks(w, b).out = w.out /\ Thinks(w, b).st.reasoning = w.st.reasoning
      /\ Thinks(w, b).st.msg = w.st.msg /\ Thinks(w, b).st.thinking = b
  BY <1>1 DEF Thinks, Work, ChatState
<1> QED
  BY <1>1, <1>2 DEF Calm

LEMMA ReasoningFieldSettles ==
  ASSUME NEW pre \in Seq(Event), NEW w, Calm(pre, w), NEW c \in ChatChunk,
         c.reasoning = <<>> \/ ~w.st.reasoning.done
  PROVE  Calm(pre, ReasoningField(w, c)) /\ Rests(w, ReasoningField(w, c))
<1> DEFINE a == startReasoning(w, c.choice)
           z == emitReasoningDelta(a, c.reasoning)
<1>1. c.choice \in ChoiceIds /\ c.reasoning \in Text
  BY DEF ChatChunk
<1>2. CASE c.reasoning = <<>>
  BY <1>2 DEF ReasoningField, Rests
<1>3. CASE c.reasoning # <<>>
  <2>1. ReasoningField(w, c) = z
    BY <1>3 DEF ReasoningField
  <2>2. Calm(pre, a) /\ Rests(w, a)
    BY <1>1, StartReasoningSettles
  <2>3. ~a.st.reasoning.done
    BY <1>3, <2>2 DEF Rests
  <2> HIDE DEF a
  <2>4. Calm(pre, z) /\ Rests(a, z)
    BY <1>1, <2>2, <2>3, ReasoningDeltaSettles
  <2> QED
    BY <2>1, <2>2, <2>4 DEF Rests
<1> QED
  BY <1>2, <1>3

LEMMA MarksSettle ==
  ASSUME NEW pre \in Seq(Event), NEW w, Calm(pre, w), NEW c \in ChatChunk,
         c.content.closes => c.content.head = <<>> \/ ~w.st.reasoning.done
  PROVE  /\ Calm(pre, Marks(w, c)) /\ Explained(w, Marks(w, c), c)
         /\ \A d \in ChoiceIds : Marks(w, c).st.msg[d].done = w.st.msg[d].done
         /\ Marks(w, c).st.thinking <=> ThinksOn(w.st.thinking, c)
<1> DEFINE t == Thinks(w, TRUE)
           o == startReasoning(t, c.choice)
           opened == IF c.content.opens THEN o ELSE w
           told == emitReasoningDelta(opened, c.content.head)
           x == closeReasoning(told)
           y == Thinks(x, FALSE)
           z == Marks(w, c)
<1>1. c.choice \in ChoiceIds /\ c.content.head \in Text
  BY DEF ChatChunk
<1>2. z = IF c.content.closes THEN y ELSE opened
  BY DEF Marks, Thinks
<1>3. Calm(pre, t) /\ t.st.reasoning = w.st.reasoning /\ t.st.msg = w.st.msg /\ t.st.thinking = TRUE
  BY ThinksSettles
<1> HIDE DEF t, z
<1>4. Calm(pre, o) /\ Rests(t, o)
  BY <1>1, <1>3, StartReasoningSettles
<1> HIDE DEF o
<1>5. /\ Calm(pre, opened) /\ opened.st.reasoning.done = w.st.reasoning.done
      /\ \A d \in ChoiceIds : opened.st.msg[d].done = w.st.msg[d].done
      /\ opened.st.thinking <=> WithinThought(w.st.thinking, c)
  BY <1>3, <1>4 DEF Rests, WithinThought
<1> HIDE DEF opened
<1>6. CASE ~c.content.closes
  BY <1>2, <1>5, <1>6 DEF Explained, ThinksOn, z
<1>7. CASE c.content.closes
  <2>1. Calm(pre, told) /\ Rests(opened, told)
    BY <1>1, <1>5, <1>7, ReasoningDeltaSettles
  <2> HIDE DEF told
  <2>2. Calm(pre, x) /\ x.st.msg = told.st.msg
    BY <2>1, CloseReasoningSettles
  <2> HIDE DEF x
  <2>3. Calm(pre, y) /\ y.st.thinking = FALSE /\ y.st.msg = x.st.msg
    BY <2>2, ThinksSettles
  <2> QED
    BY <1>2, <1>5, <1>7, <2>1, <2>2, <2>3 DEF Explained, Rests, ThinksOn, z
<1> QED
  BY <1>6, <1>7

LEMMA ToolCallsSettle ==
  ASSUME NEW pre \in Seq(Event), NEW w, Calm(pre, w), Fresh(w.st), ~w.st.completed, NEW c \in ChatChunk
  PROVE  Calm(pre, ToolCalls(w, c)) /\ Explained(w, ToolCalls(w, c), c)
<1> DEFINE a == closeMessage(w, c.choice)
           z == EmitCalls(a, c.calls)
<1>1. c.choice \in ChoiceIds /\ c.calls \in Seq(CallEntry) /\ Good(pre, w)
  BY DEF ChatChunk, Calm
<1>2. CASE c.calls = <<>>
  BY <1>2 DEF ToolCalls, Explained
<1>3. CASE c.calls # <<>>
  <2>1. ToolCalls(w, c) = z
    BY <1>3 DEF ToolCalls, EmitCalls
  <2>2. /\ Calm(pre, a) /\ a.st.reasoning = w.st.reasoning /\ a.st.completed = w.st.completed
        /\ \A d \in ChoiceIds \ {c.choice} : a.st.msg[d] = w.st.msg[d]
    BY <1>1, CloseMessageSettles
  <2>3. Fresh(a.st)
    BY <1>1, CloseMessageKeeps DEF Fresh, Beside
  <2> HIDE DEF a
  <2>4. Calm(pre, z) /\ CallsOnly(a, z)
    BY <1>1, <2>2, <2>3, EmitCallsSettle
  <2> QED
    BY <1>3, <2>1, <2>2, <2>4 DEF Explained, CallsOnly, Past
<1> QED
  BY <1>2, <1>3

LEMMA NothingJoined ==
  ASSUME NEW s \in Text, NEW t \in Text, s \o t = <<>>
  PROVE  s = <<>> /\ t = <<>>
<1>1. Len(s) \in Nat /\ Len(t) \in Nat /\ Len(s \o t) = Len(s) + Len(t) /\ Len(<<>>) = 0
  BY LenProperties, ConcatProperties DEF Text
<1>2. Len(s) = 0 /\ Len(t) = 0
  BY <1>1
<1> QED
  BY <1>2, EmptySeq DEF Text

\* A chunk that thinks nothing after a mark and says nothing after a call of its
\* choice leaves what has ended alone.
LEMMA DeltaSettles ==
  ASSUME NEW pre \in Seq(Event), NEW v, Calm(pre, v), Fresh(v.st), ~v.st.completed, NEW c \in ChatChunk,
         c.content.closes => WithinThought(v.st.thinking, c),
         ThoughtOf(v.st.thinking, c) = <<>> \/ ~v.st.reasoning.done,
         SaidOf(v.st.thinking, c) = <<>> \/ ~v.st.msg[c.choice].done
  PROVE  /\ Calm(pre, Delta(v, c))
         /\ Delta(v, c).st.completed \/ Explained(v, Delta(v, c), c)
<1> DEFINE t == v.st.thinking
           r == ReasoningField(v, c)
           w == Marks(r, c)
           text == Remaining(c)
           placed == IF text = <<>> THEN w ELSE emitTextContent(w, c.choice, text)
           called == ToolCalls(placed, c)
           z == Delta(v, c)
<1>1. /\ c.choice \in ChoiceIds /\ text \in Text /\ c.reasoning \in Text /\ c.content.head \in Text
      /\ c.content.tail \in Text /\ (c.content.closes \/ c.content.tail = <<>>) /\ <<>> \in Text
  BY ItemsAre DEF ChatChunk, Remaining
<1>2. z = IF w.st.thinking /\ text # <<>> THEN emitReasoningDelta(w, text)
          ELSE IF c.finish THEN CloseAll(called) ELSE called
  BY DEF Delta
<1>3. c.reasoning # <<>> \/ (WithinThought(t, c) /\ c.content.head # <<>>) => ~v.st.reasoning.done
  <2> DEFINE x == IF WithinThought(t, c) THEN c.content.head ELSE <<>>
             y == c.reasoning
  <2>1. x \in Text /\ y \in Text /\ ThoughtOf(t, c) = y \o x
    BY <1>1 DEF ThoughtOf
  <2> HIDE DEF x, y
  <2>2. y \o x = <<>> => x = <<>> /\ y = <<>>
    BY <2>1, NothingJoined
  <2> QED
    BY <2>1, <2>2 DEF x, y
<1>4. c.content.tail # <<>> \/ (~WithinThought(t, c) /\ c.content.head # <<>>) => ~v.st.msg[c.choice].done
  <2> DEFINE x == IF WithinThought(t, c) THEN <<>> ELSE c.content.head
             y == c.content.tail
  <2>1. x \in Text /\ y \in Text /\ SaidOf(t, c) = x \o y
    BY <1>1 DEF SaidOf
  <2> HIDE DEF x, y
  <2>2. x \o y = <<>> => x = <<>> /\ y = <<>>
    BY <2>1, NothingJoined
  <2> QED
    BY <2>1, <2>2 DEF x, y
<1>5. Calm(pre, r) /\ Rests(v, r)
  BY <1>3, ReasoningFieldSettles
<1>6. Steady(pre, v)
  BY DEF Steady, Calm
<1>7. Steady(pre, w) /\ w.st.completed = v.st.completed
  BY <1>6, MarksBeside, ReasoningFieldKeeps, MarksKeep
<1> HIDE DEF r
<1>8. c.content.closes => c.content.head = <<>> \/ ~r.st.reasoning.done
  BY <1>3, <1>5 DEF Rests
<1>9. /\ Calm(pre, w) /\ Explained(r, w, c)
      /\ \A d \in ChoiceIds : w.st.msg[d].done = r.st.msg[d].done
      /\ w.st.thinking <=> ThinksOn(r.st.thinking, c)
  BY <1>5, <1>8, MarksSettle
<1> HIDE DEF w
<1>10. /\ Explained(v, w, c) /\ \A d \in ChoiceIds : w.st.msg[d].done = v.st.msg[d].done
       /\ w.st.thinking <=> ThinksOn(t, c)
  BY <1>5, <1>9 DEF Explained, Rests
<1>11. CASE w.st.thinking /\ text # <<>>
  <2>1. WithinThought(t, c) /\ ~c.content.closes
    BY <1>10, <1>11 DEF ThinksOn
  <2>2. c.content.head # <<>>
    BY <1>11, <2>1 DEF Remaining
  <2>3. ~w.st.reasoning.done
    BY <1>3, <1>10, <2>1, <2>2 DEF Explained
  <2> HIDE DEF text
  <2>4. Calm(pre, emitReasoningDelta(w, text)) /\ Rests(w, emitReasoningDelta(w, text))
    BY <1>1, <1>9, <2>3, ReasoningDeltaSettles
  <2>5. Explained(v, emitReasoningDelta(w, text), c)
    BY <1>10, <2>4 DEF Explained, Rests
  <2> QED
    BY <1>2, <1>11, <2>4, <2>5 DEF z
<1>12. CASE ~(w.st.thinking /\ text # <<>>)
  <2>1. Calm(pre, placed) /\ Rests(w, placed) /\ Fresh(placed.st) /\ ~placed.st.completed
    <3>1. CASE text = <<>>
      BY <1>7, <1>9, <3>1 DEF Steady, Rests
    <3>2. CASE text # <<>>
      <4>1. c.content.tail # <<>> \/ (~WithinThought(t, c) /\ c.content.head # <<>>)
        <5>1. CASE c.content.closes
          BY <3>2, <5>1 DEF Remaining
        <5>2. CASE ~c.content.closes
          \* The thinking that goes on would have taken the text.
          <6>1. c.content.head # <<>>
            BY <3>2, <5>2 DEF Remaining
          <6>2. ~w.st.thinking
            BY <1>12, <3>2
          <6> QED
            BY <1>10, <5>2, <6>1, <6>2 DEF ThinksOn
        <5> QED
          BY <5>1, <5>2
      <4>2. ~w.st.msg[c.choice].done
        BY <1>1, <1>4, <1>10, <4>1
      <4> HIDE DEF text
      <4>3. Calm(pre, emitTextContent(w, c.choice, text)) /\ Rests(w, emitTextContent(w, c.choice, text))
        BY <1>1, <1>9, <4>2, TextSettles
      <4>4. Beside(w, emitTextContent(w, c.choice, text))
        BY <1>1, <1>7, TextKeeps DEF Steady
      <4> QED
        BY <1>7, <3>2, <4>3, <4>4 DEF Beside, Steady, Fresh
    <3> QED
      BY <3>1, <3>2
  <2> HIDE DEF placed, text
  <2>2. Calm(pre, called) /\ Explained(placed, called, c)
    BY <2>1, ToolCallsSettle
  <2> HIDE DEF called
  <2>3. Explained(v, called, c)
    BY <1>10, <2>1, <2>2 DEF Explained, Rests
  <2>4. Calm(pre, CloseAll(called)) /\ CloseAll(called).st.completed
    BY <2>2, CloseAllSettles
  <2> QED
    BY <1>2, <1>12, <2>2, <2>3, <2>4 DEF z, text
<1> QED
  BY <1>11, <1>12

-----------------------------------------------------------------------------
(* The stream of a Responses client: what the items say. *)

\* What the client has, and what the translator holds back, is what a coherent
\* stream has said.
Recounts(cs, s, evs) ==
    Coherent(cs) =>
        /\ \A last \in BOOLEAN : (last => FinishIsLast(cs)) => Records(Said(cs), Thought(cs), last, s, evs)
        /\ Knows(Entries(cs), s.func)
        /\ s.thinking => s.reasoning.at # <<>>
        /\ s.thinking <=> Thinking(cs, Len(cs))
        /\ s.completed /\ FinishIsLast(cs) => \A n \in CallSlots : s.func[n].id => s.func[n].done

\* Before the end of the stream only a finish completes the response.
FinishedBy(cs, s) == Coherent(cs) /\ s.completed => \E i \in DOMAIN cs : cs[i].finish

LEMMA RecountsNext ==
  ASSUME NEW cs \in Seq(ChatChunk), NEW c \in ChatChunk, c.kind = "chunk",
         NEW s \in ChatState, NEW evs \in Seq(Event), Sound(s), Fresh(s),
         Ledger(Opened(s), Closed(s), s.completed, evs), Recounts(cs, s, evs), FinishedBy(cs, s)
  PROVE  /\ Recounts(Append(cs, c), ConvertChat(s, c).st, evs \o ConvertChat(s, c).out)
         /\ FinishedBy(Append(cs, c), ConvertChat(s, c).st)
<1> DEFINE d == Append(cs, c)
           w == ConvertChat(s, c)
           v == [st |-> s, out |-> <<>>]
<1> SUFFICES ASSUME Coherent(d)
             PROVE  /\ \A last \in BOOLEAN : (last => FinishIsLast(d)) =>
                          Records(Said(d), Thought(d), last, w.st, evs \o w.out)
                    /\ Knows(Entries(d), w.st.func)
                    /\ w.st.thinking => w.st.reasoning.at # <<>>
                    /\ w.st.thinking <=> Thinking(d, Len(d))
                    /\ w.st.completed /\ FinishIsLast(d) => \A n \in CallSlots : w.st.func[n].id => w.st.func[n].done
                    /\ w.st.completed => \E i \in DOMAIN d : d[i].finish
  BY DEF Recounts, FinishedBy
<1> DEFINE t == s.thinking
<1>1. /\ Len(cs) \in Nat /\ (\A i \in 1..Len(cs) : d[i] = cs[i]) /\ d[Len(cs) + 1] = c /\ Len(d) = Len(cs) + 1
      /\ DOMAIN cs = 1..Len(cs) /\ DOMAIN d = 1..(Len(cs) + 1)
  BY AppendIs
<1>2. Good(evs, v) /\ v.st = s /\ v.out = <<>> /\ evs \o v.out = evs
  <2>1. Steady(evs, v)
    BY FreshLine
  <2> QED
    BY <2>1 DEF Steady
<1> HIDE DEF v
<1>3. t \in BOOLEAN /\ s.completed \in BOOLEAN
  BY DEF ChatState
<1>4. Coherent(cs)
  BY CoherentBefore
<1>5. t <=> Thinking(cs, Len(cs))
  BY <1>4 DEF Recounts
<1>6. /\ c.content.closes => WithinThought(t, c)
      /\ c.calls # <<>> => ~ThinksOn(t, c)
      /\ NamedFirst(Entries(cs) \o c.calls)
  BY <1>3, <1>5, CoherentCut
<1>7. /\ Said(cs) \in Text /\ Thought(cs) \in Text
      /\ Said(d) = Said(cs) \o SaidOf(t, c) /\ Thought(d) = Thought(cs) \o ThoughtOf(t, c)
  BY <1>3, <1>5, TextsOfChunksNext
<1>8. Entries(cs) \in Seq(CallEntry) /\ Entries(d) = Entries(cs) \o c.calls
  BY EntriesNext
<1>9. FinishIsLast(d) => FinishIsLast(cs) /\ ~s.completed
  <2> SUFFICES ASSUME FinishIsLast(d) PROVE FinishIsLast(cs) /\ ~s.completed
    OBVIOUS
  <2>1. FinishIsLast(cs) /\ \A i \in DOMAIN cs : ~cs[i].finish
    BY FinishCut
  <2> QED
    BY <1>4, <2>1 DEF FinishedBy
<1>10. ASSUME NEW last \in BOOLEAN, last => FinishIsLast(d)
       PROVE  /\ Tells(Said(d), Thought(d), Entries(d), last, evs, w)
              /\ w.st.thinking = ThinksOn(t, c)
              /\ w.st.completed => s.completed \/ (c.finish /\ CallsOver(w))
  <2> DEFINE ss == Said(cs)
             th == Thought(cs)
             ds == Entries(cs)
  <2>1. Records(ss, th, last, s, evs) /\ Knows(ds, s.func) /\ (s.thinking => s.reasoning.at # <<>>)
    BY <1>4, <1>9, <1>10 DEF Recounts
  <2>2. ss \in Text /\ th \in Text /\ ds \in Seq(CallEntry)
    BY <1>7, <1>8
  <2>3. NamedFirst(ds \o c.calls)
    BY <1>6
  <2> HIDE DEF ss, th, ds
  <2>4. Tells(ss, th, ds, last, evs, v)
    BY <1>2, <2>1 DEF Tells
  <2>5. /\ Fresh(v.st) /\ (last => ~v.st.completed)
        /\ (c.content.closes => WithinThought(v.st.thinking, c))
        /\ (c.calls # <<>> => ~ThinksOn(v.st.thinking, c))
    BY <1>2, <1>6, <1>9, <1>10
  <2>6. /\ Tells(ss \o SaidOf(v.st.thinking, c), th \o ThoughtOf(v.st.thinking, c), ds \o c.calls,
                 last, evs, ConvertChat(v.st, c))
        /\ ConvertChat(v.st, c).st.thinking = ThinksOn(v.st.thinking, c)
        /\ ConvertChat(v.st, c).st.completed => v.st.completed \/ (c.finish /\ CallsOver(ConvertChat(v.st, c)))
    BY <1>2, <2>2, <2>3, <2>4, <2>5, ConvertChatTells
  <2> QED
    BY <1>2, <1>7, <1>8, <2>6 DEF ss, th, ds
<1> HIDE DEF w
<1>11. /\ Tells(Said(d), Thought(d), Entries(d), FALSE, evs, w)
       /\ w.st.thinking = ThinksOn(t, c)
       /\ w.st.completed => s.completed \/ (c.finish /\ CallsOver(w))
  BY <1>10
<1>12. w.st.thinking <=> Thinking(d, Len(d))
  <2>1. Thinking(d, Len(cs) + 1) <=> ThinksOn(Thinking(cs, Len(cs)), c)
    BY ThinkingNext
  <2>2. ThinksOn(Thinking(cs, Len(cs)), c) <=> ThinksOn(t, c)
    BY <1>5 DEF ThinksOn, WithinThought
  <2> QED
    BY <1>1, <1>11, <2>1, <2>2
<1>13. w.st.completed => \E i \in DOMAIN d : d[i].finish
  <2>1. CASE s.completed
    <3>1. PICK i \in DOMAIN cs : cs[i].finish
      BY <1>4, <2>1 DEF FinishedBy
    <3>2. i \in DOMAIN d /\ d[i].finish
      BY <1>1, <3>1
    <3> QED
      BY <3>2
  <2>2. CASE c.finish
    <3>1. Len(cs) + 1 \in DOMAIN d
      BY <1>1
    <3> QED
      BY <1>1, <2>2, <3>1
  <2> QED
    BY <1>11, <2>1, <2>2
<1>14. w.st.completed /\ FinishIsLast(d) => \A n \in CallSlots : w.st.func[n].id => w.st.func[n].done
  BY <1>9, <1>11 DEF CallsOver
<1>15. ASSUME NEW last \in BOOLEAN, last => FinishIsLast(d)
       PROVE  Records(Said(d), Thought(d), last, w.st, evs \o w.out)
  BY <1>10, <1>15 DEF Tells
<1>16. Knows(Entries(d), w.st.func) /\ (w.st.thinking => w.st.reasoning.at # <<>>)
  BY <1>11 DEF Tells
<1> QED
  BY <1>12, <1>13, <1>14, <1>15, <1>16

LEMMA RecountsEnd ==
  ASSUME NEW cs, NEW s \in ChatState, NEW evs \in Seq(Event), Sound(s), Fresh(s),
         Ledger(Opened(s), Closed(s), s.completed, evs), Recounts(cs, s, evs)
  PROVE  Recounts(cs, flushEvents(s).st, evs \o flushEvents(s).out)
<1> DEFINE w == flushEvents(s)
           v == [st |-> s, out |-> <<>>]
<1> SUFFICES ASSUME Coherent(cs)
             PROVE  /\ \A last \in BOOLEAN : (last => FinishIsLast(cs)) =>
                          Records(Said(cs), Thought(cs), last, w.st, evs \o w.out)
                    /\ Knows(Entries(cs), w.st.func)
                    /\ w.st.thinking => w.st.reasoning.at # <<>>
                    /\ w.st.thinking <=> Thinking(cs, Len(cs))
                    /\ w.st.completed /\ FinishIsLast(cs) => \A n \in CallSlots : w.st.func[n].id => w.st.func[n].done
  BY DEF Recounts
<1>1. Good(evs, v) /\ v.st = s /\ v.out = <<>> /\ evs \o v.out = evs
  <2>1. Steady(evs, v)
    BY FreshLine
  <2> QED
    BY <2>1 DEF Steady
<1> HIDE DEF v
<1>2. ASSUME NEW last \in BOOLEAN, last => FinishIsLast(cs)
      PROVE  /\ Tells(Said(cs), Thought(cs), Entries(cs), last, evs, w)
             /\ w.st.thinking = s.thinking
             /\ CallsOver(w) \/ (s.completed /\ w.st = s)
  <2> DEFINE ss == Said(cs)
             th == Thought(cs)
             ds == Entries(cs)
  <2>1. Records(ss, th, last, s, evs) /\ Knows(ds, s.func) /\ (s.thinking => s.reasoning.at # <<>>)
    BY <1>2 DEF Recounts
  <2> HIDE DEF ss, th, ds
  <2>2. Tells(ss, th, ds, last, evs, v)
    BY <1>1, <2>1 DEF Tells
  <2>3. /\ Tells(ss, th, ds, last, evs, flushEvents(v.st))
        /\ flushEvents(v.st).st.thinking = v.st.thinking
        /\ CallsOver(flushEvents(v.st)) \/ (v.st.completed /\ flushEvents(v.st).st = v.st)
    BY <1>1, <2>2, FlushTells
  <2> QED
    BY <1>1, <2>3 DEF ss, th, ds
<1> HIDE DEF w
<1>3. /\ Tells(Said(cs), Thought(cs), Entries(cs), FALSE, evs, w)
      /\ w.st.thinking = s.thinking
      /\ CallsOver(w) \/ (s.completed /\ w.st = s)
  BY <1>2
<1>4. ASSUME NEW last \in BOOLEAN, last => FinishIsLast(cs)
      PROVE  Records(Said(cs), Thought(cs), last, w.st, evs \o w.out)
  BY <1>2, <1>4 DEF Tells
<1>5. Knows(Entries(cs), w.st.func) /\ (w.st.thinking => w.st.reasoning.at # <<>>)
  BY <1>3 DEF Tells
<1>6. w.st.thinking <=> Thinking(cs, Len(cs))
  BY <1>3 DEF Recounts
<1>7. w.st.completed /\ FinishIsLast(cs) => \A n \in CallSlots : w.st.func[n].id => w.st.func[n].done
  BY <1>3 DEF Recounts, CallsOver
<1> QED
  BY <1>4, <1>5, <1>6, <1>7

LEMMA NothingSaid ==
  /\ Chunks(<<>>) = <<>> /\ Said(<<>>) = <<>> /\ Thought(<<>>) = <<>> /\ Entries(<<>>) = <<>>
  /\ ~Thinking(<<>>, Len(<<>>))
  /\ \A n : ArgumentsSaid(<<>>, n) = <<>>
<1>1. DOMAIN <<>> = {} /\ Len(<<>>) = 0 /\ 1..0 = {}
  OBVIOUS
<1>2. Chunks(<<>>) = <<>>
  BY OfEmpty DEF Chunks
<1>3. Said(<<>>) = <<>> /\ Thought(<<>>) = <<>> /\ Entries(<<>>) = <<>> /\ \A n : ArgumentsSaid(<<>>, n) = <<>>
  BY <1>1, TextsOfNothing, TextsEmpty DEF Said, Thought, Entries, Mapped, ArgumentsSaid
<1>4. ~Thinking(<<>>, 0)
  BY <1>1 DEF Thinking
<1> QED
  BY <1>1, <1>2, <1>3, <1>4

LEMMA RecountsAtFirst ==
  Recounts(<<>>, NewChatToResp, <<>>) /\ FinishedBy(<<>>, NewChatToResp)
<1> DEFINE s == NewChatToResp
<1>1. /\ s.thinking = FALSE /\ s.completed = FALSE
      /\ s.reasoning = [at |-> <<>>, done |-> FALSE, buf |-> <<>>]
      /\ s.msg = [i \in ChoiceIds |-> [added |-> FALSE, done |-> FALSE, buf |-> <<>>]]
      /\ s.func = [i \in CallSlots |-> [id |-> FALSE, name |-> "", args |-> <<>>, added |-> FALSE, done |-> FALSE]]
  BY DEF NewChatToResp
<1> HIDE DEF s
<1>2. Kept(<<>>, <<>>, FALSE, <<>>) /\ \A x : Kept(<<>>, x, FALSE, <<>>)
  BY NothingPicked, TextOfEmpty DEF Kept
<1>3. MessagesKept(s.msg, <<>>)
  <2>1. \A c \in ChoiceIds : s.msg[c] = [added |-> FALSE, done |-> FALSE, buf |-> <<>>]
    BY <1>1
  <2>2. \A c \in ChoiceIds : s.msg[c].added = FALSE /\ s.msg[c].buf = <<>>
    BY <2>1
  <2> QED
    BY <1>2, <2>2 DEF MessagesKept
<1>4. ReasoningKept(s.reasoning, <<>>)
  <2>1. \A c : <<>> # <<c>>
    OBVIOUS
  <2> DEFINE r == [at |-> <<>>, done |-> FALSE, buf |-> <<>>]
  <2>2. r.at = <<>> /\ r.buf = <<>>
    OBVIOUS
  <2>3. s.reasoning = r
    BY <1>1
  <2> HIDE DEF r
  <2> QED
    BY <1>2, <2>1, <2>2, <2>3 DEF ReasoningKept
<1> DEFINE f0 == [id |-> FALSE, name |-> "", args |-> <<>>, added |-> FALSE, done |-> FALSE]
<1>12. f0.id = FALSE /\ f0.name = "" /\ f0.args = <<>> /\ f0.added = FALSE /\ f0.done = FALSE
  OBVIOUS
<1>13. \A n \in CallSlots : s.func[n] = f0
  BY <1>1
<1> HIDE DEF f0
<1>5. CallsKept(s.func, <<>>)
  <2>1. Buffered(f0) = <<>>
    BY <1>12 DEF Buffered
  <2>2. \A n \in CallSlots : Kept(<<>>, <<"call", n>>, FALSE, <<>>)
    BY <1>2
  <2> QED
    BY <1>12, <1>13, <2>1, <2>2 DEF CallsKept
<1>6. AllTold(s.func, <<>>)
  BY <1>12, <1>13 DEF AllTold
<1>7. Repeats(<<>>)
  BY DEF Repeats, Places
<1>8. Knows(<<>>, s.func)
  <2>1. DOMAIN <<>> = {}
    OBVIOUS
  <2>2. \A n : ArgumentsSaid(<<>>, n) = <<>>
    BY NothingSaid
  <2>3. \A n : KnowsCall(<<>>, f0, n)
    BY <1>12, <2>1, <2>2 DEF KnowsCall
  <2> QED
    BY <1>13, <2>3 DEF Knows
<1>9. \A last \in BOOLEAN : Records(<<>>, <<>>, last, s, <<>>)
  BY <1>3, <1>4, <1>5, <1>6, <1>7, NothingPicked DEF Records
<1>10. Recounts(<<>>, s, <<>>)
  BY <1>1, <1>8, <1>9, NothingSaid DEF Recounts
<1>11. FinishedBy(<<>>, s)
  BY <1>1 DEF FinishedBy
<1> QED
  BY <1>10, <1>11 DEF s

\* Where the upstream resumes nothing, an item ends once and for all: the
\* reasoning by its mark, a message by a call of its choice, the rest by the end.
EndsExplained(cs, s) ==
    /\ s.reasoning.done => \E i \in DOMAIN cs : cs[i].content.closes
    /\ \A d \in ChoiceIds : s.msg[d].done => \E i \in DOMAIN cs : cs[i].calls # <<>> /\ cs[i].choice = d

Composed(cs, s, evs) == Sequenced(cs) => Settled(evs) /\ (s.completed \/ EndsExplained(cs, s))

LEMMA SequencedBefore ==
  ASSUME NEW cs \in Seq(ChatChunk), NEW c \in ChatChunk, NEW t \in BOOLEAN, t <=> Thinking(cs, Len(cs)),
         Sequenced(Append(cs, c))
  PROVE  /\ Sequenced(cs)
         /\ (\E i \in DOMAIN cs : cs[i].content.closes) => ThoughtOf(t, c) = <<>>
         /\ (\E i \in DOMAIN cs : cs[i].calls # <<>> /\ cs[i].choice = c.choice) => SaidOf(t, c) = <<>>
<1> DEFINE n == Len(cs)
           d == Append(cs, c)
<1>1. /\ n \in Nat /\ (\A i \in 1..n : d[i] = cs[i]) /\ d[n + 1] = c
      /\ DOMAIN cs = 1..n /\ DOMAIN d = 1..(n + 1)
  BY AppendIs
<1>2. Coherent(cs) /\ FinishIsLast(cs)
  BY CoherentBefore, FinishCut DEF Sequenced, Orderly
<1>3. /\ \A i \in 1..n : SaidAt(d, i) = SaidAt(cs, i) /\ ThoughtAt(d, i) = ThoughtAt(cs, i)
      /\ SaidAt(d, n + 1) = SaidOf(t, c) /\ ThoughtAt(d, n + 1) = ThoughtOf(t, c)
  BY ChunkSays
<1>4. \A i, j \in DOMAIN d : i < j =>
         /\ d[i].content.closes => ThoughtAt(d, j) = <<>>
         /\ d[i].calls # <<>> /\ d[i].choice = d[j].choice => SaidAt(d, j) = <<>>
  BY DEF Sequenced
<1> HIDE DEF d, n
<1>5. n + 1 \in 1..(n + 1) /\ \A i \in 1..n : i \in 1..(n + 1) /\ i < n + 1
  BY <1>1
<1>6. Sequenced(cs)
  BY <1>1, <1>2, <1>3, <1>4, <1>5 DEF Sequenced, Orderly
<1> QED
  BY <1>1, <1>3, <1>4, <1>5, <1>6

LEMMA ComposedNext ==
  ASSUME NEW cs \in Seq(ChatChunk), NEW c \in ChatChunk, c.kind = "chunk",
         NEW s \in ChatState, NEW evs \in Seq(Event), Sound(s), Fresh(s),
         Ledger(Opened(s), Closed(s), s.completed, evs),
         Recounts(cs, s, evs), FinishedBy(cs, s), Composed(cs, s, evs)
  PROVE  Composed(Append(cs, c), ConvertChat(s, c).st, evs \o ConvertChat(s, c).out)
<1> DEFINE d == Append(cs, c)
           v == [st |-> s, out |-> <<>>]
           u == scaffold(v)
           w == ConvertChat(s, c)
           t == s.thinking
<1> SUFFICES ASSUME Sequenced(d)
             PROVE  Settled(evs \o w.out) /\ (w.st.completed \/ EndsExplained(d, w.st))
  BY DEF Composed
<1>1. /\ Len(cs) \in Nat /\ (\A i \in 1..Len(cs) : d[i] = cs[i]) /\ d[Len(cs) + 1] = c
      /\ DOMAIN cs = 1..Len(cs) /\ DOMAIN d = 1..(Len(cs) + 1)
  BY AppendIs
<1>2. w = Delta(u, c)
  BY DEF ConvertChat
<1>3. Coherent(d) /\ FinishIsLast(d) /\ Coherent(cs)
  BY CoherentBefore DEF Sequenced, Orderly
<1>4. t \in BOOLEAN /\ (t <=> Thinking(cs, Len(cs)))
  BY <1>3 DEF Recounts, ChatState
<1>5. c.content.closes => WithinThought(t, c)
  BY <1>3, <1>4, CoherentCut
<1>6. ~s.completed
  BY <1>3, FinishCut DEF FinishedBy
<1>7. /\ Sequenced(cs)
      /\ (\E i \in DOMAIN cs : cs[i].content.closes) => ThoughtOf(t, c) = <<>>
      /\ (\E i \in DOMAIN cs : cs[i].calls # <<>> /\ cs[i].choice = c.choice) => SaidOf(t, c) = <<>>
  BY <1>4, SequencedBefore
<1>8. Settled(evs) /\ EndsExplained(cs, s)
  BY <1>6, <1>7 DEF Composed
<1>9. Calm(evs, v) /\ Fresh(v.st) /\ v.st = s
  <2>1. Steady(evs, v) /\ v.out = <<>> /\ evs \o <<>> = evs
    BY FreshLine
  <2> QED
    BY <1>8, <2>1 DEF Steady, Calm
<1> HIDE DEF v
<1>10. Calm(evs, u) /\ Rests(v, u) /\ Fresh(u.st) /\ u.st.completed = s.completed
  BY <1>9, ScaffoldSettles
<1> HIDE DEF u
<1>11. c.choice \in ChoiceIds
  BY DEF ChatChunk
<1>12. /\ u.st.thinking = t /\ u.st.reasoning.done = s.reasoning.done
       /\ \A x \in ChoiceIds : u.st.msg[x].done = s.msg[x].done
  BY <1>9, <1>10 DEF Rests
<1>13. ThoughtOf(u.st.thinking, c) = <<>> \/ ~u.st.reasoning.done
  BY <1>7, <1>8, <1>12 DEF EndsExplained
<1>14. SaidOf(u.st.thinking, c) = <<>> \/ ~u.st.msg[c.choice].done
  BY <1>7, <1>8, <1>11, <1>12 DEF EndsExplained
<1>15. Calm(evs, Delta(u, c)) /\ (Delta(u, c).st.completed \/ Explained(u, Delta(u, c), c))
  BY <1>5, <1>6, <1>10, <1>12, <1>13, <1>14, DeltaSettles
<1> HIDE DEF w
<1>16. Calm(evs, w) /\ (w.st.completed \/ Explained(u, w, c))
  BY <1>2, <1>15
<1>17. ASSUME Explained(u, w, c) PROVE EndsExplained(d, w.st)
  <2>1. /\ Len(cs) + 1 \in DOMAIN d /\ d[Len(cs) + 1] = c
        /\ \A i \in DOMAIN cs : i \in DOMAIN d /\ d[i] = cs[i]
    BY <1>1
  <2> HIDE DEF d
  <2> QED
    BY <1>8, <1>12, <1>17, <2>1 DEF Explained, EndsExplained
<1> QED
  BY <1>16, <1>17 DEF Calm

LEMMA ComposedEnd ==
  ASSUME NEW cs, NEW s \in ChatState, NEW evs \in Seq(Event), Sound(s), Fresh(s),
         Ledger(Opened(s), Closed(s), s.completed, evs), Composed(cs, s, evs)
  PROVE  Composed(cs, flushEvents(s).st, evs \o flushEvents(s).out)
<1> DEFINE v == [st |-> s, out |-> <<>>]
           w == flushEvents(s)
<1>1. w = IF s.completed THEN v ELSE CloseAll(v)
  BY DEF flushEvents
<1>2. Steady(evs, v) /\ v.out = <<>> /\ v.st = s /\ evs \o <<>> = evs
  BY FreshLine
<1>3. w.st.completed
  BY FlushEventsKeeps
<1> HIDE DEF v
<1>4. ASSUME Sequenced(cs) PROVE Settled(evs \o w.out)
  <2>1. Settled(evs) /\ Calm(evs, v)
    BY <1>2, <1>4 DEF Composed, Steady, Calm
  <2>2. Calm(evs, CloseAll(v))
    BY <2>1, CloseAllSettles
  <2> QED
    BY <1>1, <1>2, <2>1, <2>2 DEF Calm
<1> QED
  BY <1>3, <1>4 DEF Composed

LEMMA ComposedAtFirst == Composed(<<>>, NewChatToResp, <<>>)
<1> DEFINE s == NewChatToResp
           m == [added |-> FALSE, done |-> FALSE, buf |-> <<>>]
<1>1. s.reasoning = [at |-> <<>>, done |-> FALSE, buf |-> <<>>] /\ s.msg = [i \in ChoiceIds |-> m]
  BY DEF NewChatToResp
<1> HIDE DEF s
<1>2. ~s.reasoning.done /\ \A c \in ChoiceIds : ~s.msg[c].done
  BY <1>1
<1>3. Settled(<<>>)
  BY DEF Settled, Places
<1> QED
  BY <1>2, <1>3 DEF Composed, EndsExplained, s

\* One event more, among the ends of a call.
LEMMA ClosedCallsNext ==
  ASSUME NEW evs \in Seq(Event), NEW e \in Event, NEW x
  PROVE  /\ OfItem(ClosedCalls(evs), x) \in Seq(Event)
         /\ OfItem(ClosedCalls(Append(evs, e)), x) =
               IF e.type = "close" /\ e.item[1] = "call" /\ e.item = x
               THEN Append(OfItem(ClosedCalls(evs), x), e) ELSE OfItem(ClosedCalls(evs), x)
<1> DEFINE U(q) == {y \in Range(q) : y.type = "close" /\ y.item[1] = "call"}
           c == Append(evs, e)
           closed == ClosedCalls(evs)
<1>1. /\ DOMAIN evs = 1..Len(evs) /\ Range(c) = Range(evs) \cup {e}
      /\ \A i \in 1..Len(evs) : evs[i] \in Range(evs)
  BY AppendIs DEF Range
<1> HIDE DEF c
<1>2. /\ \A i \in DOMAIN evs : evs[i] \in U(evs) <=> evs[i] \in U(c)
      /\ (e \in U(c) <=> (e.type = "close" /\ e.item[1] = "call"))
  BY <1>1
<1>3. \A q : ClosedCalls(q) = Only(q, U(q))
  BY DEF ClosedCalls
<1> HIDE DEF U
<1>4. Only(evs, U(evs)) \in Seq(Event)
  BY OnlyTyped
<1>5. Only(c, U(c)) = IF e \in U(c) THEN Append(Only(evs, U(evs)), e) ELSE Only(evs, U(evs))
  BY <1>2, OnlyNext DEF c
<1>6. /\ closed \in Seq(Event)
      /\ ClosedCalls(c) = IF e.type = "close" /\ e.item[1] = "call" THEN Append(closed, e) ELSE closed
  BY <1>2, <1>3, <1>4, <1>5
<1> HIDE DEF closed
<1>7. /\ OfItem(closed, x) \in Seq(Event)
      /\ OfItem(Append(closed, e), x) = IF e.item = x THEN Append(OfItem(closed, x), e) ELSE OfItem(closed, x)
  BY <1>6, OwnNext
<1>8. OfItem(ClosedCalls(c), x) =
         IF e.type = "close" /\ e.item[1] = "call" /\ e.item = x THEN Append(OfItem(closed, x), e) ELSE OfItem(closed, x)
  BY <1>6, <1>7
<1> QED
  BY <1>7, <1>8 DEF c, closed

\* A call that ends once is told once.
EndsAt(evs, x, k) == k \in Places(evs, "close") /\ evs[k].item = x

LEMMA ToldOnce ==
  ASSUME NEW evs \in Seq(Event), NEW x, x[1] = "call", NEW k, EndsAt(evs, x, k),
         \A j : EndsAt(evs, x, j) => j = k
  PROVE  OfItem(ClosedCalls(evs), x) = <<evs[k]>>
<1> DEFINE Closings(q) == OfItem(ClosedCalls(q), x)
           Never(q) == (\A j : ~EndsAt(q, x, j)) => Closings(q) = <<>>
           Once(q) == \A i : EndsAt(q, x, i) /\ (\A j : EndsAt(q, x, j) => j = i) => Closings(q) = <<q[i]>>
           P == {q \in Seq(Event) : Never(q) /\ Once(q)}
<1>1. <<>> \in P
  <2>1. Closings(<<>>) = <<>>
    BY OnlyEmpty DEF ClosedCalls, OfItem
  <2>2. \A i : ~EndsAt(<<>>, x, i)
    BY DEF EndsAt, Places
  <2> QED
    BY <2>1, <2>2, EmptySeq
<1>2. ASSUME NEW q \in Seq(Event), NEW e \in Event, q \in P PROVE Append(q, e) \in P
  <2> DEFINE d == Append(q, e)
             n == Len(q)
             ends == e.type = "close" /\ e.item = x
  <2>1. /\ n \in Nat /\ (\A i \in 1..n : d[i] = q[i]) /\ d[n + 1] = e
        /\ \A t : Places(q, t) \subseteq 1..n
        /\ \A t : t # e.type => Places(d, t) = Places(q, t)
        /\ Places(d, e.type) = Places(q, e.type) \cup {n + 1}
    BY PlacesAppend
  <2>2. d \in Seq(Event)
    BY AppendIs
  <2>3. /\ Closings(q) \in Seq(Event)
        /\ Closings(d) = IF e.type = "close" /\ e.item[1] = "call" /\ e.item = x THEN Append(Closings(q), e) ELSE Closings(q)
    BY ClosedCallsNext
  <2>4. Never(q) /\ Once(q)
    BY <1>2
  <2> HIDE DEF d, n, Closings
  <2>5. \A i : EndsAt(d, x, i) <=> EndsAt(q, x, i) \/ (ends /\ i = n + 1)
    <3>1. \A i \in Places(q, "close") : d[i] = q[i]
      BY <2>1
    <3>2. CASE e.type = "close"
      BY <2>1, <3>1, <3>2 DEF EndsAt
    <3>3. CASE e.type # "close"
      BY <2>1, <3>1, <3>3 DEF EndsAt
    <3> QED
      BY <3>2, <3>3
  <2>6. \A i : EndsAt(q, x, i) => i # n + 1 /\ d[i] = q[i]
    <3>1. \A i \in 1..n : i # n + 1
      BY <2>1
    <3> QED
      BY <2>1, <3>1 DEF EndsAt
  <2>7. Closings(d) = IF ends THEN Append(Closings(q), e) ELSE Closings(q)
    BY <2>3
  <2>8. Never(d)
    BY <2>4, <2>5, <2>7
  <2>9. ASSUME NEW i, EndsAt(d, x, i), \A j : EndsAt(d, x, j) => j = i PROVE Closings(d) = <<d[i]>>
    <3>1. CASE ends
      <4>1. i = n + 1 /\ \A j : ~EndsAt(q, x, j)
        BY <2>5, <2>6, <2>9, <3>1
      <4>2. Closings(q) = <<>>
        BY <2>4, <4>1
      <4> QED
        BY <2>1, <2>7, <3>1, <4>1, <4>2
    <3>2. CASE ~ends
      BY <2>4, <2>5, <2>6, <2>7, <2>9, <3>2
    <3> QED
      BY <3>1, <3>2
  <2> QED
    BY <2>2, <2>8, <2>9 DEF d
<1> HIDE DEF P
<1>3. Seq(Event) \subseteq P
  BY <1>1, <1>2, SequenceInduction
<1> QED
  BY <1>3 DEF P

\* Unless a write to the client failed.
Retold ==
    route = "stream" /\ client = "responses" /\ stage # "cut" =>
        /\ Recounts(Chunks(heard), tr, sent) /\ Composed(Chunks(heard), tr, sent)
        /\ stage # "flushed" => FinishedBy(Chunks(heard), tr)

LEMMA LineIsRetold ==
  ASSUME ItemsInv, Retold, ProcessLine, client = "responses"
  PROVE  Retold'
<1>1. /\ route = "stream" /\ upstream = "chat" /\ stage = "open" /\ UNCHANGED <<route, upstream, client>>
      /\ heard \in Seq(ChatChunk) /\ sent \in Seq(Event) /\ tr \in ChatState /\ Sound(tr) /\ Fresh(tr)
      /\ Ledger(Opened(tr), Closed(tr), tr.completed, sent)
  BY DEF ItemsInv, ProcessLine
<1>2. PICK e \in Messages(heard) :
        LET w == Convert(tr, e)
            items == ToClient(Merged(tracked, e), w.out)
        IN \E k \in 0 .. Len(items) :
              /\ heard' = Append(heard, e)
              /\ tr' = w.st
              /\ tracked' = Merged(tracked, e)
              /\ sent' = sent \o SubSeq(items, 1, k)
              /\ stage' = IF k = Len(items) THEN "open" ELSE "cut"
  BY DEF ProcessLine
<1> DEFINE w == ConvertChat(tr, e)
           cs == Chunks(heard)
<1>3. PICK k \in 0 .. Len(w.out) :
              /\ heard' = Append(heard, e)
              /\ tr' = w.st
              /\ sent' = sent \o SubSeq(w.out, 1, k)
              /\ stage' = IF k = Len(w.out) THEN "open" ELSE "cut"
  BY <1>1, <1>2 DEF Convert, ToClient
<1>4. e \in ChatChunk
  <2>1. PICK c \in ChatKinds \cup PlainKinds : e = StampedChat(Len(heard) + 1, c)
    BY <1>1, <1>2 DEF Messages, ChatMessages
  <2>2. Len(heard) + 1 \in Nat
    BY <1>1, LenProperties
  <2> QED
    BY <2>1, <2>2, StampedIsChunk
<1>5. w.out \in Seq(Event)
  BY <1>1, <1>4, ConvertChatKeeps, WorkIs DEF Steady, Good
<1>6. /\ cs \in Seq(ChatChunk)
      /\ Chunks(heard') = IF e.kind = "chunk" THEN Append(cs, e) ELSE cs
  BY <1>1, <1>3, <1>4, ChunksNext
<1>7. Recounts(cs, tr, sent) /\ FinishedBy(cs, tr) /\ Composed(cs, tr, sent)
  BY <1>1 DEF Retold
<1> HIDE DEF cs
<1>8. /\ Recounts(Chunks(heard'), w.st, sent \o w.out) /\ FinishedBy(Chunks(heard'), w.st)
      /\ Composed(Chunks(heard'), w.st, sent \o w.out)
  <2>1. CASE e.kind = "chunk"
    <3>1. /\ Recounts(Append(cs, e), w.st, sent \o w.out)
          /\ FinishedBy(Append(cs, e), w.st)
      BY <1>1, <1>4, <1>6, <1>7, <2>1, RecountsNext
    <3>2. Composed(Append(cs, e), w.st, sent \o w.out)
      BY <1>1, <1>4, <1>6, <1>7, <2>1, ComposedNext
    <3> QED
      BY <1>6, <2>1, <3>1, <3>2
  <2>2. CASE e.kind # "chunk"
    <3>1. w.st = tr /\ w.out = <<>>
      BY <2>2 DEF ConvertChat
    <3>2. sent \o <<>> = sent
      BY <1>1, ConcatEmptySeq
    <3> QED
      BY <1>6, <1>7, <2>2, <3>1, <3>2
  <2> QED
    BY <2>1, <2>2
<1> HIDE DEF w
<1>9. ASSUME stage' # "cut"
      PROVE  /\ Recounts(Chunks(heard'), tr', sent') /\ FinishedBy(Chunks(heard'), tr')
             /\ Composed(Chunks(heard'), tr', sent')
  <2>1. SubSeq(w.out, 1, Len(w.out)) = w.out
    BY <1>5, SubSeqFull
  <2>2. sent' = sent \o w.out
    BY <1>3, <1>9, <2>1
  <2> QED
    BY <1>3, <1>8, <2>2
<1> QED
  BY <1>9 DEF Retold

LEMMA EndIsRetold ==
  ASSUME ItemsInv, Retold, StreamEnds, client = "responses"
  PROVE  Retold'
<1>1. /\ route = "stream" /\ upstream = "chat" /\ stage = "open" /\ stage' = "flushed"
      /\ UNCHANGED <<route, upstream, client, heard>>
      /\ sent \in Seq(Event) /\ tr \in ChatState /\ Sound(tr) /\ Fresh(tr)
      /\ Ledger(Opened(tr), Closed(tr), tr.completed, sent)
  BY DEF ItemsInv, StreamEnds
<1>2. tr' = flushEvents(tr).st /\ sent' = sent \o flushEvents(tr).out
  BY <1>1 DEF StreamEnds, Flush, ToClient
<1>3. Recounts(Chunks(heard), tr, sent) /\ Composed(Chunks(heard), tr, sent)
  BY <1>1 DEF Retold
<1>4. /\ Recounts(Chunks(heard), flushEvents(tr).st, sent \o flushEvents(tr).out)
      /\ Composed(Chunks(heard), flushEvents(tr).st, sent \o flushEvents(tr).out)
  BY <1>1, <1>3, RecountsEnd, ComposedEnd
<1> QED
  BY <1>1, <1>2, <1>4 DEF Retold

LEMMA RetoldInvariant == Spec => [](ItemsInv /\ Retold)
<1>1. Init => Retold /\ ReaderRests
  <2>1. Init => ReaderRests
    BY DEF Init, ReaderRests, ReadInit
  <2>2. ASSUME Init, route = "stream", client = "responses" PROVE Retold
    <3>1. tr = NewChatToResp /\ heard = <<>> /\ sent = <<>>
      BY <2>2 DEF Init
    <3>2. Chunks(heard) = <<>>
      BY <3>1, NothingSaid
    <3> QED
      BY <3>1, <3>2, RecountsAtFirst, ComposedAtFirst DEF Retold
  <2> QED
    BY <2>1, <2>2 DEF Retold
<1>2. ItemsInv /\ Retold /\ ReaderRests /\ [Next]_vars => (Retold /\ ReaderRests)'
  <2> SUFFICES ASSUME ItemsInv, Retold, ReaderRests, [Next]_vars PROVE Retold'
    BY StreamSteps
  <2>1. UNCHANGED <<route, upstream, client>>
    BY StreamSteps
  <2>2. CASE ~(route = "stream" /\ client = "responses")
    BY <2>1, <2>2 DEF Retold
  <2>3. CASE route = "stream" /\ client = "responses"
    <3>1. ProcessLine \/ StreamEnds \/ StreamAborts \/ UNCHANGED translateVars
      BY <2>3, StreamSteps
    <3>2. CASE StreamAborts
      BY <3>2 DEF StreamAborts, Retold
    <3>3. CASE UNCHANGED translateVars
      BY <3>3 DEF translateVars, Retold
    <3> QED
      BY <2>3, <3>1, <3>2, <3>3, LineIsRetold, EndIsRetold
  <2> QED
    BY <2>2, <2>3
<1> QED
  BY <1>1, <1>2, ItemsInvariant, PTL DEF Spec

\* In every coherent stream, wherever the upstream stops, an item that ends has
\* started first and repeats exactly what its deltas said until then, {} where
\* those of a call said nothing; and nothing of an item follows its end unless
\* the upstream resumes a text after a call, a thought after its mark or anything
\* after a finish (stream_chat2resp.go: MsgTextBuf, FuncArgsBuf and what
\* closeMessage and closeToolCall make of them; emitTextContent and
\* emitReasoningDelta, which do not look whether their item is over).
THEOREM RepeatsCorrect == Spec => []ItemsRepeatTheirDeltas
<1>1. Retold => ItemsRepeatTheirDeltas
  <2> SUFFICES ASSUME Retold, ToResponsesClient, Coherent(Chunks(heard)) PROVE ItemsRepeatTheirDeltas
    BY DEF ItemsRepeatTheirDeltas
  <2>1. FALSE \in BOOLEAN /\ (FALSE => FinishIsLast(Chunks(heard)))
    OBVIOUS
  <2>2. Recounts(Chunks(heard), tr, sent) /\ Composed(Chunks(heard), tr, sent)
    BY DEF Retold, ToResponsesClient
  <2>3. Records(Said(Chunks(heard)), Thought(Chunks(heard)), FALSE, tr, sent)
    BY <2>1, <2>2 DEF Recounts
  <2>4. Repeats(sent)
    BY <2>3 DEF Records
  <2>5. Sequenced(Chunks(heard)) => Settled(sent)
    BY <2>2 DEF Composed
  <2> QED
    BY <2>4, <2>5 DEF ItemsRepeatTheirDeltas, Repeats, RepeatsAt, Settled
<1> QED
  BY <1>1, RetoldInvariant, PTL

LEMMA EntriesTyped ==
  ASSUME NEW b \in Seq(ChatChunk)
  PROVE  Entries(Chunks(b)) \in Seq(CallEntry)
<1> DEFINE cs == Chunks(b)
           f == [i \in DOMAIN cs |-> cs[i].calls]
<1>1. cs \in Seq(ChatChunk)
  BY OnlyTyped DEF Chunks, Of
<1> HIDE DEF cs
<1>2. Len(cs) \in Nat /\ DOMAIN cs = 1..Len(cs) /\ \A i \in 1..Len(cs) : cs[i].calls \in Seq(CallEntry)
  BY <1>1, LenProperties, ElementOfSeq DEF ChatChunk
<1>3. f \in [1..Len(cs) -> Seq(CallEntry)]
  BY <1>2
<1>4. Entries(cs) = Texts(f)
  BY DEF Entries, Mapped
<1> HIDE DEF f
<1>5. f \in Seq(Seq(CallEntry))
  BY <1>2, <1>3, FunctionIsSeq
<1>6. Texts(f) \in Seq(CallEntry)
  BY <1>5, TextsTyped
<1> QED
  BY <1>4, <1>6 DEF cs

\* The end of a call is told once, with all of its arguments.
InFull(evs, x, text) ==
    /\ Len(OfItem(ClosedCalls(evs), x)) = 1
    /\ OfItem(ClosedCalls(evs), x)[1].text = text

\* The name the translator knows is the one the entries give.
LEMMA NameKnown ==
  ASSUME NEW ds, NEW f, NEW n, KnowsCall(ds, f, n)
  PROVE  NameSaid(ds, n) = f.name
BY DEF KnowsCall, NameSaid

\* A fragment of the upstream reaches the Responses client once, in its order,
\* as thought or as text; after a clean end the arguments of every call have been
\* told in full (stream_chat2resp.go: the think marks and InThinking,
\* emitToolCall, closeToolCall).
THEOREM LossCorrect == Spec => []NothingIsLost
<1>1. ItemsInv /\ Retold => NothingIsLost
  <2> SUFFICES ASSUME ItemsInv, Retold, ToResponsesClient, Orderly(Chunks(heard)) PROVE NothingIsLost
    BY DEF NothingIsLost
  <2> DEFINE cs == Chunks(heard)
             ds == Entries(cs)
  <2>1. Coherent(cs) /\ FinishIsLast(cs)
    BY DEF Orderly
  <2>2. Recounts(cs, tr, sent) /\ route = "stream" /\ client = "responses" /\ stage # "cut"
    BY DEF Retold, ToResponsesClient
  <2>3. sent \in Seq(Event) /\ Proper(sent) /\ tr \in ChatState
    BY <2>2 DEF ItemsInv
  <2>4. Records(Said(cs), Thought(cs), TRUE, tr, sent) /\ Knows(ds, tr.func)
    <3>1. TRUE \in BOOLEAN /\ (TRUE => FinishIsLast(cs))
      BY <2>1
    <3> QED
      BY <2>1, <2>2, <3>1 DEF Recounts
  <2>5. DeltasOf(sent, "message") = Said(cs) /\ DeltasOf(sent, "reasoning") = Thought(cs)
    BY <2>4 DEF Records
  <2>6. ds \in Seq(CallEntry)
    <3>1. heard \in Seq(ChatChunk)
      BY <2>2 DEF ItemsInv
    <3> QED
      BY <3>1, EntriesTyped
  <2>7. stage = "flushed" => tr.completed
    BY <2>2 DEF ItemsInv
  <2>8. tr.completed => \A n \in CallSlots : tr.func[n].id => tr.func[n].done
    BY <2>1, <2>2 DEF Recounts
  <2>9. AllTold(tr.func, sent)
    BY <2>4 DEF Records
  <2> HIDE DEF ds
  <2>10. ASSUME stage = "flushed", NEW i \in DOMAIN ds, ds[i].id
         PROVE  InFull(sent, <<"call", ds[i].slot>>,
                       FinalText(NameSaid(ds, ds[i].slot), ArgumentsSaid(ds, ds[i].slot)))
    <3> DEFINE n == ds[i].slot
               x == <<"call", n>>
    <3>1. n \in CallSlots
      <4>1. DOMAIN ds = 1..Len(ds) /\ \A j \in 1..Len(ds) : ds[j] \in CallEntry
        BY <2>6, LenProperties, ElementOfSeq
      <4>2. ds[i] \in CallEntry
        BY <2>10, <4>1
      <4> QED
        BY <4>2 DEF CallEntry
    <3>0. KnowsCall(ds, tr.func[n], n)
      BY <2>4, <3>1 DEF Knows
    <3>2. tr.func[n].id /\ tr.func[n].args = ArgumentsSaid(ds, n)
      BY <2>10, <3>0 DEF KnowsCall
    <3>11. tr.func[n].name = NameSaid(ds, n)
      BY <3>0, NameKnown
    <3>3. tr.func[n].done
      BY <2>7, <2>8, <2>10, <3>1, <3>2
    <3> HIDE DEF n
    <3>4. PICK k \in Places(sent, "close") :
             /\ sent[k].item = x
             /\ sent[k].text = FinalText(tr.func[n].name, tr.func[n].args)
      BY <2>9, <3>1, <3>3 DEF AllTold
    <3>5. EndsAt(sent, x, k) /\ \A j : EndsAt(sent, x, j) => j = k
      BY <2>3, <3>4 DEF EndsAt, Proper
    <3>6. x[1] = "call"
      OBVIOUS
    <3> HIDE DEF x
    <3>7. OfItem(ClosedCalls(sent), x) = <<sent[k]>>
      BY <2>3, <3>5, <3>6, ToldOnce
    <3>8. Len(<<sent[k]>>) = 1 /\ <<sent[k]>>[1] = sent[k]
      OBVIOUS
    <3>9. InFull(sent, x, FinalText(NameSaid(ds, n), ArgumentsSaid(ds, n)))
      BY <3>2, <3>4, <3>7, <3>8, <3>11 DEF InFull
    <3> QED
      BY <3>9 DEF x, n
  <2> QED
    BY <2>5, <2>10 DEF NothingIsLost, InFull, ds
<1> QED
  BY <1>1, RetoldInvariant, PTL
=============================================================================
