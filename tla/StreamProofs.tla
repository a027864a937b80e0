---------------------------- MODULE StreamProofs ----------------------------
(***************************************************************************)
(* The stall verdict, the ends of a stream and the way of its data from   *)
(* the body to the client, for every size of the channel, every stall      *)
(* window and every length of the body.                                    *)
(***************************************************************************)
EXTENDS Stream, SequenceFacts, TLAPS

-----------------------------------------------------------------------------
(* The stall timer. *)

\* Types of what the timer argument reads.
TimeTyped ==
    /\ idle \in 0 .. Stall /\ silence \in 0 .. Stall /\ held \in 0 .. Stall
    /\ scan \in [at : {"select", "fn", "tail", "returned"}, verdict : Verdict]

\* The timer never runs ahead of both clocks: time it counts was silent, or
\* was spent in the last callback, or a ping that waits will rearm it.
TimerInv ==
    /\ TimeTyped
    /\ scan.at = "fn" => idle <= held
    /\ scan.at \in {"select", "fn"} =>
          idle <= silence \/ held = Stall \/ (progress = TRUE /\ idle < Stall)

\* Nothing has been counted when a response arrives.
LEMMA TimerInvInit == Init => TimerInv
  BY ScannerConstants DEF Init, ScannerInit, TimerInv, TimeTyped, Verdict

\* The calls of a scan that end it, or that leave its clocks alone.
LEMMA TimerInvReturn ==
  ASSUME NEW v \in Verdict, TimerInv, Return(v), UNCHANGED progress
  PROVE  TimerInv'
  BY ScannerConstants DEF TimerInv, TimeTyped, Return, Verdict

\* Every step keeps the timer behind the clocks.
LEMMA TimerInvStep == TimerInv /\ [Next]_vars => TimerInv'
<1> SUFFICES ASSUME TimerInv, [Next]_vars PROVE TimerInv'
  OBVIOUS
<1> USE ScannerConstants
<1> DEFINE Clocks == <<idle, silence, held, progress, scan>>
<1>0. UNCHANGED Clocks => TimerInv'
  BY DEF TimerInv, TimeTyped
<1>1. ASSUME RejectBody \/ Rejected \/ AcceptBody \/ ClientLeaves \/ Disconnected \/ Write
             \/ Abort \/ FlushRelay \/ Finish
      PROVE  TimerInv'
  BY <1>0, <1>1 DEF RejectBody, Rejected, AcceptBody, ClientLeaves, Disconnected, Write, Abort,
     FlushRelay, Finish, StartScan, CancelContext, scannerVars, channels, history
<1>2. ASSUME Upstream PROVE TimerInv'
  <2>1. PICK new, more, end : BodyRead(new, more, end)
    BY <1>2 DEF Upstream
  <2>2. UNCHANGED <<idle, held, scan>>
    BY <2>1 DEF BodyRead
  <2>3. \/ UNCHANGED <<progress, silence>>
        \/ progress' = TRUE /\ silence' = IF idle = Stall THEN silence ELSE 0
    BY <2>1 DEF BodyRead
  <2> QED BY <2>2, <2>3 DEF TimerInv, TimeTyped
<1>3. ASSUME RelayLine PROVE TimerInv'
  BY <1>3 DEF RelayLine, TakeLine, Call, TimerInv, TimeTyped
<1>4. ASSUME RelayTail PROVE TimerInv'
  BY <1>4 DEF RelayTail, TakeTail, Call, TimerInv, TimeTyped
<1>5. ASSUME NEW ok \in BOOLEAN, CallReturns(ok) PROVE TimerInv'
  <2>1. CASE ok /\ scan.at = "fn"
    BY <1>5, <2>1 DEF CallReturns, channels, TimerInv, TimeTyped
  <2>2. CASE ~(ok /\ scan.at = "fn")
    <3>1. Return(IF ok THEN Outcome ELSE "write_error") /\ UNCHANGED progress
      BY <1>5, <2>2 DEF CallReturns, channels
    <3> QED BY <3>1, TimerInvReturn DEF Outcome, Verdict
  <2> QED BY <2>1, <2>2
<1>6. ASSUME WriteFails PROVE TimerInv'
  <2>1. UNCHANGED scannerVars \/ CallReturns(FALSE)
    BY <1>6 DEF WriteFails
  <2> QED BY <1>0, <1>5, <2>1 DEF scannerVars, channels, history
<1>7. ASSUME Relayed PROVE TimerInv'
  BY <1>5, <1>7 DEF Relayed
<1>8. ASSUME ReaderStep PROVE TimerInv'
  BY <1>0, <1>8 DEF ReaderStep, BodyFails, PassLine, ReaderLeaves, ReaderEnds, channels, history
<1>9. ASSUME ConsumerSteps PROVE TimerInv'
  <2>1. CASE TakeProgress
    BY <2>1 DEF TakeProgress, Rearmed, Selecting, history, TimerInv, TimeTyped
  <2>2. CASE ScanEnds
    <3>1. Return(Outcome) /\ UNCHANGED progress
      BY <2>2 DEF ScanEnds, channels
    <3> QED BY <3>1, TimerInvReturn DEF Outcome, Verdict
  <2>3. CASE TimerFires \/ SeesCanceled
    <3>1. (Return("stall") \/ Return("canceled")) /\ UNCHANGED progress
      BY <2>3 DEF TimerFires, SeesCanceled, channels
    <3> QED BY <3>1, TimerInvReturn DEF Verdict
  <2> QED BY <1>9, <2>1, <2>2, <2>3 DEF ConsumerSteps
<1>10. ASSUME Tick PROVE TimerInv'
  <2>1. CASE scan.at = "select"
    <3>1. ~progress /\ idle # Stall
      BY <1>10, <2>1 DEF Tick, ConsumerCanRun, Selecting
    <3> QED BY <1>10, <2>1, <3>1 DEF Tick, Capped, channels, TimerInv, TimeTyped
  <2>2. CASE scan.at # "select"
    BY <1>10, <2>2 DEF Tick, Capped, channels, TimerInv, TimeTyped
  <2> QED BY <2>1, <2>2
<1>11. ASSUME UNCHANGED vars PROVE TimerInv'
  BY <1>0, <1>11 DEF vars, scannerVars, channels, history
<1> QED
  BY <1>1, <1>2, <1>3, <1>4, <1>6, <1>7, <1>8, <1>9, <1>10, <1>11 DEF Next, Scan, Handler

\* A scan reports a stall only when the timer fired, and then one of the two
\* clocks has run for the whole window.
THEOREM StallIsJustified == Spec => StallNamesTheCulprit
<1>1. TimerInv /\ [Next]_vars
         => [scan'.verdict = "stall" /\ scan.verdict # "stall"
                => silence = Stall \/ held = Stall]_scannerVars
  <2> SUFFICES ASSUME TimerInv, Next, scan'.verdict = "stall", scan.verdict # "stall"
               PROVE  silence = Stall \/ held = Stall
    BY DEF vars
  <2>1. CASE TimerFires
    BY <2>1, ScannerConstants DEF TimerFires, Selecting, TimerInv, TimeTyped
  <2>2. CASE ~TimerFires
    <3>1. ASSUME NEW v \in Verdict \ {"stall"}, Return(v) PROVE FALSE
      BY <3>1 DEF Return
    <3>2. ~CallReturns(TRUE) /\ ~CallReturns(FALSE)
      BY <3>1 DEF CallReturns, Outcome, Verdict, TimerInv, TimeTyped
    <3>3. ~ScanEnds /\ ~SeesCanceled
      BY <3>1 DEF ScanEnds, SeesCanceled, Outcome, Verdict
    <3>4. scan' # scan
      OBVIOUS
    <3>5. ~ReaderStep /\ ~Tick /\ ~TakeProgress
      BY <3>4 DEF ReaderStep, BodyFails, PassLine, ReaderLeaves, ReaderEnds, Tick, TakeProgress
    <3>6. ~Upstream
      BY <3>4 DEF Upstream, BodyRead
    <3>7. ~(RejectBody \/ Rejected \/ AcceptBody \/ ClientLeaves \/ Disconnected \/ Write \/ Abort
            \/ FlushRelay \/ Finish \/ RelayLine \/ RelayTail)
      BY <3>4 DEF RejectBody, Rejected, AcceptBody, ClientLeaves, Disconnected, Write, Abort, FlushRelay,
         Finish, StartScan, CancelContext, scannerVars, RelayLine, RelayTail, TakeLine, TakeTail,
         Call, TimerInv, TimeTyped
    <3>8. ~WriteFails
      BY <3>2, <3>4 DEF WriteFails, scannerVars
    <3> QED BY <2>2, <3>2, <3>3, <3>5, <3>6, <3>7, <3>8
            DEF Next, Scan, ConsumerSteps, Handler, Relayed
  <2> QED BY <2>1, <2>2
<1> QED BY <1>1, TimerInvInit, TimerInvStep, PTL DEF Spec, StallNamesTheCulprit

-----------------------------------------------------------------------------
(* Types. *)

\* The flags stay flags.
LEMMA FlagTypes ==
  ASSUME NEW r \in Relay
  PROVE  /\ \A line \in LineKind : Noted(r, line) \in Relay
         /\ \A f \in Frame : Wrote(r, f) \in Relay
  BY DEF Noted, Wrote, Relay

\* An ending is a sequence of frames.
LEMMA EndingType ==
  ASSUME NEW r \in Relay, NEW s \in Frame
  PROVE  Ending(r, s) \in Seq(Frame)
<1>1. <<>> \in Seq(Frame) /\ <<"failure">> \in Seq(Frame) /\ <<s>> \in Seq(Frame)
  BY DEF Frame
<1> QED BY <1>1 DEF Ending

\* So is what a line leads to.
LEMMA LineType ==
  ASSUME NEW r \in Relay, NEW line \in LineKind
  PROVE  ProcessLine(r, line) \in Seq(Frame)
<1>1. CASE line \in {"noise", "muted"}
  BY <1>1 DEF ProcessLine
<1>2. CASE line = "done" /\ r.format = "responses"
  BY <1>2, EndingType DEF ProcessLine, Frame
<1>3. CASE line \notin {"noise", "muted"} /\ ~(line = "done" /\ r.format = "responses")
  <2>1. ProcessLine(r, line) = <<line>>
    BY <1>3 DEF ProcessLine
  <2>2. line \in Frame
    BY <1>3 DEF LineKind, Frame
  <2> QED BY <2>1, <2>2
<1> QED BY <1>1, <1>2, <1>3

\* So is what a tail leads to.
LEMMA TailType ==
  ASSUME NEW r \in Relay, NEW t \in TailKind
  PROVE  ProcessTail(r, t) \in Seq(Frame)
<1>1. t \in Frame /\ "sentinel" \in Frame
  BY DEF TailKind, Frame
<1> QED BY <1>1, EndingType DEF ProcessTail

\* So are both ends of a stream.
LEMMA EndTypes ==
  ASSUME NEW r \in Relay
  PROVE  Flush(r) \in Seq(Frame) /\ Apology(r) \in Seq(Frame)
<1>1. "sentinel" \in Frame /\ "failure" \in Frame
  BY DEF Frame
<1>2. Flush(r) \in Seq(Frame)
  BY <1>1, EndingType DEF Flush
<1>3. Apology(r) \in Seq(Frame)
  BY <1>1 DEF Apology
<1> QED BY <1>2, <1>3

\* A new response has the types of a stream.
LEMMA StreamTypeInit == Init => StreamTypeOK
<1> SUFFICES ASSUME Init PROVE StreamTypeOK
  OBVIOUS
<1>1. /\ pending \in BOOLEAN /\ readErr \in BOOLEAN /\ progress \in BOOLEAN
      /\ canceled \in BOOLEAN /\ closed \in BOOLEAN /\ gone \in BOOLEAN
  BY Zenon DEF Init, ScannerInit
<1>2. /\ reader \in [at : {"unborn", "reading", "passing", "done"},
                     carved : Seq(Payload), end : {"no", "eof", "error"}]
      /\ lines \in Seq(Payload) /\ Len(lines) <= LinesCap
      /\ tails \in Seq(Residue) /\ Len(tails) <= 1
      /\ sent \in Seq(Payload) /\ Len(sent) <= MaxLines /\ reads \in 0 .. MaxReads
      /\ idle \in 0 .. Stall /\ silence \in 0 .. Stall /\ held \in 0 .. Stall
  BY ScannerConstants DEF Init, ScannerInit
<1>3. relay \in Relay
  BY DEF Init, NewRelay, Relay
<1>4. /\ scan \in [at : {"select", "fn", "tail", "returned"}, verdict : Verdict]
      /\ outbox \in Seq(Frame) /\ wire \in Seq(Frame)
      /\ stage \in Stage /\ row \in Row /\ rest \in Residue \cup {"no"}
  BY DEF Init, ScannerInit, Verdict, Stage, Row
<1> QED BY <1>1, <1>2, <1>3, <1>4 DEF StreamTypeOK, ScannerTypeOK

\* Steps of the scanner that leave the relay alone.
LEMMA ScannerTypeStep ==
  ASSUME ScannerTypeOK, ReaderStep \/ ConsumerSteps \/ Tick \/ StartScan \/ CancelContext
  PROVE  ScannerTypeOK'
<1> USE ScannerConstants DEF ScannerTypeOK, channels, history
<1>1. CASE BodyFails
  BY <1>1 DEF BodyFails
<1>2. CASE PassLine
  <2>1. lines \in Seq(Payload) /\ Head(reader.carved) \in Payload /\ Tail(reader.carved) \in Seq(Payload)
    BY <1>2, HeadTailProperties DEF PassLine
  <2>2. lines' \in Seq(Payload) /\ Len(lines') <= LinesCap
    BY <1>2, <2>1, AppendProperties DEF PassLine
  <2>3. reader' \in [at : {"unborn", "reading", "passing", "done"},
                     carved : Seq(Payload), end : {"no", "eof", "error"}]
    BY <1>2, <2>1 DEF PassLine
  <2> QED BY <1>2, <2>2, <2>3 DEF PassLine
<1>3. CASE ReaderLeaves
  BY <1>3 DEF ReaderLeaves
<1>4. CASE ReaderEnds
  <2>1. tails' \in Seq(Residue) /\ Len(tails') <= 1
    <3>1. (\E t \in Residue : tails' = <<t>>) \/ tails' = tails
      BY <1>4 DEF ReaderEnds, PutTail
    <3>2. \A t \in Residue : <<t>> \in Seq(Residue) /\ Len(<<t>>) = 1
      OBVIOUS
    <3>3. CASE tails' = tails
      BY <3>3
    <3>4. ASSUME NEW t \in Residue, tails' = <<t>>
          PROVE  tails' \in Seq(Residue) /\ Len(tails') <= 1
      <4>1. <<t>> \in Seq(Residue) /\ Len(<<t>>) = 1
        BY <3>2
      <4> HIDE DEF ScannerTypeOK
      <4> QED BY <3>4, <4>1
    <3> QED BY <3>1, <3>3, <3>4
  <2>2. readErr' \in BOOLEAN
    <3>1. readErr' = (reader.end = "error")
      BY <1>4 DEF ReaderEnds, PutTail
    <3>2. (reader.end = "error") \in BOOLEAN
      BY Zenon
    <3> QED BY <3>1, <3>2, Zenon
  <2> QED BY <1>4, <2>1, <2>2 DEF ReaderEnds
<1>5. CASE TakeProgress
  <2>1. progress' \in BOOLEAN
    BY <1>5, Zenon DEF TakeProgress
  <2> QED BY <1>5, <2>1 DEF TakeProgress, Rearmed
<1>6. CASE ScanEnds \/ TimerFires \/ SeesCanceled
  BY <1>6 DEF ScanEnds, TimerFires, SeesCanceled, Return, Outcome, Verdict
<1>7. CASE Tick
  BY <1>7 DEF Tick, Capped
<1>8. CASE StartScan \/ CancelContext
  BY <1>8 DEF StartScan, CancelContext
<1> QED BY <1>1, <1>2, <1>3, <1>4, <1>5, <1>6, <1>7, <1>8 DEF ReaderStep, ConsumerSteps

\* The return of a callback.
LEMMA CallTypeStep ==
  ASSUME ScannerTypeOK, NEW ok \in BOOLEAN, CallReturns(ok)
  PROVE  ScannerTypeOK'
  BY ScannerConstants DEF ScannerTypeOK, CallReturns, Return, Outcome, Verdict, channels

\* Every step keeps the types.
LEMMA StreamTypeStep == StreamTypeOK /\ [Next]_vars => StreamTypeOK'
<1> SUFFICES ASSUME StreamTypeOK, [Next]_vars PROVE StreamTypeOK'
  OBVIOUS
<1> USE ScannerConstants, StreamConstants
<1>1. CASE RejectBody \/ Rejected \/ Finish
  BY <1>1, ZenonT(60) DEF RejectBody, Rejected, Finish, Leave, scannerVars, StreamTypeOK, ScannerTypeOK, Stage, Row, channels, history
<1>2. CASE AcceptBody \/ Disconnected \/ Scan
  BY <1>2, ScannerTypeStep DEF AcceptBody, Disconnected, Scan, StreamTypeOK, Stage, streamVars
<1>3. CASE Upstream
  <2>0. PICK n \in 0 .. LinesPerRead :
           \E new \in [1 .. n -> Payload], more \in BOOLEAN, end \in {"no", "eof", "error"} :
              BodyRead(new, more, end)
    BY <1>3 DEF Upstream
  <2>1. PICK new \in [1 .. n -> Payload], more \in BOOLEAN, end \in {"no", "eof", "error"} :
           BodyRead(new, more, end)
    BY <2>0
  <2>2. new \in Seq(Payload)
    BY <2>1
  <2>3. ScannerTypeOK'
    <3>1. /\ reader' \in [at : {"reading", "passing"}, carved : Seq(Payload), end : {"no", "eof", "error"}]
          /\ pending' \in BOOLEAN /\ sent' \in Seq(Payload) /\ Len(sent') <= MaxLines
          /\ reads' \in 0 .. MaxReads
      BY <2>1, <2>2 DEF BodyRead, Trickle, StreamTypeOK, ScannerTypeOK
    <3>2. progress' \in BOOLEAN
      <4>1. progress' = TRUE \/ progress' = progress
        BY <2>1 DEF BodyRead
      <4>2. progress \in BOOLEAN
        BY DEF StreamTypeOK, ScannerTypeOK
      <4> QED BY <4>1, <4>2, Zenon
    <3>4. silence' \in 0 .. Stall
      BY <2>1 DEF BodyRead, StreamTypeOK, ScannerTypeOK
    <3>3. UNCHANGED <<lines, tails, readErr, scan, idle, canceled, closed, held>>
      BY <2>1 DEF BodyRead
    <3> QED BY <3>1, <3>2, <3>3, <3>4 DEF StreamTypeOK, ScannerTypeOK
  <2> QED BY <1>3, <2>3 DEF Upstream, StreamTypeOK, streamVars
<1>4. CASE ClientLeaves
  BY <1>4 DEF ClientLeaves, StreamTypeOK, ScannerTypeOK, scannerVars, channels, history
<1>5. CASE RelayLine
  <2>1. Head(lines) \in LineKind
    BY <1>5 DEF RelayLine, TakeLine, LineReady, StreamTypeOK, ScannerTypeOK
  <2>2. relay' \in Relay /\ outbox' \in Seq(Frame)
    BY <1>5, <2>1, FlagTypes, LineType DEF RelayLine, StreamTypeOK
  <2>3. ScannerTypeOK'
    <3>1. lines' \in Seq(Payload) /\ Len(lines') <= LinesCap
      BY <1>5, HeadTailProperties DEF RelayLine, TakeLine, LineReady, StreamTypeOK, ScannerTypeOK
    <3>2. idle' \in 0 .. Stall /\ held' \in 0 .. Stall
      BY <1>5 DEF RelayLine, TakeLine, Call
    <3>3. scan' \in [at : {"select", "fn", "tail", "returned"}, verdict : Verdict]
      BY <1>5 DEF RelayLine, TakeLine, Call, StreamTypeOK, ScannerTypeOK
    <3>4. UNCHANGED <<reader, pending, tails, readErr, progress, canceled, closed, sent, reads, silence>>
      BY <1>5 DEF RelayLine, TakeLine
    <3> QED BY <3>1, <3>2, <3>3, <3>4 DEF StreamTypeOK, ScannerTypeOK
  <2> QED BY <1>5, <2>2, <2>3 DEF RelayLine, StreamTypeOK
<1>6. CASE RelayTail
  <2>1. Head(tails) \in Residue
    BY <1>6 DEF RelayTail, TakeTail, StreamTypeOK, ScannerTypeOK
  <2>2. outbox' \in Seq(Frame) /\ rest' \in Residue
    BY <1>6, <2>1, TailType DEF RelayTail, StreamTypeOK
  <2>3. ScannerTypeOK'
    BY <1>6, SMTT(60) DEF RelayTail, TakeTail, Call, StreamTypeOK, ScannerTypeOK
  <2> QED BY <1>6, <2>2, <2>3 DEF RelayTail, StreamTypeOK
<1>7. CASE Write
  <2>1. Head(outbox) \in Frame /\ Tail(outbox) \in Seq(Frame)
    BY <1>7 DEF Write, StreamTypeOK
  <2>2. relay' \in Relay /\ outbox' \in Seq(Frame) /\ wire' \in Seq(Frame)
    BY <1>7, <2>1, FlagTypes DEF Write, StreamTypeOK
  <2> QED BY <1>7, <2>2 DEF Write, StreamTypeOK, ScannerTypeOK, scannerVars, channels, history
<1>8. CASE WriteFails
  <2>1. outbox' \in Seq(Frame)
    BY <1>8 DEF WriteFails, StreamTypeOK
  <2>2. ScannerTypeOK'
    <3>1. CASE CallReturns(FALSE)
      BY <3>1, CallTypeStep DEF StreamTypeOK
    <3>2. CASE UNCHANGED scannerVars
      BY <3>2 DEF StreamTypeOK, ScannerTypeOK, scannerVars, channels, history
    <3> QED BY <1>8, <3>1, <3>2 DEF WriteFails
  <2> QED BY <1>8, <2>1, <2>2 DEF WriteFails, StreamTypeOK
<1>9. CASE Relayed
  BY <1>9, CallTypeStep DEF Relayed, StreamTypeOK, streamVars
<1>10. CASE Abort \/ FlushRelay
  <2>1. outbox' \in Seq(Frame)
    BY <1>10, EndTypes DEF Abort, FlushRelay, StreamTypeOK
  <2> QED BY <1>10, <2>1 DEF Abort, FlushRelay, AbortReason, StreamTypeOK, ScannerTypeOK, scannerVars,
          channels, history, Stage, Row
<1>11. CASE UNCHANGED vars
  BY <1>11 DEF vars, scannerVars, channels, history, streamVars, StreamTypeOK, ScannerTypeOK
<1> QED
  BY <1>1, <1>2, <1>3, <1>4, <1>5, <1>6, <1>7, <1>8, <1>9, <1>10, <1>11 DEF Next, Handler

\* Channels within their capacities, verdicts and evidence labels from their
\* fixed sets, whatever the upstream sends.
THEOREM StreamTypeCorrect == Spec => []StreamTypeOK
  BY StreamTypeInit, StreamTypeStep, PTL DEF Spec

-----------------------------------------------------------------------------
(* The ends of a stream. *)

\* Frames a call has still to write fit the flags: a failure comes first and
\* only without a terminal, a sentinel last and only once.
Fits(r, fs) ==
    \A i \in DOMAIN fs :
        /\ fs[i] = "failure" => i = 1 /\ ~r.terminalSeen
        /\ fs[i] = "terminal" => r.terminalSeen
        /\ r.format = "responses" /\ fs[i] \in EndMark => i = Len(fs) /\ ~r.doneSent

\* The flags know what was written.
Knows(r, w) ==
    /\ \A i \in DOMAIN w : w[i] = "terminal" => r.terminalSeen
    /\ r.format = "responses" => \A i \in DOMAIN w : w[i] \in EndMark => r.doneSent

\* What EndMarksAreUnique says of the frames written.
Unique(r, w) ==
    /\ \A i, j \in DOMAIN w : i < j /\ w[i] = "terminal" => w[j] # "failure"
    /\ r.format = "responses" =>
          \A i, j \in DOMAIN w : w[i] \in EndMark /\ w[j] \in EndMark => i = j

EndInv ==
    /\ stage = "aborting" => row # "none"
    /\ row = "none" => Fits(relay, outbox) /\ Knows(relay, wire) /\ Unique(relay, wire)

\* What an ending adds fits the flags it looked at.
LEMMA EndingFits ==
  ASSUME NEW r \in Relay, NEW s \in EndMark
  PROVE  Fits(r, Ending(r, s))
<1>1. CASE r.terminalSeen /\ r.doneSent
  <2>1. Ending(r, s) = <<>>
    BY <1>1 DEF Ending
  <2> QED BY <2>1 DEF Fits
<1>2. CASE r.terminalSeen /\ ~r.doneSent
  <2>1. Ending(r, s) = <<s>>
    BY <1>2 DEF Ending
  <2> QED BY <1>2, <2>1 DEF Fits, EndMark
<1>3. CASE ~r.terminalSeen /\ r.doneSent
  <2>1. Ending(r, s) = <<"failure">>
    BY <1>3 DEF Ending
  <2> QED BY <1>3, <2>1 DEF Fits, EndMark
<1>4. CASE ~r.terminalSeen /\ ~r.doneSent
  <2> DEFINE fs == <<"failure">> \o <<s>>
  <2>1. Ending(r, s) = fs
    BY <1>4 DEF Ending
  <2>2. DOMAIN fs = {1, 2} /\ Len(fs) = 2 /\ fs[1] = "failure" /\ fs[2] = s
    <3>1. <<"failure">> \in Seq(Frame) /\ <<s>> \in Seq(Frame)
      BY DEF Frame, EndMark
    <3>2. 1 .. 2 = {1, 2}
      OBVIOUS
    <3> QED BY <3>1, <3>2
  <2>3. "failure" \notin EndMark /\ s # "failure" /\ s # "terminal"
    BY DEF EndMark
  <2> HIDE DEF fs
  <2> QED BY <1>4, <2>1, <2>2, <2>3 DEF Fits
<1> QED BY <1>1, <1>2, <1>3, <1>4

\* A line is noted before it is written, so what it leads to fits.
LEMMA LineFits ==
  ASSUME NEW r \in Relay, NEW line \in LineKind
  PROVE  Fits(Noted(r, line), ProcessLine(r, line))
<1>1. CASE line \in {"noise", "muted"}
  <2>1. ProcessLine(r, line) = <<>>
    BY <1>1 DEF ProcessLine
  <2> QED BY <2>1 DEF Fits
<1>2. CASE line = "done" /\ r.format = "responses"
  <2>1. ProcessLine(r, line) = Ending(r, "done") /\ Noted(r, line) = r
    BY <1>2 DEF ProcessLine, Noted
  <2> QED BY <2>1, EndingFits DEF EndMark
<1>3. CASE line = "terminal"
  <2>1. ProcessLine(r, line) = <<"terminal">> /\ Noted(r, line).terminalSeen
    BY <1>3 DEF ProcessLine, Noted, Relay
  <2> QED BY <2>1 DEF Fits, EndMark
<1>4. CASE line \in {"raw", "chunk"} \/ (line = "done" /\ r.format # "responses")
  <2>1. ProcessLine(r, line) = <<line>> /\ Noted(r, line) = r
    BY <1>4 DEF ProcessLine, Noted
  <2> QED BY <1>4, <2>1 DEF Fits, EndMark
<1> QED BY <1>1, <1>2, <1>3, <1>4 DEF LineKind

\* So does what a tail leads to.
LEMMA TailFits ==
  ASSUME NEW r \in Relay, NEW t \in TailKind
  PROVE  Fits(r, ProcessTail(r, t))
<1>1. CASE t = "done" /\ r.format = "responses"
  BY <1>1, EndingFits DEF ProcessTail, EndMark
<1>2. CASE ~(t = "done" /\ r.format = "responses")
  <2>1. ProcessTail(r, t) = <<t>>
    BY <1>2 DEF ProcessTail
  <2> QED BY <1>2, <2>1 DEF Fits, EndMark, TailKind
<1> QED BY <1>1, <1>2

\* So does the flush.
LEMMA FlushFits ==
  ASSUME NEW r \in Relay
  PROVE  Fits(r, Flush(r))
<1>1. CASE r.format = "responses"
  BY <1>1, EndingFits DEF Flush, EndMark
<1>2. CASE r.format # "responses"
  <2>1. Flush(r) = <<"sentinel">>
    BY <1>2 DEF Flush
  <2> QED BY <1>2, <2>1 DEF Fits, EndMark
<1> QED BY <1>1, <1>2

\* Noting a line forgets nothing.
LEMMA NotedKnows ==
  ASSUME NEW r \in Relay, NEW line \in LineKind, NEW w \in Seq(Frame), Knows(r, w), Unique(r, w)
  PROVE  Knows(Noted(r, line), w) /\ Unique(Noted(r, line), w)
<1>1. Noted(r, line) = r \/ Noted(r, line) = [r EXCEPT !.terminalSeen = TRUE]
  BY DEF Noted
<1>2. LET q == [r EXCEPT !.terminalSeen = TRUE]
      IN q.format = r.format /\ q.doneSent = r.doneSent /\ q.terminalSeen
  BY DEF Relay
<1> QED BY <1>1, <1>2 DEF Knows, Unique

\* Writing the first frame keeps the flags, the rest and the wire in step.
LEMMA WriteKeeps ==
  ASSUME NEW r \in Relay, NEW fs \in Seq(Frame), fs # <<>>, NEW w \in Seq(Frame),
         Fits(r, fs), Knows(r, w), Unique(r, w)
  PROVE  LET q == Wrote(r, Head(fs)) IN
         Fits(q, Tail(fs)) /\ Knows(q, Append(w, Head(fs))) /\ Unique(q, Append(w, Head(fs)))
<1> DEFINE f == Head(fs)
           q == Wrote(r, f)
           v == Append(w, f)
<1>1. /\ q.format = r.format
      /\ q.terminalSeen <=> r.terminalSeen \/ f = "failure"
      /\ q.doneSent <=> r.doneSent \/ (r.format = "responses" /\ f \in {"done", "sentinel"})
  BY DEF Wrote, Relay
<1>2. /\ Len(fs) \in Nat /\ Len(fs) > 0 /\ DOMAIN fs = 1 .. Len(fs) /\ f = fs[1]
      /\ Len(Tail(fs)) = Len(fs) - 1 /\ DOMAIN Tail(fs) = 1 .. Len(fs) - 1
      /\ \A i \in DOMAIN Tail(fs) : Tail(fs)[i] = fs[i + 1]
  BY HeadTailProperties
<1>3. /\ Len(w) \in Nat /\ DOMAIN w = 1 .. Len(w) /\ DOMAIN v = 1 .. Len(w) + 1
      /\ \A i \in DOMAIN w : v[i] = w[i]
      /\ v[Len(w) + 1] = f
  BY <1>2, AppendProperties
<1> HIDE DEF f, q, v
<1>4. 1 \in DOMAIN fs
  BY <1>2
<1>5. Fits(q, Tail(fs))
  <2> SUFFICES ASSUME NEW i \in DOMAIN Tail(fs)
               PROVE  /\ Tail(fs)[i] = "failure" => i = 1 /\ ~q.terminalSeen
                      /\ Tail(fs)[i] = "terminal" => q.terminalSeen
                      /\ q.format = "responses" /\ Tail(fs)[i] \in EndMark => i = Len(Tail(fs)) /\ ~q.doneSent
    BY DEF Fits
  <2>1. i + 1 \in DOMAIN fs /\ i + 1 # 1 /\ 1 # Len(fs) /\ Tail(fs)[i] = fs[i + 1]
    BY <1>2
  <2>2. Tail(fs)[i] # "failure"
    BY <2>1 DEF Fits
  <2>3. Tail(fs)[i] = "terminal" => q.terminalSeen
    BY <1>1, <2>1 DEF Fits
  <2>4. r.format = "responses" => f \notin EndMark
    BY <1>2, <1>4, <2>1 DEF Fits
  <2>5. ASSUME r.format = "responses", Tail(fs)[i] \in EndMark
        PROVE  i = Len(Tail(fs)) /\ ~q.doneSent
    <3>1. i + 1 = Len(fs) /\ ~r.doneSent
      BY <2>1, <2>5 DEF Fits
    <3>2. i = Len(Tail(fs))
      BY <1>2, <3>1
    <3> QED BY <1>1, <2>4, <2>5, <3>1, <3>2 DEF EndMark
  <2> QED BY <1>1, <2>2, <2>3, <2>5
<1>6. Knows(q, v)
  <2>1. ASSUME NEW i \in DOMAIN v, v[i] = "terminal" PROVE q.terminalSeen
    <3>1. CASE i \in DOMAIN w
      BY <1>1, <1>3, <2>1, <3>1 DEF Knows
    <3>2. CASE i = Len(w) + 1
      BY <1>1, <1>2, <1>3, <1>4, <2>1, <3>2 DEF Fits
    <3> QED BY <1>3, <3>1, <3>2
  <2>2. ASSUME q.format = "responses", NEW i \in DOMAIN v, v[i] \in EndMark PROVE q.doneSent
    <3>1. CASE i \in DOMAIN w
      BY <1>1, <1>3, <2>2, <3>1 DEF Knows
    <3>2. CASE i = Len(w) + 1
      BY <1>1, <1>3, <2>2, <3>2 DEF EndMark
    <3> QED BY <1>3, <3>1, <3>2
  <2> QED BY <2>1, <2>2 DEF Knows
<1>7. Unique(q, v)
  <2>1. ASSUME NEW i \in DOMAIN v, NEW j \in DOMAIN v, i < j, v[i] = "terminal"
        PROVE  v[j] # "failure"
    <3>1. i \in DOMAIN w /\ w[i] = "terminal"
      BY <1>3, <2>1
    <3>2. CASE j \in DOMAIN w
      BY <1>3, <2>1, <3>1, <3>2 DEF Unique
    <3>3. CASE j = Len(w) + 1
      <4>1. r.terminalSeen
        BY <3>1 DEF Knows
      <4>2. f # "failure"
        BY <1>2, <1>4, <4>1 DEF Fits
      <4> QED BY <1>3, <3>3, <4>2
    <3> QED BY <1>3, <3>2, <3>3
  <2>2. ASSUME q.format = "responses", NEW i \in DOMAIN v, NEW j \in DOMAIN v,
               v[i] \in EndMark, v[j] \in EndMark
        PROVE  i = j
    <3>1. \A k \in DOMAIN w : w[k] \in EndMark => f \notin EndMark
      BY <1>1, <1>2, <1>4, <2>2 DEF Knows, Fits
    <3>2. CASE i \in DOMAIN w /\ j \in DOMAIN w
      BY <1>1, <1>3, <2>2, <3>2 DEF Unique
    <3>3. CASE ~(i \in DOMAIN w /\ j \in DOMAIN w)
      BY <1>3, <2>2, <3>1, <3>3
    <3> QED BY <3>2, <3>3
  <2> QED BY <2>1, <2>2 DEF Unique
<1> QED BY <1>5, <1>6, <1>7 DEF f, q, v

\* Nothing is written when a response arrives.
LEMMA EndInvInit == Init => EndInv
  BY DEF Init, EndInv, Fits, Knows, Unique

\* Every step keeps frames, flags and wire in step.
LEMMA EndInvStep == StreamTypeOK /\ EndInv /\ [Next]_vars => EndInv'
<1> SUFFICES ASSUME StreamTypeOK, EndInv, [Next]_vars PROVE EndInv'
  OBVIOUS
<1>0. UNCHANGED <<relay, outbox, stage, row, wire>> => EndInv'
  BY DEF EndInv
<1>1. CASE RejectBody \/ Rejected \/ Abort
  BY <1>1 DEF RejectBody, Rejected, Abort, AbortReason, EndInv
<1>2. CASE AcceptBody \/ Finish
  BY <1>2 DEF AcceptBody, Finish, Leave, EndInv
<1>3. CASE Upstream \/ ClientLeaves \/ Disconnected \/ Relayed \/ Scan \/ UNCHANGED vars
  BY <1>0, <1>3 DEF Upstream, ClientLeaves, Disconnected, Relayed, Scan, vars, streamVars
<1>4. CASE RelayLine
  <2>1. Head(lines) \in LineKind
    BY <1>4, StreamConstants DEF RelayLine, TakeLine, LineReady, StreamTypeOK, ScannerTypeOK
  <2>2. ASSUME row = "none"
        PROVE  Fits(relay, outbox)' /\ Knows(relay, wire)' /\ Unique(relay, wire)'
    BY <1>4, <2>1, <2>2, LineFits, NotedKnows DEF RelayLine, StreamTypeOK, EndInv
  <2> QED BY <1>4, <2>2 DEF RelayLine, EndInv
<1>5. CASE RelayTail
  <2>1. Head(tails) \in TailKind
    BY <1>5, StreamConstants DEF RelayTail, TakeTail, StreamTypeOK, ScannerTypeOK
  <2> QED BY <1>5, <2>1, TailFits DEF RelayTail, StreamTypeOK, EndInv
<1>6. CASE Write
  <2>1. ASSUME row = "none"
        PROVE  Fits(relay, outbox)' /\ Knows(relay, wire)' /\ Unique(relay, wire)'
    <3>1. stage # "aborting"
      BY <2>1 DEF EndInv
    <3> QED BY <1>6, <2>1, <3>1, WriteKeeps DEF Write, StreamTypeOK, EndInv
  <2> QED BY <1>6, <2>1 DEF Write, EndInv
<1>7. CASE WriteFails
  <2>1. ASSUME row = "none" PROVE Fits(relay, outbox)'
    <3>1. outbox' = <<>>
      BY <1>7, <2>1 DEF WriteFails, EndInv
    <3> QED BY <3>1 DEF Fits
  <2> QED BY <1>7, <2>1 DEF WriteFails, EndInv
<1>8. CASE FlushRelay
  BY <1>8, FlushFits DEF FlushRelay, StreamTypeOK, EndInv
<1> QED
  BY <1>1, <1>2, <1>3, <1>4, <1>5, <1>6, <1>7, <1>8 DEF Next, Handler

\* Until a stream is aborted, whatever mixture of terminal events, [DONE]
\* lines, [DONE] tail and flush ended it, a Responses client gets one sentinel
\* at most, and no client a failure after a terminal event.
THEOREM EndMarksCorrect == Spec => []EndMarksAreUnique
<1>1. EndInv => EndMarksAreUnique
  BY DEF EndInv, Unique, EndMarksAreUnique, FailureOnlyWithoutTerminal
<1> QED BY <1>1, EndInvInit, EndInvStep, StreamTypeCorrect, PTL DEF Spec


-----------------------------------------------------------------------------
(* What the data of a sequence of frames and lines is made of. *)

Word == Frame \cup LineKind

\* Data of short sequences.
LEMMA DataShort ==
  /\ Data(<<>>) = <<>>
  /\ \A x \in Word : Data(<<x>>) = IF x \in Said THEN <<x>> ELSE <<>>
<1>1. ASSUME NEW x \in Word PROVE Data(<<x>>) = IF x \in Said THEN <<x>> ELSE <<>>
  <2>1. <<>> \in Seq(Word) /\ <<x>> = Append(<<>>, x)
    OBVIOUS
  <2>2. Only(Append(<<>>, x), Said) = IF x \in Said THEN Append(Only(<<>>, Said), x) ELSE Only(<<>>, Said)
    BY <2>1, OnlyAppend
  <2> QED
    BY <2>1, <2>2, OnlyEmpty DEF Data
<1> QED
  BY <1>1, OnlyEmpty DEF Data

\* Data is a sequence of what was said.
LEMMA DataTyped ==
  ASSUME NEW s \in Seq(Word)
  PROVE  Data(s) \in Seq(Word)
BY OnlyTyped DEF Data

\* Data goes over a concatenation piece by piece.
LEMMA DataConcat ==
  ASSUME NEW s \in Seq(Word), NEW t \in Seq(Word)
  PROVE  Data(s \o t) = Data(s) \o Data(t)
BY OnlyConcat DEF Data

\* The data of the first word, then that of the others.
LEMMA DataHead ==
  ASSUME NEW s \in Seq(Word), s # <<>>
  PROVE  /\ Head(s) \in Word /\ Tail(s) \in Seq(Word) /\ <<Head(s)>> \in Seq(Word)
         /\ Data(s) = Data(<<Head(s)>>) \o Data(Tail(s))
<1>1. Head(s) \in Word /\ Tail(s) \in Seq(Word)
  BY HeadTailProperties
<1>2. <<Head(s)>> \in Seq(Word)
  BY <1>1
<1>3. s = <<Head(s)>> \o Tail(s)
  OBVIOUS
<1>4. Data(<<Head(s)>> \o Tail(s)) = Data(<<Head(s)>>) \o Data(Tail(s))
  BY <1>1, <1>2, DataConcat
<1> QED
  BY <1>1, <1>2, <1>3, <1>4

\* The data of one more word.
LEMMA DataAppend ==
  ASSUME NEW s \in Seq(Word), NEW x \in Word
  PROVE  Data(Append(s, x)) = Data(s) \o Data(<<x>>)
<1>1. <<x>> \in Seq(Word) /\ Append(s, x) = s \o <<x>>
  OBVIOUS
<1> QED
  BY <1>1, DataConcat

\* What an ending adds is no data.
LEMMA EndingData ==
  ASSUME NEW r \in Relay, NEW s \in EndMark
  PROVE  Data(Ending(r, s)) = <<>>
<1>1. "failure" \in Word /\ s \in Word /\ "failure" \notin Said /\ s \notin Said
  BY DEF EndMark, Word, Frame, Said
<1>2. Data(<<"failure">>) = <<>> /\ Data(<<s>>) = <<>> /\ Data(<<>>) = <<>>
  BY <1>1, DataShort
<1>3. PICK a, b : Ending(r, s) = a \o b /\ a \in {<<>>, <<"failure">>} /\ b \in {<<>>, <<s>>}
  BY DEF Ending
<1>4. <<>> \in Seq(Word) /\ <<"failure">> \in Seq(Word) /\ <<s>> \in Seq(Word)
  BY <1>1
<1>5. a \in Seq(Word) /\ Data(a) = <<>>
  BY <1>2, <1>3, <1>4
<1>6. b \in Seq(Word) /\ Data(b) = <<>>
  BY <1>2, <1>3, <1>4
<1>7. Data(a \o b) = Data(a) \o Data(b)
  BY <1>5, <1>6, DataConcat
<1> QED
  BY <1>3, <1>5, <1>6, <1>7

\* A line is passed on with exactly its data, a tail and the end of a stream
\* with none.
LEMMA RelayData ==
  ASSUME NEW r \in Relay
  PROVE  /\ \A line \in LineKind : Data(ProcessLine(r, line)) = Data(<<line>>)
         /\ \A t \in TailKind : Data(ProcessTail(r, t)) = <<>>
         /\ Data(Flush(r)) = <<>>
         /\ Data(Apology(r)) = <<>>
<1>0. "done" \in EndMark /\ "sentinel" \in EndMark
  BY DEF EndMark
<1>1. ASSUME NEW line \in LineKind PROVE Data(ProcessLine(r, line)) = Data(<<line>>)
  <2>1. line \in Word
    BY DEF Word
  <2>2. CASE line \in {"noise", "muted"}
    <3>1. ProcessLine(r, line) = <<>> /\ line \notin Said
      BY <2>2 DEF ProcessLine, Said
    <3> QED
      BY <2>1, <3>1, DataShort
  <2>3. CASE line = "done" /\ r.format = "responses"
    <3>1. ProcessLine(r, line) = Ending(r, "done") /\ line \notin Said
      BY <2>3 DEF ProcessLine, Said
    <3>2. Data(Ending(r, "done")) = <<>>
      BY <1>0, EndingData
    <3> QED
      BY <2>1, <3>1, <3>2, DataShort
  <2>4. CASE ~(line \in {"noise", "muted"}) /\ ~(line = "done" /\ r.format = "responses")
    <3>1. ProcessLine(r, line) = <<line>>
      BY <2>4 DEF ProcessLine
    <3> QED
      BY <3>1
  <2> QED
    BY <2>2, <2>3, <2>4
<1>2. ASSUME NEW t \in TailKind PROVE Data(ProcessTail(r, t)) = <<>>
  <2>1. CASE t = "done" /\ r.format = "responses"
    BY <1>0, <2>1, EndingData DEF ProcessTail
  <2>2. CASE ~(t = "done" /\ r.format = "responses")
    <3>1. ProcessTail(r, t) = <<t>> /\ t \in Word /\ t \notin Said
      BY <2>2 DEF ProcessTail, TailKind, Word, Frame, Said
    <3> QED
      BY <3>1, DataShort
  <2> QED
    BY <2>1, <2>2
<1>3. Data(Flush(r)) = <<>>
  <2>1. "sentinel" \in Word /\ "sentinel" \notin Said
    BY DEF Word, Frame, Said
  <2> QED
    BY <1>0, <2>1, EndingData, DataShort DEF Flush
<1>4. Data(Apology(r)) = <<>>
  <2>1. /\ "sentinel" \in Word /\ "sentinel" \notin Said
        /\ "failure" \in Word /\ "failure" \notin Said
    BY DEF Word, Frame, Said
  <2>2. /\ <<"failure", "sentinel">> = <<"failure">> \o <<"sentinel">>
        /\ <<"failure">> \in Seq(Word) /\ <<"sentinel">> \in Seq(Word)
    BY <2>1
  <2>3. Data(<<"failure", "sentinel">>) = Data(<<"failure">>) \o Data(<<"sentinel">>)
    BY <2>2, DataConcat
  <2>4. Data(<<"failure", "sentinel">>) = <<>>
    BY <2>1, <2>3, DataShort
  <2> QED
    BY <2>4, DataShort DEF Apology
<1> QED
  BY <1>1, <1>2, <1>3, <1>4

\* What is on its way is made of words.
LEMMA AllWords ==
  ASSUME StreamTypeOK
  PROVE  /\ wire \in Seq(Word) /\ outbox \in Seq(Word) /\ sent \in Seq(Word)
         /\ lines \in Seq(Word) /\ reader.carved \in Seq(Word)
<1>1. wire \in Seq(Frame) /\ outbox \in Seq(Frame)
  BY DEF StreamTypeOK
<1>2. sent \in Seq(Payload) /\ lines \in Seq(Payload) /\ reader.carved \in Seq(Payload)
  BY DEF StreamTypeOK, ScannerTypeOK
<1>3. Frame \subseteq Word /\ Payload \subseteq Word
  BY StreamConstants DEF Word
<1>4. \A s \in Seq(Frame) : s \in Seq(Word)
  BY <1>3, SeqMonotonic
<1>5. \A s \in Seq(Payload) : s \in Seq(Word)
  BY <1>3, SeqMonotonic
<1> QED
  BY <1>1, <1>2, <1>4, <1>5

-----------------------------------------------------------------------------
(* Where the goroutines, the channels and the stages are. *)

\* The reader carries nothing while it reads, and a reason when it ends with
\* nothing in hand; the tail and the error come with its end, never both.
ReaderInv ==
    /\ reader.at \in {"unborn", "reading"} => reader.carved = <<>>
    /\ reader.at = "passing" /\ reader.carved = <<>> => reader.end # "no"
    /\ reader.at # "done" => tails = <<>> /\ rest = "no" /\ ~readErr
    /\ readErr => tails = <<>> /\ rest = "no"

\* While the scan goes on nothing waits to be written outside a callback, the
\* context dies only with the client, and a reader that ended for another
\* reason has passed everything on.
ScanInv ==
    /\ stage \in {"guard", "rejecting"} => reader.at = "unborn" /\ (canceled => gone)
    /\ stage \in {"aborting", "flushing"} => scan.at = "returned"
    /\ scan.verdict = "running" <=> scan.at # "returned"
    /\ scan.at # "returned" =>
          /\ reader.at = "unborn" => scan.at = "select"
          /\ reader.at # "unborn" => stage = "relaying" /\ (canceled => gone)
          /\ scan.at = "select" => outbox = <<>>
          /\ scan.at = "tail" => reader.at = "done" /\ lines = <<>> /\ tails = <<>>
          /\ reader.at = "done" /\ ~gone =>
                /\ reader.carved = <<>>
                /\ ~readErr => (pending <=> tails # <<>> \/ rest # "no")
    /\ scan.verdict = "read_error" => rest = "no"
    /\ scan.verdict = "clean" /\ ~gone =>
          reader.at = "done" /\ (pending <=> rest # "no")

\* Nothing has happened when a response arrives.
LEMMA FlowStarts == Init => ReaderInv /\ ScanInv
BY DEF Init, ScannerInit, ReaderInv, ScanInv

\* The end of a scan.
LEMMA ReturnScanInv ==
  ASSUME StreamTypeOK, ReaderInv, ScanInv, NEW v \in Verdict, Return(v), v # "running",
         scan.at # "returned",
         UNCHANGED <<reader, pending, channels, canceled, closed, sent, reads>>,
         UNCHANGED <<stage, rest, gone>>,
         v = "read_error" => readErr,
         v = "clean" => ~readErr /\ lines = <<>> /\ tails = <<>> /\ reader.at = "done"
  PROVE  ReaderInv' /\ ScanInv'
BY DEF ReaderInv, ScanInv, Return, channels

\* Every step keeps the control part.
LEMMA FlowControlStep ==
  ASSUME StreamTypeOK, ReaderInv, ScanInv, [Next]_vars
  PROVE  ReaderInv' /\ ScanInv'
<1> USE DEF ReaderInv, ScanInv
<1>t. /\ gone \in BOOLEAN /\ canceled \in BOOLEAN /\ readErr \in BOOLEAN /\ pending \in BOOLEAN
      /\ scan \in [at : {"select", "fn", "tail", "returned"}, verdict : Verdict]
      /\ reader \in [at : {"unborn", "reading", "passing", "done"},
                     carved : Seq(Payload), end : {"no", "eof", "error"}]
  BY DEF StreamTypeOK, ScannerTypeOK
<1>1. CASE RejectBody \/ Rejected
  BY <1>1 DEF RejectBody, Rejected, Leave, scannerVars, channels, history
<1>2. CASE AcceptBody
  BY <1>t, <1>2 DEF AcceptBody, StartScan, channels, history
<1>3. CASE Upstream
  <2>0. PICK n \in 0 .. LinesPerRead :
           \E new \in [1 .. n -> Payload], more \in BOOLEAN, end \in {"no", "eof", "error"} :
              BodyRead(new, more, end)
    BY <1>3 DEF Upstream
  <2>1. PICK new \in [1 .. n -> Payload], more \in BOOLEAN, end \in {"no", "eof", "error"} :
           BodyRead(new, more, end)
    BY <2>0
  <2>2. /\ reader.at = "reading"
        /\ reader' = [at |-> IF new = <<>> /\ end = "no" THEN "reading" ELSE "passing",
                      carved |-> new, end |-> end]
        /\ UNCHANGED <<lines, tails, readErr, scan, canceled>>
    BY <2>1 DEF BodyRead
  <2>3. UNCHANGED <<stage, rest, gone, outbox>>
    BY <1>3 DEF Upstream, streamVars
  <2>4. ReaderInv'
    BY <2>2, <2>3
  <2>5. ScanInv'
    BY <2>2, <2>3
  <2> QED
    BY <2>4, <2>5
<1>4. CASE ClientLeaves
  BY <1>4 DEF ClientLeaves, scannerVars, channels, history
<1>5. CASE Disconnected
  BY <1>5 DEF Disconnected, CancelContext, streamVars, channels, history
<1>6. CASE RelayLine
  BY <1>t, <1>6 DEF RelayLine, TakeLine, Selecting, Call
<1>7. CASE RelayTail
  <2>1. Head(tails) \in Residue /\ "no" \notin TailKind
    BY <1>7 DEF RelayTail, TakeTail, StreamTypeOK, ScannerTypeOK, TailKind
  <2>2. rest' # "no"
    BY <1>7, <2>1, StreamConstants DEF RelayTail
  <2> QED
    BY <1>t, <1>7, <2>2 DEF RelayTail, TakeTail, Selecting, LinesClosed, Call
<1>8. CASE Write
  BY <1>8 DEF Write, scannerVars, channels, history
<1>9. CASE WriteFails
  <2>1. CASE stage = "relaying"
    <3>1. CallReturns(FALSE) /\ UNCHANGED <<stage, rest, gone>>
      BY <1>9, <2>1 DEF WriteFails
    <3>2. Return("write_error") /\ scan.at # "returned"
      BY <3>1 DEF CallReturns
    <3> QED
      BY <3>1, <3>2, ReturnScanInv DEF CallReturns, Verdict
  <2>2. CASE stage # "relaying"
    BY <1>9, <2>2 DEF WriteFails, scannerVars, channels, history
  <2> QED
    BY <2>1, <2>2
<1>10. CASE Relayed
  <2>1. CASE scan.at = "fn"
    BY <1>t, <1>10, <2>1 DEF Relayed, CallReturns, streamVars, channels
  <2>2. CASE scan.at = "tail"
    <3>1. Return(Outcome) /\ Outcome \in Verdict /\ Outcome # "running"
      BY <1>10, <2>2 DEF Relayed, CallReturns, Outcome, Verdict
    <3>2. (Outcome = "read_error" => readErr) /\ (Outcome = "clean" => ~readErr)
      BY DEF Outcome
    <3>3. lines = <<>> /\ tails = <<>> /\ reader.at = "done"
      BY <2>2
    <3> QED
      BY <1>10, <2>2, <3>1, <3>2, <3>3, ReturnScanInv DEF Relayed, CallReturns, streamVars
  <2> QED
    BY <1>10, <2>1, <2>2 DEF Relayed, CallReturns
<1>11. CASE Scan
  <2>1. CASE ReaderStep
    <3>u. UNCHANGED <<stage, rest, gone, outbox>>
      BY <1>11 DEF Scan, streamVars
    <3>1. CASE BodyFails
      BY <1>t, <3>u, <3>1 DEF BodyFails, channels, history
    <3>2. CASE PassLine
      <4>1. /\ reader.at = "passing" /\ reader.carved # <<>>
            /\ reader'.at = IF Len(reader.carved) = 1 /\ reader.end = "no" THEN "reading" ELSE "passing"
            /\ reader'.carved = Tail(reader.carved) /\ reader'.end = reader.end
            /\ UNCHANGED <<tails, readErr, pending, scan, canceled>>
        BY <1>t, <3>2 DEF PassLine
      <4>2. Len(reader.carved) = 1 <=> reader'.carved = <<>>
        <5>1. reader.carved \in Seq(Payload) /\ reader.carved # <<>>
          BY <1>t, <4>1
        <5>2. /\ Tail(reader.carved) \in Seq(Payload)
              /\ Len(Tail(reader.carved)) = Len(reader.carved) - 1 /\ Len(reader.carved) \in Nat
          BY <5>1, HeadTailProperties, LenProperties
        <5>3. Tail(reader.carved) = <<>> <=> Len(Tail(reader.carved)) = 0
          BY <5>2, EmptySeq
        <5> QED
          BY <4>1, <5>2, <5>3
      <4> QED
        BY <3>u, <4>1, <4>2
    <3>3. CASE ReaderLeaves
      BY <1>t, <3>u, <3>3 DEF ReaderLeaves, channels, history
    <3>4. CASE ReaderEnds
      <4>1. /\ reader.at = "passing" /\ reader.carved = <<>> /\ reader'.at = "done" /\ reader'.carved = <<>>
            /\ UNCHANGED <<pending, lines, scan, canceled>>
        BY <1>t, <3>4 DEF ReaderEnds, PutTail
      <4>2. reader.end \in {"eof", "error"} /\ tails = <<>> /\ rest = "no"
        BY <1>t, <4>1
      <4>3. readErr' <=> reader.end = "error"
        BY <3>4 DEF ReaderEnds, PutTail
      <4>4. CASE reader.end = "eof" /\ pending
        <5>1. PICK t : tails' = <<t>>
          BY <3>4, <4>4 DEF ReaderEnds, PutTail
        <5>2. tails' # <<>>
          BY <5>1
        <5> QED
          BY <1>t, <3>u, <4>1, <4>2, <4>3, <4>4, <5>2
      <4>5. CASE ~(reader.end = "eof" /\ pending)
        <5>1. tails' = tails
          BY <3>4, <4>5 DEF ReaderEnds, PutTail
        <5> QED
          BY <1>t, <3>u, <4>1, <4>2, <4>3, <4>5, <5>1
      <4> QED
        BY <4>4, <4>5
    <3> QED
      BY <2>1, <3>1, <3>2, <3>3, <3>4 DEF ReaderStep
  <2>2. CASE ConsumerSteps
    <3>u. UNCHANGED <<stage, rest, gone, outbox>>
      BY <1>11 DEF Scan, streamVars
    <3>1. CASE ScanEnds
      <4>1. Return(Outcome) /\ Outcome \in Verdict /\ Outcome # "running"
        BY <3>1 DEF ScanEnds, Outcome, Verdict
      <4>2. (Outcome = "read_error" => readErr) /\ (Outcome = "clean" => ~readErr)
        BY DEF Outcome
      <4> QED
        BY <3>u, <3>1, <4>1, <4>2, ReturnScanInv DEF ScanEnds, Drained, Selecting, LinesClosed
    <3>2. CASE TakeProgress
      BY <3>u, <3>2 DEF TakeProgress, history
    <3>3. CASE TimerFires
      BY <3>u, <3>3, ReturnScanInv DEF TimerFires, Selecting, Verdict
    <3>4. CASE SeesCanceled
      BY <3>u, <3>4, ReturnScanInv DEF SeesCanceled, Selecting, Verdict
    <3> QED
      BY <2>2, <3>1, <3>2, <3>3, <3>4 DEF ConsumerSteps
  <2>3. CASE Tick
    BY <1>11, <2>3 DEF Scan, Tick, streamVars, channels
  <2> QED
    BY <1>11, <2>1, <2>2, <2>3 DEF Scan
<1>12. CASE Abort
  BY <1>12 DEF Abort, scannerVars, channels, history
<1>13. CASE FlushRelay
  BY <1>13 DEF FlushRelay, scannerVars, channels, history
<1>14. CASE Finish
  BY <1>14 DEF Finish, Leave, channels, history
<1>15. CASE UNCHANGED vars
  BY <1>15 DEF vars, scannerVars, streamVars, channels, history
<1> QED
  BY <1>1, <1>2, <1>3, <1>4, <1>5, <1>6, <1>7, <1>8, <1>9, <1>10, <1>11, <1>12, <1>13, <1>14, <1>15
     DEF Next, Handler

-----------------------------------------------------------------------------
(* What the client has of what the upstream sent. *)

\* A prefix stays one when the longer sequence grows, and every first part is
\* one.
LEMMA PrefixGrows ==
  ASSUME NEW E, NEW s \in Seq(E), NEW t \in Seq(E), NEW u \in Seq(E), IsPrefix(s, t)
  PROVE  IsPrefix(s, t \o u)
<1>1. /\ Len(s) \in Nat /\ Len(t) \in Nat /\ Len(u) \in Nat /\ Len(t \o u) = Len(t) + Len(u)
      /\ \A i \in 1..Len(t) : (t \o u)[i] = t[i]
  BY ConcatProperties, LenProperties
<1>2. Len(s) <= Len(t) /\ SubSeq(s, 1, Len(s)) = SubSeq(t, 1, Len(s))
  BY DEF IsPrefix
<1>3. SubSeq(t \o u, 1, Len(s)) = SubSeq(t, 1, Len(s))
  <2>1. CASE Len(s) = 0
    BY <1>1, <2>1, SubSeqEmpty
  <2>2. CASE Len(s) # 0
    <3>1. 1 \in 1..Len(t) /\ Len(s) \in 1..Len(t)
      BY <1>1, <1>2, <2>2
    <3> QED
      BY <3>1, SubSeqOfConcat1
  <2> QED
    BY <2>1, <2>2
<1> QED
  BY <1>1, <1>2, <1>3 DEF IsPrefix

\* A sequence is a prefix of what begins with it.
LEMMA PrefixFirst ==
  ASSUME NEW E, NEW s \in Seq(E), NEW t \in Seq(E)
  PROVE  IsPrefix(s, s \o t) /\ IsPrefix(s, s)
<1>1. IsPrefix(s, s)
  BY LenProperties DEF IsPrefix
<1> QED
  BY <1>1, PrefixGrows

\* All that is on its way, from the client back to the reader's hand.
Through == Data(wire) \o Data(outbox) \o Data(lines) \o Data(reader.carved)

\* While the scan goes on nothing is lost or changes place.  Once it is over
\* no data is written any more.
DataInv ==
    /\ scan.verdict = "running" => Through = Data(sent)
    /\ scan.verdict # "running" => Data(outbox) = <<>> /\ IsPrefix(Data(wire), Data(sent))
    /\ scan.verdict = "clean" /\ ~gone => Data(wire) = Data(sent)

FlowInv == ReaderInv /\ ScanInv /\ DataInv

\* The data of every part is a sequence of words.
LEMMA AllData ==
  ASSUME StreamTypeOK
  PROVE  /\ Data(wire) \in Seq(Word) /\ Data(outbox) \in Seq(Word) /\ Data(sent) \in Seq(Word)
         /\ Data(lines) \in Seq(Word) /\ Data(reader.carved) \in Seq(Word)
BY AllWords, DataTyped

\* Nothing was said when a response arrives.
LEMMA DataStarts == Init => DataInv
<1> SUFFICES ASSUME Init PROVE DataInv
  OBVIOUS
<1>1. /\ wire = <<>> /\ outbox = <<>> /\ lines = <<>> /\ reader.carved = <<>> /\ sent = <<>>
      /\ scan.verdict = "running"
  BY DEF Init, ScannerInit
<1>2. Through = <<>> \o <<>> \o <<>> \o <<>>
  BY <1>1, DataShort DEF Through
<1>3. Data(sent) = <<>>
  BY <1>1, DataShort
<1> QED
  BY <1>1, <1>2, <1>3 DEF DataInv

\* A scan that ends with nothing to be written: the client has a first part,
\* and all of it when nothing is on its way.
LEMMA DataAtReturn ==
  ASSUME StreamTypeOK, DataInv, scan.verdict = "running"
  PROVE  /\ IsPrefix(Data(wire), Data(sent))
         /\ outbox = <<>> /\ lines = <<>> /\ reader.carved = <<>> => Data(wire) = Data(sent)
<1>1. /\ Data(wire) \in Seq(Word) /\ Data(outbox) \in Seq(Word) /\ Data(sent) \in Seq(Word)
      /\ Data(lines) \in Seq(Word) /\ Data(reader.carved) \in Seq(Word)
  BY AllData
<1>2. Through = Data(wire) \o (Data(outbox) \o Data(lines) \o Data(reader.carved))
  BY <1>1, SMTT(60) DEF Through
<1>3. Data(outbox) \o Data(lines) \o Data(reader.carved) \in Seq(Word)
  BY <1>1
<1>4. IsPrefix(Data(wire), Data(sent))
  BY <1>1, <1>2, <1>3, PrefixFirst DEF DataInv
<1>5. ASSUME outbox = <<>>, lines = <<>>, reader.carved = <<>> PROVE Data(wire) = Data(sent)
  <2>1. Data(outbox) \o Data(lines) \o Data(reader.carved) = <<>>
    BY <1>5, DataShort
  <2> QED
    BY <1>1, <1>2, <2>1, ConcatEmptySeq DEF DataInv
<1> QED
  BY <1>4, <1>5

\* The end of a scan.
LEMMA ReturnData ==
  ASSUME StreamTypeOK, FlowInv, NEW v \in Verdict, Return(v), v # "running",
         scan.verdict = "running",
         UNCHANGED <<wire, sent, gone>>, outbox' = <<>>,
         v = "clean" => outbox = <<>> /\ lines = <<>> /\ reader.at = "done" /\ ~readErr
  PROVE  DataInv'
<1>1. scan'.verdict = v
  BY DEF Return
<1>2. Data(outbox') = <<>>
  BY DataShort
<1>3. IsPrefix(Data(wire), Data(sent))
  BY DataAtReturn DEF FlowInv
<1>4. ASSUME v = "clean", ~gone PROVE Data(wire) = Data(sent)
  <2>1. reader.carved = <<>>
    BY <1>4 DEF FlowInv, ScanInv
  <2> QED
    BY <1>4, <2>1, DataAtReturn DEF FlowInv
<1>5. Data(wire)' = Data(wire) /\ Data(sent)' = Data(sent) /\ Data(outbox)' = <<>>
  BY <1>2 DEF Data
<1> QED
  BY <1>1, <1>3, <1>4, <1>5 DEF DataInv

\* Concatenation does not care where it begins.
LEMMA Regroup ==
  ASSUME NEW E, NEW a \in Seq(E), NEW b \in Seq(E), NEW c \in Seq(E)
  PROVE  (a \o b) \o c = a \o (b \o c)
OBVIOUS

\* A frame moves from the call onto the wire.
LEMMA WriteData ==
  ASSUME StreamTypeOK, FlowInv, Write
  PROVE  DataInv'
<1>1. /\ outbox # <<>> /\ wire' = Append(wire, Head(outbox)) /\ outbox' = Tail(outbox)
      /\ UNCHANGED <<lines, reader, sent, scan, gone>>
  BY DEF Write, scannerVars, channels, history
<1>2. /\ wire \in Seq(Word) /\ outbox \in Seq(Word)
      /\ Head(outbox) \in Word /\ Tail(outbox) \in Seq(Word) /\ <<Head(outbox)>> \in Seq(Word)
      /\ Data(outbox) = Data(<<Head(outbox)>>) \o Data(Tail(outbox))
  BY <1>1, AllWords, DataHead
<1>3. Data(Append(wire, Head(outbox))) = Data(wire) \o Data(<<Head(outbox)>>)
  BY <1>2, DataAppend
<1>4. /\ Data(wire)' = Data(wire) \o Data(<<Head(outbox)>>) /\ Data(outbox)' = Data(Tail(outbox))
      /\ Data(lines)' = Data(lines) /\ Data(reader.carved)' = Data(reader.carved) /\ Data(sent)' = Data(sent)
  BY <1>1, <1>3 DEF Data
<1>5. /\ Data(<<Head(outbox)>>) \in Seq(Word) /\ Data(Tail(outbox)) \in Seq(Word)
      /\ Data(wire) \in Seq(Word) /\ Data(lines) \in Seq(Word) /\ Data(reader.carved) \in Seq(Word)
  BY <1>2, DataTyped, AllData
<1>6. CASE scan.verdict = "running"
  <2>1. (Data(wire) \o Data(<<Head(outbox)>>)) \o Data(Tail(outbox))
           = Data(wire) \o (Data(<<Head(outbox)>>) \o Data(Tail(outbox)))
    BY <1>5, Regroup
  <2>2. Through' = Through
    BY <1>2, <1>4, <2>1 DEF Through
  <2> QED
    BY <1>1, <1>4, <1>6, <2>2 DEF FlowInv, DataInv
<1>7. CASE scan.verdict # "running"
  <2>1. Data(outbox) = <<>>
    BY <1>7 DEF FlowInv, DataInv
  <2>2. Data(<<Head(outbox)>>) = <<>> /\ Data(Tail(outbox)) = <<>>
    <3>1. Data(<<Head(outbox)>>) \o Data(Tail(outbox)) = <<>>
      BY <1>2, <2>1
    <3> QED
      BY <1>5, <3>1, ConcatEqualIffEmpty
  <2>3. Data(wire)' = Data(wire) /\ Data(outbox)' = <<>>
    BY <1>4, <1>5, <2>2, SMTT(60)
  <2> QED
    BY <1>1, <1>4, <1>7, <2>3 DEF FlowInv, DataInv
<1> QED
  BY <1>6, <1>7

\* The reader's two ways to add to what is on its way.
LEMMA ReadData ==
  ASSUME StreamTypeOK, FlowInv, NEW new \in Seq(Payload), NEW more, NEW end, BodyRead(new, more, end),
         UNCHANGED streamVars
  PROVE  DataInv'
<1>1. /\ reader.at = "reading" /\ reader'.carved = new /\ sent' = sent \o new
      /\ UNCHANGED <<lines, scan, wire, outbox, gone>>
  BY DEF BodyRead, streamVars
<1>2. reader.carved = <<>>
  BY <1>1 DEF FlowInv, ReaderInv
<1>3. new \in Seq(Word)
  BY SeqMonotonic, StreamConstants DEF Word
<1>4. sent \in Seq(Word) /\ Data(sent \o new) = Data(sent) \o Data(new)
  BY <1>3, AllWords, DataConcat
<1>5. /\ Data(sent)' = Data(sent) \o Data(new) /\ Data(reader.carved)' = Data(new)
      /\ Data(wire)' = Data(wire) /\ Data(outbox)' = Data(outbox) /\ Data(lines)' = Data(lines)
  BY <1>1, <1>4 DEF Data
<1>6. /\ Data(new) \in Seq(Word) /\ Data(wire) \in Seq(Word) /\ Data(outbox) \in Seq(Word)
      /\ Data(lines) \in Seq(Word) /\ Data(sent) \in Seq(Word)
  BY <1>3, DataTyped, AllData
<1>7. CASE scan.verdict = "running"
  <2>1. Data(wire) \o Data(outbox) \o Data(lines) \o <<>> = Data(sent)
    BY <1>2, <1>7, DataShort DEF FlowInv, DataInv, Through
  <2>2. Data(wire) \o Data(outbox) \o Data(lines) = Data(sent)
    BY <1>6, <2>1, ConcatEmptySeq
  <2>3. Through' = Data(sent)'
    BY <1>5, <2>2 DEF Through
  <2> QED
    BY <1>1, <1>7, <2>3 DEF DataInv
<1>8. CASE scan.verdict # "running"
  <2>1. Data(outbox) = <<>> /\ IsPrefix(Data(wire), Data(sent))
    BY <1>8 DEF FlowInv, DataInv
  <2>2. IsPrefix(Data(wire), Data(sent) \o Data(new))
    BY <1>6, <2>1, PrefixGrows
  <2>3. ~(scan.verdict = "clean" /\ ~gone)
    BY <1>1 DEF FlowInv, ScanInv
  <2> QED
    BY <1>1, <1>5, <1>8, <2>1, <2>2, <2>3 DEF DataInv
<1> QED
  BY <1>7, <1>8

\* A line moves from the reader's hand into the channel.
LEMMA PassData ==
  ASSUME StreamTypeOK, FlowInv, PassLine, UNCHANGED streamVars
  PROVE  DataInv'
<1>1. /\ reader.at = "passing" /\ reader.carved # <<>> /\ lines' = Append(lines, Head(reader.carved))
      /\ reader'.carved = Tail(reader.carved)
      /\ UNCHANGED <<sent, scan, wire, outbox, gone>>
  BY DEF PassLine, streamVars, history, StreamTypeOK, ScannerTypeOK
<1> DEFINE c == reader.carved
<1>2. /\ c \in Seq(Word) /\ lines \in Seq(Word) /\ c # <<>>
      /\ Head(c) \in Word /\ Tail(c) \in Seq(Word) /\ <<Head(c)>> \in Seq(Word)
      /\ Data(c) = Data(<<Head(c)>>) \o Data(Tail(c))
  BY <1>1, AllWords, DataHead
<1>3. Data(Append(lines, Head(c))) = Data(lines) \o Data(<<Head(c)>>)
  BY <1>2, DataAppend
<1>4. /\ Data(lines)' = Data(lines) \o Data(<<Head(c)>>) /\ Data(reader.carved)' = Data(Tail(c))
      /\ Data(wire)' = Data(wire) /\ Data(outbox)' = Data(outbox) /\ Data(sent)' = Data(sent)
  BY <1>1, <1>3 DEF Data
<1>5. /\ Data(<<Head(c)>>) \in Seq(Word) /\ Data(Tail(c)) \in Seq(Word)
      /\ Data(wire) \in Seq(Word) /\ Data(outbox) \in Seq(Word) /\ Data(lines) \in Seq(Word)
  BY <1>2, DataTyped, AllData
<1>6. Through' = Through
  <2>2. Data(wire) \o Data(outbox) \in Seq(Word)
    BY <1>5, ConcatProperties
  <2>3. ((Data(wire) \o Data(outbox)) \o (Data(lines) \o Data(<<Head(c)>>))) \o Data(Tail(c))
        = ((Data(wire) \o Data(outbox)) \o Data(lines)) \o (Data(<<Head(c)>>) \o Data(Tail(c)))
    <3> DEFINE a == Data(wire) \o Data(outbox)
               b == Data(lines)
               d == Data(<<Head(c)>>)
               e == Data(Tail(c))
    <3>1. a \in Seq(Word) /\ b \in Seq(Word) /\ d \in Seq(Word) /\ e \in Seq(Word)
      BY <1>5, <2>2
    <3> HIDE DEF a, b, d, e
    <3>2. (a \o (b \o d)) \o e = (a \o b) \o (d \o e)
      BY <3>1, SMTT(60)
    <3> QED
      BY <3>2 DEF a, b, d, e
  <2>4. Through = ((Data(wire) \o Data(outbox)) \o Data(lines)) \o (Data(<<Head(c)>>) \o Data(Tail(c)))
    BY <1>2 DEF Through
  <2>5. Through' = ((Data(wire) \o Data(outbox)) \o (Data(lines) \o Data(<<Head(c)>>))) \o Data(Tail(c))
    BY <1>4 DEF Through
  <2> QED
    BY <2>3, <2>4, <2>5
<1> QED
  BY <1>1, <1>4, <1>6 DEF FlowInv, DataInv

\* A line leaves the channel and becomes what the relay makes of it.
LEMMA LineData ==
  ASSUME StreamTypeOK, FlowInv, RelayLine
  PROVE  DataInv'
<1>1. /\ lines # <<>> /\ scan.at = "select" /\ outbox' = ProcessLine(relay, Head(lines)) /\ lines' = Tail(lines)
      /\ scan'.verdict = scan.verdict /\ UNCHANGED <<reader, sent, wire, gone>>
  BY DEF RelayLine, TakeLine, Selecting, LineReady, Call, StreamTypeOK, ScannerTypeOK
<1>2. scan.verdict = "running" /\ outbox = <<>>
  BY <1>1 DEF FlowInv, ScanInv
<1>3. Head(lines) \in LineKind /\ relay \in Relay
  BY <1>1, StreamConstants DEF StreamTypeOK, ScannerTypeOK
<1>4. /\ Head(lines) \in Word /\ Tail(lines) \in Seq(Word) /\ <<Head(lines)>> \in Seq(Word)
      /\ Data(lines) = Data(<<Head(lines)>>) \o Data(Tail(lines))
  BY <1>1, AllWords, DataHead
<1>5. Data(ProcessLine(relay, Head(lines))) = Data(<<Head(lines)>>)
  BY <1>3, RelayData
<1>6. /\ Data(outbox)' = Data(<<Head(lines)>>) /\ Data(lines)' = Data(Tail(lines))
      /\ Data(wire)' = Data(wire) /\ Data(reader.carved)' = Data(reader.carved) /\ Data(sent)' = Data(sent)
  BY <1>1, <1>5 DEF Data
<1>7. /\ Data(<<Head(lines)>>) \in Seq(Word) /\ Data(Tail(lines)) \in Seq(Word)
      /\ Data(wire) \in Seq(Word) /\ Data(reader.carved) \in Seq(Word)
  BY <1>4, DataTyped, AllData
<1>8. Data(outbox) = <<>>
  BY <1>2, DataShort
<1>9. Through' = Through
  BY <1>4, <1>6, <1>7, <1>8 DEF Through
<1> QED
  BY <1>1, <1>2, <1>6, <1>9 DEF FlowInv, DataInv

\* A call that writes no data.
LEMMA SilentCall ==
  ASSUME StreamTypeOK, FlowInv, Data(outbox) = <<>>, Data(outbox') = <<>>,
         scan'.verdict = scan.verdict, UNCHANGED <<reader, lines, sent, wire>>, gone => gone'
  PROVE  DataInv'
<1>1. /\ Data(outbox)' = Data(outbox) /\ Data(lines)' = Data(lines)
      /\ Data(wire)' = Data(wire) /\ Data(reader.carved)' = Data(reader.carved) /\ Data(sent)' = Data(sent)
  BY DEF Data
<1> QED
  BY <1>1 DEF FlowInv, DataInv, Through

\* A step that leaves the data where it is.
LEMMA DataStays ==
  ASSUME StreamTypeOK, FlowInv, scan'.verdict = scan.verdict, reader'.carved = reader.carved,
         UNCHANGED <<lines, sent, wire, outbox>>, gone => gone'
  PROVE  DataInv'
<1>1. /\ Data(outbox)' = Data(outbox) /\ Data(lines)' = Data(lines)
      /\ Data(wire)' = Data(wire) /\ Data(reader.carved)' = Data(reader.carved) /\ Data(sent)' = Data(sent)
  BY DEF Data
<1> QED
  BY <1>1 DEF FlowInv, DataInv, Through

\* Every step of the relay, the scan and the two ends keeps the flow.
LEMMA DataStep ==
  ASSUME StreamTypeOK, FlowInv, [Next]_vars
  PROVE  DataInv'
<1>r. relay \in Relay
  BY DEF StreamTypeOK
<1>e. Data(<<>>) = <<>>
  BY DataShort
<1>1. CASE RejectBody \/ Rejected
  BY <1>1, DataStays DEF RejectBody, Rejected, Leave, scannerVars, channels, history
<1>2. CASE AcceptBody
  <2>1. reader'.carved = reader.carved
    BY <1>2 DEF AcceptBody, StartScan, StreamTypeOK, ScannerTypeOK
  <2> QED
    BY <1>2, <2>1, DataStays DEF AcceptBody, StartScan, channels, history
<1>3. CASE Upstream
  <2>0. PICK n \in 0 .. LinesPerRead :
           \E new \in [1 .. n -> Payload], more \in BOOLEAN, end \in {"no", "eof", "error"} :
              BodyRead(new, more, end)
    BY <1>3 DEF Upstream
  <2>1. PICK new \in [1 .. n -> Payload], more \in BOOLEAN, end \in {"no", "eof", "error"} :
           BodyRead(new, more, end)
    BY <2>0
  <2>2. new \in Seq(Payload)
    BY <2>1
  <2> QED
    BY <1>3, <2>1, <2>2, ReadData DEF Upstream
<1>4. CASE ClientLeaves \/ Disconnected
  BY <1>4, DataStays DEF ClientLeaves, Disconnected, CancelContext, scannerVars, streamVars, channels, history
<1>5. CASE RelayLine
  BY <1>5, LineData
<1>6. CASE RelayTail
  <2>1. /\ scan.at = "select" /\ tails # <<>> /\ outbox' = ProcessTail(relay, Head(tails))
        /\ scan'.verdict = scan.verdict /\ UNCHANGED <<reader, lines, sent, wire, gone>>
    BY <1>6 DEF RelayTail, TakeTail, Selecting, Call, StreamTypeOK, ScannerTypeOK
  <2>2. Head(tails) \in TailKind
    BY <2>1, StreamConstants DEF StreamTypeOK, ScannerTypeOK
  <2>3. Data(outbox') = <<>>
    BY <1>r, <2>1, <2>2, RelayData
  <2>4. outbox = <<>>
    BY <2>1 DEF FlowInv, ScanInv
  <2> QED
    BY <1>e, <2>1, <2>3, <2>4, SilentCall
<1>7. CASE Write
  BY <1>7, WriteData
<1>8. CASE WriteFails
  <2>1. CASE stage = "relaying"
    <3>1. /\ outbox' = <<>> /\ CallReturns(FALSE) /\ UNCHANGED <<wire, gone>>
      BY <1>8, <2>1 DEF WriteFails
    <3>2. Return("write_error") /\ scan.at # "returned" /\ UNCHANGED sent
      BY <3>1 DEF CallReturns
    <3>3. scan.verdict = "running"
      BY <3>2 DEF FlowInv, ScanInv
    <3> QED
      BY <3>1, <3>2, <3>3, ReturnData DEF Verdict
  <2>2. CASE stage # "relaying"
    <3>1. /\ outbox # <<>> /\ outbox' = (IF stage = "aborting" THEN Tail(outbox) ELSE <<>>)
          /\ UNCHANGED <<scan, reader, lines, sent, wire, gone>>
      BY <1>8, <2>2 DEF WriteFails, scannerVars, channels, history
    <3>2. scan.verdict # "running"
      BY <2>2, <3>1 DEF FlowInv, ScanInv
    <3>3. Data(outbox) = <<>>
      BY <3>2 DEF FlowInv, DataInv
    <3>4. Data(Tail(outbox)) = <<>>
      <4>1. /\ <<Head(outbox)>> \in Seq(Word) /\ Tail(outbox) \in Seq(Word)
            /\ Data(<<Head(outbox)>>) \o Data(Tail(outbox)) = <<>>
        BY <3>1, <3>3, AllWords, DataHead
      <4>2. Data(<<Head(outbox)>>) \in Seq(Word) /\ Data(Tail(outbox)) \in Seq(Word)
        BY <4>1, DataTyped
      <4> QED
        BY <4>1, <4>2, ConcatEqualIffEmpty
    <3>5. Data(outbox') = <<>>
      BY <1>e, <3>1, <3>4
    <3> QED
      BY <3>1, <3>3, <3>5, SilentCall
  <2> QED
    BY <2>1, <2>2
<1>9. CASE Relayed
  <2>1. CASE scan.at = "fn"
    <3>1. scan'.verdict = scan.verdict /\ UNCHANGED <<reader, lines, sent, wire, outbox, gone>>
      BY <1>9, <2>1 DEF Relayed, CallReturns, streamVars, channels, StreamTypeOK, ScannerTypeOK
    <3> QED
      BY <3>1, DataStays
  <2>2. CASE scan.at = "tail"
    <3>1. /\ Return(Outcome) /\ Outcome \in Verdict /\ Outcome # "running" /\ outbox = <<>>
          /\ UNCHANGED <<wire, sent, gone, outbox>>
      BY <1>9, <2>2 DEF Relayed, CallReturns, Outcome, Verdict, streamVars
    <3>2. Outcome = "clean" => ~readErr
      BY DEF Outcome
    <3>3. lines = <<>> /\ reader.at = "done" /\ scan.verdict = "running"
      BY <2>2 DEF FlowInv, ScanInv
    <3> QED
      BY <3>1, <3>2, <3>3, ReturnData
  <2> QED
    BY <1>9, <2>1, <2>2 DEF Relayed, CallReturns
<1>10. CASE Scan
  <2>u. UNCHANGED <<wire, outbox, gone>> /\ UNCHANGED streamVars
    BY <1>10 DEF Scan, streamVars
  <2>1. CASE ReaderStep
    <3>1. CASE PassLine
      BY <2>u, <3>1, PassData
    <3>2. CASE BodyFails \/ ReaderLeaves
      <4>1. reader'.carved = reader.carved
        BY <3>2 DEF BodyFails, ReaderLeaves, StreamTypeOK, ScannerTypeOK
      <4> QED
        BY <2>u, <3>2, <4>1, DataStays DEF BodyFails, ReaderLeaves, channels, history
    <3>3. CASE ReaderEnds
      <4>1. reader'.carved = reader.carved
        BY <3>3 DEF ReaderEnds, StreamTypeOK, ScannerTypeOK
      <4> QED
        BY <2>u, <3>3, <4>1, DataStays DEF ReaderEnds, history
    <3> QED
      BY <2>1, <3>1, <3>2, <3>3 DEF ReaderStep
  <2>2. CASE ScanEnds \/ TimerFires \/ SeesCanceled
    <3>1. scan.at = "select" /\ UNCHANGED sent
      BY <2>2 DEF ScanEnds, Drained, TimerFires, SeesCanceled, Selecting
    <3>2. scan.verdict = "running" /\ outbox = <<>>
      BY <3>1 DEF FlowInv, ScanInv
    <3>3. CASE ScanEnds
      <4>1. /\ Return(Outcome) /\ Outcome \in Verdict /\ Outcome # "running"
            /\ lines = <<>> /\ reader.at = "done"
        BY <3>3 DEF ScanEnds, Drained, LinesClosed, Outcome, Verdict
      <4>2. Outcome = "clean" => ~readErr
        BY DEF Outcome
      <4> QED
        BY <2>u, <3>1, <3>2, <4>1, <4>2, ReturnData
    <3>4. CASE TimerFires \/ SeesCanceled
      <4>1. \E v \in {"stall", "canceled"} : Return(v)
        BY <3>4 DEF TimerFires, SeesCanceled
      <4> QED
        BY <2>u, <3>1, <3>2, <4>1, ReturnData DEF Verdict
    <3> QED
      BY <2>2, <3>3, <3>4
  <2>3. CASE TakeProgress \/ Tick
    BY <2>u, <2>3, DataStays DEF TakeProgress, Tick, channels, history
  <2> QED
    BY <1>10, <2>1, <2>2, <2>3 DEF Scan, ConsumerSteps
<1>11. CASE Abort
  <2>1. /\ scan.verdict # "running" /\ outbox' = Apology(relay)
        /\ UNCHANGED <<scan, reader, lines, sent, wire, gone>>
    BY <1>11 DEF Abort, scannerVars, channels, history, FlowInv, ScanInv
  <2>2. Data(outbox') = <<>> /\ Data(outbox) = <<>>
    BY <1>r, <2>1, RelayData DEF FlowInv, DataInv
  <2> QED
    BY <2>1, <2>2, SilentCall
<1>12. CASE FlushRelay
  <2>1. /\ scan.verdict # "running" /\ outbox' = Flush(relay)
        /\ UNCHANGED <<scan, reader, lines, sent, wire, gone>>
    BY <1>12 DEF FlushRelay, scannerVars, channels, history, FlowInv, ScanInv
  <2>2. Data(outbox') = <<>> /\ Data(outbox) = <<>>
    BY <1>r, <2>1, RelayData DEF FlowInv, DataInv
  <2> QED
    BY <2>1, <2>2, SilentCall
<1>13. CASE Finish
  BY <1>13, DataStays DEF Finish, Leave, channels, history
<1>14. CASE UNCHANGED vars
  BY <1>14, DataStays DEF vars, scannerVars, streamVars, channels, history
<1> QED
  BY <1>1, <1>2, <1>3, <1>4, <1>5, <1>6, <1>7, <1>8, <1>9, <1>10, <1>11, <1>12, <1>13, <1>14
     DEF Next, Handler

\* The flow holds through any interleaving of reader, relay, client and timer.
LEMMA FlowInvariant == Spec => []FlowInv
<1>1. Init => FlowInv
  BY FlowStarts, DataStarts DEF FlowInv
<1>2. StreamTypeOK /\ FlowInv /\ [Next]_vars => FlowInv'
  BY FlowControlStep, DataStep DEF FlowInv
<1> QED
  BY <1>1, <1>2, StreamTypeCorrect, PTL DEF Spec

\* The client gets the upstream's data lines in order and without a gap; all
\* of them, and the unterminated rest, when the stream ends cleanly; never the
\* rest of a body that failed (router/stream.go over upstream/scan.go: the
\* reader goroutine, its channels and the callbacks).
THEOREM RelayCorrect == Spec => []RelayIsFaithful
<1>1. StreamTypeOK /\ FlowInv => RelayIsFaithful
  <2> SUFFICES ASSUME StreamTypeOK, FlowInv PROVE RelayIsFaithful
    OBVIOUS
  <2>1. IsPrefix(Data(wire), Data(sent))
    <3>1. CASE scan.verdict = "running"
      BY <3>1, DataAtReturn DEF FlowInv
    <3>2. CASE scan.verdict # "running"
      BY <3>2 DEF FlowInv, DataInv
    <3> QED
      BY <3>1, <3>2
  <2>2. Served => Data(wire) = Data(sent) /\ (pending <=> rest # "no")
    BY DEF Served, FlowInv, ScanInv, DataInv
  <2>3. scan.verdict = "read_error" => rest = "no"
    BY DEF FlowInv, ScanInv
  <2> QED
    BY <2>1, <2>2, <2>3 DEF RelayIsFaithful
<1> QED
  BY <1>1, FlowInvariant, StreamTypeCorrect, PTL

-----------------------------------------------------------------------------
(* What ends a stream that is not cut. *)

\* A scan that ended cleanly, or may still, for a client that is there.
Live == ~gone /\ scan.verdict \in {"running", "clean"}

Flushed == scan.verdict = "clean" /\ stage \in {"flushing", "returned"}

Muted == \E i \in DOMAIN sent : sent[i] = "muted"

Plain(s) == \A i \in DOMAIN s : s[i] \notin {"sentinel", "failure"}

\* A chat client: no sentinel of the relay's before the flush, and one from it.
ChatMarks(w, o, flushed) ==
    IF ~flushed THEN Plain(w) /\ Plain(o)
    ELSE \/ Plain(w) /\ o = <<"sentinel">>
         \/ \E v \in Seq(Frame) : Plain(v) /\ w = Append(v, "sentinel") /\ o = <<>>

\* What the current call has still to write to a Responses client.
Owed(r, o) ==
    \/ o = <<>>
    \/ \E x \in {"raw", "chunk", "tail"} : o = <<x>>
    \/ o = <<"terminal">> /\ r.terminalSeen
    \/ \E s \in EndMark : o = <<"failure", s>> /\ ~r.terminalSeen
    \/ \E s \in EndMark : o = <<s>> /\ r.terminalSeen /\ ~r.doneSent

\* The flags know what is on the wire, and nothing else made them; m says
\* that a terminal event was filtered out.
FlagsOf(r, w, o, m) ==
    /\ r.doneSent => r.terminalSeen
    /\ \A i \in DOMAIN w : w[i] \in {"terminal", "failure"} => r.terminalSeen
    /\ r.doneSent <=> \E i \in DOMAIN w : w[i] \in EndMark
    /\ r.terminalSeen =>
          m \/ o = <<"terminal">> \/ \E i \in DOMAIN w : w[i] \in {"terminal", "failure"}

\* One mark at most.
OneMark(w) == \A i, j \in DOMAIN w : w[i] \in EndMark /\ w[j] \in EndMark => i = j

\* What it ends comes before it.
EndedBefore(w, m) ==
    \A i \in DOMAIN w : w[i] \in EndMark => m \/ \E j \in 1 .. i - 1 : w[j] \in {"terminal", "failure"}

\* A failure is right before the mark.
FailureThenMark(w, o) ==
    \A i \in DOMAIN w : w[i] = "failure" =>
        /\ i = Len(w) => \E s \in EndMark : o = <<s>>
        /\ i # Len(w) => w[i + 1] \in EndMark

\* Nothing of its kind is ahead of a failure.
FailureAlone(w) ==
    \A i, j \in DOMAIN w : w[i] = "failure" /\ w[j] \in {"terminal", "failure"} => i <= j

EndsOf(w, o, m) == OneMark(w) /\ EndedBefore(w, m) /\ FailureThenMark(w, o) /\ FailureAlone(w)

ResponsesMarks(r, w, o, m, flushed) ==
    /\ Owed(r, o) /\ FlagsOf(r, w, o, m) /\ EndsOf(w, o, m)
    /\ flushed => r.doneSent \/ (o # <<>> /\ o[Len(o)] \in EndMark)

MutedKnown ==
    /\ \A i \in DOMAIN lines : lines[i] = "muted" => Muted
    /\ \A i \in DOMAIN reader.carved : reader.carved[i] = "muted" => Muted

Marks(r, w, o, m, flushed) ==
    IF r.format = "chat" THEN ChatMarks(w, o, flushed) ELSE ResponsesMarks(r, w, o, m, flushed)

MarkInv ==
    /\ MutedKnown
    /\ Live => /\ stage # "aborting"
               /\ scan.verdict = "clean" /\ stage # "flushing" => outbox = <<>>
               /\ Marks(relay, wire, outbox, Muted, Flushed)

\* Two frames make a pair.
LEMMA PairIsConcat ==
  ASSUME NEW a, NEW b
  PROVE  <<a>> \o <<b>> = <<a, b>>
<1> DEFINE p == <<a>> \o <<b>>
<1>1. <<a>> \in Seq({a, b}) /\ <<b>> \in Seq({a, b})
  OBVIOUS
<1>2. p \in Seq({a, b}) /\ Len(p) = 2 /\ p[1] = a /\ p[2] = b
  BY <1>1
<1>3. <<a, b>> \in Seq({a, b}) /\ Len(<<a, b>>) = 2 /\ <<a, b>>[1] = a /\ <<a, b>>[2] = b
  OBVIOUS
<1>4. \A i \in 1 .. Len(p) : p[i] = <<a, b>>[i]
  <2>1. \A i \in 1 .. 2 : i = 1 \/ i = 2
    OBVIOUS
  <2> QED
    BY <1>2, <1>3, <2>1
<1> QED
  BY <1>2, <1>3, <1>4, SeqEqual

\* An ending owes what the flags lack.
LEMMA EndingOwed ==
  ASSUME NEW r \in Relay, NEW s \in EndMark, r.doneSent => r.terminalSeen
  PROVE  /\ Owed(r, Ending(r, s))
         /\ r.doneSent \/ (Ending(r, s) # <<>> /\ Ending(r, s)[Len(Ending(r, s))] \in EndMark)
<1>1. CASE r.terminalSeen /\ r.doneSent
  <2>1. Ending(r, s) = <<>>
    BY <1>1 DEF Ending
  <2> QED
    BY <1>1, <2>1 DEF Owed
<1>2. CASE r.terminalSeen /\ ~r.doneSent
  <2>1. Ending(r, s) = <<s>>
    BY <1>2 DEF Ending
  <2>2. <<s>> # <<>> /\ <<s>>[Len(<<s>>)] = s
    OBVIOUS
  <2> QED
    BY <1>2, <2>1, <2>2 DEF Owed
<1>3. CASE ~r.terminalSeen
  <2>1. Ending(r, s) = <<"failure">> \o <<s>>
    BY <1>3 DEF Ending
  <2>2. <<"failure">> \o <<s>> = <<"failure", s>>
    BY PairIsConcat
  <2>3. <<"failure", s>> # <<>> /\ <<"failure", s>>[Len(<<"failure", s>>)] = s
    OBVIOUS
  <2> QED
    BY <1>3, <2>1, <2>2, <2>3 DEF Owed
<1> QED
  BY <1>1, <1>2, <1>3

\* A call begins when nothing is owed.
LEMMA CallMarks ==
  ASSUME NEW r \in Relay, NEW w \in Seq(Frame), NEW m \in BOOLEAN, NEW o, NEW flushed \in BOOLEAN,
         NEW any, ResponsesMarks(r, w, <<>>, m, any), Owed(r, o),
         flushed => r.doneSent \/ (o # <<>> /\ o[Len(o)] \in EndMark)
  PROVE  ResponsesMarks(r, w, o, m, flushed)
<1>1. <<>> # <<"terminal">> /\ \A s \in EndMark : <<>> # <<s>>
  OBVIOUS
<1>2. FlagsOf(r, w, o, m)
  BY <1>1 DEF ResponsesMarks, FlagsOf
<1>3. EndsOf(w, o, m)
  BY <1>1 DEF ResponsesMarks, EndsOf, FailureThenMark
<1> QED
  BY <1>2, <1>3 DEF ResponsesMarks

\* A line of the upstream.
LEMMA LineMarks ==
  ASSUME NEW r \in Relay, NEW w \in Seq(Frame), NEW m \in BOOLEAN, NEW line \in LineKind,
         r.format = "responses", ResponsesMarks(r, w, <<>>, m, FALSE), line = "muted" => m
  PROVE  ResponsesMarks(Noted(r, line), w, ProcessLine(r, line), m, FALSE)
<1>0. FlagsOf(r, w, <<>>, m) /\ EndsOf(w, <<>>, m) /\ (r.doneSent => r.terminalSeen)
  BY DEF ResponsesMarks, FlagsOf
<1>1. CASE line = "done"
  <2>1. Noted(r, line) = r /\ ProcessLine(r, line) = Ending(r, "done") /\ "done" \in EndMark
    BY <1>1 DEF Noted, ProcessLine, EndMark
  <2>2. Owed(r, Ending(r, "done"))
    BY <1>0, <2>1, EndingOwed DEF ResponsesMarks, FlagsOf
  <2> QED
    BY <2>1, <2>2, CallMarks
<1>2. CASE line \in {"raw", "chunk"}
  <2>1. Noted(r, line) = r /\ ProcessLine(r, line) = <<line>>
    BY <1>2 DEF Noted, ProcessLine
  <2>2. Owed(r, <<line>>)
    BY <1>2 DEF Owed
  <2> QED
    BY <2>1, <2>2, CallMarks
<1>3. CASE line = "noise"
  <2>1. Noted(r, line) = r /\ ProcessLine(r, line) = <<>>
    BY <1>3 DEF Noted, ProcessLine
  <2> QED
    BY <2>1
<1>4. CASE line \in {"terminal", "muted"}
  <2> DEFINE q == Noted(r, line)
  <2>1. q \in Relay /\ q.terminalSeen /\ (q.doneSent <=> r.doneSent)
    BY <1>4 DEF Noted, Relay
  <2>2. ProcessLine(r, line) = IF line = "muted" THEN <<>> ELSE <<"terminal">>
    BY <1>4 DEF ProcessLine
  <2>3. line = "terminal" \/ m
    BY <1>4
  <2> DEFINE o == IF line = "muted" THEN <<>> ELSE <<"terminal">>
  <2>4. Owed(q, o)
    BY <2>1 DEF Owed
  <2>5. FlagsOf(q, w, o, m)
    <3>1. m \/ o = <<"terminal">>
      BY <1>4
    <3> HIDE DEF q, o
    <3>3. q.doneSent => q.terminalSeen
      BY <2>1
    <3>4. \A i \in DOMAIN w : w[i] \in {"terminal", "failure"} => q.terminalSeen
      BY <2>1
    <3>5. q.doneSent <=> \E i \in DOMAIN w : w[i] \in EndMark
      BY <1>0, <2>1 DEF FlagsOf
    <3> QED
      BY <3>1, <3>3, <3>4, <3>5 DEF FlagsOf
  <2>6. EndsOf(w, o, m)
    <3>1. \A s \in EndMark : <<>> # <<s>>
      OBVIOUS
    <3>2. FailureThenMark(w, <<>>)
      BY <1>0 DEF EndsOf
    <3>3. FailureThenMark(w, o)
      BY <3>1, <3>2 DEF FailureThenMark
    <3> HIDE DEF o
    <3> QED
      BY <1>0, <3>3 DEF EndsOf
  <2> QED
    BY <2>2, <2>4, <2>5, <2>6 DEF ResponsesMarks
<1> QED
  BY <1>1, <1>2, <1>3, <1>4 DEF LineKind

\* The unterminated rest of the body, and the flush.
LEMMA TailMarks ==
  ASSUME NEW r \in Relay, NEW w \in Seq(Frame), NEW m \in BOOLEAN,
         r.format = "responses", NEW any, ResponsesMarks(r, w, <<>>, m, any)
  PROVE  /\ \A t \in TailKind : ResponsesMarks(r, w, ProcessTail(r, t), m, FALSE)
         /\ ResponsesMarks(r, w, Flush(r), m, TRUE)
<1>0. (r.doneSent => r.terminalSeen) /\ "sentinel" \in EndMark
  BY DEF ResponsesMarks, FlagsOf, EndMark
<1>1. /\ Owed(r, Ending(r, "sentinel"))
      /\ r.doneSent \/ (Ending(r, "sentinel") # <<>> /\ Ending(r, "sentinel")[Len(Ending(r, "sentinel"))] \in EndMark)
  BY <1>0, EndingOwed
<1>2. ASSUME NEW t \in TailKind PROVE ResponsesMarks(r, w, ProcessTail(r, t), m, FALSE)
  <2>1. ProcessTail(r, t) = IF t = "done" THEN Ending(r, "sentinel") ELSE <<"tail">>
    BY DEF ProcessTail, TailKind
  <2>2. Owed(r, <<"tail">>)
    BY DEF Owed
  <2>3. Owed(r, ProcessTail(r, t))
    BY <1>1, <2>1, <2>2
  <2> QED
    BY <2>3, CallMarks
<1>3. Flush(r) = Ending(r, "sentinel")
  BY DEF Flush
<1>4. ResponsesMarks(r, w, Ending(r, "sentinel"), m, TRUE)
  BY <1>1, CallMarks
<1> QED
  BY <1>2, <1>3, <1>4

\* What is owed, by the frame it begins with.
LEMMA OwedHead ==
  ASSUME NEW r \in Relay, NEW o, Owed(r, o), o # <<>>, NEW x, x = Head(o)
  PROVE  /\ x = "failure" => ~r.terminalSeen /\ \E s \in EndMark : Tail(o) = <<s>> /\ o = <<"failure", s>>
         /\ x # "failure" => o = <<x>> /\ Tail(o) = <<>>
         /\ x = "terminal" => r.terminalSeen
         /\ x \in EndMark => r.terminalSeen /\ ~r.doneSent
         /\ \A s \in EndMark : o = <<s>> => x = s
<1>0. \A y : Head(<<y>>) = y /\ Tail(<<y>>) = <<>>
  OBVIOUS
<1>1. \A s : Head(<<"failure", s>>) = "failure" /\ Tail(<<"failure", s>>) = <<s>>
  OBVIOUS
<1>2. \A s \in EndMark : s # "failure" /\ s # "terminal" /\ s \notin {"raw", "chunk", "tail"}
  BY DEF EndMark
<1>3. "failure" \notin EndMark /\ "terminal" \notin EndMark /\ \A y \in {"raw", "chunk", "tail"} : y \notin EndMark
  BY DEF EndMark
<1>4. \A s \in EndMark : o = <<s>> => x = s
  BY <1>0
<1>5. CASE \E y \in {"raw", "chunk", "tail"} : o = <<y>>
  BY <1>0, <1>3, <1>4, <1>5
<1>6. CASE o = <<"terminal">> /\ r.terminalSeen
  BY <1>0, <1>3, <1>4, <1>6
<1>7. CASE \E s \in EndMark : o = <<"failure", s>> /\ ~r.terminalSeen
  <2>1. PICK s \in EndMark : o = <<"failure", s>> /\ ~r.terminalSeen
    BY <1>7
  <2>2. x = "failure" /\ Tail(o) = <<s>>
    BY <1>1, <2>1
  <2> QED
    BY <1>3, <1>4, <2>1, <2>2
<1>8. CASE \E s \in EndMark : o = <<s>> /\ r.terminalSeen /\ ~r.doneSent
  BY <1>0, <1>2, <1>4, <1>8
<1> QED
  BY <1>5, <1>6, <1>7, <1>8 DEF Owed

\* A frame behind a wire keeps the marks in order when it has the right.
LEMMA EndsAppend ==
  ASSUME NEW w \in Seq(Frame), NEW x \in Frame, NEW m \in BOOLEAN, NEW o, NEW p,
         EndsOf(w, o, m),
         \A s \in EndMark : o = <<s>> => x = s,
         x \in EndMark => \A i \in DOMAIN w : w[i] \notin EndMark,
         x \in EndMark => m \/ \E i \in DOMAIN w : w[i] \in {"terminal", "failure"},
         x = "failure" => \E s \in EndMark : p = <<s>>,
         x = "failure" => \A i \in DOMAIN w : w[i] \notin {"terminal", "failure"}
  PROVE  EndsOf(Append(w, x), p, m)
<1> DEFINE v == Append(w, x)
<1>1. /\ v \in Seq(Frame) /\ Len(v) = Len(w) + 1 /\ Len(w) \in Nat /\ v[Len(v)] = x
      /\ DOMAIN w = 1 .. Len(w) /\ DOMAIN v = 1 .. Len(v)
      /\ \A i \in 1 .. Len(w) : v[i] = w[i]
  OBVIOUS
<1>2. \A i \in DOMAIN v : i = Len(v) \/ (i \in DOMAIN w /\ v[i] = w[i])
  BY <1>1
<1> HIDE DEF v
<1>3. OneMark(v)
  BY <1>1, <1>2 DEF EndsOf, OneMark
<1>4. EndedBefore(v, m)
  <2> SUFFICES ASSUME NEW i \in DOMAIN v, v[i] \in EndMark, ~m
               PROVE  \E j \in 1 .. i - 1 : v[j] \in {"terminal", "failure"}
    BY DEF EndedBefore
  <2>1. CASE i = Len(v)
    <3>1. PICK j \in DOMAIN w : w[j] \in {"terminal", "failure"}
      BY <1>1, <2>1
    <3>2. j \in 1 .. i - 1 /\ v[j] = w[j]
      BY <1>1, <2>1
    <3> QED
      BY <3>1, <3>2
  <2>2. CASE i \in DOMAIN w /\ v[i] = w[i]
    <3>1. PICK j \in 1 .. i - 1 : w[j] \in {"terminal", "failure"}
      BY <2>2 DEF EndsOf, EndedBefore
    <3>2. v[j] = w[j]
      BY <1>1, <2>2
    <3> QED
      BY <3>1, <3>2
  <2> QED
    BY <1>2, <2>1, <2>2
<1>5. FailureThenMark(v, p)
  <2> SUFFICES ASSUME NEW i \in DOMAIN v, v[i] = "failure"
               PROVE  /\ i = Len(v) => \E s \in EndMark : p = <<s>>
                      /\ i # Len(v) => v[i + 1] \in EndMark
    BY DEF FailureThenMark
  <2>1. ASSUME i # Len(v) PROVE v[i + 1] \in EndMark
    <3>0. i \in DOMAIN w /\ w[i] = "failure"
      BY <1>2, <2>1
    <3>1. CASE i = Len(w)
      <4>1. PICK s \in EndMark : o = <<s>>
        BY <3>0, <3>1 DEF EndsOf, FailureThenMark
      <4> QED
        BY <1>1, <3>1, <4>1
    <3>2. CASE i # Len(w)
      <4>1. w[i + 1] \in EndMark /\ i + 1 \in 1 .. Len(w)
        BY <1>1, <3>0, <3>2 DEF EndsOf, FailureThenMark
      <4> QED
        BY <1>1, <4>1
    <3> QED
      BY <3>1, <3>2
  <2> QED
    BY <1>1, <2>1
<1>6. FailureAlone(v)
  <2> SUFFICES ASSUME NEW i \in DOMAIN v, NEW j \in DOMAIN v, v[i] = "failure", v[j] \in {"terminal", "failure"}
               PROVE  i <= j
    BY DEF FailureAlone
  <2>1. CASE j = Len(v)
    BY <1>1, <2>1
  <2>2. CASE j \in DOMAIN w /\ v[j] = w[j]
    <3>1. i # Len(v)
      BY <1>1, <2>2
    <3>2. i \in DOMAIN w /\ w[i] = "failure"
      BY <1>2, <3>1
    <3> QED
      BY <2>2, <3>2 DEF EndsOf, FailureAlone
  <2> QED
    BY <1>2, <2>1, <2>2
<1> QED
  BY <1>3, <1>4, <1>5, <1>6 DEF EndsOf, v

\* A frame that is written keeps flags, wire and what is owed in step.
LEMMA MarksWrite ==
  ASSUME NEW r \in Relay, r.format = "responses", NEW w \in Seq(Frame), NEW o \in Seq(Frame), o # <<>>,
         NEW m \in BOOLEAN, NEW flushed \in BOOLEAN, ResponsesMarks(r, w, o, m, flushed)
  PROVE  ResponsesMarks(Wrote(r, Head(o)), Append(w, Head(o)), Tail(o), m, flushed)
<1> DEFINE x == Head(o)
           v == Append(w, x)
           q == Wrote(r, x)
           p == Tail(o)
<1>0. x \in Frame /\ r.doneSent \in BOOLEAN /\ r.terminalSeen \in BOOLEAN
  BY DEF Relay
<1>1. /\ v \in Seq(Frame) /\ Len(v) = Len(w) + 1 /\ Len(w) \in Nat /\ v[Len(v)] = x
      /\ DOMAIN w = 1 .. Len(w) /\ DOMAIN v = 1 .. Len(v)
      /\ \A i \in 1 .. Len(w) : v[i] = w[i]
  BY <1>0
<1>2. \A i \in DOMAIN v : i = Len(v) \/ (i \in DOMAIN w /\ v[i] = w[i])
  BY <1>1
<1>3. \A i \in DOMAIN w : i \in DOMAIN v /\ v[i] = w[i]
  BY <1>1
<1>4. Len(v) \in DOMAIN v
  BY <1>1
<1>5. (q.terminalSeen <=> r.terminalSeen \/ x = "failure") /\ (q.doneSent <=> r.doneSent \/ x \in EndMark)
  BY DEF Wrote, Relay, EndMark
<1>6. /\ x = "failure" => ~r.terminalSeen /\ \E s \in EndMark : p = <<s>> /\ o = <<"failure", s>>
      /\ x # "failure" => o = <<x>> /\ p = <<>>
      /\ x = "terminal" => r.terminalSeen
      /\ x \in EndMark => r.terminalSeen /\ ~r.doneSent
      /\ \A s \in EndMark : o = <<s>> => x = s
  BY OwedHead DEF ResponsesMarks
<1>7. FlagsOf(r, w, o, m) /\ EndsOf(w, o, m)
  BY DEF ResponsesMarks
<1>8. "failure" \notin EndMark /\ "terminal" \notin EndMark
  BY DEF EndMark
<1>9. o = <<"terminal">> <=> x = "terminal"
  BY <1>6
<1>10. \A s \in EndMark : Len(<<s>>) = 1 /\ <<s>>[1] = s /\ <<s>> # <<>>
  OBVIOUS
<1> HIDE DEF x, v, q, p
<1>11. Owed(q, p)
  <2>1. CASE x = "failure"
    BY <1>5, <1>6, <1>7, <1>8, <2>1 DEF FlagsOf, Owed
  <2>2. CASE x # "failure"
    BY <1>6, <2>2 DEF Owed
  <2> QED
    BY <2>1, <2>2
<1>12. FlagsOf(q, v, p, m)
  <2>1. q.doneSent => q.terminalSeen
    BY <1>5, <1>6, <1>7 DEF FlagsOf
  <2>2. \A i \in DOMAIN v : v[i] \in {"terminal", "failure"} => q.terminalSeen
    BY <1>1, <1>2, <1>5, <1>6, <1>7 DEF FlagsOf
  <2>3. q.doneSent <=> \E i \in DOMAIN v : v[i] \in EndMark
    BY <1>1, <1>2, <1>3, <1>4, <1>5, <1>7 DEF FlagsOf
  <2>4. q.terminalSeen => m \/ p = <<"terminal">> \/ \E i \in DOMAIN v : v[i] \in {"terminal", "failure"}
    <3>1. CASE x \in {"terminal", "failure"}
      BY <1>1, <1>4, <3>1
    <3>2. CASE x \notin {"terminal", "failure"}
      BY <1>3, <1>5, <1>7, <1>9, <3>2 DEF FlagsOf
    <3> QED
      BY <3>1, <3>2
  <2> QED
    BY <2>1, <2>2, <2>3, <2>4 DEF FlagsOf
<1>13. EndsOf(v, p, m)
  <2>1. x \in EndMark => \A i \in DOMAIN w : w[i] \notin EndMark
    BY <1>6, <1>7 DEF FlagsOf
  <2>2. x \in EndMark => m \/ \E i \in DOMAIN w : w[i] \in {"terminal", "failure"}
    BY <1>6, <1>7, <1>8, <1>9 DEF FlagsOf
  <2>3. x = "failure" => \A i \in DOMAIN w : w[i] \notin {"terminal", "failure"}
    BY <1>6, <1>7 DEF FlagsOf
  <2> QED
    BY <1>0, <1>6, <1>7, <2>1, <2>2, <2>3, EndsAppend DEF v
<1>14. flushed => q.doneSent \/ (p # <<>> /\ p[Len(p)] \in EndMark)
  <2> SUFFICES ASSUME flushed, ~r.doneSent PROVE q.doneSent \/ (p # <<>> /\ p[Len(p)] \in EndMark)
    BY <1>5
  <2>1. o[Len(o)] \in EndMark
    BY DEF ResponsesMarks
  <2>2. CASE x = "failure"
    <3>1. PICK s \in EndMark : p = <<s>>
      BY <1>6, <2>2
    <3> QED
      BY <1>10, <3>1
  <2>3. CASE x # "failure"
    <3>1. o = <<x>>
      BY <1>6, <2>3
    <3>2. Len(<<x>>) = 1 /\ <<x>>[1] = x
      OBVIOUS
    <3> QED
      BY <1>5, <2>1, <3>1, <3>2
  <2> QED
    BY <2>2, <2>3
<1> QED
  BY <1>11, <1>12, <1>13, <1>14 DEF ResponsesMarks, x, v, q, p

\* A line, for either client.
LEMMA MarksLine ==
  ASSUME NEW r \in Relay, NEW w \in Seq(Frame), NEW m \in BOOLEAN, NEW line \in LineKind,
         Marks(r, w, <<>>, m, FALSE), line = "muted" => m
  PROVE  Marks(Noted(r, line), w, ProcessLine(r, line), m, FALSE)
<1>1. Noted(r, line).format = r.format
  BY DEF Noted, Relay
<1>2. CASE r.format = "responses"
  BY <1>1, <1>2, LineMarks DEF Marks
<1>3. CASE r.format = "chat"
  <2>1. ProcessLine(r, line) = <<>> \/ ProcessLine(r, line) = <<line>>
    BY <1>3 DEF ProcessLine
  <2>2. Plain(<<>>) /\ (line \notin {"sentinel", "failure"} => Plain(<<line>>))
    BY DEF Plain
  <2>3. Plain(ProcessLine(r, line))
    BY <2>1, <2>2 DEF LineKind
  <2> QED
    BY <1>1, <1>3, <2>3 DEF Marks, ChatMarks
<1> QED
  BY <1>2, <1>3 DEF Relay, Format

\* A tail.
LEMMA MarksTail ==
  ASSUME NEW r \in Relay, NEW w \in Seq(Frame), NEW m \in BOOLEAN, NEW t \in TailKind,
         Marks(r, w, <<>>, m, FALSE)
  PROVE  Marks(r, w, ProcessTail(r, t), m, FALSE)
<1>1. CASE r.format = "responses"
  BY <1>1, TailMarks DEF Marks
<1>2. CASE r.format = "chat"
  <2>1. ProcessTail(r, t) = <<t>> /\ t \notin {"sentinel", "failure"}
    BY <1>2 DEF ProcessTail, TailKind
  <2>2. Plain(<<t>>)
    BY <2>1 DEF Plain
  <2> QED
    BY <1>2, <2>1, <2>2 DEF Marks, ChatMarks
<1> QED
  BY <1>1, <1>2 DEF Relay, Format

\* The flush.
LEMMA MarksFlush ==
  ASSUME NEW r \in Relay, NEW w \in Seq(Frame), NEW m \in BOOLEAN, Marks(r, w, <<>>, m, FALSE)
  PROVE  Marks(r, w, Flush(r), m, TRUE)
<1>1. CASE r.format = "responses"
  BY <1>1, TailMarks DEF Marks
<1>2. CASE r.format = "chat"
  BY <1>2 DEF Marks, ChatMarks, Flush
<1> QED
  BY <1>1, <1>2 DEF Relay, Format

\* A write that succeeds.
LEMMA MarksWritten ==
  ASSUME NEW r \in Relay, NEW w \in Seq(Frame), NEW o \in Seq(Frame), o # <<>>,
         NEW m \in BOOLEAN, NEW flushed \in BOOLEAN, Marks(r, w, o, m, flushed)
  PROVE  Marks(Wrote(r, Head(o)), Append(w, Head(o)), Tail(o), m, flushed)
<1>1. Wrote(r, Head(o)).format = r.format
  BY DEF Wrote, Relay
<1>2. CASE r.format = "responses"
  BY <1>1, <1>2, MarksWrite DEF Marks
<1>3. CASE r.format = "chat"
  <2> DEFINE x == Head(o)
             v == Append(w, x)
             p == Tail(o)
  <2>0. ChatMarks(w, o, flushed)
    BY <1>3 DEF Marks
  <2>1. ASSUME flushed PROVE ChatMarks(v, p, flushed)
    <3>1. o = <<"sentinel">> /\ Plain(w)
      BY <2>0, <2>1 DEF ChatMarks
    <3>2. Head(<<"sentinel">>) = "sentinel" /\ Tail(<<"sentinel">>) = <<>>
      OBVIOUS
    <3>3. v = Append(w, "sentinel") /\ p = <<>>
      BY <3>1, <3>2
    <3> QED
      BY <2>1, <3>1, <3>3 DEF ChatMarks
  <2>2. ASSUME ~flushed PROVE ChatMarks(v, p, flushed)
    <3>0. Plain(w) /\ Plain(o)
      BY <2>0, <2>2 DEF ChatMarks
    <3>1. /\ Len(v) = Len(w) + 1 /\ Len(w) \in Nat /\ v[Len(v)] = x
          /\ DOMAIN w = 1 .. Len(w) /\ DOMAIN v = 1 .. Len(v)
          /\ \A i \in 1 .. Len(w) : v[i] = w[i]
      OBVIOUS
    <3>2. x = o[1] /\ 1 \in DOMAIN o
      OBVIOUS
    <3>3. \A i \in DOMAIN p : i + 1 \in DOMAIN o /\ p[i] = o[i + 1]
      OBVIOUS
    <3> HIDE DEF x, v, p
    <3>4. Plain(v)
      BY <3>0, <3>1, <3>2 DEF Plain
    <3>5. Plain(p)
      BY <3>0, <3>3 DEF Plain
    <3> QED
      BY <2>2, <3>4, <3>5 DEF ChatMarks
  <2>3. ChatMarks(v, p, flushed)
    BY <2>1, <2>2
  <2> QED
    BY <1>1, <1>3, <2>3 DEF Marks
<1> QED
  BY <1>2, <1>3 DEF Relay, Format

\* A terminal event that was filtered out stays known.
LEMMA MarksMuted ==
  ASSUME NEW r, NEW w, NEW o, NEW m \in BOOLEAN, NEW n \in BOOLEAN, NEW flushed, m => n,
         Marks(r, w, o, m, flushed)
  PROVE  Marks(r, w, o, n, flushed)
BY DEF Marks, ResponsesMarks, FlagsOf, EndsOf, EndedBefore

\* Lines that were filtered out came from the upstream.
LEMMA MutedStep ==
  ASSUME StreamTypeOK, MutedKnown, [Next]_vars
  PROVE  MutedKnown' /\ (Muted => Muted') /\ Muted \in BOOLEAN /\ Muted' \in BOOLEAN
<1>b. Muted \in BOOLEAN /\ Muted' \in BOOLEAN
  BY DEF Muted
<1>t. /\ lines \in Seq(Payload) /\ sent \in Seq(Payload) /\ reader.carved \in Seq(Payload)
      /\ reader \in [at : {"unborn", "reading", "passing", "done"},
                     carved : Seq(Payload), end : {"no", "eof", "error"}]
  BY DEF StreamTypeOK, ScannerTypeOK
<1>1. ASSUME reader'.carved = reader.carved, lines' = lines, sent' = sent
      PROVE  MutedKnown' /\ (Muted => Muted')
  BY <1>1 DEF MutedKnown, Muted
<1>2. CASE Upstream
  <2>0. PICK n \in 0 .. LinesPerRead :
           \E new \in [1 .. n -> Payload], more \in BOOLEAN, end \in {"no", "eof", "error"} :
              BodyRead(new, more, end)
    BY <1>2 DEF Upstream
  <2>1. PICK new \in [1 .. n -> Payload], more \in BOOLEAN, end \in {"no", "eof", "error"} :
           BodyRead(new, more, end)
    BY <2>0
  <2>2. new \in Seq(Payload) /\ lines' = lines /\ sent' = sent \o new /\ reader'.carved = new
    BY <2>1 DEF BodyRead
  <2>3. \A i \in DOMAIN sent : i \in DOMAIN sent' /\ sent'[i] = sent[i]
    BY <1>t, <2>2
  <2>4. \A i \in DOMAIN new : Len(sent) + i \in DOMAIN sent' /\ sent'[Len(sent) + i] = new[i]
    BY <1>t, <2>2
  <2>5. Muted => Muted'
    BY <2>3 DEF Muted
  <2>6. \A i \in DOMAIN reader'.carved : reader'.carved[i] = "muted" => Muted'
    BY <2>2, <2>4 DEF Muted
  <2>7. \A i \in DOMAIN lines' : lines'[i] = "muted" => Muted'
    BY <2>2, <2>5 DEF MutedKnown
  <2> QED
    BY <1>b, <2>5, <2>6, <2>7 DEF MutedKnown
<1>3. CASE PassLine
  <2> DEFINE c == reader.carved
             d == reader'.carved
  <2>1. /\ c \in Seq(Payload) /\ c # <<>> /\ d = Tail(c) /\ lines' = Append(lines, Head(c)) /\ sent' = sent
    BY <1>t, <1>3 DEF PassLine, history
  <2>2. Head(c) = c[1] /\ 1 \in DOMAIN c /\ \A i \in DOMAIN d : i + 1 \in DOMAIN c /\ d[i] = c[i + 1]
    BY <2>1
  <2>3. \A i \in DOMAIN lines' : lines'[i] = Head(c) \/ (i \in DOMAIN lines /\ lines'[i] = lines[i])
    BY <1>t, <2>1
  <2>4. Muted' = Muted
    BY <2>1 DEF Muted
  <2>5. Head(c) = "muted" => Muted
    BY <2>2 DEF MutedKnown
  <2>6. \A i \in DOMAIN lines' : lines'[i] = "muted" => Muted'
    BY <2>3, <2>4, <2>5 DEF MutedKnown
  <2>7. \A i \in DOMAIN reader'.carved : reader'.carved[i] = "muted" => Muted'
    BY <2>2, <2>4 DEF MutedKnown
  <2> QED
    BY <1>b, <2>4, <2>6, <2>7 DEF MutedKnown
<1>4. CASE RelayLine
  <2>1. lines # <<>> /\ lines' = Tail(lines) /\ sent' = sent /\ reader' = reader
    BY <1>4 DEF RelayLine, TakeLine, LineReady
  <2>2. \A i \in DOMAIN lines' : i + 1 \in DOMAIN lines /\ lines'[i] = lines[i + 1]
    BY <1>t, <2>1
  <2> QED
    BY <1>b, <2>1, <2>2 DEF MutedKnown, Muted
<1>5. CASE AcceptBody \/ BodyFails \/ ReaderLeaves \/ ReaderEnds
  <2>1. reader'.carved = reader.carved /\ lines' = lines /\ sent' = sent
    BY <1>t, <1>5 DEF AcceptBody, StartScan, BodyFails, ReaderLeaves, ReaderEnds, channels, history
  <2> QED
    BY <1>1, <1>b, <2>1
<1>6. CASE RejectBody \/ Rejected \/ ClientLeaves \/ Disconnected \/ RelayTail \/ Write \/ WriteFails \/ Relayed
        \/ ConsumerSteps \/ Tick \/ Abort \/ FlushRelay \/ Finish \/ UNCHANGED vars
  <2>1. reader' = reader /\ lines' = lines /\ sent' = sent
    BY <1>6 DEF RejectBody, Rejected, ClientLeaves, Disconnected, RelayTail, Write, WriteFails, Relayed, ConsumerSteps,
       Tick, Abort, FlushRelay, Finish, Leave, CancelContext, TakeTail, CallReturns, ScanEnds, TakeProgress,
       TimerFires, SeesCanceled, vars, scannerVars, channels, history
  <2> QED
    BY <1>1, <1>b, <2>1
<1> QED
  BY <1>b, <1>2, <1>3, <1>4, <1>5, <1>6 DEF Next, Handler, Scan, ReaderStep

\* A call that begins for a client that is there, with nothing owed.
LEMMA MarksCall ==
  ASSUME StreamTypeOK, FlowInv, MarkInv, Live, scan.at = "select", reader.at # "unborn"
  PROVE  outbox = <<>> /\ ~Flushed /\ Marks(relay, wire, <<>>, Muted, FALSE)
<1>1. scan.verdict = "running" /\ outbox = <<>>
  BY DEF FlowInv, ScanInv
<1>2. Flushed = FALSE
  BY <1>1 DEF Flushed
<1> QED
  BY <1>1, <1>2 DEF MarkInv

\* Steps that leave relay, wire and outbox alone.
LEMMA MarksStay ==
  ASSUME MarkInv, MutedKnown', Muted => Muted', UNCHANGED <<relay, wire, outbox>>, Live' => Live,
         Live' => stage' # "aborting" /\ (Flushed' <=> Flushed),
         Live' => (scan'.verdict = "clean" /\ stage' # "flushing" => outbox = <<>>)
  PROVE  MarkInv'
<1>1. Muted \in BOOLEAN /\ Muted' \in BOOLEAN /\ Flushed \in BOOLEAN /\ Flushed' \in BOOLEAN
  BY DEF Muted, Flushed
<1>2. ASSUME Live' PROVE Marks(relay, wire, outbox, Muted', Flushed')
  <2>1. Marks(relay, wire, outbox, Muted, Flushed) /\ Flushed' = Flushed
    BY <1>1, <1>2 DEF MarkInv
  <2>2. Marks(relay, wire, outbox, Muted', Flushed)
    BY <1>1, <2>1, MarksMuted
  <2> QED
    BY <2>1, <2>2
<1>3. Live' => Marks(relay', wire', outbox', Muted', Flushed')
  BY <1>2
<1> QED
  BY <1>3 DEF MarkInv

\* Every step keeps what a stream that is not cut owes its client.
LEMMA MarkStep ==
  ASSUME StreamTypeOK, FlowInv, MarkInv, [Next]_vars
  PROVE  MarkInv'
<1>m. MutedKnown' /\ (Muted => Muted') /\ Muted \in BOOLEAN /\ Muted' \in BOOLEAN
  BY MutedStep DEF MarkInv
<1>t. relay \in Relay /\ wire \in Seq(Frame) /\ outbox \in Seq(Frame)
  BY DEF StreamTypeOK
<1>f. Flushed \in BOOLEAN /\ Flushed' \in BOOLEAN
  BY DEF Flushed
<1>1. CASE RejectBody \/ Rejected
  <2>1. /\ scan' = scan /\ gone' = gone /\ UNCHANGED <<relay, wire, outbox>>
        /\ stage \in {"guard", "rejecting"} /\ stage' \in {"rejecting", "returned"}
    BY <1>1 DEF RejectBody, Rejected, Leave, scannerVars
  <2>2. Live => scan.verdict = "running" /\ outbox = <<>>
    BY <2>1 DEF Live, FlowInv, ScanInv
  <2>3. Live' = Live /\ (Live' => Flushed' = Flushed)
    BY <2>1, <2>2 DEF Live, Flushed
  <2> QED
    BY <1>m, <2>1, <2>2, <2>3, MarksStay
<1>2. CASE AcceptBody
  <2>1. scan' = scan /\ gone' = gone /\ stage = "guard" /\ stage' = "relaying" /\ UNCHANGED <<relay, wire, outbox>>
    BY <1>2 DEF AcceptBody, StartScan
  <2>2. Live' = Live /\ Flushed' = Flushed
    BY <2>1 DEF Live, Flushed
  <2> QED
    BY <1>m, <2>1, <2>2, MarksStay DEF MarkInv
<1>3. CASE Upstream \/ ClientLeaves \/ Disconnected \/ UNCHANGED vars \/ (Scan /\ (ReaderStep \/ TakeProgress \/ Tick))
  <2>1. UNCHANGED <<scan, stage, relay, wire, outbox>> /\ (gone => gone')
    BY <1>3 DEF Upstream, BodyRead, ClientLeaves, Disconnected, CancelContext, vars, scannerVars, streamVars,
       Scan, ReaderStep, BodyFails, PassLine, ReaderLeaves, ReaderEnds, TakeProgress, Tick
  <2>2. (Live' => Live) /\ Flushed' = Flushed
    BY <2>1 DEF Live, Flushed
  <2> QED
    BY <1>m, <2>1, <2>2, MarksStay DEF MarkInv
<1>4. CASE RelayLine
  <2>1. /\ scan.at = "select" /\ reader.at # "unborn" /\ scan'.verdict = scan.verdict
        /\ relay' = Noted(relay, Head(lines)) /\ outbox' = ProcessLine(relay, Head(lines))
        /\ UNCHANGED <<stage, gone, wire>> /\ lines # <<>>
    BY <1>4 DEF RelayLine, TakeLine, Selecting, LineReady, Call, StreamTypeOK, ScannerTypeOK
  <2>2. Head(lines) \in LineKind /\ (Head(lines) = "muted" => Muted)
    <3>1. Head(lines) = lines[1] /\ 1 \in DOMAIN lines /\ Head(lines) \in Payload
      BY <2>1 DEF StreamTypeOK, ScannerTypeOK
    <3> QED
      BY <3>1, StreamConstants DEF MarkInv, MutedKnown
  <2>3. SUFFICES ASSUME Live'
                 PROVE  /\ stage' # "aborting"
                        /\ scan'.verdict = "clean" /\ stage' # "flushing" => outbox' = <<>>
                        /\ Marks(relay', wire', outbox', Muted', Flushed')
    BY <1>m DEF MarkInv
  <2>4. Live /\ Flushed' = Flushed /\ scan'.verdict # "clean"
    BY <2>1, <2>3 DEF Live, Flushed, FlowInv, ScanInv
  <2>5. ~Flushed /\ Marks(relay, wire, <<>>, Muted, FALSE)
    BY <2>1, <2>4, MarksCall
  <2>6. Marks(Noted(relay, Head(lines)), wire, ProcessLine(relay, Head(lines)), Muted, FALSE)
    BY <1>m, <1>t, <2>2, <2>5, MarksLine
  <2>7. Marks(relay', wire', outbox', Muted', FALSE)
    BY <1>m, <2>1, <2>6, MarksMuted
  <2>8. Flushed' = FALSE
    BY <1>f, <2>4, <2>5
  <2> QED
    BY <2>1, <2>4, <2>7, <2>8 DEF MarkInv
<1>5. CASE RelayTail
  <2>1. /\ scan.at = "select" /\ reader.at # "unborn" /\ scan'.verdict = scan.verdict
        /\ outbox' = ProcessTail(relay, Head(tails))
        /\ UNCHANGED <<relay, stage, gone, wire>> /\ tails # <<>>
    BY <1>5 DEF RelayTail, TakeTail, Selecting, Call, StreamTypeOK, ScannerTypeOK
  <2>2. Head(tails) \in TailKind
    BY <2>1, StreamConstants DEF StreamTypeOK, ScannerTypeOK
  <2>3. SUFFICES ASSUME Live'
                 PROVE  /\ stage' # "aborting"
                        /\ scan'.verdict = "clean" /\ stage' # "flushing" => outbox' = <<>>
                        /\ Marks(relay', wire', outbox', Muted', Flushed')
    BY <1>m DEF MarkInv
  <2>4. Live /\ Flushed' = Flushed /\ scan'.verdict # "clean"
    BY <2>1, <2>3 DEF Live, Flushed, FlowInv, ScanInv
  <2>5. ~Flushed /\ Marks(relay, wire, <<>>, Muted, FALSE)
    BY <2>1, <2>4, MarksCall
  <2>6. Marks(relay, wire, ProcessTail(relay, Head(tails)), Muted, FALSE)
    BY <1>m, <1>t, <2>2, <2>5, MarksTail
  <2>7. Marks(relay', wire', outbox', Muted', FALSE)
    BY <1>m, <2>1, <2>6, MarksMuted
  <2>8. Flushed' = FALSE
    BY <1>f, <2>4, <2>5
  <2> QED
    BY <2>1, <2>4, <2>7, <2>8 DEF MarkInv
<1>6. CASE Write
  <2>1. /\ outbox # <<>> /\ wire' = Append(wire, Head(outbox)) /\ outbox' = Tail(outbox)
        /\ relay' = (IF stage = "aborting" THEN relay ELSE Wrote(relay, Head(outbox)))
        /\ UNCHANGED <<scan, stage, gone, sent>>
    BY <1>6 DEF Write, scannerVars, history
  <2>2. Live' = Live /\ Flushed' = Flushed /\ Muted' = Muted
    BY <2>1 DEF Live, Flushed, Muted
  <2>3. SUFFICES ASSUME Live
                 PROVE  /\ stage' # "aborting"
                        /\ scan'.verdict = "clean" /\ stage' # "flushing" => outbox' = <<>>
                        /\ Marks(relay', wire', outbox', Muted', Flushed')
    BY <1>m, <2>2 DEF MarkInv
  <2>4. /\ stage # "aborting" /\ Marks(relay, wire, outbox, Muted, Flushed)
        /\ scan.verdict = "clean" => stage = "flushing"
    BY <2>1, <2>3 DEF MarkInv
  <2>5. Marks(Wrote(relay, Head(outbox)), Append(wire, Head(outbox)), Tail(outbox), Muted, Flushed)
    BY <1>m, <1>f, <1>t, <2>1, <2>4, MarksWritten
  <2> QED
    BY <2>1, <2>2, <2>4, <2>5
<1>7. CASE WriteFails
  <2>1. ~Live'
    BY <1>7 DEF WriteFails, Live
  <2> QED
    BY <1>m, <2>1 DEF MarkInv
<1>8. CASE Relayed \/ (Scan /\ (ScanEnds \/ TimerFires \/ SeesCanceled))
  <2>1. CASE Relayed /\ scan.at = "fn"
    <3>1. scan'.verdict = scan.verdict /\ UNCHANGED <<stage, gone, relay, wire, outbox>>
      BY <2>1 DEF Relayed, CallReturns, streamVars, StreamTypeOK, ScannerTypeOK
    <3>2. Live' = Live /\ Flushed' = Flushed
      BY <3>1 DEF Live, Flushed
    <3> QED
      BY <1>m, <3>1, <3>2, MarksStay DEF MarkInv
  <2>2. CASE ~(Relayed /\ scan.at = "fn")
    <3>1. /\ UNCHANGED <<stage, gone, relay, wire, outbox>>
          /\ scan.at # "returned" /\ (scan.at = "select" => reader.at # "unborn")
          /\ scan.at # "select" => outbox = <<>>
      BY <1>8, <2>2 DEF Relayed, CallReturns, ScanEnds, Drained, TimerFires, SeesCanceled, Selecting, streamVars, Scan
    <3>2. scan.verdict = "running" /\ outbox = <<>> /\ stage = "relaying"
      BY <3>1 DEF FlowInv, ScanInv
    <3>3. (Live' => Live) /\ Flushed' = FALSE /\ Flushed = FALSE
      BY <3>1, <3>2 DEF Live, Flushed
    <3> QED
      BY <1>m, <3>1, <3>2, <3>3, MarksStay
  <2> QED
    BY <2>1, <2>2
<1>9. CASE Abort
  <2>1. ~Live'
    BY <1>9 DEF Abort, Live, FlowInv, ScanInv, scannerVars
  <2> QED
    BY <1>m, <2>1 DEF MarkInv
<1>10. CASE FlushRelay
  <2>1. /\ scan.verdict = "clean" /\ stage = "relaying" /\ stage' = "flushing" /\ outbox' = Flush(relay)
        /\ UNCHANGED <<scan, relay, gone, wire, sent>>
    BY <1>10 DEF FlushRelay, scannerVars, history
  <2>2. Live' = Live /\ Flushed' = TRUE /\ Flushed = FALSE /\ Muted' = Muted
    BY <2>1 DEF Live, Flushed, Muted
  <2>3. ASSUME Live PROVE Marks(relay', wire', outbox', Muted', TRUE)
    <3>1. outbox = <<>> /\ Marks(relay, wire, outbox, Muted, Flushed)
      BY <2>1, <2>3 DEF MarkInv
    <3>2. Marks(relay, wire, <<>>, Muted, FALSE)
      BY <2>2, <3>1
    <3>3. Marks(relay, wire, Flush(relay), Muted, TRUE)
      BY <1>m, <1>t, <3>2, MarksFlush
    <3> QED
      BY <2>1, <2>2, <3>3
  <2> QED
    BY <1>m, <2>1, <2>2, <2>3 DEF MarkInv
<1>11. CASE Finish
  <2>1. /\ stage \in {"aborting", "flushing"} /\ outbox = <<>> /\ stage' = "returned"
        /\ UNCHANGED <<scan, relay, gone, wire, outbox>>
    BY <1>11 DEF Finish, Leave
  <2>2. Live' = Live
    BY <2>1 DEF Live
  <2>3. Live' => Flushed' = Flushed
    BY <2>1, <2>2 DEF MarkInv, Flushed
  <2> QED
    BY <1>m, <2>1, <2>2, <2>3, MarksStay
<1> QED
  BY <1>1, <1>2, <1>3, <1>4, <1>5, <1>6, <1>7, <1>8, <1>9, <1>10, <1>11 DEF Next, Handler, Scan, ConsumerSteps

\* A frame that is at one place of the wire counts once.
LEMMA CountOne ==
  ASSUME NEW f, NEW k \in DOMAIN wire, \A i \in DOMAIN wire : wire[i] = f <=> i = k
  PROVE  Count(f) = 1
<1>1. {i \in DOMAIN wire : wire[i] = f} = {k}
  OBVIOUS
<1> QED
  BY <1>1, FS_Singleton DEF Count

\* One that is nowhere does not count.
LEMMA CountNone ==
  ASSUME NEW f, \A i \in DOMAIN wire : wire[i] # f
  PROVE  Count(f) = 0
<1>1. {i \in DOMAIN wire : wire[i] = f} = {}
  OBVIOUS
<1> QED
  BY <1>1, FS_EmptySet DEF Count

\* A place before another is not the last.
LEMMA Between ==
  ASSUME NEW n \in Nat, NEW k \in 1 .. n, NEW i \in 1 .. k - 1
  PROVE  i \in 1 .. n /\ i + 1 \in 1 .. n /\ i # n
OBVIOUS

\* Where nothing is left to write, the wire has the ending that was promised.
LEMMA MarksConclude ==
  ASSUME StreamTypeOK, FlowInv, MarkInv, Served
  PROVE  IF relay.format = "chat"
         THEN Last(wire) = "sentinel" /\ Count("sentinel") = 1 /\ Count("failure") = 0
         ELSE ResponsesEnding
<1>1. Live /\ Flushed = TRUE /\ outbox = <<>>
  BY DEF Served, Live, Flushed, MarkInv
<1>2. Marks(relay, wire, <<>>, Muted, TRUE)
  BY <1>1 DEF MarkInv
<1>t. wire \in Seq(Frame) /\ Len(wire) \in Nat /\ DOMAIN wire = 1 .. Len(wire)
  BY DEF StreamTypeOK
<1>n. <<>> # <<"sentinel">> /\ \A s : <<>> # <<s>>
  OBVIOUS
<1>3. CASE relay.format = "chat"
  <2>1. PICK v \in Seq(Frame) : Plain(v) /\ wire = Append(v, "sentinel")
    BY <1>2, <1>3, <1>n DEF Marks, ChatMarks
  <2>2. /\ Len(wire) \in DOMAIN wire /\ wire[Len(wire)] = "sentinel"
        /\ \A i \in DOMAIN wire : i # Len(wire) => i \in DOMAIN v /\ wire[i] = v[i]
    BY <1>t, <2>1
  <2>3. \A i \in DOMAIN wire : wire[i] # "failure" /\ (wire[i] = "sentinel" <=> i = Len(wire))
    BY <2>1, <2>2 DEF Plain
  <2>4. Count("sentinel") = 1
    BY <2>2, <2>3, CountOne
  <2>5. Count("failure") = 0
    BY <2>3, CountNone
  <2>6. Last(wire) = "sentinel"
    BY <2>2 DEF Last
  <2> QED
    BY <1>3, <2>4, <2>5, <2>6
<1>4. CASE relay.format # "chat"
  <2>1. ResponsesMarks(relay, wire, <<>>, Muted, TRUE)
    BY <1>2, <1>4 DEF Marks
  <2>2. OneMark(wire) /\ EndedBefore(wire, Muted) /\ FailureThenMark(wire, <<>>) /\ FailureAlone(wire)
    BY <2>1 DEF ResponsesMarks, EndsOf
  <2>3. PICK k \in DOMAIN wire : wire[k] \in EndMark
    BY <2>1 DEF ResponsesMarks, FlagsOf
  <2>4. \A i \in DOMAIN wire : wire[i] \in EndMark <=> i = k
    BY <2>2, <2>3 DEF OneMark
  <2>5. Sentinels = 1
    <3>1. "done" # "sentinel" /\ (wire[k] = "done" \/ wire[k] = "sentinel") /\ {"done", "sentinel"} = EndMark
      BY <2>3 DEF EndMark
    <3>2. CASE wire[k] = "done"
      <4>1. \A i \in DOMAIN wire : wire[i] # "sentinel"
        BY <2>4, <3>1, <3>2 DEF EndMark
      <4>2. \A i \in DOMAIN wire : wire[i] = "done" <=> i = k
        BY <2>4, <3>2 DEF EndMark
      <4>3. Count("done") = 1 /\ Count("sentinel") = 0
        BY <4>1, <4>2, CountOne, CountNone
      <4> QED
        BY <4>3 DEF Sentinels
    <3>3. CASE wire[k] = "sentinel"
      <4>1. \A i \in DOMAIN wire : wire[i] # "done"
        BY <2>4, <3>1, <3>3 DEF EndMark
      <4>2. \A i \in DOMAIN wire : wire[i] = "sentinel" <=> i = k
        BY <2>4, <3>3 DEF EndMark
      <4>3. Count("done") = 0 /\ Count("sentinel") = 1
        BY <4>1, <4>2, CountOne, CountNone
      <4> QED
        BY <4>3 DEF Sentinels
    <3> QED
      BY <3>1, <3>2, <3>3
  <2>6. (CHOOSE i \in DOMAIN wire : wire[i] \in EndMark) = k
    BY <2>3, <2>4
  <2> DEFINE before == {wire[i] : i \in 1 .. k - 1}
  <2>7. ~({"failure", "terminal"} \subseteq before)
    <3>1. SUFFICES ASSUME "failure" \in before, "terminal" \in before PROVE FALSE
      OBVIOUS
    <3>2. PICK i \in 1 .. k - 1 : wire[i] = "failure"
      BY <3>1
    <3>3. PICK j \in 1 .. k - 1 : wire[j] = "terminal"
      BY <3>1
    <3>4. i \in DOMAIN wire /\ j \in DOMAIN wire /\ i + 1 \in DOMAIN wire /\ i # Len(wire)
      <4>1. k \in 1 .. Len(wire)
        BY <1>t, <2>3
      <4>2. i \in 1 .. Len(wire) /\ j \in 1 .. Len(wire) /\ i + 1 \in 1 .. Len(wire) /\ i # Len(wire)
        BY <1>t, <4>1, Between
      <4> QED
        BY <1>t, <4>2
    <3>5. i + 1 = k
      BY <2>2, <2>4, <3>2, <3>4 DEF FailureThenMark
    <3>6. i <= j
      BY <2>2, <3>2, <3>3, <3>4 DEF FailureAlone
    <3> QED
      BY <1>t, <2>3, <3>2, <3>3, <3>5, <3>6
  <2>8. {"failure", "terminal"} \cap before = {} => \E i \in DOMAIN sent : sent[i] = "muted"
    <3>1. Muted \/ \E j \in 1 .. k - 1 : wire[j] \in {"terminal", "failure"}
      BY <2>2, <2>3 DEF EndedBefore
    <3>2. (\E j \in 1 .. k - 1 : wire[j] \in {"terminal", "failure"}) => {"failure", "terminal"} \cap before # {}
      OBVIOUS
    <3> QED
      BY <3>1, <3>2 DEF Muted
  <2>9. Count("failure") <= 1
    <3>1. CASE \E j \in DOMAIN wire : wire[j] = "failure"
      <4>1. PICK j \in DOMAIN wire : wire[j] = "failure"
        BY <3>1
      <4>2. \A i \in DOMAIN wire : wire[i] = "failure" <=> i = j
        <5> SUFFICES ASSUME NEW i \in DOMAIN wire, wire[i] = "failure" PROVE i = j
          BY <4>1
        <5>1. i <= j /\ j <= i
          BY <2>2, <4>1 DEF FailureAlone
        <5> QED
          BY <1>t, <5>1
      <4>3. Count("failure") = 1
        BY <4>2, CountOne
      <4> QED
        BY <4>3
    <3>2. CASE ~(\E j \in DOMAIN wire : wire[j] = "failure")
      <4>1. Count("failure") = 0
        BY <3>2, CountNone
      <4> QED
        BY <4>1
    <3> QED
      BY <3>1, <3>2
  <2>10. ResponsesEnding
    BY <2>5, <2>6, <2>7, <2>8, <2>9 DEF ResponsesEnding
  <2> QED
    BY <1>4, <2>10
<1> QED
  BY <1>3, <1>4

\* A stream that ends cleanly for a client that is there is marked once: a
\* chat client reads one sentinel of the relay's, last; a Responses client one
\* sentinel with what it ends ahead of it, a terminal event or one synthesized
\* failure and never both (passthrough.go: the [DONE] line, the [DONE] tail and
\* Flush, each after the flags the earlier writes left).
THEOREM CleanEndCorrect == Spec => []CleanEndIsMarkedOnce
<1>1. Init => MarkInv
  <2> SUFFICES ASSUME Init PROVE MarkInv
    OBVIOUS
  <2>1. MutedKnown
    BY DEF Init, ScannerInit, MutedKnown
  <2>2. Flushed = FALSE /\ stage # "aborting" /\ outbox = <<>> /\ wire = <<>>
    BY DEF Init, ScannerInit, Flushed
  <2>3. ~relay.terminalSeen /\ ~relay.doneSent
    BY DEF Init, NewRelay
  <2>4. DOMAIN <<>> = {}
    OBVIOUS
  <2>5. ChatMarks(<<>>, <<>>, FALSE)
    BY <2>4 DEF ChatMarks, Plain
  <2>6. ResponsesMarks(relay, <<>>, <<>>, Muted, FALSE)
    <3>1. Owed(relay, <<>>)
      BY DEF Owed
    <3>2. FlagsOf(relay, <<>>, <<>>, Muted)
      BY <2>3, <2>4 DEF FlagsOf
    <3>3. EndsOf(<<>>, <<>>, Muted)
      BY <2>4 DEF EndsOf, OneMark, EndedBefore, FailureThenMark, FailureAlone
    <3> QED
      BY <3>1, <3>2, <3>3 DEF ResponsesMarks
  <2> QED
    BY <2>1, <2>2, <2>5, <2>6 DEF MarkInv, Marks
<1>2. StreamTypeOK /\ FlowInv /\ MarkInv /\ [Next]_vars => MarkInv'
  BY MarkStep
<1>3. StreamTypeOK /\ FlowInv /\ MarkInv => CleanEndIsMarkedOnce
  BY MarksConclude DEF CleanEndIsMarkedOnce
<1> QED
  BY <1>1, <1>2, <1>3, FlowInvariant, StreamTypeCorrect, PTL DEF Spec
=============================================================================
