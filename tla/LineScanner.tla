---------------------------- MODULE LineScanner -----------------------------
(***************************************************************************)
(* upstream.ScanLines: a reader goroutine cuts the body into lines and     *)
(* passes them on through channels; the consumer hands them to callbacks,  *)
(* rearms the stall timer on progress and decides how the scan ends.       *)
(*                                                                         *)
(* What a callback does belongs to the caller (module Stream): TakeLine    *)
(* and TakeTail only receive, CallReturns is the way back.                 *)
(*                                                                         *)
(* Time is counted in ticks that pass only when nobody can run: goroutines *)
(* are fast next to a stall window of minutes, clients need not be.        *)
(***************************************************************************)
EXTENDS Naturals, Sequences

CONSTANTS
    Payload,    \* kinds of complete lines
    Residue,    \* kinds of unterminated ends
    LinesCap,   \* capacity of the channel lines
    Stall,      \* ticks of the stall window
    MaxReads,   \* bound: reads that return a line or an end
    LinesPerRead,   \* bound: complete lines in one read
    MaxLines    \* bound: complete lines of the body

ASSUME ScannerConstants ==
    /\ LinesCap \in Nat \ {0} /\ Stall \in Nat \ {0}
    /\ MaxReads \in Nat /\ MaxLines \in Nat /\ LinesPerRead \in Nat

VARIABLES
    reader,    \* the goroutine: where it is, lines cut but not passed on, how the body ended
    pending,   \* an unterminated segment is buffered
    lines, tails, readErr, progress,   \* the channels
    scan,      \* the consumer: where it is, and what ScanLines returned
    idle,      \* ticks since the timer was rearmed
    canceled,  \* the context is done
    closed,    \* the body is closed
    \* history, for the bounds and the properties
    sent,      \* complete lines of the body so far
    reads,     \* reads so far, less those of a trickle
    silence,   \* ticks since bytes arrived, as it stood when the timer fired
    held       \* ticks spent in the last callback

channels == <<lines, tails, readErr, progress>>
history == <<sent, reads, silence, held>>
scannerVars == <<reader, pending, channels, scan, idle, canceled, closed, history>>

Verdict == {"running", "clean", "read_error", "stall", "canceled", "write_error"}

ScannerTypeOK ==
    /\ reader \in [at : {"unborn", "reading", "passing", "done"},
                   carved : Seq(Payload), end : {"no", "eof", "error"}]
    /\ pending \in BOOLEAN
    /\ lines \in Seq(Payload) /\ Len(lines) <= LinesCap
    /\ tails \in Seq(Residue) /\ Len(tails) <= 1
    /\ readErr \in BOOLEAN /\ progress \in BOOLEAN
    /\ scan \in [at : {"select", "fn", "tail", "returned"}, verdict : Verdict]
    /\ idle \in 0 .. Stall /\ silence \in 0 .. Stall /\ held \in 0 .. Stall
    /\ canceled \in BOOLEAN /\ closed \in BOOLEAN
    /\ sent \in Seq(Payload) /\ Len(sent) <= MaxLines
    /\ reads \in 0 .. MaxReads

ScannerInit ==
    /\ reader = [at |-> "unborn", carved |-> <<>>, end |-> "no"]
    /\ pending = FALSE
    /\ lines = <<>> /\ tails = <<>> /\ readErr = FALSE /\ progress = FALSE
    /\ scan = [at |-> "select", verdict |-> "running"]
    /\ idle = 0 /\ silence = 0 /\ held = 0
    /\ canceled = FALSE /\ closed = FALSE
    /\ sent = <<>> /\ reads = 0

Capped(n) == IF n > Stall THEN Stall ELSE n

-----------------------------------------------------------------------------
(* The reader goroutine. *)

\* body.Read returns: complete lines, perhaps an unterminated rest, perhaps
\* the end of the body with them.  Bytes are progress whatever they complete,
\* and only a line takes a rest away.  Bytes that complete nothing may go on
\* coming for ever, as long as nobody cuts them off.
Trickle(new, end) == new = <<>> /\ end = "no" /\ ~canceled

BodyRead(new, rest, end) ==
    /\ reader.at = "reading" /\ ~closed
    /\ reads < MaxReads \/ Trickle(new, end)
    /\ Len(sent) + Len(new) <= MaxLines
    /\ new = <<>> => (pending => rest)
    /\ \/ /\ new # <<>> \/ rest
          /\ progress' = TRUE /\ silence' = IF idle = Stall THEN silence ELSE 0
       \/ /\ new = <<>> /\ rest = pending /\ end # "no"
          /\ UNCHANGED <<progress, silence>>
    /\ reader' = [at |-> IF new = <<>> /\ end = "no" THEN "reading" ELSE "passing",
                  carved |-> new, end |-> end]
    /\ pending' = rest
    /\ sent' = sent \o new
    /\ reads' = IF Trickle(new, end) THEN reads ELSE reads + 1
    /\ UNCHANGED <<lines, tails, readErr, scan, idle, canceled, closed, held>>

\* A body that is closed, or whose context is done, fails.
BodyFails ==
    /\ reader.at = "reading" /\ (closed \/ canceled)
    /\ reader' = [reader EXCEPT !.at = "passing", !.end = "error"]
    /\ UNCHANGED <<pending, channels, scan, idle, canceled, closed, history>>

PassLine ==
    /\ reader.at = "passing" /\ reader.carved # <<>> /\ Len(lines) < LinesCap
    /\ lines' = Append(lines, Head(reader.carved))
    /\ reader' = [reader EXCEPT !.carved = Tail(@),
                                !.at = IF Len(reader.carved) = 1 /\ reader.end = "no"
                                       THEN "reading" ELSE "passing"]
    /\ UNCHANGED <<pending, tails, readErr, progress, scan, idle, canceled, closed, history>>

ReaderLeaves_Never == FALSE

\* Either select of the reader may find the context done: it leaves, and
\* says nothing of why.
ReaderLeaves ==
    /\ reader.at = "passing" /\ canceled
    /\ reader.carved # <<>> \/ (reader.end = "eof" /\ pending)
    /\ reader' = [reader EXCEPT !.at = "done"]
    /\ UNCHANGED <<pending, channels, scan, idle, canceled, closed, history>>

PutTail_OnError ==
    /\ reader.at = "passing" /\ reader.carved = <<>>
    /\ IF pending THEN \E t \in Residue : tails' = <<t>> ELSE UNCHANGED tails
    /\ readErr' = (reader.end = "error")

\* What the end of the body leaves in the channels.
PutTail ==
    /\ reader.at = "passing" /\ reader.carved = <<>>
    /\ IF reader.end = "eof" /\ pending
          THEN \E t \in Residue : tails' = <<t>>
          ELSE UNCHANGED tails
    /\ readErr' = (reader.end = "error")

\* The unterminated rest survives only a clean end.  Leaving closes both
\* channels.
ReaderEnds ==
    /\ PutTail
    /\ reader' = [reader EXCEPT !.at = "done"]
    /\ UNCHANGED <<pending, lines, progress, scan, idle, canceled, closed, history>>

ReaderStep == BodyFails \/ PassLine \/ ReaderLeaves \/ ReaderEnds

-----------------------------------------------------------------------------
(* The consumer.  Go's select picks at random among the ready cases.  *)

Selecting == scan.at = "select" /\ reader.at # "unborn"

\* The deferred Stop of the timer runs with it.
Return(verdict) ==
    /\ scan' = [at |-> "returned", verdict |-> verdict]
    /\ idle' = 0 /\ silence' = 0 /\ held' = 0

LineReady == lines # <<>>
LinesClosed == lines = <<>> /\ reader.at = "done"

\* A callback begins.
Call(at) ==
    /\ scan' = [scan EXCEPT !.at = at]
    /\ held' = 0

TakeLine ==
    /\ Selecting /\ LineReady
    /\ Call("fn")
    /\ lines' = Tail(lines)
    /\ idle' = 0
    /\ UNCHANGED <<reader, pending, tails, readErr, progress, canceled, closed, sent, reads, silence>>

TakeTail ==
    /\ Selecting /\ LinesClosed /\ tails # <<>>
    /\ Call("tail")
    /\ tails' = <<>>
    /\ UNCHANGED <<reader, pending, lines, readErr, progress, idle, canceled, closed, sent, reads, silence>>

Drained == Selecting /\ LinesClosed /\ tails = <<>>

Outcome == IF readErr THEN "read_error" ELSE "clean"

\* Nothing is left in any channel but, perhaps, the error.
ScanEnds ==
    /\ Drained
    /\ Return(Outcome)
    /\ UNCHANGED <<reader, pending, channels, canceled, closed, sent, reads>>

Rearmed_LinesOnly == idle

Rearmed == 0

TakeProgress ==
    /\ Selecting /\ progress
    /\ progress' = FALSE
    /\ idle' = Rearmed
    /\ UNCHANGED <<reader, pending, lines, tails, readErr, scan, canceled, closed, history>>

TimerFires ==
    /\ Selecting /\ idle = Stall
    /\ Return("stall")
    /\ UNCHANGED <<reader, pending, channels, canceled, closed, sent, reads>>

SeesCanceled ==
    /\ Selecting /\ canceled
    /\ Return("canceled")
    /\ UNCHANGED <<reader, pending, channels, canceled, closed, sent, reads>>

\* A callback returned: an error is the caller's verdict, a line goes back
\* to the select, the tail is the last thing delivered.
CallReturns(ok) ==
    /\ scan.at \in {"fn", "tail"}
    /\ IF ok /\ scan.at = "fn"
       THEN /\ scan' = [scan EXCEPT !.at = "select"]
            /\ UNCHANGED <<idle, silence, held>>
       ELSE Return(IF ok THEN Outcome ELSE "write_error")
    /\ UNCHANGED <<reader, pending, channels, canceled, closed, sent, reads>>

ConsumerSteps == ScanEnds \/ TakeProgress \/ TimerFires \/ SeesCanceled

-----------------------------------------------------------------------------
(* Time and the context. *)

ReaderCanRun ==
    \/ reader.at = "passing" /\ (reader.carved = <<>> \/ Len(lines) < LinesCap \/ canceled)
    \/ reader.at = "reading" /\ (closed \/ canceled)

ConsumerCanRun == Selecting /\ (LineReady \/ LinesClosed \/ progress \/ idle = Stall \/ canceled)

\* A tick passes while the consumer waits for the upstream or, in a
\* callback, for the client.
Tick ==
    /\ scan.at # "returned" /\ reader.at # "unborn"
    /\ ~ReaderCanRun /\ ~ConsumerCanRun
    /\ idle' = Capped(idle + 1) /\ silence' = IF idle = Stall THEN silence ELSE Capped(silence + 1)
    /\ held' = IF scan.at = "select" THEN held ELSE Capped(held + 1)
    /\ UNCHANGED <<reader, pending, channels, scan, canceled, closed, sent, reads>>

StartScan ==
    /\ reader.at = "unborn"
    /\ reader' = [reader EXCEPT !.at = "reading"]
    /\ UNCHANGED <<pending, channels, scan, idle, canceled, closed, history>>

CancelContext ==
    /\ ~canceled /\ canceled' = TRUE
    /\ UNCHANGED <<reader, pending, channels, scan, idle, closed, history>>

-----------------------------------------------------------------------------
\* A scan calls a stream stalled only when no byte came for the whole window,
\* or when the client kept one callback waiting for the whole window.  (With
\* a slow client the fired timer can win the select against lines that wait.)
StallNamesTheCulprit ==
    [][scan'.verdict = "stall" /\ scan.verdict # "stall" => silence = Stall \/ held = Stall]_scannerVars
=============================================================================
