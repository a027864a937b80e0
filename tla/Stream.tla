------------------------------- MODULE Stream -------------------------------
(***************************************************************************)
(* Server.stream with its passthrough relay and its scanner: one live      *)
(* response, from its headers to the return of the handler, against an     *)
(* upstream that may fail, fall silent or end anywhere and a client that   *)
(* may be slow or leave.  Formats that differ use the translate relay,     *)
(* which is not part of this module.                                       *)
(***************************************************************************)
EXTENDS LineScanner, PassthroughRelay, Filtering, FiniteSets, SequencesExt

ASSUME StreamConstants == Payload \subseteq LineKind /\ Residue \subseteq TailKind

VARIABLES
    relay,     \* the relay's flags
    outbox,    \* frames the current call has still to write
    stage,     \* where stream() is
    row,       \* reason of the evidence row
    gone,      \* the client has left
    wire,      \* frames handed to the client's connection
    rest       \* history: kind of the tail delivered to the relay, if any

streamVars == <<relay, outbox, stage, row, gone, wire, rest>>
vars == <<scannerVars, streamVars>>

Stage == {"guard", "rejecting", "relaying", "aborting", "flushing", "returned"}
Row == {"none", "non_sse_body", "client_disconnect", "stall", "read_error"}

StreamTypeOK ==
    /\ ScannerTypeOK
    /\ relay \in Relay
    /\ outbox \in Seq(Frame) /\ wire \in Seq(Frame)
    /\ stage \in Stage /\ row \in Row
    /\ gone \in BOOLEAN
    /\ rest \in Residue \cup {"no"}

Init ==
    /\ ScannerInit
    /\ \E f \in Format : relay = NewRelay(f)
    /\ outbox = <<>> /\ wire = <<>>
    /\ stage = "guard" /\ row = "none"
    /\ gone = FALSE /\ rest = "no"

-----------------------------------------------------------------------------
(* The non-SSE guard. *)

\* The deferred calls of the handler, and net/http's cancellation of the
\* request's context when it returns.
Leave ==
    /\ stage' = "returned"
    /\ closed' = TRUE /\ canceled' = TRUE

\* io.ReadAll of a body that is neither SSE nor JSON: it has a byte cap and no
\* stall timer.
RejectBody ==
    /\ stage = "guard"
    /\ stage' = "rejecting"
    /\ UNCHANGED <<scannerVars, relay, outbox, row, gone, wire, rest>>

\* The body ended, failed or reached the cap.  The short error that follows
\* waits for no client: it fits the buffer of the connection.
Rejected ==
    /\ stage = "rejecting"
    /\ row' = "non_sse_body"
    /\ Leave
    /\ UNCHANGED <<reader, pending, channels, scan, idle, history, relay, outbox, gone, wire, rest>>

AcceptBody ==
    /\ stage = "guard"
    /\ stage' = "relaying"
    /\ StartScan
    /\ UNCHANGED <<relay, outbox, row, gone, wire, rest>>

-----------------------------------------------------------------------------
(* The upstream and the client. *)

Upstream ==
    /\ \E n \in 0 .. LinesPerRead : \E new \in [1 .. n -> Payload], more \in BOOLEAN, end \in {"no", "eof", "error"} :
          BodyRead(new, more, end)
    /\ UNCHANGED streamVars

ClientLeaves ==
    /\ ~gone /\ stage # "returned"
    /\ gone' = TRUE
    /\ UNCHANGED <<scannerVars, relay, outbox, stage, row, wire, rest>>

\* The server notices at some point.
Disconnected ==
    /\ gone /\ CancelContext
    /\ UNCHANGED streamVars

-----------------------------------------------------------------------------
(* Relaying. *)

RelayLine ==
    /\ TakeLine
    /\ relay' = Noted(relay, Head(lines))
    /\ outbox' = ProcessLine(relay, Head(lines))
    /\ UNCHANGED <<stage, row, gone, wire, rest>>

RelayTail ==
    /\ TakeTail
    /\ rest' = Head(tails)
    /\ outbox' = ProcessTail(relay, Head(tails))
    /\ UNCHANGED <<relay, stage, row, gone, wire>>

\* Writing to a client that left may or may not fail.  The abort path
\* writes past the relay.
Write ==
    /\ outbox # <<>>
    /\ wire' = Append(wire, Head(outbox))
    /\ relay' = IF stage = "aborting" THEN relay ELSE Wrote(relay, Head(outbox))
    /\ outbox' = Tail(outbox)
    /\ UNCHANGED <<scannerVars, stage, row, gone, rest>>

\* The relay stops at a write that fails, the abort path goes on.
WriteFails ==
    /\ outbox # <<>> /\ gone
    /\ outbox' = IF stage = "aborting" THEN Tail(outbox) ELSE <<>>
    /\ IF stage = "relaying" THEN CallReturns(FALSE) ELSE UNCHANGED scannerVars
    /\ UNCHANGED <<relay, stage, row, gone, wire, rest>>

Relayed ==
    /\ outbox = <<>> /\ CallReturns(TRUE)
    /\ UNCHANGED streamVars

Scan ==
    /\ ReaderStep \/ ConsumerSteps \/ Tick
    /\ UNCHANGED streamVars

-----------------------------------------------------------------------------
(* The end of the stream. *)

\* streamAbortReason: a dead context explains every failure, and an error
\* of the client's connection is not told from one of the upstream's.
AbortReason ==
    IF canceled THEN "client_disconnect"
    ELSE IF scan.verdict = "stall" THEN "stall" ELSE "read_error"

\* What a Responses client gets when the scan failed, whatever it had.
Apology(r) ==
    IF r.format = "responses" THEN <<"failure", "sentinel">> ELSE <<>>

Abort ==
    /\ stage = "relaying" /\ scan.at = "returned" /\ scan.verdict # "clean"
    /\ stage' = "aborting"
    /\ row' = AbortReason
    /\ outbox' = Apology(relay)
    /\ UNCHANGED <<scannerVars, relay, gone, wire, rest>>

FlushRelay ==
    /\ stage = "relaying" /\ scan.at = "returned" /\ scan.verdict = "clean"
    /\ stage' = "flushing"
    /\ outbox' = Flush(relay)
    /\ UNCHANGED <<scannerVars, relay, row, gone, wire, rest>>

Finish ==
    /\ stage \in {"aborting", "flushing"} /\ outbox = <<>>
    /\ Leave
    /\ UNCHANGED <<reader, pending, channels, scan, idle, history, relay, outbox, row, gone, wire, rest>>

Handler == RelayLine \/ RelayTail \/ Relayed \/ Abort \/ FlushRelay \/ Finish

Next ==
    \/ RejectBody \/ Rejected \/ AcceptBody
    \/ Upstream \/ ClientLeaves \/ Disconnected
    \/ Write \/ WriteFails
    \/ Scan \/ Handler

Spec == Init /\ [][Next]_vars

(* The goroutines run, time passes, the timer fires, a connection that is   *)
(* gone is noticed and ends every read.  Nothing makes the upstream send,   *)
(* or end a body, or a client read.                                         *)
FairSpec ==
    /\ Spec
    /\ WF_vars(RejectBody \/ AcceptBody) /\ WF_vars(Scan) /\ WF_vars(Handler)
    /\ WF_vars(canceled /\ Rejected)
    /\ WF_vars(Disconnected) /\ WF_vars(gone /\ (Write \/ WriteFails))

-----------------------------------------------------------------------------
(* Properties. *)

\* Frames that carry something of the upstream.
Said == {"raw", "chunk", "terminal"}

Data(s) == Only(s, Said)

Count(frame) == Cardinality({i \in DOMAIN wire : wire[i] = frame})

Served == stage = "returned" /\ scan.verdict = "clean" /\ ~gone

\* The client gets the upstream's data lines in order and without a gap, and
\* all of them, with the unterminated rest, when the stream ends cleanly.
\* The rest of a body that failed is never passed on.
RelayIsFaithful ==
    /\ IsPrefix(Data(wire), Data(sent))
    /\ Served => Data(wire) = Data(sent) /\ (pending <=> rest # "no")
    /\ scan.verdict = "read_error" => rest = "no"

\* The comment at stream: Responses passthrough synthesizes a failure when
\* the stream aborts or stalls before a terminal event.
FailureOnlyWithoutTerminal ==
    \A i, j \in DOMAIN wire : i < j /\ wire[i] = "terminal" => wire[j] # "failure"

EndMark == {"done", "sentinel"}

\* As long as the stream was not aborted, whatever combination of terminal
\* events, [DONE] lines, [DONE] tail and flush it saw: no failure follows a
\* terminal event, and a Responses client has at most one sentinel.
EndMarksAreUnique ==
    row = "none" =>
        /\ FailureOnlyWithoutTerminal
        /\ relay.format = "responses" =>
              \A i, j \in DOMAIN wire : wire[i] \in EndMark /\ wire[j] \in EndMark => i = j

Sentinels == Count("done") + Count("sentinel")

\* What ends a Responses stream: one sentinel, and ahead of it either a
\* terminal event of the upstream or one synthesized failure, never both.
\* Only a terminal event that was filtered out leaves it without either.
ResponsesEnding ==
    /\ Sentinels = 1
    /\ LET at == CHOOSE i \in DOMAIN wire : wire[i] \in EndMark
           before == {wire[i] : i \in 1 .. at - 1}
       IN /\ ~({"failure", "terminal"} \subseteq before)
          /\ {"failure", "terminal"} \cap before = {} => \E i \in DOMAIN sent : sent[i] = "muted"
    /\ Count("failure") <= 1

\* A clean end is marked once: for a chat client by a last sentinel, which
\* is the only one the relay adds, for a Responses client as above.
CleanEndIsMarkedOnce ==
    Served => IF relay.format = "chat"
              THEN Last(wire) = "sentinel" /\ Count("sentinel") = 1 /\ Count("failure") = 0
              ELSE ResponsesEnding

\* The handler returns and takes the reader goroutine with it, whatever
\* silence, failure or departure it meets, but for three things that can go on
\* under a client that stays: a write it does not read, a rejected body that
\* does not end, and an upstream that never stops trickling.
StreamAndReaderEnd ==
    \/ <>(stage = "returned" /\ reader.at \in {"unborn", "done"})
    \/ <>[](outbox # <<>> /\ ~gone)
    \/ <>[](stage = "rejecting" /\ ~gone)
    \/ []<><<Upstream /\ ~gone>>_vars
=============================================================================
