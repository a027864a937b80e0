----------------------------- MODULE ForcedRead -----------------------------
(***************************************************************************)
(* readBoundedSSE: a goroutine reads the body and passes every read on     *)
(* through a channel of one place; the handler collects the reads under a  *)
(* size cap, a stall timer and the request's context.                      *)
(*                                                                         *)
(* A read is a sequence of messages and perhaps the end of the body; a     *)
(* message counts as one towards the cap.  Time passes in ticks, when      *)
(* nobody can run.                                                         *)
(***************************************************************************)
EXTENDS Naturals, Sequences

CONSTANTS
    MaxBytes,     \* the size cap
    Window        \* ticks of the stall deadline

ASSUME ForcedReadConstants == MaxBytes \in Nat /\ Window \in Nat \ {0}

VARIABLES
    rd,         \* the goroutine: where it is, the read it holds
    chunks,     \* the channel
    out,        \* what the handler has collected
    waited,     \* ticks since the timer was reset
    verdict,    \* what readBoundedSSE returned
    ctxDone,    \* the request's context is done
    bodyClosed, \* the deferred Close ran
    body        \* history: all that was read

readVars == <<rd, chunks, out, waited, verdict, ctxDone, bodyClosed, body>>

Ends == {"no", "eof", "error"}
NoRead == [data |-> <<>>, end |-> "no"]

ReadInit ==
    /\ rd = [at |-> "unborn", holds |-> NoRead]
    /\ chunks = <<>> /\ out = <<>> /\ body = <<>>
    /\ waited = 0
    /\ verdict = "reading"
    /\ ctxDone = FALSE /\ bodyClosed = FALSE

StartRead ==
    /\ rd.at = "unborn"
    /\ rd' = [rd EXCEPT !.at = "reading"]
    /\ UNCHANGED <<chunks, out, waited, verdict, ctxDone, bodyClosed, body>>

-----------------------------------------------------------------------------
(* The goroutine. *)

ReadReturns(data, end) ==
    /\ rd.at = "reading" /\ ~bodyClosed
    /\ data # <<>> \/ end # "no"
    /\ rd' = [at |-> "passing", holds |-> [data |-> data, end |-> end]]
    /\ body' = body \o data
    /\ UNCHANGED <<chunks, out, waited, verdict, ctxDone, bodyClosed>>

\* A read of a closed body or under a dead context fails.
ReadFails ==
    /\ rd.at = "reading" /\ (bodyClosed \/ ctxDone)
    /\ rd' = [at |-> "passing", holds |-> [data |-> <<>>, end |-> "error"]]
    /\ UNCHANGED <<chunks, out, waited, verdict, ctxDone, bodyClosed, body>>

Pass ==
    /\ rd.at = "passing" /\ chunks = <<>>
    /\ chunks' = <<rd.holds>>
    /\ rd' = [at |-> IF rd.holds.end = "no" THEN "reading" ELSE "done", holds |-> NoRead]
    /\ UNCHANGED <<out, waited, verdict, ctxDone, bodyClosed, body>>

GoroutineQuits_Deaf == FALSE

\* The select sees done closed, or the context.
GoroutineQuits ==
    /\ rd.at = "passing" /\ (verdict # "reading" \/ ctxDone)
    /\ rd' = [at |-> "done", holds |-> NoRead]
    /\ UNCHANGED <<chunks, out, waited, verdict, ctxDone, bodyClosed, body>>

-----------------------------------------------------------------------------
(* The handler. *)

\* A dead context explains a failed read (forcedAbortReason).
ReadError == IF ctxDone THEN "cancel" ELSE "read"

Fits_Late(data) == Len(out) <= MaxBytes
Fits(data) == Len(out) + Len(data) <= MaxBytes

\* Data first, then the end that came with it.
Collect ==
    /\ verdict = "reading" /\ chunks # <<>>
    /\ chunks' = <<>>
    /\ LET ch == Head(chunks)
           fits == ch.data = <<>> \/ Fits(ch.data)
       IN /\ out' = IF fits THEN out \o ch.data ELSE out
          /\ waited' = IF ch.data = <<>> \/ ~fits THEN waited ELSE 0
          /\ verdict' = IF ~fits THEN "too_large"
                        ELSE CASE ch.end = "eof"   -> "ok"
                               [] ch.end = "error" -> ReadError
                               [] OTHER            -> "reading"
    /\ UNCHANGED <<rd, ctxDone, bodyClosed, body>>

Stalls ==
    /\ verdict = "reading" /\ rd.at # "unborn" /\ waited = Window
    /\ verdict' = "stall"
    /\ UNCHANGED <<rd, chunks, out, waited, ctxDone, bodyClosed, body>>

SeesCancel ==
    /\ verdict = "reading" /\ rd.at # "unborn" /\ ctxDone
    /\ verdict' = "cancel"
    /\ UNCHANGED <<rd, chunks, out, waited, ctxDone, bodyClosed, body>>

\* The handler answers and returns; net/http cancels the context.
HandlerReturns ==
    /\ verdict # "reading" /\ ~bodyClosed
    /\ bodyClosed' = TRUE /\ ctxDone' = TRUE
    /\ UNCHANGED <<rd, chunks, out, waited, verdict, body>>

Idle ==
    /\ rd.at = "reading" /\ ~bodyClosed /\ ~ctxDone
    /\ chunks = <<>> /\ waited < Window

TimePasses ==
    /\ verdict = "reading" /\ Idle
    /\ waited' = waited + 1
    /\ UNCHANGED <<rd, chunks, out, verdict, ctxDone, bodyClosed, body>>

ClientCancels ==
    /\ verdict = "reading" /\ rd.at # "unborn" /\ ~ctxDone
    /\ ctxDone' = TRUE
    /\ UNCHANGED <<rd, chunks, out, waited, verdict, bodyClosed, body>>

Goroutines ==
    ReadFails \/ Pass \/ GoroutineQuits \/ Collect \/ Stalls \/ SeesCancel \/ HandlerReturns \/ TimePasses

-----------------------------------------------------------------------------
(* Properties. *)

Waiting == IF chunks = <<>> THEN <<>> ELSE Head(chunks).data

\* What the handler converts is the whole body, and what it holds never
\* exceeds the cap; as long as nobody gave up, all that was read is held
\* (forced.go: readBoundedSSE, reads that come over a channel in one goroutine
\* and are collected in another).
ReadIsExact ==
    /\ verdict = "ok" => out = body
    /\ Len(out) <= MaxBytes
    /\ verdict = "reading" /\ ~ctxDone => body = out \o Waiting \o rd.holds.data
=============================================================================
