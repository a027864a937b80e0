-------------------------- MODULE PassthroughRelay --------------------------
(***************************************************************************)
(* relay.PassthroughRelay: what the relay writes for one upstream line,    *)
(* for the unterminated end of a body, and when the stream ends.           *)
(*                                                                         *)
(* A relay is the pair of flags the code keeps.  Operators give the frames *)
(* a call writes, in order, and the flags a call sets before it writes;    *)
(* a flag that follows a successful write is set by Wrote.                 *)
(***************************************************************************)
EXTENDS Sequences

Format == {"chat", "responses"}

\* Lines by what ProcessLine tells apart:
\*   raw       not a data line, or JSON that is not an object
\*   chunk     an object that carries something for the client
\*   terminal  such an object that ends a Responses stream
\*   noise     unparsable, null, choices that throw, nothing of value
\*   muted     a terminal object that is dropped for want of value
\*   done      the [DONE] sentinel
LineKind == {"raw", "chunk", "terminal", "noise", "muted", "done"}

\* The unterminated end of a body: the sentinel, or anything else.
TailKind == {"tail", "done"}

\* What reaches the client: lines of the upstream, and what the relay adds.
Frame == {"raw", "chunk", "terminal", "done", "tail", "failure", "sentinel"}

Relay == [format : Format, terminalSeen : BOOLEAN, doneSent : BOOLEAN]

NewRelay(f) == [format |-> f, terminalSeen |-> FALSE, doneSent |-> FALSE]

\* A terminal event is noted before the filters decide about it.
Noted(r, line) ==
    IF line \in {"terminal", "muted"} THEN [r EXCEPT !.terminalSeen = TRUE] ELSE r

\* A Responses client gets a failure unless it had a terminal, then the
\* sentinel unless it had that.
Ending_AlwaysSentinel(r, sentinel) ==
    (IF r.terminalSeen THEN <<>> ELSE <<"failure">>) \o <<sentinel>>

Ending(r, sentinel) ==
    (IF r.terminalSeen THEN <<>> ELSE <<"failure">>)
        \o (IF r.doneSent THEN <<>> ELSE <<sentinel>>)

ProcessLine(r, line) ==
    CASE line \in {"noise", "muted"}                -> <<>>
      [] line = "done" /\ r.format = "responses"    -> Ending(r, "done")
      [] OTHER                                      -> <<line>>

\* The tail is neither parsed nor terminated.
ProcessTail(r, tail) ==
    IF tail = "done" /\ r.format = "responses" THEN Ending(r, "sentinel") ELSE <<tail>>

Flush_SentinelOnly(r) == IF r.format = "responses" /\ r.doneSent THEN <<>> ELSE <<"sentinel">>

\* A chat client gets a sentinel whatever it was sent before.
Flush(r) == IF r.format = "responses" THEN Ending(r, "sentinel") ELSE <<"sentinel">>

\* The flags after a write that succeeded.
Wrote(r, frame) ==
    [r EXCEPT !.terminalSeen = @ \/ frame = "failure",
              !.doneSent = @ \/ (r.format = "responses" /\ frame \in {"done", "sentinel"})]
=============================================================================
