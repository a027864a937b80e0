------------------------------ MODULE Evidence ------------------------------
(***************************************************************************)
(* upstream.Recorder: one request's evidence rows, capped.  Only what the  *)
(* executor's decisions touch is kept of a row; texts, durations, sizes    *)
(* and fingerprints are left out.  A recorder is a value                   *)
(* [rows, dropped]: it has a single writer, the request itself.            *)
(***************************************************************************)
EXTENDS Naturals, Sequences

CONSTANT MaxRows    \* config.EvidenceMaxRows

ASSUME MaxRowsTyped == MaxRows \in Nat

NewRecorder == [rows |-> <<>>, dropped |-> 0]

\* Past the cap a row is only counted.
Recorded(rec, row) ==
    IF Len(rec.rows) >= MaxRows
    THEN [rec EXCEPT !.dropped = @ + 1]
    ELSE [rec EXCEPT !.rows = Append(@, row)]

\* Annotate: the identity of every row recorded since `from` (0-based, as the
\* code's Len() taken before the attempt).
Identified(rec, from, egress) ==
    [rec EXCEPT !.rows =
        [k \in DOMAIN @ |-> IF k > from THEN [@[k] EXCEPT !.egress = egress] ELSE @[k]]]

\* annotateDecision: the row it stamps, 0 when the attempt has no row left.
StampedRow(rec, from) == IF Len(rec.rows) > from THEN Len(rec.rows) ELSE 0

Stamped(rec, from, health, retry) ==
    LET k == StampedRow(rec, from)
    IN  IF k = 0 THEN rec
        ELSE [rec EXCEPT !.rows[k].health = health, !.rows[k].retry = retry]

Corrected_LastRow(rec, k) ==
    IF rec.rows = <<>> THEN rec ELSE [rec EXCEPT !.rows[Len(rec.rows)].retry = "stop"]

\* AnnotateAt, as the post-loop correction uses it.
Corrected(rec, k) ==
    IF k \in DOMAIN rec.rows THEN [rec EXCEPT !.rows[k].retry = "stop"] ELSE rec

SkipRow(egress) ==
    [phase |-> "skip", egress |-> egress, retried |-> FALSE, health |-> "", retry |-> ""]

\* The identity is unknown to the client that records the dial.
DialRow(retried, nobody) ==
    [phase |-> "dial", egress |-> nobody, retried |-> retried, health |-> "",
     retry |-> IF retried THEN "retry_same_egress" ELSE ""]
=============================================================================
