------------------------------ MODULE Executor ------------------------------
(***************************************************************************)
(* upstream.Executor.ExecuteObserved driving Client.DoClassifiedObserved:  *)
(* the walk of one request over its plan of egresses.  An entry is skipped *)
(* or dialed; a dial is retried on the same egress by the retry matrix, or *)
(* ends the attempt; a failed attempt frees its slot, may mark health, and *)
(* either stops or falls back.  The client may vanish at any moment.       *)
(*                                                                         *)
(* What the network answers, whether a slot is free and whether a transport*)
(* can be built are the environment's choices.                             *)
(***************************************************************************)
EXTENDS Evidence, FiniteSets

CONSTANTS
    Egress,
    Nobody,     \* no egress
    Plans,      \* the scheduler's plans a request may be given
    Budgets     \* configured max_attempts

ASSUME EgressFinite == IsFiniteSet(Egress) /\ Nobody \notin Egress
\* routing.Plan never lists an egress twice.
ASSUME PlansInjective ==
    /\ Plans \subseteq Seq(Egress)
    /\ \A p \in Plans : \A j, k \in DOMAIN p : p[j] = p[k] => j = k
ASSUME BudgetsTyped == Budgets \subseteq Nat

VARIABLES
    plan, policy,   \* the request's own, fixed at its start
    pc,             \* "plan", "ready", "verdict", "classified", "draining",
                    \* "body", "failed" or "done"
    next,           \* index of the plan entry to look at
    attempts,
    used,           \* retry draws on the current egress
    verdict, class, \* of the latest dial
    last,           \* class of the latest failed attempt (lastClass with lastErr)
    startRow, terminalRow, rec,
    ctxDone,        \* the downstream context is canceled
    slots,          \* egresses whose slot this request holds
    failures,       \* egresses it observed as failing
    result,
    dials, lateDials, lateMarks   \* history: per egress, and since cancellation

path == <<plan, policy, next, attempts>>
dialing == <<used, verdict, class>>
evidence == <<startRow, terminalRow, rec>>
history == <<dials, lateDials, lateMarks>>
execVars == <<path, pc, dialing, last, evidence, ctxDone, slots, failures, result, history>>

-----------------------------------------------------------------------------
(* Verdicts and their classes. *)

Nothing == "nothing"
Synthetic == "synthetic"

NetErrors == {"connection", "timeout", "proxy_auth"}
Statuses == {"200", "400", "429", "500", "502", "503", "504"}

\* config.RetryRules; an unlisted status has no retry.
RetryRules == [s \in Statuses |-> CASE s = "502" -> 3 [] s = "503" -> 3
                                    [] s = "504" -> 2 [] OTHER -> 0]

\* Transport failures ride the 502 rule.
RuleOf(v) == IF v \in NetErrors THEN RetryRules["502"] ELSE RetryRules[v]

Classes == NetErrors \cup {"canceled", "success", "429", "5xx", "4xx"}

\* classifyNetErrFor and classifyStatusFor: a dead context wins over any
\* transport error, and over no status.
Classified(v) ==
    CASE v \in NetErrors -> IF ctxDone THEN "canceled" ELSE v
      [] v = "200" -> "success"
      [] v = "429" -> "429"
      [] v \in {"500", "502", "503", "504"} -> "5xx"
      [] OTHER -> "4xx"

MarksHealth == {"connection", "proxy_auth", "timeout", "5xx"}

FallbackAllowed_Canceled == MarksHealth \cup {"429", "canceled"}
FallbackAllowed == MarksHealth \cup {"429"}

Budget == IF policy.fallback /\ policy.max >= 1 THEN policy.max ELSE 1

-----------------------------------------------------------------------------
ExecInit ==
    /\ plan \in Plans
    /\ policy \in [fallback : BOOLEAN, max : Budgets]
    /\ pc = "plan" /\ next = 1 /\ attempts = 0
    /\ used = 0 /\ verdict = Nothing /\ class = Nothing
    /\ last = Nothing
    /\ startRow = 0 /\ terminalRow = 0 /\ rec = NewRecorder
    /\ ctxDone \in BOOLEAN
    /\ slots = {} /\ failures = {}
    /\ result = [class |-> Nothing, egress |-> Nobody]
    /\ dials = [e \in Egress |-> 0] /\ lateDials = 0 /\ lateMarks = 0

Current == plan[next]

\* The client disconnects, or the server's shutdown cancels its context.
Cancel ==
    /\ ~ctxDone
    /\ pc # "done"
    /\ ctxDone' = TRUE
    /\ UNCHANGED <<path, pc, dialing, last, evidence, slots, failures, result, history>>

-----------------------------------------------------------------------------
(* The walk over the plan. *)

\* Unknown egress, transport that cannot be built, or slot taken since the
\* plan was made: never a failure.  Without fallback it ends the walk.
Skip ==
    /\ pc = "plan" /\ next \in DOMAIN plan
    /\ rec' = Recorded(rec, SkipRow(Current))
    /\ next' = IF policy.fallback THEN next + 1 ELSE Len(plan) + 1
    /\ UNCHANGED <<plan, policy, attempts, pc, dialing, last, startRow, terminalRow,
                   ctxDone, slots, failures, result, history>>

\* The slot is ours: a fresh Client attempt begins.
StartAttempt ==
    /\ pc = "plan" /\ next \in DOMAIN plan
    /\ slots' = slots \cup {Current}
    /\ attempts' = attempts + 1
    /\ startRow' = Len(rec.rows)
    /\ used' = 0
    /\ pc' = "ready"
    /\ UNCHANGED <<plan, policy, next, verdict, class, last, terminalRow, rec,
                   ctxDone, failures, result, history>>

Exhausted_Synthesizes ==
    /\ pc = "plan" /\ next \notin DOMAIN plan
    /\ result' = [class |-> Synthetic, egress |-> Nobody]
    /\ pc' = "done"
    /\ UNCHANGED <<path, dialing, last, evidence, ctxDone, slots, failures, history>>

Exhausted_NeedsVerdict ==
    /\ pc = "plan" /\ next \notin DOMAIN plan
    /\ last # Nothing
    /\ result' = [class |-> last, egress |-> Nobody]
    /\ rec' = Corrected(rec, terminalRow)
    /\ pc' = "done"
    /\ UNCHANGED <<path, dialing, last, startRow, terminalRow, ctxDone, slots, failures, history>>

\* The plan is exhausted: the last real verdict, whose row did not fall back
\* after all, or the synthetic 502 of a request that never dialed.
Exhausted ==
    /\ pc = "plan" /\ next \notin DOMAIN plan
    /\ result' = [class |-> IF attempts = 0 THEN Synthetic ELSE last, egress |-> Nobody]
    /\ rec' = IF attempts = 0 THEN rec ELSE Corrected(rec, terminalRow)
    /\ pc' = "done"
    /\ UNCHANGED <<path, dialing, last, startRow, terminalRow, ctxDone, slots, failures, history>>

-----------------------------------------------------------------------------
(* One dial and the retry matrix. *)

\* A dead context can only yield a transport error.
Dial(v) ==
    /\ pc = "ready"
    /\ ctxDone => v \in NetErrors
    /\ verdict' = v
    /\ dials' = [dials EXCEPT ![Current] = @ + 1]
    /\ lateDials' = lateDials + (IF ctxDone THEN 1 ELSE 0)
    /\ pc' = "verdict"
    /\ UNCHANGED <<path, used, class, last, evidence, ctxDone, slots, failures, result, lateMarks>>

\* The class reads the context here; tryRetry reads it again below.
Classify ==
    /\ pc = "verdict"
    /\ class' = Classified(verdict)
    /\ pc' = "classified"
    /\ UNCHANGED <<path, used, verdict, last, evidence, ctxDone, slots, failures, result, history>>

\* Every rule draws on one counter; proxy_auth never draws.
MayRetry ==
    /\ class # "proxy_auth"
    /\ ~ctxDone
    /\ used < RuleOf(verdict)

Retry ==
    /\ pc = "classified" /\ class # "success"
    /\ MayRetry
    /\ used' = used + 1
    /\ rec' = Recorded(rec, DialRow(TRUE, Nobody))
    /\ pc' = IF verdict \in NetErrors THEN "ready" ELSE "draining"
    /\ UNCHANGED <<path, verdict, class, last, startRow, terminalRow, ctxDone, slots,
                   failures, result, history>>

\* drainAndClose of the response that is retried: its body ends, reaches the
\* byte cap, or is cut by the context.
Drained ==
    /\ pc = "draining"
    /\ pc' = "ready"
    /\ UNCHANGED <<path, dialing, last, evidence, ctxDone, slots, failures, result, history>>

-----------------------------------------------------------------------------
(* The end of an attempt. *)

Stops == class \notin FallbackAllowed \/ attempts >= Budget

\* The failed dial's row, its identity, then the decisions just made.
AttemptRows ==
    Stamped(Identified(Recorded(rec, DialRow(FALSE, Nobody)), startRow, Current), startRow,
            IF class \in MarksHealth THEN "marked" ELSE "neutral",
            IF Stops THEN "stop" ELSE "fallback")

\* The verdict is final; a response still has the body the client is shown.
GiveUp ==
    /\ pc = "classified" /\ class # "success" /\ ~MayRetry
    /\ pc' = IF verdict \in NetErrors THEN "failed" ELSE "body"
    /\ UNCHANGED <<path, dialing, last, evidence, ctxDone, slots, failures, result, history>>

\* io.ReadAll of the error body, up to the byte cap.
ErrorBodyEnds ==
    /\ pc = "body"
    /\ pc' = "failed"
    /\ UNCHANGED <<path, dialing, last, evidence, ctxDone, slots, failures, result, history>>

\* Slot freed, health told, then stop or fall back.
FailAttempt ==
    /\ pc = "failed"
    /\ rec' = AttemptRows
    /\ last' = class
    /\ slots' = slots \ {Current}
    /\ failures' = IF class \in MarksHealth THEN failures \cup {Current} ELSE failures
    /\ lateMarks' = lateMarks + (IF ctxDone /\ class \in MarksHealth THEN 1 ELSE 0)
    /\ IF Stops
       THEN /\ pc' = "done"
            /\ result' = [class |-> class, egress |-> Current]
            /\ UNCHANGED <<next, terminalRow>>
       ELSE /\ pc' = "plan"
            /\ next' = next + 1
            /\ terminalRow' = StampedRow(rec', startRow)
            /\ UNCHANGED result
    /\ UNCHANGED <<plan, policy, attempts, dialing, startRow, ctxDone, dials, lateDials>>

\* A live response: rows are for failures, the slot goes with the body.
Succeed ==
    /\ pc = "classified" /\ class = "success"
    /\ rec' = Identified(rec, startRow, Current)
    /\ result' = [class |-> class, egress |-> Current]
    /\ pc' = "done"
    /\ UNCHANGED <<path, dialing, last, startRow, terminalRow, ctxDone, slots, failures, history>>

ExecStep ==
    \/ Skip \/ StartAttempt \/ Exhausted
    \/ \E v \in NetErrors \cup Statuses : Dial(v)
    \/ Classify \/ Retry \/ Drained \/ GiveUp \/ ErrorBodyEnds \/ FailAttempt \/ Succeed

ExecNext == ExecStep \/ Cancel

ExecSpec == ExecInit /\ [][ExecNext]_execVars

\* Three waits end only when the upstream lets them, for they have a byte cap
\* at most: a dial (Attempt), the drain before a retry, the error body.
Waits == {"ready", "draining", "body"}

\* The request's goroutine keeps moving elsewhere (the delay of a retry is
\* fixed), and out of every wait once its context is done.
ExecFairSpec ==
    /\ ExecSpec
    /\ WF_execVars(pc \notin Waits /\ ExecStep)
    /\ WF_execVars(ctxDone /\ ExecStep)

-----------------------------------------------------------------------------
(* Properties. *)

InAttempt == pc \in {"ready", "verdict", "classified", "draining", "body", "failed"}

\* The types of the walk: in an attempt the walk is at an entry of its plan.
ExecTypeOK ==
    /\ plan \in Plans
    /\ policy \in [fallback : BOOLEAN, max : Budgets]
    /\ pc \in {"plan", "done"} \/ InAttempt
    /\ next \in 1..(Len(plan) + 1)
    /\ InAttempt => next \in DOMAIN plan
    /\ attempts \in Nat /\ used \in 0..3
    /\ verdict \in {Nothing} \cup NetErrors \cup Statuses
    /\ class \in {Nothing} \cup Classes
    /\ last \in {Nothing} \cup (Classes \ {"success"})
    /\ rec.dropped \in Nat /\ Len(rec.rows) <= MaxRows
    /\ startRow \in 0..Len(rec.rows) /\ terminalRow \in 0..Len(rec.rows)
    /\ slots \subseteq Egress /\ failures \subseteq Egress
    /\ result.class \in {Nothing, Synthetic} \cup Classes

Dialed == {e \in Egress : dials[e] > 0}

\* client.go, fallback.go: no request dials more egresses than its budget,
\* or one egress more often than the retry matrix allows; one it charged with
\* a failure is never tried again.
DialsWithinBudget ==
    /\ Cardinality(Dialed) <= Budget
    /\ \A e \in Egress : dials[e] <= 4
    /\ failures \cap slots = {}

\* client.go: an egress that refused our credentials is not dialed again: the
\* next dial, if any, is the first of another egress.
ProxyAuthIsTerminal ==
    [][\A e \in Egress : class = "proxy_auth" /\ dials'[e] # dials[e] => dials[e] = 0]_execVars

\* failure.go, tryRetry: once the client is gone at most one more dial is
\* begun and at most one egress is charged for it.
CanceledRequestStops == lateDials <= 1 /\ lateMarks <= 1

\* fallback.go: a finished request holds a slot only through the live
\* response it returned, and never two.
SlotFollowsResponse ==
    /\ pc = "done" => slots = IF result.class = "success" THEN {result.egress} ELSE {}
    /\ Cardinality(slots) <= 1

DialRows == {k \in DOMAIN rec.rows : rec.rows[k].phase = "dial"}

\* fallback.go, evidence.go: with no row dropped, a finished request's rows
\* tell its story: each dial is attributed to the egress dialed, retried rows
\* say so, "fallback" only where another egress was dialed afterwards, "stop"
\* exactly at the failed request's last dial.
EvidenceTellsTheStory ==
    pc = "done" /\ rec.dropped = 0 =>
        \A k \in DialRows :
            LET row == rec.rows[k]
                later == {j \in DialRows : j > k}
                served == result.class = "success"
            IN  /\ row.egress \in Dialed
                /\ row.retry = IF row.retried THEN "retry_same_egress"
                               ELSE IF later = {} /\ ~served THEN "stop" ELSE "fallback"
                /\ row.retry # "retry_same_egress" =>
                       /\ \A j \in later : rec.rows[j].egress # row.egress
                       /\ row.health = "marked" <=> row.egress \in failures

\* The request gets an answer, whatever the network answers and whoever goes
\* away, but for one whose client stays while its upstream neither answers
\* nor ends a body (client.go: no timer runs while a request is written or a
\* rejected body is read).
ExecTerminates == <>(pc = "done") \/ <>[](pc \in Waits /\ ~ctxDone)

-----------------------------------------------------------------------------
(* Refinement: an attempt counts as tried once its verdict is final. *)

Tried == Dialed \ (IF InAttempt THEN {Current} ELSE {})
Left == Budget - attempts + (IF InAttempt THEN 1 ELSE 0)

Promise == INSTANCE Dispatch WITH
    Class <- Classes,
    MayMove <- FallbackAllowed,
    left <- Left,
    tried <- Tried,
    last <- IF result.class = "success" THEN "success" ELSE last,
    outcome <- result.class

\* fallback.go: the walk, with its retries, skips and cancellation, is a
\* dispatch over distinct egresses that returns the last real verdict.
ImplementsDispatch == Promise!Spec
=============================================================================
