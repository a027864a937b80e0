--------------------------- MODULE ExecutorProofs ----------------------------
(***************************************************************************)
(* Theorems of Executor, for every set of egresses, every plan without     *)
(* repetition, every budget and every cap on the evidence rows.            *)
(***************************************************************************)
EXTENDS Executor, FiniteSetTheorems, SequenceTheorems, TLAPS

\* What the walk needs of its own bookkeeping.
WalkTyped ==
    /\ plan \in Plans /\ policy \in [fallback : BOOLEAN, max : Budgets]
    /\ pc \in {"plan", "done"} \/ InAttempt
    /\ next \in 1..(Len(plan) + 1)
    /\ InAttempt => next \in DOMAIN plan
    /\ attempts \in Nat /\ used \in 0..3
    /\ pc = "verdict" => verdict \in NetErrors \cup Statuses
    /\ pc = "classified" => verdict \in NetErrors \cup Statuses
    /\ pc \in {"body", "failed"} => class # "success"
    /\ dials \in [Egress -> Nat]
    /\ failures \subseteq Egress

\* config.RetryRules: no rule allows more than three retries.
LEMMA RuleTyped ==
  ASSUME NEW v \in NetErrors \cup Statuses PROVE RuleOf(v) \in 0..3
<1>1. \A s \in Statuses : RetryRules[s] \in 0..3
  BY DEF RetryRules, Statuses
<1>2. "502" \in Statuses
  BY DEF Statuses
<1> QED
  BY <1>1, <1>2 DEF RuleOf

\* AttemptPolicy.Budget: whatever the configuration, at least one attempt.
LEMMA BudgetTyped ==
  ASSUME WalkTyped PROVE Budget \in Nat \ {0}
<1>1. policy.max \in Nat
  BY BudgetsTyped DEF WalkTyped
<1>2. CASE policy.fallback /\ policy.max >= 1
  BY <1>1, <1>2 DEF Budget
<1>3. CASE ~(policy.fallback /\ policy.max >= 1)
  BY <1>3 DEF Budget
<1> QED
  BY <1>2, <1>3

\* The entry the walk looks at is an egress of the plan.
LEMMA CurrentTyped ==
  ASSUME WalkTyped, next \in DOMAIN plan PROVE Current \in Egress
  BY PlansInjective DEF WalkTyped, Current

\* Every step of ExecuteObserved and of the client keeps the types of the walk.
LEMMA WalkTypedStep == WalkTyped /\ [ExecNext]_execVars => WalkTyped'
<1> SUFFICES ASSUME WalkTyped, [ExecNext]_execVars PROVE WalkTyped'
  OBVIOUS
<1> USE DEF WalkTyped, InAttempt, path, dialing, evidence, history
<1>0. plan \in Seq(Egress) /\ Len(plan) \in Nat /\ DOMAIN plan = 1..Len(plan)
  BY PlansInjective
<1>1. CASE Cancel
  BY <1>1 DEF Cancel
<1>2. CASE Skip
  BY <1>0, <1>2 DEF Skip
<1>3. CASE StartAttempt
  BY <1>3 DEF StartAttempt
<1>4. CASE Exhausted
  BY <1>4 DEF Exhausted
<1>5. ASSUME NEW v \in NetErrors \cup Statuses, Dial(v) PROVE WalkTyped'
  BY <1>5, CurrentTyped DEF Dial
<1>6. CASE Classify
  BY <1>6 DEF Classify
<1>7. CASE Retry
  <2>1. used + 1 \in 0..3
    BY <1>7, RuleTyped DEF Retry, MayRetry
  <2> QED
    BY <1>7, <2>1 DEF Retry
<1>8. CASE FailAttempt
  BY <1>0, <1>8, CurrentTyped DEF FailAttempt
<1>9. CASE Succeed
  BY <1>9 DEF Succeed
<1>10. CASE UNCHANGED execVars
  BY <1>10 DEF execVars
<1>11. CASE Drained \/ GiveUp \/ ErrorBodyEnds
  BY <1>11 DEF Drained, GiveUp, ErrorBodyEnds
<1> QED
  BY <1>1, <1>2, <1>3, <1>4, <1>5, <1>6, <1>7, <1>8, <1>9, <1>10, <1>11 DEF ExecNext, ExecStep

\* ExecuteObserved: the types of the walk hold throughout.
LEMMA WalkTypedInvariant == ExecSpec => []WalkTyped
<1>1. ExecInit => WalkTyped
  <2> SUFFICES ASSUME ExecInit PROVE WalkTyped
    OBVIOUS
  <2>1. Len(plan) \in Nat
    BY PlansInjective DEF ExecInit
  <2> QED
    BY <2>1 DEF ExecInit, WalkTyped, InAttempt
<1> QED
  BY <1>1, WalkTypedStep, PTL DEF ExecSpec

-----------------------------------------------------------------------------
(* Cancellation. *)

\* A dial begun after cancellation can only end as "canceled", which stops
\* the request; a late charge belongs to the attempt that was under way.
LateInv ==
    /\ lateDials \in 0..1 /\ lateMarks \in 0..1
    /\ lateDials = 1 \/ lateMarks = 1 => ctxDone
    /\ lateDials = 1 => \/ pc = "done"
                        \/ pc = "verdict" /\ verdict \in NetErrors
                        \/ pc \in {"classified", "body", "failed"} /\ class = "canceled"
    /\ lateMarks = 1 /\ pc \in {"verdict", "classified", "draining", "body", "failed"} => lateDials = 1

\* Cancellation: the counts of late dials and marks never pass one.
LEMMA LateStep == LateInv /\ [ExecNext]_execVars => LateInv'
<1> SUFFICES ASSUME LateInv, [ExecNext]_execVars PROVE LateInv'
  OBVIOUS
<1> USE DEF LateInv, path, dialing, evidence, history
<1>1. CASE Cancel
  BY <1>1 DEF Cancel
<1>2. CASE Skip
  BY <1>2 DEF Skip
<1>3. CASE StartAttempt
  BY <1>3 DEF StartAttempt
<1>4. CASE Exhausted
  BY <1>4 DEF Exhausted
<1>5. ASSUME NEW v \in NetErrors \cup Statuses, Dial(v) PROVE LateInv'
  BY <1>5 DEF Dial
<1>6. CASE Classify
  <2>1. verdict \in NetErrors /\ ctxDone => Classified(verdict) = "canceled"
    BY DEF Classified, NetErrors
  <2> QED
    BY <1>6, <2>1 DEF Classify
<1>7. CASE Retry
  BY <1>7 DEF Retry, MayRetry
<1>8. CASE FailAttempt
  <2>1. class = "canceled" => Stops /\ class \notin MarksHealth
    BY DEF Stops, FallbackAllowed, MarksHealth
  <2> QED
    BY <1>8, <2>1 DEF FailAttempt
<1>9. CASE Succeed
  BY <1>9 DEF Succeed
<1>10. CASE UNCHANGED execVars
  BY <1>10 DEF execVars
<1>11. CASE Drained \/ GiveUp \/ ErrorBodyEnds
  BY <1>11 DEF Drained, GiveUp, ErrorBodyEnds
<1> QED
  BY <1>1, <1>2, <1>3, <1>4, <1>5, <1>6, <1>7, <1>8, <1>9, <1>10, <1>11 DEF ExecNext, ExecStep

\* classifyNetErrFor and tryRetry: whatever the network answers and whenever
\* the client leaves, at most one dial is begun afterwards and at most one
\* egress is charged.
THEOREM CancelStopsTheWalk == ExecSpec => []CanceledRequestStops
<1>1. ExecInit => LateInv
  BY DEF ExecInit, LateInv
<1>2. LateInv => CanceledRequestStops
  BY DEF LateInv, CanceledRequestStops
<1> QED
  BY <1>1, <1>2, LateStep, PTL DEF ExecSpec

-----------------------------------------------------------------------------
(* Slots. *)

\* The slot of the current egress during an attempt; the winner's afterwards.
SlotInv ==
    /\ InAttempt => slots = {Current}
    /\ pc = "plan" => slots = {}
    /\ pc = "done" => slots = IF result.class = "success" THEN {result.egress} ELSE {}
    /\ pc # "done" => result.class # "success"
    /\ pc \in {"body", "failed"} => class # "success"
    /\ last # "success"

\* ExecuteObserved: the slot is held exactly from Acquire to Release or to the response.
LEMMA SlotStep == SlotInv /\ [ExecNext]_execVars => SlotInv'
<1> SUFFICES ASSUME SlotInv, [ExecNext]_execVars PROVE SlotInv'
  OBVIOUS
<1> USE DEF SlotInv, InAttempt, Current, path, dialing, evidence, history
<1>1. CASE Cancel
  BY <1>1 DEF Cancel
<1>2. CASE Skip
  BY <1>2 DEF Skip
<1>3. CASE StartAttempt
  BY <1>3 DEF StartAttempt
<1>4. CASE Exhausted
  BY <1>4 DEF Exhausted, Synthetic
<1>5. ASSUME NEW v \in NetErrors \cup Statuses, Dial(v) PROVE SlotInv'
  BY <1>5 DEF Dial
<1>6. CASE Classify
  BY <1>6 DEF Classify
<1>7. CASE Retry
  BY <1>7 DEF Retry
<1>8. CASE FailAttempt
  BY <1>8 DEF FailAttempt
<1>9. CASE Succeed
  BY <1>9 DEF Succeed
<1>10. CASE UNCHANGED execVars
  BY <1>10 DEF execVars
<1>11. CASE Drained \/ GiveUp \/ ErrorBodyEnds
  BY <1>11 DEF Drained, GiveUp, ErrorBodyEnds
<1> QED
  BY <1>1, <1>2, <1>3, <1>4, <1>5, <1>6, <1>7, <1>8, <1>9, <1>10, <1>11 DEF ExecNext, ExecStep

\* fallback.go: a slot is held during the attempt that took it and then only
\* by the live response; every failing path has given it back.
THEOREM SlotsFollowResponses == ExecSpec => []SlotFollowsResponse
<1>1. ExecInit => SlotInv
  BY DEF ExecInit, SlotInv, InAttempt, Nothing
<1>2. WalkTyped /\ SlotInv => SlotFollowsResponse
  <2> SUFFICES ASSUME WalkTyped, SlotInv PROVE SlotFollowsResponse
    OBVIOUS
  <2>1. slots = {} \/ \E e : slots = {e}
    BY DEF WalkTyped, SlotInv, InAttempt
  <2>2. Cardinality(slots) <= 1
    <3>1. CASE slots = {}
      BY <3>1, FS_EmptySet
    <3>2. ASSUME NEW e, slots = {e} PROVE Cardinality(slots) <= 1
      <4>1. Cardinality({e}) = 1
        BY FS_Singleton
      <4> QED
        BY <3>2, <4>1
    <3> QED
      BY <2>1, <3>1, <3>2
  <2> QED
    BY <2>2 DEF SlotInv, SlotFollowsResponse
<1> QED
  BY <1>1, <1>2, SlotStep, WalkTypedInvariant, PTL DEF ExecSpec

-----------------------------------------------------------------------------
(* The budget. *)

\* Where the latest dial of the attempt has its verdict.
Answered == {"verdict", "classified", "body", "failed"}

\* Egresses an attempt has begun on.
Touched == Dialed \cup (IF InAttempt THEN {Current} ELSE {})

\* The plan's remaining entries are untouched, so each attempt touches one
\* more egress; the draws count the dials of the current one.
BudgetInv ==
    /\ \A k \in DOMAIN plan :
          k > next \/ (k = next /\ pc = "plan") => dials[plan[k]] = 0
    /\ pc \in {"ready", "draining"} => dials[Current] = used
    /\ pc \in Answered => dials[Current] = used + 1
    /\ pc \in {"ready", "draining"} => class # "proxy_auth" \/ used = 0
    /\ \A e \in Egress : dials[e] <= 4
    /\ failures \subseteq Dialed
    /\ failures \cap slots = {}
    /\ IsFiniteSet(Touched) /\ Cardinality(Touched) = attempts
    /\ attempts <= Budget
    /\ pc = "plan" => attempts < Budget

\* Outside StartAttempt no step begins on another egress.
LEMMA TouchedKept ==
  ASSUME WalkTyped, ExecStep \/ Cancel \/ UNCHANGED execVars, ~StartAttempt,
         pc \in {"classified", "body", "failed"} => Current \in Dialed
  PROVE  Touched' = Touched
<1> USE DEF Touched, Dialed, InAttempt, Current, path, dialing, evidence, history
<1>1. CASE Cancel
  BY <1>1 DEF Cancel
<1>2. CASE Skip
  BY <1>2 DEF Skip
<1>4. CASE Exhausted
  BY <1>4 DEF Exhausted
<1>5. ASSUME NEW v \in NetErrors \cup Statuses, Dial(v) PROVE Touched' = Touched
  <2>1. Current \in Egress /\ dials[Current] \in Nat /\ dials \in [Egress -> Nat]
    BY <1>5, CurrentTyped DEF WalkTyped, Dial
  <2>2. Dialed' = Dialed \cup {Current}
    BY <1>5, <2>1 DEF Dial
  <2> QED
    BY <1>5, <2>2 DEF Dial
<1>6. CASE Classify
  BY <1>6 DEF Classify
<1>7. CASE Retry
  BY <1>7 DEF Retry
<1>8. CASE FailAttempt
  BY <1>8 DEF FailAttempt
<1>9. CASE Succeed
  BY <1>9 DEF Succeed
<1>10. CASE UNCHANGED execVars
  BY <1>10 DEF execVars
<1>11. CASE Drained \/ GiveUp \/ ErrorBodyEnds
  BY <1>11 DEF Drained, GiveUp, ErrorBodyEnds
<1> QED
  BY <1>1, <1>2, <1>4, <1>5, <1>6, <1>7, <1>8, <1>9, <1>10, <1>11 DEF ExecStep


\* StartAttempt reaches a plan entry never reached before.
LEMMA StartTouches ==
  ASSUME WalkTyped, BudgetInv, StartAttempt
  PROVE  BudgetInv'
<1> USE DEF BudgetInv, Answered, InAttempt, path, dialing, evidence, history, StartAttempt
<1>1. Current \in Egress /\ dials[Current] = 0 /\ Current \notin Dialed
  BY CurrentTyped DEF WalkTyped, Current, Dialed
<1>2. Current' = Current /\ Dialed' = Dialed
  BY DEF Current, Dialed
<1>3. Touched' = Touched \cup {Current} /\ Current \notin Touched
  BY <1>1, <1>2 DEF Touched
<1>4. Cardinality(Touched \cup {Current}) = attempts + 1 /\ IsFiniteSet(Touched \cup {Current})
  BY <1>3, FS_AddElement
<1>5. Budget' = Budget /\ Budget \in Nat
  BY BudgetTyped DEF Budget
<1>6. attempts' = attempts + 1 /\ attempts' <= Budget'
  BY <1>5 DEF WalkTyped
<1>7. IsFiniteSet(Touched') /\ Cardinality(Touched') = attempts'
  BY <1>3, <1>4, <1>6
<1>8. failures' \subseteq Dialed' /\ failures' \cap slots' = {}
  BY <1>1, <1>2
<1> QED
  BY <1>1, <1>2, <1>6, <1>7, <1>8

\* The conjuncts about sets and counts, for every step but StartAttempt.
LEMMA CountsKept ==
  ASSUME WalkTyped, BudgetInv, [ExecNext]_execVars, ~StartAttempt
  PROVE  /\ IsFiniteSet(Touched') /\ Cardinality(Touched') = attempts'
         /\ attempts' <= Budget'
         /\ pc' = "plan" => attempts' < Budget'
<1>1. ExecStep \/ Cancel \/ UNCHANGED execVars
  BY DEF ExecNext
<1>2. pc \in {"classified", "body", "failed"} => Current \in Dialed
  BY CurrentTyped DEF BudgetInv, Answered, Dialed, WalkTyped, InAttempt
<1>3. Touched' = Touched
  BY <1>1, <1>2, TouchedKept
<1>4. attempts' = attempts /\ policy' = policy
  BY <1>1 DEF ExecStep, Cancel, Skip, Exhausted, Dial, Classify, Retry, Drained, GiveUp, ErrorBodyEnds,
              FailAttempt, Succeed, execVars, path
<1>5. Budget' = Budget
  BY <1>4 DEF Budget
<1>6. pc' = "plan" => attempts < Budget
  <2>1. CASE FailAttempt
    BY <2>1, BudgetTyped DEF FailAttempt, Stops, WalkTyped
  <2>2. CASE ~FailAttempt
    BY <1>1, <2>2 DEF ExecStep, Cancel, Skip, Exhausted, Dial, Classify, Retry, Drained, GiveUp,
                      ErrorBodyEnds, Succeed, execVars, BudgetInv
  <2> QED
    BY <2>1, <2>2
<1> QED
  BY <1>3, <1>4, <1>5, <1>6 DEF BudgetInv

\* The conjuncts about single egresses.
DialsInv ==
    /\ \A k \in DOMAIN plan :
          k > next \/ (k = next /\ pc = "plan") => dials[plan[k]] = 0
    /\ pc \in {"ready", "draining"} => dials[Current] = used
    /\ pc \in Answered => dials[Current] = used + 1
    /\ pc \in {"ready", "draining"} => class # "proxy_auth" \/ used = 0
    /\ \A e \in Egress : dials[e] <= 4
    /\ failures \subseteq Dialed
    /\ failures \cap slots = {}

\* Outside StartAttempt no egress is dialed more often than tryRetry allows.
LEMMA DialsKept ==
  ASSUME WalkTyped, DialsInv, [ExecNext]_execVars, ~StartAttempt
  PROVE  DialsInv'
<1> USE DEF DialsInv, Answered, InAttempt, Current, Dialed, path, dialing, evidence, history
<1>0. /\ plan \in Seq(Egress) /\ Len(plan) \in Nat /\ DOMAIN plan = 1..Len(plan)
      /\ \A j, k \in DOMAIN plan : plan[j] = plan[k] => j = k
  BY PlansInjective DEF WalkTyped
<1>1. CASE Cancel
  BY <1>1 DEF Cancel
<1>2. CASE Skip
  BY <1>0, <1>2 DEF Skip, WalkTyped
<1>4. CASE Exhausted
  BY <1>4 DEF Exhausted
<1>5. ASSUME NEW v \in NetErrors \cup Statuses, Dial(v) PROVE DialsInv'
  <2>1. /\ Current \in Egress /\ next \in DOMAIN plan /\ UNCHANGED <<plan, next, used, failures>>
        /\ dials' = [dials EXCEPT ![plan[next]] = @ + 1] /\ pc' = "verdict"
        /\ dials[plan[next]] = used /\ used \in 0..3 /\ next \in Nat
    BY <1>5, CurrentTyped DEF Dial, WalkTyped
  <2>2. \A k \in DOMAIN plan : k > next => dials'[plan[k]] = 0
    BY <1>0, <2>1 DEF WalkTyped
  <2>3. dials'[plan[next]] = used + 1 /\ \A e \in Egress : dials'[e] <= 4
    BY <2>1 DEF WalkTyped
  <2>4. failures' \subseteq Dialed'
    BY <2>1 DEF WalkTyped
  <2>5. failures' \cap slots' = {}
    BY <1>5 DEF Dial
  <2> QED
    BY <2>1, <2>2, <2>3, <2>4, <2>5
<1>6. CASE Classify
  BY <1>6 DEF Classify
<1>7. CASE Retry
  BY <1>7 DEF Retry, MayRetry
<1>8. CASE FailAttempt
  <2>1. next \in DOMAIN plan /\ plan[next] \in Egress /\ dials[plan[next]] > 0
    BY <1>8, CurrentTyped DEF FailAttempt, WalkTyped
  <2>2. failures' \subseteq Dialed'
    BY <1>8, <2>1 DEF FailAttempt
  <2>3. failures' \cap slots' = {}
    BY <1>8 DEF FailAttempt
  <2> QED
    BY <1>0, <1>8, <2>2, <2>3 DEF FailAttempt, WalkTyped
<1>9. CASE Succeed
  BY <1>9 DEF Succeed
<1>10. CASE UNCHANGED execVars
  BY <1>10 DEF execVars
<1>11. CASE Drained \/ GiveUp \/ ErrorBodyEnds
  BY <1>11 DEF Drained, GiveUp, ErrorBodyEnds
<1> QED
  BY <1>1, <1>2, <1>4, <1>5, <1>6, <1>7, <1>8, <1>9, <1>10, <1>11 DEF ExecNext, ExecStep

\* ExecuteObserved: attempts, egresses reached and dials stay within the budget.
LEMMA BudgetInvariant == ExecSpec => []BudgetInv
<1>1. ExecInit => BudgetInv
  <2> SUFFICES ASSUME ExecInit PROVE BudgetInv
    OBVIOUS
  <2>1. WalkTyped
    <3>1. Len(plan) \in Nat
      BY PlansInjective DEF ExecInit
    <3> QED
      BY <3>1 DEF ExecInit, WalkTyped, InAttempt
  <2>2. \A e \in Egress : dials[e] = 0
    BY DEF ExecInit
  <2>3. Touched = {} /\ Dialed = {}
    BY <2>2 DEF ExecInit, Touched, Dialed, InAttempt
  <2>4. \A k \in DOMAIN plan : plan[k] \in Egress
    BY <2>1, PlansInjective DEF WalkTyped
  <2> QED
    BY <2>1, <2>2, <2>3, <2>4, BudgetTyped, FS_EmptySet DEF ExecInit, BudgetInv, Answered, InAttempt
<1>2. WalkTyped /\ BudgetInv /\ [ExecNext]_execVars => BudgetInv'
  <2> SUFFICES ASSUME WalkTyped, BudgetInv, [ExecNext]_execVars PROVE BudgetInv'
    OBVIOUS
  <2>1. CASE StartAttempt
    BY <2>1, StartTouches
  <2>2. CASE ~StartAttempt
    <3>1. DialsInv
      BY DEF BudgetInv, DialsInv
    <3>2. DialsInv'
      BY <2>2, <3>1, DialsKept
    <3> QED
      BY <2>2, <3>2, CountsKept DEF BudgetInv, DialsInv
  <2> QED
    BY <2>1, <2>2
<1> QED
  BY <1>1, <1>2, WalkTypedInvariant, PTL DEF ExecSpec

\* ExecuteObserved with the retry matrix: never more egresses than the budget,
\* never an egress more often than the largest rule allows, and never back to
\* an egress already charged.
THEOREM BudgetHolds == ExecSpec => []DialsWithinBudget
<1>1. WalkTyped /\ BudgetInv => DialsWithinBudget
  <2> SUFFICES ASSUME WalkTyped, BudgetInv PROVE DialsWithinBudget
    OBVIOUS
  <2>1. Cardinality(Dialed) <= Cardinality(Touched) /\ Cardinality(Dialed) \in Nat
    <3>1. Dialed \subseteq Touched /\ IsFiniteSet(Touched)
      BY DEF Touched, BudgetInv
    <3> QED
      BY <3>1, FS_Subset, FS_CardinalityType
  <2>2. Cardinality(Touched) <= Budget /\ Cardinality(Touched) \in Nat
    BY DEF BudgetInv, WalkTyped
  <2>3. Cardinality(Dialed) <= Budget
    BY <2>1, <2>2, BudgetTyped
  <2>4. (\A e \in Egress : dials[e] <= 4) /\ failures \cap slots = {}
    BY DEF BudgetInv
  <2> QED
    BY <2>3, <2>4 DEF DialsWithinBudget
<1> QED
  BY <1>1, WalkTypedInvariant, BudgetInvariant, PTL

\* DoClassifiedObserved: refused proxy credentials are not offered again: the
\* next dial is the first of another egress.
THEOREM ProxyAuthOneDial == ExecSpec => ProxyAuthIsTerminal
<1>1. WalkTyped /\ BudgetInv /\ [ExecNext]_execVars
      => [\A e \in Egress : class = "proxy_auth" /\ dials'[e] # dials[e] => dials[e] = 0]_execVars
  <2> SUFFICES ASSUME WalkTyped, BudgetInv, [ExecNext]_execVars, NEW e \in Egress,
                      class = "proxy_auth", dials'[e] # dials[e]
               PROVE  dials[e] = 0
    OBVIOUS
  <2>1. PICK v \in NetErrors \cup Statuses : Dial(v)
    BY DEF ExecNext, ExecStep, Cancel, Skip, StartAttempt, Exhausted, Classify, Retry, Drained, GiveUp,
           ErrorBodyEnds, FailAttempt, Succeed, execVars, history
  <2>2. e = Current
    BY <2>1 DEF Dial, WalkTyped
  <2> QED
    BY <2>1, <2>2 DEF Dial, BudgetInv
<1> QED
  BY <1>1, WalkTypedInvariant, BudgetInvariant, PTL DEF ExecSpec, ProxyAuthIsTerminal

-----------------------------------------------------------------------------
(* The walk implements Dispatch. *)

\* The caller has no answer before the end, and the verdicts are verdicts.
AnswerInv ==
    /\ pc # "done" => result.class = Nothing
    /\ pc \in {"classified", "body", "failed"} => class \in Classes
    /\ last # "success"

\* classifyNetErrFor, classifyStatusFor: every verdict has a class.
LEMMA ClassTyped ==
  ASSUME NEW v \in NetErrors \cup Statuses PROVE Classified(v) \in Classes
<1>1. CASE v \in NetErrors
  BY <1>1 DEF Classified, Classes, NetErrors
<1>2. CASE v \in Statuses
  BY <1>2 DEF Classified, Classes, NetErrors, Statuses
<1> QED
  BY <1>1, <1>2

\* ExecuteObserved: what is remembered of the last failure matches what is returned.
LEMMA AnswerStep == WalkTyped /\ AnswerInv /\ [ExecNext]_execVars => AnswerInv'
<1> SUFFICES ASSUME WalkTyped, AnswerInv, [ExecNext]_execVars PROVE AnswerInv'
  OBVIOUS
<1> USE DEF AnswerInv, path, dialing, evidence, history
<1>1. CASE Classify
  BY <1>1, ClassTyped DEF Classify, WalkTyped
<1>2. CASE FailAttempt
  BY <1>2 DEF FailAttempt, WalkTyped
<1>3. CASE ~Classify /\ ~FailAttempt
  BY <1>3 DEF ExecNext, ExecStep, Cancel, Skip, StartAttempt, Exhausted, Dial, Retry, Drained, GiveUp,
                  ErrorBodyEnds, Succeed, execVars
<1> QED
  BY <1>1, <1>2, <1>3

\* The end of an attempt is a Try.
LEMMA AttemptIsTry ==
  ASSUME WalkTyped, BudgetInv, AnswerInv, FailAttempt \/ Succeed
  PROVE  Promise!Try(Current, class)
<1> USE DEF path, dialing, evidence, history
<1>1. pc \in {"classified", "failed"} /\ next \in DOMAIN plan /\ Current \in Egress
  BY CurrentTyped DEF FailAttempt, Succeed, WalkTyped, InAttempt
<1>2. Current \in Dialed
  BY <1>1 DEF BudgetInv, Answered, WalkTyped, Dialed
<1>3. Tried = Dialed \ {Current} /\ Touched = Dialed
  BY <1>1, <1>2 DEF Tried, Touched, InAttempt
<1>4. Left > 0 /\ Left' = Left - 1
  <2>1. attempts <= Budget /\ attempts \in Nat /\ Budget \in Nat
    BY BudgetTyped DEF BudgetInv, WalkTyped
  <2>2. Budget' = Budget
    BY DEF FailAttempt, Succeed, Budget
  <2> QED
    BY <1>1, <2>1, <2>2 DEF FailAttempt, Succeed, Left, InAttempt
<1>5. Dialed' = Dialed
  BY DEF FailAttempt, Succeed, Dialed
<1>6. Tried' = Tried \cup {Current}
  BY <1>2, <1>3, <1>5 DEF FailAttempt, Succeed, Tried, InAttempt
<1>7. result.class = Nothing
  BY <1>1 DEF AnswerInv
<1>8. result'.class \in IF class \in FallbackAllowed THEN {Nothing, class} ELSE {class}
  BY <1>7 DEF FailAttempt, Succeed, Stops
<1>9. (IF result.class = "success" THEN "success" ELSE last)' = class
  BY <1>7 DEF FailAttempt, Succeed, WalkTyped, Nothing
<1>10. Current \notin Tried
  BY <1>3
<1>11. result.class = Promise!Nothing
  BY <1>7 DEF Promise!Nothing, Nothing
<1>12. result'.class \in IF class \in FallbackAllowed THEN {Promise!Nothing, class} ELSE {class}
  BY <1>8 DEF Promise!Nothing, Nothing
<1> QED
  BY <1>4, <1>5, <1>6, <1>9, <1>10, <1>11, <1>12 DEF Promise!Try

\* Running out of plan is giving up.
LEMMA ExhaustedIsGiveUp ==
  ASSUME WalkTyped, BudgetInv, AnswerInv, Exhausted
  PROVE  Promise!GiveUp
<1> USE DEF path, dialing, evidence, history
<1>1. Tried = Touched /\ Tried' = Tried
  BY DEF Exhausted, Tried, Touched, Dialed, InAttempt
<1>2. Tried = {} <=> attempts = 0
  BY <1>1, FS_EmptySet DEF BudgetInv
<1>3. result.class = Nothing /\ result'.class = (IF attempts = 0 THEN Synthetic ELSE last)
  BY DEF Exhausted, AnswerInv
<1>4. Left' = Left /\ last' = last /\ last # "success"
  BY DEF Exhausted, Budget, AnswerInv, Left, InAttempt
<1> QED
  BY <1>1, <1>2, <1>3, <1>4
  DEF Promise!GiveUp, Promise!Nothing, Promise!Synthetic, Nothing, Synthetic

\* Skips, dials, retries and the client's departure are invisible.
LEMMA OtherStutters ==
  ASSUME WalkTyped, BudgetInv, [ExecNext]_execVars, ~FailAttempt, ~Succeed, ~Exhausted
  PROVE  UNCHANGED <<Left, Tried, IF result.class = "success" THEN "success" ELSE last, result.class>>
<1> USE DEF path, dialing, evidence, history
<1>1. UNCHANGED <<policy, last, result>>
  BY DEF ExecNext, ExecStep, Cancel, Skip, StartAttempt, Dial, Classify, Retry, Drained, GiveUp,
         ErrorBodyEnds, execVars
<1>2. Tried' = Tried /\ Left' = Left
  <2>1. CASE StartAttempt
    <3>1. Current \notin Dialed
      BY <2>1 DEF StartAttempt, BudgetInv, Dialed, Current
    <3>2. attempts \in Nat /\ Budget \in Nat /\ Budget' = Budget
      BY <2>1, BudgetTyped DEF StartAttempt, Budget, WalkTyped
    <3> QED
      BY <2>1, <3>1, <3>2 DEF StartAttempt, Tried, Dialed, Current, Left, InAttempt
  <2>2. ASSUME NEW v \in NetErrors \cup Statuses, Dial(v) PROVE Tried' = Tried /\ Left' = Left
    BY <2>2 DEF Dial, Tried, Dialed, Current, WalkTyped, Left, InAttempt, Budget
  <2>3. CASE \/ Cancel \/ Skip \/ Classify \/ Retry \/ Drained \/ GiveUp \/ ErrorBodyEnds
            \/ UNCHANGED execVars
    BY <2>3 DEF Cancel, Skip, Classify, Retry, Drained, GiveUp, ErrorBodyEnds, execVars, Tried, Dialed, Current, Left, InAttempt, Budget
  <2> QED
    BY <2>1, <2>2, <2>3 DEF ExecNext, ExecStep
<1> QED
  BY <1>1, <1>2

\* ExecuteObserved: the walk with its retries, skips, slots and evidence
\* answers its caller as Dispatch says.
THEOREM WalkIsDispatch == ExecSpec => ImplementsDispatch
<1>1. ExecInit => AnswerInv
  BY DEF ExecInit, AnswerInv, Nothing
<1>2. ExecInit => Promise!Init
  <2> SUFFICES ASSUME ExecInit PROVE Promise!Init
    OBVIOUS
  <2>1. Budget \in Nat \ {0}
    <3>1. policy.max \in Nat
      BY BudgetsTyped DEF ExecInit
    <3>2. CASE policy.fallback /\ policy.max >= 1
      BY <3>1, <3>2 DEF Budget
    <3>3. CASE ~(policy.fallback /\ policy.max >= 1)
      BY <3>3 DEF Budget
    <3> QED
      BY <3>2, <3>3
  <2>2. Tried = {} /\ Left \in Nat \ {0}
    BY <2>1 DEF ExecInit, Tried, Dialed, Left, InAttempt
  <2> QED
    BY <2>1, <2>2 DEF ExecInit, Promise!Init, Promise!Nothing, Nothing
<1>3. WalkTyped /\ BudgetInv /\ AnswerInv /\ [ExecNext]_execVars => [Promise!Next]_(Promise!dispatchVars)
  <2> SUFFICES ASSUME WalkTyped, BudgetInv, AnswerInv, [ExecNext]_execVars
               PROVE  [Promise!Next]_(Promise!dispatchVars)
    OBVIOUS
  <2>1. CASE FailAttempt \/ Succeed
    <3>1. Current \in Egress /\ class \in Classes
      BY <2>1, CurrentTyped DEF FailAttempt, Succeed, WalkTyped, InAttempt, AnswerInv
    <3> QED
      BY <2>1, <3>1, AttemptIsTry DEF Promise!Next
  <2>2. CASE Exhausted
    BY <2>2, ExhaustedIsGiveUp DEF Promise!Next
  <2>3. CASE ~FailAttempt /\ ~Succeed /\ ~Exhausted
    BY <2>3, OtherStutters DEF Promise!dispatchVars
  <2> QED
    BY <2>1, <2>2, <2>3
<1> QED
  BY <1>1, <1>2, <1>3, AnswerStep, WalkTypedInvariant, BudgetInvariant, PTL
  DEF ExecSpec, ImplementsDispatch, Promise!Spec

-----------------------------------------------------------------------------
(* The evidence rows. *)

HealthNotes == {"", "marked", "neutral"}

RetryNotes == {"", "retry_same_egress", "fallback", "stop"}

Row == [phase : {"skip", "dial"}, egress : Egress \cup {Nobody}, retried : BOOLEAN,
        health : HealthNotes, retry : RetryNotes]

RowsTyped ==
    /\ rec \in [rows : Seq(Row), dropped : Nat]
    /\ startRow \in 0..Len(rec.rows)

\* Recorded appends a row, or counts it and keeps the others.
LEMMA RecordedKeeps ==
  ASSUME NEW rc \in [rows : Seq(Row), dropped : Nat], NEW row \in Row
  PROVE  /\ Recorded(rc, row) \in [rows : Seq(Row), dropped : Nat]
         /\ Len(rc.rows) \in Nat /\ Len(Recorded(rc, row).rows) \in Nat
         /\ Len(rc.rows) <= Len(Recorded(rc, row).rows)
         /\ Recorded(rc, row).dropped = 0 =>
              /\ rc.dropped = 0
              /\ Len(Recorded(rc, row).rows) = Len(rc.rows) + 1
              /\ \A k \in 1..Len(rc.rows) : Recorded(rc, row).rows[k] = rc.rows[k]
              /\ Recorded(rc, row).rows[Len(rc.rows) + 1] = row
<1> DEFINE r == Recorded(rc, row)
<1>0. rc.rows \in Seq(Row) /\ rc.dropped \in Nat /\ Len(rc.rows) \in Nat
  BY LenProperties
<1>1. CASE Len(rc.rows) >= MaxRows
  <2>1. r = [rc EXCEPT !.dropped = @ + 1]
    BY <1>1 DEF Recorded
  <2>2. r \in [rows : Seq(Row), dropped : Nat] /\ r.rows = rc.rows /\ r.dropped = rc.dropped + 1
    BY <1>0, <2>1
  <2> QED
    BY <1>0, <2>2
<1>2. CASE ~(Len(rc.rows) >= MaxRows)
  <2>1. r = [rc EXCEPT !.rows = Append(@, row)]
    BY <1>2 DEF Recorded
  <2>2. /\ Append(rc.rows, row) \in Seq(Row)
        /\ Len(Append(rc.rows, row)) = Len(rc.rows) + 1
        /\ \A k \in 1..Len(rc.rows) : Append(rc.rows, row)[k] = rc.rows[k]
        /\ Append(rc.rows, row)[Len(rc.rows) + 1] = row
    BY <1>0, AppendProperties
  <2>3. r \in [rows : Seq(Row), dropped : Nat] /\ r.rows = Append(rc.rows, row) /\ r.dropped = rc.dropped
    BY <2>1, <2>2
  <2> QED
    BY <1>0, <2>2, <2>3
<1> QED
  BY <1>1, <1>2

\* Annotate keeps the rows before the attempt and names the egress in the others.
LEMMA IdentifiedKeeps ==
  ASSUME NEW rc \in [rows : Seq(Row), dropped : Nat], NEW from \in Nat, NEW e \in Egress
  PROVE  /\ Identified(rc, from, e) \in [rows : Seq(Row), dropped : Nat]
         /\ Identified(rc, from, e).dropped = rc.dropped
         /\ Len(Identified(rc, from, e).rows) = Len(rc.rows)
         /\ \A k \in 1..Len(rc.rows) : Identified(rc, from, e).rows[k] =
              IF k > from THEN [rc.rows[k] EXCEPT !.egress = e] ELSE rc.rows[k]
<1> DEFINE n == Len(rc.rows)
<1> DEFINE s == [k \in 1..n |-> IF k > from THEN [rc.rows[k] EXCEPT !.egress = e] ELSE rc.rows[k]]
<1>1. rc.rows \in Seq(Row) /\ n \in Nat /\ DOMAIN rc.rows = 1..n /\ \A k \in 1..n : rc.rows[k] \in Row
  BY LenProperties, ElementOfSeq
<1>2. \A row \in Row : [row EXCEPT !.egress = e] \in Row
  BY DEF Row
<1>3. \A k \in 1..n : s[k] \in Row
  BY <1>1, <1>2
<1>4. s \in Seq(Row) /\ Len(s) = n
  <2>1. s \in [1..n -> Row]
    BY <1>3
  <2> HIDE DEF s
  <2> QED
    BY <1>1, <2>1
<1>5. Identified(rc, from, e) = [rc EXCEPT !.rows = s]
  BY <1>1 DEF Identified
<1>6. [rc EXCEPT !.rows = s] \in [rows : Seq(Row), dropped : Nat]
      /\ [rc EXCEPT !.rows = s].rows = s /\ [rc EXCEPT !.rows = s].dropped = rc.dropped
  <2> HIDE DEF s
  <2> QED
    BY <1>4
<1> QED
  BY <1>1, <1>4, <1>5, <1>6

Decided(row, h, y) == [row EXCEPT !.health = h, !.retry = y]

\* annotateDecision stamps the last row of the attempt.
LEMMA StampedKeeps ==
  ASSUME NEW rc \in [rows : Seq(Row), dropped : Nat], NEW from \in Nat,
         NEW h \in HealthNotes, NEW y \in RetryNotes
  PROVE  /\ Stamped(rc, from, h, y) \in [rows : Seq(Row), dropped : Nat]
         /\ Stamped(rc, from, h, y).dropped = rc.dropped
         /\ Len(Stamped(rc, from, h, y).rows) = Len(rc.rows)
         /\ Len(rc.rows) > from => \A k \in 1..Len(rc.rows) : Stamped(rc, from, h, y).rows[k] =
              IF k = Len(rc.rows) THEN Decided(rc.rows[k], h, y) ELSE rc.rows[k]
<1> DEFINE n == Len(rc.rows)
<1>1. rc.rows \in Seq(Row) /\ n \in Nat /\ DOMAIN rc.rows = 1..n /\ \A k \in 1..n : rc.rows[k] \in Row
  BY LenProperties, ElementOfSeq
<1>2. CASE ~(n > from)
  <2>1. Stamped(rc, from, h, y) = rc
    BY <1>2 DEF Stamped, StampedRow
  <2> QED
    BY <1>2, <2>1
<1>3. CASE n > from
  <2> DEFINE new == Decided(rc.rows[n], h, y)
  <2> DEFINE s == [rc.rows EXCEPT ![n] = new]
  <2>0. \A i, j \in Nat : i > j => i \in 1..i /\ i # 0
    OBVIOUS
  <2>1. n \in 1..n /\ n # 0
    BY <1>1, <1>3, <2>0
  <2>2. new \in Row
    BY <1>1, <2>1 DEF Row, Decided
  <2>3. Stamped(rc, from, h, y) = [rc EXCEPT !.rows[n].health = h, !.rows[n].retry = y]
    BY <1>3, <2>1 DEF Stamped, StampedRow
  <2>4. [rc EXCEPT !.rows[n].health = h, !.rows[n].retry = y] = [rc EXCEPT !.rows = s]
    BY <1>1, <2>1, <2>2 DEF Decided
  <2> HIDE DEF new
  <2>5. /\ s \in Seq(Row) /\ Len(s) = n
        /\ \A k \in 1..n : s[k] = IF k = n THEN new ELSE rc.rows[k]
    <3>1. \A i \in 1..n : /\ [rc.rows EXCEPT ![i] = new] \in Seq(Row)
                          /\ Len([rc.rows EXCEPT ![i] = new]) = n
                          /\ \A k \in 1..n : [rc.rows EXCEPT ![i] = new][k] = IF k = i THEN new ELSE rc.rows[k]
      BY <1>1, <2>2, ExceptSeq
    <3> HIDE DEF n
    <3> QED
      BY <2>1, <3>1
  <2>6. [rc EXCEPT !.rows = s] \in [rows : Seq(Row), dropped : Nat]
        /\ [rc EXCEPT !.rows = s].rows = s /\ [rc EXCEPT !.rows = s].dropped = rc.dropped
    <3> HIDE DEF s
    <3> QED
      BY <2>5
  <2> QED
    BY <2>3, <2>4, <2>5, <2>6 DEF new
<1> QED
  BY <1>2, <1>3

\* AnnotateAt, as the post-loop correction uses it.
LEMMA CorrectedKeeps ==
  ASSUME NEW rc \in [rows : Seq(Row), dropped : Nat], NEW k
  PROVE  /\ Corrected(rc, k) \in [rows : Seq(Row), dropped : Nat]
         /\ Corrected(rc, k).dropped = rc.dropped
         /\ Len(Corrected(rc, k).rows) = Len(rc.rows)
         /\ \A j \in 1..Len(rc.rows) : Corrected(rc, k).rows[j] =
              IF j = k THEN [rc.rows[j] EXCEPT !.retry = "stop"] ELSE rc.rows[j]
<1> DEFINE n == Len(rc.rows)
<1>1. rc.rows \in Seq(Row) /\ n \in Nat /\ DOMAIN rc.rows = 1..n /\ \A j \in 1..n : rc.rows[j] \in Row
  BY LenProperties, ElementOfSeq
<1>2. CASE k \notin 1..n
  <2>1. Corrected(rc, k) = rc
    BY <1>1, <1>2 DEF Corrected
  <2> QED
    BY <1>2, <2>1
<1>3. CASE k \in 1..n
  <2> DEFINE new == [rc.rows[k] EXCEPT !.retry = "stop"]
  <2> DEFINE s == [rc.rows EXCEPT ![k] = new]
  <2>1. new \in Row
    BY <1>1, <1>3 DEF Row, RetryNotes
  <2>2. Corrected(rc, k) = [rc EXCEPT !.rows[k].retry = "stop"]
    BY <1>1, <1>3 DEF Corrected
  <2>3. [rc EXCEPT !.rows[k].retry = "stop"] = [rc EXCEPT !.rows = s]
    BY <1>1, <1>3, <2>1
  <2> HIDE DEF new
  <2>4. /\ s \in Seq(Row) /\ Len(s) = n
        /\ \A j \in 1..n : s[j] = IF j = k THEN new ELSE rc.rows[j]
    BY <1>1, <1>3, <2>1, ExceptSeq
  <2>5. [rc EXCEPT !.rows = s] \in [rows : Seq(Row), dropped : Nat]
        /\ [rc EXCEPT !.rows = s].rows = s /\ [rc EXCEPT !.rows = s].dropped = rc.dropped
    <3> HIDE DEF s
    <3> QED
      BY <2>4
  <2> QED
    BY <2>2, <2>3, <2>4, <2>5 DEF new
<1> QED
  BY <1>2, <1>3

\* What a failed attempt leaves: the rows before it, its retried dials with
\* their egress, and the final row with the decisions.
LEMMA AttemptRowsKeep ==
  ASSUME RowsTyped, Current \in Egress
  PROVE  /\ AttemptRows \in [rows : Seq(Row), dropped : Nat]
         /\ Len(rec.rows) <= Len(AttemptRows.rows)
         /\ Len(AttemptRows.rows) \in Nat
         /\ AttemptRows.dropped = 0 =>
              /\ rec.dropped = 0
              /\ Len(AttemptRows.rows) = Len(rec.rows) + 1
              /\ \A k \in 1..startRow : AttemptRows.rows[k] = rec.rows[k]
              /\ \A k \in 1..Len(rec.rows) : k > startRow =>
                    AttemptRows.rows[k] = [rec.rows[k] EXCEPT !.egress = Current]
              /\ AttemptRows.rows[Len(rec.rows) + 1] =
                    [phase |-> "dial", egress |-> Current, retried |-> FALSE,
                     health |-> IF class \in MarksHealth THEN "marked" ELSE "neutral",
                     retry |-> IF Stops THEN "stop" ELSE "fallback"]
<1> DEFINE d == DialRow(FALSE, Nobody)
<1> DEFINE a == Recorded(rec, d)
<1> DEFINE b == Identified(a, startRow, Current)
<1> DEFINE h == IF class \in MarksHealth THEN "marked" ELSE "neutral"
<1> DEFINE y == IF Stops THEN "stop" ELSE "fallback"
<1> DEFINE c == Stamped(b, startRow, h, y)
<1>1. d \in Row /\ d = [phase |-> "dial", egress |-> Nobody, retried |-> FALSE, health |-> "", retry |-> ""]
  BY DEF DialRow, Row, HealthNotes, RetryNotes
<1>2. AttemptRows = c
  BY DEF AttemptRows
<1>3. rec \in [rows : Seq(Row), dropped : Nat] /\ startRow \in Nat /\ startRow <= Len(rec.rows)
      /\ Len(rec.rows) \in Nat
  BY LenProperties DEF RowsTyped
<1>4. h \in HealthNotes /\ y \in RetryNotes
  BY DEF HealthNotes, RetryNotes
<1> HIDE DEF d, h, y
<1>5. /\ a \in [rows : Seq(Row), dropped : Nat] /\ Len(a.rows) \in Nat /\ Len(rec.rows) <= Len(a.rows)
      /\ a.dropped = 0 =>
           /\ rec.dropped = 0
           /\ Len(a.rows) = Len(rec.rows) + 1
           /\ \A k \in 1..Len(rec.rows) : a.rows[k] = rec.rows[k]
           /\ a.rows[Len(rec.rows) + 1] = d
  BY <1>1, <1>3, RecordedKeeps
<1> HIDE DEF a
<1>6. /\ b \in [rows : Seq(Row), dropped : Nat] /\ b.dropped = a.dropped /\ Len(b.rows) = Len(a.rows)
      /\ \A k \in 1..Len(a.rows) : b.rows[k] =
           IF k > startRow THEN [a.rows[k] EXCEPT !.egress = Current] ELSE a.rows[k]
  BY <1>3, <1>5, IdentifiedKeeps
<1> HIDE DEF b
<1>7. /\ c \in [rows : Seq(Row), dropped : Nat] /\ c.dropped = b.dropped /\ Len(c.rows) = Len(b.rows)
      /\ Len(b.rows) > startRow => \A k \in 1..Len(b.rows) : c.rows[k] =
           IF k = Len(b.rows) THEN Decided(b.rows[k], h, y) ELSE b.rows[k]
  <2>1. b \in [rows : Seq(Row), dropped : Nat] /\ startRow \in Nat
    BY <1>3, <1>6
  <2>2. ASSUME NEW u \in HealthNotes, NEW v \in RetryNotes
        PROVE  /\ Stamped(b, startRow, u, v) \in [rows : Seq(Row), dropped : Nat]
               /\ Stamped(b, startRow, u, v).dropped = b.dropped
               /\ Len(Stamped(b, startRow, u, v).rows) = Len(b.rows)
               /\ Len(b.rows) > startRow => \A k \in 1..Len(b.rows) : Stamped(b, startRow, u, v).rows[k] =
                    IF k = Len(b.rows) THEN Decided(b.rows[k], u, v) ELSE b.rows[k]
    BY <2>1, StampedKeeps, ZenonT(60)
  <2> QED
    BY <1>4, <2>2
<1> HIDE DEF c
<1>8. ASSUME c.dropped = 0
      PROVE  /\ rec.dropped = 0
             /\ Len(c.rows) = Len(rec.rows) + 1
             /\ \A k \in 1..startRow : c.rows[k] = rec.rows[k]
             /\ \A k \in 1..Len(rec.rows) : k > startRow => c.rows[k] = [rec.rows[k] EXCEPT !.egress = Current]
             /\ c.rows[Len(rec.rows) + 1] =
                  [phase |-> "dial", egress |-> Current, retried |-> FALSE, health |-> h, retry |-> y]
  <2> DEFINE n == Len(rec.rows)
  <2>1. /\ rec.dropped = 0 /\ Len(a.rows) = n + 1 /\ Len(b.rows) = n + 1 /\ Len(c.rows) = n + 1
        /\ n + 1 > startRow /\ n \in Nat /\ a.rows[n + 1] = d
    <3>1. a.dropped = 0
      BY <1>6, <1>7, <1>8
    <3>2. rec.dropped = 0 /\ Len(a.rows) = n + 1 /\ a.rows[n + 1] = d
      BY <1>5, <3>1
    <3>3. Len(b.rows) = n + 1 /\ Len(c.rows) = n + 1
      BY <1>6, <1>7, <3>2
    <3> QED
      BY <1>3, <3>2, <3>3
  <2>2. \A k \in 1..(n + 1) : c.rows[k] =
           IF k = n + 1 THEN Decided(b.rows[k], h, y) ELSE b.rows[k]
    BY <1>7, <2>1
  <2>3. \A k \in 1..(n + 1) : b.rows[k] =
           IF k > startRow THEN [a.rows[k] EXCEPT !.egress = Current] ELSE a.rows[k]
    BY <1>6, <2>1
  <2>4. \A k \in 1..n : a.rows[k] = rec.rows[k]
    BY <1>5, <1>6, <1>7, <1>8
  <2>5. ASSUME NEW k \in 1..startRow PROVE c.rows[k] = rec.rows[k]
    <3>1. k \in 1..(n + 1) /\ k \in 1..n /\ k # n + 1 /\ ~(k > startRow)
      BY <1>3, <2>1
    <3> QED
      BY <2>2, <2>3, <2>4, <3>1
  <2>6. ASSUME NEW k \in 1..n, k > startRow PROVE c.rows[k] = [rec.rows[k] EXCEPT !.egress = Current]
    <3>1. k \in 1..(n + 1) /\ k # n + 1
      BY <2>1
    <3> QED
      BY <2>2, <2>3, <2>4, <2>6, <3>1
  <2>7. c.rows[n + 1] = [phase |-> "dial", egress |-> Current, retried |-> FALSE, health |-> h, retry |-> y]
    <3>1. n + 1 \in 1..(n + 1)
      BY <2>1
    <3>2. c.rows[n + 1] = Decided([d EXCEPT !.egress = Current], h, y)
      BY <2>1, <2>2, <2>3, <3>1
    <3> QED
      BY <1>1, <3>2 DEF Decided
  <2> QED
    BY <2>1, <2>5, <2>6, <2>7
<1> QED
  BY <1>2, <1>3, <1>5, <1>6, <1>7, <1>8 DEF h, y

\* The rows whose attempt is over.
Settled == IF InAttempt THEN startRow ELSE Len(rec.rows)

\* What a settled dial row says while the walk goes on.
Told(k) ==
    LET row == rec.rows[k]
    IN  /\ row.egress \in Dialed
        /\ \E j \in DOMAIN plan : j < next /\ row.egress = plan[j]
        /\ row.retry = IF row.retried THEN "retry_same_egress" ELSE "fallback"
        /\ ~row.retried =>
              /\ \A j \in DialRows : j > k /\ j <= Settled => rec.rows[j].egress # row.egress
              /\ row.health = "marked" <=> row.egress \in failures

\* The row of the latest failed attempt.
Terminal ==
    /\ terminalRow \in DialRows
    /\ ~rec.rows[terminalRow].retried
    /\ \A j \in DialRows : j <= terminalRow

\* With no row dropped: settled rows are told, the rows of the attempt under
\* way are its retried dials, and after a failure its row is the last dial's.
WalkStory ==
    /\ \A k \in DialRows : k <= Settled => Told(k)
    /\ InAttempt => \A k \in 1..Len(rec.rows) : k > startRow =>
          /\ rec.rows[k].phase = "dial" /\ rec.rows[k].retried
          /\ rec.rows[k].retry = "retry_same_egress"
    /\ pc = "plan" /\ attempts > 0 => Terminal

StoryInv ==
    /\ RowsTyped
    /\ rec.dropped = 0 => (pc # "done" => WalkStory) /\ (pc = "done" => EvidenceTellsTheStory)

\* The facts of the other invariants the rows rely on.
StoryContext == WalkTyped /\ BudgetInv /\ SlotInv

\* The rows of a typed recorder, position by position.
LEMMA RowsAre ==
  ASSUME RowsTyped
  PROVE  /\ rec.rows \in Seq(Row) /\ Len(rec.rows) \in Nat /\ DOMAIN rec.rows = 1..Len(rec.rows)
         /\ startRow \in Nat /\ startRow <= Len(rec.rows)
         /\ \A k \in 1..Len(rec.rows) : rec.rows[k] \in Row
<1>1. rec.rows \in Seq(Row)
  BY DEF RowsTyped
<1>2. Len(rec.rows) \in Nat /\ DOMAIN rec.rows = 1..Len(rec.rows) /\ \A k \in 1..Len(rec.rows) : rec.rows[k] \in Row
  BY <1>1, LenProperties, ElementOfSeq
<1> QED
  BY <1>1, <1>2 DEF RowsTyped

\* Steps that leave the rows, the failures and the phase of the walk alone.
LEMMA RowsUntouched ==
  ASSUME StoryInv, StoryContext, pc # "done", pc' # "done", rec' = rec, failures' = failures,
         plan' = plan, next' = next, startRow' = startRow,
         InAttempt' = InAttempt, InAttempt, \A e \in Dialed : e \in Dialed'
  PROVE  StoryInv'
<1>1. DialRows' = DialRows /\ Settled' = Settled
  BY DEF DialRows, Settled
<1>2. ASSUME rec.dropped = 0 PROVE WalkStory'
  <2>1. WalkStory
    BY <1>2 DEF StoryInv
  <2>2. \A k \in DialRows : k <= Settled => Told(k)'
    <3> SUFFICES ASSUME NEW k \in DialRows, k <= Settled PROVE Told(k)'
      OBVIOUS
    <3>1. Told(k)
      BY <2>1 DEF WalkStory
    <3> QED
      BY <1>1, <3>1 DEF Told
  <2>3. pc' # "plan"
    BY DEF InAttempt
  <2> QED
    BY <1>1, <2>1, <2>2, <2>3 DEF WalkStory
<1> QED
  BY <1>2 DEF StoryInv, RowsTyped

\* A skipped or exhausted member leaves a skip row, which is no dial row.
LEMMA StorySkip ==
  ASSUME StoryInv, StoryContext, Skip
  PROVE  StoryInv'
<1>1. /\ pc = "plan" /\ pc' = "plan" /\ next \in DOMAIN plan /\ rec' = Recorded(rec, SkipRow(Current))
      /\ failures' = failures /\ dials' = dials /\ plan' = plan /\ attempts' = attempts
      /\ startRow' = startRow /\ terminalRow' = terminalRow
      /\ next' = IF policy.fallback THEN next + 1 ELSE Len(plan) + 1
  BY DEF Skip, path, dialing, evidence, history
<1>2. Current \in Egress /\ next' > next /\ next \in Nat /\ next' \in Nat
  <2>1. plan \in Seq(Egress)
    BY PlansInjective DEF StoryContext, WalkTyped
  <2>2. Len(plan) \in Nat /\ DOMAIN plan = 1..Len(plan)
    BY <2>1, LenProperties
  <2>3. Current \in Egress
    BY <1>1, CurrentTyped DEF StoryContext
  <2> QED
    BY <1>1, <2>2, <2>3
<1> DEFINE n == Len(rec.rows)
<1>d. PICK row : row = SkipRow(Current)
  OBVIOUS
<1>3. row \in Row /\ row.phase = "skip"
  BY <1>d, <1>2 DEF SkipRow, Row, HealthNotes, RetryNotes
<1>r. rec' = Recorded(rec, row)
  BY <1>d, <1>1
<1>4. /\ rec.rows \in Seq(Row) /\ n \in Nat /\ DOMAIN rec.rows = 1..n
      /\ startRow \in Nat /\ startRow <= n /\ rec \in [rows : Seq(Row), dropped : Nat]
  BY RowsAre DEF StoryInv, RowsTyped
<1>5. /\ rec' \in [rows : Seq(Row), dropped : Nat]
      /\ Len(rec'.rows) \in Nat /\ n <= Len(rec'.rows)
      /\ rec'.dropped = 0 =>
           /\ rec.dropped = 0 /\ Len(rec'.rows) = n + 1
           /\ \A k \in 1..n : rec'.rows[k] = rec.rows[k]
           /\ rec'.rows[n + 1] = row
  <2>1. rec \in [rows : Seq(Row), dropped : Nat]
    BY <1>4
  <2>2. row \in Row
    BY <1>3
  <2>3. /\ Recorded(rec, row) \in [rows : Seq(Row), dropped : Nat]
        /\ Len(rec.rows) \in Nat /\ Len(Recorded(rec, row).rows) \in Nat
        /\ Len(rec.rows) <= Len(Recorded(rec, row).rows)
        /\ Recorded(rec, row).dropped = 0 =>
              /\ rec.dropped = 0
              /\ Len(Recorded(rec, row).rows) = Len(rec.rows) + 1
              /\ \A k \in 1..Len(rec.rows) : Recorded(rec, row).rows[k] = rec.rows[k]
              /\ Recorded(rec, row).rows[Len(rec.rows) + 1] = row
    BY <2>1, <2>2, RecordedKeeps
  <2> QED
    BY <1>r, <2>3
<1>6. RowsTyped'
  BY <1>1, <1>4, <1>5 DEF RowsTyped
<1>7. ASSUME rec'.dropped = 0 PROVE WalkStory'
  <2>1. /\ Len(rec'.rows) = n + 1 /\ \A k \in 1..n : rec'.rows[k] = rec.rows[k]
        /\ rec'.rows[n + 1].phase = "skip" /\ DOMAIN rec'.rows = 1..(n + 1)
    BY <1>3, <1>5, <1>6, <1>7, RowsAre, LenProperties
  <2>2. WalkStory
    BY <1>1, <1>5, <1>7 DEF StoryInv
  <2>3. DialRows' = DialRows
    <3>1. DialRows = {k \in 1..n : rec.rows[k].phase = "dial"}
      BY <1>4 DEF DialRows
    <3>2. DialRows' = {k \in 1..(n + 1) : rec'.rows[k].phase = "dial"}
      BY <2>1 DEF DialRows
    <3>3. \A k \in 1..(n + 1) : k \in 1..n \/ k = n + 1
      BY <1>4
    <3>4. \A k \in 1..n : k \in 1..(n + 1)
      BY <1>4
    <3> QED
      BY <2>1, <3>1, <3>2, <3>3, <3>4
  <2>4. \A k \in DialRows : k \in 1..n /\ rec'.rows[k] = rec.rows[k]
    BY <1>4, <2>1 DEF DialRows
  <2>5. ASSUME NEW k \in DialRows PROVE Told(k)'
    <3>1. k <= Settled /\ Settled = n
      BY <1>1, <2>4 DEF Settled, InAttempt
    <3>2. Told(k)
      BY <2>2, <3>1 DEF WalkStory
    <3>3. \A j \in DialRows : j <= Settled
      BY <2>4, <3>1
    <3>4. Dialed' = Dialed
      BY <1>1 DEF Dialed
    <3>5. \A j \in DOMAIN plan : j < next => j < next'
      <4>1. DOMAIN plan \subseteq Nat
        <5>1. plan \in Seq(Egress)
          BY PlansInjective DEF StoryContext, WalkTyped
        <5> QED
          BY <5>1, LenProperties
      <4> QED
        BY <1>2, <4>1
    <3> QED
      BY <1>1, <2>3, <2>4, <3>2, <3>3, <3>4, <3>5 DEF Told
  <2>6. attempts' > 0 => Terminal'
    <3> SUFFICES ASSUME attempts > 0 PROVE Terminal'
      BY <1>1
    <3>1. Terminal
      BY <1>1, <2>2 DEF WalkStory
    <3> QED
      BY <1>1, <2>3, <2>4, <3>1 DEF Terminal
  <2>7. ~InAttempt'
    BY <1>1 DEF InAttempt
  <2> QED
    BY <2>3, <2>5, <2>6, <2>7 DEF WalkStory
<1> QED
  BY <1>1, <1>6, <1>7 DEF StoryInv

\* An attempt begins where the rows end; nothing settled is touched.
LEMMA StoryStart ==
  ASSUME StoryInv, StoryContext, StartAttempt
  PROVE  StoryInv'
<1>1. /\ pc = "plan" /\ pc' = "ready" /\ rec' = rec /\ failures' = failures /\ dials' = dials
      /\ plan' = plan /\ next' = next /\ startRow' = Len(rec.rows)
  BY DEF StartAttempt, path, dialing, evidence, history
<1>2. Len(rec.rows) \in Nat /\ DOMAIN rec.rows = 1..Len(rec.rows)
  BY RowsAre DEF StoryInv
<1>3. RowsTyped'
  BY <1>1, <1>2 DEF StoryInv, RowsTyped
<1>4. DialRows' = DialRows /\ Settled' = Settled /\ Dialed' = Dialed
  BY <1>1 DEF DialRows, Settled, InAttempt, Dialed
<1>5. ASSUME rec.dropped = 0 PROVE WalkStory'
  <2>1. WalkStory
    BY <1>1, <1>5 DEF StoryInv
  <2>2. \A k \in DialRows : k <= Settled => Told(k)'
    <3> SUFFICES ASSUME NEW k \in DialRows, k <= Settled PROVE Told(k)'
      OBVIOUS
    <3>1. Told(k)
      BY <2>1 DEF WalkStory
    <3> QED
      BY <1>1, <1>4, <3>1 DEF Told
  <2>3. \A k \in 1..Len(rec'.rows) : ~(k > startRow')
    BY <1>1, <1>2
  <2>4. pc' # "plan"
    BY <1>1
  <2> QED
    BY <1>4, <2>2, <2>3, <2>4 DEF WalkStory
<1> QED
  BY <1>1, <1>3, <1>5 DEF StoryInv

\* Each retried dial of the attempt leaves its own retried row.
LEMMA StoryRetry ==
  ASSUME StoryInv, StoryContext, Retry
  PROVE  StoryInv'
<1> DEFINE n == Len(rec.rows)
<1> DEFINE row == DialRow(TRUE, Nobody)
<1>1. /\ pc = "classified" /\ pc' \in {"ready", "draining"}
      /\ failures' = failures /\ dials' = dials /\ plan' = plan /\ next' = next /\ startRow' = startRow
  BY DEF Retry, path, dialing, evidence, history
<1>r. rec' = Recorded(rec, row)
  BY DEF Retry
<1>2. row \in Row /\ row.phase = "dial" /\ row.retried /\ row.retry = "retry_same_egress"
  BY DEF DialRow, Row, HealthNotes, RetryNotes
<1> HIDE DEF row
<1>3. /\ n \in Nat /\ DOMAIN rec.rows = 1..n
      /\ startRow \in Nat /\ startRow <= n /\ rec \in [rows : Seq(Row), dropped : Nat]
  BY RowsAre DEF StoryInv, RowsTyped
<1>4. /\ rec' \in [rows : Seq(Row), dropped : Nat]
      /\ Len(rec'.rows) \in Nat /\ n <= Len(rec'.rows)
      /\ rec'.dropped = 0 =>
           /\ rec.dropped = 0 /\ Len(rec'.rows) = n + 1
           /\ \A k \in 1..n : rec'.rows[k] = rec.rows[k]
           /\ rec'.rows[n + 1] = row
  BY <1>r, <1>2, <1>3, RecordedKeeps, ZenonT(60)
<1>5. RowsTyped'
  BY <1>1, <1>3, <1>4 DEF RowsTyped
<1>6. ASSUME rec'.dropped = 0 PROVE WalkStory'
  <2>1. /\ Len(rec'.rows) = n + 1 /\ \A k \in 1..n : rec'.rows[k] = rec.rows[k]
        /\ rec'.rows[n + 1] = row /\ DOMAIN rec'.rows = 1..(n + 1)
    BY <1>4, <1>5, <1>6, RowsAre, LenProperties
  <2>2. WalkStory
    BY <1>1, <1>4, <1>6 DEF StoryInv
  <2>3. InAttempt /\ InAttempt' /\ Settled = startRow /\ Settled' = startRow /\ Dialed' = Dialed
    BY <1>1 DEF InAttempt, Settled, Dialed
  <2>4. \A k \in 1..n : (k \in DialRows' <=> k \in DialRows)
    <3>1. \A k \in 1..n : k \in 1..(n + 1)
      BY <1>3
    <3> QED
      BY <1>3, <2>1, <3>1 DEF DialRows
  <2>5. \A k \in DialRows' : k <= startRow => k \in 1..n
    BY <1>3, <2>1 DEF DialRows
  <2>6. ASSUME NEW k \in DialRows', k <= startRow PROVE Told(k)'
    <3>1. k \in DialRows /\ k \in 1..n
      BY <2>4, <2>5, <2>6
    <3>2. Told(k)
      BY <2>2, <2>3, <2>6, <3>1 DEF WalkStory
    <3>3. \A j \in DialRows' : j > k /\ j <= startRow => j \in DialRows /\ rec'.rows[j] = rec.rows[j]
      BY <2>1, <2>4, <2>5
    <3> QED
      BY <1>1, <2>1, <2>3, <3>1, <3>2, <3>3 DEF Told
  <2>7. ASSUME NEW k \in 1..Len(rec'.rows), k > startRow'
        PROVE  rec'.rows[k].phase = "dial" /\ rec'.rows[k].retried /\ rec'.rows[k].retry = "retry_same_egress"
    <3>1. CASE k \in 1..n
      BY <1>1, <2>1, <2>2, <2>3, <2>7, <3>1 DEF WalkStory
    <3>2. CASE k = n + 1
      BY <1>2, <2>1, <3>2
    <3> QED
      BY <1>3, <2>1, <3>1, <3>2
  <2>8. pc' # "plan"
    BY <1>1
  <2> QED
    BY <2>3, <2>6, <2>7, <2>8 DEF WalkStory
<1> QED
  BY <1>1, <1>5, <1>6 DEF StoryInv

\* Annotating a row changes the field it annotates.
LEMMA RenamedRow ==
  ASSUME NEW row \in Row, NEW e
  PROVE  /\ [row EXCEPT !.egress = e].egress = e
         /\ [row EXCEPT !.egress = e].phase = row.phase
         /\ [row EXCEPT !.egress = e].retried = row.retried
         /\ [row EXCEPT !.egress = e].health = row.health
         /\ [row EXCEPT !.egress = e].retry = row.retry
BY DEF Row

\* The correction touches one note of the row.
LEMMA StoppedRow ==
  ASSUME NEW row \in Row
  PROVE  /\ [row EXCEPT !.retry = "stop"].egress = row.egress
         /\ [row EXCEPT !.retry = "stop"].phase = row.phase
         /\ [row EXCEPT !.retry = "stop"].retried = row.retried
         /\ [row EXCEPT !.retry = "stop"].health = row.health
         /\ [row EXCEPT !.retry = "stop"].retry = "stop"
BY DEF Row

\* The entry an attempt is at is new to every settled row.
LEMMA SettledElsewhere ==
  ASSUME StoryContext, InAttempt, NEW k, Told(k)
  PROVE  rec.rows[k].egress # Current
<1>1. plan \in Plans /\ next \in DOMAIN plan /\ plan \in Seq(Egress)
  BY PlansInjective DEF StoryContext, WalkTyped
<1>2. \A i, j \in DOMAIN plan : plan[i] = plan[j] => i = j
  BY <1>1, PlansInjective
<1>3. PICK j \in DOMAIN plan : j < next /\ rec.rows[k].egress = plan[j]
  BY DEF Told
<1>4. j # next
  BY <1>1, <1>3, LenProperties
<1> QED
  BY <1>1, <1>2, <1>3, <1>4 DEF Current

\* The rows of a failed attempt.
LEMMA FailedRows ==
  ASSUME StoryInv, StoryContext, FailAttempt, rec'.dropped = 0
  PROVE  LET n == Len(rec.rows) IN
         /\ n \in Nat /\ startRow \in 0..n /\ n + 1 \in DialRows'
         /\ \A k \in DialRows' : k \in 1..(n + 1)
         /\ \A k \in DialRows' : k <= startRow =>
              /\ k \in DialRows /\ rec'.rows[k] = rec.rows[k] /\ Told(k)
              /\ rec'.rows[k].egress # Current
         /\ \A k \in DialRows' : k > startRow /\ k <= n =>
              /\ rec'.rows[k].egress = Current /\ rec'.rows[k].retried
              /\ rec'.rows[k].retry = "retry_same_egress"
         /\ rec'.rows[n + 1].egress = Current /\ ~rec'.rows[n + 1].retried
         /\ rec'.rows[n + 1].retry = (IF Stops THEN "stop" ELSE "fallback")
         /\ rec'.rows[n + 1].health = "marked" <=> Current \in failures'
<1> DEFINE n == Len(rec.rows)
<1>1. /\ pc = "failed" /\ rec' = AttemptRows /\ class # "success" /\ startRow' = startRow
      /\ failures' = IF class \in MarksHealth THEN failures \cup {Current} ELSE failures
  BY DEF FailAttempt, StoryContext, WalkTyped, path, dialing, evidence, history
<1>2. InAttempt /\ next \in DOMAIN plan /\ Current \in Egress /\ Settled = startRow
  BY <1>1, CurrentTyped DEF StoryContext, WalkTyped, InAttempt, Settled
<1>3. Current \notin failures
  BY <1>2 DEF StoryContext, SlotInv, BudgetInv
<1>4. /\ n \in Nat /\ DOMAIN rec.rows = 1..n /\ startRow \in Nat /\ startRow <= n
      /\ \A k \in 1..n : rec.rows[k] \in Row
  BY RowsAre DEF StoryInv
<1>5. /\ rec' \in [rows : Seq(Row), dropped : Nat]
      /\ rec.dropped = 0 /\ Len(rec'.rows) = n + 1
      /\ \A k \in 1..startRow : rec'.rows[k] = rec.rows[k]
      /\ \A k \in 1..n : k > startRow => rec'.rows[k] = [rec.rows[k] EXCEPT !.egress = Current]
      /\ rec'.rows[n + 1] =
            [phase |-> "dial", egress |-> Current, retried |-> FALSE,
             health |-> IF class \in MarksHealth THEN "marked" ELSE "neutral",
             retry |-> IF Stops THEN "stop" ELSE "fallback"]
  BY <1>1, <1>2, AttemptRowsKeep DEF StoryInv
<1>6. DOMAIN rec'.rows = 1..(n + 1)
  <2>1. rec'.rows \in Seq(Row)
    BY <1>5
  <2> QED
    BY <1>5, <2>1, LenProperties
<1>7. DialRows' = {k \in 1..(n + 1) : rec'.rows[k].phase = "dial"} /\ DialRows = {k \in 1..n : rec.rows[k].phase = "dial"}
  BY <1>4, <1>6 DEF DialRows
<1>8. WalkStory
  BY <1>1, <1>5 DEF StoryInv
<1>9. ASSUME NEW k \in DialRows', k <= startRow
      PROVE  /\ k \in DialRows /\ rec'.rows[k] = rec.rows[k] /\ Told(k)
             /\ rec'.rows[k].egress # Current
  <2>1. k \in 1..startRow /\ k \in 1..n
    BY <1>4, <1>7, <1>9
  <2>2. k \in DialRows /\ rec'.rows[k] = rec.rows[k]
    BY <1>5, <1>7, <2>1
  <2>3. Told(k)
    BY <1>2, <1>8, <1>9, <2>2 DEF WalkStory
  <2> QED
    BY <1>2, <2>2, <2>3, SettledElsewhere
<1>10. ASSUME NEW k \in DialRows', k > startRow, k <= n
       PROVE  /\ rec'.rows[k].egress = Current /\ rec'.rows[k].retried
              /\ rec'.rows[k].retry = "retry_same_egress"
  <2>1. k \in 1..n
    BY <1>4, <1>7, <1>10
  <2>2. rec'.rows[k] = [rec.rows[k] EXCEPT !.egress = Current] /\ rec.rows[k] \in Row
    BY <1>4, <1>5, <1>10, <2>1
  <2>3. rec.rows[k].retried /\ rec.rows[k].retry = "retry_same_egress"
    BY <1>2, <1>8, <1>10, <2>1 DEF WalkStory
  <2> QED
    BY <2>2, <2>3, RenamedRow
<1>11. /\ rec'.rows[n + 1].egress = Current /\ ~rec'.rows[n + 1].retried /\ rec'.rows[n + 1].phase = "dial"
       /\ rec'.rows[n + 1].retry = (IF Stops THEN "stop" ELSE "fallback")
       /\ rec'.rows[n + 1].health = IF class \in MarksHealth THEN "marked" ELSE "neutral"
  BY <1>5
<1>12. rec'.rows[n + 1].health = "marked" <=> Current \in failures'
  BY <1>1, <1>3, <1>11
<1>13. n + 1 \in DialRows'
  <2>1. n + 1 \in 1..(n + 1)
    BY <1>4
  <2> QED
    BY <1>7, <1>11, <2>1
<1>14. startRow \in 0..n
  BY <1>4
<1> QED
  BY <1>4, <1>7, <1>9, <1>10, <1>11, <1>12, <1>13, <1>14

\* A failed attempt settles its rows, as a stop or as a fallback; its egress is
\* not dialed again, since the plan repeats none.
LEMMA StoryFail ==
  ASSUME StoryInv, StoryContext, FailAttempt
  PROVE  StoryInv'
<1> DEFINE n == Len(rec.rows)
<1>1. /\ pc = "failed" /\ rec' = AttemptRows /\ class # "success" /\ startRow' = startRow
      /\ failures' = IF class \in MarksHealth THEN failures \cup {Current} ELSE failures
      /\ dials' = dials /\ plan' = plan /\ attempts' = attempts
      /\ Stops => pc' = "done" /\ result' = [class |-> class, egress |-> Current]
      /\ ~Stops => pc' = "plan" /\ next' = next + 1 /\ terminalRow' = StampedRow(rec', startRow)
  BY DEF FailAttempt, StoryContext, WalkTyped, path, dialing, evidence, history
<1>2. InAttempt /\ next \in DOMAIN plan /\ Current \in Egress /\ next \in Nat
  <2>1. plan \in Seq(Egress)
    BY PlansInjective DEF StoryContext, WalkTyped
  <2>2. InAttempt /\ next \in DOMAIN plan
    BY <1>1 DEF StoryContext, WalkTyped, InAttempt
  <2>3. next \in Nat
    BY <2>1, <2>2, LenProperties
  <2> QED
    BY <2>2, <2>3, CurrentTyped DEF StoryContext
<1>3. Current \in Dialed /\ Dialed' = Dialed
  BY <1>1, <1>2 DEF StoryContext, WalkTyped, BudgetInv, Answered, Dialed
<1>4. RowsTyped'
  <2>1. /\ rec' \in [rows : Seq(Row), dropped : Nat] /\ Len(rec.rows) <= Len(rec'.rows) /\ Len(rec'.rows) \in Nat
    BY <1>1, <1>2, AttemptRowsKeep DEF StoryInv
  <2>2. startRow \in 0..Len(rec.rows) /\ Len(rec.rows) \in Nat
    BY RowsAre DEF StoryInv, RowsTyped
  <2> QED
    BY <1>1, <2>1, <2>2 DEF RowsTyped
<1>5. ASSUME rec'.dropped = 0
      PROVE  (pc' # "done" => WalkStory') /\ (pc' = "done" => EvidenceTellsTheStory')
  <2>1. /\ n \in Nat /\ startRow \in 0..n /\ n + 1 \in DialRows'
        /\ \A k \in DialRows' : k \in 1..(n + 1)
        /\ \A k \in DialRows' : k <= startRow =>
              /\ k \in DialRows /\ rec'.rows[k] = rec.rows[k] /\ Told(k)
              /\ rec'.rows[k].egress # Current
        /\ \A k \in DialRows' : k > startRow /\ k <= n =>
              /\ rec'.rows[k].egress = Current /\ rec'.rows[k].retried
              /\ rec'.rows[k].retry = "retry_same_egress"
        /\ rec'.rows[n + 1].egress = Current /\ ~rec'.rows[n + 1].retried
        /\ rec'.rows[n + 1].retry = (IF Stops THEN "stop" ELSE "fallback")
        /\ rec'.rows[n + 1].health = "marked" <=> Current \in failures'
    BY <1>5, FailedRows
  <2>2. \A k \in DialRows' : k <= startRow \/ (k > startRow /\ k <= n) \/ k = n + 1
    BY <2>1
  <2>3. \A k \in DialRows' : k > startRow => rec'.rows[k].egress = Current
    BY <2>1, <2>2
  \* The rows of earlier attempts keep telling their part.
  <2>4. ASSUME NEW k \in DialRows', k <= startRow
        PROVE  /\ rec'.rows[k].egress \in Dialed'
               /\ \E j \in DOMAIN plan : j < next /\ rec'.rows[k].egress = plan[j]
               /\ rec'.rows[k].retry = IF rec'.rows[k].retried THEN "retry_same_egress" ELSE "fallback"
               /\ ~rec'.rows[k].retried =>
                    /\ \A j \in DialRows' : j > k => rec'.rows[j].egress # rec'.rows[k].egress
                    /\ rec'.rows[k].health = "marked" <=> rec'.rows[k].egress \in failures'
    <3>1. k \in DialRows /\ rec'.rows[k] = rec.rows[k] /\ Told(k) /\ rec'.rows[k].egress # Current
      BY <2>1, <2>4
    <3>2. ASSUME ~rec'.rows[k].retried, NEW j \in DialRows', j > k
          PROVE  rec'.rows[j].egress # rec'.rows[k].egress
      <4>1. CASE j <= startRow
        <5>1. j \in DialRows /\ rec'.rows[j] = rec.rows[j] /\ Settled = startRow
          BY <1>2, <2>1, <4>1 DEF Settled
        <5> QED
          BY <3>1, <3>2, <4>1, <5>1 DEF Told
      <4>2. CASE ~(j <= startRow)
        <5>1. j > startRow
          BY <2>1, <4>2
        <5> QED
          BY <2>3, <3>1, <5>1
      <4> QED
        BY <4>1, <4>2
    <3>3. ~rec'.rows[k].retried => (rec'.rows[k].health = "marked" <=> rec'.rows[k].egress \in failures')
      BY <1>1, <3>1 DEF Told
    <3> QED
      BY <1>3, <3>1, <3>2, <3>3 DEF Told
  <2>5. CASE ~Stops
    <3>1. pc' = "plan" /\ next' = next + 1 /\ plan' = plan /\ ~InAttempt'
      BY <1>1, <2>5 DEF InAttempt
    <3>2. terminalRow' = n + 1
      <4>1. Len(rec'.rows) = n + 1 /\ n + 1 > startRow
        BY <1>1, <1>2, <1>5, <2>1, AttemptRowsKeep DEF StoryInv
      <4> QED
        BY <1>1, <2>5, <4>1 DEF StampedRow
    <3>3. \E j \in DOMAIN plan' : j < next' /\ Current = plan'[j]
      BY <1>2, <3>1 DEF Current
    <3>4. \A j \in DOMAIN plan : j < next => j < next'
      <4>1. DOMAIN plan \subseteq Nat
        <5>1. plan \in Seq(Egress)
          BY PlansInjective DEF StoryContext, WalkTyped
        <5> QED
          BY <5>1, LenProperties
      <4> QED
        BY <1>2, <3>1, <4>1
    <3>5. ASSUME NEW k \in DialRows' PROVE Told(k)'
      <4>1. CASE k <= startRow
        BY <2>4, <3>1, <3>4, <4>1 DEF Told
      <4>2. CASE k > startRow /\ k <= n
        BY <1>3, <2>1, <3>3, <4>2 DEF Told
      <4>3. CASE k = n + 1
        <5>1. \A j \in DialRows' : ~(j > k)
          BY <2>1, <4>3
        <5> QED
          BY <1>3, <2>1, <2>5, <3>3, <4>3, <5>1 DEF Told
      <4> QED
        BY <2>2, <4>1, <4>2, <4>3
    <3>6. Terminal'
      <4>1. \A j \in DialRows' : j <= n + 1
        BY <2>1
      <4> QED
        BY <2>1, <3>2, <4>1 DEF Terminal
    <3>7. WalkStory'
      BY <3>1, <3>5, <3>6 DEF WalkStory
    <3> QED
      BY <3>1, <3>7
  <2>6. CASE Stops
    <3>1. pc' = "done" /\ result'.class = class /\ class # "success"
      BY <1>1, <2>6
    <3> DEFINE later(k) == {j \in DialRows' : j > k}
    <3>2. ASSUME NEW k \in DialRows'
          PROVE  /\ rec'.rows[k].egress \in Dialed'
                 /\ rec'.rows[k].retry = IF rec'.rows[k].retried THEN "retry_same_egress"
                                         ELSE IF later(k) = {} THEN "stop" ELSE "fallback"
                 /\ rec'.rows[k].retry # "retry_same_egress" =>
                      /\ \A j \in later(k) : rec'.rows[j].egress # rec'.rows[k].egress
                      /\ rec'.rows[k].health = "marked" <=> rec'.rows[k].egress \in failures'
      <4>1. CASE k <= startRow
        <5>1. n + 1 \in later(k)
          BY <2>1, <4>1
        <5>2. later(k) # {} /\ \A j \in later(k) : j \in DialRows' /\ j > k
          BY <5>1
        <5> HIDE DEF later
        <5>3. /\ rec'.rows[k].egress \in Dialed'
              /\ rec'.rows[k].retry = IF rec'.rows[k].retried THEN "retry_same_egress" ELSE "fallback"
              /\ ~rec'.rows[k].retried =>
                    /\ \A j \in DialRows' : j > k => rec'.rows[j].egress # rec'.rows[k].egress
                    /\ rec'.rows[k].health = "marked" <=> rec'.rows[k].egress \in failures'
          BY <2>4, <4>1
        <5>4. CASE rec'.rows[k].retried
          BY <5>3, <5>4
        <5>5. CASE ~rec'.rows[k].retried
          BY <5>2, <5>3, <5>5
        <5> QED
          BY <5>4, <5>5
      <4>2. CASE k > startRow /\ k <= n
        BY <1>3, <2>1, <4>2
      <4>3. CASE k = n + 1
        <5>1. later(k) = {}
          BY <2>1, <4>3
        <5> QED
          BY <1>3, <2>1, <2>6, <4>3, <5>1
      <4> QED
        BY <2>2, <4>1, <4>2, <4>3
    <3>3. EvidenceTellsTheStory'
      <4>1. (result.class = "success")' = FALSE
        BY <3>1
      <4> QED
        BY <3>2, <4>1 DEF EvidenceTellsTheStory
    <3> QED
      BY <3>1, <3>3
  <2> QED
    BY <2>5, <2>6
<1> QED
  BY <1>4, <1>5 DEF StoryInv

\* Success names the egress on the attempt's rows and decides nothing more.
LEMMA StorySucceed ==
  ASSUME StoryInv, StoryContext, Succeed
  PROVE  StoryInv'
<1> DEFINE n == Len(rec.rows)
<1>1. /\ pc = "classified" /\ rec' = Identified(rec, startRow, Current) /\ class = "success"
      /\ startRow' = startRow /\ failures' = failures /\ dials' = dials /\ pc' = "done"
      /\ result' = [class |-> class, egress |-> Current]
  BY DEF Succeed, path, dialing, evidence, history
<1>2. InAttempt /\ next \in DOMAIN plan /\ Current \in Egress /\ Settled = startRow
  BY <1>1, CurrentTyped DEF StoryContext, WalkTyped, InAttempt, Settled
<1>3. Current \in Dialed /\ Dialed' = Dialed
  BY <1>1, <1>2 DEF StoryContext, WalkTyped, BudgetInv, Answered, Dialed
<1>4. /\ n \in Nat /\ DOMAIN rec.rows = 1..n /\ startRow \in Nat /\ startRow <= n
      /\ \A k \in 1..n : rec.rows[k] \in Row
  BY RowsAre DEF StoryInv
<1>5. /\ rec' \in [rows : Seq(Row), dropped : Nat] /\ rec'.dropped = rec.dropped /\ Len(rec'.rows) = n
      /\ \A k \in 1..n : rec'.rows[k] =
           IF k > startRow THEN [rec.rows[k] EXCEPT !.egress = Current] ELSE rec.rows[k]
  <2>1. rec \in [rows : Seq(Row), dropped : Nat] /\ startRow \in Nat
    BY <1>4 DEF StoryInv, RowsTyped
  <2> QED
    BY <1>1, <1>2, <2>1, IdentifiedKeeps
<1>6. DOMAIN rec'.rows = 1..n
  <2>1. rec'.rows \in Seq(Row)
    BY <1>5
  <2> QED
    BY <1>5, <2>1, LenProperties
<1>7. RowsTyped'
  BY <1>1, <1>4, <1>5 DEF RowsTyped
<1>8. ASSUME rec'.dropped = 0 PROVE EvidenceTellsTheStory'
  <2>1. WalkStory
    BY <1>1, <1>5, <1>8 DEF StoryInv
  <2>2. /\ DialRows' = {k \in 1..n : rec'.rows[k].phase = "dial"}
        /\ DialRows = {k \in 1..n : rec.rows[k].phase = "dial"}
    BY <1>4, <1>6 DEF DialRows
  <2>3. ASSUME NEW k \in 1..n, k > startRow
        PROVE  /\ rec'.rows[k].egress = Current /\ rec'.rows[k].retried
               /\ rec'.rows[k].retry = "retry_same_egress" /\ rec'.rows[k].phase = rec.rows[k].phase
    <3>1. rec'.rows[k] = [rec.rows[k] EXCEPT !.egress = Current] /\ rec.rows[k] \in Row
      BY <1>4, <1>5, <2>3
    <3>2. rec.rows[k].retried /\ rec.rows[k].retry = "retry_same_egress"
      BY <1>2, <2>1, <2>3 DEF WalkStory
    <3> QED
      BY <3>1, <3>2, RenamedRow
  <2>4. \A k \in 1..n : ~(k > startRow) => rec'.rows[k] = rec.rows[k]
    BY <1>5
  <2>5. ASSUME NEW k \in DialRows'
        PROVE  /\ rec'.rows[k].egress \in Dialed'
               /\ rec'.rows[k].retry = IF rec'.rows[k].retried THEN "retry_same_egress" ELSE "fallback"
               /\ rec'.rows[k].retry # "retry_same_egress" =>
                    /\ \A j \in DialRows' : j > k => rec'.rows[j].egress # rec'.rows[k].egress
                    /\ rec'.rows[k].health = "marked" <=> rec'.rows[k].egress \in failures'
    <3>1. k \in 1..n
      BY <2>2
    <3>2. CASE k > startRow
      BY <1>3, <2>3, <3>1, <3>2
    <3>3. CASE ~(k > startRow)
      <4>1. rec'.rows[k] = rec.rows[k] /\ k \in DialRows /\ k <= startRow
        BY <1>4, <2>2, <2>4, <3>1, <3>3
      <4>2. Told(k)
        BY <1>2, <2>1, <4>1 DEF WalkStory
      <4>3. rec.rows[k].egress # Current
        BY <1>2, <4>2, SettledElsewhere
      <4>4. ASSUME ~rec.rows[k].retried, NEW j \in DialRows', j > k
            PROVE  rec'.rows[j].egress # rec'.rows[k].egress
        <5>1. j \in 1..n
          BY <2>2
        <5>2. CASE j > startRow
          BY <2>3, <4>1, <4>3, <5>1, <5>2
        <5>3. CASE ~(j > startRow)
          <6>1. rec'.rows[j] = rec.rows[j] /\ j \in DialRows /\ j <= Settled
            BY <1>2, <1>4, <2>2, <2>4, <5>1, <5>3
          <6> QED
            BY <4>1, <4>2, <4>4, <6>1 DEF Told
        <5> QED
          BY <5>2, <5>3
      <4>5. CASE rec.rows[k].retried
        BY <1>3, <4>1, <4>2, <4>5 DEF Told
      <4>6. CASE ~rec.rows[k].retried
        BY <1>1, <1>3, <4>1, <4>2, <4>4, <4>6 DEF Told
      <4> QED
        BY <4>5, <4>6
    <3> QED
      BY <3>2, <3>3
  <2>6. (result.class = "success")' = TRUE
    BY <1>1
  <2>7. ASSUME NEW k \in DialRows'
        PROVE  LET row == rec'.rows[k]
                   later == {j \in DialRows' : j > k}
               IN  /\ row.egress \in Dialed'
                   /\ row.retry = IF row.retried THEN "retry_same_egress" ELSE "fallback"
                   /\ row.retry # "retry_same_egress" =>
                         /\ \A j \in later : rec'.rows[j].egress # row.egress
                         /\ row.health = "marked" <=> row.egress \in failures'
    BY <2>5
  <2> QED
    BY <2>6, <2>7 DEF EvidenceTellsTheStory
<1> QED
  BY <1>1, <1>7, <1>8 DEF StoryInv

\* At the end of the plan the latest failure's row is corrected to a stop.
LEMMA StoryExhausted ==
  ASSUME StoryInv, StoryContext, Exhausted
  PROVE  StoryInv'
<1> DEFINE n == Len(rec.rows)
<1>1. /\ pc = "plan" /\ pc' = "done" /\ startRow' = startRow /\ failures' = failures /\ dials' = dials
      /\ result' = [class |-> IF attempts = 0 THEN Synthetic ELSE last, egress |-> Nobody]
      /\ rec' = IF attempts = 0 THEN rec ELSE Corrected(rec, terminalRow)
  BY DEF Exhausted, path, dialing, evidence, history
<1>2. ~InAttempt /\ Settled = n /\ Dialed' = Dialed /\ attempts \in Nat /\ last # "success"
  BY <1>1 DEF InAttempt, Settled, Dialed, StoryContext, WalkTyped, SlotInv
<1>3. /\ n \in Nat /\ DOMAIN rec.rows = 1..n /\ startRow \in Nat /\ startRow <= n
      /\ \A k \in 1..n : rec.rows[k] \in Row /\ rec \in [rows : Seq(Row), dropped : Nat]
  BY RowsAre DEF StoryInv, RowsTyped
<1>4. (result.class = "success")' = FALSE
  BY <1>1, <1>2 DEF Synthetic
<1>5. CASE attempts = 0
  <2>1. rec' = rec
    BY <1>1, <1>5
  <2>2. ASSUME rec.dropped = 0 PROVE DialRows = {}
    <3>1. WalkStory
      BY <1>1, <2>2 DEF StoryInv
    <3>2. Dialed = {}
      <4>1. Touched = {}
        BY <1>5, FS_EmptySet DEF StoryContext, BudgetInv
      <4> QED
        BY <4>1 DEF Touched
    <3>3. \A k \in DialRows : k <= Settled
      BY <1>2, <1>3 DEF DialRows
    <3> QED
      BY <3>1, <3>2, <3>3 DEF WalkStory, Told
  <2>3. DialRows' = DialRows
    BY <2>1 DEF DialRows
  <2> QED
    BY <1>1, <2>1, <2>2, <2>3 DEF StoryInv, RowsTyped, EvidenceTellsTheStory
<1>6. CASE attempts # 0
  <2>1. rec' = Corrected(rec, terminalRow) /\ attempts > 0
    BY <1>1, <1>2, <1>6
  <2>2. /\ rec' \in [rows : Seq(Row), dropped : Nat] /\ rec'.dropped = rec.dropped /\ Len(rec'.rows) = n
        /\ \A k \in 1..n : rec'.rows[k] =
             IF k = terminalRow THEN [rec.rows[k] EXCEPT !.retry = "stop"] ELSE rec.rows[k]
    <3>1. rec \in [rows : Seq(Row), dropped : Nat]
      BY DEF StoryInv, RowsTyped
    <3> QED
      BY <2>1, <3>1, CorrectedKeeps
  <2>3. RowsTyped'
    BY <1>1, <1>3, <2>2 DEF RowsTyped
  <2>4. ASSUME rec'.dropped = 0 PROVE EvidenceTellsTheStory'
    <3>1. WalkStory
      BY <1>1, <2>2, <2>4 DEF StoryInv
    <3>2. DOMAIN rec'.rows = 1..n
      <4>1. rec'.rows \in Seq(Row)
        BY <2>2
      <4> QED
        BY <2>2, <4>1, LenProperties
    <3>3. \A k \in 1..n : /\ rec'.rows[k].egress = rec.rows[k].egress
                          /\ rec'.rows[k].phase = rec.rows[k].phase
                          /\ rec'.rows[k].retried = rec.rows[k].retried
                          /\ rec'.rows[k].health = rec.rows[k].health
                          /\ rec'.rows[k].retry = IF k = terminalRow THEN "stop" ELSE rec.rows[k].retry
      <4> SUFFICES ASSUME NEW k \in 1..n
                   PROVE  /\ rec'.rows[k].egress = rec.rows[k].egress
                          /\ rec'.rows[k].phase = rec.rows[k].phase
                          /\ rec'.rows[k].retried = rec.rows[k].retried
                          /\ rec'.rows[k].health = rec.rows[k].health
                          /\ rec'.rows[k].retry = IF k = terminalRow THEN "stop" ELSE rec.rows[k].retry
        OBVIOUS
      <4>1. CASE k = terminalRow
        <5>1. rec'.rows[k] = [rec.rows[k] EXCEPT !.retry = "stop"] /\ rec.rows[k] \in Row
          BY <1>3, <2>2, <4>1
        <5> QED
          BY <4>1, <5>1, StoppedRow
      <4>2. CASE k # terminalRow
        BY <2>2, <4>2
      <4> QED
        BY <4>1, <4>2
    <3>4. DialRows' = DialRows /\ \A k \in DialRows : k \in 1..n
      BY <1>3, <3>2, <3>3 DEF DialRows
    <3>5. Terminal
      BY <1>1, <2>1, <3>1 DEF WalkStory
    <3>6. ASSUME NEW k \in DialRows'
          PROVE  LET row == rec'.rows[k]
                     later == {j \in DialRows' : j > k}
                 IN  /\ row.egress \in Dialed'
                     /\ row.retry = IF row.retried THEN "retry_same_egress"
                                    ELSE IF later = {} THEN "stop" ELSE "fallback"
                     /\ row.retry # "retry_same_egress" =>
                           /\ \A j \in later : rec'.rows[j].egress # row.egress
                           /\ row.health = "marked" <=> row.egress \in failures'
      <4> DEFINE later == {j \in DialRows' : j > k}
      <4>1. k \in DialRows /\ k \in 1..n /\ k <= Settled
        BY <1>2, <1>3, <3>4
      <4>2. Told(k)
        BY <3>1, <4>1 DEF WalkStory
      <4>3. \A j \in later : j \in DialRows /\ j > k /\ j <= Settled /\ j \in 1..n
        BY <1>2, <1>3, <3>4
      <4>4. ~rec.rows[k].retried => \A j \in later : rec'.rows[j].egress # rec'.rows[k].egress
        BY <3>3, <4>1, <4>2, <4>3 DEF Told
      <4>5. CASE k = terminalRow
        <5>1. \A j \in DialRows : j <= terminalRow /\ j \in Int
          BY <3>4, <3>5 DEF Terminal
        <5>2. \A j \in later : FALSE
          BY <4>1, <4>3, <4>5, <5>1
        <5>3. later = {}
          BY <5>2
        <5>4. rec'.rows[k].retry = "stop" /\ ~rec'.rows[k].retried
          BY <3>3, <3>5, <4>1, <4>5 DEF Terminal
        <5>5. rec'.rows[k].egress \in Dialed' /\ (rec'.rows[k].health = "marked" <=> rec'.rows[k].egress \in failures')
          BY <1>1, <1>2, <3>3, <3>5, <4>1, <4>2, <4>5 DEF Told, Terminal
        <5> HIDE DEF later
        <5> QED
          BY <5>3, <5>4, <5>5 DEF later
      <4>6. CASE k # terminalRow
        <5>1. terminalRow \in later
          BY <3>4, <3>5, <4>1, <4>6 DEF Terminal
        <5>2. later # {}
          BY <5>1
        <5>3. /\ rec'.rows[k].egress \in Dialed'
              /\ rec'.rows[k].retry = IF rec'.rows[k].retried THEN "retry_same_egress" ELSE "fallback"
              /\ ~rec'.rows[k].retried => (rec'.rows[k].health = "marked" <=> rec'.rows[k].egress \in failures')
          BY <1>1, <1>2, <3>3, <4>1, <4>2, <4>6 DEF Told
        <5>4. rec'.rows[k].retried = rec.rows[k].retried
          BY <3>3, <4>1
        <5>5. CASE rec'.rows[k].retried
          BY <5>3, <5>5
        <5>6. CASE ~rec'.rows[k].retried
          BY <4>4, <5>2, <5>3, <5>4, <5>6
        <5> QED
          BY <5>5, <5>6
      <4> QED
        BY <4>5, <4>6
    <3> QED
      BY <1>4, <3>6 DEF EvidenceTellsTheStory
  <2> QED
    BY <1>1, <2>3, <2>4 DEF StoryInv
<1> QED
  BY <1>5, <1>6

\* A cancellation touches neither rows nor walk.
LEMMA StoryCancel ==
  ASSUME StoryInv, StoryContext, UNCHANGED <<plan, policy, next, attempts, pc, startRow, terminalRow, rec, failures, dials, result>>
  PROVE  StoryInv'
BY DEF StoryInv, RowsTyped, WalkStory, Told, Terminal, DialRows, Settled, InAttempt, Dialed, EvidenceTellsTheStory

\* Every step of the executor keeps the story, given what the walk keeps.
LEMMA StoryStep == StoryInv /\ StoryContext /\ [ExecNext]_execVars => StoryInv'
<1> SUFFICES ASSUME StoryInv, StoryContext, [ExecNext]_execVars PROVE StoryInv'
  OBVIOUS
<1>1. CASE Cancel \/ UNCHANGED execVars
  <2>1. UNCHANGED <<plan, policy, next, attempts, pc, startRow, terminalRow, rec, failures, dials, result>>
    BY <1>1 DEF Cancel, execVars, path, dialing, evidence, history
  <2> QED
    BY <2>1, StoryCancel
<1>2. ASSUME NEW v \in NetErrors \cup Statuses, Dial(v) PROVE StoryInv'
  <2>1. /\ pc = "ready" /\ pc' = "verdict" /\ rec' = rec /\ failures' = failures /\ plan' = plan
        /\ next' = next /\ startRow' = startRow /\ dials' = [dials EXCEPT ![Current] = @ + 1]
    BY <1>2 DEF Dial, path, dialing, evidence, history
  <2>2. InAttempt /\ InAttempt' /\ pc # "done" /\ pc' # "done"
    BY <2>1 DEF InAttempt
  <2>3. \A e \in Dialed : e \in Dialed'
    <3>1. dials \in [Egress -> Nat] /\ Current \in Egress
      BY <2>2, CurrentTyped DEF StoryContext, WalkTyped
    <3> QED
      BY <2>1, <3>1 DEF Dialed
  <2> QED
    BY <2>1, <2>2, <2>3, RowsUntouched
<1>3. CASE Classify \/ Drained \/ GiveUp \/ ErrorBodyEnds
  <2>1. /\ pc \in {"verdict", "draining", "classified", "body"}
        /\ pc' \in {"classified", "ready", "body", "failed"} /\ rec' = rec /\ failures' = failures /\ plan' = plan
        /\ next' = next /\ startRow' = startRow /\ dials' = dials
    BY <1>3 DEF Classify, Drained, GiveUp, ErrorBodyEnds, path, dialing, evidence, history
  <2>2. InAttempt /\ InAttempt' /\ pc # "done" /\ pc' # "done"
    BY <2>1 DEF InAttempt
  <2>3. \A e \in Dialed : e \in Dialed'
    BY <2>1 DEF Dialed
  <2> QED
    BY <2>1, <2>2, <2>3, RowsUntouched
<1> QED
  BY <1>1, <1>2, <1>3, StorySkip, StoryStart, StoryRetry, StoryFail, StorySucceed, StoryExhausted
  DEF ExecNext, ExecStep

\* ExecuteObserved: the types of the walk, its slots and its budget together.
LEMMA SlotInvariant == ExecSpec => []SlotInv
<1>1. ExecInit => SlotInv
  BY DEF ExecInit, SlotInv, InAttempt, Nothing
<1> QED
  BY <1>1, SlotStep, PTL DEF ExecSpec

\* fallback.go, evidence.go: with no row dropped, the rows of a finished
\* request attribute every dial to the egress dialed, say "fallback" only where
\* another egress was dialed later and "stop" exactly at the last dial.
THEOREM EvidenceCorrect == ExecSpec => []EvidenceTellsTheStory
<1>1. ExecInit => StoryInv
  <2> SUFFICES ASSUME ExecInit PROVE StoryInv
    OBVIOUS
  <2>1. pc = "plan" /\ rec.rows = <<>> /\ rec = [rows |-> <<>>, dropped |-> 0] /\ startRow = 0 /\ attempts = 0
    BY DEF ExecInit, NewRecorder
  <2>2. DialRows = {} /\ ~InAttempt
    BY <2>1 DEF DialRows, InAttempt
  <2>3. RowsTyped
    BY <2>1 DEF RowsTyped
  <2>4. WalkStory
    BY <2>1, <2>2 DEF WalkStory
  <2> QED
    BY <2>1, <2>3, <2>4 DEF StoryInv
<1>2. StoryInv => EvidenceTellsTheStory
  BY DEF StoryInv, EvidenceTellsTheStory
<1>3. WalkTyped /\ BudgetInv /\ SlotInv => StoryContext
  BY DEF StoryContext
<1> QED
  BY <1>1, <1>2, <1>3, StoryStep, WalkTypedInvariant, BudgetInvariant, SlotInvariant, PTL DEF ExecSpec
=============================================================================
