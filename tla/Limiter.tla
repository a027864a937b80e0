------------------------------ MODULE Limiter -------------------------------
(***************************************************************************)
(* upstream.Limiter and the slot discipline of its callers: the executor   *)
(* acquires a slot at dial time; a failed attempt releases it at once; a   *)
(* winning attempt carries it on its response body (slotReleaseBody),      *)
(* which closes the connection first and frees the slot after.             *)
(*                                                                         *)
(* Counts are per egress ID, so they outlive a reload that changes the     *)
(* cap: each request acquires under the cap of its own generation.  A cap  *)
(* of 0 is "unlimited" and such a request is not counted at all.           *)
(***************************************************************************)
EXTENDS Naturals, FiniteSets

CONSTANTS
    Egress,    \* egress ids
    User,      \* requests: each holds at most one slot at a time
    Caps       \* the values of max_concurrency over all generations

ASSUME UserFinite == IsFiniteSet(User)
ASSUME CapsTyped == Caps \subseteq Nat

VARIABLES
    cur,       \* Limiter.cur
    slot       \* per request: its phase, and the egress and cap it dials under

limiterVars == <<cur, slot>>

Free == [phase |-> "none"]
Phase == {"dialing", "open", "closed"}
Held == [phase : Phase, id : Egress, cap : Caps]

\* The limiter's types: a count never goes negative.
LimiterTypeOK ==
    /\ cur \in [Egress -> Nat]
    /\ slot \in [User -> {Free} \cup Held]

LimiterInit ==
    /\ cur = [e \in Egress |-> 0]
    /\ slot = [u \in User |-> Free]

-----------------------------------------------------------------------------
(* The limiter's own operations. *)

\* The scheduler's soft check: no reservation.
Peek(e, max) == max = 0 \/ cur[e] < max

Acquire_OffByOne(e, max) ==
    IF max = 0 THEN UNCHANGED cur
    ELSE /\ cur[e] <= max
         /\ cur' = [cur EXCEPT ![e] = @ + 1]

\* Disabled when the egress is full (Acquire answers false).
Acquire(e, max) ==
    IF max = 0 THEN UNCHANGED cur
    ELSE /\ cur[e] < max
         /\ cur' = [cur EXCEPT ![e] = @ + 1]

Full(e, max) == max # 0 /\ cur[e] >= max

\* The code's Release takes no cap: it cannot tell a counted acquisition
\* from one that was never counted.
ReleaseSlot(e) == cur' = [cur EXCEPT ![e] = IF @ > 0 THEN @ - 1 ELSE 0]

-----------------------------------------------------------------------------
(* The discipline of the executor and of the response body. *)

InPhase(u, p) == slot[u].phase = p

\* Acquire and dial: the connection may be up from here on.
Dial(u, e, max) ==
    /\ InPhase(u, "none")
    /\ Acquire(e, max)
    /\ slot' = [slot EXCEPT ![u] = [phase |-> "dialing", id |-> e, cap |-> max]]

\* The dial failed: nothing is held open, the slot goes at once.
DialFails(u) ==
    /\ InPhase(u, "dialing")
    /\ ReleaseSlot(slot[u].id)
    /\ slot' = [slot EXCEPT ![u] = Free]

\* A live response: its body now owns the slot.
DialSucceeds(u) ==
    /\ InPhase(u, "dialing")
    /\ slot' = [slot EXCEPT ![u].phase = "open"]
    /\ UNCHANGED cur

CloseBody_FreesToo(u) ==
    /\ InPhase(u, "open")
    /\ ReleaseSlot(slot[u].id)
    /\ slot' = [slot EXCEPT ![u].phase = "closed"]

\* slotReleaseBody.Close, first half: the underlying body is closed.
CloseBody(u) ==
    /\ InPhase(u, "open")
    /\ slot' = [slot EXCEPT ![u].phase = "closed"]
    /\ UNCHANGED cur

\* Second half: the slot is freed, once however often Close is called.
FreeSlot(u) ==
    /\ InPhase(u, "closed")
    /\ ReleaseSlot(slot[u].id)
    /\ slot' = [slot EXCEPT ![u] = Free]

LimiterNext ==
    \E u \in User :
        \/ \E e \in Egress, max \in Caps : Dial(u, e, max)
        \/ DialFails(u)
        \/ DialSucceeds(u)
        \/ CloseBody(u)
        \/ FreeSlot(u)

LimiterSpec == LimiterInit /\ [][LimiterNext]_limiterVars

-----------------------------------------------------------------------------
(* Properties. *)

Holding(e) == {u \in User : ~InPhase(u, "none") /\ slot[u].id = e}

\* Requests whose acquisition was counted.
Counted(e) == {u \in Holding(e) : slot[u].cap > 0}

\* fallback.go: the count is exactly the slots held, so an egress is neither
\* starved by a leaked slot nor oversubscribed by a slot freed twice.
CountMatchesHolders == \A e \in Egress : cur[e] = Cardinality(Counted(e))

Connected(e) == {u \in Counted(e) : slot[u].phase \in {"dialing", "open"}}

\* fallback.go, slotReleaseBody: the cap is a true upper bound on the
\* connections held.  Caps of different generations may be live at once: a
\* request never opens a connection past ITS OWN cap.
DialsWithinCap ==
    [][\A u \in User, e \in Egress :
          /\ InPhase(u, "none")
          /\ InPhase(u, "dialing")' /\ slot'[u].id = e /\ slot'[u].cap > 0
          => Cardinality(Connected(e)') <= slot'[u].cap]_limiterVars
=============================================================================
