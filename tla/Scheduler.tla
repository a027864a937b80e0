----------------------------- MODULE Scheduler ------------------------------
(***************************************************************************)
(* internal/routing: the rotation state of each route.  Plan orders the    *)
(* eligible egresses of a matched route; stateFor decides which rotation   *)
(* state a request's plan reads and writes when generations of the         *)
(* configuration overlap; PruneRoutes forgets the routes a serviced        *)
(* generation no longer names.                                             *)
(*                                                                         *)
(* A route's Shape is what one generation says of it: strategy, the        *)
(* ordered member egresses, their weights.  The positional cursor of       *)
(* round_robin is kept modulo CursorPeriod, a common multiple of every     *)
(* possible number of heads: Plan only uses the cursor modulo that number. *)
(***************************************************************************)
EXTENDS Filtering, Integers, Sequences, FiniteSets, FiniteSetsExt, SequencesExt

CONSTANTS
    RouteId,
    Shapes,        \* the shapes a generation may give a route
    CursorPeriod

Strategies == {"", "round_robin", "weighted_round_robin"}

ASSUME ShapesTyped ==
    \A s \in Shapes : /\ s.strategy \in Strategies
                      /\ s.members \in Seq(ToSet(s.members))
                      /\ IsInjective(s.members) /\ Len(s.members) > 0
                      /\ \A e \in ToSet(s.members) : s.weight[e] \in Nat

\* The cursor is read modulo the number of heads, which this keeps exact.
ASSUME CursorPeriodCommon ==
    /\ CursorPeriod \in Nat \ {0}
    /\ \A s \in Shapes : \A n \in 1..Len(s.members) : CursorPeriod % n = 0

VARIABLE rot       \* Scheduler.state: route id -> rotation state

IsWRR(shape) == shape.strategy = "weighted_round_robin"

\* config.File validation: a weighted route has a positive-weight member.
ValidShape(s) == IsWRR(s) => \E e \in ToSet(s.members) : s.weight[e] > 0

-----------------------------------------------------------------------------
(* Pure part: identity of the rotation state and the choice of the head.   *)

\* schedulerFingerprint: an unset strategy is round_robin; weights only
\* belong to the identity when the strategy reads them.
Fingerprint(shape) ==
    [strategy |-> IF shape.strategy = "" THEN "round_robin" ELSE shape.strategy,
     members |-> shape.members,
     weights |-> IF IsWRR(shape)
                 THEN [i \in 1..Len(shape.members) |-> shape.weight[shape.members[i]]]
                 ELSE <<>>]

FreshState(shape, gen) ==
    [fingerprint |-> Fingerprint(shape),
     generation |-> gen,
     cursor |-> 0,
     cw |-> [e \in ToSet(shape.members) |-> 0]]

Pool_WithZeroWeights(shape, heads) ==
    IF IsWRR(shape) THEN heads ELSE <<>>

\* Only positive-weight heads can be selected under weighted_round_robin.
Pool(shape, heads) ==
    IF IsWRR(shape) THEN Only(heads, {e \in ToSet(heads) : shape.weight[e] > 0}) ELSE <<>>

\* No head, or none the strategy may start at: an empty plan, no state touched.
Unservable(shape, heads) ==
    heads = <<>> \/ (IsWRR(shape) /\ Pool(shape, heads) = <<>>)

\* nginx's smooth selection: every candidate gains its weight, the largest
\* total wins (the first in head order on a tie).
Raised(st, shape, pool) ==
    [e \in DOMAIN st.cw |-> st.cw[e] + (IF e \in ToSet(pool) THEN shape.weight[e] ELSE 0)]

FirstBest(cw, pool) ==
    pool[Min({i \in 1..Len(pool) : \A j \in 1..Len(pool) : cw[pool[i]] >= cw[pool[j]]})]

PoolWeight_AllMembers(shape, pool) ==
    MapThenSumSet(LAMBDA e : shape.weight[e], ToSet(shape.members))

PoolWeight(shape, pool) == MapThenSumSet(LAMBDA e : shape.weight[e], ToSet(pool))

WeightedTurn(st, shape, heads) ==
    LET pool == Pool(shape, heads)
        cw   == Raised(st, shape, pool)
        best == FirstBest(cw, pool)
    IN  [attempts |-> <<best>> \o Only(heads, ToSet(heads) \ {best}),
         state |-> [st EXCEPT !.cw = [cw EXCEPT ![best] = @ - PoolWeight(shape, pool)]]]

RotatingTurn(st, heads) ==
    LET i == st.cursor % Len(heads)
    IN  [attempts |-> SubSeq(heads, i + 1, Len(heads)) \o SubSeq(heads, 1, i),
         state |-> [st EXCEPT !.cursor = (@ + 1) % CursorPeriod]]

Turn(st, shape, heads) ==
    IF IsWRR(shape) THEN WeightedTurn(st, shape, heads) ELSE RotatingTurn(st, heads)

-----------------------------------------------------------------------------
(* The scheduler's operations.                                             *)

\* stateFor: the stored state on a match (its generation is NOT restamped),
\* a throwaway for a snapshot older than the state's writer, else a fresh
\* state that replaces the stored one.
StateFor(route, shape, gen) ==
    IF route \in DOMAIN rot /\ rot[route].fingerprint = Fingerprint(shape)
    THEN [st |-> rot[route], stored |-> TRUE]
    ELSE IF route \in DOMAIN rot /\ gen < rot[route].generation
    THEN [st |-> FreshState(shape, gen), stored |-> FALSE]
    ELSE [st |-> FreshState(shape, gen), stored |-> TRUE]

\* Plan, under Scheduler.mu: sets rot' and returns the attempts.
PlanAttempts(route, shape, gen, heads) ==
    IF Unservable(shape, heads) THEN <<>>
    ELSE Turn(StateFor(route, shape, gen).st, shape, heads).attempts

PlanUpdates(route, shape, gen, heads) ==
    LET sf == StateFor(route, shape, gen)
    IN  IF Unservable(shape, heads) \/ ~sf.stored THEN UNCHANGED rot
        ELSE rot' = [r \in DOMAIN rot \cup {route} |->
                       IF r = route THEN Turn(sf.st, shape, heads).state ELSE rot[r]]

PruneRoutes(keep) == rot' = [r \in DOMAIN rot \cap keep |-> rot[r]]

SchedulerInit == rot = [r \in {} |-> 0]
=============================================================================
