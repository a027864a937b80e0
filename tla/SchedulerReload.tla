-------------------------- MODULE SchedulerReload ---------------------------
(***************************************************************************)
(* The scheduler under its real callers: requests of overlapping           *)
(* configuration generations.  A request keeps the generation it arrived   *)
(* under; before it plans it runs the once-per-generation maintenance      *)
(* (Server.onGeneration), which a stale generation never does; its heads   *)
(* are whatever members happen to be eligible at that moment.              *)
(***************************************************************************)
EXTENDS Scheduler

CONSTANTS
    Request,
    MaxGen         \* bound: generations per behaviour (initial load included)

ASSUME MaxGenTyped == MaxGen \in Nat \ {0}

NoRoute == [strategy |-> "none"]

VARIABLES
    conf,          \* generation -> route id -> Shape or NoRoute
    prunedGen,     \* Server.prunedGen
    req            \* request -> [pc, gen, route, plan]

vars == <<rot, conf, prunedGen, req>>

Configs == [RouteId -> {s \in Shapes : ValidShape(s)} \cup {NoRoute}]

Idle == [pc |-> "idle"]

ShapeAt(gen, route) == conf[gen][route]

Live == Len(conf)

\* Scheduler state, generations and requests have their types.
TypeOK ==
    /\ DOMAIN rot \subseteq RouteId
    /\ \A r \in DOMAIN rot :
          /\ rot[r].generation \in 1..Live
          /\ rot[r].cursor \in 0..(CursorPeriod - 1)
          /\ rot[r].cw \in [ToSet(rot[r].fingerprint.members) -> Int]
    /\ conf \in UNION {[1..n -> Configs] : n \in 1..MaxGen}
    /\ prunedGen \in 0..Live
    /\ \A q \in Request : req[q].pc \in {"idle", "matched", "planned"}

Init ==
    /\ SchedulerInit
    /\ \E c \in Configs : conf = <<c>>
    /\ prunedGen = 0
    /\ req = [q \in Request |-> Idle]

\* config.Store swaps in a new generation.
Reload(c) ==
    /\ Live < MaxGen
    /\ conf' = Append(conf, c)
    /\ UNCHANGED <<rot, prunedGen, req>>

\* relay: snapshot at arrival, then match (an unmatched request is a 400).
Arrive(q, route) ==
    /\ req[q].pc = "idle"
    /\ ShapeAt(Live, route) # NoRoute
    /\ req' = [req EXCEPT ![q] = [pc |-> "matched", gen |-> Live, route |-> route]]
    /\ UNCHANGED <<rot, conf, prunedGen>>

\* onGeneration: the first request of a generation newer than the last one
\* serviced prunes under clientMu; every other request goes straight on.
Service(q) ==
    /\ req[q].pc = "matched"
    /\ prunedGen < req[q].gen
    /\ prunedGen' = req[q].gen
    /\ PruneRoutes({r \in RouteId : ShapeAt(req[q].gen, r) # NoRoute})
    /\ UNCHANGED <<conf, req>>

\* routeHeads: any members may be eligible, in configuration order.
HeadSets(shape) ==
    {Only(shape.members, up) : up \in SUBSET ToSet(shape.members)}

Plan(q) ==
    /\ req[q].pc = "matched"
    /\ prunedGen >= req[q].gen
    /\ LET shape == ShapeAt(req[q].gen, req[q].route)
       IN  \E heads \in HeadSets(shape) :
             /\ PlanUpdates(req[q].route, shape, req[q].gen, heads)
             /\ req' = [req EXCEPT ![q] =
                   [pc |-> "planned", gen |-> req[q].gen, route |-> req[q].route, heads |-> heads,
                    plan |-> PlanAttempts(req[q].route, shape, req[q].gen, heads)]]
    /\ UNCHANGED <<conf, prunedGen>>

Finish(q) ==
    /\ req[q].pc = "planned"
    /\ req' = [req EXCEPT ![q] = Idle]
    /\ UNCHANGED <<rot, conf, prunedGen>>

Next ==
    \/ \E c \in Configs : Reload(c)
    \/ \E q \in Request : \/ \E route \in RouteId : Arrive(q, route)
                          \/ Service(q)
                          \/ Plan(q)
                          \/ Finish(q)

Spec == Init /\ [][Next]_vars

-----------------------------------------------------------------------------
(* Properties. *)

PlanShape(q) == ShapeAt(req[q].gen, req[q].route)

\* routing.go, RoutePlan: a plan is the head set of ITS snapshot, each once,
\* and "no current_weight value - fresh, stale or flapped - can put" a
\* weight-0 member at its head.
PlansOrderTheHeads ==
    \A q \in Request : req[q].pc = "planned" /\ req[q].plan # <<>> =>
        /\ IsInjective(req[q].plan)
        /\ ToSet(req[q].plan) = ToSet(req[q].heads)
        /\ IsWRR(PlanShape(q)) => PlanShape(q).weight[Head(req[q].plan)] > 0

\* Smooth selection neither creates nor loses credit, whatever subset was
\* eligible at each turn: the running totals of a route sum to zero, and each
\* stays within the largest weight times the number of its siblings, so no
\* member is owed or overdrawn for good, however many turns it was out of the
\* plan (routing.go, Plan: the weighted branch).
CreditStaysInBounds ==
    \A r \in DOMAIN rot :
        LET cw    == rot[r].cw
            top   == Max({0} \cup ToSet(rot[r].fingerprint.weights))
            reach == top * (Cardinality(DOMAIN cw) - 1)
        IN  /\ MapThenSumSet(LAMBDA e : cw[e], DOMAIN cw) = 0
            /\ \A e \in DOMAIN cw : cw[e] \in -reach..reach

\* routing.go, stateFor: a stale request plans against throwaway state "and
\* the live rotation is left exactly as the newer generation left it": while
\* a request of the live generation that planned with a rotation is still
\* served, no request of an older generation replaces that rotation.
LiveRotationSurvivesStale ==
    [][\A p, q \in Request, r \in DOMAIN rot :
          /\ req[p].pc = "planned" /\ req[p].route = r /\ req[p].gen = Live /\ req[p].plan # <<>>
          /\ rot[r].fingerprint = Fingerprint(ShapeAt(Live, r))
          /\ req[q].pc = "matched" /\ req'[q].pc = "planned" /\ req[q].gen < Live
          => rot'[r].fingerprint = rot[r].fingerprint]_vars
=============================================================================
