-------------------------- MODULE MCHealthRegistry --------------------------
(* HealthRegistry on two identities and three requests of generations whose  *)
(* policies differ: thresholds 3 and 2 with a short and a long cooldown, a *)
(* generation with health disabled and one whose threshold never cools.    *)
EXTENDS HealthRegistry

Policy(e, t, c) == [enabled |-> e, threshold |-> t, cooldown |-> c]

MCPolicies == {Policy(TRUE, 3, 1), Policy(TRUE, 2, 2), Policy(FALSE, 2, 2), Policy(TRUE, 0, 1)}
=============================================================================
