------------------------- MODULE MCSchedulerReload --------------------------
(* One route over egresses a, b and c: a round_robin shape and two         *)
(* weighted ones that differ in the weights (the second has a weight-0     *)
(* member first), two overlapping requests, three generations.             *)
EXTENDS SchedulerReload, TLC

CONSTANTS a, b, c

Shape(s, m, w) == [strategy |-> s, members |-> m, weight |-> w]

MCShapes ==
    {Shape("", <<a, b, c>>, (a :> 1 @@ b :> 1 @@ c :> 1)),
     Shape("weighted_round_robin", <<a, b, c>>, (a :> 3 @@ b :> 1 @@ c :> 1)),
     Shape("weighted_round_robin", <<a, b, c>>, (a :> 0 @@ b :> 2 @@ c :> 1))}

MCSymmetry == Permutations(Request)
=============================================================================
