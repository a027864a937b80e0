----------------------------- MODULE MCExecutor -----------------------------
(* Plans of up to three egresses, every retry rule, room for every row. *)
EXTENDS Executor

CONSTANTS e1, e2, e3

MCPlans == {<<>>, <<e1, e2>>, <<e1, e2, e3>>}
=============================================================================
