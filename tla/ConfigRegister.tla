--------------------------- MODULE ConfigRegister ---------------------------
(***************************************************************************)
(* What config.Store promises its readers: one register that holds a       *)
(* configuration generation.  It starts with a valid configuration under   *)
(* generation 1; it only ever moves to a valid configuration under the     *)
(* next generation number; nothing else happens to it.                     *)
(***************************************************************************)
EXTENDS Naturals

CONSTANT ValidContent

VARIABLE cur       \* the published snapshot: its generation and its content

Init == \E c \in ValidContent : cur = [gen |-> 1, content |-> c]

Publish(c) == cur' = [gen |-> cur.gen + 1, content |-> c]

Next == \E c \in ValidContent : Publish(c)

Spec == Init /\ [][Next]_cur
=============================================================================
