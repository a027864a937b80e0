----------------------------- MODULE Filtering -----------------------------
(***************************************************************************)
(* Filtering a sequence, written as a recursive function.                  *)
(***************************************************************************)
EXTENDS Naturals, Sequences

\* The elements of s that are in U, in their order.
Only(s, U) ==
    LET f[i \in 0..Len(s)] ==
          IF i = 0 THEN <<>> ELSE IF s[i] \in U THEN Append(f[i - 1], s[i]) ELSE f[i - 1]
    IN  f[Len(s)]
=============================================================================
