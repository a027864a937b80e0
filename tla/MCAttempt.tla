----------------------------- MODULE MCAttempt -----------------------------
(* Chains of up to two redirects and one that would be a third. *)
EXTENDS Attempt
=============================================================================
