----------------------------- MODULE MCProcess -----------------------------
(* Two connections, one release published while the caches warm up. *)
EXTENDS Process
=============================================================================
