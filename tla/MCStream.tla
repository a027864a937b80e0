------------------------------ MODULE MCStream ------------------------------
(* The constants are in the configurations: a channel of one line, so that  *)
(* the reader blocks on the line after it, and a window of two ticks, so    *)
(* that progress can come in the middle of it.                              *)
EXTENDS Stream
=============================================================================
