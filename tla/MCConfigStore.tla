--------------------------- MODULE MCConfigStore ----------------------------
(* Three valid contents (two of which log at different levels), one that   *)
(* does not parse, and up to four writes of the file.                      *)
EXTENDS ConfigStore

CONSTANTS c1, c2, c3

MCLevelOf(c) == IF c = c2 THEN "debug" ELSE "info"
=============================================================================
