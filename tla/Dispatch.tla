------------------------------ MODULE Dispatch ------------------------------
(***************************************************************************)
(* What the executor promises its caller, free of retries, slots, skips    *)
(* and evidence: egresses are tried one after the other, none twice, no    *)
(* more than the budget; only a verdict about the path lets the request    *)
(* move on; and the caller gets the verdict of the last egress tried, or   *)
(* a synthetic one if none was.                                            *)
(***************************************************************************)
EXTENDS Naturals

CONSTANTS
    Egress,
    Class,      \* verdicts an attempt can end with
    MayMove     \* the verdicts that allow another egress

VARIABLES
    left,       \* how many more egresses the request may try
    tried,      \* egresses tried so far
    last,       \* the latest verdict, Nothing before the first
    outcome     \* what the caller gets, Nothing until it gets it

Nothing == "nothing"
Synthetic == "synthetic"

dispatchVars == <<left, tried, last, outcome>>

Init ==
    /\ left \in Nat \ {0}
    /\ tried = {}
    /\ last = Nothing
    /\ outcome = Nothing

Try(e, class) ==
    /\ outcome = Nothing
    /\ e \notin tried
    /\ left > 0
    /\ tried' = tried \cup {e}
    /\ last' = class
    /\ outcome' \in IF class \in MayMove THEN {Nothing, class} ELSE {class}
    /\ left' = left - 1

GiveUp ==
    /\ outcome = Nothing
    /\ outcome' = IF tried = {} THEN Synthetic ELSE last
    /\ UNCHANGED <<left, tried, last>>

Next == GiveUp \/ \E e \in Egress, class \in Class : Try(e, class)

Spec == Init /\ [][Next]_dispatchVars
=============================================================================
