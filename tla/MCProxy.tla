------------------------------- MODULE MCProxy -------------------------------
(* Two requests and three generations: the second swaps the transport of e1 *)
(* and turns fallback off, the third matches no request.                    *)
EXTENDS Proxy, TLC

CONSTANTS e1, e2, r1, r2

MCTransport == {"a", "b", "direct"}
MCKey == {e1, e2} \X MCTransport

MCPolicy == [enabled |-> TRUE, threshold |-> 1, cooldown |-> 1]
MCPolicies == {MCPolicy}

Conf1 == [route |-> <<e1, e2>>, enabled |-> {e1, e2}, transport |-> e1 :> "a" @@ e2 :> "direct",
          cap |-> e1 :> 1 @@ e2 :> 1, policy |-> MCPolicy, fallback |-> TRUE, max |-> 2]
Conf2 == [Conf1 EXCEPT !.transport[e1] = "b", !.fallback = FALSE]
Conf3 == [Conf2 EXCEPT !.route = <<>>]

MCConfs == <<Conf1, Conf2, Conf3>>
=============================================================================
