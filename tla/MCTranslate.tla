---------------------------- MODULE MCTranslate ----------------------------
(* The messages of a chat upstream: the ones a stream is made of, marks    *)
(* alone and paired in one message, vendor reasoning, calls that come in   *)
(* one piece, in two, interleaved or without a name, a custom tool's input *)
(* whole and in pieces, a second choice, and messages that are no       *)
(* chunks.                                                                 *)
EXTENDS Translate

Quiet == [kind |-> "chunk", choice |-> 0, reasoning |-> <<>>, vendor |-> FALSE, content |-> NoContent,
          calls |-> <<>>, finish |-> FALSE, usage |-> "none"]

Says(opens, head, closes, tail) ==
    [Quiet EXCEPT !.content = [opens |-> opens, head |-> head, closes |-> closes, tail |-> tail]]
Text == Says(FALSE, <<"text">>, FALSE, <<>>)

Entry(slot, id, name, args) == [slot |-> slot, id |-> id, name |-> name, args |-> args]
Calls(entries) == [Quiet EXCEPT !.calls = entries]
More(slot) == Entry(slot, FALSE, "", <<IF slot = 0 THEN "a" ELSE "b">>)

MCPlainKinds ==
    {Text, Calls(<<More(0)>>), [Quiet EXCEPT !.finish = TRUE, !.usage = "valid"]}

MCChatKinds ==
    MCPlainKinds \cup
    {[Quiet EXCEPT !.reasoning = <<"field">>], [Text EXCEPT !.reasoning = <<"field">>, !.vendor = TRUE],
     Says(TRUE, <<"text">>, FALSE, <<>>), Says(FALSE, <<"text">>, TRUE, <<"tail">>),
     Says(TRUE, <<>>, FALSE, <<>>), Says(FALSE, <<>>, TRUE, <<>>), Says(TRUE, <<"text">>, TRUE, <<"tail">>),
     [Text EXCEPT !.choice = 1], [Text EXCEPT !.finish = TRUE], [Text EXCEPT !.calls = <<Entry(0, TRUE, "fn", <<"a">>)>>],
     Calls(<<Entry(0, TRUE, "fn", <<>>)>>), Calls(<<Entry(0, TRUE, "", <<>>)>>), Calls(<<Entry(0, TRUE, "", <<"a">>)>>),
     Calls(<<Entry(0, FALSE, "fn", <<"a">>)>>),
     Calls(<<Entry(0, TRUE, "custom", <<"{input:", "a", "}">>)>>), Calls(<<Entry(0, TRUE, "custom", <<"{input:">>)>>),
     Calls(<<Entry(0, FALSE, "", <<"}">>)>>),
     Calls(<<Entry(1, TRUE, "fn", <<"b">>), More(0)>>),
     [Calls(<<Entry(1, TRUE, "fn", <<>>)>>) EXCEPT !.finish = TRUE],
     [Quiet EXCEPT !.kind = "error"], [Quiet EXCEPT !.kind = "usage", !.usage = "valid"], [Quiet EXCEPT !.kind = "noise"]}

MCVariedEvents == [r \in {"stream", "forced"} |-> IF r = "stream" THEN 3 ELSE 1]

MCMaxEvents == [u \in {"chat", "responses"} |-> IF u = "chat" THEN 4 ELSE 5]
=============================================================================
