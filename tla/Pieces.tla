------------------------------- MODULE Pieces -------------------------------
(***************************************************************************)
(* Texts that arrive in pieces, put together in their order.               *)
(***************************************************************************)
EXTENDS Sequences, SequencesExt

Texts(seqs) == FoldLeft(LAMBDA a, t : a \o t, <<>>, seqs)

Mapped(Op(_), s) == [i \in DOMAIN s |-> Op(s[i])]
=============================================================================
