---------------------------- MODULE MCInboundMail ----------------------------
(* InboundMail for TLC: interchangeable sessions and message ids. *)
EXTENDS InboundMail, TLC

Symmetry == {p @@ q : p \in Permutations(Sessions), q \in Permutations(Ids)}
=============================================================================
