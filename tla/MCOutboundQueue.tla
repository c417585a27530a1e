--------------------------- MODULE MCOutboundQueue ---------------------------
(* Instances of OutboundQueue for TLC. *)
EXTENDS OutboundQueue, TLC

CONSTANTS j1, j2, m1, b1, b2

(* Two recipients of one message, or one. *)
OneMessage == j1 :> m1 @@ j2 :> m1
OneJob == j1 :> m1

(* The jobs' senders. *)
TwoSenders == j1 :> b1 @@ j2 :> b2
SameSender == j1 :> b1 @@ j2 :> b1
OneSender == j1 :> b1

WorkerSymmetry == Permutations(Workers)
=============================================================================
