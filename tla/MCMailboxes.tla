----------------------------- MODULE MCMailboxes -----------------------------
(* Mailboxes for TLC: an address, the same in upper case, and another one. *)
EXTENDS Mailboxes, TLC

CONSTANTS low, upp, other, f1, f2

LowerCase == (low :> low) @@ (upp :> low) @@ (other :> other)
DomainPart == (low :> "net") @@ (upp :> "NET") @@ (other :> "net")

(* One address is configured in two spellings. *)
TwoSeeds == <<[addr |-> upp, forward |-> f1], [addr |-> low, forward |-> None]>>

Symmetry == Permutations(Requests)
=============================================================================
