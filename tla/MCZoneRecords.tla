---------------------------- MODULE MCZoneRecords ----------------------------
(* ZoneRecords for TLC: a domain name, and the same one in upper case. *)
EXTENDS ZoneRecords, TLC

CONSTANTS low, upp, v1, t1, t2

LowerCase == (low :> low) @@ (upp :> low)

(* Two configured records, the second of a name that is not a configured domain. *)
TwoSeeds == [domain : {low, upp}, value : {v1}, ttl : {t1}]

Symmetry == {p @@ q : p \in Permutations(Requests), q \in Permutations(RecordIds)}
=============================================================================
