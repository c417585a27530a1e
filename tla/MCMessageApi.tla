----------------------------- MODULE MCMessageApi -----------------------------
(* MessageApi for TLC. *)
EXTENDS MessageApi

CONSTANTS x, y

Twice == <<x, y, x>>

(* Two ends of a behaviour.  Once the reader has its last page what it saw     *)
(* does not change any more, and the rest of the system has the same steps as  *)
(* before it began.  And a reader with limit = 0 that is at its second request *)
(* asks what it asked before.                                                  *)
Over == read = "done" \/ (Walking /\ query.limit = 0 /\ pages > 1)

MCNext == ~Over /\ Next

MCSpec == Init /\ [][MCNext]_vars
=============================================================================
