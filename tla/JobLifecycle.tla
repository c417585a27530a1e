----------------------------- MODULE JobLifecycle -----------------------------
(***************************************************************************)
(* What the outbound queue promises about one delivery job, whatever the   *)
(* worker is doing: the lifecycle documented on OutboundStatus in          *)
(* src/src/db.rs.  A job is pending until it is delivered, given up or     *)
(* deleted; it is delivered only after a peer accepted it, given up when   *)
(* its counter reaches MaxTries, and never leaves a terminal phase except  *)
(* by deletion.  By the documentation MaxTries is max_attempts; the queue  *)
(* implements this lifecycle with max_attempts + 1.                        *)
(***************************************************************************)
EXTENDS Naturals

CONSTANTS Jobs, MaxTries

VARIABLES
    phase,  \* of each job
    sends,  \* SMTP transactions a peer accepted
    tries   \* delivery cycles counted so far

vars == <<phase, sends, tries>>

Init ==
    /\ phase = [j \in Jobs |-> "none"]
    /\ sends = [j \in Jobs |-> 0]
    /\ tries = [j \in Jobs |-> 0]

Submit(j) ==
    /\ phase[j] = "none"
    /\ phase' = [phase EXCEPT ![j] = "pending"]
    /\ UNCHANGED <<sends, tries>>

(* A peer takes the mail.  The worker may be mid-transaction while the job   *)
(* is deleted, so a removed job can still be accepted; a settled one cannot. *)
Accept(j) ==
    /\ phase[j] \in {"pending", "removed"}
    /\ sends' = [sends EXCEPT ![j] = @ + 1]
    /\ UNCHANGED <<phase, tries>>

(* A cycle failed and another one is due. *)
Retry(j) ==
    /\ phase[j] = "pending"
    /\ tries[j] + 1 < MaxTries
    /\ tries' = [tries EXCEPT ![j] = @ + 1]
    /\ UNCHANGED <<phase, sends>>

Deliver(j) ==
    /\ phase[j] = "pending"
    /\ sends[j] > 0
    /\ phase' = [phase EXCEPT ![j] = "delivered"]
    /\ tries' = [tries EXCEPT ![j] = @ + 1]
    /\ UNCHANGED sends

GiveUp(j) ==
    /\ phase[j] = "pending"
    /\ tries[j] + 1 = MaxTries
    /\ phase' = [phase EXCEPT ![j] = "failed"]
    /\ tries' = [tries EXCEPT ![j] = @ + 1]
    /\ UNCHANGED sends

(* Deleting a message removes all of its jobs at once. *)
Remove(S) ==
    /\ \A j \in S : phase[j] \in {"pending", "delivered", "failed"}
    /\ phase' = [j \in Jobs |-> IF j \in S THEN "removed" ELSE phase[j]]
    /\ tries' = [j \in Jobs |-> IF j \in S THEN 0 ELSE tries[j]]
    /\ UNCHANGED sends

Next ==
    \/ \E j \in Jobs : Submit(j) \/ Accept(j) \/ Retry(j) \/ Deliver(j) \/ GiveUp(j)
    \/ \E S \in SUBSET Jobs : Remove(S)

Spec == Init /\ [][Next]_vars
=============================================================================
