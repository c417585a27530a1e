---------------------------- MODULE OutboundQueue ----------------------------
(***************************************************************************)
(* The durable outbound queue of src/src/send.rs.                          *)
(*                                                                         *)
(* An Outbound row is the queue entry.  Producers (the send API and the    *)
(* forwarding step of the inbound handler) store a Message and create      *)
(* Queued rows; every worker runs run_outbound_worker: on each tick it     *)
(* re-queues the rows it finds InProgress, then fetches the due Queued     *)
(* rows, claims them one at a time and delivers each one it wins.  A step  *)
(* of the model is one database statement, one claim transaction, one DNS  *)
(* lookup or one SMTP hand-off: everything between two awaits.             *)
(***************************************************************************)
EXTENDS Naturals, FiniteSets

CONSTANTS
    Workers,       \* worker processes that share the database
    Jobs,          \* ids an Outbound row can get; the auto key is never reused
    Messages,      \* ids of Message rows
    MessageOf,     \* Outbound.message_id
    Mailboxes,     \* ids of Mailbox rows
    SenderOf,      \* Outbound.sender_id
    NoJob,         \* "no job in hand"
    Unresolvable,  \* jobs whose envelope or MX lookup fails every time
    Relay,         \* OutboundTransport::relay_configured()
    MaxAttempts,   \* OutboundWorkerConfig.max_attempts
    MaxHosts,      \* bound: MX hosts a lookup returns
    MaxFaults,     \* bound: transient failures and crashes in a behaviour
    MaxSteals      \* bound: per job, reclaims of a row that is not an orphan

ASSUME ConstantsAssumption ==
    /\ IsFiniteSet(Workers) /\ Workers # {}
    /\ MessageOf \in [Jobs -> Messages]
    /\ SenderOf \in [Jobs -> Mailboxes]
    /\ NoJob \notin Jobs
    /\ Unresolvable \subseteq Jobs
    /\ Relay \in BOOLEAN
    /\ MaxAttempts \in Nat
    /\ MaxHosts \in Nat
    /\ MaxFaults \in Nat
    /\ MaxSteals \in Nat

VARIABLES
    \* The database.
    msg,       \* Message rows: "none", "stored", "unlinked" (its link rows have
               \* just been deleted by delete_message) or "deleted"
    status,    \* Outbound.status, "None" before creation, "Deleted" after deletion
    attempts,  \* Outbound.attempts
    next_at,   \* Outbound.next_attempt_at: "due" (None or past) or "later"
    audited,   \* jobs with a DeliveryStatus row of code 250
    \* The workers.
    pc,        \* where run_outbound_worker is suspended
    todo,      \* rows of the InProgress scan not yet written back
    batch,     \* due rows of the Queued fetch not yet claimed
    cur,       \* the job deliver_one works on
    copy,      \* `attempts` of the Outbound value that claim returned
    left,      \* SMTP targets not yet tried in this cycle
    \* Observations: what peers saw, and what went wrong.
    accepted,  \* SMTP transactions a peer accepted, per job
    torn,      \* acceptances the worker failed to turn into Delivered
    stolen,    \* reclaims of a row that was not an orphaned InProgress row
    faults     \* failures used up so far

dbVars     == <<msg, status, attempts, next_at, audited>>
rowVars    == <<status, attempts, next_at, audited>>
workerVars == <<pc, todo, batch, cur, copy, left>>
jobVars    == <<cur, copy, left>>
obsVars    == <<accepted, torn, stolen, faults>>
vars       == <<dbVars, workerVars, obsVars>>

OutboundStatus == {"Queued", "InProgress", "Delivered", "Failed"}
Terminal == {"Delivered", "Failed"}
Delivering == {"load", "send", "accepted", "refused", "mark"}
PCs == {"tick", "reclaim", "fetch", "drain"} \cup Delivering

-----------------------------------------------------------------------------
(* Rows *)

Exists(j) == status[j] \in OutboundStatus

(* Some worker has j in hand. *)
Held(j) == \E w \in Workers : cur[w] = j

(* An update by primary key: it sets the row's columns if the row is still   *)
(* there and changes nothing otherwise.  (Whether a missing row is reported  *)
(* as an error does not matter: every caller goes on in the same way.)       *)
Update(j, st, n, next) ==
    /\ status'   = [status   EXCEPT ![j] = IF Exists(j) THEN st ELSE @]
    /\ attempts' = [attempts EXCEPT ![j] = IF Exists(j) THEN n ELSE @]
    /\ next_at'  = [next_at  EXCEPT ![j] = IF Exists(j) THEN next ELSE @]

Fault == faults < MaxFaults /\ faults' = faults + 1

-----------------------------------------------------------------------------
Init ==
    /\ msg = [m \in Messages |-> "none"]
    /\ status = [j \in Jobs |-> "None"]
    /\ attempts = [j \in Jobs |-> 0]
    /\ next_at = [j \in Jobs |-> "due"]
    /\ audited = {}
    /\ pc = [w \in Workers |-> "tick"]
    /\ todo = [w \in Workers |-> {}]
    /\ batch = [w \in Workers |-> {}]
    /\ cur = [w \in Workers |-> NoJob]
    /\ copy = [w \in Workers |-> 0]
    /\ left = [w \in Workers |-> 0]
    /\ accepted = [j \in Jobs |-> 0]
    /\ torn = [j \in Jobs |-> 0]
    /\ stolen = [j \in Jobs |-> 0]
    /\ faults = 0

-----------------------------------------------------------------------------
(* Producers and the delete_message endpoint *)

(* First write of enqueue_outbound (or of the inbound handler): the Message. *)
store_message(m) ==
    /\ msg[m] = "none"
    /\ msg' = [msg EXCEPT ![m] = "stored"]
    /\ UNCHANGED <<rowVars, workerVars, obsVars>>

(* The second write, and all of enqueue_forward: a Queued row for a Message  *)
(* the producer stored or looked up earlier.  Nothing checks that the        *)
(* Message is still there.                                                   *)
enqueue_forward(j) ==
    /\ status[j] = "None"
    /\ msg[MessageOf[j]] # "none"
    /\ status' = [status EXCEPT ![j] = "Queued"]
    /\ UNCHANGED <<msg, attempts, next_at, audited, workerVars, obsVars>>

(* Deleting Outbound rows: their DeliveryStatus rows cascade. *)
Drop(gone) ==
    /\ status' = [j \in Jobs |-> IF j \in gone THEN "Deleted" ELSE status[j]]
    /\ attempts' = [j \in Jobs |-> IF j \in gone THEN 0 ELSE attempts[j]]
    /\ next_at' = [j \in Jobs |-> IF j \in gone THEN "due" ELSE next_at[j]]
    /\ audited' = audited \ gone

(* delete_message: after the fetch that answers 404, one statement deletes   *)
(* the Outbound rows ...                                                     *)
delete_message_links(m) ==
    /\ msg[m] \in {"stored", "unlinked"}
    /\ Drop({j \in Jobs : MessageOf[j] = m /\ Exists(j)})
    /\ msg' = [msg EXCEPT ![m] = "unlinked"]
    /\ UNCHANGED <<workerVars, obsVars>>

(* ... and the next one deletes the Message row.                             *)
delete_message_row(m) ==
    /\ msg[m] = "unlinked"
    /\ msg' = [msg EXCEPT ![m] = "deleted"]
    /\ UNCHANGED <<rowVars, workerVars, obsVars>>

(* delete_mailbox, or delete_domain with all mailboxes of the domain: the     *)
(* cascade deletes the Outbound rows they are the sender of.  The Message    *)
(* rows stay.  (One that finds no row to delete changes nothing here.)       *)
delete_mailboxes(S) ==
    /\ \E j \in Jobs : SenderOf[j] \in S /\ Exists(j)
    /\ Drop({j \in Jobs : SenderOf[j] \in S /\ Exists(j)})
    /\ UNCHANGED <<msg, workerVars, obsVars>>

(* The clock passes next_attempt_at. *)
elapse(j) ==
    /\ next_at[j] = "later"
    /\ next_at' = [next_at EXCEPT ![j] = "due"]
    /\ UNCHANGED <<msg, status, attempts, audited, workerVars, obsVars>>

-----------------------------------------------------------------------------
(* run_outbound_worker: one tick is reclaim_in_progress, then drain_once *)

Goto(w, label) == pc' = [pc EXCEPT ![w] = label]

(* Mut_ operators are seeded bugs, each a variant of the definition after it. *)
Mut_reclaims_delivered(j) == status[j] \in {"InProgress", "Delivered"}
Mut_reclaims_unqueued(j) == Exists(j) /\ status[j] # "Queued"
Mut_reclaims_only_retried(j) == status[j] = "InProgress" /\ attempts[j] > 0

(* reclaim_in_progress reads the InProgress rows ... *)
Reclaimable(j) == status[j] = "InProgress"

reclaim_scan(w) ==
    /\ pc[w] = "tick"
    /\ Goto(w, "reclaim")
    /\ todo' = [todo EXCEPT ![w] = {j \in Jobs : Reclaimable(j)}]
    /\ UNCHANGED <<dbVars, batch, jobVars, obsVars>>

(* ... or fails to, and leaves it at that for this tick ... *)
reclaim_scan_fails(w) ==
    /\ pc[w] = "tick"
    /\ Fault
    /\ Goto(w, "fetch")
    /\ UNCHANGED <<dbVars, todo, batch, jobVars, accepted, torn, stolen>>

(* A reclaim that does not hit an orphan: the row is a worker's job in hand,  *)
(* or has been settled since the scan.                                       *)
Steals(j) == status[j] \in Terminal \/ (status[j] = "InProgress" /\ Held(j))

(* ... and writes each row back by its key, whatever the row is by then. *)
reclaim_row(w, j) ==
    /\ pc[w] = "reclaim"
    /\ j \in todo[w]
    /\ Steals(j) => stolen[j] < MaxSteals
    /\ todo' = [todo EXCEPT ![w] = @ \ {j}]
    /\ Update(j, "Queued", attempts[j], "due")
    /\ stolen' = [stolen EXCEPT ![j] = IF Steals(j) THEN @ + 1 ELSE @]
    /\ UNCHANGED <<msg, audited, pc, batch, jobVars, accepted, torn, faults>>

(* A failed write-back is logged and the loop goes on.  It costs a fault,    *)
(* except where it stands for the write that MaxSteals rules out.            *)
reclaim_row_fails(w, j) ==
    /\ pc[w] = "reclaim"
    /\ j \in todo[w]
    /\ IF Steals(j) /\ stolen[j] >= MaxSteals THEN UNCHANGED faults ELSE Fault
    /\ todo' = [todo EXCEPT ![w] = @ \ {j}]
    /\ UNCHANGED <<dbVars, pc, batch, jobVars, accepted, torn, stolen>>

reclaim_done(w) ==
    /\ pc[w] = "reclaim"
    /\ todo[w] = {}
    /\ Goto(w, "fetch")
    /\ UNCHANGED <<dbVars, todo, batch, jobVars, obsVars>>

Mut_due_ignores_backoff(j) == status[j] = "Queued"

(* drain_once: the rows that are Queued and due when it starts. *)
Due(j) == status[j] = "Queued" /\ next_at[j] = "due"

drain_fetch(w) ==
    /\ pc[w] = "fetch"
    /\ Goto(w, "drain")
    /\ batch' = [batch EXCEPT ![w] = {j \in Jobs : Due(j)}]
    /\ UNCHANGED <<dbVars, todo, jobVars, obsVars>>

drain_fetch_fails(w) ==
    /\ pc[w] = "fetch"
    /\ Fault
    /\ Goto(w, "tick")
    /\ UNCHANGED <<dbVars, todo, batch, jobVars, accepted, torn, stolen>>

drain_done(w) ==
    /\ pc[w] = "drain"
    /\ batch[w] = {}
    /\ Goto(w, "tick")
    /\ UNCHANGED <<dbVars, todo, batch, jobVars, obsVars>>

Mut_claims_any(j) == TRUE

(* claim: one write-locked transaction.  It re-reads the status, and only    *)
(* the status: not next_attempt_at.                                          *)
Claimable(j) == status[j] = "Queued"

Mut_claim_without_flip(w, j) ==
    /\ pc[w] = "drain"
    /\ j \in batch[w]
    /\ Claimable(j)
    /\ batch' = [batch EXCEPT ![w] = @ \ {j}]
    /\ cur' = [cur EXCEPT ![w] = j]
    /\ copy' = [copy EXCEPT ![w] = attempts[j]]
    /\ Goto(w, "load")
    /\ UNCHANGED <<dbVars, todo, left, obsVars>>

claim(w, j) ==
    /\ pc[w] = "drain"
    /\ j \in batch[w]
    /\ Claimable(j)
    /\ status' = [status EXCEPT ![j] = "InProgress"]
    /\ batch' = [batch EXCEPT ![w] = @ \ {j}]
    /\ cur' = [cur EXCEPT ![w] = j]
    /\ copy' = [copy EXCEPT ![w] = attempts[j]]
    /\ Goto(w, "load")
    /\ UNCHANGED <<msg, attempts, next_at, audited, todo, left, obsVars>>

claim_none(w, j) ==
    /\ pc[w] = "drain"
    /\ j \in batch[w]
    /\ ~Claimable(j)
    /\ batch' = [batch EXCEPT ![w] = @ \ {j}]
    /\ UNCHANGED <<dbVars, pc, todo, jobVars, obsVars>>

(* An error in the claim transaction ends the whole drain. *)
claim_fails(w) ==
    /\ pc[w] = "drain"
    /\ batch[w] # {}
    /\ Fault
    /\ Goto(w, "tick")
    /\ batch' = [batch EXCEPT ![w] = {}]
    /\ UNCHANGED <<dbVars, todo, jobVars, accepted, torn, stolen>>

-----------------------------------------------------------------------------
(* deliver_one and deliver_hosts: one delivery cycle of a claimed job *)

Mut_release_keeps_job(w) ==
    /\ Goto(w, "drain")
    /\ UNCHANGED <<todo, batch, jobVars>>

(* deliver_one returns, with Ok or Err alike, to the loop of drain_once. *)
Release(w) ==
    /\ Goto(w, "drain")
    /\ cur' = [cur EXCEPT ![w] = NoJob]
    /\ copy' = [copy EXCEPT ![w] = 0]
    /\ left' = [left EXCEPT ![w] = 0]
    /\ UNCHANGED <<todo, batch>>

(* The Message is gone: Message::get_by_id fails and the row stays InProgress. *)
message_missing(w) ==
    /\ pc[w] = "load"
    /\ msg[MessageOf[cur[w]]] = "deleted"
    /\ Release(w)
    /\ UNCHANGED <<dbVars, obsVars>>

Mut_lookup_error_ends_drain(w) ==
    /\ pc[w] = "load"
    /\ cur[w] \in Unresolvable
    /\ Goto(w, "tick")
    /\ batch' = [batch EXCEPT ![w] = {}]
    /\ cur' = [cur EXCEPT ![w] = NoJob]
    /\ copy' = [copy EXCEPT ![w] = 0]
    /\ UNCHANGED <<dbVars, todo, left, obsVars>>

(* build_envelope or lookup_mx_hosts fails, for this job every time. *)
lookup_fails(w) ==
    /\ pc[w] = "load"
    /\ cur[w] \in Unresolvable
    /\ Release(w)
    /\ UNCHANGED <<dbVars, obsVars>>

(* lookup_mx_hosts returns n hosts; a relay replaces them by a single target. *)
Targets(n) == IF Relay THEN 1 ELSE n

lookup_mx_hosts(w) ==
    /\ pc[w] = "load"
    /\ cur[w] \notin Unresolvable
    /\ msg[MessageOf[cur[w]]] # "deleted"
    /\ \E n \in 0..MaxHosts : left' = [left EXCEPT ![w] = Targets(n)]
    /\ Goto(w, "send")
    /\ UNCHANGED <<dbVars, todo, batch, cur, copy, obsVars>>

Mut_send_without_record(w) ==
    /\ pc[w] = "send"
    /\ left[w] > 0
    /\ Goto(w, "mark")
    /\ accepted' = [accepted EXCEPT ![cur[w]] = @ + 1]
    /\ UNCHANGED <<dbVars, todo, batch, jobVars, torn, stolen, faults>>

(* send_raw to the next target.  The peer accepts and answers 250 ... *)
send_ok(w) ==
    /\ pc[w] = "send"
    /\ left[w] > 0
    /\ Goto(w, "accepted")
    /\ accepted' = [accepted EXCEPT ![cur[w]] = @ + 1]
    /\ UNCHANGED <<dbVars, todo, batch, jobVars, torn, stolen, faults>>

(* ... or refuses or cannot be reached ... *)
send_err(w) ==
    /\ pc[w] = "send"
    /\ left[w] > 0
    /\ Goto(w, "refused")
    /\ UNCHANGED <<dbVars, todo, batch, jobVars, obsVars>>

(* ... or accepts, and the worker never sees the answer. *)
send_reply_lost(w) ==
    /\ pc[w] = "send"
    /\ left[w] > 0
    /\ Fault
    /\ Goto(w, "refused")
    /\ accepted' = [accepted EXCEPT ![cur[w]] = @ + 1]
    /\ torn' = [torn EXCEPT ![cur[w]] = @ + 1]
    /\ UNCHANGED <<dbVars, todo, batch, jobVars, stolen>>

(* record_delivery appends the audit row: code 250 after an acceptance ... *)
record_delivery_ok(w) ==
    /\ pc[w] = "accepted"
    /\ audited' = audited \cup {cur[w]}
    /\ Goto(w, "mark")
    /\ UNCHANGED <<msg, status, attempts, next_at, todo, batch, jobVars, obsVars>>

(* ... no code after a failure; the loop goes on with the next target. *)
record_delivery_err(w) ==
    /\ pc[w] = "refused"
    /\ left' = [left EXCEPT ![w] = @ - 1]
    /\ Goto(w, "send")
    /\ UNCHANGED <<dbVars, todo, batch, cur, copy, obsVars>>

(* The counter is that of the claimed copy, plus one. *)
mark_delivered(w) ==
    /\ pc[w] = "mark"
    /\ Update(cur[w], "Delivered", copy[w] + 1, "due")
    /\ Release(w)
    /\ UNCHANGED <<msg, audited, obsVars>>

Mut_gives_up_once(n) == n = MaxAttempts + 1

(* All targets failed, or there were none. *)
GivesUp(n) == n > MaxAttempts

fail_or_requeue(w) ==
    /\ pc[w] = "send"
    /\ left[w] = 0
    /\ LET n == copy[w] + 1
       IN  IF GivesUp(n)
           THEN Update(cur[w], "Failed", n, "due")
           ELSE Update(cur[w], "Queued", n, "later")
    /\ Release(w)
    /\ UNCHANGED <<msg, audited, obsVars>>

(* An acceptance the worker holds and has not yet written as Delivered. *)
InHand(w) == pc[w] \in {"accepted", "mark"}
Tear(w) == torn' = [j \in Jobs |-> IF InHand(w) /\ cur[w] = j THEN torn[j] + 1 ELSE torn[j]]

(* Any fallible statement of the cycle fails: the error is logged and the    *)
(* row stays as it is, to be found by a later reclaim_in_progress.           *)
deliver_fails(w) ==
    /\ pc[w] \in Delivering
    /\ Fault
    /\ Tear(w)
    /\ Release(w)
    /\ UNCHANGED <<dbVars, accepted, stolen>>

(* The process is killed at any await and restarted: its first tick fires    *)
(* immediately and nothing but the database survives.                        *)
crash(w) ==
    /\ pc[w] # "tick"
    /\ Fault
    /\ Tear(w)
    /\ Goto(w, "tick")
    /\ todo' = [todo EXCEPT ![w] = {}]
    /\ batch' = [batch EXCEPT ![w] = {}]
    /\ cur' = [cur EXCEPT ![w] = NoJob]
    /\ copy' = [copy EXCEPT ![w] = 0]
    /\ left' = [left EXCEPT ![w] = 0]
    /\ UNCHANGED <<dbVars, accepted, stolen>>

-----------------------------------------------------------------------------
reclaim_in_progress(w) ==
    \/ reclaim_scan(w) \/ reclaim_scan_fails(w) \/ reclaim_done(w)
    \/ \E j \in Jobs : reclaim_row(w, j) \/ reclaim_row_fails(w, j)

drain_once(w) ==
    \/ drain_fetch(w) \/ drain_fetch_fails(w) \/ drain_done(w) \/ claim_fails(w)
    \/ \E j \in Jobs : claim(w, j) \/ claim_none(w, j)

deliver_one(w) ==
    \/ message_missing(w) \/ lookup_fails(w) \/ lookup_mx_hosts(w)
    \/ send_ok(w) \/ send_err(w) \/ send_reply_lost(w)
    \/ record_delivery_ok(w) \/ record_delivery_err(w)
    \/ mark_delivered(w) \/ fail_or_requeue(w) \/ deliver_fails(w)

run_outbound_worker(w) == reclaim_in_progress(w) \/ drain_once(w) \/ deliver_one(w)

Environment ==
    \/ \E m \in Messages : store_message(m) \/ delete_message_links(m) \/ delete_message_row(m)
    \/ \E S \in SUBSET Mailboxes : delete_mailboxes(S)
    \/ \E j \in Jobs : enqueue_forward(j) \/ elapse(j)

Next ==
    \/ Environment
    \/ \E w \in Workers : run_outbound_worker(w) \/ crash(w)

Spec == Init /\ [][Next]_vars

(* A worker that is not killed keeps running (tokio polls the task and the   *)
(* ticker fires every poll_interval), and time passes.  Producers, deletes,  *)
(* faults and crashes are never obliged to happen.                           *)
Fairness ==
    /\ \A w \in Workers : WF_vars(run_outbound_worker(w))
    /\ \A j \in Jobs : WF_vars(elapse(j))

FairSpec == Spec /\ Fairness
-----------------------------------------------------------------------------
(* Properties *)

(* Every variable has its type. *)
TypeOK ==
    /\ msg \in [Messages -> {"none", "stored", "unlinked", "deleted"}]
    /\ status \in [Jobs -> OutboundStatus \cup {"None", "Deleted"}]
    /\ attempts \in [Jobs -> Nat]
    /\ next_at \in [Jobs -> {"due", "later"}]
    /\ audited \in SUBSET Jobs
    /\ pc \in [Workers -> PCs]
    /\ todo \in [Workers -> SUBSET Jobs]
    /\ batch \in [Workers -> SUBSET Jobs]
    /\ cur \in [Workers -> Jobs \cup {NoJob}]
    /\ \A w \in Workers : pc[w] \in Delivering <=> cur[w] \in Jobs
    /\ copy \in [Workers -> Nat]
    /\ left \in [Workers -> Nat]
    /\ \A w \in Workers : pc[w] = "refused" => left[w] > 0
    /\ accepted \in [Jobs -> Nat]
    /\ torn \in [Jobs -> Nat]
    /\ stolen \in [Jobs -> Nat]
    /\ faults \in Nat

(* A job is Delivered only if a peer accepted it and the audit trail holds   *)
(* its 250 row, also when several workers, reclaims and crashes interleave   *)
(* (deliver_hosts records before it marks).                                  *)
DeliveredWasAccepted ==
    \A j \in Jobs : status[j] = "Delivered" => j \in audited /\ accepted[j] > 0

(* Whatever the number of workers, every SMTP transaction beyond the first   *)
(* one is accounted for: either an earlier acceptance was torn off by a      *)
(* failure before it was written as Delivered, or a reclaim_in_progress      *)
(* re-queued a row that was not orphaned.  The claim transaction itself      *)
(* never hands a job out twice.                                              *)
SendsExplained ==
    \A j \in Jobs : accepted[j] <= 1 + torn[j] + stolen[j]

(* With one worker nothing is ever stolen, so a peer receives a job a second *)
(* time only if a failure hit between its acceptance and the Delivered mark. *)
ResentOnlyAfterFault ==
    \A j \in Jobs : accepted[j] <= 1 + torn[j]

(* With one worker the job in hand is this worker's: its row is InProgress   *)
(* with the counter that claim copied, or deleted under it; it is never      *)
(* back in the queue or settled (the assumption stated above deliver_one).   *)
InHandIsOwned ==
    \A w \in Workers : cur[w] \in Jobs =>
        \/ status[cur[w]] = "InProgress" /\ attempts[cur[w]] = copy[w]
        \/ status[cur[w]] = "Deleted"

(* Whatever the number of workers, each writing back the counter of the copy *)
(* it claimed: a job is Failed only with its counter past the cap, and the   *)
(* counter goes further past it only by a reclaim that took a row which was  *)
(* not orphaned.  A stale copy never gives a job up early nor lets it be     *)
(* retried without end.                                                      *)
AttemptsExplained ==
    \A j \in Jobs :
        /\ attempts[j] <= MaxAttempts + 1 + stolen[j]
        /\ status[j] = "Failed" => attempts[j] > MaxAttempts

(* With one worker Delivered and Failed are terminal: only deletion takes a  *)
(* row out of them, never a reclaim or a late write of a delivery cycle.     *)
TerminalIsFinal ==
    [][\A j \in Jobs : status[j] \in Terminal => status'[j] \in {status[j], "Deleted"}]_vars

(* With one worker no cycle starts before the backoff of the previous one    *)
(* has elapsed, although drain_once tests next_attempt_at on the fetched     *)
(* rows and claim does not test it again.                                    *)
BackoffRespected ==
    [][\A w \in Workers, j \in Jobs : cur[w] # j /\ cur'[w] = j => next_at[j] = "due"]_vars

(* With one worker the queue implements the job lifecycle, with a cap that   *)
(* is one higher than the documented one: Queued and InProgress are both     *)
(* "pending" to an observer.                                                 *)
PhaseOf(st) ==
    CASE st = "None" -> "none"
      [] st \in {"Queued", "InProgress"} -> "pending"
      [] st = "Delivered" -> "delivered"
      [] st = "Failed" -> "failed"
      [] st = "Deleted" -> "removed"

Phase == [j \in Jobs |-> PhaseOf(status[j])]

Job == INSTANCE JobLifecycle WITH
    MaxTries <- MaxAttempts + 1, phase <- Phase, sends <- accepted, tries <- attempts

ImplementsJobLifecycle == Job!Spec

Settled(j) == status[j] \in Terminal \cup {"Deleted"}

(* A queued job whose recipient resolves and whose Message is not deleted    *)
(* under it is eventually Delivered, Failed or deleted: through crashes,     *)
(* failed statements and aborted drains, and although a job that can never   *)
(* be resolved comes back at every tick.                                     *)
ResolvableJobsSettle ==
    \A j \in Jobs \ Unresolvable :
        status[j] = "Queued" ~> Settled(j) \/ msg[MessageOf[j]] = "deleted"

(* No row stays InProgress for ever: a later tick reclaims what a crash or   *)
(* a failed cycle left behind, for every kind of job.                        *)
StuckJobsAreReclaimed ==
    \A j \in Jobs : status[j] = "InProgress" ~> status[j] # "InProgress"

(* Strengthenings that make the properties above inductive. *)

(* A job in hand has been created; a job not yet created was never tried. *)
CreatedFirst ==
    /\ \A w \in Workers : cur[w] \in Jobs => status[cur[w]] # "None"
    /\ \A j \in Jobs : status[j] = "None" => accepted[j] = 0 /\ attempts[j] = 0

(* An acceptance in hand happened, and once recorded it is in the audit      *)
(* trail for as long as the row exists.                                      *)
RecordedFirst ==
    /\ \A w \in Workers : InHand(w) => accepted[cur[w]] > 0
    /\ \A w \in Workers : pc[w] = "mark" /\ Exists(cur[w]) => cur[w] \in audited

(* Who may still cause a transaction for j: every worker that has it in hand *)
(* and no acceptance yet, and the row itself when it is queued or orphaned.  *)
Carries(w, j) == cur[w] = j /\ pc[w] \in {"load", "send", "refused"}
Carriers(j) == {w \in Workers : Carries(w, j)}
Loose(j) == status[j] = "Queued" \/ (status[j] = "InProgress" /\ ~Held(j))

(* Transactions done and still to come never exceed what SendsExplained      *)
(* allows: claim moves the right to send from the row to the worker, a       *)
(* requeue moves it back, and only a torn acceptance or a steal creates one. *)
SendsBudget ==
    \A j \in Jobs :
        accepted[j] + Cardinality(Carriers(j)) + (IF Loose(j) THEN 1 ELSE 0)
            <= 1 + torn[j] + stolen[j]

(* A row that is tried again, and a copy in hand, have the cap at most on    *)
(* their counter, and one more for each steal.                               *)
AttemptsBudget ==
    /\ AttemptsExplained
    /\ \A j \in Jobs : status[j] \in {"Queued", "InProgress"} => attempts[j] <= MaxAttempts + stolen[j]
    /\ \A w \in Workers : cur[w] \in Jobs => copy[w] <= MaxAttempts + stolen[cur[w]]

(* With one worker: what it holds, the rows of its scan and the rows of its  *)
(* fetch can change only by deletion until it gets to them.                  *)
OneWorker == \A u, v \in Workers : u = v

SnapshotsHold ==
    /\ InHandIsOwned
    /\ \A w \in Workers : todo[w] # {} => pc[w] = "reclaim"
    /\ \A w \in Workers : batch[w] # {} => pc[w] \in {"drain"} \cup Delivering
    /\ \A w \in Workers : \A j \in todo[w] : status[j] \in {"InProgress", "Deleted"}
    /\ \A w \in Workers : \A j \in batch[w] :
          \/ status[j] = "Queued" /\ next_at[j] = "due"
          \/ status[j] = "Deleted"

NothingStolen == \A j \in Jobs : stolen[j] = 0

(* What the documentation says and the code does not do. *)

(* README.md: "two workers on one database never double-send the same        *)
(* message" (jobs are claimed inside a write-locked transaction).            *)
NeverDoubleSent == \A j \in Jobs : accepted[j] <= 1

(* db.rs: "a job returns to `Queued` ... until `attempts` reaches            *)
(* `max_attempts`, at which point it settles to `Failed`"; send.rs: "after   *)
(* this many total attempts a job is marked `Failed`".                       *)
FailedAtCap == \A j \in Jobs : status[j] = "Queued" => attempts[j] < MaxAttempts

(* README.md: "a job becomes terminal Failed after the attempt cap"; a job   *)
(* left in the queue, its Message in place, eventually settles.              *)
EveryJobSettles ==
    \A j \in Jobs : status[j] = "Queued" ~> Settled(j) \/ msg[MessageOf[j]] = "deleted"
=============================================================================
