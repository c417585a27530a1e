------------------------- MODULE OutboundQueueProofs -------------------------
(***************************************************************************)
(* Proofs about OutboundQueue, for any number of workers, jobs, messages,  *)
(* attempts, hosts and faults.                                             *)
(***************************************************************************)
EXTENDS OutboundQueue, TLAPS, FiniteSetTheorems

(* All variables keep their types: Init establishes TypeOK and every action  *)
(* of a worker, of a producer and of the clock preserves it.                 *)
LEMMA TypeInit == Init => TypeOK
  BY ConstantsAssumption DEF Init, TypeOK, PCs, Delivering, OutboundStatus

(* A producer, a delete or the clock keeps TypeOK. *)
LEMMA TypeEnvironment == TypeOK /\ Environment => TypeOK'
<1> SUFFICES ASSUME TypeOK, Environment PROVE TypeOK'
  OBVIOUS
<1> USE DEF TypeOK, rowVars, workerVars, jobVars, obsVars
<1>1. ASSUME NEW m \in Messages, store_message(m) PROVE TypeOK'
  BY <1>1 DEF store_message
<1>2. ASSUME NEW m \in Messages, delete_message_links(m) PROVE TypeOK'
  BY <1>2 DEF delete_message_links, Drop
<1>6. ASSUME NEW S \in SUBSET Mailboxes, delete_mailboxes(S) PROVE TypeOK'
  BY <1>6 DEF delete_mailboxes, Drop
<1>3. ASSUME NEW m \in Messages, delete_message_row(m) PROVE TypeOK'
  BY <1>3 DEF delete_message_row
<1>4. ASSUME NEW j \in Jobs, enqueue_forward(j) PROVE TypeOK'
  BY <1>4 DEF enqueue_forward, OutboundStatus
<1>5. ASSUME NEW j \in Jobs, elapse(j) PROVE TypeOK'
  BY <1>5 DEF elapse
<1> QED
  BY <1>1, <1>2, <1>3, <1>4, <1>5, <1>6 DEF Environment

(* A step of reclaim_in_progress keeps TypeOK. *)
LEMMA TypeReclaim ==
  ASSUME TypeOK, NEW w \in Workers, reclaim_in_progress(w)
  PROVE  TypeOK'
<1> USE ConstantsAssumption DEF TypeOK, dbVars, rowVars, jobVars, obsVars, Goto, PCs, Delivering
<1>1. CASE reclaim_scan(w)
  BY <1>1 DEF reclaim_scan
<1>2. CASE reclaim_scan_fails(w)
  BY <1>2 DEF reclaim_scan_fails, Fault
<1>3. CASE reclaim_done(w)
  BY <1>3 DEF reclaim_done
<1>4. ASSUME NEW j \in Jobs, reclaim_row(w, j) PROVE TypeOK'
  BY <1>4 DEF reclaim_row, Update, OutboundStatus
<1>5. ASSUME NEW j \in Jobs, reclaim_row_fails(w, j) PROVE TypeOK'
  BY <1>5 DEF reclaim_row_fails, Fault
<1> QED
  BY <1>1, <1>2, <1>3, <1>4, <1>5 DEF reclaim_in_progress

(* A step of drain_once, claim included, keeps TypeOK. *)
LEMMA TypeDrain ==
  ASSUME TypeOK, NEW w \in Workers, drain_once(w)
  PROVE  TypeOK'
<1> USE ConstantsAssumption DEF TypeOK, dbVars, rowVars, jobVars, obsVars, Goto, PCs, Delivering
<1>1. CASE drain_fetch(w)
  BY <1>1 DEF drain_fetch
<1>2. CASE drain_fetch_fails(w)
  BY <1>2 DEF drain_fetch_fails, Fault
<1>3. CASE drain_done(w)
  BY <1>3 DEF drain_done
<1>4. CASE claim_fails(w)
  BY <1>4 DEF claim_fails, Fault
<1>5. ASSUME NEW j \in Jobs, claim(w, j) PROVE TypeOK'
  BY <1>5 DEF claim, OutboundStatus
<1>6. ASSUME NEW j \in Jobs, claim_none(w, j) PROVE TypeOK'
  BY <1>6 DEF claim_none
<1> QED
  BY <1>1, <1>2, <1>3, <1>4, <1>5, <1>6 DEF drain_once

(* An update by primary key keeps the types of the columns it sets. *)
LEMMA UpdateType ==
  ASSUME TypeOK, NEW j \in Jobs, NEW st \in OutboundStatus, NEW n \in Nat,
         NEW next \in {"due", "later"}, Update(j, st, n, next)
  PROVE  /\ status' \in [Jobs -> OutboundStatus \cup {"None", "Deleted"}]
         /\ attempts' \in [Jobs -> Nat]
         /\ next_at' \in [Jobs -> {"due", "later"}]
  BY DEF TypeOK, Update

(* Every step of a delivery cycle keeps the types. *)
LEMMA TypeDeliver ==
  ASSUME TypeOK, NEW w \in Workers, deliver_one(w)
  PROVE  TypeOK'
<1> USE ConstantsAssumption DEF TypeOK, dbVars, rowVars, jobVars, obsVars, Goto, PCs, Delivering, Release
<1>1. CASE message_missing(w)
  BY <1>1 DEF message_missing
<1>2. CASE lookup_fails(w)
  BY <1>2 DEF lookup_fails
<1>3. CASE lookup_mx_hosts(w)
  BY <1>3 DEF lookup_mx_hosts, Targets
<1>4. CASE send_ok(w)
  BY <1>4 DEF send_ok
<1>5. CASE send_err(w)
  BY <1>5 DEF send_err
<1>6. CASE send_reply_lost(w)
  BY <1>6 DEF send_reply_lost, Fault
<1>7. CASE record_delivery_ok(w)
  BY <1>7 DEF record_delivery_ok
<1>8. CASE record_delivery_err(w)
  BY <1>8 DEF record_delivery_err
<1>9. CASE mark_delivered(w)
  <2>1. cur[w] \in Jobs /\ copy[w] + 1 \in Nat /\ "Delivered" \in OutboundStatus
    BY <1>9 DEF mark_delivered, OutboundStatus
  <2>2. Update(cur[w], "Delivered", copy[w] + 1, "due")
    BY <1>9 DEF mark_delivered
  <2> QED
    BY <1>9, <2>1, <2>2, UpdateType DEF mark_delivered
<1>10. CASE fail_or_requeue(w)
  <2>1. cur[w] \in Jobs /\ copy[w] + 1 \in Nat /\ {"Failed", "Queued"} \subseteq OutboundStatus
    BY <1>10 DEF fail_or_requeue, OutboundStatus
  <2>2. \/ Update(cur[w], "Failed", copy[w] + 1, "due")
        \/ Update(cur[w], "Queued", copy[w] + 1, "later")
    BY <1>10 DEF fail_or_requeue
  <2>3. /\ status' \in [Jobs -> OutboundStatus \cup {"None", "Deleted"}]
        /\ attempts' \in [Jobs -> Nat]
        /\ next_at' \in [Jobs -> {"due", "later"}]
    BY <2>1, <2>2, UpdateType
  <2> QED
    BY <1>10, <2>3 DEF fail_or_requeue
<1>11. CASE deliver_fails(w)
  BY <1>11 DEF deliver_fails, Fault, Tear
<1> QED
  BY <1>1, <1>2, <1>3, <1>4, <1>5, <1>6, <1>7, <1>8, <1>9, <1>10, <1>11 DEF deliver_one

(* A crash keeps TypeOK. *)
LEMMA TypeCrash ==
  ASSUME TypeOK, NEW w \in Workers, crash(w)
  PROVE  TypeOK'
  BY ConstantsAssumption
  DEF crash, Fault, Tear, Goto, TypeOK, PCs, Delivering, dbVars

(* Every step keeps TypeOK. *)
LEMMA TypeNext == TypeOK /\ [Next]_vars => TypeOK'
<1> SUFFICES ASSUME TypeOK, [Next]_vars PROVE TypeOK'
  OBVIOUS
<1>1. CASE UNCHANGED vars
  BY <1>1 DEF TypeOK, vars, dbVars, workerVars, obsVars
<1>2. CASE Next
  BY <1>2, TypeEnvironment, TypeReclaim, TypeDrain, TypeDeliver, TypeCrash
  DEF Next, run_outbound_worker
<1> QED
  BY <1>1, <1>2

(* The type invariant, for any number of workers, jobs and messages. *)
THEOREM TypeCorrect == Spec => []TypeOK
  BY TypeInit, TypeNext, PTL DEF Spec

-----------------------------------------------------------------------------
(* Creation comes before work, and the audit row before the mark *)

(* A job is in hand, sent or counted only after its row was created. *)
LEMMA CreatedEnvironment ==
  ASSUME TypeOK, CreatedFirst, Environment
  PROVE  CreatedFirst'
<1> USE ConstantsAssumption DEF TypeOK, CreatedFirst, OutboundStatus, rowVars,
      workerVars, jobVars, obsVars
<1>1. ASSUME NEW m \in Messages, store_message(m) PROVE CreatedFirst'
  BY <1>1 DEF store_message
<1>2. ASSUME NEW m \in Messages, delete_message_links(m) PROVE CreatedFirst'
  BY <1>2 DEF delete_message_links, Drop
<1>6. ASSUME NEW S \in SUBSET Mailboxes, delete_mailboxes(S) PROVE CreatedFirst'
  BY <1>6 DEF delete_mailboxes, Drop
<1>3. ASSUME NEW m \in Messages, delete_message_row(m) PROVE CreatedFirst'
  BY <1>3 DEF delete_message_row
<1>4. ASSUME NEW j \in Jobs, enqueue_forward(j) PROVE CreatedFirst'
  BY <1>4 DEF enqueue_forward
<1>5. ASSUME NEW j \in Jobs, elapse(j) PROVE CreatedFirst'
  BY <1>5 DEF elapse
<1> QED
  BY <1>1, <1>2, <1>3, <1>4, <1>5, <1>6 DEF Environment

(* A step of reclaim_in_progress keeps CreatedFirst. *)
LEMMA CreatedReclaim ==
  ASSUME TypeOK, CreatedFirst, NEW w \in Workers, reclaim_in_progress(w)
  PROVE  CreatedFirst'
<1> USE ConstantsAssumption DEF TypeOK, CreatedFirst, OutboundStatus, dbVars, rowVars,
      jobVars, obsVars, Goto, Delivering
<1>1. CASE reclaim_scan(w)
  BY <1>1 DEF reclaim_scan, Reclaimable
<1>2. CASE reclaim_scan_fails(w)
  BY <1>2 DEF reclaim_scan_fails, Fault
<1>3. CASE reclaim_done(w)
  BY <1>3 DEF reclaim_done
<1>4. ASSUME NEW i \in Jobs, reclaim_row(w, i) PROVE CreatedFirst'
  BY <1>4 DEF reclaim_row, Update
<1>5. ASSUME NEW i \in Jobs, reclaim_row_fails(w, i) PROVE CreatedFirst'
  BY <1>5 DEF reclaim_row_fails, Fault
<1> QED
  BY <1>1, <1>2, <1>3, <1>4, <1>5 DEF reclaim_in_progress

(* A step of drain_once, claim included, keeps CreatedFirst. *)
LEMMA CreatedDrain ==
  ASSUME TypeOK, CreatedFirst, NEW w \in Workers, drain_once(w)
  PROVE  CreatedFirst'
<1> USE ConstantsAssumption DEF TypeOK, CreatedFirst, OutboundStatus, dbVars, rowVars,
      jobVars, obsVars, Goto, Delivering
<1>1. CASE drain_fetch(w)
  BY <1>1 DEF drain_fetch, Due
<1>2. CASE drain_fetch_fails(w)
  BY <1>2 DEF drain_fetch_fails, Fault
<1>3. CASE drain_done(w)
  BY <1>3 DEF drain_done
<1>4. CASE claim_fails(w)
  BY <1>4 DEF claim_fails, Fault
<1>5. ASSUME NEW i \in Jobs, claim(w, i) PROVE CreatedFirst'
  BY <1>5 DEF claim, Claimable
<1>6. ASSUME NEW i \in Jobs, claim_none(w, i) PROVE CreatedFirst'
  BY <1>6 DEF claim_none
<1> QED
  BY <1>1, <1>2, <1>3, <1>4, <1>5, <1>6 DEF drain_once

(* A step of deliver_one keeps CreatedFirst. *)
LEMMA CreatedDeliver ==
  ASSUME TypeOK, CreatedFirst, NEW w \in Workers, deliver_one(w)
  PROVE  CreatedFirst'
<1> USE ConstantsAssumption DEF TypeOK, CreatedFirst, OutboundStatus, dbVars, rowVars,
      jobVars, obsVars, Goto, Delivering, Release
<1>1. CASE message_missing(w)
  BY <1>1 DEF message_missing
<1>2. CASE lookup_fails(w)
  BY <1>2 DEF lookup_fails
<1>3. CASE lookup_mx_hosts(w)
  BY <1>3 DEF lookup_mx_hosts, Targets
<1>4. CASE send_ok(w)
  BY <1>4 DEF send_ok
<1>5. CASE send_err(w)
  BY <1>5 DEF send_err
<1>6. CASE send_reply_lost(w)
  BY <1>6 DEF send_reply_lost, Fault
<1>7. CASE record_delivery_ok(w)
  BY <1>7 DEF record_delivery_ok
<1>8. CASE record_delivery_err(w)
  BY <1>8 DEF record_delivery_err
<1>9. CASE mark_delivered(w)
  BY <1>9 DEF mark_delivered, Update
<1>10. CASE fail_or_requeue(w)
  BY <1>10 DEF fail_or_requeue, Update
<1>11. CASE deliver_fails(w)
  BY <1>11 DEF deliver_fails, Fault, Tear
<1> QED
  BY <1>1, <1>2, <1>3, <1>4, <1>5, <1>6, <1>7, <1>8, <1>9, <1>10, <1>11 DEF deliver_one

(* A crash keeps CreatedFirst. *)
LEMMA CreatedCrash ==
  ASSUME TypeOK, CreatedFirst, NEW w \in Workers, crash(w)
  PROVE  CreatedFirst'
  BY ConstantsAssumption
  DEF crash, Fault, Tear, Goto, TypeOK, CreatedFirst, OutboundStatus, Delivering, dbVars

(* Every step keeps CreatedFirst. *)
LEMMA CreatedNext ==
  ASSUME TypeOK, CreatedFirst, [Next]_vars
  PROVE  CreatedFirst'
<1>1. CASE UNCHANGED vars
  BY <1>1 DEF TypeOK, CreatedFirst, OutboundStatus, vars, dbVars, workerVars, obsVars
<1>2. CASE Next
  BY <1>2, CreatedEnvironment, CreatedReclaim, CreatedDrain, CreatedDeliver, CreatedCrash
  DEF Next, run_outbound_worker
<1> QED
  BY <1>1, <1>2

(* deliver_hosts records an acceptance before it marks the job Delivered, and  *)
(* no other worker, reclaim or delete undoes the order.                       *)
LEMMA RecordedEnvironment ==
  ASSUME TypeOK, CreatedFirst, RecordedFirst, DeliveredWasAccepted, Environment
  PROVE  (RecordedFirst /\ DeliveredWasAccepted)'
<1> USE ConstantsAssumption DEF TypeOK, CreatedFirst, RecordedFirst,
      DeliveredWasAccepted, InHand, Exists, OutboundStatus, rowVars, workerVars,
      jobVars, obsVars
<1>1. ASSUME NEW m \in Messages, store_message(m) PROVE (RecordedFirst /\ DeliveredWasAccepted)'
  BY <1>1 DEF store_message
<1>2. ASSUME NEW gone \in SUBSET Jobs, Drop(gone), UNCHANGED <<pc, cur, accepted>>
      PROVE (RecordedFirst /\ DeliveredWasAccepted)'
  <2>1. \A j \in Jobs : Exists(j)' => Exists(j) /\ (j \in audited => j \in audited')
    BY <1>2 DEF Drop
  <2>2. \A j \in Jobs : (status[j] = "Delivered")' => status[j] = "Delivered"
    BY <1>2 DEF Drop
  <2>3. RecordedFirst'
    BY <1>2, <2>1 DEF Delivering
  <2>4. DeliveredWasAccepted'
    BY <1>2, <2>1, <2>2
  <2> QED
    BY <2>3, <2>4
<1>6. ASSUME NEW m \in Messages, delete_message_links(m)
      PROVE (RecordedFirst /\ DeliveredWasAccepted)'
  <2>1. {j \in Jobs : MessageOf[j] = m /\ Exists(j)} \in SUBSET Jobs
    OBVIOUS
  <2> QED
    BY <1>2, <1>6, <2>1 DEF delete_message_links
<1>7. ASSUME NEW S \in SUBSET Mailboxes, delete_mailboxes(S)
      PROVE (RecordedFirst /\ DeliveredWasAccepted)'
  <2>1. {j \in Jobs : SenderOf[j] \in S /\ Exists(j)} \in SUBSET Jobs
    OBVIOUS
  <2> QED
    BY <1>2, <1>7, <2>1 DEF delete_mailboxes
<1>3. ASSUME NEW m \in Messages, delete_message_row(m) PROVE (RecordedFirst /\ DeliveredWasAccepted)'
  BY <1>3 DEF delete_message_row
<1>4. ASSUME NEW j \in Jobs, enqueue_forward(j) PROVE (RecordedFirst /\ DeliveredWasAccepted)'
  BY <1>4 DEF enqueue_forward
<1>5. ASSUME NEW j \in Jobs, elapse(j) PROVE (RecordedFirst /\ DeliveredWasAccepted)'
  BY <1>5 DEF elapse
<1> QED
  BY <1>1, <1>3, <1>4, <1>5, <1>6, <1>7 DEF Environment

(* A step of reclaim_in_progress keeps RecordedFirst. *)
LEMMA RecordedReclaim ==
  ASSUME TypeOK, CreatedFirst, RecordedFirst, DeliveredWasAccepted, NEW w \in Workers,
         reclaim_in_progress(w)
  PROVE  (RecordedFirst /\ DeliveredWasAccepted)'
<1> USE ConstantsAssumption DEF TypeOK, CreatedFirst, RecordedFirst,
      DeliveredWasAccepted, InHand, Exists, OutboundStatus, dbVars, rowVars, jobVars,
      obsVars, Goto, Delivering
<1>1. CASE reclaim_scan(w)
  BY <1>1 DEF reclaim_scan, Reclaimable
<1>2. CASE reclaim_scan_fails(w)
  BY <1>2 DEF reclaim_scan_fails, Fault
<1>3. CASE reclaim_done(w)
  BY <1>3 DEF reclaim_done
<1>4. ASSUME NEW i \in Jobs, reclaim_row(w, i) PROVE (RecordedFirst /\ DeliveredWasAccepted)'
  BY <1>4 DEF reclaim_row, Update
<1>5. ASSUME NEW i \in Jobs, reclaim_row_fails(w, i) PROVE (RecordedFirst /\ DeliveredWasAccepted)'
  BY <1>5 DEF reclaim_row_fails, Fault
<1> QED
  BY <1>1, <1>2, <1>3, <1>4, <1>5 DEF reclaim_in_progress

(* A step of drain_once, claim included, keeps RecordedFirst. *)
LEMMA RecordedDrain ==
  ASSUME TypeOK, CreatedFirst, RecordedFirst, DeliveredWasAccepted, NEW w \in Workers,
         drain_once(w)
  PROVE  (RecordedFirst /\ DeliveredWasAccepted)'
<1> USE ConstantsAssumption DEF TypeOK, CreatedFirst, RecordedFirst,
      DeliveredWasAccepted, InHand, Exists, OutboundStatus, dbVars, rowVars, jobVars,
      obsVars, Goto, Delivering
<1>1. CASE drain_fetch(w)
  BY <1>1 DEF drain_fetch, Due
<1>2. CASE drain_fetch_fails(w)
  BY <1>2 DEF drain_fetch_fails, Fault
<1>3. CASE drain_done(w)
  BY <1>3 DEF drain_done
<1>4. CASE claim_fails(w)
  BY <1>4 DEF claim_fails, Fault
<1>5. ASSUME NEW i \in Jobs, claim(w, i) PROVE (RecordedFirst /\ DeliveredWasAccepted)'
  <2>1. /\ audited' = audited /\ accepted' = accepted
        /\ \A j \in Jobs : Exists(j)' = Exists(j)
        /\ \A j \in Jobs : (status[j] = "Delivered")' => status[j] = "Delivered"
    BY <1>5 DEF claim, Claimable
  <2>2. \A v \in Workers : (InHand(v))' => InHand(v) /\ pc'[v] = pc[v] /\ cur'[v] = cur[v]
    BY <1>5 DEF claim
  <2>3. RecordedFirst'
    BY <2>1, <2>2
  <2>4. DeliveredWasAccepted'
    BY <2>1
  <2> QED
    BY <2>3, <2>4
<1>6. ASSUME NEW i \in Jobs, claim_none(w, i) PROVE (RecordedFirst /\ DeliveredWasAccepted)'
  BY <1>6 DEF claim_none
<1> QED
  BY <1>1, <1>2, <1>3, <1>4, <1>5, <1>6 DEF drain_once

(* A step of deliver_one keeps RecordedFirst. *)
LEMMA RecordedDeliver ==
  ASSUME TypeOK, CreatedFirst, RecordedFirst, DeliveredWasAccepted, NEW w \in Workers,
         deliver_one(w)
  PROVE  (RecordedFirst /\ DeliveredWasAccepted)'
<1> USE ConstantsAssumption DEF TypeOK, CreatedFirst, RecordedFirst,
      DeliveredWasAccepted, InHand, Exists, OutboundStatus, dbVars, rowVars, jobVars,
      obsVars, Goto, Delivering, Release
<1>1. CASE message_missing(w)
  BY <1>1 DEF message_missing
<1>2. CASE lookup_fails(w)
  BY <1>2 DEF lookup_fails
<1>3. CASE lookup_mx_hosts(w)
  BY <1>3 DEF lookup_mx_hosts, Targets
<1>4. CASE send_ok(w)
  BY <1>4 DEF send_ok
<1>5. CASE send_err(w)
  BY <1>5 DEF send_err
<1>6. CASE send_reply_lost(w)
  BY <1>6 DEF send_reply_lost, Fault
<1>7. CASE record_delivery_ok(w)
  BY <1>7 DEF record_delivery_ok
<1>8. CASE record_delivery_err(w)
  BY <1>8 DEF record_delivery_err
<1>9. CASE mark_delivered(w)
  BY <1>9 DEF mark_delivered, Update
<1>10. CASE fail_or_requeue(w)
  BY <1>10 DEF fail_or_requeue, Update
<1>11. CASE deliver_fails(w)
  BY <1>11 DEF deliver_fails, Fault, Tear
<1> QED
  BY <1>1, <1>2, <1>3, <1>4, <1>5, <1>6, <1>7, <1>8, <1>9, <1>10, <1>11 DEF deliver_one

(* A crash keeps RecordedFirst. *)
LEMMA RecordedCrash ==
  ASSUME TypeOK, CreatedFirst, RecordedFirst, DeliveredWasAccepted, NEW w \in Workers,
         crash(w)
  PROVE  (RecordedFirst /\ DeliveredWasAccepted)'
  BY ConstantsAssumption
  DEF crash, Fault, Tear, Goto, TypeOK, CreatedFirst, RecordedFirst,
      DeliveredWasAccepted, InHand, Exists, OutboundStatus, Delivering, dbVars

(* Every step keeps RecordedFirst. *)
LEMMA RecordedNext ==
  ASSUME TypeOK, CreatedFirst, RecordedFirst, DeliveredWasAccepted, [Next]_vars
  PROVE  (RecordedFirst /\ DeliveredWasAccepted)'
<1>1. CASE UNCHANGED vars
  BY <1>1 DEF TypeOK, CreatedFirst, RecordedFirst, DeliveredWasAccepted, InHand, Exists,
      OutboundStatus, vars, dbVars, workerVars, obsVars
<1>2. CASE Next
  BY <1>2, RecordedEnvironment, RecordedReclaim, RecordedDrain, RecordedDeliver, RecordedCrash
  DEF Next, run_outbound_worker
<1> QED
  BY <1>1, <1>2

(* A Delivered job was accepted by a peer and has its 250 audit row, for any   *)
(* number of workers (DeliveredWasAccepted): by induction with CreatedFirst    *)
(* and RecordedFirst, which say in which order a cycle does its writes.        *)
THEOREM DeliveredIsAudited == Spec => []DeliveredWasAccepted
<1> DEFINE IInv == TypeOK /\ CreatedFirst /\ RecordedFirst /\ DeliveredWasAccepted
<1>1. Init => IInv
  <2>1. Init => CreatedFirst /\ RecordedFirst /\ DeliveredWasAccepted
    BY ConstantsAssumption DEF Init, CreatedFirst, RecordedFirst, DeliveredWasAccepted, InHand
  <2> QED
    BY <2>1, TypeInit
<1>2. IInv /\ [Next]_vars => IInv'
  BY TypeNext, CreatedNext, RecordedNext
<1> QED
  BY <1>1, <1>2, PTL DEF Spec

-----------------------------------------------------------------------------
(* The send budget *)

(* The rights to send that worker w and the row of j hold, as numbers. *)
Right(w, j) == IF Carries(w, j) THEN 1 ELSE 0
RowRight(j) == IF Loose(j) THEN 1 ELSE 0

(* A step of w creates no right to send j that torn or stolen does not count. *)
Balanced(j, w) ==
    accepted'[j] + Right(w, j)' + RowRight(j)' + torn[j] + stolen[j]
        <= accepted[j] + Right(w, j) + RowRight(j) + torn'[j] + stolen'[j]

OthersIdle(w) == \A v \in Workers \ {w} : cur'[v] = cur[v] /\ pc'[v] = pc[v]

(* One worker's share of the cardinality of a set of workers. *)
LEMMA SplitCardinality ==
  ASSUME NEW S \in SUBSET Workers, NEW w \in Workers
  PROVE  /\ Cardinality(S \ {w}) \in Nat
         /\ Cardinality(S) = Cardinality(S \ {w}) + (IF w \in S THEN 1 ELSE 0)
<1>1. IsFiniteSet(S) /\ IsFiniteSet(S \ {w})
  BY ConstantsAssumption, FS_Subset
<1>2. Cardinality(S) \in Nat /\ Cardinality(S \ {w}) \in Nat
  BY <1>1, FS_CardinalityType
<1>3. Cardinality(S \ {w}) = IF w \in S THEN Cardinality(S) - 1 ELSE Cardinality(S)
  BY <1>1, FS_RemoveElement
<1> QED
  BY <1>2, <1>3

(* A balanced step of one worker preserves the budget of every job. *)
LEMMA BudgetFromBalance ==
  ASSUME TypeOK, TypeOK', SendsBudget, NEW w \in Workers, OthersIdle(w),
         \A j \in Jobs : Balanced(j, w)
  PROVE  SendsBudget'
<1> SUFFICES ASSUME NEW j \in Jobs
             PROVE  accepted'[j] + Cardinality(Carriers(j)') + RowRight(j)'
                      <= 1 + torn'[j] + stolen'[j]
  BY DEF SendsBudget, RowRight
<1>1. Carriers(j) \in SUBSET Workers /\ Carriers(j)' \in SUBSET Workers
  BY DEF Carriers
<1>2. Carriers(j)' \ {w} = Carriers(j) \ {w}
  BY DEF Carriers, Carries, OthersIdle
<1>3. /\ Cardinality(Carriers(j) \ {w}) \in Nat
      /\ Cardinality(Carriers(j)) = Cardinality(Carriers(j) \ {w}) + Right(w, j)
  BY <1>1, SplitCardinality DEF Right, Carriers
<1>4. Cardinality(Carriers(j)') = Cardinality(Carriers(j) \ {w}) + Right(w, j)'
  BY <1>1, <1>2, SplitCardinality DEF Right, Carriers
<1>5. accepted[j] + Cardinality(Carriers(j)) + RowRight(j) <= 1 + torn[j] + stolen[j]
  BY DEF SendsBudget, RowRight
<1>6. /\ accepted[j] \in Nat /\ torn[j] \in Nat /\ stolen[j] \in Nat
      /\ accepted'[j] \in Nat /\ torn'[j] \in Nat /\ stolen'[j] \in Nat
  BY DEF TypeOK
<1>7. /\ Right(w, j) \in Nat /\ RowRight(j) \in Nat
      /\ Right(w, j)' \in Nat /\ RowRight(j)' \in Nat
  BY DEF Right, RowRight
<1> QED
  BY <1>3, <1>4, <1>5, <1>6, <1>7 DEF Balanced

(* Every worker action is balanced: claim turns the row's right into the       *)
(* worker's, a requeue turns it back, an acceptance uses it up, a torn one     *)
(* and a steal are counted.                                                    *)
LEMMA BalanceReclaim ==
  ASSUME TypeOK, NEW w \in Workers, reclaim_in_progress(w), NEW j \in Jobs
  PROVE  Balanced(j, w)
<1> USE ConstantsAssumption DEF TypeOK, Balanced, Right, RowRight, Carries, Loose, Held,
      dbVars, rowVars, jobVars, obsVars, Goto, Delivering, Release, InHand, Exists,
      OutboundStatus, Steals, Terminal
<1>1. CASE reclaim_scan(w)
  BY <1>1 DEF reclaim_scan
<1>2. CASE reclaim_scan_fails(w)
  BY <1>2 DEF reclaim_scan_fails, Fault
<1>3. CASE reclaim_done(w)
  BY <1>3 DEF reclaim_done
<1>4. ASSUME NEW i \in Jobs, reclaim_row(w, i) PROVE Balanced(j, w)
  BY <1>4 DEF reclaim_row, Update
<1>5. ASSUME NEW i \in Jobs, reclaim_row_fails(w, i) PROVE Balanced(j, w)
  BY <1>5 DEF reclaim_row_fails, Fault
<1> QED
  BY <1>1, <1>2, <1>3, <1>4, <1>5 DEF reclaim_in_progress

(* A step of drain_once, claim included, keeps the budget of one job. *)
LEMMA BalanceDrain ==
  ASSUME TypeOK, NEW w \in Workers, drain_once(w), NEW j \in Jobs
  PROVE  Balanced(j, w)
<1> USE ConstantsAssumption DEF TypeOK, Balanced, Right, RowRight, Carries, Loose, Held,
      dbVars, rowVars, jobVars, obsVars, Goto, Delivering, Release, InHand, Exists,
      OutboundStatus, Steals, Terminal
<1>1. CASE drain_fetch(w)
  BY <1>1 DEF drain_fetch
<1>2. CASE drain_fetch_fails(w)
  BY <1>2 DEF drain_fetch_fails, Fault
<1>3. CASE drain_done(w)
  BY <1>3 DEF drain_done
<1>4. CASE claim_fails(w)
  BY <1>4 DEF claim_fails, Fault
<1>5. ASSUME NEW i \in Jobs, claim(w, i) PROVE Balanced(j, w)
  <2>1. CASE i = j
    <3>1. RowRight(j) = 1
      BY <1>5, <2>1 DEF claim, Claimable
    <3>2. RowRight(j)' = 0
      <4>1. cur'[w] = j /\ status'[j] = "InProgress"
        BY <1>5, <2>1 DEF claim
      <4> QED
        BY <4>1
    <3>3. Right(w, j)' \in {0, 1} /\ Right(w, j) \in {0, 1}
      OBVIOUS
    <3>4. Right(w, j) = 0
      BY <1>5, <2>1 DEF claim
    <3> QED
      BY <1>5, <3>1, <3>2, <3>3, <3>4 DEF claim
  <2>2. CASE i # j
    <3>1. cur[w] \notin Jobs
      BY <1>5 DEF claim
    <3>2. Held(j)' = Held(j) /\ status'[j] = status[j]
      BY <1>5, <2>2, <3>1 DEF claim
    <3> QED
      BY <1>5, <2>2, <3>1, <3>2 DEF claim
  <2> QED
    BY <2>1, <2>2
<1>6. ASSUME NEW i \in Jobs, claim_none(w, i) PROVE Balanced(j, w)
  BY <1>6 DEF claim_none
<1> QED
  BY <1>1, <1>2, <1>3, <1>4, <1>5, <1>6 DEF drain_once

(* A step of deliver_one keeps the budget of one job. *)
LEMMA BalanceDeliver ==
  ASSUME TypeOK, NEW w \in Workers, deliver_one(w), NEW j \in Jobs
  PROVE  Balanced(j, w)
<1> USE ConstantsAssumption DEF TypeOK, Balanced, Right, RowRight, Carries, Loose, Held,
      dbVars, rowVars, jobVars, obsVars, Goto, Delivering, Release, InHand, Exists,
      OutboundStatus, Steals, Terminal
<1>1. CASE message_missing(w)
  BY <1>1 DEF message_missing
<1>2. CASE lookup_fails(w)
  BY <1>2 DEF lookup_fails
<1>3. CASE lookup_mx_hosts(w)
  BY <1>3 DEF lookup_mx_hosts, Targets
<1>4. CASE send_ok(w)
  BY <1>4 DEF send_ok
<1>5. CASE send_err(w)
  BY <1>5 DEF send_err
<1>6. CASE send_reply_lost(w)
  BY <1>6 DEF send_reply_lost, Fault
<1>7. CASE record_delivery_ok(w)
  BY <1>7 DEF record_delivery_ok
<1>8. CASE record_delivery_err(w)
  BY <1>8 DEF record_delivery_err
<1>9. CASE mark_delivered(w)
  BY <1>9 DEF mark_delivered, Update
<1>10. CASE fail_or_requeue(w)
  BY <1>10 DEF fail_or_requeue, Update
<1>11. CASE deliver_fails(w)
  BY <1>11 DEF deliver_fails, Fault, Tear
<1> QED
  BY <1>1, <1>2, <1>3, <1>4, <1>5, <1>6, <1>7, <1>8, <1>9, <1>10, <1>11 DEF deliver_one

(* A crash keeps the budget of one job. *)
LEMMA BalanceCrash ==
  ASSUME TypeOK, NEW w \in Workers, crash(w), NEW j \in Jobs
  PROVE  Balanced(j, w)
  BY ConstantsAssumption DEF crash, Fault, Tear, TypeOK, Balanced, Right, RowRight,
      Carries, Loose, Held, dbVars, Goto, Delivering, InHand

(* Steps of producers, deletes and the clock leave the workers alone; the only  *)
(* right they create is that of a new row, which was never sent before.         *)
LEMMA BudgetEnvironment ==
  ASSUME TypeOK, CreatedFirst, SendsBudget, Environment
  PROVE  SendsBudget'
<1> SUFFICES ASSUME NEW j \in Jobs
             PROVE  accepted'[j] + Cardinality(Carriers(j)') + RowRight(j)'
                      <= 1 + torn'[j] + stolen'[j]
  BY DEF SendsBudget, RowRight
<1>1. UNCHANGED workerVars /\ UNCHANGED obsVars
  BY DEF Environment, store_message, delete_message_links, delete_message_row,
        delete_mailboxes, Drop,
         enqueue_forward, elapse
<1>2. Carriers(j)' = Carriers(j) /\ Held(j)' = Held(j)
  BY <1>1 DEF Carriers, Carries, Held, workerVars
<1>3. accepted[j] + Cardinality(Carriers(j)) + RowRight(j) <= 1 + torn[j] + stolen[j]
  BY DEF SendsBudget, RowRight
<1>4. Cardinality(Carriers(j)) \in Nat
  <2>1. IsFiniteSet(Carriers(j))
    BY ConstantsAssumption, FS_Subset DEF Carriers
  <2> QED
    BY <2>1, FS_CardinalityType
<1>5. accepted[j] \in Nat /\ torn[j] \in Nat /\ stolen[j] \in Nat
  BY DEF TypeOK
<1>6. RowRight(j) \in {0, 1} /\ RowRight(j)' \in {0, 1}
  BY DEF RowRight
<1>7. CASE RowRight(j)' <= RowRight(j)
  BY <1>1, <1>2, <1>3, <1>4, <1>5, <1>6, <1>7 DEF obsVars
<1>8. CASE RowRight(j)' > RowRight(j)
  <2>1. ~Loose(j) /\ Loose(j)'
    BY <1>8 DEF RowRight
  <2>2. status[j] = "None"
    BY <1>2, <2>1
    DEF Environment, store_message, delete_message_links, delete_message_row,
        delete_mailboxes, Drop,
        enqueue_forward, elapse, rowVars, Loose, Exists, OutboundStatus, TypeOK
  <2>3. accepted[j] = 0 /\ ~Held(j)
    BY <2>2 DEF CreatedFirst, Held
  <2>4. Carriers(j) = {}
    BY <2>3 DEF Carriers, Carries, Held
  <2>5. Cardinality(Carriers(j)) = 0
    BY <2>4, FS_EmptySet
  <2> QED
    BY <1>1, <1>2, <1>5, <1>6, <2>3, <2>5 DEF obsVars
<1> QED
  BY <1>6, <1>7, <1>8

(* A step of one worker leaves what the other workers hold alone. *)
LEMMA OthersIdleStep ==
  ASSUME TypeOK, NEW w \in Workers, run_outbound_worker(w) \/ crash(w)
  PROVE  OthersIdle(w)
<1> USE DEF TypeOK, OthersIdle, Goto, Release, jobVars
<1>1. CASE reclaim_in_progress(w)
  BY <1>1 DEF reclaim_in_progress, reclaim_scan, reclaim_scan_fails, reclaim_done,
              reclaim_row, reclaim_row_fails
<1>2. CASE drain_once(w)
  BY <1>2 DEF drain_once, drain_fetch, drain_fetch_fails, drain_done, claim_fails,
              claim, claim_none
<1>3. CASE deliver_one(w)
  BY <1>3 DEF deliver_one, message_missing, lookup_fails, lookup_mx_hosts, send_ok,
              send_err, send_reply_lost, record_delivery_ok, record_delivery_err,
              mark_delivered, fail_or_requeue, deliver_fails
<1>4. CASE crash(w)
  BY <1>4 DEF crash
<1> QED
  BY <1>1, <1>2, <1>3, <1>4 DEF run_outbound_worker

(* Every step keeps SendsBudget, job by job. *)
LEMMA BudgetNext ==
  ASSUME TypeOK, CreatedFirst, SendsBudget, [Next]_vars
  PROVE  SendsBudget'
<1>1. CASE UNCHANGED vars
  BY <1>1 DEF SendsBudget, Carriers, Carries, Loose, Held, vars, dbVars, workerVars, obsVars
<1>2. CASE Environment
  BY <1>2, BudgetEnvironment
<1>3. ASSUME NEW w \in Workers, run_outbound_worker(w) \/ crash(w) PROVE SendsBudget'
  <2>1. OthersIdle(w)
    BY <1>3, OthersIdleStep
  <2>2. TypeOK'
    BY <1>3, TypeNext DEF Next
  <2>3. \A j \in Jobs : Balanced(j, w)
    BY <1>3, BalanceReclaim, BalanceDrain, BalanceDeliver, BalanceCrash
    DEF run_outbound_worker
  <2> QED
    BY <2>1, <2>2, <2>3, BudgetFromBalance
<1> QED
  BY <1>1, <1>2, <1>3 DEF Next

(* For any number of workers, every transaction of a job beyond the first is   *)
(* explained by a torn acceptance or a reclaim of a row in use                 *)
(* (SendsExplained): SendsBudget is inductive and counts, beside the           *)
(* transactions done, the rights to send still outstanding.                    *)
THEOREM SendsAreExplained == Spec => []SendsExplained
<1> DEFINE IInv == TypeOK /\ CreatedFirst /\ SendsBudget
<1>1. Init => IInv
  <2>1. Init => CreatedFirst
    BY ConstantsAssumption DEF Init, CreatedFirst
  <2>2. ASSUME Init, NEW j \in Jobs PROVE Carriers(j) = {} /\ ~Loose(j)
    BY <2>2, ConstantsAssumption DEF Init, Carriers, Carries, Loose
  <2>3. Init => SendsBudget
    BY <2>2, FS_EmptySet DEF Init, SendsBudget
  <2> QED
    BY <2>1, <2>3, TypeInit
<1>2. IInv /\ [Next]_vars => IInv'
  BY TypeNext, CreatedNext, BudgetNext
<1>3. IInv => SendsExplained
  <2> SUFFICES ASSUME IInv, NEW j \in Jobs
               PROVE  accepted[j] <= 1 + torn[j] + stolen[j]
    BY DEF SendsExplained
  <2>1. IsFiniteSet(Carriers(j))
    BY ConstantsAssumption, FS_Subset DEF Carriers
  <2>2. Cardinality(Carriers(j)) \in Nat
    BY <2>1, FS_CardinalityType
  <2> QED
    BY <2>2 DEF SendsBudget, TypeOK
<1> QED
  BY <1>1, <1>2, <1>3, PTL DEF Spec

-----------------------------------------------------------------------------
(* The retry budget: a claim moves the counter of the row into the worker's    *)
(* copy, and only a steal brings a row back that is past the cap.              *)

LEMMA AttemptsEnvironment ==
  ASSUME TypeOK, CreatedFirst, AttemptsBudget, Environment
  PROVE  AttemptsBudget'
<1> USE ConstantsAssumption DEF TypeOK, AttemptsBudget, AttemptsExplained,
      CreatedFirst, OutboundStatus, Exists, GivesUp, rowVars, workerVars,
      jobVars, obsVars
<1>1. ASSUME NEW m \in Messages, store_message(m) PROVE AttemptsBudget'
  BY <1>1 DEF store_message
<1>2. ASSUME NEW m \in Messages, delete_message_links(m) PROVE AttemptsBudget'
  BY <1>2 DEF delete_message_links, Drop
<1>6. ASSUME NEW S \in SUBSET Mailboxes, delete_mailboxes(S) PROVE AttemptsBudget'
  BY <1>6 DEF delete_mailboxes, Drop
<1>3. ASSUME NEW m \in Messages, delete_message_row(m) PROVE AttemptsBudget'
  BY <1>3 DEF delete_message_row
<1>4. ASSUME NEW j \in Jobs, enqueue_forward(j) PROVE AttemptsBudget'
  BY <1>4 DEF enqueue_forward
<1>5. ASSUME NEW j \in Jobs, elapse(j) PROVE AttemptsBudget'
  BY <1>5 DEF elapse
<1> QED
  BY <1>1, <1>2, <1>3, <1>4, <1>5, <1>6 DEF Environment

(* A step of reclaim_in_progress keeps AttemptsBudget. *)
LEMMA AttemptsReclaim ==
  ASSUME TypeOK, CreatedFirst, AttemptsBudget, NEW w \in Workers,
         reclaim_in_progress(w)
  PROVE  AttemptsBudget'
<1> USE ConstantsAssumption DEF TypeOK, AttemptsBudget, AttemptsExplained,
      CreatedFirst, OutboundStatus, Exists, GivesUp, dbVars, rowVars,
      jobVars, obsVars, Goto, Delivering
<1>1. CASE reclaim_scan(w)
  BY <1>1 DEF reclaim_scan, Reclaimable
<1>2. CASE reclaim_scan_fails(w)
  BY <1>2 DEF reclaim_scan_fails, Fault
<1>3. CASE reclaim_done(w)
  BY <1>3 DEF reclaim_done
<1>4. ASSUME NEW i \in Jobs, reclaim_row(w, i) PROVE AttemptsBudget'
  <2>1. attempts' = attempts /\ cur' = cur /\ copy' = copy
    BY <1>4 DEF reclaim_row, Update
  <2>2. stolen' \in [Jobs -> Nat] /\ \A j \in Jobs : stolen'[j] >= stolen[j]
    BY <1>4 DEF reclaim_row
  <2>3. status[i] \in Terminal => stolen'[i] = stolen[i] + 1
    BY <1>4 DEF reclaim_row, Steals
  <2>4. \A j \in Jobs : status'[j] = IF j = i /\ Exists(j) THEN "Queued" ELSE status[j]
    BY <1>4 DEF reclaim_row, Update
  <2> QED
    BY <2>1, <2>2, <2>3, <2>4 DEF Terminal
<1>5. ASSUME NEW i \in Jobs, reclaim_row_fails(w, i) PROVE AttemptsBudget'
  BY <1>5 DEF reclaim_row_fails, Fault
<1> QED
  BY <1>1, <1>2, <1>3, <1>4, <1>5 DEF reclaim_in_progress

(* A step of drain_once, claim included, keeps AttemptsBudget. *)
LEMMA AttemptsDrain ==
  ASSUME TypeOK, CreatedFirst, AttemptsBudget, NEW w \in Workers,
         drain_once(w)
  PROVE  AttemptsBudget'
<1> USE ConstantsAssumption DEF TypeOK, AttemptsBudget, AttemptsExplained,
      CreatedFirst, OutboundStatus, Exists, GivesUp, dbVars, rowVars,
      jobVars, obsVars, Goto, Delivering
<1>1. CASE drain_fetch(w)
  BY <1>1 DEF drain_fetch, Due
<1>2. CASE drain_fetch_fails(w)
  BY <1>2 DEF drain_fetch_fails, Fault
<1>3. CASE drain_done(w)
  BY <1>3 DEF drain_done
<1>4. CASE claim_fails(w)
  BY <1>4 DEF claim_fails, Fault
<1>5. ASSUME NEW i \in Jobs, claim(w, i) PROVE AttemptsBudget'
  BY <1>5 DEF claim, Claimable
<1>6. ASSUME NEW i \in Jobs, claim_none(w, i) PROVE AttemptsBudget'
  BY <1>6 DEF claim_none
<1> QED
  BY <1>1, <1>2, <1>3, <1>4, <1>5, <1>6 DEF drain_once

(* A step of deliver_one keeps AttemptsBudget. *)
LEMMA AttemptsDeliver ==
  ASSUME TypeOK, CreatedFirst, AttemptsBudget, NEW w \in Workers,
         deliver_one(w)
  PROVE  AttemptsBudget'
<1> USE ConstantsAssumption DEF TypeOK, AttemptsBudget, AttemptsExplained,
      CreatedFirst, OutboundStatus, Exists, GivesUp, dbVars, rowVars,
      jobVars, obsVars, Goto, Delivering, Release
<1>1. CASE message_missing(w)
  BY <1>1 DEF message_missing
<1>2. CASE lookup_fails(w)
  BY <1>2 DEF lookup_fails
<1>3. CASE lookup_mx_hosts(w)
  BY <1>3 DEF lookup_mx_hosts, Targets
<1>4. CASE send_ok(w)
  BY <1>4 DEF send_ok
<1>5. CASE send_err(w)
  BY <1>5 DEF send_err
<1>6. CASE send_reply_lost(w)
  BY <1>6 DEF send_reply_lost, Fault
<1>7. CASE record_delivery_ok(w)
  BY <1>7 DEF record_delivery_ok
<1>8. CASE record_delivery_err(w)
  BY <1>8 DEF record_delivery_err
<1>9. CASE mark_delivered(w)
  BY <1>9 DEF mark_delivered, Update
<1>10. CASE fail_or_requeue(w)
  <2> DEFINE n == copy[w] + 1
  <2>1. cur[w] \in Jobs /\ n \in Nat /\ n <= MaxAttempts + 1 + stolen[cur[w]]
    BY <1>10 DEF fail_or_requeue
  <2>2. stolen' = stolen /\ \A v \in Workers : cur'[v] \in Jobs => cur'[v] = cur[v] /\ copy'[v] = copy[v]
    BY <1>10 DEF fail_or_requeue
  <2>3. CASE GivesUp(n)
    <3>1. /\ status' = [status EXCEPT ![cur[w]] = IF Exists(cur[w]) THEN "Failed" ELSE @]
          /\ attempts' = [attempts EXCEPT ![cur[w]] = IF Exists(cur[w]) THEN n ELSE @]
      BY <1>10, <2>3 DEF fail_or_requeue, Update
    <3> QED
      BY <2>1, <2>2, <2>3, <3>1
  <2>4. CASE ~GivesUp(n)
    <3>1. /\ status' = [status EXCEPT ![cur[w]] = IF Exists(cur[w]) THEN "Queued" ELSE @]
          /\ attempts' = [attempts EXCEPT ![cur[w]] = IF Exists(cur[w]) THEN n ELSE @]
      BY <1>10, <2>4 DEF fail_or_requeue, Update
    <3> QED
      BY <2>1, <2>2, <2>4, <3>1
  <2> QED
    BY <2>3, <2>4
<1>11. CASE deliver_fails(w)
  BY <1>11 DEF deliver_fails, Fault, Tear
<1> QED
  BY <1>1, <1>2, <1>3, <1>4, <1>5, <1>6, <1>7, <1>8, <1>9, <1>10, <1>11 DEF deliver_one

(* A crash keeps AttemptsBudget. *)
LEMMA AttemptsCrash ==
  ASSUME TypeOK, CreatedFirst, AttemptsBudget, NEW w \in Workers,
         crash(w)
  PROVE  AttemptsBudget'
  BY ConstantsAssumption
  DEF crash, Fault, Tear, Goto, TypeOK, AttemptsBudget, AttemptsExplained,
      CreatedFirst, OutboundStatus, Exists, GivesUp, Delivering, dbVars

(* Every step keeps AttemptsBudget. *)
LEMMA AttemptsNext ==
  ASSUME TypeOK, CreatedFirst, AttemptsBudget, [Next]_vars
  PROVE  AttemptsBudget'
<1>1. CASE UNCHANGED vars
  BY <1>1 DEF TypeOK, AttemptsBudget, AttemptsExplained,
      CreatedFirst, OutboundStatus, Exists, GivesUp, vars, dbVars, workerVars, obsVars
<1>2. CASE Next
  BY <1>2, AttemptsEnvironment, AttemptsReclaim, AttemptsDrain, AttemptsDeliver, AttemptsCrash
  DEF Next, run_outbound_worker
<1> QED
  BY <1>1, <1>2

(* The counter of a job passes the cap by one and once more for each steal,    *)
(* and no job is given up below it, for any number of workers                  *)
(* (AttemptsExplained).                                                        *)
THEOREM AttemptsAreExplained == Spec => []AttemptsExplained
<1> DEFINE IInv == TypeOK /\ CreatedFirst /\ AttemptsBudget
<1>1. Init => IInv
  <2>1. Init => CreatedFirst /\ AttemptsBudget
    BY ConstantsAssumption DEF Init, CreatedFirst, AttemptsBudget, AttemptsExplained
  <2> QED
    BY <2>1, TypeInit
<1>2. IInv /\ [Next]_vars => IInv'
  BY TypeNext, CreatedNext, AttemptsNext
<1>3. IInv => AttemptsExplained
  BY DEF AttemptsBudget
<1> QED
  BY <1>1, <1>2, <1>3, PTL DEF Spec

-----------------------------------------------------------------------------
(***************************************************************************)
(* What OutboundQueue guarantees when a single worker drains the database, *)
(* the way src/src/main.rs runs it: proofs for any number of jobs,         *)
(* messages, attempts, hosts, crashes and failing statements.              *)
(***************************************************************************)

(* While one worker runs alone, a row of its scan or of its fetch changes only  *)
(* by deletion before the worker gets to it, and so does the job in hand.       *)
LEMMA SnapshotsEnvironment ==
  ASSUME OneWorker, TypeOK, SnapshotsHold, Environment
  PROVE  SnapshotsHold'
<1> USE ConstantsAssumption DEF OneWorker, TypeOK, SnapshotsHold, InHandIsOwned,
      OutboundStatus, Exists, rowVars, workerVars, jobVars, obsVars
<1>1. ASSUME NEW m \in Messages, store_message(m) PROVE SnapshotsHold'
  BY <1>1 DEF store_message
<1>2. ASSUME NEW m \in Messages, delete_message_links(m) PROVE SnapshotsHold'
  BY <1>2 DEF delete_message_links, Drop
<1>6. ASSUME NEW S \in SUBSET Mailboxes, delete_mailboxes(S) PROVE SnapshotsHold'
  BY <1>6 DEF delete_mailboxes, Drop
<1>3. ASSUME NEW m \in Messages, delete_message_row(m) PROVE SnapshotsHold'
  BY <1>3 DEF delete_message_row
<1>4. ASSUME NEW j \in Jobs, enqueue_forward(j) PROVE SnapshotsHold'
  BY <1>4 DEF enqueue_forward
<1>5. ASSUME NEW j \in Jobs, elapse(j) PROVE SnapshotsHold'
  BY <1>5 DEF elapse
<1> QED
  BY <1>1, <1>2, <1>3, <1>4, <1>5, <1>6 DEF Environment

(* A step of reclaim_in_progress keeps SnapshotsHold. *)
LEMMA SnapshotsReclaim ==
  ASSUME OneWorker, TypeOK, SnapshotsHold, NEW w \in Workers, reclaim_in_progress(w)
  PROVE  SnapshotsHold'
<1> USE ConstantsAssumption DEF OneWorker, TypeOK, SnapshotsHold, InHandIsOwned,
      OutboundStatus, Exists, dbVars, rowVars, jobVars, obsVars, Goto, Delivering
<1>1. CASE reclaim_scan(w)
  BY <1>1 DEF reclaim_scan, Reclaimable
<1>2. CASE reclaim_scan_fails(w)
  BY <1>2 DEF reclaim_scan_fails, Fault
<1>3. CASE reclaim_done(w)
  BY <1>3 DEF reclaim_done
<1>4. ASSUME NEW i \in Jobs, reclaim_row(w, i) PROVE SnapshotsHold'
  BY <1>4 DEF reclaim_row, Update
<1>5. ASSUME NEW i \in Jobs, reclaim_row_fails(w, i) PROVE SnapshotsHold'
  BY <1>5 DEF reclaim_row_fails, Fault
<1> QED
  BY <1>1, <1>2, <1>3, <1>4, <1>5 DEF reclaim_in_progress

(* A step of drain_once, claim included, keeps SnapshotsHold. *)
LEMMA SnapshotsDrain ==
  ASSUME OneWorker, TypeOK, SnapshotsHold, NEW w \in Workers, drain_once(w)
  PROVE  SnapshotsHold'
<1> USE ConstantsAssumption DEF OneWorker, TypeOK, SnapshotsHold, InHandIsOwned,
      OutboundStatus, Exists, dbVars, rowVars, jobVars, obsVars, Goto, Delivering
<1>1. CASE drain_fetch(w)
  BY <1>1 DEF drain_fetch, Due
<1>2. CASE drain_fetch_fails(w)
  BY <1>2 DEF drain_fetch_fails, Fault
<1>3. CASE drain_done(w)
  BY <1>3 DEF drain_done
<1>4. CASE claim_fails(w)
  BY <1>4 DEF claim_fails, Fault
<1>5. ASSUME NEW i \in Jobs, claim(w, i) PROVE SnapshotsHold'
  BY <1>5 DEF claim, Claimable
<1>6. ASSUME NEW i \in Jobs, claim_none(w, i) PROVE SnapshotsHold'
  BY <1>6 DEF claim_none
<1> QED
  BY <1>1, <1>2, <1>3, <1>4, <1>5, <1>6 DEF drain_once

(* A step of deliver_one keeps SnapshotsHold. *)
LEMMA SnapshotsDeliver ==
  ASSUME OneWorker, TypeOK, SnapshotsHold, NEW w \in Workers, deliver_one(w)
  PROVE  SnapshotsHold'
<1> USE ConstantsAssumption DEF OneWorker, TypeOK, SnapshotsHold, InHandIsOwned,
      OutboundStatus, Exists, dbVars, rowVars, jobVars, obsVars, Goto, Delivering,
      Release
<1>1. CASE message_missing(w)
  BY <1>1 DEF message_missing
<1>2. CASE lookup_fails(w)
  BY <1>2 DEF lookup_fails
<1>3. CASE lookup_mx_hosts(w)
  BY <1>3 DEF lookup_mx_hosts, Targets
<1>4. CASE send_ok(w)
  BY <1>4 DEF send_ok
<1>5. CASE send_err(w)
  BY <1>5 DEF send_err
<1>6. CASE send_reply_lost(w)
  BY <1>6 DEF send_reply_lost, Fault
<1>7. CASE record_delivery_ok(w)
  BY <1>7 DEF record_delivery_ok
<1>8. CASE record_delivery_err(w)
  BY <1>8 DEF record_delivery_err
<1>9. CASE mark_delivered(w)
  BY <1>9 DEF mark_delivered, Update
<1>10. CASE fail_or_requeue(w)
  BY <1>10 DEF fail_or_requeue, Update
<1>11. CASE deliver_fails(w)
  BY <1>11 DEF deliver_fails, Fault, Tear
<1> QED
  BY <1>1, <1>2, <1>3, <1>4, <1>5, <1>6, <1>7, <1>8, <1>9, <1>10, <1>11 DEF deliver_one

(* A crash keeps SnapshotsHold. *)
LEMMA SnapshotsCrash ==
  ASSUME OneWorker, TypeOK, SnapshotsHold, NEW w \in Workers, crash(w)
  PROVE  SnapshotsHold'
  BY ConstantsAssumption
  DEF crash, Fault, Tear, Goto, OneWorker, TypeOK, SnapshotsHold, InHandIsOwned,
      OutboundStatus, Exists, Delivering, dbVars

(* Every step keeps SnapshotsHold. *)
LEMMA SnapshotsNext ==
  ASSUME OneWorker, TypeOK, SnapshotsHold, [Next]_vars
  PROVE  SnapshotsHold'
<1>1. CASE UNCHANGED vars
  BY <1>1 DEF OneWorker, TypeOK, SnapshotsHold, InHandIsOwned, OutboundStatus, Exists,
      vars, dbVars, workerVars, obsVars
<1>2. CASE Next
  BY <1>2, SnapshotsEnvironment, SnapshotsReclaim, SnapshotsDrain, SnapshotsDeliver, SnapshotsCrash
  DEF Next, run_outbound_worker
<1> QED
  BY <1>1, <1>2

(* Its reclaim therefore only ever hits orphans. *)
LEMMA StolenEnvironment ==
  ASSUME OneWorker, TypeOK, SnapshotsHold, NothingStolen, Environment
  PROVE  NothingStolen'
<1> USE ConstantsAssumption DEF OneWorker, TypeOK, SnapshotsHold, NothingStolen,
      OutboundStatus, Exists, Held, Steals, Terminal, rowVars, workerVars, jobVars,
      obsVars
<1>1. ASSUME NEW m \in Messages, store_message(m) PROVE NothingStolen'
  BY <1>1 DEF store_message
<1>2. ASSUME NEW m \in Messages, delete_message_links(m) PROVE NothingStolen'
  BY <1>2 DEF delete_message_links, Drop
<1>6. ASSUME NEW S \in SUBSET Mailboxes, delete_mailboxes(S) PROVE NothingStolen'
  BY <1>6 DEF delete_mailboxes, Drop
<1>3. ASSUME NEW m \in Messages, delete_message_row(m) PROVE NothingStolen'
  BY <1>3 DEF delete_message_row
<1>4. ASSUME NEW j \in Jobs, enqueue_forward(j) PROVE NothingStolen'
  BY <1>4 DEF enqueue_forward
<1>5. ASSUME NEW j \in Jobs, elapse(j) PROVE NothingStolen'
  BY <1>5 DEF elapse
<1> QED
  BY <1>1, <1>2, <1>3, <1>4, <1>5, <1>6 DEF Environment

(* A step of reclaim_in_progress keeps NothingStolen. *)
LEMMA StolenReclaim ==
  ASSUME OneWorker, TypeOK, SnapshotsHold, NothingStolen, NEW w \in Workers,
         reclaim_in_progress(w)
  PROVE  NothingStolen'
<1> USE ConstantsAssumption DEF OneWorker, TypeOK, SnapshotsHold, NothingStolen,
      OutboundStatus, Exists, Held, Steals, Terminal, dbVars, rowVars, jobVars, obsVars,
      Goto, Delivering
<1>1. CASE reclaim_scan(w)
  BY <1>1 DEF reclaim_scan, Reclaimable
<1>2. CASE reclaim_scan_fails(w)
  BY <1>2 DEF reclaim_scan_fails, Fault
<1>3. CASE reclaim_done(w)
  BY <1>3 DEF reclaim_done
<1>4. ASSUME NEW i \in Jobs, reclaim_row(w, i) PROVE NothingStolen'
  BY <1>4, SMTT(30) DEF reclaim_row, Update
<1>5. ASSUME NEW i \in Jobs, reclaim_row_fails(w, i) PROVE NothingStolen'
  BY <1>5 DEF reclaim_row_fails, Fault
<1> QED
  BY <1>1, <1>2, <1>3, <1>4, <1>5 DEF reclaim_in_progress

(* A step of drain_once, claim included, keeps NothingStolen. *)
LEMMA StolenDrain ==
  ASSUME OneWorker, TypeOK, SnapshotsHold, NothingStolen, NEW w \in Workers,
         drain_once(w)
  PROVE  NothingStolen'
<1> USE ConstantsAssumption DEF OneWorker, TypeOK, SnapshotsHold, NothingStolen,
      OutboundStatus, Exists, Held, Steals, Terminal, dbVars, rowVars, jobVars, obsVars,
      Goto, Delivering
<1>1. CASE drain_fetch(w)
  BY <1>1 DEF drain_fetch, Due
<1>2. CASE drain_fetch_fails(w)
  BY <1>2 DEF drain_fetch_fails, Fault
<1>3. CASE drain_done(w)
  BY <1>3 DEF drain_done
<1>4. CASE claim_fails(w)
  BY <1>4 DEF claim_fails, Fault
<1>5. ASSUME NEW i \in Jobs, claim(w, i) PROVE NothingStolen'
  BY <1>5 DEF claim, Claimable
<1>6. ASSUME NEW i \in Jobs, claim_none(w, i) PROVE NothingStolen'
  BY <1>6 DEF claim_none
<1> QED
  BY <1>1, <1>2, <1>3, <1>4, <1>5, <1>6 DEF drain_once

(* A step of deliver_one keeps NothingStolen. *)
LEMMA StolenDeliver ==
  ASSUME OneWorker, TypeOK, SnapshotsHold, NothingStolen, NEW w \in Workers,
         deliver_one(w)
  PROVE  NothingStolen'
<1> USE ConstantsAssumption DEF OneWorker, TypeOK, SnapshotsHold, NothingStolen,
      OutboundStatus, Exists, Held, Steals, Terminal, dbVars, rowVars, jobVars, obsVars,
      Goto, Delivering, Release
<1>1. CASE message_missing(w)
  BY <1>1 DEF message_missing
<1>2. CASE lookup_fails(w)
  BY <1>2 DEF lookup_fails
<1>3. CASE lookup_mx_hosts(w)
  BY <1>3 DEF lookup_mx_hosts, Targets
<1>4. CASE send_ok(w)
  BY <1>4 DEF send_ok
<1>5. CASE send_err(w)
  BY <1>5 DEF send_err
<1>6. CASE send_reply_lost(w)
  BY <1>6 DEF send_reply_lost, Fault
<1>7. CASE record_delivery_ok(w)
  BY <1>7 DEF record_delivery_ok
<1>8. CASE record_delivery_err(w)
  BY <1>8 DEF record_delivery_err
<1>9. CASE mark_delivered(w)
  BY <1>9 DEF mark_delivered, Update
<1>10. CASE fail_or_requeue(w)
  BY <1>10 DEF fail_or_requeue, Update
<1>11. CASE deliver_fails(w)
  BY <1>11 DEF deliver_fails, Fault, Tear
<1> QED
  BY <1>1, <1>2, <1>3, <1>4, <1>5, <1>6, <1>7, <1>8, <1>9, <1>10, <1>11 DEF deliver_one

(* A crash keeps NothingStolen. *)
LEMMA StolenCrash ==
  ASSUME OneWorker, TypeOK, SnapshotsHold, NothingStolen, NEW w \in Workers, crash(w)
  PROVE  NothingStolen'
  BY ConstantsAssumption
  DEF crash, Fault, Tear, Goto, OneWorker, TypeOK, SnapshotsHold, NothingStolen,
      OutboundStatus, Exists, Held, Steals, Terminal, Delivering, dbVars

(* Every step keeps NothingStolen. *)
LEMMA StolenNext ==
  ASSUME OneWorker, TypeOK, SnapshotsHold, NothingStolen, [Next]_vars
  PROVE  NothingStolen'
<1>1. CASE UNCHANGED vars
  BY <1>1 DEF OneWorker, TypeOK, SnapshotsHold, NothingStolen, OutboundStatus, Exists,
      Held, Steals, Terminal, vars, dbVars, workerVars, obsVars
<1>2. CASE Next
  BY <1>2, StolenEnvironment, StolenReclaim, StolenDrain, StolenDeliver, StolenCrash
  DEF Next, run_outbound_worker
<1> QED
  BY <1>1, <1>2

-----------------------------------------------------------------------------
(* The inductive invariant of the single-worker queue *)

SoloInv ==
    /\ OneWorker
    /\ TypeOK
    /\ CreatedFirst
    /\ RecordedFirst
    /\ DeliveredWasAccepted
    /\ SnapshotsHold
    /\ NothingStolen
    /\ AttemptsBudget

(* The inductive invariant of a single worker holds at the start. *)
LEMMA SoloInit == OneWorker /\ Init => SoloInv
<1> SUFFICES ASSUME OneWorker, Init PROVE SoloInv
  OBVIOUS
<1>1. TypeOK
  BY TypeInit
<1>2. CreatedFirst /\ RecordedFirst /\ DeliveredWasAccepted
  BY ConstantsAssumption DEF Init, CreatedFirst, RecordedFirst, DeliveredWasAccepted, InHand
<1>3. SnapshotsHold /\ NothingStolen /\ AttemptsBudget
  BY ConstantsAssumption DEF Init, SnapshotsHold, InHandIsOwned, NothingStolen,
      AttemptsBudget, AttemptsExplained
<1> QED
  BY <1>1, <1>2, <1>3 DEF SoloInv

(* Every step keeps the inductive invariant of a single worker. *)
LEMMA SoloNext == SoloInv /\ [Next]_vars => SoloInv'
<1> SUFFICES ASSUME SoloInv, [Next]_vars PROVE SoloInv'
  OBVIOUS
<1>1. OneWorker'
  BY DEF SoloInv, OneWorker
<1>2. TypeOK' /\ CreatedFirst' /\ RecordedFirst' /\ DeliveredWasAccepted'
  BY TypeNext, CreatedNext, RecordedNext DEF SoloInv
<1>3. SnapshotsHold' /\ NothingStolen' /\ AttemptsBudget'
  BY SnapshotsNext, StolenNext, AttemptsNext DEF SoloInv
<1> QED
  BY <1>1, <1>2, <1>3 DEF SoloInv

(* SoloInv is an invariant of the queue with one worker. *)
THEOREM SoloInvariant == OneWorker /\ Spec => []SoloInv
  BY SoloInit, SoloNext, PTL DEF Spec

(* The job in hand is the worker's own (InHandIsOwned). *)
THEOREM JobInHandIsOwned == OneWorker /\ Spec => []InHandIsOwned
<1>1. SoloInv => InHandIsOwned
  BY DEF SoloInv, SnapshotsHold
<1> QED
  BY <1>1, SoloInvariant, PTL

(* A second transaction for a job needs a fault after the first one was        *)
(* accepted (ResentOnlyAfterFault): nothing is ever stolen, so the budget of    *)
(* SendsExplained leaves only the torn acceptances.                             *)
THEOREM ResendNeedsFault == OneWorker /\ Spec => []ResentOnlyAfterFault
<1>1. SoloInv /\ SendsExplained => ResentOnlyAfterFault
  BY DEF SoloInv, NothingStolen, SendsExplained, ResentOnlyAfterFault, TypeOK
<1> QED
  BY <1>1, SoloInvariant, SendsAreExplained, PTL

-----------------------------------------------------------------------------
(* Action properties of the single worker *)

(* A step of the worker re-queues, settles or claims only rows its snapshots    *)
(* vouch for, and those are InProgress or Queued, never terminal.               *)
LEMMA TerminalStep ==
  ASSUME SoloInv, Next
  PROVE  \A j \in Jobs : status[j] \in Terminal => status'[j] \in {status[j], "Deleted"}
<1> USE ConstantsAssumption DEF SoloInv, TypeOK, Terminal
<1>1. CASE Environment
  BY <1>1 DEF Environment, store_message, delete_message_links, delete_message_row,
        delete_mailboxes, Drop,
     enqueue_forward, elapse, rowVars
<1>2. ASSUME NEW w \in Workers, reclaim_in_progress(w)
      PROVE \A j \in Jobs : status[j] \in Terminal => status'[j] \in {status[j], "Deleted"}
  <2>1. ASSUME NEW i \in Jobs, reclaim_row(w, i)
        PROVE \A j \in Jobs : status[j] \in Terminal => status'[j] \in {status[j], "Deleted"}
    BY <2>1 DEF reclaim_row, Update, SnapshotsHold
  <2> QED
    BY <1>2, <2>1 DEF reclaim_in_progress, reclaim_scan, reclaim_scan_fails, reclaim_done,
       reclaim_row_fails, dbVars
<1>3. ASSUME NEW w \in Workers, drain_once(w)
      PROVE \A j \in Jobs : status[j] \in Terminal => status'[j] \in {status[j], "Deleted"}
  BY <1>3 DEF drain_once, drain_fetch, drain_fetch_fails, drain_done, claim_fails, claim,
     claim_none, Claimable, dbVars
<1>4. ASSUME NEW w \in Workers, deliver_one(w)
      PROVE \A j \in Jobs : status[j] \in Terminal => status'[j] \in {status[j], "Deleted"}
  <2>1. CASE mark_delivered(w)
    BY <2>1 DEF mark_delivered, Update, SnapshotsHold, InHandIsOwned, Delivering, Exists, OutboundStatus
  <2>2. CASE fail_or_requeue(w)
    BY <2>2 DEF fail_or_requeue, Update, SnapshotsHold, InHandIsOwned, Delivering, Exists, OutboundStatus
  <2> QED
    BY <1>4, <2>1, <2>2 DEF deliver_one, message_missing, lookup_fails, lookup_mx_hosts,
       send_ok, send_err, send_reply_lost, record_delivery_ok, record_delivery_err,
       deliver_fails, dbVars
<1>5. ASSUME NEW w \in Workers, crash(w)
      PROVE \A j \in Jobs : status[j] \in Terminal => status'[j] \in {status[j], "Deleted"}
  BY <1>5 DEF crash, dbVars
<1> QED
  BY <1>1, <1>2, <1>3, <1>4, <1>5 DEF Next, run_outbound_worker

(* Only deletion takes a row out of Delivered or Failed (TerminalIsFinal): no   *)
(* late write of reclaim_in_progress or of a delivery cycle reopens it.         *)
THEOREM TerminalRowsStay == OneWorker /\ Spec => TerminalIsFinal
<1>1. SoloInv /\ [Next]_vars =>
        [\A j \in Jobs : status[j] \in Terminal => status'[j] \in {status[j], "Deleted"}]_vars
  BY TerminalStep
<1> QED
  BY <1>1, SoloInvariant, PTL DEF Spec, TerminalIsFinal

(* Only claim gives the worker a job, and what it claims was due when it was    *)
(* fetched and has not changed since.                                           *)
LEMMA BackoffStep ==
  ASSUME SoloInv, Next
  PROVE  \A w \in Workers, j \in Jobs : cur[w] # j /\ cur'[w] = j => next_at[j] = "due"
<1> USE ConstantsAssumption DEF SoloInv, TypeOK
<1>1. ASSUME NEW v \in Workers, NEW i \in Jobs, claim(v, i)
      PROVE \A w \in Workers, j \in Jobs : cur[w] # j /\ cur'[w] = j => next_at[j] = "due"
  BY <1>1 DEF claim, Claimable, SnapshotsHold
<1>2. CASE Environment
  BY <1>2 DEF Environment, store_message, delete_message_links, delete_message_row,
        delete_mailboxes, Drop,
     enqueue_forward, elapse, workerVars
<1>3. ASSUME NEW v \in Workers, reclaim_in_progress(v) PROVE UNCHANGED cur
  BY <1>3 DEF reclaim_in_progress, reclaim_scan, reclaim_scan_fails, reclaim_done,
     reclaim_row, reclaim_row_fails, jobVars
<1>4. ASSUME NEW v \in Workers, deliver_one(v) \/ crash(v)
      PROVE \A w \in Workers : cur'[w] \in {cur[w], NoJob}
  BY <1>4 DEF deliver_one, message_missing, lookup_fails, lookup_mx_hosts, send_ok, send_err,
     send_reply_lost, record_delivery_ok, record_delivery_err, mark_delivered,
     fail_or_requeue, deliver_fails, crash, Release, jobVars
<1>5. ASSUME NEW v \in Workers, drain_once(v)
      PROVE UNCHANGED cur \/ \E i \in Jobs : claim(v, i)
  BY <1>5 DEF drain_once, drain_fetch, drain_fetch_fails, drain_done, claim_fails,
     claim_none, jobVars
<1> QED
  BY <1>1, <1>2, <1>3, <1>4, <1>5 DEF Next, run_outbound_worker

(* No cycle starts before the backoff of the previous one has elapsed           *)
(* (BackoffRespected), although claim does not test next_attempt_at again.      *)
THEOREM BackoffIsRespected == OneWorker /\ Spec => BackoffRespected
<1>1. SoloInv /\ [Next]_vars =>
        [\A w \in Workers, j \in Jobs : cur[w] # j /\ cur'[w] = j => next_at[j] = "due"]_vars
  BY BackoffStep
<1> QED
  BY <1>1, SoloInvariant, PTL DEF Spec, BackoffRespected

-----------------------------------------------------------------------------
(* With one worker, OutboundQueue implements JobLifecycle: every step of the    *)
(* producers, the delete endpoint and the worker, with its crashes and failing  *)
(* statements, is one step of the abstract job lifecycle or leaves the abstract *)
(* state alone.                                                                 *)

(* The refinement mapping on the values a status can take. *)
LEMMA PhaseTable ==
    /\ PhaseOf("None") = "none"
    /\ PhaseOf("Queued") = "pending"
    /\ PhaseOf("InProgress") = "pending"
    /\ PhaseOf("Delivered") = "delivered"
    /\ PhaseOf("Failed") = "failed"
    /\ PhaseOf("Deleted") = "removed"
  BY DEF PhaseOf

(* A step that leaves statuses, counters and acceptances alone stutters. *)
LEMMA QuietStep ==
  ASSUME UNCHANGED <<status, attempts, accepted>>
  PROVE  UNCHANGED Job!vars
  BY DEF Job!vars, Phase

(* The producers submit and the delete endpoint removes. *)
LEMMA EnvironmentRefines ==
  ASSUME SoloInv, Environment
  PROVE  [Job!Next]_(Job!vars)
<1> USE ConstantsAssumption DEF SoloInv, TypeOK
<1>1. ASSUME NEW j \in Jobs, enqueue_forward(j) PROVE Job!Next
  <2>1. Phase[j] = "none"
    BY <1>1, PhaseTable DEF enqueue_forward, Phase
  <2>2. Phase' = [Phase EXCEPT ![j] = "pending"]
    BY <1>1, PhaseTable DEF enqueue_forward, Phase
  <2>3. UNCHANGED <<accepted, attempts>>
    BY <1>1 DEF enqueue_forward, obsVars
  <2> QED
    BY <2>1, <2>2, <2>3 DEF Job!Next, Job!Submit
<1>2. ASSUME NEW gone \in SUBSET Jobs, \A j \in gone : Exists(j), Drop(gone),
             UNCHANGED accepted
      PROVE Job!Next
  <2>1. \A j \in gone : Phase[j] \in {"pending", "delivered", "failed"}
    BY <1>2, PhaseTable DEF Phase, Exists, OutboundStatus
  <2>2. Phase' = [j \in Jobs |-> IF j \in gone THEN "removed" ELSE Phase[j]]
    BY <1>2, PhaseTable DEF Drop, Phase
  <2>3. attempts' = [j \in Jobs |-> IF j \in gone THEN 0 ELSE attempts[j]]
    BY <1>2 DEF Drop
  <2>4. Job!Remove(gone)
    BY <1>2, <2>1, <2>2, <2>3 DEF Job!Remove
  <2> QED
    BY <2>4 DEF Job!Next
<1>5. ASSUME NEW m \in Messages, delete_message_links(m) PROVE Job!Next
  <2>1. {j \in Jobs : MessageOf[j] = m /\ Exists(j)} \in SUBSET Jobs
    OBVIOUS
  <2> QED
    BY <1>2, <1>5, <2>1 DEF delete_message_links, obsVars
<1>6. ASSUME NEW S \in SUBSET Mailboxes, delete_mailboxes(S) PROVE Job!Next
  <2>1. {j \in Jobs : SenderOf[j] \in S /\ Exists(j)} \in SUBSET Jobs
    OBVIOUS
  <2> QED
    BY <1>2, <1>6, <2>1 DEF delete_mailboxes, obsVars
<1>3. ASSUME NEW m \in Messages, store_message(m) \/ delete_message_row(m)
      PROVE UNCHANGED Job!vars
  BY <1>3, QuietStep DEF store_message, delete_message_row, rowVars, obsVars
<1>4. ASSUME NEW j \in Jobs, elapse(j) PROVE UNCHANGED Job!vars
  BY <1>4, QuietStep DEF elapse, obsVars
<1> QED
  BY <1>1, <1>3, <1>4, <1>5, <1>6 DEF Environment

(* Reclaiming an orphan, fetching, claiming and crashing are invisible: the     *)
(* job is pending before and after.                                             *)
LEMMA ReclaimRefines ==
  ASSUME SoloInv, NEW w \in Workers, reclaim_in_progress(w)
  PROVE  UNCHANGED Job!vars
<1> USE ConstantsAssumption DEF SoloInv, TypeOK
<1>1. ASSUME NEW j \in Jobs, reclaim_row(w, j) PROVE UNCHANGED Job!vars
  <2>1. UNCHANGED <<accepted, attempts>>
    BY <1>1 DEF reclaim_row, Update
  <2>2. status[j] \in {"InProgress", "Deleted"}
    BY <1>1 DEF reclaim_row, SnapshotsHold
  <2>3. \A i \in Jobs : PhaseOf(status'[i]) = PhaseOf(status[i])
    BY <1>1, <2>2, PhaseTable DEF reclaim_row, Update, Exists, OutboundStatus
  <2>4. UNCHANGED Phase
    BY <2>3 DEF Phase
  <2> QED
    BY <2>1, <2>4 DEF Job!vars
<1> QED
  BY <1>1, QuietStep, reclaim_in_progress(w) DEF reclaim_in_progress, reclaim_scan,
     reclaim_scan_fails, reclaim_done, reclaim_row_fails, dbVars, obsVars

(* Fetching and claiming are invisible to an observer of the lifecycle. *)
LEMMA DrainRefines ==
  ASSUME SoloInv, NEW w \in Workers, drain_once(w)
  PROVE  UNCHANGED Job!vars
<1> USE ConstantsAssumption DEF SoloInv, TypeOK
<1>1. ASSUME NEW j \in Jobs, claim(w, j) PROVE UNCHANGED Job!vars
  <2>1. \A i \in Jobs : PhaseOf(status'[i]) = PhaseOf(status[i])
    BY <1>1, PhaseTable DEF claim, Claimable
  <2>2. UNCHANGED Phase
    BY <2>1 DEF Phase
  <2> QED
    BY <1>1, <2>2 DEF claim, obsVars, Job!vars
<1> QED
  BY <1>1, QuietStep, drain_once(w) DEF drain_once, drain_fetch, drain_fetch_fails,
     drain_done, claim_fails, claim_none, dbVars, obsVars

(* A crash changes no row. *)
LEMMA CrashRefines ==
  ASSUME NEW w \in Workers, crash(w)
  PROVE  UNCHANGED Job!vars
  BY QuietStep DEF crash, dbVars

(* An SMTP transaction is accepted for a job that is pending or removed. *)
LEMMA AcceptRefines ==
  ASSUME SoloInv, NEW w \in Workers, send_ok(w) \/ send_reply_lost(w)
  PROVE  Job!Next
<1> USE ConstantsAssumption DEF SoloInv, TypeOK
<1>1. cur[w] \in Jobs
  BY DEF send_ok, send_reply_lost, Delivering
<1>2. Phase[cur[w]] \in {"pending", "removed"}
  BY <1>1, PhaseTable DEF SnapshotsHold, InHandIsOwned, Phase
<1>3. accepted' = [accepted EXCEPT ![cur[w]] = @ + 1] /\ UNCHANGED <<status, attempts>>
  BY DEF send_ok, send_reply_lost, dbVars
<1>4. UNCHANGED Phase
  BY <1>3 DEF Phase
<1>5. Job!Accept(cur[w])
  BY <1>2, <1>3, <1>4 DEF Job!Accept
<1> QED
  BY <1>1, <1>5 DEF Job!Next

(* Writing Delivered is the abstract delivery, unless the row was deleted. *)
LEMMA DeliverRefines ==
  ASSUME SoloInv, NEW w \in Workers, mark_delivered(w)
  PROVE  [Job!Next]_(Job!vars)
<1> USE ConstantsAssumption DEF SoloInv, TypeOK
<1> DEFINE j == cur[w]
<1>1. j \in Jobs /\ accepted[j] > 0
  BY DEF mark_delivered, Delivering, RecordedFirst, InHand
<1>2. UNCHANGED accepted
  BY DEF mark_delivered, obsVars
<1>3. CASE status[j] = "InProgress" /\ attempts[j] = copy[w]
  <2>1. status' = [status EXCEPT ![j] = "Delivered"]
    BY <1>1, <1>3 DEF mark_delivered, Update, Exists, OutboundStatus
  <2>2. attempts' = [attempts EXCEPT ![j] = @ + 1]
    BY <1>1, <1>3 DEF mark_delivered, Update, Exists, OutboundStatus
  <2>3. Phase[j] = "pending" /\ Phase' = [Phase EXCEPT ![j] = "delivered"]
    BY <1>1, <1>3, <2>1, PhaseTable DEF Phase
  <2> HIDE DEF j
  <2>4. Job!Deliver(j)
    BY <1>1, <1>2, <2>2, <2>3 DEF Job!Deliver
  <2> QED
    BY <1>1, <2>4 DEF Job!Next
<1>4. CASE status[j] = "Deleted"
  <2>1. UNCHANGED <<status, attempts>>
    BY <1>1, <1>4 DEF mark_delivered, Update, Exists, OutboundStatus
  <2> QED
    BY <1>2, <2>1, QuietStep
<1> QED
  BY <1>1, <1>3, <1>4 DEF SnapshotsHold, InHandIsOwned

(* A failed cycle is a retry below the cap and gives up at it, unless the row   *)
(* was deleted meanwhile.                                                       *)
LEMMA FailRefines ==
  ASSUME SoloInv, NEW w \in Workers, fail_or_requeue(w)
  PROVE  [Job!Next]_(Job!vars)
<1> USE ConstantsAssumption DEF SoloInv, TypeOK
<1> DEFINE j == cur[w]
<1>1. j \in Jobs
  BY DEF fail_or_requeue, Delivering
<1>2. UNCHANGED accepted
  BY DEF fail_or_requeue, obsVars
<1>3. CASE status[j] = "InProgress" /\ attempts[j] = copy[w]
  <2>1. Phase[j] = "pending" /\ attempts[j] <= MaxAttempts
    BY <1>1, <1>3, PhaseTable DEF Phase, AttemptsBudget, NothingStolen
  <2>2. attempts' = [attempts EXCEPT ![j] = @ + 1]
    BY <1>1, <1>3 DEF fail_or_requeue, Update, Exists, OutboundStatus
  <2>3. CASE GivesUp(copy[w] + 1)
    <3>1. status' = [status EXCEPT ![j] = "Failed"]
      BY <1>1, <1>3, <2>3 DEF fail_or_requeue, Update, Exists, OutboundStatus
    <3>2. Phase' = [Phase EXCEPT ![j] = "failed"]
      BY <1>1, <3>1, PhaseTable DEF Phase
    <3>3. attempts[j] + 1 = MaxAttempts + 1
      BY <1>1, <1>3, <2>1, <2>3 DEF GivesUp
    <3> HIDE DEF j
    <3>4. Job!GiveUp(j)
      BY <1>2, <2>1, <2>2, <3>2, <3>3 DEF Job!GiveUp
    <3> QED
      BY <1>1, <3>4 DEF Job!Next
  <2>4. CASE ~GivesUp(copy[w] + 1)
    <3>1. status' = [status EXCEPT ![j] = "Queued"]
      BY <1>1, <1>3, <2>4 DEF fail_or_requeue, Update, Exists, OutboundStatus
    <3>2. UNCHANGED Phase
      <4>1. \A i \in Jobs : PhaseOf(status'[i]) = PhaseOf(status[i])
        BY <1>1, <1>3, <3>1, PhaseTable
      <4> QED
        BY <4>1 DEF Phase
    <3>3. attempts[j] + 1 < MaxAttempts + 1
      BY <1>1, <1>3, <2>4 DEF GivesUp
    <3> HIDE DEF j
    <3>4. Job!Retry(j)
      BY <1>2, <2>1, <2>2, <3>2, <3>3 DEF Job!Retry
    <3> QED
      BY <1>1, <3>4 DEF Job!Next
  <2> QED
    BY <2>3, <2>4
<1>4. CASE status[j] = "Deleted"
  <2>1. CASE GivesUp(copy[w] + 1)
    BY <1>1, <1>2, <1>4, <2>1, QuietStep, ZenonT(60)
    DEF fail_or_requeue, Update, Exists, OutboundStatus
  <2>2. CASE ~GivesUp(copy[w] + 1)
    BY <1>1, <1>2, <1>4, <2>2, QuietStep, ZenonT(60)
    DEF fail_or_requeue, Update, Exists, OutboundStatus
  <2> QED
    BY <2>1, <2>2
<1> QED
  BY <1>1, <1>3, <1>4 DEF SnapshotsHold, InHandIsOwned

(* The other steps of a cycle do not touch the row. *)
LEMMA CycleRefines ==
  ASSUME SoloInv, NEW w \in Workers, deliver_one(w)
  PROVE  [Job!Next]_(Job!vars)
<1>1. CASE \/ message_missing(w) \/ lookup_fails(w) \/ lookup_mx_hosts(w) \/ send_err(w)
           \/ record_delivery_ok(w) \/ record_delivery_err(w) \/ deliver_fails(w)
  BY <1>1, QuietStep DEF message_missing, lookup_fails, lookup_mx_hosts, send_err,
     record_delivery_ok, record_delivery_err, deliver_fails, dbVars, obsVars
<1> QED
  BY <1>1, AcceptRefines, DeliverRefines, FailRefines DEF deliver_one

(* One step of the queue is one step of the lifecycle, or none. *)
LEMMA StepRefines == SoloInv /\ [Next]_vars => [Job!Next]_(Job!vars)
<1> SUFFICES ASSUME SoloInv, [Next]_vars PROVE [Job!Next]_(Job!vars)
  OBVIOUS
<1>1. CASE UNCHANGED vars
  BY <1>1, QuietStep DEF vars, dbVars, obsVars
<1>2. CASE Next
  BY <1>2, EnvironmentRefines, ReclaimRefines, DrainRefines, CycleRefines, CrashRefines
  DEF Next, run_outbound_worker
<1> QED
  BY <1>1, <1>2

(* An empty queue is an initial state of the lifecycle. *)
LEMMA InitRefines == Init => Job!Init
  BY PhaseTable DEF Init, Job!Init, Phase

(* The queue with one worker implements the documented job lifecycle           *)
(* (ImplementsJobLifecycle): delivered only after an acceptance, given up only  *)
(* when the retries are used up, and final in both cases except for deletion.   *)
THEOREM QueueImplementsJobLifecycle == OneWorker /\ Spec => ImplementsJobLifecycle
<1>1. Init => Job!Init
  BY InitRefines
<1>2. SoloInv /\ [Next]_vars => [Job!Next]_(Job!vars)
  BY StepRefines
<1> QED
  BY <1>1, <1>2, SoloInvariant, PTL DEF Spec, ImplementsJobLifecycle, Job!Spec
=============================================================================
