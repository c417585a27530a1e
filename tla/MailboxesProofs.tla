--------------------------- MODULE MailboxesProofs ---------------------------
(***************************************************************************)
(* Proofs about Mailboxes, for any number of concurrent requests, any      *)
(* addresses and spellings and any configured mailboxes.                   *)
(***************************************************************************)
EXTENDS Mailboxes, TLAPS

(* A patch that names no forward_to and that nobody overtook would write the *)
(* row it read, which is still there: what makes ConfirmedIsKept inductive.  *)
PatchesHaveTheirRow ==
    \A r \in Requests : pc[r] = "update" /\ r \notin late => r \in names \/ want[r] \in boxes

IInv ==
    /\ TypeOK
    /\ RefusedOnlyBlind
    /\ ConfirmedIsKept
    /\ LosersFindTheWinner
    /\ PatchesHaveTheirRow

(* A request has a row to carry. *)
LEMMA BlankType == Blank \in Row
<1>1. PICK a \in Addresses : TRUE
  BY ConstantsAssumption
<1>2. [id |-> Lower[a], domain |-> DomainOf[a], forward |-> None] \in Row
  BY ConstantsAssumption DEF Row, Ids, Domains
<1> QED
  BY <1>2 DEF Blank

(* The rows that seeds, creates and patches write are mailbox rows. *)
LEMMA SeedRowType ==
  ASSUME NEW i \in 1 .. Len(Seeds)
  PROVE  /\ SeedRow(Seeds[i]) \in Row
         /\ SeedRow(Seeds[i]).id = Lower[Seeds[i].addr]
<1>1. Seeds[i] \in [addr : Addresses, forward : Forwards]
  <2> DEFINE Entry == [addr : Addresses, forward : Forwards]
  <2>1. Seeds \in Seq(Entry)
    BY ConstantsAssumption
  <2> HIDE DEF Entry
  <2>2. Seeds[i] \in Entry
    BY <2>1
  <2> QED
    BY <2>2 DEF Entry
<1> QED
  BY <1>1, ConstantsAssumption DEF SeedRow, Row, Ids, Domains

LEMMA CreatedRowType ==
  ASSUME NEW a \in Addresses, NEW f \in Forwards
  PROVE  CreatedRow(a, f) \in Row
BY ConstantsAssumption DEF CreatedRow, Row, Ids, Domains

LEMMA PatchedType ==
  ASSUME NEW x \in Row, NEW given \in {{}} \cup {{f} : f \in Forwards \ {None}}
  PROVE  /\ Patched(x, given) \in Row
         /\ given = {} => Patched(x, given) = x
<1>1. CASE given = {}
  BY <1>1 DEF Patched, Row
<1>2. CASE given # {}
  <2>1. (CHOOSE f \in given : TRUE) \in Forwards
    BY <1>2
  <2> QED
    BY <1>2, <2>1 DEF Patched, Row
<1> QED
  BY <1>1, <1>2

(* Before the first seed there is nothing. *)
LEMMA MailboxesInit == Init => IInv
<1> SUFFICES ASSUME Init PROVE IInv
  OBVIOUS
<1>0. 1 \in 1 .. Len(Seeds) + 1
  BY ConstantsAssumption
<1>1. TypeOK
  BY <1>0, BlankType DEF Init, TypeOK
<1> QED
  BY <1>1 DEF Init, IInv, RefusedOnlyBlind, ConfirmedIsKept, LosersFindTheWinner,
     PatchesHaveTheirRow

-----------------------------------------------------------------------------
(* The boot creates rows under addresses that are not there, and the test    *)
(* before the insert is the one the primary key makes.                       *)
LEMMA SeedingStep ==
  ASSUME IInv, Seeding
  PROVE  IInv'
<1> USE DEF IInv, TypeOK, RefusedOnlyBlind, ConfirmedIsKept, LosersFindTheWinner,
      PatchesHaveTheirRow, Winner, Rows, requestVars, obsVars, bootVars
<1>0. Len(Seeds) \in Nat
  BY ConstantsAssumption
<1>1. CASE seed_mailbox
  <2> DEFINE x == SeedRow(Seeds[next])
  <2>1. x \in Row /\ x.id = Lower[Seeds[next].addr]
    BY <1>0, <1>1, SeedRowType DEF seed_mailbox
  <2>2. /\ next' \in 1 .. Len(Seeds) + 1 /\ faults' \in Nat /\ blind' \in BOOLEAN
        /\ UNCHANGED <<requestVars, late, robbed, confirmed>> /\ boot = "seeding"
    BY <1>0, <1>1 DEF seed_mailbox, Fault
  <2>3. \/ UNCHANGED <<boxes, boot>>
        \/ boxes' = boxes /\ boot' = "refused" /\ blind'
        \/ boxes' = boxes \cup {x} /\ {y \in boxes : y.id = x.id} = {} /\ boot' = boot
    BY <1>1, <2>1 DEF seed_mailbox, Exists
  <2> HIDE DEF x
  <2> QED
    BY <2>1, <2>2, <2>3
<1>2. CASE seed_fails
  BY <1>2, ConstantsAssumption DEF seed_fails, Fault
<1>3. CASE seed_done
  BY <1>3 DEF seed_done
<1> QED
  BY <1>1, <1>2, <1>3 DEF Seeding

(* A restart forgets the requests and keeps the rows. *)
LEMMA RestartStep ==
  ASSUME IInv, restart
  PROVE  IInv'
<1>1. boot' = "seeding" /\ next' = 1 /\ blind' = FALSE /\ UNCHANGED <<boxes, confirmed>>
  BY DEF restart
<1>2. /\ pc' = [r \in Requests |-> "idle"] /\ want' = [r \in Requests |-> Blank]
      /\ names' = {} /\ late' = {} /\ robbed' = {}
  BY DEF restart
<1>3. faults' \in Nat
  BY DEF restart, Fault, IInv, TypeOK
<1>4. 1 \in 1 .. Len(Seeds) + 1
  BY ConstantsAssumption
<1> QED
  BY <1>1, <1>2, <1>3, <1>4, BlankType DEF IInv, TypeOK, RefusedOnlyBlind, ConfirmedIsKept,
     LosersFindTheWinner, PatchesHaveTheirRow

-----------------------------------------------------------------------------
(* A deletion takes its rows from those confirmed, overtakes the patches     *)
(* that have read one of them and robs the creates that lost against one.    *)
LEMMA DeleteStep ==
  ASSUME IInv, NEW gone \in SUBSET boxes, Delete(gone)
  PROVE  IInv'
<1> DEFINE S == {x.id : x \in gone}
<1>1. /\ boxes' = boxes \ gone
      /\ confirmed' = confirmed \ gone
      /\ late' = late \cup Readers(S)
      /\ robbed' = robbed \cup {r \in Requests : pc[r] = "resolve" /\ want[r].id \in S}
      /\ UNCHANGED <<bootVars, blind, requestVars, faults>>
  BY DEF Delete
<1>2. TypeOK' /\ RefusedOnlyBlind' /\ ConfirmedIsKept'
  BY <1>1 DEF IInv, TypeOK, RefusedOnlyBlind, ConfirmedIsKept, bootVars, requestVars, Readers
<1>3. LosersFindTheWinner'
  BY <1>1 DEF IInv, LosersFindTheWinner, Winner, Rows, requestVars
<1>4. PatchesHaveTheirRow'
  BY <1>1 DEF IInv, PatchesHaveTheirRow, Readers, requestVars
<1> QED
  BY <1>2, <1>3, <1>4 DEF IInv

(* What is done in one statement: a create that finds its row, a deletion. *)
LEMMA AtOnceStep ==
  ASSUME IInv, AtOnce
  PROVE  IInv'
<1>1. ASSUME NEW a \in Addresses, NEW f \in Forwards, create_found(a, f)
      PROVE  IInv'
  <2>1. confirmed' \subseteq confirmed \cup boxes /\ UNCHANGED <<boxes, bootVars, blind, requestVars>>
    BY <1>1 DEF create_found, mailbox_resolve, Rows
  <2>2. UNCHANGED <<late, robbed, faults>>
    BY <1>1 DEF create_found
  <2> QED
    BY <2>1, <2>2 DEF IInv, TypeOK, RefusedOnlyBlind, ConfirmedIsKept, LosersFindTheWinner,
       PatchesHaveTheirRow, Winner, Rows, bootVars, requestVars
<1>2. ASSUME NEW i \in Ids, delete_mailbox(i) PROVE IInv'
  BY <1>2, DeleteStep DEF delete_mailbox, Rows
<1>3. ASSUME NEW d \in Domains, delete_domain(d) PROVE IInv'
  BY <1>3, DeleteStep DEF delete_domain
<1> QED
  BY <1>1, <1>2, <1>3 DEF AtOnce

-----------------------------------------------------------------------------
(* The first statement of a create or of a patch. *)
LEMMA BeginStep ==
  ASSUME IInv, NEW r \in Requests, Begin(r)
  PROVE  IInv'
<1> USE DEF IInv, TypeOK, RefusedOnlyBlind, ConfirmedIsKept, LosersFindTheWinner,
      PatchesHaveTheirRow, Winner, Rows, bootVars
<1>1. ASSUME NEW a \in Addresses, NEW f \in Forwards, create_mailbox(r, a, f)
      PROVE  IInv'
  <2> DEFINE x == CreatedRow(a, f)
  <2>1. x \in Row
    BY CreatedRowType
  <2>2. pc' = [pc EXCEPT ![r] = "insert"] /\ want' = [want EXCEPT ![r] = x]
    BY <1>1 DEF create_mailbox, Start
  <2>3. UNCHANGED <<boxes, bootVars, blind, names, late, robbed, confirmed>> /\ faults' \in Nat
    BY <1>1 DEF create_mailbox, Fault
  <2> HIDE DEF x
  <2> QED
    BY <2>1, <2>2, <2>3
<1>2. ASSUME NEW x \in boxes, NEW given \in {{}} \cup {{f} : f \in Forwards \ {None}},
             patch_mailbox(r, x, given)
      PROVE  IInv'
  <2> DEFINE p == Patched(x, given)
  <2>1. p \in Row /\ (given = {} => p = x)
    BY PatchedType
  <2>2. pc' = [pc EXCEPT ![r] = "update"] /\ want' = [want EXCEPT ![r] = p]
    BY <1>2 DEF patch_mailbox, Start
  <2>3. UNCHANGED <<boxes, bootVars, blind, late, robbed, confirmed, faults>>
    BY <1>2 DEF patch_mailbox, obsVars
  <2>4. names' = IF given = {} THEN names ELSE names \cup {r}
    BY <1>2 DEF patch_mailbox
  <2> HIDE DEF p
  <2> QED
    BY <2>1, <2>2, <2>3, <2>4
<1> QED
  BY <1>1, <1>2 DEF Begin

(* A create inserts under an address that is free by now, or looks again. *)
LEMMA CreateProceeds ==
  ASSUME IInv, NEW r \in Requests, insert_mailbox(r) \/ insert_refused(r) \/ resolve(r)
  PROVE  IInv'
<1> USE DEF IInv, TypeOK, RefusedOnlyBlind, ConfirmedIsKept, LosersFindTheWinner,
      PatchesHaveTheirRow, Winner, Rows, bootVars
<1>1. CASE insert_mailbox(r)
  <2>1. /\ {x \in boxes : x.id = want[r].id} = {}
        /\ boxes' = boxes \cup {want[r]} /\ confirmed' = confirmed \cup {want[r]}
        /\ late' = late \cup Readers({want[r].id})
        /\ UNCHANGED <<bootVars, blind, robbed, faults>>
    BY <1>1 DEF insert_mailbox
  <2>2. /\ pc' = [pc EXCEPT ![r] = "idle"] /\ want' = [want EXCEPT ![r] = Blank]
        /\ names' = names \ {r}
    BY <1>1 DEF insert_mailbox, Answer
  <2> QED
    BY <2>1, <2>2, BlankType DEF Readers
<1>2. CASE insert_refused(r)
  <2>1. /\ pc' = [pc EXCEPT ![r] = "resolve"]
        /\ UNCHANGED <<want, names, boxes, bootVars, blind, late, confirmed>>
    BY <1>2 DEF insert_refused, Goto
  <2>2. /\ \/ {x \in boxes : x.id = want[r].id} # {} /\ robbed' = robbed
           \/ robbed' = robbed \cup {r}
        /\ faults' \in Nat
    BY <1>2 DEF insert_refused, Fault
  <2> QED
    BY <2>1, <2>2
<1>3. CASE resolve(r)
  <2>1. /\ confirmed' \subseteq confirmed \cup boxes /\ robbed' = robbed \ {r}
        /\ UNCHANGED <<boxes, bootVars, blind, late, faults>>
    BY <1>3 DEF resolve, mailbox_resolve
  <2>2. /\ pc' = [pc EXCEPT ![r] = "idle"] /\ want' = [want EXCEPT ![r] = Blank]
        /\ names' = names \ {r}
    BY <1>3 DEF resolve, Answer
  <2> QED
    BY <2>1, <2>2, BlankType
<1> QED
  BY <1>1, <1>2, <1>3

(* A patch writes both columns of the row with its id.  If it names no       *)
(* forward_to and was not overtaken, that row is the one it writes.          *)
LEMMA PatchProceeds ==
  ASSUME IInv, NEW r \in Requests, update_mailbox(r)
  PROVE  IInv'
<1> DEFINE old == Rows(want[r].id)
<1>1. /\ pc[r] = "update" /\ pc' = [pc EXCEPT ![r] = "reread"]
      /\ UNCHANGED <<want, names, bootVars, blind, robbed, faults>>
  BY DEF update_mailbox, Goto
<1>2. CASE old = {}
  <2>1. UNCHANGED <<boxes, confirmed>> /\ late' = late \ {r}
    BY <1>2 DEF update_mailbox
  <2> QED
    BY <1>1, <2>1 DEF IInv, TypeOK, RefusedOnlyBlind, ConfirmedIsKept, LosersFindTheWinner,
       PatchesHaveTheirRow, Winner, Rows, bootVars
<1>3. CASE old # {}
  <2>1. /\ boxes' = (boxes \ old) \cup {want[r]}
        /\ confirmed' = (IF r \in names \cup late THEN confirmed \ old ELSE confirmed) \cup {want[r]}
        /\ late' = (late \cup Readers({want[r].id})) \ {r}
    BY <1>3 DEF update_mailbox
  <2>2. want[r] \in Row
    BY DEF IInv, TypeOK
  <2>3. TypeOK' /\ RefusedOnlyBlind'
    <3>1. boxes' \in SUBSET Row /\ \A x, y \in boxes' : x.id = y.id => x = y
      BY <2>1, <2>2 DEF IInv, TypeOK, Rows
    <3>2. confirmed' \in SUBSET Row /\ late' \in SUBSET Requests
      BY <2>1, <2>2 DEF IInv, TypeOK, Readers
    <3> QED
      BY <1>1, <3>1, <3>2 DEF IInv, TypeOK, RefusedOnlyBlind, bootVars
  <2>4. ConfirmedIsKept'
    <3>1. CASE r \in names \cup late
      BY <2>1, <3>1 DEF IInv, ConfirmedIsKept
    <3>2. CASE r \notin names \cup late
      <4>1. want[r] \in boxes /\ old = {want[r]}
        BY <1>1, <3>2 DEF IInv, TypeOK, PatchesHaveTheirRow, Rows
      <4> QED
        BY <2>1, <3>2, <4>1 DEF IInv, ConfirmedIsKept
    <3> QED
      BY <3>1, <3>2
  <2>5. LosersFindTheWinner'
    <3>1. \A x \in boxes : \E y \in boxes' : y.id = x.id
      BY <2>1 DEF Rows
    <3> QED
      BY <1>1, <3>1 DEF IInv, TypeOK, LosersFindTheWinner, Winner, Rows
  <2>6. PatchesHaveTheirRow'
    BY <1>1, <2>1 DEF IInv, TypeOK, PatchesHaveTheirRow, Readers, Rows
  <2> QED
    BY <2>3, <2>4, <2>5, <2>6 DEF IInv
<1> QED
  BY <1>2, <1>3

(* A request that ends, with an answer or by a failed statement. *)
LEMMA RequestEnds ==
  ASSUME IInv, NEW r \in Requests, reread(r) \/ statement_fails(r)
  PROVE  IInv'
<1>1. /\ pc' = [pc EXCEPT ![r] = "idle"] /\ want' = [want EXCEPT ![r] = Blank]
      /\ names' = names \ {r}
  BY DEF reread, statement_fails, Answer
<1>2. /\ late' = late \/ late' = late \ {r}
      /\ robbed' = robbed \/ robbed' = robbed \ {r}
      /\ UNCHANGED <<boxes, bootVars, blind, confirmed>> /\ faults' \in Nat
  BY DEF reread, statement_fails, Fault, obsVars, IInv, TypeOK
<1> QED
  BY <1>1, <1>2, BlankType DEF IInv, TypeOK, RefusedOnlyBlind, ConfirmedIsKept,
     LosersFindTheWinner, PatchesHaveTheirRow, Winner, Rows, bootVars

(* Every step preserves the invariant. *)
LEMMA MailboxesStep == IInv /\ [Next]_vars => IInv'
<1> SUFFICES ASSUME IInv, [Next]_vars PROVE IInv'
  OBVIOUS
<1>1. ASSUME NEW r \in Requests, Proceed(r) PROVE IInv'
  BY <1>1, CreateProceeds, PatchProceeds, RequestEnds DEF Proceed
<1>2. CASE UNCHANGED vars
  BY <1>2 DEF vars, bootVars, requestVars, obsVars, IInv, TypeOK, RefusedOnlyBlind,
     ConfirmedIsKept, LosersFindTheWinner, PatchesHaveTheirRow, Winner, Rows
<1> QED
  BY <1>1, <1>2, SeedingStep, RestartStep, AtOnceStep, BeginStep DEF Next

LEMMA MailboxesInvariant == Spec => []IInv
  BY MailboxesInit, MailboxesStep, PTL DEF Spec

-----------------------------------------------------------------------------
(* Every variable has its type; a mailbox is stored once, under its address  *)
(* in lower case, however requests race for it.                              *)
THEOREM MailboxesTypes == Spec => []TypeOK
<1>1. IInv => TypeOK
  BY DEF IInv
<1> QED
  BY <1>1, MailboxesInvariant, PTL

(* The primary key refuses a configured mailbox, at any boot and with any    *)
(* spelling of the configuration, only when the lookup before it failed: the *)
(* test seed_from_config makes is the one the key makes.                     *)
THEOREM SeedIsRepeatable == Spec => []RefusedOnlyBlind
<1>1. IInv => RefusedOnlyBlind
  BY DEF IInv
<1> QED
  BY <1>1, MailboxesInvariant, PTL

(* A row that create_mailbox or patch_mailbox answered 200 for is stored     *)
(* until it is deleted, patched by name, or overwritten by a patch that read *)
(* the mailbox before another request wrote it.                              *)
THEOREM ConfirmedMailboxIsKept == Spec => []ConfirmedIsKept
<1>1. IInv => ConfirmedIsKept
  BY DEF IInv
<1> QED
  BY <1>1, MailboxesInvariant, PTL

(* create_mailbox that lost its insert to another finds that row when it     *)
(* looks again, unless the row was deleted or its own statement failed.      *)
THEOREM LoserOfACreateFindsTheRow == Spec => []LosersFindTheWinner
<1>1. IInv => LosersFindTheWinner
  BY DEF IInv
<1> QED
  BY <1>1, MailboxesInvariant, PTL
=============================================================================
