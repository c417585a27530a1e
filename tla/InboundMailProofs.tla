-------------------------- MODULE InboundMailProofs --------------------------
(***************************************************************************)
(* Proofs about InboundMail, for any number of sessions, mailboxes,        *)
(* Message-IDs, mails and failures.                                        *)
(***************************************************************************)
EXTENDS InboundMail, TLAPS, FiniteSetTheorems, SequenceTheorems

(* Init establishes TypeOK. *)
LEMMA TypeInit == Init => TypeOK
  BY ConstantsAssumption DEF Init, TypeOK, Rcpts

(* A step of the API keeps TypeOK. *)
LEMMA TypeApi == TypeOK /\ Api => TypeOK'
<1> SUFFICES ASSUME TypeOK, Api PROVE TypeOK'
  OBVIOUS
<1> USE DEF TypeOK, sessionVars, obsVars, ghostVars
<1>1. ASSUME NEW b \in Mailboxes, NEW f \in {"store", "forward"},
             create_mailbox(b, f) \/ patch_mailbox(b, f)
      PROVE  TypeOK'
  BY <1>1, ZenonT(60) DEF create_mailbox, patch_mailbox, SetForward
<1>2. ASSUME NEW S \in SUBSET Mailboxes, delete_mailboxes(S) PROVE TypeOK'
  BY <1>2 DEF delete_mailboxes, Unlink
<1>3. ASSUME NEW i \in Ids, delete_message_links(i) PROVE TypeOK'
  BY <1>3 DEF delete_message_links, Unlink
<1>4. ASSUME NEW i \in Ids, delete_message_row(i) PROVE TypeOK'
  BY <1>4 DEF delete_message_row
<1> QED
  BY <1>1, <1>2, <1>3, <1>4 DEF Api

(* Return empties the session's locals. *)
LEMMA TypeReturn ==
  ASSUME TypeOK, NEW s \in Sessions, Return(s), UNCHANGED recipients
  PROVE  /\ pc' \in [Sessions -> {"idle", "lookup", "store", "link", "load", "enqueue"}]
         /\ recipients' \in [Sessions -> Seq(Mailboxes)]
         /\ to' \in [Sessions -> Seq(Rcpts)]
         /\ rest' \in [Sessions -> Seq(Rcpts)]
         /\ key' \in [Sessions -> Keys \cup {NoKey}]
         /\ id' \in [Sessions -> Ids \cup {NoId}]
         /\ \A u \in Sessions : pc'[u] # "idle" => to'[u] # <<>> /\ rest'[u] # <<>>
         /\ \A u \in Sessions : pc'[u] \in {"link", "load", "enqueue"} => id'[u] \in Ids
         /\ owed' \in [Sessions -> [Mailboxes -> Int]]
         /\ wiped' \in [Sessions -> SUBSET Rcpts]
  BY DEF TypeOK, Return, Goto

(* A list that is not at its last element has a next one. *)
LEMMA TailIsSeq ==
  ASSUME NEW R, NEW q \in Seq(R), q # <<>>
  PROVE  /\ Head(q) \in R
         /\ Tail(q) \in Seq(R)
         /\ Len(q) # 1 => Tail(q) # <<>>
<1>1. Len(q) \in Nat /\ Len(q) > 0
  BY EmptySeq, LenProperties
<1>2. Head(q) \in R /\ Tail(q) \in Seq(R) /\ Len(Tail(q)) = Len(q) - 1
  BY <1>1, HeadTailProperties
<1>3. Len(q) # 1 => Len(Tail(q)) # 0
  BY <1>1, <1>2
<1> QED
  BY <1>2, <1>3

(* A command between payloads keeps TypeOK. *)
LEMMA TypeCommand ==
  ASSUME TypeOK, NEW s \in Sessions,
         \/ \E b \in Mailboxes : handle_rcpt(s, b)
         \/ \E k \in Keys \cup {NoKey} : handle_email(s, k)
         \/ disconnect(s)
  PROVE  TypeOK'
<1> USE DEF TypeOK, dbVars, obsVars, ghostVars
<1>1. ASSUME NEW b \in Mailboxes, handle_rcpt(s, b) PROVE TypeOK'
  <2>1. Append(recipients[s], b) \in Seq(Mailboxes)
    BY AppendProperties
  <2> QED
    BY <1>1, <2>1 DEF handle_rcpt
<1>2. ASSUME NEW k \in Keys \cup {NoKey}, handle_email(s, k) PROVE TypeOK'
  <2> DEFINE taken == IF recipients[s] = <<>> THEN <<Unknown>> ELSE recipients[s]
  <2>1. <<Unknown>> \in Seq(Rcpts) /\ <<Unknown>> # <<>>
    BY DEF Rcpts
  <2>2. recipients[s] \in Seq(Rcpts)
    BY DEF Rcpts
  <2>3. taken \in Seq(Rcpts) /\ taken # <<>>
    BY <2>1, <2>2
  <2>4. to' = [to EXCEPT ![s] = taken] /\ rest' = [rest EXCEPT ![s] = taken]
    BY <1>2 DEF handle_email
  <2> HIDE DEF taken
  <2>5. /\ to' \in [Sessions -> Seq(Rcpts)] /\ rest' \in [Sessions -> Seq(Rcpts)]
        /\ to'[s] # <<>> /\ rest'[s] # <<>>
        /\ \A u \in Sessions \ {s} : to'[u] = to[u] /\ rest'[u] = rest[u]
    BY <2>3, <2>4
  <2>6. /\ pc' \in [Sessions -> {"idle", "lookup", "store", "link", "load", "enqueue"}]
        /\ pc'[s] \in {"store", "lookup"} /\ \A u \in Sessions \ {s} : pc'[u] = pc[u]
    BY <1>2 DEF handle_email, Goto
  <2>7. /\ recipients' \in [Sessions -> Seq(Mailboxes)]
        /\ key' \in [Sessions -> Keys \cup {NoKey}]
        /\ spare' \in [Sessions -> [Mailboxes -> Int]]
        /\ mails' \in Nat
    BY <1>2 DEF handle_email
  <2>8. UNCHANGED <<dbVars, id, owed, wiped, promised, blind, faults>>
    BY <1>2 DEF handle_email
  <2> QED
    BY <2>5, <2>6, <2>7, <2>8
<1>3. CASE disconnect(s)
  BY <1>3 DEF disconnect
<1> QED
  BY <1>1, <1>2, <1>3

(* Looking up and storing the message keep TypeOK. *)
LEMMA TypeStore ==
  ASSUME TypeOK, NEW s \in Sessions,
         lookup_found(s) \/ lookup_none(s) \/ lookup_fails(s) \/ store(s)
  PROVE  TypeOK'
<1> USE DEF TypeOK, dbVars, obsVars, ghostVars, Goto
<1>1. CASE lookup_found(s)
  BY <1>1 DEF lookup_found, Copies
<1>2. CASE lookup_none(s)
  BY <1>2 DEF lookup_none
<1>3. CASE lookup_fails(s)
  BY <1>3 DEF lookup_fails, Fault
<1>4. CASE store(s)
  BY <1>4 DEF store
<1> QED
  BY <1>1, <1>2, <1>3, <1>4

(* Writing an Inbound row keeps TypeOK. *)
LEMMA TypeLink ==
  ASSUME TypeOK, NEW s \in Sessions, link(s)
  PROVE  TypeOK'
<1> USE DEF TypeOK
<1>1. rest[s] \in Seq(Rcpts) /\ rest[s] # <<>> /\ id[s] \in Ids /\ to[s] # <<>>
  BY DEF link
<1>2. /\ Head(rest[s]) \in Rcpts
      /\ Tail(rest[s]) \in Seq(Rcpts)
      /\ Len(rest[s]) # 1 => Tail(rest[s]) # <<>>
  BY <1>1, TailIsSeq
<1>3. /\ pc' \in [Sessions -> {"idle", "lookup", "store", "link", "load", "enqueue"}]
      /\ rest' \in [Sessions -> Seq(Rcpts)]
      /\ rest'[s] # <<>> /\ \A u \in Sessions \ {s} : rest'[u] = rest[u] /\ pc'[u] = pc[u]
  <2> DEFINE next == IF Len(rest[s]) = 1 THEN to[s] ELSE Tail(rest[s])
             label == IF Len(rest[s]) = 1 THEN "load" ELSE "link"
  <2>1. next \in Seq(Rcpts) /\ next # <<>> /\ label \in {"load", "link"}
    BY <1>1, <1>2
  <2>2. pc[s] = "link" /\ NextLink(s)
    BY DEF link
  <2>3. pc' = [pc EXCEPT ![s] = label] /\ rest' = [rest EXCEPT ![s] = next]
    BY <2>2 DEF NextLink, Goto
  <2> HIDE DEF next, label
  <2> QED
    BY <2>1, <2>3
<1>4. links' \in SUBSET (Ids \X Rcpts)
  BY <1>1, <1>2 DEF link
<1>5. /\ owed' \in [Sessions -> [Mailboxes -> Int]]
      /\ spare' \in [Sessions -> [Mailboxes -> Int]]
      /\ wiped' \in [Sessions -> SUBSET Rcpts]
  BY DEF link, Add
<1>6. UNCHANGED <<box, plain, msg, header, recipients, to, key, id, promised, blind, mails, faults>>
  BY DEF link
<1>7. pc[s] = "link"
  BY DEF link
<1> QED
  BY <1>1, <1>3, <1>4, <1>5, <1>6, <1>7

(* The forwarding loop's step keeps the types of what it changes. *)
LEMMA TypeAdvance ==
  ASSUME TypeOK, NEW s \in Sessions, pc[s] \in {"load", "enqueue"}, Advance(s),
         UNCHANGED <<dbVars, recipients, blind, mails>>,
         spare' \in [Sessions -> [Mailboxes -> Int]], faults' \in Nat
  PROVE  TypeOK'
<1>1. rest[s] \in Seq(Rcpts) /\ rest[s] # <<>> /\ id[s] \in Ids /\ to[s] # <<>> /\ to[s] \in Seq(Rcpts)
  BY DEF TypeOK
<1>2. CASE Len(rest[s]) = 1
  <2>1. Return(s) /\ promised' = promised \cup ({id[s]} \X (Range(to[s]) \ wiped[s]))
    BY <1>2 DEF Advance
  <2>2. Range(to[s]) \subseteq Rcpts
    BY <1>1 DEF Range
  <2>3. promised' \in SUBSET (Ids \X Rcpts)
    BY <1>1, <2>1, <2>2 DEF TypeOK
  <2> QED
    BY <2>1, <2>3, TypeReturn DEF TypeOK, dbVars
<1>3. CASE Len(rest[s]) # 1
  <2>1. Tail(rest[s]) \in Seq(Rcpts) /\ Tail(rest[s]) # <<>>
    BY <1>1, <1>3, TailIsSeq
  <2> QED
    BY <1>1, <1>3, <2>1, ZenonT(60) DEF Advance, Goto, TypeOK, dbVars
<1> QED
  BY <1>2, <1>3

(* Forwarding keeps TypeOK. *)
LEMMA TypeForward ==
  ASSUME TypeOK, NEW s \in Sessions,
         load_forward(s) \/ load_none(s) \/ enqueue_forward(s) \/ forward_fails(s)
  PROVE  TypeOK'
<1>1. CASE load_forward(s)
  BY <1>1 DEF load_forward, TypeOK, dbVars, obsVars, ghostVars, Goto
<1>2. CASE load_none(s)
  BY <1>2, TypeAdvance DEF load_none, TypeOK
<1>3. CASE enqueue_forward(s)
  <2>1. spare' \in [Sessions -> [Mailboxes -> Int]]
    BY <1>3 DEF enqueue_forward, Add, TypeOK
  <2> QED
    BY <1>3, <2>1, TypeAdvance DEF enqueue_forward, TypeOK
<1>4. CASE forward_fails(s)
  BY <1>4, TypeAdvance DEF forward_fails, Fault, TypeOK
<1> QED
  BY <1>1, <1>2, <1>3, <1>4

(* Every step keeps TypeOK. *)
LEMMA TypeNext == TypeOK /\ [Next]_vars => TypeOK'
<1> SUFFICES ASSUME TypeOK, [Next]_vars PROVE TypeOK'
  OBVIOUS
<1>1. CASE Api
  BY <1>1, TypeApi
<1>2. ASSUME NEW s \in Sessions, Session(s) PROVE TypeOK'
  <2>1. CASE abort(s) \/ crash(s)
    <3>1. Return(s) /\ UNCHANGED <<dbVars, recipients, spare, promised, blind, mails>> /\ Fault
      BY <2>1 DEF abort, crash
    <3> QED
      BY <3>1, TypeReturn DEF TypeOK, dbVars, Fault
  <2> QED
    BY <1>2, <2>1, TypeCommand, TypeStore, TypeLink, TypeForward DEF Session
<1>3. CASE UNCHANGED vars
  BY <1>3 DEF TypeOK, vars, dbVars, sessionVars, obsVars, ghostVars
<1> QED
  BY <1>1, <1>2, <1>3 DEF Next

(* The handler and the API keep the types of all rows and locals; in         *)
(* particular no loop of handle_email runs past its recipients.              *)
THEOREM TypeCorrect == Spec => []TypeOK
  BY TypeInit, TypeNext, PTL DEF Spec

-----------------------------------------------------------------------------
(* De-duplication.  DuplicatesBounded is inductive as it stands: a lookup    *)
(* that finds nothing starts again from zero copies, a store turns a session *)
(* about to store into a copy, and only a failed lookup adds to both sides.  *)

(* What is counted for one Message-ID. *)
Load(k) == Cardinality(Copies(k)) + Cardinality(Storing(k))

(* The counted sets are finite, before and after a step. *)
LEMMA CountsAreFinite ==
  ASSUME NEW k
  PROVE  /\ IsFiniteSet(Copies(k)) /\ IsFiniteSet(Storing(k))
         /\ IsFiniteSet(Copies(k)') /\ IsFiniteSet(Storing(k)')
         /\ Cardinality(Copies(k)) \in Nat /\ Cardinality(Storing(k)) \in Nat
         /\ Cardinality(Copies(k)') \in Nat /\ Cardinality(Storing(k)') \in Nat
         /\ Cardinality(Sessions) \in Nat
<1>1. IsFiniteSet(Ids) /\ IsFiniteSet(Sessions)
  BY ConstantsAssumption
<1>2. Copies(k) \subseteq Ids /\ Copies(k)' \subseteq Ids
  BY DEF Copies
<1>3. Storing(k) \subseteq Sessions /\ Storing(k)' \subseteq Sessions
  BY DEF Storing
<1>4. /\ IsFiniteSet(Copies(k)) /\ IsFiniteSet(Storing(k))
      /\ IsFiniteSet(Copies(k)') /\ IsFiniteSet(Storing(k)')
  BY <1>1, <1>2, <1>3, FS_Subset
<1> QED
  BY <1>1, <1>4, FS_CardinalityType

(* A step that adds no copy and no session about to store keeps the bound. *)
LEMMA QuietKeepsBound ==
  ASSUME TypeOK, NEW k \in Keys, Load(k) <= Cardinality(Sessions) + blind,
         Copies(k)' \subseteq Copies(k), Storing(k)' \subseteq Storing(k), blind' = blind
  PROVE  Load(k)' <= Cardinality(Sessions) + blind'
<1>1. /\ Cardinality(Copies(k)') <= Cardinality(Copies(k))
      /\ Cardinality(Storing(k)') <= Cardinality(Storing(k))
  BY CountsAreFinite, FS_Subset
<1> QED
  BY <1>1, CountsAreFinite DEF Load, TypeOK

(* No endpoint adds a copy. *)
LEMMA ApiIsQuiet ==
  ASSUME TypeOK, Api, NEW k
  PROVE  Copies(k)' \subseteq Copies(k) /\ Storing(k)' = Storing(k) /\ blind' = blind
<1> USE DEF Copies, Storing, TypeOK, sessionVars, obsVars, ghostVars
<1>1. CASE \E b \in Mailboxes, f \in {"store", "forward"} : create_mailbox(b, f) \/ patch_mailbox(b, f)
  BY <1>1 DEF create_mailbox, patch_mailbox, SetForward
<1>2. CASE \E S \in SUBSET Mailboxes : delete_mailboxes(S)
  BY <1>2 DEF delete_mailboxes, Unlink
<1>3. CASE \E i \in Ids : delete_message_links(i)
  BY <1>3 DEF delete_message_links, Unlink
<1>4. CASE \E i \in Ids : delete_message_row(i)
  BY <1>4 DEF delete_message_row
<1> QED
  BY <1>1, <1>2, <1>3, <1>4 DEF Api

(* Nor does a step of a session other than finding no copy and storing one. *)
LEMMA SessionIsQuiet ==
  ASSUME TypeOK, NEW s \in Sessions, Session(s), NEW k \in Keys,
         ~lookup_none(s), ~lookup_fails(s), ~store(s)
  PROVE  Copies(k)' = Copies(k) /\ Storing(k)' \subseteq Storing(k) /\ blind' = blind
<1> USE DEF Copies, Storing, TypeOK, dbVars, obsVars, ghostVars, Goto
<1>1. CASE (\E b \in Mailboxes : handle_rcpt(s, b)) \/ disconnect(s)
  BY <1>1 DEF handle_rcpt, disconnect
<1>2. CASE \E h \in Keys \cup {NoKey} : handle_email(s, h)
  BY <1>2, ConstantsAssumption DEF handle_email
<1>3. CASE lookup_found(s)
  BY <1>3 DEF lookup_found
<1>4. CASE link(s)
  BY <1>4 DEF link, NextLink
<1>5. CASE abort(s) \/ crash(s)
  BY <1>5 DEF abort, crash, Return
<1>6. CASE load_forward(s)
  BY <1>6 DEF load_forward
<1>7. CASE load_none(s) \/ enqueue_forward(s) \/ forward_fails(s)
  BY <1>7 DEF load_none, enqueue_forward, forward_fails, Advance, Return
<1> QED
  BY <1>1, <1>2, <1>3, <1>4, <1>5, <1>6, <1>7 DEF Session

(* A lookup that finds no copy keeps the bound: at most every session is     *)
(* about to store.                                                           *)
LEMMA MissKeepsBound ==
  ASSUME TypeOK, NEW s \in Sessions, lookup_none(s), NEW k \in Keys,
         Load(k) <= Cardinality(Sessions) + blind
  PROVE  Load(k)' <= Cardinality(Sessions) + blind'
<1>1. Copies(k)' = Copies(k) /\ blind' = blind
  BY DEF lookup_none, Copies, dbVars, obsVars, ghostVars
<1>2. CASE k = key[s]
  <2>1. Copies(k)' = {}
    BY <1>1, <1>2 DEF lookup_none
  <2>2. Cardinality(Copies(k)') = 0
    BY <2>1, FS_EmptySet
  <2>3. Cardinality(Storing(k)') <= Cardinality(Sessions)
    BY ConstantsAssumption, FS_Subset DEF Storing
  <2> QED
    BY <1>1, <2>2, <2>3, CountsAreFinite DEF Load, TypeOK
<1>3. CASE k # key[s]
  <2>1. Storing(k)' \subseteq Storing(k)
    BY <1>3 DEF lookup_none, Storing, Goto, TypeOK
  <2> QED
    BY <1>1, <2>1, QuietKeepsBound
<1> QED
  BY <1>2, <1>3

(* A failed lookup adds one session about to store, and pays for it. *)
LEMMA BlindKeepsBound ==
  ASSUME TypeOK, NEW s \in Sessions, lookup_fails(s), NEW k \in Keys,
         Load(k) <= Cardinality(Sessions) + blind
  PROVE  Load(k)' <= Cardinality(Sessions) + blind'
<1>1. Copies(k)' = Copies(k) /\ blind' = blind + 1
  BY DEF lookup_fails, Copies, dbVars
<1>2. Storing(k)' \subseteq Storing(k) \cup {s}
  BY DEF lookup_fails, Storing, Goto, TypeOK
<1>3. /\ IsFiniteSet(Storing(k) \cup {s})
      /\ Cardinality(Storing(k) \cup {s}) \in {Cardinality(Storing(k)), Cardinality(Storing(k)) + 1}
  BY CountsAreFinite, FS_AddElement
<1>4. Cardinality(Storing(k)') <= Cardinality(Storing(k) \cup {s})
  BY <1>2, <1>3, FS_Subset
<1> QED
  BY <1>1, <1>3, <1>4, CountsAreFinite DEF Load, TypeOK

(* Storing turns a session about to store into a copy. *)
LEMMA StoreKeepsBound ==
  ASSUME TypeOK, NEW s \in Sessions, store(s), NEW k \in Keys,
         Load(k) <= Cardinality(Sessions) + blind
  PROVE  Load(k)' <= Cardinality(Sessions) + blind'
<1>1. blind' = blind
  BY DEF store, obsVars, ghostVars
<1>2. Storing(k)' = Storing(k) \ {s}
  BY DEF store, Storing, Goto, TypeOK
<1>3. CASE k = key[s]
  <2>1. s \in Storing(k)
    BY <1>3 DEF store, Storing
  <2>2. Cardinality(Storing(k)') = Cardinality(Storing(k)) - 1
    BY <1>2, <2>1, CountsAreFinite, FS_RemoveElement
  <2>3. PICK i \in Ids : Copies(k)' \subseteq Copies(k) \cup {i}
    BY DEF store, Copies, TypeOK
  <2>4. /\ IsFiniteSet(Copies(k) \cup {i})
        /\ Cardinality(Copies(k) \cup {i}) \in {Cardinality(Copies(k)), Cardinality(Copies(k)) + 1}
    BY CountsAreFinite, FS_AddElement
  <2>5. Cardinality(Copies(k)') <= Cardinality(Copies(k) \cup {i})
    BY <2>3, <2>4, FS_Subset
  <2> QED
    BY <1>1, <2>2, <2>4, <2>5, CountsAreFinite DEF Load, TypeOK
<1>4. CASE k # key[s]
  <2>1. Copies(k)' \subseteq Copies(k)
    BY <1>4 DEF store, Copies, TypeOK
  <2> QED
    BY <1>1, <1>2, <2>1, QuietKeepsBound
<1> QED
  BY <1>3, <1>4

(* Every step keeps DuplicatesBounded. *)
LEMMA BoundNext == TypeOK /\ DuplicatesBounded /\ [Next]_vars => DuplicatesBounded'
<1> SUFFICES ASSUME TypeOK, DuplicatesBounded, [Next]_vars, NEW k \in Keys
             PROVE  Load(k)' <= Cardinality(Sessions) + blind'
  BY DEF DuplicatesBounded, Load
<1>1. Load(k) <= Cardinality(Sessions) + blind
  BY DEF DuplicatesBounded, Load
<1>2. CASE Api
  BY <1>1, <1>2, ApiIsQuiet, QuietKeepsBound
<1>3. ASSUME NEW s \in Sessions, Session(s)
      PROVE  Load(k)' <= Cardinality(Sessions) + blind'
  BY <1>1, <1>3, MissKeepsBound, BlindKeepsBound, StoreKeepsBound, SessionIsQuiet, QuietKeepsBound
<1>4. CASE UNCHANGED vars
  <2>1. Copies(k)' = Copies(k) /\ Storing(k)' = Storing(k) /\ blind' = blind
    BY <1>4 DEF vars, dbVars, sessionVars, obsVars, ghostVars, Copies, Storing
  <2> QED
    BY <1>1, <2>1, QuietKeepsBound
<1> QED
  BY <1>2, <1>3, <1>4 DEF Next

(* At the start there is nothing to count. *)
LEMMA BoundInit == Init => DuplicatesBounded
<1> SUFFICES ASSUME Init, NEW k \in Keys
             PROVE  Load(k) <= Cardinality(Sessions) + blind
  BY DEF DuplicatesBounded, Load
<1>1. Copies(k) = {} /\ Storing(k) = {} /\ blind = 0
  BY DEF Init, Copies, Storing
<1>2. Cardinality(Copies(k)) = 0 /\ Cardinality(Storing(k)) = 0
  BY <1>1, FS_EmptySet
<1> QED
  BY <1>1, <1>2, CountsAreFinite DEF Load

(* The look-up-then-insert of handle_email never lets through more copies of *)
(* a Message-ID than there are sessions to race and lookups that failed.     *)
THEOREM CopiesAreBounded == Spec => []DuplicatesBounded
  BY TypeInit, TypeNext, BoundInit, BoundNext, PTL DEF Spec

-----------------------------------------------------------------------------
(* What a 250 means.  LinkedSoFar follows a payload through both loops.      *)

LinkInv == TypeOK /\ LinkedSoFar /\ AckedIsLinked

(* The elements of a list are its head and those of its tail. *)
LEMMA RangeTail ==
  ASSUME NEW R, NEW q \in Seq(R), q # <<>>, NEW r \in Range(q), r # Head(q)
  PROVE  Len(q) # 1 /\ r \in Range(Tail(q))
<1>1. Len(q) \in Nat /\ Len(q) > 0 /\ DOMAIN q = 1..Len(q)
  BY EmptySeq, LenProperties
<1>2. PICK n \in 1..Len(q) : q[n] = r
  BY <1>1 DEF Range
<1>3. n # 1
  BY <1>2, <1>1, HeadTailProperties
<1>4. n - 1 \in 1..(Len(q) - 1)
  BY <1>1, <1>2, <1>3
<1>5. Tail(q)[n - 1] = q[n] /\ Len(Tail(q)) = Len(q) - 1 /\ Tail(q) \in Seq(R)
  BY <1>1, <1>4, HeadTailProperties
<1>6. DOMAIN Tail(q) = 1..(Len(q) - 1)
  BY <1>5, LenProperties
<1>7. Len(q) # 1
  BY <1>1, <1>2, <1>3
<1>8. n - 1 \in DOMAIN Tail(q) /\ Tail(q)[n - 1] = r
  BY <1>2, <1>4, <1>5, <1>6
<1>9. r \in Range(Tail(q))
  BY <1>8 DEF Range
<1> QED
  BY <1>7, <1>9

(* Deleting Inbound rows keeps LinkInv: what goes is noted or was not promised. *)
LEMMA UnlinkKeeps ==
  ASSUME LinkInv, NEW gone, Unlink(gone), UNCHANGED sessionVars
  PROVE  LinkedSoFar' /\ AckedIsLinked'
<1>1. \A s \in Sessions : \A r \in Range(to[s]) :
        <<id[s], r>> \in links => r \in wiped'[s] \/ <<id[s], r>> \in links'
  <2> SUFFICES ASSUME NEW s \in Sessions, NEW r \in Range(to[s]), <<id[s], r>> \in links,
                      <<id[s], r>> \in gone
               PROVE  r \in wiped'[s]
    BY DEF Unlink
  <2>1. r \in Rcpts
    BY DEF LinkInv, TypeOK, Range
  <2> QED
    BY <2>1 DEF Unlink
<1>2. \A s \in Sessions : wiped[s] \subseteq wiped'[s]
  BY DEF Unlink
<1> QED
  BY <1>1, <1>2 DEF LinkInv, LinkedSoFar, AckedIsLinked, Unlink, sessionVars

(* A step of the API keeps LinkInv. *)
LEMMA LinkApi == LinkInv /\ Api => LinkedSoFar' /\ AckedIsLinked'
<1> SUFFICES ASSUME LinkInv, Api PROVE LinkedSoFar' /\ AckedIsLinked'
  OBVIOUS
<1>1. CASE \/ \E b \in Mailboxes, f \in {"store", "forward"} : create_mailbox(b, f) \/ patch_mailbox(b, f)
           \/ \E i \in Ids : delete_message_row(i)
  BY <1>1 DEF create_mailbox, patch_mailbox, SetForward, delete_message_row, LinkInv, LinkedSoFar,
              AckedIsLinked, sessionVars, obsVars, ghostVars
<1>2. CASE \E S \in SUBSET Mailboxes : delete_mailboxes(S)
  BY <1>2, UnlinkKeeps DEF delete_mailboxes
<1>3. CASE \E i \in Ids : delete_message_links(i)
  BY <1>3, UnlinkKeeps DEF delete_message_links
<1> QED
  BY <1>1, <1>2, <1>3 DEF Api

(* What session u has linked stays linked while only s moves. *)
LEMMA OthersKeep ==
  ASSUME LinkInv, NEW s \in Sessions, links \subseteq links',
         \A u \in Sessions \ {s} : /\ pc'[u] = pc[u] /\ to'[u] = to[u] /\ rest'[u] = rest[u]
                                  /\ id'[u] = id[u] /\ wiped'[u] = wiped[u],
         pc'[s] \in {"lookup", "store"} => rest'[s] = to'[s],
         pc'[s] \in {"link", "load", "enqueue"} =>
             \A r \in Range(to'[s]) :
                 \/ pc'[s] = "link" /\ r \in Range(rest'[s])
                 \/ r \in wiped'[s]
                 \/ <<id'[s], r>> \in links'
  PROVE  LinkedSoFar'
  BY DEF LinkInv, LinkedSoFar

(* A session's step from lookup to the forwarding loop, but for the link. *)
LEMMA LinkFront ==
  ASSUME LinkInv, NEW s \in Sessions,
         \/ \E b \in Mailboxes : handle_rcpt(s, b)
         \/ \E k \in Keys \cup {NoKey} : handle_email(s, k)
         \/ disconnect(s) \/ lookup_found(s) \/ lookup_none(s) \/ lookup_fails(s)
         \/ store(s) \/ abort(s) \/ crash(s) \/ load_forward(s)
  PROVE  LinkedSoFar' /\ AckedIsLinked'
<1> USE DEF LinkInv, TypeOK, dbVars, obsVars, ghostVars, Goto
<1>1. AckedIsLinked'
  BY DEF AckedIsLinked, handle_rcpt, handle_email, disconnect, lookup_found, lookup_none,
         lookup_fails, store, abort, crash, load_forward
<1>2. CASE (\E b \in Mailboxes : handle_rcpt(s, b)) \/ disconnect(s)
  BY <1>2, <1>1 DEF handle_rcpt, disconnect, LinkedSoFar
<1>3. CASE \E k \in Keys \cup {NoKey} : handle_email(s, k)
  BY <1>3, <1>1, OthersKeep DEF handle_email
<1>4. CASE lookup_found(s) \/ store(s)
  <2>1. /\ pc' = [pc EXCEPT ![s] = "link"] /\ UNCHANGED <<links, to, rest, wiped>>
        /\ \A u \in Sessions \ {s} : id'[u] = id[u]
    BY <1>4 DEF lookup_found, store
  <2>2. rest[s] = to[s]
    BY <1>4 DEF lookup_found, store, LinkedSoFar
  <2>3. pc'[s] = "link" /\ \A r \in Range(to'[s]) : r \in Range(rest'[s])
    BY <2>1, <2>2
  <2>4. \A u \in Sessions \ {s} : /\ pc'[u] = pc[u] /\ to'[u] = to[u] /\ rest'[u] = rest[u]
                                 /\ id'[u] = id[u] /\ wiped'[u] = wiped[u]
    BY <2>1
  <2>5. LinkedSoFar'
    BY <2>1, <2>3, <2>4, OthersKeep
  <2> QED
    BY <1>1, <2>5
<1>5. CASE lookup_none(s) \/ lookup_fails(s)
  BY <1>5, <1>1, OthersKeep DEF lookup_none, lookup_fails, LinkedSoFar
<1>6. CASE abort(s) \/ crash(s)
  BY <1>6, <1>1, OthersKeep DEF abort, crash, Return
<1>7. CASE load_forward(s)
  BY <1>7, <1>1, OthersKeep DEF load_forward, LinkedSoFar
<1> QED
  BY <1>2, <1>3, <1>4, <1>5, <1>6, <1>7

(* Writing a row: the recipient at the head is linked, the others wait. *)
LEMMA LinkLink ==
  ASSUME LinkInv, NEW s \in Sessions, link(s)
  PROVE  LinkedSoFar' /\ AckedIsLinked'
<1> DEFINE h == Head(rest[s])
<1>1. /\ links' = links \cup {<<id[s], h>>} /\ wiped' = [wiped EXCEPT ![s] = @ \ {h}]
      /\ UNCHANGED <<to, id, promised>> /\ pc[s] = "link" /\ NextLink(s)
  BY DEF link
<1>2. AckedIsLinked'
  BY <1>1 DEF LinkInv, AckedIsLinked
<1>3. rest[s] \in Seq(Rcpts) /\ rest[s] # <<>>
  BY <1>1 DEF LinkInv, TypeOK
<1>4. ASSUME NEW r \in Range(to[s])
      PROVE  \/ pc'[s] = "link" /\ r \in Range(rest'[s])
             \/ r \in wiped'[s]
             \/ <<id'[s], r>> \in links'
  <2>1. CASE r = h
    BY <1>1, <2>1
  <2>2. CASE r # h /\ r \in Range(rest[s])
    <3>1. Len(rest[s]) # 1 /\ r \in Range(Tail(rest[s]))
      BY <1>3, <2>2, RangeTail
    <3>2. pc' = pc /\ rest'[s] = Tail(rest[s])
      BY <1>1, <3>1 DEF NextLink, LinkInv, TypeOK
    <3> QED
      BY <1>1, <3>1, <3>2
  <2>3. CASE r # h /\ r \notin Range(rest[s])
    <3>1. r \in wiped[s] \/ <<id[s], r>> \in links
      BY <1>1, <2>3 DEF LinkInv, LinkedSoFar
    <3> QED
      BY <1>1, <2>3, <3>1 DEF LinkInv, TypeOK
  <2> QED
    BY <2>1, <2>2, <2>3
<1>5. /\ \A u \in Sessions \ {s} : pc'[u] = pc[u] /\ rest'[u] = rest[u]
      /\ pc'[s] \in {"link", "load"}
  BY <1>1 DEF NextLink, Goto, LinkInv, TypeOK
<1>6. \A u \in Sessions \ {s} : to'[u] = to[u] /\ id'[u] = id[u] /\ wiped'[u] = wiped[u]
  BY <1>1 DEF LinkInv, TypeOK
<1>7. links \subseteq links' /\ to'[s] = to[s]
  BY <1>1
<1>8. LinkedSoFar'
  BY <1>4, <1>5, <1>6, <1>7, OthersKeep
<1> QED
  BY <1>2, <1>8

(* The forwarding loop: the 250 promises what is linked. *)
LEMMA LinkAdvance ==
  ASSUME LinkInv, NEW s \in Sessions, pc[s] \in {"load", "enqueue"}, Advance(s), UNCHANGED dbVars
  PROVE  LinkedSoFar' /\ AckedIsLinked'
<1>1. links' = links
  BY DEF dbVars
<1>2. \A r \in Range(to[s]) \ wiped[s] : <<id[s], r>> \in links
  BY DEF LinkInv, LinkedSoFar
<1>3. CASE Len(rest[s]) = 1
  <2>1. Return(s) /\ promised' = promised \cup ({id[s]} \X (Range(to[s]) \ wiped[s]))
    BY <1>3 DEF Advance
  <2>2. AckedIsLinked'
    BY <1>1, <1>2, <2>1 DEF LinkInv, AckedIsLinked
  <2>3. LinkedSoFar'
    BY <1>1, <2>1, OthersKeep DEF Return, Goto, LinkInv, TypeOK
  <2> QED
    BY <2>2, <2>3
<1>4. CASE Len(rest[s]) # 1
  <2>1. /\ pc' = [pc EXCEPT ![s] = "load"] /\ UNCHANGED <<to, id, wiped, promised>>
        /\ rest' = [rest EXCEPT ![s] = Tail(@)]
    BY <1>4 DEF Advance, Goto
  <2>2. AckedIsLinked'
    BY <1>1, <2>1 DEF LinkInv, AckedIsLinked
  <2>3. LinkedSoFar'
    BY <1>1, <1>2, <2>1, OthersKeep DEF LinkInv, TypeOK
  <2> QED
    BY <2>2, <2>3
<1> QED
  BY <1>3, <1>4

(* Every step keeps LinkInv. *)
LEMMA LinkNext == LinkInv /\ [Next]_vars => LinkInv'
<1> SUFFICES ASSUME LinkInv, [Next]_vars PROVE LinkedSoFar' /\ AckedIsLinked'
  BY TypeNext DEF LinkInv
<1>1. CASE Api
  BY <1>1, LinkApi
<1>2. ASSUME NEW s \in Sessions, Session(s) PROVE LinkedSoFar' /\ AckedIsLinked'
  <2>1. CASE load_none(s) \/ enqueue_forward(s) \/ forward_fails(s)
    BY <2>1, LinkAdvance DEF load_none, enqueue_forward, forward_fails
  <2> QED
    BY <1>2, <2>1, LinkFront, LinkLink DEF Session
<1>3. CASE UNCHANGED vars
  BY <1>3 DEF LinkInv, LinkedSoFar, AckedIsLinked, vars, dbVars, sessionVars, obsVars, ghostVars
<1> QED
  BY <1>1, <1>2, <1>3 DEF Next

(* LinkInv holds at the start. *)
LEMMA LinkInit == Init => LinkInv
  BY TypeInit DEF Init, LinkInv, LinkedSoFar, AckedIsLinked

(* A payload that handle_email answered with 250 is linked to every one of   *)
(* its recipients until a row is deleted, whatever sessions and endpoints do. *)
THEOREM AcknowledgedIsLinked == Spec => []AckedIsLinked
<1>1. LinkInv => AckedIsLinked
  BY DEF LinkInv
<1> QED
  BY <1>1, LinkInit, LinkNext, PTL DEF Spec

-----------------------------------------------------------------------------
(* How often b is in a list. *)
Count(q, b) == Cardinality({i \in DOMAIN q : q[i] = b})

(* The positions of an element are finitely many. *)
LEMMA CountType ==
  ASSUME NEW R, NEW q \in Seq(R), NEW b
  PROVE  /\ IsFiniteSet({i \in DOMAIN q : q[i] = b})
         /\ Count(q, b) \in Nat
<1>1. DOMAIN q = 1 .. Len(q) /\ Len(q) \in Nat
  BY LenProperties
<1>2. IsFiniteSet(1 .. Len(q))
  BY <1>1, FS_Interval
<1>3. IsFiniteSet({i \in DOMAIN q : q[i] = b})
  BY <1>1, <1>2, FS_Subset
<1> QED
  BY <1>3, FS_CardinalityType DEF Count

LEMMA CountEmpty ==
  ASSUME NEW b
  PROVE  Count(<<>>, b) = 0
<1>1. {i \in DOMAIN <<>> : <<>>[i] = b} = {}
  OBVIOUS
<1> QED
  BY <1>1, FS_EmptySet DEF Count

LEMMA CountAppend ==
  ASSUME NEW R, NEW q \in Seq(R), NEW a \in R, NEW b
  PROVE  Count(Append(q, a), b) = Count(q, b) + (IF a = b THEN 1 ELSE 0)
<1> DEFINE n == Len(q) + 1
           Old == {i \in DOMAIN q : q[i] = b}
           New == {i \in DOMAIN Append(q, a) : Append(q, a)[i] = b}
<1>1. /\ DOMAIN q = 1 .. Len(q) /\ Len(q) \in Nat /\ DOMAIN Append(q, a) = 1 .. n
      /\ Append(q, a)[n] = a /\ \A i \in 1 .. Len(q) : Append(q, a)[i] = q[i]
  BY LenProperties, AppendProperties
<1>2. IsFiniteSet(Old) /\ Count(q, b) \in Nat
  BY CountType
<1>3. n \notin Old /\ Count(q, b) = Cardinality(Old) /\ Count(Append(q, a), b) = Cardinality(New)
  BY <1>1 DEF Count
<1>4. CASE a = b
  <2>1. New = Old \cup {n}
    BY <1>1, <1>4
  <2>2. Cardinality(New) = Cardinality(Old) + 1
    BY <1>2, <1>3, <2>1, FS_AddElement
  <2> QED
    BY <1>3, <1>4, <2>2
<1>5. CASE a # b
  <2>1. New = Old
    BY <1>1, <1>5
  <2> HIDE DEF Old, New
  <2> QED
    BY <1>2, <1>3, <1>5, <2>1
<1> QED
  BY <1>4, <1>5

(* The head of a list counts, and the rest as in the tail. *)
LEMMA CountTail ==
  ASSUME NEW R, NEW q \in Seq(R), q # <<>>, NEW b
  PROVE  /\ Count(q, b) = Count(Tail(q), b) + (IF Head(q) = b THEN 1 ELSE 0)
         /\ Count(Tail(q), b) \in Nat /\ Count(q, b) \in Nat
         /\ Len(q) = 1 => Count(Tail(q), b) = 0
<1> DEFINE t == Tail(q)
           In(p) == {i \in DOMAIN p : p[i] = b}
           Later == {i \in In(q) : i # 1}
<1>1. /\ Len(q) \in Nat /\ Len(q) > 0 /\ DOMAIN q = 1 .. Len(q)
      /\ t \in Seq(R) /\ Len(t) = Len(q) - 1 /\ DOMAIN t = 1 .. Len(t)
      /\ Head(q) = q[1] /\ \A i \in 1 .. Len(t) : t[i] = q[i + 1]
  BY EmptySeq, LenProperties, HeadTailProperties
<1>2. IsFiniteSet(In(q)) /\ IsFiniteSet(In(t)) /\ Count(t, b) \in Nat /\ Count(q, b) \in Nat
  BY <1>1, CountType
<1>3. Cardinality(Later) = Cardinality(In(t)) /\ IsFiniteSet(Later)
  <2> DEFINE F == [i \in In(t) |-> i + 1]
  <2>1. F \in [In(t) -> Later]
    <3>1. \A i \in In(t) : i + 1 \in Later
      BY <1>1
    <3> QED
      BY <3>1
  <2>2. \A i, j \in In(t) : F[i] = F[j] => i = j
    <3>1. \A i \in In(t) : i \in Int /\ F[i] = i + 1
      BY <1>1
    <3> QED
      BY <3>1
  <2>3. \A j \in Later : \E i \in In(t) : F[i] = j
    <3> SUFFICES ASSUME NEW j \in Later PROVE \E i \in In(t) : F[i] = j
      OBVIOUS
    <3>1. j \in 1 .. Len(q) /\ j # 1 /\ q[j] = b
      BY <1>1
    <3>2. j - 1 \in 1 .. Len(t) /\ (j - 1) + 1 = j
      BY <1>1, <3>1
    <3>3. j - 1 \in In(t)
      BY <1>1, <3>1, <3>2
    <3>4. F[j - 1] = j
      BY <3>2, <3>3
    <3> QED
      BY <3>3, <3>4
  <2>4. F \in Bijection(In(t), Later)
    <3> HIDE DEF F, In, Later
    <3> QED
      BY <2>1, <2>2, <2>3 DEF Bijection, Injection, Surjection, IsInjective
  <2> QED
    BY <1>2, <2>4, FS_Bijection, ZenonT(60) DEF ExistsBijection
<1>4. Count(q, b) = Count(t, b) + (IF Head(q) = b THEN 1 ELSE 0)
  <2>1. CASE Head(q) = b
    <3>1. In(q) = Later \cup {1} /\ 1 \notin Later
      BY <1>1, <2>1
    <3>2. Cardinality(In(q)) = Cardinality(Later) + 1
      BY <1>3, <3>1, FS_AddElement
    <3> QED
      BY <1>3, <2>1, <3>2 DEF Count
  <2>2. CASE Head(q) # b
    <3>1. In(q) = Later
      BY <1>1, <2>2
    <3>2. Count(q, b) = Cardinality(In(q)) /\ Count(t, b) = Cardinality(In(t))
      BY DEF Count
    <3> HIDE DEF In, Later, t
    <3> QED
      BY <1>2, <1>3, <2>2, <3>1, <3>2
  <2> QED
    BY <2>1, <2>2
<1>5. Len(q) = 1 => Count(t, b) = 0
  <2>1. Len(q) = 1 => DOMAIN t = {}
    <3> SUFFICES ASSUME Len(q) = 1 PROVE DOMAIN t = {}
      OBVIOUS
    <3>1. Len(t) = 0 /\ DOMAIN t = 1 .. Len(t)
      BY <1>1
    <3> HIDE DEF t
    <3>2. DOMAIN t = 1 .. 0
      BY <3>1
    <3> QED
      BY <3>2
  <2>2. Len(q) = 1 => In(t) = {}
    BY <2>1
  <2> QED
    BY <2>2, FS_EmptySet DEF Count
<1> QED
  BY <1>2, <1>4, <1>5

-----------------------------------------------------------------------------
(* What session s owes: a row for each RCPT it accepted, then for each entry *)
(* of the list it still has to link, then nothing.                           *)
OwedOf(s) ==
    /\ pc[s] # "idle" => recipients[s] = <<>>
    /\ \A b \in Mailboxes : owed[s][b] =
          IF pc[s] = "idle" THEN Count(recipients[s], b)
          ELSE IF pc[s] \in {"lookup", "store", "link"} THEN Count(rest[s], b) ELSE 0

(* What it can spare for forwarding: the rows written so far, and then at    *)
(* least one for each entry of the list it still has to look at.             *)
SpareOf(s) ==
    \A b \in Mailboxes :
        /\ spare[s][b] >= 0
        /\ pc[s] \in {"lookup", "store", "link"} => spare[s][b] + Count(rest[s], b) = Count(to[s], b)
        /\ pc[s] \in {"load", "enqueue"} => spare[s][b] >= Count(rest[s], b)

CountInv == \A s \in Sessions : OwedOf(s) /\ SpareOf(s)

(* Only s moves. *)
LEMMA OthersCount ==
  ASSUME CountInv, NEW s \in Sessions, OwedOf(s)', SpareOf(s)',
         \A u \in Sessions \ {s} : /\ pc'[u] = pc[u] /\ recipients'[u] = recipients[u]
                                  /\ to'[u] = to[u] /\ rest'[u] = rest[u]
                                  /\ owed'[u] = owed[u] /\ spare'[u] = spare[u]
  PROVE  CountInv'
  BY DEF CountInv, OwedOf, SpareOf

(* The commands between two payloads. *)
LEMMA CountCommand ==
  ASSUME TypeOK, CountInv, NEW s \in Sessions,
         (\E b \in Mailboxes : handle_rcpt(s, b)) \/ disconnect(s)
  PROVE  CountInv'
<1>0. OwedOf(s) /\ SpareOf(s)
  BY DEF CountInv
<1>1. ASSUME NEW a \in Mailboxes, handle_rcpt(s, a) PROVE CountInv'
  <2>1. /\ pc[s] = "idle" /\ recipients' = [recipients EXCEPT ![s] = Append(@, a)]
        /\ owed' = [owed EXCEPT ![s][a] = @ + 1] /\ UNCHANGED <<pc, to, rest, spare>>
    BY <1>1 DEF handle_rcpt
  <2>2. recipients'[s] = Append(recipients[s], a) /\ recipients[s] \in Seq(Mailboxes)
    BY <2>1 DEF TypeOK
  <2>3. ASSUME NEW b \in Mailboxes PROVE owed'[s][b] = Count(recipients'[s], b)
    <3>1. owed[s][b] = Count(recipients[s], b)
      BY <1>0, <2>1 DEF OwedOf
    <3>2. Count(recipients'[s], b) = Count(recipients[s], b) + (IF a = b THEN 1 ELSE 0)
      BY <2>2, CountAppend
    <3>3. owed'[s][b] = owed[s][b] + (IF a = b THEN 1 ELSE 0) /\ owed[s][b] \in Int
      BY <2>1 DEF TypeOK
    <3> QED
      BY <3>1, <3>2, <3>3
  <2>4. OwedOf(s)' /\ SpareOf(s)'
    BY <1>0, <2>1, <2>3 DEF OwedOf, SpareOf
  <2>5. \A u \in Sessions \ {s} : recipients'[u] = recipients[u] /\ owed'[u] = owed[u]
    BY <2>1 DEF TypeOK
  <2> QED
    BY <2>1, <2>4, <2>5, OthersCount
<1>2. CASE disconnect(s)
  <2>1. /\ pc[s] = "idle" /\ recipients' = [recipients EXCEPT ![s] = <<>>]
        /\ owed' = [owed EXCEPT ![s] = [b \in Mailboxes |-> 0]] /\ UNCHANGED <<pc, to, rest, spare>>
    BY <1>2 DEF disconnect
  <2>2. OwedOf(s)' /\ SpareOf(s)'
    BY <1>0, <2>1, CountEmpty DEF OwedOf, SpareOf, TypeOK
  <2> QED
    BY <2>1, <2>2, OthersCount DEF TypeOK
<1> QED
  BY <1>1, <1>2

(* A payload takes the recipients over; Unknown is no mailbox. *)
LEMMA CountTaken ==
  ASSUME TypeOK, CountInv, NEW s \in Sessions, NEW k, handle_email(s, k)
  PROVE  CountInv'
<1> DEFINE taken == IF recipients[s] = <<>> THEN <<Unknown>> ELSE recipients[s]
<1>0. OwedOf(s) /\ SpareOf(s)
  BY DEF CountInv
<1>1. /\ pc[s] = "idle" /\ to' = [to EXCEPT ![s] = taken] /\ rest' = [rest EXCEPT ![s] = taken]
      /\ recipients' = [recipients EXCEPT ![s] = <<>>] /\ owed' = owed
      /\ spare' = [spare EXCEPT ![s] = [b \in Mailboxes |-> 0]]
      /\ pc' = [pc EXCEPT ![s] = IF k = NoKey THEN "store" ELSE "lookup"]
  BY DEF handle_email, Goto
<1>2. ASSUME NEW b \in Mailboxes
      PROVE  Count(taken, b) = Count(recipients[s], b) /\ Count(taken, b) \in Nat
  <2>1. CASE recipients[s] = <<>>
    <3>1. Unknown # b
      BY ConstantsAssumption
    <3>2. {i \in DOMAIN <<Unknown>> : <<Unknown>>[i] = b} = {}
      BY <3>1
    <3>3. Count(<<Unknown>>, b) = 0
      BY <3>2, FS_EmptySet DEF Count
    <3> QED
      BY <2>1, <3>3, CountEmpty
  <2>2. CASE recipients[s] # <<>>
    BY <2>2, CountType DEF TypeOK
  <2> QED
    BY <2>1, <2>2
<1> HIDE DEF taken
<1>3. /\ pc'[s] \in {"lookup", "store"} /\ recipients'[s] = <<>> /\ to'[s] = taken /\ rest'[s] = taken
      /\ \A b \in Mailboxes : spare'[s][b] = 0
      /\ \A u \in Sessions \ {s} : /\ pc'[u] = pc[u] /\ recipients'[u] = recipients[u]
                                  /\ to'[u] = to[u] /\ rest'[u] = rest[u] /\ spare'[u] = spare[u]
  BY <1>1 DEF TypeOK
<1>4. OwedOf(s)' /\ SpareOf(s)'
  BY <1>0, <1>1, <1>2, <1>3 DEF OwedOf, SpareOf
<1> QED
  BY <1>1, <1>3, <1>4, OthersCount

(* Looking the message up and storing it. *)
LEMMA CountFront ==
  ASSUME TypeOK, CountInv, NEW s \in Sessions,
         \/ lookup_found(s) \/ lookup_none(s) \/ lookup_fails(s) \/ store(s) \/ load_forward(s)
  PROVE  CountInv'
<1>0. OwedOf(s) /\ SpareOf(s)
  BY DEF CountInv
<1>1. UNCHANGED <<recipients, to, rest, owed, spare>>
  BY DEF lookup_found, lookup_none, lookup_fails, store, load_forward, obsVars, ghostVars
<1>2. \/ pc[s] \in {"lookup", "store"} /\ \E l \in {"store", "link"} : pc' = [pc EXCEPT ![s] = l]
      \/ pc[s] = "load" /\ pc' = [pc EXCEPT ![s] = "enqueue"]
  BY DEF lookup_found, lookup_none, lookup_fails, store, load_forward, Goto
<1>3. OwedOf(s)' /\ SpareOf(s)'
  BY <1>0, <1>1, <1>2 DEF OwedOf, SpareOf, TypeOK
<1> QED
  BY <1>1, <1>2, <1>3, OthersCount DEF TypeOK

(* A link settles one entry of the list. *)
LEMMA CountLink ==
  ASSUME TypeOK, CountInv, NEW s \in Sessions, link(s)
  PROVE  CountInv'
<1> DEFINE r == Head(rest[s])
<1>0. OwedOf(s) /\ SpareOf(s)
  BY DEF CountInv
<1>1. /\ pc[s] = "link" /\ UNCHANGED <<recipients, to>>
      /\ owed' = [owed EXCEPT ![s] = Add(@, r, -1)] /\ spare' = [spare EXCEPT ![s] = Add(@, r, 1)]
      /\ NextLink(s)
  BY DEF link
<1>2. rest[s] \in Seq(Rcpts) /\ rest[s] # <<>> /\ to[s] \in Seq(Rcpts)
  BY <1>1 DEF TypeOK
<1>3. ASSUME NEW b \in Mailboxes
      PROVE  /\ owed'[s][b] = Count(Tail(rest[s]), b)
             /\ spare'[s][b] + Count(Tail(rest[s]), b) = Count(to[s], b)
             /\ spare'[s][b] >= 0 /\ spare'[s][b] \in Int
             /\ Len(rest[s]) = 1 => Count(Tail(rest[s]), b) = 0
  <2>1. /\ Count(rest[s], b) = Count(Tail(rest[s]), b) + (IF r = b THEN 1 ELSE 0)
        /\ Count(Tail(rest[s]), b) \in Nat
        /\ Len(rest[s]) = 1 => Count(Tail(rest[s]), b) = 0
    BY <1>2, CountTail
  <2>2. /\ owed[s][b] = Count(rest[s], b)
        /\ spare[s][b] >= 0 /\ spare[s][b] + Count(rest[s], b) = Count(to[s], b)
    BY <1>0, <1>1 DEF OwedOf, SpareOf
  <2>3. /\ owed'[s][b] = (IF r = b THEN owed[s][b] - 1 ELSE owed[s][b])
        /\ spare'[s][b] = (IF r = b THEN spare[s][b] + 1 ELSE spare[s][b])
        /\ owed[s][b] \in Int /\ spare[s][b] \in Int
    BY <1>1 DEF TypeOK, Add
  <2> HIDE DEF r
  <2> QED
    BY <2>1, <2>2, <2>3
<1>4. Count(to[s], Unknown) \in Nat /\ \A b \in Mailboxes : Count(to[s], b) \in Nat
  BY <1>2, CountType
<1>5. CASE Len(rest[s]) = 1
  <2>1. pc' = [pc EXCEPT ![s] = "load"] /\ rest' = [rest EXCEPT ![s] = to[s]]
    BY <1>1, <1>5 DEF NextLink, Goto
  <2>2. pc'[s] = "load" /\ rest'[s] = to[s]
    BY <2>1 DEF TypeOK
  <2>3. OwedOf(s)'
    BY <1>0, <1>1, <1>3, <1>5, <2>2 DEF OwedOf
  <2>4. SpareOf(s)'
    BY <1>1, <1>3, <1>4, <1>5, <2>2 DEF SpareOf
  <2> QED
    BY <1>1, <2>1, <2>3, <2>4, OthersCount DEF TypeOK
<1>6. CASE Len(rest[s]) # 1
  <2>1. pc' = pc /\ rest' = [rest EXCEPT ![s] = Tail(@)]
    BY <1>1, <1>6 DEF NextLink
  <2>2. pc'[s] = "link" /\ rest'[s] = Tail(rest[s])
    BY <1>1, <2>1 DEF TypeOK
  <2>3. OwedOf(s)' /\ SpareOf(s)'
    BY <1>0, <1>1, <1>3, <2>2 DEF OwedOf, SpareOf
  <2> QED
    BY <1>1, <2>1, <2>3, OthersCount DEF TypeOK
<1> QED
  BY <1>5, <1>6

(* handle_email returns, in whatever way: nothing is owed any more. *)
LEMMA CountReturn ==
  ASSUME TypeOK, CountInv, NEW s \in Sessions, pc[s] # "idle", Return(s), recipients' = recipients,
         \A b \in Mailboxes : spare'[s][b] >= 0,
         \A u \in Sessions \ {s} : spare'[u] = spare[u]
  PROVE  CountInv'
<1>1. /\ pc' = [pc EXCEPT ![s] = "idle"] /\ to' = [to EXCEPT ![s] = <<>>]
      /\ rest' = [rest EXCEPT ![s] = <<>>] /\ owed' = [owed EXCEPT ![s] = [b \in Mailboxes |-> 0]]
  BY DEF Return, Goto
<1>2. pc'[s] = "idle" /\ recipients'[s] = <<>> /\ \A b \in Mailboxes : owed'[s][b] = 0
  BY <1>1 DEF CountInv, OwedOf, TypeOK
<1>3. OwedOf(s)' /\ SpareOf(s)'
  BY <1>2, CountEmpty DEF OwedOf, SpareOf
<1> QED
  BY <1>1, <1>3, OthersCount DEF TypeOK

(* The forwarding loop uses up at most what its entry has. *)
LEMMA CountAdvance ==
  ASSUME TypeOK, CountInv, NEW s \in Sessions, pc[s] \in {"load", "enqueue"}, Advance(s),
         recipients' = recipients,
         spare' \in {spare, [spare EXCEPT ![s] = Add(@, Head(rest[s]), -1)]}
  PROVE  CountInv'
<1> DEFINE r == Head(rest[s])
<1>0. OwedOf(s) /\ SpareOf(s)
  BY DEF CountInv
<1>1. rest[s] \in Seq(Rcpts) /\ rest[s] # <<>>
  BY DEF TypeOK
<1>2. ASSUME NEW b \in Mailboxes
      PROVE  spare'[s][b] >= Count(Tail(rest[s]), b) /\ spare'[s][b] >= 0
  <2>1. /\ Count(rest[s], b) = Count(Tail(rest[s]), b) + (IF r = b THEN 1 ELSE 0)
        /\ Count(Tail(rest[s]), b) \in Nat
    BY <1>1, CountTail
  <2>2. spare[s][b] >= Count(rest[s], b) /\ spare[s][b] \in Int
    BY <1>0 DEF SpareOf, TypeOK
  <2>3. spare'[s][b] \in {spare[s][b], IF r = b THEN spare[s][b] - 1 ELSE spare[s][b]}
    BY DEF TypeOK, Add
  <2> HIDE DEF r
  <2> QED
    BY <2>1, <2>2, <2>3
<1>3. \A u \in Sessions \ {s} : spare'[u] = spare[u]
  BY DEF TypeOK
<1>4. CASE Len(rest[s]) = 1
  BY <1>2, <1>3, <1>4, CountReturn DEF Advance
<1>5. CASE Len(rest[s]) # 1
  <2>1. /\ pc' = [pc EXCEPT ![s] = "load"] /\ rest' = [rest EXCEPT ![s] = Tail(@)]
        /\ UNCHANGED <<to, owed>>
    BY <1>5 DEF Advance, Goto
  <2>2. pc'[s] = "load" /\ rest'[s] = Tail(rest[s])
    BY <2>1 DEF TypeOK
  <2>3. OwedOf(s)' /\ SpareOf(s)'
    BY <1>0, <1>2, <2>1, <2>2 DEF OwedOf, SpareOf
  <2> QED
    BY <1>3, <2>1, <2>3, OthersCount DEF TypeOK
<1> QED
  BY <1>4, <1>5

(* Every step keeps the counts. *)
LEMMA CountNext == TypeOK /\ CountInv /\ [Next]_vars => CountInv'
<1> SUFFICES ASSUME TypeOK, CountInv, [Next]_vars PROVE CountInv'
  OBVIOUS
<1>1. CASE UNCHANGED <<pc, recipients, to, rest, owed, spare>>
  BY <1>1 DEF CountInv, OwedOf, SpareOf
<1>2. CASE Api
  <2>1. UNCHANGED <<pc, recipients, to, rest, owed, spare>>
    BY <1>2 DEF Api, create_mailbox, patch_mailbox, SetForward, delete_mailboxes,
       delete_message_links, delete_message_row, Unlink, sessionVars, obsVars, ghostVars
  <2> QED
    BY <1>1, <2>1
<1>3. ASSUME NEW s \in Sessions, Session(s) PROVE CountInv'
  <2>1. CASE abort(s) \/ crash(s)
    <3>1. pc[s] # "idle" /\ Return(s) /\ recipients' = recipients /\ spare' = spare
      BY <2>1 DEF abort, crash
    <3>2. \A b \in Mailboxes : spare'[s][b] >= 0
      BY <3>1 DEF CountInv, SpareOf
    <3> QED
      BY <3>1, <3>2, CountReturn
  <2>2. CASE load_none(s) \/ enqueue_forward(s) \/ forward_fails(s)
    <3>1. pc[s] \in {"load", "enqueue"} /\ Advance(s) /\ recipients' = recipients
      BY <2>2 DEF load_none, enqueue_forward, forward_fails
    <3>2. spare' \in {spare, [spare EXCEPT ![s] = Add(@, Head(rest[s]), -1)]}
      BY <2>2 DEF load_none, enqueue_forward, forward_fails
    <3> QED
      BY <3>1, <3>2, CountAdvance
  <2> QED
    BY <1>3, <2>1, <2>2, CountCommand, CountTaken, CountFront, CountLink DEF Session
<1>4. CASE UNCHANGED vars
  BY <1>1, <1>4 DEF vars, sessionVars, obsVars, ghostVars
<1> QED
  BY <1>2, <1>3, <1>4 DEF Next

LEMMA CountInvariant == Spec => []CountInv
<1>1. Init => CountInv
  BY CountEmpty DEF Init, CountInv, OwedOf, SpareOf
<1> QED
  BY <1>1, CountNext, TypeCorrect, PTL DEF Spec

(* handle_email never writes an Inbound row for which this session accepted  *)
(* no RCPT since the previous payload, nor two rows for one RCPT.            *)
THEOREM RowsComeFromRcpts == Spec => []OneRowPerRcpt
<1>1. TypeOK /\ CountInv => OneRowPerRcpt
  <2> SUFFICES ASSUME TypeOK, CountInv, NEW s \in Sessions, NEW b \in Mailboxes
               PROVE  owed[s][b] >= 0
    BY DEF OneRowPerRcpt
  <2>1. Count(recipients[s], b) \in Nat /\ Count(rest[s], b) \in Nat
    BY CountType DEF TypeOK
  <2> QED
    BY <2>1 DEF CountInv, OwedOf
<1> QED
  BY <1>1, CountInvariant, TypeCorrect, PTL

(* A mail is forwarded for a mailbox at most as often as it was linked to it,*)
(* although the mailbox is loaded again and may have changed in between.     *)
THEOREM ForwardsAreBacked == Spec => []ForwardedOnce
<1>1. CountInv => ForwardedOnce
  BY DEF CountInv, SpareOf, ForwardedOnce
<1> QED
  BY <1>1, CountInvariant, PTL
=============================================================================
