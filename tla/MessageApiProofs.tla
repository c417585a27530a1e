--------------------------- MODULE MessageApiProofs ---------------------------
(***************************************************************************)
(* Proofs about MessageApi, for every list of recipients, every limit and  *)
(* any number of messages, tries and deletions.                            *)
(***************************************************************************)
EXTENDS MessageApi, FiniteSetTheorems, WellFoundedInduction, TLAPS

-----------------------------------------------------------------------------
(* The inductive invariant *)

Issued == 1 .. lastId

(* Every id that is stored anywhere was given to a message. *)
IdsAreIssued ==
    /\ messages \subseteq Issued /\ inbound \subseteq Issued
    /\ \A r \in outbound : r.msg \in Issued
    /\ ids \subseteq Issued /\ items \subseteq Issued
    /\ send \in {"queue", "sent"} => msg \in Issued

(* A try works through the recipients, and keeps the rows it has written     *)
(* except for a message that a DELETE has named.                             *)
TryIsInOrder ==
    /\ todo \subseteq recipients
    /\ send \in {"idle", "sent", "failed"} => todo = {}
    /\ send = "store" => todo = recipients
    /\ send \in {"queue", "sent"} =>
          \A i \in recipients \ todo : [msg |-> msg, at |-> i] \in outbound \/ msg \in doomed
    /\ del # "idle" => victim \in doomed

Pending(x) == IF \E i \in todo : Addressed[i] = x THEN 1 ELSE 0

(* A recipient has a row for each try that got to him at most, and this try  *)
(* still has at most one to write.                                           *)
RowsAreCounted ==
    /\ IsFiniteSet(outbound)
    /\ \A x \in Rcpts : Cardinality(RowsFor(x)) + Pending(x) <= tries

(* A page begins where the ones before it ended. *)
PagesAreEven ==
    /\ Walking =>
          /\ pages >= 1
          /\ query.limit >= 1 => query.offset = (pages - 1) * query.limit
    /\ ~Walking => pages = 0
    /\ read = "idle" => passed = {}

SendInv == TryIsInOrder /\ RowsAreCounted
WalkInv == PagesAreEven /\ WalkIsShort

-----------------------------------------------------------------------------
(* Types *)

LEMMA IdsAreFinite == IsFiniteSet(Ids) /\ \A S \in SUBSET Ids : IsFiniteSet(S) /\ Cardinality(S) \in Nat
<1>1. IsFiniteSet(Ids)
  BY ConstantsAssumption, FS_Interval DEF Ids
<1> QED
  BY <1>1, FS_Subset, FS_CardinalityType

(* Whatever a statement does to the list, it is counted at most once. *)
LEMMA WatchType ==
    ASSUME TypeOK, Watch
    PROVE  arrivals' \in Nat /\ removals' \in Nat /\ UNCHANGED <<pages, seen, passed, stayed>>
BY DEF Watch, TypeOK

TypeInv == TypeOK /\ IdsAreIssued

LEMMA NextId ==
    ASSUME TypeInv, lastId < MaxMessages, lastId' = lastId + 1
    PROVE  lastId' \in Ids /\ Issued' = Issued \cup {lastId'} /\ Issued' \subseteq Ids
BY ConstantsAssumption DEF TypeInv, TypeOK, Ids, Issued

LEMMA SameIssued ==
    ASSUME TypeInv, lastId' = lastId
    PROVE  Issued' = Issued /\ Issued \subseteq Ids
BY ConstantsAssumption DEF TypeInv, TypeOK, Ids, Issued

LEMMA TypeSend ==
    ASSUME TypeInv, Send
    PROVE  TypeInv'
<1> USE DEF TypeInv
<1>1. CASE send_email
  <2>1. recipients \in SUBSET DOMAIN Addressed
    BY DEF recipients
  <2> QED
    BY <1>1, <2>1, SameIssued DEF send_email, TypeOK, IdsAreIssued, dbVars, delVars, readVars, walkVars
<1>2. CASE store_message
  <2>1. lastId' \in Ids /\ Issued' = Issued \cup {lastId'} /\ Issued' \subseteq Ids
    BY <1>2, NextId DEF store_message
  <2>2. /\ msg' = lastId' /\ messages' = messages \cup {lastId'} /\ send' = "queue"
        /\ UNCHANGED <<outbound, inbound, todo, tries, delVars, readVars>> /\ Watch
    BY <1>2 DEF store_message
  <2>3. messages' \in SUBSET Ids
    BY <2>1, <2>2 DEF TypeOK
  <2>4. arrivals' \in Nat /\ removals' \in Nat /\ UNCHANGED <<pages, seen, passed, stayed>>
    BY <2>2, <2>3, WatchType
  <2> QED
    BY <2>1, <2>2, <2>3, <2>4 DEF TypeOK, IdsAreIssued, delVars, readVars
<1>3. CASE enqueue
  <2>1. PICK i \in todo : outbound' = outbound \cup {[msg |-> msg, at |-> i]} /\ todo' = todo \ {i}
    BY <1>3 DEF enqueue
  <2>2. /\ send = "queue" /\ send' \in {"sent", "queue"}
        /\ UNCHANGED <<messages, inbound, lastId, msg, tries, delVars, readVars>> /\ Watch
    BY <1>3 DEF enqueue
  <2>3. arrivals' \in Nat /\ removals' \in Nat /\ UNCHANGED <<pages, seen, passed, stayed>>
    BY <2>2, WatchType DEF TypeOK
  <2>4. Issued' = Issued /\ Issued \subseteq Ids /\ msg \in Issued
    BY <2>2, SameIssued DEF IdsAreIssued
  <2>5. [msg |-> msg, at |-> i] \in [msg : Ids, at : DOMAIN Addressed]
    BY <2>1, <2>4 DEF TypeOK
  <2>6. TypeOK'
    BY <2>1, <2>2, <2>3, <2>5 DEF TypeOK, delVars, readVars
  <2>7. IdsAreIssued'
    BY <2>1, <2>2, <2>4 DEF IdsAreIssued, readVars
  <2> QED
    BY <2>6, <2>7
<1>4. CASE send_fails
  BY <1>4, SameIssued DEF send_fails, TypeOK, IdsAreIssued, dbVars, delVars, readVars, walkVars
<1> QED
  BY <1>1, <1>2, <1>3, <1>4 DEF Send

LEMMA TypeMail ==
    ASSUME TypeInv, Mail
    PROVE  TypeInv'
<1> USE DEF TypeInv
<1>1. CASE receive
  <2>1. lastId' \in Ids /\ Issued' = Issued \cup {lastId'} /\ Issued' \subseteq Ids
    BY <1>1, NextId DEF receive
  <2>2. /\ messages' = messages \cup {lastId'} /\ inbound' = inbound \cup {lastId'}
        /\ UNCHANGED <<outbound, sendVars, delVars, readVars>> /\ Watch
    BY <1>1 DEF receive
  <2>3. messages' \in SUBSET Ids
    BY <2>1, <2>2 DEF TypeOK
  <2>4. arrivals' \in Nat /\ removals' \in Nat /\ UNCHANGED <<pages, seen, passed, stayed>>
    BY <2>2, <2>3, WatchType
  <2> QED
    BY <2>1, <2>2, <2>3, <2>4 DEF TypeOK, IdsAreIssued, sendVars, delVars, readVars
<1>2. ASSUME NEW m \in Ids, link_known(m) PROVE TypeInv'
  <2>1. arrivals' \in Nat /\ removals' \in Nat /\ UNCHANGED <<pages, seen, passed, stayed>>
    BY <1>2, WatchType DEF link_known, TypeOK
  <2> QED
    BY <1>2, <2>1, SameIssued DEF link_known, TypeOK, IdsAreIssued, sendVars, delVars, readVars
<1>3. ASSUME NEW m \in Ids, delete_message(m) PROVE TypeInv'
  BY <1>3, SameIssued DEF delete_message, TypeOK, IdsAreIssued, dbVars, sendVars, readVars
<1>4. CASE delete_inbound
  <2>1. arrivals' \in Nat /\ removals' \in Nat /\ UNCHANGED <<pages, seen, passed, stayed>>
    BY <1>4, WatchType DEF delete_inbound, TypeOK
  <2> QED
    BY <1>4, <2>1, SameIssued DEF delete_inbound, TypeOK, IdsAreIssued, sendVars, readVars
<1>5. CASE delete_outbound
  <2>1. arrivals' \in Nat /\ removals' \in Nat /\ UNCHANGED <<pages, seen, passed, stayed>>
    BY <1>5, WatchType DEF delete_outbound, TypeOK
  <2> QED
    BY <1>5, <2>1, SameIssued DEF delete_outbound, TypeOK, IdsAreIssued, sendVars, readVars
<1>6. CASE delete_row
  <2>1. messages' \in SUBSET Ids
    BY <1>6 DEF delete_row, TypeOK
  <2>2. arrivals' \in Nat /\ removals' \in Nat /\ UNCHANGED <<pages, seen, passed, stayed>>
    BY <1>6, <2>1, WatchType DEF delete_row
  <2> QED
    BY <1>6, <2>1, <2>2, SameIssued DEF delete_row, TypeOK, IdsAreIssued, sendVars, readVars
<1>7. CASE delete_fails
  BY <1>7, SameIssued DEF delete_fails, TypeOK, IdsAreIssued, dbVars, sendVars, readVars, walkVars
<1> QED
  BY <1>1, <1>2, <1>3, <1>4, <1>5, <1>6, <1>7 DEF Mail

(* Asking for a page. *)
LEMMA TypeAsk ==
    ASSUME TypeInv, NEW e \in Directions, NEW n \in Nat, NEW o \in Nat, Ask(e, n, o)
    PROVE  /\ query' \in [direction : Directions, limit : Nat, offset : Nat]
           /\ read' \in {"inbox", "sent"} /\ ids' = {} /\ items' = {}
           /\ pages' \in 0 .. MaxPages /\ UNCHANGED <<dbVars, sendVars, delVars>>
BY ConstantsAssumption DEF Ask, TypeInv, TypeOK, MaxPages

(* However the listing is asked for, it is a first page or a later statement. *)
LEMMA ReadsOrBegins ==
    ASSUME Read
    PROVE  Load \/ \E e \in Directions, n \in Nat : FirstPage(e, n)
<1>1. \A n \in Limits : n \in Nat /\ page_params(n) \in Nat
  BY ConstantsAssumption DEF page_params
<1>2. \A d \in {"both", "inbound", "outbound"} : d \in Directions
  BY DEF Directions
<1> QED
  BY <1>1, <1>2 DEF Read, List, list_mailbox_messages, list_unparsed, list_mailbox_inbox,
     list_mailbox_sent

LEMMA TypeRead ==
    ASSUME TypeInv, Read
    PROVE  TypeInv'
<1> USE DEF TypeInv
<1>1. CASE load_inbound
  BY <1>1, SameIssued DEF load_inbound, TypeOK, IdsAreIssued, dbVars, sendVars, delVars, walkVars
<1>2. CASE load_outbound
  <2>1. {r.msg : r \in outbound} \subseteq Issued /\ Issued \subseteq Ids /\ Issued' = Issued
    BY <1>2, SameIssued DEF load_outbound, IdsAreIssued, dbVars
  <2> QED
    BY <1>2, <2>1 DEF load_outbound, TypeOK, IdsAreIssued, dbVars, sendVars, delVars, walkVars
<1>3. CASE load_message
  BY <1>3, SameIssued DEF load_message, TypeOK, IdsAreIssued, dbVars, sendVars, delVars, walkVars
<1>4. CASE page
  <2> DEFINE end == query.offset + query.limit
  <2>1. end \in Nat
    BY DEF TypeOK
  <2>2. seen' \in [Ids -> Nat] /\ passed' \in SUBSET Ids /\ UNCHANGED <<stayed, removals, arrivals>>
    BY <1>4 DEF page, TypeOK
  <2>3. CASE has_more(end)
    <3>1. Ask(query.direction, query.limit, end)
      BY <1>4, <2>3 DEF page, next_offset
    <3>2. query.direction \in Directions /\ query.limit \in Nat
      BY DEF TypeOK
    <3> HIDE DEF end
    <3>3. /\ query' \in [direction : Directions, limit : Nat, offset : Nat]
          /\ read' \in {"inbox", "sent"} /\ ids' = {} /\ items' = {}
          /\ pages' \in 0 .. MaxPages /\ UNCHANGED <<dbVars, sendVars, delVars>>
      BY <2>1, <3>1, <3>2, TypeAsk
    <3> QED
      BY <2>2, <3>3, SameIssued DEF TypeOK, IdsAreIssued, dbVars, sendVars, delVars
  <2>4. CASE ~has_more(end)
    <3>1. /\ read' = "done" /\ query' = NoQuery /\ items' = {} /\ pages' = 0
          /\ UNCHANGED <<dbVars, sendVars, delVars, ids>>
      BY <1>4, <2>4 DEF page
    <3>2. 0 \in 0 .. MaxPages
      BY ConstantsAssumption DEF MaxPages
    <3>3. NoQuery \in [direction : Directions, limit : Nat, offset : Nat]
      BY DEF NoQuery, Directions
    <3> QED
      BY <2>2, <3>1, <3>2, <3>3, SameIssued DEF TypeOK, IdsAreIssued, dbVars, sendVars, delVars
  <2> QED
    BY <2>3, <2>4
<1>5. ASSUME NEW e \in Directions, NEW n \in Nat, FirstPage(e, n) PROVE TypeInv'
  <2>2. Ask(e, n, 0)
    BY <1>5 DEF FirstPage
  <2>3. /\ query' \in [direction : Directions, limit : Nat, offset : Nat]
        /\ read' \in {"inbox", "sent"} /\ ids' = {} /\ items' = {}
        /\ pages' \in 0 .. MaxPages /\ UNCHANGED <<dbVars, sendVars, delVars>>
    BY <2>2, TypeAsk
  <2>4. stayed' \in SUBSET Ids /\ UNCHANGED <<seen, passed, removals, arrivals>>
    BY <1>5 DEF FirstPage, Listed, TypeOK
  <2> QED
    BY <2>3, <2>4, SameIssued DEF TypeOK, IdsAreIssued, dbVars, sendVars, delVars
<1> QED
  BY <1>1, <1>2, <1>3, <1>4, <1>5, ReadsOrBegins DEF Load

LEMMA TypeNext == TypeInv /\ [Next]_vars => TypeInv'
<1> SUFFICES ASSUME TypeInv, [Next]_vars PROVE TypeInv'
  OBVIOUS
<1>1. CASE UNCHANGED vars
  BY <1>1 DEF vars, dbVars, sendVars, delVars, readVars, walkVars, TypeInv, TypeOK, IdsAreIssued, Issued
<1> QED
  BY <1>1, TypeSend, TypeMail, TypeRead DEF Next

LEMMA TypeInvariant == Spec => []TypeInv
<1>1. Init => TypeInv
  BY ConstantsAssumption, 0 \in 0 .. MaxPages
     DEF Init, TypeInv, TypeOK, IdsAreIssued, NoQuery, Directions, Ids, MaxPages
<1> QED
  BY <1>1, TypeNext, PTL DEF Spec

(* The handlers' variables and the reader's keep their types; a row is only  *)
(* written for a message that was stored.                                    *)
THEOREM MessageApiTypes == Spec => []TypeOK
BY TypeInvariant, PTL DEF TypeInv

-----------------------------------------------------------------------------
(* POST /mail and its repetitions *)

(* Every nonempty set of positions has a first one. *)
LEMMA LeastOf ==
    ASSUME NEW T, T \subseteq Nat, T # {}
    PROVE  \E i \in T : \A j \in T : i <= j
<1> DEFINE R == {p \in Nat \X Nat : p[1] < p[2]}
<1>1. IsWellFoundedOn(R, Nat)
  BY NatLessThanWellFounded, Zenon DEF OpToRel
<1>2. PICK i \in T : \A j \in T : ~(<<j, i>> \in R)
  BY <1>1, WFMin, Zenon
<1>3. \A j \in T : ~(j < i)
  BY <1>2
<1> QED
  BY <1>3

(* recipients has one position of each address. *)
LEMMA OnePerAddress ==
    /\ \A i, j \in recipients : Addressed[i] = Addressed[j] => i = j
    /\ \A k \in DOMAIN Addressed : \E i \in recipients : Addressed[i] = Addressed[k]
<1>1. DOMAIN Addressed = 1 .. Len(Addressed) /\ Len(Addressed) \in Nat
  BY ConstantsAssumption
<1>2. \A i, j \in recipients : Addressed[i] = Addressed[j] => i = j
  <2> SUFFICES ASSUME NEW i \in recipients, NEW j \in recipients, Addressed[i] = Addressed[j], i # j
               PROVE  FALSE
    OBVIOUS
  <2>1. i \in Nat /\ j \in Nat /\ (i \in 1 .. j - 1 \/ j \in 1 .. i - 1)
    BY <1>1 DEF recipients
  <2> QED
    BY <1>1, <2>1 DEF recipients
<1>3. ASSUME NEW k \in DOMAIN Addressed PROVE \E i \in recipients : Addressed[i] = Addressed[k]
  <2> DEFINE T == {i \in DOMAIN Addressed : Addressed[i] = Addressed[k]}
  <2>1. T \subseteq Nat /\ T # {}
    BY <1>1
  <2>2. PICK i \in T : \A j \in T : i <= j
    BY <2>1, LeastOf
  <2>3. i \in recipients
    <3>1. \A j \in 1 .. i - 1 : j \in DOMAIN Addressed /\ ~(i <= j)
      BY <1>1
    <3>2. \A j \in 1 .. i - 1 : Addressed[j] # Addressed[i]
      BY <2>2, <3>1
    <3> QED
      BY <3>2 DEF recipients
  <2> QED
    BY <2>2, <2>3
<1> QED
  BY <1>2, <1>3

(* The rows of a recipient are finitely many, and fewer when rows go. *)
LEMMA RowsAreFinite ==
    ASSUME IsFiniteSet(outbound), NEW x
    PROVE  IsFiniteSet(RowsFor(x)) /\ Cardinality(RowsFor(x)) \in Nat
BY FS_Subset, FS_CardinalityType DEF RowsFor

LEMMA FewerRows ==
    ASSUME TypeOK, RowsAreCounted, outbound' \subseteq outbound, tries' = tries, todo' \subseteq todo
    PROVE  RowsAreCounted'
<1>1. IsFiniteSet(outbound')
  BY FS_Subset DEF RowsAreCounted
<1>2. ASSUME NEW x \in Rcpts PROVE Cardinality(RowsFor(x)') + Pending(x)' <= tries'
  <2>1. RowsFor(x)' \subseteq RowsFor(x)
    BY DEF RowsFor
  <2>2. IsFiniteSet(RowsFor(x)) /\ Cardinality(RowsFor(x)) \in Nat
    BY RowsAreFinite DEF RowsAreCounted
  <2>3. Cardinality(RowsFor(x)') <= Cardinality(RowsFor(x)) /\ Cardinality(RowsFor(x)') \in Nat
    BY <2>1, <2>2, FS_Subset, FS_CardinalityType
  <2>4. Pending(x)' <= Pending(x) /\ Pending(x) \in Nat /\ Pending(x)' \in Nat
    BY DEF Pending
  <2>5. Cardinality(RowsFor(x)) + Pending(x) <= tries /\ tries \in Nat
    BY DEF RowsAreCounted, TypeOK
  <2> QED
    BY <2>2, <2>3, <2>4, <2>5
<1> QED
  BY <1>1, <1>2 DEF RowsAreCounted

(* A new try may give every recipient one row more. *)
LEMMA CountSendEmail ==
    ASSUME TypeOK, SendInv, send_email
    PROVE  RowsAreCounted'
<1>1. todo = {} /\ outbound' = outbound /\ tries' = tries + 1
  BY DEF SendInv, TryIsInOrder, send_email, dbVars
<1>2. ASSUME NEW x \in Rcpts PROVE Cardinality(RowsFor(x)') + Pending(x)' <= tries'
  <2>1. RowsFor(x)' = RowsFor(x) /\ Pending(x) = 0 /\ Pending(x)' \in {0, 1}
    BY <1>1 DEF RowsFor, Pending
  <2>2. Cardinality(RowsFor(x)) + Pending(x) <= tries /\ tries \in Nat
    BY DEF SendInv, RowsAreCounted, TypeOK
  <2>3. Cardinality(RowsFor(x)) \in Nat
    BY RowsAreFinite DEF SendInv, RowsAreCounted
  <2> QED
    BY <1>1, <2>1, <2>2, <2>3
<1> QED
  BY <1>1, <1>2 DEF SendInv, RowsAreCounted

(* A row that is written is one that was pending: no other position of this  *)
(* try has the same recipient.                                               *)
LEMMA CountEnqueue ==
    ASSUME TypeOK, SendInv, enqueue
    PROVE  RowsAreCounted'
<1>1. PICK i \in todo : outbound' = outbound \cup {[msg |-> msg, at |-> i]} /\ todo' = todo \ {i}
  BY DEF enqueue
<1>2. tries' = tries /\ tries \in Nat
  BY DEF enqueue, TypeOK
<1> DEFINE row == [msg |-> msg, at |-> i]
<1>3. IsFiniteSet(outbound')
  BY <1>1, FS_AddElement DEF SendInv, RowsAreCounted
<1>4. ASSUME NEW x \in Rcpts PROVE Cardinality(RowsFor(x)') + Pending(x)' <= tries'
  <2>1. Cardinality(RowsFor(x)) + Pending(x) <= tries
    BY DEF SendInv, RowsAreCounted
  <2>2. IsFiniteSet(RowsFor(x)) /\ Cardinality(RowsFor(x)) \in Nat
    BY RowsAreFinite DEF SendInv, RowsAreCounted
  <2>3. CASE Addressed[i] = x
    <3>1. RowsFor(x)' = RowsFor(x) \cup {row}
      BY <1>1, <2>3 DEF RowsFor
    <3>2. Cardinality(RowsFor(x)') <= Cardinality(RowsFor(x)) + 1 /\ Cardinality(RowsFor(x)') \in Nat
      <4> HIDE DEF row
      <4>1. IsFiniteSet(RowsFor(x) \cup {row})
            /\ Cardinality(RowsFor(x) \cup {row}) \in {Cardinality(RowsFor(x)), Cardinality(RowsFor(x)) + 1}
        BY <2>2, FS_AddElement
      <4> QED
        BY <2>2, <3>1, <4>1
    <3>3. Pending(x) = 1
      BY <2>3 DEF Pending
    <3>4. Pending(x)' = 0
      BY <1>1, <2>3, OnePerAddress DEF Pending, SendInv, TryIsInOrder
    <3> QED
      BY <1>2, <2>1, <2>2, <3>2, <3>3, <3>4
  <2>4. CASE Addressed[i] # x
    <3>1. RowsFor(x)' = RowsFor(x)
      BY <1>1, <2>4 DEF RowsFor
    <3>2. Pending(x)' <= Pending(x) /\ Pending(x) \in Nat /\ Pending(x)' \in Nat
      BY <1>1 DEF Pending
    <3> QED
      BY <1>2, <2>1, <2>2, <3>1, <3>2
  <2> QED
    BY <2>3, <2>4
<1> QED
  BY <1>3, <1>4 DEF RowsAreCounted

(* What is not the sending client's leaves its try alone. *)
LEMMA TryKept ==
    ASSUME TryIsInOrder, UNCHANGED sendVars, doomed \subseteq doomed',
           \A r \in outbound \ outbound' : r.msg \in doomed',
           del' # "idle" => victim' \in doomed'
    PROVE  TryIsInOrder'
<1>1. UNCHANGED <<send, todo, msg>>
  BY DEF sendVars
<1>2. ASSUME send' \in {"queue", "sent"}, NEW i \in recipients \ todo'
      PROVE  [msg |-> msg', at |-> i] \in outbound' \/ msg' \in doomed'
  <2>1. [msg |-> msg, at |-> i] \in outbound \/ msg \in doomed
    BY <1>1, <1>2 DEF TryIsInOrder
  <2> QED
    BY <1>1, <2>1
<1> QED
  BY <1>1, <1>2 DEF TryIsInOrder

LEMMA SendSend ==
    ASSUME TypeInv, SendInv, Send
    PROVE  SendInv'
<1> USE DEF TypeInv, SendInv
<1>1. CASE send_email
  <2>1. TryIsInOrder'
    BY <1>1 DEF send_email, TryIsInOrder, delVars
  <2> QED
    BY <1>1, <2>1, CountSendEmail
<1>2. CASE store_message
  <2>1. TryIsInOrder'
    BY <1>2 DEF store_message, TryIsInOrder, delVars
  <2>2. UNCHANGED <<outbound, todo, tries>>
    BY <1>2 DEF store_message
  <2> QED
    BY <2>1, <2>2, FewerRows
<1>3. CASE enqueue
  <2>1. PICK i \in todo : outbound' = outbound \cup {[msg |-> msg, at |-> i]} /\ todo' = todo \ {i}
    BY <1>3 DEF enqueue
  <2>2. /\ send = "queue" /\ send' = IF todo' = {} THEN "sent" ELSE "queue"
        /\ UNCHANGED <<msg, del, victim, doomed>>
    BY <1>3 DEF enqueue, delVars
  <2>3. \A k \in recipients \ todo' : [msg |-> msg, at |-> k] \in outbound' \/ msg \in doomed
    BY <2>1, <2>2 DEF TryIsInOrder
  <2>4. TryIsInOrder'
    BY <2>1, <2>2, <2>3 DEF TryIsInOrder
  <2> QED
    BY <1>3, <2>4, CountEnqueue
<1>4. CASE send_fails
  <2>1. TryIsInOrder'
    BY <1>4 DEF send_fails, TryIsInOrder, delVars
  <2>2. outbound' = outbound /\ tries' = tries /\ todo' \subseteq todo
    BY <1>4 DEF send_fails, dbVars
  <2> QED
    BY <2>1, <2>2, FewerRows
<1> QED
  BY <1>1, <1>2, <1>3, <1>4 DEF Send

LEMMA SendOthers ==
    ASSUME TypeInv, SendInv, Mail \/ Read
    PROVE  SendInv'
<1>1. UNCHANGED sendVars /\ outbound' \subseteq outbound /\ doomed \subseteq doomed'
  <2>1. CASE Mail
    BY <2>1 DEF Mail, receive, link_known, delete_message, delete_inbound, delete_outbound, delete_row,
                delete_fails, dbVars, delVars
  <2>2. CASE Read
    BY <2>2, ReadsOrBegins DEF Load, load_inbound, load_outbound, load_message, page, FirstPage, Ask, dbVars, delVars
  <2> QED
    BY <2>1, <2>2
<1>2. /\ \A r \in outbound \ outbound' : r.msg \in doomed'
      /\ del' # "idle" => victim' \in doomed'
  <2>1. CASE Mail
    BY <2>1 DEF Mail, receive, link_known, delete_message, delete_inbound, delete_outbound, delete_row,
                delete_fails, dbVars, delVars, SendInv, TryIsInOrder
  <2>2. CASE Read
    BY <2>2, ReadsOrBegins DEF Load, load_inbound, load_outbound, load_message, page, FirstPage, Ask, dbVars, delVars,
                SendInv, TryIsInOrder
  <2> QED
    BY <2>1, <2>2
<1>3. tries' = tries /\ todo' \subseteq todo
  BY <1>1 DEF sendVars
<1> QED
  BY <1>1, <1>2, <1>3, TryKept, FewerRows DEF SendInv, TypeInv

LEMMA SendInvariant == Spec => []SendInv
<1>1. Init => SendInv
  <2> SUFFICES ASSUME Init PROVE SendInv
    OBVIOUS
  <2>1. outbound = {} /\ todo = {} /\ tries = 0 /\ send = "idle" /\ del = "idle"
    BY DEF Init
  <2>2. \A x \in Rcpts : RowsFor(x) = {} /\ Pending(x) = 0
    BY <2>1 DEF RowsFor, Pending
  <2> QED
    BY <2>1, <2>2, FS_EmptySet DEF SendInv, TryIsInOrder, RowsAreCounted
<1>2. TypeInv /\ SendInv /\ [Next]_vars => SendInv'
  <2> SUFFICES ASSUME TypeInv, SendInv, [Next]_vars PROVE SendInv'
    OBVIOUS
  <2>1. CASE UNCHANGED vars
    BY <2>1 DEF vars, dbVars, sendVars, delVars, SendInv, TryIsInOrder, RowsAreCounted, RowsFor, Pending
  <2> QED
    BY <2>1, SendSend, SendOthers DEF Next
<1> QED
  BY <1>1, <1>2, TypeInvariant, PTL DEF Spec

(* A 200 of POST /mail means that every recipient has his job, except where  *)
(* the message was deleted meanwhile; and repeating the request after a 500  *)
(* sends nobody more copies than it was posted, however often a recipient is *)
(* named in to, cc and bcc.                                                  *)
THEOREM MailIsSentToEach == Spec => []SentToEachOnce
<1>1. TypeInv /\ SendInv => SentToEachOnce
  <2> SUFFICES ASSUME TypeInv, SendInv PROVE SentToEachOnce
    OBVIOUS
  <2>1. ASSUME send = "sent", NEW k \in DOMAIN Addressed
        PROVE  (\E r \in RowsFor(Addressed[k]) : r.msg = msg) \/ msg \in doomed
    <3>1. PICK i \in recipients : Addressed[i] = Addressed[k]
      BY OnePerAddress
    <3>2. [msg |-> msg, at |-> i] \in outbound \/ msg \in doomed
      BY <2>1 DEF SendInv, TryIsInOrder
    <3> QED
      BY <3>1, <3>2 DEF RowsFor
  <2>2. ASSUME NEW x \in Rcpts PROVE Cardinality(RowsFor(x)) <= tries
    <3>1. Cardinality(RowsFor(x)) + Pending(x) <= tries /\ tries \in Nat
      BY DEF SendInv, RowsAreCounted, TypeInv, TypeOK
    <3>2. Pending(x) \in Nat /\ Cardinality(RowsFor(x)) \in Nat
      BY RowsAreFinite DEF Pending, SendInv, RowsAreCounted
    <3> QED
      BY <3>1, <3>2
  <2> QED
    BY <2>1, <2>2 DEF SentToEachOnce
<1> QED
  BY <1>1, TypeInvariant, SendInvariant, PTL

-----------------------------------------------------------------------------
(* The reader's walk *)

(* A step that is not the reader's gives it no more pages, and ids only grow. *)
LEMMA WalkOthers ==
    ASSUME TypeInv, WalkInv, UNCHANGED <<query, pages, passed>>, Walking' = Walking,
           read' = "idle" => read = "idle", lastId' \in Nat, lastId <= lastId'
    PROVE  WalkInv'
<1>1. /\ pages \in Nat /\ query.limit \in Nat /\ lastId \in Nat
  BY ConstantsAssumption DEF TypeInv, TypeOK, MaxPages, Ids
<1>2. PagesAreEven'
  BY DEF WalkInv, PagesAreEven
<1>3. pages >= 1 => (pages - 1) * query.limit \in Nat
  BY <1>1
<1>4. WalkIsShort'
  BY <1>1, <1>3 DEF WalkInv, WalkIsShort
<1> QED
  BY <1>2, <1>4 DEF WalkInv

(* The first page. *)
LEMMA WalkBegins ==
    ASSUME TypeInv, WalkInv, NEW e \in Directions, NEW n \in Nat, FirstPage(e, n)
    PROVE  WalkInv'
<1>1. pages = 0 /\ passed' = {}
  BY DEF FirstPage, WalkInv, PagesAreEven, Walking
<1>2. /\ query' = [direction |-> e, limit |-> n, offset |-> 0]
      /\ read' \in {"inbox", "sent"} /\ pages' = 1
  BY <1>1, ConstantsAssumption DEF FirstPage, Ask, MaxPages
<1>3. query'.offset = (pages' - 1) * query'.limit
  BY <1>2
<1>4. PagesAreEven'
  BY <1>2, <1>3 DEF PagesAreEven, Walking
<1>5. WalkIsShort'
  BY <1>1, <1>2 DEF WalkIsShort
<1> QED
  BY <1>4, <1>5 DEF WalkInv

(* A product as the sum it stands for. *)
LEMMA OnePageMore ==
    ASSUME NEW k \in Nat, NEW n \in Nat, k >= 1
    PROVE  (k - 1) * n + n = k * n /\ (n >= 1 => k * n >= k) /\ k * n \in Nat
OBVIOUS

(* Another page is asked for only where messages are left, and their number  *)
(* is at most the last id.                                                   *)
LEMMA WalkGoesOn ==
    ASSUME TypeInv, WalkInv, page
    PROVE  WalkInv'
<1> DEFINE end == query.offset + query.limit
<1>1. /\ pages \in Nat /\ query.limit \in Nat /\ query.offset \in Nat /\ lastId \in Nat
      /\ lastId <= MaxMessages /\ MaxMessages \in Nat
  BY ConstantsAssumption DEF TypeInv, TypeOK, MaxPages, Ids
<1>2. /\ pages >= 1
      /\ (query.limit >= 1 => query.offset = (pages - 1) * query.limit)
  BY DEF page, WalkInv, PagesAreEven, Walking
<1>3. CASE ~has_more(end)
  <2>1. read' = "done" /\ pages' = 0
    BY <1>3 DEF page
  <2> QED
    BY <2>1 DEF WalkInv, PagesAreEven, WalkIsShort, Walking
<1>4. CASE has_more(end)
  <2>1. /\ query' = [direction |-> query.direction, limit |-> query.limit, offset |-> end]
        /\ read' \in {"inbox", "sent"} /\ lastId' = lastId
        /\ pages' = IF pages < MaxPages THEN pages + 1 ELSE pages
    BY <1>4 DEF page, Ask, next_offset, dbVars
  <2>2. Cardinality(items) > end
    BY <1>4 DEF has_more
  <2>3. Cardinality(items) \in Nat /\ Cardinality(items) <= lastId
    <3>1. items \subseteq 1 .. lastId
      BY DEF TypeInv, IdsAreIssued, Issued
    <3>2. IsFiniteSet(1 .. lastId) /\ Cardinality(1 .. lastId) = lastId
      <4>1. 1 \in Int /\ lastId \in Int
        BY <1>1
      <4>2. /\ IsFiniteSet(1 .. lastId)
            /\ Cardinality(1 .. lastId) = IF 1 > lastId THEN 0 ELSE lastId - 1 + 1
        BY <4>1, FS_Interval, Zenon
      <4> QED
        BY <1>1, <4>2
    <3> QED
      BY <3>1, <3>2, FS_Subset, FS_CardinalityType
  <2>4. CASE query.limit = 0
    <3>1. query.offset = 0 /\ end = 0 /\ pages' >= 1
      BY <1>1, <1>2, <2>1, <2>4 DEF page, WalkInv, WalkIsShort, Walking
    <3>2. passed' = {}
      <4>1. \A m \in items : Position(m) \in Nat
        <5>1. \A m : {k \in items : k < m} \in SUBSET Ids
          BY DEF TypeInv, TypeOK
        <5> QED
          BY <5>1, IdsAreFinite DEF Position
      <4> QED
        BY <3>1, <4>1 DEF page
    <3> QED
      BY <2>1, <2>4, <3>1, <3>2 DEF WalkInv, PagesAreEven, WalkIsShort, Walking
  <2>5. CASE query.limit # 0
    <3>1. query.limit >= 1 /\ query.offset = (pages - 1) * query.limit
      BY <1>1, <1>2, <2>5
    <3>2. end = pages * query.limit /\ pages * query.limit >= pages /\ pages * query.limit \in Nat
      BY <1>1, <1>2, <3>1, OnePageMore
    <3>3. pages < lastId
      BY <1>1, <2>2, <2>3, <3>2
    <3>4. pages' = pages + 1
      BY <1>1, <2>1, <3>3 DEF MaxPages
    <3>5. (pages' - 1) * query.limit = end
      BY <1>1, <3>2, <3>4
    <3>6. end < lastId
      BY <1>1, <2>2, <2>3
    <3> HIDE DEF end
    <3>7. PagesAreEven'
      BY <1>1, <1>2, <2>1, <3>1, <3>4, <3>5 DEF PagesAreEven, Walking
    <3>8. WalkIsShort'
      BY <2>1, <2>5, <3>5, <3>6 DEF WalkIsShort
    <3> QED
      BY <3>7, <3>8 DEF WalkInv
  <2> QED
    BY <2>4, <2>5
<1> QED
  BY <1>3, <1>4

LEMMA WalkInvariant == Spec => []WalkInv
<1>1. Init => WalkInv
  BY DEF Init, WalkInv, PagesAreEven, WalkIsShort, Walking
<1>2. TypeInv /\ WalkInv /\ [Next]_vars => WalkInv'
  <2> SUFFICES ASSUME TypeInv, WalkInv, [Next]_vars PROVE WalkInv'
    OBVIOUS
  <2>0. lastId \in Nat
    BY ConstantsAssumption DEF TypeInv, TypeOK, Ids
  <2>1. CASE Send
    <3>1. UNCHANGED <<query, read, pages, passed>>
      BY <2>1 DEF Send, send_email, store_message, enqueue, send_fails, readVars, walkVars, Watch
    <3>2. lastId' \in {lastId, lastId + 1}
      BY <2>1 DEF Send, send_email, store_message, enqueue, send_fails, dbVars
    <3> QED
      BY <2>0, <3>1, <3>2, WalkOthers DEF Walking
  <2>2. CASE Mail
    <3>1. UNCHANGED <<query, read, pages, passed>>
      BY <2>2 DEF Mail, receive, link_known, delete_message, delete_inbound, delete_outbound, delete_row,
                  delete_fails, readVars, walkVars, Watch
    <3>2. lastId' \in {lastId, lastId + 1}
      BY <2>2 DEF Mail, receive, link_known, delete_message, delete_inbound, delete_outbound, delete_row,
                  delete_fails, dbVars
    <3> QED
      BY <2>0, <3>1, <3>2, WalkOthers DEF Walking
  <2>3. CASE load_inbound \/ load_outbound \/ load_message
    <3>1. UNCHANGED <<query, pages, passed, lastId>> /\ Walking' = Walking /\ read' # "idle"
      BY <2>3 DEF load_inbound, load_outbound, load_message, dbVars, walkVars, Walking
    <3> QED
      BY <2>0, <3>1, WalkOthers
  <2>4. CASE UNCHANGED vars
    BY <2>0, <2>4, WalkOthers DEF vars, dbVars, readVars, walkVars, Walking
  <2> QED
    BY <2>1, <2>2, <2>3, <2>4, ReadsOrBegins, WalkBegins, WalkGoesOn DEF Next, Load
<1> QED
  BY <1>1, <1>2, TypeInvariant, PTL DEF Spec

(* A reader with a limit of at least 1 never needs more requests than the    *)
(* messages ever stored fill pages, whatever comes and goes while it reads.  *)
(* With limit 0, which a parsed query of list_mailbox_messages does not      *)
(* clamp, it gets nothing and stays at offset 0.                             *)
THEOREM WalksAreShort == Spec => []WalkIsShort
BY WalkInvariant, PTL DEF WalkInv

-----------------------------------------------------------------------------
(* What the reader misses, and what it gets twice *)

(* The messages that are listed, by the tables as they are. *)
Now == Listed(query.direction, inbound, outbound, messages)

(* Those that will be among the items of this request if no statement takes  *)
(* them away.                                                                *)
Still ==
    IF read = "get" THEN items \cup (ids \cap messages)
    ELSE IF read = "sent" THEN {m \in messages : m \in ids \/ \E r \in outbound : r.msg = m}
    ELSE Now

(* Those that this request will not have and the next one may. *)
Late ==
    IF read = "get" THEN Now \ Still
    ELSE IF read = "sent" /\ WantIn(query.direction) THEN (messages \cap inbound) \ ids
    ELSE {}

(* Ids up to the last one of the last page. *)
Below == {m \in Ids : \E k \in passed : m <= k}

(* Messages the walk has left behind, messages that have pushed others into  *)
(* the next page, and messages the next page will repeat.                    *)
Missed == {m \in stayed \cap Below : seen[m] = 0}
Pushed == (Still \cap Below) \ passed
Again  == {m \in Still \ Below : seen[m] = 1}
Twices == {m \in Ids : seen[m] > 1}

(* Each message that is missed or will be has a statement that took a row,   *)
(* each one that comes twice or will a statement that added one.             *)
LossesAreCounted ==
    Walking => Cardinality(Missed) + Cardinality(passed \ Still) + Cardinality(Still \ Now) <= removals

GainsAreCounted ==
    Walking => Cardinality(Twices) + Cardinality(Pushed) + Cardinality(Again) + Cardinality(Late) <= arrivals

(* A message that no DELETE names stays in the list. *)
StayedIsListed ==
    /\ Walking => stayed \subseteq Now /\ stayed \subseteq Still
    /\ del # "idle" => victim \notin stayed

(* The next page begins behind the ones that were answered. *)
PassedIsOffset ==
    /\ Walking => Cardinality(passed) = query.offset
    /\ read = "idle" => passed = {} /\ \A m \in Ids : seen[m] = 0

(* Each statement of a request is for a direction that wants it. *)
StageFits ==
    /\ read = "inbox" => WantIn(query.direction) /\ items = {}
    /\ read = "sent" => WantOut(query.direction) /\ items = {}

CompleteInv ==
    LossesAreCounted /\ GainsAreCounted /\ StayedIsListed /\ PassedIsOffset /\ StageFits /\ WalkIsComplete

-----------------------------------------------------------------------------
(* Positions in a set of ids *)

Place(S, i) == Cardinality({k \in S : k < i})
First(S, n) == {i \in S : Place(S, i) < n}
UpTo(P) == {m \in Ids : \E k \in P : m <= k}

LEMMA IdsAreNumbers == Ids \subseteq Nat /\ \A m \in Ids : 1 <= m /\ m <= MaxMessages
BY ConstantsAssumption DEF Ids

LEMMA GreatestOf ==
    ASSUME NEW T \in SUBSET Ids, T # {}
    PROVE  \E i \in T : \A j \in T : j <= i
<1> DEFINE Bounds == {u \in Nat : \A j \in T : j <= u}
<1>1. MaxMessages \in Bounds /\ MaxMessages \in Nat
  BY IdsAreNumbers, ConstantsAssumption
<1>2. PICK u \in Bounds : \A w \in Bounds : u <= w
  BY <1>1, LeastOf
<1>3. CASE u \in T
  BY <1>2, <1>3
<1>4. CASE u \notin T
  <2>1. \A j \in T : j \in Nat /\ 1 <= j /\ j < u
    BY <1>2, <1>4, IdsAreNumbers
  <2>2. u >= 1 /\ u - 1 \in Nat
    BY <1>2, <2>1
  <2>3. u - 1 \in Bounds
    BY <1>2, <2>1, <2>2
  <2> QED
    BY <1>2, <2>2, <2>3
<1> QED
  BY <1>3, <1>4

LEMMA PlaceType ==
    ASSUME NEW S \in SUBSET Ids, NEW i \in Ids
    PROVE  /\ Place(S, i) \in Nat /\ Cardinality(S) \in Nat /\ IsFiniteSet(S)
           /\ IsFiniteSet({k \in S : k < i})
BY IdsAreFinite DEF Place

(* The first n ids are n if there are so many, else fewer, and they are      *)
(* below all others.                                                         *)
LEMMA FirstIsClosed ==
    ASSUME NEW S \in SUBSET Ids, NEW n \in Nat, NEW i \in First(S, n), NEW k \in S, k <= i
    PROVE  k \in First(S, n)
<1>1. i \in S /\ Place(S, i) < n
  BY DEF First
<1>2. \A l \in S : l \in Nat /\ l \in Ids
  BY IdsAreNumbers
<1>3. {l \in S : l < k} \subseteq {l \in S : l < i}
  BY <1>1, <1>2
<1>4. Place(S, k) <= Place(S, i)
  BY <1>1, <1>3, PlaceType, FS_Subset DEF Place
<1>5. Place(S, k) \in Nat /\ Place(S, i) \in Nat
  BY <1>1, <1>2, PlaceType
<1>6. Place(S, k) < n
  BY <1>1, <1>4, <1>5
<1> QED
  BY <1>6 DEF First

LEMMA FirstAreFew ==
    ASSUME NEW S \in SUBSET Ids, NEW n \in Nat
    PROVE  Cardinality(First(S, n)) <= n
<1> DEFINE F == First(S, n)
<1>1. F \in SUBSET Ids /\ F \subseteq S
  BY DEF First
<1>2. CASE F = {}
  BY <1>2, FS_EmptySet
<1>3. CASE F # {}
  <2>1. PICK i \in F : \A j \in F : j <= i
    BY <1>1, <1>3, GreatestOf
  <2> DEFINE L == {k \in S : k < i}
  <2>2. Place(S, i) < n /\ i \in S /\ i \in Ids
    BY <1>1, <2>1 DEF First
  <2>3. F \subseteq L \cup {i}
    <3>1. \A j \in F : j \in S /\ j \in Nat /\ i \in Nat /\ j <= i
      BY <1>1, <2>1, <2>2, IdsAreNumbers
    <3> HIDE DEF F
    <3> QED
      BY <3>1
  <2>4. IsFiniteSet(L) /\ Cardinality(L) \in Nat /\ Cardinality(L) < n
    BY <2>2, PlaceType DEF Place
  <2>5. i \notin L
    BY <2>2, IdsAreNumbers
  <2> HIDE DEF L, F
  <2>6. IsFiniteSet(L \cup {i}) /\ Cardinality(L \cup {i}) = Cardinality(L) + 1
    BY <2>4, <2>5, FS_AddElement
  <2>7. Cardinality(F) <= Cardinality(L) + 1 /\ Cardinality(F) \in Nat
    BY <1>1, <2>3, <2>6, IdsAreFinite, FS_Subset
  <2> QED
    BY <2>4, <2>7 DEF F
<1> QED
  BY <1>2, <1>3

LEMMA FirstAreMany ==
    ASSUME NEW S \in SUBSET Ids, NEW n \in Nat, n <= Cardinality(S)
    PROVE  Cardinality(First(S, n)) = n
<1> DEFINE F == First(S, n)
           T == S \ F
<1>1. F \in SUBSET Ids /\ F \subseteq S /\ T \subseteq Nat
  BY IdsAreNumbers DEF First
<1>2. Cardinality(F) <= n /\ Cardinality(F) \in Nat
  BY <1>1, FirstAreFew, IdsAreFinite
<1>3. CASE T = {}
  <2>1. F = S
    BY <1>1, <1>3
  <2> QED
    BY <1>2, <2>1
<1>4. CASE T # {}
  <2>1. PICK t \in T : \A j \in T : t <= j
    BY <1>1, <1>4, LeastOf
  <2>2. t \in Ids /\ Place(S, t) \in Nat /\ Place(S, t) >= n
    <3>1. t \in S /\ t \in Ids /\ ~(Place(S, t) < n)
      BY <2>1 DEF First
    <3>2. Place(S, t) \in Nat
      BY <3>1, PlaceType
    <3> QED
      BY <3>1, <3>2
  <2>3. {k \in S : k < t} \subseteq F
    <3>1. \A k \in S : k \in Nat /\ t \in Nat
      BY <1>1, <2>1, IdsAreNumbers
    <3> HIDE DEF F
    <3> QED
      BY <2>1, <3>1
  <2>4. Place(S, t) <= Cardinality(F)
    BY <1>1, <2>3, IdsAreFinite, FS_Subset DEF Place
  <2> QED
    BY <1>2, <2>2, <2>4
<1> QED
  BY <1>3, <1>4

(* Counting ids. *)
LEMMA SplitIds ==
    ASSUME NEW S \in SUBSET Ids, NEW T
    PROVE  /\ Cardinality(S) = Cardinality(S \cap T) + Cardinality(S \ T)
           /\ Cardinality(S) \in Nat /\ Cardinality(S \cap T) \in Nat /\ Cardinality(S \ T) \in Nat
<1>1. S \cap T \in SUBSET Ids /\ S \ T \in SUBSET Ids
  OBVIOUS
<1>2. /\ IsFiniteSet(S) /\ Cardinality(S) \in Nat
      /\ Cardinality(S \cap T) \in Nat /\ Cardinality(S \ T) \in Nat
  BY <1>1, IdsAreFinite
<1>3. Cardinality(S \ T) = Cardinality(S) - Cardinality(S \cap T)
  BY <1>2, FS_Difference
<1> QED
  BY <1>2, <1>3

LEMMA SumBound ==
    ASSUME NEW S \in SUBSET Ids, NEW T \in SUBSET Ids, NEW U, U \subseteq S \cup T
    PROVE  Cardinality(U) <= Cardinality(S) + Cardinality(T) /\ Cardinality(U) \in Nat
<1>1. U \in SUBSET Ids /\ U \cap S \subseteq S /\ U \ S \subseteq T
  OBVIOUS
<1>2. /\ Cardinality(U) = Cardinality(U \cap S) + Cardinality(U \ S)
      /\ Cardinality(U) \in Nat /\ Cardinality(U \cap S) \in Nat /\ Cardinality(U \ S) \in Nat
  BY <1>1, SplitIds
<1>3. Cardinality(U \cap S) <= Cardinality(S) /\ Cardinality(U \ S) <= Cardinality(T)
  BY <1>1, IdsAreFinite, FS_Subset
<1>4. Cardinality(S) \in Nat /\ Cardinality(T) \in Nat
  BY IdsAreFinite
<1> QED
  BY <1>2, <1>3, <1>4

LEMMA PartsBound ==
    ASSUME NEW S \in SUBSET Ids, NEW T, NEW U, T \subseteq S, U \subseteq S, T \cap U = {}
    PROVE  Cardinality(T) + Cardinality(U) <= Cardinality(S)
<1>1. S \cap T = T /\ U \subseteq S \ T /\ S \ T \in SUBSET Ids /\ U \in SUBSET Ids
  OBVIOUS
<1>2. Cardinality(S) = Cardinality(T) + Cardinality(S \ T)
      /\ Cardinality(T) \in Nat /\ Cardinality(S \ T) \in Nat
  BY <1>1, SplitIds
<1>3. Cardinality(U) <= Cardinality(S \ T) /\ Cardinality(U) \in Nat
  BY <1>1, IdsAreFinite, FS_Subset
<1> QED
  BY <1>2, <1>3

LEMMA FewerIds ==
    ASSUME NEW S \in SUBSET Ids, NEW T, T \subseteq S
    PROVE  Cardinality(T) <= Cardinality(S) /\ Cardinality(T) \in Nat /\ Cardinality(S) \in Nat
<1>1. T \in SUBSET Ids
  OBVIOUS
<1> QED
  BY <1>1, IdsAreFinite, FS_Subset

LEMMA OneIdMore ==
    ASSUME NEW S \in SUBSET Ids, NEW T, NEW v \in Ids, T \subseteq S \cup {v}
    PROVE  Cardinality(T) <= Cardinality(S) + 1 /\ Cardinality(T) \in Nat /\ Cardinality(S) \in Nat
<1>1. {v} \in SUBSET Ids
  OBVIOUS
<1>2. Cardinality({v}) = 1
  BY FS_Singleton
<1>3. Cardinality(S) \in Nat
  BY IdsAreFinite
<1> QED
  BY <1>1, <1>2, <1>3, SumBound

(* The set P was the first ids of an earlier list, up to some id.  Of the    *)
(* list S as it is now, so many ids are before position |P| and above P as   *)
(* P has lost, at most ...                                                   *)
LEMMA SkippedWereLost ==
    ASSUME NEW S \in SUBSET Ids, NEW P \in SUBSET Ids
    PROVE  Cardinality(First(S, Cardinality(P)) \ UpTo(P)) <= Cardinality(P \ S)
<1> DEFINE n == Cardinality(P)
           F == First(S, n)
           B == UpTo(P)
<1>1. F \in SUBSET Ids /\ F \subseteq S /\ n \in Nat
  BY IdsAreFinite DEF First
<1>2. P \subseteq B /\ B \in SUBSET Ids
  BY IdsAreNumbers DEF UpTo
<1>3. CASE F \ B = {}
  <2>1. Cardinality(F \ B) = 0
    BY <1>3, FS_EmptySet
  <2>2. Cardinality(P \ S) \in Nat
    BY SplitIds
  <2> QED
    BY <2>1, <2>2
<1>4. CASE F \ B # {}
  <2>1. PICK i \in F : i \notin B
    BY <1>4
  <2>2. S \cap B \subseteq F
    <3> SUFFICES ASSUME NEW k \in S, k \in B PROVE k \in F
      OBVIOUS
    <3>1. PICK p \in P : k <= p
      BY DEF UpTo
    <3>2. ~(i <= p)
      BY <1>1, <2>1 DEF UpTo
    <3>3. k \in Nat /\ i \in Nat /\ p \in Nat
      BY <1>1, <2>1, IdsAreNumbers
    <3>4. k <= i
      BY <3>1, <3>2, <3>3
    <3> QED
      BY <1>1, <2>1, <3>4, FirstIsClosed
  <2>3. Cardinality(F) <= n
    BY <1>1, FirstAreFew
  <2> HIDE DEF F, B, n
  <2>4. /\ Cardinality(F) = Cardinality(F \cap B) + Cardinality(F \ B)
        /\ Cardinality(F) \in Nat /\ Cardinality(F \cap B) \in Nat /\ Cardinality(F \ B) \in Nat
    BY <1>1, SplitIds
  <2>5. /\ n = Cardinality(P \cap S) + Cardinality(P \ S)
        /\ Cardinality(P \cap S) \in Nat /\ Cardinality(P \ S) \in Nat
    BY SplitIds DEF n
  <2>6. P \cap S \subseteq F \cap B /\ F \cap B \in SUBSET Ids
    BY <1>1, <1>2, <2>2
  <2>7. Cardinality(P \cap S) <= Cardinality(F \cap B)
    BY <2>6, FewerIds
  <2>8. Cardinality(F \ B) <= Cardinality(P \ S)
    BY <1>1, <2>3, <2>4, <2>5, <2>7
  <2> QED
    BY <2>8 DEF F, B, n
<1> QED
  BY <1>3, <1>4

(* ... and so many are behind that position and not above P as the list has  *)
(* gained there, at most.                                                    *)
LEMMA RepeatedWerePushed ==
    ASSUME NEW S \in SUBSET Ids, NEW P \in SUBSET Ids
    PROVE  Cardinality((S \cap UpTo(P)) \ First(S, Cardinality(P))) <= Cardinality((S \cap UpTo(P)) \ P)
<1> DEFINE n == Cardinality(P)
           F == First(S, n)
           B == UpTo(P)
<1>1. F \in SUBSET Ids /\ F \subseteq S /\ n \in Nat
  BY IdsAreFinite DEF First
<1>2. B \in SUBSET Ids /\ S \cap B \in SUBSET Ids
  BY DEF UpTo
<1>3. CASE (S \cap B) \ F = {}
  <2>1. Cardinality((S \cap B) \ F) = 0
    BY <1>3, FS_EmptySet
  <2>2. Cardinality((S \cap B) \ P) \in Nat
    BY <1>2, SplitIds
  <2> QED
    BY <2>1, <2>2
<1>4. CASE (S \cap B) \ F # {}
  <2>1. PICK i \in S \cap B : i \notin F
    BY <1>4
  <2>2. Place(S, i) \in Nat /\ n <= Place(S, i)
    <3>1. i \in Ids /\ ~(Place(S, i) < n)
      BY <2>1 DEF First
    <3>2. Place(S, i) \in Nat
      BY <3>1, PlaceType
    <3> QED
      BY <1>1, <3>1, <3>2
  <2>3. Place(S, i) <= Cardinality(S) /\ Cardinality(S) \in Nat
    BY FewerIds DEF Place
  <2>4. Cardinality(F) = n
    BY <1>1, <2>2, <2>3, FirstAreMany
  <2>5. F \subseteq S \cap B
    <3> SUFFICES ASSUME NEW k \in F PROVE k \in B
      BY <1>1
    <3>1. ~(i <= k)
      BY <1>1, <2>1, FirstIsClosed
    <3>2. PICK p \in P : i <= p
      BY <2>1 DEF UpTo
    <3>3. k \in Nat /\ i \in Nat /\ p \in Nat /\ k \in Ids
      BY <1>1, <2>1, IdsAreNumbers
    <3>4. k <= p
      BY <3>1, <3>2, <3>3
    <3> QED
      BY <3>3, <3>4 DEF UpTo
  <2> HIDE DEF F, B, n
  <2> DEFINE C == S \cap B
  <2>6. /\ Cardinality(C) = Cardinality(C \cap F) + Cardinality(C \ F)
        /\ Cardinality(C) = Cardinality(C \cap P) + Cardinality(C \ P)
        /\ Cardinality(C \cap F) \in Nat /\ Cardinality(C \ F) \in Nat
        /\ Cardinality(C \cap P) \in Nat /\ Cardinality(C \ P) \in Nat
    BY <1>2, SplitIds
  <2>7. C \cap F = F
    BY <2>5
  <2>8. Cardinality(C \cap P) <= n
    BY FewerIds DEF n
  <2> HIDE DEF C
  <2>9. Cardinality(C \ F) <= Cardinality(C \ P)
    BY <1>1, <2>4, <2>6, <2>7, <2>8, SMTT(30)
  <2> QED
    BY <2>9 DEF F, B, n, C
<1> QED
  BY <1>3, <1>4

-----------------------------------------------------------------------------
(* The sets of the invariant are sets of ids. *)
LEMMA WalkSets ==
    ASSUME TypeOK
    PROVE  /\ Now \in SUBSET Ids /\ Still \in SUBSET Ids /\ Late \in SUBSET Ids /\ Below \in SUBSET Ids
           /\ Missed \in SUBSET Ids /\ Pushed \in SUBSET Ids /\ Again \in SUBSET Ids /\ Twices \in SUBSET Ids
<1>1. Now \in SUBSET Ids
  BY DEF Now, Listed, TypeOK
<1>2. Still \in SUBSET Ids
  BY <1>1 DEF Still, TypeOK
<1>3. Late \in SUBSET Ids
  BY <1>1 DEF Late, TypeOK
<1> QED
  BY <1>1, <1>2, <1>3 DEF Below, Missed, Pushed, Again, Twices

LEMMA WalkSetsNext ==
    ASSUME TypeOK'
    PROVE  /\ Now' \in SUBSET Ids /\ Still' \in SUBSET Ids /\ Late' \in SUBSET Ids /\ Below' \in SUBSET Ids
           /\ Missed' \in SUBSET Ids /\ Pushed' \in SUBSET Ids /\ Again' \in SUBSET Ids
           /\ Twices' \in SUBSET Ids
<1>1. Now' \in SUBSET Ids
  BY DEF Now, Listed, TypeOK
<1>2. Still' \in SUBSET Ids
  BY <1>1 DEF Still, TypeOK
<1>3. Late' \in SUBSET Ids
  BY <1>1 DEF Late, TypeOK
<1> QED
  BY <1>1, <1>2, <1>3 DEF Below, Missed, Pushed, Again, Twices

(* An answer.  F are the items before the page, G those up to its end. *)
LEMMA PageShows ==
    ASSUME TypeInv, CompleteInv, page,
           NEW F, F = First(items, query.offset), NEW G, G = First(items, query.offset + query.limit)
    PROVE  /\ Still = items /\ passed' = G /\ query.offset = Cardinality(passed)
           /\ F \subseteq G /\ G \subseteq items /\ G \in SUBSET Ids
           /\ \A m \in Ids : seen[m] \in Nat /\ seen'[m] = IF m \in G \ F THEN seen[m] + 1 ELSE seen[m]
           /\ \A m \in items : \A k \in G : m <= k => m \in G
           /\ UNCHANGED <<stayed, removals, arrivals, dbVars, delVars>>
<1> DEFINE end == query.offset + query.limit
<1>1. /\ query.offset \in Nat /\ query.limit \in Nat /\ end \in Nat /\ query.offset <= end
      /\ items \in SUBSET Ids /\ seen \in [Ids -> Nat]
  BY DEF TypeInv, TypeOK
<1>2. Still = items /\ query.offset = Cardinality(passed)
  BY DEF page, Still, CompleteInv, PassedIsOffset, Walking
<1>3. \A m \in items : Position(m) = Place(items, m) /\ Place(items, m) \in Nat
  BY <1>1, PlaceType DEF Position, Place
<1>4. passed' = {m \in items : Position(m) < end}
  BY DEF page
<1>5. passed' = G
  BY <1>3, <1>4 DEF First
<1>6. F \subseteq G /\ G \subseteq items /\ G \in SUBSET Ids
  BY <1>1, <1>3 DEF First
<1>7. \A m \in items : m \in G \ F <=> query.offset <= Position(m) /\ Position(m) < end
  BY <1>1, <1>3 DEF First
<1>8. seen' = [m \in Ids |-> IF m \in items /\ query.offset <= Position(m) /\ Position(m) < end
                             THEN seen[m] + 1 ELSE seen[m]]
  BY DEF page
<1>9. ASSUME NEW m \in Ids
      PROVE  seen[m] \in Nat /\ seen'[m] = IF m \in G \ F THEN seen[m] + 1 ELSE seen[m]
  BY <1>1, <1>6, <1>7, <1>8
<1>10. \A m \in items : \A k \in G : m <= k => m \in G
  BY <1>1, FirstIsClosed
<1>11. UNCHANGED <<stayed, removals, arrivals, dbVars, delVars>>
  BY DEF page, Ask
<1> QED
  BY <1>2, <1>5, <1>6, <1>9, <1>10, <1>11

(* What the page leaves behind for good was missed before or has slipped in  *)
(* front of it, and what it repeats, or a later one will, was pushed back.   *)
LEMMA PageCounts ==
    ASSUME TypeInv, CompleteInv, page,
           NEW F, F = First(items, query.offset), NEW G, G = First(items, query.offset + query.limit)
    PROVE  /\ Cardinality({m \in F \cap stayed : seen[m] = 0}) + Cardinality(Still \ Now) <= removals
           /\ Cardinality(Twices) + Cardinality({m \in G \ F : seen[m] = 1})
                + Cardinality({m \in items \ G : seen[m] = 1}) + Cardinality(Late) <= arrivals
<1>1. /\ Still = items /\ query.offset = Cardinality(passed)
      /\ F \subseteq G /\ G \subseteq items /\ G \in SUBSET Ids
  BY PageShows
<1>2. /\ items \in SUBSET Ids /\ passed \in SUBSET Ids /\ stayed \in SUBSET Ids
      /\ removals \in Nat /\ arrivals \in Nat
  BY DEF TypeInv, TypeOK
<1>3. Below = UpTo(passed) /\ Pushed = (items \cap UpTo(passed)) \ passed
  BY <1>1 DEF Below, UpTo, Pushed
<1>4. Walking
  BY DEF page, Walking
<1>5. /\ Now \in SUBSET Ids /\ Late \in SUBSET Ids /\ Missed \in SUBSET Ids /\ Pushed \in SUBSET Ids
      /\ Again \in SUBSET Ids /\ Twices \in SUBSET Ids
  BY WalkSets DEF TypeInv
<1>6. /\ Cardinality(Late) \in Nat /\ Cardinality(Missed) \in Nat /\ Cardinality(Pushed) \in Nat
      /\ Cardinality(Again) \in Nat /\ Cardinality(Twices) \in Nat
  BY <1>5, IdsAreFinite
<1>7. Cardinality({m \in F \cap stayed : seen[m] = 0}) + Cardinality(Still \ Now) <= removals
  <2> DEFINE X == {m \in F \cap stayed : seen[m] = 0}
  <2>1. X \subseteq Missed \cup (F \ Below)
    BY DEF Missed
  <2>2. F \ Below \in SUBSET Ids
    BY <1>1
  <2>3. Cardinality(X) <= Cardinality(Missed) + Cardinality(F \ Below) /\ Cardinality(X) \in Nat
    BY <1>5, <2>1, <2>2, SumBound
  <2>4. Cardinality(F \ Below) <= Cardinality(passed \ Still)
    BY <1>1, <1>2, <1>3, SkippedWereLost
  <2>5. Cardinality(Missed) + Cardinality(passed \ Still) + Cardinality(Still \ Now) <= removals
    BY <1>4 DEF CompleteInv, LossesAreCounted
  <2>6. /\ Cardinality(F \ Below) \in Nat /\ Cardinality(passed \ Still) \in Nat
        /\ Cardinality(Still \ Now) \in Nat
    BY <1>1, <1>2, <2>2, IdsAreFinite, SplitIds
  <2> HIDE DEF X
  <2>7. Cardinality(X) + Cardinality(Still \ Now) <= removals
    BY <1>2, <1>6, <2>3, <2>4, <2>5, <2>6
  <2> QED
    BY <2>7 DEF X
<1>8. Cardinality(Twices) + Cardinality({m \in G \ F : seen[m] = 1})
        + Cardinality({m \in items \ G : seen[m] = 1}) + Cardinality(Late) <= arrivals
  <2> DEFINE X == {m \in items \ F : seen[m] = 1}
             Y == {m \in G \ F : seen[m] = 1}
             Z == {m \in items \ G : seen[m] = 1}
             C == (items \cap UpTo(passed)) \ F
  <2>1. X \in SUBSET Ids /\ Y \subseteq X /\ Z \subseteq X /\ Y \cap Z = {}
    BY <1>1, <1>2
  <2>2. X \subseteq C \cup Again /\ C \in SUBSET Ids
    BY <1>1, <1>2, <1>3 DEF Again
  <2>3. Cardinality(C) <= Cardinality(Pushed)
    BY <1>1, <1>2, <1>3, RepeatedWerePushed
  <2>4. Cardinality(Twices) + Cardinality(Pushed) + Cardinality(Again) + Cardinality(Late) <= arrivals
    BY <1>4 DEF CompleteInv, GainsAreCounted
  <2> HIDE DEF X, Y, Z, C
  <2>5. Cardinality(Y) + Cardinality(Z) <= Cardinality(X)
    BY <2>1, PartsBound
  <2>6. Cardinality(X) <= Cardinality(C) + Cardinality(Again)
    BY <1>5, <2>2, SumBound
  <2>7. /\ Cardinality(X) \in Nat /\ Cardinality(Y) \in Nat /\ Cardinality(Z) \in Nat
        /\ Cardinality(C) \in Nat
    BY <2>1, <2>2, FewerIds
  <2>8. Cardinality(Twices) + Cardinality(Y) + Cardinality(Z) + Cardinality(Late) <= arrivals
    BY <1>2, <1>6, <2>3, <2>4, <2>5, <2>6, <2>7
  <2> QED
    BY <2>8 DEF Y, Z
<1> QED
  BY <1>7, <1>8

(* The answer that is not the last one. *)
LEMMA PageBeforeAnother ==
    ASSUME TypeInv, TypeInv', CompleteInv, page, has_more(query.offset + query.limit)
    PROVE  CompleteInv'
<1> DEFINE end == query.offset + query.limit
           F == First(items, query.offset)
           G == First(items, end)
           Y == {m \in G \ F : seen[m] = 1}
           Z == {m \in items \ G : seen[m] = 1}
           X == {m \in F \cap stayed : seen[m] = 0}
<1>1. /\ Still = items /\ passed' = G /\ F \subseteq G /\ G \subseteq items /\ G \in SUBSET Ids
      /\ \A m \in Ids : seen[m] \in Nat /\ seen'[m] = IF m \in G \ F THEN seen[m] + 1 ELSE seen[m]
      /\ \A m \in items : \A k \in G : m <= k => m \in G
      /\ UNCHANGED <<stayed, removals, arrivals, dbVars, delVars>>
  BY PageShows
<1>2. /\ Cardinality(X) + Cardinality(Still \ Now) <= removals
      /\ Cardinality(Twices) + Cardinality(Y) + Cardinality(Z) + Cardinality(Late) <= arrivals
  BY PageCounts
<1>3. /\ query' = [direction |-> query.direction, limit |-> query.limit, offset |-> end]
      /\ read' = IF WantIn(query.direction) THEN "inbox" ELSE "sent"
      /\ ids' = {} /\ items' = {}
  BY DEF page, Ask, next_offset
<1>4. /\ items \in SUBSET Ids /\ stayed \in SUBSET Ids /\ end \in Nat
      /\ removals \in Nat /\ arrivals \in Nat
  BY DEF TypeInv, TypeOK
<1>5. Now' = Now
  BY <1>1, <1>3 DEF Now, dbVars
<1>6. Still' = Now /\ Late' = {}
  BY <1>1, <1>3, <1>5 DEF Still, Late, Now, Listed, WantIn, WantOut, dbVars
<1>7. Below' = UpTo(G)
  BY <1>1 DEF Below, UpTo
<1>8. /\ Now \in SUBSET Ids /\ Late \in SUBSET Ids /\ Twices \in SUBSET Ids
      /\ Late = Now \ items /\ stayed \subseteq Now /\ stayed \subseteq items
  BY <1>1, WalkSets DEF TypeInv, page, Late, CompleteInv, StayedIsListed, Walking
<1>9. Cardinality(G) = end
  <2>1. end <= Cardinality(items)
    BY <1>4, IdsAreFinite DEF has_more
  <2> QED
    BY <1>4, <2>1, FirstAreMany
<1> HIDE DEF F, G, end
<1>10. LossesAreCounted'
  <2>1. Missed' \subseteq X
    <3> SUFFICES ASSUME NEW m \in Missed' PROVE m \in X
      OBVIOUS
    <3>1. m \in stayed /\ m \in UpTo(G) /\ seen'[m] = 0
      BY <1>1, <1>7 DEF Missed
    <3>2. m \in items /\ m \in Ids
      BY <1>4, <1>8, <3>1
    <3>3. m \in G
      BY <1>1, <3>1, <3>2 DEF UpTo
    <3>4. m \in F /\ seen[m] = 0
      BY <1>1, <3>1, <3>2, <3>3
    <3> QED
      BY <3>1, <3>4
  <2>2. X \in SUBSET Ids /\ Still \ Now \in SUBSET Ids
    BY <1>1, <1>4
  <2>3. passed' \ Still' \subseteq Still \ Now /\ Still' \ Now' = {}
    BY <1>1, <1>5, <1>6
  <2> HIDE DEF X
  <2>4. /\ Cardinality(Missed') <= Cardinality(X) /\ Cardinality(Missed') \in Nat /\ Cardinality(X) \in Nat
        /\ Cardinality(passed' \ Still') <= Cardinality(Still \ Now)
        /\ Cardinality(passed' \ Still') \in Nat /\ Cardinality(Still \ Now) \in Nat
        /\ Cardinality(Still' \ Now') = 0
    BY <2>1, <2>2, <2>3, FewerIds, FS_EmptySet
  <2>5. Cardinality(Missed') + Cardinality(passed' \ Still') + Cardinality(Still' \ Now') <= removals'
    BY <1>1, <1>2, <1>4, <2>4
  <2> QED
    BY <2>5 DEF LossesAreCounted
<1>11. GainsAreCounted'
  <2>1. Twices' \subseteq Twices \cup Y
    BY <1>1 DEF Twices
  <2>2. Pushed' \subseteq Late
    <3> SUFFICES ASSUME NEW m \in Pushed' PROVE m \in Late
      OBVIOUS
    <3>1. m \in Now /\ m \in UpTo(G) /\ m \notin G
      BY <1>1, <1>6, <1>7 DEF Pushed
    <3>2. m \notin items
      BY <1>1, <3>1 DEF UpTo
    <3> QED
      BY <1>8, <3>1, <3>2
  <2>3. Again' \subseteq Z \cup (Again' \cap Late)
    <3> SUFFICES ASSUME NEW m \in Again', m \notin Late PROVE m \in Z
      OBVIOUS
    <3>1. m \in Now /\ m \notin UpTo(G) /\ seen'[m] = 1 /\ m \in Ids
      BY <1>6, <1>7, <1>8 DEF Again
    <3>2. m \in items
      BY <1>8, <3>1
    <3>3. m \notin G
      BY <3>1, IdsAreNumbers DEF UpTo
    <3> QED
      BY <1>1, <3>1, <3>2, <3>3
  <2>4. Pushed' \cap (Again' \cap Late) = {}
    BY DEF Pushed, Again
  <2>5. Y \in SUBSET Ids /\ Z \in SUBSET Ids /\ Again' \cap Late \in SUBSET Ids
    BY <1>1, <1>4, <1>8
  <2> HIDE DEF Y, Z
  <2>6. Cardinality(Twices') <= Cardinality(Twices) + Cardinality(Y) /\ Cardinality(Twices') \in Nat
    BY <1>8, <2>1, <2>5, SumBound
  <2>7. Cardinality(Again') <= Cardinality(Z) + Cardinality(Again' \cap Late) /\ Cardinality(Again') \in Nat
    BY <2>3, <2>5, SumBound
  <2>8. Cardinality(Pushed') + Cardinality(Again' \cap Late) <= Cardinality(Late)
    BY <1>8, <2>2, <2>4, PartsBound
  <2>9. /\ Cardinality(Twices) \in Nat /\ Cardinality(Y) \in Nat /\ Cardinality(Z) \in Nat
        /\ Cardinality(Again' \cap Late) \in Nat /\ Cardinality(Late) \in Nat /\ Cardinality(Pushed') \in Nat
    BY <1>8, <2>2, <2>5, FewerIds, IdsAreFinite
  <2>10. Cardinality(Late') = 0
    BY <1>6, FS_EmptySet
  <2>11. Cardinality(Twices') + Cardinality(Pushed') + Cardinality(Again') + Cardinality(Late') <= arrivals'
    BY <1>1, <1>2, <1>4, <2>6, <2>7, <2>8, <2>9, <2>10
  <2> QED
    BY <2>11 DEF GainsAreCounted
<1>12. StayedIsListed'
  BY <1>1, <1>5, <1>6, <1>8 DEF StayedIsListed, CompleteInv, delVars
<1>13. PassedIsOffset'
  BY <1>1, <1>3, <1>9 DEF PassedIsOffset, Walking
<1>14. StageFits'
  BY <1>3 DEF StageFits, WantIn, WantOut
<1>15. WalkIsComplete'
  BY <1>3 DEF WalkIsComplete
<1> QED
  BY <1>10, <1>11, <1>12, <1>13, <1>14, <1>15 DEF CompleteInv

(* The last answer shows everything that is left. *)
LEMMA PageIsLast ==
    ASSUME TypeInv, TypeInv', CompleteInv, page, ~has_more(query.offset + query.limit)
    PROVE  CompleteInv'
<1> DEFINE end == query.offset + query.limit
           F == First(items, query.offset)
           G == First(items, end)
           Y == {m \in G \ F : seen[m] = 1}
           Z == {m \in items \ G : seen[m] = 1}
           X == {m \in F \cap stayed : seen[m] = 0}
           U == {m \in stayed : seen'[m] = 0}
<1>1. /\ Still = items /\ F \subseteq G /\ G \subseteq items /\ G \in SUBSET Ids
      /\ \A m \in Ids : seen[m] \in Nat /\ seen'[m] = IF m \in G \ F THEN seen[m] + 1 ELSE seen[m]
      /\ UNCHANGED <<stayed, removals, arrivals, dbVars, delVars>>
  BY PageShows
<1>2. /\ Cardinality(X) + Cardinality(Still \ Now) <= removals
      /\ Cardinality(Twices) + Cardinality(Y) + Cardinality(Z) + Cardinality(Late) <= arrivals
  BY PageCounts
<1>3. read' = "done"
  BY DEF page
<1>4. /\ items \in SUBSET Ids /\ stayed \in SUBSET Ids /\ end \in Nat
      /\ removals \in Nat /\ arrivals \in Nat
  BY DEF TypeInv, TypeOK
<1>5. stayed \subseteq items /\ Now \in SUBSET Ids /\ Late \in SUBSET Ids /\ Twices \in SUBSET Ids
  BY <1>1, WalkSets DEF TypeInv, page, CompleteInv, StayedIsListed, Walking
<1>6. items \subseteq G
  <2> SUFFICES ASSUME NEW m \in items PROVE Place(items, m) < end
    BY DEF First
  <2>1. m \notin {k \in items : k < m} /\ m \in Ids
    BY <1>4, IdsAreNumbers
  <2>2. /\ {m} \subseteq items /\ {k \in items : k < m} \subseteq items
        /\ {m} \cap {k \in items : k < m} = {} /\ Cardinality({m}) = 1
    BY <2>1, FS_Singleton
  <2>3. 1 + Place(items, m) <= Cardinality(items)
    BY <1>4, <2>2, PartsBound DEF Place
  <2>4. Place(items, m) \in Nat /\ Cardinality(items) \in Nat /\ Cardinality(items) <= end
    <3>1. Place(items, m) \in Nat /\ Cardinality(items) \in Nat
      BY <1>4, <2>1, PlaceType
    <3>2. ~(Cardinality(items) > end)
      BY DEF has_more
    <3> QED
      BY <1>4, <3>1, <3>2
  <2> QED
    BY <1>4, <2>3, <2>4
<1> HIDE DEF F, G, end
<1>7. U \subseteq X
  <2> SUFFICES ASSUME NEW m \in stayed, seen'[m] = 0 PROVE m \in F /\ seen[m] = 0
    OBVIOUS
  <2>1. m \in G /\ m \in Ids
    BY <1>4, <1>5, <1>6
  <2>2. seen[m] \in Nat /\ seen'[m] = IF m \in G \ F THEN seen[m] + 1 ELSE seen[m]
    BY <1>1, <2>1
  <2> QED
    BY <2>1, <2>2
<1>8. Twices' \subseteq Twices \cup Y
  BY <1>1 DEF Twices
<1>9. X \in SUBSET Ids /\ Y \in SUBSET Ids /\ Z \in SUBSET Ids /\ Still \ Now \in SUBSET Ids
  BY <1>1, <1>4
<1> HIDE DEF X, Y, Z
<1>10. /\ Cardinality(U) <= Cardinality(X) /\ Cardinality(U) \in Nat
       /\ Cardinality(Twices') <= Cardinality(Twices) + Cardinality(Y) /\ Cardinality(Twices') \in Nat
  BY <1>5, <1>7, <1>8, <1>9, FewerIds, SumBound
<1>11. /\ Cardinality(X) \in Nat /\ Cardinality(Y) \in Nat /\ Cardinality(Z) \in Nat
       /\ Cardinality(Late) \in Nat /\ Cardinality(Twices) \in Nat /\ Cardinality(Still \ Now) \in Nat
  BY <1>5, <1>9, IdsAreFinite
<1>12. Cardinality(U) <= removals' /\ Cardinality(Twices') <= arrivals'
  BY <1>1, <1>2, <1>4, <1>10, <1>11
<1>13. U = {m \in stayed' : seen'[m] = 0} /\ Duplicates' = Cardinality(Twices')
  BY <1>1 DEF Duplicates, Twices
<1>14. WalkIsComplete'
  BY <1>12, <1>13 DEF WalkIsComplete
<1>15. StayedIsListed'
  BY <1>1, <1>3 DEF StayedIsListed, CompleteInv, delVars, Walking
<1> QED
  BY <1>3, <1>14, <1>15 DEF CompleteInv, LossesAreCounted, GainsAreCounted, PassedIsOffset, StageFits, Walking

-----------------------------------------------------------------------------
(* What statements do to the sums. *)
LEMMA LossesKept ==
    ASSUME TypeInv, TypeInv', LossesAreCounted, Walking, UNCHANGED <<passed, seen>>, stayed' \subseteq stayed,
           Still \subseteq Still', Still' \ Now' \subseteq Still \ Now, removals <= removals'
    PROVE  LossesAreCounted'
<1>1. Missed' \subseteq Missed /\ passed' \ Still' \subseteq passed \ Still
  BY DEF Missed, Below
<1>2. Missed \in SUBSET Ids /\ passed \ Still \in SUBSET Ids /\ Still \ Now \in SUBSET Ids
  BY WalkSets DEF TypeInv, TypeOK
<1>3. /\ Cardinality(Missed') <= Cardinality(Missed) /\ Cardinality(Missed') \in Nat
      /\ Cardinality(passed' \ Still') <= Cardinality(passed \ Still) /\ Cardinality(passed' \ Still') \in Nat
      /\ Cardinality(Still' \ Now') <= Cardinality(Still \ Now) /\ Cardinality(Still' \ Now') \in Nat
      /\ Cardinality(Missed) \in Nat /\ Cardinality(passed \ Still) \in Nat /\ Cardinality(Still \ Now) \in Nat
  BY <1>1, <1>2, FewerIds
<1>4. /\ Cardinality(Missed) + Cardinality(passed \ Still) + Cardinality(Still \ Now) <= removals
      /\ removals \in Nat /\ removals' \in Nat
  BY DEF LossesAreCounted, TypeInv, TypeOK
<1>5. Cardinality(Missed') + Cardinality(passed' \ Still') + Cardinality(Still' \ Now') <= removals'
  BY <1>3, <1>4
<1> QED
  BY <1>5 DEF LossesAreCounted

(* A statement that takes v away costs one. *)
LEMMA OneLoss ==
    ASSUME TypeInv, TypeInv', LossesAreCounted, Walking, UNCHANGED <<passed, seen, stayed>>, NEW v \in Ids,
           Still' \subseteq Still, Still \subseteq Still' \cup {v}, Now \subseteq Now' \cup {v},
           removals' = removals + 1
    PROVE  LossesAreCounted'
<1>1. Missed' = Missed
  BY DEF Missed, Below
<1>2. Missed \in SUBSET Ids /\ passed \ Still \in SUBSET Ids /\ Still \ Now \in SUBSET Ids
  BY WalkSets DEF TypeInv, TypeOK
<1>3. /\ Cardinality(Missed) + Cardinality(passed \ Still) + Cardinality(Still \ Now) <= removals
      /\ removals \in Nat /\ Cardinality(Missed) \in Nat
  BY <1>2, IdsAreFinite DEF LossesAreCounted, TypeInv, TypeOK
<1>4. CASE v \in Still'
  <2>1. passed' \ Still' \subseteq passed \ Still /\ Still' \ Now' \subseteq (Still \ Now) \cup {v}
    BY <1>4
  <2>2. /\ Cardinality(passed' \ Still') <= Cardinality(passed \ Still) /\ Cardinality(passed' \ Still') \in Nat
        /\ Cardinality(Still' \ Now') <= Cardinality(Still \ Now) + 1 /\ Cardinality(Still' \ Now') \in Nat
        /\ Cardinality(passed \ Still) \in Nat /\ Cardinality(Still \ Now) \in Nat
    BY <1>2, <2>1, FewerIds, OneIdMore
  <2>3. Cardinality(Missed') + Cardinality(passed' \ Still') + Cardinality(Still' \ Now') <= removals'
    BY <1>1, <1>3, <2>2
  <2> QED
    BY <2>3 DEF LossesAreCounted
<1>5. CASE v \notin Still'
  <2>1. passed' \ Still' \subseteq (passed \ Still) \cup {v} /\ Still' \ Now' \subseteq Still \ Now
    BY <1>5
  <2>2. /\ Cardinality(passed' \ Still') <= Cardinality(passed \ Still) + 1
        /\ Cardinality(passed' \ Still') \in Nat
        /\ Cardinality(Still' \ Now') <= Cardinality(Still \ Now) /\ Cardinality(Still' \ Now') \in Nat
        /\ Cardinality(passed \ Still) \in Nat /\ Cardinality(Still \ Now) \in Nat
    BY <1>2, <2>1, FewerIds, OneIdMore
  <2>3. Cardinality(Missed') + Cardinality(passed' \ Still') + Cardinality(Still' \ Now') <= removals'
    BY <1>1, <1>3, <2>2
  <2> QED
    BY <2>3 DEF LossesAreCounted
<1> QED
  BY <1>4, <1>5

LEMMA GainsKept ==
    ASSUME TypeInv, TypeInv', GainsAreCounted, Walking, UNCHANGED <<passed, seen>>,
           Still' \subseteq Still, Late' \subseteq Late, arrivals <= arrivals'
    PROVE  GainsAreCounted'
<1>1. Twices' = Twices /\ Pushed' \subseteq Pushed /\ Again' \subseteq Again
  BY DEF Twices, Pushed, Again, Below
<1>2. Twices \in SUBSET Ids /\ Pushed \in SUBSET Ids /\ Again \in SUBSET Ids /\ Late \in SUBSET Ids
  BY WalkSets DEF TypeInv
<1>3. /\ Cardinality(Pushed') <= Cardinality(Pushed) /\ Cardinality(Pushed') \in Nat
      /\ Cardinality(Again') <= Cardinality(Again) /\ Cardinality(Again') \in Nat
      /\ Cardinality(Late') <= Cardinality(Late) /\ Cardinality(Late') \in Nat
      /\ Cardinality(Pushed) \in Nat /\ Cardinality(Again) \in Nat /\ Cardinality(Late) \in Nat
      /\ Cardinality(Twices) \in Nat
  BY <1>1, <1>2, FewerIds
<1>4. /\ Cardinality(Twices) + Cardinality(Pushed) + Cardinality(Again) + Cardinality(Late) <= arrivals
      /\ arrivals \in Nat /\ arrivals' \in Nat
  BY DEF GainsAreCounted, TypeInv, TypeOK
<1>5. Cardinality(Twices') + Cardinality(Pushed') + Cardinality(Again') + Cardinality(Late') <= arrivals'
  BY <1>1, <1>3, <1>4
<1> QED
  BY <1>5 DEF GainsAreCounted

(* A row of m adds one: m is in this request's items or comes later. *)
LEMMA OneGain ==
    ASSUME TypeInv, TypeInv', GainsAreCounted, Walking, UNCHANGED <<passed, seen>>, NEW m \in Ids,
           \/ Still' \subseteq Still /\ Late' \subseteq Late \cup {m}
           \/ Still' \subseteq Still \cup {m} /\ Late' \subseteq Late,
           arrivals' = arrivals + 1
    PROVE  GainsAreCounted'
<1>1. Twices' = Twices /\ Below' = Below
  BY DEF Twices, Below
<1>2. Twices \in SUBSET Ids /\ Pushed \in SUBSET Ids /\ Again \in SUBSET Ids /\ Late \in SUBSET Ids
  BY WalkSets DEF TypeInv
<1>3. /\ Cardinality(Twices) + Cardinality(Pushed) + Cardinality(Again) + Cardinality(Late) <= arrivals
      /\ arrivals \in Nat /\ Cardinality(Twices) \in Nat
  BY <1>2, IdsAreFinite DEF GainsAreCounted, TypeInv, TypeOK
<1>4. \/ Pushed' \subseteq Pushed /\ Again' \subseteq Again /\ Late' \subseteq Late \cup {m}
      \/ Pushed' \subseteq Pushed \cup {m} /\ Again' \subseteq Again /\ Late' \subseteq Late
      \/ Pushed' \subseteq Pushed /\ Again' \subseteq Again \cup {m} /\ Late' \subseteq Late
  <2>1. CASE m \in Below
    BY <1>1, <2>1 DEF Pushed, Again
  <2>2. CASE m \notin Below
    BY <1>1, <2>2 DEF Pushed, Again
  <2> QED
    BY <2>1, <2>2
<1>5. Cardinality(Pushed') + Cardinality(Again') + Cardinality(Late')
         <= Cardinality(Pushed) + Cardinality(Again) + Cardinality(Late) + 1
      /\ Cardinality(Pushed') \in Nat /\ Cardinality(Again') \in Nat /\ Cardinality(Late') \in Nat
      /\ Cardinality(Pushed) \in Nat /\ Cardinality(Again) \in Nat /\ Cardinality(Late) \in Nat
  <2>1. CASE Pushed' \subseteq Pushed /\ Again' \subseteq Again /\ Late' \subseteq Late \cup {m}
    BY <1>2, <2>1, FewerIds, OneIdMore
  <2>2. CASE Pushed' \subseteq Pushed \cup {m} /\ Again' \subseteq Again /\ Late' \subseteq Late
    BY <1>2, <2>2, FewerIds, OneIdMore
  <2>3. CASE Pushed' \subseteq Pushed /\ Again' \subseteq Again \cup {m} /\ Late' \subseteq Late
    BY <1>2, <2>3, FewerIds, OneIdMore
  <2> QED
    BY <1>4, <2>1, <2>2, <2>3
<1>6. Cardinality(Twices') + Cardinality(Pushed') + Cardinality(Again') + Cardinality(Late') <= arrivals'
  BY <1>1, <1>3, <1>5
<1> QED
  BY <1>6 DEF GainsAreCounted

(* What a statement adds or takes of one message. *)
Adds(m) ==
    /\ messages \subseteq messages' /\ messages' \subseteq messages \cup {m}
    /\ inbound \subseteq inbound' /\ inbound' \subseteq inbound \cup {m}
    /\ outbound \subseteq outbound' /\ \A r \in outbound' \ outbound : r.msg = m
    /\ inbound' = inbound \/ outbound' = outbound
    /\ messages' # messages => m \notin ids /\ m \notin inbound /\ \A r \in outbound : r.msg # m

Takes(v) ==
    /\ messages' \subseteq messages /\ messages \subseteq messages' \cup {v}
    /\ inbound' \subseteq inbound /\ inbound \subseteq inbound' \cup {v}
    /\ outbound' \subseteq outbound /\ \A r \in outbound \ outbound' : r.msg = v

LEMMA AddsToWalk ==
    ASSUME TypeInv, StageFits, Walking, UNCHANGED <<read, query, ids, items>>, NEW m \in Ids, Adds(m)
    PROVE  /\ Now \subseteq Now' /\ Still \subseteq Still' /\ Still' \ Now' \subseteq Still \ Now
           /\ \/ Still' \subseteq Still /\ Late' \subseteq Late \cup {m}
              \/ Still' \subseteq Still \cup {m} /\ Late' \subseteq Late
<1>1. Now \subseteq Now' /\ Now' \subseteq Now \cup {m}
  BY DEF Now, Listed, Adds
<1>2. CASE read = "get"
  <2>1. Still' = Still
    BY <1>2 DEF Still, Adds
  <2> QED
    BY <1>1, <1>2, <2>1 DEF Late
<1>3. CASE read = "sent"
  <2>1. Still \subseteq Still'
    BY <1>3 DEF Still, Adds
  <2>2. Still' \ Now' \subseteq Still \ Now
    BY <1>1, <1>3 DEF Still, Now, Listed, StageFits, Adds
  <2>3. CASE outbound' = outbound
    <3>1. Still' \subseteq Still
      BY <1>3, <2>3 DEF Still, Adds
    <3>2. Late' \subseteq Late \cup {m}
      BY <1>3 DEF Late, Adds
    <3> QED
      BY <1>1, <2>1, <2>2, <3>1, <3>2
  <2>4. CASE inbound' = inbound
    <3>1. Still' \subseteq Still \cup {m}
      BY <1>3 DEF Still, Adds
    <3>2. Late' \subseteq Late
      BY <1>3, <2>4 DEF Late, Adds
    <3> QED
      BY <1>1, <2>1, <2>2, <3>1, <3>2
  <2> QED
    BY <2>3, <2>4 DEF Adds
<1>4. CASE read = "inbox"
  <2>1. Still = Now /\ Still' = Now' /\ Late' = {}
    BY <1>4 DEF Still, Late
  <2> QED
    BY <1>1, <2>1
<1> QED
  BY <1>2, <1>3, <1>4 DEF Walking, TypeInv, TypeOK

LEMMA TakesFromWalk ==
    ASSUME TypeInv, Walking, UNCHANGED <<read, query, ids, items>>, NEW v, Takes(v)
    PROVE  /\ Still' \subseteq Still /\ Still \subseteq Still' \cup {v}
           /\ Now \subseteq Now' \cup {v} /\ Late' \subseteq Late
<1>1. Now' \subseteq Now /\ Now \subseteq Now' \cup {v}
  BY DEF Now, Listed, Takes
<1>2. CASE read = "get"
  <2>1. Still' \subseteq Still /\ Still \subseteq Still' \cup {v}
    BY <1>2 DEF Still, Takes
  <2>2. Late' \subseteq Late
    BY <1>1, <1>2 DEF Late, Still, Now, Listed, Takes
  <2> QED
    BY <1>1, <2>1, <2>2
<1>3. CASE read = "sent"
  <2>1. Still' \subseteq Still /\ Still \subseteq Still' \cup {v}
    BY <1>3 DEF Still, Takes
  <2>2. Late' \subseteq Late
    BY <1>3 DEF Late, Takes
  <2> QED
    BY <1>1, <2>1, <2>2
<1>4. CASE read = "inbox"
  BY <1>1, <1>4 DEF Still, Late
<1> QED
  BY <1>2, <1>3, <1>4 DEF Walking, TypeInv, TypeOK

-----------------------------------------------------------------------------
(* The steps keep the counts *)

(* What a step between two answers has to show. *)
LEMMA StatementKeeps ==
    ASSUME TypeInv, TypeInv', CompleteInv, UNCHANGED <<read, query, ids, items, seen, passed>>,
           stayed' \subseteq stayed, del' # "idle" => victim' \notin stayed',
           removals <= removals', arrivals <= arrivals',
           Walking => LossesAreCounted' /\ GainsAreCounted' /\ stayed' \subseteq Now' /\ stayed' \subseteq Still'
    PROVE  CompleteInv'
<1>1. Walking' <=> Walking
  BY DEF Walking
<1>2. LossesAreCounted' /\ GainsAreCounted'
  BY <1>1 DEF LossesAreCounted, GainsAreCounted
<1>3. StayedIsListed'
  BY <1>1 DEF StayedIsListed
<1>4. PassedIsOffset' /\ StageFits'
  BY <1>1 DEF CompleteInv, PassedIsOffset, StageFits
<1>5. WalkIsComplete'
  <2> DEFINE U == {m \in stayed : seen[m] = 0}
  <2> SUFFICES ASSUME read = "done"
               PROVE  Cardinality({m \in stayed' : seen'[m] = 0}) <= removals' /\ Duplicates' <= arrivals'
    BY DEF WalkIsComplete
  <2>1. {m \in stayed' : seen'[m] = 0} \subseteq U /\ U \in SUBSET Ids
    BY DEF TypeInv, TypeOK
  <2>2. Duplicates' = Duplicates /\ Duplicates \in Nat
    BY IdsAreFinite DEF Duplicates
  <2>3. Cardinality(U) <= removals /\ Duplicates <= arrivals
    BY DEF CompleteInv, WalkIsComplete
  <2>4. removals \in Nat /\ removals' \in Nat /\ arrivals \in Nat /\ arrivals' \in Nat
    BY DEF TypeInv, TypeOK
  <2> HIDE DEF U
  <2>5. /\ Cardinality({m \in stayed' : seen'[m] = 0}) <= Cardinality(U) /\ Cardinality(U) \in Nat
        /\ Cardinality({m \in stayed' : seen'[m] = 0}) \in Nat
    BY <2>1, FewerIds
  <2> QED
    BY <2>2, <2>3, <2>4, <2>5
<1> QED
  BY <1>2, <1>3, <1>4, <1>5 DEF CompleteInv

(* A statement that adds to the tables. *)
LEMMA AddingStatement ==
    ASSUME TypeInv, TypeInv', CompleteInv, UNCHANGED <<delVars, readVars>>, Watch, NEW m \in Ids, Adds(m)
    PROVE  CompleteInv'
<1>1. /\ UNCHANGED <<read, query, ids, items, seen, passed, stayed, del, victim>>
      /\ removals \in Nat /\ arrivals \in Nat
  BY DEF delVars, readVars, Watch, TypeInv, TypeOK
<1>2. removals' = removals
  BY DEF Watch, Adds
<1>3. /\ arrivals' = arrivals \/ arrivals' = arrivals + 1
      /\ Walking /\ ~(inbound' = inbound /\ outbound' = outbound) => arrivals' = arrivals + 1
  BY DEF Watch, Adds
<1>4. ASSUME Walking
      PROVE  LossesAreCounted' /\ GainsAreCounted' /\ stayed' \subseteq Now' /\ stayed' \subseteq Still'
  <2>1. /\ Now \subseteq Now' /\ Still \subseteq Still' /\ Still' \ Now' \subseteq Still \ Now
        /\ \/ Still' \subseteq Still /\ Late' \subseteq Late \cup {m}
           \/ Still' \subseteq Still \cup {m} /\ Late' \subseteq Late
    BY <1>1, <1>4, AddsToWalk DEF CompleteInv
  <2>2. stayed' \subseteq Now' /\ stayed' \subseteq Still'
    BY <1>1, <1>4, <2>1 DEF CompleteInv, StayedIsListed
  <2>3. LossesAreCounted'
    BY <1>1, <1>2, <1>4, <2>1, LossesKept DEF CompleteInv
  <2>4. CASE inbound' = inbound /\ outbound' = outbound
    <3>1. Now' = Now
      BY <1>1, <2>4 DEF Now, Listed, Adds
    <3>2. Still' = Still
      BY <1>1, <2>4, <3>1 DEF Still, Adds
    <3>3. Late' \subseteq Late
      BY <1>1, <2>4, <3>1, <3>2 DEF Late, Adds
    <3> QED
      BY <1>1, <1>3, <1>4, <2>2, <2>3, <3>2, <3>3, GainsKept DEF CompleteInv
  <2>5. CASE ~(inbound' = inbound /\ outbound' = outbound)
    <3>1. arrivals' = arrivals + 1
      BY <1>3, <1>4, <2>5
    <3>2. GainsAreCounted'
      BY <1>1, <1>4, <2>1, <3>1, OneGain DEF CompleteInv
    <3> QED
      BY <2>2, <2>3, <3>2
  <2> QED
    BY <2>4, <2>5
<1>5. del' # "idle" => victim' \notin stayed'
  BY <1>1 DEF CompleteInv, StayedIsListed
<1>6. removals <= removals' /\ arrivals <= arrivals' /\ stayed' \subseteq stayed
  BY <1>1, <1>2, <1>3
<1> QED
  BY <1>1, <1>4, <1>5, <1>6, StatementKeeps

(* A statement of delete_message. *)
LEMMA TakingStatement ==
    ASSUME TypeInv, TypeInv', CompleteInv, UNCHANGED readVars, Watch, Takes(victim),
           del # "idle", del' # "idle" => victim' = victim
    PROVE  CompleteInv'
<1>1. /\ UNCHANGED <<read, query, ids, items, seen, passed, stayed>>
      /\ removals \in Nat /\ arrivals \in Nat /\ victim \notin stayed
  BY DEF readVars, Watch, TypeInv, TypeOK, CompleteInv, StayedIsListed
<1>2. arrivals' = arrivals
  BY DEF Watch, Takes
<1>3. /\ removals' = removals \/ removals' = removals + 1
      /\ Walking /\ ~UNCHANGED <<messages, inbound, outbound>> => removals' = removals + 1
  BY DEF Watch, Takes
<1>4. ASSUME Walking
      PROVE  LossesAreCounted' /\ GainsAreCounted' /\ stayed' \subseteq Now' /\ stayed' \subseteq Still'
  <2>1. /\ Still' \subseteq Still /\ Still \subseteq Still' \cup {victim}
        /\ Now \subseteq Now' \cup {victim} /\ Late' \subseteq Late
    BY <1>1, <1>4, TakesFromWalk
  <2>2. stayed' \subseteq Now' /\ stayed' \subseteq Still'
    BY <1>1, <1>4, <2>1 DEF CompleteInv, StayedIsListed
  <2>3. GainsAreCounted'
    BY <1>1, <1>2, <1>4, <2>1, GainsKept DEF CompleteInv
  <2>4. CASE UNCHANGED <<messages, inbound, outbound>>
    <3>1. Now' = Now
      BY <1>1, <2>4 DEF Now
    <3>2. Still' = Still
      BY <1>1, <2>4, <3>1 DEF Still
    <3>3. LossesAreCounted'
      BY <1>1, <1>3, <1>4, <3>1, <3>2, LossesKept DEF CompleteInv
    <3> QED
      BY <2>2, <2>3, <3>3
  <2>5. CASE ~UNCHANGED <<messages, inbound, outbound>>
    <3>1. removals' = removals + 1
      BY <1>3, <1>4, <2>5
    <3>2. victim \in Ids
      <4>1. messages \subseteq Ids /\ inbound \subseteq Ids /\ \A r \in outbound : r.msg \in Ids
        BY DEF TypeInv, TypeOK
      <4>2. messages' # messages \/ inbound' # inbound \/ outbound' # outbound
        BY <2>5
      <4>3. CASE messages' # messages
        BY <4>1, <4>3 DEF Takes
      <4>4. CASE inbound' # inbound
        BY <4>1, <4>4 DEF Takes
      <4>5. CASE outbound' # outbound
        <5>1. PICK r \in outbound : r \notin outbound'
          BY <4>5 DEF Takes
        <5> QED
          BY <4>1, <5>1 DEF Takes
      <4> QED
        BY <4>2, <4>3, <4>4, <4>5
    <3>3. LossesAreCounted'
      BY <1>1, <1>4, <2>1, <3>1, <3>2, OneLoss DEF CompleteInv
    <3> QED
      BY <2>2, <2>3, <3>3
  <2> QED
    BY <2>4, <2>5
<1>5. del' # "idle" => victim' \notin stayed'
  BY <1>1
<1>6. removals <= removals' /\ arrivals <= arrivals' /\ stayed' \subseteq stayed
  BY <1>1, <1>2, <1>3
<1> QED
  BY <1>1, <1>4, <1>5, <1>6, StatementKeeps

(* A step that leaves the tables and the reader alone. *)
LEMMA TablesUnchanged ==
    ASSUME TypeInv, TypeInv', CompleteInv,
           UNCHANGED <<dbVars, readVars, pages, seen, passed, removals, arrivals>>,
           stayed' \subseteq stayed, del' # "idle" => victim' \notin stayed'
    PROVE  CompleteInv'
<1>1. UNCHANGED <<messages, inbound, outbound, read, query, ids, items, seen, passed, removals, arrivals>>
  BY DEF dbVars, readVars
<1>2. Now' = Now
  BY <1>1 DEF Now
<1>3. Still' = Still
  BY <1>1, <1>2 DEF Still
<1>4. Late' = Late
  BY <1>1, <1>2, <1>3 DEF Late
<1>5. removals \in Nat /\ arrivals \in Nat /\ removals <= removals' /\ arrivals <= arrivals'
  BY <1>1 DEF TypeInv, TypeOK
<1>6. ASSUME Walking
      PROVE  LossesAreCounted' /\ GainsAreCounted' /\ stayed' \subseteq Now' /\ stayed' \subseteq Still'
  <2>1. LossesAreCounted'
    BY <1>1, <1>2, <1>3, <1>5, <1>6, LossesKept DEF CompleteInv
  <2>2. GainsAreCounted'
    BY <1>1, <1>3, <1>4, <1>5, <1>6, GainsKept DEF CompleteInv
  <2> QED
    BY <1>2, <1>3, <1>6, <2>1, <2>2 DEF CompleteInv, StayedIsListed
<1> QED
  BY <1>1, <1>5, <1>6, StatementKeeps

LEMMA CompleteSend ==
    ASSUME TypeInv, TypeInv', CompleteInv, Send
    PROVE  CompleteInv'
<1>1. CASE send_email \/ send_fails
  <2>1. UNCHANGED <<dbVars, readVars, pages, seen, passed, stayed, removals, arrivals, del, victim>>
    BY <1>1 DEF send_email, send_fails, walkVars, delVars
  <2> QED
    BY <2>1, TablesUnchanged DEF CompleteInv, StayedIsListed
<1>2. CASE store_message
  <2>1. lastId' \in Ids /\ lastId' \notin Issued
    BY <1>2, NextId DEF store_message, Issued, TypeInv, TypeOK, Ids
  <2>2. lastId' \notin ids /\ lastId' \notin inbound /\ \A r \in outbound : r.msg # lastId'
    BY <2>1 DEF TypeInv, IdsAreIssued
  <2>3. Adds(lastId')
    BY <1>2, <2>2 DEF store_message, Adds
  <2> QED
    BY <1>2, <2>1, <2>3, AddingStatement DEF store_message
<1>3. CASE enqueue
  <2>1. msg \in Ids
    BY <1>3, ConstantsAssumption DEF enqueue, TypeInv, TypeOK, IdsAreIssued, Issued, Ids
  <2>2. PICK i \in todo : outbound' = outbound \cup {[msg |-> msg, at |-> i]}
    BY <1>3 DEF enqueue
  <2>3. \A r \in outbound' \ outbound : r.msg = msg
    BY <2>2
  <2>4. Adds(msg)
    BY <1>3, <2>2, <2>3 DEF enqueue, Adds
  <2> QED
    BY <1>3, <2>1, <2>4, AddingStatement DEF enqueue
<1> QED
  BY <1>1, <1>2, <1>3 DEF Send

LEMMA CompleteMail ==
    ASSUME TypeInv, TypeInv', CompleteInv, Mail
    PROVE  CompleteInv'
<1>1. CASE receive
  <2>1. lastId' \in Ids /\ lastId' \notin Issued
    BY <1>1, NextId DEF receive, Issued, TypeInv, TypeOK, Ids
  <2>2. lastId' \notin ids /\ lastId' \notin inbound /\ \A r \in outbound : r.msg # lastId'
    BY <2>1 DEF TypeInv, IdsAreIssued
  <2>3. Adds(lastId')
    BY <1>1, <2>2 DEF receive, Adds
  <2> QED
    BY <1>1, <2>1, <2>3, AddingStatement DEF receive
<1>2. ASSUME NEW m \in Ids, link_known(m) PROVE CompleteInv'
  <2>1. Adds(m)
    BY <1>2 DEF link_known, Adds
  <2> QED
    BY <1>2, <2>1, AddingStatement DEF link_known
<1>3. ASSUME NEW m \in Ids, delete_message(m) PROVE CompleteInv'
  <2>1. victim' \notin stayed' /\ stayed' \subseteq stayed
    BY <1>3 DEF delete_message
  <2> QED
    BY <1>3, <2>1, TablesUnchanged DEF delete_message
<1>4. CASE delete_inbound
  <2>1. Takes(victim)
    BY <1>4 DEF delete_inbound, Takes
  <2> QED
    BY <1>4, <2>1, TakingStatement DEF delete_inbound
<1>5. CASE delete_outbound
  <2>1. Takes(victim)
    BY <1>5 DEF delete_outbound, Takes
  <2> QED
    BY <1>5, <2>1, TakingStatement DEF delete_outbound
<1>6. CASE delete_row
  <2>1. Takes(victim)
    BY <1>6 DEF delete_row, Takes
  <2> QED
    BY <1>6, <2>1, TakingStatement DEF delete_row
<1>7. CASE delete_fails
  BY <1>7, TablesUnchanged DEF delete_fails, walkVars
<1> QED
  BY <1>1, <1>2, <1>3, <1>4, <1>5, <1>6, <1>7 DEF Mail

(* The first request of a walk. *)
LEMMA CompleteBegins ==
    ASSUME TypeInv, TypeInv', CompleteInv, NEW e \in Directions, NEW n \in Nat, FirstPage(e, n)
    PROVE  CompleteInv'
<1>1. /\ query' = [direction |-> e, limit |-> n, offset |-> 0]
      /\ read' = IF WantIn(e) THEN "inbox" ELSE "sent"
      /\ ids' = {} /\ items' = {}
      /\ UNCHANGED <<messages, inbound, outbound, seen, passed, removals, arrivals, del, victim>>
      /\ passed' = {} /\ (\A m \in Ids : seen'[m] = 0)
      /\ stayed' = Now' \ {victim}
  BY DEF FirstPage, Ask, CompleteInv, PassedIsOffset, dbVars, delVars, Now
<1>2. Still' = Now' /\ Late' = {}
  <2>1. CASE WantIn(e)
    BY <1>1, <2>1 DEF Still, Late
  <2>2. CASE ~WantIn(e)
    <3>1. read' = "sent" /\ e = "outbound" /\ query'.direction = e
      BY <1>1, <2>2 DEF WantIn
    <3> QED
      BY <1>1, <3>1 DEF Still, Late, Now, Listed, WantIn, WantOut
  <2> QED
    BY <2>1, <2>2
<1>3. /\ Missed' = {} /\ passed' \ Still' = {} /\ Still' \ Now' = {}
      /\ Twices' = {} /\ Pushed' = {} /\ Again' = {}
  BY <1>1, <1>2, WalkSetsNext DEF TypeInv, Missed, Below, Twices, Pushed, Again
<1>4. removals' \in Nat /\ arrivals' \in Nat /\ Cardinality({}) = 0
  BY FS_EmptySet DEF TypeInv, TypeOK
<1>5. LossesAreCounted' /\ GainsAreCounted'
  BY <1>2, <1>3, <1>4 DEF LossesAreCounted, GainsAreCounted
<1>6. StayedIsListed'
  BY <1>1, <1>2 DEF StayedIsListed
<1>7. PassedIsOffset'
  BY <1>1, <1>4 DEF PassedIsOffset
<1>8. StageFits'
  BY <1>1 DEF StageFits, WantIn, WantOut
<1>9. WalkIsComplete'
  BY <1>1 DEF WalkIsComplete
<1> QED
  BY <1>5, <1>6, <1>7, <1>8, <1>9 DEF CompleteInv

(* A statement of a request fixes more of what its items will be. *)
LEMMA CompleteLoads ==
    ASSUME TypeInv, TypeInv', CompleteInv, load_inbound \/ load_outbound \/ load_message
    PROVE  CompleteInv'
<1>1. /\ UNCHANGED <<messages, inbound, outbound, query, seen, passed, stayed, removals, arrivals, del, victim>>
      /\ removals \in Nat /\ arrivals \in Nat
  BY DEF load_inbound, load_outbound, load_message, dbVars, delVars, walkVars, TypeInv, TypeOK
<1>2. Walking /\ Walking' /\ Now' = Now
  BY <1>1 DEF load_inbound, load_outbound, load_message, Walking, Now
<1>3. /\ Still' = Still /\ Late' \subseteq Late
      /\ StageFits'
  <2>1. CASE load_inbound
    <3>1. read = "inbox" /\ ids' = inbound /\ items' = {} /\ WantIn(query.direction)
      BY <2>1 DEF load_inbound, CompleteInv, StageFits
    <3>2. CASE WantOut(query.direction)
      <4>1. read' = "sent"
        BY <2>1, <3>2 DEF load_inbound
      <4> QED
        BY <1>1, <3>1, <3>2, <4>1 DEF Still, Late, Now, Listed, StageFits
    <3>3. CASE ~WantOut(query.direction)
      <4>1. read' = "get"
        BY <2>1, <3>3 DEF load_inbound
      <4> QED
        BY <1>1, <3>1, <3>3, <4>1 DEF Still, Late, Now, Listed, StageFits
    <3> QED
      BY <3>2, <3>3
  <2>2. CASE load_outbound
    <3>1. /\ read = "sent" /\ ids' = ids \cup {r.msg : r \in outbound} /\ items' = {} /\ read' = "get"
          /\ WantOut(query.direction)
      BY <2>2 DEF load_outbound, CompleteInv, StageFits
    <3>2. Still' = Still
      BY <1>1, <3>1 DEF Still
    <3>3. Late' \subseteq Late
      BY <1>1, <3>1 DEF Late, Still, Now, Listed
    <3> QED
      BY <3>1, <3>2, <3>3 DEF StageFits
  <2>3. CASE load_message
    <3>1. PICK m \in ids : /\ items' = IF m \in messages THEN items \cup {m} ELSE items
                           /\ ids' = ids \ {m}
      BY <2>3 DEF load_message
    <3>2. read = "get" /\ read' = "get"
      BY <2>3 DEF load_message
    <3>3. Still' = Still
      BY <1>1, <3>1, <3>2 DEF Still
    <3> QED
      BY <1>2, <3>2, <3>3 DEF Late, StageFits
  <2> QED
    BY <2>1, <2>2, <2>3
<1>4. LossesAreCounted'
  BY <1>1, <1>2, <1>3, LossesKept DEF CompleteInv
<1>5. GainsAreCounted'
  BY <1>1, <1>2, <1>3, GainsKept DEF CompleteInv
<1>6. StayedIsListed'
  BY <1>1, <1>2, <1>3 DEF CompleteInv, StayedIsListed
<1>7. PassedIsOffset' /\ WalkIsComplete'
  BY <1>1, <1>2 DEF CompleteInv, PassedIsOffset, WalkIsComplete, Walking
<1> QED
  BY <1>3, <1>4, <1>5, <1>6, <1>7 DEF CompleteInv

LEMMA CompleteNext ==
    ASSUME TypeInv, TypeInv', CompleteInv, [Next]_vars
    PROVE  CompleteInv'
<1>1. CASE page
  BY <1>1, PageBeforeAnother, PageIsLast
<1>2. CASE Send \/ Mail
  BY <1>2, CompleteSend, CompleteMail
<1>3. CASE load_inbound \/ load_outbound \/ load_message
  BY <1>3, CompleteLoads
<1>4. CASE \E e \in Directions, n \in Nat : FirstPage(e, n)
  BY <1>4, CompleteBegins
<1>5. CASE UNCHANGED vars
  BY <1>5, TablesUnchanged DEF vars, walkVars, delVars, CompleteInv, StayedIsListed
<1> QED
  BY <1>1, <1>2, <1>3, <1>4, <1>5, ReadsOrBegins DEF Next, Load

LEMMA CompleteInvariant == Spec => []CompleteInv
<1>1. Init => CompleteInv
  BY DEF Init, CompleteInv, LossesAreCounted, GainsAreCounted, StayedIsListed, PassedIsOffset, StageFits,
         WalkIsComplete, Walking
<1>2. TypeInv /\ TypeInv' /\ CompleteInv /\ [Next]_vars => CompleteInv'
  BY CompleteNext
<1> QED
  BY <1>1, <1>2, TypeInvariant, PTL DEF Spec

(* A reader misses at most as many of the messages that stayed as statements *)
(* took rows away while it read, and gets at most as many twice as           *)
(* statements added rows: however many messages there are, whatever the      *)
(* limit, and wherever between the statements of a request these fall.       *)
THEOREM WalksAreComplete == Spec => []WalkIsComplete
BY CompleteInvariant, PTL DEF CompleteInv
=============================================================================
