-------------------------- MODULE ZoneRecordsProofs --------------------------
(***************************************************************************)
(* Proofs about ZoneRecords, for any number of concurrent requests, any    *)
(* domains, spellings and records, and any configured seeds.               *)
(***************************************************************************)
EXTENDS ZoneRecords, TLAPS

(* The unique index: one row for a domain, type and value. *)
IndexHolds ==
    \A x, y \in records : x.domain = y.domain /\ x.value = y.value => x = y

(* The primary key of a row. *)
IdsDiffer == \A x, y \in records : x.id = y.id => x = y

(* What the boot under way is done with is stored; nothing is deleted before *)
(* it ends.                                                                  *)
SeededSoFar ==
    boot = "seeding" =>
        /\ SeedDomains \ todo.domains \subseteq domains
        /\ SeedRecords \ todo.records \subseteq {ContentOf(x) : x \in records}

(* Requests are under way only in a daemon that has finished seeding. *)
ServedWhenUp == boot # "up" => \A r \in Requests : pc[r] = "idle"

(* No two contents answered 200 differ in their ttl only. *)
ConfirmedOnce ==
    \A c, e \in confirmed : c.domain = e.domain /\ c.value = e.value => c = e

IInv ==
    /\ TypeOK
    /\ OrphansExplained
    /\ LosersFindTheWinner
    /\ ConfirmedIsStored
    /\ SeededSoFar
    /\ IdsDiffer
    /\ IndexHolds
    /\ ServedWhenUp

RecordRow == [id : RecordIds, domain : Domains, value : Values, ttl : Ttls]

LEMMA BlankType == Blank \in Content
  BY ConstantsAssumption DEF Blank

(* A row that is written says the content it is written for. *)
LEMMA RowType ==
  ASSUME NEW i \in RecordIds, NEW c \in Content
  PROVE  /\ Row(i, c) \in RecordRow
         /\ Row(i, c).id = i /\ Row(i, c).domain = c.domain /\ Row(i, c).value = c.value
         /\ ContentOf(Row(i, c)) = c
  BY DEF Row, RecordRow, Content, ContentOf

(* Before the first boot there is nothing. *)
LEMMA ZoneRecordsInit == Init => IInv
<1> SUFFICES ASSUME Init PROVE IInv
  OBVIOUS
<1>1. TypeOK
  BY BlankType, ConstantsAssumption DEF Init, TypeOK, Seeds
<1> QED
  BY <1>1 DEF Init, Seeds, IInv, OrphansExplained, LosersFindTheWinner, ConfirmedIsStored,
     SeededSoFar, IdsDiffer, IndexHolds, ServedWhenUp

-----------------------------------------------------------------------------
(* The rows with an id outside S are kept, so are the ids unique and the     *)
(* orphans explained, when a row with a free id and a free place in the      *)
(* index is added: the insert of a seed or of a request.                     *)
LEMMA InsertKeeps ==
  ASSUME IInv, NEW c \in Content, NEW i \in Fresh, Matches(c) = {},
         records' = records \cup {Row(i, c)}
  PROVE  /\ records' \in SUBSET RecordRow /\ i \in RecordIds
         /\ IdsDiffer'
         /\ IndexHolds'
         /\ c \in {ContentOf(x) : x \in records'}
         /\ {ContentOf(x) : x \in records} \subseteq {ContentOf(x) : x \in records'}
<1>1. i \in RecordIds /\ \A x \in records : x.id # i
  BY DEF Fresh
<1>2. /\ Row(i, c) \in RecordRow
      /\ Row(i, c).id = i /\ Row(i, c).domain = c.domain /\ Row(i, c).value = c.value
      /\ ContentOf(Row(i, c)) = c
  BY <1>1, RowType
<1>3. records \in SUBSET RecordRow
  BY DEF IInv, TypeOK, RecordRow
<1> QED
  BY <1>1, <1>2, <1>3 DEF IInv, IdsDiffer, IndexHolds, Matches

(* The boot writes what is configured.  A domain is given up as done only    *)
(* when it is stored: a failed lookup counts as no row.                      *)
LEMMA SeedingStep ==
  ASSUME IInv, Seeding
  PROVE  IInv'
<1> USE DEF IInv, requestVars, obsVars, dbVars
<1>0. /\ todo.domains \in SUBSET SeedDomains /\ todo.records \in SUBSET SeedRecords
      /\ todo \in [domains : SUBSET SeedDomains, records : SUBSET SeedRecords]
  BY DEF TypeOK
<1>1. ASSUME NEW d \in SeedDomains, seed_domain(d) PROVE IInv'
  <2>1. /\ \/ domains' = domains \cup {d} /\ todo' = [todo EXCEPT !.domains = @ \ {d}] /\ boot' = boot
           \/ domains' = domains /\ todo' = todo /\ boot' = "refused"
        /\ boot = "seeding" /\ faults' \in Nat
        /\ UNCHANGED <<records, requestVars, uprooted, robbed, strays, confirmed>>
    BY <1>1 DEF seed_domain, domain_exists, Fault, TypeOK
  <2>2. TypeOK'
    BY <1>0, <2>1, ConstantsAssumption DEF TypeOK
  <2>3. SeededSoFar'
    BY <1>0, <2>1 DEF SeededSoFar
  <2> QED
    BY <2>1, <2>2, <2>3 DEF OrphansExplained, LosersFindTheWinner, ConfirmedIsStored,
       IdsDiffer, IndexHolds, ServedWhenUp, Rescan, Matches
<1>2. ASSUME NEW c \in SeedRecords, seed_record(c) PROVE IInv'
  <2>1. PICK i \in Fresh :
          /\ records' = records \cup {Row(i, c)}
          /\ strays' = IF c.domain \in domains THEN strays ELSE strays \cup {i}
    BY <1>2 DEF seed_record
  <2>2. /\ boot = "seeding" /\ Matches(c) = {} /\ todo' = [todo EXCEPT !.records = @ \ {c}]
        /\ UNCHANGED <<domains, boot, requestVars, uprooted, robbed, confirmed, faults>>
    BY <1>2 DEF seed_record
  <2>3. c \in Content
    BY ConstantsAssumption
  <2>4. /\ records' \in SUBSET RecordRow /\ i \in RecordIds
        /\ IdsDiffer'
        /\ IndexHolds'
        /\ c \in {ContentOf(x) : x \in records'}
        /\ {ContentOf(x) : x \in records} \subseteq {ContentOf(x) : x \in records'}
    BY <2>1, <2>2, <2>3, InsertKeeps
  <2>5. TypeOK'
    BY <1>0, <2>1, <2>2, <2>4 DEF TypeOK, RecordRow
  <2>6. OrphansExplained'
    <3>1. Row(i, c).id = i /\ Row(i, c).domain = c.domain
      BY <2>3, <2>4, RowType
    <3> QED
      BY <2>1, <2>2, <3>1 DEF OrphansExplained
  <2>7. LosersFindTheWinner' /\ ServedWhenUp'
    BY <2>1, <2>2 DEF LosersFindTheWinner, ServedWhenUp, Rescan, Matches
  <2>8. ConfirmedIsStored'
    BY <2>2, <2>4 DEF ConfirmedIsStored
  <2>9. SeededSoFar'
    <3>1. todo'.domains = todo.domains /\ todo'.records = todo.records \ {c}
      BY <1>0, <2>2
    <3> QED
      BY <2>2, <2>4, <3>1 DEF SeededSoFar
  <2> QED
    BY <2>4, <2>5, <2>6, <2>7, <2>8, <2>9
<1>3. ASSUME NEW c \in SeedRecords, seed_refused(c) PROVE IInv'
  <2>1. boot' = "refused" /\ Matches(c) # {} /\ UNCHANGED <<dbVars, todo, requestVars, obsVars>>
    BY <1>3 DEF seed_refused
  <2>2. boot = "seeding"
    BY <1>3 DEF seed_refused
  <2> QED
    BY <2>1, <2>2 DEF TypeOK, OrphansExplained, LosersFindTheWinner, ConfirmedIsStored,
       SeededSoFar, IdsDiffer, IndexHolds, ServedWhenUp, Rescan, Matches
<1>4. CASE seed_done \/ seed_fails \/ identity_fails
  <2>1. /\ boot = "seeding" /\ boot' \in {"up", "broken"} /\ faults' \in Nat
        /\ UNCHANGED <<dbVars, todo, requestVars, uprooted, robbed, strays, confirmed>>
    BY <1>4 DEF seed_done, seed_fails, identity_fails, Fault, TypeOK
  <2> QED
    BY <2>1 DEF TypeOK, OrphansExplained, LosersFindTheWinner, ConfirmedIsStored,
       SeededSoFar, IdsDiffer, IndexHolds, ServedWhenUp, Rescan, Matches
<1> QED
  BY <1>1, <1>2, <1>3, <1>4 DEF Seeding

(* A restart forgets the requests and keeps the rows. *)
LEMMA RestartStep ==
  ASSUME IInv, restart
  PROVE  IInv'
<1>1. /\ boot' = "seeding" /\ todo' = Seeds /\ uprooted' = {} /\ robbed' = {}
      /\ pc' = [r \in Requests |-> "idle"] /\ want' = [r \in Requests |-> Blank]
      /\ target' = [r \in Requests |-> NoId] /\ UNCHANGED <<domains, records, strays, confirmed>>
  BY DEF restart, dbVars
<1>2. faults' \in Nat
  BY DEF restart, Fault, IInv, TypeOK
<1>3. TypeOK'
  BY <1>1, <1>2, BlankType, ConstantsAssumption DEF IInv, TypeOK, Seeds
<1> QED
  BY <1>1, <1>3 DEF Seeds, IInv, OrphansExplained, LosersFindTheWinner, ConfirmedIsStored,
     SeededSoFar, IdsDiffer, IndexHolds, ServedWhenUp

-----------------------------------------------------------------------------
(* The state of one request moves on, and the database is left alone. *)
Moves(r) ==
    /\ UNCHANGED <<dbVars, bootVars, strays>>
    /\ pc' \in [Requests -> {"idle", "insert_domain", "resolve_domain", "scan", "insert", "resolve",
                             "validate", "collide", "update"}]
    /\ want' \in [Requests -> Content]
    /\ target' \in [Requests -> RecordIds \cup {NoId}]
    /\ \A q \in Requests \ {r} : pc'[q] = pc[q] /\ want'[q] = want[q]
    /\ uprooted' \in {uprooted, uprooted \ {r}}
    /\ robbed' \in {robbed, robbed \ {r}, robbed \cup {r}}
    /\ confirmed \subseteq confirmed' /\ confirmed' \subseteq confirmed \cup {ContentOf(x) : x \in records}
    /\ faults' \in Nat

(* What the request has to know at its next statement. *)
Arrives(r) ==
    /\ pc'[r] \in {"scan", "insert", "collide", "update"} =>
          want'[r].domain \in domains \/ r \in uprooted'
    /\ pc'[r] \in {"scan", "insert", "resolve"} =>
          want'[r].domain \in {Lower[d] : d \in Domains}
    /\ pc'[r] = "resolve" => Matches(want'[r]) # {} \/ r \in robbed'
    /\ pc'[r] = "resolve_domain" => want'[r].domain \in domains \/ r \in robbed'

LEMMA MoveKeeps ==
  ASSUME IInv, boot = "up", NEW r \in Requests, Moves(r), Arrives(r)
  PROVE  IInv'
<1> USE DEF IInv, Moves, dbVars, bootVars
<1>1. confirmed' \in SUBSET Content
  <2>1. \A x \in records : ContentOf(x) \in Content
    BY DEF TypeOK, ContentOf, Content
  <2> QED
    BY <2>1 DEF TypeOK
<1>2. TypeOK'
  BY <1>1 DEF TypeOK, Arrives
<1>3. OrphansExplained'
  BY DEF OrphansExplained, Arrives, TypeOK
<1>4. LosersFindTheWinner'
  BY DEF LosersFindTheWinner, Arrives, Rescan, Matches, TypeOK
<1>5. ConfirmedIsStored'
  BY DEF ConfirmedIsStored
<1>6. SeededSoFar' /\ IdsDiffer' /\ IndexHolds' /\ ServedWhenUp'
  BY DEF SeededSoFar, IdsDiffer, IndexHolds, ServedWhenUp, Matches
<1> QED
  BY <1>2, <1>3, <1>4, <1>5, <1>6

(* The first statement of a request: it has validated its domain, or is to. *)
LEMMA BeginStep ==
  ASSUME IInv, NEW r \in Requests, Begin(r)
  PROVE  IInv'
<1> USE DEF IInv
<1>0. ASSUME NEW l \in {"insert_domain", "scan", "validate"}, NEW c \in Content,
             NEW i \in RecordIds \cup {NoId}, Start(r, l, c, i),
             UNCHANGED <<dbVars, bootVars, uprooted, robbed, strays, confirmed>>, faults' \in Nat,
             l = "scan" => c.domain \in domains /\ c.domain \in {Lower[d] : d \in Domains}
      PROVE  IInv'
  <2>1. /\ boot = "up" /\ pc' = [pc EXCEPT ![r] = l] /\ want' = [want EXCEPT ![r] = c]
        /\ target' = [target EXCEPT ![r] = i]
    BY <1>0 DEF Start
  <2>2. Moves(r)
    BY <1>0, <2>1 DEF Moves, TypeOK
  <2>3. Arrives(r)
    BY <1>0, <2>1 DEF Arrives, TypeOK
  <2> QED
    BY <2>1, <2>2, <2>3, MoveKeeps
<1>1. ASSUME NEW d \in Domains, create_domain(r, d) PROVE IInv'
  <2>1. [Blank EXCEPT !.domain = d] \in Content
    BY BlankType DEF Content
  <2> DEFINE c == [Blank EXCEPT !.domain = d]
  <2>2. /\ Start(r, "insert_domain", c, NoId) /\ faults' \in Nat
        /\ UNCHANGED <<dbVars, bootVars, uprooted, robbed, strays, confirmed>>
    BY <1>1 DEF create_domain, Fault, TypeOK
  <2> HIDE DEF c
  <2> QED
    BY <1>0, <2>1, <2>2 DEF c
<1>2. ASSUME NEW e \in Content, create_record(r, e) PROVE IInv'
  <2> DEFINE c == [e EXCEPT !.domain = Lower[e.domain]]
  <2>1. c \in Content /\ c.domain = Lower[e.domain] /\ e.domain \in Domains
    BY ConstantsAssumption DEF Content
  <2>2. /\ Start(r, "scan", c, NoId) /\ Lower[e.domain] \in domains
        /\ UNCHANGED <<dbVars, bootVars, obsVars>>
    BY <1>2 DEF create_record
  <2> HIDE DEF c
  <2>3. UNCHANGED <<uprooted, robbed, strays, confirmed>> /\ faults' \in Nat
    BY <2>2 DEF obsVars, TypeOK
  <2> QED
    BY <1>0, <2>1, <2>2, <2>3
<1>3. ASSUME NEW x \in records, NEW e \in Content, NEW fields \in SUBSET Field,
             patch_record(r, x, e, fields)
      PROVE  IInv'
  <2> DEFINE c == [domain |-> IF "domain" \in fields THEN Lower[e.domain] ELSE x.domain,
                   value  |-> IF "value" \in fields THEN e.value ELSE x.value,
                   ttl    |-> IF "ttl" \in fields THEN e.ttl ELSE x.ttl]
  <2>1. c \in Content /\ x.id \in RecordIds
    BY ConstantsAssumption DEF Content, TypeOK
  <2>2. Start(r, "validate", c, x.id) /\ UNCHANGED <<dbVars, bootVars, obsVars>>
    BY <1>3 DEF patch_record
  <2> HIDE DEF c
  <2>3. UNCHANGED <<uprooted, robbed, strays, confirmed>> /\ faults' \in Nat
    BY <2>2 DEF obsVars, TypeOK
  <2> QED
    BY <1>0, <2>1, <2>2, <2>3
<1> QED
  BY <1>1, <1>2, <1>3 DEF Begin

(* A request that is under way is one of a daemon that is up. *)
LEMMA UnderWay ==
  ASSUME IInv, NEW r \in Requests, Proceed(r)
  PROVE  boot = "up"
<1>1. pc[r] # "idle"
  BY DEF Proceed, insert_domain, insert_domain_refused, resolve_domain, scan_found, scan_none,
     insert_record, insert_record_refused, resolve, validate_record_fields, patch_rejected,
     collide_none, update_record, update_refused, statement_fails
<1> QED
  BY <1>1 DEF IInv, ServedWhenUp

(* A request is answered, perhaps with a row that is stored. *)
LEMMA AnswerMoves ==
  ASSUME IInv, boot = "up", NEW r \in Requests, Answer(r), UNCHANGED <<dbVars, bootVars, strays>>,
         confirmed \subseteq confirmed', confirmed' \subseteq confirmed \cup {ContentOf(x) : x \in records},
         faults' \in Nat
  PROVE  IInv'
<1> USE DEF IInv
<1>1. /\ pc' = [pc EXCEPT ![r] = "idle"] /\ want' = [want EXCEPT ![r] = Blank]
      /\ target' = [target EXCEPT ![r] = NoId] /\ uprooted' = uprooted \ {r} /\ robbed' = robbed \ {r}
  BY DEF Answer, Answered
<1>2. Moves(r)
  BY <1>1, BlankType DEF Moves, TypeOK
<1>3. Arrives(r)
  BY <1>1 DEF Arrives, TypeOK
<1> QED
  BY <1>2, <1>3, MoveKeeps

(* The request goes on to another statement. *)
LEMMA GotoMoves ==
  ASSUME IInv, boot = "up", NEW r \in Requests,
         NEW l \in {"insert", "resolve", "resolve_domain", "collide", "update"},
         Goto(r, l), UNCHANGED <<dbVars, bootVars, strays, confirmed>>,
         uprooted' \in {uprooted, uprooted \ {r}}, robbed' \in {robbed, robbed \cup {r}},
         faults' \in Nat,
         l = "insert" => pc[r] = "scan", l = "resolve" => pc[r] = "insert",
         l \in {"insert", "collide", "update"} => want[r].domain \in domains \/ r \in uprooted',
         l = "resolve" => Matches(want[r]) # {} \/ r \in robbed',
         l = "resolve_domain" => want[r].domain \in domains \/ r \in robbed'
  PROVE  IInv'
<1> USE DEF IInv
<1>1. pc' = [pc EXCEPT ![r] = l] /\ UNCHANGED <<want, target>>
  BY DEF Goto
<1>2. Moves(r)
  BY <1>1 DEF Moves, TypeOK
<1>3. Arrives(r)
  BY <1>1 DEF Arrives, TypeOK
<1> QED
  BY <1>2, <1>3, MoveKeeps

(* The statements that only read. *)
LEMMA ReadStep ==
  ASSUME IInv, NEW r \in Requests, boot = "up",
         \/ insert_domain_refused(r) \/ resolve_domain(r)
         \/ scan_found(r) \/ scan_none(r) \/ insert_record_refused(r) \/ resolve(r)
         \/ validate_record_fields(r) \/ patch_rejected(r) \/ collide_none(r)
         \/ update_refused(r) \/ statement_fails(r)
  PROVE  IInv'
<1> USE DEF IInv
<1>1. faults \in Nat
  BY DEF TypeOK
<1>2. \A c : Confirms(Matches(c), c) \subseteq {ContentOf(x) : x \in records}
  BY DEF Confirms, Matches
<1>3. CASE insert_domain_refused(r)
  <2>1. /\ \/ want[r].domain \in domains /\ robbed' = robbed
           \/ robbed' = robbed \cup {r}
        /\ faults' \in Nat
    BY <1>1, <1>3 DEF insert_domain_refused, Fault
  <2>2. Goto(r, "resolve_domain") /\ UNCHANGED <<dbVars, bootVars, uprooted, strays, confirmed>>
    BY <1>3 DEF insert_domain_refused
  <2> QED
    BY <2>1, <2>2, GotoMoves
<1>4. CASE resolve_domain(r)
  BY <1>1, <1>4, AnswerMoves DEF resolve_domain
<1>5. CASE scan_found(r)
  BY <1>1, <1>2, <1>5, AnswerMoves DEF scan_found
<1>6. CASE scan_none(r)
  <2>1. Goto(r, "insert") /\ UNCHANGED <<dbVars, bootVars, obsVars>> /\ pc[r] = "scan"
    BY <1>6 DEF scan_none
  <2> QED
    BY <1>1, <2>1, GotoMoves DEF obsVars, OrphansExplained
<1>7. CASE insert_record_refused(r)
  <2>1. /\ \/ Matches(want[r]) # {} /\ robbed' = robbed
           \/ robbed' = robbed \cup {r}
        /\ faults' \in Nat
    BY <1>1, <1>7 DEF insert_record_refused, Fault
  <2>2. /\ pc[r] = "insert" /\ Goto(r, "resolve") /\ UNCHANGED <<dbVars, bootVars, strays, confirmed>>
        /\ uprooted' = uprooted \ {r}
    BY <1>7 DEF insert_record_refused
  <2> QED
    BY <2>1, <2>2, GotoMoves
<1>8. CASE resolve(r)
  BY <1>1, <1>2, <1>8, AnswerMoves DEF resolve, Rescan
<1>9. CASE validate_record_fields(r)
  <2>1. /\ Goto(r, "collide") /\ UNCHANGED <<dbVars, bootVars, obsVars>>
        /\ want[r].domain \in domains
    BY <1>9 DEF validate_record_fields
  <2> QED
    BY <1>1, <2>1, GotoMoves DEF obsVars
<1>10. CASE patch_rejected(r)
  BY <1>1, <1>10, AnswerMoves DEF patch_rejected
<1>11. CASE collide_none(r)
  <2>1. Goto(r, "update") /\ UNCHANGED <<dbVars, bootVars, obsVars>> /\ pc[r] = "collide"
    BY <1>11 DEF collide_none
  <2> QED
    BY <1>1, <2>1, GotoMoves DEF obsVars, OrphansExplained
<1>12. CASE update_refused(r)
  BY <1>1, <1>12, AnswerMoves DEF update_refused
<1>13. CASE statement_fails(r)
  <2>1. faults' \in Nat
    BY <1>1, <1>13 DEF statement_fails, Fault
  <2> QED
    BY <1>13, <2>1, AnswerMoves DEF statement_fails
<1> QED
  BY <1>3, <1>4, <1>5, <1>6, <1>7, <1>8, <1>9, <1>10, <1>11, <1>12, <1>13

(* A new domain takes nothing from anybody. *)
LEMMA InsertDomainStep ==
  ASSUME IInv, NEW r \in Requests, insert_domain(r), boot = "up"
  PROVE  IInv'
<1> USE DEF IInv
<1>1. /\ domains' = domains \cup {want[r].domain}
      /\ UNCHANGED <<records, boot, todo, strays, confirmed, faults>>
  BY DEF insert_domain, bootVars
<1>2. /\ pc' = [pc EXCEPT ![r] = "idle"] /\ want' = [want EXCEPT ![r] = Blank]
      /\ target' = [target EXCEPT ![r] = NoId] /\ uprooted' = uprooted \ {r} /\ robbed' = robbed \ {r}
  BY DEF insert_domain, Answer, Answered
<1>3. want[r].domain \in Domains
  BY DEF TypeOK, Content
<1>4. TypeOK'
  BY <1>1, <1>2, <1>3, BlankType DEF TypeOK
<1>5. OrphansExplained' /\ LosersFindTheWinner'
  BY <1>1, <1>2 DEF TypeOK, OrphansExplained, LosersFindTheWinner, Rescan, Matches
<1> QED
  BY <1>1, <1>2, <1>4, <1>5 DEF ConfirmedIsStored, SeededSoFar, IdsDiffer, IndexHolds, ServedWhenUp,
     Matches

(* A new record is of a domain that is there, or of a request that was       *)
(* uprooted since it validated it.                                           *)
LEMMA InsertRecordStep ==
  ASSUME IInv, NEW r \in Requests, insert_record(r), boot = "up"
  PROVE  IInv'
<1> USE DEF IInv
<1>1. PICK i \in Fresh :
        /\ records' = records \cup {Row(i, want[r])}
        /\ strays' = IF r \in uprooted THEN strays \cup {i} ELSE strays
  BY DEF insert_record
<1>2. /\ pc[r] = "insert" /\ Matches(want[r]) = {} /\ confirmed' = confirmed \cup {want[r]}
      /\ UNCHANGED <<domains, boot, todo, faults>>
  BY DEF insert_record, bootVars
<1>3. /\ pc' = [pc EXCEPT ![r] = "idle"] /\ want' = [want EXCEPT ![r] = Blank]
      /\ target' = [target EXCEPT ![r] = NoId] /\ uprooted' = uprooted \ {r} /\ robbed' = robbed \ {r}
  BY DEF insert_record, Answer, Answered
<1>4. want[r] \in Content
  BY DEF TypeOK
<1>5. /\ records' \in SUBSET RecordRow /\ i \in RecordIds
      /\ IdsDiffer'
      /\ IndexHolds'
      /\ want[r] \in {ContentOf(x) : x \in records'}
      /\ {ContentOf(x) : x \in records} \subseteq {ContentOf(x) : x \in records'}
  BY <1>1, <1>2, <1>4, InsertKeeps
<1>6. TypeOK'
  BY <1>1, <1>2, <1>3, <1>4, <1>5, BlankType DEF TypeOK, RecordRow
<1>7. OrphansExplained'
  <2>1. Row(i, want[r]).id = i /\ Row(i, want[r]).domain = want[r].domain
    BY <1>4, <1>5, RowType
  <2>2. want[r].domain \in domains \/ r \in uprooted
    BY <1>2 DEF OrphansExplained
  <2> QED
    BY <1>1, <1>2, <1>3, <2>1, <2>2 DEF OrphansExplained, TypeOK
<1>8. LosersFindTheWinner' /\ ServedWhenUp' /\ SeededSoFar'
  BY <1>1, <1>2, <1>3 DEF LosersFindTheWinner, ServedWhenUp, SeededSoFar, Rescan,
     Matches, TypeOK
<1>9. ConfirmedIsStored'
  BY <1>2, <1>5 DEF ConfirmedIsStored
<1> QED
  BY <1>5, <1>6, <1>7, <1>8, <1>9

(* A patch replaces the row with its id; no other row has its place in the   *)
(* index, and creates that lost against the old content are robbed of it.    *)
LEMMA UpdateRecordStep ==
  ASSUME IInv, NEW r \in Requests, update_record(r), boot = "up"
  PROVE  IInv'
<1> USE DEF IInv
<1> DEFINE old == {x \in records : x.id = target[r]}
           new == Row(target[r], want[r])
<1>1. /\ pc[r] = "update" /\ \A x \in Matches(want[r]) : x.id = target[r]
      /\ old # {}
      /\ records' = (records \ old) \cup {new}
      /\ confirmed' = confirmed \ {ContentOf(x) : x \in old}
      /\ robbed' = robbed \cup Robbed({}, old)
      /\ strays' = IF r \in uprooted THEN strays \cup {target[r]} ELSE strays \ {target[r]}
      /\ UNCHANGED <<domains, boot, todo, faults>>
  BY DEF update_record, bootVars
<1>2. /\ pc' = [pc EXCEPT ![r] = "idle"] /\ want' = [want EXCEPT ![r] = Blank]
      /\ target' = [target EXCEPT ![r] = NoId] /\ uprooted' = uprooted \ {r}
  BY DEF update_record, Answered
<1>3. want[r] \in Content /\ target[r] \in RecordIds
  BY <1>1 DEF TypeOK
<1>4. /\ new \in RecordRow /\ new.id = target[r]
      /\ new.domain = want[r].domain /\ new.value = want[r].value /\ ContentOf(new) = want[r]
  BY <1>3, RowType
<1> HIDE DEF new
<1>5. /\ records' \in SUBSET RecordRow
      /\ IdsDiffer'
  BY <1>1, <1>4 DEF TypeOK, IdsDiffer, RecordRow
<1>6. IndexHolds'
  <2>1. \A x \in records \ old : ~(x.domain = new.domain /\ x.value = new.value)
    BY <1>1, <1>4 DEF Matches
  <2> QED
    BY <1>1, <2>1 DEF IndexHolds
<1>7. Robbed({}, old) \subseteq Requests
  BY DEF Robbed
<1>8. TypeOK'
  BY <1>1, <1>2, <1>3, <1>5, <1>7, BlankType DEF TypeOK, RecordRow
<1>9. OrphansExplained'
  <2>1. want[r].domain \in domains \/ r \in uprooted
    BY <1>1 DEF OrphansExplained
  <2>2. \A x \in records' : x.domain \in domains' \/ x.id \in strays'
    BY <1>1, <1>4, <2>1 DEF OrphansExplained
  <2> QED
    BY <1>1, <1>2, <2>2 DEF OrphansExplained, TypeOK
<1>10. LosersFindTheWinner'
  <2>1. ASSUME NEW q \in Requests, pc'[q] = "resolve"
        PROVE  Rescan(q)' # {} \/ q \in robbed'
    <3>1. q # r /\ pc[q] = "resolve" /\ want'[q] = want[q]
      BY <1>2, <2>1 DEF TypeOK
    <3>2. Rescan(q) # {} \/ q \in robbed
      BY <3>1 DEF LosersFindTheWinner
    <3>3. ASSUME NEW x \in Rescan(q), x \in old PROVE q \in robbed'
      BY <1>1, <3>1, <3>3 DEF Robbed, Rescan, Matches
    <3>4. ASSUME NEW x \in Rescan(q), x \notin old PROVE x \in Rescan(q)'
      BY <1>1, <3>1, <3>4 DEF Rescan, Matches
    <3> QED
      BY <1>1, <3>2, <3>3, <3>4
  <2>2. ASSUME NEW q \in Requests, pc'[q] = "resolve_domain"
        PROVE  want'[q].domain \in domains' \/ q \in robbed'
    BY <1>1, <1>2, <2>2 DEF TypeOK, LosersFindTheWinner
  <2> QED
    BY <2>1, <2>2 DEF LosersFindTheWinner
<1>11. ConfirmedIsStored'
  BY <1>1 DEF ConfirmedIsStored
<1>12. ServedWhenUp' /\ SeededSoFar'
  BY <1>1 DEF ServedWhenUp, SeededSoFar
<1> QED
  BY <1>5, <1>6, <1>8, <1>9, <1>10, <1>11, <1>12

-----------------------------------------------------------------------------
(* Rows, and perhaps their domain, are deleted: the creates that lost        *)
(* against one of them are robbed of it.                                     *)
LEMMA DeleteStep ==
  ASSUME IInv, boot = "up", NEW ds \in SUBSET Domains, NEW gone \in SUBSET records,
         \A x \in records : x.domain \in ds => x \in gone,
         domains' = domains \ ds, records' = records \ gone,
         robbed' = robbed \cup Robbed(ds, gone),
         confirmed' = confirmed \ {ContentOf(x) : x \in gone},
         strays' = strays \ {x.id : x \in gone},
         uprooted' = uprooted \cup Uprooted(ds),
         UNCHANGED <<bootVars, requestVars, faults>>
  PROVE  IInv'
<1> USE DEF IInv, bootVars, requestVars
<1>1. TypeOK'
  BY DEF TypeOK, Robbed, Uprooted
<1>2. OrphansExplained'
  <2>1. ASSUME NEW x \in records' PROVE x.domain \in domains' \/ x.id \in strays'
    <3>1. x \in records /\ x \notin gone /\ \A y \in gone : y.id # x.id
      BY DEF IdsDiffer
    <3>2. x.domain \notin ds
      BY <3>1
    <3> QED
      BY <3>1, <3>2 DEF OrphansExplained
  <2>2. ASSUME NEW q \in Requests, pc[q] \in {"scan", "insert", "collide", "update"}
        PROVE  want[q].domain \in domains' \/ q \in uprooted'
    BY <2>2 DEF OrphansExplained, Uprooted
  <2> QED
    BY <2>1, <2>2 DEF OrphansExplained
<1>3. LosersFindTheWinner'
  BY DEF LosersFindTheWinner, Rescan, Matches, Robbed
<1>4. ConfirmedIsStored' /\ IdsDiffer' /\ IndexHolds'
  BY DEF ConfirmedIsStored, IdsDiffer, IndexHolds
<1>5. SeededSoFar' /\ ServedWhenUp'
  BY DEF SeededSoFar, ServedWhenUp
<1> QED
  BY <1>1, <1>2, <1>3, <1>4, <1>5

LEMMA DeletesStep ==
  ASSUME IInv, Deletes
  PROVE  IInv'
<1>1. ASSUME NEW d \in Domains, delete_domain(d) PROVE IInv'
  <2> DEFINE gone == {x \in records : x.domain = d}
  <2>1. /\ boot = "up" /\ domains' = domains \ {d} /\ records' = records \ gone
        /\ robbed' = robbed \cup Robbed({d}, gone)
        /\ confirmed' = confirmed \ {ContentOf(x) : x \in gone}
        /\ strays' = strays \ {x.id : x \in gone}
        /\ uprooted' = uprooted \cup Uprooted({d})
        /\ UNCHANGED <<bootVars, requestVars, faults>>
    BY <1>1 DEF delete_domain
  <2>2. gone \in SUBSET records /\ \A x \in records : x.domain \in {d} => x \in gone
    OBVIOUS
  <2> HIDE DEF gone
  <2> QED
    BY <2>1, <2>2, DeleteStep
<1>2. ASSUME NEW x \in records, delete_record(x) PROVE IInv'
  <2>1. /\ boot = "up" /\ domains' = domains \ {} /\ records' = records \ {x}
        /\ robbed' = robbed \cup Robbed({}, {x})
        /\ confirmed' = confirmed \ {ContentOf(y) : y \in {x}}
        /\ strays' = strays \ {y.id : y \in {x}}
        /\ UNCHANGED <<bootVars, requestVars, faults>>
    BY <1>2 DEF delete_record
  <2>2. uprooted' = uprooted \cup Uprooted({})
    BY <1>2 DEF delete_record, Uprooted
  <2>3. {x} \in SUBSET records /\ {} \in SUBSET Domains
    OBVIOUS
  <2> QED
    BY <2>1, <2>2, <2>3, DeleteStep
<1> QED
  BY <1>1, <1>2 DEF Deletes

-----------------------------------------------------------------------------
(* Every step preserves the invariant. *)
LEMMA ZoneRecordsStep == IInv /\ [Next]_vars => IInv'
<1> SUFFICES ASSUME IInv, [Next]_vars PROVE IInv'
  OBVIOUS
<1>1. ASSUME NEW r \in Requests, Proceed(r) PROVE IInv'
  <2>1. boot = "up"
    BY <1>1, UnderWay
  <2> QED
    BY <1>1, <2>1, ReadStep, InsertDomainStep, InsertRecordStep, UpdateRecordStep DEF Proceed
<1>2. CASE UNCHANGED vars
  BY <1>2 DEF vars, dbVars, bootVars, requestVars, obsVars, IInv, TypeOK, OrphansExplained,
     LosersFindTheWinner, ConfirmedIsStored, SeededSoFar, IdsDiffer, IndexHolds, ServedWhenUp,
     Rescan, Matches
<1> QED
  BY <1>1, <1>2, SeedingStep, RestartStep, DeletesStep, BeginStep DEF Next

LEMMA ZoneRecordsInvariant == Spec => []IInv
  BY ZoneRecordsInit, ZoneRecordsStep, PTL DEF Spec

-----------------------------------------------------------------------------
(* Every variable has its type; create_record works on lower-case names. *)
THEOREM ZoneRecordsTypes == Spec => []TypeOK
<1>1. IInv => TypeOK
  BY DEF IInv
<1> QED
  BY <1>1, ZoneRecordsInvariant, PTL

(* validate_record_fields and the write it allows are two statements: a      *)
(* record of a domain that is not provisioned comes only from a request      *)
(* whose domain was deleted between the two, or from the configuration.      *)
THEOREM OrphansComeFromRaces == Spec => []OrphansExplained
<1>1. IInv => OrphansExplained
  BY DEF IInv
<1> QED
  BY <1>1, ZoneRecordsInvariant, PTL

(* create_record and create_domain that lost their insert find the winner    *)
(* when they look again, unless it was taken away or a statement failed.     *)
THEOREM LoserOfAnInsertFindsTheRow == Spec => []LosersFindTheWinner
<1>1. IInv => LosersFindTheWinner
  BY DEF IInv
<1> QED
  BY <1>1, ZoneRecordsInvariant, PTL

(* A record that create_record answered 200 for is stored until it is        *)
(* patched or deleted ...                                                    *)
THEOREM ConfirmedRecordIsStored == Spec => []ConfirmedIsStored
<1>1. IInv => ConfirmedIsStored
  BY DEF IInv
<1> QED
  BY <1>1, ZoneRecordsInvariant, PTL

(* ... and so no two creates that differ in their ttl only are both          *)
(* confirmed, however their scans and inserts interleave.                    *)
THEOREM ConfirmedRecordsAgree == Spec => []ConfirmedOnce
<1>1. IInv => ConfirmedOnce
  <2> SUFFICES ASSUME IInv, NEW c \in confirmed, NEW e \in confirmed,
                      c.domain = e.domain, c.value = e.value
               PROVE  c = e
    BY DEF ConfirmedOnce
  <2>1. PICK x \in records : c = ContentOf(x)
    BY DEF IInv, ConfirmedIsStored
  <2>2. PICK y \in records : e = ContentOf(y)
    BY DEF IInv, ConfirmedIsStored
  <2>3. x = y
    BY <2>1, <2>2 DEF IInv, IndexHolds, ContentOf
  <2> QED
    BY <2>1, <2>2, <2>3
<1> QED
  BY <1>1, ZoneRecordsInvariant, PTL

(* A boot that ends up has stored the whole configuration, whatever boots    *)
(* before it left behind and whichever lookups of seed_from_config fail.     *)
THEOREM ServesWhatIsConfigured == Spec => ServesItsConfiguration
<1>1. IInv /\ [Next]_vars => [boot # "up" /\ boot' = "up" =>
          /\ SeedDomains \subseteq domains
          /\ SeedRecords \subseteq {ContentOf(x) : x \in records}]_vars
  <2> SUFFICES ASSUME IInv, Next, boot # "up", boot' = "up"
               PROVE  /\ SeedDomains \subseteq domains
                      /\ SeedRecords \subseteq {ContentOf(x) : x \in records}
    BY DEF vars, bootVars
  <2>1. ~restart /\ ~Deletes
    BY DEF restart, Deletes, delete_domain, delete_record
  <2>2. \A r \in Requests : ~Begin(r) /\ ~Proceed(r)
    BY UnderWay DEF Begin, create_domain, create_record, patch_record, Start
  <2>3. seed_done
    BY <2>1, <2>2 DEF Next, Seeding, seed_domain, seed_record, seed_refused, seed_fails,
       identity_fails
  <2> QED
    BY <2>3 DEF seed_done, IInv, SeededSoFar
<1> QED
  BY <1>1, ZoneRecordsInvariant, PTL DEF Spec, ServesItsConfiguration
=============================================================================
