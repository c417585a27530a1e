----------------------------- MODULE ZoneRecords -----------------------------
(***************************************************************************)
(* Domains and their DNS records: the endpoints of src/src/api.rs that     *)
(* create, patch and delete them, and seed_from_config of src/src/app.rs,  *)
(* which runs at every boot before the endpoints are served.               *)
(*                                                                         *)
(* A request is a series of statements without a transaction: it validates,*)
(* scans for a collision and writes, and other requests run in between.    *)
(* Only the primary keys and the unique index on (domain_id, record_type,  *)
(* value) are enforced by the database.  Requests that are answered from   *)
(* their first read (400, 404, a confirmed domain) change nothing and are  *)
(* left out.                                                               *)
(***************************************************************************)
EXTENDS Naturals, FiniteSets

CONSTANTS
    Requests,     \* API requests that can be under way together
    Domains,      \* domain names, as they can be written
    Lower,        \* to_lowercase
    Values,       \* a record_type and value of a record
    Ttls,
    RecordIds,    \* ids of Record rows; an id is given out again only when neither
                  \* a row nor a request has it: the auto key is never reused
    NoId,
    SeedDomains,  \* config.domains
    SeedRecords,  \* config.records
    MaxFaults     \* bound: failed statements and restarts

(* What a Record row says. *)
Content == [domain : Domains, value : Values, ttl : Ttls]
Field == {"domain", "value", "ttl"}

ASSUME ConstantsAssumption ==
    /\ Content # {}
    /\ Lower \in [Domains -> Domains]
    /\ NoId \notin RecordIds
    /\ SeedDomains \subseteq Domains
    /\ SeedRecords \subseteq Content
    /\ MaxFaults \in Nat

VARIABLES
    \* The database.
    domains,    \* Domain rows
    records,    \* Record rows: an id and a Content
    \* The boot.
    boot,       \* "seeding", "up", "refused" by a key or the index, or "broken"
    todo,       \* seeds not yet dealt with: [domains, records]
    \* The requests.
    pc,         \* the statement a request executes next, "idle" if there is none
    want,       \* the Content it is to write; for a domain only .domain matters
    target,     \* the id of the record it patches
    \* Observations.
    uprooted,   \* requests whose domain was deleted after they had validated it
    robbed,     \* requests whose insert failed, or the row it lost against was taken away
    strays,     \* ids of records written by an uprooted request, or seeded without a domain
    confirmed,  \* contents answered 200 and not patched or deleted since
    faults

dbVars      == <<domains, records>>
bootVars    == <<boot, todo>>
requestVars == <<pc, want, target>>
obsVars     == <<uprooted, robbed, strays, confirmed, faults>>
vars        == <<dbVars, bootVars, requestVars, obsVars>>

Seeds == [domains |-> SeedDomains, records |-> SeedRecords]

(* A value for the locals of a request that is not under way. *)
Blank == CHOOSE c \in Content : TRUE

Row(i, c) == [id |-> i, domain |-> c.domain, value |-> c.value, ttl |-> c.ttl]
ContentOf(x) == [domain |-> x.domain, value |-> x.value, ttl |-> x.ttl]

(* The ids an insert can give. *)
Fresh == RecordIds \ ({x.id : x \in records} \cup {target[r] : r \in Requests})

(* The rows that collide with c on the unique index. *)
Matches(c) == {x \in records : x.domain = c.domain /\ x.value = c.value}

Fault == faults < MaxFaults /\ faults' = faults + 1

Init ==
    /\ domains = {}
    /\ records = {}
    /\ boot = "seeding"
    /\ todo = Seeds
    /\ pc = [r \in Requests |-> "idle"]
    /\ want = [r \in Requests |-> Blank]
    /\ target = [r \in Requests |-> NoId]
    /\ uprooted = {}
    /\ robbed = {}
    /\ strays = {}
    /\ confirmed = {}
    /\ faults = 0

-----------------------------------------------------------------------------
(* seed_from_config *)

(* Mut_ operators are seeded bugs, each a variant of the definition after it. *)
Mut_error_counts_as_row(d, answered) == answered => d \in domains

(* Domain::get_by_id(..).is_ok(): a lookup that fails counts as no row. *)
domain_exists(d, answered) == answered /\ d \in domains

(* A domain is looked up, and created unless it is there.  When the lookup   *)
(* failed over a stored row the primary key refuses the insert, and          *)
(* AppState::init with it.                                                   *)
seed_domain(d) ==
    /\ boot = "seeding"
    /\ d \in todo.domains
    /\ \E answered \in BOOLEAN :
          /\ IF answered THEN UNCHANGED faults ELSE Fault
          /\ IF d \in domains /\ ~domain_exists(d, answered)
             THEN boot' = "refused" /\ UNCHANGED <<domains, todo>>
             ELSE /\ domains' = IF domain_exists(d, answered) THEN domains ELSE domains \cup {d}
                  /\ todo' = [todo EXCEPT !.domains = @ \ {d}]
                  /\ UNCHANGED boot
    /\ UNCHANGED <<records, requestVars, uprooted, robbed, strays, confirmed>>

(* A record is created without looking ... *)
seed_record(c) ==
    /\ boot = "seeding"
    /\ todo.domains = {}
    /\ c \in todo.records
    /\ Matches(c) = {}
    /\ \E i \in Fresh :
          /\ records' = records \cup {Row(i, c)}
          /\ strays' = IF c.domain \in domains THEN strays ELSE strays \cup {i}
    /\ todo' = [todo EXCEPT !.records = @ \ {c}]
    /\ UNCHANGED <<domains, boot, requestVars, uprooted, robbed, confirmed, faults>>

(* ... and if the unique index refuses it, AppState::init fails and the      *)
(* daemon exits.                                                             *)
seed_refused(c) ==
    /\ boot = "seeding"
    /\ todo.domains = {}
    /\ c \in todo.records
    /\ Matches(c) # {}
    /\ boot' = "refused"
    /\ UNCHANGED <<dbVars, todo, requestVars, obsVars>>

(* So does an insert that fails: of a domain that is not there, of a record, *)
(* or of a mailbox, which come in between.                                   *)
seed_fails ==
    /\ boot = "seeding"
    /\ \/ todo.domains \ domains # {}
       \/ todo.domains = {} /\ todo.records # {}
    /\ Fault
    /\ boot' = "broken"
    /\ UNCHANGED <<dbVars, todo, requestVars, uprooted, robbed, strays, confirmed>>

(* After the seed Daemon::build loads the TLS identity: a file that cannot   *)
(* be read or decoded, or the ACME source, ends the boot with all rows kept. *)
identity_fails ==
    /\ boot = "seeding"
    /\ todo = [domains |-> {}, records |-> {}]
    /\ Fault
    /\ boot' = "broken"
    /\ UNCHANGED <<dbVars, todo, requestVars, uprooted, robbed, strays, confirmed>>

seed_done ==
    /\ boot = "seeding"
    /\ todo.domains = {}
    /\ todo.records = {}
    /\ boot' = "up"
    /\ UNCHANGED <<dbVars, todo, requestVars, obsVars>>

(* The process is killed, while seeding or serving; or one that failed to    *)
(* boot is started again.                                                    *)
restart ==
    /\ IF boot \in {"refused", "broken"} THEN UNCHANGED faults ELSE Fault
    /\ boot' = "seeding"
    /\ todo' = Seeds
    /\ pc' = [r \in Requests |-> "idle"]
    /\ want' = [r \in Requests |-> Blank]
    /\ target' = [r \in Requests |-> NoId]
    /\ uprooted' = {}
    /\ robbed' = {}
    /\ UNCHANGED <<dbVars, strays, confirmed>>

-----------------------------------------------------------------------------
(* The requests *)

Start(r, label, c, i) ==
    /\ boot = "up"
    /\ pc[r] = "idle"
    /\ pc' = [pc EXCEPT ![r] = label]
    /\ want' = [want EXCEPT ![r] = c]
    /\ target' = [target EXCEPT ![r] = i]

Goto(r, label) == pc' = [pc EXCEPT ![r] = label] /\ UNCHANGED <<want, target>>

(* The request is answered. *)
Answered(r) ==
    /\ pc' = [pc EXCEPT ![r] = "idle"]
    /\ want' = [want EXCEPT ![r] = Blank]
    /\ target' = [target EXCEPT ![r] = NoId]
    /\ uprooted' = uprooted \ {r}

Answer(r) == Answered(r) /\ robbed' = robbed \ {r}

(* The domains ds are deleted, or the rows lose their content. *)
Uprooted(ds) == {r \in Requests : /\ pc[r] \in {"scan", "insert", "collide", "update"}
                                  /\ want[r].domain \in ds}
Robbed(ds, rows) == {r \in Requests :
    \/ pc[r] = "resolve_domain" /\ want[r].domain \in ds
    \/ pc[r] = "resolve" /\ \E x \in rows : x.domain = want[r].domain /\ x.value = want[r].value}

(* create_domain: the name is trimmed, not lowercased.  No such row, or the  *)
(* lookup fails (which counts as none).                                      *)
create_domain(r, d) ==
    /\ Start(r, "insert_domain", [Blank EXCEPT !.domain = d], NoId)
    /\ IF d \in domains THEN Fault ELSE UNCHANGED faults
    /\ UNCHANGED <<dbVars, bootVars, uprooted, robbed, strays, confirmed>>

insert_domain(r) ==
    /\ pc[r] = "insert_domain"
    /\ want[r].domain \notin domains
    /\ domains' = domains \cup {want[r].domain}
    /\ Answer(r)
    /\ UNCHANGED <<records, bootVars, strays, confirmed, faults>>

(* The insert is refused or fails; the row is looked up again, for the answer. *)
insert_domain_refused(r) ==
    /\ pc[r] = "insert_domain"
    /\ \/ want[r].domain \in domains /\ UNCHANGED <<robbed, faults>>
       \/ Fault /\ robbed' = robbed \cup {r}
    /\ Goto(r, "resolve_domain")
    /\ UNCHANGED <<dbVars, bootVars, uprooted, strays, confirmed>>

resolve_domain(r) ==
    /\ pc[r] = "resolve_domain"
    /\ Answer(r)
    /\ UNCHANGED <<dbVars, bootVars, strays, confirmed, faults>>

(* delete_domain: the cascade deletes the domain's records. *)
delete_domain(d) ==
    /\ boot = "up"
    /\ d \in domains
    /\ domains' = domains \ {d}
    /\ LET gone == {x \in records : x.domain = d}
       IN  /\ records' = records \ gone
           /\ robbed' = robbed \cup Robbed({d}, gone)
           /\ confirmed' = confirmed \ {ContentOf(x) : x \in gone}
           /\ strays' = strays \ {x.id : x \in gone}
    /\ uprooted' = uprooted \cup Uprooted({d})
    /\ UNCHANGED <<bootVars, requestVars, faults>>

delete_record(x) ==
    /\ boot = "up"
    /\ x \in records
    /\ records' = records \ {x}
    /\ robbed' = robbed \cup Robbed({}, {x})
    /\ confirmed' = confirmed \ {ContentOf(x)}
    /\ strays' = strays \ {x.id}
    /\ UNCHANGED <<domains, bootVars, requestVars, uprooted, faults>>

Mut_domain_as_written(r, c) ==
    /\ c.domain \in domains
    /\ Start(r, "scan", c, NoId)
    /\ UNCHANGED <<dbVars, bootVars, obsVars>>

(* create_record: the domain, lowercased, is provisioned. *)
create_record(r, c) ==
    LET d == Lower[c.domain]
    IN  /\ d \in domains
        /\ Start(r, "scan", [c EXCEPT !.domain = d], NoId)
        /\ UNCHANGED <<dbVars, bootVars, obsVars>>

Mut_resolve_ignores_ttl(rows, c) == {c : x \in rows}

(* record_resolve: of the rows with this type and value an identical one is   *)
(* confirmed with 200; a different ttl is a 409.                             *)
Confirms(rows, c) == {ContentOf(x) : x \in rows} \cap {c}

scan_found(r) ==
    /\ pc[r] = "scan"
    /\ Matches(want[r]) # {}
    /\ Answer(r)
    /\ confirmed' = confirmed \cup Confirms(Matches(want[r]), want[r])
    /\ UNCHANGED <<dbVars, bootVars, strays, faults>>

scan_none(r) ==
    /\ pc[r] = "scan"
    /\ Matches(want[r]) = {}
    /\ Goto(r, "insert")
    /\ UNCHANGED <<dbVars, bootVars, obsVars>>

insert_record(r) ==
    /\ pc[r] = "insert"
    /\ Matches(want[r]) = {}
    /\ \E i \in Fresh :
          /\ records' = records \cup {Row(i, want[r])}
          /\ strays' = IF r \in uprooted THEN strays \cup {i} ELSE strays
    /\ confirmed' = confirmed \cup {want[r]}
    /\ Answer(r)
    /\ UNCHANGED <<domains, bootVars, faults>>

(* The unique index refuses the row, or the statement fails: re-scan. *)
insert_record_refused(r) ==
    /\ pc[r] = "insert"
    /\ \/ Matches(want[r]) # {} /\ UNCHANGED <<robbed, faults>>
       \/ Fault /\ robbed' = robbed \cup {r}
    /\ Goto(r, "resolve")
    /\ uprooted' = uprooted \ {r}
    /\ UNCHANGED <<dbVars, bootVars, strays, confirmed>>

Mut_rescan_compares_ttl(r) == {x \in Matches(want[r]) : x.ttl = want[r].ttl}

(* What the re-scan finds: nothing is a 500. *)
Rescan(r) == Matches(want[r])

resolve(r) ==
    /\ pc[r] = "resolve"
    /\ Answer(r)
    /\ confirmed' = confirmed \cup Confirms(Rescan(r), want[r])
    /\ UNCHANGED <<dbVars, bootVars, strays, faults>>

(* patch_record reads the row and layers the patch over it: from here on the *)
(* request holds all columns, the omitted ones as it read them.              *)
patch_record(r, x, c, fields) ==
    /\ x \in records
    /\ Start(r, "validate",
             [domain |-> IF "domain" \in fields THEN Lower[c.domain] ELSE x.domain,
              value  |-> IF "value" \in fields THEN c.value ELSE x.value,
              ttl    |-> IF "ttl" \in fields THEN c.ttl ELSE x.ttl],
             x.id)
    /\ UNCHANGED <<dbVars, bootVars, obsVars>>

Mut_validates_nothing(r) ==
    /\ pc[r] = "validate"
    /\ Goto(r, "collide")
    /\ UNCHANGED <<dbVars, bootVars, obsVars>>

validate_record_fields(r) ==
    /\ pc[r] = "validate"
    /\ want[r].domain \in domains
    /\ Goto(r, "collide")
    /\ UNCHANGED <<dbVars, bootVars, obsVars>>

(* The domain is gone: 400.  Another row collides: 409. *)
patch_rejected(r) ==
    /\ \/ pc[r] = "validate" /\ want[r].domain \notin domains
       \/ pc[r] = "collide" /\ \E x \in Matches(want[r]) : x.id # target[r]
    /\ Answer(r)
    /\ UNCHANGED <<dbVars, bootVars, strays, confirmed, faults>>

collide_none(r) ==
    /\ pc[r] = "collide"
    /\ \A x \in Matches(want[r]) : x.id = target[r]
    /\ Goto(r, "update")
    /\ UNCHANGED <<dbVars, bootVars, obsVars>>

(* All columns are written. *)
update_record(r) ==
    /\ pc[r] = "update"
    /\ \A x \in Matches(want[r]) : x.id = target[r]
    /\ LET old == {x \in records : x.id = target[r]}
       IN  /\ old # {}
           /\ records' = (records \ old) \cup {Row(target[r], want[r])}
           /\ confirmed' = confirmed \ {ContentOf(x) : x \in old}
           /\ robbed' = robbed \cup Robbed({}, old)
    /\ strays' = IF r \in uprooted THEN strays \cup {target[r]} ELSE strays \ {target[r]}
    /\ Answered(r)
    /\ UNCHANGED <<domains, bootVars, faults>>

(* The row has been deleted, or another one took its place in the index: 500. *)
update_refused(r) ==
    /\ pc[r] = "update"
    /\ \/ \E x \in Matches(want[r]) : x.id # target[r]
       \/ \A x \in records : x.id # target[r]
    /\ Answer(r)
    /\ UNCHANGED <<dbVars, bootVars, strays, confirmed, faults>>

(* Any other failing statement ends the request and changes nothing. *)
statement_fails(r) ==
    /\ pc[r] \in {"scan", "resolve", "resolve_domain", "validate", "collide", "update"}
    /\ Fault
    /\ Answer(r)
    /\ UNCHANGED <<dbVars, bootVars, strays, confirmed>>

-----------------------------------------------------------------------------
Seeding ==
    \/ \E d \in SeedDomains : seed_domain(d)
    \/ \E c \in SeedRecords : seed_record(c) \/ seed_refused(c)
    \/ seed_done \/ seed_fails \/ identity_fails

Begin(r) ==
    \/ \E d \in Domains : create_domain(r, d)
    \/ \E c \in Content : create_record(r, c)
    \/ \E x \in records, c \in Content, fields \in SUBSET Field : patch_record(r, x, c, fields)

Proceed(r) ==
    \/ insert_domain(r) \/ insert_domain_refused(r) \/ resolve_domain(r)
    \/ scan_found(r) \/ scan_none(r) \/ insert_record(r) \/ insert_record_refused(r) \/ resolve(r)
    \/ validate_record_fields(r) \/ patch_rejected(r) \/ collide_none(r)
    \/ update_record(r) \/ update_refused(r) \/ statement_fails(r)

Deletes ==
    \/ \E d \in Domains : delete_domain(d)
    \/ \E x \in records : delete_record(x)

Next == Seeding \/ restart \/ Deletes \/ \E r \in Requests : Begin(r) \/ Proceed(r)

Spec == Init /\ [][Next]_vars

-----------------------------------------------------------------------------
(* Properties *)

(* Every variable has its type; a create_record works on a lowercased name,  *)
(* whatever the request and the Domain rows were written like.               *)
TypeOK ==
    /\ domains \in SUBSET Domains
    /\ records \in SUBSET [id : RecordIds, domain : Domains, value : Values, ttl : Ttls]
    /\ boot \in {"seeding", "up", "refused", "broken"}
    /\ todo \in [domains : SUBSET SeedDomains, records : SUBSET SeedRecords]
    /\ pc \in [Requests -> {"idle", "insert_domain", "resolve_domain", "scan", "insert", "resolve",
                            "validate", "collide", "update"}]
    /\ want \in [Requests -> Content]
    /\ \A r \in Requests : pc[r] \in {"scan", "insert", "resolve"} =>
           want[r].domain \in {Lower[d] : d \in Domains}
    /\ target \in [Requests -> RecordIds \cup {NoId}]
    /\ uprooted \in SUBSET Requests
    /\ robbed \in SUBSET Requests
    /\ strays \in SUBSET RecordIds
    /\ confirmed \in SUBSET Content
    /\ faults \in Nat

(* validate_record_fields is commented "A record must reference a provisioned *)
(* domain".  That does not hold of the stored records: validation and write  *)
(* are two statements, and the seed does not validate.  What does hold is    *)
(* that these are the only ways to a record without a domain: a domain       *)
(* deleted between the two statements, or a configured record.               *)
OrphansExplained ==
    /\ \A x \in records : x.domain \in domains \/ x.id \in strays
    /\ \A r \in Requests : pc[r] \in {"scan", "insert", "collide", "update"} =>
           want[r].domain \in domains \/ r \in uprooted

(* A create that lost its insert finds the winner's row when it looks again, *)
(* and so answers 200 or 409 and not 500, unless the winner was removed      *)
(* meanwhile or a statement failed.                                          *)
LosersFindTheWinner ==
    \A r \in Requests :
        /\ pc[r] = "resolve" => Rescan(r) # {} \/ r \in robbed
        /\ pc[r] = "resolve_domain" => want[r].domain \in domains \/ r \in robbed

(* Creates are idempotent and exclusive under races: a content answered 200  *)
(* is stored until it is patched or deleted, so two creates that differ in   *)
(* ttl only are never both confirmed.                                        *)
ConfirmedIsStored == confirmed \subseteq {ContentOf(x) : x \in records}

(* The daemon serves only what seed_from_config has completed: when a boot   *)
(* ends up, every configured domain and every configured record is stored,   *)
(* after any number of boots that were killed, failed or refused half way,   *)
(* and with lookups that fail.                                               *)
ServesItsConfiguration ==
    [][boot # "up" /\ boot' = "up" =>
          /\ SeedDomains \subseteq domains
          /\ SeedRecords \subseteq {ContentOf(x) : x \in records}]_vars
=============================================================================
