------------------------------ MODULE Mailboxes ------------------------------
(***************************************************************************)
(* Mailboxes: create_mailbox, patch_mailbox, delete_mailbox and the        *)
(* cascade of delete_domain in src/src/api.rs, and the mailbox part of     *)
(* seed_from_config in src/src/app.rs, which runs at every boot.           *)
(*                                                                         *)
(* A request is a series of statements without a transaction; the database *)
(* enforces the primary key, the address in lower case.  Requests answered *)
(* 400, 404 or 409 from their first read change nothing and are left out.  *)
(* In config and requests an address has a spelling: a seeded mailbox is   *)
(* stored under the lower-case address with its domain as it was written,  *)
(* one created through the API with the lower-case domain.                 *)
(***************************************************************************)
EXTENDS Naturals, Sequences

CONSTANTS
    Requests,   \* API requests that can be under way together
    Addresses,  \* addresses, as they can be written
    Lower,      \* to_lowercase
    DomainOf,   \* what follows the '@'
    Forwards,   \* values of forward_to, None among them
    None,
    Seeds,      \* config.mailboxes: a sequence of [addr, forward]
    MaxFaults   \* bound: failed statements and restarts

Domains == {DomainOf[a] : a \in Addresses}
Ids == {Lower[a] : a \in Addresses}

(* A Mailbox row. *)
Row == [id : Ids, domain : Domains, forward : Forwards]

ASSUME ConstantsAssumption ==
    /\ Addresses # {}
    /\ Lower \in [Addresses -> Addresses]
    /\ DOMAIN DomainOf = Addresses
    /\ None \in Forwards
    /\ Seeds \in Seq([addr : Addresses, forward : Forwards])
    /\ MaxFaults \in Nat

VARIABLES
    boxes,      \* Mailbox rows
    boot,       \* "seeding", "up", "refused" by the primary key, or "broken"
    next,       \* the seed that is next
    pc,         \* the statement a request executes next, "idle" if there is none
    want,       \* the row it is to write
    names,      \* requests that are patches with a forward_to
    \* Observations.
    blind,      \* the last lookup of the seed failed
    late,       \* patches whose row another request wrote or deleted since they read it
    robbed,     \* creates whose insert failed, or the row they lost against was deleted
    confirmed,  \* rows that were answered 200 and that nobody has changed since
    faults

bootVars    == <<boot, next>>
requestVars == <<pc, want, names>>
obsVars     == <<late, robbed, confirmed, faults>>
vars        == <<boxes, bootVars, blind, requestVars, obsVars>>

Rows(i) == {x \in boxes : x.id = i}

(* The row of a request that is not under way. *)
Blank == CHOOSE x \in Row : TRUE

Fault == faults < MaxFaults /\ faults' = faults + 1

Init ==
    /\ boxes = {}
    /\ boot = "seeding" /\ next = 1 /\ blind = FALSE
    /\ pc = [r \in Requests |-> "idle"]
    /\ want = [r \in Requests |-> Blank]
    /\ names = {} /\ late = {} /\ robbed = {} /\ confirmed = {}
    /\ faults = 0

(* Mut_ operators are seeded bugs, each a variant of the definition after it. *)

-----------------------------------------------------------------------------
(* seed_from_config *)

Mut_seed_as_written(e) == [id |-> e.addr, domain |-> DomainOf[e.addr], forward |-> e.forward]

(* The domain is taken from the address before it is lowercased. *)
SeedRow(e) == [id |-> Lower[e.addr], domain |-> DomainOf[e.addr], forward |-> e.forward]

Mut_looks_up_as_written(e, answered) == answered /\ Rows(e.addr) # {}

(* Mailbox::get_by_id(..).is_ok(): a lookup that fails counts as no row. *)
Exists(e, answered) == answered /\ Rows(Lower[e.addr]) # {}

(* An entry is looked up, and created unless its address exists.  When the   *)
(* lookup failed over a stored row the primary key refuses the insert, and   *)
(* AppState::init with it.                                                   *)
seed_mailbox ==
    /\ boot = "seeding"
    /\ next <= Len(Seeds)
    /\ \E answered \in BOOLEAN :
          /\ IF answered THEN UNCHANGED faults ELSE Fault
          /\ blind' = ~answered
          /\ LET x == SeedRow(Seeds[next])
             IN  IF Exists(Seeds[next], answered)
                 THEN next' = next + 1 /\ UNCHANGED <<boxes, boot>>
                 ELSE IF Rows(x.id) # {}
                 THEN boot' = "refused" /\ UNCHANGED <<boxes, next>>
                 ELSE boxes' = boxes \cup {x} /\ next' = next + 1 /\ UNCHANGED boot
    /\ UNCHANGED <<requestVars, late, robbed, confirmed>>

(* Another statement fails, the insert of a domain, a mailbox or a record,   *)
(* or the TLS identity does not load.                                        *)
seed_fails ==
    /\ boot = "seeding"
    /\ Fault
    /\ boot' = "broken"
    /\ UNCHANGED <<boxes, next, blind, requestVars, late, robbed, confirmed>>

seed_done ==
    /\ boot = "seeding"
    /\ next > Len(Seeds)
    /\ boot' = "up" /\ blind' = FALSE
    /\ UNCHANGED <<boxes, next, requestVars, obsVars>>

(* The process is killed, or one that failed to boot is started again. *)
restart ==
    /\ IF boot \in {"refused", "broken"} THEN UNCHANGED faults ELSE Fault
    /\ boot' = "seeding" /\ next' = 1 /\ blind' = FALSE
    /\ pc' = [r \in Requests |-> "idle"]
    /\ want' = [r \in Requests |-> Blank]
    /\ names' = {} /\ late' = {} /\ robbed' = {}
    /\ UNCHANGED <<boxes, confirmed>>

-----------------------------------------------------------------------------
(* The requests *)

Start(r, label, x) ==
    /\ boot = "up"
    /\ pc[r] = "idle"
    /\ pc' = [pc EXCEPT ![r] = label]
    /\ want' = [want EXCEPT ![r] = x]

Goto(r, label) == pc' = [pc EXCEPT ![r] = label] /\ UNCHANGED <<want, names>>

Answer(r) ==
    /\ pc' = [pc EXCEPT ![r] = "idle"]
    /\ want' = [want EXCEPT ![r] = Blank]
    /\ names' = names \ {r}

(* Patches that have read a row whose id is in S and not yet written it. *)
Readers(S) == {r \in Requests : pc[r] = "update" /\ want[r].id \in S}

CreatedRow(a, f) == [id |-> Lower[a], domain |-> DomainOf[Lower[a]], forward |-> f]

(* mailbox_resolve: an identical row is confirmed with 200, else 409. *)
mailbox_resolve(rows, x) == rows \cap {x}

(* create_mailbox of an address that exists. *)
create_found(a, f) ==
    /\ boot = "up"
    /\ Rows(Lower[a]) # {}
    /\ confirmed' = confirmed \cup mailbox_resolve(Rows(Lower[a]), CreatedRow(a, f))
    /\ UNCHANGED <<boxes, bootVars, blind, requestVars, late, robbed, faults>>

(* create_mailbox: there is no such row, or the lookup fails. *)
create_mailbox(r, a, f) ==
    /\ Start(r, "insert", CreatedRow(a, f))
    /\ IF Rows(Lower[a]) # {} THEN Fault ELSE UNCHANGED faults
    /\ UNCHANGED <<boxes, bootVars, blind, names, late, robbed, confirmed>>

insert_mailbox(r) ==
    /\ pc[r] = "insert"
    /\ Rows(want[r].id) = {}
    /\ boxes' = boxes \cup {want[r]}
    /\ confirmed' = confirmed \cup {want[r]}
    /\ late' = late \cup Readers({want[r].id})
    /\ Answer(r)
    /\ UNCHANGED <<bootVars, blind, robbed, faults>>

(* The key refuses the row, or the statement fails: look again. *)
insert_refused(r) ==
    /\ pc[r] = "insert"
    /\ \/ Rows(want[r].id) # {} /\ UNCHANGED <<robbed, faults>>
       \/ Fault /\ robbed' = robbed \cup {r}
    /\ Goto(r, "resolve")
    /\ UNCHANGED <<boxes, bootVars, blind, late, confirmed>>

Mut_winner_by_domain(r) == {x \in Rows(want[r].id) : x.domain = want[r].domain}

(* What the second lookup finds. *)
Winner(r) == Rows(want[r].id)

(* The winner is confirmed or 409; no row is a 500. *)
resolve(r) ==
    /\ pc[r] = "resolve"
    /\ confirmed' = confirmed \cup mailbox_resolve(Winner(r), want[r])
    /\ robbed' = robbed \ {r}
    /\ Answer(r)
    /\ UNCHANGED <<boxes, bootVars, blind, late, faults>>

Mut_omitted_clears(x, given) == [x EXCEPT !.forward = IF given = {} THEN None ELSE CHOOSE f \in given : TRUE]

(* An omitted forward_to is taken from the row that was read; a domain_id    *)
(* must be the row's own.                                                    *)
Patched(x, given) == [x EXCEPT !.forward = IF given = {} THEN @ ELSE CHOOSE f \in given : TRUE]

(* patch_mailbox reads the row; a null forward_to is an omitted one. *)
patch_mailbox(r, x, given) ==
    /\ x \in boxes
    /\ Start(r, "update", Patched(x, given))
    /\ names' = IF given = {} THEN names ELSE names \cup {r}
    /\ UNCHANGED <<boxes, bootVars, blind, obsVars>>

(* Both columns are written; no row is updated if it is gone. *)
update_mailbox(r) ==
    /\ pc[r] = "update"
    /\ LET old == Rows(want[r].id)
       IN  IF old = {}
           THEN UNCHANGED <<boxes, confirmed>> /\ late' = late \ {r}
           ELSE /\ boxes' = (boxes \ old) \cup {want[r]}
                /\ confirmed' = (IF r \in names \cup late THEN confirmed \ old ELSE confirmed)
                                    \cup {want[r]}
                /\ late' = (late \cup Readers({want[r].id})) \ {r}
    /\ Goto(r, "reread")
    /\ UNCHANGED <<bootVars, blind, robbed, faults>>

(* 200, or 500 if the row has vanished. *)
reread(r) ==
    /\ pc[r] = "reread"
    /\ Answer(r)
    /\ UNCHANGED <<boxes, bootVars, blind, obsVars>>

(* Any other failing statement ends the request and changes nothing. *)
statement_fails(r) ==
    /\ pc[r] \in {"update", "resolve", "reread"}
    /\ Fault
    /\ late' = late \ {r}
    /\ robbed' = robbed \ {r}
    /\ Answer(r)
    /\ UNCHANGED <<boxes, bootVars, blind, confirmed>>

Delete(gone) ==
    LET S == {x.id : x \in gone}
    IN  /\ boot = "up"
        /\ gone # {}
        /\ boxes' = boxes \ gone
        /\ confirmed' = confirmed \ gone
        /\ late' = late \cup Readers(S)
        /\ robbed' = robbed \cup {r \in Requests : pc[r] = "resolve" /\ want[r].id \in S}
        /\ UNCHANGED <<bootVars, blind, requestVars, faults>>

delete_mailbox(i) == Delete(Rows(i))

(* The cascade follows domain_id, as it is spelled. *)
delete_domain(d) == Delete({x \in boxes : x.domain = d})

-----------------------------------------------------------------------------
Seeding == seed_mailbox \/ seed_fails \/ seed_done

Begin(r) ==
    \/ \E a \in Addresses, f \in Forwards : create_mailbox(r, a, f)
    \/ \E x \in boxes, given \in {{}} \cup {{f} : f \in Forwards \ {None}} : patch_mailbox(r, x, given)

Proceed(r) ==
    \/ insert_mailbox(r) \/ insert_refused(r) \/ resolve(r)
    \/ update_mailbox(r) \/ reread(r) \/ statement_fails(r)

AtOnce ==
    \/ \E a \in Addresses, f \in Forwards : create_found(a, f)
    \/ \E i \in Ids : delete_mailbox(i)
    \/ \E d \in Domains : delete_domain(d)

Next == Seeding \/ restart \/ AtOnce \/ \E r \in Requests : Begin(r) \/ Proceed(r)

Spec == Init /\ [][Next]_vars

-----------------------------------------------------------------------------
(* Properties *)

(* Every variable has its type; mailboxes are stored under lower-case        *)
(* addresses, where handle_rcpt looks them up, and each address once.        *)
TypeOK ==
    /\ boxes \in SUBSET Row
    /\ \A x, y \in boxes : x.id = y.id => x = y
    /\ boot \in {"seeding", "up", "refused", "broken"}
    /\ next \in 1 .. Len(Seeds) + 1
    /\ blind \in BOOLEAN
    /\ pc \in [Requests -> {"idle", "insert", "resolve", "update", "reread"}]
    /\ want \in [Requests -> Row]
    /\ names \in SUBSET Requests
    /\ late \in SUBSET Requests
    /\ robbed \in SUBSET Requests
    /\ confirmed \in SUBSET Row
    /\ faults \in Nat

(* The seed can be repeated over any database that seeds and requests leave  *)
(* behind, also with one address configured in two spellings: the primary    *)
(* key refuses a configured mailbox, and the boot with it, only when the     *)
(* very lookup of that entry failed (it refuses a stored record always).     *)
RefusedOnlyBlind == boot = "refused" => blind

(* What a create or a patch was answered 200 for stays stored, through races *)
(* and restarts, until the mailbox is deleted, a patch names another         *)
(* forward_to, or a patch writes back a row it had read before somebody else *)
(* wrote it: only such a late patch changes a forward_to it does not name.   *)
ConfirmedIsKept == confirmed \subseteq boxes

(* A create that lost its insert finds the winner when it looks again, and   *)
(* answers 200 or 409 and not 500, unless the winner was deleted meanwhile   *)
(* or a statement failed.                                                    *)
LosersFindTheWinner ==
    \A r \in Requests : pc[r] = "resolve" => Winner(r) # {} \/ r \in robbed
=============================================================================
