----------------------------- MODULE InboundMail -----------------------------
(***************************************************************************)
(* The inbound SMTP handler of src/src/email.rs and the endpoints that     *)
(* change the rows it reads and writes.                                    *)
(*                                                                         *)
(* A session collects the recipients it accepted; handle_email then looks  *)
(* the Message-ID up, stores the message unless a copy was found, writes   *)
(* one Inbound row per recipient and enqueues a forward for every mailbox  *)
(* that asks for one.  Each of these is a database statement of its own,   *)
(* with no transaction around them: sessions interleave with each other    *)
(* and with the API.  (Messages sent through the API carry no Message-ID   *)
(* and are never found by the lookup; they are left out.)                  *)
(***************************************************************************)
EXTENDS Integers, Sequences, FiniteSets, Functions

CONSTANTS
    Sessions,     \* SMTP connections, over all listeners
    Mailboxes,    \* addresses that can be provisioned
    Unknown,      \* the recipient "unknown", no valid address
    Keys,         \* Message-ID headers
    NoKey,        \* no usable Message-ID
    Ids,          \* ids a Message row can get; the auto key is never reused
    NoId,         \* no message_id yet
    MaxRcpts,     \* bound: recipients accepted between two mails
    MaxMails,     \* bound: DATA payloads in a behaviour
    MaxFaults     \* bound: failed statements and killed sessions

Rcpts == Mailboxes \cup {Unknown}

ASSUME ConstantsAssumption ==
    /\ IsFiniteSet(Sessions) /\ IsFiniteSet(Ids)
    /\ NoId \notin Ids
    /\ Unknown \notin Mailboxes
    /\ NoKey \notin Keys
    /\ MaxRcpts \in Nat
    /\ MaxMails \in Nat
    /\ MaxFaults \in Nat

VARIABLES
    \* The database.
    box,         \* Mailbox rows: "absent", "store" (no forward_to) or "forward"
    plain,       \* mailboxes that had no forward_to at some time: a PATCH that saw it
                 \* may still be under way
    msg,         \* Message rows: "none", "stored", "unlinked" (delete_message has
                 \* removed its link rows) or "deleted"
    header,      \* Message.message_id_header
    links,       \* message and recipient of every Inbound row
    \* The sessions.
    pc,          \* where handle_email is suspended, "idle" between commands
    recipients,  \* ZonedMailHandler.recipients
    to,          \* the recipients handle_email took
    rest,        \* those its current loop has not reached
    key,         \* the Message-ID of the payload
    id,          \* message_id
    \* Observations.
    owed,        \* per session and mailbox: RCPT commands answered 250 since the last
                 \* payload, minus Inbound rows written
    spare,       \* per session and mailbox: Inbound rows written for the payload,
                 \* minus forward jobs enqueued
    wiped,       \* per session: recipients whose row was deleted after it wrote them
    promised,    \* links of acknowledged payloads that nothing deleted since
    blind,       \* failed lookups
    mails, faults

dbVars      == <<box, plain, msg, header, links>>
sessionVars == <<pc, recipients, to, rest, key, id>>
ghostVars   == <<owed, spare, wiped, promised, blind>>
obsVars     == <<ghostVars, mails, faults>>
vars        == <<dbVars, sessionVars, obsVars>>

Fault == faults < MaxFaults /\ faults' = faults + 1

Init ==
    /\ box = [b \in Mailboxes |-> "absent"]
    /\ plain = {}
    /\ msg = [i \in Ids |-> "none"]
    /\ header = [i \in Ids |-> NoKey]
    /\ links = {}
    /\ pc = [s \in Sessions |-> "idle"]
    /\ recipients = [s \in Sessions |-> <<>>]
    /\ to = [s \in Sessions |-> <<>>]
    /\ rest = [s \in Sessions |-> <<>>]
    /\ key = [s \in Sessions |-> NoKey]
    /\ id = [s \in Sessions |-> NoId]
    /\ owed = [s \in Sessions |-> [b \in Mailboxes |-> 0]]
    /\ spare = [s \in Sessions |-> [b \in Mailboxes |-> 0]]
    /\ wiped = [s \in Sessions |-> {}]
    /\ promised = {}
    /\ blind = 0
    /\ mails = 0
    /\ faults = 0

-----------------------------------------------------------------------------
(* The endpoints *)

(* The row of b gets this forward_to. *)
SetForward(b, forward_to) ==
    /\ box' = [box EXCEPT ![b] = forward_to]
    /\ plain' = IF forward_to = "store" THEN plain \cup {b} ELSE plain
    /\ UNCHANGED <<msg, header, links, sessionVars, obsVars>>

create_mailbox(b, forward_to) ==
    /\ box[b] = "absent"
    /\ SetForward(b, forward_to)

(* patch_mailbox reads the row and then writes it back with the forward_to   *)
(* it was given, or with the one it read, out of date by now: a PATCH never  *)
(* asks for "store", but it may have read it.                                *)
patch_mailbox(b, forward_to) ==
    /\ box[b] \notin {"absent", forward_to}
    /\ forward_to = "store" => b \in plain
    /\ SetForward(b, forward_to)

(* Inbound rows are deleted. *)
Unlink(gone) ==
    /\ links' = links \ gone
    /\ promised' = promised \ gone
    /\ wiped' = [s \in Sessions |-> wiped[s] \cup {r \in Rcpts : <<id[s], r>> \in links \cap gone}]
    /\ UNCHANGED <<owed, spare, blind, mails, faults>>

(* delete_mailbox, or delete_domain with its mailboxes: the Inbound rows go too. *)
delete_mailboxes(S) ==
    /\ S # {}
    /\ \A b \in S : box[b] # "absent"
    /\ box' = [b \in Mailboxes |-> IF b \in S THEN "absent" ELSE box[b]]
    /\ Unlink(Ids \X S)
    /\ UNCHANGED <<plain, msg, header, sessionVars>>

(* delete_message, once it has found the row: its links first ... *)
delete_message_links(i) ==
    /\ msg[i] \in {"stored", "unlinked"}
    /\ msg' = [msg EXCEPT ![i] = "unlinked"]
    /\ Unlink({i} \X Rcpts)
    /\ UNCHANGED <<box, plain, header, sessionVars>>

(* ... then the row. *)
delete_message_row(i) ==
    /\ msg[i] = "unlinked"
    /\ msg' = [msg EXCEPT ![i] = "deleted"]
    /\ header' = [header EXCEPT ![i] = NoKey]
    /\ UNCHANGED <<box, plain, links, sessionVars, obsVars>>

-----------------------------------------------------------------------------
(* The session *)

Goto(s, label) == pc' = [pc EXCEPT ![s] = label]

(* handle_rcpt accepts a provisioned mailbox.  For any other address, or if  *)
(* the lookup fails, it answers 5xx and changes nothing.                     *)
handle_rcpt(s, b) ==
    /\ pc[s] = "idle"
    /\ Len(recipients[s]) < MaxRcpts
    /\ box[b] # "absent"
    /\ recipients' = [recipients EXCEPT ![s] = Append(@, b)]
    /\ owed' = [owed EXCEPT ![s][b] = @ + 1]
    /\ UNCHANGED <<dbVars, pc, to, rest, key, id, spare, wiped, promised, blind, mails, faults>>

(* A connection ends and another takes its place: new_handler.  (RSET and a  *)
(* second MAIL reach no hook of the handler and leave recipients as it is.)  *)
disconnect(s) ==
    /\ pc[s] = "idle"
    /\ recipients[s] # <<>>
    /\ recipients' = [recipients EXCEPT ![s] = <<>>]
    /\ owed' = [owed EXCEPT ![s] = [b \in Mailboxes |-> 0]]
    /\ UNCHANGED <<dbVars, pc, to, rest, key, id, spare, wiped, promised, blind, mails, faults>>

(* Mut_ operators are seeded bugs, each a variant of the definition after it. *)
Mut_recipients_kept(s, k) ==
    /\ pc[s] = "idle"
    /\ mails < MaxMails
    /\ mails' = mails + 1
    /\ LET taken == IF recipients[s] = <<>> THEN <<Unknown>> ELSE recipients[s]
       IN  to' = [to EXCEPT ![s] = taken] /\ rest' = [rest EXCEPT ![s] = taken]
    /\ key' = [key EXCEPT ![s] = k]
    /\ spare' = [spare EXCEPT ![s] = [b \in Mailboxes |-> 0]]
    /\ Goto(s, IF k = NoKey THEN "store" ELSE "lookup")
    /\ UNCHANGED <<dbVars, recipients, id, owed, wiped, promised, blind, faults>>

(* handle_email takes the recipients; without any the mail goes to Unknown. *)
handle_email(s, k) ==
    /\ pc[s] = "idle"
    /\ mails < MaxMails
    /\ mails' = mails + 1
    /\ LET taken == IF recipients[s] = <<>> THEN <<Unknown>> ELSE recipients[s]
       IN  to' = [to EXCEPT ![s] = taken] /\ rest' = [rest EXCEPT ![s] = taken]
    /\ recipients' = [recipients EXCEPT ![s] = <<>>]
    /\ key' = [key EXCEPT ![s] = k]
    /\ spare' = [spare EXCEPT ![s] = [b \in Mailboxes |-> 0]]
    /\ Goto(s, IF k = NoKey THEN "store" ELSE "lookup")
    /\ UNCHANGED <<dbVars, id, owed, wiped, promised, blind, faults>>

(* The stored messages with this Message-ID. *)
Copies(k) == {i \in Ids : msg[i] \in {"stored", "unlinked"} /\ header[i] = k}

lookup_found(s) ==
    /\ pc[s] = "lookup"
    /\ \E i \in Copies(key[s]) : id' = [id EXCEPT ![s] = i]
    /\ Goto(s, "link")
    /\ UNCHANGED <<dbVars, recipients, to, rest, key, obsVars>>

Mut_lookup_misses(s) ==
    /\ pc[s] = "lookup"
    /\ Goto(s, "store")
    /\ UNCHANGED <<dbVars, recipients, to, rest, key, id, obsVars>>

lookup_none(s) ==
    /\ pc[s] = "lookup"
    /\ Copies(key[s]) = {}
    /\ Goto(s, "store")
    /\ UNCHANGED <<dbVars, recipients, to, rest, key, id, obsVars>>

(* A failed lookup is logged, and the message stored as if none was found. *)
lookup_fails(s) ==
    /\ pc[s] = "lookup"
    /\ Fault
    /\ blind' = blind + 1
    /\ Goto(s, "store")
    /\ UNCHANGED <<dbVars, recipients, to, rest, key, id, owed, spare, wiped, promised, mails>>

store(s) ==
    /\ pc[s] = "store"
    /\ \E i \in Ids :
          /\ msg[i] = "none"
          /\ msg' = [msg EXCEPT ![i] = "stored"]
          /\ header' = [header EXCEPT ![i] = key[s]]
          /\ id' = [id EXCEPT ![s] = i]
    /\ Goto(s, "link")
    /\ UNCHANGED <<box, plain, links, recipients, to, rest, key, obsVars>>

(* An Inbound row for the next recipient, whether or not its mailbox and the *)
(* message are still there; after the last one the forwarding loop starts.   *)
NextLink(s) ==
    IF Len(rest[s]) = 1
    THEN Goto(s, "load") /\ rest' = [rest EXCEPT ![s] = to[s]]
    ELSE UNCHANGED pc /\ rest' = [rest EXCEPT ![s] = Tail(@)]

Add(count, r, n) == [b \in Mailboxes |-> IF b = r THEN count[b] + n ELSE count[b]]

link(s) ==
    /\ pc[s] = "link"
    /\ NextLink(s)
    /\ LET r == Head(rest[s])
       IN  /\ links' = links \cup {<<id[s], r>>}
           /\ owed' = [owed EXCEPT ![s] = Add(@, r, -1)]
           /\ spare' = [spare EXCEPT ![s] = Add(@, r, 1)]
           /\ wiped' = [wiped EXCEPT ![s] = @ \ {r}]
    /\ UNCHANGED <<box, plain, msg, header, recipients, to, key, id, promised, blind, mails, faults>>

(* handle_email returns: the session is back between commands. *)
Return(s) ==
    /\ Goto(s, "idle")
    /\ to' = [to EXCEPT ![s] = <<>>]
    /\ rest' = [rest EXCEPT ![s] = <<>>]
    /\ key' = [key EXCEPT ![s] = NoKey]
    /\ id' = [id EXCEPT ![s] = NoId]
    /\ wiped' = [wiped EXCEPT ![s] = {}]
    /\ owed' = [owed EXCEPT ![s] = [b \in Mailboxes |-> 0]]

Mut_link_error_ignored(s) ==
    /\ pc[s] = "link"
    /\ Fault
    /\ NextLink(s)
    /\ UNCHANGED <<dbVars, recipients, to, key, id, ghostVars, mails>>

(* Storing the message or a link fails: handle_email answers 5xx and leaves  *)
(* behind what it has written.                                               *)
abort(s) ==
    /\ pc[s] \in {"store", "link"}
    /\ Fault
    /\ Return(s)
    /\ UNCHANGED <<dbVars, recipients, spare, promised, blind, mails>>

(* On to the next recipient; after the last one the payload is answered 250. *)
Advance(s) ==
    IF Len(rest[s]) = 1
    THEN /\ Return(s)
         /\ promised' = promised \cup ({id[s]} \X (Range(to[s]) \ wiped[s]))
    ELSE /\ Goto(s, "load")
         /\ rest' = [rest EXCEPT ![s] = Tail(@)]
         /\ UNCHANGED <<to, key, id, wiped, owed, promised>>

(* The forwarding loop loads the recipient's mailbox ... *)
Forwards(r) == r \in Mailboxes /\ box[r] = "forward"

load_forward(s) ==
    /\ pc[s] = "load"
    /\ Forwards(Head(rest[s]))
    /\ Goto(s, "enqueue")
    /\ UNCHANGED <<dbVars, recipients, to, rest, key, id, obsVars>>

load_none(s) ==
    /\ pc[s] = "load"
    /\ ~Forwards(Head(rest[s]))
    /\ Advance(s)
    /\ UNCHANGED <<dbVars, recipients, spare, blind, mails, faults>>

Mut_enqueue_again(s) ==
    /\ pc[s] = "enqueue"
    /\ spare[s][Head(rest[s])] >= 0
    /\ spare' = [spare EXCEPT ![s] = Add(@, Head(rest[s]), -1)]
    /\ Goto(s, "load")
    /\ UNCHANGED <<dbVars, recipients, to, rest, key, id, owed, wiped, promised, blind, mails, faults>>

(* ... and enqueues an Outbound job for it. *)
enqueue_forward(s) ==
    /\ pc[s] = "enqueue"
    /\ spare' = [spare EXCEPT ![s] = Add(@, Head(rest[s]), -1)]
    /\ Advance(s)
    /\ UNCHANGED <<dbVars, recipients, blind, mails, faults>>

(* Forwarding is best effort: a failure of either statement is passed over. *)
forward_fails(s) ==
    /\ pc[s] \in {"load", "enqueue"}
    /\ Fault
    /\ Advance(s)
    /\ UNCHANGED <<dbVars, recipients, spare, blind, mails>>

(* The process dies, or the session's task is dropped, at an await. *)
crash(s) ==
    /\ pc[s] # "idle"
    /\ Fault
    /\ Return(s)
    /\ UNCHANGED <<dbVars, recipients, spare, promised, blind, mails>>

-----------------------------------------------------------------------------
Session(s) ==
    \/ \E b \in Mailboxes : handle_rcpt(s, b)
    \/ \E k \in Keys \cup {NoKey} : handle_email(s, k)
    \/ disconnect(s)
    \/ lookup_found(s) \/ lookup_none(s) \/ lookup_fails(s)
    \/ store(s) \/ link(s) \/ abort(s)
    \/ load_forward(s) \/ load_none(s) \/ enqueue_forward(s) \/ forward_fails(s)
    \/ crash(s)

Api ==
    \/ \E b \in Mailboxes, f \in {"store", "forward"} : create_mailbox(b, f) \/ patch_mailbox(b, f)
    \/ \E S \in SUBSET Mailboxes : delete_mailboxes(S)
    \/ \E i \in Ids : delete_message_links(i) \/ delete_message_row(i)

Next == Api \/ \E s \in Sessions : Session(s)

Spec == Init /\ [][Next]_vars

-----------------------------------------------------------------------------
(* Properties *)

(* Every variable has its type. *)
TypeOK ==
    /\ box \in [Mailboxes -> {"absent", "store", "forward"}]
    /\ plain \in SUBSET Mailboxes
    /\ msg \in [Ids -> {"none", "stored", "unlinked", "deleted"}]
    /\ header \in [Ids -> Keys \cup {NoKey}]
    /\ links \in SUBSET (Ids \X Rcpts)
    /\ pc \in [Sessions -> {"idle", "lookup", "store", "link", "load", "enqueue"}]
    /\ recipients \in [Sessions -> Seq(Mailboxes)]
    /\ to \in [Sessions -> Seq(Rcpts)]
    /\ rest \in [Sessions -> Seq(Rcpts)]
    /\ key \in [Sessions -> Keys \cup {NoKey}]
    /\ id \in [Sessions -> Ids \cup {NoId}]
    /\ \A s \in Sessions : pc[s] # "idle" => to[s] # <<>> /\ rest[s] # <<>>
    /\ \A s \in Sessions : pc[s] \in {"link", "load", "enqueue"} => id[s] \in Ids
    /\ owed \in [Sessions -> [Mailboxes -> Int]]
    /\ spare \in [Sessions -> [Mailboxes -> Int]]
    /\ wiped \in [Sessions -> SUBSET Rcpts]
    /\ promised \in SUBSET (Ids \X Rcpts)
    /\ blind \in Nat /\ mails \in Nat /\ faults \in Nat

(* The sessions that found no copy of k, or failed to look, and will store one. *)
Storing(k) == {s \in Sessions : pc[s] = "store" /\ key[s] = k}

(* README.md has a Message-ID stored once.  It is not: sessions that look it *)
(* up before one of them inserts all store a copy.  What holds is how far    *)
(* that can go: the copies of one Message-ID, stored or about to be, are     *)
(* never more than the sessions that race, plus the lookups that failed, so  *)
(* that mail relayed one session after the other is stored once.             *)
DuplicatesBounded ==
    \A k \in Keys : Cardinality(Copies(k)) + Cardinality(Storing(k)) <= Cardinality(Sessions) + blind

(* A mailbox never gets an Inbound row without a RCPT of its own, accepted   *)
(* on this connection since the previous payload: not a row of another mail, *)
(* nor two for one.                                                          *)
OneRowPerRcpt == \A s \in Sessions, b \in Mailboxes : owed[s][b] >= 0

(* A mail is forwarded at most once for each Inbound row of the mailbox, and *)
(* only after the row was written.                                           *)
ForwardedOnce == \A s \in Sessions, b \in Mailboxes : spare[s][b] >= 0

(* A 250 to a payload means that every recipient it was accepted for,        *)
(* Unknown included, has its Inbound row, until that row is deleted.         *)
AckedIsLinked == promised \subseteq links

(* The strengthening that makes AckedIsLinked inductive: of the recipients   *)
(* taken, each one is still to be linked, linked, or was unlinked since.     *)
LinkedSoFar ==
    /\ \A s \in Sessions : pc[s] \in {"lookup", "store"} => rest[s] = to[s]
    /\ \A s \in Sessions : pc[s] \in {"link", "load", "enqueue"} =>
          \A r \in Range(to[s]) :
              \/ pc[s] = "link" /\ r \in Range(rest[s])
              \/ r \in wiped[s]
              \/ <<id[s], r>> \in links

(* What a comment says and the code does not do.  delete_message: "Remove    *)
(* link rows first so no dangling references remain": no Inbound row points  *)
(* at a message that was deleted.                                            *)
NoDanglingLinks == \A i \in Ids, r \in Rcpts : <<i, r>> \in links => msg[i] # "deleted"
=============================================================================
