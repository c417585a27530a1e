------------------------------ MODULE MessageApi ------------------------------
(***************************************************************************)
(* The message endpoints of src/src/api.rs as their clients see them: a    *)
(* client that sends a mail with POST /mail and repeats the request when   *)
(* it is answered 500, and a client that reads a mailbox page by page      *)
(* while messages come and go.                                             *)
(*                                                                         *)
(* Both handlers are series of statements without a transaction.  The      *)
(* mailbox is the sender of the mail and the one that is read.             *)
(***************************************************************************)
EXTENDS Naturals, FiniteSets, Sequences

CONSTANTS
    Rcpts,        \* recipient addresses
    Addressed,    \* to, cc and bcc of the mail, one after the other
    Limits,       \* the limit parameters it asks for
    MaxLimit,     \* MAX_PAGE_LIMIT
    MaxMessages,  \* bound: messages that are ever stored
    MaxTries,     \* bound: how often the mail is posted
    MaxDeletes    \* bound: messages deleted through the API

Ids == 1 .. MaxMessages
MaxPages == MaxMessages + 2

ASSUME ConstantsAssumption ==
    /\ Addressed \in Seq(Rcpts)
    /\ Limits \subseteq Nat
    /\ MaxLimit \in Nat \ {0}
    /\ MaxMessages \in Nat /\ MaxTries \in Nat /\ MaxDeletes \in Nat

VARIABLES
    \* The database.
    messages,  \* ids of Message rows
    outbound,  \* Outbound rows of the mailbox: a message and a position in Addressed
    inbound,   \* messages with an Inbound row of the mailbox
    lastId,    \* the auto key
    \* POST /mail.
    send,      \* "idle", "store", "queue", "sent" (200) or "failed" (500)
    todo,      \* positions whose recipient has no row yet
    msg,       \* the message of this try
    tries,
    \* DELETE /messages/{id}.
    del,       \* "idle" or the statement that is next: "inbound", "outbound", "row"
    victim,    \* the message it deletes
    doomed,    \* the messages a DELETE has named so far
    \* The reader and its request.
    read,      \* "idle", "inbox", "sent", "get" or "done"
    query,     \* direction, limit and offset of the request
    ids,       \* the ids collected by the handler and not yet looked up
    items,     \* the ids of the messages it found
    \* Observations of the reader's walk.
    pages,     \* requests so far, counted up to MaxPages
    seen,      \* per message how often it was on a page
    passed,    \* the items of the last answer up to the end of its page
    stayed,    \* messages listed at its beginning that no DELETE has named
    removals,  \* statements that took rows of a message away during the walk
    arrivals   \* statements that gave a message a row of the mailbox

dbVars    == <<messages, outbound, inbound, lastId>>
sendVars  == <<send, todo, msg, tries>>
delVars   == <<del, victim, doomed>>
readVars  == <<read, query, ids, items>>
walkVars  == <<pages, seen, passed, stayed, removals, arrivals>>
vars      == <<dbVars, sendVars, delVars, readVars, walkVars>>

(* MessageDirection *)
Directions == {"both", "inbound", "outbound"}

NoQuery == [direction |-> "both", limit |-> 0, offset |-> 0]

Init ==
    /\ messages = {} /\ outbound = {} /\ inbound = {} /\ lastId = 0
    /\ send = "idle" /\ todo = {} /\ msg = 0 /\ tries = 0
    /\ del = "idle" /\ victim = 0 /\ doomed = {}
    /\ read = "idle" /\ query = NoQuery
    /\ ids = {} /\ items = {}
    /\ pages = 0 /\ seen = [m \in Ids |-> 0] /\ passed = {}
    /\ stayed = {} /\ removals = 0 /\ arrivals = 0

(* Mut_ operators are seeded bugs, each a variant of the definition after it. *)

(* want_in and want_out of load_mailbox_messages. *)
WantIn(d)  == d # "outbound"
WantOut(d) == d # "inbound"

Listed(d, in, out, ms) ==
    {m \in ms : (WantIn(d) /\ m \in in) \/ (WantOut(d) /\ \E r \in out : r.msg = m)}

Walking == read \notin {"idle", "done"}

(* What a statement means for the walk under way. *)
Watch ==
    LET added == ~(inbound' \subseteq inbound /\ outbound' \subseteq outbound)
        taken == ~(inbound \subseteq inbound' /\ outbound \subseteq outbound' /\ messages \subseteq messages')
    IN  /\ arrivals' = IF Walking /\ added THEN arrivals + 1 ELSE arrivals
        /\ removals' = IF Walking /\ taken THEN removals + 1 ELSE removals
        /\ UNCHANGED <<pages, seen, passed, stayed>>

-----------------------------------------------------------------------------
(* send_email *)

Mut_no_dedup == DOMAIN Addressed

(* A recipient that is named twice counts once. *)
recipients == {i \in DOMAIN Addressed : \A j \in 1 .. i - 1 : Addressed[j] # Addressed[i]}

(* The sender is a mailbox and the addresses parse; else the answer is 400   *)
(* or 409 and nothing is done.                                               *)
send_email ==
    /\ send \in {"idle", "failed"}
    /\ tries < MaxTries
    /\ tries' = tries + 1
    /\ recipients # {}
    /\ todo' = recipients
    /\ send' = "store"
    /\ UNCHANGED <<dbVars, msg, delVars, readVars, walkVars>>

(* enqueue_outbound: the message, once. *)
store_message ==
    /\ send = "store"
    /\ lastId < MaxMessages
    /\ lastId' = lastId + 1
    /\ msg' = lastId'
    /\ messages' = messages \cup {lastId'}
    /\ send' = "queue"
    /\ UNCHANGED <<outbound, inbound, todo, tries, delVars, readVars>>
    /\ Watch

Mut_from_zero ==
    /\ send = "queue"
    /\ \E i \in todo :
          /\ \A j \in todo : i <= j
          /\ outbound' = outbound \cup {[msg |-> msg, at |-> i - 1]}
          /\ todo' = todo \ {i}
    /\ send' = IF todo' = {} THEN "sent" ELSE "queue"
    /\ UNCHANGED <<messages, inbound, lastId, msg, tries, delVars, readVars>>
    /\ Watch

(* enqueue_outbound and enqueue_forward: a row per recipient, in order; the  *)
(* last one makes the answer 200.                                            *)
enqueue ==
    /\ send = "queue"
    /\ \E i \in todo :
          /\ \A j \in todo : i <= j
          /\ outbound' = outbound \cup {[msg |-> msg, at |-> i]}
          /\ todo' = todo \ {i}
    /\ send' = IF todo' = {} THEN "sent" ELSE "queue"
    /\ UNCHANGED <<messages, inbound, lastId, msg, tries, delVars, readVars>>
    /\ Watch

(* A statement fails: 500.  What is stored and queued stays. *)
send_fails ==
    /\ send \in {"store", "queue"}
    /\ send' = "failed"
    /\ todo' = {}
    /\ msg' = 0
    /\ UNCHANGED <<dbVars, tries, delVars, readVars, walkVars>>

-----------------------------------------------------------------------------
(* Mail that comes in, and deletion *)

(* handle_email stores a message and links it ... *)
receive ==
    /\ lastId < MaxMessages
    /\ lastId' = lastId + 1
    /\ messages' = messages \cup {lastId'}
    /\ inbound' = inbound \cup {lastId'}
    /\ UNCHANGED <<outbound, sendVars, delVars, readVars>>
    /\ Watch

(* ... or links one that it has found by its Message-ID. *)
link_known(m) ==
    /\ m \in messages \ inbound
    /\ inbound' = inbound \cup {m}
    /\ UNCHANGED <<messages, outbound, lastId, sendVars, delVars, readVars>>
    /\ Watch

(* delete_message finds the message and then takes three statements, for the *)
(* Inbound rows, the Outbound rows and the message; an error ends it at 500. *)
delete_message(m) ==
    /\ del = "idle"
    /\ Cardinality(doomed) < MaxDeletes
    /\ m \in messages
    /\ del' = "inbound"
    /\ victim' = m
    /\ doomed' = doomed \cup {m}
    /\ stayed' = stayed \ {m}
    /\ UNCHANGED <<dbVars, sendVars, readVars, pages, seen, passed, removals, arrivals>>

delete_inbound ==
    /\ del = "inbound"
    /\ inbound' = inbound \ {victim}
    /\ del' = "outbound"
    /\ UNCHANGED <<messages, outbound, lastId, sendVars, victim, doomed, readVars>>
    /\ Watch

delete_outbound ==
    /\ del = "outbound"
    /\ outbound' = {r \in outbound : r.msg # victim}
    /\ del' = "row"
    /\ UNCHANGED <<messages, inbound, lastId, sendVars, victim, doomed, readVars>>
    /\ Watch

delete_row ==
    /\ del = "row"
    /\ messages' = messages \ {victim}
    /\ del' = "idle"
    /\ victim' = 0
    /\ UNCHANGED <<outbound, inbound, lastId, sendVars, doomed, readVars>>
    /\ Watch

delete_fails ==
    /\ del # "idle"
    /\ del' = "idle"
    /\ victim' = 0
    /\ UNCHANGED <<dbVars, sendVars, doomed, readVars, walkVars>>

-----------------------------------------------------------------------------
(* The list endpoints *)

(* page_params clamps the limit. *)
page_params(n) == IF n < 1 THEN 1 ELSE IF n > MaxLimit THEN MaxLimit ELSE n

Ask(d, limit, offset) ==
    /\ query' = [direction |-> d, limit |-> limit, offset |-> offset]
    /\ read' = IF WantIn(d) THEN "inbox" ELSE "sent"
    /\ ids' = {} /\ items' = {}
    /\ pages' = IF pages < MaxPages THEN pages + 1 ELSE pages
    /\ UNCHANGED <<dbVars, sendVars, delVars>>

(* A client begins to read a mailbox at its first page. *)
FirstPage(d, limit) ==
    /\ read = "idle"
    /\ Ask(d, limit, 0)
    /\ stayed' = Listed(d, inbound, outbound, messages) \ {victim}
    /\ UNCHANGED <<seen, passed, removals, arrivals>>

(* The parsed query names the direction, and its limit is taken as it is ... *)
list_mailbox_messages(d, n) == FirstPage(d, n)

(* ... but if the query does not parse, all messages are listed and the      *)
(* limit is clamped.                                                         *)
list_unparsed(n) == FirstPage("both", page_params(n))

list_mailbox_inbox(n) == FirstPage("inbound", page_params(n))

list_mailbox_sent(n) == FirstPage("outbound", page_params(n))

(* load_mailbox_messages: the Inbound rows, the Outbound rows ... *)
load_inbound ==
    /\ read = "inbox"
    /\ ids' = inbound
    /\ read' = IF WantOut(query.direction) THEN "sent" ELSE "get"
    /\ UNCHANGED <<dbVars, sendVars, delVars, query, items, walkVars>>

load_outbound ==
    /\ read = "sent"
    /\ ids' = ids \cup {r.msg : r \in outbound}
    /\ read' = "get"
    /\ UNCHANGED <<dbVars, sendVars, delVars, query, items, walkVars>>

(* ... and, in the order of their ids, the messages that still exist. *)
load_message ==
    /\ read = "get"
    /\ \E m \in ids :
          /\ \A k \in ids : m <= k
          /\ items' = IF m \in messages THEN items \cup {m} ELSE items
          /\ ids' = ids \ {m}
    /\ UNCHANGED <<dbVars, sendVars, delVars, read, query, walkVars>>

(* The position of m among the items, from 0. *)
Position(m) == Cardinality({k \in items : k < m})

Mut_next_skips_one(end) == end + 1

(* Page::from_all: where the next page begins. *)
next_offset(end) == end

Mut_more_if_full(end) == Cardinality({m \in items : Position(m) < end}) = end

(* Page::from_all: whether there is a next page. *)
has_more(end) == Cardinality(items) > end

(* The page is answered; the client asks for the next one, if there is one.  *)
page ==
    LET end == query.offset + query.limit
    IN  /\ read = "get"
        /\ ids = {}
        /\ seen' = [m \in Ids |-> IF m \in items /\ query.offset <= Position(m) /\ Position(m) < end
                                  THEN seen[m] + 1 ELSE seen[m]]
        /\ passed' = {m \in items : Position(m) < end}
        /\ IF has_more(end)
           THEN Ask(query.direction, query.limit, next_offset(end))
           ELSE /\ read' = "done"
                /\ query' = NoQuery
                /\ items' = {}
                /\ pages' = 0
                /\ UNCHANGED <<dbVars, sendVars, delVars, ids>>
        /\ UNCHANGED <<stayed, removals, arrivals>>

-----------------------------------------------------------------------------
Send == send_email \/ store_message \/ enqueue \/ send_fails

Mail ==
    \/ receive
    \/ \E m \in Ids : link_known(m) \/ delete_message(m)
    \/ delete_inbound \/ delete_outbound \/ delete_row \/ delete_fails

Load == load_inbound \/ load_outbound \/ load_message \/ page

List(n) ==
    \/ \E d \in Directions : list_mailbox_messages(d, n)
    \/ list_unparsed(n) \/ list_mailbox_inbox(n) \/ list_mailbox_sent(n)

Read == Load \/ \E n \in Limits : List(n)

Next == Send \/ Mail \/ Read

Spec == Init /\ [][Next]_vars

-----------------------------------------------------------------------------
(* Properties *)

(* Every variable has its type. *)
TypeOK ==
    /\ messages \in SUBSET Ids /\ inbound \in SUBSET Ids /\ doomed \in SUBSET Ids
    /\ outbound \in SUBSET [msg : Ids, at : DOMAIN Addressed]
    /\ lastId \in Ids \cup {0} /\ msg \in Ids \cup {0} /\ victim \in Ids \cup {0}
    /\ del \in {"idle", "inbound", "outbound", "row"}
    /\ send \in {"idle", "store", "queue", "sent", "failed"}
    /\ todo \in SUBSET DOMAIN Addressed
    /\ tries \in Nat /\ removals \in Nat /\ arrivals \in Nat
    /\ read \in {"idle", "inbox", "sent", "get", "done"}
    /\ query \in [direction : Directions, limit : Nat, offset : Nat]
    /\ ids \in SUBSET Ids /\ items \in SUBSET Ids /\ stayed \in SUBSET Ids /\ passed \in SUBSET Ids
    /\ seen \in [Ids -> Nat] /\ pages \in 0 .. MaxPages

RowsFor(x) == {r \in outbound : Addressed[r.at] = x}

(* After a 200 every recipient has a job of the message it names, unless     *)
(* a DELETE names the message; and over all tries nobody has more jobs than  *)
(* the mail was posted, although a try that fails leaves jobs behind.        *)
SentToEachOnce ==
    /\ send = "sent" => \A x \in {Addressed[i] : i \in DOMAIN Addressed} :
          (\E r \in RowsFor(x) : r.msg = msg) \/ msg \in doomed
    /\ \A x \in Rcpts : Cardinality(RowsFor(x)) <= tries

Duplicates == Cardinality({m \in Ids : seen[m] > 1})

(* A reader that goes from page to page misses no more of the messages that  *)
(* were there all the time than statements took a row away meanwhile, and    *)
(* gets no more of them twice than statements added one.                     *)
WalkIsComplete ==
    read = "done" =>
        /\ Cardinality({m \in stayed : seen[m] = 0}) <= removals
        /\ Duplicates <= arrivals

(* With a limit of at least 1 the reader needs no more requests than there   *)
(* are pages of the messages ever stored.  "limit is clamped to [1,          *)
(* MAX_PAGE_LIMIT]" of page_params is not true of a parsed query of          *)
(* list_mailbox_messages: with limit=0 every page is empty and names itself  *)
(* as the next one, for as long as the mailbox has a message.                *)
WalkIsShort ==
    Walking => IF query.limit = 0
               THEN query.offset = 0 /\ passed = {}
               ELSE pages <= 1 \/ (pages - 1) * query.limit < lastId
=============================================================================
