# zonemail: TLA+ models, model checking and proofs

zonemail is a self-hosted mail daemon: it receives mail over SMTP for the
mailboxes it has provisioned, stores it, forwards it and sends outbound mail
from a durable queue, answers DNS for its zones, and is driven over an HTTP API.
This directory models the parts of it in which several actors change shared
state: the outbound queue, the listener control plane, the inbound handler, the
message endpoints, the provisioning of mailboxes, domains and DNS records, and
token verification with its cached key set; and the role policy, an algorithm.
Paths below are relative to the repository (`src/src/send.rs` is the crate's
`send.rs`); `PROJECT.json` maps every definition to the lines it models.

## 1. Inventory

| Component | State it keeps | Operations | Hard behaviour |
|---|---|---|---|
| Outbound queue and worker (`send.rs`, `db.rs`) | `Message`, `Outbound`, `DeliveryStatus` rows; the worker's locals between awaits | `enqueue_outbound`, `enqueue_forward`, `reclaim_in_progress`, `drain_once`, `claim`, `deliver_one`/`deliver_hosts`, `record_delivery`, `fail_or_requeue` | crash between SMTP acceptance and the `Delivered` mark; lost replies; several workers on one database; rows deleted under the worker; retries at the cap |
| Service manager (`services.rs`) | one slot (status, `JoinHandle`) per listener, behind a mutex | `start`, `stop`, `list`, `boot`, `apply_mode`, `stop_all` | loops of critical sections that interleave; `abort()` is asynchronous; a task's end is never written back |
| Inbound SMTP handler (`email.rs`) | `recipients` of each connection; `Message` and `Inbound` rows | `handle_rcpt`, `handle_email`, `new_handler` | look-up-then-insert de-duplication; a series of statements with no transaction; failures half way |
| Messages API (`api.rs`) | `Message` and its link rows | `send_email`, `delete_message`, listings | a send that fails half way and is repeated; deletes in several statements; pages cut from a list that changes |
| Provisioning API (`api.rs`, `db.rs`) | `Domain`, `Mailbox`, `Record` rows | create, patch, delete, with cascades | check-then-insert and read-modify-write races; two spellings of a name |
| Authentication (`auth/`) | cached key set with its time of fetch; discovered location; role table | `enforce`, `verify`, `resolve`, `spawn_refresh`; `AuthPolicy::build`, `allows` | fetches that overtake each other, rotation, outages before and after the first set; roles that extend each other in cycles |
| DNS server (`dns.rs`) | none | answer a question from the database | - |
| Configuration, seeding, boot (`config.rs`, `app.rs`, `main.rs`, `runtime.rs`) | loaded once; seeded rows | layering, `seed_from_config`, start and shutdown | a second boot over seeded rows |

How they interact: the API and the inbound handler are the producers of the
queue (they share `enqueue_forward`); the worker, the handler and the API share
the database and nothing else, each cloning a connection handle, so every
statement is a point where the others may run; the API and `main` share the
service manager through its mutex.

What makes each part correct:

* queue: a job in the queue is delivered or given up, never silently lost; it
  is sent again only when a failure makes that unavoidable; it is not retried
  early, nor more often than the cap allows; a settled job stays settled;
* service manager: no listener escapes control, the status and the handle of a
  slot agree, a mode that was asked for is reached, a stopped port is released;
* inbound handler: what was answered 250 is stored and linked for all its
  recipients, nobody gets a mail that was not addressed to them, duplicates are
  bounded, a mail is forwarded once;
* messages API: a mail answered 200 is queued once for each recipient, a reader
  that follows `next_offset` sees everything and comes to an end;
* provisioning: a create that was confirmed is stored, racing creates agree, a
  record belongs to a provisioned domain, a boot that comes up has its configuration;
* authentication: a superseded key set goes out of use within a known time, an
  outage opens nothing that was closed, a role has the grants it is configured
  with or inherits and no other.

The list `hazards` in `PROJECT.json` names the lines where these can go wrong.

## 2. Modules

| Module | Content |
|---|---|
| `OutboundQueue` | The queue: producers, deletes, any number of workers |
| `JobLifecycle` | Abstract specification: what the queue promises about a job |
| `MCOutboundQueue` | Instances for TLC (assignment of jobs to messages and senders, symmetry) |
| `OutboundQueueProofs` | Theorems for any number of workers, for one worker, and that `OutboundQueue` implements `JobLifecycle` |
| `ServiceManager`, `MCServiceManager`, `ServiceManagerProofs` | The listener control plane |
| `InboundMail`, `MCInboundMail`, `InboundMailProofs` | The inbound handler and the endpoints that change its rows |
| `ZoneRecords`, `MCZoneRecords`, `ZoneRecordsProofs` | Domains and DNS records: their endpoints, and the seed at boot |
| `Mailboxes`, `MCMailboxes`, `MailboxesProofs` | The same for mailboxes |
| `MessageApi`, `MCMessageApi`, `MessageApiProofs` | `POST /mail`, the list endpoints and `DELETE /messages/{id}` as their clients see them |
| `KeyCache`, `KeyCacheProofs` | Token verification and the cached key set |
| `AuthPolicy`, `AuthPolicyProofs` | Roles, grants and inheritance |
| `AuthService`, `MCAuthService` | Their composition, as `AuthService::build` makes it |

### OutboundQueue

A step is what the code does between two awaits: one statement, one claim
transaction, one MX lookup, one SMTP hand-off. `pc[w]` names the await at which
`run_outbound_worker` is suspended; `todo`, `batch`, `cur`, `copy` and `left`
are its locals (the rows of the `InProgress` scan, the due rows, the claimed
job, the value of `attempts` in the claimed copy, the targets left). Rows live
in `msg`, `status`, `attempts`, `next_at` and `audited`. Time is abstracted:
`next_at` is `"later"` after a backoff until `elapse`. An update by key changes
nothing if the row is gone (`Update`). Any statement can fail (`*_fails`), the
process can be killed at any await (`crash`), a peer can accept a mail whose
answer is lost (`send_reply_lost`). `accepted`, `torn` and `stolen` only
observe: acceptances by a peer, acceptances that a failure kept from becoming
`Delivered`, and reclaims of a row that was not an orphan.

`enqueue_forward` is the second statement of both producers. It is enabled for
any message stored at some time, deleted or not: the producer holds an id and
nothing checks that it still exists.

### JobLifecycle

A job is pending, then delivered, failed or removed. It is delivered only after
a peer accepted it, given up when its counter reaches `MaxTries`, and leaves a
terminal phase only by deletion. `OutboundQueue` maps `status` to `phase`
(`PhaseOf`), `accepted` to `sends` and `attempts` to `tries`; claims, scans,
reclaims, audit rows and crashes are stuttering. The comment on `OutboundStatus`
(`db.rs:446`) describes this lifecycle with `max_attempts` for `MaxTries`; the queue
implements it with `max_attempts + 1`, and the run `queue_retry_cap` shows that it is
not the documented number.

### ServiceManager

`start` and `stop` are the critical sections under the mutex; `boot` and
`apply_mode` (with `stop_all`, which is the loop of mode `off`) are callers'
loops that take the lock once per service and can interleave at each step.
Listener tasks have a life of their own: `bind`, `bind_fails`, `listener_dies`,
and, some time after `abort()`, `drop_aborted`. The endpoints' answers and the
parsing of service names are left out.

### InboundMail

`pc[s]` is the await at which `handle_email` of session `s` is suspended; `to`
and `rest` are the recipients taken and those the current loop has not reached.
A mail has a Message-ID (`Keys`) or none that is usable (`NoKey`). The observers
are `owed` (RCPTs accepted minus rows written), `spare` (rows written minus
forwards enqueued), `promised` (links of acknowledged payloads nobody deleted),
`wiped` and `blind` (failed lookups). `plain` stands for the PATCH requests under
way that have read a mailbox without `forward_to` and may write that back.

### ZoneRecords

`create_domain`, `create_record` and `patch_record` are requests whose statements
interleave: `pc[r]` is the statement a request executes next, `want[r]` the row it
is going to write, `target[r]` the record it patches. A record's type and value
are one `Values` element, since the code only compares them together. Domain names
have a spelling (`Lower` is `to_lowercase`): records are looked up and stored under the
lower-case name, domains and seeds under the name as written. `boot` and `todo`
are the seed of a boot, which the endpoints wait for. `seed_domain` is a lookup that
may fail, which counts as no row (`domain_exists`), and an insert, which the primary
key refuses if the row is there after all. A boot ends "refused" (that key, or the
unique index of records), "broken" (a failed insert, or a TLS identity that cannot be
built once everything is seeded, `identity_fails`) or "up". `uprooted`, `robbed`, `strays`
and `confirmed` only observe. A patch holds all columns from its read to its
write, so the model contains the lost update of two patches of one record.

### Mailboxes

Built like `ZoneRecords`. A row is an address, a domain and a `forward_to`. Spelling
matters twice: `SeedRow` stores the lower-case address with the domain as it was
written in the configuration, `CreatedRow` with the lower-case domain. A lookup of the
seed may fail; `blind` observes that the last one did. A request
that is answered from its first read has no state of its own (`create_found`,
`delete_mailbox`, `delete_domain`, whose lookup and delete are one step, because a
delete of rows that are gone by then changes nothing); a create that finds nothing, and
a patch, go on statement by statement. `given` is the forward_to a patch names, as
a set of at most one: null and absent are the same to the code. `late` observes the
patches whose row somebody else wrote or deleted since they read it.

What the model shows beside its properties, as consequences of the code: a create
that repeats a mailbox seeded under an upper-case domain is answered 409 although the
configuration is identical, and deleting the lower-case domain leaves that mailbox; a
`forward_to` cannot be cleared; a late patch writes the values of a deleted mailbox
over one created since under the same address.

### MessageApi

One mailbox, a client that posts one mail and repeats it when answered 500, a
client that reads the mailbox, or one direction of it, from its first page to its
last, mail that comes in, and one DELETE at a time. `Addressed` is `to`, `cc` and `bcc` in one sequence; an
Outbound row is a message and a position in it. The list handler reads Inbound rows,
Outbound rows and each message in statements of their own (`ids`, `items`), and cuts the
page at the end. `page` is the answer and the client's next request. The observers of
the walk are `seen` (how often a message was on a page), `passed` (the items of the
last answer up to the end of its page), `stayed` (the messages that were listed when
it began and that no DELETE has named), `removals` and `arrivals` (the statements that
took rows of a message away, and those that added a row of the mailbox). What comes in
is stored and linked in one step here; `InboundMail` has its statements.

`WalkIsComplete` counts statements, not DELETE requests: with five messages in an inbox
read one by one, a DELETE whose first statement has removed the Inbound row of a
message that an incoming copy then links again takes the same message away twice, so
that one request makes the reader miss two others. Three messages do not show it.

`GET /mailboxes/{id}/messages` reads its own query struct and clamps nothing, other
than its two siblings: with `limit=0` it answers an empty page that names itself as
the next one. `WalkIsShort` bounds the walks with a limit of 1 or more, and says of
those with limit 0 that they never leave the first offset. If the query does not parse
(`list_unparsed`), the direction is dropped and the limit is clamped after all. That is
also the fate of the documented `direction=inbound`: the variants of `MessageDirection`
are not renamed, so that only `Inbound` parses.

### KeyCache

`pc[f]` is the await of a request in the guard, or of the task of `spawn_refresh`.
`cache` is a version of the published set, 0 for none, with its age; a fetch is
answered with the version of that moment (`serve`) and stored when it has arrived
(`store`). Static keys, shared secrets and disabled authentication are
configurations (`Configs`) of the same module. A token is its kid, its signer and
what its claims lead to; the signature, expiry, issuer, audience and roles end in
`Verdict`. `Tick` may happen only when nothing is due: code between two awaits takes
no time, a fetch ends within `MaxFetch` ticks, the refresher sleeps for `Ttl`. An
`issuer` with a `jwks_path` is fetched like `jwks_remote`.

`refresh_interval_secs`, documented as the refresh cadence (`config.rs:293`), is read
nowhere: the refresher sleeps for `cache_ttl_secs`, and so does the model's. The period
in `StaleIsBounded` is the ttl.

### AuthPolicy

`collect` is the first loop of `AuthPolicy::build`, `round` one iteration of the
second; the rows of a round are independent, since it reads a snapshot. Grant tokens
are pairs of words, and `Parse` is what `Grant::parse` makes of them; `Inherited` is
the reference: a grant is inherited if every set of roles around the role that is
closed under `extends` has a member with that grant. `Covers` says what a token
covers: with a colon its resource is compared in lower case, without one as it is
written, so that a bare resource in upper case covers no route of the API.

### AuthService

`AuthService::build`: the key material first, with the refresh loop that runs from then
on, then the role policy; requests are decided once it has returned. The two parts share
no state: every behaviour of `AuthSpec` is one of `Spec` of `KeyCache` and of `BuildSpec` of
`AuthPolicy`, which the theorems are about. `MCAuthService` therefore explores the role tables with a shared secret and the
kinds of key material with no roles, instead of their product; requests overlap with an
issuer, and come one at a time with `jwks_remote`, whose steps are the same.

## 3. Runs

| Run | Property | What it shows |
|---|---|---|
| `queue_single` | `ResentOnlyAfterFault`, `InHandIsOwned`, `TerminalIsFinal`, `BackoffRespected`, `ImplementsJobLifecycle`, `ResolvableJobsSettle`, `StuckJobsAreReclaimed` | The deployment the daemon starts, one worker: two jobs, one of which can never be resolved, three failures anywhere, deletes at any time. The other job settles, and no row stays `InProgress` |
| `queue_pair` | `TypeOK`, `DeliveredWasAccepted`, `SendsExplained`, `AttemptsExplained` | What is left of it with two workers: the audit trail is right, each extra send has a cause other than the claim, and the stale counters two workers write back neither give a job up early nor let it be tried without end |
| `queue_double_send` | `NeverDoubleSent` (violated) | Two workers and no failure: a tick of one reclaims the job the other is sending |
| `queue_unresolvable` | `EveryJobSettles` (violated) | A job whose lookup always fails is tried for ever, uncounted |
| `queue_retry_cap` | `FailedAtCap` (violated) | A job that was refused `max_attempts` times is queued once more |
| `services` | `NoStrayListener`, `StatusMatchesHandle`, `ModeIsReached`, `StoppedPortIsReleased` | Two callers, SMTP and SMTPS, listeners that cannot bind or die; no listener escapes, stopped ports come free |
| `inbound` | `DuplicatesBounded`, `OneRowPerRcpt`, `AckedIsLinked`, `ForwardedOnce` | Two sessions, equal Message-IDs, a failure, and the API changing rows |
| `inbound_dangling` | `NoDanglingLinks` (violated) | Rows that point at a message deleted in the meantime |
| `records` | `TypeOK`, `OrphansExplained`, `LosersFindTheWinner`, `ConfirmedIsStored`, `ServesItsConfiguration` | Two requests, deletes, two failures or kills: racing creates agree, orphan records have only the causes named, and a boot that comes up has everything it is configured with |
| `mailboxes` | `TypeOK`, `RefusedOnlyBlind`, `ConfirmedIsKept`, `LosersFindTheWinner` | Three requests, deletes, two failures or restarts, an address configured in two spellings: what was confirmed stays, unless a late patch writes over it; the seed of mailboxes, other than that of records, can be repeated, and only a lookup that failed makes the key refuse it |
| `messages` | `TypeOK`, `SentToEachOnce`, `WalkIsComplete`, `WalkIsShort` | A send repeated after a 500 never gives a recipient more jobs than tries; a walk through the pages misses at most one message for each statement that takes a row away meanwhile, repeats at most one for each that adds a row, and ends |
| `auth` | `TypeOK`, `StaleIsBounded`, `OpenOnlyBeforeFirstSet`, `DecidedByARecentSet`, `ExactlyInherited`, `RoundsBounded`, `AllowsExactly` | Two requests and the refresher over a rotation and two failed fetches: a superseded set is out after a period and two fetches, plus a period and a fetch for each failed refresh; fail-open ends with the first set. All ways in which three roles extend each other, themselves or a role that does not exist; grants with and without verbs, unknown verbs, two spellings |

The violated properties are statements of the repository's own documentation or
comments; `findings` in `PROJECT.json` quotes them. They do not contradict the
passing runs: `SendsExplained` is what remains true with two workers where
`NeverDoubleSent` is not, `ResolvableJobsSettle` excludes jobs that fail before they
are counted, and `JobLifecycle` is implemented with a cap of one more than `FailedAtCap`
says.

Some passing properties state what the code does where a sentence of the repository
says more. These disagreements are findings too, under the run that has them:

| Property | The repository says | The code |
|---|---|---|
| `StatusMatchesHandle` | a bind failure "surfaces as `Err` and leaves the service idle" (`services.rs:374`) | the slot says `Running` from the spawn on, also when the task could not bind |
| `DuplicatesBounded` | "a relayed duplicate isn't stored twice" (`README.md:60`) | one copy for each session that races and each lookup that failed |
| `OrphansExplained` | "A record must reference a provisioned domain" (`api.rs:951`) | not if the domain is deleted between check and write, nor for configured records |
| `AllowsExactly` | a token without colon is "a bare resource granting every verb on it" (`policy.rs:93`), resources are "case-insensitive" (`policy.rs:356`) | a bare resource keeps its case and in upper case covers nothing |
| `WalkIsShort` | `limit` is clamped for "all paginated list endpoints" (`api.rs:154`) and clients can loop on `next_offset` (`api.rs:128`) | `GET /mailboxes/{id}/messages` does not clamp; `limit=0` loops for ever |
| `StaleIsBounded` | `refresh_interval_secs` is the "refresh cadence" (`config.rs:293`) | nothing reads it |

Each property of a passing run has a mutant, an operator `Mut_...` next to the
definition it replaces, under which the run finds it violated.

### Bounds

* `queue_single`: two jobs of one message (one delete takes both) with two
  senders (a mailbox delete takes one), the first without a resolvable domain;
  two MX hosts, so that a lost reply can be followed by a second send in the same
  cycle; three failures, so that one can hit the recovery from the other and one
  its recovery; `MaxAttempts = 2`, so that there is a retry that is neither the
  first nor the last.
* `queue_pair`: two workers, two jobs, one failure and one reclaim per job of a
  row that is not an orphan (`MaxSteals`; further ones fail without effect).
  `MaxSteals` bounds the state space only; `SendsAreExplained` and
  `AttemptsAreExplained` are proved for every value. With one worker there is nothing to bound: `stolen` stays zero.
* `services`: two callers are enough for a command to interleave with a loop;
  two task names per service allow an aborted task next to its successor. With
  all names in use `start` waits for `drop_aborted`. Two services are enough for
  a mode that is reached half way; SMTPS, whose port is occupied here, is the
  one that cannot bind, as a quick restart of SMTP on its old socket cannot.
  Nothing distinguishes DNS and the API from SMTP in this module.
* `inbound`: two sessions, and a third mail after they raced; two recipients
  per mail, which with one mailbox is the repeated address; two messages; one
  failure or kill. Once two messages exist a third mail that wants to store
  waits, with `crash` and `abort` still possible.
* `records`: a domain name and its upper-case spelling, so that a configured
  record can be an orphan that no patch finds a domain for, and a patch can
  move it onto the key of another record; two values of ttl; three record ids,
  which two requests and two rows cannot exhaust; two failures or kills, so that
  a boot killed half way, or whose lookup failed, can be followed by another.
* `mailboxes`: three requests, so that a create can lose against a create while a
  patch is under way; an address in two spellings and one more in the same domain,
  for the cascade; two values of forward_to beside none.
* `queue_retry_cap`: one worker, one job, no failing statement, `MaxAttempts = 2`.
* `messages`: three directions; three messages, so that there are three pages and a delete before,
  on and behind the one that was read; limits below, at and above the clamp
  (`MaxLimit = 1`); a mail with a repeated address, posted up to twice. The bound
  on messages ends the behaviours, and the readers end by themselves. Nothing is
  explored behind the last page of a reader, nor behind the second request of one with
  limit 0 (`Over` in `MCMessageApi`). A walk in which
  one DELETE costs two messages needs more of them; `WalksAreComplete` holds for any
  number.
* `auth`: two requests, so that an older fetch can overtake a newer one, and
  the refresher; a rotation that replaces a key and makes a kidless one ambiguous;
  a ttl of two fetches; two failed fetches, so that a refresh can fail twice in a
  row. Three roles, so that a grant needs two rounds; `extends` of at most
  two of four names; `MaxRounds` is the code's.

`ServesItsConfiguration` does not say that boots succeed: with a configured record
every boot after the first complete one is refused, because `seed_from_config` creates
records without looking (`app.rs:161`). A refused boot serves nothing.

Deadlock is checked in all runs but `messages`, where the clients finish: the
worker's loop, the callers, the API and the clock can always go on.

### Fairness

`queue_single` and `queue_unresolvable`: weak fairness of `run_outbound_worker` (the
task is an infinite `loop` over a tokio interval, and every await in it returns
or fails), and of the passing of time. Failures, crashes, producers and deletes
are not fair, and failures are finitely many in a behaviour: a job is promised
to settle once they stop. `services`: the runtime polls a ready task, drops
an aborted one, and a caller's loop goes on (the code awaits nothing in it).
Callers need not issue commands.

## 4. Proofs

Every invariant and every action property that a passing run checks is also a
theorem, for all values of the constants. The proofs assume only each module's
`ConstantsAssumption` (`PolicyAssumption` in `AuthPolicy`), which TLC evaluates in every
run: the constants have their
types, `Keys` of `KeyCache` and the table of roles are finite, there is an address, a
record content and a token to speak of, and `Lower` of `AuthPolicy` behaves as
`to_lowercase` does (idempotent, and "*" and "all", which no resource is named, are
their own lower case). The bounds on failures, messages and tries are any naturals. The
theorems about the queue with one worker say so (`OneWorker`), and one theorem about
the role policy is for tables of no more roles than `build` makes rounds at most
(`RolesWithinCap`; 10 000 in the code).

* **Queue, any number of workers.** `TypeCorrect`; `DeliveredIsAudited`: a
  `Delivered` row has its audit row and was accepted. Inductive with two more
  facts: a job in anyone's hand was created and is not "None", and a worker about
  to mark has recorded (or the row was deleted). `SendsAreExplained`:
  `accepted <= 1 + torn + stolen` is not inductive, since it says nothing of the
  worker that has the job but has not sent yet. The invariant is a budget: the
  acceptances used, plus one for each worker that may still send the job, plus
  one if the row can still be claimed, stay within `1 + torn + stolen`; the
  workers are counted by the cardinality of a finite set, and each step keeps or
  lowers the balance. `AttemptsAreExplained` needs `AttemptsBudget`: a row that is
  tried again, and the counter in any worker's copy, are at most the cap and one more
  for each steal.
* **Queue, one worker** (`OneWorker`: any two workers are equal). `SoloInv` says
  that the snapshots the worker took still hold: rows in `todo` are
  `InProgress` or gone, the job in hand is `InProgress` with the counter that was
  copied, or gone. From it: `JobInHandIsOwned`,
  `ResendNeedsFault` (nothing is ever stolen), and the action properties
  `TerminalRowsStay` and `BackoffIsRespected`.
* **Refinement.** `QueueImplementsJobLifecycle`: each step of a one-worker queue is a
  step of `JobLifecycle`, with `MaxTries` at `max_attempts + 1`, or leaves its variables
  unchanged; `SoloInv` supplies the guards. With two workers this is false: a delivered row can be put back.
* **Service manager.** `SlotInv` adds to the properties that the handle in a slot is
  a task that exists and was not aborted (`HandlesAreCurrent`). From it
  `NoListenerIsStray` and `SlotsAgree`; `ModesAreReached` also needs
  `VisitedAsWanted`: an undisturbed loop has already settled what it visited.
* **Inbound handler.** `CopiesAreBounded`: the invariant counts the copies stored
  and the sessions about to store one, and is inductive as it stands: a session
  may come to store only if there is no copy, or after a failed lookup, which
  raises the bound. `AcknowledgedIsLinked` needs `LinkedSoFar`: of the recipients
  taken, each is still to be linked, linked, or was unlinked since. `RowsComeFromRcpts`
  and `ForwardsAreBacked` need `CountInv`: what a session owes a mailbox is the number of
  its occurrences in `recipients`, and once the loop has begun in `rest`; what it can
  spare, with the occurrences in `rest`, makes up those in `to`, and later is no less
  than what is left to forward. Occurrences are the cardinality of a set of positions,
  for which `Append` and `Tail` each have a lemma.
* **Message endpoints.** `MessageApiTypes` needs `IdsAreIssued`: no id is in use that was
  not given to a message. `MailIsSentToEach` counts: a recipient's rows, and one more if
  this try has still to write one, are at most the tries (`RowsAreCounted`), and
  `TryIsInOrder` says which recipients have been served. `WalksAreShort` needs that each
  page begins where the ones before it ended. `WalksAreComplete` is the largest proof.
  Its invariant is a balance of the walk at every statement: `Still` are the messages the
  request under way will find, `Late` those only the next one may; the messages missed so
  far, those of `passed` that are gone from `Still` (each lets one slip before the offset)
  and those of `Still` that are gone from the tables are at most `removals`
  (`LossesAreCounted`); those seen twice, those that came in below the last page, those the
  next page will repeat and `Late` are at most `arrivals` (`GainsAreCounted`). A statement
  moves each sum by at most what it counts; an answer turns one kind into another,
  because the first n of a set of ids that has lost k of an earlier first n reach
  at most k beyond it (`SkippedWereLost`, `RepeatedWerePushed`).
* **Mailboxes.** One invariant, the properties and `PatchesHaveTheirRow`: a patch that
  nobody overtook and that names no forward_to holds the row that is stored. Without it
  nothing says that its write leaves a confirmed row as it is. `SeedIsRepeatable`
  (`RefusedOnlyBlind`): the lookup of the seed tests the key the insert is going to use, so
  that only a lookup that failed can be followed by a refusal.
* **Domains and records.** The properties, with the unique index as an invariant of the
  rows (`IndexHolds`), ids that differ (`IdsDiffer`) and `ServedWhenUp`, which keeps
  requests out of a boot. `ServesWhatIsConfigured` needs `SeededSoFar`: what a boot has
  ticked off its list is stored, and nothing takes it away before the boot is up. It gives
  one result no run states, `ConfirmedRecordsAgree`.
* **Cached key set.** `StaleIsBounded` says nothing of the answers under way, which may be
  stored later over a newer set. `IInv` adds how long a fetch and a sleep have lasted
  (`FetchTimes`), that an answer was current when its fetch began or later
  (`VersionsKnown`), and the bound as a function of the refresher's own clock
  (`CacheLags`); `SetIsKept`, that a request which came in when there was a set finds one
  to the end, gives `OpenBeforeFirstSetOnly`. From the same invariant the action property
  `DecidedByOneRecentSet`.
* **Role policy.** `TypeCorrect`, and `PolicyIsExact` (`ExactlyInherited`), for every
  table of roles. That a role gets nothing it does not inherit is inductive: a
  grant that moves along one `extends` edge stays inherited, because a closed set
  around a role contains whom it extends. That nothing is missing at the end
  follows from the last round having changed nothing: then the roles whose grants
  r has all of are a closed set around r. Closed sets stand in for paths.
  `RoundsAreFew`: a grant that is not settled yet is given to one role more in each
  round (`Spreading`), so after as many rounds as roles there is none.
  `AllowsWhatIsConfigured` puts the two together with what `Grant::parse` makes of a
  token.

The library's induction theorems cannot be instantiated by the installed provers; where
a number has to be the least with some property, `LeastOf` of `MessageApiProofs` gets it
from `WFMin` and the well-foundedness of `<`, which quantify over sets.

Only model-checked: the liveness properties `ResolvableJobsSettle`,
`StuckJobsAreReclaimed` and `StoppedPortIsReleased` (the prover has
neither fairness nor ENABLED), and the violations. That the queue implements
`JobLifecycle` is proved for one worker; the run checks it there too.

## 5. What the models assume

* Auto-increment keys are not reused, and a cascading delete is one atomic
  statement.
* Foreign keys are not enforced on insert: the code itself stores `Inbound` rows
  for the recipient "unknown", which is no mailbox.
* Primary keys and `#[unique]` indexes are enforced; a refused statement changes
  nothing.
* A fetch of a key set ends, with or without an answer, within `MaxFetch`: the HTTP
  client sets no timeout, and against a server that never answers
  `StaleIsBounded` has no bound to state.
* No two published keys have the same kid, and every published key can be turned into
  a decoding key.
* `claim` is serialised: it runs in a write-locked transaction.
* Messages sent through the API carry no Message-ID (`build_send_message` sets
  none), so that the inbound lookup never finds them.
* The handler has no hook for RSET or a second MAIL command, so the recipients
  stay as they are. The lookup compares the trimmed Message-ID with the stored
  header; the parser has already trimmed the latter, and they are the same key.

## 6. Not modelled, and the plan

Not modelled:

* the DNS server: one query of the database for each question and a reply, without
  state of its own. A query type that is neither in the match of
  `RecordType::from` (`db.rs:101`) nor `Unknown` panics there, which ends the task of
  that one packet;
* OpenAPI documents, response envelopes and logging; TLS set-up of the listeners and
  of the transport (no state);
* the schema push: `AppState::init` takes any error that says "already exists" for a
  schema that is complete. What a kill between two CREATE TABLE statements leaves
  behind depends on the database library;
* the layering of configuration file and environment, which is the config crate's;
* get and list endpoints of domains, mailboxes and records: a single read each.

What is left to prove, beyond the properties of the runs:

1. `JobLifecycle`: its own promises (a job leaves a terminal phase only by deletion, and
   is given up only with its retries used up) as theorems of the abstract
   specification, inherited by the queue through the refinement.
2. `Mailboxes` and `ZoneRecords`: that two answers 200 for one key agree also across a
   restart, and an action property for the lost update of two patches.
