---------------------------- MODULE ServiceManager ----------------------------
(***************************************************************************)
(* The listener control plane of src/src/services.rs.                      *)
(*                                                                         *)
(* A ServiceManager keeps a status and a task handle per service behind    *)
(* one mutex; start, stop and list are its critical sections.  boot,       *)
(* apply_mode and stop_all are sequences of them, run by callers (the      *)
(* daemon at startup and shutdown, API requests at any time) that          *)
(* interleave.  What a spawned listener task does afterwards, binding its  *)
(* port, dying, being dropped after an abort, is up to the runtime and is  *)
(* never written back to the status.                                       *)
(***************************************************************************)
EXTENDS Naturals, FiniteSets

CONSTANTS
    Services,         \* the services under study, of the four that Service::all() lists
    Modes,            \* the boot modes callers ask for
    Callers,          \* threads that issue commands
    Tasks,            \* bound: names for the tasks of one service that exist at a time
    NoTask,           \* an empty JoinHandle slot
    SmtpsConfigured,  \* smtp_tls.smtps_port is non-zero
    TlsIdentity,      \* an SMTP TLS identity was built from the config
    Occupied,         \* services whose port belongs to another process
    MaxDeaths         \* bound: listeners that stop on their own

ASSUME ConstantsAssumption ==
    /\ Services \subseteq {"api", "smtp", "smtps", "dns"}
    /\ "smtps" \in Services => "smtp" \in Services
    /\ Modes \subseteq {"full", "api", "smtp", "dns", "off"}
    /\ NoTask \notin Tasks
    /\ SmtpsConfigured \in BOOLEAN
    /\ TlsIdentity \in BOOLEAN
    /\ Occupied \subseteq Services
    /\ MaxDeaths \in Nat

VARIABLES
    status,   \* Slot.status, "Idle" or "Running"
    handle,   \* Slot.handle
    task,     \* per service and task: "free", "starting", "listening", "unbound"
              \* (its bind failed) or "ended" (it stopped on its own)
    aborted,  \* per service, tasks whose abort() was called and that still exist
    op,       \* what a caller is executing: "idle", "boot" or "mode"
    mode,     \* its BootMode
    todo,     \* services its loop has not reached yet
    alone,    \* callers whose command no other command has interleaved with
    deaths

managerVars == <<status, handle>>
taskVars    == <<task, aborted, deaths>>
callerVars  == <<op, mode, todo, alone>>
vars        == <<managerVars, taskVars, callerVars>>

(* BootMode::services: Full is all but SMTPS, Off is none, and each other    *)
(* mode is named after its only service.                                     *)
ModeServices(m) == {s \in Services : s # "smtps" /\ (m = "full" \/ m = s)}

(* The order of Service::all(). *)
Rank == [s \in Services |-> CASE s = "api" -> 1 [] s = "smtp" -> 2 [] s = "smtps" -> 3 [] s = "dns" -> 4]

(* Inner::addr: only SMTPS can be left out of the config. *)
HasAddr(s) == s = "smtps" => SmtpsConfigured

-----------------------------------------------------------------------------
Init ==
    /\ status = [s \in Services |-> "Idle"]
    /\ handle = [s \in Services |-> NoTask]
    /\ task = [s \in Services |-> [t \in Tasks |-> "free"]]
    /\ aborted = [s \in Services |-> {}]
    /\ op = [c \in Callers |-> "idle"]
    /\ mode = [c \in Callers |-> "off"]
    /\ todo = [c \in Callers |-> {}]
    /\ alone = {}
    /\ deaths = 0

-----------------------------------------------------------------------------
(* The critical sections *)

(* Mut_ operators are seeded bugs, each a variant of the definition after it. *)

(* tokio::spawn of the listener. *)
Spawn(s) ==
    /\ \E t \in Tasks :
          /\ task[s][t] = "free"
          /\ task' = [task EXCEPT ![s][t] = "starting"]
          /\ handle' = [handle EXCEPT ![s] = t]
    /\ status' = [status EXCEPT ![s] = "Running"]
    /\ UNCHANGED <<aborted, deaths>>

Mut_starts_again(s) == IF HasAddr(s) THEN Spawn(s) ELSE UNCHANGED <<managerVars, taskVars>>

(* start: an unconfigured service is an error, a Running one a no-op; else   *)
(* the listener task is spawned and the slot says Running at once.           *)
start(s) ==
    IF HasAddr(s) /\ status[s] # "Running"
    THEN Spawn(s)
    ELSE UNCHANGED <<managerVars, taskVars>>

(* abort() on a task that is already over only drops the handle. *)
Abort(s, t) ==
    IF task[s][t] \in {"starting", "listening"}
    THEN aborted' = [aborted EXCEPT ![s] = @ \cup {t}] /\ UNCHANGED task
    ELSE task' = [task EXCEPT ![s][t] = "free"] /\ UNCHANGED aborted

Mut_abort_forgotten(s) ==
    /\ handle' = [handle EXCEPT ![s] = NoTask]
    /\ status' = [status EXCEPT ![s] = "Idle"]
    /\ UNCHANGED taskVars

Mut_status_kept(s) ==
    IF handle[s] = NoTask
    THEN UNCHANGED <<managerVars, taskVars>>
    ELSE /\ Abort(s, handle[s])
         /\ handle' = [handle EXCEPT ![s] = NoTask]
         /\ UNCHANGED <<status, deaths>>

(* stop: an empty slot is a no-op. *)
stop(s) ==
    IF handle[s] = NoTask
    THEN UNCHANGED <<managerVars, taskVars>>
    ELSE /\ Abort(s, handle[s])
         /\ handle' = [handle EXCEPT ![s] = NoTask]
         /\ status' = [status EXCEPT ![s] = "Idle"]
         /\ UNCHANGED deaths

-----------------------------------------------------------------------------
(* The callers *)

(* The services a loop starts; a configured SMTPS follows SMTP. *)
Wanted(m) ==
    ModeServices(m) \cup
        {s \in Services : s = "smtps" /\ SmtpsConfigured /\ "smtp" \in ModeServices(m)}

(* A step of caller c: every other command under way is interleaved with it. *)
Interleaves(c) == alone' = alone \cap {c}

(* POST /services/{service}/start and stop. *)
start_service(c, s) ==
    /\ op[c] = "idle"
    /\ start(s)
    /\ Interleaves(c)
    /\ UNCHANGED <<op, mode, todo>>

stop_service(c, s) ==
    /\ op[c] = "idle"
    /\ stop(s)
    /\ Interleaves(c)
    /\ UNCHANGED <<op, mode, todo>>

Begin(c, o, m, services) ==
    /\ op[c] = "idle"
    /\ op' = [op EXCEPT ![c] = o]
    /\ mode' = [mode EXCEPT ![c] = m]
    /\ todo' = [todo EXCEPT ![c] = services]
    /\ alone' = alone \cup {c}
    /\ UNCHANGED <<managerVars, taskVars>>

(* boot visits the services of the mode, then SMTPS. *)
boot(c, m) == Begin(c, "boot", m, Wanted(m))

(* apply_mode visits every service.  stop_all is the loop of mode Off.       *)
apply_mode(c, m) == Begin(c, "mode", m, Services)

(* Which service the loop visits next: boot iterates over a HashSet and      *)
(* leaves SMTPS for last, apply_mode follows Service::all().                 *)
Visits(c, s) ==
    /\ s \in todo[c]
    /\ op[c] = "boot" => (s = "smtps" => todo[c] = {"smtps"})
    /\ op[c] = "mode" => \A r \in todo[c] : Rank[s] <= Rank[r]

Mut_mode_only_starts(c, s) ==
    /\ Visits(c, s)
    /\ IF s \in Wanted(mode[c]) THEN start(s) ELSE UNCHANGED <<managerVars, taskVars>>
    /\ todo' = [todo EXCEPT ![c] = @ \ {s}]
    /\ Interleaves(c)
    /\ UNCHANGED <<op, mode>>

visit(c, s) ==
    /\ Visits(c, s)
    /\ IF s \in Wanted(mode[c]) THEN start(s) ELSE stop(s)
    /\ todo' = [todo EXCEPT ![c] = @ \ {s}]
    /\ Interleaves(c)
    /\ UNCHANGED <<op, mode>>

(* The loop is over; apply_mode reads the statuses back for its answer. *)
finish(c) ==
    /\ op[c] # "idle"
    /\ todo[c] = {}
    /\ op' = [op EXCEPT ![c] = "idle"]
    /\ mode' = [mode EXCEPT ![c] = "off"]
    /\ alone' = alone \ {c}
    /\ UNCHANGED <<managerVars, taskVars, todo>>

-----------------------------------------------------------------------------
(* The listener tasks *)

PortFree(s) == s \notin Occupied /\ \A t \in Tasks : task[s][t] # "listening"
Bindable(s) == PortFree(s) /\ (s = "smtps" => TlsIdentity)

(* A spawned task is first polled.  An aborted one may be past the point     *)
(* where the runtime looks at the abort.                                     *)
bind(s, t) ==
    /\ task[s][t] = "starting"
    /\ Bindable(s)
    /\ task' = [task EXCEPT ![s][t] = "listening"]
    /\ UNCHANGED <<managerVars, aborted, deaths, callerVars>>

(* The task is over; its object goes with the last reference, the handle. *)
End(s, t, how) ==
    /\ task' = [task EXCEPT ![s][t] = IF t \in aborted[s] THEN "free" ELSE how]
    /\ aborted' = [aborted EXCEPT ![s] = @ \ {t}]

(* The port is taken, or SMTPS has no identity: the task logs it and ends    *)
(* (the API task panics in bind), and nobody tells the slot.                 *)
bind_fails(s, t) ==
    /\ task[s][t] = "starting"
    /\ ~Bindable(s)
    /\ End(s, t, "unbound")
    /\ UNCHANGED <<managerVars, deaths, callerVars>>

(* A listener loop returns with an error. *)
listener_dies(s, t) ==
    /\ task[s][t] = "listening"
    /\ deaths < MaxDeaths
    /\ deaths' = deaths + 1
    /\ End(s, t, "ended")
    /\ UNCHANGED <<managerVars, callerVars>>

(* The runtime drops an aborted task, and with it the socket. *)
drop_aborted(s, t) ==
    /\ t \in aborted[s]
    /\ End(s, t, "free")
    /\ UNCHANGED <<managerVars, deaths, callerVars>>

-----------------------------------------------------------------------------
Command(c) ==
    \/ \E s \in Services : start_service(c, s) \/ stop_service(c, s)
    \/ \E m \in Modes : boot(c, m) \/ apply_mode(c, m)

Proceed(c) == finish(c) \/ \E s \in Services : visit(c, s)

Poll(s, t) == bind(s, t) \/ bind_fails(s, t)

Next ==
    \/ \E c \in Callers : Command(c) \/ Proceed(c)
    \/ \E s \in Services, t \in Tasks : Poll(s, t) \/ listener_dies(s, t) \/ drop_aborted(s, t)

Spec == Init /\ [][Next]_vars

(* The runtime polls every task that is ready and drops what was aborted;    *)
(* a caller never blocks for long (no await inside a loop or under the lock). *)
Fairness ==
    /\ \A s \in Services, t \in Tasks : WF_vars(Poll(s, t)) /\ WF_vars(drop_aborted(s, t))
    /\ \A c \in Callers : WF_vars(Proceed(c))

FairSpec == Spec /\ Fairness

-----------------------------------------------------------------------------
(* Properties *)

Live(s, t) == task[s][t] \in {"starting", "listening"} /\ t \notin aborted[s]

(* Every variable has its type. *)
TypeOK ==
    /\ status \in [Services -> {"Idle", "Running"}]
    /\ handle \in [Services -> Tasks \cup {NoTask}]
    /\ task \in [Services -> [Tasks -> {"free", "starting", "listening", "unbound", "ended"}]]
    /\ aborted \in [Services -> SUBSET Tasks]
    /\ op \in [Callers -> {"idle", "boot", "mode"}]
    /\ mode \in [Callers -> Modes \cup {"off"}]
    /\ todo \in [Callers -> SUBSET Services]
    /\ alone \in SUBSET Callers
    /\ deaths \in Nat

(* However commands interleave, every listener task that is not on its way   *)
(* out is the one in its service's slot, and that slot says Running: nothing *)
(* is spawned twice, and no listener escapes the control of stop.            *)
NoStrayListener ==
    \A s \in Services, t \in Tasks : Live(s, t) => handle[s] = t /\ status[s] = "Running"

(* A slot has a handle exactly while it says Running: start and stop test    *)
(* different fields and would otherwise both become no-ops for ever.         *)
StatusMatchesHandle ==
    \A s \in Services : status[s] = "Running" <=> handle[s] # NoTask

(* An apply_mode that no other command interleaved with leaves exactly the   *)
(* services of the mode Running, SMTPS with SMTP when it is configured,      *)
(* whatever ran before.                                                      *)
ModeIsReached ==
    \A c \in Callers : op[c] = "mode" /\ todo[c] = {} /\ c \in alone =>
        \A s \in Services : status[s] = "Running" <=>
            IF s = "smtps" THEN SmtpsConfigured /\ mode[c] \in {"full", "smtp"}
                           ELSE mode[c] \in {"full", s}

(* A stopped service gives its port back, unless it is started again. *)
StoppedPortIsReleased ==
    \A s \in Services : status[s] = "Idle" ~>
        status[s] = "Running" \/ \A t \in Tasks : task[s][t] # "listening"

(* Strengthenings that make the properties above inductive. *)

(* The handle in a slot is a task that exists and was not aborted; an        *)
(* aborted task has not ended.                                               *)
HandlesAreCurrent ==
    \A s \in Services, t \in Tasks :
        /\ handle[s] = t => task[s][t] # "free" /\ t \notin aborted[s]
        /\ t \in aborted[s] => task[s][t] \in {"starting", "listening"}

(* A loop of apply_mode that runs undisturbed has already put every service  *)
(* it visited in the state the mode wants.                                   *)
VisitedAsWanted ==
    \A c \in Callers : op[c] = "mode" /\ c \in alone =>
        \A s \in Services \ todo[c] : status[s] = "Running" <=> s \in Wanted(mode[c])
=============================================================================
