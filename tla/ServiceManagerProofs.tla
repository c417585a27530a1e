------------------------- MODULE ServiceManagerProofs -------------------------
(***************************************************************************)
(* Proofs about ServiceManager, for any number of concurrent callers and   *)
(* task objects, any configuration and any set of services and modes.      *)
(***************************************************************************)
EXTENDS ServiceManager, TLAPS

(* The part of the state the mutex guards, and the tasks behind it. *)
SlotInv ==
    /\ TypeOK
    /\ StatusMatchesHandle
    /\ NoStrayListener
    /\ HandlesAreCurrent

(* Nothing is Running before boot. *)
LEMMA SlotInit == Init => SlotInv
  BY ConstantsAssumption DEF Init, SlotInv, TypeOK, StatusMatchesHandle, NoStrayListener,
     HandlesAreCurrent, Live

(* The critical sections of start and stop preserve it, whoever calls them. *)
LEMMA StartSlot ==
  ASSUME SlotInv, NEW s \in Services, start(s)
  PROVE  /\ status' \in [Services -> {"Idle", "Running"}]
         /\ handle' \in [Services -> Tasks \cup {NoTask}]
         /\ task' \in [Services -> [Tasks -> {"free", "starting", "listening", "unbound", "ended"}]]
         /\ aborted' = aborted /\ deaths' = deaths
         /\ StatusMatchesHandle' /\ NoStrayListener' /\ HandlesAreCurrent'
<1> USE ConstantsAssumption DEF SlotInv, TypeOK, StatusMatchesHandle, NoStrayListener,
      HandlesAreCurrent, Live
<1>1. CASE HasAddr(s) /\ status[s] # "Running"
  <2>1. Spawn(s)
    BY <1>1 DEF start
  <2>2. PICK t \in Tasks : /\ task[s][t] = "free"
                           /\ task' = [task EXCEPT ![s][t] = "starting"]
                           /\ handle' = [handle EXCEPT ![s] = t]
    BY <2>1 DEF Spawn
  <2>3. status' = [status EXCEPT ![s] = "Running"] /\ UNCHANGED <<aborted, deaths>>
    BY <2>1 DEF Spawn
  <2>4. \A r \in Services, u \in Tasks :
            task'[r][u] = IF r = s /\ u = t THEN "starting" ELSE task[r][u]
    BY <2>2
  <2>5. handle[s] = NoTask
    BY <1>1
  <2> QED
    BY <2>2, <2>3, <2>4, <2>5
<1>2. CASE ~(HasAddr(s) /\ status[s] # "Running")
  BY <1>2 DEF start, managerVars, taskVars
<1> QED
  BY <1>1, <1>2

(* stop empties the slot and aborts the task that was in it. *)
LEMMA StopSlot ==
  ASSUME SlotInv, NEW s \in Services, stop(s)
  PROVE  /\ status' \in [Services -> {"Idle", "Running"}]
         /\ handle' \in [Services -> Tasks \cup {NoTask}]
         /\ task' \in [Services -> [Tasks -> {"free", "starting", "listening", "unbound", "ended"}]]
         /\ aborted' \in [Services -> SUBSET Tasks] /\ deaths' = deaths
         /\ StatusMatchesHandle' /\ NoStrayListener' /\ HandlesAreCurrent'
<1> USE ConstantsAssumption DEF SlotInv, TypeOK, StatusMatchesHandle, NoStrayListener,
      HandlesAreCurrent, Live
<1>1. CASE handle[s] = NoTask
  BY <1>1 DEF stop, managerVars, taskVars
<1>2. CASE handle[s] # NoTask
  <2> DEFINE t == handle[s]
  <2>1. /\ t \in Tasks
        /\ Abort(s, t)
        /\ handle' = [handle EXCEPT ![s] = NoTask]
        /\ status' = [status EXCEPT ![s] = "Idle"]
        /\ deaths' = deaths
    BY <1>2 DEF stop
  <2>2. CASE task[s][t] \in {"starting", "listening"}
    <3>1. aborted' = [aborted EXCEPT ![s] = @ \cup {t}] /\ task' = task
      BY <2>1, <2>2 DEF Abort
    <3> QED
      BY <2>1, <2>2, <3>1
  <2>3. CASE task[s][t] \notin {"starting", "listening"}
    <3>1. task' = [task EXCEPT ![s][t] = "free"] /\ aborted' = aborted
      BY <2>1, <2>3 DEF Abort
    <3>2. \A r \in Services, u \in Tasks :
            task'[r][u] = IF r = s /\ u = t THEN "free" ELSE task[r][u]
      BY <2>1, <3>1
    <3> QED
      BY <2>1, <2>3, <3>1, <3>2
  <2> QED
    BY <2>2, <2>3
<1> QED
  BY <1>1, <1>2

(* What callers do around the critical sections keeps their own types. *)
LEMMA CallerSlot ==
  ASSUME SlotInv, NEW c \in Callers, Command(c) \/ Proceed(c)
  PROVE  SlotInv'
<1>1. /\ op' \in [Callers -> {"idle", "boot", "mode"}]
      /\ mode' \in [Callers -> Modes \cup {"off"}]
      /\ todo' \in [Callers -> SUBSET Services]
      /\ alone' \in SUBSET Callers
  <2> USE DEF SlotInv, TypeOK
  <2>1. ASSUME NEW m \in Modes, boot(c, m) \/ apply_mode(c, m)
        PROVE  <1>1!1 /\ <1>1!2 /\ <1>1!3 /\ <1>1!4
    <3>1. Wanted(m) \subseteq Services
      BY DEF Wanted, ModeServices
    <3>2. \E o \in {"boot", "mode"}, S \in SUBSET Services : Begin(c, o, m, S)
      BY <2>1, <3>1 DEF boot, apply_mode
    <3> QED
      BY <3>2 DEF Begin
  <2>2. ASSUME NEW s \in Services, start_service(c, s) \/ stop_service(c, s)
        PROVE  <1>1!1 /\ <1>1!2 /\ <1>1!3 /\ <1>1!4
    <3>1. UNCHANGED <<op, mode, todo>> /\ alone' = alone \cap {c}
      BY <2>2 DEF start_service, stop_service, Interleaves
    <3> QED
      BY <3>1
  <2>4. ASSUME NEW s \in Services, visit(c, s)
        PROVE  <1>1!1 /\ <1>1!2 /\ <1>1!3 /\ <1>1!4
    <3>1. /\ UNCHANGED <<op, mode>> /\ alone' = alone \cap {c}
          /\ todo' = [todo EXCEPT ![c] = @ \ {s}]
      BY <2>4 DEF visit, Interleaves
    <3> QED
      BY <3>1
  <2>3. CASE finish(c)
    BY <2>3 DEF finish
  <2> QED
    BY <2>1, <2>2, <2>3, <2>4 DEF Command, Proceed
<1>2. ASSUME NEW s \in Services, start(s) PROVE SlotInv'
  BY <1>1, <1>2, StartSlot DEF SlotInv, TypeOK
<1>3. ASSUME NEW s \in Services, stop(s) PROVE SlotInv'
  BY <1>1, <1>3, StopSlot DEF SlotInv, TypeOK
<1>4. CASE UNCHANGED <<managerVars, taskVars>>
  BY <1>1, <1>4 DEF SlotInv, TypeOK, StatusMatchesHandle, NoStrayListener, HandlesAreCurrent,
     Live, managerVars, taskVars
<1>5. \/ UNCHANGED <<managerVars, taskVars>>
      \/ \E s \in Services : start(s) \/ stop(s)
  BY DEF Command, Proceed, start_service, stop_service, boot, apply_mode, Begin, visit, finish
<1> QED
  BY <1>2, <1>3, <1>4, <1>5

(* A task that binds, fails, dies or is dropped is not a stray one. *)
LEMMA TaskSlot ==
  ASSUME SlotInv, NEW s \in Services, NEW t \in Tasks,
         Poll(s, t) \/ listener_dies(s, t) \/ drop_aborted(s, t)
  PROVE  SlotInv'
<1> USE ConstantsAssumption DEF SlotInv, TypeOK, StatusMatchesHandle, NoStrayListener,
      HandlesAreCurrent, Live, managerVars, callerVars
<1>1. CASE bind(s, t)
  <2>1. \A r \in Services, u \in Tasks :
            task'[r][u] = IF r = s /\ u = t THEN "listening" ELSE task[r][u]
    BY <1>1 DEF bind
  <2> QED
    BY <1>1, <2>1 DEF bind
<1>2. ASSUME NEW how \in {"unbound", "ended", "free"}, End(s, t, how),
             how = "free" => t \in aborted[s], UNCHANGED <<managerVars, callerVars>>,
             deaths' \in Nat
      PROVE  SlotInv'
  <2> DEFINE state == IF t \in aborted[s] THEN "free" ELSE how
  <2>1. \A r \in Services, u \in Tasks :
            task'[r][u] = IF r = s /\ u = t THEN state ELSE task[r][u]
    BY <1>2 DEF End
  <2>2. \A r \in Services : aborted'[r] = IF r = s THEN aborted[s] \ {t} ELSE aborted[r]
    BY <1>2 DEF End
  <2>3. task' \in [Services -> [Tasks -> {"free", "starting", "listening", "unbound", "ended"}]]
    BY <1>2 DEF End
  <2>4. aborted' \in [Services -> SUBSET Tasks]
    BY <1>2 DEF End
  <2>5. UNCHANGED <<status, handle, op, mode, todo, alone>>
    BY <1>2
  <2>6. StatusMatchesHandle'
    BY <2>5
  <2>7. NoStrayListener'
    BY <1>2, <2>1, <2>2, <2>5
  <2>8. HandlesAreCurrent'
    BY <1>2, <2>1, <2>2, <2>5
  <2> QED
    BY <1>2, <2>3, <2>4, <2>5, <2>6, <2>7, <2>8
<1>3. CASE bind_fails(s, t)
  BY <1>2, <1>3 DEF bind_fails
<1>4. CASE listener_dies(s, t)
  BY <1>2, <1>4 DEF listener_dies
<1>5. CASE drop_aborted(s, t)
  BY <1>2, <1>5 DEF drop_aborted
<1> QED
  BY <1>1, <1>3, <1>4, <1>5 DEF Poll

(* One step of the system preserves SlotInv. *)
LEMMA SlotNext == SlotInv /\ [Next]_vars => SlotInv'
<1> SUFFICES ASSUME SlotInv, [Next]_vars PROVE SlotInv'
  OBVIOUS
<1>1. CASE UNCHANGED vars
  BY <1>1 DEF SlotInv, TypeOK, StatusMatchesHandle, NoStrayListener, HandlesAreCurrent,
     Live, vars, managerVars, taskVars, callerVars
<1>2. CASE Next
  BY <1>2, CallerSlot, TaskSlot DEF Next
<1> QED
  BY <1>1, <1>2

(* The types and the slots are right in every reachable state (TypeOK is part   *)
(* of SlotInv).                                                                 *)
THEOREM SlotInvariant == Spec => []SlotInv
  BY SlotInit, SlotNext, PTL DEF Spec

(* No listener is spawned twice or escapes stop, however start, stop, boot and  *)
(* apply_mode interleave (NoStrayListener).                                     *)
THEOREM NoListenerIsStray == Spec => []NoStrayListener
<1>1. SlotInv => NoStrayListener
  BY DEF SlotInv
<1> QED
  BY <1>1, SlotInvariant, PTL

(* The two fields of a slot never disagree (StatusMatchesHandle). *)
THEOREM SlotsAgree == Spec => []StatusMatchesHandle
<1>1. SlotInv => StatusMatchesHandle
  BY DEF SlotInv
<1> QED
  BY <1>1, SlotInvariant, PTL

-----------------------------------------------------------------------------
(* Modes *)

(* A start or a stop leaves the other services' status alone. *)
LEMMA StartStatus ==
  ASSUME SlotInv, NEW s \in Services, start(s)
  PROVE  /\ \A r \in Services \ {s} : status'[r] = status[r]
         /\ HasAddr(s) => status'[s] = "Running"
  BY DEF start, Spawn, SlotInv, TypeOK, managerVars

(* A stopped service is Idle, because an empty slot already says so. *)
LEMMA StopStatus ==
  ASSUME SlotInv, NEW s \in Services, stop(s)
  PROVE  /\ \A r \in Services \ {s} : status'[r] = status[r]
         /\ status'[s] = "Idle"
  BY DEF stop, SlotInv, TypeOK, StatusMatchesHandle, managerVars

(* Only a configured service is wanted, so the start of one takes effect. *)
LEMMA WantedHaveAddr ==
  ASSUME NEW m, NEW s \in Wanted(m)
  PROVE  HasAddr(s)
  BY DEF Wanted, ModeServices, HasAddr

(* A step of the loop of apply_mode settles the service it visits and keeps     *)
(* the ones it visited before.                                                  *)
LEMMA VisitWanted ==
  ASSUME SlotInv, VisitedAsWanted, NEW c \in Callers, NEW s \in Services, visit(c, s)
  PROVE  VisitedAsWanted'
<1> USE DEF SlotInv, TypeOK
<1>1. /\ UNCHANGED <<op, mode>> /\ alone' = alone \cap {c}
      /\ todo' = [todo EXCEPT ![c] = @ \ {s}]
  BY DEF visit, Interleaves
<1>2. /\ \A r \in Services \ {s} : status'[r] = status[r]
      /\ status'[s] = "Running" <=> s \in Wanted(mode[c])
  <2>1. CASE s \in Wanted(mode[c])
    BY <2>1, StartStatus, WantedHaveAddr DEF visit
  <2>2. CASE s \notin Wanted(mode[c])
    BY <2>2, StopStatus DEF visit
  <2> QED
    BY <2>1, <2>2
<1>3. SUFFICES ASSUME NEW d \in Callers, op'[d] = "mode", d \in alone',
                      NEW r \in Services \ todo'[d]
               PROVE  status'[r] = "Running" <=> r \in Wanted(mode'[d])
  BY DEF VisitedAsWanted, Wanted, ModeServices
<1>4. d = c /\ op[c] = "mode" /\ c \in alone
  BY <1>1, <1>3
<1>5. CASE r = s
  BY <1>1, <1>2, <1>4, <1>5
<1>6. CASE r # s
  <2>1. r \in Services \ todo[c]
    BY <1>1, <1>3, <1>4, <1>6
  <2> QED
    BY <1>1, <1>2, <1>4, <1>6, <2>1 DEF VisitedAsWanted
<1> QED
  BY <1>5, <1>6

(* Every other step either breaks the solitude of the command or does not       *)
(* touch a status.                                                              *)
LEMMA OtherWanted ==
  ASSUME SlotInv, VisitedAsWanted, NEW c \in Callers, Command(c) \/ finish(c)
  PROVE  VisitedAsWanted'
<1> USE DEF SlotInv, TypeOK
<1>1. ASSUME NEW s \in Services, start_service(c, s) \/ stop_service(c, s)
      PROVE  VisitedAsWanted'
  <2>1. UNCHANGED <<op, mode, todo>> /\ alone' = alone \cap {c} /\ op[c] = "idle"
    BY <1>1 DEF start_service, stop_service, Interleaves
  <2> QED
    BY <2>1 DEF VisitedAsWanted
<1>2. ASSUME NEW m \in Modes, boot(c, m) PROVE VisitedAsWanted'
  <2>1. /\ op' = [op EXCEPT ![c] = "boot"] /\ mode' = [mode EXCEPT ![c] = m]
        /\ todo' = [todo EXCEPT ![c] = Wanted(m)] /\ alone' = alone \cup {c}
        /\ UNCHANGED status
    BY <1>2 DEF boot, Begin, managerVars
  <2> QED
    BY <2>1 DEF VisitedAsWanted, Wanted, ModeServices
<1>3. ASSUME NEW m \in Modes, apply_mode(c, m) PROVE VisitedAsWanted'
  <2>1. /\ op' = [op EXCEPT ![c] = "mode"] /\ mode' = [mode EXCEPT ![c] = m]
        /\ todo' = [todo EXCEPT ![c] = Services] /\ alone' = alone \cup {c}
        /\ UNCHANGED status
    BY <1>3 DEF apply_mode, Begin, managerVars
  <2> QED
    BY <2>1 DEF VisitedAsWanted, Wanted, ModeServices
<1>4. CASE finish(c)
  <2>1. /\ op' = [op EXCEPT ![c] = "idle"] /\ mode' = [mode EXCEPT ![c] = "off"]
        /\ alone' = alone \ {c} /\ UNCHANGED <<status, todo>>
    BY <1>4 DEF finish, managerVars
  <2> QED
    BY <2>1 DEF VisitedAsWanted, Wanted, ModeServices
<1> QED
  BY <1>1, <1>2, <1>3, <1>4 DEF Command

(* One step of the system preserves VisitedAsWanted. *)
LEMMA WantedNext == SlotInv /\ VisitedAsWanted /\ [Next]_vars => VisitedAsWanted'
<1> SUFFICES ASSUME SlotInv, VisitedAsWanted, [Next]_vars PROVE VisitedAsWanted'
  OBVIOUS
<1>1. CASE UNCHANGED <<status, callerVars>>
  BY <1>1 DEF VisitedAsWanted, Wanted, ModeServices, callerVars
<1>2. ASSUME NEW s \in Services, NEW t \in Tasks,
             Poll(s, t) \/ listener_dies(s, t) \/ drop_aborted(s, t)
      PROVE  UNCHANGED <<status, callerVars>>
  BY <1>2 DEF Poll, bind, bind_fails, listener_dies, drop_aborted, managerVars
<1>3. CASE Next
  BY <1>1, <1>2, <1>3, VisitWanted, OtherWanted DEF Next, Proceed
<1>4. CASE UNCHANGED vars
  BY <1>1, <1>4 DEF vars, managerVars
<1> QED
  BY <1>3, <1>4

(* An apply_mode that no other command interleaved with leaves exactly the      *)
(* services of its mode Running (ModeIsReached).                                *)
THEOREM ModesAreReached == Spec => []ModeIsReached
<1>1. Init => VisitedAsWanted
  BY DEF Init, VisitedAsWanted
<1>2. SlotInv /\ VisitedAsWanted => ModeIsReached
  <2> SUFFICES ASSUME SlotInv, VisitedAsWanted, NEW c \in Callers, op[c] = "mode",
                      todo[c] = {}, c \in alone, NEW s \in Services
               PROVE  status[s] = "Running" <=>
                        IF s = "smtps" THEN SmtpsConfigured /\ mode[c] \in {"full", "smtp"}
                                       ELSE mode[c] \in {"full", s}
    BY DEF ModeIsReached
  <2>1. status[s] = "Running" <=> s \in Wanted(mode[c])
    BY DEF VisitedAsWanted
  <2> QED
    BY <2>1, ConstantsAssumption DEF Wanted, ModeServices
<1> QED
  BY <1>1, <1>2, WantedNext, SlotInvariant, PTL DEF Spec
=============================================================================
