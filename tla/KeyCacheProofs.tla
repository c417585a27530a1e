---------------------------- MODULE KeyCacheProofs ----------------------------
(***************************************************************************)
(* Proofs about KeyCache, for any number of requests that fetch beside the *)
(* refresher, any sequence of published key sets, any ttl and any bound on *)
(* the duration of a fetch.                                                *)
(***************************************************************************)
EXTENDS KeyCache, FiniteSetTheorems, TLAPS

Fetching == {"discover", "get", "got"}

(* Only the refresher sleeps, no longer than the ttl; a fetch has not lasted *)
(* longer than it may, and a request that is not fetching has no clock.      *)
FetchTimes ==
    /\ \A f \in Fetchers : pc[f] \in Fetching => elapsed[f] <= MaxFetch
    /\ \A r \in Requests : pc[r] # "sleep" /\ (pc[r] \notin Fetching => elapsed[r] = 0)
    /\ pc[Refresher] = "sleep" => elapsed[Refresher] <= Ttl
    /\ pc[Refresher] \in IF IsRemote THEN Awaiting ELSE {"idle"}

(* What is published now or later is not retired; an answer that has arrived *)
(* and is not stored yet was current when the fetch began, or later.         *)
VersionsKnown ==
    /\ cache.ver <= version
    /\ ~IsRemote => version = 1
    /\ \A v \in Versions : version <= v => retired[v] = 0
    /\ \A f \in Fetchers : pc[f] = "got" =>
          got[f] \in Versions /\ got[f] <= version /\ retired[got[f]] <= elapsed[f]

(* Time since the refresher last stored a set, as its clock and the number   *)
(* of its failures tell, and one fetch more.                                 *)
LagSoFar ==
    misses * (Ttl + MaxFetch) + MaxFetch + elapsed[Refresher]
        + (IF pc[Refresher] = "sleep" THEN 0 ELSE Ttl)

(* StaleIsBounded, at every moment between two stores of the refresher. *)
CacheLags == IsRemote /\ cache.ver # 0 => retired[cache.ver] <= LagSoFar

(* There is a set for good once there was one when the request came in. *)
SetIsKept == \A r \in Requests : pc[r] # "idle" /\ r \notin blind => cache.ver # 0

IInv ==
    /\ TypeOK
    /\ FetchTimes
    /\ VersionsKnown
    /\ CacheLags
    /\ SetIsKept
    /\ OpenOnlyBeforeFirstSet

-----------------------------------------------------------------------------
LEMMA Constants ==
  /\ Ttl \in Nat /\ MaxFetch \in Nat /\ MaxFails \in Nat /\ Ttl # 0 /\ MaxFetch # 0
  /\ Len(Published) \in Nat /\ 1 \in Versions /\ \A v \in Versions : v \in Nat /\ 1 <= v
  /\ Refresher \notin Requests /\ Requests \subseteq Fetchers /\ Refresher \in Fetchers
<1>1. Len(Published) \in Nat /\ Len(Published) # 0
  BY ConstantsAssumption
<1> QED
  BY <1>1, ConstantsAssumption DEF Versions, Fetchers

LEMMA BlankType == Blank \in Tokens
  BY ConstantsAssumption DEF Blank

LEMMA ConfigType ==
  ASSUME cfg \in Configs
  PROVE  /\ cfg.kind \in {"secret", "jwks", "jwks_remote", "issuer"}
         /\ cfg.enabled \in BOOLEAN /\ cfg.fail_closed \in BOOLEAN
         /\ IsRemote \in BOOLEAN
  BY ConstantsAssumption DEF Config, IsRemote

(* The bound grows by a period with each refresh that fails. *)
LEMMA LagGrows ==
  ASSUME NEW m \in Nat
  PROVE  /\ m * (Ttl + MaxFetch) \in Nat
         /\ (m + 1) * (Ttl + MaxFetch) = m * (Ttl + MaxFetch) + Ttl + MaxFetch
         /\ Lag(m) = m * (Ttl + MaxFetch) + Ttl + MaxFetch + MaxFetch
  BY Constants DEF Lag

LEMMA FetchFromType == FetchFrom \in {"discover", "get"}
  BY DEF FetchFrom

LEMMA VerdictType ==
  ASSUME NEW t, NEW S
  PROVE  Verdict(t, S) \in {"admitted", "forbidden", "rejected"}
  BY DEF Verdict

(* The refresher starts at once, with an empty cache. *)
LEMMA KeyCacheInit == Init => IInv
<1> SUFFICES ASSUME Init PROVE IInv
  OBVIOUS
<1> USE Constants
<1>1. TypeOK
  <2>1. pc \in [Fetchers -> Awaiting \cup {"idle", "fast", "check", "reread", "last"}]
    BY FetchFromType DEF Init, Awaiting
  <2>2. ~IsRemote => \A f \in Fetchers : pc[f] \notin Awaiting
    BY DEF Init, Awaiting
  <2>3. cache \in [ver : Versions \cup {0}, age : 0 .. Ttl]
    BY DEF Init
  <2> QED
    BY <2>1, <2>2, <2>3, BlankType DEF Init, TypeOK
<1>2. FetchTimes
  BY FetchFromType DEF Init, FetchTimes, Fetching, Awaiting
<1>3. VersionsKnown
  <2>1. \A f \in Fetchers : pc[f] # "got"
    BY FetchFromType DEF Init
  <2>2. cache.ver <= version
    BY DEF Init
  <2> QED
    BY <2>1, <2>2 DEF Init, VersionsKnown
<1>4. CacheLags
  <2>1. IsRemote => cache.ver = 0
    BY DEF Init, IsRemote
  <2> QED
    BY <2>1 DEF CacheLags
<1>5. SetIsKept /\ OpenOnlyBeforeFirstSet
  BY DEF Init, SetIsKept, OpenOnlyBeforeFirstSet
<1> QED
  BY <1>1, <1>2, <1>3, <1>4, <1>5 DEF IInv

-----------------------------------------------------------------------------
(* A request that is decided without a key set. *)
LEMMA RequestStep ==
  ASSUME IInv, NEW r \in Requests, Request(r)
  PROVE  IInv'
<1> USE Constants DEF IInv
<1>1. CASE UNCHANGED <<sourceVars, cacheVars, fetchVars, token, blind, obsVars>>
      /\ \E d \in {"exempt", "rejected", "admitted", "forbidden"} :
            decision' = [decision EXCEPT ![r] = d]
  BY <1>1 DEF TypeOK, FetchTimes, VersionsKnown, CacheLags, LagSoFar, SetIsKept,
     OpenOnlyBeforeFirstSet, IsRemote, sourceVars, cacheVars, fetchVars, obsVars
<1>2. ASSUME NEW t \in Tokens, verify_set(r, t) PROVE IInv'
  <2>1. /\ pc[r] = "idle" /\ pc' = [pc EXCEPT ![r] = "fast"] /\ token' = [token EXCEPT ![r] = t]
        /\ decision' = [decision EXCEPT ![r] = "none"]
        /\ blind' = IF cache.ver = 0 THEN blind \cup {r} ELSE blind \ {r}
    BY <1>2 DEF verify_set
  <2>2. UNCHANGED <<cfg, version, cache, resolved, got, elapsed, retired, misses, fails>>
    BY <1>2 DEF verify_set, sourceVars, cacheVars, obsVars
  <2> USE <2>1, <2>2
  <2>3. TypeOK'
    BY DEF TypeOK, IsRemote, Awaiting
  <2>4. FetchTimes'
    BY DEF TypeOK, FetchTimes, IsRemote, Fetching
  <2>5. VersionsKnown' /\ CacheLags'
    BY DEF TypeOK, VersionsKnown, CacheLags, LagSoFar, IsRemote
  <2>6. SetIsKept' /\ OpenOnlyBeforeFirstSet'
    BY DEF TypeOK, SetIsKept, OpenOnlyBeforeFirstSet
  <2> QED
    BY <2>3, <2>4, <2>5, <2>6
<1>3. ASSUME NEW t \in Tokens, verify_secret(r, t) PROVE IInv'
  BY <1>1, <1>3, VerdictType DEF verify_secret
<1> QED
  BY <1>1, <1>2, <1>3 DEF Request, enforce_exempt, enforce_unreadable

(* What a step of resolve comes to: a decision from a set, an open door      *)
(* while there is none, or the next statement.                               *)
LEMMA ResolveEffect ==
  ASSUME IInv, NEW r \in Requests, Resolve(r)
  PROVE  /\ pc[r] \in {"fast", "check", "reread", "last"}
         /\ UNCHANGED <<cfg, version, cache, resolved, blind, retired, misses, fails>>
         /\ \/ Answer(r, cache.ver)
            \/ cache.ver = 0 /\ cfg.fail_closed /\ Decide(r, "rejected")
            \/ cache.ver = 0 /\ ~cfg.fail_closed /\ Decide(r, "failed_open")
            \/ \E l \in {"check", "last"} \cup (IF IsRemote THEN {FetchFrom} ELSE {}) : Goto(r, l)
<1>1. CASE fast_path(r)
  BY <1>1 DEF fast_path, sourceVars, cacheVars, obsVars
<1>2. CASE check_stale(r)
  BY <1>2 DEF check_stale, sourceVars, cacheVars, obsVars
<1>3. CASE reread(r)
  BY <1>3 DEF reread, sourceVars, cacheVars, obsVars
<1>4. CASE last_resort(r)
  <2>1. \/ Answer(r, cache.ver)
        \/ cache.ver = 0 /\ Decide(r, IF cfg.fail_closed THEN "rejected" ELSE "failed_open")
    BY <1>4 DEF last_resort
  <2>2. cfg.fail_closed \in BOOLEAN
    BY ConfigType DEF IInv, TypeOK
  <2> QED
    BY <1>4, <2>1, <2>2 DEF last_resort, sourceVars, cacheVars, obsVars
<1> QED
  BY <1>1, <1>2, <1>3, <1>4 DEF Resolve

LEMMA ResolveStep ==
  ASSUME IInv, NEW r \in Requests, Resolve(r)
  PROVE  IInv'
<1> USE Constants DEF IInv
<1>0. /\ pc[r] \in {"fast", "check", "reread", "last"}
      /\ UNCHANGED <<cfg, version, cache, resolved, blind, retired, misses, fails>>
  BY ResolveEffect
<1>1. ASSUME NEW d \in {"admitted", "forbidden", "rejected", "failed_open"}, Decide(r, d),
             d = "failed_open" => cache.ver = 0 /\ ~cfg.fail_closed
      PROVE  IInv'
  <2>1. /\ pc' = [pc EXCEPT ![r] = "idle"] /\ decision' = [decision EXCEPT ![r] = d]
        /\ got' = [got EXCEPT ![r] = 0] /\ elapsed' = [elapsed EXCEPT ![r] = 0]
        /\ token' = [token EXCEPT ![r] = Blank]
    BY <1>1 DEF Decide
  <2> USE <1>0, <2>1
  <2>2. TypeOK'
    BY BlankType DEF TypeOK, IsRemote, Awaiting
  <2>3. FetchTimes'
    BY DEF TypeOK, FetchTimes, IsRemote, Fetching
  <2>4. VersionsKnown' /\ CacheLags'
    BY DEF TypeOK, VersionsKnown, CacheLags, LagSoFar, IsRemote
  <2>5. SetIsKept' /\ OpenOnlyBeforeFirstSet'
    BY <1>1 DEF TypeOK, SetIsKept, OpenOnlyBeforeFirstSet
  <2> QED
    BY <2>2, <2>3, <2>4, <2>5
<1>2. ASSUME NEW l \in {"check", "last"} \cup (IF IsRemote THEN {FetchFrom} ELSE {}), Goto(r, l)
      PROVE  IInv'
  <2>1. pc' = [pc EXCEPT ![r] = l] /\ UNCHANGED <<got, elapsed, token, decision>>
    BY <1>2 DEF Goto
  <2>2. l \in {"check", "last", "discover", "get"} /\ (~IsRemote => l \in {"check", "last"})
    BY FetchFromType
  <2> USE <1>0, <2>1, <2>2
  <2>3. TypeOK'
    BY DEF TypeOK, IsRemote, Awaiting
  <2>4. FetchTimes'
    BY DEF TypeOK, FetchTimes, IsRemote, Fetching
  <2>5. VersionsKnown' /\ CacheLags'
    BY DEF TypeOK, VersionsKnown, CacheLags, LagSoFar, IsRemote
  <2>6. SetIsKept' /\ OpenOnlyBeforeFirstSet'
    BY DEF TypeOK, SetIsKept, OpenOnlyBeforeFirstSet
  <2> QED
    BY <2>3, <2>4, <2>5, <2>6
<1>3. Answer(r, cache.ver) => \E d \in {"admitted", "forbidden", "rejected"} : Decide(r, d)
  BY VerdictType DEF Answer
<1> QED
  BY <1>1, <1>2, <1>3, ResolveEffect

-----------------------------------------------------------------------------
(* Discovery leads to the key request, whose answer is the set published at  *)
(* that moment.                                                              *)
LEMMA ServeStep ==
  ASSUME IInv, NEW f \in Fetchers, discover(f) \/ serve(f)
  PROVE  IInv'
<1> USE Constants DEF IInv
<1>1. CASE discover(f)
  <2>1. /\ pc[f] = "discover" /\ pc' = [pc EXCEPT ![f] = "get"] /\ resolved' = TRUE
        /\ UNCHANGED <<cfg, version, cache, got, elapsed, token, decision, blind, retired, misses, fails>>
    BY <1>1 DEF discover, sourceVars, requestVars, obsVars
  <2> QED
    BY <2>1 DEF TypeOK, FetchTimes, VersionsKnown, CacheLags, LagSoFar, SetIsKept,
       OpenOnlyBeforeFirstSet, IsRemote, Fetching, Awaiting
<1>2. CASE serve(f)
  <2>1. /\ pc[f] = "get" /\ pc' = [pc EXCEPT ![f] = "got"] /\ got' = [got EXCEPT ![f] = version]
        /\ UNCHANGED <<cfg, version, cache, resolved, elapsed, token, decision, blind, retired,
                       misses, fails>>
    BY <1>2 DEF serve, sourceVars, cacheVars, requestVars, obsVars
  <2> USE <2>1
  <2>2. TypeOK'
    BY DEF TypeOK, IsRemote, Awaiting
  <2>3. FetchTimes'
    BY DEF TypeOK, FetchTimes, IsRemote, Fetching, Awaiting
  <2>4. VersionsKnown'
    BY DEF TypeOK, VersionsKnown, IsRemote
  <2>5. CacheLags'
    BY DEF TypeOK, CacheLags, LagSoFar, IsRemote
  <2>6. SetIsKept' /\ OpenOnlyBeforeFirstSet'
    BY DEF TypeOK, SetIsKept, OpenOnlyBeforeFirstSet
  <2> QED
    BY <2>2, <2>3, <2>4, <2>5, <2>6
<1> QED
  BY <1>1, <1>2

(* A stored answer lags by no more than its fetch took; if the refresher     *)
(* stored it, its clock starts anew.                                         *)
LEMMA StoreStep ==
  ASSUME IInv, NEW f \in Fetchers, store(f)
  PROVE  IInv'
<1> USE Constants DEF IInv
<1> DEFINE l == IF f = Refresher THEN "sleep" ELSE "reread"
<1>1. /\ pc[f] = "got" /\ cache' = [ver |-> got[f], age |-> 0]
      /\ pc' = [pc EXCEPT ![f] = l]
      /\ got' = [got EXCEPT ![f] = 0] /\ elapsed' = [elapsed EXCEPT ![f] = 0]
      /\ misses' = IF f = Refresher THEN 0 ELSE misses
      /\ UNCHANGED <<cfg, version, resolved, token, decision, blind, retired, fails>>
  BY DEF store, sourceVars, requestVars
<1>2. cache'.ver = got[f] /\ cache'.age = 0 /\ got[f] \in Versions /\ IsRemote
  BY <1>1 DEF TypeOK, VersionsKnown, Awaiting
<1>3. l \in {"sleep", "reread"} /\ (f = Refresher <=> l = "sleep")
  OBVIOUS
<1> HIDE DEF l
<1> USE <1>1, <1>2, <1>3
<1>4. TypeOK'
  BY DEF TypeOK, IsRemote, Awaiting
<1>5. FetchTimes'
  BY DEF TypeOK, FetchTimes, IsRemote, Fetching, Awaiting
<1>6. VersionsKnown'
  BY DEF TypeOK, VersionsKnown, IsRemote
<1>7. CacheLags'
  <2>1. retired'[got[f]] <= MaxFetch
    <3>1. retired[got[f]] <= elapsed[f] /\ elapsed[f] <= MaxFetch
      BY DEF VersionsKnown, FetchTimes, Fetching
    <3>2. retired' = retired /\ retired[got[f]] \in Nat /\ elapsed[f] \in Nat
      BY DEF TypeOK
    <3> HIDE <1>1, <1>2
    <3> QED
      BY <3>1, <3>2
  <2>2. misses' \in Nat /\ elapsed' \in [Fetchers -> Nat] /\ retired' \in [Versions -> Nat]
    BY <1>4 DEF TypeOK
  <2> DEFINE past == misses' * (Ttl + MaxFetch)
  <2>3. past \in Nat
    BY <2>2, LagGrows
  <2> HIDE <1>1 DEF past
  <2>4. LagSoFar' = past + MaxFetch + elapsed'[Refresher]
                        + (IF pc'[Refresher] = "sleep" THEN 0 ELSE Ttl)
    BY DEF LagSoFar, past
  <2>5. MaxFetch <= LagSoFar'
    BY <2>2, <2>3, <2>4
  <2>6. retired'[got[f]] \in Nat /\ LagSoFar' \in Nat
    <3>1. retired'[got[f]] \in Nat /\ elapsed'[Refresher] \in Nat
      BY <1>2, <2>2
    <3> QED
      BY <2>3, <2>4, <3>1
  <2> QED
    BY <1>2, <2>1, <2>5, <2>6 DEF CacheLags
<1>8. SetIsKept' /\ OpenOnlyBeforeFirstSet'
  BY DEF TypeOK, SetIsKept, OpenOnlyBeforeFirstSet
<1> QED
  BY <1>4, <1>5, <1>6, <1>7, <1>8

(* A refresh that fails costs a period: the time it took is in the bound. *)
LEMMA FailStep ==
  ASSUME IInv, NEW f \in Fetchers, fetch_fails(f)
  PROVE  IInv'
<1> USE Constants DEF IInv
<1> DEFINE l == IF f = Refresher THEN "sleep" ELSE "last"
<1>1. /\ pc[f] \in Fetching /\ pc' = [pc EXCEPT ![f] = l]
      /\ got' = [got EXCEPT ![f] = 0] /\ elapsed' = [elapsed EXCEPT ![f] = 0]
      /\ misses' = IF f = Refresher THEN misses + 1 ELSE misses
      /\ fails' = fails + 1
      /\ UNCHANGED <<cfg, version, cache, resolved, token, decision, blind, retired>>
  BY DEF fetch_fails, sourceVars, cacheVars, requestVars, Fetching
<1>2. IsRemote
  BY <1>1 DEF TypeOK, Awaiting, Fetching
<1>3. l \in {"sleep", "last"} /\ (f = Refresher <=> l = "sleep")
  OBVIOUS
<1> HIDE DEF l
<1> USE <1>1, <1>2, <1>3
<1>4. TypeOK'
  BY DEF TypeOK, IsRemote, Awaiting
<1>5. FetchTimes'
  BY DEF TypeOK, FetchTimes, IsRemote, Fetching, Awaiting
<1>6. VersionsKnown'
  BY DEF TypeOK, VersionsKnown, IsRemote
<1>7. CacheLags'
  <2>1. CASE f = Refresher
    <3>1. misses \in Nat /\ elapsed[f] \in Nat /\ elapsed[f] <= MaxFetch
      BY DEF TypeOK, FetchTimes
    <3>2. cache.ver # 0 =>
            retired[cache.ver] <= misses * (Ttl + MaxFetch) + MaxFetch + elapsed[f] + Ttl
      BY <2>1 DEF CacheLags, LagSoFar, Fetching
    <3>3. LagSoFar' = (misses + 1) * (Ttl + MaxFetch) + MaxFetch
      <4>1. misses' = misses + 1 /\ elapsed'[Refresher] = 0 /\ pc'[Refresher] = "sleep"
        BY <2>1 DEF TypeOK
      <4> HIDE <1>1
      <4>2. LagSoFar' = (misses + 1) * (Ttl + MaxFetch) + MaxFetch + 0 + 0
        BY <4>1 DEF LagSoFar
      <4>3. (misses + 1) * (Ttl + MaxFetch) \in Nat
        <5>1. misses + 1 \in Nat
          BY <3>1
        <5> QED
          BY <5>1, LagGrows
      <4> QED
        BY <4>2, <4>3
    <3>4. cache.ver # 0 => retired[cache.ver] \in Nat
      BY DEF TypeOK
    <3>5. /\ misses * (Ttl + MaxFetch) \in Nat
          /\ (misses + 1) * (Ttl + MaxFetch) = misses * (Ttl + MaxFetch) + Ttl + MaxFetch
      BY <3>1, LagGrows
    <3> QED
      BY <3>1, <3>2, <3>3, <3>4, <3>5 DEF CacheLags
  <2>2. CASE f # Refresher
    <3>1. LagSoFar' = LagSoFar
      BY <2>2 DEF TypeOK, LagSoFar
    <3> QED
      BY <3>1 DEF CacheLags, IsRemote
  <2> QED
    BY <2>1, <2>2
<1>8. SetIsKept' /\ OpenOnlyBeforeFirstSet'
  BY DEF TypeOK, SetIsKept, Fetching, OpenOnlyBeforeFirstSet
<1> QED
  BY <1>4, <1>5, <1>6, <1>7, <1>8

(* The refresher wakes up: its sleep is in the bound. *)
LEMMA RefreshStep ==
  ASSUME IInv, refresh
  PROVE  IInv'
<1> USE Constants DEF IInv
<1>1. /\ pc[Refresher] = "sleep" /\ pc' = [pc EXCEPT ![Refresher] = FetchFrom]
      /\ elapsed' = [elapsed EXCEPT ![Refresher] = 0]
      /\ UNCHANGED <<cfg, version, cache, resolved, got, token, decision, blind, retired, misses, fails>>
  BY DEF refresh, sourceVars, cacheVars, requestVars, obsVars
<1>2. IsRemote
  BY <1>1 DEF TypeOK, Awaiting
<1> USE <1>1, <1>2, FetchFromType
<1>3. TypeOK'
  BY DEF TypeOK, IsRemote, Awaiting
<1>4. FetchTimes'
  BY DEF TypeOK, FetchTimes, IsRemote, Fetching, Awaiting
<1>5. VersionsKnown'
  BY DEF TypeOK, VersionsKnown, IsRemote
<1>6. CacheLags'
  <2> DEFINE past == misses * (Ttl + MaxFetch)
  <2>1. elapsed[Refresher] \in Nat /\ elapsed[Refresher] <= Ttl /\ past \in Nat
    BY LagGrows DEF TypeOK, FetchTimes
  <2>2. LagSoFar = past + MaxFetch + elapsed[Refresher] + 0
    BY DEF LagSoFar
  <2>3. LagSoFar' = past + MaxFetch + 0 + Ttl
    <3>1. pc'[Refresher] # "sleep" /\ elapsed'[Refresher] = 0 /\ misses' = misses
      BY DEF TypeOK
    <3> HIDE <1>1
    <3> QED
      BY <3>1 DEF LagSoFar
  <2> HIDE DEF past
  <2>4. LagSoFar <= LagSoFar' /\ LagSoFar \in Nat /\ LagSoFar' \in Nat
    BY <2>1, <2>2, <2>3
  <2>5. cache.ver # 0 => retired[cache.ver] \in Nat
    BY DEF TypeOK
  <2> QED
    BY <2>4, <2>5 DEF CacheLags
<1>7. SetIsKept' /\ OpenOnlyBeforeFirstSet'
  BY DEF TypeOK, SetIsKept, OpenOnlyBeforeFirstSet
<1> QED
  BY <1>3, <1>4, <1>5, <1>6, <1>7

(* A rotation retires nothing yet: that takes time. *)
LEMMA RotateStep ==
  ASSUME IInv, rotate
  PROVE  IInv'
<1> USE Constants DEF IInv
<1>1. /\ IsRemote /\ version < Len(Published) /\ version' = version + 1
      /\ UNCHANGED <<cfg, cache, resolved, pc, got, elapsed, token, decision, blind, retired,
                     misses, fails>>
  BY DEF rotate, cacheVars, fetchVars, requestVars, obsVars
<1>2. version' \in Versions
  BY <1>1 DEF TypeOK, Versions
<1> USE <1>1, <1>2
<1>3. TypeOK' /\ FetchTimes'
  BY DEF TypeOK, FetchTimes, IsRemote
<1>4. VersionsKnown'
  <2>1. version \in Nat /\ cache.ver \in Nat /\ cache'.ver <= version'
    <3>1. version \in Versions /\ cache.ver \in Versions \cup {0} /\ cache.ver <= version
      BY DEF TypeOK, VersionsKnown
    <3>2. version \in Nat /\ cache.ver \in Nat
      BY <3>1 DEF Versions
    <3>3. cache' = cache /\ version' = version + 1
      OBVIOUS
    <3> HIDE <1>1
    <3> QED
      BY <3>1, <3>2, <3>3
  <2>2. ASSUME NEW v \in Versions, version' <= v PROVE retired'[v] = 0
    <3>1. v \in Nat /\ version <= v
      BY <2>1, <2>2
    <3> QED
      BY <3>1 DEF VersionsKnown
  <2>3. ASSUME NEW f \in Fetchers, pc'[f] = "got"
        PROVE  got'[f] \in Versions /\ got'[f] <= version' /\ retired'[got'[f]] <= elapsed'[f]
    <3>1. got[f] \in Versions /\ got[f] <= version /\ retired[got[f]] <= elapsed[f]
      BY <2>3 DEF VersionsKnown
    <3>2. got[f] \in Nat
      BY <3>1
    <3> QED
      BY <2>1, <3>1, <3>2
  <2>4. IsRemote'
    BY DEF IsRemote
  <2> QED
    BY <2>1, <2>2, <2>3, <2>4 DEF VersionsKnown
<1>5. CacheLags' /\ SetIsKept' /\ OpenOnlyBeforeFirstSet'
  BY DEF CacheLags, LagSoFar, SetIsKept, OpenOnlyBeforeFirstSet, IsRemote
<1> QED
  BY <1>3, <1>4, <1>5

(* Time passes for everyone: a retired set ages as the refresher's clock     *)
(* does, and nobody who is due lets time pass.                               *)
LEMMA TickStep ==
  ASSUME IInv, Tick
  PROVE  IInv'
<1> USE Constants DEF IInv
<1>1. /\ \A f \in Fetchers : MayWait(f)
      /\ elapsed' = [f \in Fetchers |-> IF pc[f] \in Awaiting THEN elapsed[f] + 1 ELSE elapsed[f]]
      /\ cache' = [cache EXCEPT !.age = IF cache.ver = 0 THEN 0 ELSE Cap(@ + 1, Ttl)]
      /\ retired' = [v \in Versions |->
                       IF v < version THEN Cap(retired[v] + 1, Lag(MaxFails) + 1) ELSE 0]
      /\ UNCHANGED <<cfg, version, resolved, pc, got, token, decision, blind, misses, fails>>
  BY DEF Tick, sourceVars, requestVars
<1>2. Lag(MaxFails) \in Nat
  BY LagGrows
<1>3. /\ retired' \in [Versions -> Nat]
      /\ \A v \in Versions : retired'[v] <= retired[v] + 1
      /\ \A v \in Versions : version <= v => retired'[v] = 0
  <2>1. version \in Nat
    BY DEF TypeOK
  <2>2. ASSUME NEW v \in Versions
        PROVE  /\ retired'[v] \in Nat /\ retired'[v] <= retired[v] + 1
               /\ version <= v => retired'[v] = 0
    <3>1. v \in Nat /\ retired[v] \in Nat /\ Lag(MaxFails) + 1 \in Nat
      BY <1>2 DEF TypeOK
    <3>2. /\ Cap(retired[v] + 1, Lag(MaxFails) + 1) \in Nat
          /\ Cap(retired[v] + 1, Lag(MaxFails) + 1) <= retired[v] + 1
      BY <3>1 DEF Cap
    <3>3. retired'[v] = IF v < version THEN Cap(retired[v] + 1, Lag(MaxFails) + 1) ELSE 0
      BY <1>1
    <3> QED
      BY <2>1, <3>1, <3>2, <3>3
  <2>3. retired' = [v \in Versions |-> retired'[v]]
    BY <1>1
  <2> QED
    BY <2>2, <2>3
<1>4. /\ elapsed' \in [Fetchers -> Nat]
      /\ \A f \in Fetchers : pc[f] \in Awaiting => elapsed'[f] = elapsed[f] + 1
      /\ \A f \in Fetchers : pc[f] \notin Awaiting => elapsed'[f] = elapsed[f]
  BY <1>1 DEF TypeOK
<1>5. cache'.ver = cache.ver /\ cache' \in [ver : Versions \cup {0}, age : 0 .. Ttl]
  <2> DEFINE a == IF cache.ver = 0 THEN 0 ELSE Cap(cache.age + 1, Ttl)
  <2>1. cache.age \in Nat /\ cache.age + 1 \in Nat /\ cache \in [ver : Versions \cup {0}, age : 0 .. Ttl]
    BY DEF TypeOK
  <2>2. a \in 0 .. Ttl
    <3>1. Cap(cache.age + 1, Ttl) \in 0 .. Ttl
      BY <2>1 DEF Cap
    <3> QED
      BY <3>1
  <2>3. cache' = [cache EXCEPT !.age = a]
    BY <1>1
  <2> HIDE DEF a
  <2> QED
    BY <2>1, <2>2, <2>3
<1>6. UNCHANGED <<cfg, version, resolved, pc, got, token, decision, blind, misses, fails>>
  BY <1>1
<1>7. TypeOK'
  BY <1>3, <1>4, <1>5, <1>6 DEF TypeOK, IsRemote
<1>8. FetchTimes'
  <2>1. ASSUME NEW f \in Fetchers, pc[f] \in Fetching PROVE elapsed'[f] <= MaxFetch
    <3>1. elapsed[f] < MaxFetch /\ elapsed[f] \in Nat /\ elapsed'[f] = elapsed[f] + 1
      BY <1>1, <1>4, <2>1 DEF TypeOK, MayWait, Fetching, Awaiting
    <3> QED
      BY <3>1
  <2>2. pc[Refresher] = "sleep" => elapsed'[Refresher] <= Ttl
    <3> SUFFICES ASSUME pc[Refresher] = "sleep" PROVE elapsed'[Refresher] <= Ttl
      OBVIOUS
    <3>1. /\ elapsed[Refresher] < Ttl /\ elapsed[Refresher] \in Nat
          /\ elapsed'[Refresher] = elapsed[Refresher] + 1
      BY <1>1, <1>4 DEF TypeOK, MayWait, Awaiting
    <3> QED
      BY <3>1
  <2>3. ASSUME NEW r \in Requests PROVE pc[r] # "sleep" /\ (pc[r] \notin Fetching => elapsed'[r] = 0)
    BY <1>4 DEF FetchTimes, Fetching, Awaiting
  <2>4. pc[Refresher] \in IF IsRemote THEN Awaiting ELSE {"idle"}
    BY DEF FetchTimes
  <2>5. IsRemote' = IsRemote
    BY <1>6 DEF IsRemote
  <2> QED
    BY <1>6, <2>1, <2>2, <2>3, <2>4, <2>5 DEF FetchTimes
<1>9. VersionsKnown'
  <2>1. ASSUME NEW f \in Fetchers, pc[f] = "got"
        PROVE  got[f] \in Versions /\ got[f] <= version /\ retired'[got[f]] <= elapsed'[f]
    <3>1. got[f] \in Versions /\ got[f] <= version /\ retired[got[f]] <= elapsed[f]
      BY <2>1 DEF VersionsKnown
    <3>2. retired'[got[f]] <= retired[got[f]] + 1 /\ elapsed'[f] = elapsed[f] + 1
      BY <1>3, <1>4, <2>1, <3>1 DEF Awaiting
    <3>3. retired[got[f]] \in Nat /\ retired'[got[f]] \in Nat /\ elapsed[f] \in Nat
      BY <1>3, <3>1 DEF TypeOK
    <3> QED
      BY <3>1, <3>2, <3>3
  <2> QED
    BY <1>3, <1>5, <1>6, <2>1 DEF VersionsKnown, IsRemote
<1>10. CacheLags'
  <2> SUFFICES ASSUME IsRemote, cache.ver # 0
               PROVE  retired'[cache.ver] <= LagSoFar'
    BY <1>5, <1>6 DEF CacheLags, IsRemote
  <2> DEFINE past == misses * (Ttl + MaxFetch)
             slept == IF pc[Refresher] = "sleep" THEN 0 ELSE Ttl
  <2>1. past \in Nat /\ slept \in Nat /\ elapsed[Refresher] \in Nat
    BY LagGrows DEF TypeOK
  <2>2. elapsed'[Refresher] = elapsed[Refresher] + 1
    BY <1>4 DEF FetchTimes
  <2>3. LagSoFar = past + MaxFetch + elapsed[Refresher] + slept
    BY DEF LagSoFar
  <2>4. LagSoFar' = past + MaxFetch + elapsed'[Refresher] + slept
    BY <1>6 DEF LagSoFar
  <2> HIDE DEF past, slept
  <2>5. LagSoFar \in Nat /\ LagSoFar' = LagSoFar + 1
    <3> DEFINE rest == past + MaxFetch + slept
    <3>1. rest \in Nat
      BY <2>1
    <3>2. LagSoFar = rest + elapsed[Refresher] /\ LagSoFar' = rest + (elapsed[Refresher] + 1)
      BY <2>1, <2>2, <2>3, <2>4
    <3> HIDE DEF rest
    <3> QED
      BY <2>1, <3>1, <3>2
  <2>6. cache.ver \in Versions /\ retired[cache.ver] \in Nat /\ retired'[cache.ver] \in Nat
    BY <1>3 DEF TypeOK
  <2>7. retired'[cache.ver] <= retired[cache.ver] + 1 /\ retired[cache.ver] <= LagSoFar
    BY <1>3, <2>6 DEF CacheLags
  <2> QED
    BY <2>5, <2>6, <2>7
<1>11. SetIsKept' /\ OpenOnlyBeforeFirstSet'
  BY <1>5, <1>6 DEF SetIsKept, OpenOnlyBeforeFirstSet
<1> QED
  BY <1>7, <1>8, <1>9, <1>10, <1>11

-----------------------------------------------------------------------------
(* Every step preserves the invariant. *)
LEMMA KeyCacheStep == IInv /\ [Next]_vars => IInv'
<1> SUFFICES ASSUME IInv, [Next]_vars PROVE IInv'
  OBVIOUS
<1>1. CASE UNCHANGED vars
  BY <1>1 DEF vars, sourceVars, cacheVars, fetchVars, requestVars, obsVars, IInv, TypeOK,
     FetchTimes, VersionsKnown, CacheLags, LagSoFar, SetIsKept, OpenOnlyBeforeFirstSet, IsRemote
<1>2. ASSUME NEW f \in Fetchers, Progress(f) \/ fetch_fails(f) PROVE IInv'
  BY <1>2, ServeStep, StoreStep, FailStep DEF Progress
<1> QED
  BY <1>1, <1>2, RequestStep, ResolveStep, RefreshStep, RotateStep, TickStep DEF Next

LEMMA KeyCacheInvariant == Spec => []IInv
  BY KeyCacheInit, KeyCacheStep, PTL DEF Spec

(* The bound between two stores is within the bound of the property. *)
LEMMA LagIsBounded ==
  ASSUME IInv
  PROVE  StaleIsBounded
<1> USE Constants DEF IInv
<1> SUFFICES ASSUME cache.ver # 0 PROVE retired[cache.ver] <= Lag(misses)
  BY DEF StaleIsBounded
<1> DEFINE past == misses * (Ttl + MaxFetch)
<1>1. past \in Nat /\ Lag(misses) = past + Ttl + MaxFetch + MaxFetch
  BY LagGrows DEF TypeOK
<1>2. cache.ver \in Versions /\ retired[cache.ver] \in Nat
  BY DEF TypeOK
<1>3. CASE IsRemote
  <2> DEFINE slept == IF pc[Refresher] = "sleep" THEN 0 ELSE Ttl
  <2>1. elapsed[Refresher] \in Nat /\ slept \in Nat /\ elapsed[Refresher] + slept <= Ttl + MaxFetch
    BY <1>3 DEF TypeOK, FetchTimes, Fetching, Awaiting
  <2>2. retired[cache.ver] <= past + MaxFetch + elapsed[Refresher] + slept
    BY <1>3 DEF CacheLags, LagSoFar
  <2> HIDE DEF past, slept
  <2> QED
    BY <1>1, <1>2, <2>1, <2>2
<1>4. CASE ~IsRemote
  <2>1. retired[cache.ver] = 0
    <3>1. version = 1 /\ cache.ver \in Nat /\ version <= cache.ver
      BY <1>2, <1>4 DEF VersionsKnown
    <3> QED
      BY <1>2, <3>1 DEF VersionsKnown
  <2> HIDE DEF past
  <2> QED
    BY <1>1, <2>1
<1> QED
  BY <1>3, <1>4

-----------------------------------------------------------------------------
(* Every variable has its type, and only a remote key set is ever fetched:   *)
(* an inline one, whose ttl is zero, is not.                                 *)
THEOREM KeyCacheTypes == Spec => []TypeOK
<1>1. IInv => TypeOK
  BY DEF IInv
<1> QED
  BY <1>1, KeyCacheInvariant, PTL

(* A key set the auth server has superseded is out of the cache after one    *)
(* refresh period and two fetches, one more period and fetch for each failed *)
(* refresh, however the fetches of requests and refresher overtake each      *)
(* other when they store.                                                    *)
THEOREM StaleKeysExpire == Spec => []StaleIsBounded
<1>1. IInv => StaleIsBounded
  BY LagIsBounded
<1> QED
  BY <1>1, KeyCacheInvariant, PTL

(* fail_closed = false opens the API only to requests that came in before    *)
(* the first key set was stored.                                             *)
THEOREM OpenBeforeFirstSetOnly == Spec => []OpenOnlyBeforeFirstSet
<1>1. IInv => OpenOnlyBeforeFirstSet
  BY DEF IInv
<1> QED
  BY <1>1, KeyCacheInvariant, PTL

(* pick_key and decode accept a token exactly if the set verifies it. *)
LEMMA VerdictVerifies ==
  ASSUME NEW t \in Tokens, NEW v \in Versions
  PROVE  /\ Verdict(t, pick_key(v, t.kid)) \in {"admitted", "forbidden"} <=> Verifies(t, v)
         /\ Verdict(t, pick_key(v, t.kid)) = "admitted" => t.claims = "allowed"
<1> DEFINE found == {k \in Published[v] : Kid[k] = t.kid}
<1>1. Published[v] \in SUBSET Keys /\ IsFiniteSet(found)
  <2>1. Published[v] \in SUBSET Keys
    BY ConstantsAssumption DEF Versions
  <2> QED
    BY <2>1, ConstantsAssumption, FS_Subset
<1>2. Cardinality(found) = 1 <=> \E k : found = {k}
  BY <1>1, FS_Singleton
<1>3. t.key \in pick_key(v, t.kid) <=>
          t.key \in found /\ (t.kid = NoKid => Cardinality(found) = 1)
  BY DEF pick_key
<1>4. t.key \in pick_key(v, t.kid) <=>
          /\ t.key \in Published[v] /\ Kid[t.key] = t.kid
          /\ t.kid = NoKid => \A k \in Published[v] : Kid[k] = NoKid => k = t.key
  <2>1. CASE t.kid = NoKid
    <3>1. t.key \in found => ((\E k : found = {k}) <=> \A k \in found : k = t.key)
      OBVIOUS
    <3> QED
      BY <1>2, <1>3, <2>1, <3>1
  <2>2. CASE t.kid # NoKid
    BY <1>3, <2>2
  <2> QED
    BY <2>1, <2>2
<1> HIDE DEF found
<1> QED
  BY <1>4 DEF Verdict, Verifies

(* Every request that resolve decides while there is a set is decided by a   *)
(* single published one that was current within the lag.                     *)
LEMMA DecisionStep ==
  ASSUME IInv, [Next]_vars, NEW r \in Requests, pc[r] # "idle", pc'[r] = "idle", cache.ver # 0
  PROVE  \E v \in 1 .. version :
            /\ retired[v] <= Lag(misses)
            /\ decision'[r] \in {"admitted", "forbidden"} <=> Verifies(token[r], v)
            /\ decision'[r] = "admitted" => token[r].claims = "allowed"
<1> USE Constants DEF IInv
<1>1. Resolve(r)
  <2>1. ASSUME NEW q \in Requests, Request(q) \/ Resolve(q), q # r PROVE pc'[r] = pc[r]
    <3>1. CASE Request(q)
      BY <3>1, <2>1 DEF Request, enforce_exempt, enforce_unreadable, verify_secret, verify_set,
         fetchVars, TypeOK
    <3>2. CASE Resolve(q)
      BY <3>2, <2>1, ResolveEffect DEF Goto, Answer, Decide, TypeOK
    <3> QED
      BY <2>1, <3>1, <3>2
  <2>2. ASSUME Request(r) PROVE FALSE
    BY <2>2 DEF Request, enforce_exempt, enforce_unreadable, verify_secret, verify_set
  <2>3. ASSUME NEW f \in Fetchers, Progress(f) \/ fetch_fails(f) PROVE FALSE
    BY <2>3 DEF Progress, discover, serve, store, fetch_fails, TypeOK
  <2>4. refresh \/ rotate \/ Tick \/ UNCHANGED vars => FALSE
    BY DEF refresh, rotate, Tick, vars, fetchVars, TypeOK
  <2> QED
    BY <2>1, <2>2, <2>3, <2>4 DEF Next
<1>2. Answer(r, cache.ver)
  <2>1. ASSUME NEW l \in {"check", "last"} \cup (IF IsRemote THEN {FetchFrom} ELSE {}), Goto(r, l)
        PROVE  FALSE
    BY <2>1, FetchFromType DEF Goto, TypeOK
  <2> QED
    BY <1>1, <2>1, ResolveEffect
<1>3. decision'[r] = Verdict(token[r], pick_key(cache.ver, token[r].kid))
  BY <1>2 DEF Answer, Decide, TypeOK
<1>4. cache.ver \in Versions /\ cache.ver \in 1 .. version /\ token[r] \in Tokens
  <2>1. cache.ver \in Versions /\ version \in Nat /\ cache.ver <= version /\ token[r] \in Tokens
    BY DEF TypeOK, VersionsKnown
  <2>2. cache.ver \in Nat /\ cache.ver # 0
    BY <2>1
  <2> QED
    BY <2>1, <2>2
<1>5. retired[cache.ver] <= Lag(misses)
  BY LagIsBounded DEF StaleIsBounded
<1> QED
  BY <1>3, <1>4, <1>5, VerdictVerifies

(* Although resolve reads the cache up to three times while others replace   *)
(* it, a request is decided as one recently published set says: no good      *)
(* token is refused for an older set, and no bad one admitted.               *)
THEOREM DecidedByOneRecentSet == Spec => DecidedByARecentSet
<1>1. IInv /\ [Next]_vars =>
        [\A r \in Requests : pc[r] # "idle" /\ pc'[r] = "idle" =>
            \/ cache.ver = 0
            \/ \E v \in 1 .. version :
                  /\ retired[v] <= Lag(misses)
                  /\ decision'[r] \in {"admitted", "forbidden"} <=> Verifies(token[r], v)
                  /\ decision'[r] = "admitted" => token[r].claims = "allowed"]_vars
  BY DecisionStep
<1> QED
  BY <1>1, KeyCacheInvariant, PTL DEF Spec, DecidedByARecentSet
=============================================================================
