------------------------------- MODULE KeyCache -------------------------------
(***************************************************************************)
(* Token verification: AuthService of src/src/auth/mod.rs and the key set  *)
(* of src/src/auth/keys.rs it verifies against.                            *)
(*                                                                         *)
(* A remote key set is a cache, filled by a background loop (spawn_refresh)*)
(* and by requests that miss while it is stale (resolve).  Each of them    *)
(* fetches over the network and stores what it got when the answer is in;  *)
(* the lock is held for a read or a store only, so that fetches overlap    *)
(* and finish in any order, while the auth server rotates its keys.        *)
(*                                                                         *)
(* Time is counted in ticks.  That a fetch is over after MaxFetch of them  *)
(* is an assumption on the network: the HTTP client sets no timeout.       *)
(***************************************************************************)
EXTENDS Naturals, FiniteSets, Sequences

CONSTANTS
    Requests,   \* API requests in the guard at a time
    Refresher,  \* the task of spawn_refresh
    Configs,    \* the [auth] sections under study
    Keys,       \* signing keys
    Kid,        \* the kid a key is published under, NoKid if without
    NoKid,
    Published,  \* the sets the auth server publishes, one after the other
    Tokens,     \* the bearer tokens clients present
    Ttl,        \* cache_ttl_secs
    MaxFetch,   \* assumption: ticks after which a fetch has ended
    MaxFails    \* bound: fetches that fail

Fetchers == Requests \cup {Refresher}

(* Versions of the published set; 0 stands for an empty cache. *)
Versions == 1 .. Len(Published)

(* enabled, keys.kind, keys.fail_closed *)
Config == [enabled : BOOLEAN, kind : {"secret", "jwks", "jwks_remote", "issuer"}, fail_closed : BOOLEAN]

(* A bearer token: the kid of its header, the key that signed it, and what    *)
(* decode (expiry, issuer, audience) and the policy say to its claims.        *)
Token == [kid : {Kid[k] : k \in Keys} \cup {NoKid}, key : Keys, claims : {"allowed", "denied", "invalid"}]

(* A value for the local of a request that is not under way. *)
Blank == CHOOSE t \in Tokens : TRUE

ASSUME ConstantsAssumption ==
    /\ Refresher \notin Requests
    /\ Configs \subseteq Config
    /\ IsFiniteSet(Keys)
    /\ Published \in Seq(SUBSET Keys)
    /\ Published # <<>> /\ \A v \in Versions : Published[v] # {}
    /\ DOMAIN Kid = Keys
    /\ \A v \in Versions : \A k, l \in Published[v] : Kid[k] = Kid[l] => k = l \/ Kid[k] = NoKid
    /\ Tokens # {} /\ Tokens \subseteq Token
    /\ Ttl \in Nat \ {0} /\ MaxFetch \in Nat \ {0} /\ MaxFails \in Nat

VARIABLES
    cfg,
    version,   \* what the auth server publishes now
    cache,     \* KeySet.cache: the version in it, 0 if none, and its age up to Ttl
    resolved,  \* HttpKeysFetcher.resolved: the discovered location is known
    pc,        \* what a request or the refresher does next
    got,       \* the version a fetch was answered with
    elapsed,   \* ticks since the fetch, or the refresher's sleep, began
    token,     \* the token a request carries
    decision,  \* what enforce returned for a request
    \* Observations.
    retired,   \* ticks since a version was superseded
    misses,    \* refreshes that failed since the last one that did not
    fails,
    blind      \* requests that came in before the first set was stored

sourceVars  == <<cfg, version>>
cacheVars   == <<cache, resolved>>
fetchVars   == <<pc, got, elapsed>>
requestVars == <<token, decision, blind>>
obsVars     == <<retired, misses, fails>>
vars        == <<sourceVars, cacheVars, fetchVars, requestVars, obsVars>>

IsRemote == cfg.enabled /\ cfg.kind \in {"jwks_remote", "issuer"}

(* jwks_location: discovery comes first until the location is known. *)
FetchFrom == IF cfg.kind = "issuer" /\ ~resolved THEN "discover" ELSE "get"

Awaiting == {"discover", "get", "got", "sleep"}

(* A bound on how long a superseded set can be in use: the fetch that brought *)
(* it may have been under way when it was superseded, and each failed refresh *)
(* costs a period.                                                            *)
Lag(m) == (m + 1) * (Ttl + MaxFetch) + MaxFetch
Cap(n, max) == IF n < max THEN n ELSE max

Init ==
    /\ cfg \in Configs
    /\ version = 1
    /\ cache = [ver |-> IF cfg.kind = "jwks" THEN 1 ELSE 0, age |-> 0]
    /\ resolved = FALSE
    /\ pc = [f \in Fetchers |-> IF f = Refresher /\ IsRemote THEN FetchFrom ELSE "idle"]
    /\ got = [f \in Fetchers |-> 0]
    /\ elapsed = [f \in Fetchers |-> 0]
    /\ token = [r \in Requests |-> Blank]
    /\ decision = [r \in Requests |-> "none"]
    /\ retired = [v \in Versions |-> 0]
    /\ misses = 0
    /\ fails = 0
    /\ blind = {}

-----------------------------------------------------------------------------
(* Mut_ operators are seeded bugs, each a variant of the definition after it. *)

Mut_any_kidless(v, kid) == {k \in Published[v] : Kid[k] = kid}

(* pick_key: the key of that kid; without a kid the only key that has none. *)
pick_key(v, kid) ==
    LET found == {k \in Published[v] : Kid[k] = kid}
    IN  IF kid = NoKid /\ Cardinality(found) # 1 THEN {} ELSE found

(* enforce, after the key is known: decode and policy.allows. *)
Verdict(t, keys) ==
    IF t.key \notin keys \/ t.claims = "invalid" THEN "rejected"
    ELSE IF t.claims = "allowed" THEN "admitted" ELSE "forbidden"

Decide(r, d) ==
    /\ pc' = [pc EXCEPT ![r] = "idle"]
    /\ decision' = [decision EXCEPT ![r] = d]
    /\ got' = [got EXCEPT ![r] = 0]
    /\ elapsed' = [elapsed EXCEPT ![r] = 0]
    /\ token' = [token EXCEPT ![r] = Blank]

(* A cached set answers the request: a key of it, or UnknownKid. *)
Answer(r, v) == Decide(r, Verdict(token[r], pick_key(v, token[r].kid)))

(* enforce: auth is off, the path is no route of the policy, or it is public. *)
enforce_exempt(r) ==
    /\ pc[r] = "idle"
    /\ decision' = [decision EXCEPT ![r] = "exempt"]
    /\ UNCHANGED <<sourceVars, cacheVars, fetchVars, token, blind, obsVars>>

(* enforce: no bearer token, or verify finds an unreadable header or an      *)
(* algorithm that is not allowed, before any key is looked up.               *)
enforce_unreadable(r) ==
    /\ pc[r] = "idle"
    /\ cfg.enabled
    /\ decision' = [decision EXCEPT ![r] = "rejected"]
    /\ UNCHANGED <<sourceVars, cacheVars, fetchVars, token, blind, obsVars>>

(* verify with a shared secret: no set is involved. *)
verify_secret(r, t) ==
    /\ pc[r] = "idle"
    /\ cfg.enabled
    /\ cfg.kind = "secret"
    /\ decision' = [decision EXCEPT ![r] = Verdict(t, Published[1])]
    /\ UNCHANGED <<sourceVars, cacheVars, fetchVars, token, blind, obsVars>>

(* verify calls resolve. *)
verify_set(r, t) ==
    /\ pc[r] = "idle"
    /\ cfg.enabled
    /\ cfg.kind # "secret"
    /\ pc' = [pc EXCEPT ![r] = "fast"]
    /\ token' = [token EXCEPT ![r] = t]
    /\ decision' = [decision EXCEPT ![r] = "none"]
    /\ blind' = IF cache.ver = 0 THEN blind \cup {r} ELSE blind \ {r}
    /\ UNCHANGED <<sourceVars, cacheVars, got, elapsed, obsVars>>

-----------------------------------------------------------------------------
(* resolve *)

Goto(r, l) == pc' = [pc EXCEPT ![r] = l] /\ UNCHANGED <<got, elapsed, token, decision>>

(* 1. The current cache may have the key. *)
fast_path(r) ==
    /\ pc[r] = "fast"
    /\ IF cache.ver # 0 /\ pick_key(cache.ver, token[r].kid) # {}
       THEN Answer(r, cache.ver)
       ELSE Goto(r, "check")
    /\ UNCHANGED <<sourceVars, cacheVars, blind, obsVars>>

(* Empty or older than the ttl, which is zero for an inline set. *)
should_refetch == cache.ver = 0 \/ cfg.kind = "jwks" \/ cache.age >= Ttl

Mut_static_refetched(r) ==
    /\ pc[r] = "check"
    /\ Goto(r, IF should_refetch THEN FetchFrom ELSE "last")
    /\ UNCHANGED <<sourceVars, cacheVars, blind, obsVars>>

(* 2. A remote set that is empty or stale is fetched. *)
check_stale(r) ==
    /\ pc[r] = "check"
    /\ Goto(r, IF IsRemote /\ should_refetch THEN FetchFrom ELSE "last")
    /\ UNCHANGED <<sourceVars, cacheVars, blind, obsVars>>

(* 3a. What is in the cache by now answers. *)
reread(r) ==
    /\ pc[r] = "reread"
    /\ Answer(r, cache.ver)
    /\ UNCHANGED <<sourceVars, cacheVars, blind, obsVars>>

Mut_opens_on_any_outage(r) ==
    /\ pc[r] = "last"
    /\ IF cfg.fail_closed
       THEN IF cache.ver # 0 THEN Answer(r, cache.ver) ELSE Decide(r, "rejected")
       ELSE Decide(r, "failed_open")
    /\ UNCHANGED <<sourceVars, cacheVars, blind, obsVars>>

(* 3b. No fetch, or a failed one: whatever is in the cache answers.  4. With *)
(* no set at all, enforce rejects or lets the request through.               *)
last_resort(r) ==
    /\ pc[r] = "last"
    /\ IF cache.ver # 0
       THEN Answer(r, cache.ver)
       ELSE Decide(r, IF cfg.fail_closed THEN "rejected" ELSE "failed_open")
    /\ UNCHANGED <<sourceVars, cacheVars, blind, obsVars>>

-----------------------------------------------------------------------------
(* fetch, by the refresher or a request *)

(* The discovery document is in, its jwks_uri is kept. *)
discover(f) ==
    /\ pc[f] = "discover"
    /\ resolved' = TRUE
    /\ pc' = [pc EXCEPT ![f] = "get"]
    /\ UNCHANGED <<sourceVars, cache, got, elapsed, requestVars, obsVars>>

(* The auth server answers with what it publishes at that moment. *)
serve(f) ==
    /\ pc[f] = "get"
    /\ got' = [got EXCEPT ![f] = version]
    /\ pc' = [pc EXCEPT ![f] = "got"]
    /\ UNCHANGED <<sourceVars, cacheVars, elapsed, requestVars, obsVars>>

Mut_keeps_the_first(f) ==
    /\ pc[f] = "got"
    /\ cache' = IF cache.ver = 0 THEN [ver |-> got[f], age |-> 0] ELSE [cache EXCEPT !.age = 0]
    /\ pc' = [pc EXCEPT ![f] = IF f = Refresher THEN "sleep" ELSE "reread"]
    /\ got' = [got EXCEPT ![f] = 0]
    /\ elapsed' = [elapsed EXCEPT ![f] = 0]
    /\ misses' = IF f = Refresher THEN 0 ELSE misses
    /\ UNCHANGED <<sourceVars, resolved, requestVars, retired, fails>>

(* The answer has arrived: it replaces the cache, whatever is in there, and  *)
(* counts as fresh from now on.  The refresher sleeps for Ttl.               *)
store(f) ==
    /\ pc[f] = "got"
    /\ cache' = [ver |-> got[f], age |-> 0]
    /\ pc' = [pc EXCEPT ![f] = IF f = Refresher THEN "sleep" ELSE "reread"]
    /\ got' = [got EXCEPT ![f] = 0]
    /\ elapsed' = [elapsed EXCEPT ![f] = 0]
    /\ misses' = IF f = Refresher THEN 0 ELSE misses
    /\ UNCHANGED <<sourceVars, resolved, requestVars, retired, fails>>

(* The fetch fails at any point, or what came back is no set or an empty     *)
(* one: the cache is kept, its age as well.                                  *)
fetch_fails(f) ==
    /\ pc[f] \in {"discover", "get", "got"}
    /\ fails < MaxFails
    /\ fails' = fails + 1
    /\ pc' = [pc EXCEPT ![f] = IF f = Refresher THEN "sleep" ELSE "last"]
    /\ got' = [got EXCEPT ![f] = 0]
    /\ elapsed' = [elapsed EXCEPT ![f] = 0]
    /\ misses' = IF f = Refresher THEN misses + 1 ELSE misses
    /\ UNCHANGED <<sourceVars, cacheVars, requestVars, retired>>

(* The refresher wakes up. *)
refresh ==
    /\ pc[Refresher] = "sleep"
    /\ elapsed[Refresher] >= Ttl
    /\ pc' = [pc EXCEPT ![Refresher] = FetchFrom]
    /\ elapsed' = [elapsed EXCEPT ![Refresher] = 0]
    /\ UNCHANGED <<sourceVars, cacheVars, got, requestVars, obsVars>>

-----------------------------------------------------------------------------
(* The environment *)

(* The auth server rotates its keys. *)
rotate ==
    /\ IsRemote
    /\ version < Len(Published)
    /\ version' = version + 1
    /\ UNCHANGED <<cfg, cacheVars, fetchVars, requestVars, obsVars>>

(* Nothing that is due may wait: code between two awaits takes no time, a    *)
(* fetch ends within MaxFetch and the refresher wakes up after Ttl.          *)
MayWait(f) ==
    \/ pc[f] = "idle"
    \/ pc[f] = "sleep" /\ elapsed[f] < Ttl
    \/ pc[f] \in {"discover", "get", "got"} /\ elapsed[f] < MaxFetch

Tick ==
    /\ \A f \in Fetchers : MayWait(f)
    /\ elapsed' = [f \in Fetchers |-> IF pc[f] \in Awaiting THEN elapsed[f] + 1 ELSE elapsed[f]]
    /\ cache' = [cache EXCEPT !.age = IF cache.ver = 0 THEN 0 ELSE Cap(@ + 1, Ttl)]
    /\ retired' = [v \in Versions |-> IF v < version THEN Cap(retired[v] + 1, Lag(MaxFails) + 1) ELSE 0]
    /\ UNCHANGED <<sourceVars, resolved, pc, got, requestVars, misses, fails>>

-----------------------------------------------------------------------------
Request(r) ==
    \/ enforce_exempt(r)
    \/ enforce_unreadable(r)
    \/ \E t \in Tokens : verify_secret(r, t) \/ verify_set(r, t)

Resolve(r) == fast_path(r) \/ check_stale(r) \/ reread(r) \/ last_resort(r)

Progress(f) == discover(f) \/ serve(f) \/ store(f)

Next ==
    \/ \E r \in Requests : Request(r) \/ Resolve(r)
    \/ \E f \in Fetchers : Progress(f) \/ fetch_fails(f)
    \/ refresh
    \/ rotate
    \/ Tick

Spec == Init /\ [][Next]_vars

-----------------------------------------------------------------------------
(* Properties *)

(* Every variable has its type, and nobody fetches a key set that is not     *)
(* remote, whose ttl of zero makes it stale at any time.                     *)
TypeOK ==
    /\ cfg \in Configs
    /\ version \in Versions
    /\ cache \in [ver : Versions \cup {0}, age : 0 .. Ttl]
    /\ resolved \in BOOLEAN
    /\ pc \in [Fetchers -> Awaiting \cup {"idle", "fast", "check", "reread", "last"}]
    /\ got \in [Fetchers -> Versions \cup {0}]
    /\ elapsed \in [Fetchers -> Nat]
    /\ token \in [Requests -> Tokens]
    /\ decision \in [Requests -> {"none", "exempt", "failed_open", "admitted", "forbidden", "rejected"}]
    /\ retired \in [Versions -> Nat]
    /\ misses \in Nat
    /\ fails \in Nat
    /\ blind \in SUBSET Requests
    /\ ~IsRemote => \A f \in Fetchers : pc[f] \notin Awaiting

(* However the fetches of requests and of the refresher overtake each other, *)
(* a superseded set is out of the cache, and tokens are no longer verified   *)
(* with it, one refresh period and two fetches after it was superseded, one  *)
(* more period and fetch for each refresh that failed.                       *)
StaleIsBounded ==
    cache.ver # 0 => retired[cache.ver] <= Lag(misses)

(* An outage opens the API only to requests that came in before any key set  *)
(* was there, and only if fail_closed is off: after the first set, nothing   *)
(* governed passes without a verified token.                                 *)
OpenOnlyBeforeFirstSet ==
    \A r \in Requests : decision[r] = "failed_open" => ~cfg.fail_closed /\ r \in blind

(* A token that version v of the key set verifies: signed by the key of its  *)
(* kid, or without a kid by the only key that has none.                      *)
Verifies(t, v) ==
    /\ t.key \in Published[v] /\ Kid[t.key] = t.kid
    /\ t.kid = NoKid => \A k \in Published[v] : Kid[k] = NoKid => k = t.key
    /\ t.claims # "invalid"

(* Although the cache is read up to three times on the way and replaced by   *)
(* others in between, a request is decided by one published set, and one     *)
(* that was current within the time the cache may lag: a good token is not   *)
(* refused because of a set that is older, nor a bad one admitted.           *)
DecidedByARecentSet ==
    [][\A r \in Requests : pc[r] # "idle" /\ pc'[r] = "idle" =>
        \/ cache.ver = 0
        \/ \E v \in 1 .. version :
              /\ retired[v] <= Lag(misses)
              /\ decision'[r] \in {"admitted", "forbidden"} <=> Verifies(token[r], v)
              /\ decision'[r] = "admitted" => token[r].claims = "allowed"]_vars
=============================================================================
