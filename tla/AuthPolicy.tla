------------------------------ MODULE AuthPolicy ------------------------------
(***************************************************************************)
(* The role policy of src/src/auth/policy.rs: AuthPolicy::build turns the  *)
(* configured roles, their grants and whom they extend into effective      *)
(* grants, and allows decides a request with them.                         *)
(*                                                                         *)
(* build is a loop, a step of it a round of the code.  The order in which  *)
(* a round visits the roles does not matter: it reads a snapshot.          *)
(***************************************************************************)
EXTENDS Naturals, FiniteSets

CONSTANTS
    Names,        \* role names, as they can be written
    Resources,    \* resource names, as they can be written
    Lower,        \* to_ascii_lowercase, on both
    RoleConfigs,  \* the auth.roles tables under study
    Publics,      \* the auth.public lists under study
    MaxRounds     \* the cap on the loop, 10_000 in the code

Verbs == {"read", "write", "delete"}

(* A grant token of the config, a resource and a verb as written, in lower   *)
(* case where case does not matter.  NoColon stands for a bare resource.     *)
NoColon == "no colon"
VerbWords == {"read", "get", "r", "write", "post", "put", "patch", "w", "delete", "del", "d"}
GrantToken == [res : Resources \cup {"*", "all"}, verb : VerbWords \cup {"*", "", "other", NoColon}]

RoleConfig == [grants : SUBSET GrantToken, extends : SUBSET Names]

(* enum Grant, with "*" for any: All, AnyVerb(res), AnyResource(verb), Exact. *)
Grant == [res : Resources \cup {"*", "all"}, verb : Verbs \cup {"*"}]

ASSUME PolicyAssumption ==
    /\ Lower \in [Names \cup Resources \cup {"*", "all"} -> Names \cup Resources \cup {"*", "all"}]
    /\ \A n \in Names : Lower[n] \in Names
    /\ \A r \in Resources \cup {"*", "all"} : Lower[r] \in Resources \cup {"*", "all"}
    /\ \A r \in Resources : Lower[r] \in Resources /\ Lower[Lower[r]] = Lower[r]
    /\ "*" \notin Resources /\ "all" \notin Resources  \* no resource of the API is named so
    /\ Lower["*"] = "*" /\ Lower["all"] = "all"
    /\ \A c \in RoleConfigs :
          DOMAIN c \in SUBSET Names /\ IsFiniteSet(DOMAIN c) /\ c \in [DOMAIN c -> RoleConfig]
    /\ \A p \in Publics : p \subseteq Resources
    /\ MaxRounds \in Nat \ {0}

VARIABLES
    roles,      \* auth.roles, as written
    public,     \* the public resources of the policy
    phase,      \* of build: "collect", "round" or "done"
    direct,     \* per role, in lower case, its own grants
    extends,    \* per role the roles it extends
    effective,  \* role_grants
    guard       \* rounds so far

policyVars == <<roles, public, phase, direct, extends, effective, guard>>

BuildInit ==
    /\ roles \in RoleConfigs
    /\ public \in {{Lower[r] : r \in p} : p \in Publics}
    /\ phase = "collect"
    /\ direct = <<>>
    /\ extends = <<>>
    /\ effective = <<>>
    /\ guard = 0

-----------------------------------------------------------------------------
(* Grants *)

(* Verb::parse: the verb a word names, if any. *)
VerbParse(w) ==
    {v \in Verbs :
        \/ v = "read" /\ w \in {"read", "get", "r"}
        \/ v = "write" /\ w \in {"write", "post", "put", "patch", "w"}
        \/ v = "delete" /\ w \in {"delete", "del", "d"}}

(* Verb::from_method: a method that is not known is a write. *)
FromMethod(m) ==
    CASE m \in {"GET", "HEAD", "OPTIONS"} -> "read"
      [] m = "DELETE" -> "delete"
      [] OTHER -> "write"

Mut_unknown_verb_is_any(t) ==
    IF t.verb = NoColon /\ t.res \in {"*", "all"} THEN {[res |-> "*", verb |-> "*"]}
    ELSE IF t.verb = NoColon THEN {[res |-> t.res, verb |-> "*"]}
    ELSE IF t.verb \in {"*", "", "other"} THEN {[res |-> Lower[t.res], verb |-> "*"]}
    ELSE {[res |-> Lower[t.res], verb |-> v] : v \in VerbParse(t.verb)}

(* Grant::parse, as a set of at most one grant.  A bare resource is any verb *)
(* on it and keeps its case; a word that is no verb makes the token void.    *)
Parse(t) ==
    IF t.verb = NoColon /\ t.res \in {"*", "all"} THEN {[res |-> "*", verb |-> "*"]}
    ELSE IF t.verb = NoColon THEN {[res |-> t.res, verb |-> "*"]}
    ELSE IF t.verb \in {"*", ""} THEN {[res |-> Lower[t.res], verb |-> "*"]}
    ELSE {[res |-> Lower[t.res], verb |-> v] : v \in VerbParse(t.verb)}

(* Grant::matches *)
Matches(g, res, verb) == g.res \in {"*", res} /\ g.verb \in {"*", verb}

-----------------------------------------------------------------------------
(* build *)

RoleKeys == {Lower[n] : n \in DOMAIN roles}

(* 1. Two spellings of a role name are one role. *)
collect ==
    /\ phase = "collect"
    /\ direct' = [k \in RoleKeys |->
          UNION {UNION {Parse(t) : t \in roles[n].grants} : n \in {m \in DOMAIN roles : Lower[m] = k}}]
    /\ extends' = [k \in RoleKeys |->
          UNION {{Lower[e] : e \in roles[n].extends} : n \in {m \in DOMAIN roles : Lower[m] = k}}]
    /\ effective' = direct'
    /\ phase' = "round"
    /\ UNCHANGED <<roles, public, guard>>

Mut_inherits_direct(r) ==
    effective[r] \cup UNION {direct[d] : d \in extends[r] \cap DOMAIN effective}

(* merged: a role that is extended and not configured adds nothing. *)
Merged(r) == effective[r] \cup UNION {effective[d] : d \in extends[r] \cap DOMAIN effective}

Mut_always_changed ==
    /\ phase = "round"
    /\ effective' = [r \in DOMAIN effective |-> Merged(r)]
    /\ guard' = guard + 1
    /\ phase' = IF guard' < MaxRounds THEN "round" ELSE "done"
    /\ UNCHANGED <<roles, public, direct, extends>>

(* 2. The loop goes on while a round changes something. *)
round ==
    /\ phase = "round"
    /\ effective' = [r \in DOMAIN effective |-> Merged(r)]
    /\ guard' = guard + 1
    /\ phase' = IF effective' # effective /\ guard' < MaxRounds THEN "round" ELSE "done"
    /\ UNCHANGED <<roles, public, direct, extends>>

Build == collect \/ round

BuildSpec == BuildInit /\ [][Build]_policyVars

-----------------------------------------------------------------------------
(* Requests *)

(* route_target: the first segment of the path, if there is one, and a verb. *)
RouteTarget(segment, method) ==
    {[res |-> Lower[s], verb |-> FromMethod(method)] : s \in {segment} \cap Resources}

(* AuthPolicy::allows, for the role names of a token. *)
allows(names, target) ==
    \/ target.res \in public
    \/ \E n \in names : Lower[n] \in DOMAIN effective /\
          \E g \in effective[Lower[n]] : Matches(g, target.res, target.verb)

-----------------------------------------------------------------------------
(* Properties *)

(* Every variable has its type. *)
PolicyTypeOK ==
    /\ roles \in RoleConfigs
    /\ public \in SUBSET (Resources \cup {"*", "all"})
    /\ phase \in {"collect", "round", "done"}
    /\ phase # "collect" =>
          /\ direct \in [RoleKeys -> SUBSET Grant]
          /\ extends \in [RoleKeys -> SUBSET Names]
          /\ effective \in [RoleKeys -> SUBSET Grant]
    /\ guard \in 0 .. MaxRounds

(* A set of roles that contains whom its members extend. *)
ExtendsClosed(S) == \A r \in S : extends[r] \cap RoleKeys \subseteq S

(* g is a direct grant of r or of a role r extends, however indirectly: each *)
(* closed set of roles around r has a role with that grant.                  *)
Inherited(r, g) ==
    \A S \in SUBSET RoleKeys : r \in S /\ ExtendsClosed(S) => \E d \in S : g \in direct[d]

(* However roles extend each other, in cycles as well, build neither gives a *)
(* role a grant that is not its own or inherited, nor, when it ends before   *)
(* the cap, misses one.                                                      *)
ExactlyInherited ==
    phase # "collect" => \A r \in RoleKeys :
        /\ \A g \in effective[r] : Inherited(r, g)
        /\ phase = "done" /\ guard < MaxRounds =>
              \A d \in RoleKeys : \A g \in direct[d] : Inherited(r, g) => g \in effective[r]

(* The loop needs no more rounds than there are roles, so that the cap is    *)
(* never what ends it, and a policy is never cut short.                      *)
RoundsBounded == guard <= IF RoleKeys = {} THEN 1 ELSE Cardinality(RoleKeys)

(* What a grant token stands for.  The resource of res:verb is compared in   *)
(* lower case; a bare one is compared as it is spelled, so that it covers    *)
(* nothing unless it is written in lower case.                               *)
Covers(t, target) ==
    /\ t.res \in {"*", "all"} \/ target.res = IF t.verb = NoColon THEN t.res ELSE Lower[t.res]
    /\ t.verb \in {NoColon, "*", ""} \/ target.verb \in VerbParse(t.verb)
    /\ t.res = "all" => t.verb = NoColon

Targets == UNION {UNION {RouteTarget(s, m) : s \in Resources \cup {""}} : m \in {"GET", "PUT", "DELETE"}}

(* A route is open to a caller exactly if it is public or one of his roles,  *)
(* or of the roles they extend, has a token that covers it: a mistyped verb  *)
(* or an unknown role opens nothing.                                         *)
AllowsExactly ==
    phase = "done" => \A n \in Names, target \in Targets :
        allows({n}, target) <=>
            \/ target.res \in public
            \/ /\ Lower[n] \in RoleKeys
               /\ \A S \in SUBSET RoleKeys : Lower[n] \in S /\ ExtendsClosed(S) =>
                     \E m \in DOMAIN roles : Lower[m] \in S /\
                        \E t \in roles[m].grants : Covers(t, target)
=============================================================================
