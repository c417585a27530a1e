---------------------------- MODULE MCAuthService ----------------------------
(* AuthService for TLC.  The policy plays no part in which key verifies a      *)
(* token, nor the keys in what a role is granted: the role tables are explored *)
(* with a shared secret and until the policy is built, the kinds of key        *)
(* material with no roles configured.                                          *)
EXTENDS AuthService, TLC

CONSTANTS k1, k2, k3, k4, a, b

(* Keys: k1 is replaced by k2, and a second key has no kid then. *)
KidOf == (k1 :> a) @@ (k2 :> b) @@ (k3 :> NoKid) @@ (k4 :> NoKid)
Rotation == <<{k1, k3}, {k2, k3, k4}>>

Tok(i, k, c) == [kid |-> i, key |-> k, claims |-> c]
SomeTokens ==
    {Tok(a, k1, "allowed"), Tok(b, k2, "allowed"), Tok(NoKid, k3, "denied")}

Cfg(on, k, closed) == [enabled |-> on, kind |-> k, fail_closed |-> closed]
SomeConfigs ==
    {Cfg(TRUE, "issuer", FALSE), Cfg(TRUE, "jwks_remote", TRUE), Cfg(TRUE, "jwks", FALSE),
     Cfg(TRUE, "secret", TRUE), Cfg(FALSE, "secret", TRUE)}

(* Roles: three that extend each other in every way, one of them in two        *)
(* spellings, and one that is extended and not configured.                     *)
LowerCase == [n \in {"a", "b", "c", "x", "mail", "doc", "*", "all"} |-> n]
                 @@ ("B" :> "b") @@ ("Mail" :> "mail") @@ ("Doc" :> "doc")

Gives(r, v) == [res |-> r, verb |-> v]
Role(gs, es) == [grants |-> gs, extends |-> es]

Extends == {S \in SUBSET {"a", "B", "c", "x"} : Cardinality(S) <= 2}

GrantsOfA == {{}, {Gives("Mail", "get")}, {Gives("*", "")}, {Gives("mail", "other")}}
GrantsOfB == {{Gives("Mail", NoColon)}, {Gives("*", "w"), Gives("mail", "*")}}
GrantsOfC == {{Gives("mail", "del")}, {Gives("all", NoColon)}}

Written(ra, rb, rc) == ("a" :> ra) @@ ("b" :> rb) @@ ("c" :> rc)

Tables ==
    {Written(Role(g, e), Role(h, f), Role(i, d)) :
        g \in GrantsOfA, h \in GrantsOfB, i \in GrantsOfC, e \in Extends, f \in Extends, d \in Extends}

(* A second spelling of b. *)
Twice == {("B" :> Role({Gives("mail", NoColon)}, {"c"})) @@ t : t \in
            {Written(Role({}, e), Role({}, {"a"}), Role({}, d)) : e \in Extends, d \in Extends}}

SomeRoles == Tables \cup Twice \cup {<<>>}

MCInit == AuthInit /\ (roles = <<>> \/ cfg.kind = "secret")

(* With jwks_remote one request at a time: requests that overlap are explored  *)
(* with an issuer, whose steps are the same once it has been discovered.       *)
MCNext ==
    /\ AuthNext
    /\ roles = <<>> \/ UNCHANGED requestVars
    /\ cfg.kind = "jwks_remote" => Cardinality({r \in Requests : pc'[r] # "idle"}) <= 1

MCSpec == MCInit /\ [][MCNext]_authVars

Symmetry == Permutations(Requests)
=============================================================================
