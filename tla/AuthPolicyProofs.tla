--------------------------- MODULE AuthPolicyProofs ---------------------------
(***************************************************************************)
(* Proofs about AuthPolicy: whatever the configured roles are, build gives *)
(* each of them exactly its own and its inherited grants.                  *)
(*                                                                         *)
(* Inherited is stated with closed sets of roles instead of paths, which   *)
(* keeps recursion out: a grant that moves along one extends edge stays    *)
(* inherited, because a closed set around a role contains whom it extends; *)
(* and at a fixed point the roles whose grants r has form a closed set.    *)
(***************************************************************************)
EXTENDS AuthPolicy, FiniteSetTheorems, TLAPS

-----------------------------------------------------------------------------
(* A parsed token is a grant. *)
LEMMA ParseType ==
    ASSUME NEW t \in GrantToken
    PROVE  Parse(t) \in SUBSET Grant
<1>1. Lower[t.res] \in Resources \cup {"*", "all"}
  BY PolicyAssumption DEF GrantToken
<1>2. t.res \in Resources \cup {"*", "all"}
  BY DEF GrantToken
<1>3. VerbParse(t.verb) \subseteq Verbs
  BY DEF VerbParse
<1>4. ASSUME NEW r \in Resources \cup {"*", "all"}, NEW v \in Verbs \cup {"*"}
      PROVE  [res |-> r, verb |-> v] \in Grant
  BY <1>4 DEF Grant
<1>5. {[res |-> "*", verb |-> "*"]} \subseteq Grant
  BY <1>4
<1>6. {[res |-> t.res, verb |-> "*"]} \subseteq Grant
  BY <1>2, <1>4
<1>7. {[res |-> Lower[t.res], verb |-> "*"]} \subseteq Grant
  BY <1>1, <1>4
<1>8. {[res |-> Lower[t.res], verb |-> v] : v \in VerbParse(t.verb)} \subseteq Grant
  BY <1>1, <1>3, <1>4
<1> QED
  BY <1>5, <1>6, <1>7, <1>8 DEF Parse

(* The keys of the policy are role names in lower case. *)
LEMMA ConfigType ==
    ASSUME roles \in RoleConfigs
    PROVE  /\ DOMAIN roles \subseteq Names
           /\ \A n \in DOMAIN roles : roles[n] \in RoleConfig
           /\ RoleKeys \subseteq Names
BY PolicyAssumption DEF RoleKeys

(* What collect computes has its type. *)
LEMMA CollectType ==
    ASSUME roles \in RoleConfigs, collect
    PROVE  /\ direct' \in [RoleKeys -> SUBSET Grant]
           /\ extends' \in [RoleKeys -> SUBSET Names]
           /\ effective' = direct'
<1>1. ASSUME NEW k \in RoleKeys
      PROVE  UNION {UNION {Parse(t) : t \in roles[n].grants} : n \in {m \in DOMAIN roles : Lower[m] = k}}
                \in SUBSET Grant
  <2>1. \A n \in DOMAIN roles : \A t \in roles[n].grants : t \in GrantToken
    BY ConfigType DEF RoleConfig
  <2> QED
    BY <2>1, ParseType
<1>2. ASSUME NEW k \in RoleKeys
      PROVE  UNION {{Lower[e] : e \in roles[n].extends} : n \in {m \in DOMAIN roles : Lower[m] = k}}
                \in SUBSET Names
  <2>1. \A n \in DOMAIN roles : \A e \in roles[n].extends : e \in Names
    BY ConfigType DEF RoleConfig
  <2>2. \A e \in Names : Lower[e] \in Names
    BY PolicyAssumption
  <2> QED
    BY <2>1, <2>2
<1> QED
  BY <1>1, <1>2 DEF collect

(* A round merges grants into grants. *)
LEMMA RoundType ==
    ASSUME effective \in [RoleKeys -> SUBSET Grant], round
    PROVE  /\ effective' \in [RoleKeys -> SUBSET Grant]
           /\ \A r \in RoleKeys : effective'[r] = Merged(r)
BY DEF round, Merged

(* The loop is left when guard reaches the cap. *)
CapAhead == phase # "done" => guard < MaxRounds

(* Every variable keeps its type. *)
THEOREM TypeCorrect == BuildSpec => []PolicyTypeOK
<1> DEFINE Inv == PolicyTypeOK /\ CapAhead
<1>1. BuildInit => Inv
  <2> SUFFICES ASSUME BuildInit PROVE Inv
    OBVIOUS
  <2>1. public \in SUBSET (Resources \cup {"*", "all"})
    <3>1. PICK p \in Publics : public = {Lower[r] : r \in p}
      BY DEF BuildInit
    <3>2. \A r \in p : Lower[r] \in Resources \cup {"*", "all"}
      BY PolicyAssumption
    <3> QED
      BY <3>1, <3>2
  <2>2. guard \in 0 .. MaxRounds /\ guard < MaxRounds
    BY PolicyAssumption DEF BuildInit
  <2> QED
    BY <2>1, <2>2 DEF BuildInit, PolicyTypeOK, CapAhead
<1>2. Inv /\ [Build]_policyVars => Inv'
  <2> SUFFICES ASSUME PolicyTypeOK, CapAhead, [Build]_policyVars PROVE Inv'
    OBVIOUS
  <2>1. CASE collect
    <3>1. RoleKeys' = RoleKeys
      BY <2>1 DEF collect, RoleKeys
    <3>2. /\ direct' \in [RoleKeys -> SUBSET Grant]
          /\ extends' \in [RoleKeys -> SUBSET Names]
          /\ effective' = direct'
      BY <2>1, CollectType DEF PolicyTypeOK
    <3> QED
      BY <2>1, <3>1, <3>2 DEF PolicyTypeOK, CapAhead, collect
  <2>2. CASE round
    <3>1. RoleKeys' = RoleKeys
      BY <2>2 DEF round, RoleKeys
    <3>2. effective' \in [RoleKeys -> SUBSET Grant]
      BY <2>2, RoundType DEF PolicyTypeOK, round
    <3>3. guard < MaxRounds /\ guard \in Nat /\ MaxRounds \in Nat
      BY <2>2, PolicyAssumption DEF PolicyTypeOK, CapAhead, round
    <3>4. guard' \in 0 .. MaxRounds /\ CapAhead'
      BY <2>2, <3>3 DEF round, CapAhead
    <3> QED
      BY <2>2, <3>1, <3>2, <3>4 DEF PolicyTypeOK, round
  <2>3. CASE UNCHANGED policyVars
    BY <2>3 DEF policyVars, PolicyTypeOK, CapAhead, RoleKeys
  <2> QED
    BY <2>1, <2>2, <2>3 DEF Build
<1> QED
  BY <1>1, <1>2, PTL DEF BuildSpec

-----------------------------------------------------------------------------
(* The inductive invariant: own grants are effective, effective ones are     *)
(* inherited, and a loop that ended before its cap ended at a fixed point.   *)
OwnIsEffective == phase # "collect" => \A r \in RoleKeys : direct[r] \subseteq effective[r]

EffectiveIsInherited ==
    phase # "collect" => \A r \in RoleKeys : \A g \in effective[r] : Inherited(r, g)

FixedAtEnd ==
    phase = "done" /\ guard < MaxRounds =>
        \A r \in RoleKeys : \A d \in extends[r] \cap RoleKeys : effective[d] \subseteq effective[r]

(* A role's own grants are inherited. *)
LEMMA OwnIsInherited ==
    ASSUME NEW r \in RoleKeys, NEW g \in direct[r]
    PROVE  Inherited(r, g)
BY DEF Inherited

(* A grant that a role inherits is inherited by those who extend the role. *)
LEMMA InheritedAlongExtends ==
    ASSUME NEW r \in RoleKeys, NEW d \in extends[r] \cap RoleKeys, NEW g, Inherited(d, g)
    PROVE  Inherited(r, g)
BY DEF Inherited, ExtendsClosed

(* At a fixed point nothing inherited is missing: the roles whose grants r   *)
(* has are a closed set around r.                                            *)
LEMMA FixedPointIsComplete ==
    ASSUME \A r \in RoleKeys : direct[r] \subseteq effective[r],
           \A r \in RoleKeys : \A d \in extends[r] \cap RoleKeys : effective[d] \subseteq effective[r],
           NEW r \in RoleKeys, NEW g, Inherited(r, g)
    PROVE  g \in effective[r]
<1> DEFINE S == {d \in RoleKeys : effective[d] \subseteq effective[r]}
<1>1. r \in S /\ S \in SUBSET RoleKeys
  OBVIOUS
<1>2. ExtendsClosed(S)
  BY DEF ExtendsClosed
<1>3. PICK d \in S : g \in direct[d]
  BY <1>1, <1>2 DEF Inherited
<1> QED
  BY <1>3

LEMMA ExactInvariant == BuildSpec => [](OwnIsEffective /\ EffectiveIsInherited /\ FixedAtEnd)
<1> DEFINE Inv == OwnIsEffective /\ EffectiveIsInherited /\ FixedAtEnd
<1>1. BuildInit => Inv
  BY DEF BuildInit, OwnIsEffective, EffectiveIsInherited, FixedAtEnd
<1>2. PolicyTypeOK /\ Inv /\ [Build]_policyVars => Inv'
  <2> SUFFICES ASSUME PolicyTypeOK, Inv, [Build]_policyVars PROVE Inv'
    OBVIOUS
  <2>1. CASE collect
    <3>1. RoleKeys' = RoleKeys /\ phase' = "round" /\ effective' = direct'
      BY <2>1 DEF collect, RoleKeys
    <3>2. \A r \in RoleKeys : \A g \in direct'[r] : Inherited(r, g)'
      BY <3>1 DEF Inherited
    <3> QED
      BY <3>1, <3>2 DEF OwnIsEffective, EffectiveIsInherited, FixedAtEnd
  <2>2. CASE round
    <3>1. /\ RoleKeys' = RoleKeys /\ direct' = direct /\ extends' = extends
          /\ phase = "round"
          /\ effective \in [RoleKeys -> SUBSET Grant]
      BY <2>2 DEF round, RoleKeys, PolicyTypeOK
    <3>2. \A r \in RoleKeys : effective'[r] = Merged(r)
      BY <2>2, <3>1, RoundType
    <3>3. \A g : \A r \in RoleKeys : Inherited(r, g)' <=> Inherited(r, g)
      BY <3>1 DEF Inherited, ExtendsClosed
    <3>4. OwnIsEffective'
      BY <3>1, <3>2 DEF OwnIsEffective, Merged
    <3>5. EffectiveIsInherited'
      <4> SUFFICES ASSUME NEW r \in RoleKeys, NEW g \in effective'[r]
                   PROVE  Inherited(r, g)
        BY <3>1, <3>3 DEF EffectiveIsInherited
      <4>1. CASE g \in effective[r]
        BY <4>1, <3>1 DEF EffectiveIsInherited
      <4>2. CASE g \notin effective[r]
        <5>1. PICK d \in extends[r] \cap RoleKeys : g \in effective[d]
          BY <4>2, <3>1, <3>2 DEF Merged
        <5>2. Inherited(d, g)
          BY <5>1, <3>1 DEF EffectiveIsInherited
        <5> QED
          BY <5>1, <5>2, InheritedAlongExtends
      <4> QED
        BY <4>1, <4>2
    <3>6. FixedAtEnd'
      <4> SUFFICES ASSUME phase' = "done", guard' < MaxRounds,
                          NEW r \in RoleKeys, NEW d \in extends[r] \cap RoleKeys
                   PROVE  effective'[d] \subseteq effective'[r]
        BY <3>1 DEF FixedAtEnd
      <4>1. effective' = effective
        BY <2>2 DEF round
      <4>2. effective[d] \subseteq Merged(r)
        BY <3>1 DEF Merged
      <4> QED
        BY <4>1, <4>2, <3>2
    <3> QED
      BY <3>4, <3>5, <3>6
  <2>3. CASE UNCHANGED policyVars
    BY <2>3 DEF policyVars, OwnIsEffective, EffectiveIsInherited, FixedAtEnd, Inherited, ExtendsClosed, RoleKeys
  <2> QED
    BY <2>1, <2>2, <2>3 DEF Build
<1> QED
  BY <1>1, <1>2, TypeCorrect, PTL DEF BuildSpec

(* build ends with exactly the inherited grants, for every configuration. *)
THEOREM PolicyIsExact == BuildSpec => []ExactlyInherited
<1>1. OwnIsEffective /\ EffectiveIsInherited /\ FixedAtEnd => ExactlyInherited
  BY FixedPointIsComplete DEF OwnIsEffective, EffectiveIsInherited, FixedAtEnd, ExactlyInherited
<1> QED
  BY <1>1, ExactInvariant, PTL

-----------------------------------------------------------------------------
(* How long the loop runs.  A grant that does not stop spreading reaches a   *)
(* role more in every round, so that after n rounds more than n roles have   *)
(* it; and there are no more than the configured ones.                       *)

(* The roles that have g. *)
Holders(g) == {r \in RoleKeys : g \in effective[r]}

(* No role lacks g that extends one with g. *)
Settled(g) == \A r \in RoleKeys : \A d \in extends[r] \cap RoleKeys : g \in effective[d] => g \in effective[r]

Spreading == phase # "collect" => \A g \in Grant : Settled(g) \/ Cardinality(Holders(g)) > guard

(* Another round is made only where the last one gave something to a role. *)
RoundAhead == phase = "round" /\ guard > 0 => guard < Cardinality(RoleKeys)

BeforeBuild == phase = "collect" => guard = 0

(* A loop that the cap ends has reached the fixed point all the same, unless *)
(* there are more roles than the cap allows rounds.                          *)
SettledAtEnd == phase = "done" /\ Cardinality(RoleKeys) <= MaxRounds => \A g \in Grant : Settled(g)

RoundsInv == BeforeBuild /\ Spreading /\ RoundAhead /\ SettledAtEnd /\ RoundsBounded

(* The configured roles are finitely many. *)
LEMMA FiniteRoles ==
    ASSUME PolicyTypeOK
    PROVE  IsFiniteSet(RoleKeys) /\ Cardinality(RoleKeys) \in Nat
<1>1. IsFiniteSet(DOMAIN roles)
  BY PolicyAssumption DEF PolicyTypeOK
<1>2. IsFiniteSet(RoleKeys)
  <2> DEFINE f == [n \in DOMAIN roles |-> Lower[n]]
  <2>1. f \in Surjection(DOMAIN roles, RoleKeys)
    BY DEF Surjection, RoleKeys
  <2> QED
    BY <1>1, <2>1, FS_Surjection
<1> QED
  BY <1>2, FS_CardinalityType

(* And so are those that have a grant. *)
LEMMA HoldersAreRoles ==
    ASSUME PolicyTypeOK, NEW g
    PROVE  /\ IsFiniteSet(Holders(g)) /\ Cardinality(Holders(g)) \in Nat
           /\ Cardinality(Holders(g)) <= Cardinality(RoleKeys)
<1>1. Holders(g) \subseteq RoleKeys
  BY DEF Holders
<1> QED
  BY <1>1, FiniteRoles, FS_Subset, FS_CardinalityType

(* A round leaves a settled grant as it is and gives any other to one more   *)
(* role at least.                                                            *)
LEMMA RoundSpreads ==
    ASSUME PolicyTypeOK, round, NEW g \in Grant
    PROVE  /\ Settled(g) => Settled(g)' /\ \A r \in RoleKeys : g \in effective'[r] <=> g \in effective[r]
           /\ ~Settled(g) => Cardinality(Holders(g))' > Cardinality(Holders(g))
<1>1. /\ RoleKeys' = RoleKeys /\ extends' = extends /\ phase = "round"
      /\ effective \in [RoleKeys -> SUBSET Grant]
  BY DEF round, RoleKeys, PolicyTypeOK
<1>2. \A r \in RoleKeys : effective'[r] = Merged(r)
  BY <1>1, RoundType
<1>3. ASSUME Settled(g) PROVE \A r \in RoleKeys : g \in effective'[r] <=> g \in effective[r]
  BY <1>1, <1>2, <1>3 DEF Settled, Merged
<1>4. Settled(g) => Settled(g)'
  BY <1>1, <1>3 DEF Settled
<1>5. ASSUME ~Settled(g) PROVE Cardinality(Holders(g))' > Cardinality(Holders(g))
  <2>1. PICK r \in RoleKeys : g \notin effective[r] /\ \E d \in extends[r] \cap RoleKeys : g \in effective[d]
    BY <1>5 DEF Settled
  <2>2. g \in effective'[r]
    BY <1>1, <1>2, <2>1 DEF Merged
  <2>3. \A k \in RoleKeys : g \in effective[k] => g \in effective'[k]
    BY <1>2 DEF Merged
  <2>4. r \notin Holders(g) /\ Holders(g) \cup {r} \subseteq Holders(g)'
    BY <1>1, <2>1, <2>2, <2>3 DEF Holders
  <2>5. IsFiniteSet(Holders(g)')
    <3>1. Holders(g)' \subseteq RoleKeys
      BY <1>1 DEF Holders
    <3> QED
      BY <3>1, FiniteRoles, FS_Subset
  <2>6. /\ Cardinality(Holders(g) \cup {r}) = Cardinality(Holders(g)) + 1
        /\ Cardinality(Holders(g) \cup {r}) <= Cardinality(Holders(g)')
    BY <2>4, <2>5, HoldersAreRoles, FS_AddElement, FS_Subset
  <2>7. Cardinality(Holders(g)') \in Nat /\ Cardinality(Holders(g)') = Cardinality(Holders(g))'
    BY <2>5, FS_CardinalityType
  <2> QED
    BY <2>6, <2>7, HoldersAreRoles
<1> QED
  BY <1>3, <1>4, <1>5

(* Each action keeps the invariant. *)
LEMMA CollectRounds ==
    ASSUME PolicyTypeOK, RoundsInv, collect
    PROVE  RoundsInv'
<1>1. guard' = 0 /\ phase' = "round" /\ RoleKeys' = RoleKeys
  BY DEF RoundsInv, BeforeBuild, collect, RoleKeys
<1>2. IsFiniteSet(RoleKeys) /\ Cardinality(RoleKeys) \in Nat
  BY FiniteRoles
<1>3. ASSUME NEW g \in Grant, ~Settled(g)' PROVE Cardinality(Holders(g)') > 0
  <2>1. PICK d \in RoleKeys : g \in effective'[d]
    BY <1>1, <1>3 DEF Settled
  <2>2. Holders(g)' \subseteq RoleKeys /\ Holders(g)' # {}
    BY <1>1, <2>1 DEF Holders
  <2>3. IsFiniteSet(Holders(g)')
    BY <1>2, <2>2, FS_Subset
  <2> QED
    BY <2>2, <2>3, FS_EmptySet, FS_CardinalityType
<1>4. RoundsBounded'
  BY <1>1, <1>2 DEF RoundsBounded
<1>5. Spreading'
  BY <1>1, <1>3 DEF Spreading
<1> QED
  BY <1>1, <1>4, <1>5 DEF RoundsInv, BeforeBuild, RoundAhead, SettledAtEnd

LEMMA RoundRounds ==
    ASSUME PolicyTypeOK, RoundsInv, round
    PROVE  RoundsInv'
<1>1. /\ RoleKeys' = RoleKeys /\ extends' = extends /\ phase = "round" /\ guard' = guard + 1
      /\ phase' = IF effective' # effective /\ guard' < MaxRounds THEN "round" ELSE "done"
      /\ effective \in [RoleKeys -> SUBSET Grant] /\ guard \in Nat /\ MaxRounds \in Nat
  BY PolicyAssumption DEF round, RoleKeys, PolicyTypeOK
<1>2. IsFiniteSet(RoleKeys) /\ Cardinality(RoleKeys) \in Nat
  BY FiniteRoles
<1>3. effective' \in [RoleKeys -> SUBSET Grant] /\ \A r \in RoleKeys : effective'[r] = Merged(r)
  BY <1>1, RoundType
<1>4. ASSUME NEW g \in Grant
      PROVE  /\ Cardinality(Holders(g)') \in Nat
             /\ Cardinality(Holders(g)') <= Cardinality(RoleKeys)
  <2>1. Holders(g)' \subseteq RoleKeys
    BY <1>1 DEF Holders
  <2> QED
    BY <1>2, <2>1, FS_Subset, FS_CardinalityType
<1>5. ASSUME NEW g \in Grant, ~Settled(g) PROVE Cardinality(Holders(g)') > guard'
  <2>1. Cardinality(Holders(g)) > guard
    BY <1>1, <1>5 DEF RoundsInv, Spreading
  <2>2. Cardinality(Holders(g)') > Cardinality(Holders(g))
    BY <1>5, RoundSpreads
  <2>3. Cardinality(Holders(g)) \in Nat
    BY HoldersAreRoles
  <2> QED
    BY <1>1, <1>4, <2>1, <2>2, <2>3
<1>6. \A g \in Grant : Settled(g) => Settled(g)'
  BY RoundSpreads
<1>7. Spreading'
  BY <1>5, <1>6 DEF Spreading
<1>8. ASSUME effective' # effective PROVE guard' < Cardinality(RoleKeys)
  <2>1. PICK r \in RoleKeys : effective'[r] # effective[r]
    BY <1>1, <1>3, <1>8
  <2>2. PICK g \in Grant : g \in effective'[r] /\ g \notin effective[r]
    BY <1>1, <1>3, <2>1 DEF Merged
  <2>3. ~Settled(g)
    BY <2>2, RoundSpreads
  <2> QED
    BY <1>1, <1>2, <1>4, <1>5, <2>3
<1>9. RoundAhead'
  BY <1>1, <1>8 DEF RoundAhead
<1>10. SettledAtEnd'
  <2> SUFFICES ASSUME phase' = "done", Cardinality(RoleKeys) <= MaxRounds, NEW g \in Grant
               PROVE  Settled(g)'
    BY <1>1 DEF SettledAtEnd
  <2>1. CASE effective' = effective
    BY <1>1, <1>3, <2>1 DEF Settled, Merged
  <2>2. CASE effective' # effective
    BY <1>1, <1>2, <1>8, <2>2
  <2> QED
    BY <2>1, <2>2
<1>11. RoundsBounded'
  <2>1. CASE guard = 0
    <3>1. RoleKeys # {} => Cardinality(RoleKeys) # 0
      BY <1>2, FS_EmptySet
    <3> QED
      BY <1>1, <1>2, <2>1, <3>1 DEF RoundsBounded
  <2>2. CASE guard # 0
    <3>1. guard < Cardinality(RoleKeys)
      BY <1>1, <2>2 DEF RoundsInv, RoundAhead
    <3>2. RoleKeys # {}
      BY <1>1, <3>1, FS_EmptySet
    <3> QED
      BY <1>1, <1>2, <3>1, <3>2 DEF RoundsBounded
  <2> QED
    BY <2>1, <2>2
<1>12. BeforeBuild'
  BY <1>1 DEF BeforeBuild
<1> QED
  BY <1>7, <1>9, <1>10, <1>11, <1>12 DEF RoundsInv

LEMMA RoundsInvariant == BuildSpec => []RoundsInv
<1>1. BuildInit => RoundsInv
  <2> SUFFICES ASSUME BuildInit PROVE RoundsInv
    OBVIOUS
  <2>1. roles \in RoleConfigs /\ phase = "collect" /\ guard = 0
    BY DEF BuildInit
  <2>2. RoundsBounded
    <3>1. IsFiniteSet(DOMAIN roles)
      BY <2>1, PolicyAssumption
    <3> DEFINE f == [n \in DOMAIN roles |-> Lower[n]]
    <3>2. f \in Surjection(DOMAIN roles, RoleKeys)
      BY DEF Surjection, RoleKeys
    <3>3. Cardinality(RoleKeys) \in Nat
      BY <3>1, <3>2, FS_Surjection, FS_CardinalityType
    <3> QED
      BY <2>1, <3>3 DEF RoundsBounded
  <2> QED
    BY <2>1, <2>2 DEF RoundsInv, BeforeBuild, Spreading, RoundAhead, SettledAtEnd
<1>2. PolicyTypeOK /\ RoundsInv /\ [Build]_policyVars => RoundsInv'
  <2> SUFFICES ASSUME PolicyTypeOK, RoundsInv, [Build]_policyVars PROVE RoundsInv'
    OBVIOUS
  <2>1. CASE collect
    BY <2>1, CollectRounds
  <2>2. CASE round
    BY <2>2, RoundRounds
  <2>3. CASE UNCHANGED policyVars
    BY <2>3 DEF policyVars, RoundsInv, BeforeBuild, Spreading, RoundAhead, SettledAtEnd, RoundsBounded,
                Settled, Holders, RoleKeys
  <2> QED
    BY <2>1, <2>2, <2>3 DEF Build
<1> QED
  BY <1>1, <1>2, TypeCorrect, PTL DEF BuildSpec

(* build makes no more rounds than there are roles, however they extend each *)
(* other, so that a table of at most MaxRounds roles is never cut short.     *)
THEOREM RoundsAreFew == BuildSpec => []RoundsBounded
BY RoundsInvariant, PTL DEF RoundsInv

-----------------------------------------------------------------------------
(* What a token of the config allows: the parsed grant covers a request      *)
(* exactly if the token does.                                                *)
LEMMA TargetType ==
    ASSUME NEW target \in Targets
    PROVE  /\ target.res \in Resources /\ Lower[target.res] = target.res
           /\ target.verb \in Verbs
<1> DEFINE To(m) == UNION {RouteTarget(s, m) : s \in Resources \cup {""}}
<1>1. PICK m \in {"GET", "PUT", "DELETE"} : target \in To(m)
  <2>1. target \in UNION {To(m) : m \in {"GET", "PUT", "DELETE"}}
    BY DEF Targets
  <2> HIDE DEF To
  <2> QED
    BY <2>1
<1>2. PICK r \in Resources : target = [res |-> Lower[r], verb |-> FromMethod(m)]
  <2>1. PICK s \in Resources \cup {""} : target \in RouteTarget(s, m)
    BY <1>1
  <2> QED
    BY <2>1 DEF RouteTarget
<1>3. FromMethod(m) \in Verbs
  BY DEF FromMethod, Verbs
<1> QED
  BY <1>2, <1>3, PolicyAssumption

LEMMA ParsedAsCovered ==
    ASSUME NEW t \in GrantToken, NEW target \in Targets
    PROVE  (\E g \in Parse(t) : Matches(g, target.res, target.verb)) <=> Covers(t, target)
<1>1. /\ target.res \in Resources /\ Lower[target.res] = target.res
      /\ target.verb \in Verbs /\ target.res # "*" /\ target.res # "all"
  BY TargetType, PolicyAssumption
<1>2. /\ t.res \in Resources \cup {"*", "all"}
      /\ t.verb \in VerbWords \cup {"*", "", "other", NoColon}
  BY DEF GrantToken
<1>3. /\ Lower["*"] = "*" /\ Lower["all"] = "all" /\ "*" \notin Resources /\ "all" \notin Resources
      /\ t.res \in Resources => Lower[t.res] \in Resources
  BY PolicyAssumption
<1>4. "*" \notin Verbs
  BY DEF Verbs
<1>5. VerbParse(t.verb) \subseteq Verbs
  BY DEF VerbParse
<1>6. CASE t.verb = NoColon /\ t.res \in {"*", "all"}
  <2>1. Parse(t) = {[res |-> "*", verb |-> "*"]}
    BY <1>6 DEF Parse
  <2>2. Covers(t, target)
    BY <1>3, <1>6 DEF Covers
  <2> QED
    BY <2>1, <2>2 DEF Matches
<1>7. CASE t.verb = NoColon /\ t.res \notin {"*", "all"}
  <2>1. Parse(t) = {[res |-> t.res, verb |-> "*"]}
    BY <1>7 DEF Parse
  <2>2. (\E g \in Parse(t) : Matches(g, target.res, target.verb)) <=> t.res = target.res
    BY <1>7, <2>1 DEF Matches
  <2>3. Covers(t, target) <=> t.res = target.res
    BY <1>1, <1>7 DEF Covers
  <2> QED
    BY <2>2, <2>3
<1>8. CASE t.verb \in {"*", ""}
  <2>1. t.verb # NoColon /\ Parse(t) = {[res |-> Lower[t.res], verb |-> "*"]}
    BY <1>8 DEF Parse, NoColon
  <2>2. (\E g \in Parse(t) : Matches(g, target.res, target.verb)) <=> Lower[t.res] \in {"*", target.res}
    BY <2>1 DEF Matches
  <2>3. Covers(t, target) <=> Lower[t.res] \in {"*", target.res}
    BY <1>1, <1>2, <1>3, <1>8, <2>1 DEF Covers
  <2> QED
    BY <2>2, <2>3
<1>9. CASE t.verb \notin {"*", "", NoColon}
  <2>1. Parse(t) = {[res |-> Lower[t.res], verb |-> v] : v \in VerbParse(t.verb)}
    BY <1>9 DEF Parse
  <2>2. (\E g \in Parse(t) : Matches(g, target.res, target.verb))
           <=> Lower[t.res] \in {"*", target.res} /\ target.verb \in VerbParse(t.verb)
    <3>1. ASSUME NEW v \in VerbParse(t.verb)
          PROVE  Matches([res |-> Lower[t.res], verb |-> v], target.res, target.verb)
                    <=> Lower[t.res] \in {"*", target.res} /\ v = target.verb
      BY <1>4, <1>5 DEF Matches
    <3> QED
      BY <2>1, <3>1
  <2>3. Covers(t, target)
           <=> Lower[t.res] \in {"*", target.res} /\ target.verb \in VerbParse(t.verb)
    BY <1>1, <1>2, <1>3, <1>9 DEF Covers
  <2> QED
    BY <2>2, <2>3
<1> QED
  BY <1>6, <1>7, <1>8, <1>9

(* direct holds what the tokens of a role, in all its spellings, stand for. *)
DirectIsParsed ==
    phase # "collect" => \A k \in RoleKeys : \A g :
        g \in direct[k] <=> \E m \in DOMAIN roles : Lower[m] = k /\ \E t \in roles[m].grants : g \in Parse(t)

LEMMA DirectInvariant == BuildSpec => []DirectIsParsed
<1>1. BuildInit => DirectIsParsed
  BY DEF BuildInit, DirectIsParsed
<1>2. DirectIsParsed /\ [Build]_policyVars => DirectIsParsed'
  <2> SUFFICES ASSUME DirectIsParsed, [Build]_policyVars PROVE DirectIsParsed'
    OBVIOUS
  <2>1. CASE collect
    <3>1. RoleKeys' = RoleKeys /\ roles' = roles
      BY <2>1 DEF collect, RoleKeys
    <3>2. direct' = [k \in RoleKeys |->
            UNION {UNION {Parse(t) : t \in roles[n].grants} : n \in {m \in DOMAIN roles : Lower[m] = k}}]
      BY <2>1 DEF collect
    <3> QED
      BY <3>1, <3>2 DEF DirectIsParsed
  <2>2. CASE round
    BY <2>2 DEF round, DirectIsParsed, RoleKeys
  <2>3. CASE UNCHANGED policyVars
    BY <2>3 DEF policyVars, DirectIsParsed, RoleKeys
  <2> QED
    BY <2>1, <2>2, <2>3 DEF Build
<1> QED
  BY <1>1, <1>2, PTL DEF BuildSpec

RolesWithinCap == Cardinality(RoleKeys) <= MaxRounds

(* AuthPolicy::allows, for every table of roles that has no more of them     *)
(* than the cap has rounds (10_000 in the code): a route is open exactly if  *)
(* it is public or a token of one of the caller's roles, or of a role they   *)
(* extend, covers it.                                                        *)
THEOREM AllowsWhatIsConfigured == BuildSpec => [](RolesWithinCap => AllowsExactly)
<1> DEFINE Inv == PolicyTypeOK /\ OwnIsEffective /\ EffectiveIsInherited /\ RoundsInv /\ DirectIsParsed
<1>1. ASSUME Inv, RolesWithinCap, phase = "done", NEW n \in Names, NEW target \in Targets
      PROVE  allows({n}, target) <=>
                \/ target.res \in public
                \/ /\ Lower[n] \in RoleKeys
                   /\ \A S \in SUBSET RoleKeys : Lower[n] \in S /\ ExtendsClosed(S) =>
                         \E m \in DOMAIN roles : Lower[m] \in S /\
                            \E t \in roles[m].grants : Covers(t, target)
  <2> DEFINE r == Lower[n]
             Tokens(S) == \E m \in DOMAIN roles : Lower[m] \in S /\
                             \E t \in roles[m].grants : Covers(t, target)
             Around(S) == r \in S /\ ExtendsClosed(S)
             Held == \E g \in effective[r] : Matches(g, target.res, target.verb)
  <2>1. DOMAIN effective = RoleKeys /\ \A k \in RoleKeys : effective[k] \subseteq Grant /\ direct[k] \subseteq Grant
    BY <1>1 DEF PolicyTypeOK
  <2>2. \A m \in DOMAIN roles : Lower[m] \in RoleKeys /\ \A t \in roles[m].grants : t \in GrantToken
    BY <1>1, ConfigType DEF PolicyTypeOK, RoleConfig, RoleKeys
  <2>3. ASSUME r \in RoleKeys, Held, NEW S \in SUBSET RoleKeys, Around(S) PROVE Tokens(S)
    <3>1. PICK g \in effective[r] : Matches(g, target.res, target.verb)
      BY <2>3
    <3>2. Inherited(r, g)
      BY <1>1, <2>3, <3>1 DEF EffectiveIsInherited
    <3>3. PICK d \in S : g \in direct[d]
      BY <2>3, <3>2 DEF Inherited
    <3>4. PICK m \in DOMAIN roles : Lower[m] = d /\ \E t \in roles[m].grants : g \in Parse(t)
      BY <1>1, <2>3, <3>3 DEF DirectIsParsed
    <3>5. PICK t \in roles[m].grants : g \in Parse(t)
      BY <3>4
    <3>6. Covers(t, target)
      BY <2>2, <3>1, <3>5, ParsedAsCovered
    <3> QED
      BY <3>4, <3>6
  <2>4. ASSUME r \in RoleKeys, \A S \in SUBSET RoleKeys : Around(S) => Tokens(S) PROVE Held
    <3> DEFINE S == {d \in RoleKeys : effective[d] \subseteq effective[r]}
    <3>1. S \in SUBSET RoleKeys /\ r \in S
      BY <2>4
    <3>2. \A g \in Grant : Settled(g)
      BY <1>1 DEF RoundsInv, SettledAtEnd, RolesWithinCap
    <3>3. \A k \in RoleKeys : \A d \in extends[k] \cap RoleKeys : effective[d] \subseteq effective[k]
      BY <2>1, <3>2 DEF Settled
    <3>4. ExtendsClosed(S)
      BY <3>3 DEF ExtendsClosed
    <3>5. PICK m \in DOMAIN roles : Lower[m] \in S /\
             \E t \in roles[m].grants : Covers(t, target)
      BY <2>4, <3>1, <3>4
    <3>6. PICK t \in roles[m].grants : Covers(t, target)
      BY <3>5
    <3>7. PICK g \in Parse(t) : Matches(g, target.res, target.verb)
      BY <2>2, <3>6, ParsedAsCovered
    <3>8. g \in direct[Lower[m]]
      BY <1>1, <2>2, <3>6, <3>7 DEF DirectIsParsed
    <3>9. g \in effective[r]
      BY <1>1, <2>2, <3>5, <3>8 DEF OwnIsEffective
    <3> QED
      BY <3>7, <3>9
  <2>5. allows({n}, target) <=> target.res \in public \/ (r \in RoleKeys /\ Held)
    BY <2>1 DEF allows
  <2> HIDE DEF Held
  <2> QED
    BY <2>3, <2>4, <2>5
<1>2. Inv => (RolesWithinCap => AllowsExactly)
  BY <1>1 DEF AllowsExactly
<1> QED
  BY <1>2, TypeCorrect, ExactInvariant, RoundsInvariant, DirectInvariant, PTL
=============================================================================
