\* Two requests and the refresher, one rotation, two failed fetches; three roles,
\* every way in which they can extend two others or themselves.
CONSTANTS
    k1 = k1
    k2 = k2
    k3 = k3
    k4 = k4
    a = a
    b = b
    NoKid = NoKid
    Requests = {r1, r2}
    Refresher = Refresher
    Configs <- SomeConfigs
    Keys = {k1, k2, k3, k4}
    Kid <- KidOf
    Published <- Rotation
    Tokens <- SomeTokens
    Ttl = 2
    MaxFetch = 1
    MaxFails = 2
    Names = {"a", "b", "B", "c", "x"}
    Resources = {"mail", "Mail", "doc", "Doc"}
    Lower <- LowerCase
    RoleConfigs <- SomeRoles
    Publics = {{"Doc"}}
    MaxRounds = 10000
SPECIFICATION MCSpec
SYMMETRY Symmetry
INVARIANTS
    TypeOK
    StaleIsBounded
    OpenOnlyBeforeFirstSet
    ExactlyInherited
    RoundsBounded
    AllowsExactly
PROPERTY
    DecidedByARecentSet
