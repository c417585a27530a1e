\* Two requests, a domain name in lower and in upper case, two configured records.
CONSTANTS
    low = low
    upp = upp
    v1 = v1
    t1 = t1
    t2 = t2
    NoId = NoId
    Requests = {r1, r2}
    Domains = {low, upp}
    Lower <- LowerCase
    Values = {v1}
    Ttls = {t1, t2}
    RecordIds = {i1, i2, i3}
    SeedDomains = {low}
    SeedRecords <- TwoSeeds
    MaxFaults = 2
SPECIFICATION Spec
SYMMETRY Symmetry
INVARIANTS
    TypeOK
    OrphansExplained
    LosersFindTheWinner
    ConfirmedIsStored
PROPERTIES
    ServesItsConfiguration
