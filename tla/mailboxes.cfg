\* Three requests, an address in two spellings and another one, a configured address.
CONSTANTS
    low = low
    upp = upp
    other = other
    f1 = f1
    f2 = f2
    None = None
    Requests = {r1, r2, r3}
    Addresses = {low, upp, other}
    Lower <- LowerCase
    DomainOf <- DomainPart
    Forwards = {None, f1, f2}
    Seeds <- TwoSeeds
    MaxFaults = 2
SPECIFICATION Spec
SYMMETRY Symmetry
INVARIANTS
    TypeOK
    RefusedOnlyBlind
    ConfirmedIsKept
    LosersFindTheWinner
