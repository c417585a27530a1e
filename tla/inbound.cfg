\* Two sessions, one mailbox, one Message-ID, mails with and without it; one failure.
CONSTANTS
    Sessions = {s1, s2}
    Mailboxes = {b1}
    Unknown = Unknown
    Keys = {k1}
    NoKey = NoKey
    Ids = {i1, i2}
    NoId = NoId
    MaxRcpts = 2
    MaxMails = 3
    MaxFaults = 1
SPECIFICATION Spec
SYMMETRY Symmetry
INVARIANTS
    DuplicatesBounded
    OneRowPerRcpt
    AckedIsLinked
    ForwardedOnce
