\* One session, no failure: a message is deleted while its links are being written.
CONSTANTS
    Sessions = {s1}
    Mailboxes = {b1}
    Unknown = Unknown
    Keys = {k1}
    NoKey = NoKey
    Ids = {i1}
    NoId = NoId
    MaxRcpts = 1
    MaxMails = 2
    MaxFaults = 0
SPECIFICATION Spec
INVARIANT NoDanglingLinks
