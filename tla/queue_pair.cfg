\* Two workers on one database, two jobs, one reclaim per job that hits a row in use.
CONSTANTS
    j1 = j1
    j2 = j2
    m1 = m1
    b1 = b1
    b2 = b2
    NoJob = NoJob
    Workers = {w1, w2}
    Jobs = {j1, j2}
    Messages = {m1}
    MessageOf <- OneMessage
    Mailboxes = {b1}
    SenderOf <- SameSender
    Unresolvable = {}
    Relay = TRUE
    MaxAttempts = 1
    MaxHosts = 1
    MaxFaults = 1
    MaxSteals = 1
SPECIFICATION Spec
SYMMETRY WorkerSymmetry
INVARIANTS
    TypeOK
    DeliveredWasAccepted
    SendsExplained
    AttemptsExplained
