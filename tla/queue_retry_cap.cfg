\* One worker, no failure of a statement: every delivery cycle fails.
CONSTANTS
    j1 = j1
    j2 = j2
    m1 = m1
    b1 = b1
    b2 = b2
    NoJob = NoJob
    Workers = {w1}
    Jobs = {j1}
    Messages = {m1}
    MessageOf <- OneJob
    Mailboxes = {b1}
    SenderOf <- OneSender
    Unresolvable = {}
    Relay = FALSE
    MaxAttempts = 2
    MaxHosts = 1
    MaxFaults = 0
    MaxSteals = 1
SPECIFICATION Spec
INVARIANT FailedAtCap
