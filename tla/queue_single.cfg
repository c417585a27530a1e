\* One worker; j1 can never be resolved, j2 must settle all the same; lost replies, failing statements, crashes.
CONSTANTS
    j1 = j1
    j2 = j2
    m1 = m1
    b1 = b1
    b2 = b2
    NoJob = NoJob
    Workers = {w1}
    Jobs = {j1, j2}
    Messages = {m1}
    MessageOf <- OneMessage
    Mailboxes = {b1, b2}
    SenderOf <- TwoSenders
    Unresolvable = {j1}
    Relay = FALSE
    MaxAttempts = 2
    MaxHosts = 2
    MaxFaults = 3
    MaxSteals = 1
SPECIFICATION FairSpec
INVARIANTS
    ResentOnlyAfterFault
    InHandIsOwned
PROPERTIES
    ResolvableJobsSettle
    StuckJobsAreReclaimed
    TerminalIsFinal
    BackoffRespected
    ImplementsJobLifecycle
