\* Two workers, no failure of any kind: one slow delivery and a tick of the peer.
CONSTANTS
    j1 = j1
    j2 = j2
    m1 = m1
    b1 = b1
    b2 = b2
    NoJob = NoJob
    Workers = {w1, w2}
    Jobs = {j1}
    Messages = {m1}
    MessageOf <- OneJob
    Mailboxes = {b1}
    SenderOf <- OneSender
    Unresolvable = {}
    Relay = FALSE
    MaxAttempts = 1
    MaxHosts = 1
    MaxFaults = 0
    MaxSteals = 1
SPECIFICATION Spec
INVARIANT NeverDoubleSent
