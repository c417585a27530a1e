\* Two callers that may start, stop and switch modes for ever; the SMTPS port belongs to another process.
CONSTANTS
    Services = {"smtp", "smtps"}
    Modes = {"full", "dns"}
    Callers = {c1, c2}
    Tasks = {t1, t2}
    NoTask = NoTask
    SmtpsConfigured = TRUE
    TlsIdentity = TRUE
    Occupied = {"smtps"}
    MaxDeaths = 1
SPECIFICATION FairSpec
INVARIANTS
    NoStrayListener
    StatusMatchesHandle
    ModeIsReached
PROPERTIES
    StoppedPortIsReleased
