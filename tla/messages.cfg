\* A mail to two recipients, one of them named twice; three messages.
CONSTANTS
    x = x
    y = y
    Rcpts = {x, y}
    Addressed <- Twice
    Limits = {0, 2}
    MaxLimit = 1
    MaxMessages = 3
    MaxTries = 2
    MaxDeletes = 1
SPECIFICATION MCSpec
INVARIANTS
    TypeOK
    SentToEachOnce
    
    WalkIsShort
CHECK_DEADLOCK FALSE
