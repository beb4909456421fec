\* Cap is two tokens; a tick refills one and a half, so two fill a bucket, and the
\* sweeper drops what has been idle for longer than that.
CONSTANTS
    Addrs <- MCAddrs
    Days <- MCDays
    Cap = 4
    Unit = 2
    Refill = 3
    MaxIdle = 2
    MaxTime = 3
    MaxDayShifts = 2
    MaxWindows = 1
SPECIFICATION Spec
INVARIANTS
    TypeOK
    WindowBound
    KeysOfCurrentSalt
    OneDayPerSalt
PROPERTY
    ImplementsTokenBucket
