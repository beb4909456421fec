CONSTANTS
    Runs = {r1}
    NoRun = NoRun
    Locks <- MCLocks
    Bins <- MCBins
    GoodBins <- MCBins
    LockOf <- RevertLocks
    CtrOf <- RevertCtrs
    Keep = 1
    Faults = {"term"}
    MaxPush = 3
    MaxStamp = 3
    MaxFaults = 1
SPECIFICATION Spec
INVARIANT
    BuiltFromItsLock
