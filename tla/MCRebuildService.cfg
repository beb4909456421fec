CONSTANTS
    Runs = {r1}
    NoRun = NoRun
    Locks <- MCLocks
    Bins <- MCBins
    GoodBins <- MCBins
    LockOf <- TwoLocks
    CtrOf <- TwoCtrs
    Keep = 1
    Faults = {"fail"}
    MaxPush = 2
    MaxStamp = 3
    MaxFaults = 1
SPECIFICATION Spec
INVARIANT
    NoStaleService
