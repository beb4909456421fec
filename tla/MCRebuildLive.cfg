CONSTANTS
    Runs = {r1, r2}
    NoRun = NoRun
    Locks <- MCLocks
    Bins <- MCBins
    GoodBins = {"ctr1"}
    LockOf <- TwoLocks
    CtrOf <- TwoCtrs
    Keep = 1
    Faults = {"fail", "term", "kill", "service", "early", "late"}
    MaxPush = 2
    MaxStamp = 2
    MaxFaults = 1
SPECIFICATION Spec
PROPERTIES
    RunsEnd
