CONSTANTS
    Runs = {r1, r2}
    NoRun = NoRun
    Locks <- MCLocks
    Bins <- MCBins
    GoodBins <- MCBins
    LockOf <- TwoLocks
    CtrOf <- TwoCtrs
    Keep = 1
    Faults = {"fail", "term", "kill", "service", "clock"}
    MaxPush = 2
    MaxStamp = 3
    MaxFaults = 2
SPECIFICATION Spec
SYMMETRY Symmetry
INVARIANTS
    TypeOK
    SiteWhole
    LeftoversSwept
    SuccessIsDeployed
    Retention
PROPERTIES
    MarkerOnlyByEndedRuns
    ImplementsSite
