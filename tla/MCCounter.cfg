\* Two requests are enough for two transactions to meet at the one connection,
\* for a commit to fall between the two reads of a dump, and for the same color
\* to be counted under both of its spellings.
CONSTANTS
    Reqs = {r1, r2}
    NoReq = NoReq
    Colors <- MCColors
    Slugs <- MCSlugs
    Bodies <- MCBodies
    MaxDeaths = 1
    MaxDumps = 1
SPECIFICATION Spec
INVARIANTS
    LedgerExact
    HeardIsSo
    DumpConsistent
PROPERTIES
    ImplementsLedger
    EveryRequestEnds
\* The system stops when the requests are used up.
CHECK_DEADLOCK FALSE
