\* Every build of the collections, with a dump while it runs.
CONSTANTS
    Distance <- MCDistance
    Limit = 24
    MaxSimilar = 6
    Inherited <- MCInherited
    Collections <- MCCollections
    HttpUrls = {"u1", "u2", "u3"}
    Dumps <- MCDumps
    MaxDumps = 1
    None = None
SPECIFICATION Spec
CHECK_DEADLOCK FALSE
INVARIANTS
    OneSnapshot
    LinksResolve
    NotesTrue
    MergedTrue
