\* Limit is the number of colors of two systems with the shorter palettes, so
\* that the cut before the duplicates go matters in some contents and not in others.
\* The page is visited after a build with one dump, before, during or after it.
CONSTANTS
    Distance <- MCDistance
    Limit = 4
    MaxSimilar = 2
    Inherited = {}
    Collections <- MCCollections
    HttpUrls = {}
    Dumps <- MCDumps
    MaxDumps = 1
    None = None
    Queries <- MCQueries
SPECIFICATION PSpec
INVARIANTS
    ListedInOrder
    MenuListens
    SimilarNearest
