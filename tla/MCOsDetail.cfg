\* A page and a view.json of either of two releases that list the same colors.
CONSTANTS
    Distance <- MCDistance
    Limit = 24
    MaxSimilar = 6
    Slug = "win"
    Contents <- SameColors
    None = None
    CopyKeys = {"hex", "rgb"}
    MaxBusy = 2
SPECIFICATION LSpec
INVARIANTS
    SeedIsSelected
    ReloadKeepsSelection
    SimPanelOfSelected
    FetchedIsWhole
PROPERTIES
    DetailsStable
    LabelsExpire
