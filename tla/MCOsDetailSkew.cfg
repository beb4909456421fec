\* A color was inserted between the release of the page and that of view.json.
CONSTANTS
    Distance <- MCDistance
    Limit = 24
    MaxSimilar = 6
    Slug = "win"
    Contents <- ColorInserted
    None = None
    CopyKeys = {"hex", "rgb"}
    MaxBusy = 1
SPECIFICATION LSpec
INVARIANT
    DetailsBelong
