\* Every combination of the controls, and the bounded ones also under the preview
\* and the sheet (MCBound), over a catalog in which every filter leaves some colors
\* and removes others.
CONSTANTS
    Colors <- MCColorSet
    Fam <- MCFam
    Types <- MCTypes
    Hue <- MCHue
    Light <- MCLight
    Score <- MCScore
    Words <- MCWords
    Span <- MCSpan
    FamilyDefs <- MCFamilyDefs
    TypeDefs <- MCTypeDefs
    Systems <- MCSystems
    OsFam <- MCOsFam
    Ships <- MCShips
    Defaults <- MCDefaults
    Queries <- MCQueries
    YearOf <- MCYearOf
    None = None
SPECIFICATION Spec
CONSTRAINT MCBound
INVARIANTS
    BandsAreRanking
    CountsTrue
    OptionsHonest
    FamToggleUndoes
    PreviewWhole
