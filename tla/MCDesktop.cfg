\* Every style, palette and window; labels of two words take two lines.
CONSTANTS
    Linear <- MCLinear
    Viewports <- MCViewports
    Palettes <- MCPalettes
    Wrap = TRUE
SPECIFICATION Spec
INVARIANTS
    TypeOK
    ChromeClear
    InkLegible
    ValuesTrue
