CONSTANTS
    N = 2
    Strips <- MCStrips
    IntMax = 7
    Precision = 6
    Scale = 3
    Reports <- MCReports
    Values <- MCValues
    FirstGap = 1
    MaxGap = 3
SPECIFICATION FairSpec
INVARIANTS
    LandedIsWhole
    SeriesKeepOutlet
    FieldsFit
PROPERTIES
    ReconnectsSpaced
    DisabledIsReadAgain
