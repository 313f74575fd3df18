SPECIFICATION FairSpec
CONSTANTS
    r1 = r1
    r2 = r2
    None = None
    Run <- MCRun
    Attempt <- MCRun
    MaxRevision = 3
    MaxGeneration = 2
    MaxOthers = 1
    MaxTimeouts = 1
    MaxProjected = 4
    Measures = 1
    Admits = TRUE
INVARIANTS
    TypeOK
    NoSecondRun
    EndShownIsTrue
PROPERTIES
    ProjectionNeverGoesBack
    EndIsShown
