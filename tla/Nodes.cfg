SPECIFICATION Spec
CONSTANTS
    None = None
    MaxDeaths = 1
    MaxIterations = 1
    PageSize = 2
    MaxAttempts = 3
    EmptyPages = FALSE
    MaxPolls = 2
    MaxEdits = 1
    MaxBytes = 2
    Casts <- MCCasts
    FirstPages <- MCFirstPages
INVARIANTS
    ReportIsTrue
    ExtractIsExact
    StoreIsFaithful
    RerunsDoNotDuplicate
PROPERTIES
    NoLostEdit
    NodeEnds
CHECK_DEADLOCK FALSE
