CONSTANTS
    b1 = b1
    b2 = b2
    c1 = c1
    c2 = c2
    Users = {"ann", "bob", "cy"}
    Callbacks = {b1, b2}
    Calls = {c1, c2}
    Casts <- MCCasts
    Cap = 1
    MaxIssued = 2
    MaxFaults = 1
SPECIFICATION Spec
INVARIANTS
    RefreshTokenIsCurrent
    ToolCallRunsOnce
    TokenOfTheRightUser
PROPERTIES
    RowsComeFromGrants
CHECK_DEADLOCK FALSE
