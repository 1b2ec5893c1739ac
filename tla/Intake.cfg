CONSTANTS
    c1 = c1
    c2 = c2
    p1 = p1
    p2 = p2
    w1 = w1
    Casts <- MCCasts
    Clients = {c1, c2}
    Pollers = {p1, p2}
    Watchers = {w1}
    Keys = {"k"}
    DriveFiles = {1, 2}
    LocalFiles = {11}
    PageSize = 1
    MaxRows = 3
    MaxVersions = 2
    MaxFaults = 1
SPECIFICATION FairSpec
INVARIANTS
    KeysNameOneExecution
    StartsAreAccountedFor
    FoldersTellTheTruth
PROPERTIES
    AcceptedIsSettled
CHECK_DEADLOCK FALSE
