CONSTANTS
    Workflows <- MCWorkflows
    Drafts <- MCDrafts
    MaxIterations = 2
    RecursionLimit = 5
    MaxDeaths = 2
SPECIFICATION Spec
INVARIANTS
    StoredWorkIsKept
    LoopsAreCapped
    ExclusiveBranches
    CompletesAtAnEnd
    RepairsAreSound
CHECK_DEADLOCK FALSE
