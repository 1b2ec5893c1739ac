SPECIFICATION Spec
CONSTANTS
    MaxUsers = 6
    MaxKeys = 3
    MaxWorkflows = 3
    Instances = {"i1", "i2"}
    MaxBoots = 1
    SeedUsers <- MCUsers
    SeedKeys <- MCKeys
    SeedWorkflows <- MCWorkflows
    SeedAssigned <- MCAssigned
    SeedSessions <- MCSessions
    MaxSessions = 2
    Casts <- MCCasts
INVARIANTS
    ServedWhenEntitled
    RevokedForGood
    ProductionHasItsSlug
    SecretsSurviveSaves
    SettingsFollowTheStore
    PatchIsAnsweredOnce
PROPERTIES
    ProposalsChangeNothing
CHECK_DEADLOCK FALSE
