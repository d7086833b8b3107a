SPECIFICATION ObservedSpec
CONSTANTS
    b1 = b1
    Profiles <- MCProfiles
    Incremental <- MCIncremental
    Builds <- MCOneBuild
    MaxLock = 4
    HasTimeout = TRUE
    Timeout = 1
    MaxCrashes = 0
    Cleans <- MCNone
    Missing = Missing
    Nobody = Nobody
CHECK_DEADLOCK FALSE
INVARIANTS
    InactiveProfilesAreReset
