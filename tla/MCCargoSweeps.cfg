SPECIFICATION Spec
CONSTANTS
    b1 = b1
    Profiles <- MCProfiles
    Incremental <- MCIncremental
    Builds <- MCOneBuild
    MaxLock = 3
    HasTimeout = TRUE
    Timeout = 1
    MaxCrashes = 1
    Cleans <- MCCleans
    Missing = Missing
    Nobody = Nobody
CHECK_DEADLOCK FALSE
PROPERTIES
    OnlyInactiveIsQuarantined
    BuildKeepsItsProfile
