SPECIFICATION FairSpec
CONSTANTS
    Listings <- AllListings
    Configs <- FourConfigs
    MaxApps = 2
    MaxRequests = 2
    Nil = Nil
    Absent = Absent
    Error = Error
CHECK_DEADLOCK FALSE
INVARIANTS
    RequestsAreServed
    CleanEnd
    SurvivorIsCached
PROPERTIES
    
    PhasesEnd
