CONSTANTS
    MaxBoots = 2
    MaxRestarts = 2
    Restarted = {"os", "cuda"}
SPECIFICATION FairSpec
INVARIANTS ReadyMeansSmokePassed ActiveMeansPublished OsMarkerComesFirst
PROPERTIES StartJobsEnd
CHECK_DEADLOCK FALSE
