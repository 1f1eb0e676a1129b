\* ClaimPending says a crash re-releases what it claimed.
CONSTANTS
    d1 = d1  d2 = d2  d3 = d3  r1 = r1
    Docs <- TwoDocs
    Engine = engine
    Requests <- Nobody
    BatchSize = 1
    SyncEnabled = TRUE
    Backend = "postgres"
    Rejected <- Nobody
    Faults <- StopOnly
    MaxRequeues = 0
SPECIFICATION FairSpec
PROPERTIES CrashReleases
