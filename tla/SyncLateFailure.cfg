\* Failed is said to mean that the last attempt failed.
CONSTANTS
    d1 = d1  d2 = d2  d3 = d3  r1 = r1
    Docs <- TwoDocs
    Engine = engine
    Requests <- OneRequest
    BatchSize = 1
    SyncEnabled = TRUE
    Backend = "postgres"
    Rejected <- Nobody
    Faults <- LinkOnly
    MaxRequeues = 1
SPECIFICATION Spec
PROPERTIES SyncedNeverTurnsFailed
