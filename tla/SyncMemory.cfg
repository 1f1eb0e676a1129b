\* The memory store: marks succeed on a cancelled context.
CONSTANTS
    d1 = d1  d2 = d2  d3 = d3  r1 = r1
    Docs <- TwoDocs
    Engine = engine
    Requests <- OneRequest
    BatchSize = 1
    SyncEnabled = TRUE
    Backend = "memory"
    Rejected <- FirstRejected
    Faults <- LinkAndCancel
    MaxRequeues = 1
SPECIFICATION FairSpec
INVARIANTS SyncingIsHeld
PROPERTIES Delivered
