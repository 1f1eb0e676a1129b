\* A Postgres store under every fault, one forced sweep beside the engine's.
CONSTANTS
    d1 = d1  r1 = r1
    Docs <- OneDoc
    Engine = engine
    Requests <- OneRequest
    BatchSize = 1
    SyncEnabled = TRUE
    Backend = "postgres"
    Rejected <- Nobody
    Faults <- AllFaults
    MaxRequeues = 1
    Heartbeat = TRUE
SPECIFICATION StatusFairSpec
INVARIANTS StatusTypeOK ReportedWasAccepted
PROPERTIES OkSweepDelivered OutageIsReported RecoveryIsReported StaleRowHeals
