\* A Postgres store under every fault, one request beside the engine.
CONSTANTS
    d1 = d1  d2 = d2  d3 = d3  r1 = r1
    Docs <- AllDocs
    Engine = engine
    Requests <- OneRequest
    BatchSize = 2
    SyncEnabled = TRUE
    Backend = "postgres"
    Rejected <- LastTwoRejected
    Faults <- AllFaults
    MaxRequeues = 1
SPECIFICATION Spec
SYMMETRY RefusedAlike
INVARIANTS TypeOK SyncedIsAccepted HoldersBounded
PROPERTIES SyncedIsFinal MarkDecidesAlone MarksUseChances ImplementsDelivery
