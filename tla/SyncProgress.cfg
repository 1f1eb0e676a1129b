\* Progress of a node with a Postgres store under every fault.
CONSTANTS
    d1 = d1  d2 = d2  d3 = d3  r1 = r1
    Docs <- TwoDocs
    Engine = engine
    Requests <- OneRequest
    BatchSize = 1
    SyncEnabled = TRUE
    Backend = "postgres"
    Rejected <- FirstRejected
    Faults <- AllFaults
    MaxRequeues = 1
SPECIFICATION FairSpec
PROPERTIES Delivered NoStarvation DrainsOrStrands
