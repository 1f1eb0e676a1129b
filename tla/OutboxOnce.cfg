\* A document retried once, one publisher, no faults.
CONSTANTS
    f1 = f1  f2 = f2  h1 = h1  h2 = h2  s1 = s1  s2 = s2  p1 = p1  p2 = p2
    Refs <- OneRef
    Handlers <- TwoHandlers
    Sweeps <- TwoSweeps
    Publishers <- OnePublisher
    Faults <- NoFaults
    MaxRequeues = 1
    WriteCap = 2
SPECIFICATION FairSpec
INVARIANTS WrittenOnce
PROPERTIES EveryChangeAnnounced
\* Once every event is dispatched nothing is left to do.
CHECK_DEADLOCK FALSE
