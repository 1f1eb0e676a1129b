\* Events are said to be enqueued transactionally.
CONSTANTS
    f1 = f1  f2 = f2  h1 = h1  h2 = h2  s1 = s1  s2 = s2  p1 = p1  p2 = p2
    Refs <- OneRef
    Handlers <- OneHandler
    Sweeps <- OneSweep
    Publishers <- OnePublisher
    Faults <- StopOnly
    MaxRequeues = 0
    WriteCap = 1
SPECIFICATION FairSpec
PROPERTIES EveryChangeAnnounced
