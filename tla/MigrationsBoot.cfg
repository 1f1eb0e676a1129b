\* Three processes of three builds boot side by side; two faults.
CONSTANTS
    p1 = p1  p2 = p2  p3 = p3  c1 = c1  c2 = c2  c3 = c3
    Procs <- AllProcs
    Versions <- AllVersions
    Checksums <- AllChecksums
    Files <- Builds
    Missing = missing
    MaxFaults = 2
SPECIFICATION FairSpec
INVARIANTS TypeOK AppliedOnce ServesOnItsSchema InOrder
PROPERTIES AllServe ImplementsHistory
