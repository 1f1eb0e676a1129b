\* Four nodes from boot to exit; two captures, two keys.
CONSTANTS
    r1 = r1  r2 = r2  k1 = k1  k2 = k2
    Settings <- Nodes
    Requests <- Captures
    Tokens <- Carried
    Keys <- SigningKeys
    MaxFaults = 1
    MaxChanges = 2
SPECIFICATION FairSpec
INVARIANTS TypeOK AckedIsKept EmptyListIsNoPass CleanStop
PROPERTIES Terminates KeysCatchUp PermissionsRegistered ImplementsReceipts
CHECK_DEADLOCK FALSE
