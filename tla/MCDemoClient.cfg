SPECIFICATION Spec
CONSTANTS
    s1 = s1
    s2 = s2
    s3 = s3
    L1 = L1
    L2 = L2
    Submits = {s1, s2, s3}
    Layers = {L1, L2}
    layerOf <- MCLayerOf
    requestOf <- MCRequestOf
    CommandIds = {1, 2}
    Capacity = 1
    MaxTicks = 1
    MaxFaults = 1
INVARIANTS
    ExecutedAtMostOnce
    OutcomeIsTrue
    FlagIsHeld
    SnapshotIsCoherent
PROPERTIES
    SubmitsSettle
    SnapshotCatchesUp
CHECK_DEADLOCK FALSE
