SPECIFICATION CellSpec
CONSTANTS
    Scenarios = {"Default", "LowTank", "ClampFault"}
    Configurations <- MCConfigurations
    XTargets = {"None", "Load", "Fill"}
    ZTargets = {"Safe", "Fill", "Maintenance"}
    XPositions <- MCXPositions
    ZPositions <- MCZPositions
    XJogs <- MCXJogs
    ZJogs <- MCZJogs
    Velocities = {0, 50}
    MaxElapsed = 1
INVARIANTS
    ProductionIsReady
    RecoveryIsOpen
    PanelIsHonest
PROPERTIES
    OnlyResetLeavesAStop
CHECK_DEADLOCK FALSE
