\* The interlock of the axes when nobody asks for a move of X: what is left is
\* homing and the start of a batch.
SPECIFICATION CellSpec
CONSTANTS
    Scenarios = {"Default"}
    Configurations <- MCConfigurations
    XTargets = {}
    ZTargets = {"Safe", "Fill"}
    XPositions = {}
    ZPositions = {}
    XJogs = {}
    ZJogs = {}
    Velocities = {50}
    MaxElapsed = 1
PROPERTIES
    XMovesOnlyWithZSafe
CHECK_DEADLOCK FALSE
