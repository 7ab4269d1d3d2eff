SPECIFICATION Spec
CONSTANTS
    Spaces <- MCSpaces
    Configs <- MCConfigs
    TypeWorlds <- MCTypeWorlds
    BuiltInTypes = {11, 12}
    MetadataNames = {4}
    MaxFaults = 1
    Scalars = {11}
    DynamicScalars = {12}
    sanitizePascal <- MCPascal
    sanitizeCamel <- MCPascal
    NoName = 0
    DataTypesKey = 7
    NumberType = 11
    Files <- MCFiles
    Obsolete = {"old"}
    Disks <- MCDisks
    MaxEdits = 1
INVARIANTS
    EveryPathIsExplained
    ModelIsClosed
    CheckTellsTheTruth
PROPERTIES
    ForeignFilesAreKept
    CodegenEnds
CHECK_DEADLOCK FALSE
