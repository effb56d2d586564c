SPECIFICATION Spec
CONSTANTS
    s1 = s1
    s2 = s2
    Session <- TwoSessions
    Root <- StorageRoot
    Outside <- NextToRoot
    Arguments <- Paths
    UniqueNames <- Alternatives
    MaxDepth = 3
    MaxCommands = 6
INVARIANTS
    TypeOK
PROPERTIES
    OutsideUntouched
    OwnStepsKeepCurrent
    NothingOverwritten
    RenameMeansItsPath
SYMMETRY Symmetry
CHECK_DEADLOCK FALSE
