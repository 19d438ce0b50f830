CONSTANTS
    c1 = c1
    c2 = c2
    Calls <- MC_Calls
    MaxTime <- MC_MaxTime
SPECIFICATION CSpec
SYMMETRY MC_Symmetry
INVARIANTS
    TypeOK
    LogIsHttpErrors
    ControlsTypeOK
