CONSTANTS
    c1 = c1
    c2 = c2
    c3 = c3
    Calls <- MC_Calls
    MaxTime <- MC_MaxTime
SPECIFICATION Spec
INVARIANTS
    ErrorPropagation
