CONSTANTS
    c1 = c1
    c2 = c2
    c3 = c3
    g1 = g1
    Calls <- MC_Calls
    MaxTime <- MC_MaxTime
    GroupIds <- MC_GroupIds
    NServers <- MC_NServers
SPECIFICATION GSpec
SYMMETRY MC_Symmetry
PROPERTY
    RollbackRestores
