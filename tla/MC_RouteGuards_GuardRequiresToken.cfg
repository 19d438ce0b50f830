CONSTANTS
    k1 = k1
    k2 = k2
    Clusters <- MC_Clusters
SPECIFICATION Spec
PROPERTY GuardRequiresToken
