CONSTANTS
    c1 = c1
    c2 = c2
    c3 = c3
    c4 = c4
    Calls <- MC_Calls
    MaxTime <- MC_MaxTime
    Items <- MC_Items
    Contents <- MC_Contents
    MaxLog <- MC_MaxLog
SPECIFICATION PSpec
CONSTRAINT MC_CallsInOrder
INVARIANTS
    ParsedWhenSettled
