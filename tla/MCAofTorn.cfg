SPECIFICATION Spec
CONSTANTS
    k1 = k1
    k2 = k2
    Key <- MCKey
    Elem <- MCElem
    Cmd <- MCCmd
    Policies = {"EVERYSEC"}
    MaxHist = 3
    MaxFile = 3
    MaxItems = 2
    Faults = {"torn"}
INVARIANTS
    SyncedSurvive
