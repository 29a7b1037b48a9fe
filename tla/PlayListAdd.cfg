SPECIFICATION Spec
CONSTANTS
    l1 = l1
    n1 = n1
    p1 = p1
    p2 = p2
    Editors = {e1, e2}
    Devices = {d1}
    Names = {n1, n2}
    Lines = {l1}
    FlagOf <- MCFlagOf
    Selections <- MCSelections
    ListTypes = {0, 2}
    Stock <- MCStock
    Radix = 2
    Word = 32
    Faults = {"id", "title", "station", "stmt"}
    MaxCalls = 3
PROPERTY AddOnlyAdds
CHECK_DEADLOCK FALSE
