SPECIFICATION Spec
CONSTANTS
    Names = {x, y}
    Values = {a}
    p = p
    q = q
    Words = {p, q}
    Lists <- FewLists
    Unset = unset
    Undeclared = undeclared
    MaxLocals = 3
    IntMax = 7
    MaxCalls = 2
    MaxShift = 2
SYMMETRY Symmetry
INVARIANTS
    TypeOK
    UndoOrdered
PROPERTIES
    CommandsMean
    ImplementsDynScope
