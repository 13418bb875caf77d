SPECIFICATION Spec
CONSTANTS
    Entries = {"script"}
    Kinds <- FlowKinds
    NSig = 0
    MaxItems = 2
    MaxStack = 8
    MaxSource = 2
INVARIANTS
    ReturnUnwinds
    AbortStops
