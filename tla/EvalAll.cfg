SPECIFICATION Spec
CONSTANTS
    Entries = {"script", "repl"}
    Kinds <- AllKinds
    NSig = 1
    MaxItems = 1
    MaxStack = 5
    MaxSource = 2
INVARIANTS
    TypeOK
    Balanced
    ReturnHasFrame
    ExitTrapOnce
PROPERTIES
    ErrexitExempt
