SPECIFICATION Spec
CONSTANTS
    Procs = {p1, p2}
    Shell = sh
    Nobody = nobody
    N = 2
    Kinds = {"subst"}
INVARIANTS
    TerminalAtPrompt
SYMMETRY Symmetry
CHECK_DEADLOCK FALSE
