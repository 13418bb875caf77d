SPECIFICATION Spec
CONSTANTS
    Procs = {p1, p2, p3}
    Shell = sh
    Nobody = nobody
    N = 2
    Kinds = {"subst", "background", "redirected", "forkFails", "killed"}
INVARIANTS
    TypeOK
    ForegroundTogether
    ProgramsApart
    TerminalHome
    DispositionsReturn
    NobodyHangs
SYMMETRY Symmetry

