\* Killed recoverers, stalled creators, operator breaks, recycled pids.
CONSTANTS
    g = g
    a = a
    b = b
    d1 = d1
    d2 = d2
    d3 = d3
    Proc = {g, a, b}
    Ghost = {g}
    DirId = {d1, d2, d3}
    Respawning = {}
    NoProc = NoProc
    NoId = NoId
    CrashPoints <- Everywhere
    RecoverersCrash = TRUE
    CreatorsStall = TRUE
    OperatorBreaks = TRUE
    PidsRecycle = TRUE
SPECIFICATION Spec
SYMMETRY Symmetry
INVARIANT
    TypeOK
PROPERTIES
    GenerationNeverAdopted
    LostLeaseStaysLost
