\* Three commands, run again and again, killed anywhere but in a recovery.
CONSTANTS
    a = a
    b = b
    c = c
    d1 = d1
    d2 = d2
    Proc = {a, b, c}
    Ghost = {}
    DirId = {d1, d2}
    Respawning = {a, b, c}
    NoProc = NoProc
    NoId = NoId
    CrashPoints <- Everywhere
    RecoverersCrash = FALSE
    CreatorsStall = FALSE
    OperatorBreaks = FALSE
    PidsRecycle = TRUE
SPECIFICATION Spec
SYMMETRY Symmetry
INVARIANTS
    HolderOwns
    OneRecoverer
PROPERTY
    ImplementsExclusiveLease
