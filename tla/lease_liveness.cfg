\* A command that is run again and again gets the lease in the end.
CONSTANTS
    g = g
    a = a
    d1 = d1
    d2 = d2
    d3 = d3
    Proc = {g, a}
    Ghost = {g}
    DirId = {d1, d2, d3}
    Respawning = {a}
    NoProc = NoProc
    NoId = NoId
    CrashPoints <- OutsideWrites
    RecoverersCrash = TRUE
    CreatorsStall = FALSE
    OperatorBreaks = TRUE
    PidsRecycle = TRUE
SPECIFICATION FairSpec
PROPERTY
    LeaseRecovers
