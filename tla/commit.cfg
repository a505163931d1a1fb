\* Three commands, each with two mutations in flight, under the lease protocol.
CONSTANTS
    a = a
    b = b
    c = c
    d1 = d1
    d2 = d2
    d3 = d3
    l1 = l1
    l2 = l2
    Proc = {a, b, c}
    Ghost = {}
    DirId = {d1, d2, d3}
    Respawning = {}
    Lane = {l1, l2}
    NoLane = NoLane
    MaxEvents = 2
    ReReadsTail = TRUE
    NoProc = NoProc
    NoId = NoId
    CrashPoints <- Everywhere
    RecoverersCrash = FALSE
    CreatorsStall = FALSE
    OperatorBreaks = FALSE
    PidsRecycle = TRUE
SPECIFICATION CommitSpec
SYMMETRY Symmetry
INVARIANTS
    ReplayIsCurrent
PROPERTY
    ImplementsEventChain
