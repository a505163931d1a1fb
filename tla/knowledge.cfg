\* Two commands over two cards, one of them killed or failing anywhere.
CONSTANTS
    a = a
    b = b
    Process = {a, b}
    NoProcess = NoProcess
    Card = {1, 2}
    MaxVersion = 2
    MaxHead = 2
    MaxFaults = 1
    OverlapRecovery = FALSE
SPECIFICATION Spec
SYMMETRY Symmetry
CHECK_DEADLOCK FALSE
INVARIANT
    UnclaimedIsWhole
PROPERTIES
    VersionNamesContent
