\* Governed verbs with receipts, over a knowledge store that holds them up.
SPECIFICATION LineSpec
CONSTANTS
    a = a
    b = b
    Process = {a, b}
    None = None
    Verb = {"project", "delete", "capture"}
    MaxCalls = 2
    MaxEvents = 5
    MaxFaults = 1
    Overlapping = FALSE
INVARIANTS
    LandedWriteSaysSo
CHECK_DEADLOCK FALSE
