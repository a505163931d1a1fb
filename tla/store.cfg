\* The files of a workspace under crashes, failed writes and a rebuild without the lease.
CONSTANTS
    Limit = 2
    Interval = 2
    Sizes = {1, 2}
    MaxBatch = 2
    MaxEvents = 3
    Views = 1
    MaxRebuilds = 1
    MaxFaults = 2
    Settings = {FALSE}
    Overlapped = {2}
SPECIFICATION Spec
INVARIANTS
    CheckpointsAreSound
    ReportedIsDerived
PROPERTY
    ImplementsEventChain
