\* Migrations and rollbacks, interrupted anywhere and repeated.
CONSTANTS
    Operator = {m, r}
    NoOperator = NoOperator
    Limit = 1
    Wide = 2
    Interval = 2
    MaxEvents = 3
    MaxFaults = 2
    Overlapping = FALSE
    AppendsBetween = FALSE
SPECIFICATION FairSpec
INVARIANTS
    OutcomeIsTrue
PROPERTIES
    ImplementsEventChain
    BackupIsResolved
