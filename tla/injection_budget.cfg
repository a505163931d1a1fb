\* Violated: what the hook delivers is never counted against the session's budget.
SPECIFICATION InjectSpec
CONSTANTS
    g = g
    h = h
    s = s
    c = c
    d = d
    Hook = {g, h}
    Session = {s}
    Card = {c, d}
    Mode = {"pending"}
    Budget = 1
    MaxPrompts = 3
    MaxFaults = 1
    Parallel = FALSE
    Contended = FALSE
INVARIANT WithinBudget
CHECK_DEADLOCK FALSE
