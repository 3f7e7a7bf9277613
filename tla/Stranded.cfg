SPECIFICATION Spec
CONSTANTS
    Mover = m
    Joiner = {m}
    Settled = {m}
    Code = {c1}
    Row = {r1}
    MaxDials = 1
    MaxRuns = 1
    MaxFaults = 1
INVARIANT AbandonLosesNothing
ACTION_CONSTRAINT InTurn
CHECK_DEADLOCK FALSE
