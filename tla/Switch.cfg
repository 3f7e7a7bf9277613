SPECIFICATION FairSpec
CONSTANTS
    Mover = m
    Joiner = {m, f}
    Settled = {m}
    Code = {c1}
    Row = {r1, r2}
    MaxDials = 2
    MaxRuns = 2
    MaxFaults = 2
INVARIANTS TypeOK InvitationServesOne PromisedRowsRecoverable CommittedRowsMoved
PROPERTIES ImplementsMembership HandshakeEnds MigrationFinishes
ACTION_CONSTRAINT Apart
CHECK_DEADLOCK FALSE
