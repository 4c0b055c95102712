\* Two roles sign one reconciliation at the same time.
CONSTANTS
    Staff = {p1, p2}
    LastMonth = 1
    RequiredRoles = {"bookkeeper", "lawyer"}
    MaxStatements = 2
    MaxRecons = 2
    MaxEntries = 1
SPECIFICATION Spec
INVARIANT
    FullySignedIsClosed
CHECK_DEADLOCK FALSE
