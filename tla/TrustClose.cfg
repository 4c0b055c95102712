\* Two requests at a time over two months.
CONSTANTS
    Staff = {p1, p2}
    LastMonth = 2
    RequiredRoles = {"bookkeeper", "lawyer"}
    MaxStatements = 2
    MaxRecons = 2
    MaxEntries = 1
SPECIFICATION Spec
SYMMETRY StaffSymmetry
INVARIANTS
    ClosesFullySigned
PROPERTY
    ImplementsMonthBook
CHECK_DEADLOCK FALSE
