SPECIFICATION IntakeSpec
CONSTANTS
    p1 = p1
    p2 = p2
    w1 = w1
    w2 = w2
    owner = owner
    lawyer = lawyer
    Requests = {p1, p2}
    Workers = {w1, w2}
    Steps = 2
INVARIANT SentOnceInOrder
PROPERTIES AlertsClimbUntilTaken HoldsAreGivenBack MailIsSeenThrough ApprovalsAreFollowed
CHECK_DEADLOCK FALSE
