SPECIFICATION Spec
CONSTANTS
    p1 = p1
    p2 = p2
    w1 = w1
    owner = owner
PROPERTIES UnansweredReachesOwners RepliesAreWatched ChaseComesToALawyer ForgottenWorkIsTold CourtMailReachesOwners
CHECK_DEADLOCK FALSE
