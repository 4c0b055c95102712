SPECIFICATION MatterSpec
CONSTANTS
    Nobody = Nobody
    Clients = {client}
    Requests = {p1, p2}
    MaxChecks = 1
    MaxDecisions = 2
    MoreChecks = 2
    FewDecisions = 1
    MaxEvaluations = 2
    Callers = {p1, p2}
    Answers = {a1}
    MaxSessions = 1
    MaxNames = 2
    Lawyers = {l1, l2}
    MaxRows = 2
    Candidates = {1, 2, 3}
    Weights <- FirmWeights
    WorkloadMix <- FirmWorkloadMix
    OtherMix <- FirmOtherMix
    Preferred = 2
    MinGap = 1
    WeeklyCap = 1
    MaxHours = 1
    Never = 100000
SYMMETRY Symmetry
INVARIANTS GateIsDeserved OneFirstDecision DetailsComeAfterTheCheck BorderlineIsReviewed
    AssigneeIsOfRecord NobodyBetterIsPassedOver
CHECK_DEADLOCK FALSE
