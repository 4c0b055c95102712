\* One lawyer opens a matter to which a party was added after its check.
CONSTANTS
    Items = {"trust_ledger"}
    Runners = {p1, p2}
    MaxAttempts = 2
    MaxRetries = 1
SPECIFICATION Spec
INVARIANT RecheckIsAskedFor
CHECK_DEADLOCK FALSE
