\* Requests that verify, change and close a date, and the worker's scans among them.
SPECIFICATION Spec
CONSTANTS
    Requests = {p1, p2}
    Lawyers = {ann, ben}
    Trained = {cid}
    Dates = {1, 2}
    Outcomes = {"satisfied"}
    Thresholds = {}
    Nobody = Nobody
    LastDay = 2
    MaxRows = 1
    MaxVersion = 2
    MaxVerifications = 1
INVARIANTS VerifiedIndependently ChangesAreTheHistory
CHECK_DEADLOCK FALSE
