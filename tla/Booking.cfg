\* Two people's requests, or one and the worker's tick, side by side.
SPECIFICATION Spec
CONSTANTS
    Requests = {p1, p2}
    Sessions = {s1}
    Lawyers = {l1}
    Slots = {2, 3, 4}
    Span = 2
    Lead = 1
    HoldTime = 1
    ReminderAhead = 1
    Grace = 0
    RebookOffers = TRUE
    LastTime = 2
    MaxConsults = 2
PROPERTIES InTimeNeverDoubleBooked BookingsAreConsistent
CHECK_DEADLOCK FALSE
