CONSTANTS
    Reminders = {m1}
    Events = {e1, e2}
    Workers = {w1, w2}
    NoRow = NoRow
    Automation = Automation
    Credits = 2
    DailyLimit = 2

SYMMETRY Symmetry
SPECIFICATION Spec
INVARIANTS TypeOK ChargesBacked FailuresFollowedUp SentOnceInSequence
PROPERTY ImplementsMessageLife
CHECK_DEADLOCK FALSE
