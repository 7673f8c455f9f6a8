CONSTANTS
    Reminders = {m1}
    Events = {e1}
    Workers = {w1}
    NoRow = NoRow
    Automation = Automation
    Credits = 2
    DailyLimit = 2

SPECIFICATION Spec
INVARIANTS ConfirmedFailuresVisible
CHECK_DEADLOCK FALSE
