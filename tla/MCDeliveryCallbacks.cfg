SPECIFICATION Spec
CONSTANTS
    Messages = {m1, m2}
    Claimed = {m1}
    Customers = {c1, c2}
    Workers = {w1, w2}
    Stops = {s1, s2}
    MaxReports = 2
    MaxFaults = 1
CHECK_DEADLOCK FALSE
SYMMETRY Symmetry
CONSTRAINT OneOfTheTwo
INVARIANTS TypeOK FinalStatusHolds OptOutHolds
PROPERTY ImplementsInbox
