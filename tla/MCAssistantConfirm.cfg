SPECIFICATION AssistantSpec
CONSTANTS
    Appts = {a1}
    Requests = {r1, q1, q2}
    Confirms = {q1, q2}
    Passes = {p1}
    Times = {1, 2}
    VisitLength = 0
    BatchLimit = 1
    MaxEdits = 3
    MaxFaults = 0
    MaxTime = 1
    Tokens = {t1}
    Life = 0
    Columns = {name, remark}
    Required = {name}
    Texts = {x}
    Null = Null
    Blank = Blank
    Unsaid = Unsaid
    MaxProfileEdits = 1
CHECK_DEADLOCK FALSE
SYMMETRY Symmetry
PROPERTIES ActsAsStaff ConfirmedOnly
