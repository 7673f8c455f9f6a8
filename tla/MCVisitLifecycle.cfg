SPECIFICATION FairSpec
CONSTANTS
    Appts = {a1, a2}
    Requests = {r1}
    Passes = {p1, p2}
    Times = {0, 1}
    VisitLength = 1
    BatchLimit = 2
    MaxEdits = 3
    MaxFaults = 1
    MaxTime = 2
INVARIANTS
    TypeOK
    VisitsAccounted
    CountNotInflated
PROPERTIES
    NoVisitForCancelled
    DueRowsSettle
