SPECIFICATION FairSpec
CONSTANTS
    Requests = {r1, r2}
    Users = {u1, u2}
    Keys = {k1, k2}
    UserOf <- UserOfKey
    k1 = k1
    k2 = k2
    u1 = u1
    u2 = u2
    Window = 2
    PerUser = 1
    PerOrg = 1
    MaxJobs = 1
    MonthRequests = 1
    MaxToolRounds = 1
    MaxToolCalls = 1
    MaxTime = 2
    MaxStarts = 3
CHECK_DEADLOCK FALSE
INVARIANTS TypeOK AdmissionsBounded SlotsMatch BudgetOverrun
PROPERTY RequestsEnd
