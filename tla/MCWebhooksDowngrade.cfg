SPECIFICATION Spec
CONSTANTS
    Subs = {s1}
    Orders = {o1}
    Workers = {w1}
    Requests = {r1}
    NoSub = NoSub
    NoOrder = NoOrder
    MaxPlan = 2
    Price <- PriceOf
    Offers <- OneInterval
    Reported = {"active"}
    LeftOut = {"period"}
    Included <- IncludedOf
    Units = 1
    MaxEvents = 3
    MaxMonth = 1
    MaxFaults = 0
    MaxUsed = 0
CHECK_DEADLOCK FALSE
INVARIANT DowngradeTakesEffect
