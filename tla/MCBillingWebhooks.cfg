SPECIFICATION Spec
CONSTANTS
    Subs = {s1, s2}
    Orders = {o1, o2}
    Workers = {w1, w2}
    Requests = {r1}
    NoSub = NoSub
    NoOrder = NoOrder
    MaxPlan = 2
    Price <- PriceOf
    Offers <- AcrossIntervals
    Reported = {"active", "past_due", "cancelled", "expired"}
    LeftOut = {"variant", "ends"}
    Included <- IncludedOf
    Units = 1
    MaxEvents = 2
    MaxMonth = 1
    MaxFaults = 1
    MaxUsed = 1
CHECK_DEADLOCK FALSE
SYMMETRY Symmetry
INVARIANTS TypeOK AddonBacked PendingWaits OrderlyIsFaithful
PROPERTIES ImplementsInbox IncludedNeverFalls
