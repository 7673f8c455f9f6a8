SPECIFICATION Spec
CONSTANTS
    Clients = {c1}
    Bills = {b1, b2}
    Payments = {p1, p2}
    Workers = {w1, w2}
    NoBill = NoBill
    NoPayment = NoPayment
    Units = 2
    Included = 1
    MaxAdjust = 1
    MaxSends = 1
SYMMETRY Symmetry
INVARIANTS
    TypeOK
    VerifiedFulfils
    CreditsBacked
    ApprovedHasBill
