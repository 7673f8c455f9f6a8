SPECIFICATION Spec
CONSTANTS
    Slots = {s1}
    Holds = {h1, h2}
    Appts = {a1, a2}
    Requests = {r1, r2}
    NoHold = NoHold
    HoldTtl = 1
    MaxOtpAttempts = 2
    MaxPinFailures = 1
    MaxTime = 2
SYMMETRY Symmetry
INVARIANTS
    TypeOK
    OtpBookingsExclusive
    HoldsAndBookingsAgree
    PinLockoutBounded
PROPERTY
    ImplementsSlotBook
