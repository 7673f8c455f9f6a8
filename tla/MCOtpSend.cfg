CONSTANTS
    Holds = {h1}
    Requests = {r1, r2}
    Cooldown = 2
    ReuseWindow = 1
    MaxSends = 2
    Limit <- MCLimit
    Window <- MCWindow
    Slack <- MCSlack
    Included = 1
    AddonUnits = 2
    MaxGranted = 3
    MaxRows = 3
    MaxSent = 3
    MaxTime = 2

SYMMETRY Symmetry
SPECIFICATION Spec
INVARIANTS TypeOK RollingLimitBounded NeverOvercharged SequentialSendsLimited
CHECK_DEADLOCK FALSE
