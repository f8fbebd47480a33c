CONSTANTS
    k1 = k1
    Keys = {k1, k2}
    FirstKey = k1
    Instructors = {u1}
    MaxTurns = 1
    MaxRotations = 1
    None = None
SPECIFICATION Spec
INVARIANTS StaysReadable DisclosureSound
PROPERTY ExpiryReachesLog
CHECK_DEADLOCK FALSE
