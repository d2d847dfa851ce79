SPECIFICATION Spec
CONSTANTS
    a1 = a1
    a2 = a2
    r1 = r1
    r2 = r2
    r3 = r3
    r4 = r4
    Addresses <- MCAddresses
    Requests <- MCRequests
    PerMin = 2
    KeyRequired = TRUE
    Delays = {15}
    MaxTime = 60
INVARIANTS
    TypeOK
    RateIsBounded
PROPERTIES
    RejectionIsRecent
SYMMETRY Symmetry
CHECK_DEADLOCK FALSE
