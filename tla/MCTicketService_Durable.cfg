SPECIFICATION Spec
CONSTANTS
    t1 = t1
    r1 = r1
    r2 = r2
    r3 = r3
    r4 = r4
    Tickets <- MCTickets
    Requests <- ThreeRequests
    Durable = TRUE
    Ops = {"stream", "get", "approve", "modify"}
    MaxInFlight = 3
    Faults = {"node", "store", "disconnect", "crash"}
    MaxFaults = 1
    Intents <- MCIntents
    Scores <- MCScores
INVARIANTS
    VerdictMatchesState
    DoneIsReviewedAtLast
SYMMETRY Symmetry
CHECK_DEADLOCK FALSE
