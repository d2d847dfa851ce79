SPECIFICATION Spec
CONSTANTS
    t1 = t1
    r1 = r1
    r2 = r2
    r3 = r3
    r4 = r4
    Tickets <- MCTickets
    Requests <- ThreeRequests
    Durable = FALSE
    Ops = {"stream", "get", "approve", "modify", "claim"}
    MaxInFlight = 3
    Faults = {"node", "disconnect", "crash"}
    MaxFaults = 2
    Intents <- MCIntents
    Scores <- MCScores
INVARIANTS
    RunningIsOwned
    ClosedIsApproved
PROPERTIES
    ApprovalSticks
SYMMETRY Symmetry
CHECK_DEADLOCK FALSE
