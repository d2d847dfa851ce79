SPECIFICATION Spec
CONSTANTS
    t1 = t1
    r1 = r1
    r2 = r2
    r3 = r3
    r4 = r4
    Tickets <- MCTickets
    Requests <- TwoRequests
    Durable = TRUE
    Ops = {"stream", "approve"}
    MaxInFlight = 2
    Faults = {}
    MaxFaults = 0
    Intents <- MCIntents
    Scores <- MCScores
PROPERTIES
    ApprovalSticks
CHECK_DEADLOCK FALSE
