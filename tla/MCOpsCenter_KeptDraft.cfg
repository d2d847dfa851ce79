SPECIFICATION CenterSpec
CONSTANTS
    t1 = t1
    r1 = r1
    r2 = r2
    r3 = r3
    r4 = r4
    Tickets <- OneTicket
    Requests <- FourRequests
    Durable = TRUE
    Ops = {"stream", "approve", "modify", "claim"}
    MaxInFlight = 4
    Faults = {"store"}
    MaxFaults = 1
    MaxClicks = 4
    Intents <- MCIntents
    Scores <- MCScores
INVARIANTS
    RefusedChangesNothing
CHECK_DEADLOCK FALSE
