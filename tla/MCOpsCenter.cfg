SPECIFICATION CenterSpec
CONSTANTS
    t1 = t1
    r1 = r1
    r2 = r2
    r3 = r3
    r4 = r4
    Tickets <- OneTicket
    Requests <- FourRequests
    Durable = TRUE
    Ops = {"stream", "approve", "modify", "claim"}
    MaxInFlight = 4
    Faults = {"node", "store", "disconnect", "crash"}
    MaxFaults = 2
    MaxClicks = 4
    Intents <- MCIntents
    Scores <- MCScores
INVARIANTS
    SessionTypeOK
    OneRunAtATime
    EscalationsAreNotApproved
    ShownIsServed
    ClosedInSessionIsClosed
PROPERTIES
    TicketsSettle
    ImplementsLifecycle
CHECK_DEADLOCK FALSE
