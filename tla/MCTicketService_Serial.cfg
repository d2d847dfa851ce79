SPECIFICATION Spec
CONSTANTS
    t1 = t1
    r1 = r1
    r2 = r2
    r3 = r3
    r4 = r4
    Tickets <- MCTickets
    Requests <- FourRequests
    Durable = TRUE
    Ops = {"stream", "get", "approve", "modify", "claim"}
    MaxInFlight = 1
    Faults = {"node", "store", "disconnect", "crash"}
    MaxFaults = 2
    Intents <- MCIntents
    Scores <- MCScores
INVARIANTS
    DoneCanBeReplayed
PROPERTIES
    DoneFrameIsTerminal
    LogsAppendOnly
SYMMETRY Symmetry
CHECK_DEADLOCK FALSE
