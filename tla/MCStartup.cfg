SPECIFICATION Spec
CONSTANTS
    t1 = t1
    t2 = t2
    Tickets <- MCTickets
    Persist = TRUE
    MaxEvents = 4
INVARIANTS
    TypeOK
    RecordsHaveThreads
PROPERTIES
    Boots
    ModelRecovers
