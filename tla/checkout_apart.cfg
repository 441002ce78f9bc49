SPECIFICATION Spec
CONSTANTS
    FaultKinds = {"publish"}
    MaxFaults = 1
    MaxOrders = 2
    Users = {"alice", "bob"}
    MaxMsgs = 2
    MaxReceive = 1
    SqsEnabled = TRUE
    Products = {"p1"}
    Statuses = {"active", "archived"}
    FirstListing <- Listed
    Edits <- Reprice
    Deletions = {}
    Tabs = {"t1", "t2"}
    TabUser <- TabPerUser
    Quantities <- Asked
    MaxRows = 2
    MaxAdded = 3
    PayReqs = {}
    Hooks = {}
    MaxLinks = 0
    Slips = {0}
    Workers = {}
    MaxBatch = 1
    Undeliverable = {}
INVARIANTS
    OneRowPerProduct
    PlacedEventOnce
PROPERTY OrdersAtomically
CHECK_DEADLOCK FALSE
