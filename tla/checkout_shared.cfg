SPECIFICATION Spec
CONSTANTS
    FaultKinds = {"dbread", "dbwrite", "crash"}
    MaxFaults = 1
    MaxOrders = 2
    Users = {"alice"}
    MaxMsgs = 0
    MaxReceive = 1
    SqsEnabled = FALSE
    Products = {"p1"}
    Statuses = {"active", "archived"}
    FirstListing <- Listed
    Edits <- NoEdits
    Deletions = {"p1"}
    Tabs = {"t1", "t2"}
    TabUser <- OneTab
    Quantities <- Asked
    MaxRows = 2
    MaxAdded = 3
    PayReqs = {}
    Hooks = {}
    MaxLinks = 0
    Slips = {0}
    Workers = {}
    MaxBatch = 1
    Undeliverable = {}
INVARIANTS
    TypeOK
    BilledForAdded
    LostOnlyIfLate
CHECK_DEADLOCK FALSE
