SPECIFICATION Spec
CONSTANTS
    FaultKinds = {"email"}
    MaxFaults = 1
    MaxOrders = 1
    Users = {"alice"}
    MaxMsgs = 2
    MaxReceive = 2
    SqsEnabled = TRUE
    Products = {"p1"}
    Statuses = {"active", "archived"}
    FirstListing <- Listed
    Edits <- NoEdits
    Deletions = {}
    Tabs = {"t1"}
    TabUser <- OneTab
    Quantities = {1}
    MaxRows = 1
    MaxAdded = 1
    PayReqs = {"c1"}
    Hooks = {"h1"}
    MaxLinks = 1
    Slips = {0}
    Workers = {"w1"}
    MaxBatch = 1
    Undeliverable = {}
INVARIANTS
    DeletedMeansMailed
CHECK_DEADLOCK FALSE
