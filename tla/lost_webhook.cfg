SPECIFICATION Spec
CONSTANTS
    FaultKinds = {"dbread"}
    MaxFaults = 1
    MaxOrders = 1
    Users = {"alice"}
    MaxMsgs = 0
    MaxReceive = 1
    SqsEnabled = FALSE
    Products = {"p1"}
    Statuses = {"active", "archived"}
    FirstListing <- Listed
    Edits <- NoEdits
    Deletions = {}
    Tabs = {"t1"}
    TabUser <- OneTab
    Quantities = {1}
    MaxRows = 1
    MaxAdded = 1
    PayReqs = {"c1"}
    Hooks = {"h1"}
    MaxLinks = 1
    Slips = {0}
    Workers = {}
    MaxBatch = 1
    Undeliverable = {}
INVARIANTS
    AckedMeansPaid
CHECK_DEADLOCK FALSE
