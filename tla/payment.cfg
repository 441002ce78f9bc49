SPECIFICATION FairSpec
CONSTANTS
    FaultKinds = {"dbwrite", "reply", "crash", "ping", "payos"}
    MaxFaults = 3
    MaxOrders = 1
    Users = {"alice"}
    MaxMsgs = 3
    MaxReceive = 1
    SqsEnabled = TRUE
    Products = {"p1"}
    Statuses = {"active", "archived"}
    FirstListing <- Listed
    Edits <- NoEdits
    Deletions = {}
    Tabs = {"t1"}
    TabUser <- OneTab
    Quantities = {1, 2}
    MaxRows = 1
    MaxAdded = 1
    PayReqs = {"c1"}
    Hooks = {"h1", "h2"}
    MaxLinks = 2
    Slips = {0, 1}
    Workers = {}
    MaxBatch = 1
    Undeliverable = {}
INVARIANTS
    PaidOnlyIfSettled
    PaidAmountCoversItems
    AckedMeansPaid
    AckedMeansTold
PROPERTIES
    SettledGetsPaid
CHECK_DEADLOCK FALSE
