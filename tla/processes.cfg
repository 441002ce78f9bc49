SPECIFICATION PartsSpec
CONSTANTS
    FaultKinds = {"dbread", "dbwrite", "receive", "delete", "crash", "signal", "foreign", "client", "listen"}
    MaxFaults = 4
    OrderFaults = 1
    MaxOrders = 1
    Users = {"alice"}
    MaxMsgs = 2
    MaxReceive = 2
    SqsEnabled = TRUE
    Products = {"p1"}
    Statuses = {"active", "archived"}
    FirstListing <- Listed
    Edits <- NoEdits
    Deletions = {}
    Tabs = {"t1"}
    TabUser <- OneTab
    Quantities = {1}
    MaxRows = 1
    MaxAdded = 1
    PayReqs = {"c1"}
    Hooks = {"h1"}
    MaxLinks = 1
    Slips = {0}
    Workers = {"w1"}
    MaxBatch = 2
    Undeliverable = {"alice"}
    Required = {dsn, secret}
    Optional = {s3, sqs}
    Connections = {c1, c2, c3}
INVARIANT StopsWithNothingInHand
PROPERTIES
    PaidGetsConfirmed
    QueueDrains
    ShutdownEnds
    SignalEnds
    StartsWithoutOptional
