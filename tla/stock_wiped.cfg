SPECIFICATION PartsSpec
CONSTANTS
    FaultKinds = {}
    MaxFaults = 0
    Sellers = {ann}
    Desks = {d1}
    CategoryNames = {lighting}
    FileNames = {front}
    Statuses = {"active", "archived"}
    Drafts <- SomeDrafts
    Changes <- SomeChanges
    S3Enabled = FALSE
    MaxCategories = 1
    MaxProducts = 1
    MaxUploads = 0
    IntWidth = 12
    Sizes = {0}
    Limits = {0}
    Jumps = {}
    MaxWrites = 0
PROPERTY StockKeptUnlessGiven
