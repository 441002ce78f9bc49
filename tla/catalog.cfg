SPECIFICATION PartsSpec
CONSTANTS
    FaultKinds = {"dbwrite", "s3", "crash"}
    MaxFaults = 1
    Sellers = {ann, bob}
    Desks = {d1, d2}
    CategoryNames = {lighting}
    FileNames = {front, back}
    Statuses = {"active", "archived"}
    Drafts <- SomeDrafts
    Changes <- SomeChanges
    S3Enabled = TRUE
    MaxCategories = 1
    MaxProducts = 2
    MaxUploads = 2
    IntWidth = 12
    Sizes = {0, 1, 20, 21, 31}
    Limits = {0, 15, 101}
    Jumps = {0, 2, 3, 100, 2047}
    MaxWrites = 2
INVARIANTS
    ImagesShowTheirProduct
    PositionsInOrderUnlessRaced
    WalkShowsEachOnce
    PastTheEndIsEmpty
PROPERTIES
    SellersOwn
    CartsSeeEdits
SYMMETRY AnyDesk
