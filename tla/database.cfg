SPECIFICATION PartsSpec
CONSTANTS
    FaultKinds = {"dbread", "dbwrite", "crash"}
    MaxFaults = 2
    MaxVersion = 10
    References <- SchemaReferences
    Runners = {r1, r2}
    Steps = {0, 2}
    Rows = 4
    Unique = {1, 2}
    Seeders = {s1, s2}
    MaxCopies = 2
INVARIANTS
    RecordMatchesSchema
    UpMeansComplete
    NoGapUnlessCrossed
    FailsOnlyDisturbed
    DoneMeansComplete
    SeededOnceUnlessRaced
SYMMETRY AnyProcess
