SPECIFICATION PartsSpec
CONSTANTS
    FaultKinds = {"dbread", "dbwrite", "sms", "email", "crash"}
    MaxFaults = 2
    Emails = {eve}
    Calls = {c1, c2}
    MaxTokens = 3
    MaxCodes = 1
    People = {ann, bob}
    Forms = {f1, f2}
    MaxAddresses = 3
INVARIANTS
    OneLiveUnlessRaced
    SpentOnceUnlessRaced
    EndedUnlessOvertaken
    RolesAreEarned
    OneDefaultUnlessContested
    ChosenStands
PROPERTIES
    OwnersOnly
SYMMETRY AnyRequest
CHECK_DEADLOCK FALSE
