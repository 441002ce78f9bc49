SPECIFICATION ListingSpec
CONSTANTS
    IntWidth = 12
    Sizes = {120}
    Limits = {20, 101}
    Jumps = {}
    MaxWrites = 0
PROPERTY PagesHoldLimit
