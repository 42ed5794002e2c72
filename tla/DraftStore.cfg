SPECIFICATION FairSpec
CONSTANTS
    DraftIds = {d1, d2, d3, d4}
    TTL = 2
    Interval = 2
    MaxDrafts = 3
INVARIANTS
    TypeOK
    Bounded
    IdleBounded
PROPERTIES
    LossJustified
    ExpiredGoFirst
    Reclaimed
