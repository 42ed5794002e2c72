SPECIFICATION Spec
CONSTANTS
    Drafters = {c1}
    Inliners = {i1}
    Texts = {fine, red}
    Red = {red}
    Base = main
    Branches = {main, stale, b1}
    Existing = {main, stale}
    Shared = Shared
    MayBeEmpty = FALSE
    MaxCommits = 3
INVARIANTS
    TypeOK
    BranchHeld
    OpenIsClean
    AnswersAreTrue
    InlineDiscarded
PROPERTIES
    SafePushes
