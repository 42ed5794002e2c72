SPECIFICATION Spec
CONSTANTS
    type = type
    inst = inst
    odd = odd
    Names <- ThreeNames
    Needs <- ThreeNeeds
    Base <- TypeBase
    Bare = {}
    Misquoted = {}
    Creator = c1
    Patchers = {p1}
    Agents = {}
    Editors = {}
    Proposers = {}
    Nobody = Nobody
    Nothing = Nothing
INVARIANTS
    MutexGuarded
CHECK_DEADLOCK FALSE
