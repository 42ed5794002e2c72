SPECIFICATION Spec
CONSTANTS
    type = type
    inst = inst
    odd = odd
    Names <- ThreeNames
    Needs <- ThreeNeeds
    Base <- TypeBase
    Bare = {odd}
    Misquoted = {}
    Creator = c1
    Patchers = {p1}
    Agents = {}
    Editors = {}
    Proposers = {}
    Nobody = Nobody
    Nothing = Nothing
INVARIANTS
    GateHolds
CHECK_DEADLOCK FALSE
