SPECIFICATION Spec
CONSTANTS
    type = type
    inst = inst
    odd = odd
    Names <- ThreeNames
    Needs <- ThreeNeeds
    Base <- TypeBase
    Bare = {odd}
    Misquoted = {}
    Creator = c1
    Patchers = {p1, p2}
    Agents = {a1}
    Editors = {e1}
    Proposers = {q1}
    Nobody = Nobody
    Nothing = Nothing
INVARIANTS
    TypeOK
    StrictStaysClean
    PatchesKept
    ProposedClean
PROPERTIES
    ImplementsAtomicEdits
CHECK_DEADLOCK FALSE
