SPECIFICATION Spec
CONSTANTS
    Drafts = {d1}
    Files = {f1, f2}
    Landing = f1
    First = d1
    MaxEdits = 0
    MaxCalls = 3
    MaxMishaps = 1
    Failing = {}
    Nothing = Nothing
INVARIANTS
    ShownIsStored
