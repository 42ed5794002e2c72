SPECIFICATION Spec
CONSTANTS
    Drafts = {d1, d2}
    Files = {f1, f2}
    Landing = f1
    First = d1
    MaxEdits = 2
    MaxCalls = 3
    MaxMishaps = 2
    Failing = {"load", "put", "create", "propose"}
    Nothing = Nothing
INVARIANTS
    TypeOK
    PatientSeesStored
    OwnText
    OwnEditsKept
    TimelyUndoRestores
    ProposedIsFinal
    SavingIsTrue
