SPECIFICATION Spec
CONSTANTS
    DI = DI
    IA = IA
    PackML = PackML
    ISA95JobControl = ISA95JobControl
    Jobs = Jobs
    Machinery = Machinery
    MachineTool = MachineTool
    Scales = Scales
    ns0 = ns0
    unbundled = unbundled
    f1 = f1
    f2 = f2
    n1 = n1
    n2 = n2
    d1 = d1
    d2 = d2
    Nobody = Nobody
    Specs <- BundledSpecs
    Uris <- KnownUris
    Requires <- RequiredModels
    Depth <- RequiredDepth
    Lists <- UpToTwo
    Order <- SortedFiles
    Models <- AllModels
    Imported <- ModelImports
    Uses <- ModelUses
    Red <- ModelsRed
    Bare <- ModelsBare
    Misquoted <- ModelsMisquoted
    Name <- ModelName
    Names = {n1, n2}
    Documents <- BundleFiles
    Cases <- AllCases
    Saved <- SomeSaves
    Unparsable = Unparsable
    Torn = Torn
    Absent = Absent
INVARIANTS
    DependenciesFirst
    OnlyBuildable
    RefusedLeaves
    DoneIsWhole
    CompilerFed
    InputsKept
CHECK_DEADLOCK FALSE
