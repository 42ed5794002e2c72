SPECIFICATION Spec
CONSTANTS
    Specs <- MCSpecs
    Builtin <- MCBuiltin
    Numeric <- MCNumeric
    Units <- MCUnits
    Seeds <- MCSeeds
    SomeImports <- MCImports
    SomeEnums <- MCEnums
    SomeTypes <- MCTypes
    SomeInstances <- MCInstances
    SomePerspectives <- MCPerspectives
    SomeHeaders <- MCHeaders
    MaxEdits = 2
INVARIANTS ChainsJudged JudgedAlike LevelsDescend OutputsClose DiffHonest
CHECK_DEADLOCK FALSE
