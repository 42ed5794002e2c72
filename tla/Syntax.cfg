SPECIFICATION Spec
CONSTANTS
    Saved <- Files
    Fragments <- NewDeclarations
    Depth = 8
    MaxSteps = 3
    Unsafe <- UnsafeStrings
    Quotable <- QuotableStrings
    Cleaned <- CleanedStrings
    Suffixed <- Placeholders
    Prefixed <- References
    Bools <- Booleans
    Ints <- Numbers
    Builtin = {"Double", "String"}
    Verbatim = {"Double"}
    NoModel = NoModel
INVARIANTS
    FormatKeeps
CHECK_DEADLOCK FALSE
