SPECIFICATION SpecParts
CONSTANTS
    Kinds = {"local", "query", "message", "functor", "foreign", "constant", "enum", "import", "database", "inline", "clause"}
    MaxArity = 2
    MaxNesting = 1
INVARIANTS
    TokensExact
    GrammarExact
    NamesResolve
    TypesAgree
    TypingComplete
PROPERTIES
    Terminates
CHECK_DEADLOCK FALSE
