SPECIFICATION MCSpec
CONSTANTS
    Rules <- MCRules
    Tokens <- MCTokens
    NoValue = NoValue
    Starts = {2}
    Inputs <- MCInputs
    MaxDepth = 8
INVARIANTS
    TypeOK
    FirstSetsAreLeast
    GeneratedCodeFits
    AcceptedIsDerived
    SentencesAreAccepted
    ReadAsWritten
CHECK_DEADLOCK FALSE
