SPECIFICATION KnowledgeSpec
CONSTANTS
    InitialSnapshots <- MCSnapshots
    Claims <- MCClaims
    Records <- MCRecords
    Shas = {"sha1", "sha2"}
    MaxAuthored = 4
INVARIANTS
    AuthorizedIsEarned
    StrictValidationChains
    ContextIsLeastClosure
PROPERTIES
    CompileEnds
CHECK_DEADLOCK FALSE
