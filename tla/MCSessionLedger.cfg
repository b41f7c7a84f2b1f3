SPECIFICATION LedgerSpec
CONSTANTS
    OpIds = {op1, op2}
    DecisionIds = {dec1}
    Responses = {accept, reject}
    Contexts = {ctx1}
    None = None
    Sessions = {ses1, ses2}
    Keys = {k1, k2, k3, k4, k5, k6}
    Requests = {req}
    Revisions = {0, 1, 2, 3, 4, 5}
    CriteriaRevisions = {1}
SYMMETRY Symmetry
INVARIANTS
    LedgerInv
    HistoryConsistent
PROPERTIES
    WaitingLeftOnlyByAnswer
    OpenOperationExclusive
    SettledStays
CHECK_DEADLOCK FALSE
