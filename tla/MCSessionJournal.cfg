SPECIFICATION Spec
CONSTANTS
    OpIds = {op1}
    DecisionIds = {dec1}
    Responses = {accept}
    Contexts = {ctx1}
    CriteriaRevisions = {}
    None = None
    Sessions = {ses1, ses2}
    Keys = {k1, k2, k3, k4}
    Requests = {req1, req2}
    Revisions = {0, 1, 2, 3}
    MaxFaults = 1
SYMMETRY Symmetry
INVARIANTS
    ReplayReproducesHead
    TamperIsEvident
    RetryIsFaithful
    RestartIsConservative
PROPERTIES
    ImplementsLedger
CHECK_DEADLOCK FALSE
