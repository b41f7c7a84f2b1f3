SPECIFICATION Spec
CONSTANTS
    w1 = w1
    Processes = {p1, p2}
    Envelopes <- MCEnvelopes
    Heads = {"base", "unresolved"}
    Completions = {"completed"}
    MaxCalls = 3
    MaxChanges = 1
SYMMETRY Symmetry
INVARIANTS
    RunsBindRequests
    FactsAreReachable
    CompletedIsEvidenced
PROPERTIES
    InspectionAdvances
CHECK_DEADLOCK FALSE
