SPECIFICATION Spec
CONSTANTS
    ses1 = ses1
    op1 = op1
    op2 = op2
    f1 = f1
    f2 = f2
    old = old
    new = new
    kPatch = kPatch
    kPatch2 = kPatch2
    d1 = d1
    d2 = d2
    d3 = d3
    OpIds = {op1, op2}
    DecisionIds = {}
    Responses = {}
    Contexts = {}
    CriteriaRevisions = {}
    None = None
    Sessions = {ses1}
    Keys = {kPatch, kPatch2, o1, o2, w1, w2}
    Requests <- MCRequests
    Revisions = {0, 1, 2, 3, 4, 5}
    Handlers = {h1, h2}
    Patches <- MCPatches
    Digests = {d1, d2, d3}
    FreshKeys = {o1, o2}
    WorkflowKeys = {w1, w2}
    Files = {f1, f2}
    Bytes = {old, new}
    InitialDisk <- MCDisk
    MaxCalls = 3
    MaxEdits = 1
SYMMETRY Symmetry
INVARIANTS
    OkReplyIsSettled
    DiskFollowsJournal
PROPERTIES
    IntentPrecedesEffect
CHECK_DEADLOCK FALSE
