SPECIFICATION Spec
CONSTANTS
    ses1 = ses1
    dec1 = dec1
    accept = accept
    ctx1 = ctx1
    ctx2 = ctx2
    kStart = kStart
    kResume = kResume
    kAsk = kAsk
    kAnswer = kAnswer
    kCancel = kCancel
    OpIds = {op1}
    DecisionIds = {dec1}
    Responses = {accept}
    Contexts = {ctx1, ctx2}
    CriteriaRevisions = {}
    None = None
    Sessions = {ses1, ses2}
    Keys = {kStart, kResume, kAsk, kAnswer, kCancel, p1, p2}
    Requests <- MCRequests
    Revisions = {0, 1, 2, 3, 4, 5}
    Callers = {alice, bob}
    Submissions <- MCSubmissions
    PatchKeys = {p1, p2}
    MaxCalls = 5
SYMMETRY Symmetry
INVARIANTS
    AnswersAreCommitted
    TransitionRetriesReturnOriginal
    AdvertisedIsExecutable
PROPERTIES
    AnswerBindsContext
CHECK_DEADLOCK FALSE
