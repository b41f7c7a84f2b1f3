SPECIFICATION EvaluateSpec
CONSTANTS
    Corpora <- MCCorpora
    Disks <- MCDisks
    CaseDirs <- MCCaseDirs
    Answers <- MCAnswers
    Options <- MCOptions
    MaxEdits = 1
    MaxRuns = 2
INVARIANTS
    SuccessesWereObserved
    ValidatesAsEmitted
    RevisedRecordIsAdmissible
PROPERTY
    EvaluationEnds
CHECK_DEADLOCK FALSE
