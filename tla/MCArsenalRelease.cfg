SPECIFICATION ReleaseSpec
CONSTANTS
    Targets <- MCTargets
    Registry <- MCRegistry
    SoftLimit = 3
    Routes <- MCRoutes
    LocalSuiteAsset <- MCLocalSuiteAsset
    InitialTree <- MCInitialTree
    Documents <- MCDocuments
    Contents <- MCContents
    Plans <- MCPlans
    Projects <- MCProjects
    SuiteSets <- MCSuiteSets
    Graph <- MCGraph
    Requests <- MCRequests
    MaxEdits = 2
INVARIANTS
    VerifiedReceiptsReproduce
    UndisturbedBuildVerifies
    QualifiedIsUnreachable
    LockPreflightIsCurrent
CHECK_DEADLOCK FALSE
