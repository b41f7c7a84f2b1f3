SPECIFICATION QualificationSpec
CONSTANTS
    Implementations = {"k1", "k2"}
    Policies = {"p"}
    Suites <- MCSuites
    Outcomes <- MCOutcomes
    Rank <- MCRank
    Requirements <- MCRequirements
    StrayProfiles <- MCStrayProfiles
    StraySnapshots <- MCStraySnapshots
    CurrentnessHours = 1
    MaxTime = 2
    MaxFiles = 2
INVARIANTS
    SelectionRestsOnCampaign
    SelectionIgnoresProfileOrder
CHECK_DEADLOCK FALSE
