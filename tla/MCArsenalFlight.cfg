SPECIFICATION FlightSpec
CONSTANTS
    r1 = r1
    r2 = r2
    Runners = {r1, r2}
    Outputs = {"flight.json"}
    Instances = {"i1"}
    Shas = {"sha1"}
    InitialPack <- MCPack
    InitialPolicy <- MCPolicy
    InitialBench <- MCBench
    Packs <- MCPacks
    Policies <- MCPolicies
    DaggerVersions = {"0.21.7", "0.22.0"}
    Benches <- MCBenches
    MaxChanges = 1
    MaxFiles = 1
SYMMETRY Symmetry
INVARIANTS
    SelectionIsLowestSufficient
    VerifiedReceiptObserved
    VerifiedRecordReproduces
CHECK_DEADLOCK FALSE
