SPECIFICATION TrustSpec
CONSTANTS
    Authority <- MCAuthority
    Packages <- MCPackages
    Policies <- MCPolicies
    Capabilities <- MCCapabilities
    Assets <- MCAssets
    Neighbours <- MCNeighbours
    Reviews <- MCReviews
    Sources <- MCSources
    MaxEdits = 2
    MaxFiles = 3
INVARIANTS
    AuthorizedWithinAuthority
    AuthorizedAskedForNothingElse
CHECK_DEADLOCK FALSE
