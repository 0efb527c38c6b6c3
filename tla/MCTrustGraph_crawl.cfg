SPECIFICATION Spec
CONSTANTS
    e = e
    NoEndpoint = NoEndpoint
    Ids = {1, 2, 3, 4}
    Rank <- MCRank
    Serves <- MCServes
    Options <- MCOptions
    RootSets = {{}, {1}, {1, 3}, {2, 4}}
    MinDepth = 1
    MaxDepth = 3
    InFlight = 2
    MaxPaths = 1
    PageSizes = {1, 2}
INVARIANTS
    GenerationIsHonest
    LookupsMatchTheGraph
