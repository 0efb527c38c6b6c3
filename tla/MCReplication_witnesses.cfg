SPECIFICATION FairSpec
CONSTANTS
    h1 = h1
    h2 = h2
    w1 = w1
    w2 = w2
    Homes = {h1, h2}
    WitnessLists <- OneOrTwo
    MaxLen = 3
    MaxFailures = 1
    MaxPushEvents = 2
INVARIANTS
  AppendsAreInformed
PROPERTIES
    Agrees
    LosingARaceIsARetry
