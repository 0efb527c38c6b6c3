SPECIFICATION Spec
CONSTANTS
    w = w
    a = a
    t = t
    here = here
    elsewhere = elsewhere
    Settings <- MCSettings
    Adopters = {"adopter"}
    MaxLen = 3
    MaxEndpointChanges = 1
INVARIANTS
    UsedIsExact
    AdmissionFollowsThePolicy
    ForkRecordsHold
PROPERTIES
    FirstSeenWins
    PushesStayWithinCaps
