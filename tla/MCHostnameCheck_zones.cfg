SPECIFICATION Spec
CONSTANTS
    h1 = h1
    h2 = h2
    n1 = n1
    n2 = n2
    n3 = n3
    other = other
    x = x
    y = y
    z = z
    Self = Self
    Hostnames = {h1, h2}
    NoHost = NoHost
    Names = {n1, n2, n3}
    NoName = NoName
    Label <- MCLabel
    Zones <- MCZones
    Requests = {r1, r2, r3}
    Junk = Junk
    MaxLinks = 1
    MaxEndpoints = 2
    FreshFor = 0
    MaxClock = 1
    MaxEdits = 1
CHECK_DEADLOCK FALSE
INVARIANTS
    ZonesAreReadTruly
    BackgroundIsQuiet
PROPERTIES
    FailedChecksOverwriteNothing
    RefreshEnds
