SPECIFICATION Spec
CONSTANTS
    a = a
    b = b
    c = c
    ada = ada
    bob = bob
    node = node
    cmd = cmd
    tool = tool
    app = app
    Configs <- MCConfigs
    Workloads <- MCWorkloads
    NodeFiles = {n1, n2}
    Kept = 2
    NewIds = {1, 2, 3}
    Now = 1
    MaxHints = 2
    HintMaxAge = 1
    MaxFailures = 2
INVARIANTS
    HomeHolds
    CrawlsAreWhole
    
