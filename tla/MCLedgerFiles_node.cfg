CONSTANTS
  Wallets = {"wallet"}
  Servers = {"server"}
  Process = {"node"}
  Indexed = {"node"}
  ProcessOf <- MCProcessOf
  Tags = {"a", "b"}
  MaxLen = 3
  MaxCrashes = 1
  Truncating = TRUE
SPECIFICATION FairSpec
CHECK_DEADLOCK FALSE
INVARIANTS
  AppendsAreDurable
PROPERTIES
  NeverOverwritten
  LocksDrain
