CONSTANTS
  Wallets = {"wallet"}
  Servers = {"server"}
  Process = {"node"}
  Indexed = {"node"}
  ProcessOf <- MCProcessOf
  Tags = {"a", "b"}
  MaxLen = 3
  MaxCrashes = 0
  Truncating = FALSE
SPECIFICATION Spec
PROPERTIES
  NeverOverwrittenByAnyone
