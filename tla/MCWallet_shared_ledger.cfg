SPECIFICATION Spec
CONSTANTS
  Homes = {"h1", "h2"}
  Witnesses <- MCWitnesses
  Identities = {"a", "b"}
  HomeOf <- MCHomeOf
  Founder = "a"
  Ledger = "ledger"
  Clis = {"h1"}
  Values = {"v"}
  BundleCap = 3
  Settings <- MCSettings
CHECK_DEADLOCK FALSE
INVARIANTS
  ChainsFollowTheKeys
    InvitationsAreSound
PROPERTIES
    NewChainsDecideTheLink
