CONSTANTS
  Witnesses <- MCWitnesses
  ForkReaders = {"s1"}
  Labels = {"a", "b"}
  Heavy = {"b"}
  GetLimit = 2
  Budget = 2
  Scenarios <- MCScenarios
  MaxLen = 3
  MaxMoves = 2
  Movers = {"s1"}
SPECIFICATION Spec
CHECK_DEADLOCK FALSE
INVARIANTS
    ReadsAreSound
    VerdictIgnoresArrival
PROPERTIES
    EverySlotComesBack
