SPECIFICATION TimeFairSpec
CONSTANTS
  Offsets <- MCOffsets
  NoDifference = NoDifference
  QuickRetries = 5
  MaxActivations = 3
INVARIANTS
  RetryNeverLost
  OneChainPerActivation
PROPERTIES
  EventuallySynchronised
