CONSTANTS
  MaxChanges = 6
SPECIFICATION NetSpec
INVARIANTS NetTypeOK KnowsNetwork
PROPERTY RecoversConnection
