CONSTANTS
  ChatIds = {c1, c2}
  NoChat = NoChat
  MaxSaid = 6
  MaxClock = 6
  MaxSetBacks = 2
SPECIFICATION Spec
INVARIANT TypeOK
PROPERTIES LossNeedsSetBack ArchiveUntilSetBack
