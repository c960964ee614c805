SPECIFICATION Spec
CONSTANTS
  Questions = {q, d}
  ImageQuestion = d
  TemperatureCommands = {warm}
  OutOfRangeCommands = {hot}
  MalformedCommands = {garbled}
  OtherCaseCommands = {hot}
  Blank = Blank
  NoQuestion = NoQuestion
  NoChat = NoChat
  ChatIds = {c1}
  FreeRequests = 1
  LiteRequests = 2
  MaxCount = 3
  ReviewAfter = 2
  MaxMessages = 4
INVARIANTS
  OneActivity
  FreeQuota
  ReplayValid
  Silence
  ConversationInTurns
  TemperatureIsLocal
  HistoryComplete
PROPERTIES
  KeepsConversation
  ReplayNotLost
