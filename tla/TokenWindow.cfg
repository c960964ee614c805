SPECIFICATION Spec
CONSTANTS
  ModelMaxTokens = 16
  AddTokens = 2
  MaxTokenSettings <- MCSettings
  ContextTokens = 32
  Sizes <- MCSizes
  MaxMessages = 6
INVARIANTS
  Budget
  QuestionSent
  LongestWindow
  PromptFits
