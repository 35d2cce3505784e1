SPECIFICATION Spec
CONSTANTS
  Conv = {c1, c2}
  Stored = {c1}
  Prompt = {p1, p2}
  None = None
  Budgets <- ChatBudgets
  MaxWire = 2
SYMMETRY PromptsAlike
INVARIANTS
  NothingForeign
  PromptsGoHome
  RunningIsTrue
  SheetIsTrue
  TranscriptIsWhole
  RepliesOnce
CHECK_DEADLOCK FALSE
