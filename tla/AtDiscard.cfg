SPECIFICATION Spec
CONSTANTS
  EditorLines = 4
  UndoDepth = 2
  PendSize = 4
  PatternSize = 3
  Typed <- MCTyped
  Templates <- MCTemplates
  TemplateSize = 3
  Titles <- MCTitles
  FileOf <- MCFileOf
  Kept <- MCKept
  Filters <- MCFilters
  MaxCases = 3
  DescSize = 4
  Keys <- MCKeys
  Budgets <- MCBudgets
  MaxMishaps = 1
INVARIANT
  DiscardedIsGone
CHECK_DEADLOCK FALSE
