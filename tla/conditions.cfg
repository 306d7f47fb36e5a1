SPECIFICATION Spec
CONSTANTS
  MaxLines = 7
  MaxSearched = 2
  MaxSearches = 2
  Questions = {1}
INVARIANTS CompiledIsWalked AnswersFollowBranches ReachedIsInterpreted JudgedByOwn
CHECK_DEADLOCK FALSE
