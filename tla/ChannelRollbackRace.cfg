CONSTANTS
  Capacity = 4
  Fee = 1
  Start = 3
  MaxNumber = 1
  Proposers = {"a"}
  Budgets <- RollbackRaceBudgets
SPECIFICATION Spec
CHECK_DEADLOCK FALSE
INVARIANT UnfinishedIsResumed
