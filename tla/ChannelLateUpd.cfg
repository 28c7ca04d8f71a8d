CONSTANTS
  Capacity = 4
  Fee = 1
  Start = 3
  MaxNumber = 1
  Proposers = {"a"}
  Budgets <- LateUpdBudgets
SPECIFICATION Spec
CHECK_DEADLOCK FALSE
INVARIANT NodesAgree
