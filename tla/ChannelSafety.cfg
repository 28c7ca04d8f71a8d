CONSTANTS
  Capacity = 4
  Fee = 1
  Start = 3
  MaxNumber = 3
  Proposers = {"a", "b"}
  Budgets <- SafetyBudgets
SPECIFICATION Spec
CHECK_DEADLOCK FALSE
 
 
INVARIANT NodesAgreeInOrder
INVARIANT DriveKeepsOutbox
