SPECIFICATION LifeSpec
CONSTANTS
  Configs = {{"queue"}}
  Requests = {"q1"}
  MaxTime = 21
INVARIANT BudgetBoundsPhase
CHECK_DEADLOCK FALSE
