SPECIFICATION Spec
CONSTANTS
  Id = {"a", "b", "c"}
  Timeout = {1, 2}
  MaxTime = 3
INVARIANT TickClears
CHECK_DEADLOCK FALSE
