CONSTANTS
  Texts = {"a", "b"}
  Wrapper = "once"
  MaxRegistrations = 4
  MaxCalls = 2
  MaxDepth = 2
CHECK_DEADLOCK FALSE
SPECIFICATION Spec
INVARIANTS InOrderOnce AtMostRemovedSkipped LateOnlyForRemoved OnceRunsOnce RemovesAlternate
