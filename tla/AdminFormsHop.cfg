CONSTANTS
  Links = {"l1", "l2"}
  Policies = {"p1", "p2"}
  MaxCalls = 3
SPECIFICATION Spec
INVARIANTS EditsLoadedLink
