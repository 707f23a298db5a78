CONSTANTS
  Links = {"l1", "l2"}
  Policies = {"p1"}
  MaxCalls = 3
SPECIFICATION Spec
INVARIANTS TypeOK WaitingHasCall OneSaveInFlight SavesOwnRecord
PROPERTIES EditsKept WaitingEnds
