CONSTANTS
  Ids = {1, 2}
  Filters = {"all", "on"}
  LinksPageSize = 1
  LogsPageSize = 1
  MaxCalls = 2
SPECIFICATION Spec
INVARIANTS TypeOK WaitingHasCall ShownIsStored
PROPERTIES LoadingEnds
