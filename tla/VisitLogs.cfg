SPECIFICATION FairSpec
CONSTANTS
  QueueCap = 2
  MaxBatchSize = 2
  Retentions = {1, 2}
  DefaultDays = 3
  MaxLag = 1
  MaxVisits = 3
  MaxTime = 3
INVARIANTS TypeOK InOrder
PROPERTIES CleanupSparesRecent EventuallyWritten
