SPECIFICATION Spec
CONSTANTS
  small = small
  large = large
  l1 = l1
  l2 = l2
  q1 = q1
  q2 = q2
  Links = {l1, l2}
  Queries = {q1, q2}
  Bodies <- MCBodies
  SizeOf <- MCSizeOf
  TTLs = {0}
  Fillers = {f1}
  Limits = {1, 2, 4}
  MB = 2
  IntHalf = 8
  MaxTime = 1
  Idle = Idle
  NoAnswer = NoAnswer
INVARIANTS TypeOK IndexMatchesList BytesAccounted
PROPERTIES GrowsWithinLimit EvictsColdEndOnly ImplementsVolatileStore
SYMMETRY Symmetry
