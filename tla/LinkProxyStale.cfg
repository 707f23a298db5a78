SPECIFICATION Spec
CONSTANTS
  t1 = t1
  t2 = t2
  Targets = {t1, t2}
  Configs <- MCProxied
  Paths = {p1}
  Requests = {r1}
  Admins = {a1}
  MaxId = 2
  None = None
  r1 = r1
  r2 = r2
INVARIANTS NoStaleAfterUpdate
