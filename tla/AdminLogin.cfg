SPECIFICATION FairSpec
CONSTANTS
  Requests = {r1, r2}
  Clients = {c1, c2}
  Passwords = {p1, p2}
  Initial = p1
  MaxFailures = 2
  Window = 2
INVARIANTS TypeOK GuessesBounded
PROPERTIES NoFailureForgotten LockoutEnds
