SPECIFICATION Spec
CONSTANTS
  Links = {"l1"}
  Admins = {a1, a2}
  Agents = {"bot", ""}
  Empty = ""
  Contents <- MCContents
  MaxPolicies = 2
  Nobody = "nobody"
  Several = "several"
SYMMETRY AdminsAlike
INVARIANTS TypeOK OneChangeIsAtomic NobodySlipsThrough DeletionDetaches
