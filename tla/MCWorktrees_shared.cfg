\* A retry is not seen before it writes supervisor.pid.
CONSTANTS
  Runs = {r1, r2}
  Paths = {p1, p2}
  Policies = {"stop", "allow", "allow_delegated", "isolate"}
  AutoCommit = {TRUE, FALSE}
  MaxEdits = 0
  MaxFaults = 0
  Overlap = TRUE
SPECIFICATION Spec
SYMMETRY Symmetry
CHECK_DEADLOCK FALSE
INVARIANTS LiveWorktree
