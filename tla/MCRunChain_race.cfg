\* Two callers retry and dismiss the same limited runs.
CONSTANTS
  Callers = {c, d}
  MaxRuns = 4
  MaxRoots = 1
  Outcomes = {"limited"}
  Sigs = {}
  NoSig = NoSig
  Retries = 0
  MaxRounds = 0
  Nameable = "returned"
  Isolated = {}
  StopsIn = {"locking", "reading", "preparing", "marking_state", "marking_file", "executing", "finalizing", "merging", "rewriting", "escalating", "dismissing", "dismiss_marking"}
  Requests = {"retry"}
  NoRun = NoRun
  NoState = NoState
SPECIFICATION Spec
SYMMETRY Symmetry
INVARIANTS RevivedOnce
CHECK_DEADLOCK FALSE
