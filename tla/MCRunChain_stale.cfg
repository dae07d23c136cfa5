\* A retry of a run whose signatures are still being merged.
CONSTANTS
  Callers = {c, d}
  MaxRuns = 3
  MaxRoots = 1
  Outcomes = {"failed"}
  Sigs = {s, t}
  NoSig = NoSig
  Retries = 2
  MaxRounds = 0
  Nameable = "recorded"
  Isolated = {}
  StopsIn = {"locking", "reading", "preparing", "marking_state", "marking_file", "executing", "finalizing", "merging", "rewriting", "escalating", "dismissing", "dismiss_marking"}
  Requests = {"retry"}
  NoRun = NoRun
  NoState = NoState
SPECIFICATION Spec
SYMMETRY Symmetry
INVARIANTS EscalationDue
CHECK_DEADLOCK FALSE
