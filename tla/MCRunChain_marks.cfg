\* Acting on runs that are being rewritten, with calls that stop and discards.
CONSTANTS
  Callers = {c, d}
  MaxRuns = 3
  MaxRoots = 1
  Outcomes = {"limited", "success"}
  Sigs = {}
  NoSig = NoSig
  Retries = 0
  MaxRounds = 0
  Nameable = "recorded"
  Isolated = {1}
  StopsIn = {"locking", "reading", "preparing", "marking_state", "marking_file", "executing", "finalizing", "merging", "rewriting", "escalating", "dismissing", "dismiss_marking"}
  Requests = {"retry"}
  NoRun = NoRun
  NoState = NoState
SPECIFICATION Spec
SYMMETRY Symmetry
INVARIANTS InterruptedStaysRevivable
PROPERTY DismissedStays
CHECK_DEADLOCK FALSE
