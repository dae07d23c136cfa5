\* One caller, every history of retries and revivals.
CONSTANTS
  Callers = {c}
  MaxRuns = 4
  MaxRoots = 1
  Outcomes = {"failed", "limited"}
  Sigs = {s}
  NoSig = NoSig
  Retries = 2
  MaxRounds = 0
  Nameable = "returned"
  Isolated = {}
  StopsIn = {"executing", "marking_file", "merging", "escalating"}
  Requests = {"retry"}
  NoRun = NoRun
  NoState = NoState
SPECIFICATION Spec
SYMMETRY Symmetry
INVARIANTS TypeOK PathBudget EscalationDue RevivalStops
CHECK_DEADLOCK FALSE
