\* Replies, decided or not, with revivals between them.
CONSTANTS
  Callers = {c}
  MaxRuns = 4
  MaxRoots = 1
  Outcomes = {"discussion", "limited"}
  Sigs = {}
  NoSig = NoSig
  Retries = 1
  MaxRounds = 1
  Nameable = "returned"
  Isolated = {}
  StopsIn = {"executing", "marking_file", "finalizing", "merging", "escalating"}
  Requests = {"reply", "reply_decided", "retry"}
  NoRun = NoRun
  NoState = NoState
SPECIFICATION Spec
SYMMETRY Symmetry
INVARIANTS RoundsRespected
CHECK_DEADLOCK FALSE
