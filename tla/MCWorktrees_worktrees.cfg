\* Two runs, every policy.
CONSTANTS
  Runs = {r1, r2}
  Paths = {p1, p2}
  Policies = {"stop", "allow", "allow_delegated", "isolate"}
  AutoCommit = {TRUE, FALSE}
  MaxEdits = 1
  MaxFaults = 1
  Overlap = FALSE
SPECIFICATION Spec
SYMMETRY Symmetry
CHECK_DEADLOCK FALSE
INVARIANTS TypeOK CommitsAreOwned ProtectedStays LiveWorktree KeptIsPending IntegratedIsOnBranch
PROPERTIES RunsStartOnDelegatedWork UserEditKept NothingThrownAway UnfinishedIsLeftAlone
