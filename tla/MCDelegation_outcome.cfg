\* Every run ends, every starter is answered, every awaited run is explained, and the reservations are a pool of slots.
SPECIFICATION FairSpec
CONSTANTS
  Runs = {d1, f1}
  Detached = {d1}
  Waited = {d1, f1}
  NoRun = NoRun
  NoRole = NoRole
  orchestrator = orchestrator
  implementer = implementer
  Roles = {orchestrator}
  Orchestrator = orchestrator
  MaxParallel = 1
  RoleLimit <- MCRoleLimit
  MaxKills = 1
  KillWhileSpawning = FALSE
INVARIANTS DiedIsFinal
PROPERTIES ImplementsPool SlotsComeBack StartersAnswered DetachedWaitAnswered
CHECK_DEADLOCK FALSE
