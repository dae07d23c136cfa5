\* A starter is killed after Popen and before supervisor.pid is on disk.
SPECIFICATION Spec
CONSTANTS
  Runs = {d1, d2}
  Detached = {d1, d2}
  Waited = {}
  NoRun = NoRun
  NoRole = NoRole
  orchestrator = orchestrator
  implementer = implementer
  Roles <- MCRoles
  Orchestrator = orchestrator
  MaxParallel = 1
  RoleLimit <- MCRoleLimit
  MaxKills = 1
  KillWhileSpawning = TRUE
INVARIANTS NoUnrecordedSupervisor
CHECK_DEADLOCK FALSE
