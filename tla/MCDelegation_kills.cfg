\* Three runs compete for two slots, one of them detached, while a starter or a supervisor is killed.
SPECIFICATION Spec
CONSTANTS
  Runs = {d1, f1, f2}
  Detached = {d1}
  Waited = {}
  NoRun = NoRun
  NoRole = NoRole
  orchestrator = orchestrator
  implementer = implementer
  Roles <- MCRoles
  Orchestrator = orchestrator
  MaxParallel = 2
  RoleLimit <- MCRoleLimit
  MaxKills = 1
  KillWhileSpawning = FALSE
SYMMETRY Symmetric
INVARIANTS TypeOK CapacityRespected CountedRoleKnown OrphanedIsAbandoned
CHECK_DEADLOCK FALSE
