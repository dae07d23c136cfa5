------------------------------ MODULE Delegation ------------------------------
(***************************************************************************)
(* Starting, supervising and awaiting delegated runs (runner.py).          *)
(*                                                                         *)
(* A run is a directory; what its processes know of each other is which    *)
(* files it holds.  A starter (start_detached_delegate, or delegate called *)
(* in the foreground) reserves capacity under one mutex and records the    *)
(* pid of the run's supervisor; the supervisor launches the executor and   *)
(* writes the outcome; `wait` polls the directory; `cleanup` marks the     *)
(* runs nobody will ever finish.  Any of these processes can be killed.    *)
(*                                                                         *)
(* A foreground run has one process: it prepares, reserves, and then       *)
(* becomes its own supervisor.  A detached run has two: the starter        *)
(* reserves and spawns, the supervisor prepares afterwards.                *)
(***************************************************************************)
EXTENDS Naturals, FiniteSets

CONSTANTS
  Runs, Roles, Orchestrator, NoRole, MaxParallel, RoleLimit,
  Detached,           \* the runs started with --detach
  Waited,             \* the runs some caller awaits with `wait`
  NoRun,              \* "nobody holds the mutex"
  MaxKills,           \* how many processes are killed: a bound of the model
  KillWhileSpawning   \* whether a starter may be killed between Popen and
                      \* the write of supervisor.pid

ASSUME DelegationAssumption ==
  /\ IsFiniteSet(Runs)
  /\ Orchestrator \in Roles
  /\ NoRole \notin Roles
  /\ MaxParallel \in Nat \ {0}
  /\ RoleLimit \in [Roles -> Nat \ {0}]
  /\ Detached \subseteq Runs
  /\ Waited \subseteq Runs
  /\ NoRun \notin Runs
  /\ MaxKills \in Nat
  /\ KillWhileSpawning \in BOOLEAN

VARIABLES
  role,      \* the --role of a run, NoRole until its directory exists
  files,     \* the marker files in each run directory
  starter,   \* what the process that starts a run is doing
  sup,       \* what the process that supervises a run is doing
  executor,  \* the executor process, in a session of its own
  mutex,     \* locks/parallel.lock: the run whose starter holds the flock
  visited,   \* run directories the mutex holder's scan has looked at
  counted,   \* those of them it counted as active
  waiter,    \* what the caller of wait_for_run is doing
  kills      \* processes killed so far

vars == <<role, files, starter, sup, executor, mutex, visited, counted, waiter, kills>>

-------------------------------------------------------------------------------

Marker == {"role", "execution.json", "supervisor.pid", "summary.json",
           "summary.txt", "BLOCKED", "INTERRUPTED", "ORPHANED"}

StarterState == {"idle", "preparing", "contending", "scanning", "marked", "spawned",
                 "refused", "refused_summary", "handed", "exited", "killed"}

SupState == {"none", "preparing", "blocked", "blocked_summary", "ready", "executing",
             "ended", "summarised", "releasing", "exited", "killed"}

WaiterState == {"none", "polling", "no_summary", "pid_seen", "suspect",
                "summary", "died", "timed_out"}

SupLive == SupState \ {"none", "exited", "killed"}
InCriticalSection == {"scanning", "marked", "spawned"}

TypeOK ==
  /\ role \in [Runs -> Roles \cup {NoRole}]
  /\ files \in [Runs -> SUBSET Marker]
  /\ starter \in [Runs -> StarterState]
  /\ sup \in [Runs -> SupState]
  /\ executor \in [Runs -> {"none", "running", "stopped"}]
  /\ mutex \in Runs \cup {NoRun}
  /\ visited \in SUBSET Runs
  /\ counted \in SUBSET Runs
  /\ waiter \in [Runs -> WaiterState]
  /\ kills \in 0..MaxKills

-------------------------------------------------------------------------------
(* What one process can tell about a run from its directory.               *)

IsTerminalRun(r) == {"summary.json", "BLOCKED", "INTERRUPTED"} \cap files[r] # {}

(* Mutant: a pid file is taken for a living process.                       *)
SupervisorAliveUnprobed(r) == "supervisor.pid" \in files[r]

SupervisorAlive(r) == "supervisor.pid" \in files[r] /\ sup[r] \in SupLive

(* The runs _active_delegation_roles counts.                               *)
IsActive(r) ==
  /\ "ORPHANED" \notin files[r]
  /\ ~IsTerminalRun(r)
  /\ SupervisorAlive(r)

Active == {r \in Runs : IsActive(r)}

RunRole(r) ==
  IF {"role", "execution.json"} \cap files[r] # {} THEN role[r] ELSE NoRole

(* Mutant: the limit is compared with > instead of >=.                     *)
LimitReachedLate(ro) ==
  \/ Cardinality(counted) > MaxParallel
  \/ /\ ro # Orchestrator
     /\ Cardinality({q \in counted : RunRole(q) \in {ro, NoRole}}) > RoleLimit[ro]

(* _parallel_limit_error, over the active runs the scan found.  A run      *)
(* whose role is unknown counts against every role.                        *)
LimitReached(ro) ==
  \/ Cardinality(counted) >= MaxParallel
  \/ /\ ro # Orchestrator
     /\ Cardinality({q \in counted : RunRole(q) \in {ro, NoRole}}) >= RoleLimit[ro]

Completed(r) == {"summary.json", "summary.txt"} \subseteq files[r]

-------------------------------------------------------------------------------

Init ==
  /\ role = [r \in Runs |-> NoRole]
  /\ files = [r \in Runs |-> {}]
  /\ starter = [r \in Runs |-> "idle"]
  /\ sup = [r \in Runs |-> "none"]
  /\ executor = [r \in Runs |-> "none"]
  /\ mutex = NoRun
  /\ visited = {}
  /\ counted = {}
  /\ waiter = [r \in Runs |-> "none"]
  /\ kills = 0

StarterGoes(r, from, to) ==
  /\ starter[r] \in from
  /\ starter' = [starter EXCEPT ![r] = to]

SupGoes(r, from, to) ==
  /\ sup[r] \in from
  /\ sup' = [sup EXCEPT ![r] = to]

Write(r, names) == files' = [files EXCEPT ![r] = @ \cup names]

ReleaseMutex(r) == mutex = r /\ mutex' = NoRun /\ visited' = {} /\ counted' = {}

-------------------------------------------------------------------------------
(* The starter.                                                            *)

(* delegate or start_detached_delegate, up to the new run directory.       *)
StartRun(r, ro) ==
  /\ StarterGoes(r, {"idle"}, IF r \in Detached THEN "contending" ELSE "preparing")
  /\ role' = [role EXCEPT ![r] = ro]
  /\ UNCHANGED <<files, sup, executor, mutex, visited, counted, waiter, kills>>

(* A foreground delegate prepares the worktree, branch, baseline and       *)
(* authentication before it reserves.                                      *)
ForegroundPrepared(r) ==
  /\ StarterGoes(r, {"preparing"}, "contending")
  /\ Write(r, {"execution.json"})
  /\ UNCHANGED <<role, sup, executor, mutex, visited, counted, waiter, kills>>

(* Preparation found a dirty worktree, an unusable branch or expired       *)
(* credentials: finalize_blocked_run follows.                              *)
ForegroundBlocked(r) ==
  /\ StarterGoes(r, {"preparing"}, "refused")
  /\ UNCHANGED <<role, files, sup, executor, mutex, visited, counted, waiter, kills>>

(* Preparation raised (Git failed, ownership check failed), or the write   *)
(* of a refusal did: the directory stays behind without its outcome.       *)
StarterRaises(r) ==
  /\ StarterGoes(r, {"preparing", "refused", "refused_summary"}, "exited")
  /\ UNCHANGED <<role, files, sup, executor, mutex, visited, counted, waiter, kills>>

AcquireMutex(r) ==
  /\ mutex = NoRun
  /\ StarterGoes(r, {"contending"}, "scanning")
  /\ mutex' = r
  /\ visited' = {}
  /\ counted' = {}
  /\ UNCHANGED <<role, files, sup, executor, waiter, kills>>

(* Five seconds of a busy mutex: HarnessError, and again no outcome.       *)
MutexTimeout(r) ==
  /\ mutex # NoRun
  /\ StarterGoes(r, {"contending"}, "exited")
  /\ UNCHANGED <<role, files, sup, executor, mutex, visited, counted, waiter, kills>>

(* Mutant: a run is counted only once it has prepared.                     *)
ScanRunPrepared(r, q) ==
  /\ starter[r] = "scanning"
  /\ q \notin visited
  /\ visited' = visited \cup {q}
  /\ counted' = IF IsActive(q) /\ "execution.json" \in files[q] THEN counted \cup {q} ELSE counted
  /\ UNCHANGED <<role, files, starter, sup, executor, mutex, waiter, kills>>

(* One turn of the loop over runs/: the other processes keep moving        *)
(* between two turns.                                                      *)
ScanRun(r, q) ==
  /\ starter[r] = "scanning"
  /\ q \notin visited
  /\ visited' = visited \cup {q}
  /\ counted' = IF IsActive(q) THEN counted \cup {q} ELSE counted
  /\ UNCHANGED <<role, files, starter, sup, executor, mutex, waiter, kills>>

(* Mutant: the role marker is not written before the pid.                  *)
AdmitUnmarked(r) ==
  /\ StarterGoes(r, {"scanning"}, "marked")
  /\ visited = Runs
  /\ ~LimitReached(role[r])
  /\ UNCHANGED <<role, files, sup, executor, mutex, visited, counted, waiter, kills>>

(* The role marker goes to disk before the supervisor pid.                 *)
Admit(r) ==
  /\ StarterGoes(r, {"scanning"}, "marked")
  /\ visited = Runs
  /\ ~LimitReached(role[r])
  /\ Write(r, {"role"})
  /\ UNCHANGED <<role, sup, executor, mutex, visited, counted, waiter, kills>>

(* Mutant: a starter without room keeps the mutex and waits.               *)
RefuseNever(r) == FALSE /\ ReleaseMutex(r) /\ UNCHANGED <<role, files, sup, executor, waiter, kills>>

Refuse(r) ==
  /\ StarterGoes(r, {"scanning"}, "refused")
  /\ visited = Runs
  /\ LimitReached(role[r])
  /\ ReleaseMutex(r)
  /\ UNCHANGED <<role, files, sup, executor, waiter, kills>>

(* finalize_blocked_run by the process that never became a supervisor.     *)
RefusedSummary(r) ==
  /\ StarterGoes(r, {"refused"}, "refused_summary")
  /\ Write(r, {"summary.json"})
  /\ UNCHANGED <<role, sup, executor, mutex, visited, counted, waiter, kills>>

RefusedText(r) ==
  /\ StarterGoes(r, {"refused_summary"}, "exited")
  /\ Write(r, {"BLOCKED", "summary.txt"})
  /\ UNCHANGED <<role, sup, executor, mutex, visited, counted, waiter, kills>>

(* subprocess.Popen of the detached supervisor: from here on it runs.      *)
SpawnSupervisor(r) ==
  /\ r \in Detached
  /\ StarterGoes(r, {"marked"}, "spawned")
  /\ SupGoes(r, {"none"}, "preparing")
  /\ UNCHANGED <<role, files, executor, mutex, visited, counted, waiter, kills>>

(* The pid is on disk and the mutex free: the run is reserved.             *)
RecordSupervisor(r) ==
  /\ \/ /\ r \in Detached
        /\ StarterGoes(r, {"spawned"}, "handed")
        /\ UNCHANGED sup
     \/ /\ r \notin Detached
        /\ StarterGoes(r, {"marked"}, "handed")
        /\ SupGoes(r, {"none"}, "ready")
  /\ Write(r, {"supervisor.pid"})
  /\ ReleaseMutex(r)
  /\ UNCHANGED <<role, executor, waiter, kills>>

(* Popen or the write of the pid raised: a spawned supervisor is           *)
(* terminated, and the mutex is released on the way out.  SIGTERM and the  *)
(* second it is given are taken as its death.                              *)
RecordFails(r) ==
  /\ StarterGoes(r, {"marked", "spawned"}, "exited")
  /\ sup' = [sup EXCEPT ![r] = IF @ \in SupLive THEN "killed" ELSE @]
  /\ ReleaseMutex(r)
  /\ UNCHANGED <<role, files, executor, waiter, kills>>

StarterStep(r) ==
  \/ ForegroundPrepared(r) \/ ForegroundBlocked(r) \/ StarterRaises(r)
  \/ AcquireMutex(r) \/ MutexTimeout(r)
  \/ \E q \in Runs : ScanRun(r, q)
  \/ Admit(r) \/ Refuse(r) \/ RefusedSummary(r) \/ RefusedText(r)
  \/ SpawnSupervisor(r) \/ RecordSupervisor(r) \/ RecordFails(r)

-------------------------------------------------------------------------------
(* The supervisor.                                                         *)

(* delegate(supervisor_reserved=True) up to the executor.                  *)
SupervisorPrepared(r) ==
  /\ SupGoes(r, {"preparing"}, "ready")
  /\ Write(r, {"execution.json"})
  /\ UNCHANGED <<role, starter, executor, mutex, visited, counted, waiter, kills>>

SupervisorBlocked(r) ==
  /\ SupGoes(r, {"preparing"}, "blocked")
  /\ UNCHANGED <<role, files, starter, executor, mutex, visited, counted, waiter, kills>>

BlockedSummary(r) ==
  /\ SupGoes(r, {"blocked"}, "blocked_summary")
  /\ Write(r, {"summary.json"})
  /\ UNCHANGED <<role, starter, executor, mutex, visited, counted, waiter, kills>>

BlockedText(r) ==
  /\ SupGoes(r, {"blocked_summary"}, "exited")
  /\ Write(r, {"BLOCKED", "summary.txt"})
  /\ UNCHANGED <<role, starter, executor, mutex, visited, counted, waiter, kills>>

LaunchExecutor(r) ==
  /\ SupGoes(r, {"ready"}, "executing")
  /\ executor' = [executor EXCEPT ![r] = "running"]
  /\ UNCHANGED <<role, files, starter, mutex, visited, counted, waiter, kills>>

ExecutorExits(r) ==
  /\ SupGoes(r, {"executing"}, "ended")
  /\ executor' = [executor EXCEPT ![r] = "stopped"]
  /\ UNCHANGED <<role, files, starter, mutex, visited, counted, waiter, kills>>

(* timeout_seconds passed, or Ctrl-C reached a foreground wrapper: the     *)
(* executor's group is killed first, the marker written after.             *)
ExecutorInterrupted(r) ==
  /\ SupGoes(r, {"executing"}, "ended")
  /\ executor' = [executor EXCEPT ![r] = "stopped"]
  /\ Write(r, {"INTERRUPTED"})
  /\ UNCHANGED <<role, starter, mutex, visited, counted, waiter, kills>>

(* finalize_run up to its first summary.json; it may raise before that.    *)
WriteSummary(r) ==
  /\ SupGoes(r, {"ended"}, "summarised")
  /\ Write(r, {"summary.json"})
  /\ UNCHANGED <<role, starter, executor, mutex, visited, counted, waiter, kills>>

(* Mutant: a supervisor ends in a state of the starter.                    *)
AfterFinalizeHanded(r) == IF r \in Detached THEN "handed" ELSE "releasing"

AfterFinalize(r) == IF r \in Detached THEN "exited" ELSE "releasing"

WriteText(r) ==
  /\ SupGoes(r, {"summarised"}, AfterFinalize(r))
  /\ \E blocked \in {{}, {"BLOCKED"}} : Write(r, {"summary.txt"} \cup blocked)
  /\ UNCHANGED <<role, starter, executor, mutex, visited, counted, waiter, kills>>

(* An exception in the supervisor, at whatever stage.  One that is raised  *)
(* while the executor runs leaves it running: a write of its output that   *)
(* fails, or an executor that outlives the SIGTERM of a Ctrl-C.            *)
SupervisorRaises(r) ==
  /\ \/ SupGoes(r, {"preparing", "blocked", "blocked_summary"}, "exited")
     \/ SupGoes(r, {"ready", "executing", "ended", "summarised"}, AfterFinalize(r))
  /\ UNCHANGED <<role, files, starter, executor, mutex, visited, counted, waiter, kills>>

(* _release_parallel_reservation, in the finally of a foreground run.      *)
ReleaseReservation(r) ==
  /\ SupGoes(r, {"releasing"}, "exited")
  /\ files' = [files EXCEPT ![r] = @ \ {"supervisor.pid"}]
  /\ UNCHANGED <<role, starter, executor, mutex, visited, counted, waiter, kills>>

SupervisorStep(r) ==
  \/ SupervisorPrepared(r) \/ SupervisorBlocked(r) \/ BlockedSummary(r) \/ BlockedText(r)
  \/ LaunchExecutor(r) \/ ExecutorExits(r) \/ ExecutorInterrupted(r)
  \/ WriteSummary(r) \/ WriteText(r) \/ SupervisorRaises(r) \/ ReleaseReservation(r)

-------------------------------------------------------------------------------
(* The environment: SIGKILL, executors nobody supervises, and cleanup.     *)

(* The kernel drops the flock of a killed starter.                         *)
KillStarter(r) ==
  /\ kills < MaxKills
  /\ kills' = kills + 1
  /\ starter[r] = "spawned" => KillWhileSpawning
  /\ StarterGoes(r, {"preparing", "contending", "scanning", "marked", "spawned",
                     "refused", "refused_summary"}, "killed")
  /\ IF mutex = r THEN ReleaseMutex(r) ELSE UNCHANGED <<mutex, visited, counted>>
  /\ UNCHANGED <<role, files, sup, executor, waiter>>

(* The executor has a session of its own and outlives its supervisor.      *)
KillSupervisor(r) ==
  /\ kills < MaxKills
  /\ kills' = kills + 1
  /\ SupGoes(r, SupLive, "killed")
  /\ UNCHANGED <<role, files, starter, executor, mutex, visited, counted, waiter>>

OrphanExecutorEnds(r) ==
  /\ sup[r] \notin SupLive
  /\ executor[r] = "running"
  /\ executor' = [executor EXCEPT ![r] = "stopped"]
  /\ UNCHANGED <<role, files, starter, sup, mutex, visited, counted, waiter, kills>>

(* cleanup marks a directory that is more than an hour old.  A starter     *)
(* takes seconds, so none is still at work on a directory that old.        *)
StarterDone == {"handed", "exited", "killed"}

(* Mutant: age alone decides.                                              *)
CleanupMarksOld(r) ==
  /\ starter[r] \in StarterDone
  /\ "ORPHANED" \notin files[r]
  /\ ~IsTerminalRun(r)
  /\ Write(r, {"ORPHANED"})
  /\ UNCHANGED <<role, starter, sup, executor, mutex, visited, counted, waiter, kills>>

CleanupMarksOrphan(r) ==
  /\ starter[r] \in StarterDone
  /\ "ORPHANED" \notin files[r]
  /\ ~IsTerminalRun(r)
  /\ ~SupervisorAlive(r)
  /\ Write(r, {"ORPHANED"})
  /\ UNCHANGED <<role, starter, sup, executor, mutex, visited, counted, waiter, kills>>

-------------------------------------------------------------------------------
(* wait_for_run.                                                           *)

WaiterGoes(r, from, to) ==
  /\ waiter[r] = from
  /\ waiter' = [waiter EXCEPT ![r] = to]
  /\ UNCHANGED <<role, files, starter, sup, executor, mutex, visited, counted, kills>>

StartWait(r) == r \in Waited /\ role[r] # NoRole /\ WaiterGoes(r, "none", "polling")

ReadSummary(r) == WaiterGoes(r, "polling", IF Completed(r) THEN "summary" ELSE "no_summary")

(* `(run_dir / "supervisor.pid").is_file() and not _supervisor_alive(...)` *)
(* reads the directory twice.                                              *)
SeePid(r) ==
  WaiterGoes(r, "no_summary", IF "supervisor.pid" \in files[r] THEN "pid_seen" ELSE "polling")

(* Mutant: a dead supervisor is polled for like a living one.              *)
ProbeSupervisorPatiently(r) == WaiterGoes(r, "pid_seen", "polling")

ProbeSupervisor(r) ==
  WaiterGoes(r, "pid_seen", IF SupervisorAlive(r) THEN "polling" ELSE "suspect")

(* Mutant: a supervisor found dead is reported without a second look.      *)
ReportDeadAtOnce(r) == WaiterGoes(r, "suspect", "died")

(* The summary is read again before the supervisor is reported dead.       *)
ReadSummaryAgain(r) ==
  WaiterGoes(r, "suspect", IF Completed(r) THEN "summary" ELSE "died")

WaitTimeout(r) == WaiterGoes(r, "polling", "timed_out")

WaiterStep(r) == ReadSummary(r) \/ SeePid(r) \/ ProbeSupervisor(r) \/ ReadSummaryAgain(r)

-------------------------------------------------------------------------------

RunStep(r) ==
  \/ \E ro \in Roles : StartRun(r, ro)
  \/ StarterStep(r)
  \/ SupervisorStep(r)
  \/ KillStarter(r)
  \/ KillSupervisor(r)
  \/ OrphanExecutorEnds(r)
  \/ CleanupMarksOrphan(r)
  \/ StartWait(r)
  \/ WaiterStep(r)
  \/ WaitTimeout(r)

Next == \E r \in Runs : RunStep(r)

Spec == Init /\ [][Next]_vars

(* Processes that are not killed keep running: the starter is bounded by   *)
(* the mutex timeout, the supervisor by timeout_seconds (it kills the      *)
(* executor itself), the waiter polls.  Nothing makes a caller start, wait *)
(* or give up, a process be killed, or cleanup run.                        *)
Fairness ==
  \A r \in Runs :
    WF_vars(StarterStep(r)) /\ WF_vars(SupervisorStep(r)) /\ WF_vars(WaiterStep(r))

FairSpec == Spec /\ Fairness

-------------------------------------------------------------------------------
(* Properties.                                                             *)

(* The runs whose executor runs under a living supervisor.                 *)
Executing == {r \in Runs : sup[r] = "executing"}
ExecutingAs(ro) == {r \in Executing : role[r] = ro}

(* No interleaving of starters, of finishing supervisors and of kills lets *)
(* more supervised executors run than max_parallel, or more of one role    *)
(* than the role's own limit (_reserve_parallel_capacity).                 *)
CapacityRespected ==
  /\ Cardinality(Executing) <= MaxParallel
  /\ \A ro \in Roles \ {Orchestrator} : Cardinality(ExecutingAs(ro)) <= RoleLimit[ro]

(* A run that is counted has a readable role, so that it is never charged  *)
(* to a role it does not have: role is written before supervisor.pid.      *)
CountedRoleKnown == \A r \in Active : RunRole(r) = role[r] /\ role[r] # NoRole

(* wait_for_run raises SupervisorDiedError only for a run that will never  *)
(* have a complete summary: its supervisor is gone for good.               *)
DiedIsFinal ==
  \A r \in Runs : waiter[r] = "died" =>
    /\ ~Completed(r)
    /\ sup[r] \notin SupLive

(* cleanup never takes a run that is still supervised out of the count.    *)
OrphanedIsAbandoned ==
  \A r \in Runs : "ORPHANED" \in files[r] => sup[r] \notin SupLive

(* start_supervisor: "Do not leave an unrecorded supervisor that cannot be *)
(* counted."                                                               *)
NoUnrecordedSupervisor ==
  \A r \in Runs : sup[r] \in SupLive =>
    starter[r] = "spawned" \/ "supervisor.pid" \in files[r]

(* A reserved slot comes back: every active run stops being active,        *)
(* however its processes end.                                              *)
SlotsComeBack == \A r \in Runs : r \in Active ~> r \notin Active

(* Whoever contends for the mutex gets an answer, even when the holder is  *)
(* killed inside the critical section.                                     *)
StartersAnswered == \A r \in Runs :
  starter[r] = "contending" ~> starter[r] \in {"handed", "exited", "killed"}

(* A caller that awaits a detached run with a recorded supervisor learns   *)
(* the outcome, or that there will be none, unless it gives up first.      *)
DetachedWaitAnswered == \A r \in Detached :
  waiter[r] = "polling" /\ starter[r] = "handed"
    ~> waiter[r] \in {"summary", "died", "timed_out"}

(* The slot a run holds for its role, in the eyes of the scan.             *)
Slot == [r \in Runs |-> IF IsActive(r) THEN role[r] ELSE NoRole]

Pool == INSTANCE CapacityPool WITH slot <- Slot

(* The runs the scan would count behave as the slots of CapacityPool: a    *)
(* slot is taken only when both limits leave room for it, and no step      *)
(* passes it from one run to another (_reserve_parallel_capacity).         *)
ImplementsPool == Pool!Spec
===============================================================================
