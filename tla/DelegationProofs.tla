--------------------------- MODULE DelegationProofs ---------------------------
(***************************************************************************)
(* For any number of runs, any roles and any limits: the reservation       *)
(* protocol of Delegation keeps max_parallel, and implements CapacityPool. *)
(***************************************************************************)
EXTENDS Delegation, FiniteSetTheorems, TLAPS

(* Each stage of a run fixes what its other files and processes can be.    *)
StageInv ==
  \A r \in Runs :
    /\ starter[r] \in InCriticalSection <=> mutex = r
    /\ starter[r] # "idle" => role[r] \in Roles
    /\ starter[r] \in {"idle", "preparing", "contending", "scanning", "marked", "refused"} =>
         sup[r] = "none" /\ ~IsTerminalRun(r) /\ "ORPHANED" \notin files[r]
    /\ "supervisor.pid" \in files[r] => starter[r] = "handed"
    /\ starter[r] \in {"marked", "spawned", "handed"} => "role" \in files[r]
    /\ starter[r] = "refused_summary" => sup[r] = "none"
    /\ starter[r] \in {"spawned", "handed"} => sup[r] # "none"

(* What the scan has not counted is not active, and will not become so.    *)
ScanInv == \A q \in visited : IsActive(q) => q \in counted

ActiveAs(ro) == {r \in Active : role[r] = ro}

(* Between the check and the record there is still room for the run.       *)
RoomInv ==
  \A r \in Runs, ro \in Roles : starter[r] \in {"marked", "spawned"} /\ role[r] = ro =>
    /\ Cardinality(Active) < MaxParallel
    /\ ro # Orchestrator => Cardinality(ActiveAs(ro)) < RoleLimit[ro]

LimitsInv ==
  /\ Cardinality(Active) <= MaxParallel
  /\ \A ro \in Roles \ {Orchestrator} : Cardinality(ActiveAs(ro)) <= RoleLimit[ro]

IInv == TypeOK /\ StageInv /\ ScanInv /\ RoomInv /\ LimitsInv

-------------------------------------------------------------------------------

LEMMA InitIInv == Init => IInv
<1> SUFFICES ASSUME Init PROVE IInv
  OBVIOUS
<1> USE DelegationAssumption DEF Init
<1>1. TypeOK
  BY DEF TypeOK, StarterState, SupState, WaiterState
<1>2. StageInv
  BY DEF StageInv, InCriticalSection, IsTerminalRun
<1>3. Active = {}
  BY DEF Active, IsActive, SupervisorAlive
<1>4. \A ro : ActiveAs(ro) = {}
  BY <1>3 DEF ActiveAs
<1>5. Cardinality({}) = 0
  BY FS_EmptySet
<1>6. ScanInv
  BY DEF ScanInv
<1>7. RoomInv
  BY DEF RoomInv
<1>8. LimitsInv
  BY <1>3, <1>4, <1>5 DEF LimitsInv
<1> QED
  BY <1>1, <1>2, <1>6, <1>7, <1>8 DEF IInv

LEMMA TypePreserved == TypeOK /\ [Next]_vars => TypeOK'
<1> SUFFICES ASSUME TypeOK, [Next]_vars PROVE TypeOK'
  OBVIOUS
<1> USE DelegationAssumption
    DEF TypeOK, StarterState, SupState, WaiterState, StarterGoes, SupGoes, Write, ReleaseMutex
<1>1. CASE UNCHANGED vars
  BY <1>1 DEF vars
<1>2. ASSUME NEW r \in Runs, NEW ro \in Roles, StartRun(r, ro) PROVE TypeOK'
  BY <1>2 DEF StartRun
<1>3. ASSUME NEW r \in Runs, StarterStep(r) PROVE TypeOK'
  <2>1. CASE ForegroundPrepared(r) \/ ForegroundBlocked(r) \/ StarterRaises(r)
    BY <2>1 DEF ForegroundPrepared, ForegroundBlocked, StarterRaises, Marker
  <2>2. CASE AcquireMutex(r) \/ MutexTimeout(r) \/ Refuse(r)
    BY <2>2 DEF AcquireMutex, MutexTimeout, Refuse
  <2>3. ASSUME NEW q \in Runs, ScanRun(r, q) PROVE TypeOK'
    BY <2>3 DEF ScanRun
  <2>4. CASE Admit(r) \/ RefusedSummary(r) \/ RefusedText(r)
    BY <2>4 DEF Admit, RefusedSummary, RefusedText, Marker
  <2>5. CASE SpawnSupervisor(r)
    BY <2>5 DEF SpawnSupervisor
  <2>6. CASE RecordSupervisor(r)
    BY <2>6 DEF RecordSupervisor, Marker
  <2>7. CASE RecordFails(r)
    BY <2>7 DEF RecordFails, SupLive
  <2> QED
    BY <1>3, <2>1, <2>2, <2>3, <2>4, <2>5, <2>6, <2>7 DEF StarterStep
<1>4. ASSUME NEW r \in Runs, SupervisorStep(r) PROVE TypeOK'
  <2>1. CASE SupervisorPrepared(r) \/ SupervisorBlocked(r) \/ BlockedSummary(r) \/ BlockedText(r)
    BY <2>1 DEF SupervisorPrepared, SupervisorBlocked, BlockedSummary, BlockedText, Marker
  <2>2. CASE LaunchExecutor(r) \/ ExecutorExits(r) \/ ExecutorInterrupted(r)
    BY <2>2 DEF LaunchExecutor, ExecutorExits, ExecutorInterrupted, Marker
  <2>3. CASE WriteSummary(r)
    BY <2>3 DEF WriteSummary, Marker
  <2>4. CASE WriteText(r)
    BY <2>4 DEF WriteText, AfterFinalize, Marker
  <2>5. CASE SupervisorRaises(r)
    BY <2>5 DEF SupervisorRaises, AfterFinalize
  <2>6. CASE ReleaseReservation(r)
    BY <2>6 DEF ReleaseReservation
  <2> QED
    BY <1>4, <2>1, <2>2, <2>3, <2>4, <2>5, <2>6 DEF SupervisorStep
<1>5. ASSUME NEW r \in Runs, KillStarter(r) \/ KillSupervisor(r) PROVE TypeOK'
  BY <1>5 DEF KillStarter, KillSupervisor
<1>6. ASSUME NEW r \in Runs, OrphanExecutorEnds(r) \/ CleanupMarksOrphan(r) PROVE TypeOK'
  BY <1>6 DEF OrphanExecutorEnds, CleanupMarksOrphan, Marker
<1>7. ASSUME NEW r \in Runs, StartWait(r) \/ WaiterStep(r) \/ WaitTimeout(r) PROVE TypeOK'
  BY <1>7 DEF StartWait, WaiterStep, WaitTimeout, WaiterGoes, ReadSummary, SeePid,
     ProbeSupervisor, ReadSummaryAgain
<1> QED
  BY <1>1, <1>2, <1>3, <1>4, <1>5, <1>6, <1>7 DEF Next, RunStep

-------------------------------------------------------------------------------

LEMMA StagePreserved == TypeOK /\ StageInv /\ [Next]_vars => StageInv'
<1> SUFFICES ASSUME TypeOK, StageInv, [Next]_vars PROVE StageInv'
  OBVIOUS
<1> USE DelegationAssumption
    DEF TypeOK, StageInv, StarterState, SupState, SupLive, StarterGoes, SupGoes, Write,
        ReleaseMutex, InCriticalSection, IsTerminalRun
<1>1. CASE UNCHANGED vars
  BY <1>1 DEF vars
<1>2. ASSUME NEW r \in Runs, NEW ro \in Roles, StartRun(r, ro) PROVE StageInv'
  BY <1>2 DEF StartRun
<1>3. ASSUME NEW r \in Runs, StarterStep(r) PROVE StageInv'
  <2>1. CASE ForegroundPrepared(r) \/ ForegroundBlocked(r) \/ StarterRaises(r)
    BY <2>1 DEF ForegroundPrepared, ForegroundBlocked, StarterRaises, Marker
  <2>2. CASE AcquireMutex(r)
    BY <2>2 DEF AcquireMutex
  <2>3. CASE MutexTimeout(r) \/ Refuse(r)
    BY <2>3 DEF MutexTimeout, Refuse
  <2>4. ASSUME NEW q \in Runs, ScanRun(r, q) PROVE StageInv'
    BY <2>4 DEF ScanRun
  <2>5. CASE Admit(r)
    BY <2>5 DEF Admit, Marker
  <2>6. CASE RefusedSummary(r) \/ RefusedText(r)
    BY <2>6 DEF RefusedSummary, RefusedText, Marker
  <2>7. CASE SpawnSupervisor(r)
    BY <2>7 DEF SpawnSupervisor
  <2>8. CASE RecordSupervisor(r)
    BY <2>8 DEF RecordSupervisor, Marker
  <2>9. CASE RecordFails(r)
    BY <2>9 DEF RecordFails
  <2> QED
    BY <1>3, <2>1, <2>2, <2>3, <2>4, <2>5, <2>6, <2>7, <2>8, <2>9 DEF StarterStep
<1>4. ASSUME NEW r \in Runs, SupervisorStep(r) PROVE StageInv'
  <2>1. CASE SupervisorPrepared(r) \/ SupervisorBlocked(r) \/ BlockedSummary(r) \/ BlockedText(r)
    BY <2>1 DEF SupervisorPrepared, SupervisorBlocked, BlockedSummary, BlockedText, Marker
  <2>2. CASE LaunchExecutor(r) \/ ExecutorExits(r) \/ ExecutorInterrupted(r)
    BY <2>2 DEF LaunchExecutor, ExecutorExits, ExecutorInterrupted, Marker
  <2>3. CASE WriteSummary(r) \/ WriteText(r)
    BY <2>3 DEF WriteSummary, WriteText, AfterFinalize, Marker
  <2>4. CASE SupervisorRaises(r)
    BY <2>4 DEF SupervisorRaises, AfterFinalize
  <2>5. CASE ReleaseReservation(r)
    BY <2>5 DEF ReleaseReservation
  <2> QED
    BY <1>4, <2>1, <2>2, <2>3, <2>4, <2>5 DEF SupervisorStep
<1>5. ASSUME NEW r \in Runs, KillStarter(r) PROVE StageInv'
  BY <1>5 DEF KillStarter
<1>6. ASSUME NEW r \in Runs, KillSupervisor(r) \/ OrphanExecutorEnds(r) \/ CleanupMarksOrphan(r)
      PROVE  StageInv'
  BY <1>6 DEF KillSupervisor, OrphanExecutorEnds, CleanupMarksOrphan, StarterDone, Marker
<1>7. ASSUME NEW r \in Runs, StartWait(r) \/ WaiterStep(r) \/ WaitTimeout(r) PROVE StageInv'
  BY <1>7 DEF StartWait, WaiterStep, WaitTimeout, WaiterGoes, ReadSummary, SeePid,
     ProbeSupervisor, ReadSummaryAgain
<1> QED
  BY <1>1, <1>2, <1>3, <1>4, <1>5, <1>6, <1>7 DEF Next, RunStep

(* Only the write of supervisor.pid, which hands the run over, makes a run *)
(* active, and no run changes its role while it is: this is what the mutex *)
(* is for, since everything else happens outside of it.                    *)
ActiveOnlyByRecord ==
  \A q \in Runs :
    /\ IsActive(q)' => IsActive(q) \/ (starter[q] # "handed" /\ starter'[q] = "handed")
    /\ IsActive(q) => role'[q] = role[q]

LEMMA ActiveGrowsOnRecord == TypeOK /\ StageInv /\ [Next]_vars => ActiveOnlyByRecord
<1> SUFFICES ASSUME TypeOK, StageInv, [Next]_vars PROVE ActiveOnlyByRecord
  OBVIOUS
<1> USE DelegationAssumption
    DEF TypeOK, StageInv, StarterState, SupState, SupLive, StarterGoes, SupGoes, Write,
        ReleaseMutex, InCriticalSection, IsTerminalRun, IsActive, SupervisorAlive,
        ActiveOnlyByRecord
<1>1. CASE UNCHANGED vars
  BY <1>1 DEF vars
<1>2. ASSUME NEW r \in Runs, NEW ro \in Roles, StartRun(r, ro) PROVE ActiveOnlyByRecord
  BY <1>2 DEF StartRun
<1>3. ASSUME NEW r \in Runs, StarterStep(r) PROVE ActiveOnlyByRecord
  <2>1. CASE ForegroundPrepared(r) \/ ForegroundBlocked(r) \/ StarterRaises(r)
    BY <2>1 DEF ForegroundPrepared, ForegroundBlocked, StarterRaises, Marker
  <2>2. CASE AcquireMutex(r) \/ MutexTimeout(r) \/ Refuse(r)
    BY <2>2 DEF AcquireMutex, MutexTimeout, Refuse
  <2>3. ASSUME NEW q \in Runs, ScanRun(r, q) PROVE ActiveOnlyByRecord
    BY <2>3 DEF ScanRun
  <2>4. CASE Admit(r) \/ RefusedSummary(r) \/ RefusedText(r)
    BY <2>4 DEF Admit, RefusedSummary, RefusedText, Marker
  <2>5. CASE SpawnSupervisor(r)
    BY <2>5 DEF SpawnSupervisor
  <2>6. CASE RecordSupervisor(r)
    <3>1. \A q \in Runs : q # r => files'[q] = files[q] /\ sup'[q] = sup[q] /\ role'[q] = role[q]
      BY <2>6 DEF RecordSupervisor
    <3> QED
      BY <2>6, <3>1 DEF RecordSupervisor
  <2>7. CASE RecordFails(r)
    BY <2>7 DEF RecordFails
  <2> QED
    BY <1>3, <2>1, <2>2, <2>3, <2>4, <2>5, <2>6, <2>7 DEF StarterStep
<1>4. ASSUME NEW r \in Runs, SupervisorStep(r) PROVE ActiveOnlyByRecord
  <2>1. CASE SupervisorPrepared(r) \/ SupervisorBlocked(r) \/ BlockedSummary(r) \/ BlockedText(r)
    BY <2>1 DEF SupervisorPrepared, SupervisorBlocked, BlockedSummary, BlockedText, Marker
  <2>2. CASE LaunchExecutor(r) \/ ExecutorExits(r) \/ ExecutorInterrupted(r)
    BY <2>2 DEF LaunchExecutor, ExecutorExits, ExecutorInterrupted, Marker
  <2>3. CASE WriteSummary(r) \/ WriteText(r)
    BY <2>3 DEF WriteSummary, WriteText, AfterFinalize, Marker
  <2>4. CASE SupervisorRaises(r)
    BY <2>4 DEF SupervisorRaises, AfterFinalize
  <2>5. CASE ReleaseReservation(r)
    BY <2>5 DEF ReleaseReservation
  <2> QED
    BY <1>4, <2>1, <2>2, <2>3, <2>4, <2>5 DEF SupervisorStep
<1>5. ASSUME NEW r \in Runs, KillStarter(r) \/ KillSupervisor(r) PROVE ActiveOnlyByRecord
  BY <1>5 DEF KillStarter, KillSupervisor
<1>6. ASSUME NEW r \in Runs, OrphanExecutorEnds(r) \/ CleanupMarksOrphan(r) PROVE ActiveOnlyByRecord
  BY <1>6 DEF OrphanExecutorEnds, CleanupMarksOrphan, Marker
<1>7. ASSUME NEW r \in Runs, StartWait(r) \/ WaiterStep(r) \/ WaitTimeout(r) PROVE ActiveOnlyByRecord
  BY <1>7 DEF StartWait, WaiterStep, WaitTimeout, WaiterGoes, ReadSummary, SeePid,
     ProbeSupervisor, ReadSummaryAgain
<1> QED
  BY <1>1, <1>2, <1>3, <1>4, <1>5, <1>6, <1>7 DEF Next, RunStep

(* The guard of Admit.                                                     *)
MayBeAdmitted(r) == starter[r] = "scanning" /\ visited = Runs /\ ~LimitReached(role[r])

(* What the steps that do not record a pid leave alone.                    *)
QuietStep ==
  /\ \/ visited' = {}
     \/ visited' = visited /\ counted' = counted
     \/ \E r, q \in Runs : ScanRun(r, q)
  /\ \A q \in Runs : starter'[q] \in {"marked", "spawned"} =>
       /\ starter[q] \in {"marked", "spawned"} \/ MayBeAdmitted(q)
       /\ role'[q] = role[q]

LEMMA QuietSteps == TypeOK /\ StageInv /\ [Next]_vars => QuietStep
<1> SUFFICES ASSUME TypeOK, StageInv, [Next]_vars PROVE QuietStep
  OBVIOUS
<1> USE DEF QuietStep, TypeOK, StarterGoes, SupGoes, ReleaseMutex
<1>1. CASE UNCHANGED vars
  BY <1>1 DEF vars
<1>2. ASSUME NEW r \in Runs, NEW ro \in Roles, StartRun(r, ro) PROVE QuietStep
  BY <1>2 DEF StartRun
<1>3. ASSUME NEW r \in Runs, StarterStep(r) PROVE QuietStep
  <2>1. CASE ForegroundPrepared(r) \/ ForegroundBlocked(r) \/ StarterRaises(r)
    BY <2>1 DEF ForegroundPrepared, ForegroundBlocked, StarterRaises
  <2>2. CASE AcquireMutex(r) \/ MutexTimeout(r) \/ Refuse(r)
    BY <2>2 DEF AcquireMutex, MutexTimeout, Refuse
  <2>3. ASSUME NEW q \in Runs, ScanRun(r, q) PROVE QuietStep
    BY <2>3 DEF ScanRun
  <2>4. CASE Admit(r)
    <3>1. \A q \in Runs : q # r => starter'[q] = starter[q]
      BY <2>4 DEF Admit
    <3>2. role' = role /\ visited' = visited /\ counted' = counted
      BY <2>4 DEF Admit
    <3>3. MayBeAdmitted(r)
      BY <2>4 DEF Admit, MayBeAdmitted
    <3> QED
      BY <3>1, <3>2, <3>3
  <2>5. CASE RefusedSummary(r) \/ RefusedText(r)
    BY <2>5 DEF RefusedSummary, RefusedText
  <2>6. CASE SpawnSupervisor(r)
    BY <2>6 DEF SpawnSupervisor
  <2>7. CASE RecordSupervisor(r) \/ RecordFails(r)
    BY <2>7 DEF RecordSupervisor, RecordFails
  <2> QED
    BY <1>3, <2>1, <2>2, <2>3, <2>4, <2>5, <2>6, <2>7 DEF StarterStep
<1>4. ASSUME NEW r \in Runs, SupervisorStep(r) PROVE QuietStep
  BY <1>4 DEF SupervisorStep, SupervisorPrepared, SupervisorBlocked, BlockedSummary,
     BlockedText, LaunchExecutor, ExecutorExits, ExecutorInterrupted,
     WriteSummary, WriteText, SupervisorRaises, ReleaseReservation
<1>5. ASSUME NEW r \in Runs, KillStarter(r) \/ KillSupervisor(r) PROVE QuietStep
  BY <1>5 DEF KillStarter, KillSupervisor
<1>6. ASSUME NEW r \in Runs, OrphanExecutorEnds(r) \/ CleanupMarksOrphan(r) PROVE QuietStep
  BY <1>6 DEF OrphanExecutorEnds, CleanupMarksOrphan
<1>7. ASSUME NEW r \in Runs, StartWait(r) \/ WaiterStep(r) \/ WaitTimeout(r) PROVE QuietStep
  BY <1>7 DEF StartWait, WaiterStep, WaitTimeout, WaiterGoes, ReadSummary, SeePid,
     ProbeSupervisor, ReadSummaryAgain
<1> QED
  BY <1>1, <1>2, <1>3, <1>4, <1>5, <1>6, <1>7 DEF Next, RunStep

-------------------------------------------------------------------------------
(* Counting.                                                               *)

LEMMA RunSetsFinite ==
  ASSUME NEW S \in SUBSET Runs
  PROVE  IsFiniteSet(S) /\ Cardinality(S) \in Nat
BY FS_Subset, FS_CardinalityType, DelegationAssumption DEF DelegationAssumption

LEMMA Monotone ==
  ASSUME NEW S \in SUBSET Runs, NEW T \in SUBSET S
  PROVE  Cardinality(T) <= Cardinality(S)
BY FS_Subset, RunSetsFinite

LEMMA OneMore ==
  ASSUME NEW S \in SUBSET Runs, NEW r \in Runs, NEW T \in SUBSET (S \cup {r})
  PROVE  Cardinality(T) <= Cardinality(S) + 1
<1>1. IsFiniteSet(S) /\ Cardinality(S) \in Nat
  BY RunSetsFinite
<1>2. Cardinality(S \cup {r}) = IF r \in S THEN Cardinality(S) ELSE Cardinality(S) + 1
  BY <1>1, FS_AddElement
<1>3. Cardinality(T) <= Cardinality(S \cup {r})
  BY Monotone
<1>4. Cardinality(T) \in Nat /\ Cardinality(S \cup {r}) \in Nat
  BY RunSetsFinite
<1> QED
  BY <1>1, <1>2, <1>3, <1>4

LEMMA ActiveSets == Active \in SUBSET Runs /\ \A ro : ActiveAs(ro) \in SUBSET Runs
BY DEF Active, ActiveAs

(* The step that records a pid is the only one that hands a run over.      *)
LEMMA HandedByRecord ==
  ASSUME TypeOK, [Next]_vars, NEW q \in Runs, starter[q] # "handed", starter'[q] = "handed"
  PROVE  RecordSupervisor(q)
<1> USE DEF TypeOK, StarterGoes
<1>1. PICK r \in Runs : RunStep(r)
  BY DEF Next, vars
<1>2. CASE RecordSupervisor(r)
  BY <1>2 DEF RecordSupervisor
<1>3. CASE StarterStep(r) /\ ~RecordSupervisor(r)
  BY <1>3 DEF StarterStep, ForegroundPrepared, ForegroundBlocked, StarterRaises,
     AcquireMutex, MutexTimeout, ScanRun, Admit, Refuse, RefusedSummary, RefusedText,
     SpawnSupervisor, RecordFails
<1>4. CASE SupervisorStep(r)
  BY <1>4 DEF SupervisorStep, SupervisorPrepared, SupervisorBlocked, BlockedSummary,
     BlockedText, LaunchExecutor, ExecutorExits, ExecutorInterrupted,
     WriteSummary, WriteText, SupervisorRaises, ReleaseReservation
<1>5. CASE \E ro \in Roles : StartRun(r, ro)
  BY <1>5 DEF StartRun
<1>6. CASE KillStarter(r) \/ KillSupervisor(r) \/ OrphanExecutorEnds(r) \/ CleanupMarksOrphan(r)
  BY <1>6 DEF KillStarter, KillSupervisor, OrphanExecutorEnds, CleanupMarksOrphan
<1>7. CASE StartWait(r) \/ WaiterStep(r) \/ WaitTimeout(r)
  BY <1>7 DEF StartWait, WaiterStep, WaitTimeout, WaiterGoes, ReadSummary, SeePid,
     ProbeSupervisor, ReadSummaryAgain
<1> QED
  BY <1>1, <1>2, <1>3, <1>4, <1>5, <1>6, <1>7 DEF RunStep

LEMMA ActiveShrinks ==
  ASSUME IInv, [Next]_vars, NEW ro,
         \A q \in Runs : starter'[q] = "handed" => starter[q] = "handed"
  PROVE  /\ Cardinality(Active') <= Cardinality(Active)
         /\ Cardinality(ActiveAs(ro)') <= Cardinality(ActiveAs(ro))
         /\ Cardinality(Active) \in Nat /\ Cardinality(Active') \in Nat
         /\ Cardinality(ActiveAs(ro)) \in Nat /\ Cardinality(ActiveAs(ro)') \in Nat
<1>1. \A q \in Runs : IsActive(q)' => IsActive(q) /\ role'[q] = role[q]
  BY ActiveGrowsOnRecord DEF IInv, ActiveOnlyByRecord, IsActive, IsTerminalRun, SupervisorAlive
<1>2. Active' \in SUBSET Active
  BY <1>1 DEF Active, IsActive, IsTerminalRun, SupervisorAlive
<1>3. ActiveAs(ro)' \in SUBSET ActiveAs(ro)
  BY <1>1, <1>2 DEF Active, ActiveAs, IsActive, IsTerminalRun, SupervisorAlive
<1>4. Active \in SUBSET Runs /\ ActiveAs(ro) \in SUBSET Runs
  BY DEF Active, ActiveAs
<1> QED
  BY <1>2, <1>3, <1>4, Monotone, RunSetsFinite

-------------------------------------------------------------------------------

LEMMA ScanPreserved ==
  ASSUME IInv, [Next]_vars,
         \A q \in Runs : starter'[q] = "handed" => starter[q] = "handed"
  PROVE  ScanInv'
<1> USE DEF IInv, ScanInv
<1>1. ASSUME NEW q \in visited', IsActive(q)' PROVE q \in counted'
  <2>1. q \in Runs
    BY <1>1, TypePreserved DEF TypeOK
  <2>2. IsActive(q)
    BY <1>1, <2>1, ActiveGrowsOnRecord
       DEF ActiveOnlyByRecord, IsActive, IsTerminalRun, SupervisorAlive
  <2>3. CASE visited' = {}
    BY <1>1, <2>3
  <2>4. CASE visited' = visited /\ counted' = counted
    BY <1>1, <2>2, <2>4
  <2>5. CASE \E r, p \in Runs : ScanRun(r, p)
    BY <1>1, <2>2, <2>5 DEF ScanRun
  <2> QED
    BY <2>3, <2>4, <2>5, QuietSteps DEF QuietStep
<1> QED
  BY <1>1

(* What an admitted run was promised: the scan missed nobody.              *)
LEMMA AdmittedHasRoom ==
  ASSUME IInv, NEW r \in Runs, MayBeAdmitted(r), NEW ro \in Roles, role[r] = ro
  PROVE  /\ Cardinality(Active) < MaxParallel
         /\ ro # Orchestrator => Cardinality(ActiveAs(ro)) < RoleLimit[ro]
<1>1. visited = Runs /\ ~LimitReached(ro)
  BY DEF MayBeAdmitted
<1>2. counted \in SUBSET Runs
  BY DEF IInv, TypeOK
<1>3. Active \in SUBSET counted
  BY <1>1 DEF IInv, ScanInv, Active
<1>4. Cardinality(Active) <= Cardinality(counted)
  BY <1>2, <1>3, Monotone
<1>5. Cardinality(Active) \in Nat /\ Cardinality(counted) \in Nat
  BY <1>2, ActiveSets, RunSetsFinite
<1>6. Cardinality(counted) < MaxParallel
  BY <1>1, <1>5, DelegationAssumption DEF LimitReached, DelegationAssumption
<1>7. ASSUME ro # Orchestrator
      PROVE  Cardinality(ActiveAs(ro)) < RoleLimit[ro]
  <2> DEFINE Charged == {q \in counted : RunRole(q) \in {ro, NoRole}}
  <2>1. ActiveAs(ro) \in SUBSET Charged
    BY <1>3 DEF ActiveAs, Active, IsActive, SupervisorAlive, RunRole, IInv, StageInv
  <2>2. Charged \in SUBSET Runs
    BY <1>2
  <2>3. ~(Cardinality(Charged) >= RoleLimit[ro])
    BY <1>1, <1>7 DEF LimitReached
  <2>4. RoleLimit[ro] \in Nat
    BY DelegationAssumption DEF DelegationAssumption
  <2> HIDE DEF Charged
  <2>5. Cardinality(Charged) \in Nat /\ Cardinality(ActiveAs(ro)) \in Nat
    BY <2>2, ActiveSets, RunSetsFinite
  <2>6. Cardinality(ActiveAs(ro)) <= Cardinality(Charged)
    BY <2>1, <2>2, Monotone
  <2> QED
    BY <2>3, <2>4, <2>5, <2>6
<1> QED
  BY <1>4, <1>5, <1>6, <1>7, DelegationAssumption DEF DelegationAssumption

LEMMA RoomPreserved ==
  ASSUME IInv, [Next]_vars,
         \A q \in Runs : starter'[q] = "handed" => starter[q] = "handed"
  PROVE  RoomInv'
<1>1. ASSUME NEW r \in Runs, NEW ro \in Roles,
             starter'[r] \in {"marked", "spawned"}, role'[r] = ro
      PROVE  /\ Cardinality(Active') < MaxParallel
             /\ ro # Orchestrator => Cardinality(ActiveAs(ro)') < RoleLimit[ro]
  <2>1. /\ role[r] = ro
        /\ starter[r] \in {"marked", "spawned"} \/ MayBeAdmitted(r)
    BY <1>1, QuietSteps DEF QuietStep, IInv
  <2>2. /\ Cardinality(Active) < MaxParallel
        /\ ro # Orchestrator => Cardinality(ActiveAs(ro)) < RoleLimit[ro]
    <3>1. CASE starter[r] \in {"marked", "spawned"}
      BY <2>1, <3>1 DEF IInv, RoomInv
    <3>2. CASE MayBeAdmitted(r)
      BY <2>1, <3>2, AdmittedHasRoom
    <3> QED
      BY <2>1, <3>1, <3>2
  <2>3. MaxParallel \in Nat /\ RoleLimit[ro] \in Nat
    BY DelegationAssumption DEF DelegationAssumption
  <2> QED
    BY <2>2, <2>3, ActiveShrinks
<1> QED
  BY <1>1 DEF RoomInv

LEMMA LimitsPreserved ==
  ASSUME IInv, [Next]_vars,
         \A q \in Runs : starter'[q] = "handed" => starter[q] = "handed"
  PROVE  LimitsInv'
<1>1. MaxParallel \in Nat /\ \A ro \in Roles : RoleLimit[ro] \in Nat
  BY DelegationAssumption DEF DelegationAssumption
<1>2. Cardinality(Active') <= MaxParallel
  BY <1>1, ActiveShrinks DEF IInv, LimitsInv
<1>3. ASSUME NEW ro \in Roles \ {Orchestrator} PROVE Cardinality(ActiveAs(ro)') <= RoleLimit[ro]
  BY <1>1, ActiveShrinks DEF IInv, LimitsInv
<1> QED
  BY <1>2, <1>3 DEF LimitsInv

(* The step that makes a run active: the limits hold with one run more,    *)
(* and the critical section is empty again.                                *)
LEMMA RecordKeeps ==
  ASSUME IInv, [Next]_vars, NEW r \in Runs, starter[r] # "handed", starter'[r] = "handed"
  PROVE  ScanInv' /\ RoomInv' /\ LimitsInv'
<1> DEFINE ro == role[r]
<1>1. RecordSupervisor(r)
  BY HandedByRecord DEF IInv
<1>2. /\ visited' = {} /\ role' = role
      /\ starter[r] \in {"marked", "spawned"}
      /\ starter' = [starter EXCEPT ![r] = "handed"]
      /\ \A q \in Runs \ {r} : files'[q] = files[q] /\ sup'[q] = sup[q]
  BY <1>1 DEF RecordSupervisor, StarterGoes, SupGoes, Write, ReleaseMutex, IInv, TypeOK
<1>3. \A q \in Runs : starter'[q] \notin {"marked", "spawned"}
  BY <1>2 DEF IInv, StageInv, TypeOK, InCriticalSection
<1>4. Active' \in SUBSET (Active \cup {r}) /\ Active \in SUBSET Runs
  BY <1>2 DEF Active, IsActive, IsTerminalRun, SupervisorAlive
<1>5. PICK one \in Roles : one = role[r]
  BY <1>2 DEF IInv, StageInv
<1>6. /\ Cardinality(Active) < MaxParallel
      /\ one # Orchestrator => Cardinality(ActiveAs(one)) < RoleLimit[one]
  BY <1>2, <1>5 DEF IInv, RoomInv
<1>7. MaxParallel \in Nat /\ \A any \in Roles : RoleLimit[any] \in Nat
  BY DelegationAssumption DEF DelegationAssumption
<1>8. Cardinality(Active') <= MaxParallel
  <2>1. Cardinality(Active') <= Cardinality(Active) + 1
    BY <1>4, OneMore
  <2>2. Cardinality(Active) \in Nat /\ Cardinality(Active') \in Nat
    BY <1>4, RunSetsFinite
  <2> QED
    BY <1>6, <1>7, <2>1, <2>2
<1>9. ASSUME NEW any \in Roles \ {Orchestrator}
      PROVE  Cardinality(ActiveAs(any)') <= RoleLimit[any]
  <2>1. ActiveAs(any) \in SUBSET Runs
    BY ActiveSets
  <2>2. CASE any = one
    <3>1. ActiveAs(any)' \in SUBSET (ActiveAs(any) \cup {r})
      BY <1>2, <1>4 DEF ActiveAs
    <3>2. Cardinality(ActiveAs(any)') <= Cardinality(ActiveAs(any)) + 1
      BY <2>1, <3>1, OneMore
    <3>3. Cardinality(ActiveAs(any)) \in Nat /\ Cardinality(ActiveAs(any)') \in Nat
      BY <2>1, <3>1, RunSetsFinite
    <3> QED
      BY <1>6, <1>7, <2>2, <3>2, <3>3
  <2>3. CASE any # one
    <3>1. ActiveAs(any)' \in SUBSET ActiveAs(any)
      BY <1>2, <1>4, <1>5, <2>3 DEF ActiveAs
    <3>2. Cardinality(ActiveAs(any)') <= Cardinality(ActiveAs(any))
      BY <2>1, <3>1, Monotone
    <3>3. Cardinality(ActiveAs(any)) \in Nat /\ Cardinality(ActiveAs(any)') \in Nat
      BY <2>1, <3>1, RunSetsFinite
    <3> QED
      BY <1>7, <3>2, <3>3 DEF IInv, LimitsInv
  <2> QED
    BY <2>2, <2>3
<1> QED
  BY <1>2, <1>3, <1>8, <1>9 DEF ScanInv, RoomInv, LimitsInv

LEMMA IInvPreserved == IInv /\ [Next]_vars => IInv'
<1> SUFFICES ASSUME IInv, [Next]_vars PROVE IInv'
  OBVIOUS
<1>1. TypeOK' /\ StageInv'
  BY TypePreserved, StagePreserved DEF IInv
<1>2. CASE \E r \in Runs : starter[r] # "handed" /\ starter'[r] = "handed"
  BY <1>1, <1>2, RecordKeeps DEF IInv
<1>3. CASE \A r \in Runs : starter'[r] = "handed" => starter[r] = "handed"
  BY <1>1, <1>3, ScanPreserved, RoomPreserved, LimitsPreserved DEF IInv
<1> QED
  BY <1>2, <1>3

-------------------------------------------------------------------------------

(* The files, processes and locks of every run stay within their types.    *)
THEOREM TypeCorrect == Spec => []TypeOK
<1>1. IInv => TypeOK
  BY DEF IInv
<1> QED
  BY <1>1, InitIInv, IInvPreserved, PTL DEF Spec

-------------------------------------------------------------------------------
(* With starters that are not killed between Popen and the write of the    *)
(* pid, a supervisor at work is one the scan can see.                      *)

SeenInv ==
  \A r \in Runs :
    /\ sup[r] \in {"preparing", "ready", "executing"} => ~IsTerminalRun(r)
    /\ sup[r] \in SupLive => /\ "ORPHANED" \notin files[r]
                             /\ "supervisor.pid" \in files[r] \/ starter[r] = "spawned"

LEMMA SeenPreserved ==
  ~KillWhileSpawning /\ TypeOK /\ StageInv /\ SeenInv /\ [Next]_vars => SeenInv'
<1> SUFFICES ASSUME ~KillWhileSpawning, TypeOK, StageInv, SeenInv, [Next]_vars PROVE SeenInv'
  OBVIOUS
<1> USE DelegationAssumption
    DEF TypeOK, StageInv, SeenInv, SupState, SupLive, StarterGoes, SupGoes, Write,
        ReleaseMutex, InCriticalSection, IsTerminalRun, SupervisorAlive
<1>1. CASE UNCHANGED vars
  BY <1>1 DEF vars
<1>2. ASSUME NEW r \in Runs, NEW ro \in Roles, StartRun(r, ro) PROVE SeenInv'
  BY <1>2 DEF StartRun
<1>3. ASSUME NEW r \in Runs, StarterStep(r) PROVE SeenInv'
  <2>1. CASE ForegroundPrepared(r) \/ ForegroundBlocked(r) \/ StarterRaises(r)
    BY <2>1 DEF ForegroundPrepared, ForegroundBlocked, StarterRaises, Marker
  <2>2. CASE AcquireMutex(r) \/ MutexTimeout(r) \/ Refuse(r)
    BY <2>2 DEF AcquireMutex, MutexTimeout, Refuse
  <2>3. ASSUME NEW q \in Runs, ScanRun(r, q) PROVE SeenInv'
    BY <2>3 DEF ScanRun
  <2>4. CASE Admit(r)
    BY <2>4 DEF Admit, Marker
  <2>5. CASE RefusedSummary(r) \/ RefusedText(r)
    BY <2>5 DEF RefusedSummary, RefusedText, Marker
  <2>6. CASE SpawnSupervisor(r)
    BY <2>6 DEF SpawnSupervisor
  <2>7. CASE RecordSupervisor(r)
    BY <2>7 DEF RecordSupervisor, Marker
  <2>8. CASE RecordFails(r)
    BY <2>8 DEF RecordFails
  <2> QED
    BY <1>3, <2>1, <2>2, <2>3, <2>4, <2>5, <2>6, <2>7, <2>8 DEF StarterStep
<1>4. ASSUME NEW r \in Runs, SupervisorStep(r) PROVE SeenInv'
  <2>1. CASE SupervisorPrepared(r) \/ SupervisorBlocked(r) \/ BlockedSummary(r) \/ BlockedText(r)
    BY <2>1 DEF SupervisorPrepared, SupervisorBlocked, BlockedSummary, BlockedText, Marker
  <2>2. CASE LaunchExecutor(r) \/ ExecutorExits(r) \/ ExecutorInterrupted(r)
    BY <2>2 DEF LaunchExecutor, ExecutorExits, ExecutorInterrupted, Marker
  <2>3. CASE WriteSummary(r) \/ WriteText(r)
    BY <2>3 DEF WriteSummary, WriteText, AfterFinalize, Marker
  <2>4. CASE SupervisorRaises(r)
    BY <2>4 DEF SupervisorRaises, AfterFinalize
  <2>5. CASE ReleaseReservation(r)
    BY <2>5 DEF ReleaseReservation
  <2> QED
    BY <1>4, <2>1, <2>2, <2>3, <2>4, <2>5 DEF SupervisorStep
<1>5. ASSUME NEW r \in Runs, KillStarter(r) PROVE SeenInv'
  BY <1>5 DEF KillStarter
<1>6. ASSUME NEW r \in Runs, KillSupervisor(r) \/ OrphanExecutorEnds(r) PROVE SeenInv'
  BY <1>6 DEF KillSupervisor, OrphanExecutorEnds
<1>7. ASSUME NEW r \in Runs, CleanupMarksOrphan(r) PROVE SeenInv'
  BY <1>7 DEF CleanupMarksOrphan, StarterDone, Marker
<1>8. ASSUME NEW r \in Runs, StartWait(r) \/ WaiterStep(r) \/ WaitTimeout(r) PROVE SeenInv'
  BY <1>8 DEF StartWait, WaiterStep, WaitTimeout, WaiterGoes, ReadSummary, SeePid,
     ProbeSupervisor, ReadSummaryAgain
<1> QED
  BY <1>1, <1>2, <1>3, <1>4, <1>5, <1>6, <1>7, <1>8 DEF Next, RunStep

LEMMA SeenAlways ==
  ASSUME ~KillWhileSpawning
  PROVE  Spec => [](IInv /\ SeenInv)
<1>1. Init => SeenInv
  BY DEF Init, SeenInv, SupLive
<1>2. IInv /\ SeenInv /\ [Next]_vars => SeenInv'
  BY SeenPreserved DEF IInv
<1> QED
  BY <1>1, <1>2, InitIInv, IInvPreserved, PTL DEF Spec

LEMMA CapacityFromInv == IInv /\ SeenInv => CapacityRespected
<1> SUFFICES ASSUME IInv, SeenInv PROVE CapacityRespected
  OBVIOUS
<1>1. \A r \in Executing : r \in Active \/ (starter[r] = "spawned" /\ mutex = r)
  BY DEF Executing, Active, IsActive, SupervisorAlive, SeenInv, SupLive, SupState, IInv,
     StageInv, InCriticalSection
<1>2. MaxParallel \in Nat /\ \A any \in Roles : RoleLimit[any] \in Nat
  BY DelegationAssumption DEF DelegationAssumption
<1>3. /\ Executing \in SUBSET Runs /\ Active \in SUBSET Runs
      /\ \A any : ExecutingAs(any) \in SUBSET Runs /\ ActiveAs(any) \in SUBSET Runs
  BY DEF Executing, ExecutingAs, Active, ActiveAs
<1>4. /\ Cardinality(Executing) \in Nat /\ Cardinality(Active) \in Nat
      /\ \A any : Cardinality(ExecutingAs(any)) \in Nat /\ Cardinality(ActiveAs(any)) \in Nat
  BY <1>3, RunSetsFinite
<1>5. CASE Executing \in SUBSET Active
  <2>1. Cardinality(Executing) <= Cardinality(Active)
    BY <1>3, <1>5, Monotone
  <2>2. ASSUME NEW any \in Roles
        PROVE  Cardinality(ExecutingAs(any)) <= Cardinality(ActiveAs(any))
    <3>1. ExecutingAs(any) \in SUBSET ActiveAs(any)
      BY <1>5 DEF ExecutingAs, ActiveAs
    <3> QED
      BY <1>3, <3>1, Monotone
  <2> QED
    BY <1>2, <1>4, <2>1, <2>2 DEF CapacityRespected, IInv, LimitsInv
<1>6. ASSUME NEW r \in Runs, r \in Executing, starter[r] = "spawned", mutex = r
      PROVE  CapacityRespected
  <2>1. Executing \in SUBSET (Active \cup {r})
    BY <1>1, <1>6
  <2>2. PICK one \in Roles : one = role[r]
    BY <1>6 DEF IInv, StageInv
  <2>3. /\ Cardinality(Active) < MaxParallel
        /\ one # Orchestrator => Cardinality(ActiveAs(one)) < RoleLimit[one]
    BY <1>6, <2>2 DEF IInv, RoomInv
  <2>4. Cardinality(Executing) <= Cardinality(Active) + 1
    BY <1>3, <2>1, OneMore
  <2>5. ASSUME NEW any \in Roles \ {Orchestrator}
        PROVE  Cardinality(ExecutingAs(any)) <= RoleLimit[any]
    <3>1. CASE any = one
      <4>1. ExecutingAs(any) \in SUBSET (ActiveAs(any) \cup {r})
        BY <2>1 DEF ExecutingAs, ActiveAs
      <4>2. Cardinality(ExecutingAs(any)) <= Cardinality(ActiveAs(any)) + 1
        BY <1>3, <4>1, OneMore
      <4> QED
        BY <1>2, <1>4, <2>3, <3>1, <4>2
    <3>2. CASE any # one
      <4>1. ExecutingAs(any) \in SUBSET ActiveAs(any)
        BY <2>1, <2>2, <3>2 DEF ExecutingAs, ActiveAs
      <4>2. Cardinality(ExecutingAs(any)) <= Cardinality(ActiveAs(any))
        BY <1>3, <4>1, Monotone
      <4> QED
        BY <1>2, <1>4, <4>2 DEF IInv, LimitsInv
    <3> QED
      BY <3>1, <3>2
  <2> QED
    BY <1>2, <1>4, <2>3, <2>4, <2>5 DEF CapacityRespected
<1> QED
  BY <1>1, <1>3, <1>5, <1>6

(* max_parallel and the per-role limits hold of the supervised executors.  *)
THEOREM CapacityTheorem ==
  ASSUME ~KillWhileSpawning
  PROVE  Spec => []CapacityRespected
BY SeenAlways, CapacityFromInv, PTL

(* cleanup marks only runs whose supervisor is gone.                       *)
THEOREM OrphanTheorem ==
  ASSUME ~KillWhileSpawning
  PROVE  Spec => []OrphanedIsAbandoned
<1>1. SeenInv => OrphanedIsAbandoned
  BY DEF SeenInv, OrphanedIsAbandoned
<1> QED
  BY <1>1, SeenAlways, PTL

(* The role marker of a run that is counted says the run's own role.       *)
THEOREM RoleTheorem == Spec => []CountedRoleKnown
<1>1. IInv => CountedRoleKnown
  BY DelegationAssumption
     DEF IInv, StageInv, CountedRoleKnown, Active, IsActive, SupervisorAlive, RunRole,
         DelegationAssumption
<1> QED
  BY <1>1, InitIInv, IInvPreserved, PTL DEF Spec

-------------------------------------------------------------------------------
(* A supervisor that `wait` found dead, after its pid was on disk, stays   *)
(* dead, and with the starter gone nobody is left to write a summary.      *)

WaiterInv ==
  \A r \in Runs :
    /\ starter[r] = "handed" => "supervisor.pid" \in files[r] \/ sup[r] \notin SupLive
    /\ waiter[r] \in {"pid_seen", "suspect", "died"} => starter[r] = "handed"
    /\ waiter[r] \in {"suspect", "died"} => sup[r] \notin SupLive
    /\ waiter[r] = "died" => ~Completed(r)

LEMMA WaiterPreserved == TypeOK /\ StageInv /\ WaiterInv /\ [Next]_vars => WaiterInv'
<1> SUFFICES ASSUME TypeOK, StageInv, WaiterInv, [Next]_vars PROVE WaiterInv'
  OBVIOUS
<1> USE DEF TypeOK, StageInv, WaiterInv, SupState, SupLive, StarterGoes, SupGoes, Write,
        ReleaseMutex, InCriticalSection, Completed
<1>1. CASE UNCHANGED vars
  BY <1>1 DEF vars
<1>2. ASSUME NEW r \in Runs, NEW ro \in Roles, StartRun(r, ro) PROVE WaiterInv'
  BY <1>2 DEF StartRun
<1>3. ASSUME NEW r \in Runs, StarterStep(r) PROVE WaiterInv'
  <2>1. CASE ForegroundPrepared(r) \/ ForegroundBlocked(r) \/ StarterRaises(r)
    BY <2>1 DEF ForegroundPrepared, ForegroundBlocked, StarterRaises, Marker
  <2>2. CASE AcquireMutex(r) \/ MutexTimeout(r) \/ Refuse(r)
    BY <2>2 DEF AcquireMutex, MutexTimeout, Refuse
  <2>3. ASSUME NEW q \in Runs, ScanRun(r, q) PROVE WaiterInv'
    BY <2>3 DEF ScanRun
  <2>4. CASE Admit(r) \/ RefusedSummary(r) \/ RefusedText(r)
    BY <2>4 DEF Admit, RefusedSummary, RefusedText, Marker
  <2>5. CASE SpawnSupervisor(r)
    BY <2>5 DEF SpawnSupervisor
  <2>6. CASE RecordSupervisor(r)
    BY <2>6 DEF RecordSupervisor, Marker
  <2>7. CASE RecordFails(r)
    BY <2>7 DEF RecordFails
  <2> QED
    BY <1>3, <2>1, <2>2, <2>3, <2>4, <2>5, <2>6, <2>7 DEF StarterStep
<1>4. ASSUME NEW r \in Runs, SupervisorStep(r) PROVE WaiterInv'
  <2>1. CASE SupervisorPrepared(r) \/ SupervisorBlocked(r) \/ BlockedSummary(r) \/ BlockedText(r)
    BY <2>1 DEF SupervisorPrepared, SupervisorBlocked, BlockedSummary, BlockedText, Marker
  <2>2. CASE LaunchExecutor(r) \/ ExecutorExits(r) \/ ExecutorInterrupted(r)
    BY <2>2 DEF LaunchExecutor, ExecutorExits, ExecutorInterrupted, Marker
  <2>3. CASE WriteSummary(r) \/ WriteText(r)
    BY <2>3 DEF WriteSummary, WriteText, AfterFinalize, Marker
  <2>4. CASE SupervisorRaises(r)
    BY <2>4 DEF SupervisorRaises, AfterFinalize
  <2>5. CASE ReleaseReservation(r)
    BY <2>5 DEF ReleaseReservation
  <2> QED
    BY <1>4, <2>1, <2>2, <2>3, <2>4, <2>5 DEF SupervisorStep
<1>5. ASSUME NEW r \in Runs, KillStarter(r) \/ KillSupervisor(r) \/ OrphanExecutorEnds(r)
      PROVE  WaiterInv'
  BY <1>5 DEF KillStarter, KillSupervisor, OrphanExecutorEnds
<1>6. ASSUME NEW r \in Runs, CleanupMarksOrphan(r) PROVE WaiterInv'
  BY <1>6 DEF CleanupMarksOrphan, Marker
<1>7. ASSUME NEW r \in Runs, StartWait(r) \/ WaitTimeout(r) PROVE WaiterInv'
  BY <1>7 DEF StartWait, WaitTimeout, WaiterGoes
<1>8. ASSUME NEW r \in Runs, WaiterStep(r) PROVE WaiterInv'
  BY <1>8 DEF WaiterStep, WaiterGoes, ReadSummary, SeePid, ProbeSupervisor, ReadSummaryAgain,
     SupervisorAlive
<1> QED
  BY <1>1, <1>2, <1>3, <1>4, <1>5, <1>6, <1>7, <1>8 DEF Next, RunStep

(* `wait` reports a dead supervisor only of a run that never completes.    *)
THEOREM DiedTheorem == Spec => []DiedIsFinal
<1>1. Init => WaiterInv
  BY DEF Init, WaiterInv, SupLive
<1>2. IInv /\ WaiterInv /\ [Next]_vars => WaiterInv'
  BY WaiterPreserved DEF IInv
<1>3. WaiterInv => DiedIsFinal
  BY DEF WaiterInv, DiedIsFinal
<1> QED
  BY <1>1, <1>2, <1>3, InitIInv, IInvPreserved, PTL DEF Spec

-------------------------------------------------------------------------------
(* The refinement: recording a pid takes a slot, every other step gives    *)
(* back at most the slot of its own run.                                   *)

LEMMA OneRunMoves ==
  ASSUME TypeOK, NEW r \in Runs, RunStep(r), NEW q \in Runs \ {r}
  PROVE  /\ files'[q] = files[q]
         /\ sup'[q] = sup[q]
         /\ role'[q] = role[q]
         /\ starter'[q] = starter[q]
<1> USE DEF TypeOK, StarterGoes, SupGoes, Write
<1>1. CASE StarterStep(r)
  BY <1>1 DEF StarterStep, ForegroundPrepared, ForegroundBlocked, StarterRaises,
     AcquireMutex, MutexTimeout, ScanRun, Admit, Refuse, RefusedSummary, RefusedText,
     SpawnSupervisor, RecordSupervisor, RecordFails
<1>2. CASE SupervisorStep(r)
  BY <1>2 DEF SupervisorStep, SupervisorPrepared, SupervisorBlocked, BlockedSummary,
     BlockedText, LaunchExecutor, ExecutorExits, ExecutorInterrupted,
     WriteSummary, WriteText, SupervisorRaises, ReleaseReservation
<1>3. CASE \E ro \in Roles : StartRun(r, ro)
  BY <1>3 DEF StartRun
<1>4. CASE KillStarter(r) \/ KillSupervisor(r) \/ OrphanExecutorEnds(r) \/ CleanupMarksOrphan(r)
  BY <1>4 DEF KillStarter, KillSupervisor, OrphanExecutorEnds, CleanupMarksOrphan
<1>5. CASE StartWait(r) \/ WaiterStep(r) \/ WaitTimeout(r)
  BY <1>5 DEF StartWait, WaiterStep, WaitTimeout, WaiterGoes, ReadSummary, SeePid,
     ProbeSupervisor, ReadSummaryAgain
<1> QED
  BY <1>1, <1>2, <1>3, <1>4, <1>5 DEF RunStep

LEMMA SlotOfRun ==
  ASSUME IInv, NEW r \in Runs
  PROVE  /\ Slot[r] = IF IsActive(r) THEN role[r] ELSE NoRole
         /\ IsActive(r) => role[r] \in Roles /\ role[r] # NoRole
BY DelegationAssumption
   DEF Slot, IInv, StageInv, IsActive, SupervisorAlive, DelegationAssumption

LEMMA PoolCounts == ASSUME NEW S PROVE Pool!Cardinality(S) = Cardinality(S)
BY DEF Pool!Cardinality, Cardinality

LEMMA HoldersAreActive ==
  ASSUME IInv
  PROVE  /\ Pool!Holders = Active
         /\ \A ro \in Roles : Pool!HoldersOf(ro) = ActiveAs(ro)
<1>1. \A ro \in Roles : ro # NoRole
  BY DelegationAssumption DEF DelegationAssumption
<1>2. \A r \in Runs : (Slot[r] # NoRole <=> IsActive(r)) /\ (IsActive(r) => Slot[r] = role[r])
  BY SlotOfRun
<1>3. Pool!Holders = Active
  BY <1>2 DEF Pool!Holders, Active
<1>4. ASSUME NEW ro \in Roles PROVE Pool!HoldersOf(ro) = ActiveAs(ro)
  BY <1>1, <1>2, <1>4 DEF Pool!HoldersOf, ActiveAs, Active
<1> QED
  BY <1>3, <1>4

(* The slots after a step of run r, all of them but its own unchanged.     *)
LEMMA SlotAfter ==
  ASSUME IInv, NEW r \in Runs, RunStep(r)
  PROVE  Slot' = [Slot EXCEPT ![r] = IF IsActive(r)' THEN role'[r] ELSE NoRole]
<1>1. \A q \in Runs \ {r} : IsActive(q)' = IsActive(q) /\ role'[q] = role[q]
  BY OneRunMoves DEF IInv, IsActive, IsTerminalRun, SupervisorAlive
<1> QED
  BY <1>1 DEF Slot, IsActive, IsTerminalRun, SupervisorAlive

LEMMA PoolStep == IInv /\ [Next]_vars => [Pool!Next]_Slot
<1> SUFFICES ASSUME IInv, [Next]_vars PROVE [Pool!Next]_Slot
  OBVIOUS
<1>1. CASE UNCHANGED vars
  BY <1>1 DEF vars, Slot, IsActive, IsTerminalRun, SupervisorAlive
<1>2. ASSUME NEW r \in Runs, RunStep(r) PROVE [Pool!Next]_Slot
  <2> DEFINE after == IF IsActive(r)' THEN role'[r] ELSE NoRole
  <2>1. Slot' = [Slot EXCEPT ![r] = after] /\ Slot \in [Runs -> Roles \cup {NoRole}]
    BY <1>2, SlotAfter, SlotOfRun DEF Slot
  <2>2. IsActive(r) => role'[r] = role[r]
    BY ActiveGrowsOnRecord DEF IInv, ActiveOnlyByRecord
  <2>3. CASE IsActive(r) /\ IsActive(r)'
    <3>1. after = Slot[r]
      BY <2>2, <2>3, SlotOfRun
    <3> QED
      BY <2>1, <3>1
  <2>4. CASE IsActive(r) /\ ~IsActive(r)'
    <3>1. Slot[r] # NoRole /\ after = NoRole
      BY <2>4, SlotOfRun
    <3>2. Pool!Give(r)
      BY <2>1, <3>1 DEF Pool!Give
    <3> QED
      BY <3>2 DEF Pool!Next
  <2>5. CASE ~IsActive(r) /\ ~IsActive(r)'
    <3>1. after = Slot[r]
      BY <2>5, SlotOfRun
    <3> QED
      BY <2>1, <3>1
  <2>6. CASE ~IsActive(r) /\ IsActive(r)'
    <3>1. starter[r] # "handed" /\ starter'[r] = "handed"
      BY <2>6, ActiveGrowsOnRecord
         DEF IInv, ActiveOnlyByRecord, IsActive, IsTerminalRun, SupervisorAlive
    <3>2. RecordSupervisor(r)
      BY <3>1, HandedByRecord DEF IInv
    <3>3. role' = role /\ starter[r] \in {"marked", "spawned"}
      BY <3>2 DEF RecordSupervisor, StarterGoes
    <3>4. PICK one \in Roles : one = role[r]
      BY <3>3 DEF IInv, StageInv
    <3>5. /\ Cardinality(Active) < MaxParallel
          /\ one # Orchestrator => Cardinality(ActiveAs(one)) < RoleLimit[one]
      BY <3>3, <3>4 DEF IInv, RoomInv
    <3>6. Slot[r] = NoRole /\ after = one
      BY <2>6, <3>3, <3>4, SlotOfRun
    <3>7. Pool!Take(r, one)
      BY <2>1, <3>5, <3>6, HoldersAreActive, PoolCounts DEF Pool!Take
    <3> QED
      BY <3>7 DEF Pool!Next
  <2> QED
    BY <2>3, <2>4, <2>5, <2>6
<1> QED
  BY <1>1, <1>2 DEF Next

(* Delegation implements CapacityPool.                                     *)
THEOREM PoolTheorem == Spec => ImplementsPool
<1>1. Init => Pool!Init
  BY DEF Init, Pool!Init, Slot, IsActive, SupervisorAlive
<1> QED
  BY <1>1, PoolStep, InitIInv, IInvPreserved, PTL DEF Spec, ImplementsPool, Pool!Spec
===============================================================================
