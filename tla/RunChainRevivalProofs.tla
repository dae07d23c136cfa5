-------------------------- MODULE RunChainRevivalProofs --------------------------
(***************************************************************************)
(* The revival of a run that hit its usage limit: it happens under the     *)
(* run's lock, once, not after a dismissal, and again after an             *)
(* interruption.                                                           *)
(***************************************************************************)
EXTENDS RunChainProofs

(* A call reads without the lock only what is no limited run and will not  *)
(* become one; so a revival has the lock, and nobody else has.             *)
LockInv ==
  /\ \A c, d \in Callers :
       call[c].lock /\ call[d].lock /\ call[c].target = call[d].target => c = d
  /\ \A c \in Callers :
       /\ call[c].pc = "reading" /\ ~call[c].lock =>
            \/ state[call[c].target] \in State /\ state[call[c].target].outcome # "limited"
            \/ /\ state[call[c].target] = NoState
               /\ \A d \in Callers : call[d].new # call[c].target
       /\ call[c].pc \in Working /\ call[c].kind = "revival" => call[c].lock

(* Who comes to hold a lock, and on which run.                             *)
LocksMove ==
  \A d \in Callers :
    call'[d].lock =>
      \/ call[d].lock /\ call'[d].target = call[d].target
      \/ ~LockHeld(call'[d].target) /\ \A c \in Callers \ {d} : call'[c] = call[c]

LEMMA LocksMoving == Base /\ [Next]_vars => LocksMove
<1> SUFFICES ASSUME Base, [Next]_vars PROVE LocksMove
  OBVIOUS
<1>1. TypeOK
  BY DEF Base
<1>2. CASE call' = call
  BY <1>2 DEF LocksMove
<1>3. ASSUME NEW c \in Callers, OthersKeep(c), ~call'[c].lock PROVE LocksMove
  BY <1>3 DEF OthersKeep, LocksMove
<1>4. ASSUME NEW c \in Callers, OthersKeep(c), call'[c].lock = call[c].lock,
             call'[c].target = call[c].target
      PROVE  LocksMove
  BY <1>4 DEF OthersKeep, LocksMove
<1>5. ASSUME NEW c \in Callers, NEW r \in Runs, Delegate(c, r) PROVE LocksMove
  BY <1>1, <1>3, <1>5, BeginEffects DEF Begins
<1>6. ASSUME NEW c \in Callers, NEW r \in Runs, Escalate(c, r) PROVE LocksMove
  BY <1>1, <1>3, <1>6, BeginEffects DEF Begins
<1>7. ASSUME NEW c \in Callers, NEW r \in Runs, NEW kind \in Requests, Peek(c, r, kind)
      PROVE  LocksMove
  <2>1. OthersKeep(c) /\ ~call'[c].lock
    BY <1>1, <1>7, BeginEffects DEF Begins
  <2> QED
    BY <1>3, <2>1
<1>8. ASSUME NEW c \in Callers, NEW r \in Runs, StartDismissal(c, r) PROVE LocksMove
  <2>1. OthersKeep(c) /\ call'[c].target = r /\ ~LockHeld(r)
    BY <1>1, <1>8, BeginEffects DEF Begins, StartDismissal
  <2> QED
    BY <2>1 DEF LocksMove, OthersKeep
<1>9. ASSUME NEW c \in Callers, NEW r \in Runs, Resume(c, r) PROVE LocksMove
  BY <1>1, <1>4, <1>9, ResumeEffect DEF Begins
<1>10. ASSUME NEW c \in Callers, TakeLock(c) PROVE LocksMove
  <2>1. CASE LockHeld(call[c].target)
    BY <1>1, <1>3, <1>10, <2>1, TakeLockEffect DEF Stops
  <2>2. CASE ~LockHeld(call[c].target)
    BY <1>1, <1>10, <2>2, TakeLockEffect DEF GoesOn, OthersKeep, LocksMove
  <2> QED
    BY <2>1, <2>2
<1>11. ASSUME NEW c \in Callers,
              RefuseResume(c) \/ CallStops(c) \/ PrepareBlocked(c) \/ WriteBack(c)
              \/ Launch(c) \/ ReserveRevival(c) \/ MarkRevivedState(c) \/ MarkRevivedFile(c)
              \/ FinalizeState(c) \/ FinalizeText(c) \/ ReadBack(c) \/ WriteEscalated(c)
              \/ DismissState(c) \/ DismissMarker(c)
       PROVE  LocksMove
  <2>1. Stops(c) \/ \E pc : GoesOn(c, pc) /\ call'[c].lock = call[c].lock
    BY <1>1, <1>11, MoveEffects, ReadBackEffect, EscalatedEffect DEF Keeps
  <2> QED
    BY <1>3, <1>4, <2>1 DEF Stops, GoesOn
<1>12. ASSUME NEW r \in Runs, ResetPasses(r) \/ Discard(r) PROVE LocksMove
  BY <1>2, <1>12 DEF ResetPasses, Discard
<1> QED
  BY <1>2, <1>5, <1>6, <1>7, <1>8, <1>9, <1>10, <1>11, <1>12 DEF Next, CallStep, vars

LEMMA LockPreserved == Base /\ LockInv /\ [Next]_vars => LockInv'
<1> SUFFICES ASSUME Base, LockInv, [Next]_vars PROVE LockInv'
  OBVIOUS
<1>1. TypeOK /\ CallInv /\ RunInv /\ StageInv /\ CallsMove /\ LocksMove /\ StateKept
  BY CallsMoving, LocksMoving, StateStays DEF Base
<1> USE ChainAssumption, NoStateAssumption
<1>2. \A c, d \in Callers :
        call'[c].lock /\ call'[d].lock /\ call'[c].target = call'[d].target => c = d
  BY <1>1 DEF LocksMove, LockInv, LockHeld
(* What was read stays what it is.                                         *)
<1>3. ASSUME NEW r \in Runs, Exists(r),
             \/ state[r] \in State /\ state[r].outcome # "limited"
             \/ state[r] = NoState /\ \A d \in Callers : call[d].new # r
      PROVE  \/ state'[r] \in State /\ state'[r].outcome # "limited"
             \/ state'[r] = NoState /\ \A d \in Callers : call'[d].new # r
  BY <1>1, <1>3 DEF StateKept, Settled, CallsMove
<1> DEFINE Fine(d) ==
      /\ call'[d].pc = "reading" /\ ~call'[d].lock =>
           \/ state'[call'[d].target] \in State /\ state'[call'[d].target].outcome # "limited"
           \/ /\ state'[call'[d].target] = NoState
              /\ \A e \in Callers : call'[e].new # call'[d].target
      /\ call'[d].pc \in Working /\ call'[d].kind = "revival" => call'[d].lock
<1>4. ASSUME NEW d \in Callers, call'[d] = call[d] PROVE Fine(d)
  <2>1. call[d].pc = "reading" => call[d].target \in Runs /\ Exists(call[d].target)
    BY <1>1 DEF CallInv, RunInv
  <2> QED
    BY <1>3, <1>4, <2>1 DEF LockInv
<1>5. ASSUME NEW c \in Callers, OthersKeep(c), Fine(c) PROVE LockInv'
  BY <1>2, <1>4, <1>5 DEF OthersKeep, LockInv
<1>6. CASE call' = call
  BY <1>2, <1>4, <1>6 DEF LockInv
<1>7. ASSUME NEW c \in Callers, NEW r \in Runs, Delegate(c, r) \/ StartDismissal(c, r)
      PROVE  LockInv'
  BY <1>1, <1>5, <1>7, BeginEffects DEF Begins, Working, Unwritten, Unlaunched, Finished
<1>8. ASSUME NEW c \in Callers, NEW r \in Runs, Escalate(c, r) PROVE LockInv'
  BY <1>1, <1>5, <1>8, BeginEffects DEF Begins, Working, Unwritten, Unlaunched, Finished
<1>9. ASSUME NEW c \in Callers, NEW r \in Runs, NEW kind \in Requests, Peek(c, r, kind)
      PROVE  LockInv'
  <2>1. Begins(c, IF state[r] # NoState /\ state[r].outcome = "limited"
                    THEN "locking" ELSE "reading", kind, r, NoState, NoRun)
    BY <1>1, <1>9, BeginEffects
  <2>2. state' = state /\ Exists(r)
    BY <1>9 DEF Peek, files, Named
  <2>3. call'[c].pc = "reading" =>
          \/ state[r] \in State /\ state[r].outcome # "limited"
          \/ state[r] = NoState /\ \A d \in Callers : call[d].new # r
    BY <1>1, <1>9, <2>1 DEF Begins, Peek, Named, TypeOK
  <2> QED
    BY <1>3, <1>5, <2>1, <2>2, <2>3 DEF Begins, Working, Unwritten, Unlaunched, Finished
<1>10. ASSUME NEW c \in Callers, NEW r \in Runs, Resume(c, r) PROVE LockInv'
  <2>1. /\ Begins(c, "preparing", KindOf(c), call[c].target, state[call[c].target], r)
        /\ call'[c].lock = call[c].lock
    BY <1>1, <1>10, ResumeEffect
  <2>2. KindOf(c) = "revival" => call[c].lock
    BY <1>1, <1>10 DEF Resume, MayResume, KindOf, LockInv, CallInv, Replies
  <2> QED
    BY <1>5, <2>1, <2>2 DEF Begins
<1>11. ASSUME NEW c \in Callers, TakeLock(c) PROVE LockInv'
  BY <1>1, <1>5, <1>11, TakeLockEffect
     DEF Stops, GoesOn, Working, Unwritten, Unlaunched, Finished
<1>12. ASSUME NEW c \in Callers,
              RefuseResume(c) \/ CallStops(c) \/ PrepareBlocked(c) \/ WriteBack(c)
              \/ Launch(c) \/ ReserveRevival(c) \/ MarkRevivedState(c) \/ MarkRevivedFile(c)
              \/ FinalizeState(c) \/ FinalizeText(c) \/ ReadBack(c) \/ WriteEscalated(c)
              \/ DismissState(c) \/ DismissMarker(c)
       PROVE  LockInv'
  <2>1. \/ Stops(c)
        \/ GoesOn(c, "dismiss_marking")
        \/ /\ call[c].pc \in Working /\ call'[c].lock = call[c].lock
           /\ \E pc \in Working : GoesOn(c, pc)
    BY <1>1, <1>12, MoveEffects, ReadBackEffect, EscalatedEffect
       DEF Keeps, Launch, ReserveRevival, MarkRevivedState, MarkRevivedFile, FinalizeState,
           FinalizeText, ReadBack, WriteEscalated, Working, Unwritten, Unlaunched, Finished
  <2> QED
    BY <1>5, <2>1 DEF Stops, GoesOn, LockInv, Working, Unwritten, Unlaunched, Finished
<1>13. ASSUME NEW r \in Runs, ResetPasses(r) \/ Discard(r) PROVE LockInv'
  BY <1>6, <1>13 DEF ResetPasses, Discard
<1> QED
  BY <1>6, <1>7, <1>8, <1>9, <1>10, <1>11, <1>12, <1>13 DEF Next, CallStep, vars

-------------------------------------------------------------------------------
(* How a call comes to the stages before its executor starts.              *)

LEMMA Unlaunching ==
  ASSUME Base, [Next]_vars, NEW d \in Callers, call'[d].pc \in Unlaunched
  PROVE  \/ call'[d] = call[d]
         \/ ReserveRevival(d) \/ MarkRevivedState(d)
         \/ \E r \in Runs : Delegate(d, r) \/ Resume(d, r) \/ Escalate(d, r)
<1> DEFINE Goal == \/ call'[d] = call[d]
                   \/ ReserveRevival(d) \/ MarkRevivedState(d)
                   \/ \E r \in Runs : Delegate(d, r) \/ Resume(d, r) \/ Escalate(d, r)
<1>1. TypeOK
  BY DEF Base
<1>2. ASSUME NEW c \in Callers, OthersKeep(c), c = d => Goal PROVE Goal
  BY <1>2 DEF OthersKeep
<1>3. ASSUME NEW c \in Callers, NEW r \in Runs, Delegate(c, r) \/ Escalate(c, r) PROVE Goal
  <2>1. OthersKeep(c)
    BY <1>1, <1>3, BeginEffects DEF Begins
  <2> QED
    BY <1>2, <1>3, <2>1
<1>4. ASSUME NEW c \in Callers, NEW r \in Runs, Resume(c, r) PROVE Goal
  BY <1>1, <1>2, <1>4, ResumeEffect DEF Begins
<1>5. ASSUME NEW c \in Callers, OthersKeep(c), call'[c].pc \notin Unlaunched PROVE Goal
  BY <1>2, <1>5
<1>6. ASSUME NEW c \in Callers, NEW r \in Runs, StartDismissal(c, r) PROVE Goal
  BY <1>1, <1>5, <1>6, BeginEffects DEF Begins, Unlaunched
<1>7. ASSUME NEW c \in Callers, NEW r \in Runs, NEW kind \in Requests, Peek(c, r, kind)
      PROVE  Goal
  <2>1. \E pc \in {"locking", "reading"} : Begins(c, pc, kind, r, NoState, NoRun)
    BY <1>1, <1>7, BeginEffects
  <2> QED
    BY <1>5, <2>1 DEF Begins, Unlaunched
<1>8. ASSUME NEW c \in Callers,
             TakeLock(c) \/ RefuseResume(c) \/ CallStops(c) \/ PrepareBlocked(c) \/ WriteBack(c)
             \/ Launch(c) \/ MarkRevivedFile(c) \/ FinalizeState(c) \/ FinalizeText(c)
             \/ ReadBack(c) \/ WriteEscalated(c) \/ DismissState(c) \/ DismissMarker(c)
      PROVE  Goal
  <2>1. Stops(c) \/ \E pc \in {"reading", "executing", "finalizing", "merging", "rewriting",
                               "escalating", "dismiss_marking"} : GoesOn(c, pc)
    BY <1>1, <1>8, MoveEffects, TakeLockEffect, ReadBackEffect, EscalatedEffect DEF Keeps
  <2> QED
    BY <1>5, <2>1 DEF Stops, GoesOn, Unlaunched
<1>9. ASSUME NEW c \in Callers, ReserveRevival(c) \/ MarkRevivedState(c) PROVE Goal
  BY <1>1, <1>2, <1>9, MoveEffects DEF Keeps, GoesOn
<1>10. ASSUME NEW r \in Runs, ResetPasses(r) \/ Discard(r) PROVE Goal
  BY <1>10 DEF ResetPasses, Discard
<1>11. CASE UNCHANGED vars
  BY <1>11 DEF vars
<1>12. ASSUME NEW c \in Callers, CallStep(c) PROVE Goal
  BY <1>3, <1>4, <1>8, <1>9, <1>12 DEF CallStep
<1> QED
  BY <1>3, <1>6, <1>7, <1>8, <1>10, <1>11, <1>12 DEF Next, vars

(* A revival was decided while its run was not dismissed.                  *)
DismissInv ==
  \A c \in Callers :
    call[c].pc \in Unlaunched /\ call[c].kind = "revival" =>
      "REVIVAL_DISMISSED" \notin marks[call[c].target]

LEMMA DismissalMarked ==
  ASSUME TypeOK, [Next]_vars, NEW r \in Runs,
         "REVIVAL_DISMISSED" \in marks'[r], "REVIVAL_DISMISSED" \notin marks[r]
  PROVE  \E c \in Callers : DismissMarker(c) /\ call[c].target = r
<1>1. marks' # marks
  OBVIOUS
<1>2. ASSUME NEW c \in Callers, DismissMarker(c) PROVE call[c].target = r
  BY <1>2 DEF DismissMarker, TypeOK
<1>3. ASSUME NEW x \in Runs, Discard(x) PROVE FALSE
  <2>1. PICK noted \in SUBSET {call[c].new : c \in Callers} :
          marks' = [q \in Runs |-> IF q \in Chain(x) /\ q \in complete \cup noted
                                    THEN marks[q] \cup {"DISCARDED"} ELSE marks[q]]
    BY <1>3 DEF Discard
  <2> QED
    BY <2>1
<1>4. ASSUME NEW c \in Callers, NEW x \in Runs,
             Delegate(c, x) \/ Resume(c, x) \/ StartDismissal(c, x) \/ Escalate(c, x)
      PROVE  FALSE
  BY <1>1, <1>4 DEF Delegate, Resume, StartDismissal, Escalate, files
<1>5. ASSUME NEW c \in Callers, NEW x \in Runs, NEW kind \in Requests, Peek(c, x, kind)
      PROVE  FALSE
  BY <1>1, <1>5 DEF Peek, files
<1>6. ASSUME NEW c \in Callers,
             TakeLock(c) \/ RefuseResume(c) \/ CallStops(c) \/ Launch(c) \/ ReserveRevival(c)
             \/ MarkRevivedState(c) \/ MarkRevivedFile(c) \/ FinalizeState(c) \/ FinalizeText(c)
             \/ ReadBack(c) \/ WriteBack(c) \/ WriteEscalated(c) \/ PrepareBlocked(c)
             \/ DismissState(c)
      PROVE  FALSE
  BY <1>1, <1>6 DEF TakeLock, RefuseResume, CallStops, Launch, ReserveRevival, MarkRevivedState,
     MarkRevivedFile, FinalizeState, FinalizeText, ReadBack, WriteBack, WriteEscalated, PrepareBlocked,
     DismissState, files
<1>7. ASSUME NEW x \in Runs, ResetPasses(x) PROVE FALSE
  BY <1>1, <1>7 DEF ResetPasses
<1> QED
  BY <1>1, <1>2, <1>3, <1>4, <1>5, <1>6, <1>7 DEF Next, CallStep, vars

LEMMA DismissPreserved == Base /\ LockInv /\ DismissInv /\ [Next]_vars => DismissInv'
<1> SUFFICES ASSUME Base, LockInv, DismissInv, [Next]_vars, NEW d \in Callers,
                    call'[d].pc \in Unlaunched, call'[d].kind = "revival"
             PROVE  "REVIVAL_DISMISSED" \notin marks'[call'[d].target]
  BY DEF DismissInv
<1>1. TypeOK /\ CallInv
  BY DEF Base
<1>2. CASE call[d].pc \in Unlaunched /\ call'[d].kind = call[d].kind
           /\ call'[d].target = call[d].target
  <2> DEFINE r == call[d].target
  <2>1. r \in Runs /\ call[d].lock /\ "REVIVAL_DISMISSED" \notin marks[r]
    BY <1>1, <1>2 DEF CallInv, LockInv, DismissInv, Working, Unwritten
  <2>2. ASSUME NEW c \in Callers, DismissMarker(c), call[c].target = r PROVE FALSE
    <3>1. call[c].lock /\ call[c].pc = "dismiss_marking"
      BY <1>1, <2>2 DEF DismissMarker, CallInv, Dismissing
    <3>2. c = d
      BY <2>1, <2>2, <3>1 DEF LockInv
    <3> QED
      BY <1>2, <3>1, <3>2 DEF Unlaunched
  <2> QED
    BY <1>1, <1>2, <2>1, <2>2, DismissalMarked
<1>3. CASE ReserveRevival(d) \/ MarkRevivedState(d)
  <2>1. call[d].pc \in Unlaunched /\ call'[d].kind = call[d].kind
        /\ call'[d].target = call[d].target
    BY <1>1, <1>3, MoveEffects DEF Keeps, GoesOn, ReserveRevival, MarkRevivedState, Unlaunched
  <2> QED
    BY <1>2, <2>1
<1>4. ASSUME NEW r \in Runs, Delegate(d, r) PROVE FALSE
  BY <1>1, <1>4, BeginEffects DEF Begins
<1>5. ASSUME NEW r \in Runs, Escalate(d, r) PROVE FALSE
  BY <1>1, <1>5, BeginEffects DEF Begins
<1>6. ASSUME NEW r \in Runs, Resume(d, r) PROVE "REVIVAL_DISMISSED" \notin marks'[call'[d].target]
  <2>1. call'[d].target = call[d].target /\ KindOf(d) = "revival"
    BY <1>1, <1>6, ResumeEffect DEF Begins
  <2>2. MayRevive(d) /\ marks' = marks
    BY <1>1, <1>6, <2>1 DEF Resume, MayResume, MayRetry, MayReply, KindOf, CallInv, Replies
  <2> QED
    BY <2>1, <2>2 DEF MayRevive, Revivable, Dismissed
<1> QED
  BY <1>2, <1>3, <1>4, <1>5, <1>6, Unlaunching

(* What is launched in a step.                                             *)
LEMMA Launching ==
  ASSUME [Next]_vars, NEW q, q \in launched', q \notin launched
  PROVE  \E c \in Callers : call[c].new = q /\ (Launch(c) \/ MarkRevivedFile(c))
<1>1. launched' # launched
  OBVIOUS
<1>2. ASSUME NEW c \in Callers, Launch(c) \/ MarkRevivedFile(c) PROVE call[c].new = q
  BY <1>2 DEF Launch, MarkRevivedFile
<1>3. ASSUME NEW c \in Callers, NEW x \in Runs,
             Delegate(c, x) \/ Resume(c, x) \/ StartDismissal(c, x) \/ Escalate(c, x)
      PROVE  FALSE
  BY <1>1, <1>3 DEF Delegate, Resume, StartDismissal, Escalate, files
<1>4. ASSUME NEW c \in Callers, NEW x \in Runs, NEW kind \in Requests, Peek(c, x, kind)
      PROVE  FALSE
  BY <1>1, <1>4 DEF Peek, files
<1>5. ASSUME NEW c \in Callers,
             TakeLock(c) \/ RefuseResume(c) \/ CallStops(c) \/ ReserveRevival(c)
             \/ MarkRevivedState(c) \/ FinalizeState(c) \/ FinalizeText(c)
             \/ ReadBack(c) \/ WriteBack(c) \/ WriteEscalated(c) \/ PrepareBlocked(c)
             \/ DismissState(c)
             \/ DismissMarker(c)
      PROVE  FALSE
  BY <1>1, <1>5 DEF TakeLock, RefuseResume, CallStops, ReserveRevival, MarkRevivedState,
     FinalizeState, FinalizeText, ReadBack, WriteBack, WriteEscalated, PrepareBlocked, DismissState,
     DismissMarker, files
<1>6. ASSUME NEW x \in Runs, ResetPasses(x) \/ Discard(x) PROVE FALSE
  BY <1>1, <1>6 DEF ResetPasses, Discard
<1> QED
  BY <1>1, <1>2, <1>3, <1>4, <1>5, <1>6 DEF Next, CallStep, vars

LEMMA LocksHold == Spec => [](Base /\ LockInv)
<1>1. Init => LockInv
  BY DEF Init, Idle, LockInv, Working, Unwritten, Unlaunched, Finished
<1> QED
  BY <1>1, InitBase, BasePreserved, LockPreserved, PTL DEF Spec

(* Whatever is lost of a dismissal in state.json: no revival of the run is *)
(* executed after REVIVAL_DISMISSED is there.                              *)
THEOREM DismissalTheorem == Spec => DismissedStays
<1>1. Init => DismissInv
  BY DEF Init, Idle, DismissInv, Unlaunched
<1>2. Base /\ LockInv /\ DismissInv /\ [Next]_vars =>
        [\A r \in Runs : "REVIVAL_DISMISSED" \in marks[r] =>
           Children(r, {"revival"}) \cap launched' \subseteq launched]_vars
  <2> SUFFICES ASSUME Base, DismissInv, [Next]_vars, NEW r \in Runs,
                      "REVIVAL_DISMISSED" \in marks[r], NEW q \in Runs, parent[q] = r,
                      how[q] = "revival", q \in launched', q \notin launched
               PROVE  FALSE
    BY DEF Children
  <2>1. CallInv
    BY DEF Base
  <2>2. PICK c \in Callers : call[c].new = q /\ (Launch(c) \/ MarkRevivedFile(c))
    BY Launching
  <2>3. /\ call[c].pc \in Unlaunched /\ call[c].kind = "revival"
        /\ call[c].target = r
    BY <2>1, <2>2 DEF Launch, MarkRevivedFile, CallInv, Working, Unwritten, Unlaunched
  <2> QED
    BY <2>3 DEF DismissInv
<1> QED
  BY <1>1, <1>2, LocksHold, DismissPreserved, PTL DEF Spec, DismissedStays

-------------------------------------------------------------------------------
(* A run that is named as the successor of another: it will be executed    *)
(* before it can be complete.                                              *)

Heir(r, q) ==
  /\ q \in Runs /\ parent[q] = r /\ how[q] = "revival"
  /\ q \in complete => q \in launched
  /\ \A c \in Callers : call[c].new = q => call[c].pc # "preparing"

HeirInv ==
  /\ \A r \in Runs :
       /\ state[r] \in State /\ state[r].revivedBy # NoRun => Heir(r, state[r].revivedBy)
       /\ revived[r] # NoRun => Heir(r, revived[r])
  /\ \A c \in Callers :
       /\ call[c].pc \in Working /\ call[c].kind # "delegate" /\ call[c].own.revivedBy # NoRun =>
            Heir(call[c].target, call[c].own.revivedBy)
       /\ call[c].pc \in {"rewriting", "escalating"} /\ call[c].copy.revivedBy # NoRun =>
            Heir(call[c].new, call[c].copy.revivedBy)
       /\ call[c].pc = "dismissing" /\ call[c].copy.revivedBy # NoRun =>
            Heir(call[c].target, call[c].copy.revivedBy)

(* What completes in a step.                                               *)
LEMMA Completing ==
  ASSUME [Next]_vars, NEW q, q \in complete', q \notin complete
  PROVE  \E c \in Callers : call[c].new = q /\ (PrepareBlocked(c) \/ FinalizeText(c))
<1>1. complete' # complete
  OBVIOUS
<1>2. ASSUME NEW c \in Callers, PrepareBlocked(c) \/ FinalizeText(c) PROVE call[c].new = q
  BY <1>2 DEF PrepareBlocked, FinalizeText
<1>3. ASSUME NEW c \in Callers, NEW x \in Runs,
             Delegate(c, x) \/ Resume(c, x) \/ StartDismissal(c, x) \/ Escalate(c, x)
      PROVE  FALSE
  BY <1>1, <1>3 DEF Delegate, Resume, StartDismissal, Escalate, files
<1>4. ASSUME NEW c \in Callers, NEW x \in Runs, NEW kind \in Requests, Peek(c, x, kind)
      PROVE  FALSE
  BY <1>1, <1>4 DEF Peek, files
<1>5. ASSUME NEW c \in Callers,
             TakeLock(c) \/ RefuseResume(c) \/ CallStops(c) \/ Launch(c) \/ ReserveRevival(c)
             \/ MarkRevivedState(c) \/ MarkRevivedFile(c) \/ FinalizeState(c) \/ ReadBack(c)
             \/ WriteBack(c) \/ WriteEscalated(c) \/ DismissState(c) \/ DismissMarker(c)
      PROVE  FALSE
  BY <1>1, <1>5 DEF TakeLock, RefuseResume, CallStops, Launch, ReserveRevival, MarkRevivedState,
     MarkRevivedFile, FinalizeState, ReadBack, WriteBack, WriteEscalated, DismissState,
     DismissMarker, files
<1>6. ASSUME NEW x \in Runs, ResetPasses(x) \/ Discard(x) PROVE FALSE
  BY <1>1, <1>6 DEF ResetPasses, Discard
<1> QED
  BY <1>1, <1>2, <1>3, <1>4, <1>5, <1>6 DEF Next, CallStep, vars

LEMMA HeirStays ==
  ASSUME Base, [Next]_vars, NEW r \in Runs, NEW q, Heir(r, q)
  PROVE  Heir(r, q)'
<1>1. TypeOK /\ CallInv /\ StageInv /\ LineageKept
  BY LineageStays DEF Base
<1>2. q \in Runs /\ Exists(q) /\ parent'[q] = r /\ how'[q] = "revival"
  BY <1>1 DEF Heir, Exists, LineageKept
<1>3. ASSUME q \in complete', q \notin complete PROVE q \in launched
  <2>1. PICK c \in Callers : call[c].new = q /\ (PrepareBlocked(c) \/ FinalizeText(c))
    BY <1>3, Completing
  <2>2. FinalizeText(c)
    BY <2>1 DEF Heir, PrepareBlocked
  <2> QED
    BY <1>1, <2>1, <2>2 DEF FinalizeText, StageInv, Working, Unwritten, Unlaunched
<1>4. ASSUME NEW d \in Callers, call'[d].new = q, call'[d].pc = "preparing" PROVE FALSE
  <2>1. call'[d] # call[d]
    BY <1>4 DEF Heir
  <2>2. ~ReserveRevival(d) /\ ~MarkRevivedState(d)
    BY <1>1, <1>4, MoveEffects DEF Keeps, GoesOn
  <2>3. ASSUME NEW x \in Runs, Delegate(d, x) \/ Escalate(d, x) PROVE FALSE
    BY <1>1, <1>2, <1>4, <2>3, BeginEffects DEF Begins, Delegate, Escalate, NewRun, IsNext
  <2>4. ASSUME NEW x \in Runs, Resume(d, x) PROVE FALSE
    BY <1>1, <1>2, <1>4, <2>4, ResumeEffect DEF Begins, Resume, NewRun, IsNext
  <2> QED
    BY <1>4, <2>1, <2>2, <2>3, <2>4, Unlaunching DEF Unlaunched
<1> QED
  BY <1>1, <1>2, <1>3, <1>4 DEF Heir, LineageKept

(* The run of a revival that marks its predecessor is its heir.            *)
LEMMA MarkedHeir ==
  ASSUME Base, [Next]_vars, NEW c \in Callers, MarkRevivedState(c) \/ MarkRevivedFile(c)
  PROVE  call[c].target \in Runs /\ call[c].new \in Runs /\ Heir(call[c].target, call[c].new)
<1>1. /\ call[c].pc \in {"marking_state", "marking_file"} /\ call[c].kind = "revival"
      /\ call[c].new \in Runs /\ call[c].target \in Runs /\ call[c].new \notin complete
      /\ how[call[c].new] = "revival" /\ parent[call[c].new] = call[c].target
      /\ call[c].new # NoRun
  BY ChainAssumption DEF MarkRevivedState, MarkRevivedFile, Base, CallInv, StageInv, Working,
     Unwritten, Unlaunched, Finished
<1>2. \A d \in Callers : call[d].new = call[c].new => call[d].pc # "preparing"
  BY <1>1 DEF Base, StageInv
<1> QED
  BY <1>1, <1>2 DEF Heir

LEMMA RevivedKept ==
  ASSUME TypeOK, [Next]_vars, NEW r \in Runs, revived'[r] # revived[r]
  PROVE  \E c \in Callers :
           call[c].target = r /\ MarkRevivedFile(c) /\ revived'[r] = call[c].new
<1>1. revived' # revived
  OBVIOUS
<1>2. ASSUME NEW c \in Callers, MarkRevivedFile(c)
      PROVE  call[c].target = r /\ revived'[r] = call[c].new
  BY <1>2 DEF MarkRevivedFile, TypeOK
<1>3. ASSUME NEW c \in Callers, NEW x \in Runs,
             Delegate(c, x) \/ Resume(c, x) \/ StartDismissal(c, x) \/ Escalate(c, x)
      PROVE  FALSE
  BY <1>1, <1>3 DEF Delegate, Resume, StartDismissal, Escalate, files
<1>4. ASSUME NEW c \in Callers, NEW x \in Runs, NEW kind \in Requests, Peek(c, x, kind)
      PROVE  FALSE
  BY <1>1, <1>4 DEF Peek, files
<1>5. ASSUME NEW c \in Callers,
             TakeLock(c) \/ RefuseResume(c) \/ CallStops(c) \/ Launch(c) \/ ReserveRevival(c)
             \/ MarkRevivedState(c) \/ FinalizeState(c) \/ FinalizeText(c) \/ ReadBack(c)
             \/ WriteBack(c) \/ WriteEscalated(c) \/ PrepareBlocked(c) \/ DismissState(c)
             \/ DismissMarker(c)
      PROVE  FALSE
  BY <1>1, <1>5 DEF TakeLock, RefuseResume, CallStops, Launch, ReserveRevival, MarkRevivedState,
     FinalizeState, FinalizeText, ReadBack, WriteBack, WriteEscalated, PrepareBlocked, DismissState,
     DismissMarker, files
<1>6. ASSUME NEW x \in Runs, ResetPasses(x) \/ Discard(x) PROVE FALSE
  BY <1>1, <1>6 DEF ResetPasses, Discard
<1> QED
  BY <1>1, <1>2, <1>3, <1>4, <1>5, <1>6 DEF Next, CallStep, vars

(* What each write says of the successor.                                  *)
LEMMA RevivedByWritten ==
  ASSUME Base, NEW c \in Callers
  PROVE  /\ PrepareBlocked(c) \/ FinalizeState(c) => state'[call[c].new].revivedBy = NoRun
         /\ WriteBack(c) \/ WriteEscalated(c) =>
              state'[call[c].new].revivedBy = call[c].copy.revivedBy
         /\ MarkRevivedState(c) => state'[call[c].target].revivedBy = call[c].new
         /\ DismissState(c) => state'[call[c].target].revivedBy = call[c].copy.revivedBy
<1>1. TypeOK /\ CallInv
  BY DEF Base
<1>2. PrepareBlocked(c) \/ FinalizeState(c) => state'[call[c].new].revivedBy = NoRun
  BY BlockedState, FinalizedState
<1>3. WriteBack(c) => state'[call[c].new].revivedBy = call[c].copy.revivedBy
  BY <1>1 DEF WriteBack, TypeOK, CallInv, Working, Finished
<1>4. ASSUME WriteEscalated(c)
      PROVE  state'[call[c].new].revivedBy = call[c].copy.revivedBy
  <2> DEFINE st == [call[c].copy EXCEPT !.escalated = TRUE]
  <2>1. call[c].copy \in State /\ call[c].new \in Runs
    BY <1>1, <1>4 DEF WriteEscalated, CallInv, Working, Finished
  <2>2. st.revivedBy = call[c].copy.revivedBy
    BY <2>1 DEF State
  <2>3. state' = [state EXCEPT ![call[c].new] = st]
    BY <1>4 DEF WriteEscalated
  <2> HIDE DEF st
  <2> QED
    BY <1>1, <2>1, <2>2, <2>3 DEF TypeOK
<1>5. ASSUME MarkRevivedState(c) PROVE state'[call[c].target].revivedBy = call[c].new
  <2> DEFINE st == [call[c].own EXCEPT !.revivedBy = call[c].new]
  <2>1. call[c].own \in State /\ call[c].target \in Runs
    BY <1>1, <1>5 DEF MarkRevivedState, CallInv, Working, Unwritten, Unlaunched
  <2>2. st.revivedBy = call[c].new
    BY <2>1 DEF State
  <2>3. state' = [state EXCEPT ![call[c].target] = st]
    BY <1>5 DEF MarkRevivedState
  <2> HIDE DEF st
  <2> QED
    BY <1>1, <2>1, <2>2, <2>3 DEF TypeOK
<1>6. DismissState(c) => state'[call[c].target].revivedBy = call[c].copy.revivedBy
  BY <1>1 DEF DismissState, TypeOK, CallInv, Dismissing
<1> QED
  BY <1>2, <1>3, <1>4, <1>5, <1>6

LEMMA HeirPreserved == Base /\ HeirInv /\ [Next]_vars => HeirInv'
<1> SUFFICES ASSUME Base, HeirInv, [Next]_vars PROVE HeirInv'
  OBVIOUS
<1>1. TypeOK /\ CallInv /\ StageInv /\ RunInv
  BY DEF Base
<1>2. CallInv'
  BY BasePreserved DEF Base
<1> USE ChainAssumption, NoStateAssumption
<1>3. ASSUME NEW r \in Runs, NEW q, q # NoRun, state'[r] \in State, state'[r].revivedBy = q
      PROVE  Heir(r, q)'
  <2>1. ASSUME Heir(r, q) PROVE Heir(r, q)'
    BY <2>1, HeirStays
  <2>2. CASE state'[r] = state[r]
    BY <1>3, <2>1, <2>2 DEF HeirInv
  <2>3. ASSUME NEW c \in Callers, call[c].new = r, PrepareBlocked(c) \/ FinalizeState(c)
        PROVE  FALSE
    BY <1>3, <2>3, RevivedByWritten
  <2>4. ASSUME NEW c \in Callers, call[c].new = r, WriteBack(c) \/ WriteEscalated(c)
        PROVE  Heir(r, q)
    <3>1. call[c].pc = "rewriting" /\ call[c].copy.revivedBy = q
      BY <1>3, <2>4, RevivedByWritten DEF WriteBack, WriteEscalated
    <3> QED
      BY <1>3, <2>4, <3>1 DEF HeirInv
  <2>5. ASSUME NEW c \in Callers, call[c].target = r, MarkRevivedState(c) PROVE Heir(r, q)
    BY <1>3, <2>5, RevivedByWritten, MarkedHeir
  <2>6. ASSUME NEW c \in Callers, call[c].target = r, DismissState(c) PROVE Heir(r, q)
    <3>1. call[c].pc = "dismissing" /\ call[c].copy.revivedBy = q
      BY <1>3, <2>6, RevivedByWritten DEF DismissState
    <3> QED
      BY <1>3, <2>6, <3>1 DEF HeirInv
  <2> QED
    BY <1>1, <2>1, <2>2, <2>3, <2>4, <2>5, <2>6, Writers DEF Writes
<1>4. ASSUME NEW r \in Runs, NEW q, q # NoRun, revived'[r] = q PROVE Heir(r, q)'
  <2>1. Heir(r, q)
    BY <1>1, <1>4, RevivedKept, MarkedHeir DEF HeirInv
  <2> QED
    BY <2>1, HeirStays
<1> DEFINE Fine(d) ==
      \A r \in Runs : \A q :
        q # NoRun =>
          /\ /\ call'[d].pc \in Working /\ call'[d].kind # "delegate"
             /\ call'[d].target = r /\ call'[d].own.revivedBy = q
             => Heir(r, q)'
          /\ /\ call'[d].pc \in {"rewriting", "escalating"}
             /\ call'[d].new = r /\ call'[d].copy.revivedBy = q
             => Heir(r, q)'
          /\ /\ call'[d].pc = "dismissing"
             /\ call'[d].target = r /\ call'[d].copy.revivedBy = q
             => Heir(r, q)'
<1>5. ASSUME \A d \in Callers : Fine(d) PROVE HeirInv'
  <2>1. ASSUME NEW r \in Runs
        PROVE  (/\ state[r] \in State /\ state[r].revivedBy # NoRun => Heir(r, state[r].revivedBy)
                /\ revived[r] # NoRun => Heir(r, revived[r]))'
    BY <1>3, <1>4 DEF Heir
  <2>2. ASSUME NEW d \in Callers
        PROVE  (/\ call[d].pc \in Working /\ call[d].kind # "delegate"
                     /\ call[d].own.revivedBy # NoRun =>
                     Heir(call[d].target, call[d].own.revivedBy)
                /\ call[d].pc \in {"rewriting", "escalating"} /\ call[d].copy.revivedBy # NoRun =>
                     Heir(call[d].new, call[d].copy.revivedBy)
                /\ call[d].pc = "dismissing" /\ call[d].copy.revivedBy # NoRun =>
                     Heir(call[d].target, call[d].copy.revivedBy))'
    <3>1. /\ call'[d].pc \in Working => call'[d].new \in Runs
          /\ call'[d].pc \in Working /\ call'[d].kind # "delegate" => call'[d].target \in Runs
          /\ call'[d].pc = "dismissing" => call'[d].target \in Runs
          /\ call'[d].pc \in {"rewriting", "escalating"} => call'[d].pc \in Working
      BY <1>2 DEF CallInv, Dismissing, Working, Finished
    <3>2. Fine(d)
      BY <1>5
    <3> QED
      BY <3>1, <3>2 DEF Heir
  <2> QED
    BY <2>1, <2>2 DEF HeirInv
<1>6. ASSUME NEW d \in Callers, call'[d] = call[d] PROVE Fine(d)
  <2> SUFFICES ASSUME NEW r \in Runs, NEW q, q # NoRun,
                      \/ /\ call[d].pc \in Working /\ call[d].kind # "delegate"
                         /\ call[d].target = r /\ call[d].own.revivedBy = q
                      \/ /\ call[d].pc \in {"rewriting", "escalating"}
                         /\ call[d].new = r /\ call[d].copy.revivedBy = q
                      \/ /\ call[d].pc = "dismissing"
                         /\ call[d].target = r /\ call[d].copy.revivedBy = q
               PROVE  Heir(r, q)'
    BY <1>6
  <2>1. Heir(r, q)
    BY DEF HeirInv
  <2> QED
    BY <2>1, HeirStays
<1> HIDE DEF Fine
<1>7. ASSUME NEW c \in Callers, OthersKeep(c), Fine(c) PROVE HeirInv'
  BY <1>5, <1>6, <1>7 DEF OthersKeep
<1>8. CASE call' = call
  BY <1>5, <1>6, <1>8
<1> USE DEF Working, Unwritten, Unlaunched, Finished
<1>9. ASSUME NEW c \in Callers, OthersKeep(c),
             call'[c].pc \notin Working \/ (call'[c].kind = "delegate" /\ call'[c].pc \notin {"rewriting", "escalating"}),
             call'[c].pc # "dismissing"
      PROVE  HeirInv'
  BY <1>7, <1>9 DEF Fine
<1>10. ASSUME NEW c \in Callers, NEW r \in Runs, Delegate(c, r) PROVE HeirInv'
  BY <1>1, <1>9, <1>10, BeginEffects DEF Begins
<1>11. ASSUME NEW c \in Callers, NEW r \in Runs, NEW kind \in Requests, Peek(c, r, kind)
       PROVE  HeirInv'
  <2>1. \E pc \in {"locking", "reading"} : Begins(c, pc, kind, r, NoState, NoRun)
    BY <1>1, <1>11, BeginEffects
  <2> QED
    BY <1>9, <2>1 DEF Begins
<1>12. ASSUME NEW c \in Callers, NEW r \in Runs, StartDismissal(c, r) PROVE HeirInv'
  <2>1. /\ Begins(c, "dismissing", "dismiss", r, NoState, NoRun)
        /\ call'[c].copy = [state[r] EXCEPT !.dismissed = TRUE]
    BY <1>1, <1>12, BeginEffects
  <2>2. state[r] \in State
    BY <1>1, <1>12 DEF StartDismissal, RunInv
  <2>3. call'[c].copy.revivedBy = state[r].revivedBy
    BY <2>1, <2>2 DEF State
  <2>4. ASSUME NEW q, q # NoRun, call'[c].copy.revivedBy = q PROVE Heir(r, q)'
    BY <2>2, <2>3, <2>4, HeirStays DEF HeirInv
  <2>5. Fine(c)
    BY <2>1, <2>4 DEF Begins, Fine
  <2> QED
    BY <1>7, <2>1, <2>5 DEF Begins
<1>13. ASSUME NEW c \in Callers, NEW r \in Runs, Resume(c, r) PROVE HeirInv'
  <2>1. Begins(c, "preparing", KindOf(c), call[c].target, state[call[c].target], r)
    BY <1>1, <1>13, ResumeEffect
  <2>2. call[c].target \in Runs /\ state[call[c].target] \in State
    BY <1>1, <1>13 DEF Resume, MayResume, CallInv, TypeOK
  <2>3. ASSUME NEW q, q # NoRun, call'[c].own.revivedBy = q PROVE Heir(call[c].target, q)
    BY <2>1, <2>2, <2>3 DEF HeirInv, Begins
  <2> QED
    BY <1>7, <2>1, <2>2, <2>3, HeirStays DEF Begins, Fine
<1>14. ASSUME NEW c \in Callers, NEW r \in Runs, Escalate(c, r) PROVE HeirInv'
  <2>1. Begins(c, "preparing", "escalation", call[c].new, call[c].copy, r)
    BY <1>1, <1>14, BeginEffects
  <2>2. call[c].new \in Runs /\ call[c].copy \in State /\ call[c].pc = "escalating"
    BY <1>1, <1>14 DEF Escalate, CallInv
  <2>3. call'[c].own.revivedBy = call[c].copy.revivedBy
    BY <2>1 DEF Begins
  <2>4. ASSUME NEW q, q # NoRun, call'[c].own.revivedBy = q PROVE Heir(call[c].new, q)
    BY <2>2, <2>3, <2>4 DEF HeirInv
  <2>5. \A q : q # NoRun /\ call'[c].own.revivedBy = q => Heir(call[c].new, q)
    BY <2>4
  <2>6. /\ OthersKeep(c) /\ call'[c].pc = "preparing" /\ call'[c].target = call[c].new
    BY <2>1 DEF Begins
  <2> DEFINE p == call[c].new
  <2>7. p \in Runs /\ call'[c].target = p
        /\ \A q : q # NoRun /\ call'[c].own.revivedBy = q => Heir(p, q)
    BY <2>2, <2>5, <2>6
  <2> HIDE DEF p
  <2>8. Fine(c)
    BY <2>6, <2>7, HeirStays DEF Fine
  <2> QED
    BY <1>7, <2>6, <2>8
<1>15. ASSUME NEW c \in Callers, ReadBack(c) PROVE HeirInv'
  <2>1. GoesOn(c, "rewriting") /\ call'[c].copy = Merged(c)
    BY <1>1, <1>15, ReadBackEffect
  <2>2. /\ call[c].pc = "merging" /\ call[c].new \in Runs /\ state[call[c].new] \in State
    BY <1>1, <1>15 DEF ReadBack, CallInv, StageInv
  <2>3. call'[c].copy.revivedBy = state[call[c].new].revivedBy
    BY <2>1, <2>2 DEF Merged, State
  <2>4. ASSUME NEW q, q # NoRun, call'[c].copy.revivedBy = q PROVE Heir(call[c].new, q)
    BY <2>2, <2>3, <2>4 DEF HeirInv
  <2>5. ASSUME NEW q, q # NoRun, call[c].own.revivedBy = q, call[c].kind # "delegate"
        PROVE  Heir(call[c].target, q)
    BY <2>2, <2>5 DEF HeirInv
  <2> QED
    BY <1>7, <2>1, <2>2, <2>4, <2>5, HeirStays DEF GoesOn, Fine
<1>16. ASSUME NEW c \in Callers,
              Launch(c) \/ ReserveRevival(c) \/ MarkRevivedState(c) \/ MarkRevivedFile(c)
              \/ FinalizeState(c) \/ FinalizeText(c)
       PROVE  HeirInv'
  <2>1. call[c].pc \in Working
    BY <1>16 DEF Launch, ReserveRevival, MarkRevivedState, MarkRevivedFile, FinalizeState,
       FinalizeText
  <2>2. Stops(c) \/ \E pc \in {"marking_state", "marking_file", "executing", "finalizing",
                               "merging"} : GoesOn(c, pc)
    BY <1>1, <1>16, MoveEffects DEF Keeps
  <2>3. ASSUME NEW q, q # NoRun, call[c].own.revivedBy = q, call[c].kind # "delegate"
        PROVE  Heir(call[c].target, q)
    BY <2>1, <2>3 DEF HeirInv
  <2>4. CASE Stops(c)
    BY <1>9, <2>4 DEF Stops
  <2>5. CASE \E pc \in {"marking_state", "marking_file", "executing", "finalizing",
                        "merging"} : GoesOn(c, pc)
    BY <1>7, <2>3, <2>5, HeirStays DEF GoesOn, Fine
  <2> QED
    BY <2>2, <2>4, <2>5
<1>17. ASSUME NEW c \in Callers,
              TakeLock(c) \/ RefuseResume(c) \/ CallStops(c) \/ PrepareBlocked(c) \/ WriteBack(c)
              \/ DismissState(c) \/ DismissMarker(c)
       PROVE  HeirInv'
  <2>1. Stops(c) \/ \E pc \in {"reading", "dismiss_marking"} : GoesOn(c, pc)
    BY <1>1, <1>17, MoveEffects, TakeLockEffect DEF Keeps
  <2> QED
    BY <1>9, <2>1 DEF Stops, GoesOn
<1>18. ASSUME NEW r \in Runs, ResetPasses(r) \/ Discard(r) PROVE HeirInv'
  BY <1>8, <1>18 DEF ResetPasses, Discard
<1>19. ASSUME NEW c \in Callers, WriteEscalated(c) PROVE HeirInv'
  <2>1. GoesOn(c, "escalating") /\ call'[c].copy = [call[c].copy EXCEPT !.escalated = TRUE]
    BY <1>1, <1>19, EscalatedEffect
  <2>2. call[c].pc = "rewriting" /\ call[c].new \in Runs /\ call[c].copy \in State
    BY <1>1, <1>19 DEF WriteEscalated, CallInv
  <2>3. call'[c].copy.revivedBy = call[c].copy.revivedBy
    BY <2>1, <2>2 DEF State
  <2>4. ASSUME NEW q, q # NoRun, call'[c].copy.revivedBy = q PROVE Heir(call[c].new, q)
    BY <2>2, <2>3, <2>4 DEF HeirInv
  <2>5. ASSUME NEW q, q # NoRun, call[c].own.revivedBy = q, call[c].kind # "delegate"
        PROVE  Heir(call[c].target, q)
    BY <2>2, <2>5 DEF HeirInv
  <2>6. /\ OthersKeep(c) /\ call'[c].pc = "escalating" /\ call'[c].new = call[c].new
        /\ call'[c].kind = call[c].kind /\ call'[c].target = call[c].target
        /\ call'[c].own = call[c].own
    BY <2>1 DEF GoesOn
  <2>7. ASSUME NEW r \in Runs, NEW q, q # NoRun, call'[c].kind # "delegate",
               call'[c].target = r, call'[c].own.revivedBy = q
        PROVE  Heir(r, q)'
    BY <2>5, <2>6, <2>7, HeirStays
  <2>8. ASSUME NEW r \in Runs, NEW q, q # NoRun, call'[c].new = r,
               call'[c].copy.revivedBy = q
        PROVE  Heir(r, q)'
    BY <2>4, <2>6, <2>8, HeirStays
  <2>9. Fine(c)
    BY <2>6, <2>7, <2>8 DEF Fine
  <2> QED
    BY <1>7, <2>6, <2>9
<1> QED
  BY <1>8, <1>10, <1>11, <1>12, <1>13, <1>14, <1>15, <1>16, <1>17, <1>18, <1>19 DEF Next, CallStep, vars

(* Once nobody holds its lock, a limited run counts as revived only if a   *)
(* revival of it was executed to the end.                                  *)
THEOREM InterruptionTheorem == Spec => []InterruptedStaysRevivable
<1>1. Init => HeirInv
  BY NoStateAssumption DEF Init, Idle, HeirInv, Working, Unwritten, Unlaunched, Finished
<1>2. Base /\ HeirInv => InterruptedStaysRevivable
  <2> SUFFICES ASSUME Base, HeirInv, NEW r \in Runs, state[r] # NoState, ~LockHeld(r),
                      RunRevived(r, FALSE)
               PROVE  Children(r, {"revival"}) \cap launched \cap complete # {}
    BY DEF InterruptedStaysRevivable
  <2>1. state[r] \in State
    BY DEF Base, TypeOK
  <2>2. PICK q : q # NoRun /\ q \in complete /\ q \in {state[r].revivedBy, revived[r]}
    BY DEF RunRevived
  <2>3. Heir(r, q)
    BY <2>1, <2>2 DEF HeirInv
  <2> QED
    BY <2>2, <2>3 DEF Heir, Children
<1> QED
  BY <1>1, <1>2, InitBase, BasePreserved, HeirPreserved, PTL DEF Spec

-------------------------------------------------------------------------------
(* For runs that are named when their call has returned: one revival is    *)
(* executed to the end, and state.json names it from before its start.     *)

Executed(r) == Children(r, {"revival"}) \cap launched \cap complete

OnceInv ==
  /\ \A r \in Runs : \A q \in Executed(r) : state[r].revivedBy = q
  /\ \A c \in Callers :
       /\ call[c].pc \in Unlaunched /\ call[c].kind = "revival" => Executed(call[c].target) = {}
       /\ call[c].pc \in {"marking_file", "executing", "finalizing"} /\ call[c].kind = "revival" =>
            state[call[c].target].revivedBy = call[c].new
       /\ call[c].pc = "dismissing" =>
            call[c].copy.revivedBy = state[call[c].target].revivedBy

LEMMA Executing ==
  ASSUME Base, [Next]_vars, NEW r \in Runs, NEW q \in Executed(r)', q \notin Executed(r)
  PROVE  /\ q \notin complete
         /\ \E c \in Callers : /\ call[c].new = q /\ FinalizeText(c)
                              /\ call[c].kind = "revival" /\ call[c].target = r
<1>1. TypeOK /\ CallInv /\ StageInv /\ RunInv /\ LineageKept
  BY LineageStays DEF Base
<1>2. q \in Runs /\ parent'[q] = r /\ how'[q] = "revival" /\ q \in launched' /\ q \in complete'
  BY DEF Executed, Children
<1>3. q \notin complete
  <2> SUFFICES ASSUME q \in complete PROVE FALSE
    OBVIOUS
  <2>1. q \notin launched
    BY <1>1, <1>2 DEF Executed, Children, LineageKept, RunInv
  <2>2. PICK c \in Callers : call[c].new = q /\ (Launch(c) \/ MarkRevivedFile(c))
    BY <1>2, <2>1, Launching
  <2> QED
    BY <1>1, <2>2 DEF Launch, MarkRevivedFile, StageInv, Working, Unwritten, Unlaunched, Finished
<1>4. PICK c \in Callers : call[c].new = q /\ (PrepareBlocked(c) \/ FinalizeText(c))
  BY <1>2, <1>3, Completing
<1>5. ~PrepareBlocked(c)
  BY <1>1, <1>2, <1>4 DEF PrepareBlocked, StageInv, Unlaunched
<1>6. call[c].kind = how[q] /\ call[c].target = parent[q] /\ Exists(q)
  BY <1>1, <1>4, <1>5 DEF FinalizeText, CallInv, Working, Exists
<1> QED
  BY <1>1, <1>2, <1>3, <1>4, <1>5, <1>6 DEF LineageKept

(* Nobody but its holder changes the successor of a locked run.            *)
LEMMA SuccessorKept ==
  ASSUME Base, TargetInv, LockInv, [Next]_vars, NEW d \in Callers, NEW r \in Runs,
         call[d].lock, call[d].target = r, ~MarkRevivedState(d), ~DismissState(d)
  PROVE  state'[r] = state[r]
<1>1. TypeOK /\ CallInv
  BY DEF Base
<1>2. \A c \in Callers : call[c].new # r
  BY ChainAssumption DEF TargetInv
<1>3. ASSUME NEW c \in Callers, call[c].target = r, MarkRevivedState(c) \/ DismissState(c)
      PROVE  FALSE
  <2>1. call[c].lock
    BY <1>1, <1>3 DEF MarkRevivedState, DismissState, CallInv, LockInv, Dismissing, Working,
       Unwritten, Unlaunched
  <2>2. c = d
    BY <1>3, <2>1 DEF LockInv
  <2> QED
    BY <1>3, <2>2
<1> QED
  BY <1>1, <1>2, <1>3, Writers DEF Writes

LEMMA OncePreserved ==
  Base /\ HistoryInv /\ TargetInv /\ LockInv /\ OnceInv /\ [Next]_vars => OnceInv'
<1> SUFFICES ASSUME Base, HistoryInv, TargetInv, LockInv, OnceInv, [Next]_vars PROVE OnceInv'
  OBVIOUS
<1>1. TypeOK /\ CallInv /\ StageInv /\ RunInv
  BY DEF Base
<1> USE ChainAssumption, NoStateAssumption
<1>2. ASSUME NEW r \in Runs, NEW q \in Executed(r)' PROVE state'[r].revivedBy = q
  <2>1. CASE q \notin Executed(r)
    <3>1. PICK c \in Callers : /\ call[c].new = q /\ FinalizeText(c)
                               /\ call[c].kind = "revival" /\ call[c].target = r
      BY <2>1, Executing
    <3>2. state' = state /\ call[c].pc = "finalizing"
      BY <3>1 DEF FinalizeText
    <3> QED
      BY <3>1, <3>2 DEF OnceInv
  <2>2. CASE q \in Executed(r)
    <3>1. q \in Runs /\ parent[q] = r /\ how[q] = "revival" /\ Exists(q)
      BY <2>2 DEF Executed, Children, Exists
    <3>2. line[q] = {q} \cup line[r] /\ q \notin line[r] /\ r \in line[r]
      BY <1>1, <3>1 DEF HistoryInv, RunInv
    <3>3. \A c \in Callers : call[c].new # r
      BY <3>1, <3>2 DEF TargetInv
    <3>4. ASSUME NEW c \in Callers, MarkRevivedState(c), call[c].target = r PROVE FALSE
      <4>1. call[c].pc \in Unlaunched /\ call[c].kind = "revival"
        BY <1>1, <3>4 DEF MarkRevivedState, CallInv, Unlaunched
      <4> QED
        BY <2>2, <3>4, <4>1 DEF OnceInv
    <3>5. ASSUME NEW c \in Callers, DismissState(c), call[c].target = r
          PROVE  state'[r].revivedBy = state[r].revivedBy
      BY <3>5, RevivedByWritten DEF OnceInv, DismissState
    <3> QED
      BY <1>1, <2>2, <3>3, <3>4, <3>5, Writers DEF Writes, OnceInv
  <2> QED
    BY <2>1, <2>2
(* A call that holds the lock goes on.                                     *)
<1>3. ASSUME NEW d \in Callers, NEW t \in Runs, call[d].target = t, call[d].kind = "revival",
             call[d].pc \in Unlaunched
      PROVE  Executed(t)' = {}
  <2>1. ASSUME NEW q \in Executed(t)' PROVE FALSE
    <3>1. q \notin Executed(t)
      BY <1>3 DEF OnceInv
    <3>2. PICK c \in Callers : /\ call[c].new = q /\ FinalizeText(c)
                               /\ call[c].kind = "revival" /\ call[c].target = t
      BY <2>1, <3>1, Executing
    <3>3. call[c].lock /\ call[d].lock
      BY <1>3, <3>2 DEF FinalizeText, LockInv, Working, Unwritten
    <3>4. c = d
      BY <1>3, <3>2, <3>3 DEF LockInv
    <3> QED
      BY <1>3, <3>2, <3>4 DEF FinalizeText, Unlaunched
  <2> QED
    BY <2>1
<1> DEFINE Fine(d) ==
      \A t \in Runs :
        call'[d].target = t =>
          /\ call'[d].pc \in Unlaunched /\ call'[d].kind = "revival" => Executed(t)' = {}
          /\ /\ call'[d].pc \in {"marking_file", "executing", "finalizing"}
             /\ call'[d].kind = "revival"
             => state'[t].revivedBy = call'[d].new
          /\ call'[d].pc = "dismissing" => call'[d].copy.revivedBy = state'[t].revivedBy
<1>4. ASSUME \A d \in Callers : Fine(d) PROVE OnceInv'
  <2>1. ASSUME NEW r \in Runs PROVE (\A q \in Executed(r) : state[r].revivedBy = q)'
    BY <1>2
  <2>2. ASSUME NEW d \in Callers
        PROVE  (/\ call[d].pc \in Unlaunched /\ call[d].kind = "revival" =>
                     Executed(call[d].target) = {}
                /\ /\ call[d].pc \in {"marking_file", "executing", "finalizing"}
                   /\ call[d].kind = "revival"
                   => state[call[d].target].revivedBy = call[d].new
                /\ call[d].pc = "dismissing" =>
                     call[d].copy.revivedBy = state[call[d].target].revivedBy)'
    <3>1. CallInv'
      BY BasePreserved DEF Base
    <3>2. /\ call'[d].pc \in Working /\ call'[d].kind = "revival" => call'[d].target \in Runs
          /\ call'[d].pc = "dismissing" => call'[d].target \in Runs
      BY <3>1 DEF CallInv, Dismissing
    <3>3. Fine(d)
      BY <1>4
    <3> QED
      BY <3>2, <3>3 DEF Executed, Children, Working, Unwritten, Unlaunched
  <2> QED
    BY <2>1, <2>2 DEF OnceInv
(* Who holds the lock of a run and does not write its state finds it as    *)
(* it was.                                                                 *)
<1>5. ASSUME NEW d \in Callers, NEW t \in Runs, call[d].target = t, call[d].lock,
             ~MarkRevivedState(d), ~DismissState(d)
      PROVE  state'[t] = state[t]
  BY <1>5, SuccessorKept
<1>6. ASSUME NEW d \in Callers, call'[d] = call[d] PROVE Fine(d)
  <2> SUFFICES ASSUME NEW t \in Runs, call[d].target = t
               PROVE  /\ call[d].pc \in Unlaunched /\ call[d].kind = "revival" =>
                           Executed(t)' = {}
                      /\ /\ call[d].pc \in {"marking_file", "executing", "finalizing"}
                         /\ call[d].kind = "revival"
                         => state'[t].revivedBy = call[d].new
                      /\ call[d].pc = "dismissing" =>
                           call[d].copy.revivedBy = state'[t].revivedBy
    BY <1>6
  <2>1. ~MarkRevivedState(d) /\ ~DismissState(d)
    BY <1>1, <1>6, MoveEffects DEF Keeps, GoesOn, MarkRevivedState, DismissState
  <2>2. \/ call[d].pc = "dismissing"
        \/ call[d].pc \in Working /\ call[d].kind = "revival"
        => call[d].lock
    BY <1>1 DEF CallInv, LockInv, Dismissing
  <2>3. call[d].pc \in Unlaunched /\ call[d].kind = "revival" => Executed(t)' = {}
    BY <1>3
  <2>4. \/ call[d].pc = "dismissing"
        \/ call[d].pc \in {"marking_file", "executing", "finalizing"} /\ call[d].kind = "revival"
        => state'[t] = state[t]
    BY <1>5, <2>1, <2>2 DEF Working, Unwritten, Unlaunched
  <2> QED
    BY <2>3, <2>4 DEF OnceInv
<1> HIDE DEF Fine
<1>7. ASSUME NEW c \in Callers, OthersKeep(c), Fine(c) PROVE OnceInv'
  BY <1>4, <1>6, <1>7 DEF OthersKeep
<1>8. CASE call' = call
  BY <1>4, <1>6, <1>8
<1>9. ASSUME NEW c \in Callers, OthersKeep(c),
             \/ call'[c].pc \notin {"marking_file", "executing", "finalizing", "dismissing"}
                                   \cup Unlaunched
             \/ call'[c].kind # "revival" /\ call'[c].pc # "dismissing"
      PROVE  OnceInv'
  BY <1>7, <1>9 DEF Fine, Unlaunched
<1>10. ASSUME NEW c \in Callers, NEW r \in Runs, Delegate(c, r) PROVE OnceInv'
  BY <1>1, <1>9, <1>10, BeginEffects DEF Begins
<1>11. ASSUME NEW c \in Callers, NEW r \in Runs, Escalate(c, r) PROVE OnceInv'
  BY <1>1, <1>9, <1>11, BeginEffects DEF Begins
<1>12. ASSUME NEW c \in Callers, NEW r \in Runs, NEW kind \in Requests, Peek(c, r, kind)
       PROVE  OnceInv'
  <2>1. \E pc \in {"locking", "reading"} : Begins(c, pc, kind, r, NoState, NoRun)
    BY <1>1, <1>12, BeginEffects
  <2> QED
    BY <1>9, <2>1 DEF Begins, Unlaunched
<1>13. ASSUME NEW c \in Callers, NEW r \in Runs, StartDismissal(c, r) PROVE OnceInv'
  <2>1. /\ Begins(c, "dismissing", "dismiss", r, NoState, NoRun)
        /\ call'[c].copy = [state[r] EXCEPT !.dismissed = TRUE]
    BY <1>1, <1>13, BeginEffects
  <2>2. state[r] \in State /\ state' = state
    BY <1>1, <1>13 DEF StartDismissal, RunInv, files
  <2>3. call'[c].copy.revivedBy = state'[r].revivedBy
    BY <2>1, <2>2 DEF State
  <2>4. Fine(c)
    BY <2>1, <2>3 DEF Begins, Fine
  <2> QED
    BY <1>7, <2>1, <2>4 DEF Begins
(* A run that may be revived has not been: its successor would be named.   *)
<1>14. ASSUME NEW c \in Callers, NEW r \in Runs, Resume(c, r) PROVE OnceInv'
  <2>1. Begins(c, "preparing", KindOf(c), call[c].target, state[call[c].target], r)
    BY <1>1, <1>14, ResumeEffect
  <2>2. CASE KindOf(c) # "revival"
    BY <1>9, <2>1, <2>2 DEF Begins
  <2>3. CASE KindOf(c) = "revival"
    <3>1. PICK t \in Runs : t = call[c].target
      BY <1>1, <1>14 DEF Resume, CallInv
    <3>2. call[c].pc = "reading" /\ call[c].kind # "revival" /\ state[t] # NoState
      BY <1>1, <1>14, <3>1 DEF Resume, MayResume, CallInv, Replies
    <3>3. state[t].outcome = "limited"
      BY <2>3, <3>1, <3>2 DEF KindOf
    <3>4. call[c].lock
      BY <3>1, <3>2, <3>3 DEF LockInv
    <3>5. ~RunRevived(t, TRUE)
      <4>1. MayRevive(c)
        BY <1>14, <3>1, <3>3 DEF Resume, MayResume, MayRetry, MayReply
      <4> QED
        BY <3>1, <3>4, <4>1 DEF MayRevive, Revivable, RunRevived
    <3>6. complete' = complete
      BY <1>14 DEF Resume
    <3>7. ASSUME NEW q \in Executed(t)' PROVE FALSE
      <4>1. q \in Runs /\ q \in complete
        BY <3>6, <3>7 DEF Executed, Children
      <4>2. q \in Executed(t)
        BY <3>7, <4>1, Executing
      <4>3. state[t].revivedBy = q
        BY <4>2 DEF OnceInv
      <4> QED
        BY <3>5, <4>1, <4>3 DEF RunRevived
    <3>8. Executed(t)' = {}
      BY <3>7
    <3>9. Fine(c)
      <4> SUFFICES ASSUME NEW x \in Runs, x = t PROVE Executed(x)' = {}
        BY <2>1, <3>1 DEF Begins, Fine
      <4> QED
        BY <3>8
    <3> QED
      BY <1>7, <2>1, <3>9 DEF Begins
  <2> QED
    BY <2>2, <2>3
<1>15. ASSUME NEW c \in Callers, ReserveRevival(c) PROVE OnceInv'
  <2>1. GoesOn(c, "marking_state") /\ call[c].pc \in Unlaunched /\ call[c].kind = "revival"
    BY <1>1, <1>15, MoveEffects DEF ReserveRevival, Keeps, Unlaunched
  <2> QED
    BY <1>3, <1>7, <2>1 DEF GoesOn, Fine
<1>16. ASSUME NEW c \in Callers, MarkRevivedState(c) PROVE OnceInv'
  <2>1. GoesOn(c, "marking_file") /\ call[c].pc \in Unlaunched /\ call[c].kind = "revival"
    BY <1>1, <1>16, MoveEffects DEF MarkRevivedState, Keeps, CallInv, Unlaunched
  <2>2. state'[call[c].target].revivedBy = call[c].new
    BY <1>16, RevivedByWritten
  <2> QED
    BY <1>3, <1>7, <2>1, <2>2 DEF GoesOn, Fine
<1>17. ASSUME NEW c \in Callers, MarkRevivedFile(c) \/ FinalizeState(c) PROVE OnceInv'
  <2>1. /\ call[c].pc \in {"marking_file", "executing"}
        /\ \E pc \in {"executing", "finalizing"} : GoesOn(c, pc)
    BY <1>1, <1>17, MoveEffects DEF MarkRevivedFile, FinalizeState, Keeps
  <2>2. ~MarkRevivedState(c) /\ ~DismissState(c)
    BY <2>1 DEF MarkRevivedState, DismissState
  <2>3. call[c].kind = "revival" => call[c].lock
    BY <2>1 DEF LockInv, Working, Unwritten, Unlaunched
  <2> QED
    BY <1>5, <1>7, <2>1, <2>2, <2>3 DEF GoesOn, Fine, OnceInv, Unlaunched
<1>18. ASSUME NEW c \in Callers, Launch(c) PROVE OnceInv'
  BY <1>1, <1>9, <1>18, MoveEffects DEF Launch, Keeps, GoesOn
<1>19. ASSUME NEW c \in Callers,
              TakeLock(c) \/ RefuseResume(c) \/ CallStops(c) \/ PrepareBlocked(c) \/ WriteBack(c)
              \/ FinalizeText(c) \/ ReadBack(c) \/ WriteEscalated(c) \/ DismissState(c)
              \/ DismissMarker(c)
       PROVE  OnceInv'
  <2>1. Stops(c) \/ \E pc \in {"reading", "merging", "rewriting", "escalating",
                               "dismiss_marking"} : GoesOn(c, pc)
    BY <1>1, <1>19, MoveEffects, TakeLockEffect, ReadBackEffect, EscalatedEffect DEF Keeps
  <2> QED
    BY <1>9, <2>1 DEF Stops, GoesOn, Unlaunched
<1>20. ASSUME NEW r \in Runs, ResetPasses(r) \/ Discard(r) PROVE OnceInv'
  BY <1>8, <1>20 DEF ResetPasses, Discard
<1> QED
  BY <1>8, <1>10, <1>11, <1>12, <1>13, <1>14, <1>15, <1>16, <1>17, <1>18, <1>19, <1>20
     DEF Next, CallStep, vars

(* However many processes ask for it, stop on the way or rewrite its       *)
(* state.json: at most one revival of a run is executed to the end.        *)
THEOREM RevivedOnceTheorem == Nameable = "returned" => (Spec => []RevivedOnce)
<1> DEFINE Inv == Base /\ HistoryInv /\ TargetInv /\ LockInv /\ OnceInv
<1>1. Init => Inv
  <2> SUFFICES ASSUME Init PROVE Inv
    OBVIOUS
  <2>1. Base
    BY InitBase
  <2>2. HistoryInv /\ TargetInv /\ LockInv
    BY ChainAssumption DEF Init, Idle, HistoryInv, TargetInv, LockInv, Exists, Links, Working,
       Unwritten, Unlaunched, Finished
  <2>3. OnceInv
    BY DEF Init, Idle, OnceInv, Executed, Unlaunched
  <2> QED
    BY <2>1, <2>2, <2>3
<1>2. Nameable = "returned" /\ Inv /\ [Next]_vars => Inv'
  BY BasePreserved, HistoryPreserved, TargetPreserved, LockPreserved, OncePreserved
<1>3. Inv => RevivedOnce
  <2> SUFFICES ASSUME OnceInv, NEW r \in Runs PROVE Cardinality(Executed(r)) <= 1
    BY DEF RevivedOnce, Executed
  <2>1. \A q \in Executed(r) : q = state[r].revivedBy
    BY DEF OnceInv
  <2>2. Executed(r) = {} \/ Executed(r) = {state[r].revivedBy}
    BY <2>1
  <2>3. Cardinality({}) = 0 /\ Cardinality({state[r].revivedBy}) = 1
    BY FS_EmptySet, FS_Singleton
  <2> QED
    BY <2>2, <2>3
<1>4. Nameable = "returned" => (Nameable = "returned")'
  OBVIOUS
<1> QED
  BY <1>1, <1>2, <1>3, <1>4, PTL DEF Spec
===============================================================================
