----------------------------- MODULE RunChainProofs -----------------------------
(***************************************************************************)
(* Types, calls and histories of RunChain, for any number of runs, callers *)
(* and stops: what the other two proof modules start from.  The budgets  *)
(* follow in RunChainBudgetProofs, revival in RunChainRevivalProofs.       *)
(***************************************************************************)
EXTENDS RunChain, FiniteSetTheorems, TLAPS

Unlaunched == {"preparing", "marking_state", "marking_file"}
Unwritten  == Unlaunched \cup {"executing"}
Finished   == {"merging", "rewriting", "escalating"}
Working    == Unwritten \cup {"finalizing"} \cup Finished
Dismissing == {"dismissing", "dismiss_marking"}

(* What a call holds at each stage.                                        *)
CallInv ==
  \A c \in Callers :
    /\ call[c].pc = "idle" => ~call[c].lock
    /\ call[c].pc \in {"locking", "reading"} \cup Dismissing => call[c].target \in Runs
    /\ call[c].pc \in {"locking", "reading"} => call[c].kind \in {"retry"} \cup Replies
    /\ call[c].pc \in Working =>
         /\ call[c].own \in State /\ call[c].new \in Runs
         /\ call[c].kind = how[call[c].new] /\ call[c].kind \notin {"none", "dismiss"}
         /\ call[c].target = parent[call[c].new]
         /\ call[c].kind # "delegate" => call[c].target \in Runs
         /\ call[c].kind = "delegate" => call[c].target = NoRun /\ call[c].own = Fresh
    /\ call[c].pc \notin Working => call[c].new = NoRun
    /\ call[c].pc \in Finished => call[c].kind # "delegate"
    /\ call[c].pc \in {"marking_state", "marking_file"} => call[c].kind = "revival"
    /\ call[c].pc \in {"rewriting", "escalating", "dismissing"} => call[c].copy \in State
    /\ call[c].pc = "escalating" => call[c].kind = "retry" /\ call[c].copy.outcome = "failed"
    /\ call[c].pc \in Dismissing => call[c].lock

(* No two calls write the same new run, and its files tell how far its     *)
(* call has come.                                                          *)
StageInv ==
  /\ \A c, d \in Callers : call[c].new = call[d].new /\ call[c].new # NoRun => c = d
  /\ \A c \in Callers :
       /\ call[c].pc \in Unlaunched => call[c].new \notin launched
       /\ call[c].pc \in Working \ Unlaunched => call[c].new \in launched
       /\ call[c].pc \in Unwritten => state[call[c].new] = NoState
       /\ call[c].pc \in Working \ Unwritten => state[call[c].new] \in State
       /\ call[c].pc \in Working \ Finished => call[c].new \notin complete
       /\ call[c].pc \in Finished => call[c].new \in complete
       /\ call[c].pc \in Working => call[c].new \notin settled

(* A run that does not exist is mentioned nowhere.                         *)
RunInv ==
  \A r \in Runs :
    /\ ~Exists(r) => /\ state[r] = NoState /\ r \notin complete /\ r \notin launched
                     /\ \A q \in Runs : parent[q] # r /\ r \notin line[q]
                     /\ \A c \in Callers : call[c].target # r
    /\ r \in complete => state[r] \in State
    /\ r \in settled => r \in complete
    /\ Exists(r) => r \in line[r]

(* What state.json says of outcome, attempts, rounds and revivals is said  *)
(* once: every later version a call holds agrees with it.                  *)
Settled(a, b) ==
  /\ a.outcome = b.outcome /\ a.attempts = b.attempts
  /\ a.rounds = b.rounds /\ a.count = b.count

SettledInv ==
  \A c \in Callers :
    /\ call[c].pc \in Working /\ call[c].kind # "delegate" =>
         state[call[c].target] \in State /\ Settled(call[c].own, state[call[c].target])
    /\ call[c].pc \in {"rewriting", "escalating"} => Settled(call[c].copy, state[call[c].new])
    /\ call[c].pc = "dismissing" =>
         state[call[c].target] \in State /\ Settled(call[c].copy, state[call[c].target])

Base == TypeOK /\ CallInv /\ StageInv /\ RunInv /\ SettledInv

LEMMA InitBase == Init => Base
<1> SUFFICES ASSUME Init PROVE Base
  OBVIOUS
<1> USE ChainAssumption DEF Init, Idle
<1>1. TypeOK
  BY DEF TypeOK, Call, Pc, Kind
<1>2. CallInv
  BY DEF CallInv, Working, Unwritten, Unlaunched, Finished, Dismissing
<1>3. StageInv
  BY DEF StageInv, Working, Unwritten, Unlaunched, Finished
<1>4. RunInv
  BY DEF RunInv, Exists
<1>5. SettledInv
  BY DEF SettledInv, Working, Unwritten, Unlaunched, Finished
<1> QED
  BY <1>1, <1>2, <1>3, <1>4, <1>5 DEF Base

LEMMA FreshState == Fresh \in State
BY ChainAssumption DEF Fresh, State, OutcomeType, Nothing, ChainAssumption

-------------------------------------------------------------------------------
(* Types.                                                                  *)

LEMMA PcType == Working \cup Dismissing \cup {"idle", "locking", "reading"} \subseteq Pc
BY DEF Pc, Working, Unwritten, Unlaunched, Finished, Dismissing

LEMMA IdleType == Idle \in Call
BY DEF Idle, Call, Pc, Kind

LEMMA GoesType ==
  ASSUME TypeOK, NEW c \in Callers, NEW pc \in Pc, Goes(c, pc)
  PROVE  call' \in [Callers -> Call]
<1>1. call \in [Callers -> Call]
  BY DEF TypeOK
<1> QED
  BY <1>1 DEF Goes, Call

LEMMA EndsType ==
  ASSUME TypeOK, NEW c \in Callers, Ends(c)
  PROVE  call' \in [Callers -> Call]
BY IdleType DEF TypeOK, Ends

LEMMA SetsCallType ==
  ASSUME TypeOK, NEW c \in Callers, NEW k \in Call, call' = [call EXCEPT ![c] = k]
  PROVE  call' \in [Callers -> Call]
BY DEF TypeOK

LEMMA SetsTwoType ==
  ASSUME TypeOK, NEW c \in Callers, NEW pc \in Pc
  PROVE  /\ \A lock \in BOOLEAN :
              call' = [call EXCEPT ![c].pc = pc, ![c].lock = lock] => call' \in [Callers -> Call]
         /\ \A copy \in State :
              call' = [call EXCEPT ![c].pc = pc, ![c].copy = copy] => call' \in [Callers -> Call]
<1>1. call \in [Callers -> Call]
  BY DEF TypeOK
<1>2. ASSUME NEW lock \in BOOLEAN, call' = [call EXCEPT ![c].pc = pc, ![c].lock = lock]
      PROVE  call' \in [Callers -> Call]
  BY <1>1, <1>2 DEF Call
<1>3. ASSUME NEW copy \in State, call' = [call EXCEPT ![c].pc = pc, ![c].copy = copy]
      PROVE  call' \in [Callers -> Call]
  BY <1>1, <1>3 DEF Call
<1> QED
  BY <1>2, <1>3

LEMMA FlagsType ==
  ASSUME NEW st \in State
  PROVE  /\ [st EXCEPT !.dismissed = TRUE] \in State
         /\ [st EXCEPT !.escalated = TRUE] \in State
BY DEF State

LEMMA PlusType ==
  ASSUME NEW a \in [Sigs -> Nat], NEW b \in [Sigs -> Nat]
  PROVE  Plus(a, b) \in [Sigs -> Nat]
BY DEF Plus

LEMMA NewRunType ==
  ASSUME TypeOK, NEW c \in Callers, NEW r \in Runs, NEW kind \in Kind,
         NEW target \in Runs \cup {NoRun}, NewRun(c, r, kind, target)
  PROVE  /\ how' \in [Runs -> Kind]
         /\ parent' \in [Runs -> Runs \cup {NoRun}]
         /\ line' \in [Runs -> SUBSET Runs]
<1>1. target # NoRun => line[target] \in SUBSET Runs
  BY DEF TypeOK
<1> QED
  BY <1>1 DEF TypeOK, NewRun

LEMMA WriteType ==
  ASSUME TypeOK, NEW r \in Runs, NEW st \in State, state' = [state EXCEPT ![r] = st]
  PROVE  state' \in [Runs -> State \cup {NoState}]
BY DEF TypeOK

(* The first state.json of a run: of one that was blocked before it began, *)
(* and of one that was executed.                                           *)
LEMMA BlockedState ==
  ASSUME Base, NEW c \in Callers, PrepareBlocked(c)
  PROVE  /\ call[c].new \in Runs /\ state'[call[c].new] \in State
         /\ \A q \in Runs \ {call[c].new} : state'[q] = state[q]
         /\ state'[call[c].new].outcome = "stopped"
         /\ state'[call[c].new].attempts = call[c].own.attempts
         /\ state'[call[c].new].rounds = Rounds(c)
         /\ state'[call[c].new].seen = call[c].own.seen
         /\ state'[call[c].new].revivedBy = NoRun
         /\ ~state'[call[c].new].escalated /\ ~state'[call[c].new].dismissed
<1>1. call[c].own \in State /\ call[c].new \in Runs /\ state \in [Runs -> State \cup {NoState}]
  BY DEF PrepareBlocked, Base, TypeOK, CallInv, Working, Unwritten, Unlaunched
<1>2. Rounds(c) \in Nat
  BY <1>1 DEF Rounds, State
<1> DEFINE first == [Fresh EXCEPT !.attempts = call[c].own.attempts, !.seen = call[c].own.seen,
                                  !.rounds = Rounds(c)]
<1>3. first \in State
  BY <1>1, <1>2, FreshState DEF State
<1>4. /\ first.outcome = "stopped" /\ first.attempts = call[c].own.attempts
      /\ first.rounds = Rounds(c) /\ first.seen = call[c].own.seen /\ first.revivedBy = NoRun
      /\ ~first.escalated /\ ~first.dismissed
  BY DEF Fresh
<1>5. state' = [state EXCEPT ![call[c].new] = first]
  BY DEF PrepareBlocked
<1> HIDE DEF first
<1> QED
  BY <1>1, <1>3, <1>4, <1>5

LEMMA FinalizedState ==
  ASSUME Base, NEW c \in Callers, FinalizeState(c)
  PROVE  LET st == state'[call[c].new] IN
         /\ call[c].new \in Runs /\ st \in State
         /\ \A q \in Runs \ {call[c].new} : state'[q] = state[q] /\ sig'[q] = sig[q]
         /\ st.attempts = IF call[c].kind \in Continuations
                            THEN call[c].own.attempts ELSE call[c].own.attempts + 1
         /\ st.rounds = Rounds(c)
         /\ st.count = IF st.outcome = "limited" THEN context[call[c].new] ELSE 0
         /\ st.revivedBy = NoRun /\ ~st.escalated /\ ~st.dismissed
         /\ \A x \in Sigs : st.seen[x] = IF sig'[call[c].new] = x THEN 1 ELSE 0
         /\ sig' \in [Runs -> Sigs \cup {NoSig}]
         /\ reset' \in [Runs -> {"none", "unknown", "future", "passed"}]
<1>1. call[c].own \in State /\ call[c].new \in Runs /\ TypeOK
  BY DEF FinalizeState, Base, CallInv, Working, Unwritten
<1>2. Rounds(c) \in Nat /\ context[call[c].new] \in Nat
  BY <1>1 DEF Rounds, State, TypeOK
<1>3. PICK outcome \in Outcomes, s \in Sigs \cup {NoSig} :
        /\ sig' = [sig EXCEPT ![call[c].new] = s]
        /\ state' = [state EXCEPT ![call[c].new] =
             [Fresh EXCEPT
                !.outcome = outcome,
                !.attempts = IF call[c].kind \in Continuations
                               THEN call[c].own.attempts ELSE call[c].own.attempts + 1,
                !.rounds = Rounds(c),
                !.seen = [x \in Sigs |-> IF x = s THEN 1 ELSE 0],
                !.count = IF outcome = "limited" THEN context[call[c].new] ELSE 0]]
        /\ \E when \in IF outcome = "limited" THEN {"unknown", "future"} ELSE {"none"} :
             reset' = [reset EXCEPT ![call[c].new] = when]
  BY DEF FinalizeState
<1> DEFINE attempts == IF call[c].kind \in Continuations
                         THEN call[c].own.attempts ELSE call[c].own.attempts + 1
           seen == [x \in Sigs |-> IF x = s THEN 1 ELSE 0]
           count == IF outcome = "limited" THEN context[call[c].new] ELSE 0
           first == [Fresh EXCEPT !.outcome = outcome, !.attempts = attempts,
                                  !.rounds = Rounds(c), !.seen = seen, !.count = count]
<1>4. outcome \in OutcomeType /\ attempts \in Nat /\ seen \in [Sigs -> Nat] /\ count \in Nat
  BY <1>1, <1>2, ChainAssumption DEF State, ChainAssumption
<1>5. \A x \in Sigs : seen[x] = IF s = x THEN 1 ELSE 0
  OBVIOUS
<1>6. state' = [state EXCEPT ![call[c].new] = first]
  BY <1>3
<1> HIDE DEF attempts, seen, count
<1>7. first \in State
  BY <1>2, <1>4, FreshState DEF State
<1>8. /\ first.outcome = outcome /\ first.attempts = attempts /\ first.rounds = Rounds(c)
      /\ first.seen = seen /\ first.count = count
      /\ first.revivedBy = NoRun /\ ~first.escalated /\ ~first.dismissed
  BY DEF Fresh
<1> HIDE DEF first
<1>9. /\ state'[call[c].new] = first
      /\ \A q \in Runs \ {call[c].new} : state'[q] = state[q]
  BY <1>1, <1>6 DEF TypeOK
<1>10. /\ sig'[call[c].new] = s /\ \A q \in Runs \ {call[c].new} : sig'[q] = sig[q]
       /\ sig' \in [Runs -> Sigs \cup {NoSig}]
       /\ reset' \in [Runs -> {"none", "unknown", "future", "passed"}]
  BY <1>1, <1>3 DEF TypeOK
<1> QED
  BY <1>1, <1>5, <1>7, <1>8, <1>9, <1>10 DEF attempts, count

LEMMA TypePreserved == Base /\ [Next]_vars => TypeOK'
<1> SUFFICES ASSUME Base, [Next]_vars PROVE TypeOK'
  OBVIOUS
<1> USE ChainAssumption DEF Base
<1>1. CASE UNCHANGED vars
  BY <1>1 DEF TypeOK, vars, lineage
<1>2. ASSUME NEW c \in Callers, NEW r \in Runs, Delegate(c, r) PROVE TypeOK'
  <2>1. "delegate" \in Kind
    BY DEF Kind
  <2>2. [Idle EXCEPT !.pc = "preparing", !.kind = "delegate", !.own = Fresh, !.new = r] \in Call
    BY FreshState, <2>1 DEF Idle, Call, Pc
  <2> QED
    BY <1>2, <2>1, <2>2, NewRunType, SetsCallType DEF Delegate, TypeOK
<1>3. ASSUME NEW c \in Callers, NEW r \in Runs, StartDismissal(c, r) PROVE TypeOK'
  <2>1. [state[r] EXCEPT !.dismissed = TRUE] \in State
    BY <1>3, FlagsType DEF StartDismissal, RunInv
  <2>2. [Idle EXCEPT !.pc = "dismissing", !.kind = "dismiss", !.target = r, !.lock = TRUE,
                     !.copy = [state[r] EXCEPT !.dismissed = TRUE]] \in Call
    BY <2>1 DEF Idle, Call, Pc, Kind
  <2> QED
    BY <1>3, <2>2, SetsCallType DEF StartDismissal, TypeOK, files, lineage
<1>4. ASSUME NEW c \in Callers, NEW r \in Runs, NEW kind \in Requests, Peek(c, r, kind)
      PROVE  TypeOK'
  <2>1. \A pc \in {"locking", "reading"} :
          [Idle EXCEPT !.kind = kind, !.target = r, !.pc = pc] \in Call
    BY DEF Idle, Call, Pc, Kind
  <2>2. call' \in [Callers -> Call]
    BY <1>4, <2>1, SetsCallType DEF Peek
  <2> QED
    BY <1>4, <2>2 DEF Peek, TypeOK, files, lineage
<1>5. ASSUME NEW c \in Callers, NEW r \in Runs, Resume(c, r) PROVE TypeOK'
  <2> DEFINE st == state[call[c].target]
             kind == IF st.outcome = "limited" THEN "revival" ELSE call[c].kind
  <2>1. call[c] \in Call /\ call[c].target \in Runs /\ st \in State
    BY <1>5 DEF Resume, MayResume, CallInv, TypeOK
  <2>2. kind \in Kind
    BY <2>1 DEF Call, Kind
  <2>3. call' \in [Callers -> Call]
    BY <1>5, <2>1, <2>2 DEF Resume, TypeOK, Call, Pc
  <2>4. context' \in [Runs -> Nat]
    BY <1>5, <2>1 DEF Resume, TypeOK, State
  <2>5. how' \in [Runs -> Kind] /\ parent' \in [Runs -> Runs \cup {NoRun}]
        /\ line' \in [Runs -> SUBSET Runs]
    BY <1>5, <2>1, <2>2, NewRunType DEF Resume
  <2> QED
    BY <1>5, <2>3, <2>4, <2>5 DEF Resume, TypeOK
<1>6. ASSUME NEW c \in Callers, NEW r \in Runs, Escalate(c, r) PROVE TypeOK'
  <2>1. call[c].copy \in State /\ call[c].new \in Runs
    BY <1>6 DEF Escalate, CallInv, Working, Finished
  <2>2. "escalation" \in Kind
    BY DEF Kind
  <2>3. [Idle EXCEPT !.pc = "preparing", !.kind = "escalation", !.target = call[c].new,
                     !.own = call[c].copy, !.new = r] \in Call
    BY <2>1, <2>2 DEF Idle, Call, Pc
  <2>4. call' \in [Callers -> Call]
    BY <1>6, <2>3, SetsCallType DEF Escalate
  <2>5. how' \in [Runs -> Kind] /\ parent' \in [Runs -> Runs \cup {NoRun}]
        /\ line' \in [Runs -> SUBSET Runs]
    BY <1>6, <2>1, <2>2, NewRunType DEF Escalate
  <2> QED
    BY <1>6, <2>1, <2>4, <2>5 DEF Escalate, TypeOK
<1>7. ASSUME NEW c \in Callers, TakeLock(c) PROVE TypeOK'
  <2>1. call' \in [Callers -> Call]
    <3>1. CASE Ends(c)
      BY <3>1, EndsType
    <3>2. CASE call' = [call EXCEPT ![c].pc = "reading", ![c].lock = TRUE]
      BY <3>2, SetsTwoType DEF Pc
    <3> QED
      BY <1>7, <3>1, <3>2 DEF TakeLock
  <2> QED
    BY <1>7, <2>1 DEF TakeLock, TypeOK, files, lineage
<1>8. ASSUME NEW c \in Callers, RefuseResume(c) \/ CallStops(c) PROVE TypeOK'
  <2>1. call' \in [Callers -> Call]
    BY <1>8, EndsType DEF RefuseResume, CallStops
  <2> QED
    BY <1>8, <2>1 DEF RefuseResume, CallStops, TypeOK, files, lineage
<1>9. ASSUME NEW c \in Callers, PrepareBlocked(c) PROVE TypeOK'
  <2>1. call[c].new \in Runs /\ state'[call[c].new] \in State
        /\ \E st : state' = [state EXCEPT ![call[c].new] = st]
    BY <1>9, BlockedState DEF PrepareBlocked
  <2>2. state' \in [Runs -> State \cup {NoState}]
    BY <2>1 DEF TypeOK
  <2>3. call' \in [Callers -> Call]
    BY <1>9, EndsType DEF PrepareBlocked
  <2> QED
    BY <1>9, <2>1, <2>2, <2>3 DEF PrepareBlocked, TypeOK, lineage
<1>10. ASSUME NEW c \in Callers, Launch(c) \/ ReserveRevival(c) \/ FinalizeText(c) PROVE TypeOK'
  <2>1. call[c].new \in Runs
    BY <1>10 DEF Launch, ReserveRevival, FinalizeText, CallInv, Working, Unwritten, Unlaunched
  <2>2. call' \in [Callers -> Call]
    BY <1>10, GoesType, EndsType DEF Launch, ReserveRevival, FinalizeText, Pc
  <2> QED
    BY <1>10, <2>1, <2>2 DEF Launch, ReserveRevival, FinalizeText, TypeOK, files, lineage
<1>11. ASSUME NEW c \in Callers, MarkRevivedState(c) PROVE TypeOK'
  <2>1. call[c].own \in State /\ call[c].new \in Runs /\ call[c].target \in Runs
    BY <1>11 DEF MarkRevivedState, CallInv, Working, Unwritten, Unlaunched
  <2>2. [call[c].own EXCEPT !.revivedBy = call[c].new] \in State
    BY <2>1 DEF State
  <2>3. state' \in [Runs -> State \cup {NoState}]
    BY <1>11, <2>1, <2>2, WriteType DEF MarkRevivedState
  <2>4. call' \in [Callers -> Call]
    BY <1>11, GoesType DEF MarkRevivedState, Pc
  <2> QED
    BY <1>11, <2>3, <2>4 DEF MarkRevivedState, TypeOK, lineage
<1>12. ASSUME NEW c \in Callers, MarkRevivedFile(c) PROVE TypeOK'
  <2>1. call[c].new \in Runs
    BY <1>12 DEF MarkRevivedFile, CallInv, Working, Unwritten, Unlaunched
  <2>2. call' \in [Callers -> Call]
    BY <1>12, GoesType DEF MarkRevivedFile, Pc
  <2> QED
    BY <1>12, <2>1, <2>2 DEF MarkRevivedFile, TypeOK, lineage
<1>13. ASSUME NEW c \in Callers, FinalizeState(c) PROVE TypeOK'
  <2>1. /\ call[c].new \in Runs /\ state'[call[c].new] \in State
        /\ \E st : state' = [state EXCEPT ![call[c].new] = st]
        /\ sig' \in [Runs -> Sigs \cup {NoSig}]
        /\ reset' \in [Runs -> {"none", "unknown", "future", "passed"}]
    BY <1>13, FinalizedState DEF FinalizeState
  <2>2. state' \in [Runs -> State \cup {NoState}]
    BY <2>1 DEF TypeOK
  <2>3. call' \in [Callers -> Call]
    BY <1>13, GoesType DEF FinalizeState, Pc
  <2> QED
    BY <1>13, <2>1, <2>2, <2>3 DEF FinalizeState, TypeOK, lineage
<1>14. ASSUME NEW c \in Callers, ReadBack(c) PROVE TypeOK'
  <2> DEFINE copy == [state[call[c].new] EXCEPT
                        !.seen = Plus(call[c].own.seen, @),
                        !.escalated = CASE call[c].kind \in Continuations -> call[c].own.escalated
                                        [] call[c].kind = "escalation"    -> TRUE
                                        [] OTHER                          -> @]
  <2>1. call[c].own \in State /\ state[call[c].new] \in State
    BY <1>14 DEF ReadBack, CallInv, StageInv, Working, Unwritten, Unlaunched, Finished
  <2>2. Plus(call[c].own.seen, state[call[c].new].seen) \in [Sigs -> Nat]
    BY <2>1, PlusType DEF State
  <2>3. copy \in State
    BY <2>1, <2>2 DEF State
  <2>4. call' = [call EXCEPT ![c].pc = "rewriting", ![c].copy = copy]
    BY <1>14 DEF ReadBack
  <2> HIDE DEF copy
  <2>5. call' \in [Callers -> Call]
    BY <2>3, <2>4, SetsTwoType DEF Pc
  <2> QED
    BY <1>14, <2>5 DEF ReadBack, TypeOK, files, lineage
<1>15. ASSUME NEW c \in Callers, WriteBack(c) PROVE TypeOK'
  <2>1. call[c].copy \in State /\ call[c].new \in Runs
    BY <1>15 DEF WriteBack, CallInv, Working, Finished
  <2>2. call' \in [Callers -> Call] /\ state' \in [Runs -> State \cup {NoState}]
    BY <1>15, <2>1, EndsType, WriteType DEF WriteBack
  <2> QED
    BY <1>15, <2>1, <2>2 DEF WriteBack, TypeOK, lineage
<1>19. ASSUME NEW c \in Callers, WriteEscalated(c) PROVE TypeOK'
  <2> DEFINE copy == [call[c].copy EXCEPT !.escalated = TRUE]
  <2>1. copy \in State /\ call[c].new \in Runs
    BY <1>19, FlagsType DEF WriteEscalated, CallInv, Working, Finished
  <2>2. /\ state' = [state EXCEPT ![call[c].new] = copy]
        /\ call' = [call EXCEPT ![c].pc = "escalating", ![c].copy = copy]
    BY <1>19 DEF WriteEscalated
  <2> HIDE DEF copy
  <2>3. call' \in [Callers -> Call] /\ state' \in [Runs -> State \cup {NoState}]
    BY <2>1, <2>2, SetsTwoType, WriteType DEF Pc
  <2> QED
    BY <1>19, <2>3 DEF WriteEscalated, TypeOK, lineage
<1>16. ASSUME NEW c \in Callers, DismissState(c) \/ DismissMarker(c) PROVE TypeOK'
  <2>1. call[c].target \in Runs /\ (DismissState(c) => call[c].copy \in State)
    BY <1>16 DEF DismissState, DismissMarker, CallInv, Dismissing
  <2>2. call' \in [Callers -> Call]
    BY <1>16, EndsType, GoesType DEF DismissState, DismissMarker, Pc
  <2>3. state' \in [Runs -> State \cup {NoState}]
    BY <1>16, <2>1, WriteType DEF DismissState, DismissMarker, TypeOK
  <2> QED
    BY <1>16, <2>2, <2>3 DEF DismissState, DismissMarker, TypeOK, lineage
<1>17. ASSUME NEW r \in Runs, ResetPasses(r) \/ Discard(r) PROVE TypeOK'
  BY <1>17 DEF ResetPasses, Discard, TypeOK, lineage
<1>18. ASSUME NEW c \in Callers, CallStep(c) PROVE TypeOK'
  BY <1>5, <1>6, <1>7, <1>8, <1>9, <1>10, <1>11, <1>12, <1>13, <1>14, <1>15, <1>16, <1>18,
     <1>19 DEF CallStep
<1> QED
  BY <1>1, <1>2, <1>3, <1>4, <1>8, <1>17, <1>18 DEF Next

-------------------------------------------------------------------------------
(* What a step does to the calls.                                          *)

OthersKeep(c) == \A d \in Callers \ {c} : call'[d] = call[d]

(* c goes on with what it holds.                                           *)
GoesOn(c, pc) ==
  /\ OthersKeep(c)
  /\ call'[c].pc = pc /\ call'[c].kind = call[c].kind /\ call'[c].target = call[c].target
  /\ call'[c].own = call[c].own /\ call'[c].new = call[c].new

Stops(c) ==
  /\ OthersKeep(c)
  /\ call'[c].pc = "idle" /\ call'[c].target = NoRun /\ call'[c].new = NoRun
  /\ ~call'[c].lock

LEMMA GoesEffect ==
  ASSUME TypeOK, NEW c \in Callers, NEW pc \in Pc, Goes(c, pc)
  PROVE  GoesOn(c, pc) /\ call'[c].lock = call[c].lock /\ call'[c].copy = call[c].copy
<1>1. call \in [Callers -> Call]
  BY DEF TypeOK
<1> QED
  BY <1>1 DEF Goes, Call, GoesOn, OthersKeep

LEMMA EndsEffect ==
  ASSUME TypeOK, NEW c \in Callers, Ends(c)
  PROVE  Stops(c)
<1>1. call \in [Callers -> Call]
  BY DEF TypeOK
<1> QED
  BY <1>1 DEF Ends, Idle, Stops, OthersKeep

LEMMA TakeLockEffect ==
  ASSUME TypeOK, NEW c \in Callers, TakeLock(c)
  PROVE  IF LockHeld(call[c].target) THEN Stops(c)
         ELSE GoesOn(c, "reading") /\ call'[c].lock
<1>1. call \in [Callers -> Call]
  BY DEF TypeOK
<1>2. CASE LockHeld(call[c].target)
  BY <1>2, EndsEffect DEF TakeLock
<1>3. CASE ~LockHeld(call[c].target)
  <2>1. call' = [call EXCEPT ![c].pc = "reading", ![c].lock = TRUE]
    BY <1>3 DEF TakeLock
  <2> QED
    BY <1>1, <1>3, <2>1 DEF Call, GoesOn, OthersKeep
<1> QED
  BY <1>2, <1>3

(* The state a finished run gets from the one of its predecessor.          *)
Merged(c) ==
  [state[call[c].new] EXCEPT
     !.seen = Plus(call[c].own.seen, @),
     !.escalated = CASE call[c].kind \in Continuations -> call[c].own.escalated
                     [] call[c].kind = "escalation"    -> TRUE
                     [] OTHER                          -> @]

LEMMA MergedType ==
  ASSUME NEW c \in Callers, call[c].own \in State, state[call[c].new] \in State
  PROVE  Merged(c) \in State
<1>1. Plus(call[c].own.seen, state[call[c].new].seen) \in [Sigs -> Nat]
  BY PlusType DEF State
<1> QED
  BY <1>1 DEF Merged, State

LEMMA ReadBackEffect ==
  ASSUME TypeOK, NEW c \in Callers, ReadBack(c)
  PROVE  GoesOn(c, "rewriting") /\ call'[c].lock = call[c].lock /\ call'[c].copy = Merged(c)
<1>1. call \in [Callers -> Call]
  BY DEF TypeOK
<1> DEFINE copy == Merged(c)
<1>2. call' = [call EXCEPT ![c].pc = "rewriting", ![c].copy = copy]
  BY DEF ReadBack, Merged
<1> HIDE DEF copy
<1>3. GoesOn(c, "rewriting") /\ call'[c].lock = call[c].lock /\ call'[c].copy = copy
  BY <1>1, <1>2 DEF Call, GoesOn, OthersKeep
<1> QED
  BY <1>3 DEF copy

LEMMA EscalatedEffect ==
  ASSUME TypeOK, NEW c \in Callers, WriteEscalated(c)
  PROVE  GoesOn(c, "escalating") /\ call'[c].lock = call[c].lock
         /\ call'[c].copy = [call[c].copy EXCEPT !.escalated = TRUE]
<1>1. call \in [Callers -> Call]
  BY DEF TypeOK
<1> DEFINE copy == [call[c].copy EXCEPT !.escalated = TRUE]
<1>2. call' = [call EXCEPT ![c].pc = "escalating", ![c].copy = copy]
  BY DEF WriteEscalated
<1> HIDE DEF copy
<1>3. GoesOn(c, "escalating") /\ call'[c].lock = call[c].lock /\ call'[c].copy = copy
  BY <1>1, <1>2 DEF Call, GoesOn, OthersKeep
<1> QED
  BY <1>3 DEF copy

(* A call begins, with the new run r of target or without one.             *)
Begins(c, pc, kind, target, own, r) ==
  /\ OthersKeep(c)
  /\ call'[c].pc = pc /\ call'[c].kind = kind /\ call'[c].target = target
  /\ call'[c].own = own /\ call'[c].new = r

LEMMA BeginEffects ==
  ASSUME TypeOK, NEW c \in Callers, NEW r \in Runs
  PROVE  /\ Delegate(c, r) => Begins(c, "preparing", "delegate", NoRun, Fresh, r) /\ ~call'[c].lock
         /\ \A kind \in Requests : Peek(c, r, kind) =>
              /\ Begins(c, IF state[r] # NoState /\ state[r].outcome = "limited"
                            THEN "locking" ELSE "reading", kind, r, NoState, NoRun)
              /\ ~call'[c].lock
         /\ StartDismissal(c, r) =>
              /\ Begins(c, "dismissing", "dismiss", r, NoState, NoRun)
              /\ call'[c].lock /\ call'[c].copy = [state[r] EXCEPT !.dismissed = TRUE]
         /\ Escalate(c, r) =>
              /\ Begins(c, "preparing", "escalation", call[c].new, call[c].copy, r)
              /\ ~call'[c].lock
<1>1. call \in [Callers -> Call]
  BY DEF TypeOK
<1>2. Delegate(c, r) => Begins(c, "preparing", "delegate", NoRun, Fresh, r) /\ ~call'[c].lock
  BY <1>1 DEF Delegate, Idle, Begins, OthersKeep
<1>3. ASSUME NEW kind \in Requests, Peek(c, r, kind)
      PROVE  /\ Begins(c, IF state[r] # NoState /\ state[r].outcome = "limited"
                           THEN "locking" ELSE "reading", kind, r, NoState, NoRun)
             /\ ~call'[c].lock
  BY <1>1, <1>3 DEF Peek, Idle, Begins, OthersKeep
<1>4. ASSUME StartDismissal(c, r)
      PROVE  /\ Begins(c, "dismissing", "dismiss", r, NoState, NoRun)
             /\ call'[c].lock /\ call'[c].copy = [state[r] EXCEPT !.dismissed = TRUE]
  <2> DEFINE copy == [state[r] EXCEPT !.dismissed = TRUE]
  <2>1. call' = [call EXCEPT ![c] = [Idle EXCEPT
                   !.pc = "dismissing", !.kind = "dismiss", !.target = r, !.lock = TRUE,
                   !.copy = copy]]
    BY <1>4 DEF StartDismissal
  <2> HIDE DEF copy
  <2>2. Begins(c, "dismissing", "dismiss", r, NoState, NoRun) /\ call'[c].lock
        /\ call'[c].copy = copy
    BY <1>1, <2>1 DEF Idle, Begins, OthersKeep
  <2> QED
    BY <2>2 DEF copy
<1>5. ASSUME Escalate(c, r)
      PROVE  /\ Begins(c, "preparing", "escalation", call[c].new, call[c].copy, r)
             /\ ~call'[c].lock
  <2> DEFINE own == call[c].copy
  <2>1. call' = [call EXCEPT ![c] = [Idle EXCEPT
                   !.pc = "preparing", !.kind = "escalation", !.target = call[c].new,
                   !.own = own, !.new = r]]
    BY <1>5 DEF Escalate
  <2> HIDE DEF own
  <2>2. Begins(c, "preparing", "escalation", call[c].new, own, r) /\ ~call'[c].lock
    BY <1>1, <2>1 DEF Idle, Begins, OthersKeep
  <2> QED
    BY <2>2 DEF own
<1> QED
  BY <1>2, <1>3, <1>4, <1>5

KindOf(c) == IF state[call[c].target].outcome = "limited" THEN "revival" ELSE call[c].kind

LEMMA ResumeEffect ==
  ASSUME TypeOK, NEW c \in Callers, NEW r \in Runs, Resume(c, r)
  PROVE  /\ Begins(c, "preparing", KindOf(c), call[c].target, state[call[c].target], r)
         /\ call'[c].lock = call[c].lock
<1>1. call \in [Callers -> Call]
  BY DEF TypeOK
<1> DEFINE st == state[call[c].target]
           kind == KindOf(c)
<1>2. call' = [call EXCEPT ![c].pc = "preparing", ![c].kind = kind, ![c].own = st, ![c].new = r]
  BY DEF Resume, KindOf
<1> HIDE DEF st, kind
<1>3. Begins(c, "preparing", kind, call[c].target, st, r) /\ call'[c].lock = call[c].lock
  BY <1>1, <1>2 DEF Call, Begins, OthersKeep
<1> QED
  BY <1>3 DEF st, kind

Keeps(c, pc) ==
  GoesOn(c, pc) /\ call'[c].lock = call[c].lock /\ call'[c].copy = call[c].copy

LEMMA MoveEffects ==
  ASSUME TypeOK, NEW c \in Callers
  PROVE  /\ RefuseResume(c) \/ CallStops(c) \/ PrepareBlocked(c) \/ WriteBack(c)
              \/ DismissMarker(c) => Stops(c)
         /\ Launch(c) \/ MarkRevivedFile(c) => Keeps(c, "executing")
         /\ ReserveRevival(c) => Keeps(c, "marking_state")
         /\ MarkRevivedState(c) => Keeps(c, "marking_file")
         /\ FinalizeState(c) => Keeps(c, "finalizing")
         /\ FinalizeText(c) => IF call[c].kind = "delegate" THEN Stops(c) ELSE Keeps(c, "merging")
         /\ DismissState(c) => Keeps(c, "dismiss_marking")
<1>1. RefuseResume(c) \/ CallStops(c) \/ PrepareBlocked(c) \/ WriteBack(c)
        \/ DismissMarker(c) => Stops(c)
  BY EndsEffect DEF RefuseResume, CallStops, PrepareBlocked, WriteBack, DismissMarker
<1>2. \A pc \in Pc : Goes(c, pc) => Keeps(c, pc)
  BY GoesEffect DEF Keeps
<1>3. Launch(c) \/ MarkRevivedFile(c) => Keeps(c, "executing")
  BY <1>2 DEF Launch, MarkRevivedFile, Pc
<1>4. ReserveRevival(c) => Keeps(c, "marking_state")
  BY <1>2 DEF ReserveRevival, Pc
<1>5. MarkRevivedState(c) => Keeps(c, "marking_file")
  BY <1>2 DEF MarkRevivedState, Pc
<1>6. FinalizeState(c) => Keeps(c, "finalizing")
  BY <1>2 DEF FinalizeState, Pc
<1>7. FinalizeText(c) => IF call[c].kind = "delegate" THEN Stops(c) ELSE Keeps(c, "merging")
  BY <1>2, EndsEffect DEF FinalizeText, Pc
<1>8. DismissState(c) => Keeps(c, "dismiss_marking")
  BY <1>2 DEF DismissState, Pc
<1> QED
  BY <1>1, <1>3, <1>4, <1>5, <1>6, <1>7, <1>8

(* What is decided once: where a run comes from, and that it was launched  *)
(* or completed.                                                           *)
LineageKept ==
  /\ \A r \in Runs : Exists(r) => /\ how'[r] = how[r] /\ parent'[r] = parent[r]
                                  /\ line'[r] = line[r] /\ context'[r] = context[r]
  /\ launched \subseteq launched' /\ complete \subseteq complete'

LEMMA LineageStays == TypeOK /\ [Next]_vars => LineageKept
<1> SUFFICES ASSUME TypeOK, [Next]_vars PROVE LineageKept
  OBVIOUS
<1> USE DEF LineageKept, Exists
<1>1. CASE UNCHANGED vars
  BY <1>1 DEF vars, lineage
<1>2. ASSUME NEW c \in Callers, NEW r \in Runs, Delegate(c, r) \/ Resume(c, r) \/ Escalate(c, r)
      PROVE  LineageKept
  BY <1>2 DEF Delegate, Resume, Escalate, NewRun, IsNext, TypeOK
<1>3. ASSUME NEW c \in Callers, NEW r \in Runs, NEW kind \in Requests, Peek(c, r, kind)
      PROVE  LineageKept
  BY <1>3 DEF Peek, files, lineage
<1>4. ASSUME NEW c \in Callers, CallStep(c), \A r \in Runs : ~Resume(c, r) /\ ~Escalate(c, r)
      PROVE  LineageKept
  BY <1>4 DEF CallStep, TakeLock, RefuseResume, PrepareBlocked, CallStops, Launch,
     ReserveRevival, MarkRevivedState, MarkRevivedFile, FinalizeState, FinalizeText, ReadBack,
     WriteBack, WriteEscalated, DismissState, DismissMarker, files, lineage
<1>6. ASSUME NEW r \in Runs, ResetPasses(r) \/ Discard(r) PROVE LineageKept
  BY <1>6 DEF ResetPasses, Discard, lineage
<1>7. ASSUME NEW c \in Callers, NEW r \in Runs, StartDismissal(c, r) PROVE LineageKept
  BY <1>7 DEF StartDismissal, files, lineage
<1> QED
  BY <1>1, <1>2, <1>3, <1>4, <1>6, <1>7 DEF Next

LEMMA CallPreserved == Base /\ [Next]_vars => CallInv'
<1> SUFFICES ASSUME Base, [Next]_vars PROVE CallInv'
  OBVIOUS
<1>1. TypeOK /\ CallInv /\ RunInv /\ StageInv /\ LineageKept
  BY LineageStays DEF Base
<1>2. \A d \in Callers : call[d].pc \in Working =>
        how'[call[d].new] = how[call[d].new] /\ parent'[call[d].new] = parent[call[d].new]
  BY <1>1 DEF CallInv, LineageKept, Exists
<1> USE ChainAssumption, <1>1, <1>2
    DEF CallInv, Working, Unwritten, Unlaunched, Finished, Dismissing, Replies
<1>3. CASE UNCHANGED vars
  BY <1>3 DEF vars, lineage
<1>4. ASSUME NEW c \in Callers, NEW r \in Runs, Delegate(c, r) PROVE CallInv'
  <2>1. Begins(c, "preparing", "delegate", NoRun, Fresh, r) /\ ~call'[c].lock
    BY <1>4, BeginEffects
  <2>2. how'[r] = "delegate" /\ parent'[r] = NoRun
    BY <1>4 DEF Delegate, NewRun, TypeOK
  <2> QED
    BY <2>1, <2>2, FreshState DEF Begins, OthersKeep
<1>5. ASSUME NEW c \in Callers, NEW r \in Runs, StartDismissal(c, r) PROVE CallInv'
  <2>1. Begins(c, "dismissing", "dismiss", r, NoState, NoRun) /\ call'[c].lock
        /\ call'[c].copy = [state[r] EXCEPT !.dismissed = TRUE]
    BY <1>5, BeginEffects
  <2>2. [state[r] EXCEPT !.dismissed = TRUE] \in State
    BY <1>5, FlagsType DEF StartDismissal, RunInv
  <2>3. how' = how /\ parent' = parent
    BY <1>5 DEF StartDismissal, files, lineage
  <2> QED
    BY <2>1, <2>2, <2>3 DEF Begins, OthersKeep
<1>6. ASSUME NEW c \in Callers, NEW r \in Runs, NEW kind \in Requests, Peek(c, r, kind)
      PROVE  CallInv'
  <2>1. Begins(c, IF state[r] # NoState /\ state[r].outcome = "limited"
                  THEN "locking" ELSE "reading", kind, r, NoState, NoRun)
        /\ ~call'[c].lock
    BY <1>6, BeginEffects
  <2>2. how' = how /\ parent' = parent
    BY <1>6 DEF Peek, files, lineage
  <2> QED
    BY <2>1, <2>2 DEF Begins, OthersKeep
<1>7. ASSUME NEW c \in Callers, NEW r \in Runs, Resume(c, r) PROVE CallInv'
  <2>1. Begins(c, "preparing", KindOf(c), call[c].target, state[call[c].target], r)
    BY <1>7, ResumeEffect
  <2>2. call[c].target \in Runs /\ state[call[c].target] \in State
    BY <1>7 DEF Resume, MayResume, TypeOK
  <2>3. how'[r] = KindOf(c) /\ parent'[r] = call[c].target
    BY <1>7 DEF Resume, NewRun, KindOf, TypeOK
  <2>4. KindOf(c) \notin {"none", "dismiss", "delegate"}
    BY <1>7 DEF Resume, KindOf
  <2> QED
    BY <2>1, <2>2, <2>3, <2>4 DEF Begins, OthersKeep
<1>8. ASSUME NEW c \in Callers, NEW r \in Runs, Escalate(c, r) PROVE CallInv'
  <2>1. Begins(c, "preparing", "escalation", call[c].new, call[c].copy, r)
    BY <1>8, BeginEffects
  <2>2. call[c].new \in Runs /\ call[c].copy \in State
    BY <1>8 DEF Escalate
  <2>3. how'[r] = "escalation" /\ parent'[r] = call[c].new
    BY <1>8 DEF Escalate, NewRun, TypeOK
  <2> QED
    BY <2>1, <2>2, <2>3 DEF Begins, OthersKeep
<1>9. ASSUME NEW c \in Callers, TakeLock(c) PROVE CallInv'
  <2>1. Stops(c) \/ GoesOn(c, "reading")
    BY <1>9, TakeLockEffect
  <2>2. how' = how /\ parent' = parent /\ call[c].pc = "locking"
    BY <1>9 DEF TakeLock, files, lineage
  <2> QED
    BY <2>1, <2>2 DEF Stops, GoesOn, OthersKeep
<1>10. ASSUME NEW c \in Callers, RefuseResume(c) \/ CallStops(c) \/ PrepareBlocked(c)
                \/ WriteBack(c) \/ DismissMarker(c)
       PROVE  CallInv'
  <2>1. Stops(c)
    BY <1>10, MoveEffects
  <2>2. how' = how /\ parent' = parent
    BY <1>10 DEF RefuseResume, CallStops, PrepareBlocked, WriteBack, DismissMarker, files,
       lineage
  <2> QED
    BY <2>1, <2>2 DEF Stops, OthersKeep
<1>11. ASSUME NEW c \in Callers, Launch(c) \/ ReserveRevival(c) \/ MarkRevivedState(c)
                \/ MarkRevivedFile(c) \/ FinalizeState(c)
       PROVE  CallInv'
  <2>1. /\ call[c].pc \in Unwritten
        /\ \/ Keeps(c, "executing") \/ Keeps(c, "finalizing")
           \/ Keeps(c, "marking_state") /\ call[c].kind = "revival"
           \/ Keeps(c, "marking_file") /\ call[c].kind = "revival"
    BY <1>11, MoveEffects
       DEF Launch, ReserveRevival, MarkRevivedState, MarkRevivedFile, FinalizeState
  <2>2. how' = how /\ parent' = parent
    BY <1>11 DEF Launch, ReserveRevival, MarkRevivedState, MarkRevivedFile, FinalizeState, files,
       lineage
  <2> QED
    BY <2>1, <2>2 DEF Keeps, GoesOn, OthersKeep
<1>12. ASSUME NEW c \in Callers, FinalizeText(c) PROVE CallInv'
  <2>1. Stops(c) \/ (call[c].kind # "delegate" /\ Keeps(c, "merging"))
    BY <1>12, MoveEffects
  <2>2. how' = how /\ parent' = parent /\ call[c].pc = "finalizing"
    BY <1>12 DEF FinalizeText, lineage
  <2> QED
    BY <2>1, <2>2 DEF Keeps, GoesOn, Stops, OthersKeep
<1>13. ASSUME NEW c \in Callers, ReadBack(c) PROVE CallInv'
  <2>1. GoesOn(c, "rewriting") /\ call'[c].copy = Merged(c)
    BY <1>13, ReadBackEffect
  <2>2. how' = how /\ parent' = parent /\ call[c].pc = "merging"
    BY <1>13 DEF ReadBack, files, lineage
  <2>3. Merged(c) \in State
    BY <2>2, MergedType DEF StageInv
  <2> QED
    BY <2>1, <2>2, <2>3 DEF GoesOn, OthersKeep
<1>14. ASSUME NEW c \in Callers, DismissState(c) PROVE CallInv'
  <2>1. Keeps(c, "dismiss_marking")
    BY <1>14, MoveEffects
  <2>2. how' = how /\ parent' = parent /\ call[c].pc = "dismissing"
    BY <1>14 DEF DismissState, lineage
  <2> QED
    BY <2>1, <2>2 DEF Keeps, GoesOn, OthersKeep
<1>17. ASSUME NEW c \in Callers, WriteEscalated(c) PROVE CallInv'
  <2> DEFINE copy == [call[c].copy EXCEPT !.escalated = TRUE]
  <2>1. GoesOn(c, "escalating") /\ call'[c].copy = copy
    BY <1>17, EscalatedEffect
  <2>2. /\ how' = how /\ parent' = parent /\ call[c].pc = "rewriting" /\ call[c].kind = "retry"
        /\ call[c].copy.outcome = "failed" /\ call[c].copy \in State
    BY <1>17 DEF WriteEscalated, EscalationIsDue, lineage
  <2>3. copy \in State /\ copy.outcome = "failed"
    BY <2>2 DEF State
  <2> HIDE DEF copy
  <2> QED
    BY <2>1, <2>2, <2>3 DEF GoesOn, OthersKeep
<1>15. ASSUME NEW r \in Runs, ResetPasses(r) \/ Discard(r) PROVE CallInv'
  BY <1>15 DEF ResetPasses, Discard, lineage
<1>16. ASSUME NEW c \in Callers, CallStep(c) PROVE CallInv'
  BY <1>7, <1>8, <1>9, <1>10, <1>11, <1>12, <1>13, <1>14, <1>16, <1>17 DEF CallStep
<1> QED
  BY <1>3, <1>4, <1>5, <1>6, <1>15, <1>16 DEF Next

StateKept ==
  /\ \A r \in Runs : state[r] \in State => state'[r] \in State /\ Settled(state'[r], state[r])
  /\ \A r \in Runs : state[r] = NoState /\ state'[r] # NoState =>
       \E c \in Callers : call[c].new = r /\ (PrepareBlocked(c) \/ FinalizeState(c))

LEMMA StateStays == Base /\ [Next]_vars => StateKept
<1> SUFFICES ASSUME Base, [Next]_vars PROVE StateKept
  OBVIOUS
<1>1. TypeOK /\ CallInv /\ StageInv /\ SettledInv
  BY DEF Base
<1> USE ChainAssumption, NoStateAssumption, <1>1
<1>2. CASE state' = state
  BY <1>2 DEF StateKept, Settled
<1>3. ASSUME NEW x \in Runs, NEW st \in State, state' = [state EXCEPT ![x] = st],
             state[x] \in State, Settled(st, state[x])
      PROVE  StateKept
  BY <1>3 DEF StateKept, Settled, TypeOK
<1>4. ASSUME NEW c \in Callers, PrepareBlocked(c) \/ FinalizeState(c) PROVE StateKept
  <2>1. call[c].new \in Runs /\ state[call[c].new] = NoState
    BY <1>4 DEF PrepareBlocked, FinalizeState, CallInv, StageInv, Working, Unwritten, Unlaunched
  <2>2. \E st : state' = [state EXCEPT ![call[c].new] = st]
    BY <1>4 DEF PrepareBlocked, FinalizeState
  <2>3. \A q \in Runs \ {call[c].new} : state'[q] = state[q]
    BY <2>2 DEF TypeOK
  <2> QED
    BY <1>4, <2>1, <2>3 DEF StateKept, Settled
<1>5. ASSUME NEW c \in Callers, MarkRevivedState(c) PROVE StateKept
  <2>1. /\ call[c].own \in State /\ call[c].new \in Runs /\ call[c].target \in Runs
        /\ state[call[c].target] \in State /\ Settled(call[c].own, state[call[c].target])
    BY <1>5 DEF MarkRevivedState, CallInv, SettledInv, Working, Unwritten, Unlaunched
  <2>2. /\ [call[c].own EXCEPT !.revivedBy = call[c].new] \in State
        /\ Settled([call[c].own EXCEPT !.revivedBy = call[c].new], state[call[c].target])
    BY <2>1 DEF State, Settled
  <2> QED
    BY <1>5, <2>1, <2>2, <1>3 DEF MarkRevivedState
<1>6. ASSUME NEW c \in Callers, WriteBack(c) \/ WriteEscalated(c) PROVE StateKept
  <2>1. /\ call[c].copy \in State /\ call[c].new \in Runs
        /\ state[call[c].new] \in State /\ Settled(call[c].copy, state[call[c].new])
    BY <1>6 DEF WriteBack, WriteEscalated, CallInv, StageInv, SettledInv, Working, Unwritten, Unlaunched,
       Finished
  <2>2. /\ [call[c].copy EXCEPT !.escalated = TRUE] \in State
        /\ Settled([call[c].copy EXCEPT !.escalated = TRUE], state[call[c].new])
    BY <2>1 DEF State, Settled
  <2> QED
    BY <1>6, <2>1, <2>2, <1>3 DEF WriteBack, WriteEscalated
<1>7. ASSUME NEW c \in Callers, DismissState(c) PROVE StateKept
  <2>1. /\ call[c].copy \in State /\ call[c].target \in Runs
        /\ state[call[c].target] \in State /\ Settled(call[c].copy, state[call[c].target])
    BY <1>7 DEF DismissState, CallInv, SettledInv, Dismissing
  <2> QED
    BY <1>7, <2>1, <1>3 DEF DismissState
<1>8. ASSUME NEW c \in Callers, NEW r \in Runs, NEW kind \in Requests, Peek(c, r, kind)
      PROVE  StateKept
  BY <1>2, <1>8 DEF Peek, files
<1>9. ASSUME NEW c \in Callers,
             TakeLock(c) \/ RefuseResume(c) \/ CallStops(c) \/ Launch(c) \/ ReserveRevival(c)
             \/ MarkRevivedFile(c) \/ FinalizeText(c) \/ ReadBack(c) \/ DismissMarker(c)
      PROVE  StateKept
  BY <1>2, <1>9 DEF TakeLock, RefuseResume, CallStops, Launch, ReserveRevival, MarkRevivedFile,
     FinalizeText, ReadBack, DismissMarker, files
<1>10. ASSUME NEW r \in Runs, ResetPasses(r) \/ Discard(r) PROVE StateKept
  BY <1>2, <1>10 DEF ResetPasses, Discard
<1>11. ASSUME NEW c \in Callers, NEW r \in Runs,
              Delegate(c, r) \/ Resume(c, r) \/ Escalate(c, r) \/ StartDismissal(c, r)
       PROVE  StateKept
  BY <1>2, <1>11 DEF Delegate, Resume, Escalate, StartDismissal, files
<1>12. ASSUME NEW c \in Callers, CallStep(c) PROVE StateKept
  BY <1>4, <1>5, <1>6, <1>7, <1>9, <1>11, <1>12 DEF CallStep
<1> QED
  BY <1>2, <1>8, <1>9, <1>10, <1>11, <1>12 DEF Next, vars

(* A run that no call works on keeps what is said of it; one that does not *)
(* exist stays unwritten.                                                  *)
LEMMA StatesAhead ==
  ASSUME Base, [Next]_vars
  PROVE  /\ \A d \in Callers : call[d].pc \in Unwritten /\ call'[d].pc \in Unwritten =>
              state'[call[d].new] = NoState
         /\ \A d \in Callers : call[d].pc \in Working \ Unwritten =>
              state'[call[d].new] \in State
         /\ \A r \in Runs : ~Exists(r) => state'[r] = NoState
<1>1. TypeOK /\ CallInv /\ StageInv /\ RunInv /\ StateKept
  BY StateStays DEF Base
<1>2. ASSUME NEW d \in Callers, call[d].pc \in Unwritten, call'[d].pc \in Unwritten
      PROVE  state'[call[d].new] = NoState
  <2>1. call[d].new \in Runs /\ state[call[d].new] = NoState /\ call[d].new # NoRun
    BY <1>1, <1>2, ChainAssumption DEF CallInv, StageInv, Working
  <2>2. ASSUME NEW c \in Callers, call[c].new = call[d].new, PrepareBlocked(c) \/ FinalizeState(c)
        PROVE  FALSE
    <3>1. c = d
      BY <1>1, <2>1, <2>2 DEF StageInv
    <3>2. call'[c].pc \notin Unwritten
      BY <1>1, <2>2, MoveEffects DEF Stops, Keeps, GoesOn, Unwritten, Unlaunched
    <3> QED
      BY <1>2, <3>1, <3>2
  <2> QED
    BY <1>1, <2>1, <2>2 DEF StateKept
<1>3. ASSUME NEW d \in Callers, call[d].pc \in Working \ Unwritten
      PROVE  state'[call[d].new] \in State
  BY <1>1, <1>3 DEF CallInv, StageInv, StateKept
<1>4. ASSUME NEW r \in Runs, ~Exists(r) PROVE state'[r] = NoState
  <2>1. \A c \in Callers : PrepareBlocked(c) \/ FinalizeState(c) => call[c].new # r
    BY <1>1, <1>4 DEF PrepareBlocked, FinalizeState, CallInv, Working, Unwritten, Unlaunched, Exists
  <2> QED
    BY <1>1, <1>4, <2>1 DEF StateKept, RunInv
<1> QED
  BY <1>2, <1>3, <1>4

LEMMA StagePreserved == Base /\ [Next]_vars => StageInv'
<1> SUFFICES ASSUME Base, [Next]_vars PROVE StageInv'
  OBVIOUS
<1>1. TypeOK /\ CallInv /\ RunInv /\ StageInv
  BY DEF Base
<1>2. /\ \A d \in Callers : call[d].pc \in Unwritten /\ call'[d].pc \in Unwritten =>
           state'[call[d].new] = NoState
      /\ \A d \in Callers : call[d].pc \in Working \ Unwritten => state'[call[d].new] \in State
      /\ \A r \in Runs : ~Exists(r) => state'[r] = NoState
  BY StatesAhead
<1> USE ChainAssumption, NoStateAssumption, <1>1, <1>2
    DEF StageInv, Working, Unwritten, Unlaunched, Finished, Dismissing
<1>3. CASE UNCHANGED vars
  BY <1>3 DEF vars, lineage
<1>4. ASSUME NEW c \in Callers, NEW r \in Runs, Delegate(c, r) \/ Resume(c, r) \/ Escalate(c, r)
      PROVE  StageInv'
  <2>1. /\ OthersKeep(c) /\ call'[c].pc = "preparing" /\ call'[c].new = r
    <3>1. Resume(c, r) => OthersKeep(c) /\ call'[c].pc = "preparing" /\ call'[c].new = r
      BY ResumeEffect DEF Begins
    <3>2. Delegate(c, r) => OthersKeep(c) /\ call'[c].pc = "preparing" /\ call'[c].new = r
      BY BeginEffects DEF Begins
    <3>3. Escalate(c, r) => OthersKeep(c) /\ call'[c].pc = "preparing" /\ call'[c].new = r
      BY BeginEffects DEF Begins
    <3> QED
      BY <1>4, <3>1, <3>2, <3>3
  <2>2. ~Exists(r) /\ UNCHANGED <<complete, launched>>
    BY <1>4 DEF Delegate, Resume, Escalate, NewRun, IsNext
  <2>3. \A d \in Callers : call[d].new # r
    BY <2>2 DEF CallInv, Exists
  <2>4. /\ settled' = settled \/ settled' = settled \cup {call[c].new}
        /\ r \notin settled'
    BY <1>4, <2>2, <2>3 DEF Delegate, Resume, Escalate, RunInv
  <2>5. \A d \in Callers \ {c} : call[d].pc \in Working => call[d].new \notin settled'
    BY <2>4 DEF CallInv
  <2> QED
    BY <2>1, <2>2, <2>3, <2>4, <2>5 DEF OthersKeep, RunInv
<1>5. ASSUME NEW c \in Callers, NEW r \in Runs, StartDismissal(c, r) PROVE StageInv'
  <2>1. Begins(c, "dismissing", "dismiss", r, NoState, NoRun)
    BY <1>5, BeginEffects
  <2> QED
    BY <1>5, <2>1 DEF StartDismissal, files, Begins, OthersKeep
<1>6. ASSUME NEW c \in Callers, NEW r \in Runs, NEW kind \in Requests, Peek(c, r, kind)
      PROVE  StageInv'
  <2>1. Begins(c, IF state[r] # NoState /\ state[r].outcome = "limited"
                  THEN "locking" ELSE "reading", kind, r, NoState, NoRun)
    BY <1>6, BeginEffects
  <2> QED
    BY <1>6, <2>1 DEF Peek, files, Begins, OthersKeep
<1>7. ASSUME NEW c \in Callers, TakeLock(c) PROVE StageInv'
  <2>1. Stops(c) \/ GoesOn(c, "reading")
    BY <1>7, TakeLockEffect
  <2> QED
    BY <1>7, <2>1 DEF TakeLock, files, CallInv, Stops, GoesOn, OthersKeep
<1>8. ASSUME NEW c \in Callers, RefuseResume(c) \/ CallStops(c) \/ DismissMarker(c)
                \/ PrepareBlocked(c) \/ WriteBack(c)
      PROVE  StageInv'
  <2>1. Stops(c)
    BY <1>8, MoveEffects
  <2>2. /\ launched' = launched
        /\ complete' = complete \/ complete' = complete \cup {call[c].new}
        /\ settled' = settled \/ settled' = settled \cup {call[c].new}
    BY <1>8 DEF RefuseResume, CallStops, DismissMarker, PrepareBlocked, WriteBack, files
  <2> QED
    BY <2>1, <2>2 DEF CallInv, Stops, OthersKeep
<1>9. ASSUME NEW c \in Callers, Launch(c) \/ MarkRevivedFile(c) PROVE StageInv'
  <2>1. Keeps(c, "executing")
    BY <1>9, MoveEffects
  <2>2. /\ call[c].pc \in Unlaunched /\ call[c].new \in Runs
        /\ launched' = launched \cup {call[c].new} /\ UNCHANGED <<complete, settled>>
    BY <1>9 DEF Launch, MarkRevivedFile, CallInv
  <2> QED
    BY <2>1, <2>2 DEF CallInv, Keeps, GoesOn, OthersKeep
<1>10. ASSUME NEW c \in Callers, ReserveRevival(c) \/ MarkRevivedState(c) PROVE StageInv'
  <2>1. Keeps(c, "marking_state") \/ Keeps(c, "marking_file")
    BY <1>10, MoveEffects
  <2>2. call[c].pc \in Unlaunched /\ UNCHANGED <<complete, launched, settled>>
    BY <1>10 DEF ReserveRevival, MarkRevivedState, files
  <2> QED
    BY <2>1, <2>2 DEF Keeps, GoesOn, OthersKeep
<1>11. ASSUME NEW c \in Callers, FinalizeState(c) PROVE StageInv'
  <2>1. Keeps(c, "finalizing")
    BY <1>11, MoveEffects
  <2>2. call[c].pc = "executing" /\ UNCHANGED <<complete, launched, settled>> /\ call[c].new \in Runs
    BY <1>11 DEF FinalizeState, CallInv
  <2>3. state'[call[c].new] \in State
    BY <1>11, FinalizedState
  <2> QED
    BY <2>1, <2>2, <2>3 DEF Keeps, GoesOn, OthersKeep
<1>12. ASSUME NEW c \in Callers, FinalizeText(c) PROVE StageInv'
  <2>1. Stops(c) \/ (Keeps(c, "merging") /\ settled' = settled)
    BY <1>12, MoveEffects DEF FinalizeText
  <2>2. /\ call[c].pc = "finalizing" /\ launched' = launched
        /\ complete' = complete \cup {call[c].new}
        /\ settled' = settled \/ settled' = settled \cup {call[c].new}
    BY <1>12 DEF FinalizeText
  <2> QED
    BY <2>1, <2>2 DEF CallInv, Keeps, GoesOn, Stops, OthersKeep
<1>13. ASSUME NEW c \in Callers, ReadBack(c) \/ WriteEscalated(c) \/ DismissState(c)
       PROVE  StageInv'
  <2>1. \/ call[c].pc = "merging" /\ GoesOn(c, "rewriting")
        \/ call[c].pc = "rewriting" /\ GoesOn(c, "escalating")
        \/ call[c].pc = "dismissing" /\ GoesOn(c, "dismiss_marking")
    BY <1>13, MoveEffects, ReadBackEffect, EscalatedEffect
       DEF ReadBack, WriteEscalated, DismissState, Keeps
  <2>2. UNCHANGED <<complete, launched, settled>>
    BY <1>13 DEF ReadBack, WriteEscalated, DismissState, files
  <2> QED
    BY <2>1, <2>2 DEF GoesOn, OthersKeep
<1>14. ASSUME NEW r \in Runs, ResetPasses(r) \/ Discard(r) PROVE StageInv'
  BY <1>14 DEF ResetPasses, Discard
<1>15. ASSUME NEW c \in Callers, CallStep(c) PROVE StageInv'
  BY <1>4, <1>7, <1>8, <1>9, <1>10, <1>11, <1>12, <1>13, <1>15 DEF CallStep
<1> QED
  BY <1>3, <1>4, <1>5, <1>6, <1>14, <1>15 DEF Next

(* The new run of a step, the run it continues and how.                    *)
Continued(c, r, kind, target) ==
  /\ ~Exists(r) /\ kind # "none"
  /\ target \in Runs \cup {NoRun} /\ (target # NoRun => Exists(target))
  /\ how' = [how EXCEPT ![r] = kind] /\ parent' = [parent EXCEPT ![r] = target]
  /\ line' = [line EXCEPT ![r] = {r} \cup IF target = NoRun THEN {} ELSE line[target]]

LEMMA NewRuns ==
  ASSUME Base, NEW c \in Callers, NEW r \in Runs
  PROVE  /\ Delegate(c, r) => Continued(c, r, "delegate", NoRun)
         /\ Resume(c, r) => Continued(c, r, KindOf(c), call[c].target)
         /\ Escalate(c, r) => Continued(c, r, "escalation", call[c].new)
<1>1. Delegate(c, r) => Continued(c, r, "delegate", NoRun)
  BY DEF Delegate, NewRun, IsNext, Continued
<1>2. ASSUME Resume(c, r) PROVE Continued(c, r, KindOf(c), call[c].target)
  <2>1. call[c].target \in Runs /\ Exists(call[c].target)
    BY <1>2 DEF Resume, Base, CallInv, RunInv
  <2>2. KindOf(c) # "none"
    BY <1>2 DEF Resume, Base, CallInv, KindOf, Replies
  <2> QED
    BY <1>2, <2>1, <2>2 DEF Resume, NewRun, IsNext, Continued, KindOf
<1>3. ASSUME Escalate(c, r) PROVE Continued(c, r, "escalation", call[c].new)
  <2>1. call[c].new \in Runs /\ Exists(call[c].new)
    BY <1>3 DEF Escalate, Base, CallInv, Working, Finished, Exists
  <2> QED
    BY <1>3, <2>1 DEF Escalate, NewRun, IsNext, Continued
<1> QED
  BY <1>1, <1>2, <1>3

LEMMA RunPreserved == Base /\ [Next]_vars => RunInv'
<1> SUFFICES ASSUME Base, [Next]_vars PROVE RunInv'
  OBVIOUS
<1>1. TypeOK /\ CallInv /\ RunInv /\ StageInv /\ StateKept /\ LineageKept
  BY StateStays, LineageStays DEF Base
<1>2. \A r \in Runs : ~Exists(r)' => ~Exists(r) /\ state'[r] = NoState
  BY <1>1, StatesAhead DEF LineageKept, Exists
<1>3. \A d \in Callers : call[d].pc \in Working => call[d].new \in Runs /\ Exists(call[d].new)
  BY <1>1 DEF CallInv, Exists
<1>4. /\ \A r \in complete : state'[r] \in State
      /\ settled \subseteq complete
  BY <1>1 DEF RunInv, StateKept, TypeOK
<1> USE ChainAssumption, NoStateAssumption, <1>1, <1>2, <1>3, <1>4 DEF RunInv
<1>5. CASE UNCHANGED vars
  BY <1>5 DEF vars, lineage, Exists
<1>6. ASSUME NEW c \in Callers, NEW r \in Runs, Delegate(c, r) \/ Resume(c, r) \/ Escalate(c, r)
      PROVE  RunInv'
  <2>1. PICK kind, target : Continued(c, r, kind, target)
    BY <1>6, NewRuns
  <2>2. /\ \A d \in Callers : \/ call'[d].target \in {call[d].target, NoRun}
                              \/ Exists(call'[d].target)
        /\ UNCHANGED <<complete, launched>> /\ settled' \subseteq complete'
    <3>1. CASE Delegate(c, r)
      <4>1. Begins(c, "preparing", "delegate", NoRun, Fresh, r)
        BY <3>1, BeginEffects
      <4> QED
        BY <3>1, <4>1 DEF Begins, OthersKeep, Delegate
    <3>2. CASE Resume(c, r)
      BY <3>2, ResumeEffect DEF Begins, OthersKeep, Resume
    <3>3. CASE Escalate(c, r)
      <4>1. call'[c].target = call[c].new /\ OthersKeep(c)
        BY <3>3, BeginEffects DEF Begins
      <4>2. call[c].pc \in Working /\ call[c].new \in complete
        BY <3>3 DEF Escalate, Working, Finished, StageInv
      <4> QED
        BY <3>3, <4>1, <4>2 DEF OthersKeep, Escalate
    <3> QED
      BY <1>6, <3>1, <3>2, <3>3
  <2>3. ASSUME NEW q \in Runs, ~Exists(q)'
        PROVE  /\ \A x \in Runs : parent'[x] # q /\ q \notin line'[x]
               /\ q # r
    <3>1. ~Exists(q)
      BY <2>3
    <3>2. q # r
      <4>1. how'[r] # "none"
        BY <2>1 DEF Continued, TypeOK
      <4> QED
        BY <2>3, <4>1 DEF Exists
    <3>3. target # q
      BY <2>1, <3>1 DEF Continued
    <3> QED
      BY <2>1, <3>1, <3>2, <3>3 DEF Continued, TypeOK
  <2>4. ASSUME NEW q \in Runs, Exists(q)' PROVE q \in line'[q]
    <3>1. q = r \/ Exists(q)
      BY <2>1, <2>4 DEF Continued, Exists, TypeOK
    <3> QED
      BY <2>1, <3>1 DEF Continued, TypeOK, LineageKept
  <2> QED
    BY <2>2, <2>3, <2>4
<1>7. ASSUME NEW c \in Callers, NEW r \in Runs, StartDismissal(c, r) PROVE RunInv'
  <2>1. Begins(c, "dismissing", "dismiss", r, NoState, NoRun)
    BY <1>7, BeginEffects
  <2>2. Exists(r) /\ UNCHANGED <<complete, settled, launched, lineage>>
    BY <1>7 DEF StartDismissal, Named, files, lineage
  <2> QED
    BY <2>1, <2>2 DEF Begins, OthersKeep, lineage, Exists
<1>8. ASSUME NEW c \in Callers, NEW r \in Runs, NEW kind \in Requests, Peek(c, r, kind)
      PROVE  RunInv'
  <2>1. Begins(c, IF state[r] # NoState /\ state[r].outcome = "limited"
                  THEN "locking" ELSE "reading", kind, r, NoState, NoRun)
    BY <1>8, BeginEffects
  <2>2. Exists(r) /\ UNCHANGED <<complete, settled, launched, lineage>>
    BY <1>8 DEF Peek, Named, files, lineage
  <2> QED
    BY <2>1, <2>2 DEF Begins, OthersKeep, lineage, Exists
<1>9. ASSUME NEW c \in Callers,
             TakeLock(c) \/ RefuseResume(c) \/ CallStops(c) \/ DismissMarker(c)
             \/ WriteBack(c) \/ WriteEscalated(c) \/ ReserveRevival(c) \/ MarkRevivedState(c)
             \/ ReadBack(c) \/ DismissState(c) \/ FinalizeState(c)
      PROVE  RunInv'
  <2>1. \A d \in Callers : call'[d].target = call[d].target \/ call'[d].target = NoRun
    <3>1. OthersKeep(c) /\ (call'[c].target = call[c].target \/ call'[c].target = NoRun)
      BY <1>9, MoveEffects, TakeLockEffect, ReadBackEffect, EscalatedEffect
         DEF Stops, Keeps, GoesOn
    <3> QED
      BY <3>1 DEF OthersKeep
  <2>2. UNCHANGED <<complete, launched, lineage>>
    BY <1>9 DEF TakeLock, RefuseResume, CallStops, DismissMarker, WriteBack, WriteEscalated,
       ReserveRevival, MarkRevivedState, ReadBack, DismissState, FinalizeState, files
  <2>3. settled' \subseteq complete
    <3>1. CASE WriteBack(c)
      BY <3>1 DEF WriteBack, StageInv, Working, Finished
    <3>2. CASE ~WriteBack(c)
      BY <1>9, <3>2 DEF TakeLock, RefuseResume, CallStops, DismissMarker, WriteEscalated,
         ReserveRevival, MarkRevivedState, ReadBack, DismissState, FinalizeState, files
    <3> QED
      BY <3>1, <3>2
  <2> QED
    BY <2>1, <2>2, <2>3 DEF lineage, Exists
<1>10. ASSUME NEW c \in Callers, Launch(c) \/ MarkRevivedFile(c) PROVE RunInv'
  <2>1. \A d \in Callers : call'[d].target = call[d].target
    BY <1>10, MoveEffects DEF Keeps, GoesOn, OthersKeep
  <2>2. /\ UNCHANGED <<complete, settled, lineage>> /\ launched' = launched \cup {call[c].new}
        /\ call[c].pc \in Working
    BY <1>10 DEF Launch, MarkRevivedFile, Working, Unwritten, Unlaunched
  <2> QED
    BY <2>1, <2>2 DEF lineage, Exists
<1>11. ASSUME NEW c \in Callers, PrepareBlocked(c) \/ FinalizeText(c) PROVE RunInv'
  <2>1. \A d \in Callers : call'[d].target = call[d].target \/ call'[d].target = NoRun
    BY <1>11, MoveEffects DEF Stops, Keeps, GoesOn, OthersKeep
  <2>2. /\ UNCHANGED <<launched, lineage>> /\ complete' = complete \cup {call[c].new}
        /\ settled' \subseteq settled \cup {call[c].new}
        /\ call[c].pc \in Working
    BY <1>11 DEF PrepareBlocked, FinalizeText, Working, Unwritten, Unlaunched
  <2>3. state'[call[c].new] \in State
    <3>1. CASE PrepareBlocked(c)
      BY <3>1, BlockedState
    <3>2. CASE FinalizeText(c)
      BY <3>2, StatesAhead DEF FinalizeText, Working, Unwritten, Unlaunched
    <3> QED
      BY <1>11, <3>1, <3>2
  <2> QED
    BY <2>1, <2>2, <2>3 DEF lineage, Exists
<1>12. ASSUME NEW r \in Runs, ResetPasses(r) \/ Discard(r) PROVE RunInv'
  BY <1>12 DEF ResetPasses, Discard, lineage, Exists
<1>13. ASSUME NEW c \in Callers, CallStep(c) PROVE RunInv'
  BY <1>6, <1>9, <1>10, <1>11, <1>13 DEF CallStep
<1> QED
  BY <1>5, <1>6, <1>7, <1>8, <1>12, <1>13 DEF Next

LEMMA SettledPreserved == Base /\ [Next]_vars => SettledInv'
<1> SUFFICES ASSUME Base, [Next]_vars PROVE SettledInv'
  OBVIOUS
<1>1. TypeOK /\ CallInv /\ StageInv /\ RunInv /\ SettledInv /\ StateKept
  BY StateStays DEF Base
<1>2. \A d \in Callers :
        /\ call[d].pc \in Working /\ call[d].kind # "delegate" =>
             /\ state'[call[d].target] \in State
             /\ Settled(call[d].own, state'[call[d].target])
        /\ call[d].pc \in {"rewriting", "escalating"} =>
             Settled(call[d].copy, state'[call[d].new])
        /\ call[d].pc = "dismissing" =>
             /\ state'[call[d].target] \in State
             /\ Settled(call[d].copy, state'[call[d].target])
  BY <1>1 DEF SettledInv, StateKept, CallInv, StageInv, Settled, Working, Finished, Unwritten,
     Unlaunched, Dismissing
<1> USE ChainAssumption, <1>1, <1>2 DEF SettledInv
<1>3. CASE UNCHANGED call
  BY <1>3
<1>4. ASSUME NEW c \in Callers, NEW r \in Runs, Delegate(c, r) PROVE SettledInv'
  <2>1. Begins(c, "preparing", "delegate", NoRun, Fresh, r)
    BY <1>4, BeginEffects
  <2> QED
    BY <2>1 DEF Begins, OthersKeep
<1>5. ASSUME NEW c \in Callers, NEW r \in Runs, StartDismissal(c, r) PROVE SettledInv'
  <2>1. /\ Begins(c, "dismissing", "dismiss", r, NoState, NoRun)
        /\ call'[c].copy = [state[r] EXCEPT !.dismissed = TRUE]
    BY <1>5, BeginEffects
  <2>2. state[r] \in State /\ state' = state
    BY <1>5 DEF StartDismissal, RunInv, files
  <2>3. Settled([state[r] EXCEPT !.dismissed = TRUE], state[r])
    BY <2>2 DEF Settled, State
  <2> QED
    BY <2>1, <2>2, <2>3 DEF Begins, OthersKeep, Working, Unwritten, Unlaunched, Finished
<1>6. ASSUME NEW c \in Callers, NEW r \in Runs, NEW kind \in Requests, Peek(c, r, kind)
      PROVE  SettledInv'
  <2>1. Begins(c, IF state[r] # NoState /\ state[r].outcome = "limited"
                  THEN "locking" ELSE "reading", kind, r, NoState, NoRun)
    BY <1>6, BeginEffects
  <2> QED
    BY <2>1 DEF Begins, OthersKeep, Working, Unwritten, Unlaunched, Finished
<1>7. ASSUME NEW c \in Callers, NEW r \in Runs, Resume(c, r) PROVE SettledInv'
  <2>1. Begins(c, "preparing", KindOf(c), call[c].target, state[call[c].target], r)
    BY <1>7, ResumeEffect
  <2>2. call[c].target \in Runs /\ state[call[c].target] \in State /\ state' = state
    BY <1>7 DEF Resume, MayResume, CallInv, TypeOK
  <2> QED
    BY <2>1, <2>2 DEF Begins, OthersKeep, Settled
<1>8. ASSUME NEW c \in Callers, NEW r \in Runs, Escalate(c, r) PROVE SettledInv'
  <2>1. Begins(c, "preparing", "escalation", call[c].new, call[c].copy, r)
    BY <1>8, BeginEffects
  <2>2. /\ state'[call[c].new] \in State
        /\ Settled(call[c].copy, state'[call[c].new])
    BY <1>8, StatesAhead DEF Escalate, Working, Unwritten, Unlaunched, Finished
  <2> QED
    BY <2>1, <2>2 DEF Begins, OthersKeep
<1>9. ASSUME NEW c \in Callers,
             RefuseResume(c) \/ CallStops(c) \/ DismissMarker(c) \/ WriteBack(c)
             \/ PrepareBlocked(c)
      PROVE  SettledInv'
  <2>1. Stops(c)
    BY <1>9, MoveEffects
  <2> QED
    BY <2>1 DEF Stops, OthersKeep, Working, Unwritten, Unlaunched, Finished
<1>10. ASSUME NEW c \in Callers,
              Launch(c) \/ ReserveRevival(c) \/ MarkRevivedState(c) \/ MarkRevivedFile(c)
              \/ FinalizeState(c) \/ FinalizeText(c) \/ DismissState(c) \/ TakeLock(c)
       PROVE  SettledInv'
  <2>1. \/ Stops(c)
        \/ call[c].pc = "locking" /\ GoesOn(c, "reading")
        \/ call[c].pc = "dismissing" /\ GoesOn(c, "dismiss_marking")
        \/ /\ call[c].pc \in Working
           /\ \E pc \in Working \ {"rewriting", "escalating"} : GoesOn(c, pc)
    BY <1>10, MoveEffects, TakeLockEffect
       DEF Keeps, Launch, ReserveRevival, MarkRevivedState, MarkRevivedFile, FinalizeState,
           FinalizeText, DismissState, TakeLock, Working, Unwritten, Unlaunched, Finished
  <2> QED
    BY <2>1 DEF GoesOn, Stops, OthersKeep, Working, Unwritten, Unlaunched, Finished
<1>11. ASSUME NEW c \in Callers, ReadBack(c) PROVE SettledInv'
  <2>1. GoesOn(c, "rewriting") /\ call'[c].copy = Merged(c)
    BY <1>11, ReadBackEffect
  <2>2. call[c].pc = "merging" /\ call[c].new \in Runs /\ state[call[c].new] \in State
        /\ state' = state
    BY <1>11 DEF ReadBack, CallInv, StageInv, Working, Unwritten, Unlaunched, Finished, files
  <2>3. Settled(Merged(c), state[call[c].new])
    BY <2>2 DEF Merged, Settled, State
  <2> QED
    BY <2>1, <2>2, <2>3 DEF GoesOn, OthersKeep, Working, Finished
<1>14. ASSUME NEW c \in Callers, WriteEscalated(c) PROVE SettledInv'
  <2>1. GoesOn(c, "escalating") /\ call'[c].copy = [call[c].copy EXCEPT !.escalated = TRUE]
    BY <1>14, EscalatedEffect
  <2>2. /\ call[c].pc = "rewriting" /\ call[c].copy \in State
        /\ Settled(call[c].copy, state'[call[c].new])
    BY <1>14 DEF WriteEscalated, CallInv
  <2>3. Settled([call[c].copy EXCEPT !.escalated = TRUE], state'[call[c].new])
    BY <2>2 DEF Settled, State
  <2> QED
    BY <2>1, <2>2, <2>3 DEF GoesOn, OthersKeep, Working, Finished
<1>12. ASSUME NEW r \in Runs, ResetPasses(r) \/ Discard(r) PROVE SettledInv'
  BY <1>3, <1>12 DEF ResetPasses, Discard
<1>13. ASSUME NEW c \in Callers, CallStep(c) PROVE SettledInv'
  BY <1>7, <1>8, <1>9, <1>10, <1>11, <1>13, <1>14 DEF CallStep
<1> QED
  BY <1>3, <1>4, <1>5, <1>6, <1>12, <1>13 DEF Next, vars

LEMMA BasePreserved == Base /\ [Next]_vars => Base'
BY TypePreserved, CallPreserved, StagePreserved, RunPreserved, SettledPreserved DEF Base

(* Of a run that is new in this step, what the code looked at.             *)
LEMMA NewStep ==
  ASSUME Base, [Next]_vars, NEW r \in Runs, ~Exists(r), Exists(r)'
  PROVE  \E c \in Callers : Delegate(c, r) \/ Resume(c, r) \/ Escalate(c, r)
<1>1. how' # how /\ TypeOK
  BY DEF Exists, Base
<1>2. ~UNCHANGED vars
  BY <1>1 DEF vars, lineage
<1>3. ASSUME NEW c \in Callers, NEW q \in Runs, Delegate(c, q) \/ Resume(c, q) \/ Escalate(c, q)
      PROVE  r = q
  <2>1. \E kind : how' = [how EXCEPT ![q] = kind]
    BY <1>3 DEF Delegate, Resume, Escalate, NewRun
  <2> QED
    BY <1>1, <2>1 DEF Exists, TypeOK
<1>4. ASSUME NEW c \in Callers, NEW q \in Runs, StartDismissal(c, q) PROVE FALSE
  BY <1>1, <1>4 DEF StartDismissal, files, lineage
<1>5. ASSUME NEW c \in Callers, NEW q \in Runs, NEW kind \in Requests, Peek(c, q, kind) PROVE FALSE
  BY <1>1, <1>5 DEF Peek, files, lineage
<1>6. ASSUME NEW c \in Callers, CallStep(c), \A q \in Runs : ~Resume(c, q) /\ ~Escalate(c, q)
      PROVE  FALSE
  BY <1>1, <1>6 DEF CallStep, TakeLock, RefuseResume, PrepareBlocked, CallStops, Launch,
     ReserveRevival, MarkRevivedState, MarkRevivedFile, FinalizeState, FinalizeText, ReadBack,
     WriteBack, WriteEscalated, DismissState, DismissMarker, files, lineage
<1>8. ASSUME NEW q \in Runs, ResetPasses(q) \/ Discard(q) PROVE FALSE
  BY <1>1, <1>8 DEF ResetPasses, Discard, lineage
<1> QED
  BY <1>2, <1>3, <1>4, <1>5, <1>6, <1>8 DEF Next

(* state.json, the markers, the new runs and the calls keep their types.   *)
THEOREM TypeCorrect == Spec => []TypeOK
<1>1. Base => TypeOK
  BY DEF Base
<1> QED
  BY <1>1, InitBase, BasePreserved, PTL DEF Spec

-------------------------------------------------------------------------------
(* Runs that are named only when their call has returned: no call works on *)
(* a run that another call continues, nor on any run before it.            *)

CallsMove ==
  \A d \in Callers :
    /\ call'[d].new \in {call[d].new, NoRun} \/ (call'[d].new \in Runs /\ ~Exists(call'[d].new))
    /\ \/ call'[d].target \in {call[d].target, NoRun}
       \/ call'[d].target \in Runs /\ Named(call'[d].target)
       \/ /\ call'[d].target = call[d].new /\ call'[d].new # call[d].new
          /\ call[d].pc = "escalating"

LEMMA CallsMoving == Base /\ [Next]_vars => CallsMove
<1> SUFFICES ASSUME Base, [Next]_vars PROVE CallsMove
  OBVIOUS
<1>1. TypeOK /\ CallInv /\ RunInv
  BY DEF Base
<1>2. CASE call' = call
  BY <1>2 DEF CallsMove
<1>3. ASSUME NEW c \in Callers, NEW r \in Runs, Delegate(c, r) PROVE CallsMove
  <2>1. Begins(c, "preparing", "delegate", NoRun, Fresh, r) /\ ~Exists(r)
    BY <1>1, <1>3, BeginEffects DEF Delegate, NewRun, IsNext
  <2> QED
    BY <2>1 DEF Begins, OthersKeep, CallsMove
<1>4. ASSUME NEW c \in Callers, NEW r \in Runs, NEW kind \in Requests, Peek(c, r, kind)
      PROVE  CallsMove
  <2>1. \E pc : Begins(c, pc, kind, r, NoState, NoRun)
    BY <1>1, <1>4, BeginEffects
  <2> QED
    BY <1>4, <2>1 DEF Begins, OthersKeep, CallsMove, Peek
<1>5. ASSUME NEW c \in Callers, NEW r \in Runs, StartDismissal(c, r) PROVE CallsMove
  <2>1. Begins(c, "dismissing", "dismiss", r, NoState, NoRun)
    BY <1>1, <1>5, BeginEffects
  <2> QED
    BY <1>5, <2>1 DEF Begins, OthersKeep, CallsMove, StartDismissal
<1>6. ASSUME NEW c \in Callers, NEW r \in Runs, Resume(c, r) PROVE CallsMove
  <2>1. Begins(c, "preparing", KindOf(c), call[c].target, state[call[c].target], r) /\ ~Exists(r)
    BY <1>1, <1>6, ResumeEffect DEF Resume, NewRun, IsNext
  <2> QED
    BY <2>1 DEF Begins, OthersKeep, CallsMove
<1>7. ASSUME NEW c \in Callers, NEW r \in Runs, Escalate(c, r) PROVE CallsMove
  <2>1. Begins(c, "preparing", "escalation", call[c].new, call[c].copy, r)
    BY <1>1, <1>7, BeginEffects
  <2>2. ~Exists(r) /\ Exists(call[c].new) /\ call[c].pc = "escalating"
    BY <1>1, <1>7 DEF Escalate, NewRun, IsNext, CallInv, Working, Finished, Exists
  <2> QED
    BY <2>1, <2>2 DEF Begins, OthersKeep, CallsMove
<1>8. ASSUME NEW c \in Callers, CallStep(c), \A r \in Runs : ~Resume(c, r) /\ ~Escalate(c, r)
      PROVE  CallsMove
  <2>1. Stops(c) \/ \E pc : GoesOn(c, pc)
    BY <1>1, <1>8, MoveEffects, TakeLockEffect, ReadBackEffect, EscalatedEffect
       DEF CallStep, Keeps
  <2> QED
    BY <2>1 DEF Stops, GoesOn, OthersKeep, CallsMove
<1>10. ASSUME NEW r \in Runs, ResetPasses(r) \/ Discard(r) PROVE CallsMove
  BY <1>2, <1>10 DEF ResetPasses, Discard
<1> QED
  BY <1>2, <1>3, <1>4, <1>5, <1>6, <1>7, <1>8, <1>10 DEF Next, vars

TargetInv ==
  /\ \A c, d \in Callers : call[c].target # NoRun => call[d].new # call[c].target
  /\ \A r \in Runs, q \in Runs :
       Exists(r) /\ q \in line[r] /\ q # r => \A d \in Callers : call[d].new # q

LEMMA TargetPreserved ==
  Nameable = "returned" /\ Base /\ TargetInv /\ [Next]_vars => TargetInv'
<1> SUFFICES ASSUME Nameable = "returned", Base, TargetInv, [Next]_vars PROVE TargetInv'
  OBVIOUS
<1>1. TypeOK /\ CallInv /\ StageInv /\ RunInv /\ CallsMove /\ LineageKept
  BY CallsMoving, LineageStays DEF Base
<1> USE ChainAssumption
<1>2. \A d \in Callers : call[d].new # NoRun => call[d].new \in Runs /\ Exists(call[d].new)
  BY <1>1 DEF CallInv, Exists
<1>3. \A d \in Callers, q \in Runs : Exists(q) /\ call'[d].new = q => call[d].new = q
  BY <1>1 DEF CallsMove
<1>4. ASSUME NEW c \in Callers, NEW d \in Callers, call'[c].target # NoRun,
             call'[d].new = call'[c].target
      PROVE  FALSE
  <2> DEFINE t == call'[c].target
  <2>1. CASE t = call[c].target
    <3>1. call \in [Callers -> Call]
      BY <1>1 DEF TypeOK
    <3>2. t \in Runs
      BY <1>4, <2>1, <3>1 DEF Call
    <3>3. Exists(t)
      BY <1>1, <2>1, <3>2 DEF RunInv
    <3> QED
      BY <1>3, <1>4, <2>1, <3>2, <3>3 DEF TargetInv
  <2>2. CASE t \in Runs /\ Named(t)
    BY <1>3, <1>4, <2>2 DEF Named
  <2>3. CASE t = call[c].new /\ call'[c].new # t
    <3>1. t \in Runs /\ Exists(t)
      BY <1>2, <1>4, <2>3
    <3>2. call[d].new = t
      BY <1>3, <1>4, <3>1
    <3>3. c = d
      BY <1>1, <1>4, <2>3, <3>2 DEF StageInv
    <3> QED
      BY <1>4, <2>3, <3>3
  <2> QED
    BY <1>1, <1>4, <2>1, <2>2, <2>3 DEF CallsMove
<1>5. ASSUME NEW r \in Runs, NEW q \in Runs, Exists(r)', q \in line'[r], q # r,
             NEW d \in Callers, call'[d].new = q
      PROVE  FALSE
  <2>1. CASE Exists(r)
    <3>1. q \in line[r] /\ Exists(q)
      BY <1>1, <1>5, <2>1 DEF LineageKept, RunInv
    <3> QED
      BY <1>3, <1>5, <2>1, <3>1 DEF TargetInv
  <2>2. CASE ~Exists(r)
    <3>1. PICK c \in Callers : Delegate(c, r) \/ Resume(c, r) \/ Escalate(c, r)
      BY <1>5, <2>2, NewStep
    <3>2. CASE Delegate(c, r)
      BY <1>1, <1>5, <3>2, NewRuns DEF Continued, TypeOK
    <3>3. CASE Resume(c, r)
      <4>1. Continued(c, r, KindOf(c), call[c].target) /\ call[c].target \in Runs
        BY <1>1, <3>3, NewRuns DEF Resume, CallInv
      <4>2. q \in line[call[c].target] /\ Exists(call[c].target)
        BY <1>1, <1>5, <4>1 DEF Continued, TypeOK
      <4>3. Exists(q)
        BY <1>1, <4>1, <4>2 DEF RunInv
      <4> QED
        BY <1>3, <1>5, <4>1, <4>2, <4>3 DEF TargetInv
    <3>4. CASE Escalate(c, r)
      <4>1. Continued(c, r, "escalation", call[c].new) /\ call[c].new \in Runs
        BY <1>1, <3>4, NewRuns DEF Escalate, CallInv, Working, Finished
      <4>2. q \in line[call[c].new] /\ Exists(call[c].new)
        BY <1>1, <1>5, <4>1 DEF Continued, TypeOK
      <4>3. Exists(q)
        BY <1>1, <4>1, <4>2 DEF RunInv
      <4>4. call[d].new = q
        BY <1>3, <1>5, <4>3
      <4>5. q = call[c].new
        BY <4>1, <4>2, <4>4 DEF TargetInv
      <4>6. c = d
        BY <1>1, <4>1, <4>4, <4>5 DEF StageInv
      <4>7. call'[c].new = r
        BY <1>1, <3>4, BeginEffects DEF Begins
      <4> QED
        BY <1>5, <4>6, <4>7
    <3> QED
      BY <3>1, <3>2, <3>3, <3>4
  <2> QED
    BY <2>1, <2>2
<1> QED
  BY <1>4, <1>5 DEF TargetInv, Exists

-------------------------------------------------------------------------------
(* Who writes the state of a run, and how the work on it ends.             *)

Writes(c, r) ==
  \/ call[c].new = r /\ (PrepareBlocked(c) \/ FinalizeState(c) \/ WriteBack(c)
                          \/ WriteEscalated(c))
  \/ call[c].target = r /\ (MarkRevivedState(c) \/ DismissState(c))

LEMMA Writers ==
  ASSUME TypeOK, [Next]_vars, NEW r \in Runs, state'[r] # state[r]
  PROVE  \E c \in Callers : Writes(c, r)
<1>1. state' # state /\ ~UNCHANGED vars
  BY DEF vars
<1>2. \A x, st : state' = [state EXCEPT ![x] = st] => x = r
  BY DEF TypeOK
<1>3. ASSUME NEW c \in Callers,
             PrepareBlocked(c) \/ FinalizeState(c) \/ WriteBack(c) \/ WriteEscalated(c)
      PROVE  Writes(c, r)
  <2>1. \E st : state' = [state EXCEPT ![call[c].new] = st]
    BY <1>3 DEF PrepareBlocked, FinalizeState, WriteBack, WriteEscalated
  <2> QED
    BY <1>2, <1>3, <2>1 DEF Writes
<1>5. ASSUME NEW c \in Callers, MarkRevivedState(c) \/ DismissState(c) PROVE Writes(c, r)
  <2>1. \E st : state' = [state EXCEPT ![call[c].target] = st]
    BY <1>5 DEF MarkRevivedState, DismissState
  <2> QED
    BY <1>2, <1>5, <2>1 DEF Writes
<1>6. ASSUME NEW c \in Callers, NEW q \in Runs,
             Delegate(c, q) \/ Resume(c, q) \/ Escalate(c, q) \/ StartDismissal(c, q)
      PROVE  FALSE
  BY <1>1, <1>6 DEF Delegate, Resume, Escalate, StartDismissal, files
<1>7. ASSUME NEW c \in Callers, NEW q \in Runs, NEW kind \in Requests, Peek(c, q, kind)
      PROVE  FALSE
  BY <1>1, <1>7 DEF Peek, files
<1>8. ASSUME NEW c \in Callers,
             TakeLock(c) \/ RefuseResume(c) \/ CallStops(c) \/ Launch(c) \/ ReserveRevival(c)
             \/ MarkRevivedFile(c) \/ FinalizeText(c) \/ ReadBack(c) \/ DismissMarker(c)
      PROVE  FALSE
  BY <1>1, <1>8 DEF TakeLock, RefuseResume, CallStops, Launch, ReserveRevival, MarkRevivedFile,
     FinalizeText, ReadBack, DismissMarker, files
<1>9. ASSUME NEW q \in Runs, ResetPasses(q) \/ Discard(q) PROVE FALSE
  BY <1>1, <1>9 DEF ResetPasses, Discard
<1>10. ASSUME NEW c \in Callers, CallStep(c) PROVE Writes(c, r)
  BY <1>3, <1>5, <1>6, <1>8, <1>10 DEF CallStep
<1> QED
  BY <1>1, <1>6, <1>7, <1>9, <1>10 DEF Next

Leaves(c) ==
  \/ CallStops(c) \/ PrepareBlocked(c) \/ WriteBack(c)
  \/ FinalizeText(c) /\ call[c].kind = "delegate"
  \/ \E q \in Runs : Escalate(c, q)

LEMMA Leaving ==
  ASSUME Base, [Next]_vars, NEW c \in Callers, call[c].new # NoRun, call'[c].new # call[c].new
  PROVE  Leaves(c)
<1>1. TypeOK /\ CallInv
  BY DEF Base
<1>2. call[c].pc \in Working
  BY <1>1 DEF CallInv
<1>3. \A d \in Callers : OthersKeep(d) => c = d
  BY DEF OthersKeep
<1>4. ~UNCHANGED vars
  BY DEF vars
<1>5. ASSUME NEW d \in Callers, NEW r \in Runs,
             Delegate(d, r) \/ Resume(d, r) \/ StartDismissal(d, r)
      PROVE  FALSE
  <2>1. OthersKeep(d)
    BY <1>1, <1>5, BeginEffects, ResumeEffect DEF Begins
  <2> QED
    BY <1>2, <1>3, <1>5, <2>1
       DEF Delegate, Resume, StartDismissal, Working, Unwritten, Unlaunched, Finished
<1>6. ASSUME NEW d \in Callers, NEW r \in Runs, NEW kind \in Requests, Peek(d, r, kind)
      PROVE  FALSE
  <2>1. OthersKeep(d)
    BY <1>1, <1>6, BeginEffects DEF Begins
  <2> QED
    BY <1>2, <1>3, <1>6, <2>1 DEF Peek, Working, Unwritten, Unlaunched, Finished
<1>7. ASSUME NEW d \in Callers, NEW r \in Runs, Escalate(d, r) PROVE Leaves(c)
  <2>1. OthersKeep(d)
    BY <1>1, <1>7, BeginEffects DEF Begins
  <2> QED
    BY <1>3, <1>7, <2>1 DEF Leaves
<1>8. ASSUME NEW d \in Callers,
             TakeLock(d) \/ RefuseResume(d) \/ Launch(d) \/ ReserveRevival(d)
             \/ MarkRevivedState(d) \/ MarkRevivedFile(d) \/ FinalizeState(d) \/ ReadBack(d)
             \/ WriteEscalated(d) \/ DismissState(d) \/ DismissMarker(d)
      PROVE  FALSE
  <2>1. (Stops(d) /\ call[d].pc \notin Working) \/ \E pc : GoesOn(d, pc)
    BY <1>1, <1>8, MoveEffects, TakeLockEffect, ReadBackEffect, EscalatedEffect
       DEF Keeps, TakeLock, RefuseResume, DismissMarker, Working, Unwritten, Unlaunched, Finished
  <2> QED
    BY <1>2, <1>3, <2>1 DEF Stops, GoesOn
<1>9. ASSUME NEW d \in Callers,
             CallStops(d) \/ PrepareBlocked(d) \/ WriteBack(d) \/ FinalizeText(d)
      PROVE  Leaves(c)
  <2>1. OthersKeep(d) /\ (FinalizeText(d) /\ call[d].kind # "delegate" => call'[d].new = call[d].new)
    BY <1>1, <1>9, MoveEffects DEF Keeps, Stops, GoesOn
  <2> QED
    BY <1>3, <1>9, <2>1 DEF Leaves
<1>10. ASSUME NEW r \in Runs, ResetPasses(r) \/ Discard(r) PROVE FALSE
  BY <1>10 DEF ResetPasses, Discard
<1>11. ASSUME NEW d \in Callers, CallStep(d) PROVE Leaves(c)
  BY <1>5, <1>7, <1>8, <1>9, <1>11 DEF CallStep
<1> QED
  BY <1>4, <1>5, <1>6, <1>10, <1>11 DEF Next

-------------------------------------------------------------------------------
(* The history of a run: what the run it continues must have been.         *)

HistoryInv ==
  \A r \in Runs :
    /\ how[r] = "delegate" => line[r] = {r}
    /\ how[r] \notin {"none", "delegate"} =>
         /\ parent[r] \in Runs /\ Exists(parent[r])
         /\ line[r] = {r} \cup line[parent[r]] /\ r \notin line[parent[r]]
         /\ state[parent[r]] \in State /\ state[parent[r]].outcome # "stopped"
         /\ how[r] = "retry" => state[parent[r]].attempts <= Retries
         /\ how[r] = "reply" => state[parent[r]].rounds < MaxRounds
         /\ how[r] = "escalation" => how[parent[r]] = "retry"

(* What the code looked at before it continued target with r.              *)
LEMMA Allowed ==
  ASSUME Base, NEW c \in Callers, NEW r \in Runs
  PROVE  /\ Resume(c, r) =>
              LET st == state[call[c].target] IN
              /\ call[c].target \in Runs /\ st \in State /\ st.outcome # "stopped"
              /\ KindOf(c) \in {"retry", "revival"} \cup Replies
              /\ KindOf(c) = "retry" => st.attempts <= Retries
              /\ KindOf(c) = "reply" => st.rounds < MaxRounds
         /\ Escalate(c, r) =>
              /\ call[c].new \in Runs /\ how[call[c].new] = "retry"
              /\ state[call[c].new] \in State /\ state[call[c].new].outcome = "failed"
<1>1. TypeOK /\ CallInv /\ StageInv /\ SettledInv
  BY DEF Base
<1>2. ASSUME Resume(c, r)
      PROVE  LET st == state[call[c].target] IN
             /\ call[c].target \in Runs /\ st \in State /\ st.outcome # "stopped"
             /\ KindOf(c) \in {"retry", "revival"} \cup Replies
             /\ KindOf(c) = "retry" => st.attempts <= Retries
             /\ KindOf(c) = "reply" => st.rounds < MaxRounds
  <2>1. /\ call[c].target \in Runs /\ call[c].kind \in {"retry"} \cup Replies
        /\ state[call[c].target] # NoState /\ MayResume(c)
    BY <1>1, <1>2 DEF Resume, MayResume, CallInv
  <2>2. state[call[c].target] \in State
    BY <1>1, <2>1 DEF TypeOK
  <2>3. CASE call[c].kind = "retry"
    BY <2>1, <2>2, <2>3 DEF MayResume, MayRetry, MayRevive, KindOf, Replies
  <2>4. CASE call[c].kind \in Replies
    BY <2>1, <2>2, <2>4 DEF MayResume, MayReply, KindOf, Replies
  <2> QED
    BY <2>1, <2>2, <2>3, <2>4
<1>3. ASSUME Escalate(c, r)
      PROVE  /\ call[c].new \in Runs /\ how[call[c].new] = "retry"
             /\ state[call[c].new] \in State /\ state[call[c].new].outcome = "failed"
  BY <1>1, <1>3 DEF Escalate, CallInv, StageInv, SettledInv, Settled, Working,
     Unwritten, Unlaunched, Finished
<1> QED
  BY <1>2, <1>3

LEMMA HistoryPreserved == Base /\ HistoryInv /\ [Next]_vars => HistoryInv'
<1> SUFFICES ASSUME Base, HistoryInv, [Next]_vars, NEW r \in Runs
             PROVE  /\ how'[r] = "delegate" => line'[r] = {r}
                    /\ how'[r] \notin {"none", "delegate"} =>
                         /\ parent'[r] \in Runs /\ how'[parent'[r]] # "none"
                         /\ line'[r] = {r} \cup line'[parent'[r]] /\ r \notin line'[parent'[r]]
                         /\ state'[parent'[r]] \in State /\ state'[parent'[r]].outcome # "stopped"
                         /\ how'[r] = "retry" => state'[parent'[r]].attempts <= Retries
                         /\ how'[r] = "reply" => state'[parent'[r]].rounds < MaxRounds
                         /\ how'[r] = "escalation" => how'[parent'[r]] = "retry"
  BY DEF HistoryInv, Exists
<1>1. TypeOK /\ RunInv /\ StateKept /\ LineageKept
  BY StateStays, LineageStays DEF Base
<1> USE ChainAssumption, NoStateAssumption
<1>2. ASSUME NEW p \in Runs, Exists(p), state[p] \in State, state[p].outcome # "stopped"
      PROVE  /\ how'[p] # "none" /\ how'[p] = how[p] /\ line'[p] = line[p]
             /\ state'[p] \in State /\ state'[p].outcome # "stopped"
             /\ state'[p].attempts = state[p].attempts /\ state'[p].rounds = state[p].rounds
  BY <1>1, <1>2 DEF LineageKept, StateKept, Settled, Exists
<1>3. CASE ~Exists(r)'
  BY <1>3 DEF Exists
<1>4. CASE Exists(r)
  <2>1. how'[r] = how[r] /\ parent'[r] = parent[r] /\ line'[r] = line[r]
    BY <1>1, <1>4 DEF LineageKept
  <2>2. CASE how[r] \notin {"none", "delegate"}
    <3> DEFINE p == parent[r]
    <3>1. /\ p \in Runs /\ Exists(p) /\ line[r] = {r} \cup line[p] /\ r \notin line[p]
          /\ state[p] \in State /\ state[p].outcome # "stopped"
          /\ how[r] = "retry" => state[p].attempts <= Retries
          /\ how[r] = "reply" => state[p].rounds < MaxRounds
          /\ how[r] = "escalation" => how[p] = "retry"
      BY <2>2 DEF HistoryInv
    <3> HIDE DEF p
    <3>2. parent'[r] = p
      BY <2>1 DEF p
    <3> QED
      BY <1>2, <2>1, <2>2, <3>1, <3>2
  <2> QED
    BY <1>4, <2>1, <2>2 DEF Exists, HistoryInv
<1>5. CASE ~Exists(r) /\ Exists(r)'
  <2>1. PICK c \in Callers : Delegate(c, r) \/ Resume(c, r) \/ Escalate(c, r)
    BY <1>5, NewStep
  <2>2. \A q \in Runs : r \notin line[q]
    BY <1>1, <1>5 DEF RunInv
  <2>3. CASE Delegate(c, r)
    <3>1. Continued(c, r, "delegate", NoRun)
      BY <2>3, NewRuns
    <3> QED
      BY <1>1, <3>1 DEF Continued, TypeOK
  <2>4. CASE Resume(c, r)
    <3> DEFINE p == call[c].target
               kind == KindOf(c)
    <3>1. /\ p \in Runs /\ state[p] \in State /\ state[p].outcome # "stopped"
          /\ kind \in {"retry", "revival"} \cup Replies
          /\ kind = "retry" => state[p].attempts <= Retries
          /\ kind = "reply" => state[p].rounds < MaxRounds
      BY <2>4, Allowed
    <3>2. Continued(c, r, kind, p)
      BY <2>4, NewRuns
    <3> HIDE DEF p, kind
    <3>3. /\ Exists(p) /\ p # r /\ how'[r] = kind /\ parent'[r] = p
          /\ line'[r] = {r} \cup line[p]
      BY <1>1, <1>5, <3>1, <3>2 DEF Continued, TypeOK
    <3> QED
      BY <1>2, <2>2, <3>1, <3>3 DEF Replies
  <2>5. CASE Escalate(c, r)
    <3> DEFINE p == call[c].new
    <3>1. p \in Runs /\ how[p] = "retry" /\ state[p] \in State /\ state[p].outcome = "failed"
      BY <2>5, Allowed
    <3>2. Continued(c, r, "escalation", p)
      BY <2>5, NewRuns
    <3> HIDE DEF p
    <3>3. /\ Exists(p) /\ p # r /\ how'[r] = "escalation" /\ parent'[r] = p
          /\ line'[r] = {r} \cup line[p]
      BY <1>1, <1>5, <3>1, <3>2 DEF Continued, TypeOK
    <3> QED
      BY <1>2, <2>2, <3>1, <3>3
  <2> QED
    BY <2>1, <2>3, <2>4, <2>5
<1> QED
  BY <1>3, <1>4, <1>5
===============================================================================
