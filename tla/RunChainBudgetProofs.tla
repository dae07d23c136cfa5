--------------------------- MODULE RunChainBudgetProofs ---------------------------
(***************************************************************************)
(* What is counted along a chain of runs: revivals in a row, retries, an   *)
(* escalation, discussion rounds.                                          *)
(***************************************************************************)
EXTENDS RunChainProofs

(* Revivals in a row: the count travels from state.json to revival.json    *)
(* and back, so that it is the length of the row.                          *)

CountInv ==
  \A r \in Runs :
    /\ state[r] \in State /\ state[r].outcome = "limited" => state[r].count = context[r]
    /\ how[r] = "revival" => /\ parent[r] \in Runs /\ context[parent[r]] < 2
                            /\ context[r] = context[parent[r]] + 1

LEMMA CountPreserved == Base /\ CountInv /\ [Next]_vars => CountInv'
<1> SUFFICES ASSUME Base, CountInv, [Next]_vars, NEW r \in Runs
             PROVE  /\ state'[r] \in State /\ state'[r].outcome = "limited" =>
                         state'[r].count = context'[r]
                    /\ how'[r] = "revival" =>
                         /\ parent'[r] \in Runs /\ context'[parent'[r]] < 2
                         /\ context'[r] = context'[parent'[r]] + 1
  BY DEF CountInv
<1>1. TypeOK /\ CallInv /\ RunInv /\ StateKept /\ LineageKept
  BY StateStays, LineageStays DEF Base
<1> USE ChainAssumption, NoStateAssumption
<1>2. CASE ~Exists(r)'
  <2>1. state'[r] = NoState
    BY <1>1, <1>2, StatesAhead DEF LineageKept, Exists
  <2> QED
    BY <1>2, <2>1 DEF Exists
<1>3. CASE ~Exists(r) /\ Exists(r)'
  <2>1. state'[r] = NoState
    BY <1>3, StatesAhead
  <2>2. PICK c \in Callers : Delegate(c, r) \/ Resume(c, r) \/ Escalate(c, r)
    BY <1>3, NewStep
  <2>3. CASE Delegate(c, r) \/ Escalate(c, r)
    <3>1. how'[r] # "revival"
      BY <1>1, <2>3, NewRuns DEF Continued, TypeOK
    <3> QED
      BY <2>1, <3>1
  <2>4. CASE Resume(c, r)
    <3> DEFINE p == call[c].target
    <3> HIDE DEF p
    <3>0. Continued(c, r, KindOf(c), p)
      BY <2>4, NewRuns DEF p
    <3>1. /\ p \in Runs /\ Exists(p) /\ how'[r] = KindOf(c) /\ parent'[r] = p
      <4>1. p \in Runs
        BY <1>1, <2>4 DEF Resume, CallInv, p
      <4> QED
        BY <1>1, <3>0, <4>1 DEF Continued, TypeOK
    <3>2. ASSUME KindOf(c) = "revival"
          PROVE  state[p] \in State /\ state[p].outcome = "limited" /\ state[p].count < 2
      <4>1. call[c].kind \in {"retry"} \cup Replies /\ state[p] # NoState
        BY <1>1, <2>4 DEF Resume, MayResume, CallInv, p
      <4>2. state[p].outcome = "limited"
        BY <3>2, <4>1 DEF KindOf, Replies, p
      <4>3. MayRevive(c)
        BY <2>4, <4>1, <4>2 DEF Resume, MayResume, MayRetry, MayReply, p
      <4> QED
        BY <1>1, <3>1, <4>1, <4>2, <4>3 DEF MayRevive, Revivable, TypeOK, p
    <3>3. KindOf(c) = "revival" => context'[r] = state[p].count + 1
      BY <1>1, <2>4 DEF Resume, KindOf, TypeOK, p
    <3>4. context'[p] = context[p]
      BY <1>1, <3>1 DEF LineageKept
    <3> QED
      BY <2>1, <3>1, <3>2, <3>3, <3>4 DEF CountInv
  <2> QED
    BY <2>2, <2>3, <2>4
<1>4. CASE Exists(r)
  <2>1. /\ how'[r] = how[r] /\ parent'[r] = parent[r] /\ context'[r] = context[r]
        /\ parent[r] \in Runs => context'[parent[r]] = context[parent[r]]
    BY <1>1, <1>4 DEF LineageKept, RunInv
  <2>2. ASSUME state[r] \in State, state'[r].outcome = "limited"
        PROVE  state'[r].count = context[r]
    BY <1>1, <2>2 DEF StateKept, Settled, CountInv
  <2>3. ASSUME state[r] = NoState, state'[r] \in State, state'[r].outcome = "limited"
        PROVE  state'[r].count = context[r]
    <3>1. PICK c \in Callers : call[c].new = r /\ (PrepareBlocked(c) \/ FinalizeState(c))
      BY <1>1, <2>3 DEF StateKept
    <3>2. ~PrepareBlocked(c)
      BY <2>3, <3>1, BlockedState
    <3> QED
      BY <2>3, <3>1, <3>2, FinalizedState
  <2> QED
    BY <1>1, <2>1, <2>2, <2>3 DEF CountInv, TypeOK
<1> QED
  BY <1>2, <1>3, <1>4

(* After two revivals in a row that hit the limit again no third starts.   *)
THEOREM RevivalTheorem == Spec => []RevivalStops
<1>1. Init => CountInv
  BY NoStateAssumption DEF Init, CountInv
<1>2. Base /\ CountInv => RevivalStops
  <2> SUFFICES ASSUME Base, CountInv, NEW r \in launched, NEW p \in Runs, NEW q \in Runs,
                      parent[r] = q, parent[q] = p, how[r] = "revival", how[q] = "revival",
                      how[p] = "revival"
               PROVE  FALSE
    BY DEF RevivalStops
  <2>1. r \in Runs /\ parent[p] \in Runs
    BY DEF Base, TypeOK, CountInv
  <2>2. \A x \in Runs : context[x] \in Nat
    BY DEF Base, TypeOK
  <2> QED
    BY <2>1, <2>2 DEF CountInv
<1> QED
  BY <1>1, <1>2, InitBase, BasePreserved, CountPreserved, PTL DEF Spec

-------------------------------------------------------------------------------
(* Counting along the history.                                             *)

Count(r, kinds) == Cardinality(Links(r, kinds))

Counted == {{"retry"}, {"escalation"}, Replies}

(* The history of a run is the one of the run it continues, and itself.    *)
Grown ==
  \A r \in Runs, kinds \in Counted :
    /\ Count(r, kinds) \in Nat
    /\ how[r] = "delegate" => Count(r, kinds) = 0
    /\ how[r] \notin {"none", "delegate"} =>
         Count(r, kinds) = Count(parent[r], kinds) + IF how[r] \in kinds THEN 1 ELSE 0

LEMMA LinksFinite ==
  ASSUME TypeOK, NEW r \in Runs, NEW kinds
  PROVE  IsFiniteSet(Links(r, kinds)) /\ Count(r, kinds) \in Nat
<1>1. IsFiniteSet(Runs)
  BY FS_Interval, ChainAssumption DEF Runs
<1>2. Links(r, kinds) \subseteq Runs
  BY DEF Links, TypeOK
<1> QED
  BY <1>1, <1>2, FS_Subset, FS_CardinalityType DEF Count

LEMMA Growing == Base /\ HistoryInv => Grown
<1> SUFFICES ASSUME Base, HistoryInv, NEW r \in Runs, NEW kinds \in Counted
             PROVE  /\ Count(r, kinds) \in Nat
                    /\ how[r] = "delegate" => Count(r, kinds) = 0
                    /\ how[r] \notin {"none", "delegate"} =>
                         Count(r, kinds)
                           = Count(parent[r], kinds) + IF how[r] \in kinds THEN 1 ELSE 0
  BY DEF Grown
<1>1. TypeOK
  BY DEF Base
<1>2. Count(r, kinds) \in Nat
  BY <1>1, LinksFinite
<1>3. ASSUME how[r] = "delegate" PROVE Count(r, kinds) = 0
  <2>1. Links(r, kinds) = {}
    BY <1>3 DEF HistoryInv, Links, Counted, Replies
  <2> QED
    BY <2>1, FS_EmptySet DEF Count
<1>4. ASSUME how[r] \notin {"none", "delegate"}
      PROVE  Count(r, kinds) = Count(parent[r], kinds) + IF how[r] \in kinds THEN 1 ELSE 0
  <2> DEFINE p == parent[r]
  <2>1. p \in Runs /\ line[r] = {r} \cup line[p] /\ r \notin line[p]
    BY <1>4 DEF HistoryInv
  <2>2. IsFiniteSet(Links(p, kinds)) /\ Count(p, kinds) \in Nat
    BY <1>1, <2>1, LinksFinite
  <2>3. CASE how[r] \in kinds
    <3>1. Links(r, kinds) = Links(p, kinds) \cup {r} /\ r \notin Links(p, kinds)
      BY <2>1, <2>3 DEF Links
    <3> QED
      BY <2>2, <2>3, <3>1, FS_AddElement DEF Count
  <2>4. CASE how[r] \notin kinds
    <3>1. Links(r, kinds) = Links(p, kinds)
      BY <2>1, <2>4 DEF Links
    <3> QED
      BY <2>2, <2>4, <3>1 DEF Count
  <2> QED
    BY <2>3, <2>4
<1> QED
  BY <1>2, <1>3, <1>4

CountsKept == \A r \in Runs, kinds \in Counted : Exists(r) => Count(r, kinds)' = Count(r, kinds)

LEMMA CountsStay == Base /\ [Next]_vars => CountsKept
<1> SUFFICES ASSUME Base, [Next]_vars, NEW r \in Runs, NEW kinds \in Counted, Exists(r)
             PROVE  Count(r, kinds)' = Count(r, kinds)
  BY DEF CountsKept
<1>1. TypeOK /\ RunInv /\ LineageKept
  BY LineageStays DEF Base
<1>2. line'[r] = line[r]
  BY <1>1 DEF LineageKept
<1>3. \A q \in line[r] : how'[q] = how[q]
  BY <1>1 DEF LineageKept, RunInv, TypeOK
<1>4. Links(r, kinds)' = Links(r, kinds)
  BY <1>2, <1>3 DEF Links
<1> QED
  BY <1>4 DEF Count

(* attempts counts the retries and the escalation, discussion_rounds the   *)
(* replies.                                                                *)
Within(r) ==
  /\ Count(r, {"retry"}) <= Retries /\ Count(r, {"escalation"}) <= 1
  /\ Count(r, {"escalation"}) >= 1 => Count(r, {"retry"}) >= 1
  /\ how[r] = "retry" => Count(r, {"escalation"}) = 0 /\ Count(r, {"retry"}) >= 1
  /\ how[r] = "reply" => Count(r, Replies) <= MaxRounds

Recorded(r) ==
  state[r] \in State =>
    /\ state[r].rounds = Count(r, Replies)
    /\ state[r].outcome # "stopped" =>
         state[r].attempts = Count(r, {"retry"}) + Count(r, {"escalation"}) + 1

BudgetInv == \A r \in Runs : Exists(r) => Within(r) /\ Recorded(r)

(* The first state.json of a run goes on counting where the state of the   *)
(* run it continues stopped.                                               *)
LEMMA FirstRecord ==
  ASSUME Base, HistoryInv, BudgetInv, NEW c \in Callers, PrepareBlocked(c) \/ FinalizeState(c)
  PROVE  LET r == call[c].new
             st == state'[r]
         IN  /\ st.rounds = Count(r, Replies)
             /\ st.outcome # "stopped" =>
                  st.attempts = Count(r, {"retry"}) + Count(r, {"escalation"}) + 1
<1> DEFINE r == call[c].new
           p == call[c].target
           kind == call[c].kind
           own == call[c].own
<1>1. TypeOK /\ CallInv /\ SettledInv /\ RunInv /\ Grown
  BY Growing DEF Base
<1>2. /\ r \in Runs /\ kind = how[r] /\ kind \notin {"none", "dismiss"} /\ p = parent[r]
      /\ kind = "delegate" => own = Fresh
      /\ kind # "delegate" => p \in Runs /\ state[p] \in State /\ Settled(own, state[p])
      /\ own \in State
  BY <1>1 DEF CallInv, SettledInv, PrepareBlocked, FinalizeState, Working, Unwritten, Unlaunched
<1>3. kind \in {"delegate", "retry", "revival", "escalation"} \cup Replies
  BY <1>1, <1>2 DEF TypeOK, Kind, Replies
<1>4. \A kinds \in Counted : kind = "delegate" => Count(r, kinds) = 0
  BY <1>1, <1>2 DEF Grown
<1>5. \A kinds \in Counted : kind # "delegate" =>
        /\ Count(p, kinds) \in Nat
        /\ Count(r, kinds) = Count(p, kinds) + IF kind \in kinds THEN 1 ELSE 0
  BY <1>1, <1>2 DEF Grown
<1>6. kind # "delegate" =>
        /\ state[p].outcome # "stopped"
        /\ state[p].rounds = Count(p, Replies)
        /\ state[p].attempts = Count(p, {"retry"}) + Count(p, {"escalation"}) + 1
  BY <1>2 DEF HistoryInv, BudgetInv, Recorded
<1>7. kind = "delegate" => own.attempts = 0 /\ own.rounds = 0
  BY <1>2 DEF Fresh
<1>8. kind # "delegate" => own.attempts = state[p].attempts /\ own.rounds = state[p].rounds
  BY <1>2 DEF Settled
<1>9. Rounds(c) = own.rounds + IF kind \in Replies THEN 1 ELSE 0
  BY <1>2 DEF Rounds, State
<1>10. state'[r].rounds = Rounds(c)
       /\ (PrepareBlocked(c) => state'[r].outcome = "stopped")
       /\ (FinalizeState(c) => state'[r].attempts =
             IF kind \in Continuations THEN own.attempts ELSE own.attempts + 1)
  BY BlockedState, FinalizedState
<1> HIDE DEF r, p, kind, own
<1>11. state'[r].rounds = Count(r, Replies)
  BY <1>3, <1>4, <1>5, <1>6, <1>7, <1>8, <1>9, <1>10 DEF Counted, Replies
<1>12. ASSUME state'[r].outcome # "stopped"
       PROVE  state'[r].attempts = Count(r, {"retry"}) + Count(r, {"escalation"}) + 1
  BY <1>3, <1>4, <1>5, <1>6, <1>7, <1>8, <1>10, <1>12 DEF Counted, Replies, Continuations
<1> QED
  BY <1>11, <1>12 DEF r

LEMMA BudgetPreserved == Base /\ HistoryInv /\ BudgetInv /\ [Next]_vars => BudgetInv'
<1> SUFFICES ASSUME Base, HistoryInv, BudgetInv, [Next]_vars PROVE BudgetInv'
  OBVIOUS
<1>1. TypeOK /\ RunInv /\ StateKept /\ LineageKept /\ CountsKept
  BY StateStays, LineageStays, CountsStay DEF Base
<1>2. TypeOK' /\ HistoryInv' /\ Grown'
  BY BasePreserved, HistoryPreserved, Growing, PTL DEF Base
<1>3. ASSUME NEW r \in Runs, Exists(r)
      PROVE  Within(r)' /\ Recorded(r)'
  <2>1. /\ how'[r] = how[r]
        /\ Count(r, {"retry"})' = Count(r, {"retry"})
        /\ Count(r, {"escalation"})' = Count(r, {"escalation"})
        /\ Count(r, Replies)' = Count(r, Replies)
    BY <1>1, <1>3 DEF LineageKept, CountsKept, Counted
  <2>2. Within(r) /\ Recorded(r)
    BY <1>3 DEF BudgetInv
  <2>3. CASE state[r] \in State
    <3>1. Settled(state'[r], state[r])
      BY <1>1, <2>3 DEF StateKept
    <3> QED
      BY <2>1, <2>2, <2>3, <3>1 DEF Within, Recorded, Settled
  <2>4. CASE state[r] = NoState /\ state'[r] \in State
    <3>1. PICK c \in Callers : call[c].new = r /\ (PrepareBlocked(c) \/ FinalizeState(c))
      BY <1>1, <2>4, NoStateAssumption DEF StateKept
    <3>2. /\ state'[r].rounds = Count(r, Replies)
          /\ state'[r].outcome # "stopped" =>
               state'[r].attempts = Count(r, {"retry"}) + Count(r, {"escalation"}) + 1
      BY <3>1, FirstRecord
    <3> QED
      BY <2>1, <2>2, <3>2 DEF Within, Recorded
  <2>5. state'[r] \notin State => Recorded(r)'
    BY DEF Recorded
  <2>6. Within(r)'
    BY <2>1, <2>2 DEF Within
  <2> QED
    BY <1>1, <2>3, <2>4, <2>5, <2>6 DEF TypeOK
<1>4. ASSUME NEW r \in Runs, ~Exists(r), Exists(r)'
      PROVE  Within(r)' /\ Recorded(r)'
  <2>1. Recorded(r)'
    BY <1>4, StatesAhead, NoStateAssumption DEF Recorded
  <2>2. PICK c \in Callers : Delegate(c, r) \/ Resume(c, r) \/ Escalate(c, r)
    BY <1>4, NewStep
  <2>3. parent'[r] \in Runs => Exists(parent'[r])
    BY <1>1, <2>2, NewRuns, ChainAssumption DEF Continued, TypeOK
  <2>4. \A kinds \in Counted : Count(r, kinds)' \in Nat
    BY <1>2 DEF Grown
  <2>5. CASE how'[r] = "delegate"
    <3>1. \A kinds \in Counted : Count(r, kinds)' = 0
      BY <1>2, <2>5 DEF Grown
    <3> QED
      BY <2>1, <2>5, <3>1, ChainAssumption DEF Within, Counted
  <2>6. CASE how'[r] \notin {"none", "delegate"}
    <3>1. PICK p \in Runs :
            /\ p = parent'[r] /\ state'[p] \in State /\ state'[p].outcome # "stopped"
            /\ how'[r] = "retry" => state'[p].attempts <= Retries
            /\ how'[r] = "reply" => state'[p].rounds < MaxRounds
            /\ how'[r] = "escalation" => how'[p] = "retry"
      BY <1>2, <2>6 DEF HistoryInv
    <3>2. Within(p)' /\ Recorded(p)'
      BY <1>3, <2>3, <3>1
    <3>3. \A kinds \in Counted :
            /\ Count(p, kinds)' \in Nat
            /\ Count(r, kinds)' = Count(p, kinds)' + IF how'[r] \in kinds THEN 1 ELSE 0
      BY <1>2, <2>6, <3>1 DEF Grown
    <3>4. /\ Count(p, {"retry"})' \in Nat /\ Count(p, {"escalation"})' \in Nat
          /\ Count(p, Replies)' \in Nat
          /\ Count(r, {"retry"})' = Count(p, {"retry"})' + IF how'[r] = "retry" THEN 1 ELSE 0
          /\ Count(r, {"escalation"})'
               = Count(p, {"escalation"})' + IF how'[r] = "escalation" THEN 1 ELSE 0
          /\ Count(r, Replies)' = Count(p, Replies)' + IF how'[r] \in Replies THEN 1 ELSE 0
      BY <3>3 DEF Counted
    <3>5. /\ state'[p].rounds = Count(p, Replies)'
          /\ state'[p].attempts = Count(p, {"retry"})' + Count(p, {"escalation"})' + 1
      BY <3>1, <3>2 DEF Recorded
    <3>6. /\ Count(p, {"retry"})' <= Retries /\ Count(p, {"escalation"})' <= 1
          /\ Count(p, {"escalation"})' >= 1 => Count(p, {"retry"})' >= 1
          /\ how'[p] = "retry" => Count(p, {"escalation"})' = 0 /\ Count(p, {"retry"})' >= 1
      BY <3>2 DEF Within
    <3>7. Retries \in 0..2 /\ MaxRounds \in Nat
      BY ChainAssumption
    <3>8. CASE how'[r] = "retry"
      BY <2>1, <3>1, <3>4, <3>5, <3>6, <3>7, <3>8 DEF Within
    <3>9. CASE how'[r] = "escalation"
      BY <2>1, <3>1, <3>4, <3>6, <3>7, <3>9 DEF Within
    <3>10. CASE how'[r] \notin {"retry", "escalation"}
      BY <2>1, <3>1, <3>4, <3>5, <3>6, <3>7, <3>10 DEF Within, Replies
    <3> QED
      BY <3>8, <3>9, <3>10
  <2> QED
    BY <1>4, <2>5, <2>6 DEF Exists
<1> QED
  BY <1>1, <1>3, <1>4 DEF BudgetInv

LEMMA BudgetsHold == Spec => [](Base /\ HistoryInv /\ BudgetInv)
<1>1. Init => HistoryInv
  BY DEF Init, HistoryInv
<1>2. Init => BudgetInv
  BY DEF Init, BudgetInv, Exists
<1> QED
  BY <1>1, <1>2, InitBase, BasePreserved, HistoryPreserved, BudgetPreserved, PTL DEF Spec

(* At most `retries` retries and one escalation in the history of any run. *)
THEOREM RetriesTheorem == Spec => []PathBudget
<1>1. Base /\ BudgetInv => PathBudget
  BY DEF Base, TypeOK, RunInv, BudgetInv, Within, Count, PathBudget
<1> QED
  BY <1>1, BudgetsHold, PTL

(* At most max_discussion_rounds replies up to one that decides nothing.   *)
THEOREM RoundsTheorem == Spec => []RoundsRespected
<1>1. Base /\ BudgetInv => RoundsRespected
  BY DEF Base, TypeOK, RunInv, BudgetInv, Within, Count, RoundsRespected
<1> QED
  BY <1>1, BudgetsHold, PTL

-------------------------------------------------------------------------------
(* Escalation, for runs that are named when their call has returned: what  *)
(* a call inherits is still what its target's state.json says.             *)

Agree(a, b) == a.seen = b.seen /\ a.escalated = b.escalated

OwnInv ==
  \A c \in Callers :
    /\ call[c].pc \in Working /\ call[c].kind # "delegate" =>
         Agree(call[c].own, state[call[c].target])
    /\ call[c].pc = "dismissing" => Agree(call[c].copy, state[call[c].target])
    /\ call[c].pc = "escalating" => Agree(call[c].copy, state[call[c].new])

(* The state of a run no call works on keeps its signatures.               *)
AgreeKept ==
  \A r \in Runs :
    state[r] \in State /\ (\A c \in Callers : call[c].new # r) => Agree(state'[r], state[r])

LEMMA AgreeStays == Base /\ OwnInv /\ [Next]_vars => AgreeKept
<1> SUFFICES ASSUME Base, OwnInv, [Next]_vars, NEW r \in Runs, state[r] \in State,
                    \A c \in Callers : call[c].new # r
             PROVE  Agree(state'[r], state[r])
  BY DEF AgreeKept
<1>1. TypeOK /\ CallInv
  BY DEF Base
<1>2. CASE state'[r] = state[r]
  BY <1>2 DEF Agree
<1>3. ASSUME NEW c \in Callers, call[c].target = r, MarkRevivedState(c)
      PROVE  Agree(state'[r], state[r])
  <2> DEFINE own == call[c].own
  <2>1. own \in State /\ Agree(own, state[r])
    BY <1>1, <1>3 DEF MarkRevivedState, CallInv, OwnInv, Working, Unwritten, Unlaunched
  <2>2. state' = [state EXCEPT ![r] = [own EXCEPT !.revivedBy = call[c].new]]
    BY <1>3 DEF MarkRevivedState
  <2> HIDE DEF own
  <2> QED
    BY <1>1, <2>1, <2>2 DEF Agree, State, TypeOK
<1>4. ASSUME NEW c \in Callers, call[c].target = r, DismissState(c)
      PROVE  Agree(state'[r], state[r])
  BY <1>1, <1>4 DEF DismissState, OwnInv, TypeOK
<1> QED
  BY <1>1, <1>2, <1>3, <1>4, Writers DEF Writes

LEMMA Signing ==
  ASSUME TypeOK, [Next]_vars, NEW r \in Runs, sig'[r] # sig[r]
  PROVE  \E c \in Callers : call[c].new = r /\ FinalizeState(c)
<1>1. sig' # sig
  OBVIOUS
<1>2. ASSUME NEW c \in Callers, FinalizeState(c) PROVE call[c].new = r
  <2>1. \E s : sig' = [sig EXCEPT ![call[c].new] = s]
    BY <1>2 DEF FinalizeState
  <2> QED
    BY <2>1 DEF TypeOK
<1>3. ASSUME NEW c \in Callers, NEW q \in Runs,
             Delegate(c, q) \/ Resume(c, q) \/ StartDismissal(c, q) \/ Escalate(c, q)
      PROVE  FALSE
  BY <1>1, <1>3 DEF Delegate, Resume, StartDismissal, Escalate, files
<1>4. ASSUME NEW c \in Callers, NEW q \in Runs, NEW kind \in Requests, Peek(c, q, kind)
      PROVE  FALSE
  BY <1>1, <1>4 DEF Peek, files
<1>5. ASSUME NEW c \in Callers,
             TakeLock(c) \/ RefuseResume(c) \/ CallStops(c) \/ Launch(c) \/ ReserveRevival(c)
             \/ MarkRevivedState(c) \/ MarkRevivedFile(c) \/ FinalizeText(c) \/ ReadBack(c)
             \/ WriteBack(c) \/ WriteEscalated(c) \/ PrepareBlocked(c) \/ DismissState(c)
             \/ DismissMarker(c)
      PROVE  FALSE
  BY <1>1, <1>5 DEF TakeLock, RefuseResume, CallStops, Launch, ReserveRevival, MarkRevivedState,
     MarkRevivedFile, FinalizeText, ReadBack, WriteBack, WriteEscalated, PrepareBlocked,
     DismissState, DismissMarker, files
<1>6. ASSUME NEW q \in Runs, ResetPasses(q) \/ Discard(q) PROVE FALSE
  BY <1>1, <1>6 DEF ResetPasses, Discard
<1> QED
  BY <1>1, <1>2, <1>3, <1>4, <1>5, <1>6 DEF Next, CallStep, vars

(* Nobody else touches a run between its outcome and the end of its call.  *)
LEMMA Untouched ==
  ASSUME Base, TargetInv, [Next]_vars, NEW d \in Callers, call[d].pc \in Working \ Unwritten,
         call'[d].new = call[d].new, ~WriteEscalated(d)
  PROVE  state'[call[d].new] = state[call[d].new] /\ sig'[call[d].new] = sig[call[d].new]
<1>1. TypeOK /\ CallInv /\ StageInv /\ call[d].new \in Runs /\ call[d].new # NoRun
  BY ChainAssumption DEF Base, CallInv, Working, Unwritten, Unlaunched, Finished
<1>2. \A c \in Callers : call[c].new = call[d].new => c = d
  BY <1>1 DEF StageInv
<1>3. ~PrepareBlocked(d) /\ ~FinalizeState(d)
  BY DEF PrepareBlocked, FinalizeState, Unwritten, Unlaunched
<1>4. ~WriteBack(d)
  BY <1>1, MoveEffects DEF Stops
<1>5. \A c \in Callers : call[c].target # call[d].new
  BY <1>1 DEF TargetInv
<1> QED
  BY <1>1, <1>2, <1>3, <1>4, <1>5, Writers, Signing DEF Writes

LEMMA OwnPreserved ==
  Nameable = "returned" /\ Base /\ TargetInv /\ OwnInv /\ [Next]_vars => OwnInv'
<1> SUFFICES ASSUME Base, TargetInv, OwnInv, [Next]_vars PROVE OwnInv'
  OBVIOUS
<1>1. TypeOK /\ CallInv /\ SettledInv /\ AgreeKept
  BY AgreeStays DEF Base
<1> USE ChainAssumption, NoStateAssumption
(* A call that goes on from where it was inherits what it did.             *)
<1>2. ASSUME NEW d \in Callers, call[d].pc \in Working, call[d].kind # "delegate",
             call'[d].own = call[d].own, call'[d].target = call[d].target
      PROVE  Agree(call'[d].own, state'[call'[d].target])
  <2>1. call[d].target \in Runs /\ state[call[d].target] \in State
    BY <1>1, <1>2 DEF CallInv, SettledInv
  <2>2. \A c \in Callers : call[c].new # call[d].target
    BY <2>1 DEF TargetInv
  <2> QED
    BY <1>1, <1>2, <2>1, <2>2 DEF AgreeKept, OwnInv, Agree
<1>3. ASSUME NEW d \in Callers, call[d].pc = "dismissing",
             call'[d].copy = call[d].copy, call'[d].target = call[d].target
      PROVE  Agree(call'[d].copy, state'[call'[d].target])
  <2>1. call[d].target \in Runs /\ state[call[d].target] \in State
    BY <1>1, <1>3 DEF CallInv, SettledInv, Dismissing
  <2>2. \A c \in Callers : call[c].new # call[d].target
    BY <2>1 DEF TargetInv
  <2> QED
    BY <1>1, <1>3, <2>1, <2>2 DEF AgreeKept, OwnInv, Agree
<1> DEFINE Fine(d) ==
      /\ call'[d].pc \in Working /\ call'[d].kind # "delegate" =>
           Agree(call'[d].own, state'[call'[d].target])
      /\ call'[d].pc = "dismissing" => Agree(call'[d].copy, state'[call'[d].target])
      /\ call'[d].pc = "escalating" => Agree(call'[d].copy, state'[call'[d].new])
<1>4. ASSUME NEW d \in Callers, call'[d] = call[d] PROVE Fine(d)
  <2>1. ASSUME call[d].pc = "escalating" PROVE Agree(call[d].copy, state'[call[d].new])
    <3>1. ~WriteEscalated(d)
      BY <2>1 DEF WriteEscalated
    <3> QED
      BY <1>4, <2>1, <3>1, Untouched DEF OwnInv, Working, Unwritten, Unlaunched, Finished
  <2> QED
    BY <1>2, <1>3, <1>4, <2>1
<1>5. ASSUME NEW c \in Callers, OthersKeep(c), Fine(c) PROVE OwnInv'
  BY <1>4, <1>5 DEF OthersKeep, OwnInv
<1>6. CASE call' = call
  BY <1>4, <1>6 DEF OwnInv
<1>7. ASSUME NEW c \in Callers, NEW r \in Runs, Delegate(c, r) PROVE OwnInv'
  <2>1. Begins(c, "preparing", "delegate", NoRun, Fresh, r)
    BY <1>1, <1>7, BeginEffects
  <2> QED
    BY <1>5, <2>1 DEF Begins
<1>8. ASSUME NEW c \in Callers, NEW r \in Runs, NEW kind \in Requests, Peek(c, r, kind)
      PROVE  OwnInv'
  <2>1. \E pc \in {"locking", "reading"} : Begins(c, pc, kind, r, NoState, NoRun)
    BY <1>1, <1>8, BeginEffects
  <2> QED
    BY <1>5, <2>1 DEF Begins, Working, Unwritten, Unlaunched, Finished
<1>9. ASSUME NEW c \in Callers, NEW r \in Runs, StartDismissal(c, r) PROVE OwnInv'
  <2>1. Begins(c, "dismissing", "dismiss", r, NoState, NoRun)
        /\ call'[c].copy = [state[r] EXCEPT !.dismissed = TRUE]
    BY <1>1, <1>9, BeginEffects
  <2>2. state[r] \in State /\ state' = state
    BY <1>9 DEF StartDismissal, files, Base, RunInv
  <2>3. Agree([state[r] EXCEPT !.dismissed = TRUE], state[r])
    BY <2>2 DEF Agree, State
  <2> QED
    BY <1>5, <2>1, <2>2, <2>3 DEF Begins, Working, Unwritten, Unlaunched, Finished
<1>10. ASSUME NEW c \in Callers, NEW r \in Runs, Resume(c, r) PROVE OwnInv'
  <2>1. Begins(c, "preparing", KindOf(c), call[c].target, state[call[c].target], r)
    BY <1>1, <1>10, ResumeEffect
  <2>2. state' = state
    BY <1>10 DEF Resume
  <2> QED
    BY <1>5, <2>1, <2>2 DEF Begins, Agree
<1>11. ASSUME NEW c \in Callers, NEW r \in Runs, Escalate(c, r) PROVE OwnInv'
  <2>1. Begins(c, "preparing", "escalation", call[c].new, call[c].copy, r)
    BY <1>1, <1>11, BeginEffects
  <2>2. state' = state /\ Agree(call[c].copy, state[call[c].new])
    BY <1>11 DEF Escalate, OwnInv
  <2> QED
    BY <1>5, <2>1, <2>2 DEF Begins
<1>12. ASSUME NEW c \in Callers,
              Launch(c) \/ ReserveRevival(c) \/ MarkRevivedState(c) \/ MarkRevivedFile(c)
              \/ FinalizeState(c) \/ FinalizeText(c) \/ ReadBack(c)
       PROVE  OwnInv'
  <2>1. call[c].pc \in Working
    BY <1>12 DEF Launch, ReserveRevival, MarkRevivedState, MarkRevivedFile, FinalizeState,
       FinalizeText, ReadBack, Working, Unwritten, Unlaunched, Finished
  <2>2. Stops(c) \/ \E pc \in Working \ {"escalating"} : GoesOn(c, pc)
    BY <1>1, <1>12, MoveEffects, ReadBackEffect
       DEF Keeps, Working, Unwritten, Unlaunched, Finished
  <2> QED
    BY <1>2, <1>5, <2>1, <2>2
       DEF Stops, GoesOn, Working, Unwritten, Unlaunched, Finished
<1>13. ASSUME NEW c \in Callers,
              TakeLock(c) \/ RefuseResume(c) \/ CallStops(c) \/ PrepareBlocked(c) \/ WriteBack(c)
              \/ DismissState(c) \/ DismissMarker(c)
       PROVE  OwnInv'
  <2>1. Stops(c) \/ \E pc \in {"reading", "dismiss_marking"} : GoesOn(c, pc)
    BY <1>1, <1>13, MoveEffects, TakeLockEffect DEF Keeps
  <2> QED
    BY <1>5, <2>1 DEF Stops, GoesOn, Working, Unwritten, Unlaunched, Finished
<1>16. ASSUME NEW c \in Callers, WriteEscalated(c) PROVE OwnInv'
  <2> DEFINE copy == [call[c].copy EXCEPT !.escalated = TRUE]
  <2>1. GoesOn(c, "escalating") /\ call'[c].copy = copy
    BY <1>1, <1>16, EscalatedEffect
  <2>2. /\ call[c].pc = "rewriting" /\ call[c].new \in Runs
        /\ state' = [state EXCEPT ![call[c].new] = copy]
    BY <1>1, <1>16 DEF WriteEscalated, CallInv, Working, Finished
  <2> HIDE DEF copy
  <2>3. state'[call[c].new] = copy
    BY <1>1, <2>2 DEF TypeOK
  <2> QED
    BY <1>2, <1>5, <2>1, <2>2, <2>3 DEF GoesOn, Agree, Working, Finished
<1>14. ASSUME NEW r \in Runs, ResetPasses(r) \/ Discard(r) PROVE OwnInv'
  BY <1>6, <1>14 DEF ResetPasses, Discard
<1>15. ASSUME NEW c \in Callers, CallStep(c) PROVE OwnInv'
  BY <1>10, <1>11, <1>12, <1>13, <1>15, <1>16 DEF CallStep
<1> QED
  BY <1>6, <1>7, <1>8, <1>9, <1>14, <1>15 DEF Next, vars

(* The signatures a turn adds: none before it, one at most.                *)
One(r, x) == IF sig[r] = x THEN 1 ELSE 0

SignInv ==
  /\ \A r \in Runs : state[r] = NoState => sig[r] = NoSig
  /\ \A c \in Callers :
       call[c].pc \in {"finalizing", "merging"} => ~state[call[c].new].escalated
  /\ \A c \in Callers, x \in Sigs :
       /\ call[c].pc \in {"finalizing", "merging"} =>
            state[call[c].new].seen[x] = One(call[c].new, x)
       /\ call[c].pc \in {"rewriting", "escalating"} =>
            call[c].copy.seen[x] = call[c].own.seen[x] + One(call[c].new, x)

LEMMA SignPreserved ==
  Base /\ TargetInv /\ SignInv /\ [Next]_vars => SignInv'
<1> SUFFICES ASSUME Base, TargetInv, SignInv, [Next]_vars PROVE SignInv'
  OBVIOUS
<1>1. TypeOK /\ CallInv /\ StageInv /\ StateKept
  BY StateStays DEF Base
<1> USE ChainAssumption, NoStateAssumption
<1>2. ASSUME NEW r \in Runs, state'[r] = NoState PROVE sig'[r] = NoSig
  <2>1. state[r] = NoState /\ sig[r] = NoSig
    BY <1>1, <1>2 DEF StateKept, SignInv, TypeOK
  <2>2. \A c \in Callers : call[c].new = r => ~FinalizeState(c)
    BY <1>2, FinalizedState
  <2> QED
    BY <1>1, <2>1, <2>2, Signing
<1> DEFINE Fine(d) ==
      /\ call'[d].pc \in {"finalizing", "merging"} => ~state'[call'[d].new].escalated
      /\ \A x \in Sigs :
           /\ call'[d].pc \in {"finalizing", "merging"} =>
                state'[call'[d].new].seen[x] = IF sig'[call'[d].new] = x THEN 1 ELSE 0
           /\ call'[d].pc \in {"rewriting", "escalating"} =>
                call'[d].copy.seen[x]
                  = call'[d].own.seen[x] + IF sig'[call'[d].new] = x THEN 1 ELSE 0
<1> USE DEF Working, Unwritten, Unlaunched, Finished
<1>3. ASSUME NEW d \in Callers, call'[d] = call[d] PROVE Fine(d)
  <2>1. CASE call[d].pc \in {"finalizing", "merging", "rewriting", "escalating"}
    <3>0. ~WriteEscalated(d)
      BY <1>1, <1>3, EscalatedEffect DEF GoesOn, WriteEscalated
    <3>1. state'[call[d].new] = state[call[d].new] /\ sig'[call[d].new] = sig[call[d].new]
      BY <1>3, <2>1, <3>0, Untouched
    <3> QED
      BY <1>3, <2>1, <3>1 DEF SignInv, One
  <2> QED
    BY <1>3, <2>1
<1>4. ASSUME NEW c \in Callers, OthersKeep(c), Fine(c) PROVE SignInv'
  <2>1. \A d \in Callers : Fine(d)
    BY <1>3, <1>4 DEF OthersKeep
  <2> QED
    BY <1>2, <2>1 DEF SignInv, One
<1>5. CASE call' = call
  <2>1. \A d \in Callers : Fine(d)
    BY <1>3, <1>5
  <2> QED
    BY <1>2, <2>1 DEF SignInv, One
<1>6. ASSUME NEW c \in Callers, OthersKeep(c),
             call'[c].pc \notin {"finalizing", "merging", "rewriting", "escalating"}
      PROVE  SignInv'
  BY <1>4, <1>6
<1>7. ASSUME NEW c \in Callers, NEW r \in Runs, Delegate(c, r) \/ StartDismissal(c, r)
      PROVE  SignInv'
  BY <1>1, <1>6, <1>7, BeginEffects DEF Begins
<1>8. ASSUME NEW c \in Callers, NEW r \in Runs, Resume(c, r) PROVE SignInv'
  BY <1>1, <1>6, <1>8, ResumeEffect DEF Begins
<1>9. ASSUME NEW c \in Callers, NEW r \in Runs, Escalate(c, r) PROVE SignInv'
  BY <1>1, <1>6, <1>9, BeginEffects DEF Begins
<1>10. ASSUME NEW c \in Callers, NEW r \in Runs, NEW kind \in Requests, Peek(c, r, kind)
       PROVE  SignInv'
  <2>1. \E pc \in {"locking", "reading"} : Begins(c, pc, kind, r, NoState, NoRun)
    BY <1>1, <1>10, BeginEffects
  <2> QED
    BY <1>6, <2>1 DEF Begins
<1>11. ASSUME NEW c \in Callers,
              TakeLock(c) \/ RefuseResume(c) \/ CallStops(c) \/ PrepareBlocked(c) \/ WriteBack(c)
              \/ Launch(c) \/ ReserveRevival(c) \/ MarkRevivedState(c) \/ MarkRevivedFile(c)
              \/ DismissState(c) \/ DismissMarker(c)
       PROVE  SignInv'
  <2>1. Stops(c) \/ \E pc \in {"reading", "marking_state", "marking_file", "executing",
                               "dismiss_marking"} : GoesOn(c, pc)
    BY <1>1, <1>11, MoveEffects, TakeLockEffect DEF Keeps
  <2> QED
    BY <1>6, <2>1 DEF Stops, GoesOn
<1>12. ASSUME NEW c \in Callers, FinalizeState(c) PROVE SignInv'
  <2>1. GoesOn(c, "finalizing")
    BY <1>1, <1>12, MoveEffects DEF Keeps
  <2>2. /\ ~state'[call[c].new].escalated
        /\ \A x \in Sigs : state'[call[c].new].seen[x] = IF sig'[call[c].new] = x THEN 1 ELSE 0
    BY <1>12, FinalizedState
  <2> QED
    BY <1>4, <2>1, <2>2 DEF GoesOn
<1>13. ASSUME NEW c \in Callers, FinalizeText(c) PROVE SignInv'
  <2>1. CASE Stops(c)
    BY <1>6, <2>1 DEF Stops
  <2>2. CASE GoesOn(c, "merging")
    <3>1. call[c].pc = "finalizing" /\ state' = state /\ sig' = sig
      BY <1>13 DEF FinalizeText
    <3> QED
      BY <1>4, <2>2, <3>1 DEF GoesOn, SignInv, One
  <2> QED
    BY <1>1, <1>13, <2>1, <2>2, MoveEffects DEF Keeps
<1>14. ASSUME NEW c \in Callers, ReadBack(c) PROVE SignInv'
  <2>1. GoesOn(c, "rewriting") /\ call'[c].copy = Merged(c)
    BY <1>1, <1>14, ReadBackEffect
  <2>2. call[c].pc = "merging" /\ state[call[c].new] \in State /\ sig' = sig
    BY <1>1, <1>14 DEF ReadBack, StageInv, files
  <2>3. Merged(c).seen = Plus(call[c].own.seen, state[call[c].new].seen)
    BY <2>2 DEF Merged, State
  <2>4. \A x \in Sigs : Merged(c).seen[x] = call[c].own.seen[x] + One(call[c].new, x)
    BY <2>2, <2>3 DEF Plus, SignInv
  <2> HIDE DEF Fine
  <2>5. Fine(c)
    BY <2>1, <2>2, <2>4 DEF GoesOn, One, Fine
  <2> QED
    BY <1>4, <2>1, <2>5 DEF GoesOn
<1>17. ASSUME NEW c \in Callers, WriteEscalated(c) PROVE SignInv'
  <2>1. /\ GoesOn(c, "escalating")
        /\ call'[c].copy = [call[c].copy EXCEPT !.escalated = TRUE]
    BY <1>1, <1>17, EscalatedEffect
  <2>2. call[c].pc = "rewriting" /\ call[c].copy \in State /\ sig' = sig
    BY <1>1, <1>17 DEF WriteEscalated, CallInv
  <2>3. call'[c].copy.seen = call[c].copy.seen
    BY <2>1, <2>2 DEF State
  <2> HIDE DEF Fine
  <2>4. Fine(c)
    BY <2>1, <2>2, <2>3 DEF GoesOn, SignInv, One, Fine
  <2> QED
    BY <1>4, <2>1, <2>4 DEF GoesOn
<1>15. ASSUME NEW r \in Runs, ResetPasses(r) \/ Discard(r) PROVE SignInv'
  BY <1>5, <1>15 DEF ResetPasses, Discard
<1>16. ASSUME NEW c \in Callers, CallStep(c) PROVE SignInv'
  BY <1>8, <1>9, <1>11, <1>12, <1>13, <1>14, <1>16, <1>17 DEF CallStep
<1> QED
  BY <1>5, <1>7, <1>10, <1>15, <1>16 DEF Next, vars

(* seen names every signature of the history r.                            *)
SeenBy(seen, r) == \A q \in line[r] : sig[q] # NoSig => seen[sig[q]] >= 1

(* The state of a run names the signatures of its history, if the calls of *)
(* that history came through.                                              *)
Whole(r) == line[r] \subseteq settled

SeenInv == \A r \in Runs : Exists(r) /\ Whole(r) => SeenBy(state[r].seen, r)

(* What a call inherits names them too.                                    *)
LEMMA Inherits ==
  ASSUME Base, HistoryInv, OwnInv, SeenInv, NEW c \in Callers,
         call[c].pc \in Working, call[c].kind # "delegate", Whole(call[c].target)
  PROVE  /\ call[c].target \in Runs
         /\ line[call[c].new] = {call[c].new} \cup line[call[c].target]
         /\ call[c].new \notin line[call[c].target]
         /\ SeenBy(call[c].own.seen, call[c].target)
<1>1. /\ call[c].target \in Runs /\ call[c].new \in Runs
      /\ call[c].kind = how[call[c].new] /\ call[c].target = parent[call[c].new]
      /\ call[c].kind \notin {"none", "delegate"}
  BY DEF Base, CallInv
<1>2. /\ line[call[c].new] = {call[c].new} \cup line[call[c].target]
      /\ call[c].new \notin line[call[c].target] /\ Exists(call[c].target)
  BY <1>1 DEF HistoryInv
<1>3. call[c].own.seen = state[call[c].target].seen
  BY DEF OwnInv, Agree
<1> QED
  BY <1>1, <1>2, <1>3 DEF SeenInv, SeenBy

(* What happens to a run while its call goes on or ends: no history        *)
(* becomes whole, or changes its signatures, by the way.                   *)
LEMMA WholeBefore ==
  ASSUME Base, TargetInv, [Next]_vars, NEW r \in Runs, Exists(r), Whole(r)'
  PROVE  /\ line'[r] = line[r] /\ line[r] \subseteq Runs /\ r \in line[r] /\ r \in settled'
         /\ \A q \in line[r] : q # r => q \in settled /\ sig'[q] = sig[q]
         /\ r \in settled => sig'[r] = sig[r]
         /\ (\A c \in Callers : call[c].new # r) => r \in settled
<1>1. TypeOK /\ CallInv /\ StageInv /\ RunInv /\ LineageKept
  BY LineageStays DEF Base
<1>2. line'[r] = line[r] /\ line[r] \subseteq Runs /\ r \in line[r]
  BY <1>1 DEF LineageKept, TypeOK, RunInv
<1>3. ASSUME NEW q \in Runs, q \in settled', q \notin settled
      PROVE  \E c \in Callers : call[c].new = q
  <2>1. settled' # settled
    BY <1>3
  <2>2. \A c \in Callers :
          PrepareBlocked(c) \/ FinalizeText(c) \/ WriteBack(c) \/ (\E x \in Runs : Escalate(c, x)) =>
            settled' = settled \/ settled' = settled \cup {call[c].new}
    BY DEF PrepareBlocked, FinalizeText, WriteBack, Escalate
  <2>3. ASSUME NEW c \in Callers, NEW x \in Runs,
               Delegate(c, x) \/ Resume(c, x) \/ StartDismissal(c, x)
        PROVE  FALSE
    BY <2>1, <2>3 DEF Delegate, Resume, StartDismissal, files
  <2>4. ASSUME NEW c \in Callers, NEW x \in Runs, NEW kind \in Requests, Peek(c, x, kind)
        PROVE  FALSE
    BY <2>1, <2>4 DEF Peek, files
  <2>5. ASSUME NEW c \in Callers,
               TakeLock(c) \/ RefuseResume(c) \/ CallStops(c) \/ Launch(c) \/ ReserveRevival(c)
               \/ MarkRevivedState(c) \/ MarkRevivedFile(c) \/ FinalizeState(c) \/ ReadBack(c)
               \/ WriteEscalated(c) \/ DismissState(c) \/ DismissMarker(c)
        PROVE  FALSE
    BY <2>1, <2>5 DEF TakeLock, RefuseResume, CallStops, Launch, ReserveRevival, MarkRevivedState,
       MarkRevivedFile, FinalizeState, ReadBack, WriteEscalated, DismissState, DismissMarker, files
  <2>6. ASSUME NEW x \in Runs, ResetPasses(x) \/ Discard(x) PROVE FALSE
    BY <2>1, <2>6 DEF ResetPasses, Discard
  <2> QED
    BY <1>3, <2>1, <2>2, <2>3, <2>4, <2>5, <2>6 DEF Next, CallStep, vars
<1>4. ASSUME NEW q \in Runs, q \in settled PROVE sig'[q] = sig[q]
  <2>1. \A c \in Callers : FinalizeState(c) => call[c].new \notin settled
    BY <1>1 DEF FinalizeState, StageInv, Working, Unwritten
  <2> QED
    BY <1>1, <1>4, <2>1, Signing
<1>5. \A q \in line[r] : q # r => \A c \in Callers : call[c].new # q
  BY <1>2 DEF TargetInv
<1> QED
  BY <1>2, <1>3, <1>4, <1>5 DEF Whole

(* The call of a run that is new has not come through.                     *)
LEMMA NotNew ==
  ASSUME Base, [Next]_vars, NEW r \in Runs, Exists(r)', Whole(r)'
  PROVE  Exists(r) /\ \A c \in Callers : call'[c].new # r
<1>0. TypeOK
  BY DEF Base
<1>1. CallInv' /\ StageInv' /\ RunInv'
  BY BasePreserved DEF Base
<1>5. \A c \in Callers : call'[c].new # r
  BY <1>1, ChainAssumption DEF CallInv, StageInv, RunInv, Whole
<1>2. ASSUME NEW c \in Callers, Delegate(c, r) PROVE FALSE
  BY <1>0, <1>2, <1>5, BeginEffects DEF Begins
<1>3. ASSUME NEW c \in Callers, Resume(c, r) PROVE FALSE
  BY <1>0, <1>3, <1>5, ResumeEffect DEF Begins
<1>4. ASSUME NEW c \in Callers, Escalate(c, r) PROVE FALSE
  BY <1>0, <1>4, <1>5, BeginEffects DEF Begins
<1> QED
  BY <1>2, <1>3, <1>4, <1>5, NewStep

(* The state a call leaves to its run.                                     *)
LEMMA LeftState ==
  ASSUME Base, OwnInv, NEW c \in Callers, WriteBack(c) \/ \E q \in Runs : Escalate(c, q)
  PROVE  /\ call[c].pc \in {"rewriting", "escalating"} /\ call[c].new \in Runs
         /\ call[c].kind # "delegate"
         /\ state'[call[c].new].seen = call[c].copy.seen
         /\ UNCHANGED sig
<1>1. /\ TypeOK /\ call[c].pc \in {"rewriting", "escalating"} /\ call[c].new \in Runs
      /\ call[c].copy \in State /\ call[c].kind # "delegate"
  BY DEF WriteBack, Escalate, Base, CallInv, Working, Finished
<1>2. CASE WriteBack(c)
  BY <1>1, <1>2 DEF WriteBack, TypeOK
<1>3. CASE \E q \in Runs : Escalate(c, q)
  BY <1>1, <1>3 DEF Escalate, OwnInv, Agree
<1> QED
  BY <1>1, <1>2, <1>3

LEMMA SeenPreserved ==
  Base /\ HistoryInv /\ TargetInv /\ OwnInv /\ SignInv /\ SeenInv /\ [Next]_vars => SeenInv'
<1> SUFFICES ASSUME Base, HistoryInv, TargetInv, OwnInv, SignInv, SeenInv, [Next]_vars,
                    NEW r \in Runs, Exists(r)', Whole(r)'
             PROVE  \A q \in line'[r] : sig'[q] # NoSig => state'[r].seen[sig'[q]] >= 1
  BY DEF SeenInv, SeenBy
<1>1. TypeOK /\ CallInv /\ StageInv /\ RunInv /\ AgreeKept
  BY AgreeStays DEF Base
<1>3. Exists(r) /\ \A c \in Callers : call'[c].new # r
  BY NotNew
<1>4. /\ line'[r] = line[r] /\ line[r] \subseteq Runs /\ r \in line[r] /\ r \in settled'
      /\ \A q \in line[r] : q # r => q \in settled /\ sig'[q] = sig[q]
      /\ r \in settled => sig'[r] = sig[r]
      /\ (\A c \in Callers : call[c].new # r) => r \in settled
  BY <1>3, WholeBefore
<1> USE ChainAssumption, NoStateAssumption
<1>5. CASE \A c \in Callers : call[c].new # r
  <2>1. Whole(r) /\ \A q \in line[r] : sig'[q] = sig[q]
    BY <1>4, <1>5 DEF Whole
  <2>2. Agree(state'[r], state[r])
    BY <1>1, <1>4, <1>5 DEF AgreeKept, RunInv
  <2> QED
    BY <1>3, <1>4, <1>5, <2>1, <2>2 DEF SeenInv, SeenBy, Agree
<1>6. ASSUME NEW c \in Callers, call[c].new = r
      PROVE  \A q \in line'[r] : sig'[q] # NoSig => state'[r].seen[sig'[q]] >= 1
  <2>1. Leaves(c)
    BY <1>3, <1>6, Leaving
  <2>2. call[c].pc \in Working /\ call[c].own \in State /\ call[c].kind = how[r]
    BY <1>1, <1>6 DEF CallInv
  <2>3. sig \in [Runs -> Sigs \cup {NoSig}]
    BY <1>1 DEF TypeOK
  <2>4. ASSUME call[c].kind # "delegate"
        PROVE  line[r] = {r} \cup line[call[c].target] /\ SeenBy(call[c].own.seen, call[c].target)
               /\ r \notin line[call[c].target]
    <3>1. line[r] = {r} \cup line[parent[r]] /\ r \notin line[parent[r]]
      BY <2>2, <2>4, <1>3 DEF HistoryInv, Exists
    <3>2. call[c].target = parent[r]
      BY <1>1, <1>6, <2>2 DEF CallInv
    <3>3. Whole(call[c].target)
      BY <1>4, <3>1, <3>2 DEF Whole
    <3> QED
      BY <1>6, <2>2, <2>4, <3>3, Inherits
  <2>5. CASE CallStops(c)
    <3>1. r \notin settled /\ settled' = settled
      BY <1>1, <1>6, <2>2, <2>5 DEF CallStops, files, StageInv
    <3> QED
      BY <1>4, <3>1
  <2>6. CASE PrepareBlocked(c)
    <3>1. state'[r].seen = call[c].own.seen /\ sig' = sig /\ state[r] = NoState
      BY <1>1, <1>6, <2>6, BlockedState
         DEF PrepareBlocked, StageInv, Unwritten, Unlaunched
    <3>2. sig[r] = NoSig
      BY <3>1 DEF SignInv
    <3>3. CASE call[c].kind = "delegate"
      <4>1. line[r] = {r}
        BY <2>2, <3>3 DEF HistoryInv
      <4> QED
        BY <1>4, <3>1, <3>2, <4>1
    <3>4. CASE call[c].kind # "delegate"
      BY <1>4, <2>4, <3>1, <3>2, <3>4 DEF SeenBy
    <3> QED
      BY <3>3, <3>4
  <2>7. CASE FinalizeText(c) /\ call[c].kind = "delegate"
    <3>1. line[r] = {r} /\ state' = state /\ sig' = sig /\ call[c].pc = "finalizing"
      BY <2>2, <2>7 DEF FinalizeText, HistoryInv
    <3>2. sig[r] # NoSig => state[r].seen[sig[r]] = 1
      BY <1>6, <2>3, <3>1 DEF SignInv, One
    <3> QED
      BY <1>4, <3>1, <3>2
  <2>8. CASE WriteBack(c) \/ \E q \in Runs : Escalate(c, q)
    <3>1. /\ call[c].pc \in {"rewriting", "escalating"} /\ call[c].kind # "delegate"
          /\ state'[r].seen = call[c].copy.seen /\ sig' = sig
      BY <1>6, <2>8, LeftState
    <3>2. \A x \in Sigs : /\ call[c].own.seen[x] \in Nat
                          /\ call[c].copy.seen[x] = call[c].own.seen[x] + One(r, x)
      BY <1>6, <2>2, <3>1 DEF SignInv, State
    <3>3. \A q \in line[r] : sig[q] # NoSig => call[c].copy.seen[sig[q]] >= 1
      <4> SUFFICES ASSUME NEW q \in line[r], sig[q] # NoSig
                   PROVE  call[c].copy.seen[sig[q]] >= 1
        OBVIOUS
      <4>1. sig[q] \in Sigs
        BY <1>4, <2>3
      <4>2. q = r \/ call[c].own.seen[sig[q]] >= 1
        BY <2>4, <3>1 DEF SeenBy
      <4> QED
        BY <3>2, <4>1, <4>2 DEF One
    <3> QED
      BY <1>4, <3>1, <3>3
  <2> QED
    BY <2>1, <2>5, <2>6, <2>7, <2>8 DEF Leaves
<1> QED
  BY <1>5, <1>6

(* A state that says escalated has an escalation in or after its history,  *)
(* if the calls of that history came through.                              *)
FlagInv ==
  /\ \A r \in Runs :
       state[r] \in State /\ state[r].escalated /\ Whole(r) => Escalated(r)
  /\ \A c \in Callers :
       call[c].pc = "rewriting" /\ call[c].copy.escalated /\ Whole(call[c].target) =>
         Escalated(call[c].new)

LEMMA EscalatedStays ==
  ASSUME Base, [Next]_vars, NEW r \in Runs, Exists(r), Escalated(r)
  PROVE  Escalated(r)'
<1>1. LineageKept /\ TypeOK /\ TypeOK'
  BY LineageStays, BasePreserved DEF Base
<1>2. PICK q \in line[r], x \in Runs : parent[x] = q /\ how[x] = "escalation"
  BY DEF Escalated, Children
<1>3. line'[r] = line[r] /\ parent'[x] = q /\ how'[x] = "escalation"
  BY <1>1, <1>2 DEF LineageKept, Exists
<1> QED
  BY <1>2, <1>3 DEF Escalated, Children

(* The escalation a step starts counts for the run it escalates.           *)
LEMMA EscalateEscalates ==
  ASSUME Base, NEW c \in Callers, NEW x \in Runs, Escalate(c, x), NEW r \in Runs, call[c].new = r
  PROVE  Escalated(r)'
<1>1. TypeOK /\ Exists(r) /\ r \in line[r]
  BY DEF Base, Escalate, CallInv, RunInv, Working, Finished, Exists
<1>2. Continued(c, x, "escalation", r)
  BY NewRuns
<1>3. line'[r] = line[r] /\ parent'[x] = r /\ how'[x] = "escalation"
  BY <1>1, <1>2 DEF Continued, TypeOK
<1> QED
  BY <1>1, <1>3 DEF Escalated, Children

(* What a call merged stays what it will write.                            *)
LEMMA Rewriting ==
  ASSUME Base, [Next]_vars, NEW d \in Callers, call'[d].pc = "rewriting"
  PROVE  call'[d] = call[d] \/ ReadBack(d)
<1>1. TypeOK
  BY DEF Base
<1>2. ASSUME NEW c \in Callers, OthersKeep(c), call'[c].pc # "rewriting" PROVE call'[d] = call[d]
  BY <1>2 DEF OthersKeep
<1>3. ASSUME NEW c \in Callers, NEW r \in Runs, Delegate(c, r) \/ StartDismissal(c, r)
      PROVE  call'[d] = call[d]
  BY <1>1, <1>2, <1>3, BeginEffects DEF Begins
<1>4. ASSUME NEW c \in Callers, NEW r \in Runs, Escalate(c, r) PROVE call'[d] = call[d]
  BY <1>1, <1>2, <1>4, BeginEffects DEF Begins
<1>5. ASSUME NEW c \in Callers, NEW r \in Runs, Resume(c, r) PROVE call'[d] = call[d]
  BY <1>1, <1>2, <1>5, ResumeEffect DEF Begins
<1>6. ASSUME NEW c \in Callers, NEW r \in Runs, NEW kind \in Requests, Peek(c, r, kind)
      PROVE  call'[d] = call[d]
  <2>1. \E pc \in {"locking", "reading"} : Begins(c, pc, kind, r, NoState, NoRun)
    BY <1>1, <1>6, BeginEffects
  <2> QED
    BY <1>2, <2>1 DEF Begins
<1>7. ASSUME NEW c \in Callers,
             TakeLock(c) \/ RefuseResume(c) \/ CallStops(c) \/ PrepareBlocked(c) \/ WriteBack(c)
             \/ Launch(c) \/ ReserveRevival(c) \/ MarkRevivedState(c) \/ MarkRevivedFile(c)
             \/ FinalizeState(c) \/ FinalizeText(c) \/ WriteEscalated(c) \/ DismissState(c)
             \/ DismissMarker(c)
      PROVE  call'[d] = call[d]
  <2>1. Stops(c) \/ \E pc \in {"reading", "marking_state", "marking_file", "executing",
                               "finalizing", "merging", "escalating",
                               "dismiss_marking"} : GoesOn(c, pc)
    BY <1>1, <1>7, MoveEffects, TakeLockEffect, EscalatedEffect DEF Keeps
  <2> QED
    BY <1>2, <2>1 DEF Stops, GoesOn
<1>8. ASSUME NEW c \in Callers, ReadBack(c) PROVE call'[d] = call[d] \/ ReadBack(d)
  BY <1>1, <1>8, ReadBackEffect DEF GoesOn, OthersKeep
<1>9. ASSUME NEW r \in Runs, ResetPasses(r) \/ Discard(r) PROVE call'[d] = call[d]
  BY <1>9 DEF ResetPasses, Discard
<1> QED
  BY <1>3, <1>4, <1>5, <1>6, <1>7, <1>8, <1>9 DEF Next, CallStep, vars

LEMMA MergedFlag ==
  ASSUME NEW c \in Callers, state[call[c].new] \in State
  PROVE  /\ call[c].kind \in Continuations => Merged(c).escalated = call[c].own.escalated
         /\ call[c].kind \notin Continuations \cup {"escalation"} =>
              Merged(c).escalated = state[call[c].new].escalated
<1> DEFINE st == state[call[c].new]
           flag == CASE call[c].kind \in Continuations -> call[c].own.escalated
                     [] call[c].kind = "escalation"    -> TRUE
                     [] OTHER                          -> st.escalated
           seen == Plus(call[c].own.seen, st.seen)
<1>1. call[c].kind \in Continuations => flag = call[c].own.escalated
  BY DEF Continuations, Replies
<1>2. call[c].kind \notin Continuations \cup {"escalation"} => flag = st.escalated
  OBVIOUS
<1>3. Merged(c) = [st EXCEPT !.seen = seen, !.escalated = flag]
  BY DEF Merged
<1> HIDE DEF flag, seen
<1>4. Merged(c).escalated = flag
  BY <1>3 DEF State
<1> QED
  BY <1>1, <1>2, <1>4

LEMMA FlagPreserved ==
  Base /\ HistoryInv /\ TargetInv /\ OwnInv /\ SignInv /\ FlagInv /\ [Next]_vars => FlagInv'
<1> SUFFICES ASSUME Base, HistoryInv, TargetInv, OwnInv, SignInv, FlagInv, [Next]_vars
             PROVE  FlagInv'
  OBVIOUS
<1>1. TypeOK /\ CallInv /\ StageInv /\ RunInv /\ SettledInv /\ AgreeKept
  BY AgreeStays DEF Base
<1> USE ChainAssumption, NoStateAssumption
<1>2. ASSUME NEW r \in Runs, state'[r] \in State, state'[r].escalated, Whole(r)'
      PROVE  Escalated(r)'
  <2>1. Exists(r)' /\ Exists(r) /\ \A c \in Callers : call'[c].new # r
    <3>1. RunInv'
      BY BasePreserved DEF Base
    <3>2. Exists(r)'
      BY <1>2, <3>1 DEF RunInv
    <3> QED
      BY <1>2, <3>2, NotNew
  <2>2. /\ \A q \in line[r] : q # r => q \in settled
        /\ (\A c \in Callers : call[c].new # r) => r \in settled
        /\ r \in settled' /\ line[r] \subseteq Runs
    BY <1>2, <2>1, WholeBefore
  <2>3. CASE \A c \in Callers : call[c].new # r
    <3>1. Whole(r) /\ state[r] \in State
      BY <1>1, <2>2, <2>3 DEF Whole, RunInv
    <3>2. state[r].escalated
      BY <1>1, <1>2, <2>3, <3>1 DEF AgreeKept, Agree
    <3>3. Escalated(r)
      BY <3>1, <3>2 DEF FlagInv
    <3> QED
      BY <2>1, <3>3, EscalatedStays
  <2>4. ASSUME NEW c \in Callers, call[c].new = r PROVE Escalated(r)'
    <3>1. Leaves(c) /\ call[c].pc \in Working
      BY <1>1, <2>1, <2>4, Leaving DEF CallInv
    <3>2. ~CallStops(c)
      BY <1>1, <2>2, <2>4, <3>1 DEF CallStops, files, StageInv
    <3>3. ~PrepareBlocked(c)
      BY <1>2, <2>4, BlockedState
    <3>4. ~FinalizeText(c)
      BY <1>2, <2>4 DEF FinalizeText, SignInv
    <3>5. ASSUME NEW q \in Runs, Escalate(c, q) PROVE Escalated(r)'
      BY <2>4, <3>5, EscalateEscalates
    <3>6. CASE WriteBack(c)
      <4>1. /\ state'[r] = call[c].copy /\ call[c].pc = "rewriting"
            /\ call[c].kind = how[r] /\ call[c].target = parent[r]
            /\ call[c].kind \notin {"none", "delegate"}
        BY <1>1, <2>4, <3>6 DEF WriteBack, TypeOK, CallInv, Working, Finished
      <4>2. line[r] = {r} \cup line[parent[r]] /\ r \notin line[parent[r]]
        BY <4>1 DEF HistoryInv
      <4>3. Whole(call[c].target)
        BY <2>2, <4>1, <4>2 DEF Whole
      <4>4. Escalated(r)
        BY <1>2, <2>4, <4>1, <4>3 DEF FlagInv
      <4> QED
        BY <2>1, <4>4, EscalatedStays
    <3> QED
      BY <3>1, <3>2, <3>3, <3>4, <3>5, <3>6 DEF Leaves
  <2> QED
    BY <2>3, <2>4
<1>3. ASSUME NEW d \in Callers, NEW r \in Runs, call'[d].new = r, call'[d].pc = "rewriting",
             call'[d].copy.escalated, line'[call'[d].target] \subseteq settled'
      PROVE  Escalated(r)'
  <2>0. /\ call[d].new = r /\ call'[d].target = call[d].target /\ call[d].pc \in {"rewriting", "merging"}
    BY <1>1, <1>3, Rewriting, ReadBackEffect DEF GoesOn, ReadBack
  <2>1. /\ call[d].own \in State /\ state[r] \in State /\ call[d].kind = how[r]
        /\ call[d].target = parent[r] /\ call[d].kind \notin {"none", "delegate"} /\ Exists(r)
    BY <1>1, <2>0 DEF CallInv, StageInv, Working, Unwritten, Unlaunched, Finished, Exists
  <2>2. parent[r] \in Runs /\ line[r] = {r} \cup line[parent[r]] /\ Exists(parent[r])
    BY <2>1 DEF HistoryInv
  <2>3. Whole(parent[r])
    <3>1. \A c \in Callers : call[c].new # parent[r]
      BY <2>1, <2>2 DEF TargetInv
    <3>2. line'[parent[r]] \subseteq settled'
      BY <1>3, <2>0, <2>1
    <3>3. PICK p \in Runs : p = parent[r]
      BY <2>2
    <3>4. Whole(p)'
      BY <3>2, <3>3 DEF Whole
    <3>5. Whole(p)
      BY <2>2, <3>1, <3>3, <3>4, WholeBefore DEF Whole
    <3> QED
      BY <3>3, <3>5
  <2>4. CASE call'[d] = call[d]
    <3>1. Escalated(r)
      BY <1>3, <2>0, <2>1, <2>3, <2>4 DEF FlagInv
    <3> QED
      BY <2>1, <3>1, EscalatedStays
  <2>5. CASE ReadBack(d)
    <3>1. call[d].new = r /\ call[d].pc = "merging" /\ Merged(d).escalated
      BY <1>1, <1>3, <2>5, ReadBackEffect DEF GoesOn, ReadBack
    <3>2. parent[r] \in line[parent[r]]
      BY <1>1, <2>2 DEF RunInv
    <3>3. CASE call[d].kind \in Continuations
      <4>1. call[d].own.escalated
        BY <2>1, <3>1, <3>3, MergedFlag
      <4>2. state[parent[r]] \in State /\ state[parent[r]].escalated
        BY <1>1, <2>1, <3>1, <4>1 DEF OwnInv, Agree, SettledInv, Working, Finished
      <4>3. Escalated(parent[r])
        BY <2>2, <2>3, <4>2 DEF FlagInv
      <4>4. Escalated(r)
        BY <2>2, <4>3 DEF Escalated
      <4> QED
        BY <2>1, <4>4, EscalatedStays
    <3>4. CASE call[d].kind = "escalation"
      <4>1. Escalated(r)
        BY <2>1, <2>2, <3>2, <3>4 DEF Escalated, Children
      <4> QED
        BY <2>1, <4>1, EscalatedStays
    <3>5. CASE call[d].kind \notin Continuations \cup {"escalation"}
      BY <2>1, <3>1, <3>5, MergedFlag DEF SignInv
    <3> QED
      BY <3>3, <3>4, <3>5
  <2> QED
    BY <1>3, <2>4, <2>5, Rewriting
<1>4. \A d \in Callers : call'[d].pc = "rewriting" => call'[d].new \in Runs
  <2>1. CallInv'
    BY BasePreserved DEF Base
  <2> QED
    BY <2>1 DEF CallInv, Working, Finished
<1> QED
  BY <1>2, <1>3, <1>4 DEF FlagInv, Whole

DueInv ==
  \A r \in Runs :
    /\ Whole(r) /\ how[r] = "retry" /\ state[r].outcome = "failed"
    /\ \E q \in line[r] \ {r} : sig[q] = sig[r] /\ sig[q] # NoSig
    => Escalated(r)

LEMMA DuePreserved ==
  Base /\ HistoryInv /\ TargetInv /\ OwnInv /\ SignInv /\ SeenInv /\ FlagInv /\ DueInv
    /\ [Next]_vars => DueInv'
<1> SUFFICES ASSUME Base, HistoryInv, TargetInv, OwnInv, SignInv, SeenInv, FlagInv, DueInv,
                    [Next]_vars, NEW r \in Runs, Whole(r)', how'[r] = "retry",
                    state'[r].outcome = "failed",
                    NEW q \in line'[r], q # r, sig'[q] = sig'[r], sig'[q] # NoSig
             PROVE  Escalated(r)'
  BY DEF DueInv
<1>1. TypeOK /\ CallInv /\ StageInv /\ RunInv /\ StateKept /\ LineageKept
  BY StateStays, LineageStays DEF Base
<1>3. Exists(r) /\ \A c \in Callers : call'[c].new # r
  BY NotNew DEF Exists
<1>4. /\ line'[r] = line[r] /\ r \in settled' /\ r \in line[r] /\ how[r] = "retry"
      /\ \A x \in line[r] : x # r => x \in settled /\ sig'[x] = sig[x]
      /\ r \in settled => sig'[r] = sig[r]
      /\ (\A c \in Callers : call[c].new # r) => r \in settled
  BY <1>1, <1>3, WholeBefore DEF LineageKept
<1> USE ChainAssumption, NoStateAssumption
<1>5. CASE \A c \in Callers : call[c].new # r
  <2>1. Whole(r) /\ sig[q] = sig[r] /\ sig[q] # NoSig
    BY <1>4, <1>5 DEF Whole
  <2>2. state[r].outcome = "failed"
    BY <1>1, <1>4, <1>5 DEF StateKept, Settled, RunInv
  <2> QED
    BY <1>3, <1>4, <1>5, <2>1, <2>2, EscalatedStays DEF DueInv
<1>6. ASSUME NEW c \in Callers, call[c].new = r PROVE Escalated(r)'
  <2>1. Leaves(c) /\ call[c].kind = "retry" /\ call[c].pc \in Working
    BY <1>1, <1>3, <1>4, <1>6, Leaving DEF CallInv
  <2>2. ~CallStops(c)
    BY <1>1, <1>4, <1>6, <2>1 DEF CallStops, files, StageInv
  <2>3. ~PrepareBlocked(c)
    BY <1>6, BlockedState
  <2>4. ASSUME NEW x \in Runs, Escalate(c, x) PROVE Escalated(r)'
    BY <1>6, <2>4, EscalateEscalates
  <2>5. CASE WriteBack(c)
    <3> DEFINE p == call[c].target
    <3>1. /\ call[c].pc = "rewriting" /\ sig' = sig
          /\ ~EscalationIsDue(c) /\ state'[r] = call[c].copy
      BY <1>1, <1>6, <2>5 DEF WriteBack, TypeOK
    <3>2. /\ p = parent[r] /\ line[r] = {r} \cup line[parent[r]] /\ p \in Runs
          /\ r \notin line[parent[r]] /\ call[c].own \in State
      BY <1>1, <1>4, <1>6, <2>1 DEF CallInv, HistoryInv
    <3>3. Whole(p)
      BY <1>4, <3>2 DEF Whole
    <3>4. SeenBy(call[c].own.seen, p)
      BY <2>1, <3>3, Inherits
    <3>5. sig[r] \in Sigs /\ sig[q] = sig[r] /\ q \in line[p]
      BY <1>1, <1>4, <3>1, <3>2 DEF TypeOK
    <3>6. /\ call[c].own.seen[sig[r]] \in Nat /\ call[c].own.seen[sig[r]] >= 1
          /\ call[c].copy.seen[sig[r]] = call[c].own.seen[sig[r]] + 1
      BY <1>6, <3>1, <3>2, <3>4, <3>5 DEF SeenBy, SignInv, One, State
    <3>7. call[c].own.escalated
      BY <1>6, <2>1, <3>1, <3>5, <3>6 DEF EscalationIsDue
    <3>8. state[p] \in State /\ state[p].escalated
      BY <2>1, <3>7 DEF Base, SettledInv, OwnInv, Agree
    <3>9. Escalated(p)
      BY <3>2, <3>3, <3>8 DEF FlagInv
    <3>10. Escalated(r)
      BY <3>2, <3>9 DEF Escalated
    <3> QED
      BY <1>3, <3>10, EscalatedStays
  <2> QED
    BY <2>1, <2>2, <2>3, <2>4, <2>5 DEF Leaves
<1> QED
  BY <1>5, <1>6

(* A run called twice in vain is escalated, if the calls of its history    *)
(* came through and runs are named when their call has returned.           *)
THEOREM EscalationTheorem == Nameable = "returned" => (Spec => []EscalationDue)
<1> DEFINE Inv == /\ Base /\ HistoryInv /\ TargetInv /\ OwnInv
                  /\ SignInv /\ SeenInv /\ FlagInv /\ DueInv
<1>1. Init => Inv
  <2> SUFFICES ASSUME Init PROVE Inv
    OBVIOUS
  <2>1. Base /\ HistoryInv
    BY InitBase DEF Init, HistoryInv
  <2>2. TargetInv /\ OwnInv /\ SignInv
    BY ChainAssumption DEF Init, Idle, TargetInv, OwnInv, SignInv, Exists, Working, Unwritten,
       Unlaunched, Finished
  <2>3. SeenInv /\ FlagInv /\ DueInv
    BY NoStateAssumption DEF Init, Idle, SeenInv, FlagInv, DueInv, Exists
  <2> QED
    BY <2>1, <2>2, <2>3
<1>2. Nameable = "returned" /\ Inv /\ [Next]_vars => Inv'
  BY BasePreserved, HistoryPreserved, TargetPreserved, OwnPreserved, SignPreserved, SeenPreserved,
     FlagPreserved, DuePreserved
<1>3. Inv => EscalationDue
  BY DEF Base, TypeOK, DueInv, EscalationDue, Whole
<1>4. Nameable = "returned" => (Nameable = "returned")'
  OBVIOUS
<1> QED
  BY <1>1, <1>2, <1>3, <1>4, PTL DEF Spec
===============================================================================
