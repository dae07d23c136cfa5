------------------------------- MODULE RunChain -------------------------------
(***************************************************************************)
(* What becomes of a run after its first outcome (runner.py): retry,       *)
(* reply, escalation, revival after a usage limit, dismissal.              *)
(*                                                                         *)
(* Each call continues one finished run in a new run directory.  The files *)
(* that decide what may continue are state.json, written and rewritten by  *)
(* several processes without a common lock, the markers REVIVED,           *)
(* REVIVAL_DISMISSED and DISCARDED, and revival.lock, held while a         *)
(* usage-limited run is revived.  A call may stop between any two of its   *)
(* writes; its lock goes with it, its files and its executor stay.         *)
(*                                                                         *)
(* One harness, with auto_revival enabled.  Whether preparation and the    *)
(* reservation (module Delegation) succeed is a free choice here.          *)
(* Runs have a thread to resume, and discard's change of a run's directory *)
(* in state.json is left out.                                              *)
(***************************************************************************)
EXTENDS Naturals, FiniteSets

CONSTANTS
  Callers,      \* processes that run delegate, retry, reply or revival --dismiss
  MaxRuns,      \* run directories: a bound of the model
  MaxRoots,     \* of which this many are started by delegate: a bound
  Requests,     \* which of retry, reply and reply_decided they ask for
  Outcomes,     \* how an executor's turn may end
  Sigs, NoSig,  \* normalised failure signatures
  Retries,      \* config["roles"][role]["retries"]
  MaxRounds,    \* config["max_discussion_rounds"]
  Nameable,     \* which runs a caller may name: those whose call "returned",
                \* or those "recorded" in state.json
  Isolated,     \* delegations that work in an isolated worktree
  StopsIn,      \* the stages in which a call may stop early: a bound of the model
  NoRun, NoState

Runs == 1..MaxRuns

OutcomeType == {"success", "failed", "discussion", "limited", "reported", "stopped"}

(* config.py accepts retries in 0..2.                                      *)
ASSUME ChainAssumption ==
  /\ MaxRuns \in Nat \ {0} /\ MaxRoots \in 1..MaxRuns
  /\ Outcomes \subseteq OutcomeType
  /\ Requests \subseteq {"retry", "reply", "reply_decided"}
  /\ IsFiniteSet(Callers) /\ IsFiniteSet(Sigs)
  /\ NoSig \notin Sigs
  /\ Retries \in 0..2
  /\ MaxRounds \in Nat
  /\ Nameable \in {"returned", "recorded"}
  /\ Isolated \subseteq Runs
  /\ NoRun \notin Runs

VARIABLES
  state,     \* state.json of each run, NoState until it is first written
  complete,  \* runs with a finished summary.json and summary.txt
  marks,     \* marker files REVIVAL_DISMISSED and DISCARDED
  revived,   \* the successor named in a REVIVED marker
  context,   \* consecutive_revivals in revival.json, 0 without one
  reset,     \* when the usage limit of a run resets, seen from now
  parent,    \* the run a run continues
  line,      \* the runs it continues, directly or not, and itself
  how,       \* and the call that continues it
  launched,  \* runs whose executor was started
  sig,       \* failure_signature in the summary of a run
  call,      \* what each process is doing
  settled    \* runs whose call came through, for the properties alone: no
             \* action looks at it

lineage == <<parent, line, how>>

vars == <<state, complete, marks, revived, context, reset, lineage, launched, sig, call, settled>>

-------------------------------------------------------------------------------

(* Signature counts; the list in state.json keeps the order as well.       *)
Nothing == [s \in Sigs |-> 0]
Plus(a, b) == [s \in Sigs |-> a[s] + b[s]]

State == [outcome : OutcomeType, attempts : Nat, rounds : Nat, seen : [Sigs -> Nat],
          escalated : BOOLEAN, count : Nat, revivedBy : Runs \cup {NoRun},
          dismissed : BOOLEAN]

Fresh == [outcome |-> "stopped", attempts |-> 0, rounds |-> 0, seen |-> Nothing,
          escalated |-> FALSE, count |-> 0, revivedBy |-> NoRun, dismissed |-> FALSE]

ASSUME NoStateAssumption == NoState \notin State

Kind == {"none", "delegate", "retry", "reply", "reply_decided", "revival", "escalation",
         "dismiss"}

Replies == {"reply", "reply_decided"}
Continuations == Replies \cup {"revival"}

(* The stages in which supervisor.pid names the process of a call.         *)
Reserved == {"marking_state", "marking_file", "executing", "finalizing"}

Pc == {"idle", "locking", "reading", "preparing", "marking_state", "marking_file",
       "executing", "finalizing", "merging", "rewriting", "escalating", "dismissing",
       "dismiss_marking"}

ASSUME StopsAssumption == StopsIn \subseteq Pc \ {"idle"}

(* own: the state the call started from; copy: the state it will write.    *)
Call == [pc : Pc, kind : Kind, target : Runs \cup {NoRun}, lock : BOOLEAN,
         own : State \cup {NoState}, new : Runs \cup {NoRun}, copy : State \cup {NoState}]

Idle == [pc |-> "idle", kind |-> "none", target |-> NoRun, lock |-> FALSE,
         own |-> NoState, new |-> NoRun, copy |-> NoState]

TypeOK ==
  /\ state \in [Runs -> State \cup {NoState}]
  /\ complete \in SUBSET Runs
  /\ marks \in [Runs -> SUBSET {"REVIVAL_DISMISSED", "DISCARDED"}]
  /\ revived \in [Runs -> Runs \cup {NoRun}]
  /\ context \in [Runs -> Nat]
  /\ reset \in [Runs -> {"none", "unknown", "future", "passed"}]
  /\ parent \in [Runs -> Runs \cup {NoRun}]
  /\ line \in [Runs -> SUBSET Runs]
  /\ how \in [Runs -> Kind]
  /\ launched \in SUBSET Runs
  /\ sig \in [Runs -> Sigs \cup {NoSig}]
  /\ call \in [Callers -> Call]
  /\ settled \in SUBSET Runs

-------------------------------------------------------------------------------

Exists(r) == how[r] # "none"

(* The runs that share an ancestor with r.                                 *)
Chain(r) == {q \in Runs : line[q] \cap line[r] # {}}

(* The name _new_run_dir gives out next.                                   *)
IsNext(r) == ~Exists(r) /\ \A q \in 1..(r - 1) : Exists(q)

LockHeld(r) == \E c \in Callers : call[c].lock /\ call[c].target = r

(* Mutant: a revival consumes its predecessor when it starts.              *)
RunRevivedAtStart(r, lockHeld) == state[r].revivedBy # NoRun \/ revived[r] # NoRun

(* _run_revived.  state.json names the successor before the marker does.   *)
RunRevived(r, lockHeld) ==
  LET st == state[r]
      successor == IF st.revivedBy # NoRun THEN st.revivedBy ELSE revived[r]
  IN  /\ successor # NoRun
      /\ successor \in complete \/ (~lockHeld /\ LockHeld(r))

(* Mutant: the marker is not consulted.                                    *)
DismissedByState(r) == state[r].dismissed

Dismissed(r) == state[r].dismissed \/ "REVIVAL_DISMISSED" \in marks[r]

(* _awaiting_revival.                                                      *)
AwaitingRevival(r) ==
  /\ state[r] # NoState
  /\ state[r].outcome = "limited"
  /\ ~Dismissed(r)
  /\ "DISCARDED" \notin marks[r]
  /\ ~RunRevived(r, FALSE)

(* _guard_harness_reset: the account is known to be limited for now.       *)
HarnessLimited ==
  \E r \in complete : reset[r] = "future" /\ AwaitingRevival(r)

(* Mutant: the third consecutive limit stops the chain.                    *)
RevivableThrice(r, lockHeld) ==
  ~RunRevived(r, lockHeld) /\ ~Dismissed(r) /\ state[r].count <= 2 /\ reset[r] = "passed"

(* _revival_refusal finds nothing to object to.                            *)
Revivable(r, lockHeld) ==
  /\ ~RunRevived(r, lockHeld)
  /\ ~Dismissed(r)
  /\ state[r].count < 2
  /\ reset[r] = "passed"

-------------------------------------------------------------------------------

Init ==
  /\ state = [r \in Runs |-> NoState]
  /\ complete = {}
  /\ marks = [r \in Runs |-> {}]
  /\ revived = [r \in Runs |-> NoRun]
  /\ context = [r \in Runs |-> 0]
  /\ reset = [r \in Runs |-> "none"]
  /\ parent = [r \in Runs |-> NoRun]
  /\ line = [r \in Runs |-> {}]
  /\ how = [r \in Runs |-> "none"]
  /\ launched = {}
  /\ sig = [r \in Runs |-> NoSig]
  /\ call = [c \in Callers |-> Idle]
  /\ settled = {}

files == <<state, complete, marks, revived, context, reset, lineage, launched, sig, settled>>

(* A new run directory for the call: it continues target, if that is one.  *)
NewRun(c, r, kind, target) ==
  /\ IsNext(r)
  /\ how' = [how EXCEPT ![r] = kind]
  /\ parent' = [parent EXCEPT ![r] = target]
  /\ line' = [line EXCEPT ![r] = {r} \cup IF target = NoRun THEN {} ELSE line[target]]

Goes(c, pc) == call' = [call EXCEPT ![c].pc = pc]
Ends(c) == call' = [call EXCEPT ![c] = Idle]

(* delegate, up to the new run directory.                                  *)
Delegate(c, r) ==
  /\ call[c].pc = "idle"
  /\ Cardinality({q \in Runs : how[q] = "delegate"}) < MaxRoots
  /\ ~HarnessLimited
  /\ NewRun(c, r, "delegate", NoRun)
  /\ call' = [call EXCEPT ![c] = [Idle EXCEPT !.pc = "preparing", !.kind = "delegate",
                                              !.own = Fresh, !.new = r]]
  /\ UNCHANGED <<state, complete, marks, revived, context, reset, launched, sig, settled>>

(* A caller learns of a run when its command returns, or from the run's    *)
(* directory while that command is still at work, or no longer.            *)
Named(r) ==
  /\ Exists(r)
  /\ Nameable = "returned" => \A c \in Callers : call[c].new # r
  /\ Nameable = "recorded" => state[r] # NoState

(* _resume_run reads the state once to learn whether to take the lock.     *)
Peek(c, r, kind) ==
  /\ call[c].pc = "idle"
  /\ Named(r)
  /\ LET limited == state[r] # NoState /\ state[r].outcome = "limited"
     IN  call' = [call EXCEPT ![c] = [Idle EXCEPT !.kind = kind, !.target = r,
                                        !.pc = IF limited THEN "locking" ELSE "reading"]]
  /\ UNCHANGED files

(* Mutant: a lock that does not exclude.                                   *)
TakeLockShared(c) ==
  /\ call[c].pc = "locking"
  /\ call' = [call EXCEPT ![c].pc = "reading", ![c].lock = TRUE]
  /\ UNCHANGED files

(* revival.lock is not waited for.                                         *)
TakeLock(c) ==
  /\ call[c].pc = "locking"
  /\ IF LockHeld(call[c].target)
       THEN Ends(c)
       ELSE call' = [call EXCEPT ![c].pc = "reading", ![c].lock = TRUE]
  /\ UNCHANGED files

(* _retry_impl reads the state again and decides.                          *)
MayReply(c) ==
  LET st == state[call[c].target]
  IN  /\ st.outcome = "discussion"
      /\ st.rounds < MaxRounds \/ call[c].kind = "reply_decided"
      /\ ~HarnessLimited

(* Mutant: one retry too many.                                             *)
MayRetryLate(c) ==
  LET st == state[call[c].target]
  IN  /\ st.outcome \in {"success", "failed", "reported"}
      /\ ~HarnessLimited
      /\ st.attempts <= Retries + 1

MayRetry(c) ==
  LET st == state[call[c].target]
  IN  /\ st.outcome \in {"success", "failed", "reported"}
      /\ ~HarnessLimited
      /\ st.attempts <= Retries

MayRevive(c) ==
  LET r == call[c].target
  IN  /\ state[r].outcome = "limited"
      /\ Revivable(r, call[c].lock)
      /\ r \in complete

MayResume(c) ==
  /\ state[call[c].target] # NoState
  /\ "DISCARDED" \notin marks[call[c].target]
  /\ IF call[c].kind = "retry" THEN MayRetry(c) \/ MayRevive(c) ELSE MayReply(c)

RefuseResume(c) ==
  /\ call[c].pc = "reading"
  /\ ~MayResume(c)
  /\ Ends(c)
  /\ UNCHANGED files

Resume(c, r) ==
  /\ call[c].pc = "reading"
  /\ MayResume(c)
  /\ LET st == state[call[c].target]
         kind == IF st.outcome = "limited" THEN "revival" ELSE call[c].kind
     IN  /\ NewRun(c, r, kind, call[c].target)
         /\ context' = [context EXCEPT ![r] = IF kind = "revival" THEN st.count + 1 ELSE 0]
         /\ call' = [call EXCEPT ![c].pc = "preparing", ![c].kind = kind, ![c].own = st,
                                 ![c].new = r]
  /\ UNCHANGED <<state, complete, marks, revived, reset, launched, sig, settled>>

(* Mutant: a revival starts the discussion anew.                           *)
RoundsSinceRevival(c) ==
  CASE call[c].kind \in Replies  -> call[c].own.rounds + 1
    [] call[c].kind = "revival" -> 0
    [] OTHER                    -> call[c].own.rounds

Rounds(c) == IF call[c].kind \in Replies THEN call[c].own.rounds + 1 ELSE call[c].own.rounds

(* Preparation or the reservation blocks the new run, which ends the call: *)
(* finalize_blocked_run keeps attempts and signatures.                     *)
PrepareBlocked(c) ==
  /\ call[c].pc = "preparing"
  /\ LET own == call[c].own
     IN  state' = [state EXCEPT ![call[c].new] =
                     [Fresh EXCEPT !.attempts = own.attempts, !.seen = own.seen,
                                   !.rounds = Rounds(c)]]
  /\ complete' = complete \cup {call[c].new}
  /\ settled' = settled \cup {call[c].new}
  /\ Ends(c)
  /\ UNCHANGED <<marks, revived, context, reset, lineage, launched, sig>>

(* The call stops early, at whatever stage: preparation, the executor or   *)
(* finalize_run raises, also an interruption of the integration which it   *)
(* raises again after summary.txt, or the process is killed.  Its lock and *)
(* its reservation go, what it has written stays.                          *)
CallStops(c) ==
  /\ call[c].pc \in StopsIn
  /\ Ends(c)
  /\ UNCHANGED files

(* The capacity is reserved; a revival marks its predecessor first.        *)
Launch(c) ==
  /\ call[c].pc = "preparing"
  /\ call[c].kind # "revival"
  /\ launched' = launched \cup {call[c].new}
  /\ Goes(c, "executing")
  /\ UNCHANGED <<state, complete, marks, revived, context, reset, lineage, sig, settled>>

ReserveRevival(c) ==
  /\ call[c].pc = "preparing"
  /\ call[c].kind = "revival"
  /\ Goes(c, "marking_state")
  /\ UNCHANGED files

(* state.json is written from what was read before the preparation.        *)
MarkRevivedState(c) ==
  /\ call[c].pc = "marking_state"
  /\ state' = [state EXCEPT ![call[c].target] = [call[c].own EXCEPT !.revivedBy = call[c].new]]
  /\ Goes(c, "marking_file")
  /\ UNCHANGED <<complete, marks, revived, context, reset, lineage, launched, sig, settled>>

MarkRevivedFile(c) ==
  /\ call[c].pc = "marking_file"
  /\ revived' = [revived EXCEPT ![call[c].target] = call[c].new]
  /\ launched' = launched \cup {call[c].new}
  /\ Goes(c, "executing")
  /\ UNCHANGED <<state, complete, marks, context, reset, lineage, sig, settled>>

(* finalize_run, up to state.json: attempts counts every turn that does    *)
(* not continue one, and nothing is inherited from the predecessor yet.    *)
FinalizeState(c) ==
  /\ call[c].pc = "executing"
  /\ \E outcome \in Outcomes, s \in Sigs \cup {NoSig} :
       /\ sig' = [sig EXCEPT ![call[c].new] = s]
       /\ state' = [state EXCEPT ![call[c].new] =
            [Fresh EXCEPT
               !.outcome = outcome,
               !.attempts = IF call[c].kind \in Continuations
                              THEN call[c].own.attempts ELSE call[c].own.attempts + 1,
               !.rounds = Rounds(c),
               !.seen = [x \in Sigs |-> IF x = s THEN 1 ELSE 0],
               !.count = IF outcome = "limited" THEN context[call[c].new] ELSE 0]]
       /\ \E when \in IF outcome = "limited" THEN {"unknown", "future"} ELSE {"none"} :
            reset' = [reset EXCEPT ![call[c].new] = when]
  /\ Goes(c, "finalizing")
  /\ UNCHANGED <<complete, marks, revived, context, lineage, launched, settled>>

(* Mutant: the outcome goes to the run that is continued.                  *)
FinalizeTextOfTarget(c) ==
  /\ call[c].pc = "finalizing"
  /\ complete' = complete \cup {call[c].target}
  /\ IF call[c].kind = "delegate" THEN Ends(c) ELSE Goes(c, "merging")
  /\ settled' = IF call[c].kind = "delegate" THEN settled \cup {call[c].new} ELSE settled
  /\ UNCHANGED <<state, marks, revived, context, reset, lineage, launched, sig>>

FinalizeText(c) ==
  /\ call[c].pc = "finalizing"
  /\ complete' = complete \cup {call[c].new}
  /\ IF call[c].kind = "delegate" THEN Ends(c) ELSE Goes(c, "merging")
  /\ settled' = IF call[c].kind = "delegate" THEN settled \cup {call[c].new} ELSE settled
  /\ UNCHANGED <<state, marks, revived, context, reset, lineage, launched, sig>>

(* Mutant: the signatures of the predecessor are forgotten.                *)
ReadBackFresh(c) ==
  /\ call[c].pc = "merging"
  /\ call' = [call EXCEPT ![c].pc = "rewriting", ![c].copy = state[call[c].new]]
  /\ UNCHANGED files

(* The second life of state.json: signatures accumulate, a continuation    *)
(* keeps its predecessor's escalated flag.  Read now, written later.       *)
ReadBack(c) ==
  /\ call[c].pc = "merging"
  /\ LET st == state[call[c].new]
         kind == call[c].kind
     IN  call' = [call EXCEPT ![c].pc = "rewriting",
                    ![c].copy = [st EXCEPT
                       !.seen = Plus(call[c].own.seen, @),
                       !.escalated = CASE kind \in Continuations -> call[c].own.escalated
                                       [] kind = "escalation"    -> TRUE
                                       [] OTHER                  -> @]]
  /\ UNCHANGED files

(* The same failure for the second time, on a chain not yet escalated.     *)
EscalationIsDue(c) ==
  LET s == sig[call[c].new]
  IN  /\ call[c].kind = "retry"
      /\ call[c].copy.outcome = "failed"
      /\ s # NoSig /\ call[c].copy.seen[s] >= 2
      /\ ~call[c].own.escalated

WriteBack(c) ==
  /\ call[c].pc = "rewriting"
  /\ ~EscalationIsDue(c)
  /\ state' = [state EXCEPT ![call[c].new] = call[c].copy]
  /\ settled' = settled \cup {call[c].new}
  /\ Ends(c)
  /\ UNCHANGED <<complete, marks, revived, context, reset, lineage, launched, sig>>

(* The flag is written before there is an escalation.                      *)
WriteEscalated(c) ==
  /\ call[c].pc = "rewriting"
  /\ EscalationIsDue(c)
  /\ LET escalated == [call[c].copy EXCEPT !.escalated = TRUE]
     IN /\ state' = [state EXCEPT ![call[c].new] = escalated]
        /\ call' = [call EXCEPT ![c].pc = "escalating", ![c].copy = escalated]
  /\ UNCHANGED <<complete, marks, revived, context, reset, lineage, launched, sig, settled>>

(* The escalation runs within the same call, with its own directory.       *)
Escalate(c, r) ==
  /\ call[c].pc = "escalating"
  /\ NewRun(c, r, "escalation", call[c].new)
  /\ call' = [call EXCEPT ![c] = [Idle EXCEPT
                !.pc = "preparing", !.kind = "escalation", !.target = call[c].new,
                !.own = call[c].copy, !.new = r]]
  /\ settled' = settled \cup {call[c].new}
  /\ UNCHANGED <<state, complete, marks, revived, context, reset, launched, sig>>

(* dismiss_revival, under the lock of the run.                             *)
StartDismissal(c, r) ==
  /\ call[c].pc = "idle"
  /\ Named(r)
  /\ ~LockHeld(r)
  /\ r \in complete
  /\ state[r].outcome = "limited"
  /\ call' = [call EXCEPT ![c] = [Idle EXCEPT
                !.pc = "dismissing", !.kind = "dismiss", !.target = r, !.lock = TRUE,
                !.copy = [state[r] EXCEPT !.dismissed = TRUE]]]
  /\ UNCHANGED files

DismissState(c) ==
  /\ call[c].pc = "dismissing"
  /\ state' = [state EXCEPT ![call[c].target] = call[c].copy]
  /\ Goes(c, "dismiss_marking")
  /\ UNCHANGED <<complete, marks, revived, context, reset, lineage, launched, sig, settled>>

DismissMarker(c) ==
  /\ call[c].pc = "dismiss_marking"
  /\ marks' = [marks EXCEPT ![call[c].target] = @ \cup {"REVIVAL_DISMISSED"}]
  /\ Ends(c)
  /\ UNCHANGED <<state, complete, revived, context, reset, lineage, launched, sig, settled>>

(* The clock.                                                              *)
ResetPasses(r) ==
  /\ reset[r] = "future"
  /\ reset' = [reset EXCEPT ![r] = "passed"]
  /\ UNCHANGED <<state, complete, marks, revived, context, lineage, launched, sig, call, settled>>

(* discard marks every run of the chain that shares r's worktree.  It sees  *)
(* processes that hold a reservation; of the others, those that have       *)
(* already noted the worktree are marked too.                              *)
Discard(r) ==
  /\ r \in complete
  /\ line[r] \cap Isolated # {}
  /\ "DISCARDED" \notin marks[r]
  /\ ~\E c \in Callers : /\ call[c].new \in Chain(r)
                         /\ call[c].pc \in Reserved
  /\ \E noted \in SUBSET {call[c].new : c \in Callers} :
       marks' = [q \in Runs |-> IF q \in Chain(r) /\ q \in complete \cup noted
                                 THEN marks[q] \cup {"DISCARDED"} ELSE marks[q]]
  /\ UNCHANGED <<state, complete, revived, context, reset, lineage, launched, sig, call, settled>>

CallStep(c) ==
  \/ \E r \in Runs : Resume(c, r) \/ Escalate(c, r)
  \/ TakeLock(c) \/ RefuseResume(c)
  \/ PrepareBlocked(c) \/ CallStops(c) \/ Launch(c) \/ ReserveRevival(c)
  \/ MarkRevivedState(c) \/ MarkRevivedFile(c)
  \/ FinalizeState(c) \/ FinalizeText(c) \/ ReadBack(c) \/ WriteBack(c) \/ WriteEscalated(c)
  \/ DismissState(c) \/ DismissMarker(c)

Next ==
  \/ \E c \in Callers :
       \/ \E r \in Runs : Delegate(c, r) \/ StartDismissal(c, r)
       \/ \E r \in Runs, kind \in Requests : Peek(c, r, kind)
       \/ CallStep(c)
  \/ \E r \in Runs : ResetPasses(r) \/ Discard(r)

Spec == Init /\ [][Next]_vars

-------------------------------------------------------------------------------

Links(r, kinds) == {q \in line[r] : how[q] \in kinds}

Children(r, kinds) == {q \in Runs : parent[q] = r /\ how[q] \in kinds}

(* Along the history of every run whose executor was started there are at  *)
(* most `retries` retries and one escalation, however replies, revivals    *)
(* and other callers come in between (attempts, runner.py:3788, 3941).     *)
PathBudget ==
  \A r \in launched : /\ Cardinality(Links(r, {"retry"})) <= Retries
                       /\ Cardinality(Links(r, {"escalation"})) <= 1

(* Replies without a decision of the user stop at max_discussion_rounds,   *)
(* counted over the whole history, revivals and retries in between         *)
(* included (discussion_rounds, runner.py:3745).                           *)
RoundsRespected ==
  \A r \in launched :
    how[r] = "reply" => Cardinality(Links(r, Replies)) <= MaxRounds

(* No executor is started for a third revival in a row: after two that hit *)
(* the limit again the chain stops (consecutive_revivals, runner.py:2995). *)
RevivalStops ==
  \A r \in launched :
    ~\E p \in Runs, q \in Runs :
        /\ parent[r] = q /\ parent[q] = p
        /\ {how[r], how[q], how[p]} = {"revival"}

(* A limited run is consumed by one revival: however many processes ask,   *)
(* stop or rewrite its state.json, at most one successor of it is         *)
(* executed to the end (_revival_lock, _run_revived).                      *)
RevivedOnce ==
  \A r \in Runs :
    Cardinality(Children(r, {"revival"}) \cap launched \cap complete) <= 1

(* A revival that was interrupted does not use its predecessor up: once    *)
(* nobody holds the lock, a limited run with no finished successor counts  *)
(* as unrevived, whatever the state and the marker say (runner.py:3035).   *)
InterruptedStaysRevivable ==
  \A r \in Runs :
    /\ state[r] # NoState /\ state[r].outcome = "limited"
    /\ ~LockHeld(r)
    /\ RunRevived(r, FALSE)
    => Children(r, {"revival"}) \cap launched \cap complete # {}

(* A dismissed run is never revived afterwards, although a process that    *)
(* rewrites its state.json may lose the flag there (REVIVAL_DISMISSED).    *)
DismissedStays ==
  [][\A r \in Runs : "REVIVAL_DISMISSED" \in marks[r] =>
       Children(r, {"revival"}) \cap launched' \subseteq launched]_vars

Escalated(r) == \E q \in line[r] : Children(q, {"escalation"}) # {}

(* "When the same normalized signature occurs twice, the wrapper performs  *)
(* one escalation" (docs/runbook.md:191): a retry that failed with a       *)
(* signature its history holds already leaves an escalation behind, if     *)
(* the call of every run of that history came through.                     *)
EscalationDue ==
  \A r \in launched :
    /\ line[r] \subseteq settled
    /\ how[r] = "retry" /\ state[r].outcome = "failed"
    /\ \E q \in line[r] \ {r} : sig[q] = sig[r] /\ sig[q] # NoSig
    => Escalated(r)

===============================================================================
