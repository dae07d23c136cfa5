------------------------------ MODULE Outcome -------------------------------
(***************************************************************************)
(* How the harness decides what a run was worth: the executor leaves a log *)
(* of events (events.jsonl), a final message and an exit code;             *)
(* parse_events (summarize.py) reads the log line by line, and             *)
(* finalize_run (runner.py) turns all of it into the status of the run,    *)
(* the category of a block and the reset time a revival waits for.         *)
(*                                                                         *)
(* The executor may die after any event.  The lines are read in the order  *)
(* in which they were printed, so the model reads each as it is printed.   *)
(* Beside what the code computes (evidence) it keeps what the log says of  *)
(* it (truth), defined over the whole log; the log is then forgotten.      *)
(*                                                                         *)
(* A text is its class under the patterns RATE_LIMIT and AUTH_FAILURE; the *)
(* names of checks and files match neither.  A command is the check it     *)
(* matches (command_matches_check) or one that restores tracked files.     *)
(* An error without a text ("empty") is one parse_events leaves out.       *)
(* Left out: texts no decision depends on, changes of a write run, and the *)
(* commit and integration that follow (Worktrees).                         *)
(***************************************************************************)
EXTENDS Naturals, FiniteSets, FiniteSetsExt, Sequences

CONSTANTS
  Checks,       \* commands a task file may declare as its checks
  Resets,       \* reset times of usage limits, as numbers
  FinalErrors,  \* classes of the error of the final message
  StderrTexts,  \* classes of the executor's stderr
  MaxEvents     \* events of a log: a bound

Texts == {"plain", "limit", "auth"}

ASSUME OutcomeAssumption ==
  /\ IsFiniteSet(Checks) /\ "revert" \notin Checks
  /\ IsFiniteSet(Resets) /\ Resets \subseteq Nat \ {0}
  /\ FinalErrors \cup StderrTexts \subseteq Texts \cup {"none"}
  /\ MaxEvents \in Nat

Statuses   == {"success", "failed", "blocked", "partial", "discussion"}
Categories == {"none", "rate_limit", "authentication", "executor_reported"}
NoReset    == 0
Unknown    == 2   \* the exit code of a command that has none
Never      == 3   \* of a command that was never executed

VARIABLES
  harness,   \* which executor runs: "codex" or "claude"
  stage,     \* "running", "parsed", "decided"
  log,       \* events.jsonl
  parsed,    \* what parse_events has made of it
  evidence,  \* what parse_events, _check_results, _self_reversions return
  truth,     \* what the log says, by definition
  input,     \* the final message, the exit code and the run's setting
  outcome    \* status, category, reset time and notice of summary.json

vars == <<harness, stage, log, parsed, evidence, truth, input, outcome>>

-----------------------------------------------------------------------------
(* Events.  A Codex turn starts, fails or completes; an error within it    *)
(* may carry a reset time.  Claude reports limits and results.             *)

Event(kind, text, code, reset) ==
  [kind |-> kind, text |-> text, code |-> code, reset |-> reset]
Command(command, exit) == [kind |-> "command", command |-> command, exit |-> exit]
Denied(command)        == [kind |-> "denied", command |-> command, exit |-> 1]
Garbled == Event("garbled", "plain", "none", NoReset)

CodexEvents ==
  {Garbled}
    \cup {Event(k, "none", "none", NoReset) :
            k \in {"turn.started", "turn.completed"}}
    \cup {Event(k, t, "none", NoReset) :
            k \in {"turn.failed", "error"}, t \in Texts \cup {"empty"}}
    \cup {Event(k, "limit", "none", r) : k \in {"turn.failed", "error"}, r \in Resets}
    \cup {Command(c, x) : c \in Checks \cup {"revert"}, x \in {0, 1, Unknown}}

ClaudeEvents ==
  {Garbled}
    \cup {Event("result", t, "none", NoReset) : t \in Texts \cup {"none", "empty"}}
    \cup {Event("result", t, c, NoReset) :
            t \in {"plain", "empty"}, c \in {"rate_limit", "authentication"}}
    \cup {Event("api_retry", "none", c, NoReset) : c \in {"rate_limit", "authentication"}}
    \cup {Event("rate_limit_event", "none", "rate_limit", r) : r \in Resets \cup {NoReset}}
    \cup {Event("rate_limit_event", "none", "overage_allowed", NoReset)}
    \cup {Command(c, x) : c \in Checks \cup {"revert"}, x \in {0, 1}}
    \cup {Denied(c) : c \in Checks \cup {"revert"}}

Events == IF harness = "codex" THEN CodexEvents ELSE ClaudeEvents

IsCommand(e)  == e.kind \in {"command", "denied"}
(* Mutant: only a failed turn ends one. *)
EndsTurn(e)   == e.kind = "turn.failed"
StartsTurn(e) == e.kind \in {"turn.started", "turn.failed"}
IsError(e)    == e.text \in Texts

-----------------------------------------------------------------------------
(* parse_events: one line of the log after the other.  An error is known   *)
(* by its line; of the executions of a command that the policy did not     *)
(* deny only the last one counts.                                          *)

NothingParsed ==
  [errors |-> {}, turn |-> {}, recovered |-> {}, resets |-> {},
   category |-> "none", notice |-> "none",
   last |-> [c \in Checks \cup {"revert"} |-> Never], reversions |-> {}]

(* Mutant: the first category stays. *)
FirstCategory(category, e) ==
  IF category = "none" /\ e.code # "overage_allowed" THEN e.code ELSE category

(* A rate limit always wins; an authentication error only counts first.    *)
NextCategory(category, e) ==
  IF e.code = "rate_limit" \/ (e.code = "authentication" /\ category = "none")
  THEN e.code ELSE category

SelfReversion(e) == e.command = "revert" /\ e.exit \in {0, Unknown}

ReadCommand(p, e, n) ==
  IF e.kind = "denied" THEN p
  ELSE [p EXCEPT !.last[e.command] = e.exit,
                 !.reversions = @ \cup IF SelfReversion(e) THEN {n} ELSE {}]

ReadEvent(p, e, n) ==
  LET turn == IF StartsTurn(e) THEN {} ELSE p.turn
  IN [p EXCEPT
        !.category  = NextCategory(@, e),
        !.notice    = IF e.code = "overage_allowed" THEN e.code ELSE @,
        !.errors    = @ \cup IF IsError(e) THEN {[line |-> n, text |-> e.text]} ELSE {},
        !.turn      = CASE e.kind = "error"          -> turn \cup {n}
                        [] e.kind = "turn.completed" -> {}
                        [] OTHER                     -> turn,
        !.recovered = @ \cup IF e.kind = "turn.completed" THEN turn ELSE {},
        !.resets    = @ \cup IF e.reset # NoReset THEN {[line |-> n, at |-> e.reset]}
                             ELSE {}]

ReadLine(p, e, n) == IF IsCommand(e) THEN ReadCommand(p, e, n) ELSE ReadEvent(p, e, n)

Latest(times) == IF times = {} THEN NoReset ELSE Max(times)

(* Mutant: a limit counts even when the executor recovered from it. *)
AnyReset(p) == Latest({c.at : c \in p.resets})

StandingReset(p) ==
  Latest({c.at : c \in {d \in p.resets : d.line \notin p.recovered}})

StandingErrors(p) == {x \in p.errors : x.line \notin p.recovered}

(* What finalize_run takes from the parsed log.                            *)
LastThree(errors) ==
  {x \in errors : Cardinality({y \in errors : y.line > x.line}) < 3}

CheckResult(p, c) ==
  CASE p.last[c] = 0                   -> "passed"
    [] p.last[c] \in {Never, Unknown} -> "not_run"
    [] OTHER                           -> "failed"

Evidence(p) ==
  [check    |-> [c \in Checks |-> CheckResult(p, c)],
   reverted |-> p.reversions # {},
   failed   |-> StandingErrors(p) # {},
   texts    |-> {x.text : x \in LastThree(StandingErrors(p))},
   category |-> p.category, notice |-> p.notice, reset |-> StandingReset(p)]

-----------------------------------------------------------------------------
(* The same questions asked of the log as a whole.                         *)

Ran(l, i, c) == l[i].kind = "command" /\ l[i].command = c

Passed(l, c) ==
  \E i \in DOMAIN l : /\ Ran(l, i, c) /\ l[i].exit = 0
                      /\ \A j \in DOMAIN l : Ran(l, j, c) => j <= i

Recovered(l, i) ==
  /\ l[i].kind = "error"
  /\ \E j \in DOMAIN l : /\ i < j /\ l[j].kind = "turn.completed"
                         /\ \A k \in i..j : l[k].kind \notin {"turn.started", "turn.failed"}

Standing(l) == {i \in DOMAIN l : ~IsCommand(l[i]) /\ ~Recovered(l, i)}

Truth(l) ==
  [passed     |-> {c \in Checks : Passed(l, c)},
   reverted   |-> \E i \in DOMAIN l : Ran(l, i, "revert") /\ l[i].exit # 1,
   unresolved |-> \E i \in Standing(l) : IsError(l[i]),
   codes      |-> {l[i].code : i \in Standing(l)},
   reset      |-> Latest({l[i].reset : i \in Standing(l)} \ {NoReset})]

-----------------------------------------------------------------------------
(* finalize_run: the status, rule after rule.                              *)

(* A run's setting: a role that writes, or one that reads and whose        *)
(* worktree changed all the same, and the checks in which Git fails; a     *)
(* role that reads is not checked for self-reversions.                     *)
GitChecks == {"self_reversion_check", "diff_check"}

Settings ==
  {s \in [write : BOOLEAN, changed : BOOLEAN, gitFails : SUBSET GitChecks] :
     IF s.write THEN ~s.changed ELSE s.gitFails \subseteq {"diff_check"}}

Finals ==
  [status : (Statuses \ {"discussion"}) \cup {"invalid", "absent"},
   points : {FALSE}, error : FinalErrors]
    \cup [status : {"discussion"}, points : BOOLEAN, error : FinalErrors]

(* Without a declared check a test, implementation or debug task cannot be *)
(* verified (kind is "verifiable"); the kind matters only then.            *)
Tasks ==
  {t \in [checks : SUBSET Checks, verifiable : BOOLEAN] :
     t.checks # {} => t.verifiable}

Inputs == [setting : Settings, final : Finals, task : Tasks, exit : {0, 1},
           stderr : StderrTexts]

(* Mutant: an unknown status of the final message is passed on. *)
ReportedAsIs(in, ev) ==
  IF in.final.status # "absent" THEN in.final.status
  ELSE IF in.exit = 0 /\ ~ev.failed THEN "success" ELSE "failed"

Reported(in, ev) ==
  CASE in.final.status = "invalid" -> "failed"
    [] in.final.status = "absent"  ->
         IF in.exit = 0 /\ ~ev.failed THEN "success" ELSE "failed"
    [] in.final.status = "discussion" /\ ~in.final.points -> "failed"
    [] OTHER                       -> in.final.status

Reverted(in, ev) ==
  in.setting.write /\ "self_reversion_check" \notin in.setting.gitFails /\ ev.reverted

(* Only a success is ever lowered here.                                    *)
Verified(in, ev) ==
  LET failed == \E c \in in.task.checks : ev.check[c] = "failed"
      unrun  == \E c \in in.task.checks : ev.check[c] = "not_run"
      absent == in.task.checks = {} /\ in.task.verifiable
  IN IF Reported(in, ev) # "success" THEN Reported(in, ev)
     ELSE IF in.exit # 0 \/ ev.failed \/ failed THEN "failed"
     ELSE IF unrun \/ absent \/ Reverted(in, ev) THEN "partial"
     ELSE "success"

(* Mutant: stderr is searched whatever the status is. *)
EveryText(in, ev) ==
  {in.stderr} \cup IF in.final.error # "none" THEN {in.final.error} ELSE ev.texts

(* The texts the patterns are matched against: the error of the final      *)
(* message, or else the last errors of the log, or else stderr; and stderr *)
(* again unless the run succeeded.                                         *)
ErrorTexts(in, ev) ==
  LET said == IF in.final.error # "none" THEN {in.final.error} ELSE ev.texts
  IN IF Verified(in, ev) = "success" THEN said ELSE said \cup {in.stderr}

Completed(in) == in.exit = 0 /\ in.final.status = "success"

(* The category of a block; "none" when the run is not blocked.  The first *)
(* rule that applies counts.                                               *)
BlockCategory(in, ev) ==
  IF ev.category # "none" THEN ev.category
  ELSE IF ev.notice = "overage_allowed"
       THEN IF Completed(in) THEN "none" ELSE "rate_limit"
  ELSE IF "limit" \in ErrorTexts(in, ev) THEN "rate_limit"
  ELSE IF "auth" \in ErrorTexts(in, ev) THEN "authentication"
  ELSE IF Verified(in, ev) = "blocked" THEN "executor_reported"
  ELSE "none"

(* A role that may not write and whose worktree changed has failed; without *)
(* a diff nothing has changed.                                             *)
ReadOnlyViolated(in) ==
  ~in.setting.write /\ in.setting.changed /\ "diff_check" \notin in.setting.gitFails

(* Mutant: the violation of a reader also replaces a block. *)
FinalStatusReader(in, ev, category) ==
  IF ReadOnlyViolated(in) THEN "failed"
  ELSE IF category \in {"rate_limit", "authentication"} THEN "blocked"
  ELSE Verified(in, ev)

FinalStatus(in, ev, category) ==
  LET status == IF category \in {"rate_limit", "authentication"}
                THEN "blocked" ELSE Verified(in, ev)
  IN IF ReadOnlyViolated(in) /\ status # "blocked" THEN "failed" ELSE status

Decision(in, ev) ==
  LET category == BlockCategory(in, ev)
      status   == FinalStatus(in, ev, category)
  IN [status   |-> status,
      category |-> category,
      reset    |-> IF status = "blocked" /\ category = "rate_limit"
                   THEN ev.reset ELSE NoReset,
      unavailable |-> in.setting.gitFails]

-----------------------------------------------------------------------------
Init ==
  /\ harness \in {"codex", "claude"}
  /\ stage = "running" /\ log = <<>> /\ parsed = NothingParsed
  /\ evidence = <<>> /\ truth = <<>> /\ input = <<>> /\ outcome = <<>>

(* The executor prints an event; parse_events reads its line.              *)
Emit ==
  /\ stage = "running" /\ Len(log) < MaxEvents
  /\ \E e \in Events : /\ log' = Append(log, e)
                       /\ parsed' = ReadLine(parsed, e, Len(log) + 1)
  /\ UNCHANGED <<harness, stage, evidence, truth, input, outcome>>

(* The executor has ended, and its log has been read.                      *)
Parse ==
  /\ stage = "running" /\ stage' = "parsed"
  /\ evidence' = Evidence(parsed) /\ truth' = Truth(log)
  /\ log' = <<>> /\ parsed' = NothingParsed
  /\ UNCHANGED <<harness, input, outcome>>

(* finalize_run decides.                                                   *)
Decide ==
  /\ stage = "parsed" /\ stage' = "decided"
  /\ \E in \in Inputs : input' = in /\ outcome' = Decision(in, evidence)
  /\ UNCHANGED <<harness, log, parsed, evidence, truth>>

Next == Emit \/ Parse \/ Decide

Spec == Init /\ [][Next]_vars

-----------------------------------------------------------------------------
(* The shape of the variables once a run is decided.                       *)
TypeOK ==
  /\ harness \in {"codex", "claude"} /\ stage \in {"running", "parsed", "decided"}
  /\ log \in Seq(Events) /\ Len(log) <= MaxEvents
  /\ stage = "decided" =>
       /\ input \in Inputs
       /\ outcome \in [status : Statuses, category : Categories,
                       reset : Resets \cup {NoReset}, unavailable : SUBSET GitChecks]

(* What has to be true of a log, a message and a task for a success, as    *)
(* far as the summary does not call a check unavailable.                   *)
Deserved ==
  /\ input.final.status \in {"absent", "success"} /\ input.exit = 0
  /\ ~truth.unresolved
  /\ input.task.checks \subseteq truth.passed
  /\ input.task.checks = {} => ~input.task.verifiable
  /\ input.setting.write /\ truth.reverted => "self_reversion_check" \in outcome.unavailable
  /\ input.setting.changed => "diff_check" \in outcome.unavailable
  /\ truth.codes \cap {"rate_limit", "authentication"} = {}

(* A run is a success only when it deserves it: every declared check       *)
(* passed when it ran last and no error of the log that says anything      *)
(* stands; and nothing was restored behind the harness's back and a reader *)
(* changed nothing, unless Git could not tell and the summary says so      *)
(* (finalize_run over parse_events and _check_results).                    *)
SuccessIsVerified ==
  stage = "decided" /\ outcome.status = "success" => Deserved

(* Conversely, a deserved success is not turned into anything else by what *)
(* the executor wrote to stderr, by an error it recovered from or by       *)
(* overage in use, unless its own final message names a limit.             *)
DeservedSucceeds ==
  /\ stage = "decided" /\ Deserved
  /\ input.final.error \in {"none", "plain"}
  /\ "overage_allowed" \in truth.codes => input.final.status = "success"
  => outcome.status = "success" /\ outcome.category = "none"

(* A usage limit the executor reports as such ends the run as blocked by   *)
(* it, whatever else happened before, after or in the final message: the   *)
(* revival of the run depends on it.                                       *)
LimitWins ==
  stage = "decided" /\ "rate_limit" \in truth.codes =>
    outcome.status = "blocked" /\ outcome.category = "rate_limit"

(* A run is blocked exactly when a category of block is recorded with it:  *)
(* retry, cleanup and revival look at BLOCKED and at the status alike.     *)
BlockedHasCategory ==
  stage = "decided" => (outcome.status = "blocked" <=> outcome.category # "none")

(* A revival waits for the latest reset time of the limits that stand,     *)
(* never for one of an error the executor has recovered from, and only a   *)
(* run blocked by a usage limit has a reset time.                          *)
ResetIsStanding ==
  stage = "decided" =>
    outcome.reset = IF outcome.category = "rate_limit" THEN truth.reset ELSE NoReset
=============================================================================
