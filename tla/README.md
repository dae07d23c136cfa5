# A formal model of cross-harness

cross-harness lets a Claude orchestrator delegate tasks to Codex or Claude
executors.  Every delegation is a *run*: a directory under `runtime_root/runs`
whose files are all that its processes share.  There is no server: each command
(`delegate`, `retry`, `reply`, `wait`, `adopt`, `discard`, `commit`, `cleanup`,
hooks) is a process of its own, and what keeps them apart is a handful of
`flock`s, the pid in `supervisor.pid`, marker files, and the order in which
files are written.  That order is what this project models, checks and proves.

## 1. Inventory

Paths are relative to `src/src/cross_harness/`.

| Component | State | Operations | Interacts with |
|---|---|---|---|
| Capacity and supervision (`runner.py` 170-264, 2282-2340, 2613-2979) | `role`, `execution.json`, `supervisor.pid`, `summary.json`, `summary.txt`, `BLOCKED`, `INTERRUPTED`, `ORPHANED`; `locks/parallel.lock`; processes | `delegate`, `start_detached_delegate`, `wait_for_run` | executors, maintenance, every command that starts a run |
| Retry, reply, escalation, revival (2982-3185, 3649-4041) | `state.json` (attempts, signatures, escalated, rounds, revival flags), `revival.json`, `REVIVED`, `REVIVAL_DISMISSED`, `revival.lock` | `retry`, `reply`, `revival`, `dismiss_revival` | capacity, worktrees |
| Root worktree, isolation, delegated changes (309-431, 763-1040) | root `flock`, `ISOLATED_WORKTREE`, `delegated-changes.json`, `baseline.json` | `_prepare_write_execution`, `_prepare_retry_execution` | Git, retry, integration |
| Auto-commit, integration, adopt, discard, commit (446-760, 1084-2047) | branch, index, isolated HEAD; `integration` record; `ADOPTED`, `INTEGRATED`, `DISCARDED` | `_auto_commit_run`, `_integrate_isolated_unit`, `adopt`, `discard`, `commit_run` | Git, worktrees |
| Outcome of a run (3188-3646, `summarize.py`) | `summary.json`, `state.json` | `finalize_run`, `finalize_blocked_run` | all of the above |
| Maintenance (`maintenance.py`) | run directories, worktrees, inbox | `cleanup` | revival, supervision |
| Hooks (`hooks.py`) | hook logs, session reminders | PreToolUse, SessionStart, Stop | trust, project state, revival |
| Watch (`watch.py`) | offsets into growing files | `watch` | run directories |
| Authentication (`auth.py`) | cached verdicts | `verify_*` | delegate, retry |
| Project state, trust (`project.py`, `trust.py`) | `project-state.json`, trust records | setup, remove, trust | hooks |
| Installer, self-update (`installer.py`, `selfupdate.py`) | manifest, installed files, backups | install, uninstall, self-update | configuration |
| Configuration, task files, paths, CLI, file helpers | static | load, validate, format | all |
| Doctor, benchmark, experiment, inventory | none | sequential reports | all |

What is hard in this program:

* **check and act across processes**: the capacity check, the future-reset
  guard, the liveness check of `adopt` and `discard`, cleanup's age check;
* **crashes**: a wrapper can be killed anywhere; its locks vanish, its files
  and its executor stay;
* **order of writes**: role before pid, `summary.json` before `summary.txt`,
  state flag before marker file;
* **unlocked read-modify-write** of `state.json`, `project-state.json` and
  `delegated-changes.json`;
* **long sequences of legal calls**: retries, replies, revivals and escalations
  compose along one chain and fork from one run;
* **partial failure** of multi-step Git operations and of the installer.

Properties that make each component correct: reservations never exceed either
limit and come back; a waiter is told a final truth; a usage-limited run is
revived by one successor at a time and never after dismissal; retry, round and
revival budgets hold along every chain; one writer per worktree; integration is
all or nothing; an installation can be rolled back.

## 2. Plan

| # | Module | Subject | State |
|---|---|---|---|
| 1 | `CapacityPool` | abstract pool of slots | done |
| 2 | `Delegation` | processes, files and mutex; refines 1 | done |
| 3 | `DelegationProofs` | invariants and the refinement of 2 | done |
| 4 | `RunChain` | retry, reply, escalation, revival, dismissal | done |
| 5 | `RunChainProofs`, `RunChainBudgetProofs`, `RunChainRevivalProofs` | invariants of 4 | done |
| 6 | `Worktrees` | root lock, isolated worktrees, commits, integration, adopt, discard, commit | done |
| 7 | `WorktreesProofs`, `WorktreesContentProofs` | control of 6; what is in its commits and files, and where they end up | done |
| 8 | `Outcome` | reading the event log, deciding the status | done |
| 9 | `OutcomeProofs` | the log read line by line against the log as a whole | done |
| 10 | `Installation` | manifest, backups, partial failure, self-update | done |
| 11 | `InstallationProofs` | invariants of 10 | done |

The modules meet at what one takes from another as an outcome.  `RunChain`
takes a reservation and its refusal, which `CapacityPool` promises, and the
status, category and reset time of a run, which `Outcome` promises
(`LimitWins`, `BlockedHasCategory`, `ResetIsStanding`).  `Worktrees` takes the
status of an executor from `Outcome` and the tree of retries from `RunChain`.

Every safety invariant and action property that a passing run checks is now a
theorem.  What could be proved beyond them: which writers may overlap without
`~Overlap` being needed (an adoption of a run nobody retries, say).

What the proofs leave to TLC, everywhere: liveness and what rests on ENABLED
(`SlotsComeBack`, `StartersAnswered`, `DetachedWaitAnswered`), which the prover
cannot do, and the three expected violations.

## 3. Capacity and supervision

### `CapacityPool`

One variable, `slot`: the role for which a run holds a slot.  `Take` needs room
under both limits (`_parallel_limit_error`: the global one always, the role's
own for every role but the orchestrator's), `Give` returns a slot.

### `Delegation`

| Variable | In the program |
|---|---|
| `role`, `files` | `--role`, and the marker files of each run directory |
| `starter` | program counter of `start_detached_delegate`, or of `delegate` up to the reservation |
| `sup` | program counter of the supervisor: the detached process, or the foreground process after its reservation |
| `executor` | the executor process, in a session of its own |
| `mutex`, `visited`, `counted` | `locks/parallel.lock` and the scan of its holder |
| `waiter` | program counter of `wait_for_run` |
| `kills` | number of SIGKILLs so far |

The scan takes one action per run directory, so other processes move between
its steps.  The four reads that decide whether one directory counts are one
action: each of them can only turn from "counts" to "does not count", so an
interleaving between them over-counts at most.  The retention filter of the
scan is left out: a run lives no longer than its role's timeout.  `wait` reads
the summary, the pid file, the process and the summary again in four actions.
`WriteText` stands for the second `summary.json`, `state.json`, `BLOCKED` and
`summary.txt`; only the last two matter to another process.  `cleanup` marks a
directory only when its starter is done, since it must be an hour old; its
removal of old runs (`maintenance.py:47-72`) is left out.

`StarterRaises` and `SupervisorRaises` are exceptions at any stage, besides the
kills: the `finally` of a foreground run gives its reservation back, and an
executor that was not stopped goes on.  In `RecordFails` the supervisor dies at
once; the code sends SIGTERM and waits a second.

### Runs

| Run | Instance | Shows |
|---|---|---|
| `kills` | 1 detached and 2 foreground runs, 2 roles, 2 slots, 1 per role, 1 kill | both limits hold through every interleaving, counted runs have their role, ORPHANED runs are abandoned |
| `outcome` | 1 detached, 1 foreground, 1 slot, both awaited, 1 kill, fairness | the reservations refine `CapacityPool`, slots come back, starters are answered, waiters learn the final truth |
| `unrecorded` | 2 detached, kill allowed between Popen and the pid | expected violation: a supervisor no scan can count |

Three runs are enough for the capacity race: it needs one run that holds a
slot, one that checks and one that records; each limit is reached while the
other has room.  One kill covers a starter or a supervisor that dies anywhere
beside two processes that go on.  `KillWhileSpawning` is
FALSE in the passing runs: what a kill in that window does is the finding that
`unrecorded` shows, and every other property assumes it away.  Deadlock is not
checked: when every run has ended, the system really stops.

**Fairness.**  Weak fairness per run for the starter (the mutex wait is bounded
by five seconds), for the supervisor (the executor is bounded by
`timeout_seconds`) and for the polling of `wait`.  Nothing is fair about
starting, killing, cleaning up, or a caller's giving up.

### Proofs (`DelegationProofs`)

For every number of runs, every set of roles and all limits:

* `TypeCorrect`, `RoleTheorem`: types, and the role of every counted run;
* `CapacityTheorem`, `OrphanTheorem`: under `~KillWhileSpawning`;
* `PoolTheorem`: `Spec => ImplementsPool`, kills of any kind included.

The limits are not inductive.  `IInv` adds `StageInv` (what each stage of a run
says of its files and processes; the holder of the mutex is the only run in the
critical section), `ScanInv` (a run already visited and not counted is not
active: it can only become active through the mutex) and `RoomInv` (between the
check and the record there is room for one more).  `ActiveGrowsOnRecord` is the
heart: only the write of `supervisor.pid` makes a run active.  For executors
instead of reservations, `SeenInv` says that a supervisor at work is recorded or
about to be; a kill in the spawning window breaks exactly this conjunct.  The
assumptions are those of `DelegationAssumption`: finitely many runs, positive
limits.  `DiedTheorem` follows the waiter (`WaiterInv`): it has seen the pid, then found
the process gone, then read the summary again, and a supervisor that is gone
writes nothing more.  Liveness is model-checked only.

## 4. Retry, reply, escalation and revival

### `RunChain`

| Variable | In the program |
|---|---|
| `state` | `state.json` of each run: outcome, attempts, rounds, signature counts, escalated, consecutive revivals, `revived_by`, `revival_dismissed` |
| `complete` | `summary.json` and `summary.txt` are there |
| `marks`, `revived` | markers `REVIVAL_DISMISSED`, `DISCARDED`; the content of `REVIVED` |
| `context`, `reset` | `revival.json`; the reset time as seen from now |
| `parent`, `how` | the run a run continues, and by which call |
| `line` | that run, the one it continues, and so on, and the run itself (history) |
| `launched` | its executor was started (history) |
| `sig` | `failure_signature` of its summary |
| `settled` | runs whose call came through (history, no action reads it) |
| `call` | program counter, lock and local copies of each process |

A call goes through `Peek` (the first read of `state.json`, which decides about
`revival.lock`), `TakeLock`, `Resume` (the second read and every refusal, then
the new directory), preparation, `MarkRevivedState` and `MarkRevivedFile` for a
revival, execution, `FinalizeState`, `FinalizeText`, and then `ReadBack` and
`WriteBack` or `WriteEscalated` and `Escalate`: the rewriting of `state.json`
that merges the predecessor's signatures, and the directory of the escalation.  The reads and the writes of `state.json` are actions
of their own, since nothing locks them against each other.  Checks that only
read follow the read they belong to.  Signatures are counted, not listed.

`CallStops` ends a call between any two of its steps: an exception, an
interruption or a kill.  After `FinalizeText` that is also how an interrupted
integration looks: `finalize_run` keeps the interruption until `summary.txt` is
written and raises it again (`runner.py:3643-3645`), so the run is complete and
its call never gets to the merge.

`Nameable` says which runs a caller acts on: runs whose own command has
returned, or runs with a `state.json`, which are still being rewritten.

### Runs

| Run | Instance | Shows |
|---|---|---|
| `chain` | 1 caller, 4 runs, 2 retries, calls that stop in four stages | budgets, escalation and the stop after two revivals along every history |
| `rounds` | 1 caller, 4 runs, 1 round | replies stop, with revivals in between and decisions of the user |
| `race` | 2 callers, 4 runs, calls that stop anywhere, runs named once returned | a limited run is executed to the end once |
| `marks` | 2 callers, 3 runs, calls that stop anywhere, discards, runs named while being rewritten | interrupted revivals consume nothing; dismissals last |
| `stale` | 2 callers, 3 runs, runs named while being rewritten | expected violation: a repeated failure is not escalated |

Four runs are one delegation and three continuations: one more than any budget
allows, and a limited run, an interrupted revival of it, a finished one and
another.  `RevivedOnce` fails when callers name runs that are still being
rewritten (`Nameable = "recorded"` and one run more): `WriteBack` restores the
interrupted `revived_by` of a continuation, which takes precedence over the
marker.  It needs a process suspended between its read and its write for as long
as a revival takes, so `race` assumes callers that wait for the command to
return; the theorem covers any number of runs.  `StopsIn` bounds the stages in
which a call may stop, not how often it does: everywhere with two callers; with
one (`chain`, `rounds`) at one stage for each kind of trace a stopped call
leaves, since nobody looks at the call itself.  `chain` leaves out the run with a
`state.json` and no `summary.txt`, which `rounds`, `race` and `marks` have and
which the theorems about the budgets and the escalation include.
`Requests` leaves out the calls that every run of an instance would refuse.
Callers and signatures are symmetric, and no liveness is checked.  Deadlock is
not checked: all runs are used up in the end.

`RevivalStops` and the budgets speak of runs whose executor was started, since
blocked runs carry the numbers of their predecessor without spending them.
`EscalationDue` asks that the call of every run of the history came through
(`settled`).  A call that stops before it has merged its signatures, killed or
with an interrupted integration, leaves a run that may be retried and whose
state has lost its history: the code then does not escalate when the failure
comes back, although the runbook promises it without reservation
(`docs/runbook.md:191-193`).  The property does not claim otherwise.

Three things the model shows of the code are not claims of a run.  The budget
is one of a history: a failed run that is retried again and again starts a new
history each time.  An escalation is launched without the future-reset guard.
And `discard` accepts a run whose retry command is still merging, which an
escalation can then continue.

### Proofs

For every number of runs and callers, every limit, and calls that stop at any
stage (`StopsIn` is arbitrary):

* `RunChainProofs`: `TypeCorrect`.  `Base` says what a call holds at each stage
  (`CallInv`), that no two calls write one new run (`StageInv`), that a run that
  does not exist is named nowhere (`RunInv`), and that what `state.json` says of
  outcome, attempts and rounds is said once: all copies that calls hold agree
  with it (`SettledInv`).  `HistoryInv` says of `line` that it is the line of the
  parent and the run itself, which takes the place of an induction over the
  length of a chain.
* `RunChainBudgetProofs`: `RetriesTheorem`, `RoundsTheorem`, `RevivalTheorem`.
  The numbers in `state.json` are the numbers of links in the history
  (`BudgetInv`), so the refusals that read the numbers bound the links.  A fork
  or a stopped call cannot spoil that, since every first `state.json` continues the
  count of the target that `Resume` has read.
  `EscalationTheorem`: `Nameable = "returned" => (Spec => []EscalationDue)`.  The
  signatures in the `state.json` of a run whose whole history is settled count
  every failure along it.  Without the hypothesis the property is false (`stale`).
* `RunChainRevivalProofs`: `DismissalTheorem` and `InterruptionTheorem` for all
  callers, `RevivedOnceTheorem` for `Nameable = "returned"`.  `LockInv`: whoever
  revives has the lock, since whoever read without it read a run that is not
  limited and will not become so.  `HeirInv`: every `revivedBy`, in `state.json`,
  in a marker or in a copy, names a revival of that very run, and a complete one
  was launched.  `OnceInv`: the executed successor of a run is the one that its
  `state.json` names, and a revival is under way only for a run that has none.
  That is what a rewriting of `state.json` by the run's own call would break, and
  why the theorem has its hypothesis.

The probe of `revival.lock` in `_run_revived`, which holds the lock for a
moment, is left out: it can only cause a refusal.  `auto_revival` is enabled,
every run has a thread to resume, and there is one harness.

## 5. Worktrees, commits and integration

### `Worktrees`

| Variable | In the program |
|---|---|
| `policy`, `auto` | `dirty_worktree_policy`, `auto_commit` |
| `root` | the launching worktree: current branch, commits of each branch, files, and whether a cherry-pick is unfinished |
| `lock` | owner of the root `flock` |
| `trusted` | `delegated-changes.json` |
| `wt` | the isolated worktree a run created: commits, base, files |
| `run[r].phase` | what the process that works on run `r` does next |
| `run[r].before`, `.delta`, `.chain` | `baseline.json`, `diff_summary`, `chain-paths.json` |
| `run[r].marker`, `.sha`, `.resolved` | `ISOLATED_WORKTREE`, `UNIT_COMMIT`; `INTEGRATED`, `ADOPTED` or `DISCARDED` |
| `run[r].status`, `.commit`, `.integ` | `status`, `commit.status`, `integration.status` of `summary.json` |
| `cmd` | `adopt`, `discard` or `commit`, at work on one run |

What the properties have to tell apart is who wrote a file.  So the content of
a path is a tag: the run that wrote it, the user, a repair of the user's in an
isolated worktree, or the remains of a conflict.  A commit is its author and
the tree it leaves.

A run takes `Delegate` or `Retry` (the guards of the policy, and its worktree),
`Begin` (work branch, baseline), `Execute`, `Finish` (delta, delegated changes,
commit), and, when isolated, `AcquireRoot`, `Pick` and `Cleanup`, then `Save`.
Commands of the operator take a finished run through the same phases; `adopt`
of uncommitted work copies one file per action.  `Pick` is one action: it holds
the root lock, and what the user may do meanwhile is excluded below; its
failures, with and without a successful roll-back, are alternatives of it, and
a crash may leave it refused, unfinished or done.  What a sequence of cherry-picks yields is given
in closed form: after commit `k` of the worktree the root has the worktree's
content where the commits up to `k` have changed it and its own elsewhere
(`PickedTree`), a commit does not apply when the root has something else there
than the commit found or leaves (`Conflicts`), or when it changes nothing, and
the pick stops at the first one that does not apply (`Stuck`, `InConflict`).

In these places the model is coarser than the code:

* an executor ends with its wrapper (in the code it has a session of its own
  and may go on writing after a crash);
* the operator gives one command at a time (`cmd`), though the code would let
  commands on different runs overlap;
* a worktree is removed and its runs are marked in one step (two at
  `runner.py:1487`, `1908` and `1940`), and `state.json` and `summary.txt` are
  written in one (`3609-3642`);
* a cherry-pick that a failing roll-back or a crash leaves unfinished has stopped
  at its first commit, never with some of several commits already picked;
* the user repairs nothing in a worktree that a command copies or removes;
* an unavailable diff, `cleanup_errors` and a committed unit with a reason, at
  the end of `finalize_run`, are left out.

A pick that is interrupted leaves the integration `pending`, one that fails
`failed`; both are alternatives of `Pick`.

| Run | Instance | Shows |
|---|---|---|
| `worktrees` | 2 runs, 2 paths, every policy, auto-commit on and off, 1 action of the user, 1 fault | who wrote what: commits, worktrees, the user's files |
| `shared` | the same without user and faults, with `Overlap` | expected violation: a live run loses its worktree |

Two runs are a run and its retry, or two competitors for the root, and two
paths are one that collides and one that does not; a second run is also what
makes a conflict, since both may change one path from one base.  `Overlap`
FALSE assumes that nobody retries, adopts or discards in a worktree while a
retry that has taken it over has not yet written `supervisor.pid`.  Nothing in
the code ensures that, which is what `shared` shows; all other properties are
about what is left once it is granted.

### Proofs (`WorktreesProofs`, `WorktreesContentProofs`)

For every number of runs, paths, edits and faults:

* `TypeCorrect`: `TypeInv` adds to the types that a process that works in a
  worktree knows which (`AtInv`), so that every tree and log an action reads is
  one.
* `ProtectedTheorem` and `UnfinishedTheorem`, by `RootAdvances`: a step that makes
  a commit or changes the branch goes through `EnsureWorkBranch`, or is an
  automatic commit, which looks at the branch again; and none of them starts in
  an unfinished root.
* `KeptTheorem`: a worktree that exists is still named by the marker of the run
  it was made for (`StartInv`), and that run is only marked resolved by the step
  that has removed the worktree.
* `LiveTheorem`: `~Overlap => (Spec => []LiveWorktree)`.  `ControlInv` ties phases,
  the command at work and the root lock together (`CommandInv`, `LockInv`);
  `SharingInv` is what `~Overlap` adds: of the processes that are at work, two
  never have the same worktree.  Without the hypothesis `shared` refutes it.

The second module adds who wrote what (`ContentInv`), again from `~Overlap`:
were two processes at work in one worktree, each would commit the other's files.

* `ChainInv`: what a run found dirty at a path of its chain, and whatever it
  changed, is content of its line, the runs of its retry chain.  A retry that
  gives up the paths that differ from its predecessor's record (`Owned`) keeps
  this.
* `WorkInv`: what is dirty where a run works is its baseline, then the baseline
  and its own writing.  It holds because nobody else moves that place
  (`PlaceStays`): the root by the lock, a worktree by `SharingInv`.
* `LogInv`, `DirtyInv`: every change in every log belongs to the line of its
  author, and what is dirty in a worktree was written by a run or is a repair.
  For a series of cherry-picks this rests on the closed form `PickedTree`: what
  a commit changes on the new base it changed on the old one (`PickedChange`).
* `CopyInv`, `TrustInv`: `adopt` copies such dirty files, onto files the user did
  not edit, and only they and the work of runs enter the record of delegated
  changes.

They yield `OwnedTheorem` (`CommitsAreOwned`), `EditTheorem` (`UserEditKept`)
and `DelegatedTheorem` (`RunsStartOnDelegatedWork`).  `PlaceMoves` is the lemma
they share: the list of everything a step can do to the root and to a worktree.

Where finished work ends up is a third layer, `DeliveryInv`, on top of
`ContentInv` and with the same hypothesis:

* `LineInv`: the earlier runs of a retry chain are over, so nobody else writes in
  the name of a chain, and a run that is still working has nothing integrated.
* `ShaInv`: the commit a record names is in the log of the run's worktree, and
  lies past the base the worktree was made from.
* `IntegInv`: the commits of an integrated run are on a branch, each by its
  author, and a worktree that still exists after that holds nothing else that
  the chain wrote.  This is what makes the removal after `Pick` harmless.
* `CopiedInv`: while `adopt` copies a worktree file by file, every dirty path is
  still to be copied, was copied, or held the same content in the root before.

Two lemmas carry it: logs only grow (`Prefix`, `Bears`), so that what once
reached a branch stays there, and `UnitSteps`, the list of what a step can do to
the part of a record that names commits.  The results are `IntegratedTheorem`
(`IntegratedIsOnBranch`) and `KeepTheorem` (`NothingThrownAway`).

Assumed, as the runbook asks: the user does not edit the root while a run
executes in it or while `adopt` copies.  Left out: the index, ignored and
deleted paths, submodules, repositories without commits, legacy runs without
`ROOT_WORKTREE`, read-only runs, and the escalation at the end of a retry.
Deadlock is not checked: all runs are over in the end.

What the model shows of the code beside its properties: under `isolate` a retry
of a run that was adopted, or worked in the root, works in the root (the
runbook says that under `isolate` every writer is isolated); a process killed
between a cherry-pick and its record leaves a run whose adoption fails, since
its commits change nothing any more; and an edit the user makes between the
dirty check and the baseline is accepted by a later retry as known, though not
committed by it.

## 6. Outcome of a run

### `Outcome`

| Variable | In the program |
|---|---|
| `harness`, `stage`, `log` | which executor runs, how far its run is, `events.jsonl` |
| `parsed` | the local state of `parse_events`: errors, the errors of the current turn, recovered ones, candidates for the reset time, category, notice; the last execution of each check and the self-reversions |
| `evidence` | what `parse_events`, `_check_results` and `_self_reversions` return |
| `truth` | what the log means (history) |
| `input`, `outcome` | final message, exit code, stderr, task and setting; `status`, category, reset time and notice of `summary.json` |

The executor emits events one at a time and may end after any of them; the line
of an event is read as it is emitted (`ReadLine`: one pass, in which an error is
known by its line, and a category may be replaced by later ones), and `Parse`
takes from that what the three functions return.  `Decide` adds any final
message, exit code, stderr, task and setting, and decides as `finalize_run` does:
the first rule that applies wins.  `Truth` is what is meant: a quantified
statement about the whole log (an error is recovered when its own turn completes
after it; a check passed when its last execution that was not denied exited with
zero).  The properties relate the decision of the one to the statement of the
other.

Texts are classes under the two patterns the code searches for; commands are
the check they match, or `revert` for one that restores tracked files.  So the
matching of commands (`command_matches_check`) and of texts is assumed, and the
names of checks and files match neither pattern.  That last assumption hides a
case: a failed check whose name matches (`test_rate_limit`) makes the run
"blocked: rate_limit" (`runner.py:3395`).

Two things the code does not see are in the inputs.  An error event, a failed
turn or an `is_error` result may have an empty text, which `parse_events` drops
(`summarize.py:354`, `358`); `truth.unresolved` counts only errors that say
something.  Git may not answer (`gitFails`): without a diff a reader's changes go
unseen (`runner.py:3414-3418`), without the other check restored files do.  The
run may then be a success that nobody verified, and `SuccessIsVerified` asks that
the summary say which check was unavailable.  A `final.json` without a status may
carry an error.

| Run | Instance | Shows |
|---|---|---|
| `decision` | both executors, every log of at most 4 events, 2 checks, 2 reset times, all final messages | success, block and reset time are what the log justifies |

Four events are an error, its recovery or a new turn, another error, and a
command; two checks are one that holds and one that does not; two reset times
have an order.  `DeservedSucceeds` exempts a final message that itself names a
limit, and `LimitWins` speaks of limits with a structured code, since the text
patterns are searched in the last three errors only.

### Proofs (`OutcomeProofs`)

For logs of any length, any finite set of checks and any finite set of reset
times: `TypeCorrect`, `SuccessTheorem`, `DeservedTheorem`, `LimitTheorem`,
`CategoryTheorem`, `ResetTheorem`.  `ReadInv` is the loop invariant of
`parse_events`: after every line, the errors of the turn are those that no later
event has closed, the recovered ones are those whose turn has completed, the
last result of each check is that of its last execution, and the category is
none, an authentication error or a rate limit as the log holds none, no rate
limit or one.  `StageInv` carries what the reading has established to the
decision: `Agrees` says that the evidence is the truth, and the theorems are then
about the rules alone.  Assumed is `OutcomeAssumption`: finite sets.

## 7. Installation

### `Installation`

| Variable | In the program |
|---|---|
| `content` | what is at each managed path: the user's part and the managed part |
| `manifest` | `install-manifest.json`: the repository and a record per path (`before`: the backup; `after`: hash or link) |
| `job` | the command that runs: its repository and mode, the step an install has come to (`at`) with the records made, the items an uninstall has dealt with (`done`) |
| `version` | the files in each repository |
| `original`, `exposed`, `touched` | history: the user's original, paths a failed install wrote unrecorded, paths changed since a command completed |

Paths that are handled alike are one item (all agents, all skills, all hooks of
one repository).  An install takes one action per item,
in the order of the code (`Order`), with the role settings of the agents before
the hooks, then the paths that are no longer managed, one by one, and the
manifest.  It may fail before each (`InstallFails`) and half-way through those
whose old content goes first (`HalfDone`, `Torn`: the runtime, the link, skills
and agents, a marker block, a path being restored), and does where a marker
block is in the way (`MarkerRaises`); the manifest is then untouched and the
written paths stay.  Uninstall has three modes and no handler at all; it may
fail between two paths, or with one removed and its backup not yet in place.
Nobody else changes a path while a command runs; the code takes the hashes of an
update again at its end (`installer.py:946-955`) and would record such a change
as its own.

| Run | Instance | Shows |
|---|---|---|
| `install` | 2 repositories, 2 versions, 1 change of the user, 1 failure | backups stay the originals, updates accept their own work, edits survive, uninstall rolls back |

Two repositories are needed for a hook that is managed no longer, two versions
for a reinstall that changes something.  One failure is enough for each kind of
broken state, since a second command meets it.  The exemptions in the
properties are named: `exposed` paths (a failed first install writes them
without a record, and the next install takes them for originals), the personal
configuration, what a failed command touched (`touched`, in `NoFalseDrift`), and
edits that predate a forced install.  `--dry-run` and
`--purge-runtime` are left out, and a self-update is started at any moment
without a delegation: the code probes the root lock and lets go of it before it
installs.

`EditSurvives` says which edits a command must leave alone (`Guarded`): those
the manifest does not record.  A hash cannot tell an edit that restores exactly
what the manifest recorded, and such an edit is indeed overwritten; a property
that ignored this held at one edit and would fail at two.

### Proofs (`InstallationProofs`)

For every set of repositories and all versions, edits and failures:
`TypeCorrect`, `BackupsAreOriginals`, `NoDriftOfItsOwn`, `GuardedEditsSurvive`,
`UninstallGivesBack`.  `JobInv` says how far the command has come: an install has
records of exactly the items before its step.  `BackupInv` says that what no
manifest and no running install lists is still as the user left it, `HashInv`
that what nobody touched is as the last record says, `PreflightInv` that what the
preflight of an unforced command saw still holds of the items it has yet to come
to, and `RemovalInv` that an uninstall has dealt with what it says.  Together with
the types they are inductive; assumed is `InstallationAssumption` (finitely many
repositories, at least one version).

## 8. Findings

* `unrecorded`: `start_supervisor` promises not to "leave an unrecorded
  supervisor that cannot be counted", and keeps that promise against exceptions
  only.  A starter that is killed between `Popen` and the write of
  `supervisor.pid` leaves one.
* `stale`: a retry is complete before its predecessors' signatures are merged
  into its `state.json`; a retry of it at that moment loses them, and the
  escalation that the runbook promises does not take place.
* `shared`: `_adopt_reject_live_shared_worktree` is to "reject adoption while
  another live run points at the same worktree", and asks for a live
  supervisor.  A retry points at the worktree before it has one; adopt or
  discard at that moment removes the worktree it goes on to execute in.

## 9. Hazards without a property

`PROJECT.json` lists the hazards and the properties that cover them.  These
were met as well and are covered by none:

* a reused pid makes a dead supervisor look alive (`runner.py:2902`; the
  configuration guide documents the conservative count);
* whether a run is limited is read before `revival.lock` is taken, and the probe
  of that lock holds it for a moment (`runner.py:3707`, `3058`);
* the future-reset guard is evaluated when a command starts (`runner.py:3958`);
* `discard` and `adopt` rewrite `state.json` of a whole chain without a lock
  (`runner.py:1443`), and `discard` accepts a run that is still merging
  (`runner.py:3954`);
* an unreadable `delegated-changes.json` is rebuilt from one run
  (`runner.py:388`);
* a limit of Codex that is not among the last three errors is not recognised
  (`runner.py:3375`);
* a forced install takes the hashes of files it does not rewrite
  (`installer.py:954`), and an edited Git hook is no drift (`installer.py:600`);
* a delegation may start while a self-update installs (`selfupdate.py:166`);
* two retries of one isolated run share its worktree, and nothing keeps them
  apart (`runner.py:954`); `Overlap` excludes it;
* a retry whose integration is interrupted loses the signatures of its history
  and with them an escalation (`runner.py:3643`);
* an executor that outlives its wrapper goes on writing (`runner.py:2332`);
* an uninstall that stops after it removed `config.toml` makes every later one
  refuse (`installer.py:1127`).

## 10. Mutants

Definitions introduced by a comment "Mutant:" are faulty variants of the
definition that follows them.  No specification uses them: each run's
properties must fail when the definition is replaced by its mutant.

## 11. Not modelled

Hooks, watch, the authentication cache, project setup and trust: each works on
shell text, on files others write, or on one user's settings, and changes none
of the state above.  The removal of old run directories by `cleanup`: every
module keeps its directories.  The wording of messages, the sandbox profile and
the environment of executors, the matching of command lines, configuration
validation, and the reporting tools, which have no state.
