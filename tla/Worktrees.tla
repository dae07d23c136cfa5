----------------------------- MODULE Worktrees ------------------------------
(***************************************************************************)
(* Where write runs work and how their results reach the user's branch     *)
(* (runner.py): the root worktree and its lock, isolated worktrees, the    *)
(* record of delegated changes, automatic commits, integration by          *)
(* cherry-pick, and the commands adopt, discard and commit.                *)
(*                                                                         *)
(* A run prepares, takes its baseline, executes, commits its own paths     *)
(* and, when isolated, integrates its commits under the root lock.  A      *)
(* retry works where its predecessor worked.  The content of a path is     *)
(* tagged with whoever wrote it.  A command of the operator takes a        *)
(* finished run through the same phases again.                             *)
(*                                                                         *)
(* Assumed, as the documentation asks: the user does not edit the root     *)
(* worktree while a run executes in it, nor while adopt copies files.      *)
(* Left out: the index, deleted and ignored paths, repositories without    *)
(* commits, submodules, legacy runs without ROOT_WORKTREE, read-only runs, *)
(* discussion, the escalation at the end of a retry (RunChain), and a diff *)
(* or a cleanup that fails at the end of a run.                            *)
(*                                                                         *)
(* The model is coarser than the code in these places.  An executor ends   *)
(* with its wrapper.  The operator gives one command at a time.  Removing  *)
(* a worktree and marking its runs are one step, and so is writing         *)
(* state.json and summary.txt.  A cherry-pick that stops for good does so  *)
(* at its first commit.  The user repairs no worktree that a command       *)
(* copies or removes.                                                      *)
(***************************************************************************)
EXTENDS Naturals, FiniteSets, Sequences

CONSTANTS
  Runs,       \* delegations and retries
  Paths,      \* paths of the repository
  Policies,   \* dirty_worktree_policy values to consider
  AutoCommit, \* auto_commit values to consider
  MaxEdits,   \* actions of the user in the root worktree: a bound
  MaxFaults,  \* crashes, failing Git commands and refused starts: a bound
  Overlap     \* may a retry and another user of its worktree overlap while
              \* the retry has not announced itself?

ASSUME WorktreesAssumption ==
  /\ IsFiniteSet(Runs) /\ IsFiniteSet(Paths)
  /\ Runs \cap {"none", "free", "base", "user", "fix", "mixed"} = {}
  /\ Policies \subseteq {"stop", "allow", "allow_delegated", "isolate"}
  /\ AutoCommit \subseteq BOOLEAN /\ Overlap \in BOOLEAN
  /\ MaxEdits \in Nat /\ MaxFaults \in Nat

(* "user" is an edit of the user in the root worktree, "fix" one in an     *)
(* isolated worktree, "mixed" a file with conflict markers.                *)
Content == Runs \cup {"base", "user", "fix", "mixed"}
Tree    == [Paths -> Content]
NoRun   == "none"
Free    == "free"
Protected == 1
Changes == UNION {[S -> Content] : S \in SUBSET Paths}
NoChanges == [p \in {} |-> "base"]
NoCommand == [op |-> "none", run |-> NoRun, todo |-> {}, files |-> NoChanges,
              before |-> NoChanges]

VARIABLES
  policy, auto,  \* dirty_worktree_policy and auto_commit of the project
  root,          \* launching worktree: branch, log of each branch, files
  lock,          \* owner of the root lock
  trusted,       \* delegated-changes.json: path -> recorded content
  wt,            \* isolated worktree a run created: log, base, files
  run,           \* run directories and the processes that work on them
  cmd,           \* the operator's command
  edits, faults

vars == <<policy, auto, root, lock, trusted, wt, run, cmd, edits, faults>>

-----------------------------------------------------------------------------
(* A commit is its author and the tree it leaves; a log is the sequence of *)
(* commits since the initial one, and stands for the sha of its head.      *)
Commit == [by : Runs, tree : Tree]
TreeAt(log, k) == IF k = 0 THEN [p \in Paths |-> "base"] ELSE log[k].tree
TreeOf(log) == TreeAt(log, Len(log))

Head1(rt) == rt.heads[rt.branch]
RootLog  == Head1(root)

(* Details of the uncommitted changes: path -> content.                    *)
Details(tree, log) ==
  [p \in {q \in Paths : tree[q] # TreeOf(log)[q]} |-> tree[p]]
RootDetails == Details(root.tree, RootLog)
WtDetails(w) == Details(wt[w].tree, wt[w].log)

Pairs(f) == {<<p, f[p]>> : p \in DOMAIN f}

(* What differs from the baseline, and where a run works.                  *)
Delta(before, now) ==
  [p \in {q \in DOMAIN now : <<q, now[q]>> \notin Pairs(before)} |-> now[p]]
Isolated(r) == run[r].at # NoRun
DetailsAt(r) == IF Isolated(r) THEN WtDetails(run[r].at) ELSE RootDetails

Lost(r) == Isolated(r) /\ ~wt[run[r].at].there

(* The changes a retry may find: those its predecessor recorded.           *)
Recorded(u) == Pairs(run[u].before) \cup Pairs(run[u].delta)

Finalized(r) == run[r].phase = "done" \/ cmd.run = r
Executing == {"running", "worked", "integrating", "picking", "cleanup", "saving"}
Live(r) == run[r].phase \in Executing /\ cmd.run # r
SharedLive(u) == \E v \in Runs \ {u} : run[v].marker = run[u].at /\ Live(v)

(* marker is the file ISOLATED_WORKTREE, at the worktree that a process of  *)
(* the run, or state.json, names; line is history: the runs of the chain.  *)
Unstarted ==
  [phase |-> "new", prev |-> NoRun, marker |-> NoRun, at |-> NoRun, resolved |-> "no",
   before |-> NoChanges, delta |-> NoChanges, chain |-> {}, status |-> "none",
   commit |-> "none", sha |-> <<>>, unit |-> <<>>, integ |-> "none", line |-> {}]
NoWorktree == [there |-> FALSE, log |-> <<>>, base |-> 0, tree |-> TreeOf(<<>>)]

Phases == {"new", "prepared", "running", "worked", "integrating", "picking", "cleanup",
           "saving", "copying", "removing", "done", "dead"}

Run ==
  [phase : Phases, prev : Runs \cup {NoRun}, marker : Runs \cup {NoRun},
   at : Runs \cup {NoRun}, resolved : {"no", "INTEGRATED", "ADOPTED", "DISCARDED"},
   before : Changes, delta : Changes, chain : SUBSET Paths,
   status : {"none", "blocked", "success", "partial", "failed", "limited"},
   commit : {"none", "disabled", "skipped", "failed", "committed"},
   sha : Seq(Commit), unit : Seq(Commit),
   integ : {"none", "pending", "integrated", "conflict", "failed"},
   line : SUBSET Runs]
Worktree == [there : BOOLEAN, log : Seq(Commit), base : Nat, tree : Tree]
Root == [branch : Nat \ {0}, heads : Seq(Seq(Commit)), tree : Tree, unfinished : BOOLEAN]

TypeOK ==
  /\ policy \in Policies /\ auto \in AutoCommit
  /\ root \in Root /\ root.branch \in DOMAIN root.heads
  /\ lock \in Runs \cup {Free}
  /\ trusted \in Changes
  /\ wt \in [Runs -> Worktree]
  /\ \A w \in Runs : wt[w].base <= Len(wt[w].log)
  /\ run \in [Runs -> Run]
  /\ cmd \in [op : {"none", "adopt", "discard", "commit"}, run : Runs \cup {NoRun},
              todo : SUBSET Paths, files : Changes, before : Changes]
  /\ edits \in 0..MaxEdits /\ faults \in 0..MaxFaults

Init ==
  /\ policy \in Policies /\ auto \in AutoCommit
  /\ root = [branch |-> Protected, heads |-> <<(<<>>)>>, tree |-> TreeOf(<<>>),
             unfinished |-> FALSE]
  /\ lock = Free
  /\ trusted = NoChanges
  /\ wt = [r \in Runs |-> NoWorktree]
  /\ run = [r \in Runs |-> Unstarted]
  /\ cmd = NoCommand
  /\ edits = 0 /\ faults = 0

-----------------------------------------------------------------------------
Release(r) == lock' = IF lock = r THEN Free ELSE lock
Fault == faults < MaxFaults /\ faults' = faults + 1

(* finalize_blocked_run: the executor is never started.                    *)
Block(r, rec) ==
  /\ run' = [run EXCEPT ![r] = [rec EXCEPT !.phase = "done", !.status = "blocked"]]
  /\ Release(r)
  /\ UNCHANGED <<policy, auto, trusted, wt, cmd, edits>>

Refused == auto /\ root.unfinished

DelegatedChangesMatch(now) == now = trusted

MayStart ==
  \/ policy = "allow"
  \/ DOMAIN RootDetails = {}
  \/ policy = "allow_delegated" /\ DelegatedChangesMatch(RootDetails)

Isolates == policy = "isolate" \/ (lock # Free /\ policy # "stop")

CreateIsolatedWorktree(r) ==
  /\ wt' = [wt EXCEPT ![r] = [there |-> TRUE, log |-> RootLog,
                              base |-> Len(RootLog), tree |-> TreeOf(RootLog)]]
  /\ run' = [run EXCEPT ![r].phase = "prepared", ![r].marker = r,
                        ![r].at = r, ![r].line = {r}]
  /\ UNCHANGED <<policy, auto, root, lock, trusted, cmd, edits, faults>>

Delegate(r) ==
  /\ run[r].phase = "new"
  /\ IF Refused \/ (~Isolates /\ (lock # Free \/ ~MayStart))
     THEN Block(r, run[r]) /\ UNCHANGED <<root, faults>>
     ELSE \/ /\ Isolates
             /\ CreateIsolatedWorktree(r)
          \/ /\ ~Isolates
             /\ lock' = r
             /\ run' = [run EXCEPT ![r].phase = "prepared", ![r].line = {r}]
             /\ UNCHANGED <<policy, auto, root, trusted, wt, cmd, edits, faults>>

Resolved(u) == run[u].integ = "integrated" \/ run[u].resolved \in {"INTEGRATED", "ADOPTED"}

(* With Overlap, two users of one worktree may meet before the retry has   *)
(* written its supervisor.pid: nothing in the code prevents it.            *)
Unclaimed(w) ==
  \/ Overlap
  \/ /\ \A v \in Runs : run[v].marker = w => run[v].phase \in {"done", "dead"}
     /\ cmd.run # NoRun => run[cmd.run].marker # w

Retryable(u) ==
  /\ Finalized(u) /\ run[u].resolved # "DISCARDED"
  /\ run[u].status \in {"success", "partial", "failed", "limited"}

Retry(r, u) ==
  /\ run[r].phase = "new" /\ Retryable(u)
  /\ LET reuse == run[u].marker # NoRun /\ ~Resolved(u)
         w     == run[u].marker
         rec   == [Unstarted EXCEPT !.phase = "prepared", !.prev = u,
                     !.chain = run[u].chain, !.line = run[u].line \cup {r},
                     !.marker = IF reuse THEN w ELSE NoRun,
                     !.at = IF reuse THEN w ELSE NoRun,
                     !.sha = IF reuse THEN run[u].sha ELSE <<>>]
         now   == IF reuse THEN WtDetails(w) ELSE RootDetails
         known == policy = "allow" \/ Pairs(now) \subseteq Recorded(u)
     IN
     /\ reuse => Unclaimed(w)
     /\ IF Refused \/ (reuse /\ ~wt[w].there) \/ (~reuse /\ lock # Free)
        THEN Block(r, [rec EXCEPT !.marker = NoRun, !.at = NoRun])
        ELSE IF ~known
        THEN Block(r, rec)
        ELSE /\ run' = [run EXCEPT ![r] = rec]
             /\ lock' = IF reuse THEN lock ELSE r
             /\ UNCHANGED <<policy, auto, trusted, wt, cmd, edits>>
  /\ UNCHANGED <<root, faults>>

-----------------------------------------------------------------------------
(* Mutant: the protected branch is used as it is. *)
EnsureAnyBranch(rt) == rt

(* Mutant: HEAD is pointed at a branch that was not created. *)
EnsureUncreatedBranch(rt) ==
  IF rt.branch # Protected THEN rt
  ELSE [rt EXCEPT !.branch = Len(rt.heads) + 1]

(* _ensure_work_branch: HEAD moves off a protected branch, files stay.     *)
EnsureWorkBranch(rt) ==
  IF rt.branch # Protected THEN rt
  ELSE [rt EXCEPT !.heads = Append(@, Head1(rt)), !.branch = Len(rt.heads) + 1]

(* Mutant: a retry claims whatever is at the paths of its chain. *)
OwnedAll(r, now) == run[r].chain

(* A retry gives up a path of its chain that changed since its predecessor *)
(* was recorded.                                                           *)
Owned(r, now) ==
  IF run[r].prev = NoRun THEN run[r].chain
  ELSE run[r].chain \ {p \in DOMAIN now : <<p, now[p]>> \notin Recorded(run[r].prev)}

(* The work branch, the baseline, and the place under max_parallel.        *)
Begin(r) ==
  /\ run[r].phase = "prepared"
  /\ ~Refused /\ ~Lost(r)
  /\ root' = IF auto /\ ~Isolated(r) THEN EnsureWorkBranch(root) ELSE root
  /\ run' = [run EXCEPT ![r].phase = "running", ![r].before = DetailsAt(r),
                        ![r].chain = Owned(r, DetailsAt(r))]
  /\ UNCHANGED <<policy, auto, lock, trusted, wt, cmd, edits, faults>>

(* An unfinished operation, a lost worktree, no authentication, no         *)
(* capacity.                                                               *)
BeginRefused(r) ==
  /\ run[r].phase = "prepared"
  /\ IF Refused \/ Lost(r)
     THEN UNCHANGED faults ELSE Fault
  /\ Block(r, run[r])
  /\ UNCHANGED root

(* The executor writes some paths and undoes changes at others.            *)
Execute(r) ==
  /\ run[r].phase = "running"
  /\ \E written \in SUBSET Paths, undone \in SUBSET Paths,
        status \in {"success", "partial", "failed", "limited"} :
       /\ written \cap undone = {}
       /\ LET place == IF Isolated(r) THEN wt[run[r].at] ELSE root
              log   == IF Isolated(r) THEN place.log ELSE RootLog
              new   == [p \in Paths |-> CASE p \in written -> r
                                          [] p \in undone  -> TreeOf(log)[p]
                                          [] OTHER -> place.tree[p]]
          IN
          /\ undone \subseteq DOMAIN Details(place.tree, log)
          /\ IF Isolated(r)
             THEN wt' = [wt EXCEPT ![run[r].at].tree = new] /\ UNCHANGED root
             ELSE root' = [root EXCEPT !.tree = new] /\ UNCHANGED wt
       /\ run' = [run EXCEPT ![r].phase = "worked", ![r].status = status]
  /\ UNCHANGED <<policy, auto, lock, trusted, cmd, edits, faults>>

-----------------------------------------------------------------------------
(* Mutant: everything that is dirty counts as delegated. *)
RecordDelegatedAll(now, made) == now

(* _record_delegated_changes: what the run made, and what was trusted and  *)
(* has not changed since.                                                  *)
RecordDelegated(now, made) ==
  LET still == {p \in DOMAIN trusted : <<p, trusted[p]>> \in Pairs(now)} IN
  [p \in still \cup DOMAIN made |-> IF p \in DOMAIN made THEN made[p] ELSE trusted[p]]

Forget(records, paths) == [p \in DOMAIN records \ paths |-> records[p]]

(* The paths _auto_commit_run may commit: the run's own ones, and in an    *)
(* isolated worktree every one that was not dirty before.                  *)
CommitPaths(rec, now) ==
  LET excluded   == DOMAIN rec.before \ rec.chain
      candidates == DOMAIN rec.delta \cup (DOMAIN rec.before \cap rec.chain)
  IN (IF rec.at # NoRun THEN DOMAIN now ELSE candidates \cap DOMAIN now) \ excluded

Committed(log, r, tree, paths) ==
  Append(log, [by |-> r,
               tree |-> [p \in Paths |-> IF p \in paths THEN tree[p]
                                         ELSE TreeOf(log)[p]]])

(* _auto_commit_run on the record rec of run r, with the root worktree rt: *)
(* the commit succeeds, is skipped, or fails and changes nothing.          *)
AutoCommitted(r, rec, now, rt, ok) ==
  LET w     == rec.at
      iso   == w # NoRun
      paths == CommitPaths(rec, now)
      skip  == ~iso /\ (paths = {} \/ (~rt.unfinished /\ rt.branch = Protected))
      fails == ~skip /\ (rt.unfinished \/ ~ok)
      done  == ~skip /\ ~fails /\ paths # {}
      new   == IF iso THEN Committed(wt[w].log, r, wt[w].tree, paths)
                      ELSE Committed(Head1(rt), r, rt.tree, paths)
  IN [commit |-> IF fails THEN "failed"
                 ELSE IF done \/ (iso /\ rec.sha # <<>>) THEN "committed" ELSE "skipped",
      sha    |-> IF done THEN new ELSE rec.sha,
      paths  |-> IF done THEN paths ELSE {},
      root   |-> IF done /\ ~iso THEN [rt EXCEPT !.heads[rt.branch] = new] ELSE rt,
      wt     |-> IF done /\ iso THEN [wt EXCEPT ![w].log = new] ELSE wt]

(* finalize_run up to the commit: the delta, the delegated changes, the    *)
(* paths of the chain, and the commit of a success.                        *)
Finish(r, ok) ==
  /\ run[r].phase = "worked"
  /\ IF ok THEN UNCHANGED faults ELSE Fault
  /\ LET now    == DetailsAt(r)
         delta  == Delta(run[r].before, now)
         rec    == [run[r] EXCEPT !.delta = delta,
                      !.chain = @ \cup (DOMAIN delta \ DOMAIN run[r].before),
                      !.integ = IF run[r].marker # NoRun THEN "pending" ELSE "none"]
         noted  == IF policy = "allow_delegated" /\ ~Isolated(r)
                   THEN RecordDelegated(now, delta) ELSE trusted
         res    == AutoCommitted(r, rec, now, root, ok)
     IN
     IF ~auto \/ rec.status # "success" \/ Lost(r)
     THEN /\ ok
          /\ run' = [run EXCEPT ![r] = [rec EXCEPT !.phase = "saving",
                       !.commit = IF auto THEN "skipped" ELSE "disabled"]]
          /\ trusted' = noted
          /\ UNCHANGED <<root, wt>>
     ELSE /\ ok \/ res.commit = "failed"
          /\ root' = res.root /\ wt' = res.wt
          /\ trusted' = IF Isolated(r) THEN noted ELSE Forget(noted, res.paths)
          /\ run' = [run EXCEPT ![r] = [rec EXCEPT
               !.phase  = IF Isolated(r) /\ res.commit # "failed"
                          THEN "integrating" ELSE "saving",
               !.status = IF res.commit = "failed" THEN "partial" ELSE @,
               !.commit = res.commit, !.sha = res.sha]]
  /\ UNCHANGED <<policy, auto, lock, cmd, edits>>

-----------------------------------------------------------------------------
(* Integration of the commits of run u's worktree, by u itself or by the   *)
(* command that works on u.                                                *)
Integrated(u, result, phase) ==
  run' = [run EXCEPT ![u].integ = result, ![u].phase = phase]

(* The root lock is awaited for a limited time; adopt does not wait.       *)
AcquireRoot(u) ==
  /\ run[u].phase = "integrating"
  /\ IF SharedLive(u) \/ Lost(u)
     THEN Integrated(u, "failed", "saving") /\ UNCHANGED lock
     ELSE \/ /\ lock = Free /\ lock' = u
             /\ Integrated(u, run[u].integ, "picking")
          \/ /\ lock # Free /\ UNCHANGED lock
             /\ Integrated(u, IF cmd.run = u /\ cmd.op = "adopt" THEN "failed"
                              ELSE "pending", "saving")
  /\ UNCHANGED <<policy, auto, root, trusted, wt, cmd, edits, faults>>

(* The commits to integrate, and the paths that they change.               *)
Units(w) == (wt[w].base + 1)..Len(wt[w].log)
Touched(w, k) ==
  {p \in Paths : TreeAt(wt[w].log, k)[p] # TreeAt(wt[w].log, k - 1)[p]}
UnitPaths(w) == UNION {Touched(w, k) : k \in Units(w)}

(* Mutant: dirty paths of the root worktree are not looked at. *)
NoCollisionCheck(u) ==
  LET w == run[u].at IN
  \/ root.unfinished \/ Lost(u)
  \/ DOMAIN WtDetails(w) # {}
  \/ run[u].sha # <<>> /\ wt[w].log # run[u].sha

(* Mutant: a root in the middle of a Git operation is used. *)
NoUnfinishedCheck(u) ==
  LET w == run[u].at IN
  \/ Lost(u)
  \/ DOMAIN WtDetails(w) # {}
  \/ run[u].sha # <<>> /\ wt[w].log # run[u].sha
  \/ UnitPaths(w) \cap DOMAIN RootDetails # {}

(* Why _integrate_isolated_unit refuses before it touches the root.        *)
PickRefused(u) ==
  LET w == run[u].at IN
  \/ root.unfinished \/ Lost(u)
  \/ DOMAIN WtDetails(w) # {}
  \/ run[u].sha # <<>> /\ wt[w].log # run[u].sha
  \/ UnitPaths(w) \cap DOMAIN RootDetails # {}

(* The tree of the root after the commits of w up to the k-th are picked,  *)
(* and the paths at which the k-th does not apply.                         *)
PickedTree(w, k) ==
  [p \in Paths |-> IF \E j \in Units(w) : j <= k /\ p \in Touched(w, j)
                   THEN TreeAt(wt[w].log, k)[p] ELSE TreeOf(RootLog)[p]]

Conflicts(w, k) ==
  {p \in Touched(w, k) : PickedTree(w, k - 1)[p]
                           \notin {TreeAt(wt[w].log, k - 1)[p], TreeAt(wt[w].log, k)[p]}}

(* A pick that changes nothing fails as well.                              *)
Applies(w, k) == Conflicts(w, k) = {} /\ PickedTree(w, k) # PickedTree(w, k - 1)

Stuck(w) == \E k \in Units(w) : ~Applies(w, k)

(* The first commit that does not apply is in conflict.                    *)
InConflict(w) ==
  \E k \in Units(w) : /\ Conflicts(w, k) # {}
                      /\ \A j \in Units(w) : j < k => Applies(w, j)

(* Mutant: the range of commits starts one too late. *)
PickedLate(w) ==
  RootLog \o [i \in 1..(Len(wt[w].log) - wt[w].base - 1) |->
                [by |-> wt[w].log[wt[w].base + 1 + i].by,
                 tree |-> PickedTree(w, wt[w].base + 1 + i)]]

Picked(w) ==
  RootLog \o [i \in 1..(Len(wt[w].log) - wt[w].base) |->
                [by |-> wt[w].log[wt[w].base + i].by, tree |-> PickedTree(w, wt[w].base + i)]]

(* The root once the commits of w are picked: dirty paths keep their text. *)
PickedRoot(w) ==
  LET rt == EnsureWorkBranch(root)
  IN IF Units(w) = {} THEN root
     ELSE [rt EXCEPT !.heads[rt.branch] = Picked(w),
                     !.tree = [p \in Paths |-> IF p \in UnitPaths(w)
                                               THEN TreeOf(Picked(w))[p] ELSE @[p]]]

(* A cherry-pick that was neither finished nor undone.                     *)
StuckRoot(w) ==
  [EnsureWorkBranch(root) EXCEPT
     !.unfinished = TRUE,
     !.tree = [p \in Paths |-> IF p \in UnitPaths(w) THEN "mixed" ELSE @[p]]]

(* Refused, picked, or undone: then HEAD, branch and files are as before,  *)
(* unless undoing fails too.  An interruption decides nothing.             *)
Pick(u) ==
  /\ run[u].phase = "picking"
  /\ LET w == run[u].at IN
     \/ /\ PickRefused(u)
        /\ Integrated(u, "failed", "saving")
        /\ UNCHANGED <<root, faults>>
     \/ /\ ~PickRefused(u) /\ ~Stuck(w)
        /\ root' = PickedRoot(w)
        /\ run' = [run EXCEPT ![u].integ = "integrated", ![u].phase = "cleanup",
                              ![u].unit = wt[w].log]
        /\ UNCHANGED faults
     \/ /\ ~PickRefused(u) /\ Stuck(w)
        /\ Integrated(u, IF InConflict(w) THEN "conflict" ELSE "failed",
                      "saving")
        /\ \/ UNCHANGED <<root, faults>>
           \/ Fault /\ root' = StuckRoot(w)
     \/ /\ Fault
        /\ Integrated(u, "failed", "saving") \/ Integrated(u, run[u].integ, "saving")
        /\ UNCHANGED root
  /\ Release(u)
  /\ UNCHANGED <<policy, auto, trusted, wt, cmd, edits>>

(* _mark_resolved_worktree: every run that used worktree w; u goes on in   *)
(* the given phase.                                                        *)
MarkResolved(w, u, marker, integ, phase) ==
  LET resolve(v) ==
        IF run[v].marker # w THEN run[v]
        ELSE [run[v] EXCEPT !.marker = NoRun, !.resolved = marker,
                !.at = IF run[v].phase = "done" THEN NoRun ELSE @,
                !.integ = IF v = u \/ Finalized(v) THEN integ ELSE @]
  IN run' = [v \in Runs |-> IF v = u THEN [resolve(u) EXCEPT !.at = NoRun, !.phase = phase]
                                     ELSE resolve(v)]

(* Mutant: the worktree is removed whatever it holds. *)
CleanupAnyway(u) == TRUE

(* The worktree holds nothing but the commits that were integrated.        *)
CleanupAllowed(u) ==
  LET w == run[u].marker IN
  wt[w].there => DOMAIN WtDetails(w) = {} /\ wt[w].log = run[u].unit

(* Mutant: runs are marked although the worktree was kept. *)
CleanupMarksAnyway(u) ==
  /\ run[u].phase = "cleanup"
  /\ IF run[u].marker # NoRun
     THEN /\ wt' = [wt EXCEPT ![run[u].marker].there = ~CleanupAllowed(u)]
          /\ MarkResolved(run[u].marker, u, "INTEGRATED", "integrated", "saving")
     ELSE run' = [run EXCEPT ![u].phase = "saving"] /\ UNCHANGED wt
  /\ UNCHANGED <<policy, auto, root, lock, trusted, cmd, edits, faults>>

Cleanup(u) ==
  /\ run[u].phase = "cleanup"
  /\ IF run[u].marker # NoRun /\ CleanupAllowed(u)
     THEN /\ wt' = [wt EXCEPT ![run[u].marker].there = FALSE]
          /\ MarkResolved(run[u].marker, u, "INTEGRATED", "integrated", "saving")
     ELSE /\ run' = [run EXCEPT ![u].phase = "saving",
                       ![u].status = IF cmd.run = u THEN @ ELSE "partial"]
          /\ UNCHANGED wt
  /\ UNCHANGED <<policy, auto, root, lock, trusted, cmd, edits, faults>>

(* The outcome is written, and the process or the command ends.            *)
Save(u) ==
  /\ run[u].phase = "saving"
  /\ run' = [run EXCEPT ![u].phase = "done",
       ![u].status = IF cmd.run # u /\ auto /\ @ = "success"
                        /\ run[u].integ \in {"pending", "conflict", "failed"}
                     THEN "partial" ELSE @]
  /\ cmd' = IF cmd.run = u THEN NoCommand ELSE cmd
  /\ Release(u)
  /\ UNCHANGED <<policy, auto, root, trusted, wt, edits, faults>>

-----------------------------------------------------------------------------
(* Commands of the operator on a finished run u.                           *)
Command(op, u, phase) ==
  /\ cmd' = [NoCommand EXCEPT !.op = op, !.run = u]
  /\ run' = [run EXCEPT ![u].phase = phase]

(* Mutant: only the named run is looked at. *)
MayResolveAlone(u) ==
  /\ cmd = NoCommand /\ run[u].phase = "done" /\ run[u].marker # NoRun
  /\ Overlap \/ \A v \in Runs : run[v].marker = run[u].marker => run[v].phase # "prepared"

(* No run that shares the worktree is alive.                               *)
MayResolve(u) ==
  /\ cmd = NoCommand /\ run[u].phase = "done" /\ run[u].marker # NoRun
  /\ ~SharedLive(u)
  /\ Overlap \/ \A v \in Runs : run[v].marker = run[u].marker => run[v].phase # "prepared"

(* adopt, and discard, of an integrated run only finish its cleanup.       *)
AdoptIntegrated(u) ==
  /\ MayResolve(u) /\ run[u].integ = "integrated"
  /\ Command("adopt", u, "cleanup")
  /\ UNCHANGED <<policy, auto, root, lock, trusted, wt, edits, faults>>

AdoptCommitted(u) ==
  /\ MayResolve(u) /\ run[u].integ # "integrated"
  /\ wt[run[u].marker].there /\ run[u].commit = "committed"
  /\ Command("adopt", u, "integrating")
  /\ UNCHANGED <<policy, auto, root, lock, trusted, wt, edits, faults>>

AdoptConflicts(w) ==
  {p \in DOMAIN WtDetails(w) :
     root.tree[p] \notin {TreeOf(RootLog)[p], wt[w].tree[p]}}

(* Uncommitted work is copied file by file under the root lock, from equal *)
(* heads, onto files that are as in HEAD.                                  *)
AdoptFiles(u) ==
  LET w == run[u].marker IN
  /\ MayResolve(u) /\ run[u].integ # "integrated"
  /\ wt[w].there /\ run[u].commit # "committed" /\ run[u].status # "failed"
  /\ wt[w].log = RootLog /\ AdoptConflicts(w) = {}
  /\ lock = Free /\ lock' = u
  /\ cmd' = [NoCommand EXCEPT !.op = "adopt", !.run = u, !.before = root.tree,
               !.todo = {p \in DOMAIN WtDetails(w) : root.tree[p] # wt[w].tree[p]}]
  /\ run' = [run EXCEPT ![u].phase = "copying"]
  /\ UNCHANGED <<policy, auto, root, trusted, wt, edits, faults>>

CopyFile(u, p) ==
  /\ run[u].phase = "copying" /\ p \in cmd.todo
  /\ root' = [root EXCEPT !.tree[p] = wt[run[u].at].tree[p]]
  /\ cmd' = [cmd EXCEPT !.todo = @ \ {p},
               !.files = [q \in DOMAIN @ \cup {p} |-> wt[run[u].at].tree[q]]]
  /\ UNCHANGED <<policy, auto, lock, trusted, wt, run, edits, faults>>

RecordAdopted(u) ==
  /\ run[u].phase = "copying" /\ cmd.todo = {}
  /\ trusted' = RecordDelegated(RootDetails, cmd.files)
  /\ run' = [run EXCEPT ![u].phase = "removing"]
  /\ Release(u)
  /\ UNCHANGED <<policy, auto, root, wt, cmd, edits, faults>>

(* A file that cannot be written: what was copied is put back.             *)
AdoptFails(u) ==
  /\ run[u].phase = "copying" /\ Fault
  /\ root' = [root EXCEPT !.tree = [p \in Paths |->
                IF p \in DOMAIN cmd.files THEN cmd.before[p] ELSE @[p]]]
  /\ run' = [run EXCEPT ![u].phase = "done"]
  /\ cmd' = NoCommand
  /\ Release(u)
  /\ UNCHANGED <<policy, auto, trusted, wt, edits>>

Discard(u) ==
  /\ MayResolve(u) /\ run[u].integ # "integrated"
  /\ Command("discard", u, "removing")
  /\ UNCHANGED <<policy, auto, root, lock, trusted, wt, edits, faults>>

(* The end of adopting files and of discard.                               *)
RemoveWorktree(u) ==
  /\ run[u].phase = "removing"
  /\ wt' = [wt EXCEPT ![run[u].at].there = FALSE]
  /\ IF cmd.op = "adopt"
     THEN MarkResolved(run[u].at, u, "ADOPTED", "integrated", "done")
     ELSE MarkResolved(run[u].at, u, "DISCARDED", "failed", "done")
  /\ cmd' = NoCommand
  /\ UNCHANGED <<policy, auto, root, lock, trusted, edits, faults>>

(* commit_run verifies every path the run recorded, and in an isolated     *)
(* worktree that there is nothing else.                                    *)
MatchesRecord(u, now) ==
  LET verify == DOMAIN run[u].delta \cup (DOMAIN run[u].before \cap run[u].chain)
      item(p) == IF p \in DOMAIN run[u].delta THEN run[u].delta[p] ELSE run[u].before[p]
  IN /\ \A p \in verify : p \in DOMAIN now /\ now[p] = item(p)
     /\ Isolated(u) => DOMAIN now \subseteq verify

CommitPartial(u) ==
  /\ cmd = NoCommand /\ run[u].phase = "done" /\ run[u].status = "partial"
  /\ run[u].commit \in {"skipped", "failed"} /\ run[u].resolved # "DISCARDED"
  /\ IF Isolated(u) THEN MayResolve(u) /\ wt[run[u].marker].there ELSE lock = Free
  /\ ~root.unfinished /\ MatchesRecord(u, DetailsAt(u))
  /\ LET rt  == IF Isolated(u) THEN root ELSE EnsureWorkBranch(root)
         res == AutoCommitted(u, run[u], DetailsAt(u), rt, TRUE)
     IN
     /\ root' = res.root /\ wt' = res.wt
     /\ trusted' = IF Isolated(u) THEN trusted ELSE Forget(trusted, res.paths)
     /\ run' = [run EXCEPT ![u].commit = res.commit, ![u].sha = res.sha,
          ![u].phase = IF Isolated(u) /\ res.commit = "committed"
                       THEN "integrating" ELSE "saving"]
     /\ cmd' = [NoCommand EXCEPT !.op = "commit", !.run = u]
  /\ UNCHANGED <<policy, auto, lock, edits, faults>>

-----------------------------------------------------------------------------
(* A process that dies keeps nothing; the system releases its lock.  A     *)
(* cherry-pick may be anywhere.                                            *)
Crash(u) ==
  /\ run[u].phase \notin {"new", "done", "dead"} /\ Fault
  /\ run' = [run EXCEPT ![u].phase = IF cmd.run = u THEN "done" ELSE "dead"]
  /\ cmd' = IF cmd.run = u THEN NoCommand ELSE cmd
  /\ Release(u)
  /\ \/ UNCHANGED root
     \/ /\ run[u].phase = "picking" /\ ~PickRefused(u) /\ Units(run[u].at) # {}
        /\ root' \in {StuckRoot(run[u].at)} \cup
             (IF Stuck(run[u].at) THEN {} ELSE {PickedRoot(run[u].at)})
  /\ UNCHANGED <<policy, auto, trusted, wt, edits>>

UserActs(rt) ==
  /\ edits < MaxEdits /\ edits' = edits + 1
  /\ root' = rt
  /\ UNCHANGED <<policy, auto, lock, trusted, wt, run, cmd, faults>>

Exclusive(r) == run[r].phase \in {"running", "worked", "copying"} /\ lock = r

UserEdits(p) ==
  /\ \A r \in Runs : ~Exclusive(r)
  /\ root.tree[p] # "user"
  /\ UserActs([root EXCEPT !.tree[p] = "user"])

(* The user goes back to the protected branch with a clean worktree.       *)
UserSwitches ==
  /\ lock = Free /\ root.branch # Protected
  /\ DOMAIN RootDetails = {} /\ ~root.unfinished
  /\ UserActs([root EXCEPT !.branch = Protected, !.tree = TreeOf(root.heads[Protected])])

(* git cherry-pick --abort.                                                *)
UserAborts ==
  /\ root.unfinished /\ lock = Free
  /\ root' = [root EXCEPT !.unfinished = FALSE,
                !.tree = [p \in Paths |-> IF @[p] = "mixed" THEN TreeOf(RootLog)[p]
                                                            ELSE @[p]]]
  /\ UNCHANGED <<policy, auto, lock, trusted, wt, run, cmd, edits, faults>>

UserFixes(w, p) ==
  /\ wt[w].there /\ edits < MaxEdits /\ edits' = edits + 1
  /\ \A v \in Runs : run[v].marker = w =>
       run[v].phase \in {"done", "dead", "integrating", "picking", "cleanup", "saving"}
  /\ wt' = [wt EXCEPT ![w].tree[p] = "fix"]
  /\ UNCHANGED <<policy, auto, root, lock, trusted, run, cmd, faults>>

RunStep(r) ==
  \/ Delegate(r)
  \/ \E u \in Runs : Retry(r, u)
  \/ Begin(r) \/ BeginRefused(r)
  \/ Execute(r)
  \/ \E ok \in BOOLEAN : Finish(r, ok)
  \/ AcquireRoot(r) \/ Pick(r) \/ Cleanup(r) \/ Save(r)

OperatorStep(u) ==
  \/ AdoptIntegrated(u) \/ AdoptCommitted(u) \/ AdoptFiles(u)
  \/ \E p \in Paths : CopyFile(u, p)
  \/ RecordAdopted(u) \/ AdoptFails(u)
  \/ Discard(u) \/ RemoveWorktree(u) \/ CommitPartial(u)

UserStep ==
  \/ \E p \in Paths : UserEdits(p)
  \/ UserSwitches \/ UserAborts
  \/ \E w \in Runs, p \in Paths : UserFixes(w, p)

Next ==
  \/ \E r \in Runs : RunStep(r) \/ OperatorStep(r) \/ Crash(r)
  \/ UserStep

Spec == Init /\ [][Next]_vars

-----------------------------------------------------------------------------
(* A run commits only what it or an earlier run of its retry chain wrote:  *)
(* not the user's edits, and not another chain's work, whatever the        *)
(* policy (the comment at runner.py:790).                                  *)
OwnCommits(log) ==
  \A k \in 1..Len(log), p \in Paths :
    TreeAt(log, k)[p] # TreeAt(log, k - 1)[p] => TreeAt(log, k)[p] \in run[log[k].by].line

CommitsAreOwned ==
  /\ \A b \in DOMAIN root.heads : OwnCommits(root.heads[b])
  /\ \A w \in Runs : OwnCommits(wt[w].log)

(* No branch the user protects ever moves.                                 *)
ProtectedStays == root.heads[Protected] = <<>>

(* A live run's worktree exists: adopt, discard, commit and the cleanup    *)
(* after an integration do not remove it under its executor.               *)
LiveWorktree ==
  \A r \in Runs : Live(r) => ~Lost(r)

(* A worktree that still exists is offered for resolution once the last    *)
(* run that used it is over: it is pending or awaits revival.              *)
KeptIsPending ==
  \A w \in Runs :
    (wt[w].there /\ run[w].phase = "done") =>
      \E v \in Runs : run[v].marker = w /\ Finalized(v)

(* A run that is recorded as integrated has its commit on a branch.        *)
IntegratedIsOnBranch ==
  \A r \in Runs :
    (Finalized(r) /\ run[r].integ = "integrated" /\ run[r].sha # <<>>) =>
      \E b \in DOMAIN root.heads : \E k \in DOMAIN root.heads[b] :
        root.heads[b][k].by = run[r].sha[Len(run[r].sha)].by

(* A file the user edited in the root worktree is overwritten by an        *)
(* executor that works there, or by the user; never by adopting,           *)
(* integrating, undoing or committing.                                     *)
UserEditKept ==
  [][\A p \in Paths :
       (root.tree[p] = "user" /\ root'.tree[p] # "user") =>
         \/ edits' # edits
         \/ \E r \in Runs : run[r].phase = "running" /\ lock = r]_vars

(* A worktree is removed only on discard, or when everything in it was     *)
(* copied to the root worktree or already there, or when it was clean; and *)
(* every commit in it has reached the user's branch.                       *)
NothingThrownAway ==
  [][\A w \in Runs :
       (wt[w].there /\ ~wt'[w].there) =>
         \/ cmd.op = "discard"
         \/ /\ Pairs(WtDetails(w)) \subseteq Pairs(cmd.files) \cup Pairs(cmd.before)
            /\ \A k \in Units(w) : \E b \in DOMAIN root.heads :
                 \E j \in DOMAIN root.heads[b] :
                   root.heads[b][j].by = wt[w].log[k].by]_vars

(* Unless the policy is allow, a delegation takes the root worktree only   *)
(* when whatever is uncommitted there was made by a run and has not        *)
(* changed since; edits the user made, at any time before, stop it.        *)
RunsStartOnDelegatedWork ==
  [][\A r \in Runs :
       (run[r].phase = "new" /\ lock' = r /\ run'[r].prev = NoRun) =>
         \/ policy = "allow"
         \/ \A p \in DOMAIN RootDetails : root.tree[p] \in Runs \cup {"fix"}]_vars

(* No commit is made, and no branch changed, in a root worktree in the     *)
(* middle of a Git operation.                                              *)
UnfinishedIsLeftAlone ==
  [][(root.unfinished /\ root'.unfinished) =>
       (root'.heads = root.heads /\ root'.branch = root.branch)]_vars
=============================================================================
