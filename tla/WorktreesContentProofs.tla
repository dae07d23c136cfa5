----------------------- MODULE WorktreesContentProofs -----------------------
(***************************************************************************)
(* For any runs and paths, when a retry and another user of its worktree   *)
(* do not overlap: a run commits only what its chain wrote, the user's     *)
(* edits are not overwritten, a delegation takes the root worktree only on *)
(* delegated work, a unit reported as integrated is on a branch of the     *)
(* root, and no worktree is removed with work that is nowhere else.        *)
(***************************************************************************)
EXTENDS WorktreesProofs

-----------------------------------------------------------------------------
(* Logs in which every change is signed by a run whose chain wrote it.     *)

Tracked == Runs \cup {"base"}

Signed(log, rs) ==
  \A k \in 1..Len(log), p \in Paths :
    /\ TreeAt(log, k)[p] \in Tracked
    /\ TreeAt(log, k)[p] # TreeAt(log, k - 1)[p] => TreeAt(log, k)[p] \in rs[log[k].by].line

LEMMA TrackedTree ==
  ASSUME NEW log \in Seq(Commit), NEW rs, Signed(log, rs), NEW p \in Paths
  PROVE  /\ \A k \in 0..Len(log) : TreeAt(log, k)[p] \in Tracked
         /\ TreeOf(log)[p] \in Tracked
<1>1. Len(log) \in Nat /\ TreeAt(log, 0)[p] = "base"
  BY DEF TreeAt
<1>2. \A k \in 1..Len(log) : TreeAt(log, k)[p] \in Tracked
  BY DEF Signed
<1>3. \A k \in 0..Len(log) : k = 0 \/ k \in 1..Len(log)
  BY <1>1
<1> QED
  BY <1>1, <1>2, <1>3 DEF Tracked, TreeOf

LEMMA SignedEmpty ==
  ASSUME NEW rs
  PROVE  Signed(<<>>, rs)
BY DEF Signed

LEMMA AuthorIsRun ==
  ASSUME NEW log \in Seq(Commit), NEW k \in 1..Len(log)
  PROVE  log[k].by \in Runs
<1>1. log[k] \in Commit
  OBVIOUS
<1> QED
  BY <1>1 DEF Commit

(* Lines only grow.                                                        *)
LEMMA SignedKept ==
  ASSUME NEW log \in Seq(Commit), NEW rs, NEW rs2, Signed(log, rs),
         \A r \in Runs : rs[r].line \subseteq rs2[r].line
  PROVE  Signed(log, rs2)
BY AuthorIsRun DEF Signed

LEMMA SignedCommit ==
  ASSUME NEW log \in Seq(Commit), NEW rs, Signed(log, rs), NEW r \in Runs, NEW tree \in Tree,
         NEW paths, \A p \in paths \cap Paths : tree[p] \in rs[r].line, rs[r].line \subseteq Runs
  PROVE  Signed(Committed(log, r, tree, paths), rs)
<1> DEFINE n == Committed(log, r, tree, paths)
<1>1. /\ Len(n) = Len(log) + 1 /\ Len(log) \in Nat
      /\ \A k \in 0..Len(log) : TreeAt(n, k) = TreeAt(log, k)
      /\ \A k \in 1..Len(log) : n[k] = log[k]
      /\ n[Len(log) + 1].by = r
      /\ \A p \in Paths : TreeAt(n, Len(log) + 1)[p] = IF p \in paths THEN tree[p] ELSE TreeAt(log, Len(log))[p]
  BY CommittedType DEF TreeOf
<1> HIDE DEF n
<1>2. ASSUME NEW k \in 1..Len(log), NEW p \in Paths
      PROVE  /\ TreeAt(n, k)[p] \in Tracked
             /\ TreeAt(n, k)[p] # TreeAt(n, k - 1)[p] => TreeAt(n, k)[p] \in rs[n[k].by].line
  <2>1. k \in 0..Len(log) /\ k - 1 \in 0..Len(log)
    BY <1>1
  <2> QED
    BY <1>1, <2>1 DEF Signed
<1>3. ASSUME NEW p \in Paths, NEW k, k = Len(log) + 1
      PROVE  /\ TreeAt(n, k)[p] \in Tracked
             /\ TreeAt(n, k)[p] # TreeAt(n, k - 1)[p] => TreeAt(n, k)[p] \in rs[n[k].by].line
  <2>1. k - 1 = Len(log) /\ Len(log) \in 0..Len(log)
    BY <1>1, <1>3
  <2>2. TreeAt(log, Len(log))[p] \in Tracked
    BY <2>1, TrackedTree
  <2>3. TreeAt(n, k - 1)[p] = TreeAt(log, Len(log))[p]
    BY <1>1, <2>1
  <2>4. CASE p \in paths
    BY <1>1, <1>3, <2>3, <2>4 DEF Tracked
  <2>5. CASE p \notin paths
    BY <1>1, <1>3, <2>2, <2>3, <2>5
  <2> QED
    BY <2>4, <2>5
<1>4. \A k \in 1..Len(n) : k \in 1..Len(log) \/ k = Len(log) + 1
  BY <1>1
<1> QED
  BY <1>2, <1>3, <1>4 DEF Signed, n

(* The commits after log R leave the trees T.                              *)
LEMMA SignedExtension ==
  ASSUME NEW rs, NEW R \in Seq(Commit), Signed(R, rs), NEW n \in Seq(Commit), NEW m \in Nat,
         Len(n) = Len(R) + m, \A k \in 1..Len(R) : n[k] = R[k],
         NEW T, \A p \in Paths : T[0][p] = TreeOf(R)[p],
         \A k \in (Len(R) + 1)..Len(n) : n[k].tree = T[k - Len(R)],
         \A i \in 1..m, p \in Paths : T[i][p] \in Tracked,
         \A k \in (Len(R) + 1)..Len(n), p \in Paths :
           T[k - Len(R)][p] # T[k - Len(R) - 1][p] => T[k - Len(R)][p] \in rs[n[k].by].line
  PROVE  Signed(n, rs)
<1>1. Len(R) \in Nat /\ Len(n) \in Nat
  OBVIOUS
<1>2. ASSUME NEW k \in 0..Len(R) PROVE TreeAt(n, k) = TreeAt(R, k)
  BY DEF TreeAt
<1>3. ASSUME NEW k \in 1..Len(R), NEW p \in Paths
      PROVE  /\ TreeAt(n, k)[p] \in Tracked
             /\ TreeAt(n, k)[p] # TreeAt(n, k - 1)[p] => TreeAt(n, k)[p] \in rs[n[k].by].line
  <2>1. k \in 0..Len(R) /\ k - 1 \in 0..Len(R)
    BY <1>1
  <2> QED
    BY <1>2, <2>1 DEF Signed
<1>4. ASSUME NEW k \in (Len(R) + 1)..Len(n), NEW p \in Paths
      PROVE  /\ TreeAt(n, k)[p] \in Tracked
             /\ TreeAt(n, k)[p] # TreeAt(n, k - 1)[p] => TreeAt(n, k)[p] \in rs[n[k].by].line
  <2> DEFINE i == k - Len(R)
  <2>1. i \in 1..m /\ k # 0
    BY <1>1
  <2>2. TreeAt(n, k) = T[i]
    BY <2>1 DEF TreeAt
  <2>3. TreeAt(n, k - 1)[p] = T[i - 1][p]
    <3>1. CASE i = 1
      <4>1. k - 1 = Len(R) /\ i - 1 = 0 /\ Len(R) \in 0..Len(R)
        BY <1>1, <3>1
      <4> HIDE DEF i
      <4>2. TreeAt(n, k - 1) = TreeOf(R)
        BY <1>2, <4>1 DEF TreeOf
      <4> QED
        BY <4>1, <4>2
    <3>2. CASE i # 1
      <4>1. k - 1 \in (Len(R) + 1)..Len(n) /\ k - 1 # 0 /\ (k - 1) - Len(R) = i - 1
        BY <1>1, <2>1, <3>2
      <4> HIDE DEF i
      <4>2. n[k - 1].tree = T[i - 1]
        BY <4>1
      <4> QED
        BY <4>1, <4>2 DEF TreeAt
    <3> QED
      BY <3>1, <3>2
  <2> QED
    BY <2>1, <2>2, <2>3
<1>5. \A k \in 1..Len(n) : k \in 1..Len(R) \/ k \in (Len(R) + 1)..Len(n)
  BY <1>1
<1> QED
  BY <1>3, <1>4, <1>5 DEF Signed

(* What the picked commits change was changed by the commits they stem     *)
(* from.                                                                   *)
LEMMA PickedChange ==
  ASSUME WtWell, NEW w \in Runs, WellRooted(root), NEW rs, Signed(RootLog, rs), Signed(wt[w].log, rs),
         NEW p \in Paths
  PROVE  /\ \A k \in 0..Len(wt[w].log) : PickedTree(w, k)[p] \in Tracked
         /\ PickedTree(w, wt[w].base)[p] = TreeOf(RootLog)[p]
         /\ \A k \in Units(w) : PickedTree(w, k)[p] # PickedTree(w, k - 1)[p]
                                  => PickedTree(w, k)[p] \in rs[wt[w].log[k].by].line
<1>1. /\ wt[w].log \in Seq(Commit) /\ wt[w].base \in Nat /\ Len(wt[w].log) \in Nat
      /\ RootLog \in Seq(Commit)
  BY WtFacts, RootFacts DEF RootLog
<1>2. Units(w) \subseteq Nat /\ \A j \in Units(w) : wt[w].base < j /\ j <= Len(wt[w].log)
  BY <1>1 DEF Units
<1>3. \A k : PickedTree(w, k)[p] = IF \E j \in Units(w) : j <= k /\ p \in Touched(w, j)
                                   THEN TreeAt(wt[w].log, k)[p] ELSE TreeOf(RootLog)[p]
  BY DEF PickedTree
<1>4. \A k \in 0..Len(wt[w].log) : TreeAt(wt[w].log, k)[p] \in Tracked
  BY <1>1, TrackedTree
<1>5. TreeOf(RootLog)[p] \in Tracked
  BY <1>1, TrackedTree
<1>6. ~ \E j \in Units(w) : j <= wt[w].base
  BY <1>1, <1>2
<1>7. ASSUME NEW k \in Units(w), PickedTree(w, k)[p] # PickedTree(w, k - 1)[p]
      PROVE  PickedTree(w, k)[p] \in rs[wt[w].log[k].by].line
  <2> DEFINE here == \E j \in Units(w) : j <= k /\ p \in Touched(w, j)
             before == \E j \in Units(w) : j <= k - 1 /\ p \in Touched(w, j)
  <2>1. k \in 1..Len(wt[w].log) /\ k \in Nat /\ k <= k
    BY <1>1, <1>2
  <2>2. p \in Touched(w, k) <=> TreeAt(wt[w].log, k)[p] # TreeAt(wt[w].log, k - 1)[p]
    BY DEF Touched
  <2>3. here <=> (before \/ p \in Touched(w, k))
    <3>1. \A j \in Units(w) : j <= k <=> (j <= k - 1 \/ j = k)
      BY <1>2, <2>1
    <3> QED
      BY <3>1
  <2>4. /\ PickedTree(w, k)[p] = IF here THEN TreeAt(wt[w].log, k)[p] ELSE TreeOf(RootLog)[p]
        /\ PickedTree(w, k - 1)[p] = IF before THEN TreeAt(wt[w].log, k - 1)[p] ELSE TreeOf(RootLog)[p]
    BY <1>3
  <2> HIDE DEF here, before
  <2>5. TreeAt(wt[w].log, k)[p] # TreeAt(wt[w].log, k - 1)[p] /\ here
    BY <1>7, <2>2, <2>3, <2>4
  <2> QED
    BY <2>1, <2>4, <2>5 DEF Signed
<1> QED
  BY <1>3, <1>4, <1>5, <1>6, <1>7

(* Picking keeps the author of a change.                                   *)
LEMMA SignedPicked ==
  ASSUME WtWell, NEW w \in Runs, WellRooted(root), NEW rs,
         Signed(RootLog, rs), Signed(wt[w].log, rs)
  PROVE  Signed(Picked(w), rs)
<1> DEFINE b == wt[w].base
           l == Len(wt[w].log)
           d == Len(RootLog)
           m == l - b
           T == [i \in 0..m |-> PickedTree(w, b + i)]
           n == Picked(w)
<1>1. /\ RootLog \in Seq(Commit) /\ n \in Seq(Commit) /\ Len(n) = d + m
      /\ \A k \in 1..d : n[k] = RootLog[k]
  BY WtFacts, RootFacts, PickedFacts DEF RootLog
<1>2. b \in Nat /\ l \in Nat /\ d \in Nat /\ m \in Nat
  BY WtFacts, RootFacts, PickedFacts DEF RootLog
<1>3. ASSUME NEW i \in 1..m
      PROVE  n[d + i].by = wt[w].log[b + i].by /\ n[d + i].tree = PickedTree(w, b + i)
  <2>1. n[d + i] = [by |-> wt[w].log[b + i].by, tree |-> PickedTree(w, b + i)]
    BY PickedFacts
  <2> HIDE DEF n
  <2> QED
    BY <2>1
<1>4. \A j : j \in Units(w) <=> j \in (b + 1)..l
  BY DEF Units
<1>5. m = l - b /\ \A i \in 0..m : T[i] = PickedTree(w, b + i)
  OBVIOUS
<1> HIDE DEF n, T, m, d, l, b
<1>6. ASSUME NEW i \in 1..m
      PROVE  T[i] # T[i - 1] => b + i \in Units(w) /\ T[i - 1] = PickedTree(w, (b + i) - 1)
  <2>1. i - 1 \in 0..m /\ b + (i - 1) = (b + i) - 1 /\ b + i \in (b + 1)..l
    BY <1>2, <1>5
  <2> QED
    BY <1>4, <1>5, <2>1
<1>7. ASSUME NEW i \in 1..m, NEW p \in Paths
      PROVE  /\ T[i][p] \in Tracked
             /\ T[i][p] # T[i - 1][p] => T[i][p] \in rs[n[d + i].by].line
  <2>1. b + i \in 0..l /\ i \in 0..m
    BY <1>2, <1>5
  <2>2. T[i] = PickedTree(w, b + i) /\ n[d + i].by = wt[w].log[b + i].by
    BY <1>3, <1>5, <2>1
  <2>3. PickedTree(w, b + i)[p] \in Tracked
    BY <2>1, PickedChange DEF l
  <2>4. \A k \in Units(w) : PickedTree(w, k)[p] # PickedTree(w, k - 1)[p]
                              => PickedTree(w, k)[p] \in rs[wt[w].log[k].by].line
    BY PickedChange
  <2> QED
    BY <1>6, <2>2, <2>3, <2>4
<1>8. ASSUME NEW k \in (d + 1)..Len(n)
      PROVE  /\ n[k].tree = T[k - d]
             /\ \A p \in Paths : T[k - d][p] # T[k - d - 1][p] => T[k - d][p] \in rs[n[k].by].line
  <2> DEFINE i == k - d
  <2>1. i \in 1..m /\ i \in 0..m /\ k = d + i
    BY <1>1, <1>2
  <2> HIDE DEF i
  <2>2. n[d + i].tree = T[i]
    BY <1>3, <1>5, <2>1
  <2>3. n[k].tree = T[i] /\ \A p \in Paths : T[i][p] # T[i - 1][p] => T[i][p] \in rs[n[k].by].line
    BY <1>7, <2>1, <2>2
  <2> QED
    BY <2>3 DEF i
<1>9. \A p \in Paths : T[0][p] = TreeOf(RootLog)[p]
  <2>1. T[0] = PickedTree(w, b)
    BY <1>2, <1>5
  <2> QED
    BY <2>1, PickedChange DEF b
<1>10. Signed(n, rs)
  <2>1. /\ RootLog \in Seq(Commit) /\ Signed(RootLog, rs) /\ n \in Seq(Commit) /\ m \in Nat
        /\ Len(n) = Len(RootLog) + m /\ \A k \in 1..Len(RootLog) : n[k] = RootLog[k]
    BY <1>1, <1>2 DEF d
  <2>2. \A p \in Paths : T[0][p] = TreeOf(RootLog)[p]
    BY <1>9
  <2>3. \A k \in (Len(RootLog) + 1)..Len(n) : n[k].tree = T[k - Len(RootLog)]
    BY <1>8 DEF d
  <2>4. \A i \in 1..m, p \in Paths : T[i][p] \in Tracked
    BY <1>7
  <2>5. \A k \in (Len(RootLog) + 1)..Len(n), p \in Paths :
          T[k - Len(RootLog)][p] # T[k - Len(RootLog) - 1][p]
            => T[k - Len(RootLog)][p] \in rs[n[k].by].line
    BY <1>8 DEF d
  <2> QED
    BY <2>1, <2>2, <2>3, <2>4, <2>5, SignedExtension
<1> QED
  BY <1>10 DEF n

-----------------------------------------------------------------------------
(* What a step does to what the record of a run says about its content.    *)
Inv == ControlInv /\ SharingInv

Early == {"new", "prepared", "running", "worked"}

SameData(rec, old) ==
  /\ rec.line = old.line /\ rec.chain = old.chain /\ rec.before = old.before
  /\ rec.delta = old.delta /\ rec.prev = old.prev

Kept(v) ==
  /\ SameData(run'[v], run[v])
  /\ run'[v].phase \in Early => run'[v].phase = run[v].phase /\ run'[v].at = run[v].at

Started(v) ==
  /\ run[v].phase = "new" /\ run'[v].phase \in {"prepared", "done"}
  /\ run'[v].before = NoChanges /\ run'[v].delta = NoChanges /\ v \in run'[v].line
  /\ \/ run'[v].prev = NoRun /\ run'[v].chain = {}
     \/ \E u \in Runs : /\ Retryable(u) /\ run'[v].prev = u /\ run'[v].chain = run[u].chain
                        /\ run'[v].line = run[u].line \cup {v}

DataStep(v) ==
  Kept(v) \/ Started(v) \/ Begin(v) \/ Execute(v) \/ \E ok \in BOOLEAN : Finish(v, ok)

LEMMA OthersKept ==
  ASSUME NEW u, NEW rec, run \in [Runs -> Run], run' = [run EXCEPT ![u] = rec], NEW v \in Runs, v # u
  PROVE  Kept(v)
BY DEF Kept, SameData

LEMMA RecordKept ==
  ASSUME NEW u, NEW rec, run \in [Runs -> Run], run' = [run EXCEPT ![u] = rec],
         SameData(rec, run[u]), rec.phase \notin Early
  PROVE  \A v \in Runs : Kept(v)
<1>1. ASSUME NEW v \in Runs, v # u PROVE Kept(v)
  BY <1>1, OthersKept
<1>2. u \in Runs => run'[u] = rec
  OBVIOUS
<1> QED
  BY <1>1, <1>2 DEF Kept

LEMMA MovedKept ==
  ASSUME TypeOK, NEW u \in Runs, NEW phase, phase \notin Early, NEW status, NEW integ, NEW unit,
         NEW rec, rec = Moved(u, phase, status, integ, unit), run' = [run EXCEPT ![u] = rec]
  PROVE  \A v \in Runs : Kept(v)
<1>1. SameData(rec, run[u]) /\ rec.phase = phase
  BY MovedFacts DEF SameData
<1> QED
  BY <1>1, RecordKept DEF TypeOK

LEMMA PhaseKept ==
  ASSUME TypeOK, NEW u \in Runs, NEW phase, phase \notin Early, run' = [run EXCEPT ![u].phase = phase]
  PROVE  \A v \in Runs : Kept(v)
<1> DEFINE rec == Moved(u, phase, run[u].status, run[u].integ, run[u].unit)
<1>1. run' = [run EXCEPT ![u] = rec]
  BY PhaseMoves
<1>2. SameData(rec, run[u]) /\ rec.phase = phase
  BY MovedFacts DEF SameData
<1> HIDE DEF rec
<1> QED
  BY <1>1, <1>2, RecordKept DEF TypeOK

LEMMA BlockKept ==
  ASSUME TypeOK, NEW u \in Runs, Block(u, run[u])
  PROVE  \A v \in Runs : Kept(v)
<1> DEFINE rec == [run[u] EXCEPT !.phase = "done", !.status = "blocked"]
<1>1. run' = [run EXCEPT ![u] = rec]
  BY DEF Block
<1>2. SameData(rec, run[u]) /\ rec.phase \notin Early
  BY DEF TypeOK, Run, SameData, Early
<1> HIDE DEF rec
<1> QED
  BY <1>1, <1>2, RecordKept DEF TypeOK

LEMMA DelegateData ==
  ASSUME ControlInv, NEW r \in Runs, Delegate(r)
  PROVE  \A v \in Runs : Kept(v) \/ Started(v)
<1>1. run[r].phase = "new" /\ run[r] = Unstarted /\ TypeOK /\ run \in [Runs -> Run] /\ run[r] \in Run
  BY DEF Delegate, ControlInv, StartInv, TypeInv, TypeOK
<1>2. CASE Block(r, run[r])
  BY <1>1, <1>2, BlockKept
<1>3. ASSUME NEW rec, run' = [run EXCEPT ![r] = rec], rec.phase = "prepared", rec.line = {r},
             rec.before = NoChanges, rec.delta = NoChanges, rec.prev = NoRun, rec.chain = {}
      PROVE  \A v \in Runs : Kept(v) \/ Started(v)
  <2>1. run'[r] = rec
    BY <1>1, <1>3
  <2>2. Started(r)
    BY <1>1, <1>3, <2>1 DEF Started
  <2> QED
    BY <1>1, <1>3, <2>2, OthersKept
<1>4. CASE CreateIsolatedWorktree(r)
  <2> DEFINE new == [run[r] EXCEPT !.phase = "prepared", !.marker = r, !.at = r, !.line = {r}]
  <2>1. run' = [run EXCEPT ![r] = new]
    BY <1>1, <1>4 DEF CreateIsolatedWorktree
  <2>2. /\ new.phase = "prepared" /\ new.line = {r} /\ new.before = NoChanges
        /\ new.delta = NoChanges /\ new.prev = NoRun /\ new.chain = {}
    BY <1>1, UnstartedType DEF Run
  <2> HIDE DEF new
  <2> QED
    BY <1>3, <2>1, <2>2
<1>5. CASE run' = [run EXCEPT ![r].phase = "prepared", ![r].line = {r}]
  <2> DEFINE new == [run[r] EXCEPT !.phase = "prepared", !.line = {r}]
  <2>1. run' = [run EXCEPT ![r] = new]
    BY <1>1, <1>5
  <2>2. /\ new.phase = "prepared" /\ new.line = {r} /\ new.before = NoChanges
        /\ new.delta = NoChanges /\ new.prev = NoRun /\ new.chain = {}
    BY <1>1, UnstartedType DEF Run
  <2> HIDE DEF new
  <2> QED
    BY <1>3, <2>1, <2>2
<1> QED
  BY <1>2, <1>4, <1>5 DEF Delegate

LEMMA RetryData ==
  ASSUME ControlInv, NEW r \in Runs, NEW u \in Runs, Retry(r, u)
  PROVE  \A v \in Runs : Kept(v) \/ Started(v)
<1>1. /\ run[r].phase = "new" /\ Retryable(u) /\ TypeOK /\ run \in [Runs -> Run]
      /\ run[u].line \subseteq Runs
  <2>1. run[u] \in Run
    BY DEF ControlInv, TypeInv, TypeOK
  <2> QED
    BY <2>1, RetryCases DEF ControlInv, TypeInv, TypeOK, Run
<1>2. ASSUME NEW s \in {Successor(r, u), Homeless(r, u)}
      PROVE  /\ s \in Run /\ s.phase = "prepared" /\ s.prev = u /\ s.before = NoChanges /\ s.delta = NoChanges
             /\ s.chain = run[u].chain /\ s.line = run[u].line \cup {r}
  BY <1>1, <1>2, SuccessorFacts
<1>3. ASSUME NEW rec, run' = [run EXCEPT ![r] = rec], rec.phase \in {"prepared", "done"},
             rec.line = run[u].line \cup {r}, rec.before = NoChanges, rec.delta = NoChanges,
             rec.prev = u, rec.chain = run[u].chain
      PROVE  \A v \in Runs : Kept(v) \/ Started(v)
  <2>1. run'[r] = rec
    BY <1>1, <1>3
  <2>2. Started(r)
    BY <1>1, <1>3, <2>1 DEF Started
  <2> QED
    BY <1>1, <1>3, <2>2, OthersKept
<1>4. ASSUME NEW s \in {Successor(r, u), Homeless(r, u)}, Block(r, s)
      PROVE  \A v \in Runs : Kept(v) \/ Started(v)
  <2> DEFINE rec == [s EXCEPT !.phase = "done", !.status = "blocked"]
  <2>1. run' = [run EXCEPT ![r] = rec]
    BY <1>4 DEF Block
  <2>2. /\ rec.phase = "done" /\ rec.prev = u /\ rec.before = NoChanges /\ rec.delta = NoChanges
        /\ rec.chain = run[u].chain /\ rec.line = run[u].line \cup {r}
    BY <1>2 DEF Run
  <2> HIDE DEF rec
  <2> QED
    BY <1>3, <2>1, <2>2
<1>5. CASE RetryStarts(r, u)
  BY <1>2, <1>3, <1>5 DEF RetryStarts
<1> QED
  BY <1>4, <1>5, RetryCases

LEMMA ResolvedKept ==
  ASSUME TypeOK, NEW w \in Runs, NEW u \in Runs, NEW phase \in {"saving", "done"},
         NEW marker \in {"INTEGRATED", "ADOPTED", "DISCARDED"},
         NEW integ \in {"integrated", "failed"}, MarkResolved(w, u, marker, integ, phase)
  PROVE  \A v \in Runs : Kept(v)
<1> TAKE v \in Runs
<1> DEFINE rec == run'[v]
<1>1. phase \in Phases
  BY DEF Phases
<1>2. /\ rec.phase = (IF v = u THEN phase ELSE run[v].phase)
      /\ rec.at = (IF v = u \/ (run[v].marker = w /\ run[v].phase = "done")
                   THEN NoRun ELSE run[v].at)
      /\ SameData(rec, run[v])
  BY <1>1, ResolvedFacts DEF SameData
<1> QED
  BY <1>2 DEF Kept, Early

LEMMA CleanupKept ==
  ASSUME ControlInv, NEW u \in Runs, Cleanup(u)
  PROVE  \A v \in Runs : Kept(v)
<1>1. TypeOK /\ run[u] \in Run
  BY DEF ControlInv, TypeInv, TypeOK
<1>2. CASE run[u].marker # NoRun /\ CleanupAllowed(u)
  <2>1. run[u].marker \in Runs
    BY <1>1, <1>2 DEF Run
  <2>2. MarkResolved(run[u].marker, u, "INTEGRATED", "integrated", "saving")
    BY <1>2 DEF Cleanup
  <2> QED
    BY <1>1, <2>1, <2>2, ResolvedKept
<1>3. CASE ~(run[u].marker # NoRun /\ CleanupAllowed(u))
  <2> DEFINE status == IF cmd.run = u THEN run[u].status ELSE "partial"
  <2>1. run' = [run EXCEPT ![u].phase = "saving", ![u].status = status]
    BY <1>1, <1>3 DEF Cleanup, TypeOK, Run
  <2> HIDE DEF status
  <2>2. run' = [run EXCEPT ![u] = Moved(u, "saving", status, run[u].integ, run[u].unit)]
    BY <1>1, <2>1, StatusMoves
  <2> QED
    BY <1>1, <2>2, MovedKept DEF Early
<1> QED
  BY <1>2, <1>3

LEMMA SaveKept ==
  ASSUME ControlInv, NEW u \in Runs, Save(u)
  PROVE  \A v \in Runs : Kept(v)
<1> DEFINE status == IF cmd.run # u /\ auto /\ run[u].status = "success"
                        /\ run[u].integ \in {"pending", "conflict", "failed"}
                     THEN "partial" ELSE run[u].status
<1>1. TypeOK /\ run' = [run EXCEPT ![u].phase = "done", ![u].status = status]
  BY FieldTypes DEF Save, ControlInv, TypeInv, Run
<1> HIDE DEF status
<1> DEFINE rec == Moved(u, "done", status, run[u].integ, run[u].unit)
<1>2. run' = [run EXCEPT ![u] = rec]
  BY <1>1, StatusMoves
<1>3. SameData(rec, run[u]) /\ rec.phase = "done"
  BY <1>1, MovedFacts DEF SameData
<1> HIDE DEF rec
<1> QED
  BY <1>1, <1>2, <1>3, RecordKept DEF Early, TypeOK

LEMMA IntegratedKept ==
  ASSUME TypeOK, NEW u \in Runs, NEW integ, NEW phase, phase \notin Early, Integrated(u, integ, phase)
  PROVE  \A v \in Runs : Kept(v)
<1>1. run' = [run EXCEPT ![u] = Moved(u, phase, run[u].status, integ, run[u].unit)]
  BY IntegMoves
<1> QED
  BY <1>1, MovedKept

LEMMA PickKept ==
  ASSUME ControlInv, NEW u \in Runs, Pick(u)
  PROVE  \A v \in Runs : Kept(v)
<1>1. TypeOK
  BY DEF ControlInv, TypeInv
<1>2. CASE run' = [run EXCEPT ![u].integ = "integrated", ![u].phase = "cleanup",
                              ![u].unit = wt[run[u].at].log]
  <2>1. run' = [run EXCEPT ![u] = Moved(u, "cleanup", run[u].status, "integrated", wt[run[u].at].log)]
    BY <1>1, <1>2, UnitMoves
  <2> QED
    BY <1>1, <2>1, MovedKept DEF Early
<1>3. CASE \E result \in {"failed", "conflict", run[u].integ} :
             Integrated(u, result, "saving")
  BY <1>1, <1>3, IntegratedKept DEF Early
<1> QED
  BY <1>2, <1>3, PickCases

LEMMA CommitPartialKept ==
  ASSUME ControlInv, NEW u \in Runs, CommitPartial(u)
  PROVE  \A v \in Runs : Kept(v)
<1>1. TypeOK /\ run \in [Runs -> Run] /\ run[u] \in Run
  BY DEF ControlInv, TypeInv, TypeOK
<1>2. ASSUME NEW res, CommittedAs(u, res)
      PROVE  \A v \in Runs : Kept(v)
  <2> DEFINE phase == IF Isolated(u) /\ res.commit = "committed" THEN "integrating" ELSE "saving"
             new == [run[u] EXCEPT !.commit = res.commit, !.sha = res.sha, !.phase = phase]
  <2>1. run' = [run EXCEPT ![u] = new]
    BY <1>1, <1>2 DEF CommittedAs, Run
  <2>2. phase \notin Early
    BY DEF Early
  <2> HIDE DEF phase
  <2>3. SameData(new, run[u]) /\ new.phase \notin Early
    BY <1>1, <2>2 DEF Run, SameData
  <2> HIDE DEF new
  <2> QED
    BY <1>1, <2>1, <2>3, RecordKept
<1> QED
  BY <1>2, CommitPartialCases

LEMMA RunDataStep ==
  ASSUME ControlInv, NEW r \in Runs, RunStep(r)
  PROVE  \A v \in Runs : DataStep(v)
<1>1. TypeOK /\ run \in [Runs -> Run]
  BY DEF ControlInv, TypeInv, TypeOK
<1>2. CASE Delegate(r)
  BY <1>2, DelegateData DEF DataStep
<1>3. CASE \E u \in Runs : Retry(r, u)
  BY <1>3, RetryData DEF DataStep
<1>4. CASE Begin(r)
  <2> DEFINE rec == [run[r] EXCEPT !.phase = "running", !.before = DetailsAt(r),
                                   !.chain = Owned(r, DetailsAt(r))]
  <2>1. run' = [run EXCEPT ![r] = rec]
    BY <1>1, <1>4 DEF Begin
  <2> HIDE DEF rec
  <2> QED
    BY <1>1, <1>4, <2>1, OthersKept DEF DataStep
<1>5. CASE BeginRefused(r)
  BY <1>1, <1>5, BlockKept DEF BeginRefused, DataStep
<1>6. CASE Execute(r)
  <2>1. PICK status \in {"success", "partial", "failed", "limited"} :
          run' = [run EXCEPT ![r].phase = "worked", ![r].status = status]
    BY <1>1, <1>6, ExecuteCases
  <2>2. run' = [run EXCEPT ![r] = Moved(r, "worked", status, run[r].integ, run[r].unit)]
    BY <1>1, <2>1, StatusMoves
  <2> QED
    BY <1>1, <1>6, <2>2, OthersKept DEF DataStep
<1>7. CASE \E ok \in BOOLEAN : Finish(r, ok)
  <2>1. \E rec : run' = [run EXCEPT ![r] = rec]
    <3>1. CASE FinishedAsIs(r)
      BY <3>1 DEF FinishedAsIs
    <3>2. ASSUME NEW res, FinishedWith(r, res) PROVE \E rec : run' = [run EXCEPT ![r] = rec]
      BY <3>2 DEF FinishedWith
    <3> QED
      BY <1>7, <3>1, <3>2, FinishCases
  <2> QED
    BY <1>1, <1>7, <2>1, OthersKept DEF DataStep
<1>8. CASE AcquireRoot(r)
  BY <1>1, <1>8, IntegratedKept DEF AcquireRoot, Early, DataStep
<1>9. CASE Pick(r)
  BY <1>9, PickKept DEF DataStep
<1>10. CASE Cleanup(r)
  BY <1>10, CleanupKept DEF DataStep
<1>11. CASE Save(r)
  BY <1>11, SaveKept DEF DataStep
<1> QED
  BY <1>2, <1>3, <1>4, <1>5, <1>6, <1>7, <1>8, <1>9, <1>10, <1>11 DEF RunStep

LEMMA OperatorDataStep ==
  ASSUME ControlInv, NEW u \in Runs, OperatorStep(u) \/ Crash(u)
  PROVE  \A v \in Runs : Kept(v)
<1>1. TypeOK
  BY DEF ControlInv, TypeInv
<1>2. ASSUME NEW op, NEW phase, phase \notin Early, Command(op, u, phase)
      PROVE  \A v \in Runs : Kept(v)
  BY <1>1, <1>2, PhaseKept DEF Command
<1>3. CASE AdoptIntegrated(u) \/ AdoptCommitted(u) \/ Discard(u)
  BY <1>2, <1>3 DEF AdoptIntegrated, AdoptCommitted, Discard, Early
<1>4. CASE AdoptFiles(u) \/ RecordAdopted(u) \/ AdoptFails(u)
  BY <1>1, <1>4, PhaseKept DEF AdoptFiles, RecordAdopted, AdoptFails, Early
<1>5. CASE \E p \in Paths : CopyFile(u, p)
  BY <1>5 DEF CopyFile, Kept, SameData
<1>6. CASE RemoveWorktree(u)
  <2>1. /\ run[u].at \in Runs
        /\ \/ MarkResolved(run[u].at, u, "ADOPTED", "integrated", "done")
           \/ MarkResolved(run[u].at, u, "DISCARDED", "failed", "done")
    BY <1>6, RemoveWorktreeType DEF ControlInv
  <2> QED
    BY <1>1, <2>1, ResolvedKept
<1>7. CASE CommitPartial(u)
  BY <1>7, CommitPartialKept
<1>8. CASE Crash(u)
  <2>1. \E phase \in {"done", "dead"} : run' = [run EXCEPT ![u].phase = phase]
    BY <1>8, CrashCases
  <2> QED
    BY <1>1, <2>1, PhaseKept DEF Early
<1> QED
  BY <1>3, <1>4, <1>5, <1>6, <1>7, <1>8 DEF OperatorStep

LEMMA DataSteps ==
  ASSUME ControlInv, [Next]_vars
  PROVE  \A v \in Runs : DataStep(v)
<1>1. CASE UNCHANGED run
  BY <1>1 DEF DataStep, Kept, SameData
<1>2. CASE UserStep
  BY <1>1, <1>2, UserControl
<1> QED
  BY <1>1, <1>2, RunDataStep, OperatorDataStep DEF Next, vars, DataStep

(* The steps in which a record is filled.                                  *)
LEMMA BeginFacts ==
  ASSUME ControlInv, NEW r \in Runs, Begin(r)
  PROVE  /\ run[r].phase = "prepared" /\ run'[r].phase = "running" /\ run'[r].at = run[r].at
         /\ run'[r].before = DetailsAt(r) /\ run'[r].chain = Owned(r, DetailsAt(r))
         /\ run'[r].line = run[r].line /\ run'[r].delta = run[r].delta /\ run'[r].prev = run[r].prev
<1> DEFINE before == DetailsAt(r)
           chain == Owned(r, DetailsAt(r))
           rec == [run[r] EXCEPT !.phase = "running", !.before = before, !.chain = chain]
<1>1. run \in [Runs -> Run] /\ run[r] \in Run
  BY DEF ControlInv, TypeInv, TypeOK
<1>2. run' = [run EXCEPT ![r] = rec] /\ run[r].phase = "prepared"
  BY <1>1 DEF Begin
<1> HIDE DEF before, chain
<1>3. /\ rec.phase = "running" /\ rec.at = run[r].at /\ rec.before = before /\ rec.chain = chain
      /\ rec.line = run[r].line /\ rec.delta = run[r].delta /\ rec.prev = run[r].prev
  BY <1>1 DEF Run
<1> HIDE DEF rec
<1>4. run'[r] = rec
  BY <1>1, <1>2
<1> QED
  BY <1>2, <1>3, <1>4 DEF before, chain

LEMMA ExecuteFacts ==
  ASSUME ControlInv, NEW r \in Runs, Execute(r)
  PROVE  /\ run[r].phase = "running" /\ run'[r].phase = "worked" /\ run'[r].at = run[r].at
         /\ SameData(run'[r], run[r])
<1>1. TypeOK /\ run \in [Runs -> Run]
  BY DEF ControlInv, TypeInv, TypeOK
<1>2. PICK status \in {"success", "partial", "failed", "limited"} :
        run' = [run EXCEPT ![r].phase = "worked", ![r].status = status]
  BY <1>1, ExecuteCases
<1> DEFINE rec == Moved(r, "worked", status, run[r].integ, run[r].unit)
<1>3. run' = [run EXCEPT ![r] = rec]
  BY <1>1, <1>2, StatusMoves
<1>4. SameData(rec, run[r]) /\ rec.phase = "worked" /\ rec.at = run[r].at
  BY <1>1, MovedFacts DEF SameData
<1> HIDE DEF rec
<1>5. run'[r] = rec /\ run[r].phase = "running"
  BY <1>1, <1>3, ExecuteCases
<1> QED
  BY <1>4, <1>5

LEMMA FinishFacts ==
  ASSUME ControlInv, NEW r \in Runs, NEW ok \in BOOLEAN, Finish(r, ok)
  PROVE  /\ run[r].phase = "worked" /\ run'[r].phase \in {"saving", "integrating"}
         /\ run'[r].delta = Delta(run[r].before, DetailsAt(r))
         /\ run'[r].chain = run[r].chain \cup (DOMAIN run'[r].delta \ DOMAIN run[r].before)
         /\ run'[r].before = run[r].before /\ run'[r].line = run[r].line
         /\ run'[r].prev = run[r].prev
<1> DEFINE D == Delivered(r)
<1>1. TypeOK /\ run \in [Runs -> Run]
  BY DEF ControlInv, TypeInv, TypeOK
<1>2. /\ D \in Run /\ D.delta = Delta(run[r].before, DetailsAt(r))
      /\ D.chain = run[r].chain \cup (DOMAIN D.delta \ DOMAIN run[r].before)
      /\ D.before = run[r].before /\ D.line = run[r].line /\ D.prev = run[r].prev
  BY <1>1, DeliveredFacts
<1> HIDE DEF D
<1>3. ASSUME NEW rec, run' = [run EXCEPT ![r] = rec], rec.phase \in {"saving", "integrating"},
             SameData(rec, D)
      PROVE  run'[r].phase \in {"saving", "integrating"} /\ SameData(run'[r], D)
  BY <1>1, <1>3
<1>4. CASE FinishedAsIs(r)
  <2> DEFINE commit == IF auto THEN "skipped" ELSE "disabled"
             new == [D EXCEPT !.phase = "saving", !.commit = commit]
  <2>1. run' = [run EXCEPT ![r] = new]
    BY <1>4 DEF FinishedAsIs, D
  <2> HIDE DEF commit
  <2>2. new.phase = "saving" /\ SameData(new, D)
    BY <1>2 DEF Run, SameData
  <2> HIDE DEF new
  <2>3. run'[r].phase \in {"saving", "integrating"} /\ SameData(run'[r], D)
    BY <1>3, <2>1, <2>2
  <2> QED
    BY <1>2, <2>3, FinishCases DEF SameData
<1>5. ASSUME NEW res, FinishedWith(r, res)
      PROVE  run'[r].phase \in {"saving", "integrating"} /\ SameData(run'[r], D)
  <2> DEFINE phase == IF Isolated(r) /\ res.commit # "failed" THEN "integrating" ELSE "saving"
             status == IF res.commit = "failed" THEN "partial" ELSE D.status
             new == [D EXCEPT !.phase = phase, !.status = status,
                       !.commit = res.commit, !.sha = res.sha]
  <2>1. run' = [run EXCEPT ![r] = new]
    BY <1>2, <1>5 DEF FinishedWith, D, Run
  <2>2. phase \in {"saving", "integrating"}
    OBVIOUS
  <2> HIDE DEF phase, status
  <2>3. new.phase = phase /\ SameData(new, D)
    BY <1>2 DEF Run, SameData
  <2> HIDE DEF new
  <2> QED
    BY <1>3, <2>1, <2>2, <2>3
<1> QED
  BY <1>2, <1>4, <1>5, FinishCases DEF SameData

-----------------------------------------------------------------------------
(* What the records of a retry chain say.                                  *)
ChainInv ==
  \A r \in Runs :
    /\ run[r].phase \in {"prepared", "running", "worked"} => r \in run[r].line
    /\ \A p \in DOMAIN run[r].before \cap run[r].chain : run[r].before[p] \in run[r].line
    /\ \A p \in DOMAIN run[r].delta : run[r].delta[p] = r /\ r \in run[r].line
    /\ run[r].phase = "prepared" =>
         IF run[r].prev = NoRun THEN run[r].chain = {}
         ELSE /\ run[r].chain \subseteq run[run[r].prev].chain
              /\ run[run[r].prev].line \subseteq run[r].line
              /\ run[run[r].prev].phase \notin Early

(* What is uncommitted where a run works: the baseline, then its own work. *)
WorkInv ==
  \A r \in Runs :
    /\ run[r].phase = "running" => run[r].before = DetailsAt(r)
    /\ run[r].phase = "worked" =>
         \A p \in DOMAIN DetailsAt(r) :
           DetailsAt(r)[p] = r \/ <<p, DetailsAt(r)[p]>> \in Pairs(run[r].before)

LEMMA RetryableIsOver ==
  ASSUME ControlInv, NEW u \in Runs, Retryable(u)
  PROVE  run[u].phase \notin Early
BY DEF Retryable, Finalized, ControlInv, CommandInv, Early

LEMMA LinesGrow ==
  ASSUME ControlInv, [Next]_vars
  PROVE  \A r \in Runs : run[r].line \subseteq run'[r].line
<1> TAKE r \in Runs
<1>1. CASE Started(r)
  <2>1. run[r].line = {}
    BY <1>1, UnstartedType DEF Started, ControlInv, StartInv
  <2> QED
    BY <2>1
<1>2. CASE Kept(r)
  BY <1>2 DEF Kept, SameData
<1>3. CASE Begin(r) \/ Execute(r) \/ \E ok \in BOOLEAN : Finish(r, ok)
  BY <1>3, BeginFacts, ExecuteFacts, FinishFacts DEF SameData
<1> QED
  BY <1>1, <1>2, <1>3, DataSteps DEF DataStep

LEMMA PairsFact ==
  ASSUME NEW f, NEW p, NEW c
  PROVE  <<p, c>> \in Pairs(f) <=> p \in DOMAIN f /\ f[p] = c
BY DEF Pairs

(* What the predecessor recorded at a path of its chain was written by its *)
(* line.                                                                   *)
LEMMA OwnedFacts ==
  ASSUME ControlInv, ChainInv, NEW r \in Runs, run[r].phase = "prepared", NEW now,
         NEW p \in DOMAIN now \cap Owned(r, now)
  PROVE  now[p] \in run[r].line
<1>1. run[r].prev \in Runs \cup {NoRun}
  <2>1. run[r] \in Run
    BY DEF ControlInv, TypeInv, TypeOK
  <2> QED
    BY <2>1 DEF Run
<1>2. CASE run[r].prev = NoRun
  BY <1>2 DEF Owned, ChainInv
<1>3. CASE run[r].prev # NoRun
  <2> DEFINE u == run[r].prev
  <2>1. /\ u \in Runs /\ p \in run[r].chain /\ <<p, now[p]>> \in Recorded(u)
        /\ p \in run[u].chain /\ run[u].line \subseteq run[r].line
    BY <1>1, <1>3 DEF Owned, ChainInv
  <2>2. <<p, now[p]>> \in Pairs(run[u].before) \/ <<p, now[p]>> \in Pairs(run[u].delta)
    BY <2>1 DEF Recorded
  <2> HIDE DEF u
  <2>3. now[p] \in run[u].line
    BY <2>1, <2>2, PairsFact DEF ChainInv
  <2> QED
    BY <2>1, <2>3
<1> QED
  BY <1>2, <1>3

LEMMA ChainStep ==
  ASSUME ControlInv, ChainInv, WorkInv, [Next]_vars
  PROVE  ChainInv'
<1> USE DEF Early
<1>1. ASSUME NEW r \in Runs
      PROVE  run'[r].phase \in {"prepared", "running", "worked"} => r \in run'[r].line
  BY DataSteps, BeginFacts, ExecuteFacts, FinishFacts DEF DataStep, Kept, SameData, Started, ChainInv
<1>2. ASSUME NEW r \in Runs, NEW p \in DOMAIN run'[r].before \cap run'[r].chain
      PROVE  run'[r].before[p] \in run'[r].line
  <2>1. CASE Kept(r) \/ Execute(r)
    BY <1>2, <2>1, ExecuteFacts DEF Kept, SameData, ChainInv
  <2>2. CASE Started(r)
    BY <1>2, <2>2, NoChangesType DEF Started
  <2>3. CASE Begin(r)
    BY <1>2, <2>3, BeginFacts, OwnedFacts
  <2>4. CASE \E ok \in BOOLEAN : Finish(r, ok)
    <3>1. p \in DOMAIN run[r].before \cap run[r].chain /\ run'[r].before = run[r].before
          /\ run'[r].line = run[r].line
      BY <1>2, <2>4, FinishFacts
    <3> QED
      BY <3>1 DEF ChainInv
  <2> QED
    BY <2>1, <2>2, <2>3, <2>4, DataSteps DEF DataStep
<1>3. ASSUME NEW r \in Runs, NEW p \in DOMAIN run'[r].delta
      PROVE  run'[r].delta[p] = r /\ r \in run'[r].line
  <2>1. CASE Kept(r) \/ Execute(r) \/ Begin(r)
    <3>1. run'[r].delta = run[r].delta /\ run'[r].line = run[r].line
      BY <2>1, ExecuteFacts, BeginFacts DEF Kept, SameData
    <3> QED
      BY <1>3, <3>1 DEF ChainInv
  <2>2. CASE Started(r)
    BY <1>3, <2>2, NoChangesType DEF Started
  <2>3. CASE \E ok \in BOOLEAN : Finish(r, ok)
    <3> DEFINE now == DetailsAt(r)
    <3>1. /\ run[r].phase = "worked" /\ run'[r].delta = Delta(run[r].before, now)
          /\ run'[r].line = run[r].line
      BY <2>3, FinishFacts
    <3>2. p \in DOMAIN now /\ <<p, now[p]>> \notin Pairs(run[r].before) /\ run'[r].delta[p] = now[p]
      BY <1>3, <3>1 DEF Delta
    <3> QED
      BY <3>1, <3>2 DEF WorkInv, ChainInv
  <2> QED
    BY <2>1, <2>2, <2>3, DataSteps DEF DataStep
<1>4. ASSUME NEW u \in Runs, run[u].phase \notin Early
      PROVE  run'[u].phase \notin Early /\ run'[u].chain = run[u].chain /\ run'[u].line = run[u].line
  <2>1. Kept(u)
    BY <1>4, DataSteps, BeginFacts, ExecuteFacts, FinishFacts DEF DataStep, Started
  <2> QED
    BY <1>4, <2>1 DEF Kept, SameData
<1>5. ASSUME NEW r \in Runs, run'[r].phase = "prepared"
      PROVE  IF run'[r].prev = NoRun THEN run'[r].chain = {}
             ELSE /\ run'[r].chain \subseteq run'[run'[r].prev].chain
                  /\ run'[run'[r].prev].line \subseteq run'[r].line
                  /\ run'[run'[r].prev].phase \notin Early
  <2>1. CASE Kept(r)
    <3>1. /\ run[r].phase = "prepared" /\ run'[r].prev = run[r].prev /\ run'[r].chain = run[r].chain
          /\ run'[r].line = run[r].line
      BY <1>5, <2>1 DEF Kept, SameData
    <3>2. run[r].prev \in Runs \cup {NoRun}
      <4>1. run[r] \in Run
        BY DEF ControlInv, TypeInv, TypeOK
      <4> QED
        BY <4>1 DEF Run
    <3> QED
      BY <1>4, <3>1, <3>2 DEF ChainInv
  <2>2. CASE Started(r)
    <3>1. CASE run'[r].prev = NoRun /\ run'[r].chain = {}
      BY <3>1
    <3>2. ASSUME NEW u \in Runs, Retryable(u), run'[r].prev = u, run'[r].chain = run[u].chain,
                 run'[r].line = run[u].line \cup {r}
          PROVE  run'[r].prev # NoRun /\ run'[r].chain \subseteq run'[u].chain
                 /\ run'[u].line \subseteq run'[r].line /\ run'[u].phase \notin Early
      BY <1>4, <3>2, RetryableIsOver, Names
    <3> QED
      BY <2>2, <3>1, <3>2 DEF Started
  <2> QED
    BY <1>5, <2>1, <2>2, DataSteps, BeginFacts, ExecuteFacts, FinishFacts DEF DataStep
<1> QED
  BY <1>1, <1>2, <1>3, <1>5 DEF ChainInv

-----------------------------------------------------------------------------
(* What a run commits was written by its line.                             *)
Owns(r, paths) == \A p \in paths : p \in Paths /\ TreeAtPlace(r)[p] \in run[r].line

LEMMA CommitPathsFact ==
  ASSUME NEW rec, NEW now, NEW p \in CommitPaths(rec, now)
  PROVE  /\ p \in DOMAIN now /\ (p \in DOMAIN rec.before => p \in rec.chain)
         /\ rec.at = NoRun => p \in DOMAIN rec.delta \cup (DOMAIN rec.before \cap rec.chain)
BY DEF CommitPaths

LEMMA FinishPaths ==
  ASSUME ControlInv, ChainInv, WorkInv, NEW r \in Runs, run[r].phase = "worked"
  PROVE  Owns(r, CommitPaths(Delivered(r), DetailsAt(r)))
<1> DEFINE now == DetailsAt(r)
           D == Delivered(r)
<1>1. /\ DOMAIN now \subseteq Paths /\ \A p \in DOMAIN now : now[p] = TreeAtPlace(r)[p]
      /\ D.before = run[r].before
      /\ D.chain = run[r].chain \cup (DOMAIN D.delta \ DOMAIN run[r].before)
  BY PlaceFacts, DeliveredFacts DEF ControlInv, TypeInv
<1> HIDE DEF now, D
<1>2. ASSUME NEW p \in CommitPaths(D, now)
      PROVE  p \in Paths /\ TreeAtPlace(r)[p] \in run[r].line
  <2>1. p \in DOMAIN now /\ (p \in DOMAIN run[r].before => p \in run[r].chain)
    BY <1>1, CommitPathsFact
  <2>2. now[p] = r \/ (p \in DOMAIN run[r].before /\ run[r].before[p] = now[p])
    BY <2>1, PairsFact DEF WorkInv, now
  <2> QED
    BY <1>1, <2>1, <2>2 DEF ChainInv
<1> QED
  BY <1>2 DEF Owns, now, D

LEMMA CommitPartialPaths ==
  ASSUME ControlInv, ChainInv, NEW u \in Runs, MatchesRecord(u, DetailsAt(u))
  PROVE  Owns(u, CommitPaths(run[u], DetailsAt(u)))
<1> DEFINE now == DetailsAt(u)
           verify == DOMAIN run[u].delta \cup (DOMAIN run[u].before \cap run[u].chain)
<1>1. DOMAIN now \subseteq Paths /\ \A p \in DOMAIN now : now[p] = TreeAtPlace(u)[p]
  BY PlaceFacts DEF ControlInv, TypeInv
<1>2. /\ \A p \in verify : p \in DOMAIN now
           /\ now[p] = IF p \in DOMAIN run[u].delta THEN run[u].delta[p] ELSE run[u].before[p]
      /\ Isolated(u) => DOMAIN now \subseteq verify
  BY DEF MatchesRecord
<1> HIDE DEF now
<1>3. ASSUME NEW p \in CommitPaths(run[u], now)
      PROVE  p \in Paths /\ TreeAtPlace(u)[p] \in run[u].line
  <2>1. p \in verify /\ p \in DOMAIN now
    BY <1>2, CommitPathsFact DEF Isolated
  <2>2. now[p] \in run[u].line
    BY <1>2, <2>1 DEF ChainInv
  <2> QED
    BY <1>1, <2>1, <2>2
<1> QED
  BY <1>3 DEF Owns, now

Commits(r) == CommitPartial(r) \/ \E ok \in BOOLEAN : Finish(r, ok)

(* What a step may do to isolated worktree w, and to the root worktree.    *)
WtKept(w) == wt'[w].log = wt[w].log /\ wt'[w].tree = wt[w].tree

WtMove(w) ==
  \/ WtKept(w)
  \/ Delegate(w) /\ wt'[w].log = RootLog /\ wt'[w].tree = TreeOf(RootLog)
  \/ \E r \in Runs, written \in SUBSET Paths, undone \in SUBSET Paths :
       /\ Execute(r) /\ run[r].at = w
       /\ wt'[w].log = wt[w].log /\ wt'[w].tree = Written(r, written, undone)
  \/ \E r \in Runs : \E paths :
       /\ Commits(r) /\ run[r].at = w /\ Owns(r, paths) /\ wt'[w].tree = wt[w].tree
       /\ wt'[w].log = Committed(wt[w].log, r, wt[w].tree, paths)
  \/ \E p \in Paths :
       /\ UserFixes(w, p)
       /\ wt'[w].log = wt[w].log /\ wt'[w].tree = [wt[w].tree EXCEPT ![p] = "fix"]

OldHead(log) == \E c \in DOMAIN root.heads : log = root.heads[c]

RootKept ==
  /\ root'.tree = root.tree /\ Head1(root') = RootLog
  /\ \A b \in DOMAIN root'.heads : OldHead(root'.heads[b])

HeadsKept == root'.heads = root.heads /\ root'.branch = root.branch

RootCommits(r, paths) ==
  /\ Commits(r) /\ ~Isolated(r) /\ Owns(r, paths) /\ root'.tree = root.tree
  /\ Head1(root') = Committed(RootLog, r, root.tree, paths)
  /\ \A b \in DOMAIN root'.heads : root'.heads[b] = Head1(root') \/ OldHead(root'.heads[b])

RootPicks(u) ==
  /\ Pick(u) \/ Crash(u)
  /\ run[u].phase = "picking" /\ ~PickRefused(u)
  /\ root' = PickedRoot(run[u].at) \/ root' = StuckRoot(run[u].at)

RootMove ==
  \/ RootKept
  \/ \E r \in Runs, written \in SUBSET Paths, undone \in SUBSET Paths :
       Execute(r) /\ ~Isolated(r) /\ HeadsKept /\ root'.tree = Written(r, written, undone)
  \/ \E r \in Runs : \E paths : RootCommits(r, paths)
  \/ \E u \in Runs : RootPicks(u)
  \/ \E u \in Runs, p \in Paths : CopyFile(u, p) /\ HeadsKept
  \/ \E u \in Runs : AdoptFails(u) /\ HeadsKept
  \/ \E p \in Paths : UserEdits(p) /\ HeadsKept
  \/ UserSwitches
  \/ UserAborts /\ HeadsKept

(* A commit of run r on its record rec.                                    *)
LEMMA CommitMoves ==
  ASSUME ControlInv, NEW r \in Runs, Commits(r), NEW rec \in Run, rec.at = run[r].at,
         Owns(r, CommitPaths(rec, DetailsAt(r))),
         NEW rt, WellRooted(rt), rt.tree = root.tree, Head1(rt) = RootLog,
         \A b \in DOMAIN rt.heads : OldHead(rt.heads[b]),
         NEW ok \in BOOLEAN, NEW res, res = AutoCommitted(r, rec, DetailsAt(r), rt, ok),
         root' = res.root, wt' = res.wt
  PROVE  RootMove /\ \A w \in Runs : WtMove(w)
<1>1. WtWell
  BY TypeFacts DEF ControlInv, TypeInv
<1>2. CASE NoCommit(rec, rt, res)
  BY <1>2 DEF NoCommit, RootMove, RootKept, WtMove, WtKept
<1>3. CASE RootCommit(r, rec, DetailsAt(r), rt, res)
  <2> DEFINE paths == res.paths
             log == Committed(RootLog, r, root.tree, paths)
  <2>1. /\ ~Isolated(r) /\ Owns(r, paths) /\ UNCHANGED wt
        /\ root' = [rt EXCEPT !.heads[rt.branch] = log]
    BY <1>3 DEF RootCommit, Isolated
  <2>2. log \in Seq(Commit)
    <3>1. RootLog \in Seq(Commit) /\ root.tree \in Tree
      BY TypeFacts, RootFacts DEF ControlInv, TypeInv
    <3> QED
      BY <3>1, CommittedType
  <2> HIDE DEF paths, log
  <2>3. /\ Head1(root') = log /\ root'.tree = rt.tree /\ DOMAIN root'.heads = DOMAIN rt.heads
        /\ root'.branch = rt.branch /\ \A b \in DOMAIN rt.heads : b # rt.branch => root'.heads[b] = rt.heads[b]
    BY <2>1, <2>2, NewHead
  <2>4. \A b \in DOMAIN root'.heads : root'.heads[b] = Head1(root') \/ OldHead(root'.heads[b])
    BY <2>3 DEF Head1
  <2>5. RootCommits(r, paths)
    BY <2>1, <2>3, <2>4 DEF RootCommits, log
  <2> QED
    BY <2>1, <2>5 DEF RootMove, WtMove, WtKept
<1>4. CASE WtCommit(r, rec, DetailsAt(r), rt, res)
  <2> DEFINE w == run[r].at
             paths == res.paths
             log == Committed(wt[w].log, r, wt[w].tree, paths)
  <2>1. /\ w \in Runs /\ Owns(r, paths) /\ root' = rt /\ wt' = [wt EXCEPT ![w].log = log]
    BY <1>4 DEF WtCommit
  <2>2. wt \in [Runs -> Worktree] /\ wt[w] \in Worktree
    BY <1>1, <2>1 DEF WtWell
  <2> HIDE DEF log, paths
  <2>3. /\ wt'[w].log = log /\ wt'[w].tree = wt[w].tree
        /\ \A v \in Runs \ {w} : wt'[v] = wt[v]
    BY <2>1, <2>2 DEF Worktree
  <2>4. WtMove(w)
    BY <2>1, <2>3 DEF WtMove, log
  <2>5. \A v \in Runs \ {w} : WtMove(v)
    BY <2>3 DEF WtMove, WtKept
  <2> QED
    BY <2>1, <2>4, <2>5 DEF RootMove, RootKept
<1> QED
  BY <1>2, <1>3, <1>4, AutoCommitCases

RootSame == root' = root \/ root' = EnsureWorkBranch(root)

LEMMA RootSameKept ==
  ASSUME ControlInv, RootSame
  PROVE  RootKept
<1>1. WellRooted(root)
  BY TypeFacts DEF ControlInv, TypeInv
<1>2. OldHead(RootLog) /\ \A b \in DOMAIN root.heads : OldHead(root.heads[b])
  BY <1>1 DEF OldHead, RootLog, Head1, WellRooted
<1> QED
  BY <1>1, <1>2, EnsureFacts DEF RootKept, RootSame, RootLog

LEMMA FinishMoves ==
  ASSUME ControlInv, ChainInv, WorkInv, NEW r \in Runs, NEW ok \in BOOLEAN, Finish(r, ok)
  PROVE  RootMove /\ \A w \in Runs : WtMove(w)
<1>1. /\ Delivered(r) \in Run /\ Delivered(r).at = run[r].at /\ WellRooted(root)
      /\ run[r].phase = "worked"
  BY DeliveredFacts, TypeFacts, FinishCases DEF ControlInv, TypeInv
<1>2. CASE FinishedAsIs(r)
  BY <1>2, RootSameKept DEF FinishedAsIs, RootMove, WtMove, WtKept, RootSame
<1>3. ASSUME NEW res, res = AutoCommitted(r, Delivered(r), DetailsAt(r), root, ok), FinishedWith(r, res)
      PROVE  RootMove /\ \A w \in Runs : WtMove(w)
  <2>1. Owns(r, CommitPaths(Delivered(r), DetailsAt(r))) /\ Commits(r)
    BY <1>1, FinishPaths DEF Commits
  <2>2. Head1(root) = RootLog /\ \A b \in DOMAIN root.heads : OldHead(root.heads[b])
    BY DEF RootLog, OldHead
  <2> QED
    BY <1>1, <1>3, <2>1, <2>2, CommitMoves DEF FinishedWith
<1> QED
  BY <1>2, <1>3, FinishCases

LEMMA CommitPartialMoves ==
  ASSUME ControlInv, ChainInv, WorkInv, NEW u \in Runs, CommitPartial(u)
  PROVE  RootMove /\ \A w \in Runs : WtMove(w)
<1>1. /\ run[u] \in Run /\ WellRooted(root) /\ MatchesRecord(u, DetailsAt(u))
  BY TypeFacts, CommitPartialCases DEF ControlInv, TypeInv
<1>2. PICK ok \in BOOLEAN :
        CommittedAs(u, AutoCommitted(u, run[u], DetailsAt(u), CommitRoot(u), ok))
  BY CommitPartialCases
<1> DEFINE rt == CommitRoot(u)
           res == AutoCommitted(u, run[u], DetailsAt(u), rt, ok)
<1>3. Owns(u, CommitPaths(run[u], DetailsAt(u))) /\ Commits(u)
  BY <1>1, CommitPartialPaths DEF Commits
<1>4. OldHead(RootLog) /\ \A b \in DOMAIN root.heads : OldHead(root.heads[b])
  BY <1>1 DEF OldHead, RootLog, Head1, WellRooted
<1>5. /\ WellRooted(rt) /\ rt.tree = root.tree /\ Head1(rt) = RootLog
      /\ \A b \in DOMAIN rt.heads : OldHead(rt.heads[b])
  BY <1>1, <1>4, EnsureFacts DEF CommitRoot, RootLog
<1>6. root' = res.root /\ wt' = res.wt
  BY <1>2 DEF CommittedAs
<1> HIDE DEF rt
<1> QED
  BY <1>1, <1>3, <1>5, <1>6, CommitMoves

LEMMA ExecuteMoves ==
  ASSUME ControlInv, NEW r \in Runs, Execute(r)
  PROVE  RootMove /\ \A w \in Runs : WtMove(w)
<1>1. TypeOK /\ WtWell /\ WellRooted(root)
  BY TypeFacts DEF ControlInv, TypeInv
<1>2. PICK written \in SUBSET Paths, undone \in SUBSET Paths :
        IF Isolated(r)
        THEN wt' = [wt EXCEPT ![run[r].at].tree = Written(r, written, undone)] /\ UNCHANGED root
        ELSE root' = [root EXCEPT !.tree = Written(r, written, undone)] /\ UNCHANGED wt
  BY <1>1, ExecuteCases
<1>3. Written(r, written, undone) \in Tree
  BY <1>1, WrittenType
<1>4. CASE Isolated(r)
  <2>1. run[r].at \in Runs
    BY <1>1, <1>4, PlaceFacts
  <2>2. /\ \A v \in Runs : wt'[v].log = wt[v].log
        /\ wt'[run[r].at].tree = Written(r, written, undone)
        /\ \A v \in Runs \ {run[r].at} : wt'[v] = wt[v]
    BY <1>1, <1>2, <1>3, <1>4, <2>1, NewWtTree
  <2>3. WtMove(run[r].at)
    BY <2>1, <2>2 DEF WtMove
  <2>4. \A v \in Runs \ {run[r].at} : WtMove(v)
    BY <2>2 DEF WtMove, WtKept
  <2> QED
    BY <1>2, <1>4, <2>3, <2>4, RootSameKept DEF RootMove, RootSame
<1>5. CASE ~Isolated(r)
  <2> DEFINE tree == Written(r, written, undone)
  <2>1. tree \in Tree /\ root' = [root EXCEPT !.tree = tree] /\ UNCHANGED wt
    BY <1>2, <1>3, <1>5
  <2> HIDE DEF tree
  <2>2. HeadsKept /\ root'.tree = tree
    BY <1>1, <2>1, NewTreeOnly DEF HeadsKept
  <2> QED
    BY <1>5, <2>1, <2>2 DEF RootMove, WtMove, WtKept, tree
<1> QED
  BY <1>4, <1>5

LEMMA DelegateMoves ==
  ASSUME ControlInv, NEW r \in Runs, Delegate(r)
  PROVE  RootMove /\ \A w \in Runs : WtMove(w)
<1>1. CASE UNCHANGED wt
  BY <1>1, RootSameKept DEF Delegate, CreateIsolatedWorktree, RootMove, WtMove, WtKept, RootSame
<1>2. CASE wt' = [wt EXCEPT ![r] = [there |-> TRUE, log |-> RootLog,
                                    base |-> Len(RootLog), tree |-> TreeOf(RootLog)]]
  <2> DEFINE place == [there |-> TRUE, log |-> RootLog, base |-> Len(RootLog), tree |-> TreeOf(RootLog)]
  <2>1. place.log = RootLog /\ place.tree = TreeOf(RootLog) /\ wt' = [wt EXCEPT ![r] = place]
    BY <1>2
  <2> HIDE DEF place
  <2>2. wt \in [Runs -> Worktree]
    BY DEF ControlInv, TypeInv, TypeOK
  <2>3. wt'[r].log = RootLog /\ wt'[r].tree = TreeOf(RootLog) /\ \A v \in Runs \ {r} : wt'[v] = wt[v]
    BY <2>1, <2>2
  <2>4. WtMove(r) /\ \A v \in Runs \ {r} : WtMove(v)
    BY <2>3 DEF WtMove, WtKept
  <2> QED
    BY <2>4, RootSameKept DEF Delegate, CreateIsolatedWorktree, RootMove, RootSame
<1> QED
  BY <1>1, <1>2 DEF Delegate, CreateIsolatedWorktree, Block

LEMMA PlaceMoves ==
  ASSUME ControlInv, ChainInv, WorkInv, [Next]_vars
  PROVE  RootMove /\ \A w \in Runs : WtMove(w)
<1>1. WellRooted(root) /\ WtWell
  BY TypeFacts DEF ControlInv, TypeInv
<1>2. CASE RootSame /\ \A w \in Runs : WtKept(w)
  BY <1>2, RootSameKept DEF RootMove, WtMove
<1>3. ASSUME NEW w \in Runs, wt' = [wt EXCEPT ![w].there = FALSE]
      PROVE  \A v \in Runs : WtKept(v)
  BY <1>1, <1>3, NewWtThere DEF WtKept
<1>4. ASSUME NEW r \in Runs, RunStep(r)
      PROVE  RootMove /\ \A w \in Runs : WtMove(w)
  <2>1. CASE \E u \in Runs : Retry(r, u)
    <3>1. UNCHANGED <<root, wt>>
      BY <2>1, RetryCases DEF Block, RetryStarts
    <3> QED
      BY <1>2, <3>1 DEF RootSame, WtKept
  <2>2. CASE Begin(r) \/ BeginRefused(r) \/ AcquireRoot(r) \/ Save(r)
    BY <1>2, <2>2 DEF Begin, BeginRefused, Block, AcquireRoot, Save, RootSame, WtKept
  <2>3. CASE Pick(r)
    <3>1. /\ run[r].phase = "picking" /\ UNCHANGED wt
          /\ \/ root' = root
             \/ ~PickRefused(r) /\ (root' = PickedRoot(run[r].at) \/ root' = StuckRoot(run[r].at))
      BY <2>3, PickCases
    <3> QED
      BY <1>2, <2>3, <3>1 DEF RootSame, WtKept, RootMove, RootPicks, WtMove
  <2>4. CASE Cleanup(r)
    <3>1. UNCHANGED root /\ (UNCHANGED wt \/ \E w \in Runs : wt' = [wt EXCEPT ![w].there = FALSE])
      <4>1. run[r] \in Run
        BY DEF ControlInv, TypeInv, TypeOK
      <4> QED
        BY <2>4, <4>1 DEF Cleanup, Run
    <3> QED
      BY <1>2, <1>3, <3>1 DEF RootSame, WtKept
  <2> QED
    BY <1>4, <2>1, <2>2, <2>3, <2>4, DelegateMoves, ExecuteMoves, FinishMoves DEF RunStep
<1>5. ASSUME NEW u \in Runs, OperatorStep(u)
      PROVE  RootMove /\ \A w \in Runs : WtMove(w)
  <2>1. CASE AdoptIntegrated(u) \/ AdoptCommitted(u) \/ AdoptFiles(u) \/ RecordAdopted(u) \/ Discard(u)
    BY <1>2, <2>1 DEF AdoptIntegrated, AdoptCommitted, AdoptFiles, RecordAdopted, Discard,
         RootSame, WtKept
  <2>2. CASE (\E p \in Paths : CopyFile(u, p)) \/ AdoptFails(u)
    <3>1. HeadsKept /\ UNCHANGED wt
      BY <1>1, <2>2 DEF CopyFile, AdoptFails, HeadsKept, WellRooted, Root
    <3> QED
      BY <2>2, <3>1 DEF RootMove, WtMove, WtKept
  <2>3. CASE RemoveWorktree(u)
    <3>1. \E w \in Runs : wt' = [wt EXCEPT ![w].there = FALSE]
      BY <2>3, RemoveWorktreeType DEF ControlInv
    <3> QED
      BY <1>2, <1>3, <2>3, <3>1 DEF RemoveWorktree, RootSame
  <2> QED
    BY <1>5, <2>1, <2>2, <2>3, CommitPartialMoves DEF OperatorStep
<1>6. ASSUME NEW u \in Runs, Crash(u)
      PROVE  RootMove /\ \A w \in Runs : WtMove(w)
  <2>1. /\ UNCHANGED wt
        /\ \/ root' = root
           \/ /\ run[u].phase = "picking" /\ ~PickRefused(u)
              /\ root' = PickedRoot(run[u].at) \/ root' = StuckRoot(run[u].at)
    BY <1>6, CrashCases
  <2> QED
    BY <1>2, <1>6, <2>1 DEF RootSame, WtKept, RootMove, RootPicks, WtMove
<1>7. CASE \E p \in Paths : UserEdits(p)
  <2>1. HeadsKept /\ UNCHANGED wt
    BY <1>1, <1>7 DEF UserEdits, UserActs, HeadsKept, WellRooted, Root
  <2> QED
    BY <1>7, <2>1 DEF RootMove, WtMove, WtKept
<1>8. CASE UserSwitches
  BY <1>8 DEF UserSwitches, UserActs, RootMove, WtMove, WtKept
<1>9. CASE UserAborts
  <2>1. HeadsKept /\ UNCHANGED wt
    BY <1>1, <1>9 DEF UserAborts, HeadsKept, WellRooted, Root
  <2> QED
    BY <1>9, <2>1 DEF RootMove, WtMove, WtKept
<1>10. ASSUME NEW w \in Runs, NEW p \in Paths, UserFixes(w, p)
       PROVE  RootMove /\ \A v \in Runs : WtMove(v)
  <2> DEFINE tree == [wt[w].tree EXCEPT ![p] = "fix"]
  <2>1. tree \in Tree /\ wt' = [wt EXCEPT ![w].tree = tree] /\ UNCHANGED root
    BY <1>1, <1>10, WtFacts, Names DEF UserFixes, Tree
  <2> HIDE DEF tree
  <2>2. /\ wt'[w].tree = tree /\ wt'[w].log = wt[w].log /\ \A v \in Runs \ {w} : wt'[v] = wt[v]
    BY <1>1, <2>1, NewWtTree
  <2>3. WtMove(w) /\ \A v \in Runs \ {w} : WtMove(v)
    BY <1>10, <2>2 DEF WtMove, WtKept, tree
  <2> QED
    BY <2>1, <2>3, RootSameKept DEF RootMove, RootSame
<1>11. CASE UNCHANGED vars
  BY <1>2, <1>11 DEF vars, RootSame, WtKept
<1> QED
  BY <1>4, <1>5, <1>6, <1>7, <1>8, <1>9, <1>10, <1>11 DEF Next, UserStep

-----------------------------------------------------------------------------
(* Every change in every log was written by the line of its author, and    *)
(* what is uncommitted in an isolated worktree by a run or by the user.    *)
LogInv ==
  /\ \A b \in DOMAIN root.heads : Signed(root.heads[b], run)
  /\ \A w \in Runs : Signed(wt[w].log, run)

DirtyInv ==
  \A w \in Runs, p \in Paths :
    wt[w].tree[p] = TreeOf(wt[w].log)[p] \/ wt[w].tree[p] \in Runs \cup {"fix"}

LEMMA PickingPlace ==
  ASSUME ControlInv, NEW u \in Runs, run[u].phase \in {"picking", "copying", "removing", "integrating"}
  PROVE  run[u].at \in Runs
<1>1. run[u] \in Run /\ run[u].at # NoRun
  BY DEF ControlInv, TypeInv, TypeOK, AtInv
<1> QED
  BY <1>1 DEF Run

LEMMA PickedHeads ==
  ASSUME ControlInv, NEW u \in Runs, RootPicks(u), NEW w, w = run[u].at
  PROVE  /\ w \in Runs
         /\ \A b \in DOMAIN root'.heads : OldHead(root'.heads[b]) \/ root'.heads[b] = Picked(w)
<1>1. w \in Runs /\ TypeOK /\ WellRooted(root)
  BY PickingPlace, TypeFacts DEF RootPicks, ControlInv, TypeInv
<1>2. OldHead(Head1(root)) /\ \A b \in DOMAIN root.heads : OldHead(root.heads[b])
  BY <1>1 DEF OldHead, Head1, WellRooted
<1>3. \A b \in DOMAIN EnsureWorkBranch(root).heads : OldHead(EnsureWorkBranch(root).heads[b])
  BY <1>1, <1>2, EnsureFacts
<1>4. CASE root' = PickedRoot(w)
  <2>1. CASE Units(w) = {}
    BY <1>1, <1>2, <1>4, <2>1, PickedRootFacts
  <2>2. CASE Units(w) # {}
    BY <1>1, <1>3, <1>4, <2>2, PickedRootFacts DEF Head1
  <2> QED
    BY <2>1, <2>2
<1>5. CASE root' = StuckRoot(w)
  BY <1>1, <1>3, <1>5, StuckRootFacts
<1> QED
  BY <1>1, <1>4, <1>5 DEF RootPicks

LEMMA LogStep ==
  ASSUME ControlInv, ChainInv, WorkInv, LogInv, [Next]_vars
  PROVE  LogInv'
<1>1. WellRooted(root) /\ WtWell /\ RootLog \in Seq(Commit) /\ root.tree \in Tree /\ TypeOK
  BY TypeFacts, RootFacts DEF ControlInv, TypeInv
<1>2. Signed(RootLog, run)
  BY <1>1 DEF LogInv, RootLog, Head1, WellRooted
<1>3. \A r \in Runs : run[r].line \subseteq Runs
  <2>1. \A r \in Runs : run[r] \in Run
    BY <1>1 DEF TypeOK
  <2> QED
    BY <2>1 DEF Run
<1>4. ASSUME NEW log, OldHead(log) PROVE Signed(log, run)
  BY <1>4 DEF OldHead, LogInv
<1>5. ASSUME NEW r \in Runs, NEW paths, RootCommits(r, paths)
      PROVE  \A b \in DOMAIN root'.heads : Signed(root'.heads[b], run)
  <2>1. \A p \in paths : root.tree[p] \in run[r].line
    BY <1>5 DEF RootCommits, Owns, TreeAtPlace
  <2>2. Signed(Committed(RootLog, r, root.tree, paths), run)
    BY <1>1, <1>2, <1>3, <2>1, SignedCommit
  <2> QED
    BY <1>4, <1>5, <2>2 DEF RootCommits
<1>6. ASSUME NEW u \in Runs, RootPicks(u)
      PROVE  \A b \in DOMAIN root'.heads : Signed(root'.heads[b], run)
  <2>1. run[u].at \in Runs /\ Signed(wt[run[u].at].log, run)
    BY <1>6, PickedHeads DEF LogInv
  <2>2. Signed(Picked(run[u].at), run)
    BY <1>1, <1>2, <2>1, SignedPicked
  <2> QED
    BY <1>4, <1>6, <2>2, PickedHeads
<1>7. ASSUME HeadsKept
      PROVE  \A b \in DOMAIN root'.heads : Signed(root'.heads[b], run)
  BY <1>7 DEF HeadsKept, LogInv
<1>8. ASSUME RootKept
      PROVE  \A b \in DOMAIN root'.heads : Signed(root'.heads[b], run)
  BY <1>4, <1>8 DEF RootKept
<1>9. ASSUME UserSwitches
      PROVE  \A b \in DOMAIN root'.heads : Signed(root'.heads[b], run)
  <2>1. root'.heads = root.heads
    BY <1>1, <1>9 DEF UserSwitches, UserActs, WellRooted, Root
  <2> QED
    BY <2>1 DEF LogInv
<1>10. \A b \in DOMAIN root'.heads : Signed(root'.heads[b], run)
  BY <1>5, <1>6, <1>7, <1>8, <1>9, PlaceMoves DEF RootMove
<1>11. ASSUME NEW w \in Runs PROVE Signed(wt'[w].log, run)
  <2>1. wt[w].log \in Seq(Commit) /\ wt[w].tree \in Tree /\ Signed(wt[w].log, run)
    BY <1>1, WtFacts DEF LogInv
  <2>2. ASSUME NEW r \in Runs, NEW paths, Owns(r, paths), run[r].at = w
        PROVE  Signed(Committed(wt[w].log, r, wt[w].tree, paths), run)
    <3>1. \A p \in paths : wt[w].tree[p] \in run[r].line
      BY <2>2, Names DEF Owns, TreeAtPlace, Isolated
    <3> QED
      BY <1>3, <2>1, <3>1, SignedCommit
  <2>3. CASE \E r \in Runs : \E paths :
               /\ Commits(r) /\ run[r].at = w /\ Owns(r, paths) /\ wt'[w].tree = wt[w].tree
               /\ wt'[w].log = Committed(wt[w].log, r, wt[w].tree, paths)
    BY <2>2, <2>3
  <2>4. CASE wt'[w].log = wt[w].log \/ wt'[w].log = RootLog
    BY <1>2, <2>1, <2>4
  <2>5. WtMove(w)
    BY PlaceMoves
  <2> QED
    BY <2>3, <2>4, <2>5 DEF WtMove, WtKept
<1>12. ControlInv'
  BY ControlStep
<1>13. /\ root'.heads \in Seq(Seq(Commit)) /\ \A w \in Runs : wt'[w].log \in Seq(Commit)
  BY <1>12 DEF ControlInv, TypeInv, TypeOK, Root, Worktree
<1>14. \A b \in DOMAIN root'.heads : root'.heads[b] \in Seq(Commit)
  BY <1>13
<1> QED
  BY <1>10, <1>11, <1>13, <1>14, LinesGrow, SignedKept DEF LogInv

LEMMA DirtyStep ==
  ASSUME ControlInv, ChainInv, WorkInv, DirtyInv, [Next]_vars
  PROVE  DirtyInv'
<1> SUFFICES ASSUME NEW w \in Runs, NEW p \in Paths
             PROVE  wt'[w].tree[p] = TreeOf(wt'[w].log)[p] \/ wt'[w].tree[p] \in Runs \cup {"fix"}
  BY DEF DirtyInv
<1>1. TypeOK /\ WtWell /\ wt[w].log \in Seq(Commit) /\ wt[w].tree \in Tree
  BY TypeFacts, WtFacts DEF ControlInv, TypeInv
<1>2. ASSUME NEW r \in Runs, NEW written, NEW undone, run[r].at = w,
             wt'[w].log = wt[w].log, wt'[w].tree = Written(r, written, undone)
      PROVE  wt'[w].tree[p] = TreeOf(wt'[w].log)[p] \/ wt'[w].tree[p] \in Runs \cup {"fix"}
  <2>1. LogAtPlace(r) = wt[w].log /\ TreeAtPlace(r) = wt[w].tree
    BY <1>2, Names DEF LogAtPlace, TreeAtPlace, Isolated
  <2> QED
    BY <1>2, <2>1 DEF Written, DirtyInv
<1>3. ASSUME NEW r \in Runs, NEW paths, wt'[w].tree = wt[w].tree,
             wt'[w].log = Committed(wt[w].log, r, wt[w].tree, paths)
      PROVE  wt'[w].tree[p] = TreeOf(wt'[w].log)[p] \/ wt'[w].tree[p] \in Runs \cup {"fix"}
  <2>1. TreeOf(wt'[w].log)[p] = IF p \in paths THEN wt[w].tree[p] ELSE TreeOf(wt[w].log)[p]
    BY <1>1, <1>3, CommittedType DEF TreeOf
  <2> QED
    BY <1>3, <2>1 DEF DirtyInv
<1>4. ASSUME NEW q \in Paths, wt'[w].log = wt[w].log, wt'[w].tree = [wt[w].tree EXCEPT ![q] = "fix"]
      PROVE  wt'[w].tree[p] = TreeOf(wt'[w].log)[p] \/ wt'[w].tree[p] \in Runs \cup {"fix"}
  BY <1>1, <1>4 DEF DirtyInv, Tree
<1>5. CASE WtKept(w)
  BY <1>5 DEF WtKept, DirtyInv
<1>6. CASE wt'[w].log = RootLog /\ wt'[w].tree = TreeOf(RootLog)
  BY <1>6
<1>7. WtMove(w)
  BY PlaceMoves
<1> QED
  BY <1>2, <1>3, <1>4, <1>5, <1>6, <1>7 DEF WtMove

-----------------------------------------------------------------------------
(* Nobody else changes what is where a run works.                          *)
Alike(r) ==
  IF Isolated(r) THEN WtKept(run[r].at) ELSE root'.tree = root.tree /\ Head1(root') = RootLog

LEMMA AlikeDetails ==
  ASSUME NEW r \in Runs, Alike(r), run'[r].at = run[r].at
  PROVE  DetailsAt(r)' = DetailsAt(r)
BY DEF Alike, DetailsAt, Isolated, WtKept, WtDetails, RootDetails, RootLog

LEMMA PlaceStays ==
  ASSUME Inv, ChainInv, WorkInv, ~Overlap, [Next]_vars, NEW r \in Runs,
         run[r].phase \in {"running", "worked"}, ~Execute(r), \A ok \in BOOLEAN : ~Finish(r, ok)
  PROVE  Alike(r)
<1>1. ControlInv /\ SharingInv /\ Active(r)
  BY DEF Inv, Active
<1>2. ASSUME NEW v \in Runs, Execute(v) \/ \E ok \in BOOLEAN : Finish(v, ok)
      PROVE  /\ v # r /\ Active(v) /\ (run[r].at # NoRun => run[v].at # run[r].at)
             /\ (~Isolated(v) => lock = v)
  <2>1. v # r /\ run[v].phase \in {"running", "worked"}
    BY <1>1, <1>2, ExecuteFacts, FinishFacts
  <2> QED
    BY <1>1, <2>1 DEF SharingInv, Active, ControlInv, LockInv, Isolated
<1>3. ASSUME NEW v \in Runs, CommitPartial(v)
      PROVE  /\ run[r].at # NoRun => run[v].at # run[r].at
             /\ ~Isolated(v) => lock = Free
  <2>1. v # r /\ run[v].phase = "done" /\ (IF Isolated(v) THEN MayResolve(v) ELSE lock = Free)
    BY <1>3, CommitPartialCases
  <2> QED
    BY <1>1, <2>1, ResolvableAlone DEF Isolated
<1>4. CASE Isolated(r)
  <2> DEFINE w == run[r].at
  <2>1. w \in Runs /\ run[r].marker = w /\ wt[w].there
    <3>1. w \in Runs \cup {NoRun}
      <4>1. run[r] \in Run
        BY <1>1 DEF ControlInv, TypeInv, TypeOK
      <4> QED
        BY <4>1 DEF Run
    <3> QED
      BY <1>1, <1>4, <3>1 DEF SharingInv, Active, Isolated
  <2>2. WtMove(w)
    BY <1>1, <2>1, PlaceMoves
  <2>3. ~Delegate(w)
    BY <1>1, <2>1 DEF ControlInv, StartInv, Delegate
  <2>4. \A v \in Runs : run[v].at = w => ~Execute(v) /\ ~Commits(v)
    BY <1>2, <1>3, <1>4 DEF Commits, Isolated
  <2>5. \A p \in Paths : ~UserFixes(w, p)
    BY <2>1 DEF UserFixes
  <2> HIDE DEF w
  <2>6. WtKept(w)
    BY <2>2, <2>3, <2>4, <2>5 DEF WtMove
  <2> QED
    BY <1>4, <2>6 DEF Alike, w
<1>5. CASE ~Isolated(r)
  <2>1. lock = r /\ lock # Free
    BY <1>1, <1>5, Names DEF ControlInv, LockInv, Isolated
  <2>2. \A v \in Runs : ~Isolated(v) => ~Execute(v) /\ ~Commits(v)
    BY <1>2, <1>3, <2>1 DEF Commits
  <2>3. \A u \in Runs : run[u].phase \in {"picking", "copying"} => u = r
    BY <1>1, <2>1 DEF ControlInv, LockInv
  <2>4. \A u \in Runs : ~RootPicks(u) /\ ~AdoptFails(u) /\ \A p \in Paths : ~CopyFile(u, p)
    BY <2>3 DEF RootPicks, AdoptFails, CopyFile
  <2>5. ~UserSwitches /\ ~UserAborts /\ \A p \in Paths : ~UserEdits(p)
    BY <2>1 DEF UserSwitches, UserAborts, UserEdits, Exclusive
  <2>6. RootMove
    BY <1>1, PlaceMoves
  <2>7. RootKept
    BY <2>2, <2>4, <2>5, <2>6 DEF RootMove, RootCommits
  <2> QED
    BY <1>5, <2>7 DEF Alike, RootKept
<1> QED
  BY <1>4, <1>5

LEMMA ExecuteWork ==
  ASSUME ControlInv, WorkInv, NEW r \in Runs, Execute(r), NEW p \in DOMAIN DetailsAt(r)'
  PROVE  DetailsAt(r)'[p] = r \/ <<p, DetailsAt(r)'[p]>> \in Pairs(run[r].before)
<1>1. TypeOK /\ WtWell /\ WellRooted(root)
  BY TypeFacts DEF ControlInv, TypeInv
<1>2. PICK written \in SUBSET Paths, undone \in SUBSET Paths :
        IF Isolated(r)
        THEN wt' = [wt EXCEPT ![run[r].at].tree = Written(r, written, undone)] /\ UNCHANGED root
        ELSE root' = [root EXCEPT !.tree = Written(r, written, undone)] /\ UNCHANGED wt
  BY <1>1, ExecuteCases
<1> DEFINE tree == Written(r, written, undone)
           log == LogAtPlace(r)
<1>3. tree \in Tree /\ run'[r].at = run[r].at
  BY <1>1, WrittenType, ExecuteFacts
<1>4. \A q \in Paths : tree[q] = r \/ tree[q] = TreeOf(log)[q] \/ tree[q] = TreeAtPlace(r)[q]
  BY DEF Written
<1> HIDE DEF tree
<1>5. DetailsAt(r)' = Details(tree, log)
  <2>1. CASE Isolated(r)
    <3>1. run[r].at \in Runs
      BY <1>1, <2>1, PlaceFacts
    <3>2. wt'[run[r].at].tree = tree /\ wt'[run[r].at].log = wt[run[r].at].log
      BY <1>1, <1>2, <1>3, <2>1, <3>1, NewWtTree DEF tree
    <3> QED
      BY <1>3, <2>1, <3>2 DEF DetailsAt, Isolated, WtDetails, LogAtPlace
  <2>2. CASE ~Isolated(r)
    <3>1. root' = [root EXCEPT !.tree = tree]
      BY <1>2, <2>2 DEF tree
    <3>2. root'.tree = tree /\ root'.heads = root.heads /\ root'.branch = root.branch
      BY <1>1, <1>3, <3>1, NewTreeOnly
    <3> QED
      BY <1>3, <2>2, <3>2 DEF DetailsAt, Isolated, RootDetails, LogAtPlace, RootLog, Head1
  <2> QED
    BY <2>1, <2>2
<1>6. /\ log \in Seq(Commit) /\ run[r].before = DetailsAt(r)
      /\ DOMAIN DetailsAt(r) = {q \in Paths : TreeAtPlace(r)[q] # TreeOf(log)[q]}
      /\ \A q \in DOMAIN DetailsAt(r) : DetailsAt(r)[q] = TreeAtPlace(r)[q]
  BY <1>1, PlaceFacts, ExecuteFacts DEF WorkInv
<1>7. PICK d : d = DetailsAt(r)'
  OBVIOUS
<1>8. /\ DOMAIN Details(tree, log) = {q \in Paths : tree[q] # TreeOf(log)[q]}
      /\ \A q \in DOMAIN Details(tree, log) : Details(tree, log)[q] = tree[q]
  BY <1>3, <1>6, DetailsType
<1>9. d = Details(tree, log) /\ p \in DOMAIN d
  BY <1>5, <1>7
<1>10. p \in Paths /\ tree[p] # TreeOf(log)[p] /\ d[p] = tree[p]
  BY <1>8, <1>9
<1>11. d[p] = r \/ <<p, d[p]>> \in Pairs(run[r].before)
  BY <1>4, <1>6, <1>10, PairsFact
<1> QED
  BY <1>7, <1>11

LEMMA WorkStep ==
  ASSUME Inv, ChainInv, WorkInv, ~Overlap, [Next]_vars
  PROVE  WorkInv'
<1> SUFFICES ASSUME NEW r \in Runs
             PROVE  /\ run'[r].phase = "running" => run'[r].before = DetailsAt(r)'
                    /\ run'[r].phase = "worked" =>
                         \A p \in DOMAIN DetailsAt(r)' :
                           DetailsAt(r)'[p] = r \/ <<p, DetailsAt(r)'[p]>> \in Pairs(run'[r].before)
  BY DEF WorkInv
<1>1. ControlInv
  BY DEF Inv
<1>2. CASE Kept(r) /\ run'[r].phase \in {"running", "worked"}
  <2>1. /\ run[r].phase = run'[r].phase /\ run'[r].at = run[r].at /\ run'[r].before = run[r].before
    BY <1>2 DEF Kept, SameData, Early
  <2>2. ~Execute(r) /\ \A ok \in BOOLEAN : ~Finish(r, ok)
    BY <1>1, <1>2, <2>1, ExecuteFacts, FinishFacts
  <2>3. DetailsAt(r)' = DetailsAt(r)
    BY <1>2, <2>1, <2>2, PlaceStays, AlikeDetails
  <2> QED
    BY <2>1, <2>3 DEF WorkInv
<1>3. CASE Begin(r)
  <2>1. RootKept /\ UNCHANGED wt /\ run'[r].at = run[r].at
    BY <1>1, <1>3, BeginFacts, RootSameKept DEF Begin, RootSame
  <2>2. Alike(r)
    BY <2>1 DEF Alike, WtKept, RootKept
  <2> QED
    BY <1>1, <1>3, <2>1, <2>2, BeginFacts, AlikeDetails
<1>4. CASE Execute(r)
  BY <1>1, <1>4, ExecuteFacts, ExecuteWork DEF SameData
<1>5. CASE Started(r) \/ \E ok \in BOOLEAN : Finish(r, ok)
  BY <1>1, <1>5, FinishFacts DEF Started
<1> QED
  BY <1>1, <1>2, <1>3, <1>4, <1>5, DataSteps DEF DataStep
-----------------------------------------------------------------------------
(* Adopt copies what a run or the user left in the worktree onto files     *)
(* that the user did not edit.                                             *)
Dirty(w, p) == p \in Paths /\ wt[w].tree[p] # TreeOf(wt[w].log)[p]

CopyInv ==
  \A u \in Runs : run[u].phase = "copying" =>
    \A p \in cmd.todo \cup DOMAIN cmd.files :
      /\ Dirty(run[u].at, p) /\ root.tree[p] # "user"
      /\ p \in DOMAIN cmd.files => cmd.files[p] = wt[run[u].at].tree[p]

(* A run that adopt still works on after a step was worked on before it.   *)
Adopting == {"copying", "removing"}

StillAdopts(v) ==
  (run'[v].phase \in Adopting /\ cmd'.op = "adopt") =>
    /\ run[v].phase \in Adopting /\ run'[v].at = run[v].at /\ UNCHANGED cmd
    /\ run'[v].phase = "copying" => run[v].phase = "copying"

LEMMA OneGoesOn ==
  ASSUME ControlInv, NEW u \in Runs, NEW phase, phase # "copying", GoesOn(u, phase),
         phase = "removing" =>
           cmd'.op # "adopt" \/ (run[u].phase \in Adopting /\ UNCHANGED cmd),
         UNCHANGED cmd \/ cmd = NoCommand \/ cmd.run = u, NEW v \in Runs
  PROVE  StillAdopts(v)
<1> SUFFICES ASSUME run'[v].phase \in Adopting, cmd'.op = "adopt"
             PROVE  /\ run[v].phase \in Adopting /\ run'[v].at = run[v].at /\ UNCHANGED cmd
                    /\ run'[v].phase = "copying" => run[v].phase = "copying"
  BY DEF StillAdopts
<1>1. CASE v = u
  BY <1>1 DEF GoesOn, Adopting
<1>2. CASE v # u
  <2>1. run'[v] = run[v]
    BY <1>2 DEF GoesOn
  <2>2. cmd.run = v
    BY <2>1 DEF ControlInv, CommandInv, Adopting
  <2> QED
    BY <1>2, <2>1, <2>2, NoCommandFacts, Names
<1> QED
  BY <1>1, <1>2

LEMMA OneStarts ==
  ASSUME ControlInv, NEW r \in Runs, run[r].phase = "new", UNCHANGED cmd, ControlInv',
         \A v \in Runs \ {r} : run'[v] = run[v], NEW v \in Runs
  PROVE  StillAdopts(v)
<1> SUFFICES ASSUME run'[v].phase \in Adopting, cmd'.op = "adopt"
             PROVE  /\ run[v].phase \in Adopting /\ run'[v].at = run[v].at /\ UNCHANGED cmd
                    /\ run'[v].phase = "copying" => run[v].phase = "copying"
  BY DEF StillAdopts
<1>1. cmd.run = v
  BY DEF ControlInv, CommandInv, Adopting
<1>2. v # r
  BY <1>1 DEF ControlInv, CommandInv
<1> QED
  BY <1>2

LEMMA ResolvedStill ==
  ASSUME ControlInv, NEW w \in Runs, NEW u \in Runs, NEW phase \in {"saving", "done"},
         NEW marker \in {"INTEGRATED", "ADOPTED", "DISCARDED"},
         NEW integ \in {"integrated", "failed"}, MarkResolved(w, u, marker, integ, phase),
         UNCHANGED cmd \/ cmd.run = u, NEW v \in Runs
  PROVE  StillAdopts(v)
<1> SUFFICES ASSUME run'[v].phase \in Adopting, cmd'.op = "adopt"
             PROVE  /\ run[v].phase \in Adopting /\ run'[v].at = run[v].at /\ UNCHANGED cmd
                    /\ run'[v].phase = "copying" => run[v].phase = "copying"
  BY DEF StillAdopts
<1> DEFINE rec == run'[v]
<1>1. TypeOK /\ phase \in Phases
  BY DEF ControlInv, TypeInv, Phases
<1>2. /\ rec.phase = (IF v = u THEN phase ELSE run[v].phase)
      /\ rec.at = (IF v = u \/ (run[v].marker = w /\ run[v].phase = "done")
                   THEN NoRun ELSE run[v].at)
  BY <1>1, ResolvedFacts
<1>3. v # u /\ run[v].phase = rec.phase /\ rec.at = run[v].at
  BY <1>2 DEF Adopting
<1>4. cmd.run = v
  BY <1>3 DEF ControlInv, CommandInv, Adopting
<1> QED
  BY <1>3, <1>4

LEMMA CleanupStill ==
  ASSUME ControlInv, NEW u \in Runs, Cleanup(u), NEW v \in Runs
  PROVE  StillAdopts(v)
<1>1. TypeOK /\ run[u] \in Run /\ UNCHANGED cmd /\ run[u].phase = "cleanup"
  BY DEF Cleanup, ControlInv, TypeInv, TypeOK
<1>2. CASE run[u].marker # NoRun /\ CleanupAllowed(u)
  <2>1. run[u].marker \in Runs
    BY <1>1, <1>2 DEF Run
  <2>2. MarkResolved(run[u].marker, u, "INTEGRATED", "integrated", "saving")
    BY <1>2 DEF Cleanup
  <2> QED
    BY <1>1, <2>1, <2>2, ResolvedStill
<1>3. CASE ~(run[u].marker # NoRun /\ CleanupAllowed(u))
  <2> DEFINE status == IF cmd.run = u THEN run[u].status ELSE "partial"
  <2>1. run' = [run EXCEPT ![u].phase = "saving", ![u].status = status] /\ UNCHANGED wt
    BY <1>1, <1>3 DEF Cleanup, TypeOK, Run
  <2> HIDE DEF status
  <2>2. run' = [run EXCEPT ![u] = Moved(u, "saving", status, run[u].integ, run[u].unit)]
    BY <1>1, <2>1, StatusMoves
  <2> DEFINE rec == Moved(u, "saving", status, run[u].integ, run[u].unit)
  <2>4. rec.phase = "saving" /\ rec.marker = run[u].marker /\ rec.at = run[u].at
    BY <1>1, MovedFacts
  <2>5. run' = [run EXCEPT ![u] = rec] /\ \A w \in Runs : wt'[w].there = wt[w].there
    BY <2>1, <2>2
  <2> HIDE DEF rec
  <2>3. GoesOn(u, "saving")
    BY <1>1, <2>4, <2>5, RecordGoesOn
  <2> QED
    BY <1>1, <2>3, OneGoesOn
<1> QED
  BY <1>2, <1>3

LEMMA AdoptingStep ==
  ASSUME ControlInv, [Next]_vars, NEW v \in Runs
  PROVE  StillAdopts(v) \/ AdoptFiles(v) \/ \E p \in Paths : CopyFile(v, p)
<1>1. ControlInv'
  BY ControlStep
<1>2. ASSUME NEW r \in Runs, RunStep(r)
      PROVE  StillAdopts(v)
  <2>1. CASE Delegate(r)
    <3>1. /\ run[r].phase = "new" /\ UNCHANGED cmd
          /\ \A x \in Runs \ {r} : run'[x] = run[x]
      BY <2>1 DEF Delegate, Block, CreateIsolatedWorktree, ControlInv, TypeInv, TypeOK
    <3> QED
      BY <1>1, <3>1, OneStarts
  <2>2. ASSUME NEW u \in Runs, Retry(r, u) PROVE StillAdopts(v)
    <3>1. run[r].phase = "new" /\ UNCHANGED cmd /\ \E rec : run' = [run EXCEPT ![r] = rec]
      BY <2>2, RetryCases DEF RetryStarts, Block
    <3>2. \A x \in Runs \ {r} : run'[x] = run[x]
      BY <3>1 DEF ControlInv, TypeInv, TypeOK
    <3> QED
      BY <1>1, <3>1, <3>2, OneStarts
  <2>3. CASE Begin(r)
    BY <2>3, BeginControl, OneGoesOn DEF Begin
  <2>4. CASE BeginRefused(r)
    BY <2>4, BeginRefusedControl, OneGoesOn DEF BeginRefused, Block
  <2>5. CASE Execute(r)
    BY <2>5, ExecuteControl, OneGoesOn DEF Execute
  <2>6. CASE \E ok \in BOOLEAN : Finish(r, ok)
    BY <2>6, FinishControl, FinishCases, OneGoesOn
  <2>7. CASE AcquireRoot(r)
    BY <2>7, AcquireRootControl, OneGoesOn DEF AcquireRoot
  <2>8. CASE Pick(r)
    BY <2>8, PickControl, PickCases, OneGoesOn
  <2>9. CASE Cleanup(r)
    BY <2>9, CleanupStill
  <2>10. CASE Save(r)
    BY <2>10, SaveControl, OneGoesOn DEF Save
  <2> QED
    BY <1>2, <2>1, <2>2, <2>3, <2>4, <2>5, <2>6, <2>7, <2>8, <2>9, <2>10 DEF RunStep
<1>3. ASSUME NEW u \in Runs, OperatorStep(u)
      PROVE  StillAdopts(v) \/ AdoptFiles(v) \/ \E p \in Paths : CopyFile(v, p)
  <2>1. ASSUME NEW op \in {"adopt", "discard"}, NEW phase \in {"cleanup", "integrating", "removing"},
               MayResolve(u), Command(op, u, phase), phase = "removing" => op = "discard",
               UNCHANGED <<lock, wt>>
        PROVE  StillAdopts(v)
    <3>1. GoesOn(u, phase) /\ cmd = NoCommand
      BY <2>1, CommandControl DEF MayResolve
    <3>2. cmd' = [NoCommand EXCEPT !.op = op, !.run = u]
      BY <2>1 DEF Command
    <3>3. cmd'.op = op
      BY <3>2, NoCommandFacts DEF Commands
    <3> QED
      BY <2>1, <3>1, <3>3, OneGoesOn
  <2>2. CASE AdoptIntegrated(u)
    BY <2>1, <2>2 DEF AdoptIntegrated
  <2>3. CASE AdoptCommitted(u)
    BY <2>1, <2>3 DEF AdoptCommitted
  <2>4. CASE Discard(u)
    BY <2>1, <2>4 DEF Discard
  <2>5. CASE AdoptFiles(u)
    <3>1. CASE v = u
      BY <2>5, <3>1
    <3>2. CASE v # u
      <4>1. cmd = NoCommand /\ run'[v] = run[v]
        BY <2>5, <3>2, AdoptFilesControl DEF AdoptFiles, MayResolve, GoesOn
      <4>2. run[v].phase \notin Adopting
        BY <4>1, NoCommandFacts, Names DEF ControlInv, CommandInv, Adopting
      <4> QED
        BY <4>1, <4>2 DEF StillAdopts
    <3> QED
      BY <3>1, <3>2
  <2>6. CASE \E p \in Paths : CopyFile(u, p)
    <3>1. run[u].phase = "copying" /\ UNCHANGED run
      BY <2>6 DEF CopyFile
    <3>2. run[v].phase \in Adopting => v = u
      BY <3>1 DEF ControlInv, CommandInv, Adopting
    <3> QED
      BY <2>6, <3>1, <3>2 DEF StillAdopts
  <2>7. CASE RecordAdopted(u)
    BY <2>7, RecordAdoptedControl, OneGoesOn DEF RecordAdopted, Adopting
  <2>8. CASE AdoptFails(u)
    <3>1. cmd.run = u
      BY <2>8 DEF AdoptFails, ControlInv, CommandInv
    <3> QED
      BY <2>8, <3>1, AdoptFailsControl, OneGoesOn
  <2>9. CASE RemoveWorktree(u)
    <3>1. /\ run[u].at \in Runs /\ cmd.run = u
          /\ \/ MarkResolved(run[u].at, u, "ADOPTED", "integrated", "done")
             \/ MarkResolved(run[u].at, u, "DISCARDED", "failed", "done")
      BY <2>9, RemoveWorktreeType DEF RemoveWorktree, ControlInv, CommandInv
    <3> QED
      BY <3>1, ResolvedStill
  <2>10. CASE CommitPartial(u)
    BY <2>10, CommitPartialControl, CommitPartialCases, OneGoesOn
  <2> QED
    BY <1>3, <2>2, <2>3, <2>4, <2>5, <2>6, <2>7, <2>8, <2>9, <2>10 DEF OperatorStep
<1>4. ASSUME NEW u \in Runs, Crash(u)
      PROVE  StillAdopts(v)
  <2>1. UNCHANGED cmd \/ cmd.run = u
    BY <1>4, CrashCases
  <2> QED
    BY <1>4, <2>1, CrashControl, OneGoesOn
<1>5. CASE UserStep \/ UNCHANGED vars
  BY <1>5, UserControl DEF StillAdopts, vars
<1> QED
  BY <1>2, <1>3, <1>4, <1>5 DEF Next

(* While a command adopts or removes a worktree, nobody changes it; while  *)
(* adopt copies, nobody else changes the files of the root worktree.       *)
LEMMA AdoptedPlace ==
  ASSUME Inv, ChainInv, WorkInv, ~Overlap, [Next]_vars, NEW u \in Runs, run[u].phase \in Adopting
  PROVE  /\ run[u].at \in Runs /\ WtKept(run[u].at)
         /\ \A v \in Runs : ~CommitPartial(v)
         /\ \A v \in Runs : Execute(v) \/ (\E ok \in BOOLEAN : Finish(v, ok)) => run[v].at # run[u].at
<1> DEFINE w == run[u].at
<1>1. ControlInv /\ SharingInv /\ Active(u) /\ cmd.run = u /\ cmd # NoCommand
  BY NoCommandFacts, Names DEF Inv, Active, ControlInv, CommandInv, Adopting
<1>2. w \in Runs /\ run[u].marker = w /\ wt[w].there /\ w # NoRun
  BY <1>1, PickingPlace, Names DEF SharingInv, Adopting
<1>3. ASSUME NEW v \in Runs, Execute(v) \/ \E ok \in BOOLEAN : Finish(v, ok)
      PROVE  run[v].at # w
  <2>1. v # u /\ run[v].phase \in {"running", "worked"}
    BY <1>1, <1>3, ExecuteFacts, FinishFacts DEF Adopting
  <2> QED
    BY <1>1, <1>2, <2>1 DEF SharingInv, Active
<1>4. \A v \in Runs : ~CommitPartial(v)
  BY <1>1, CommitPartialCases
<1>5. WtKept(w)
  <2>1. WtMove(w)
    BY <1>1, <1>2, PlaceMoves
  <2>2. ~Delegate(w) /\ \A p \in Paths : ~UserFixes(w, p)
    BY <1>1, <1>2 DEF ControlInv, StartInv, Delegate, UserFixes, Adopting
  <2>3. \A v \in Runs : run[v].at = w => ~Execute(v) /\ ~Commits(v)
    BY <1>3, <1>4 DEF Commits
  <2> HIDE DEF w
  <2> QED
    BY <2>1, <2>2, <2>3 DEF WtMove
<1> QED
  BY <1>2, <1>3, <1>4, <1>5

LEMMA CopyingPlace ==
  ASSUME Inv, ChainInv, WorkInv, ~Overlap, [Next]_vars, NEW u \in Runs, run[u].phase = "copying"
  PROVE  /\ WtKept(run[u].at)
         /\ root'.tree = root.tree \/ AdoptFails(u) \/ \E p \in Paths : CopyFile(u, p)
<1>1. ControlInv /\ lock = u /\ u # Free
  BY Names DEF Inv, ControlInv, LockInv
<1>2. /\ WtKept(run[u].at) /\ \A v \in Runs : ~CommitPartial(v)
  BY AdoptedPlace DEF Adopting
<1>3. \A v \in Runs : ~Isolated(v) => ~Execute(v) /\ ~Commits(v)
  <2>1. ASSUME NEW v \in Runs, ~Isolated(v), Execute(v) \/ \E ok \in BOOLEAN : Finish(v, ok)
        PROVE  FALSE
    <3>1. v # u /\ run[v].phase \in {"running", "worked"}
      BY <1>1, <2>1, ExecuteFacts, FinishFacts
    <3> QED
      BY <1>1, <2>1, <3>1 DEF ControlInv, LockInv, Isolated
  <2> QED
    BY <1>2, <2>1 DEF Commits
<1>4. \A v \in Runs : run[v].phase \in {"picking", "copying"} => v = u
  BY <1>1 DEF ControlInv, LockInv
<1>5. \A v \in Runs : /\ ~RootPicks(v)
                      /\ AdoptFails(v) \/ (\E p \in Paths : CopyFile(v, p)) => v = u
  BY <1>4 DEF RootPicks, AdoptFails, CopyFile
<1>6. ~UserSwitches /\ ~UserAborts /\ \A p \in Paths : ~UserEdits(p)
  BY <1>1 DEF UserSwitches, UserAborts, UserEdits, Exclusive
<1>7. RootMove
  BY <1>1, PlaceMoves
<1> QED
  BY <1>2, <1>3, <1>5, <1>6, <1>7 DEF RootMove, RootCommits, RootKept

LEMMA WtContent ==
  ASSUME ControlInv, LogInv, DirtyInv, NEW w \in Runs, NEW p \in Paths
  PROVE  /\ wt[w].tree[p] # "user" /\ TreeOf(wt[w].log)[p] \in Tracked
         /\ Dirty(w, p) => wt[w].tree[p] \in Runs \cup {"fix"}
<1>1. wt[w].log \in Seq(Commit) /\ Signed(wt[w].log, run)
  BY TypeFacts, WtFacts DEF ControlInv, TypeInv, LogInv
<1>2. TreeOf(wt[w].log)[p] \in Tracked
  BY <1>1, TrackedTree
<1> QED
  BY <1>2, Names DEF DirtyInv, Dirty, Tracked

LEMMA RootContent ==
  ASSUME ControlInv, LogInv, NEW p \in Paths
  PROVE  TreeOf(RootLog)[p] \in Tracked /\ TreeOf(RootLog)[p] # "user"
<1>1. RootLog \in Seq(Commit) /\ WellRooted(root)
  BY TypeFacts DEF ControlInv, TypeInv
<1>2. Signed(RootLog, run)
  BY <1>1 DEF LogInv, RootLog, Head1, WellRooted
<1> QED
  BY <1>1, <1>2, TrackedTree, Names DEF Tracked

LEMMA AdoptFilesCopies ==
  ASSUME Inv, LogInv, DirtyInv, NEW u \in Runs, AdoptFiles(u), NEW w, w = run[u].at
  PROVE  /\ run'[u].at = w /\ UNCHANGED <<root, wt>> /\ DOMAIN cmd'.files = {}
         /\ \A p \in cmd'.todo : Dirty(w, p) /\ root.tree[p] # "user"
<1>1. ControlInv
  BY DEF Inv
<1>2. MayResolve(u) /\ w \in Runs /\ run[u].marker = w
  BY <1>1, MayResolveFacts DEF AdoptFiles, ControlInv, TypeInv
<1> DEFINE todo == {p \in DOMAIN WtDetails(w) : root.tree[p] # wt[w].tree[p]}
<1>3. /\ cmd' = [NoCommand EXCEPT !.op = "adopt", !.run = u, !.before = root.tree, !.todo = todo]
      /\ AdoptConflicts(w) = {} /\ UNCHANGED <<root, wt>>
  BY <1>2 DEF AdoptFiles
<1>4. /\ DOMAIN WtDetails(w) = {p \in Paths : wt[w].tree[p] # TreeOf(wt[w].log)[p]}
  <2>1. wt[w].log \in Seq(Commit) /\ wt[w].tree \in Tree
    BY <1>1, <1>2, TypeFacts, WtFacts DEF ControlInv, TypeInv
  <2> QED
    BY <2>1, DetailsType DEF WtDetails
<1>5. ASSUME NEW p \in todo PROVE Dirty(w, p) /\ root.tree[p] # "user"
  <2>1. Dirty(w, p) /\ p \in DOMAIN WtDetails(w) /\ p \in Paths
    BY <1>4, <1>5 DEF Dirty
  <2>2. root.tree[p] \in {TreeOf(RootLog)[p], wt[w].tree[p]}
    BY <1>3, <2>1 DEF AdoptConflicts
  <2> QED
    BY <1>1, <1>2, <2>1, <2>2, RootContent, WtContent
<1> HIDE DEF todo
<1>6. cmd'.todo = todo /\ DOMAIN cmd'.files = {}
  BY <1>3, NoCommandFacts, NoChangesType DEF Commands
<1>7. run'[u].at = w
  BY <1>1, AdoptFilesControl DEF GoesOn
<1> QED
  BY <1>3, <1>5, <1>6, <1>7

LEMMA CopyStep ==
  ASSUME Inv, ChainInv, WorkInv, LogInv, DirtyInv, CopyInv, ~Overlap, [Next]_vars
  PROVE  CopyInv'
<1> SUFFICES ASSUME NEW u \in Runs, run'[u].phase = "copying",
                    NEW p \in cmd'.todo \cup DOMAIN cmd'.files
             PROVE  /\ Dirty(run[u].at, p)' /\ root'.tree[p] # "user"
                    /\ p \in DOMAIN cmd'.files => cmd'.files[p] = wt'[run'[u].at].tree[p]
  BY DEF CopyInv
<1>1. ControlInv /\ cmd'.op = "adopt"
  BY ControlStep DEF Inv, ControlInv, CommandInv
<1>2. CASE AdoptFiles(u)
  BY <1>2, AdoptFilesCopies DEF Dirty
<1>3. ASSUME NEW q \in Paths, CopyFile(u, q)
      PROVE  /\ Dirty(run[u].at, p)' /\ root'.tree[p] # "user"
             /\ p \in DOMAIN cmd'.files => cmd'.files[p] = wt'[run'[u].at].tree[p]
  <2> DEFINE w == run[u].at
  <2>1. /\ run[u].phase = "copying" /\ q \in cmd.todo /\ cmd' = Copied(u, q)
        /\ root' = [root EXCEPT !.tree[q] = wt[w].tree[q]] /\ UNCHANGED <<run, wt>>
    BY <1>3 DEF CopyFile, Copied
  <2>2. w \in Runs
    BY <1>1, <1>3, CopyFileType DEF ControlInv
  <2>3. /\ cmd'.todo = cmd.todo \ {q} /\ DOMAIN cmd'.files = DOMAIN cmd.files \cup {q}
        /\ \A x \in DOMAIN cmd'.files : cmd'.files[x] = wt[w].tree[x]
    BY <1>1, <2>1, <2>2, CopiedFacts DEF ControlInv
  <2>4. p \in cmd.todo \cup DOMAIN cmd.files /\ Dirty(w, p) /\ root.tree[p] # "user" /\ p \in Paths
    BY <2>1, <2>3 DEF CopyInv, Dirty
  <2>5. root'.tree[p] = IF p = q THEN wt[w].tree[q] ELSE root.tree[p]
    <3>1. root \in Root
      BY TypeFacts DEF Inv, ControlInv, TypeInv, TypeOK
    <3> QED
      BY <2>1, <2>4, <3>1 DEF Root, Tree
  <2>6. root'.tree[p] # "user"
    BY <1>1, <2>2, <2>4, <2>5, WtContent
  <2> QED
    BY <2>1, <2>3, <2>4, <2>6 DEF Dirty
<1>4. CASE StillAdopts(u) /\ \A q \in Paths : ~CopyFile(u, q)
  <2>1. run[u].phase = "copying" /\ run'[u].at = run[u].at /\ UNCHANGED cmd
    BY <1>1, <1>4 DEF StillAdopts, Adopting
  <2>2. ~AdoptFails(u)
    BY <1>1, AdoptFailsControl DEF GoesOn
  <2>3. WtKept(run[u].at) /\ root'.tree = root.tree
    BY <1>4, <2>1, <2>2, CopyingPlace
  <2> QED
    BY <2>1, <2>3 DEF CopyInv, Dirty, WtKept
<1> QED
  BY <1>1, <1>2, <1>3, <1>4, AdoptingStep

-----------------------------------------------------------------------------
(* What is recorded as delegated was made by a run, or by the user in an   *)
(* isolated worktree.                                                      *)
Authored == Runs \cup {"fix"}

TrustInv == \A p \in DOMAIN trusted : trusted[p] \in Authored

LEMMA RecordDelegatedAuthored ==
  ASSUME TrustInv, NEW now, NEW made, \A p \in DOMAIN made : made[p] \in Authored,
         NEW p \in DOMAIN RecordDelegated(now, made)
  PROVE  RecordDelegated(now, made)[p] \in Authored
BY DEF RecordDelegated, TrustInv

LEMMA ForgetAuthored ==
  ASSUME NEW records, \A p \in DOMAIN records : records[p] \in Authored, NEW paths,
         NEW p \in DOMAIN Forget(records, paths)
  PROVE  Forget(records, paths)[p] \in Authored
BY DEF Forget

LEMMA NotedAuthored ==
  ASSUME ControlInv, ChainInv, WorkInv, TrustInv, [Next]_vars, NEW r \in Runs, NEW ok \in BOOLEAN,
         Finish(r, ok), NEW p \in DOMAIN Noted(r)
  PROVE  Noted(r)[p] \in Authored
<1> DEFINE made == Delta(run[r].before, DetailsAt(r))
<1>1. ASSUME NEW q \in DOMAIN made PROVE made[q] \in Authored
  <2>1. ChainInv' /\ run'[r].delta = made
    BY ChainStep, FinishFacts
  <2> QED
    BY <1>1, <2>1 DEF ChainInv, Authored
<1> HIDE DEF made
<1>2. Noted(r) = trusted \/ Noted(r) = RecordDelegated(DetailsAt(r), made)
  BY DEF Noted, made
<1> QED
  BY <1>1, <1>2, RecordDelegatedAuthored DEF TrustInv

LEMMA TrustStep ==
  ASSUME Inv, ChainInv, WorkInv, LogInv, DirtyInv, CopyInv, TrustInv, [Next]_vars
  PROVE  TrustInv'
<1>1. ControlInv
  BY DEF Inv
<1>2. ASSUME NEW r \in Runs, NEW ok \in BOOLEAN, Finish(r, ok)
      PROVE  TrustInv'
  <2>1. trusted' = Noted(r) \/ \E paths : trusted' = Forget(Noted(r), paths)
    <3>1. CASE FinishedAsIs(r)
      BY <3>1 DEF FinishedAsIs
    <3>2. ASSUME NEW res, FinishedWith(r, res)
          PROVE  trusted' = Noted(r) \/ \E paths : trusted' = Forget(Noted(r), paths)
      BY <3>2 DEF FinishedWith
    <3> QED
      BY <1>2, <3>1, <3>2, FinishCases
  <2>2. \A p \in DOMAIN Noted(r) : Noted(r)[p] \in Authored
    BY <1>1, <1>2, NotedAuthored
  <2> QED
    BY <2>1, <2>2, ForgetAuthored DEF TrustInv
<1>3. ASSUME NEW u \in Runs, RecordAdopted(u)
      PROVE  TrustInv'
  <2>1. run[u].phase = "copying" /\ trusted' = RecordDelegated(RootDetails, cmd.files)
    BY <1>3 DEF RecordAdopted
  <2>2. run[u].at \in Runs
    BY <1>1, <2>1, PickingPlace
  <2>3. \A p \in DOMAIN cmd.files : cmd.files[p] \in Authored
    BY <1>1, <2>1, <2>2, WtContent DEF CopyInv, Dirty, Authored
  <2> QED
    BY <2>1, <2>3, RecordDelegatedAuthored DEF TrustInv
<1>4. ASSUME NEW u \in Runs, CommitPartial(u)
      PROVE  TrustInv'
  <2>1. trusted' = trusted \/ \E paths : trusted' = Forget(trusted, paths)
    BY <1>4 DEF CommitPartial
  <2> QED
    BY <2>1, ForgetAuthored DEF TrustInv
<1>5. CASE UNCHANGED trusted
  BY <1>5 DEF TrustInv
<1>6. ASSUME NEW r \in Runs, RunStep(r)
      PROVE  TrustInv'
  BY <1>2, <1>5, <1>6, RetryCases, ExecuteCases, PickCases
     DEF RunStep, Delegate, Block, CreateIsolatedWorktree, RetryStarts, Begin, BeginRefused,
         Execute, AcquireRoot, Cleanup, Save
<1>7. ASSUME NEW u \in Runs, OperatorStep(u)
      PROVE  TrustInv'
  BY <1>3, <1>4, <1>5, <1>7
     DEF OperatorStep, AdoptIntegrated, AdoptCommitted, AdoptFiles, CopyFile, AdoptFails, Discard,
         RemoveWorktree
<1>8. ASSUME NEW u \in Runs, Crash(u)
      PROVE  TrustInv'
  BY <1>5, <1>8, CrashCases
<1>9. CASE UserStep
  BY <1>5, <1>9 DEF UserStep, UserEdits, UserSwitches, UserAborts, UserFixes, UserActs
<1> QED
  BY <1>5, <1>6, <1>7, <1>8, <1>9 DEF Next, vars

-----------------------------------------------------------------------------
(* A run that has not been started owns nothing.                           *)
OwnerInv == \A r \in Runs : lock = r => run[r].phase # "new"

LEMMA LockTaken ==
  ASSUME ControlInv, [Next]_vars, NEW r \in Runs, lock' = r, lock # r, run[r].phase = "new"
  PROVE  \/ Delegate(r) /\ MayStart
         \/ \E u \in Runs : RetryStarts(r, u)
<1>1. r # Free /\ ~(UNCHANGED lock) /\ \A u : ~Release(u)
  BY Names DEF Release
<1>2. ASSUME NEW v \in Runs, RunStep(v)
      PROVE  \/ Delegate(r) /\ MayStart
             \/ \E u \in Runs : RetryStarts(r, u)
  <2>1. CASE Delegate(v)
    <3>1. lock' = v /\ MayStart
      BY <1>1, <2>1 DEF Delegate, Block, CreateIsolatedWorktree
    <3> QED
      BY <2>1, <3>1
  <2>2. ASSUME NEW u \in Runs, Retry(v, u) PROVE RetryStarts(r, u)
    <3>1. RetryStarts(v, u) /\ lock' = v
      BY <1>1, <2>2, RetryCases DEF Block, RetryStarts
    <3> QED
      BY <3>1
  <2>3. CASE AcquireRoot(v)
    BY <1>1, <2>3 DEF AcquireRoot
  <2> QED
    BY <1>1, <1>2, <2>1, <2>2, <2>3, ExecuteCases, FinishCases, PickCases
       DEF RunStep, Begin, BeginRefused, Block, Execute, Cleanup, Save
<1>3. ASSUME NEW u \in Runs, OperatorStep(u)
      PROVE  FALSE
  <2>1. CASE AdoptFiles(u)
    BY <2>1 DEF AdoptFiles, MayResolve
  <2>2. CASE CommitPartial(u)
    BY <1>1, <2>2, CommitPartialCases
  <2> QED
    BY <1>1, <1>3, <2>1, <2>2
       DEF OperatorStep, AdoptIntegrated, AdoptCommitted, CopyFile, RecordAdopted, AdoptFails, Discard,
           RemoveWorktree
<1>4. \A u \in Runs : ~Crash(u)
  BY <1>1, CrashCases
<1>5. ~UserStep
  BY <1>1, UserControl
<1> QED
  BY <1>1, <1>2, <1>3, <1>4, <1>5 DEF Next, vars

LEMMA RetryNamesItsRun ==
  ASSUME ControlInv, NEW r \in Runs, NEW u \in Runs, RetryStarts(r, u)
  PROVE  run'[r].phase = "prepared" /\ run'[r].prev = u /\ u # NoRun
<1> DEFINE rec == Successor(r, u)
<1>1. TypeOK /\ run \in [Runs -> Run] /\ run' = [run EXCEPT ![r] = rec]
  BY DEF RetryStarts, ControlInv, TypeInv, TypeOK
<1>2. rec.phase = "prepared" /\ rec.prev = u
  BY <1>1, SuccessorFacts
<1> HIDE DEF rec
<1> QED
  BY <1>1, <1>2, Names

LEMMA OwnerStep ==
  ASSUME ControlInv, OwnerInv, [Next]_vars
  PROVE  OwnerInv'
<1> SUFFICES ASSUME NEW r \in Runs, lock' = r, run'[r].phase = "new"
             PROVE  FALSE
  BY DEF OwnerInv
<1>1. run[r].phase = "new" /\ ~Started(r)
  BY DataSteps, BeginFacts, ExecuteFacts, FinishFacts DEF DataStep, Kept, Started, Early
<1>2. lock # r
  BY <1>1 DEF OwnerInv
<1>3. CASE Delegate(r) /\ MayStart
  <2>1. lock' # Free /\ run \in [Runs -> Run] /\ run[r] \in Run
    BY Names DEF ControlInv, TypeInv, TypeOK
  <2>2. \/ run' = [run EXCEPT ![r].phase = "prepared", ![r].line = {r}]
        \/ CreateIsolatedWorktree(r)
    BY <1>2, <1>3, <2>1 DEF Delegate, Block, Release
  <2> QED
    BY <1>2, <2>1, <2>2 DEF CreateIsolatedWorktree, Run
<1> QED
  BY <1>1, <1>2, <1>3, LockTaken, RetryNamesItsRun

-----------------------------------------------------------------------------
(* The inductive invariant about content.                                  *)
ContentInv ==
  Inv /\ ChainInv /\ WorkInv /\ LogInv /\ DirtyInv /\ CopyInv /\ TrustInv /\ OwnerInv

LEMMA InitContent == Init => ContentInv
<1> SUFFICES ASSUME Init PROVE ContentInv
  OBVIOUS
<1>1. /\ root.heads = <<(<<>>)>> /\ lock = Free /\ trusted = NoChanges
      /\ \A r \in Runs : /\ run[r].phase = "new" /\ run[r].before = NoChanges /\ run[r].delta = NoChanges
                         /\ wt[r].log = <<>> /\ wt[r].tree = TreeOf(<<>>)
  BY UnstartedType DEF Init, NoWorktree
<1>2. Inv
  BY InitControl DEF Inv
<1>3. ChainInv /\ WorkInv /\ CopyInv /\ TrustInv
  BY <1>1, NoChangesType DEF ChainInv, WorkInv, CopyInv, TrustInv
<1>4. LogInv /\ DirtyInv
  <2>1. \A b \in DOMAIN root.heads : root.heads[b] = <<>>
    BY <1>1
  <2> QED
    BY <1>1, <2>1, SignedEmpty DEF LogInv, DirtyInv
<1>5. OwnerInv
  BY <1>1, Names DEF OwnerInv
<1> QED
  BY <1>2, <1>3, <1>4, <1>5 DEF ContentInv

LEMMA ContentStep ==
  ASSUME ContentInv, ~Overlap, [Next]_vars
  PROVE  ContentInv'
<1>1. /\ Inv /\ ControlInv /\ SharingInv /\ ChainInv /\ WorkInv /\ LogInv /\ DirtyInv /\ CopyInv
      /\ TrustInv /\ OwnerInv
  BY DEF ContentInv, Inv
<1>2. Inv'
  BY <1>1, ControlStep DEF Inv
<1>3. ChainInv' /\ WorkInv' /\ LogInv' /\ DirtyInv'
  BY <1>1, ChainStep, WorkStep, LogStep, DirtyStep
<1>4. CopyInv' /\ TrustInv' /\ OwnerInv'
  BY <1>1, CopyStep, TrustStep, OwnerStep
<1> QED
  BY <1>2, <1>3, <1>4 DEF ContentInv

(* A run commits only what it or an earlier run of its retry chain wrote,  *)
(* whatever the policy, unless a retry and another user of its worktree    *)
(* overlap: the comment of _auto_commit_run at runner.py:790.              *)
THEOREM OwnedTheorem == ~Overlap => (Spec => []CommitsAreOwned)
<1>1. ContentInv => CommitsAreOwned
  BY DEF ContentInv, LogInv, Signed, CommitsAreOwned, OwnCommits
<1>2. ASSUME ~Overlap PROVE ContentInv /\ [Next]_vars => ContentInv'
  BY <1>2, ContentStep
<1>3. ASSUME ~Overlap PROVE Spec => []CommitsAreOwned
  <2>1. ContentInv /\ [Next]_vars => ContentInv'
    BY <1>2, <1>3
  <2> QED
    BY <1>1, <2>1, InitContent, PTL DEF Spec
<1> QED
  BY <1>3

-----------------------------------------------------------------------------
LEMMA EditStep ==
  ASSUME ContentInv, ~Overlap, [Next]_vars, NEW p \in Paths,
         root.tree[p] = "user", root'.tree[p] # "user"
  PROVE  edits' # edits \/ \E r \in Runs : run[r].phase = "running" /\ lock = r
<1>1. ControlInv /\ SharingInv /\ ChainInv /\ WorkInv /\ LogInv /\ CopyInv
  BY DEF ContentInv, Inv
<1>2. /\ WellRooted(root) /\ root \in Root /\ root.tree \in Tree /\ RootLog \in Seq(Commit)
      /\ edits \in Nat /\ TypeOK
  BY <1>1, TypeFacts, RootFacts DEF ControlInv, TypeInv, TypeOK, WellRooted
<1>3. CASE \E r \in Runs : Execute(r) /\ ~Isolated(r)
  BY <1>1, <1>3, ExecuteFacts DEF ControlInv, LockInv, Isolated
<1>4. p \in DOMAIN RootDetails
  BY <1>1, <1>2, RootContent, DetailsType DEF RootDetails
<1>5. ASSUME NEW u \in Runs, RootPicks(u)
      PROVE  FALSE
  <2> DEFINE w == run[u].at
  <2>1. w \in Runs /\ p \notin UnitPaths(w)
    BY <1>1, <1>4, <1>5, PickingPlace DEF RootPicks, PickRefused
  <2>2. PickedRoot(w).tree[p] = root.tree[p]
    BY <1>2, <2>1, PickedRootFacts
  <2>3. StuckRoot(w).tree[p] = root.tree[p]
    BY <1>2, <2>1, StuckRootFacts
  <2> QED
    BY <1>5, <2>2, <2>3 DEF RootPicks
<1>6. ASSUME NEW u \in Runs, NEW q \in Paths, CopyFile(u, q)
      PROVE  FALSE
  <2>1. run[u].phase = "copying" /\ q \in cmd.todo
        /\ root' = [root EXCEPT !.tree[q] = wt[run[u].at].tree[q]]
    BY <1>6 DEF CopyFile
  <2>2. p # q
    BY <1>1, <2>1 DEF CopyInv
  <2>3. root'.tree[p] = root.tree[p]
    BY <1>2, <2>1, <2>2 DEF Root, Tree
  <2> QED
    BY <2>3
<1>7. ASSUME NEW u \in Runs, AdoptFails(u)
      PROVE  FALSE
  <2>1. /\ run[u].phase = "copying"
        /\ root' = [root EXCEPT !.tree = [q \in Paths |-> IF q \in DOMAIN cmd.files
                                                          THEN cmd.before[q] ELSE @[q]]]
    BY <1>7 DEF AdoptFails
  <2>2. p \notin DOMAIN cmd.files
    BY <1>1, <2>1 DEF CopyInv
  <2>3. root'.tree[p] = root.tree[p]
    BY <1>2, <2>1, <2>2 DEF Root
  <2> QED
    BY <2>3
<1>8. CASE UserSwitches \/ \E q \in Paths : UserEdits(q)
  <2>1. edits' = edits + 1
    BY <1>8 DEF UserSwitches, UserEdits, UserActs
  <2> QED
    BY <1>2, <2>1
<1>9. ASSUME UserAborts PROVE FALSE
  <2>1. root'.tree[p] = root.tree[p]
    BY <1>2, <1>9 DEF UserAborts, Root
  <2> QED
    BY <2>1
<1>10. root'.tree # root.tree /\ RootMove
  BY <1>1, PlaceMoves
<1> QED
  BY <1>3, <1>5, <1>6, <1>7, <1>8, <1>9, <1>10 DEF RootMove, RootKept, RootCommits

(* A file the user edited in the root worktree is overwritten by an        *)
(* executor that works there, or by the user; never by adopting,           *)
(* integrating, undoing or committing.                                     *)
THEOREM EditTheorem == ~Overlap => (Spec => UserEditKept)
<1>1. ASSUME ~Overlap
      PROVE  /\ ContentInv /\ [Next]_vars => ContentInv'
             /\ ContentInv /\ [Next]_vars =>
                  [\A p \in Paths :
                     (root.tree[p] = "user" /\ root'.tree[p] # "user") =>
                       \/ edits' # edits
                       \/ \E r \in Runs : run[r].phase = "running" /\ lock = r]_vars
  BY <1>1, ContentStep, EditStep
<1>2. ASSUME ~Overlap PROVE Spec => UserEditKept
  <2>1. ContentInv /\ [Next]_vars => ContentInv'
    BY <1>1, <1>2
  <2>2. ContentInv /\ [Next]_vars =>
          [\A p \in Paths :
             (root.tree[p] = "user" /\ root'.tree[p] # "user") =>
               \/ edits' # edits
               \/ \E r \in Runs : run[r].phase = "running" /\ lock = r]_vars
    BY <1>1, <1>2
  <2> QED
    BY <2>1, <2>2, InitContent, PTL DEF Spec, UserEditKept
<1> QED
  BY <1>2

-----------------------------------------------------------------------------
LEMMA StartsOnDelegated ==
  ASSUME ContentInv, [Next]_vars, NEW r \in Runs,
         run[r].phase = "new", lock' = r, run'[r].prev = NoRun
  PROVE  policy = "allow" \/ \A p \in DOMAIN RootDetails : root.tree[p] \in Runs \cup {"fix"}
<1>1. ControlInv /\ TrustInv /\ lock # r
  BY DEF ContentInv, Inv, OwnerInv
<1>2. MayStart
  BY <1>1, LockTaken, RetryNamesItsRun
<1>3. \A p \in DOMAIN RootDetails : RootDetails[p] = root.tree[p]
  <2>1. RootLog \in Seq(Commit) /\ root.tree \in Tree
    BY <1>1, TypeFacts, RootFacts DEF ControlInv, TypeInv
  <2> QED
    BY <2>1, DetailsType DEF RootDetails
<1> QED
  BY <1>1, <1>2, <1>3 DEF MayStart, DelegatedChangesMatch, TrustInv, Authored

(* Unless the policy is allow, a delegation takes the root worktree only   *)
(* when whatever is uncommitted there was made by a run, or by the user in *)
(* an isolated worktree that was adopted, and has not changed since.       *)
THEOREM DelegatedTheorem == ~Overlap => (Spec => RunsStartOnDelegatedWork)
<1>1. ASSUME ~Overlap
      PROVE  /\ ContentInv /\ [Next]_vars => ContentInv'
             /\ ContentInv /\ [Next]_vars =>
                  [\A r \in Runs :
                     (run[r].phase = "new" /\ lock' = r /\ run'[r].prev = NoRun) =>
                       \/ policy = "allow"
                       \/ \A p \in DOMAIN RootDetails : root.tree[p] \in Runs \cup {"fix"}]_vars
  BY <1>1, ContentStep, StartsOnDelegated
<1>2. ASSUME ~Overlap PROVE Spec => RunsStartOnDelegatedWork
  <2>1. ContentInv /\ [Next]_vars => ContentInv'
    BY <1>1, <1>2
  <2>2. ContentInv /\ [Next]_vars =>
          [\A r \in Runs :
             (run[r].phase = "new" /\ lock' = r /\ run'[r].prev = NoRun) =>
               \/ policy = "allow"
               \/ \A p \in DOMAIN RootDetails : root.tree[p] \in Runs \cup {"fix"}]_vars
    BY <1>1, <1>2
  <2> QED
    BY <2>1, <2>2, InitContent, PTL DEF Spec, RunsStartOnDelegatedWork
<1> QED
  BY <1>2

-----------------------------------------------------------------------------
(* Logs only grow: the root's branches, and an isolated worktree's.        *)
Prefix(s, t) == Len(s) <= Len(t) /\ \A k \in 1..Len(s) : s[k] = t[k]

Bears(rt, a) == \E b \in DOMAIN rt.heads : \E k \in 1..Len(rt.heads[b]) : rt.heads[b][k].by = a

OnBranch(a) == Bears(root, a)

LEMMA PrefixStep ==
  ASSUME NEW s \in Seq(Commit), NEW t \in Seq(Commit), NEW u \in Seq(Commit),
         Prefix(s, t), Prefix(t, u)
  PROVE  Prefix(s, u)
<1>1. Len(s) \in Nat /\ Len(t) \in Nat /\ Len(u) \in Nat
  OBVIOUS
<1>2. Len(s) <= Len(u) /\ \A k \in 1..Len(s) : k \in 1..Len(t)
  BY <1>1 DEF Prefix
<1> QED
  BY <1>2 DEF Prefix

LEMMA PrefixCommit ==
  ASSUME NEW log \in Seq(Commit), NEW r \in Runs, NEW tree \in Tree, NEW paths
  PROVE  Prefix(log, Committed(log, r, tree, paths))
<1>1. /\ Len(Committed(log, r, tree, paths)) = Len(log) + 1 /\ Len(log) \in Nat
      /\ \A k \in 1..Len(log) : Committed(log, r, tree, paths)[k] = log[k]
  BY CommittedType
<1> QED
  BY <1>1 DEF Prefix

LEMMA EnsureBears ==
  ASSUME NEW rt, WellRooted(rt), NEW a, Bears(rt, a)
  PROVE  Bears(EnsureWorkBranch(rt), a)
<1>1. PICK b \in DOMAIN rt.heads : \E k \in 1..Len(rt.heads[b]) : rt.heads[b][k].by = a
  BY DEF Bears
<1>2. EnsureWorkBranch(rt).heads[b] = rt.heads[b]
  BY EnsureFacts
<1>3. b \in DOMAIN EnsureWorkBranch(rt).heads
  <2>1. /\ Len(EnsureWorkBranch(rt).heads) >= Len(rt.heads) /\ WellRooted(EnsureWorkBranch(rt))
    BY EnsureFacts
  <2>2. EnsureWorkBranch(rt).heads \in Seq(Seq(Commit)) /\ rt.heads \in Seq(Seq(Commit))
    BY <2>1, RootFacts
  <2> HIDE DEF EnsureWorkBranch
  <2> QED
    BY <2>1, <2>2
<1> QED
  BY <1>1, <1>2, <1>3 DEF Bears

(* A head that is replaced by a longer one.                                *)
LEMMA LongerHeadBears ==
  ASSUME NEW rt, WellRooted(rt), NEW to, NEW log, Head1(to) = log,
         to.branch = rt.branch, DOMAIN to.heads = DOMAIN rt.heads,
         \A b \in DOMAIN rt.heads : b # rt.branch => to.heads[b] = rt.heads[b],
         Len(Head1(rt)) <= Len(log), \A k \in 1..Len(Head1(rt)) : log[k].by = Head1(rt)[k].by,
         log \in Seq(Commit), NEW a, Bears(rt, a)
  PROVE  Bears(to, a)
<1>1. PICK b \in DOMAIN rt.heads : \E k \in 1..Len(rt.heads[b]) : rt.heads[b][k].by = a
  BY DEF Bears
<1>2. CASE b # rt.branch
  BY <1>1, <1>2 DEF Bears
<1>3. CASE b = rt.branch
  <2>1. PICK k \in 1..Len(Head1(rt)) : Head1(rt)[k].by = a
    BY <1>1, <1>3 DEF Head1
  <2>2. Head1(rt) \in Seq(Commit) /\ b \in DOMAIN to.heads /\ to.heads[b] = log
    BY <1>3, RootFacts DEF Head1
  <2>3. k \in 1..Len(log) /\ log[k].by = a
    <3>1. Len(Head1(rt)) \in Nat /\ Len(log) \in Nat
      BY <2>2
    <3> QED
      BY <2>1, <3>1
  <2> QED
    BY <2>2, <2>3 DEF Bears
<1> QED
  BY <1>2, <1>3

LEMMA AutoCommitBears ==
  ASSUME NEW r \in Runs, NEW rec \in Run, NEW now, NEW rt, WellRooted(rt), NEW ok \in BOOLEAN,
         NEW res, res = AutoCommitted(r, rec, now, rt, ok), NEW a, Bears(rt, a)
  PROVE  Bears(res.root, a)
<1>1. NoCommit(rec, rt, res) \/ RootCommit(r, rec, now, rt, res) \/ WtCommit(r, rec, now, rt, res)
  BY AutoCommitCases
<1>2. CASE res.root = rt
  BY <1>2
<1>3. CASE RootCommit(r, rec, now, rt, res)
  <2> DEFINE log == res.sha
             to == res.root
  <2>1. Head1(rt) \in Seq(Commit) /\ rt.tree \in Tree
    BY RootFacts
  <2>2. /\ log = Committed(Head1(rt), r, rt.tree, res.paths)
        /\ to = [rt EXCEPT !.heads[rt.branch] = log]
    BY <1>3 DEF RootCommit
  <2>3. log \in Seq(Commit) /\ Prefix(Head1(rt), log)
    BY <2>1, <2>2, CommittedType, PrefixCommit
  <2> HIDE DEF log, to
  <2>4. /\ Head1(to) = log /\ to.branch = rt.branch /\ DOMAIN to.heads = DOMAIN rt.heads
        /\ \A b \in DOMAIN rt.heads : b # rt.branch => to.heads[b] = rt.heads[b]
    BY <2>2, <2>3, NewHead
  <2> QED
    BY <2>3, <2>4, LongerHeadBears DEF Prefix, to
<1> QED
  BY <1>1, <1>2, <1>3 DEF NoCommit, WtCommit

LEMMA PickBears ==
  ASSUME ControlInv, NEW w \in Runs, NEW rt, rt \in {root, PickedRoot(w), StuckRoot(w)},
         NEW a, OnBranch(a)
  PROVE  Bears(rt, a)
<1> DEFINE to == EnsureWorkBranch(root)
<1>1. WellRooted(root) /\ WtWell /\ TypeOK /\ WellRooted(to) /\ Head1(to) = RootLog /\ Bears(to, a)
  BY TypeFacts, EnsureFacts, EnsureBears DEF ControlInv, TypeInv, OnBranch, RootLog
<1> HIDE DEF to
<1>2. CASE rt = root
  BY <1>2 DEF OnBranch
<1>3. CASE rt = StuckRoot(w)
  <2>1. rt.heads = to.heads
    BY <1>1, <1>3, StuckRootFacts DEF to
  <2> QED
    BY <1>1, <2>1 DEF Bears
<1>4. CASE rt = PickedRoot(w) /\ Units(w) # {}
  <2>1. /\ Picked(w) \in Seq(Commit) /\ Len(RootLog) <= Len(Picked(w))
        /\ \A k \in 1..Len(RootLog) : Picked(w)[k] = RootLog[k]
    <3>1. /\ Picked(w) \in Seq(Commit) /\ Len(RootLog) \in Nat /\ Len(wt[w].log) - wt[w].base \in Nat
          /\ Len(Picked(w)) = Len(RootLog) + (Len(wt[w].log) - wt[w].base)
          /\ \A k \in 1..Len(RootLog) : Picked(w)[k] = RootLog[k]
      BY <1>1, PickedFacts
    <3> QED
      BY <3>1
  <2>2. /\ Head1(rt) = Picked(w) /\ rt.branch = to.branch /\ DOMAIN rt.heads = DOMAIN to.heads
        /\ \A b \in DOMAIN to.heads : b # to.branch => rt.heads[b] = to.heads[b]
    BY <1>1, <1>4, PickedRootFacts DEF to
  <2> QED
    BY <1>1, <2>1, <2>2, LongerHeadBears
<1>5. CASE rt = PickedRoot(w) /\ Units(w) = {}
  BY <1>1, <1>2, <1>5, PickedRootFacts
<1> QED
  BY <1>2, <1>3, <1>4, <1>5

LEMMA BranchesGrow ==
  ASSUME ControlInv, ChainInv, WorkInv, [Next]_vars, NEW a, OnBranch(a)
  PROVE  OnBranch(a)'
<1>1. WellRooted(root) /\ Bears(root, a)
  BY TypeFacts DEF ControlInv, TypeInv, OnBranch
<1>2. CASE root'.heads = root.heads
  BY <1>1, <1>2 DEF OnBranch, Bears
<1>3. ASSUME NEW to, root' = to, Bears(to, a) PROVE OnBranch(a)'
  BY <1>3 DEF OnBranch, Bears
<1>4. ASSUME NEW r \in Runs, RunStep(r), root'.heads # root.heads
      PROVE  OnBranch(a)'
  <2>1. CASE Begin(r)
    <3>1. root' = EnsureWorkBranch(root)
      BY <1>4, <2>1 DEF Begin
    <3> QED
      BY <1>1, <1>3, <3>1, EnsureBears
  <2>2. CASE Execute(r)
    <3>1. PICK written \in SUBSET Paths, undone \in SUBSET Paths :
            root' = [root EXCEPT !.tree = Written(r, written, undone)]
      BY <1>4, <2>2, ExecuteCases DEF ControlInv, TypeInv
    <3>2. Written(r, written, undone) \in Tree
      BY WrittenType DEF ControlInv, TypeInv
    <3> QED
      BY <1>1, <1>4, <3>1, <3>2, NewTreeOnly
  <2>3. CASE \E ok \in BOOLEAN : Finish(r, ok)
    <3>1. Delivered(r) \in Run
      BY DeliveredFacts DEF ControlInv, TypeInv
    <3>2. PICK ok \in BOOLEAN :
            root' = AutoCommitted(r, Delivered(r), DetailsAt(r), root, ok).root
      BY <1>4, <2>3, FinishCases DEF FinishedAsIs, FinishedWith
    <3> QED
      BY <1>1, <1>3, <3>1, <3>2, AutoCommitBears
  <2>4. CASE Pick(r)
    <3>1. run[r].at \in Runs
      BY <2>4, PickingPlace DEF Pick
    <3>2. root' \in {PickedRoot(run[r].at), StuckRoot(run[r].at)}
      BY <1>4, <2>4, PickCases
    <3> QED
      BY <1>3, <3>1, <3>2, PickBears
  <2> QED
    BY <1>4, <2>1, <2>2, <2>3, <2>4, RetryCases
       DEF RunStep, Delegate, CreateIsolatedWorktree, BeginRefused, AcquireRoot, Cleanup, Save
<1>5. ASSUME NEW u \in Runs, OperatorStep(u), root'.heads # root.heads
      PROVE  OnBranch(a)'
  <2>1. CASE (\E p \in Paths : CopyFile(u, p)) \/ AdoptFails(u)
    BY <1>1, <1>5, <2>1 DEF CopyFile, AdoptFails, WellRooted, Root
  <2>2. CASE CommitPartial(u)
    <3>1. run[u] \in Run /\ WellRooted(CommitRoot(u)) /\ Bears(CommitRoot(u), a)
      BY <1>1, <2>2, TypeFacts, EnsureFacts, EnsureBears DEF ControlInv, TypeInv, CommitRoot
    <3>2. PICK ok \in BOOLEAN :
            root' = AutoCommitted(u, run[u], DetailsAt(u), CommitRoot(u), ok).root
      BY <2>2, CommitPartialCases DEF CommittedAs
    <3> QED
      BY <1>3, <3>1, <3>2, AutoCommitBears
  <2> QED
    BY <1>5, <2>1, <2>2
       DEF OperatorStep, AdoptIntegrated, AdoptCommitted, AdoptFiles, RecordAdopted, Discard,
           RemoveWorktree
<1>6. ASSUME NEW u \in Runs, Crash(u), root'.heads # root.heads
      PROVE  OnBranch(a)'
  <2>1. run[u].phase = "picking" /\ root' \in {PickedRoot(run[u].at), StuckRoot(run[u].at)}
    BY <1>6, CrashCases
  <2>2. run[u].at \in Runs
    BY <2>1, PickingPlace
  <2> QED
    BY <1>3, <2>1, <2>2, PickBears
<1>7. CASE UserStep
  <2>1. root'.heads = root.heads
    BY <1>1, <1>7 DEF UserStep, UserEdits, UserSwitches, UserAborts, UserFixes, UserActs,
         WellRooted, Root
  <2> QED
    BY <1>2, <2>1
<1> QED
  BY <1>2, <1>4, <1>5, <1>6, <1>7 DEF Next, vars

(* What a step does to the base and the existence of a worktree.           *)
Removes(u, w) ==
  \/ Cleanup(u) /\ run[u].marker = w /\ CleanupAllowed(u)
  \/ RemoveWorktree(u) /\ run[u].at = w

LEMMA PlacesEnd ==
  ASSUME ControlInv, [Next]_vars, NEW w \in Runs
  PROVE  /\ wt'[w].base = wt[w].base \/ Delegate(w)
         /\ wt[w].there /\ ~wt'[w].there => \E u \in Runs : Removes(u, w)
<1>1. TypeOK /\ WtWell /\ WellRooted(root)
  BY TypeFacts DEF ControlInv, TypeInv
<1>2. CASE wt'[w].base = wt[w].base /\ wt'[w].there = wt[w].there
  BY <1>2
<1>3. ASSUME NEW x \in Runs, wt' = [wt EXCEPT ![x].there = FALSE], w # x \/ \E u \in Runs : Removes(u, w)
      PROVE  /\ wt'[w].base = wt[w].base \/ Delegate(w)
             /\ wt[w].there /\ ~wt'[w].there => \E u \in Runs : Removes(u, w)
  BY <1>1, <1>3, NewWtThere
<1>4. ASSUME NEW r \in Runs, RunStep(r), ~(UNCHANGED wt)
      PROVE  /\ wt'[w].base = wt[w].base \/ Delegate(w)
             /\ wt[w].there /\ ~wt'[w].there => \E u \in Runs : Removes(u, w)
  <2>1. CASE Delegate(r)
    <3> DEFINE place == [there |-> TRUE, log |-> RootLog, base |-> Len(RootLog), tree |-> TreeOf(RootLog)]
    <3>1. wt' = [wt EXCEPT ![r] = place] /\ place.there
      BY <1>4, <2>1 DEF Delegate, Block, CreateIsolatedWorktree
    <3> HIDE DEF place
    <3>2. w = r => wt'[w].there
      BY <1>1, <3>1 DEF WtWell
    <3>3. w # r => wt'[w] = wt[w]
      BY <1>1, <3>1 DEF WtWell
    <3> QED
      BY <2>1, <3>2, <3>3
  <2>2. CASE Execute(r)
    <3>1. PICK written \in SUBSET Paths, undone \in SUBSET Paths :
            IF Isolated(r)
            THEN wt' = [wt EXCEPT ![run[r].at].tree = Written(r, written, undone)] /\ UNCHANGED root
            ELSE root' = [root EXCEPT !.tree = Written(r, written, undone)] /\ UNCHANGED wt
      BY <1>1, <2>2, ExecuteCases
    <3>2. Isolated(r) /\ wt' = [wt EXCEPT ![run[r].at].tree = Written(r, written, undone)]
      BY <1>4, <3>1
    <3>3. Written(r, written, undone) \in Tree /\ run[r].at \in Runs
      BY <1>1, <3>2, WrittenType, PlaceFacts
    <3> QED
      BY <1>1, <1>2, <3>2, <3>3, NewWtTree
  <2>3. CASE \E ok \in BOOLEAN : Finish(r, ok)
    <3>1. Delivered(r) \in Run
      BY <1>1, DeliveredFacts
    <3>2. PICK ok \in BOOLEAN : wt' = AutoCommitted(r, Delivered(r), DetailsAt(r), root, ok).wt
      BY <1>4, <2>3, FinishCases DEF FinishedAsIs, FinishedWith
    <3> QED
      BY <1>1, <1>2, <3>1, <3>2, AutoCommitPlaces
  <2>4. CASE Cleanup(r)
    <3>1. /\ run[r].marker \in Runs /\ CleanupAllowed(r)
          /\ wt' = [wt EXCEPT ![run[r].marker].there = FALSE]
      <4>1. run[r] \in Run
        BY <1>1 DEF TypeOK
      <4> QED
        BY <1>4, <2>4, <4>1 DEF Cleanup, Run
    <3> QED
      BY <1>3, <2>4, <3>1 DEF Removes
  <2> QED
    BY <1>4, <2>1, <2>2, <2>3, <2>4, RetryCases, PickCases
       DEF RunStep, RetryStarts, Begin, BeginRefused, Block, AcquireRoot, Save
<1>5. ASSUME NEW u \in Runs, OperatorStep(u), ~(UNCHANGED wt)
      PROVE  /\ wt'[w].base = wt[w].base \/ Delegate(w)
             /\ wt[w].there /\ ~wt'[w].there => \E x \in Runs : Removes(x, w)
  <2>1. CASE RemoveWorktree(u)
    <3>1. run[u].at \in Runs /\ wt' = [wt EXCEPT ![run[u].at].there = FALSE]
      BY <2>1, RemoveWorktreeType DEF ControlInv
    <3> QED
      BY <1>3, <2>1, <3>1 DEF Removes
  <2>2. CASE CommitPartial(u)
    <3>1. run[u] \in Run /\ WellRooted(CommitRoot(u))
      BY <1>1, <2>2, EnsureFacts DEF CommitRoot, TypeOK
    <3>2. PICK ok \in BOOLEAN :
            wt' = AutoCommitted(u, run[u], DetailsAt(u), CommitRoot(u), ok).wt
      BY <2>2, CommitPartialCases DEF CommittedAs
    <3> QED
      BY <1>1, <1>2, <3>1, <3>2, AutoCommitPlaces
  <2> QED
    BY <1>5, <2>1, <2>2
       DEF OperatorStep, AdoptIntegrated, AdoptCommitted, AdoptFiles, CopyFile, RecordAdopted,
           AdoptFails, Discard
<1>6. ASSUME NEW x \in Runs, NEW p \in Paths, UserFixes(x, p)
      PROVE  wt'[w].base = wt[w].base /\ wt'[w].there = wt[w].there
  <2> DEFINE tree == [wt[x].tree EXCEPT ![p] = "fix"]
  <2>1. tree \in Tree /\ wt' = [wt EXCEPT ![x].tree = tree]
    BY <1>1, <1>6, WtFacts, Names DEF UserFixes, Tree
  <2> HIDE DEF tree
  <2> QED
    BY <1>1, <2>1, NewWtTree
<1>7. CASE UserStep /\ \A x \in Runs, p \in Paths : ~UserFixes(x, p)
  BY <1>2, <1>7 DEF UserStep, UserEdits, UserSwitches, UserAborts, UserActs
<1>8. CASE UNCHANGED wt
  BY <1>2, <1>8
<1> QED
  BY <1>2, <1>4, <1>5, <1>6, <1>7, <1>8, CrashCases DEF Next, vars

(* A worktree that a run's marker names grows by commits only.             *)
LEMMA MarkedGrows ==
  ASSUME Inv, ChainInv, WorkInv, [Next]_vars, NEW r \in Runs, run[r].marker # NoRun,
         NEW w, w = run[r].marker
  PROVE  /\ w \in Runs /\ wt[w].there /\ ~Delegate(w)
         /\ wt'[w].base = wt[w].base /\ Prefix(wt[w].log, wt'[w].log)
<1>1. ControlInv /\ SharingInv /\ WtWell
  BY TypeFacts DEF Inv, ControlInv, TypeInv
<1>2. w \in Runs
  <2>1. run[r] \in Run
    BY <1>1 DEF ControlInv, TypeInv, TypeOK
  <2> QED
    BY <2>1 DEF Run
<1>3. wt[w].there /\ ~Delegate(w)
  BY <1>1, <1>2 DEF SharingInv, ControlInv, StartInv, Delegate
<1>4. wt[w].log \in Seq(Commit) /\ wt[w].tree \in Tree
  BY <1>1, <1>2, WtFacts
<1>5. Prefix(wt[w].log, wt'[w].log)
  <2>1. CASE wt'[w].log = wt[w].log
    BY <1>4, <2>1 DEF Prefix
  <2>2. CASE \E x \in Runs : \E paths : wt'[w].log = Committed(wt[w].log, x, wt[w].tree, paths)
    BY <1>4, <2>2, PrefixCommit
  <2>3. WtMove(w)
    BY <1>1, <1>2, PlaceMoves
  <2> QED
    BY <1>3, <2>1, <2>2, <2>3 DEF WtMove, WtKept
<1> QED
  BY <1>1, <1>2, <1>3, <1>5, PlacesEnd

-----------------------------------------------------------------------------
(* What a step does to the commits that a record names.                    *)
Quiet(v) ==
  /\ run'[v].sha = run[v].sha /\ run'[v].unit = run[v].unit /\ run'[v].line = run[v].line
  /\ run'[v].marker \in {NoRun, run[v].marker}
  /\ run'[v].integ = "integrated" => run[v].integ = "integrated"
  /\ run'[v].phase = "cleanup" /\ run'[v].marker # NoRun =>
       run[v].integ = run'[v].integ /\ (run[v].phase = "cleanup" \/ run[v].integ = "integrated")
  /\ run'[v].phase \in Early => run[v].phase \in Early /\ run'[v].integ = run[v].integ

(* Its worktree is removed because everything in it was delivered.         *)
Resolves(u, v) ==
  /\ run[v].marker \in Runs
  /\ \/ Cleanup(u) /\ CleanupAllowed(u) /\ run[u].marker = run[v].marker
     \/ RemoveWorktree(u) /\ cmd.op = "adopt" /\ run[u].at = run[v].marker

Delivers(v) ==
  /\ run'[v].sha = run[v].sha /\ run'[v].line = run[v].line
  /\ run'[v].marker = NoRun /\ run'[v].phase \notin Early
  /\ \E u \in Runs : Resolves(u, v)

PickDone(v) ==
  /\ Pick(v) /\ ~PickRefused(v) /\ root' = PickedRoot(run[v].at) /\ UNCHANGED wt
  /\ run'[v].unit = wt[run[v].at].log /\ run'[v].integ = "integrated"
  /\ run'[v].sha = run[v].sha /\ run'[v].line = run[v].line
  /\ run'[v].marker = run[v].marker /\ run'[v].phase = "cleanup"

Starts(v) ==
  /\ run[v].phase = "new" /\ run'[v].integ = "none" /\ run'[v].phase # "cleanup"
  /\ \/ run'[v].sha = <<>> /\ run'[v].line \subseteq {v}
     \/ \E u \in Runs :
          /\ Retryable(u) /\ run'[v].line = run[u].line \cup {v}
          /\ \/ run'[v].sha = <<>>
             \/ run'[v].sha = run[u].sha /\ run'[v].marker \in {NoRun, run[u].marker}

RootSha(v) ==
  /\ run'[v].marker = NoRun /\ WellRooted(root') /\ run'[v].sha = Head1(root')
  /\ \E log \in Seq(Commit) : \E paths : run'[v].sha = Committed(log, v, root.tree, paths)

WtSha(v) ==
  /\ run[v].at \in Runs /\ run'[v].sha = wt'[run[v].at].log
  /\ \E paths : run'[v].sha = Committed(wt[run[v].at].log, v, wt[run[v].at].tree, paths)
  /\ \E p \in Paths : Dirty(run[v].at, p) /\ wt[run[v].at].tree[p] \in run[v].line

CommitsNow(v) ==
  /\ run[v].phase # "dead"
  /\ run'[v].unit = run[v].unit /\ run'[v].marker = run[v].marker /\ run'[v].line = run[v].line
  /\ run'[v].integ = "integrated" => run[v].integ = "integrated"
  /\ run'[v].phase \notin Early \cup {"cleanup"}
  /\ run'[v].sha = run[v].sha \/ RootSha(v) \/ WtSha(v)

UnitStep(v) == Quiet(v) \/ Delivers(v) \/ PickDone(v) \/ Starts(v) \/ CommitsNow(v)

LEMMA OthersQuiet ==
  ASSUME NEW u, NEW rec, run \in [Runs -> Run], run' = [run EXCEPT ![u] = rec], NEW v \in Runs, v # u
  PROVE  Quiet(v)
<1>1. run'[v] = run[v]
  OBVIOUS
<1> QED
  BY <1>1 DEF Quiet

LEMMA RecordQuiet ==
  ASSUME NEW u, NEW rec, run \in [Runs -> Run], run' = [run EXCEPT ![u] = rec],
         rec.sha = run[u].sha, rec.unit = run[u].unit, rec.line = run[u].line,
         rec.marker \in {NoRun, run[u].marker},
         rec.integ = "integrated" => run[u].integ = "integrated",
         rec.phase = "cleanup" => rec.integ = run[u].integ /\ run[u].integ = "integrated",
         rec.phase \in Early => run[u].phase \in Early /\ rec.integ = run[u].integ
  PROVE  \A v \in Runs : Quiet(v)
<1>1. ASSUME NEW v \in Runs, v # u PROVE Quiet(v)
  BY <1>1, OthersQuiet
<1>2. u \in Runs => run'[u] = rec
  OBVIOUS
<1> QED
  BY <1>1, <1>2 DEF Quiet

LEMMA MovedQuiet ==
  ASSUME TypeOK, NEW u \in Runs, NEW phase, NEW status, NEW integ,
         integ = "integrated" => run[u].integ = "integrated",
         phase = "cleanup" => integ = run[u].integ /\ run[u].integ = "integrated",
         phase \in Early => run[u].phase \in Early /\ integ = run[u].integ,
         run' = [run EXCEPT ![u] = Moved(u, phase, status, integ, run[u].unit)]
  PROVE  \A v \in Runs : Quiet(v)
<1> DEFINE rec == Moved(u, phase, status, integ, run[u].unit)
<1>1. /\ rec.phase = phase /\ rec.integ = integ /\ rec.unit = run[u].unit
      /\ rec.marker = run[u].marker /\ rec.sha = run[u].sha /\ rec.line = run[u].line
  BY MovedFacts
<1>2. run' = [run EXCEPT ![u] = rec] /\ run \in [Runs -> Run]
  BY DEF TypeOK
<1> HIDE DEF rec
<1>3. /\ rec.integ = "integrated" => run[u].integ = "integrated"
      /\ rec.phase = "cleanup" => rec.integ = run[u].integ /\ run[u].integ = "integrated"
      /\ rec.phase \in Early => run[u].phase \in Early /\ rec.integ = run[u].integ
      /\ rec.marker \in {NoRun, run[u].marker}
  BY <1>1
<1> QED
  BY <1>1, <1>2, <1>3, RecordQuiet

LEMMA PhaseQuiet ==
  ASSUME TypeOK, NEW u \in Runs, NEW phase, phase \notin Early,
         phase = "cleanup" => run[u].integ = "integrated", run' = [run EXCEPT ![u].phase = phase]
  PROVE  \A v \in Runs : Quiet(v)
<1>1. run' = [run EXCEPT ![u] = Moved(u, phase, run[u].status, run[u].integ, run[u].unit)]
  BY PhaseMoves
<1> QED
  BY <1>1, MovedQuiet

LEMMA IntegratedQuiet ==
  ASSUME TypeOK, NEW u \in Runs, NEW integ, NEW phase, phase \notin Early \cup {"cleanup"},
         integ = "integrated" => run[u].integ = "integrated", Integrated(u, integ, phase)
  PROVE  \A v \in Runs : Quiet(v)
<1>1. run' = [run EXCEPT ![u] = Moved(u, phase, run[u].status, integ, run[u].unit)]
  BY IntegMoves
<1> QED
  BY <1>1, MovedQuiet

LEMMA BlockQuiet ==
  ASSUME TypeOK, NEW u \in Runs, Block(u, run[u])
  PROVE  \A v \in Runs : Quiet(v)
<1> DEFINE rec == [run[u] EXCEPT !.phase = "done", !.status = "blocked"]
<1>1. run' = [run EXCEPT ![u] = rec]
  BY DEF Block
<1>2. /\ rec.phase = "done" /\ rec.integ = run[u].integ /\ rec.unit = run[u].unit
      /\ rec.marker = run[u].marker /\ rec.sha = run[u].sha /\ rec.line = run[u].line
      /\ run \in [Runs -> Run]
  BY DEF TypeOK, Run
<1> HIDE DEF rec
<1> QED
  BY <1>1, <1>2, RecordQuiet DEF Early

LEMMA DelegateUnit ==
  ASSUME ControlInv, NEW r \in Runs, Delegate(r)
  PROVE  \A v \in Runs : Quiet(v) \/ Starts(v)
<1>1. run[r].phase = "new" /\ run[r] = Unstarted /\ TypeOK /\ run \in [Runs -> Run] /\ run[r] \in Run
  BY DEF Delegate, ControlInv, StartInv, TypeInv, TypeOK
<1>2. CASE Block(r, run[r])
  BY <1>1, <1>2, BlockQuiet
<1>3. ASSUME NEW rec, run' = [run EXCEPT ![r] = rec], rec.phase = "prepared", rec.line = {r},
             rec.sha = <<>>, rec.integ = "none"
      PROVE  \A v \in Runs : Quiet(v) \/ Starts(v)
  <2>1. run'[r] = rec
    BY <1>1, <1>3
  <2>2. Starts(r)
    BY <1>1, <1>3, <2>1 DEF Starts
  <2> QED
    BY <1>1, <1>3, <2>2, OthersQuiet
<1>4. CASE CreateIsolatedWorktree(r)
  <2> DEFINE new == [run[r] EXCEPT !.phase = "prepared", !.marker = r, !.at = r, !.line = {r}]
  <2>1. run' = [run EXCEPT ![r] = new]
    BY <1>1, <1>4 DEF CreateIsolatedWorktree
  <2>2. new.phase = "prepared" /\ new.line = {r} /\ new.sha = <<>> /\ new.integ = "none"
    BY <1>1, UnstartedType DEF Run
  <2> HIDE DEF new
  <2> QED
    BY <1>3, <2>1, <2>2
<1>5. CASE run' = [run EXCEPT ![r].phase = "prepared", ![r].line = {r}]
  <2> DEFINE new == [run[r] EXCEPT !.phase = "prepared", !.line = {r}]
  <2>1. run' = [run EXCEPT ![r] = new]
    BY <1>1, <1>5
  <2>2. new.phase = "prepared" /\ new.line = {r} /\ new.sha = <<>> /\ new.integ = "none"
    BY <1>1, UnstartedType DEF Run
  <2> HIDE DEF new
  <2> QED
    BY <1>3, <2>1, <2>2
<1> QED
  BY <1>2, <1>4, <1>5 DEF Delegate

LEMMA RetryUnit ==
  ASSUME ControlInv, NEW r \in Runs, NEW u \in Runs, Retry(r, u)
  PROVE  \A v \in Runs : Quiet(v) \/ Starts(v)
<1>1. run[r].phase = "new" /\ Retryable(u) /\ TypeOK /\ run \in [Runs -> Run]
  BY RetryCases DEF ControlInv, TypeInv, TypeOK
<1>2. ASSUME NEW s \in {Successor(r, u), Homeless(r, u)}
      PROVE  /\ s \in Run /\ s.phase = "prepared" /\ s.line = run[u].line \cup {r} /\ s.integ = "none"
             /\ s.sha = <<>> \/ (s.sha = run[u].sha /\ s.marker \in {NoRun, run[u].marker})
  <2>1. /\ s \in Run /\ s.phase = "prepared" /\ s.line = run[u].line \cup {r} /\ s.integ = "none"
        /\ s.sha = IF Reuses(u) THEN run[u].sha ELSE <<>>
        /\ s.marker = NoRun \/ s.marker = IF Reuses(u) THEN run[u].marker ELSE NoRun
    BY <1>1, <1>2, SuccessorFacts
  <2> QED
    BY <2>1
<1>3. ASSUME NEW rec, run' = [run EXCEPT ![r] = rec], rec.phase \in {"prepared", "done"},
             rec.line = run[u].line \cup {r}, rec.integ = "none",
             rec.sha = <<>> \/ (rec.sha = run[u].sha /\ rec.marker \in {NoRun, run[u].marker})
      PROVE  \A v \in Runs : Quiet(v) \/ Starts(v)
  <2>1. run'[r] = rec
    BY <1>1, <1>3
  <2>2. Starts(r)
    BY <1>1, <1>3, <2>1 DEF Starts
  <2> QED
    BY <1>1, <1>3, <2>2, OthersQuiet
<1>4. ASSUME NEW s \in {Successor(r, u), Homeless(r, u)}, Block(r, s)
      PROVE  \A v \in Runs : Quiet(v) \/ Starts(v)
  <2> DEFINE rec == [s EXCEPT !.phase = "done", !.status = "blocked"]
  <2>1. run' = [run EXCEPT ![r] = rec]
    BY <1>4 DEF Block
  <2>2. /\ rec.phase = "done" /\ rec.line = run[u].line \cup {r} /\ rec.integ = "none"
        /\ rec.sha = <<>> \/ (rec.sha = run[u].sha /\ rec.marker \in {NoRun, run[u].marker})
    BY <1>2 DEF Run
  <2> HIDE DEF rec
  <2> QED
    BY <1>3, <2>1, <2>2
<1>5. CASE RetryStarts(r, u)
  BY <1>2, <1>3, <1>5 DEF RetryStarts
<1> QED
  BY <1>4, <1>5, RetryCases

LEMMA ResolvedUnit ==
  ASSUME ControlInv, NEW w \in Runs, NEW u \in Runs, NEW phase \in {"saving", "done"},
         NEW marker \in {"INTEGRATED", "ADOPTED", "DISCARDED"},
         NEW integ \in {"integrated", "failed"}, MarkResolved(w, u, marker, integ, phase),
         integ = "integrated" => \A v \in Runs : run[v].marker = w => \E x \in Runs : Resolves(x, v)
  PROVE  \A v \in Runs : Quiet(v) \/ Delivers(v)
<1> TAKE v \in Runs
<1> DEFINE rec == run'[v]
<1>1. phase \in Phases /\ TypeOK
  BY DEF Phases, ControlInv, TypeInv
<1>2. /\ rec.phase = (IF v = u THEN phase ELSE run[v].phase)
      /\ rec.marker = (IF run[v].marker = w THEN NoRun ELSE run[v].marker)
      /\ rec.integ = (IF run[v].marker = w /\ (v = u \/ Finalized(v)) THEN integ ELSE run[v].integ)
      /\ rec.sha = run[v].sha /\ rec.unit = run[v].unit /\ rec.line = run[v].line
  BY <1>1, ResolvedFacts
<1>3. Finalized(v) => run[v].phase \notin Early
  BY DEF Finalized, ControlInv, CommandInv, Early
<1>4. CASE run[v].marker = w /\ (v = u \/ Finalized(v)) /\ integ = "integrated"
  BY <1>2, <1>3, <1>4 DEF Delivers, Early
<1>5. CASE ~(run[v].marker = w /\ (v = u \/ Finalized(v)) /\ integ = "integrated")
  <2>1. rec.integ = "integrated" => run[v].integ = "integrated"
    BY <1>2, <1>5
  <2>2. rec.phase \in Early => run[v].phase \in Early /\ rec.integ = run[v].integ
    BY <1>2, <1>3 DEF Early
  <2>3. rec.phase = "cleanup" /\ rec.marker # NoRun => rec.integ = run[v].integ /\ run[v].phase = "cleanup"
    BY <1>2, Names
  <2> QED
    BY <1>2, <2>1, <2>2, <2>3 DEF Quiet
<1> QED
  BY <1>4, <1>5

LEMMA CleanupUnit ==
  ASSUME ControlInv, NEW u \in Runs, Cleanup(u)
  PROVE  \A v \in Runs : Quiet(v) \/ Delivers(v)
<1>1. TypeOK /\ run[u] \in Run
  BY DEF ControlInv, TypeInv, TypeOK
<1>2. CASE run[u].marker # NoRun /\ CleanupAllowed(u)
  <2>1. run[u].marker \in Runs
    BY <1>1, <1>2 DEF Run
  <2>2. MarkResolved(run[u].marker, u, "INTEGRATED", "integrated", "saving")
    BY <1>2 DEF Cleanup
  <2>3. \A v \in Runs : run[v].marker = run[u].marker => Resolves(u, v)
    BY <1>2, <2>1 DEF Resolves
  <2> QED
    BY <2>1, <2>2, <2>3, ResolvedUnit
<1>3. CASE ~(run[u].marker # NoRun /\ CleanupAllowed(u))
  <2> DEFINE status == IF cmd.run = u THEN run[u].status ELSE "partial"
  <2>1. run' = [run EXCEPT ![u].phase = "saving", ![u].status = status]
    BY <1>1, <1>3 DEF Cleanup, TypeOK, Run
  <2> HIDE DEF status
  <2>2. run' = [run EXCEPT ![u] = Moved(u, "saving", status, run[u].integ, run[u].unit)]
    BY <1>1, <2>1, StatusMoves
  <2> QED
    BY <1>1, <2>2, MovedQuiet DEF Early
<1> QED
  BY <1>2, <1>3

LEMMA RemoveUnit ==
  ASSUME ControlInv, NEW u \in Runs, RemoveWorktree(u)
  PROVE  \A v \in Runs : Quiet(v) \/ Delivers(v)
<1>1. run[u].at \in Runs /\ run[u].phase = "removing"
  BY RemoveWorktreeType DEF ControlInv, RemoveWorktree
<1>2. CASE cmd.op = "adopt"
  <2>1. MarkResolved(run[u].at, u, "ADOPTED", "integrated", "done")
    BY <1>2 DEF RemoveWorktree
  <2>2. \A v \in Runs : run[v].marker = run[u].at => Resolves(u, v)
    BY <1>1, <1>2 DEF Resolves
  <2> QED
    BY <1>1, <2>1, <2>2, ResolvedUnit
<1>3. CASE cmd.op # "adopt"
  <2>1. MarkResolved(run[u].at, u, "DISCARDED", "failed", "done")
    BY <1>3 DEF RemoveWorktree
  <2> QED
    BY <1>1, <2>1, ResolvedUnit
<1> QED
  BY <1>2, <1>3

LEMMA PickUnit ==
  ASSUME ControlInv, NEW u \in Runs, Pick(u)
  PROVE  \A v \in Runs : Quiet(v) \/ PickDone(v)
<1>1. TypeOK /\ run \in [Runs -> Run]
  BY DEF ControlInv, TypeInv, TypeOK
<1>2. CASE /\ ~PickRefused(u) /\ root' = PickedRoot(run[u].at) /\ UNCHANGED wt
           /\ run' = [run EXCEPT ![u].integ = "integrated", ![u].phase = "cleanup",
                                 ![u].unit = wt[run[u].at].log]
  <2> DEFINE log == wt[run[u].at].log
             rec == Moved(u, "cleanup", run[u].status, "integrated", log)
  <2>1. run' = [run EXCEPT ![u] = rec]
    BY <1>1, <1>2, UnitMoves
  <2>2. /\ rec.phase = "cleanup" /\ rec.integ = "integrated" /\ rec.unit = log
        /\ rec.marker = run[u].marker /\ rec.sha = run[u].sha /\ rec.line = run[u].line
    BY <1>1, MovedFacts
  <2> HIDE DEF rec
  <2>3. run'[u] = rec
    BY <1>1, <2>1
  <2>4. PickDone(u)
    BY <1>2, <2>2, <2>3 DEF PickDone
  <2> QED
    BY <1>1, <2>1, <2>4, OthersQuiet
<1>3. CASE \E result \in {"failed", "conflict", run[u].integ} :
             Integrated(u, result, "saving")
  BY <1>1, <1>3, IntegratedQuiet DEF Early
<1> QED
  BY <1>2, <1>3, PickCases

(* A commit of run r on its record rec.                                    *)
LEMMA CommitUnit ==
  ASSUME ControlInv, NEW r \in Runs, run[r].phase # "dead",
         NEW rec \in Run, rec.at = run[r].at, rec.sha = run[r].sha,
         Owns(r, CommitPaths(rec, DetailsAt(r))),
         NEW rt, WellRooted(rt), rt.tree = root.tree, NEW ok \in BOOLEAN,
         NEW res, res = AutoCommitted(r, rec, DetailsAt(r), rt, ok),
         root' = res.root, wt' = res.wt,
         \A v \in Runs \ {r} : run'[v] = run[v],
         run'[r].sha = res.sha, run'[r].unit = run[r].unit,
         run'[r].marker = run[r].marker, run'[r].line = run[r].line,
         run'[r].phase \notin Early \cup {"cleanup"},
         run'[r].integ = "integrated" => run[r].integ = "integrated"
  PROVE  \A v \in Runs : Quiet(v) \/ CommitsNow(v)
<1>1. TypeOK /\ WtWell /\ run \in [Runs -> Run] /\ run[r] \in Run
  BY TypeFacts DEF ControlInv, TypeInv, TypeOK
<1>3. ASSUME RootCommit(r, rec, DetailsAt(r), rt, res) PROVE RootSha(r)
  <2> DEFINE log == Head1(rt)
             sha == res.sha
  <2>1. log \in Seq(Commit) /\ rt.tree \in Tree /\ WellRooted(root')
    BY <1>1, RootFacts, AutoCommitType
  <2>2. sha = Committed(log, r, root.tree, res.paths) /\ root' = [rt EXCEPT !.heads[rt.branch] = sha]
    BY <1>3 DEF RootCommit
  <2>3. sha \in Seq(Commit)
    BY <2>1, <2>2, CommittedType
  <2> HIDE DEF sha
  <2>4. Head1(root') = sha
    BY <2>2, <2>3, NewHead
  <2>5. run[r].marker = NoRun
    BY <1>3 DEF RootCommit, ControlInv, TypeInv, AtInv
  <2>6. run'[r].sha = sha
    BY DEF sha
  <2> HIDE DEF log
  <2> QED
    BY <2>1, <2>2, <2>4, <2>5, <2>6 DEF RootSha
<1>4. ASSUME WtCommit(r, rec, DetailsAt(r), rt, res) PROVE WtSha(r)
  <2> DEFINE w == run[r].at
             sha == res.sha
  <2>1. /\ w \in Runs /\ res.paths = CommitPaths(rec, DetailsAt(r)) /\ res.paths # {}
        /\ sha = Committed(wt[w].log, r, wt[w].tree, res.paths)
        /\ wt' = [wt EXCEPT ![w].log = sha]
    BY <1>4 DEF WtCommit
  <2> HIDE DEF sha
  <2>2. wt'[w].log = sha
    BY <1>1, <2>1 DEF WtWell, Worktree
  <2>3. PICK p : p \in CommitPaths(rec, DetailsAt(r))
    BY <2>1
  <2>4. p \in Paths /\ TreeAtPlace(r)[p] \in run[r].line /\ p \in DOMAIN DetailsAt(r)
    BY <2>3, CommitPathsFact DEF Owns
  <2>5. TreeAtPlace(r) = wt[w].tree /\ LogAtPlace(r) = wt[w].log
    BY <2>1, Names DEF TreeAtPlace, LogAtPlace, Isolated
  <2>6. Dirty(w, p) /\ wt[w].tree[p] \in run[r].line
    <3>1. DOMAIN DetailsAt(r) = {q \in Paths : TreeAtPlace(r)[q] # TreeOf(LogAtPlace(r))[q]}
      BY <1>1, PlaceFacts
    <3> QED
      BY <2>4, <2>5, <3>1 DEF Dirty
  <2>7. run'[r].sha = sha
    BY DEF sha
  <2> QED
    BY <2>1, <2>2, <2>4, <2>6, <2>7 DEF WtSha
<1>5. run'[r].sha = run[r].sha \/ RootSha(r) \/ WtSha(r)
  <2>1. NoCommit(rec, rt, res) \/ RootCommit(r, rec, DetailsAt(r), rt, res)
          \/ WtCommit(r, rec, DetailsAt(r), rt, res)
    BY AutoCommitCases
  <2>2. NoCommit(rec, rt, res) => run'[r].sha = run[r].sha
    BY DEF NoCommit
  <2> QED
    BY <1>3, <1>4, <2>1, <2>2
<1>6. CommitsNow(r)
  BY <1>5 DEF CommitsNow
<1> QED
  BY <1>6 DEF Quiet

LEMMA FinishUnit ==
  ASSUME ControlInv, ChainInv, WorkInv, NEW r \in Runs, NEW ok \in BOOLEAN, Finish(r, ok)
  PROVE  \A v \in Runs : Quiet(v) \/ CommitsNow(v)
<1>1. TypeOK /\ run \in [Runs -> Run] /\ run[r].phase = "worked" /\ WellRooted(root)
  BY FinishCases, TypeFacts DEF ControlInv, TypeInv, TypeOK
<1>2. /\ Delivered(r) \in Run /\ Delivered(r).integ \in {"pending", "none"}
      /\ Delivered(r).marker = run[r].marker /\ Delivered(r).at = run[r].at
      /\ Delivered(r).sha = run[r].sha /\ Delivered(r).unit = run[r].unit
      /\ Delivered(r).line = run[r].line
  BY <1>1, DeliveredFacts
<1>3. CASE FinishedAsIs(r)
  <2> DEFINE d == Delivered(r)
  <2> HIDE DEF d
  <2> DEFINE new == [d EXCEPT !.phase = "saving", !.commit = IF auto THEN "skipped" ELSE "disabled"]
  <2>1. run' = [run EXCEPT ![r] = new]
    BY <1>3 DEF FinishedAsIs, d
  <2>2. /\ new.phase = "saving" /\ new.sha = run[r].sha /\ new.unit = run[r].unit
        /\ new.marker = run[r].marker /\ new.line = run[r].line /\ new.integ # "integrated"
    BY <1>2 DEF Run, d
  <2> HIDE DEF new
  <2> QED
    BY <1>1, <2>1, <2>2, RecordQuiet DEF Early
<1>4. CASE FinishedWith(r, AutoCommitted(r, Delivered(r), DetailsAt(r), root, ok))
  <2> DEFINE d == Delivered(r)
  <2>1. PICK res : res = AutoCommitted(r, d, DetailsAt(r), root, ok)
    OBVIOUS
  <2>2. FinishedWith(r, res) /\ Owns(r, CommitPaths(d, DetailsAt(r)))
    BY <1>1, <1>4, <2>1, FinishPaths
  <2> HIDE DEF d
  <2> DEFINE phase == IF Isolated(r) /\ res.commit # "failed" THEN "integrating" ELSE "saving"
             status == IF res.commit = "failed" THEN "partial" ELSE d.status
             new == [d EXCEPT !.phase = phase, !.status = status, !.commit = res.commit, !.sha = res.sha]
  <2>3. d \in Run /\ root' = res.root /\ wt' = res.wt /\ run' = [run EXCEPT ![r] = new]
    <3>1. run' = [run EXCEPT ![r] = [Delivered(r) EXCEPT
             !.phase  = IF Isolated(r) /\ res.commit # "failed" THEN "integrating" ELSE "saving",
             !.status = IF res.commit = "failed" THEN "partial" ELSE @,
             !.commit = res.commit, !.sha = res.sha]]
      BY <2>2 DEF FinishedWith
    <3>2. d \in Run /\ d = Delivered(r)
      BY <1>2 DEF d
    <3>3. new = [Delivered(r) EXCEPT
             !.phase  = IF Isolated(r) /\ res.commit # "failed" THEN "integrating" ELSE "saving",
             !.status = IF res.commit = "failed" THEN "partial" ELSE @,
             !.commit = res.commit, !.sha = res.sha]
      BY <1>2, <3>2 DEF Run
    <3> HIDE DEF new
    <3> QED
      BY <2>2, <3>1, <3>2, <3>3 DEF FinishedWith
  <2>4. phase \notin Early \cup {"cleanup"}
    BY DEF Early
  <2> HIDE DEF phase, status
  <2>5. /\ new.phase = phase /\ new.sha = res.sha /\ new.unit = run[r].unit
        /\ new.marker = run[r].marker /\ new.line = run[r].line /\ new.integ # "integrated"
    BY <1>2, <2>3 DEF Run, d
  <2>6. d.at = run[r].at /\ d.sha = run[r].sha
    BY <1>2 DEF d
  <2> HIDE DEF new
  <2>7. run'[r] = new /\ \A v \in Runs \ {r} : run'[v] = run[v]
    BY <1>1, <2>3
  <2> QED
    BY <1>1, <2>1, <2>2, <2>3, <2>4, <2>5, <2>6, <2>7, CommitUnit
<1> QED
  BY <1>3, <1>4, FinishCases

LEMMA CommitPartialUnit ==
  ASSUME ControlInv, ChainInv, NEW u \in Runs, CommitPartial(u)
  PROVE  \A v \in Runs : Quiet(v) \/ CommitsNow(v)
<1> DEFINE rt == CommitRoot(u)
           rec == run[u]
<1>1. /\ TypeOK /\ run \in [Runs -> Run] /\ rec \in Run /\ run[u].phase = "done"
      /\ WellRooted(rt) /\ rt.tree = root.tree
  BY CommitPartialCases, TypeFacts, EnsureFacts DEF ControlInv, TypeInv, TypeOK, CommitRoot
<1>2. PICK ok \in BOOLEAN : CommittedAs(u, AutoCommitted(u, rec, DetailsAt(u), rt, ok))
  BY CommitPartialCases
<1>3. PICK res : res = AutoCommitted(u, rec, DetailsAt(u), rt, ok)
  OBVIOUS
<1>4. Owns(u, CommitPaths(rec, DetailsAt(u))) /\ rec.at = run[u].at /\ rec.sha = run[u].sha
  BY CommitPartialCases, CommitPartialPaths
<1> DEFINE phase == IF Isolated(u) /\ res.commit = "committed" THEN "integrating" ELSE "saving"
           new == [run[u] EXCEPT !.commit = res.commit, !.sha = res.sha, !.phase = phase]
<1>5. root' = res.root /\ wt' = res.wt /\ run' = [run EXCEPT ![u] = new]
  BY <1>1, <1>2, <1>3 DEF CommittedAs, Run
<1>6. phase \notin Early \cup {"cleanup"}
  BY DEF Early
<1> HIDE DEF phase
<1>7. /\ new.phase = phase /\ new.sha = res.sha /\ new.unit = run[u].unit
      /\ new.marker = run[u].marker /\ new.integ = run[u].integ /\ new.line = run[u].line
  BY <1>1 DEF Run
<1> HIDE DEF new, rt, rec
<1>8. run'[u] = new /\ \A v \in Runs \ {u} : run'[v] = run[v]
  BY <1>1, <1>5
<1>9. /\ run'[u].phase \notin Early \cup {"cleanup"} /\ run[u].phase # "dead"
      /\ run'[u].integ = "integrated" => run[u].integ = "integrated"
      /\ run'[u].sha = res.sha /\ run'[u].unit = run[u].unit
      /\ run'[u].marker = run[u].marker /\ run'[u].line = run[u].line
  BY <1>1, <1>6, <1>7, <1>8
<1> QED
  BY <1>1, <1>2, <1>3, <1>4, <1>5, <1>8, <1>9, CommitUnit

LEMMA RunUnitStep ==
  ASSUME ControlInv, ChainInv, WorkInv, NEW r \in Runs, RunStep(r)
  PROVE  \A v \in Runs : UnitStep(v)
<1>1. TypeOK /\ run \in [Runs -> Run] /\ run[r] \in Run
  BY DEF ControlInv, TypeInv, TypeOK
<1>2. CASE Delegate(r)
  BY <1>2, DelegateUnit DEF UnitStep
<1>3. CASE \E u \in Runs : Retry(r, u)
  BY <1>3, RetryUnit DEF UnitStep
<1>4. CASE Begin(r)
  <2> DEFINE rec == [run[r] EXCEPT !.phase = "running", !.before = DetailsAt(r),
                                   !.chain = Owned(r, DetailsAt(r))]
  <2>1. run' = [run EXCEPT ![r] = rec] /\ run[r].phase = "prepared"
    BY <1>1, <1>4 DEF Begin
  <2>2. /\ rec.phase = "running" /\ rec.sha = run[r].sha /\ rec.unit = run[r].unit
        /\ rec.marker = run[r].marker /\ rec.integ = run[r].integ /\ rec.line = run[r].line
    BY <1>1 DEF Run
  <2> HIDE DEF rec
  <2>3. \A v \in Runs : Quiet(v)
    BY <1>1, <2>1, <2>2, RecordQuiet DEF Early
  <2> QED
    BY <2>3 DEF UnitStep
<1>5. CASE BeginRefused(r)
  BY <1>1, <1>5, BlockQuiet DEF BeginRefused, UnitStep
<1>6. CASE Execute(r)
  <2>1. PICK status \in {"success", "partial", "failed", "limited"} :
          run' = [run EXCEPT ![r].phase = "worked", ![r].status = status]
    BY <1>1, <1>6, ExecuteCases
  <2>2. run' = [run EXCEPT ![r] = Moved(r, "worked", status, run[r].integ, run[r].unit)]
    BY <1>1, <2>1, StatusMoves
  <2>3. run[r].phase = "running"
    BY <1>6 DEF Execute
  <2>4. \A v \in Runs : Quiet(v)
    BY <1>1, <2>2, <2>3, MovedQuiet DEF Early
  <2> QED
    BY <2>4 DEF UnitStep
<1>7. CASE \E ok \in BOOLEAN : Finish(r, ok)
  BY <1>7, FinishUnit DEF UnitStep
<1>8. CASE AcquireRoot(r)
  <2>1. \E integ \in {"failed", "pending", run[r].integ}, phase \in {"saving", "picking"} :
          Integrated(r, integ, phase)
    BY <1>8 DEF AcquireRoot
  <2>2. \A v \in Runs : Quiet(v)
    BY <1>1, <2>1, IntegratedQuiet DEF Early
  <2> QED
    BY <2>2 DEF UnitStep
<1>9. CASE Pick(r)
  BY <1>9, PickUnit DEF UnitStep
<1>10. CASE Cleanup(r)
  BY <1>10, CleanupUnit DEF UnitStep
<1>11. CASE Save(r)
  <2> DEFINE status == IF cmd.run # r /\ auto /\ run[r].status = "success"
                          /\ run[r].integ \in {"pending", "conflict", "failed"}
                       THEN "partial" ELSE run[r].status
  <2>1. run' = [run EXCEPT ![r].phase = "done", ![r].status = status]
    BY <1>1, <1>11 DEF Save, Run
  <2> HIDE DEF status
  <2>2. run' = [run EXCEPT ![r] = Moved(r, "done", status, run[r].integ, run[r].unit)]
    BY <1>1, <2>1, StatusMoves
  <2>3. \A v \in Runs : Quiet(v)
    BY <1>1, <2>2, MovedQuiet DEF Early
  <2> QED
    BY <2>3 DEF UnitStep
<1> QED
  BY <1>2, <1>3, <1>4, <1>5, <1>6, <1>7, <1>8, <1>9, <1>10, <1>11 DEF RunStep

LEMMA OperatorUnitStep ==
  ASSUME ControlInv, ChainInv, WorkInv, NEW u \in Runs, OperatorStep(u) \/ Crash(u)
  PROVE  \A v \in Runs : UnitStep(v)
<1>1. TypeOK
  BY DEF ControlInv, TypeInv
<1>2. ASSUME NEW phase, phase \notin Early, phase = "cleanup" => run[u].integ = "integrated",
             run' = [run EXCEPT ![u].phase = phase]
      PROVE  \A v \in Runs : UnitStep(v)
  BY <1>1, <1>2, PhaseQuiet DEF UnitStep
<1>3. CASE AdoptIntegrated(u) \/ AdoptCommitted(u) \/ Discard(u)
  BY <1>2, <1>3 DEF AdoptIntegrated, AdoptCommitted, Discard, Command, Early
<1>4. CASE AdoptFiles(u) \/ RecordAdopted(u) \/ AdoptFails(u)
  BY <1>2, <1>4 DEF AdoptFiles, RecordAdopted, AdoptFails, Early
<1>5. CASE \E p \in Paths : CopyFile(u, p)
  BY <1>5 DEF CopyFile, UnitStep, Quiet
<1>6. CASE RemoveWorktree(u)
  BY <1>6, RemoveUnit DEF UnitStep
<1>7. CASE CommitPartial(u)
  BY <1>7, CommitPartialUnit DEF UnitStep
<1>8. CASE Crash(u)
  <2>1. \E phase \in {"done", "dead"} : run' = [run EXCEPT ![u].phase = phase]
    BY <1>8, CrashCases
  <2> QED
    BY <1>2, <2>1 DEF Early
<1> QED
  BY <1>3, <1>4, <1>5, <1>6, <1>7, <1>8 DEF OperatorStep

LEMMA UnitSteps ==
  ASSUME ControlInv, ChainInv, WorkInv, [Next]_vars
  PROVE  \A v \in Runs : UnitStep(v)
<1>1. CASE UNCHANGED run
  BY <1>1 DEF UnitStep, Quiet
<1>2. UserStep \/ UNCHANGED vars => UNCHANGED run
  BY DEF UserStep, UserEdits, UserSwitches, UserAborts, UserFixes, UserActs, vars
<1> QED
  BY <1>1, <1>2, RunUnitStep, OperatorUnitStep DEF Next

-----------------------------------------------------------------------------
(* Earlier runs of a retry chain are over, and nothing is integrated       *)
(* before it is finished.                                                  *)
LineInv ==
  \A r \in Runs :
    /\ \A v \in run[r].line : v # r => run[v].phase \notin Early
    /\ run[r].phase \in Early => run[r].integ = "none"

(* The commit that a record names is in its worktree.                      *)
ShaInv ==
  \A r \in Runs : run[r].marker # NoRun /\ run[r].sha # <<>> =>
    /\ Prefix(run[r].sha, wt[run[r].marker].log)
    /\ wt[run[r].marker].base < Len(run[r].sha)

(* What was integrated is on a branch, and a worktree that still exists    *)
(* afterwards holds no other work of the chain.                            *)
UnitDelivered(r) ==
  LET w == run[r].marker IN
  /\ Prefix(run[r].unit, wt[w].log)
  /\ \A k \in (wt[w].base + 1)..Len(run[r].unit) : OnBranch(run[r].unit[k].by)
  /\ \A p \in Paths : Dirty(w, p) => wt[w].tree[p] \notin run[r].line

IntegInv ==
  \A r \in Runs :
    /\ run[r].integ = "integrated" /\ run[r].marker # NoRun => UnitDelivered(r)
    /\ run[r].phase = "cleanup" /\ run[r].marker # NoRun => run[r].integ = "integrated"
    /\ run[r].integ = "integrated" /\ run[r].sha # <<>> => OnBranch(run[r].sha[Len(run[r].sha)].by)

(* What is adopted file by file has its commits on a branch, and its other *)
(* files are to be copied, were copied, or were there before.              *)
CopiedInv ==
  \A u \in Runs : run[u].phase \in Adopting /\ cmd.op = "adopt" =>
    /\ \A k \in 1..Len(wt[run[u].at].log) : OnBranch(wt[run[u].at].log[k].by)
    /\ \A p \in Paths : Dirty(run[u].at, p) =>
         p \in cmd.todo \/ <<p, wt[run[u].at].tree[p]>> \in Pairs(cmd.files) \cup Pairs(cmd.before)

LEMMA LineStep ==
  ASSUME ControlInv, ChainInv, WorkInv, LineInv, [Next]_vars
  PROVE  LineInv'
<1>1. ASSUME NEW v \in Runs, run[v].phase \notin Early
      PROVE  run'[v].phase \notin Early
  <2>1. UnitStep(v)
    BY UnitSteps
  <2> QED
    BY <1>1, <2>1 DEF UnitStep, Quiet, Delivers, PickDone, Starts, CommitsNow, Early
<1>2. ASSUME NEW r \in Runs, run'[r].phase \in Early
      PROVE  run'[r].integ = "none"
  <2>1. UnitStep(r)
    BY UnitSteps
  <2> QED
    BY <1>2, <2>1 DEF UnitStep, Quiet, Delivers, PickDone, Starts, CommitsNow, Early, LineInv
<1>3. ASSUME NEW r \in Runs, NEW v \in run'[r].line, v # r
      PROVE  run'[v].phase \notin Early
  <2>1. UnitStep(r) /\ \A u \in Runs : run[u].line \subseteq Runs
    BY UnitSteps DEF ControlInv, TypeInv, TypeOK, Run
  <2>2. CASE run'[r].line = run[r].line
    BY <1>1, <1>3, <2>1, <2>2 DEF LineInv
  <2>3. CASE run'[r].line \subseteq {r}
    BY <1>3, <2>3
  <2>4. ASSUME NEW u \in Runs, Retryable(u), run'[r].line = run[u].line \cup {r}
        PROVE  run'[v].phase \notin Early
    <3>1. v \in run[u].line /\ v \in Runs
      BY <1>3, <2>1, <2>4
    <3>2. run[v].phase \notin Early
      BY <2>4, <3>1, RetryableIsOver DEF LineInv
    <3> QED
      BY <1>1, <3>1, <3>2
  <2> QED
    BY <2>1, <2>2, <2>3, <2>4 DEF UnitStep, Quiet, Delivers, PickDone, Starts, CommitsNow
<1> QED
  BY <1>2, <1>3 DEF LineInv

LEMMA NextShape ==
  ASSUME ControlInv, [Next]_vars
  PROVE  /\ ControlInv' /\ WellRooted(root') /\ wt' \in [Runs -> Worktree]
         /\ \A w \in Runs : wt'[w].log \in Seq(Commit)
<1>1. ControlInv'
  BY ControlStep
<1> QED
  BY <1>1 DEF ControlInv, TypeInv, TypeOK, WellRooted, Worktree

LEMMA ShaStep ==
  ASSUME Inv, ChainInv, WorkInv, ShaInv, [Next]_vars
  PROVE  ShaInv'
<1> SUFFICES ASSUME NEW r \in Runs, run'[r].marker # NoRun, run'[r].sha # <<>>
             PROVE  /\ Prefix(run'[r].sha, wt'[run'[r].marker].log)
                    /\ wt'[run'[r].marker].base < Len(run'[r].sha)
  BY DEF ShaInv, Prefix
<1>1. ControlInv /\ TypeOK /\ WtWell /\ UnitStep(r) /\ \A u \in Runs : run[u].sha \in Seq(Commit)
  BY UnitSteps, TypeFacts DEF Inv, ControlInv, TypeInv, TypeOK, Run
<1>2. ASSUME NEW u \in Runs, run'[r].marker = run[u].marker, run'[r].sha = run[u].sha
      PROVE  /\ Prefix(run'[r].sha, wt'[run'[r].marker].log)
             /\ wt'[run'[r].marker].base < Len(run'[r].sha)
  <2> DEFINE w == run[u].marker
  <2>1. w \in Runs /\ wt'[w].base = wt[w].base /\ Prefix(wt[w].log, wt'[w].log)
    BY <1>2, MarkedGrows
  <2>2. Prefix(run[u].sha, wt[w].log) /\ wt[w].base < Len(run[u].sha)
    BY <1>2 DEF ShaInv
  <2>3. wt[w].log \in Seq(Commit) /\ wt'[w].log \in Seq(Commit) /\ run[u].sha \in Seq(Commit)
    BY <1>1, <2>1, NextShape, WtFacts
  <2>4. Prefix(run[u].sha, wt'[w].log)
    BY <2>1, <2>2, <2>3, PrefixStep
  <2> QED
    BY <1>2, <2>1, <2>2, <2>4
<1>3. CASE WtSha(r) /\ run'[r].marker = run[r].marker
  <2> DEFINE w == run[r].at
  <2>1. /\ w \in Runs /\ run'[r].marker = w /\ run[r].marker = w
    BY <1>1, <1>3 DEF WtSha, ControlInv, TypeInv, AtInv
  <2>2. wt'[w].base = wt[w].base
    BY <2>1, MarkedGrows
  <2>3. wt[w].log \in Seq(Commit) /\ wt[w].tree \in Tree /\ wt[w].base \in Nat /\ wt[w].base <= Len(wt[w].log)
    BY <1>1, <2>1, WtFacts
  <2>4. PICK paths : run'[r].sha = Committed(wt[w].log, r, wt[w].tree, paths)
    BY <1>3 DEF WtSha
  <2>5. Len(run'[r].sha) = Len(wt[w].log) + 1 /\ run'[r].sha = wt'[w].log /\ Len(wt[w].log) \in Nat
    BY <1>3, <2>3, <2>4, CommittedType DEF WtSha
  <2> QED
    BY <2>1, <2>2, <2>3, <2>5 DEF Prefix
<1> QED
  BY <1>1, <1>2, <1>3 DEF UnitStep, Quiet, Delivers, PickDone, Starts, CommitsNow, RootSha

(* Work of an integrated run stays delivered while its worktree exists.    *)
LEMMA UnitStays ==
  ASSUME Inv, ChainInv, WorkInv, LineInv, [Next]_vars, NEW r \in Runs, UnitDelivered(r),
         run[r].integ = "integrated", run[r].marker # NoRun, NEW w, w = run[r].marker,
         run'[r].marker = w, run'[r].unit = run[r].unit, run'[r].line = run[r].line
  PROVE  UnitDelivered(r)'
<1>1. ControlInv /\ TypeOK /\ WtWell /\ run[r] \in Run
  BY TypeFacts DEF Inv, ControlInv, TypeInv
<1>2. /\ w \in Runs /\ wt[w].there /\ ~Delegate(w)
      /\ wt'[w].base = wt[w].base /\ Prefix(wt[w].log, wt'[w].log)
  BY MarkedGrows
<1>3. /\ wt[w].log \in Seq(Commit) /\ wt'[w].log \in Seq(Commit) /\ run[r].unit \in Seq(Commit)
      /\ wt[w].tree \in Tree
  BY <1>1, <1>2, NextShape, WtFacts DEF Run
<1>4. Prefix(run[r].unit, wt'[w].log)
  BY <1>2, <1>3, PrefixStep DEF UnitDelivered
<1>5. ASSUME NEW k \in (wt[w].base + 1)..Len(run[r].unit) PROVE OnBranch(run[r].unit[k].by)'
  <2>1. PICK a : a = run[r].unit[k].by
    OBVIOUS
  <2>2. OnBranch(a)
    BY <1>5, <2>1 DEF UnitDelivered
  <2>3. OnBranch(a)'
    BY <1>1, <2>2, BranchesGrow
  <2> QED
    BY <2>1, <2>3
<1>6. ASSUME NEW p \in Paths, wt'[w].tree[p] # TreeOf(wt'[w].log)[p]
      PROVE  wt'[w].tree[p] \notin run[r].line
  <2>1. run[r].phase \notin Early /\ run[r].line \subseteq Runs /\ "fix" \notin Runs
    BY <1>1, Names DEF LineInv, Run
  <2>2. Dirty(w, p) => wt[w].tree[p] \notin run[r].line
    BY DEF UnitDelivered
  <2>3. CASE WtKept(w)
    BY <1>6, <2>2, <2>3 DEF WtKept, Dirty
  <2>4. ASSUME NEW x \in Runs, NEW written, NEW undone, Execute(x), run[x].at = w,
               wt'[w].log = wt[w].log, wt'[w].tree = Written(x, written, undone)
        PROVE  wt'[w].tree[p] \notin run[r].line
    <3>1. LogAtPlace(x) = wt[w].log /\ TreeAtPlace(x) = wt[w].tree
      BY <1>2, <2>4, Names DEF LogAtPlace, TreeAtPlace, Isolated
    <3>2. x \notin run[r].line
      <4>1. run[x].phase \in Early
        BY <2>4 DEF Execute, Early
      <4> QED
        BY <2>1, <4>1 DEF LineInv
    <3> QED
      BY <1>6, <2>2, <2>4, <3>1, <3>2 DEF Written, Dirty
  <2>5. ASSUME NEW x \in Runs, NEW paths, wt'[w].tree = wt[w].tree,
               wt'[w].log = Committed(wt[w].log, x, wt[w].tree, paths)
        PROVE  wt'[w].tree[p] \notin run[r].line
    <3>1. TreeOf(wt'[w].log)[p] = IF p \in paths THEN wt[w].tree[p] ELSE TreeOf(wt[w].log)[p]
      BY <1>3, <2>5, CommittedType DEF TreeOf
    <3> QED
      BY <1>6, <2>2, <2>5, <3>1 DEF Dirty
  <2>6. ASSUME NEW q \in Paths, wt'[w].log = wt[w].log, wt'[w].tree = [wt[w].tree EXCEPT ![q] = "fix"]
        PROVE  wt'[w].tree[p] \notin run[r].line
    BY <1>3, <1>6, <2>1, <2>2, <2>6 DEF Dirty, Tree
  <2>7. WtMove(w)
    BY <1>1, <1>2, PlaceMoves
  <2> QED
    BY <1>2, <2>3, <2>4, <2>5, <2>6, <2>7 DEF WtMove
<1> QED
  BY <1>2, <1>4, <1>5, <1>6 DEF UnitDelivered, Dirty, Prefix

(* What is picked is on the branch afterwards.                             *)
LEMMA PickedOnBranch ==
  ASSUME ControlInv, NEW w \in Runs, root' = PickedRoot(w), NEW k \in Units(w), NEW a,
         a = wt[w].log[k].by
  PROVE  OnBranch(a)'
<1>1. TypeOK /\ WtWell /\ WellRooted(root)
  BY TypeFacts DEF ControlInv, TypeInv
<1>2. PICK i : i = k - wt[w].base
  OBVIOUS
<1>3. /\ i \in 1..(Len(wt[w].log) - wt[w].base) /\ wt[w].base + i = k
  <2>1. wt[w].base \in Nat /\ Len(wt[w].log) \in Nat
    BY <1>1, WtFacts
  <2> QED
    BY <1>2, <2>1 DEF Units
<1>4. /\ Picked(w) \in Seq(Commit) /\ Len(RootLog) \in Nat /\ Len(wt[w].log) - wt[w].base \in Nat
      /\ Len(Picked(w)) = Len(RootLog) + (Len(wt[w].log) - wt[w].base)
      /\ Picked(w)[Len(RootLog) + i] = [by |-> wt[w].log[k].by, tree |-> PickedTree(w, k)]
  BY <1>1, <1>3, PickedFacts
<1>5. PICK j : j = Len(RootLog) + i
  OBVIOUS
<1>6. j \in 1..Len(Picked(w)) /\ Picked(w)[j].by = a
  BY <1>3, <1>4, <1>5
<1>7. WellRooted(root') /\ Head1(root') = Picked(w)
  <2>1. Units(w) # {}
    OBVIOUS
  <2> QED
    BY <1>1, <2>1, PickedRootFacts
<1> QED
  BY <1>6, <1>7 DEF OnBranch, Bears, Head1, WellRooted

(* The commits of a worktree that is removed after its delivery.           *)
LEMMA ResolvedOnBranch ==
  ASSUME Inv, IntegInv, CopiedInv, NEW u \in Runs, NEW r \in Runs, Resolves(u, r), NEW w,
         w = run[r].marker, NEW k \in Units(w)
  PROVE  OnBranch(wt[w].log[k].by)
<1>1. ControlInv /\ SharingInv /\ WtWell /\ w \in Runs /\ wt[w].there /\ w # NoRun
  BY TypeFacts, Names DEF Inv, ControlInv, TypeInv, Resolves, SharingInv
<1>2. k \in 1..Len(wt[w].log)
  <2>1. wt[w].base \in Nat
    BY <1>1, WtFacts
  <2> QED
    BY <2>1 DEF Units
<1>3. CASE Cleanup(u) /\ CleanupAllowed(u) /\ run[u].marker = w
  <2>1. wt[w].log = run[u].unit /\ run[u].phase = "cleanup"
    BY <1>1, <1>3 DEF Cleanup, CleanupAllowed
  <2>2. UnitDelivered(u)
    BY <1>1, <1>3, <2>1 DEF IntegInv
  <2> QED
    BY <1>3, <2>1, <2>2 DEF UnitDelivered, Units
<1>4. CASE RemoveWorktree(u) /\ cmd.op = "adopt" /\ run[u].at = w
  BY <1>2, <1>4 DEF RemoveWorktree, CopiedInv, Adopting
<1> QED
  BY <1>3, <1>4 DEF Resolves

LEMMA IntegStep ==
  ASSUME Inv, ChainInv, WorkInv, LineInv, ShaInv, IntegInv, CopiedInv, [Next]_vars
  PROVE  IntegInv'
<1>1. /\ ControlInv /\ SharingInv /\ TypeOK /\ WtWell /\ \A r \in Runs : UnitStep(r)
      /\ \A r \in Runs : run[r] \in Run
  BY UnitSteps, TypeFacts DEF Inv, ControlInv, TypeInv
<1>2. ASSUME NEW r \in Runs, PickDone(r), NEW w, w = run[r].at
      PROVE  /\ w \in Runs /\ run[r].marker = w
             /\ run[r].sha # <<>> => run[r].sha = wt[w].log
             /\ wt[w].log \in Seq(Commit) /\ wt[w].base \in Nat
             /\ \A p \in Paths : ~Dirty(w, p)
             /\ \A k \in Units(w) : OnBranch(wt[w].log[k].by)'
  <2>1. run[r].phase = "picking" /\ w \in Runs
    BY <1>1, <1>2, PickingPlace DEF PickDone, Pick
  <2>2. run[r].marker = w
    BY <1>1, <1>2, <2>1 DEF SharingInv
  <2>3. DOMAIN WtDetails(w) = {} /\ (run[r].sha # <<>> => run[r].sha = wt[w].log)
    BY <1>2 DEF PickDone, PickRefused
  <2>4. wt[w].log \in Seq(Commit) /\ wt[w].tree \in Tree /\ wt[w].base \in Nat
    BY <1>1, <2>1, WtFacts
  <2>5. \A p \in Paths : ~Dirty(w, p)
    <3>1. DOMAIN WtDetails(w) = {p \in Paths : wt[w].tree[p] # TreeOf(wt[w].log)[p]}
      BY <2>4, DetailsType DEF WtDetails
    <3> QED
      BY <2>3, <3>1 DEF Dirty
  <2>6. ASSUME NEW k \in Units(w) PROVE OnBranch(wt[w].log[k].by)'
    <3>1. root' = PickedRoot(w) /\ UNCHANGED wt
      BY <1>2 DEF PickDone
    <3>2. PICK a : a = wt[w].log[k].by
      OBVIOUS
    <3>3. OnBranch(a)'
      BY <1>1, <2>1, <3>1, <3>2, PickedOnBranch
    <3> QED
      BY <3>1, <3>2, <3>3
  <2> QED
    BY <2>1, <2>2, <2>3, <2>4, <2>5, <2>6
<1>3. ASSUME NEW r \in Runs, run'[r].integ = "integrated", run'[r].marker # NoRun
      PROVE  UnitDelivered(r)'
  <2>1. CASE PickDone(r)
    <3>0. PICK w : w = run[r].at
      OBVIOUS
    <3>1. /\ w \in Runs /\ run[r].marker = w /\ wt[w].log \in Seq(Commit)
          /\ \A p \in Paths : ~Dirty(w, p)
          /\ \A k \in Units(w) : OnBranch(wt[w].log[k].by)'
      BY <1>2, <2>1, <3>0
    <3>2. UNCHANGED wt /\ run'[r].marker = w /\ run'[r].unit = wt[w].log
      BY <2>1, <3>0, <3>1 DEF PickDone
    <3>3. Prefix(wt[w].log, wt[w].log)
      BY <3>1 DEF Prefix
    <3> QED
      BY <3>1, <3>2, <3>3 DEF UnitDelivered, Prefix, Units, Dirty
  <2>2. CASE ~PickDone(r)
    <3>1. /\ run[r].integ = "integrated" /\ run'[r].unit = run[r].unit
          /\ run'[r].line = run[r].line
          /\ run'[r].marker = run[r].marker
      <4>1. ~Starts(r) /\ ~Delivers(r)
        BY <1>3 DEF Starts, Delivers
      <4>2. Quiet(r) \/ CommitsNow(r)
        BY <1>1, <2>2, <4>1 DEF UnitStep
      <4> QED
        BY <1>3, <4>2 DEF Quiet, CommitsNow
    <3>2. UnitDelivered(r) /\ run[r].marker # NoRun
      BY <1>3, <3>1 DEF IntegInv
    <3> QED
      BY <3>1, <3>2, UnitStays
  <2> QED
    BY <2>1, <2>2
<1>4. ASSUME NEW r \in Runs, run'[r].phase = "cleanup", run'[r].marker # NoRun
      PROVE  run'[r].integ = "integrated"
  <2>1. Quiet(r) \/ PickDone(r)
    BY <1>1, <1>4 DEF UnitStep, Delivers, Starts, CommitsNow
  <2>2. CASE Quiet(r)
    BY <1>4, <2>2 DEF Quiet, IntegInv
  <2> QED
    BY <2>1, <2>2 DEF PickDone
<1>5. ASSUME NEW r \in Runs, run'[r].integ = "integrated", run'[r].sha # <<>>, NEW a,
             a = run'[r].sha[Len(run'[r].sha)].by
      PROVE  OnBranch(a)'
  <2>1. CASE run[r].integ = "integrated" /\ run'[r].sha = run[r].sha
    <3>1. OnBranch(a)
      BY <1>5, <2>1 DEF IntegInv
    <3> QED
      BY <1>1, <3>1, BranchesGrow
  <2>2. ASSUME NEW w \in Runs, run[r].marker = w, run'[r].sha = run[r].sha
        PROVE  \E k \in Units(w) : a = wt[w].log[k].by
    <3>1. Prefix(run[r].sha, wt[w].log) /\ wt[w].base < Len(run[r].sha) /\ run[r].sha \in Seq(Commit)
      BY <1>1, <1>5, <2>2, Names DEF ShaInv, Run
    <3>2. wt[w].base \in Nat /\ Len(wt[w].log) \in Nat /\ Len(run[r].sha) \in Nat
      BY <1>1, <3>1, WtFacts
    <3> DEFINE k == Len(run[r].sha)
    <3>3. k \in Units(w) /\ k \in 1..Len(run[r].sha)
      BY <3>1, <3>2 DEF Units, Prefix
    <3>4. a = wt[w].log[k].by
      BY <1>5, <2>2, <3>1, <3>3 DEF Prefix
    <3> HIDE DEF k
    <3> QED
      BY <3>3, <3>4
  <2>3. CASE Delivers(r)
    <3> DEFINE w == run[r].marker
    <3>1. PICK u \in Runs : Resolves(u, r)
      BY <2>3 DEF Delivers
    <3>2. w \in Runs /\ run'[r].sha = run[r].sha
      BY <2>3, <3>1 DEF Resolves, Delivers
    <3>3. PICK k \in Units(w) : a = wt[w].log[k].by
      BY <2>2, <3>2
    <3>4. OnBranch(a)
      BY <3>1, <3>3, ResolvedOnBranch
    <3> QED
      BY <1>1, <3>4, BranchesGrow
  <2>4. CASE PickDone(r)
    <3> DEFINE w == run[r].at
    <3>1. /\ w \in Runs /\ run[r].marker = w /\ run'[r].sha = run[r].sha /\ UNCHANGED wt
          /\ root' = PickedRoot(w)
      BY <1>2, <2>4 DEF PickDone
    <3>2. PICK k \in Units(w) : a = wt[w].log[k].by
      BY <2>2, <3>1
    <3> HIDE DEF w
    <3> QED
      BY <1>1, <3>1, <3>2, PickedOnBranch
  <2>5. CASE CommitsNow(r) /\ RootSha(r)
    <3>1. PICK log \in Seq(Commit) : \E paths : run'[r].sha = Committed(log, r, root.tree, paths)
      BY <2>5 DEF RootSha
    <3>2. PICK paths : run'[r].sha = Committed(log, r, root.tree, paths)
      BY <3>1
    <3>3. root.tree \in Tree
      BY <1>1, TypeFacts, RootFacts
    <3>4. /\ Len(run'[r].sha) = Len(log) + 1 /\ Len(log) \in Nat /\ a = r
      BY <1>5, <3>2, <3>3, CommittedType
    <3>5. /\ WellRooted(root') /\ Head1(root') = run'[r].sha
      BY <2>5 DEF RootSha
    <3>6. Len(run'[r].sha) \in 1..Len(run'[r].sha)
      BY <3>4
    <3> QED
      BY <1>5, <3>5, <3>6 DEF OnBranch, Bears, Head1, WellRooted
  <2>6. CASE CommitsNow(r) /\ WtSha(r)
    <3> DEFINE w == run[r].at
    <3>1. w \in Runs /\ run[r].marker = w /\ run[r].integ = "integrated" /\ w # NoRun
      BY <1>1, <1>5, <2>6, Names DEF CommitsNow, WtSha, SharingInv
    <3>2. UnitDelivered(r)
      BY <3>1 DEF IntegInv
    <3> QED
      BY <2>6, <3>1, <3>2 DEF UnitDelivered, WtSha
  <2> QED
    BY <1>1, <1>5, <2>1, <2>3, <2>4, <2>5, <2>6 DEF UnitStep, Quiet, Starts, CommitsNow
<1>6. ASSUME NEW r \in Runs, run'[r].integ = "integrated", run'[r].sha # <<>>
      PROVE  OnBranch(run[r].sha[Len(run[r].sha)].by)'
  <2>1. PICK a : a = run'[r].sha[Len(run'[r].sha)].by
    OBVIOUS
  <2>2. OnBranch(a)'
    BY <1>5, <1>6, <2>1
  <2> QED
    BY <2>1, <2>2
<1> QED
  BY <1>3, <1>4, <1>6 DEF IntegInv

LEMMA AdoptFilesCovers ==
  ASSUME ControlInv, NEW u \in Runs, AdoptFiles(u), NEW w, w = run[u].at
  PROVE  /\ run'[u].at = w /\ UNCHANGED wt
         /\ \A k \in 1..Len(wt[w].log) : OnBranch(wt[w].log[k].by)
         /\ \A p \in Paths : Dirty(w, p) =>
              p \in cmd'.todo \/ <<p, wt[w].tree[p]>> \in Pairs(cmd'.before)
<1>1. TypeOK /\ WtWell /\ WellRooted(root) /\ RootLog \in Seq(Commit) /\ root.tree \in Tree
  BY TypeFacts, RootFacts DEF ControlInv, TypeInv
<1>2. MayResolve(u) /\ w \in Runs /\ run[u].marker = w
  BY MayResolveFacts DEF AdoptFiles, ControlInv, TypeInv
<1> DEFINE todo == {p \in DOMAIN WtDetails(w) : root.tree[p] # wt[w].tree[p]}
<1>3. /\ cmd' = [NoCommand EXCEPT !.op = "adopt", !.run = u, !.before = root.tree, !.todo = todo]
      /\ wt[w].log = RootLog /\ UNCHANGED wt
  BY <1>2 DEF AdoptFiles
<1>4. DOMAIN WtDetails(w) = {p \in Paths : wt[w].tree[p] # TreeOf(wt[w].log)[p]}
  <2>1. wt[w].log \in Seq(Commit) /\ wt[w].tree \in Tree
    BY <1>1, <1>2, WtFacts
  <2> QED
    BY <2>1, DetailsType DEF WtDetails
<1>5. \A p \in Paths : Dirty(w, p) => p \in todo \/ root.tree[p] = wt[w].tree[p]
  BY <1>4 DEF Dirty
<1> HIDE DEF todo
<1>6. cmd'.todo = todo /\ cmd'.before = root.tree
  BY <1>3, NoCommandFacts DEF Commands
<1>7. \A p \in Paths : <<p, root.tree[p]>> \in Pairs(cmd'.before)
  BY <1>1, <1>6, PairsFact DEF Tree
<1>8. \A k \in 1..Len(wt[w].log) : OnBranch(wt[w].log[k].by)
  BY <1>1, <1>3 DEF OnBranch, Bears, RootLog, Head1, WellRooted
<1>9. run'[u].at = w
  BY AdoptFilesControl DEF GoesOn
<1> QED
  BY <1>3, <1>5, <1>6, <1>7, <1>8, <1>9

LEMMA CopiedStep ==
  ASSUME Inv, ChainInv, WorkInv, CopiedInv, ~Overlap, [Next]_vars
  PROVE  CopiedInv'
<1> SUFFICES ASSUME NEW u \in Runs, run'[u].phase \in Adopting, cmd'.op = "adopt"
             PROVE  /\ \A k \in 1..Len(wt'[run'[u].at].log) : OnBranch(wt[run[u].at].log[k].by)'
                    /\ \A p \in Paths : wt'[run'[u].at].tree[p] # TreeOf(wt'[run'[u].at].log)[p] =>
                         \/ p \in cmd'.todo
                         \/ <<p, wt'[run'[u].at].tree[p]>> \in Pairs(cmd'.files) \cup Pairs(cmd'.before)
  BY DEF CopiedInv, Dirty
<1>1. ControlInv
  BY DEF Inv
<1>2. PICK w : w = run[u].at
  OBVIOUS
<1>3. ASSUME wt'[w].log = wt[w].log, run'[u].at = w,
             \A k \in 1..Len(wt[w].log) : OnBranch(wt[w].log[k].by)
      PROVE  \A k \in 1..Len(wt'[run'[u].at].log) : OnBranch(wt[run[u].at].log[k].by)'
  <2>1. ASSUME NEW k \in 1..Len(wt[w].log) PROVE OnBranch(wt[run[u].at].log[k].by)'
    <3>1. PICK a : a = wt[w].log[k].by
      OBVIOUS
    <3>2. OnBranch(a)
      BY <1>3, <2>1, <3>1
    <3>3. OnBranch(a)'
      BY <1>1, <3>2, BranchesGrow
    <3> QED
      BY <1>3, <3>1, <3>3
  <2> QED
    BY <1>3, <2>1
<1>4. CASE AdoptFiles(u)
  <2>1. /\ run'[u].at = w /\ UNCHANGED wt
        /\ \A k \in 1..Len(wt[w].log) : OnBranch(wt[w].log[k].by)
        /\ \A p \in Paths : Dirty(w, p) =>
             p \in cmd'.todo \/ <<p, wt[w].tree[p]>> \in Pairs(cmd'.before)
    BY <1>1, <1>2, <1>4, AdoptFilesCovers
  <2> QED
    BY <1>3, <2>1 DEF Dirty
<1>5. ASSUME NEW q \in Paths, CopyFile(u, q)
      PROVE  \A p \in Paths : wt'[w].tree[p] # TreeOf(wt'[w].log)[p] =>
               \/ p \in cmd'.todo
               \/ <<p, wt'[w].tree[p]>> \in Pairs(cmd'.files) \cup Pairs(cmd'.before)
  <2>1. /\ run[u].phase = "copying" /\ cmd' = Copied(u, q) /\ UNCHANGED wt
    BY <1>5 DEF CopyFile, Copied
  <2>2. w \in Runs /\ cmd.op = "adopt"
    BY <1>1, <1>2, <1>5, <2>1, CopyFileType DEF ControlInv, CommandInv
  <2>3. /\ cmd'.todo = cmd.todo \ {q} /\ DOMAIN cmd'.files = DOMAIN cmd.files \cup {q}
        /\ cmd'.before = cmd.before
        /\ \A x \in DOMAIN cmd'.files : cmd'.files[x] = wt[w].tree[x]
    BY <1>1, <1>2, <2>1, <2>2, CopiedFacts DEF ControlInv
  <2>4. ASSUME NEW p \in Paths, Dirty(w, p)
        PROVE  \/ p \in cmd'.todo
               \/ <<p, wt[w].tree[p]>> \in Pairs(cmd'.files) \cup Pairs(cmd'.before)
    <3>1. p \in cmd.todo \/ <<p, wt[w].tree[p]>> \in Pairs(cmd.files) \cup Pairs(cmd.before)
      BY <1>2, <2>1, <2>2, <2>4 DEF CopiedInv, Adopting
    <3>2. p = q \/ p \in DOMAIN cmd.files => <<p, wt[w].tree[p]>> \in Pairs(cmd'.files)
      BY <2>3, PairsFact
    <3>3. <<p, wt[w].tree[p]>> \in Pairs(cmd.files) => p \in DOMAIN cmd.files
      BY PairsFact
    <3> QED
      BY <2>3, <3>1, <3>2, <3>3
  <2> QED
    BY <2>1, <2>4 DEF Dirty
<1>6. CASE \E q \in Paths : CopyFile(u, q)
  <2>1. run[u].phase = "copying" /\ UNCHANGED <<run, wt>>
    BY <1>6 DEF CopyFile
  <2>2. cmd.op = "adopt"
    BY <1>1, <2>1 DEF ControlInv, CommandInv
  <2>3. \A k \in 1..Len(wt[w].log) : OnBranch(wt[w].log[k].by)
    BY <1>2, <2>1, <2>2 DEF CopiedInv, Adopting
  <2> QED
    BY <1>2, <1>3, <1>5, <1>6, <2>1, <2>3
<1>7. CASE StillAdopts(u) /\ \A q \in Paths : ~CopyFile(u, q)
  <2>1. run[u].phase \in Adopting /\ run'[u].at = w /\ UNCHANGED cmd /\ cmd.op = "adopt"
    BY <1>2, <1>7 DEF StillAdopts
  <2>2. WtKept(w)
    BY <1>2, <2>1, AdoptedPlace
  <2>3. /\ \A k \in 1..Len(wt[w].log) : OnBranch(wt[w].log[k].by)
        /\ \A p \in Paths : Dirty(w, p) =>
             p \in cmd.todo \/ <<p, wt[w].tree[p]>> \in Pairs(cmd.files) \cup Pairs(cmd.before)
    BY <1>2, <2>1 DEF CopiedInv
  <2> QED
    BY <1>3, <2>1, <2>2, <2>3 DEF WtKept, Dirty
<1> QED
  BY <1>1, <1>4, <1>6, <1>7, AdoptingStep

-----------------------------------------------------------------------------
(* The inductive invariant about delivery.                                 *)
DeliveryInv == ContentInv /\ LineInv /\ ShaInv /\ IntegInv /\ CopiedInv

LEMMA InitDelivery == Init => DeliveryInv
<1> SUFFICES ASSUME Init PROVE DeliveryInv
  OBVIOUS
<1>1. \A r \in Runs : /\ run[r].phase = "new" /\ run[r].marker = NoRun /\ run[r].line = {}
                      /\ run[r].integ = "none"
  BY UnstartedType DEF Init
<1>2. LineInv /\ ShaInv /\ IntegInv /\ CopiedInv
  BY <1>1 DEF LineInv, ShaInv, IntegInv, CopiedInv, Adopting
<1> QED
  BY <1>2, InitContent DEF DeliveryInv

LEMMA DeliveryStep ==
  ASSUME DeliveryInv, ~Overlap, [Next]_vars
  PROVE  DeliveryInv'
<1>1. Inv /\ ControlInv /\ ChainInv /\ WorkInv /\ LineInv /\ ShaInv /\ IntegInv /\ CopiedInv
  BY DEF DeliveryInv, ContentInv, Inv
<1>2. ContentInv'
  BY ContentStep DEF DeliveryInv
<1>3. LineInv' /\ ShaInv'
  BY <1>1, LineStep, ShaStep
<1>4. IntegInv' /\ CopiedInv'
  BY <1>1, IntegStep, CopiedStep
<1> QED
  BY <1>2, <1>3, <1>4 DEF DeliveryInv

LEMMA OnBranchMeans ==
  ASSUME TypeOK, NEW a, OnBranch(a)
  PROVE  \E b \in DOMAIN root.heads : \E k \in DOMAIN root.heads[b] : root.heads[b][k].by = a
<1>1. PICK b \in DOMAIN root.heads : \E k \in 1..Len(root.heads[b]) : root.heads[b][k].by = a
  BY DEF OnBranch, Bears
<1>2. DOMAIN root.heads[b] = 1..Len(root.heads[b])
  <2>1. root.heads \in Seq(Seq(Commit))
    BY TypeFacts, RootFacts
  <2>2. root.heads[b] \in Seq(Commit)
    BY <2>1
  <2> QED
    BY <2>2
<1> QED
  BY <1>1, <1>2

(* A run that is recorded as integrated has its commit on a branch of the  *)
(* user, unless a retry and another user of its worktree overlap.          *)
THEOREM IntegratedTheorem == ~Overlap => (Spec => []IntegratedIsOnBranch)
<1>1. DeliveryInv => IntegratedIsOnBranch
  <2> SUFFICES ASSUME DeliveryInv, NEW r \in Runs, run[r].integ = "integrated", run[r].sha # <<>>
               PROVE  \E b \in DOMAIN root.heads : \E k \in DOMAIN root.heads[b] :
                        root.heads[b][k].by = run[r].sha[Len(run[r].sha)].by
    BY DEF IntegratedIsOnBranch
  <2>1. TypeOK /\ OnBranch(run[r].sha[Len(run[r].sha)].by)
    BY DEF DeliveryInv, ContentInv, Inv, ControlInv, TypeInv, IntegInv
  <2> QED
    BY <2>1, OnBranchMeans
<1>2. ASSUME ~Overlap PROVE Spec => []IntegratedIsOnBranch
  <2>1. DeliveryInv /\ [Next]_vars => DeliveryInv'
    BY <1>2, DeliveryStep
  <2> QED
    BY <1>1, <2>1, InitDelivery, PTL DEF Spec
<1> QED
  BY <1>2

-----------------------------------------------------------------------------
LEMMA RemovedIsDelivered ==
  ASSUME DeliveryInv, [Next]_vars, NEW w \in Runs, wt[w].there, ~wt'[w].there, cmd.op # "discard"
  PROVE  /\ Pairs(WtDetails(w)) \subseteq Pairs(cmd.files) \cup Pairs(cmd.before)
         /\ \A k \in Units(w) : OnBranch(wt[w].log[k].by)
<1>1. /\ Inv /\ ControlInv /\ SharingInv /\ IntegInv /\ CopiedInv /\ WtWell
      /\ wt[w].log \in Seq(Commit) /\ wt[w].tree \in Tree
  <2>1. ControlInv /\ WtWell
    BY TypeFacts DEF DeliveryInv, ContentInv, Inv, ControlInv, TypeInv
  <2> QED
    BY <2>1, WtFacts DEF DeliveryInv, ContentInv, Inv
<1>2. PICK u \in Runs : Removes(u, w)
  BY <1>1, PlacesEnd
<1>3. /\ DOMAIN WtDetails(w) = {p \in Paths : wt[w].tree[p] # TreeOf(wt[w].log)[p]}
      /\ \A p \in DOMAIN WtDetails(w) : WtDetails(w)[p] = wt[w].tree[p]
  BY <1>1, DetailsType DEF WtDetails
<1>4. \E r \in Runs : run[r].marker = w /\ Resolves(u, r)
  <2>1. CASE Cleanup(u) /\ run[u].marker = w /\ CleanupAllowed(u)
    BY <2>1 DEF Resolves
  <2>2. CASE RemoveWorktree(u) /\ run[u].at = w
    <3>1. run[u].phase = "removing" /\ cmd.op = "adopt"
      BY <1>1, <2>2 DEF RemoveWorktree, ControlInv, CommandInv
    <3>2. run[u].marker = w
      BY <1>1, <2>2, <3>1 DEF SharingInv
    <3> QED
      BY <2>2, <3>1, <3>2 DEF Resolves
  <2> QED
    BY <1>2, <2>1, <2>2 DEF Removes
<1>5. \A k \in Units(w) : OnBranch(wt[w].log[k].by)
  BY <1>1, <1>4, ResolvedOnBranch
<1>6. CASE Cleanup(u) /\ run[u].marker = w /\ CleanupAllowed(u)
  <2>1. DOMAIN WtDetails(w) = {}
    BY <1>6 DEF CleanupAllowed
  <2> QED
    BY <1>5, <2>1 DEF Pairs
<1>7. CASE RemoveWorktree(u) /\ run[u].at = w
  <2>1. run[u].phase = "removing" /\ cmd.op = "adopt" /\ cmd.todo = {}
    BY <1>1, <1>7 DEF RemoveWorktree, ControlInv, CommandInv
  <2>2. \A p \in Paths : Dirty(w, p) => <<p, wt[w].tree[p]>> \in Pairs(cmd.files) \cup Pairs(cmd.before)
    BY <1>1, <1>7, <2>1 DEF CopiedInv, Adopting
  <2> QED
    BY <1>3, <1>5, <2>2 DEF Pairs, Dirty
<1> QED
  BY <1>2, <1>6, <1>7 DEF Removes

LEMMA NothingThrownAwayStep ==
  ASSUME DeliveryInv, [Next]_vars, NEW w \in Runs, wt[w].there, ~wt'[w].there
  PROVE  \/ cmd.op = "discard"
         \/ /\ Pairs(WtDetails(w)) \subseteq Pairs(cmd.files) \cup Pairs(cmd.before)
            /\ \A k \in Units(w) : \E b \in DOMAIN root.heads :
                 \E j \in DOMAIN root.heads[b] : root.heads[b][j].by = wt[w].log[k].by
<1>1. TypeOK
  BY DEF DeliveryInv, ContentInv, Inv, ControlInv, TypeInv
<1> QED
  BY <1>1, RemovedIsDelivered, OnBranchMeans

(* A worktree is removed only on discard, or when everything in it was     *)
(* copied to the root worktree or already there, or when it was clean; and *)
(* every commit in it has reached a branch of the user.                    *)
THEOREM KeepTheorem == ~Overlap => (Spec => NothingThrownAway)
<1>1. ASSUME ~Overlap
      PROVE  /\ DeliveryInv /\ [Next]_vars => DeliveryInv'
             /\ DeliveryInv /\ [Next]_vars =>
                  [\A w \in Runs :
                     (wt[w].there /\ ~wt'[w].there) =>
                       \/ cmd.op = "discard"
                       \/ /\ Pairs(WtDetails(w)) \subseteq Pairs(cmd.files) \cup Pairs(cmd.before)
                          /\ \A k \in Units(w) : \E b \in DOMAIN root.heads :
                               \E j \in DOMAIN root.heads[b] :
                                 root.heads[b][j].by = wt[w].log[k].by]_vars
  BY <1>1, DeliveryStep, NothingThrownAwayStep
<1>2. ASSUME ~Overlap PROVE Spec => NothingThrownAway
  <2>1. DeliveryInv /\ [Next]_vars => DeliveryInv'
    BY <1>1, <1>2
  <2>2. DeliveryInv /\ [Next]_vars =>
          [\A w \in Runs :
             (wt[w].there /\ ~wt'[w].there) =>
               \/ cmd.op = "discard"
               \/ /\ Pairs(WtDetails(w)) \subseteq Pairs(cmd.files) \cup Pairs(cmd.before)
                  /\ \A k \in Units(w) : \E b \in DOMAIN root.heads :
                       \E j \in DOMAIN root.heads[b] :
                         root.heads[b][j].by = wt[w].log[k].by]_vars
    BY <1>1, <1>2
  <2> QED
    BY <2>1, <2>2, InitDelivery, PTL DEF Spec, NothingThrownAway
<1> QED
  BY <1>2

=============================================================================
