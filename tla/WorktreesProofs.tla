--------------------------- MODULE WorktreesProofs ---------------------------
(***************************************************************************)
(* For any runs and paths: the variables of Worktrees keep their shape, no *)
(* protected branch moves, an unfinished root is left alone, a worktree    *)
(* that exists is offered for resolution, and none is removed under a run  *)
(* that works in it.                                                       *)
(***************************************************************************)
EXTENDS Worktrees, TLAPS

LEMMA Names ==
  /\ NoRun \notin Runs /\ Free \notin Runs
  /\ {"base", "user", "fix", "mixed"} \cap Runs = {}
  /\ Runs \subseteq Content /\ {"base", "user", "fix", "mixed"} \subseteq Content
BY WorktreesAssumption DEF NoRun, Free, Content

-----------------------------------------------------------------------------
(* Trees, changes and logs.                                                *)

LEMMA ChangesIntro ==
  ASSUME NEW S \in SUBSET Paths, NEW f \in [S -> Content]
  PROVE  f \in Changes
BY DEF Changes

LEMMA ChangesElim ==
  ASSUME NEW f \in Changes
  PROVE  DOMAIN f \subseteq Paths /\ f \in [DOMAIN f -> Content]
BY DEF Changes

LEMMA Trees ==
  ASSUME NEW log \in Seq(Commit)
  PROVE  /\ \A k \in 0..Len(log) : TreeAt(log, k) \in Tree
         /\ TreeOf(log) \in Tree
<1>1. [p \in Paths |-> "base"] \in Tree
  BY Names DEF Tree
<1>2. ASSUME NEW k \in 0..Len(log) PROVE TreeAt(log, k) \in Tree
  <2>1. CASE k = 0
    BY <1>1, <2>1 DEF TreeAt
  <2>2. CASE k # 0
    <3>1. log[k] \in Commit
      BY <2>2
    <3> QED
      BY <2>2, <3>1 DEF TreeAt, Commit
  <2> QED
    BY <2>1, <2>2
<1> QED
  BY <1>2 DEF TreeOf

LEMMA DetailsType ==
  ASSUME NEW log \in Seq(Commit), NEW tree \in Tree
  PROVE  /\ Details(tree, log) \in Changes
         /\ DOMAIN Details(tree, log) = {p \in Paths : tree[p] # TreeOf(log)[p]}
         /\ \A p \in DOMAIN Details(tree, log) : Details(tree, log)[p] = tree[p]
<1> DEFINE S == {p \in Paths : tree[p] # TreeOf(log)[p]}
           f == [p \in S |-> tree[p]]
<1>1. f \in [S -> Content] /\ DOMAIN f = S /\ \A p \in S : f[p] = tree[p]
  BY DEF Tree
<1>2. Details(tree, log) = f
  BY DEF Details
<1>3. f \in Changes
  BY <1>1, ChangesIntro
<1> QED
  BY <1>1, <1>2, <1>3

LEMMA DeltaType ==
  ASSUME NEW before \in Changes, NEW now \in Changes
  PROVE  Delta(before, now) \in Changes
<1> DEFINE S == {q \in DOMAIN now : <<q, now[q]>> \notin Pairs(before)}
           f == [p \in S |-> now[p]]
<1>1. S \subseteq Paths /\ f \in [S -> Content]
  BY ChangesElim
<1>2. Delta(before, now) = f
  BY DEF Delta
<1> HIDE DEF S, f
<1> QED
  BY <1>1, <1>2, ChangesIntro

LEMMA RecordDelegatedType ==
  ASSUME NEW now \in Changes, NEW made \in Changes, trusted \in Changes
  PROVE  RecordDelegated(now, made) \in Changes
<1> DEFINE still == {p \in DOMAIN trusted : <<p, trusted[p]>> \in Pairs(now)}
           S == still \cup DOMAIN made
           f == [p \in S |-> IF p \in DOMAIN made THEN made[p] ELSE trusted[p]]
<1>1. S \subseteq Paths /\ f \in [S -> Content]
  BY ChangesElim
<1>2. RecordDelegated(now, made) = f
  BY DEF RecordDelegated
<1> HIDE DEF S, f
<1> QED
  BY <1>1, <1>2, ChangesIntro

LEMMA ForgetType ==
  ASSUME NEW records \in Changes, NEW paths
  PROVE  Forget(records, paths) \in Changes
<1> DEFINE S == DOMAIN records \ paths
           f == [p \in S |-> records[p]]
<1>1. S \subseteq Paths /\ f \in [S -> Content]
  BY ChangesElim
<1>2. Forget(records, paths) = f
  BY DEF Forget
<1> HIDE DEF S, f
<1> QED
  BY <1>1, <1>2, ChangesIntro

LEMMA NoChangesType == NoChanges \in Changes /\ DOMAIN NoChanges = {}
<1>1. NoChanges \in [{} -> Content] /\ DOMAIN NoChanges = {}
  BY DEF NoChanges
<1> QED
  BY <1>1, ChangesIntro

LEMMA CommittedType ==
  ASSUME NEW log \in Seq(Commit), NEW r \in Runs, NEW tree \in Tree, NEW paths
  PROVE  /\ Committed(log, r, tree, paths) \in Seq(Commit)
         /\ Len(Committed(log, r, tree, paths)) = Len(log) + 1
         /\ \A k \in 0..Len(log) : TreeAt(Committed(log, r, tree, paths), k) = TreeAt(log, k)
         /\ \A k \in 1..Len(log) : Committed(log, r, tree, paths)[k] = log[k]
         /\ Committed(log, r, tree, paths)[Len(log) + 1].by = r
         /\ \A p \in Paths : TreeAt(Committed(log, r, tree, paths), Len(log) + 1)[p]
                               = IF p \in paths THEN tree[p] ELSE TreeOf(log)[p]
<1> DEFINE t == [p \in Paths |-> IF p \in paths THEN tree[p] ELSE TreeOf(log)[p]]
           c == [by |-> r, tree |-> t]
           n == Append(log, c)
<1>1. t \in Tree
  BY Trees DEF Tree
<1>2. c \in Commit /\ c.by = r /\ c.tree = t
  BY <1>1 DEF Commit
<1>3. Committed(log, r, tree, paths) = n
  BY DEF Committed
<1> HIDE DEF c
<1>4. /\ n \in Seq(Commit) /\ Len(n) = Len(log) + 1 /\ Len(log) \in Nat
      /\ \A k \in 1..Len(log) : n[k] = log[k]
      /\ n[Len(log) + 1] = c
  BY <1>2
<1> HIDE DEF n
<1>5. ASSUME NEW k \in 0..Len(log) PROVE TreeAt(n, k) = TreeAt(log, k)
  BY <1>4 DEF TreeAt
<1>6. TreeAt(n, Len(log) + 1) = t
  BY <1>2, <1>4 DEF TreeAt
<1> QED
  BY <1>2, <1>3, <1>4, <1>5, <1>6

-----------------------------------------------------------------------------
(* The launching worktree.                                                 *)

WellRooted(rt) == rt \in Root /\ rt.branch \in DOMAIN rt.heads

LEMMA RootFacts ==
  ASSUME NEW rt, WellRooted(rt)
  PROVE  /\ Head1(rt) \in Seq(Commit) /\ rt.tree \in Tree /\ rt.unfinished \in BOOLEAN
         /\ rt.heads \in Seq(Seq(Commit)) /\ rt.branch \in 1..Len(rt.heads)
BY DEF WellRooted, Root, Head1

LEMMA EnsureFacts ==
  ASSUME NEW rt, WellRooted(rt)
  PROVE  /\ WellRooted(EnsureWorkBranch(rt))
         /\ EnsureWorkBranch(rt).branch # Protected
         /\ EnsureWorkBranch(rt).tree = rt.tree
         /\ EnsureWorkBranch(rt).unfinished = rt.unfinished
         /\ Head1(EnsureWorkBranch(rt)) = Head1(rt)
         /\ Len(EnsureWorkBranch(rt).heads) >= Len(rt.heads)
         /\ \A b \in DOMAIN rt.heads : EnsureWorkBranch(rt).heads[b] = rt.heads[b]
         /\ \A b \in DOMAIN EnsureWorkBranch(rt).heads :
              b \in DOMAIN rt.heads \/ EnsureWorkBranch(rt).heads[b] = Head1(rt)
<1>1. CASE rt.branch # Protected
  BY <1>1 DEF EnsureWorkBranch, WellRooted, Root
<1>2. CASE rt.branch = Protected
  <2> DEFINE n == Len(rt.heads) + 1
             hs == Append(rt.heads, Head1(rt))
  <2>1. EnsureWorkBranch(rt) = [rt EXCEPT !.heads = hs, !.branch = n]
    BY <1>2 DEF EnsureWorkBranch
  <2>2. /\ Len(rt.heads) \in Nat /\ hs \in Seq(Seq(Commit)) /\ Len(hs) = n
        /\ hs[n] = Head1(rt) /\ \A b \in 1..Len(rt.heads) : hs[b] = rt.heads[b]
        /\ DOMAIN rt.heads = 1..Len(rt.heads) /\ DOMAIN hs = 1..n
    BY RootFacts
  <2>3. n # Protected /\ n \in Nat \ {0} /\ n \in DOMAIN hs
    BY <1>2, <2>2, RootFacts DEF Protected
  <2> HIDE DEF hs, n
  <2>4. /\ [rt EXCEPT !.heads = hs, !.branch = n] \in Root
        /\ [rt EXCEPT !.heads = hs, !.branch = n].heads = hs
        /\ [rt EXCEPT !.heads = hs, !.branch = n].branch = n
        /\ [rt EXCEPT !.heads = hs, !.branch = n].tree = rt.tree
        /\ [rt EXCEPT !.heads = hs, !.branch = n].unfinished = rt.unfinished
    BY <2>2, <2>3 DEF WellRooted, Root
  <2>5. n >= Len(rt.heads) /\ \A b \in DOMAIN hs : b \in DOMAIN rt.heads \/ b = n
    BY <2>2 DEF n
  <2> QED
    BY <2>1, <2>2, <2>3, <2>4, <2>5 DEF Head1, WellRooted
<1> QED
  BY <1>1, <1>2

(* A new log for the branch that HEAD points to.                           *)
LEMMA NewHead ==
  ASSUME NEW rt, WellRooted(rt), NEW log \in Seq(Commit)
  PROVE  /\ WellRooted([rt EXCEPT !.heads[rt.branch] = log])
         /\ [rt EXCEPT !.heads[rt.branch] = log].branch = rt.branch
         /\ [rt EXCEPT !.heads[rt.branch] = log].tree = rt.tree
         /\ [rt EXCEPT !.heads[rt.branch] = log].unfinished = rt.unfinished
         /\ DOMAIN [rt EXCEPT !.heads[rt.branch] = log].heads = DOMAIN rt.heads
         /\ Head1([rt EXCEPT !.heads[rt.branch] = log]) = log
         /\ \A b \in DOMAIN rt.heads :
              b # rt.branch => [rt EXCEPT !.heads[rt.branch] = log].heads[b] = rt.heads[b]
<1> DEFINE hs == [rt.heads EXCEPT ![rt.branch] = log]
<1>1. /\ hs \in Seq(Seq(Commit)) /\ DOMAIN hs = DOMAIN rt.heads /\ hs[rt.branch] = log
      /\ \A b \in DOMAIN rt.heads : b # rt.branch => hs[b] = rt.heads[b]
  BY RootFacts
<1>2. [rt EXCEPT !.heads[rt.branch] = log] = [rt EXCEPT !.heads = hs]
  BY DEF WellRooted, Root
<1> HIDE DEF hs
<1>3. /\ [rt EXCEPT !.heads = hs] \in Root /\ [rt EXCEPT !.heads = hs].heads = hs
      /\ [rt EXCEPT !.heads = hs].branch = rt.branch
      /\ [rt EXCEPT !.heads = hs].tree = rt.tree
      /\ [rt EXCEPT !.heads = hs].unfinished = rt.unfinished
  BY <1>1 DEF WellRooted, Root
<1> QED
  BY <1>1, <1>2, <1>3 DEF WellRooted, Head1

LEMMA NewTreeOnly ==
  ASSUME NEW rt, WellRooted(rt), NEW tree \in Tree
  PROVE  /\ WellRooted([rt EXCEPT !.tree = tree])
         /\ [rt EXCEPT !.tree = tree].branch = rt.branch
         /\ [rt EXCEPT !.tree = tree].heads = rt.heads
         /\ [rt EXCEPT !.tree = tree].tree = tree
         /\ [rt EXCEPT !.tree = tree].unfinished = rt.unfinished
BY DEF WellRooted, Root

LEMMA NewTree ==
  ASSUME NEW rt, WellRooted(rt), NEW tree \in Tree, NEW unfinished \in BOOLEAN
  PROVE  /\ WellRooted([rt EXCEPT !.tree = tree, !.unfinished = unfinished])
         /\ [rt EXCEPT !.tree = tree, !.unfinished = unfinished].branch = rt.branch
         /\ [rt EXCEPT !.tree = tree, !.unfinished = unfinished].heads = rt.heads
         /\ [rt EXCEPT !.tree = tree, !.unfinished = unfinished].tree = tree
         /\ [rt EXCEPT !.tree = tree, !.unfinished = unfinished].unfinished = unfinished
         /\ [rt EXCEPT !.unfinished = unfinished, !.tree = tree]
              = [rt EXCEPT !.tree = tree, !.unfinished = unfinished]
BY DEF WellRooted, Root

-----------------------------------------------------------------------------
(* The commits that are picked.                                            *)

WtWell == wt \in [Runs -> Worktree] /\ \A w \in Runs : wt[w].base <= Len(wt[w].log)

LEMMA WtFacts ==
  ASSUME WtWell, NEW w \in Runs
  PROVE  /\ wt[w].there \in BOOLEAN /\ wt[w].log \in Seq(Commit) /\ wt[w].base \in Nat
         /\ wt[w].base <= Len(wt[w].log) /\ wt[w].tree \in Tree /\ Len(wt[w].log) \in Nat
BY DEF WtWell, Worktree

LEMMA PickedTreeType ==
  ASSUME WtWell, NEW w \in Runs, WellRooted(root), NEW k \in wt[w].base..Len(wt[w].log)
  PROVE  PickedTree(w, k) \in Tree
<1>1. TreeAt(wt[w].log, k) \in Tree /\ TreeOf(RootLog) \in Tree
  BY WtFacts, RootFacts, Trees DEF RootLog
<1> QED
  BY <1>1 DEF PickedTree, Tree

LEMMA PickedFacts ==
  ASSUME WtWell, NEW w \in Runs, WellRooted(root)
  PROVE  /\ Picked(w) \in Seq(Commit)
         /\ Len(Picked(w)) = Len(RootLog) + (Len(wt[w].log) - wt[w].base)
         /\ Len(wt[w].log) - wt[w].base \in Nat
         /\ Len(RootLog) \in Nat
         /\ \A k \in 1..Len(RootLog) : Picked(w)[k] = RootLog[k]
         /\ \A i \in 1..(Len(wt[w].log) - wt[w].base) :
              Picked(w)[Len(RootLog) + i]
                = [by |-> wt[w].log[wt[w].base + i].by, tree |-> PickedTree(w, wt[w].base + i)]
<1> DEFINE m == Len(wt[w].log) - wt[w].base
           c(i) == [by |-> wt[w].log[wt[w].base + i].by, tree |-> PickedTree(w, wt[w].base + i)]
           s == [i \in 1..m |-> c(i)]
<1>1. m \in Nat /\ RootLog \in Seq(Commit) /\ Len(RootLog) \in Nat
  BY WtFacts, RootFacts DEF RootLog
<1>2. ASSUME NEW i \in 1..m PROVE c(i) \in Commit
  <2>1. wt[w].base + i \in wt[w].base..Len(wt[w].log) /\ wt[w].base + i \in 1..Len(wt[w].log)
    BY WtFacts, <1>1
  <2>2. wt[w].log[wt[w].base + i].by \in Runs
    <3>1. wt[w].log[wt[w].base + i] \in Commit
      BY <2>1, WtFacts
    <3> QED
      BY <3>1 DEF Commit
  <2> QED
    BY <2>1, <2>2, PickedTreeType DEF Commit
<1>3. Picked(w) = RootLog \o s
  BY DEF Picked
<1> HIDE DEF c, m
<1>4. s \in Seq(Commit) /\ Len(s) = m /\ \A i \in 1..m : s[i] = c(i)
  BY <1>1, <1>2
<1> HIDE DEF s
<1>5. /\ RootLog \o s \in Seq(Commit) /\ Len(RootLog \o s) = Len(RootLog) + m
      /\ \A k \in 1..Len(RootLog) : (RootLog \o s)[k] = RootLog[k]
      /\ \A i \in 1..m : (RootLog \o s)[Len(RootLog) + i] = s[i]
  BY <1>1, <1>4
<1> QED
  BY <1>1, <1>3, <1>4, <1>5 DEF m, c

-----------------------------------------------------------------------------
(* What _auto_commit_run may do: nothing, a commit on the branch of the    *)
(* root worktree, or one in the isolated worktree.                         *)

NoCommit(rec, rt, res) ==
  /\ res.root = rt /\ res.wt = wt /\ res.sha = rec.sha /\ res.paths = {}
  /\ res.commit = "committed" => rec.at # NoRun /\ rec.sha # <<>>

RootCommit(r, rec, now, rt, res) ==
  /\ rec.at = NoRun /\ rt.branch # Protected /\ ~rt.unfinished
  /\ res.paths = CommitPaths(rec, now) /\ res.commit = "committed"
  /\ res.sha = Committed(Head1(rt), r, rt.tree, res.paths)
  /\ res.root = [rt EXCEPT !.heads[rt.branch] = res.sha] /\ res.wt = wt

WtCommit(r, rec, now, rt, res) ==
  /\ rec.at \in Runs /\ res.paths # {}
  /\ res.paths = CommitPaths(rec, now) /\ res.commit = "committed"
  /\ res.sha = Committed(wt[rec.at].log, r, wt[rec.at].tree, res.paths)
  /\ res.wt = [wt EXCEPT ![rec.at].log = res.sha] /\ res.root = rt

LEMMA AutoCommitCases ==
  ASSUME NEW r \in Runs, NEW rec \in Run, NEW now, NEW rt, WellRooted(rt), NEW ok \in BOOLEAN,
         NEW res, res = AutoCommitted(r, rec, now, rt, ok)
  PROVE  /\ res.commit \in {"skipped", "failed", "committed"}
         /\ \/ NoCommit(rec, rt, res)
            \/ RootCommit(r, rec, now, rt, res)
            \/ WtCommit(r, rec, now, rt, res)
<1> DEFINE w == rec.at
           iso == w # NoRun
           paths == CommitPaths(rec, now)
           skip == ~iso /\ (paths = {} \/ (~rt.unfinished /\ rt.branch = Protected))
           fails == ~skip /\ (rt.unfinished \/ ~ok)
           done == ~skip /\ ~fails /\ paths # {}
           atRoot == Committed(Head1(rt), r, rt.tree, paths)
           atWt == Committed(wt[w].log, r, wt[w].tree, paths)
           new == IF iso THEN atWt ELSE atRoot
           commit == IF fails THEN "failed"
                     ELSE IF done \/ (iso /\ rec.sha # <<>>) THEN "committed" ELSE "skipped"
<1>1. res = [commit |-> commit, sha |-> IF done THEN new ELSE rec.sha,
             paths |-> IF done THEN paths ELSE {},
             root |-> IF done /\ ~iso THEN [rt EXCEPT !.heads[rt.branch] = new] ELSE rt,
             wt |-> IF done /\ iso THEN [wt EXCEPT ![w].log = new] ELSE wt]
  BY DEF AutoCommitted
<1>2. w \in Runs \cup {NoRun} /\ rt.unfinished \in BOOLEAN
  BY RootFacts DEF Run
<1>3. commit \in {"skipped", "failed", "committed"} /\ (~done /\ commit = "committed" => iso /\ rec.sha # <<>>)
  OBVIOUS
<1>4. done /\ ~iso => rt.branch # Protected /\ ~rt.unfinished /\ commit = "committed"
  BY <1>2
<1>5. done => commit = "committed"
  OBVIOUS
<1>6. done => paths # {}
  OBVIOUS
<1> HIDE DEF commit, paths, done
<1>7. CASE ~done
  BY <1>1, <1>3, <1>7 DEF NoCommit
<1>8. CASE done /\ ~iso
  <2> HIDE DEF atRoot, atWt
  <2>1. /\ res.commit = commit /\ res.sha = atRoot /\ res.paths = paths
        /\ res.root = [rt EXCEPT !.heads[rt.branch] = atRoot] /\ res.wt = wt
    BY <1>1, <1>8
  <2> QED
    BY <1>3, <1>4, <1>8, <2>1 DEF RootCommit, atRoot, paths
<1>9. CASE done /\ iso
  <2> HIDE DEF atRoot, atWt
  <2>1. /\ res.commit = commit /\ res.sha = atWt /\ res.paths = paths
        /\ res.wt = [wt EXCEPT ![w].log = atWt] /\ res.root = rt
    BY <1>1, <1>9
  <2> QED
    BY <1>2, <1>3, <1>5, <1>6, <1>9, <2>1 DEF WtCommit, atWt, paths
<1> QED
  BY <1>7, <1>8, <1>9

LEMMA AutoCommitType ==
  ASSUME NEW r \in Runs, NEW rec \in Run, NEW now, NEW rt, WellRooted(rt), NEW ok \in BOOLEAN,
         NEW res, res = AutoCommitted(r, rec, now, rt, ok), WtWell
  PROVE  /\ WellRooted(res.root) /\ res.sha \in Seq(Commit)
         /\ res.wt \in [Runs -> Worktree] /\ \A w \in Runs : res.wt[w].base <= Len(res.wt[w].log)
<1>0. rec.sha \in Seq(Commit)
  BY DEF Run
<1>1. CASE NoCommit(rec, rt, res)
  BY <1>0, <1>1 DEF NoCommit, WtWell
<1>2. CASE RootCommit(r, rec, now, rt, res)
  <2>1. res.sha \in Seq(Commit)
    BY <1>2, RootFacts, CommittedType DEF RootCommit
  <2>2. WellRooted(res.root)
    BY <1>2, <2>1, NewHead DEF RootCommit
  <2> QED
    BY <1>2, <2>1, <2>2 DEF RootCommit, WtWell
<1>3. CASE WtCommit(r, rec, now, rt, res)
  <2> DEFINE w == rec.at
  <2>1. w \in Runs /\ res.wt = [wt EXCEPT ![w].log = res.sha] /\ res.root = rt
    BY <1>3 DEF WtCommit
  <2>2. res.sha \in Seq(Commit) /\ Len(res.sha) = Len(wt[w].log) + 1
    BY <1>3, <2>1, WtFacts, CommittedType DEF WtCommit
  <2> HIDE DEF w
  <2>3. res.wt \in [Runs -> Worktree]
    BY <2>1, <2>2 DEF WtWell, Worktree
  <2>4. \A v \in Runs : res.wt[v].base <= Len(res.wt[v].log)
    <3> SUFFICES ASSUME NEW v \in Runs PROVE res.wt[v].base <= Len(res.wt[v].log)
      OBVIOUS
    <3>1. CASE v = w
      <4>1. res.wt[v].base = wt[w].base /\ res.wt[v].log = res.sha
        BY <2>1, <3>1 DEF WtWell, Worktree
      <4> QED
        BY <2>2, <4>1, <2>1, WtFacts
    <3>2. CASE v # w
      <4>1. res.wt[v] = wt[v]
        BY <2>1, <3>2 DEF WtWell
      <4> QED
        BY <4>1, WtFacts
    <3> QED
      BY <3>1, <3>2
  <2> QED
    BY <2>1, <2>2, <2>3, <2>4
<1> QED
  BY <1>1, <1>2, <1>3, AutoCommitCases

LEMMA AutoCommitPlaces ==
  ASSUME NEW r \in Runs, NEW rec \in Run, NEW now, NEW rt, WellRooted(rt), NEW ok \in BOOLEAN,
         NEW res, res = AutoCommitted(r, rec, now, rt, ok), WtWell
  PROVE  \A w \in Runs :
           /\ res.wt[w].there = wt[w].there /\ res.wt[w].base = wt[w].base
           /\ res.wt[w].tree = wt[w].tree
           /\ w # rec.at => res.wt[w] = wt[w]
<1>1. \/ NoCommit(rec, rt, res) \/ RootCommit(r, rec, now, rt, res)
      \/ WtCommit(r, rec, now, rt, res)
  BY AutoCommitCases
<1>2. CASE res.wt = wt
  BY <1>2
<1>3. CASE WtCommit(r, rec, now, rt, res)
  <2> DEFINE log == res.sha
             v == rec.at
  <2>1. v \in Runs /\ res.wt = [wt EXCEPT ![v].log = log]
    BY <1>3 DEF WtCommit
  <2> HIDE DEF log, v
  <2>2. \A w \in Runs :
          /\ res.wt[w].there = wt[w].there /\ res.wt[w].base = wt[w].base
          /\ res.wt[w].tree = wt[w].tree
          /\ w # v => res.wt[w] = wt[w]
    BY <2>1 DEF WtWell, Worktree
  <2> QED
    BY <2>2 DEF v
<1> QED
  BY <1>1, <1>2, <1>3 DEF NoCommit, RootCommit

-----------------------------------------------------------------------------
(* The shape of the variables; a process that needs a worktree has one.    *)

AtInv ==
  \A r \in Runs :
    /\ run[r].marker \in {NoRun, run[r].at}
    /\ run[r].phase \in {"integrating", "picking", "copying", "removing"} => run[r].at # NoRun

TypeInv == TypeOK /\ AtInv

LEMMA TypeFacts ==
  ASSUME TypeOK
  PROVE  /\ WellRooted(root) /\ WtWell /\ RootLog \in Seq(Commit)
         /\ trusted \in Changes /\ RootDetails \in Changes
         /\ \A r \in Runs : run[r] \in Run /\ DetailsAt(r) \in Changes
         /\ \A w \in Runs : WtDetails(w) \in Changes
<1>1. WellRooted(root) /\ WtWell /\ trusted \in Changes
  BY DEF TypeOK, WellRooted, WtWell
<1>2. RootLog \in Seq(Commit)
  BY <1>1, RootFacts DEF RootLog
<1>3. RootDetails \in Changes
  BY <1>1, <1>2, RootFacts, DetailsType DEF RootDetails
<1>4. ASSUME NEW w \in Runs PROVE WtDetails(w) \in Changes
  BY <1>1, WtFacts, DetailsType DEF WtDetails
<1>5. ASSUME NEW r \in Runs PROVE run[r] \in Run /\ DetailsAt(r) \in Changes
  <2>1. run[r] \in Run
    BY DEF TypeOK
  <2>2. run[r].at \in Runs \cup {NoRun}
    BY <2>1 DEF Run
  <2> QED
    BY <1>3, <1>4, <2>1, <2>2 DEF DetailsAt, Isolated
<1> QED
  BY <1>1, <1>2, <1>3, <1>4, <1>5

LEMMA InitTypeInv == Init => TypeInv
<1> SUFFICES ASSUME Init PROVE TypeInv
  OBVIOUS
<1>0. <<>> \in Seq(Commit) /\ Len(<<>>) = 0
  OBVIOUS
<1>1. <<>> \in Seq(Commit) /\ TreeOf(<<>>) \in Tree /\ Len(<<>>) = 0
  BY <1>0, Trees
<1>2. root \in Root /\ root.branch \in DOMAIN root.heads
  <2>1. <<(<<>>)>> \in Seq(Seq(Commit)) /\ Protected \in DOMAIN <<(<<>>)>>
    BY <1>1 DEF Protected
  <2> HIDE DEF TreeOf
  <2> QED
    BY <1>1, <2>1 DEF Init, Root, Protected
<1>3. NoWorktree \in Worktree /\ NoWorktree.base = 0 /\ NoWorktree.log = <<>>
  BY <1>1 DEF NoWorktree, Worktree
<1>4. /\ Unstarted \in Run /\ Unstarted.marker = NoRun /\ Unstarted.at = NoRun
      /\ Unstarted.phase = "new"
  BY <1>1, NoChangesType DEF Unstarted, Run, Phases
<1>5. wt \in [Runs -> Worktree] /\ \A w \in Runs : wt[w].base <= Len(wt[w].log)
  BY <1>1, <1>3 DEF Init
<1>6. run \in [Runs -> Run] /\ AtInv
  BY <1>4 DEF Init, AtInv
<1>7. cmd \in [op : {"none", "adopt", "discard", "commit"}, run : Runs \cup {NoRun},
              todo : SUBSET Paths, files : Changes, before : Changes]
  BY NoChangesType DEF Init, NoCommand
<1>8. edits \in 0..MaxEdits /\ faults \in 0..MaxFaults
  BY WorktreesAssumption DEF Init
<1> QED
  BY <1>2, <1>5, <1>6, <1>7, <1>8, NoChangesType DEF TypeInv, TypeOK, Init

(* A run of which some fields change.                                      *)
LEMMA OneRun ==
  ASSUME TypeInv, NEW u \in Runs, NEW rec \in Run,
         rec.marker \in {NoRun, rec.at},
         rec.phase \in {"integrating", "picking", "copying", "removing"} => rec.at # NoRun,
         run' = [run EXCEPT ![u] = rec]
  PROVE  run' \in [Runs -> Run] /\ AtInv'
BY DEF TypeInv, TypeOK, AtInv

LEMMA BlockType ==
  ASSUME TypeInv, NEW r \in Runs, NEW rec \in Run, rec.marker \in {NoRun, rec.at}, Block(r, rec)
  PROVE  /\ run' \in [Runs -> Run] /\ AtInv'
         /\ lock' \in Runs \cup {Free}
         /\ UNCHANGED <<policy, auto, trusted, wt, cmd, edits>>
<1> DEFINE new == [rec EXCEPT !.phase = "done", !.status = "blocked"]
<1>1. new \in Run /\ new.marker = rec.marker /\ new.at = rec.at /\ new.phase = "done"
  <2>1. "done" \in Phases
    BY DEF Phases
  <2> QED
    BY <2>1 DEF Run
<1>2. run' = [run EXCEPT ![r] = new]
  BY DEF Block
<1> HIDE DEF new
<1>3. run' \in [Runs -> Run] /\ AtInv'
  BY <1>1, <1>2, OneRun
<1> QED
  BY <1>3 DEF Block, Release, TypeInv, TypeOK

LEMMA DelegateType ==
  ASSUME TypeInv, NEW r \in Runs, Delegate(r)
  PROVE  TypeInv'
<1>1. run[r] \in Run /\ run[r].marker \in {NoRun, run[r].at}
  BY DEF TypeInv, TypeOK, AtInv
<1>2. CASE Block(r, run[r]) /\ UNCHANGED <<root, faults>>
  BY <1>1, <1>2, BlockType DEF TypeInv, TypeOK
<1>3. CASE CreateIsolatedWorktree(r)
  <2> DEFINE new == [run[r] EXCEPT !.phase = "prepared", !.marker = r, !.at = r, !.line = {r}]
             place == [there |-> TRUE, log |-> RootLog, base |-> Len(RootLog),
                       tree |-> TreeOf(RootLog)]
  <2>1. run' = [run EXCEPT ![r] = new] /\ wt' = [wt EXCEPT ![r] = place]
        /\ UNCHANGED <<policy, auto, root, lock, trusted, cmd, edits, faults>>
    BY <1>3 DEF CreateIsolatedWorktree, TypeInv, TypeOK
  <2>2. new \in Run /\ new.marker = r /\ new.at = r /\ new.phase = "prepared"
    BY <1>1 DEF Run, Phases
  <2>3. place \in Worktree /\ place.base = Len(place.log) /\ Len(place.log) \in Nat
    BY TypeFacts, Trees DEF TypeInv, Worktree
  <2> HIDE DEF new, place
  <2>4. run' \in [Runs -> Run] /\ AtInv'
    BY <2>1, <2>2, OneRun
  <2>5. wt' \in [Runs -> Worktree] /\ \A w \in Runs : wt'[w].base <= Len(wt'[w].log)
    BY <2>1, <2>3 DEF TypeInv, TypeOK
  <2> QED
    BY <2>1, <2>4, <2>5 DEF TypeInv, TypeOK
<1>4. CASE /\ lock' = r
           /\ run' = [run EXCEPT ![r].phase = "prepared", ![r].line = {r}]
           /\ UNCHANGED <<policy, auto, root, trusted, wt, cmd, edits, faults>>
  <2> DEFINE new == [run[r] EXCEPT !.phase = "prepared", !.line = {r}]
  <2>1. run' = [run EXCEPT ![r] = new]
    BY <1>4 DEF TypeInv, TypeOK
  <2>2. new \in Run /\ new.marker = run[r].marker /\ new.at = run[r].at /\ new.phase = "prepared"
    BY <1>1 DEF Run, Phases
  <2> HIDE DEF new
  <2>4. run' \in [Runs -> Run] /\ AtInv'
    BY <1>1, <2>1, <2>2, OneRun
  <2> QED
    BY <1>4, <2>4 DEF TypeInv, TypeOK
<1> QED
  BY <1>2, <1>3, <1>4 DEF Delegate

(* What a retry takes over from run u, and where it works.                 *)
Reuses(u) == run[u].marker # NoRun /\ ~Resolved(u)

Successor(r, u) ==
  [Unstarted EXCEPT !.phase = "prepared", !.prev = u,
     !.chain = run[u].chain, !.line = run[u].line \cup {r},
     !.marker = IF Reuses(u) THEN run[u].marker ELSE NoRun,
     !.at = IF Reuses(u) THEN run[u].marker ELSE NoRun,
     !.sha = IF Reuses(u) THEN run[u].sha ELSE <<>>]

Homeless(r, u) == [Successor(r, u) EXCEPT !.marker = NoRun, !.at = NoRun]

RetryStarts(r, u) ==
  /\ Reuses(u) => wt[run[u].marker].there
  /\ ~Reuses(u) => lock = Free
  /\ policy = "allow" \/ Pairs(IF Reuses(u) THEN WtDetails(run[u].marker) ELSE RootDetails)
                           \subseteq Recorded(u)
  /\ run' = [run EXCEPT ![r] = Successor(r, u)]
  /\ lock' = IF Reuses(u) THEN lock ELSE r
  /\ UNCHANGED <<policy, auto, trusted, wt, cmd, edits>>

(* The ways in which a retry ends or starts.                               *)
LEMMA RetryCases ==
  ASSUME NEW r, NEW u, Retry(r, u)
  PROVE  /\ run[r].phase = "new" /\ Retryable(u) /\ UNCHANGED <<root, faults>>
         /\ Reuses(u) => Unclaimed(run[u].marker)
         /\ \/ Block(r, Homeless(r, u))
            \/ Block(r, Successor(r, u)) /\ (Reuses(u) => wt[run[u].marker].there)
            \/ RetryStarts(r, u)
<1> DEFINE reuse == Reuses(u)
           w == run[u].marker
           rec == Successor(r, u)
           now == IF reuse THEN WtDetails(w) ELSE RootDetails
           known == policy = "allow" \/ Pairs(now) \subseteq Recorded(u)
           refused == Refused \/ (reuse /\ ~wt[w].there) \/ (~reuse /\ lock # Free)
<1>1. /\ run[r].phase = "new" /\ Retryable(u) /\ UNCHANGED <<root, faults>>
      /\ reuse => Unclaimed(w)
      /\ IF refused
         THEN Block(r, [rec EXCEPT !.marker = NoRun, !.at = NoRun])
         ELSE IF ~known
         THEN Block(r, rec)
         ELSE /\ run' = [run EXCEPT ![r] = rec]
              /\ lock' = IF reuse THEN lock ELSE r
              /\ UNCHANGED <<policy, auto, trusted, wt, cmd, edits>>
  BY DEF Retry, Successor, Reuses
<1> HIDE DEF rec
<1>2. CASE refused
  BY <1>1, <1>2 DEF Homeless, rec
<1>3. CASE ~refused /\ ~known
  BY <1>1, <1>3 DEF rec
<1>4. CASE ~refused /\ known
  BY <1>1, <1>4 DEF RetryStarts, rec
<1> QED
  BY <1>1, <1>2, <1>3, <1>4

LEMMA UnstartedType ==
  /\ Unstarted \in Run /\ Unstarted.marker = NoRun /\ Unstarted.at = NoRun
  /\ Unstarted.phase = "new" /\ Unstarted.prev = NoRun /\ Unstarted.resolved = "no"
  /\ Unstarted.before = NoChanges /\ Unstarted.delta = NoChanges /\ Unstarted.chain = {}
  /\ Unstarted.status = "none" /\ Unstarted.commit = "none" /\ Unstarted.sha = <<>>
  /\ Unstarted.unit = <<>> /\ Unstarted.integ = "none" /\ Unstarted.line = {}
<1>1. "new" \in Phases /\ <<>> \in Seq(Commit)
  BY DEF Phases
<1> QED
  BY <1>1, NoChangesType DEF Unstarted, Run

LEMMA SuccessorFacts ==
  ASSUME TypeOK, NEW r \in Runs, NEW u \in Runs,
         NEW m, m = IF Reuses(u) THEN run[u].marker ELSE NoRun
  PROVE  /\ Successor(r, u) \in Run /\ Homeless(r, u) \in Run
         /\ Successor(r, u).marker = m /\ Successor(r, u).at = m
         /\ Homeless(r, u).marker = NoRun /\ Homeless(r, u).at = NoRun
         /\ \A s \in {Successor(r, u), Homeless(r, u)} :
              /\ s.phase = "prepared" /\ s.prev = u /\ s.resolved = "no"
              /\ s.before = NoChanges /\ s.delta = NoChanges
              /\ s.chain = run[u].chain /\ s.status = "none" /\ s.commit = "none"
              /\ s.unit = <<>> /\ s.integ = "none" /\ s.line = run[u].line \cup {r}
              /\ s.sha = IF Reuses(u) THEN run[u].sha ELSE <<>>
<1> DEFINE sha == IF Reuses(u) THEN run[u].sha ELSE <<>>
           line == run[u].line \cup {r}
<1>1. /\ run[u].chain \in SUBSET Paths /\ line \in SUBSET Runs /\ sha \in Seq(Commit)
      /\ m \in Runs \cup {NoRun}
  <2>1. run[u] \in Run
    BY DEF TypeOK
  <2> QED
    BY <2>1 DEF Run
<1>2. "prepared" \in Phases
  BY DEF Phases
<1>3. Successor(r, u) = [Unstarted EXCEPT !.phase = "prepared", !.prev = u, !.chain = run[u].chain,
                            !.line = line, !.marker = m, !.at = m, !.sha = sha]
  BY DEF Successor
<1> HIDE DEF line, sha
<1> DEFINE s == [Unstarted EXCEPT !.phase = "prepared", !.prev = u, !.chain = run[u].chain,
                            !.line = line, !.marker = m, !.at = m, !.sha = sha]
           h == [s EXCEPT !.marker = NoRun, !.at = NoRun]
<1>4. s \in Run
  BY <1>1, <1>2, UnstartedType DEF Run
<1>5. /\ s.marker = m /\ s.at = m /\ s.phase = "prepared" /\ s.prev = u /\ s.resolved = "no"
      /\ s.before = NoChanges /\ s.delta = NoChanges
      /\ s.chain = run[u].chain /\ s.status = "none" /\ s.commit = "none"
      /\ s.unit = <<>> /\ s.integ = "none" /\ s.line = line /\ s.sha = sha
  BY <1>1, <1>2, UnstartedType DEF Run
<1> HIDE DEF s
<1>6. h \in Run /\ h.marker = NoRun /\ h.at = NoRun
  BY <1>4 DEF Run
<1>7. /\ h.phase = s.phase /\ h.prev = s.prev /\ h.resolved = s.resolved
      /\ h.before = s.before /\ h.delta = s.delta
      /\ h.chain = s.chain /\ h.status = s.status /\ h.commit = s.commit
      /\ h.unit = s.unit /\ h.integ = s.integ /\ h.line = s.line /\ h.sha = s.sha
  BY <1>4 DEF Run
<1>8. Successor(r, u) = s /\ Homeless(r, u) = h
  BY <1>3 DEF s, Homeless
<1> HIDE DEF h
<1>9. \A x \in {s, h} :
        /\ x.phase = "prepared" /\ x.prev = u /\ x.resolved = "no"
        /\ x.before = NoChanges /\ x.delta = NoChanges
        /\ x.chain = run[u].chain /\ x.status = "none" /\ x.commit = "none"
        /\ x.unit = <<>> /\ x.integ = "none" /\ x.line = line /\ x.sha = sha
  BY <1>5, <1>7
<1> QED
  BY <1>4, <1>5, <1>6, <1>8, <1>9 DEF line, sha

LEMMA RetryType ==
  ASSUME TypeInv, NEW r \in Runs, NEW u \in Runs, Retry(r, u)
  PROVE  TypeInv'
<1> DEFINE m == IF Reuses(u) THEN run[u].marker ELSE NoRun
<1>1. UNCHANGED <<root, faults>>
  BY RetryCases
<1>2. /\ Successor(r, u) \in Run /\ Homeless(r, u) \in Run
      /\ Successor(r, u).marker = Successor(r, u).at /\ Successor(r, u).phase = "prepared"
      /\ Homeless(r, u).marker = Homeless(r, u).at
  BY SuccessorFacts DEF TypeInv
<1>3. CASE Block(r, Homeless(r, u)) \/ Block(r, Successor(r, u))
  BY <1>1, <1>2, <1>3, BlockType DEF TypeInv, TypeOK
<1>4. CASE RetryStarts(r, u)
  <2>1. run' \in [Runs -> Run] /\ AtInv'
    BY <1>2, <1>4, OneRun DEF RetryStarts
  <2> QED
    BY <1>1, <1>4, <2>1 DEF RetryStarts, TypeInv, TypeOK
<1> QED
  BY <1>3, <1>4, RetryCases

LEMMA BeginType ==
  ASSUME TypeInv, NEW r \in Runs, Begin(r)
  PROVE  TypeInv'
<1> DEFINE before == DetailsAt(r)
           chain == Owned(r, DetailsAt(r))
           new == [run[r] EXCEPT !.phase = "running", !.before = before, !.chain = chain]
<1>1. run[r] \in Run /\ before \in Changes /\ WellRooted(root) /\ "running" \in Phases
  BY TypeFacts DEF TypeInv, Phases
<1>2. chain \in SUBSET Paths
  BY <1>1 DEF Owned, Run
<1>3. /\ run' = [run EXCEPT ![r] = new]
      /\ root' = IF auto /\ ~Isolated(r) THEN EnsureWorkBranch(root) ELSE root
      /\ UNCHANGED <<policy, auto, lock, trusted, wt, cmd, edits, faults>>
  BY DEF Begin, TypeInv, TypeOK
<1> HIDE DEF before, chain
<1>4. new \in Run /\ new.marker = run[r].marker /\ new.at = run[r].at /\ new.phase = "running"
  BY <1>1, <1>2 DEF Run
<1> HIDE DEF new
<1>5. run' \in [Runs -> Run] /\ AtInv'
  BY <1>3, <1>4, OneRun DEF TypeInv, AtInv
<1>6. WellRooted(root')
  BY <1>1, <1>3, EnsureFacts
<1> QED
  BY <1>3, <1>5, <1>6 DEF TypeInv, TypeOK, WellRooted

LEMMA BeginRefusedType ==
  ASSUME TypeInv, NEW r \in Runs, BeginRefused(r)
  PROVE  TypeInv'
<1>1. run[r] \in Run /\ run[r].marker \in {NoRun, run[r].at}
  BY DEF TypeInv, TypeOK, AtInv
<1>2. Block(r, run[r]) /\ UNCHANGED root /\ faults' \in 0..MaxFaults
  BY WorktreesAssumption DEF BeginRefused, Fault, TypeInv, TypeOK
<1> QED
  BY <1>1, <1>2, BlockType DEF TypeInv, TypeOK

(* The place where a run works: its files and its log.                     *)
TreeAtPlace(r) == IF Isolated(r) THEN wt[run[r].at].tree ELSE root.tree
LogAtPlace(r)  == IF Isolated(r) THEN wt[run[r].at].log ELSE RootLog

LEMMA PlaceFacts ==
  ASSUME TypeOK, NEW r \in Runs
  PROVE  /\ TreeAtPlace(r) \in Tree /\ LogAtPlace(r) \in Seq(Commit)
         /\ TreeOf(LogAtPlace(r)) \in Tree
         /\ Isolated(r) => run[r].at \in Runs
         /\ DetailsAt(r) = Details(TreeAtPlace(r), LogAtPlace(r))
         /\ DetailsAt(r) \in Changes
         /\ DOMAIN DetailsAt(r) = {p \in Paths : TreeAtPlace(r)[p] # TreeOf(LogAtPlace(r))[p]}
         /\ \A p \in DOMAIN DetailsAt(r) : DetailsAt(r)[p] = TreeAtPlace(r)[p]
<1>1. Isolated(r) => run[r].at \in Runs
  BY TypeFacts DEF Isolated, Run
<1>2. TreeAtPlace(r) \in Tree /\ LogAtPlace(r) \in Seq(Commit)
  BY <1>1, TypeFacts, WtFacts, RootFacts DEF TreeAtPlace, LogAtPlace
<1>3. DetailsAt(r) = Details(TreeAtPlace(r), LogAtPlace(r))
  BY DEF DetailsAt, WtDetails, RootDetails, TreeAtPlace, LogAtPlace
<1>4. TreeOf(LogAtPlace(r)) \in Tree
  BY <1>2, Trees
<1> DEFINE d == Details(TreeAtPlace(r), LogAtPlace(r))
<1>5. /\ d \in Changes
      /\ DOMAIN d = {p \in Paths : TreeAtPlace(r)[p] # TreeOf(LogAtPlace(r))[p]}
      /\ \A p \in DOMAIN d : d[p] = TreeAtPlace(r)[p]
  BY <1>2, DetailsType
<1> HIDE DEF d
<1>6. DetailsAt(r) = d
  BY <1>3 DEF d
<1> QED
  BY <1>1, <1>2, <1>3, <1>4, <1>5, <1>6

Written(r, written, undone) ==
  [p \in Paths |-> IF p \in written THEN r
                   ELSE IF p \in undone THEN TreeOf(LogAtPlace(r))[p] ELSE TreeAtPlace(r)[p]]

(* An execution: the files that it leaves.                                 *)
LEMMA ExecuteCases ==
  ASSUME TypeOK, NEW r \in Runs, Execute(r)
  PROVE  /\ run[r].phase = "running"
         /\ UNCHANGED <<policy, auto, lock, trusted, cmd, edits, faults>>
         /\ \E status \in {"success", "partial", "failed", "limited"} :
              run' = [run EXCEPT ![r].phase = "worked", ![r].status = status]
         /\ \E written \in SUBSET Paths, undone \in SUBSET Paths :
              IF Isolated(r)
              THEN wt' = [wt EXCEPT ![run[r].at].tree = Written(r, written, undone)] /\ UNCHANGED root
              ELSE root' = [root EXCEPT !.tree = Written(r, written, undone)] /\ UNCHANGED wt
<1>1. PICK written \in SUBSET Paths, undone \in SUBSET Paths,
           status \in {"success", "partial", "failed", "limited"} :
        /\ written \cap undone = {}
        /\ LET place == IF Isolated(r) THEN wt[run[r].at] ELSE root
               log   == IF Isolated(r) THEN place.log ELSE RootLog
               new   == [p \in Paths |-> CASE p \in written -> r
                                           [] p \in undone  -> TreeOf(log)[p]
                                           [] OTHER -> place.tree[p]]
           IN
           /\ undone \subseteq DOMAIN Details(place.tree, log)
           /\ IF Isolated(r)
              THEN wt' = [wt EXCEPT ![run[r].at].tree = new] /\ UNCHANGED root
              ELSE root' = [root EXCEPT !.tree = new] /\ UNCHANGED wt
        /\ run' = [run EXCEPT ![r].phase = "worked", ![r].status = status]
  BY DEF Execute
<1> DEFINE new == [p \in Paths |-> CASE p \in written -> r
                                     [] p \in undone  -> TreeOf(LogAtPlace(r))[p]
                                     [] OTHER -> TreeAtPlace(r)[p]]
<1>2. new = Written(r, written, undone)
  BY <1>1 DEF Written
<1>3. IF Isolated(r)
      THEN wt' = [wt EXCEPT ![run[r].at].tree = new] /\ UNCHANGED root
      ELSE root' = [root EXCEPT !.tree = new] /\ UNCHANGED wt
  <2>1. CASE Isolated(r)
    BY <1>1, <2>1 DEF TreeAtPlace, LogAtPlace
  <2>2. CASE ~Isolated(r)
    BY <1>1, <2>2 DEF TreeAtPlace, LogAtPlace
  <2> QED
    BY <2>1, <2>2
<1> HIDE DEF new
<1>4. IF Isolated(r)
      THEN wt' = [wt EXCEPT ![run[r].at].tree = Written(r, written, undone)] /\ UNCHANGED root
      ELSE root' = [root EXCEPT !.tree = Written(r, written, undone)] /\ UNCHANGED wt
  BY <1>2, <1>3
<1>5. run' = [run EXCEPT ![r].phase = "worked", ![r].status = status]
  BY <1>1
<1>6. /\ run[r].phase = "running"
      /\ UNCHANGED <<policy, auto, lock, trusted, cmd, edits, faults>>
  BY DEF Execute
<1> QED
  BY <1>4, <1>5, <1>6

LEMMA WrittenType ==
  ASSUME TypeOK, NEW r \in Runs, NEW written \in SUBSET Paths, NEW undone \in SUBSET Paths
  PROVE  Written(r, written, undone) \in Tree
BY PlaceFacts, Names DEF Written, Tree

LEMMA NewWtTree ==
  ASSUME WtWell, NEW w \in Runs, NEW tree \in Tree, wt' = [wt EXCEPT ![w].tree = tree]
  PROVE  /\ wt' \in [Runs -> Worktree] /\ \A v \in Runs : wt'[v].base <= Len(wt'[v].log)
         /\ wt'[w].tree = tree /\ \A v \in Runs \ {w} : wt'[v] = wt[v]
         /\ \A v \in Runs : wt'[v].log = wt[v].log /\ wt'[v].there = wt[v].there /\ wt'[v].base = wt[v].base
<1>1. wt' \in [Runs -> Worktree]
  BY DEF WtWell, Worktree
<1>2. /\ wt'[w].tree = tree /\ wt'[w].log = wt[w].log /\ wt'[w].there = wt[w].there
      /\ wt'[w].base = wt[w].base
  BY DEF WtWell, Worktree
<1>3. \A v \in Runs \ {w} : wt'[v] = wt[v]
  BY DEF WtWell
<1>4. \A v \in Runs : wt'[v].log = wt[v].log /\ wt'[v].there = wt[v].there /\ wt'[v].base = wt[v].base
  BY <1>2, <1>3
<1>5. \A v \in Runs : wt'[v].base <= Len(wt'[v].log)
  BY <1>4 DEF WtWell
<1> QED
  BY <1>1, <1>2, <1>3, <1>4, <1>5

LEMMA ExecuteType ==
  ASSUME TypeInv, NEW r \in Runs, Execute(r)
  PROVE  TypeInv'
<1>1. /\ run[r] \in Run /\ WellRooted(root) /\ WtWell /\ "worked" \in Phases
      /\ Isolated(r) => run[r].at \in Runs
  BY TypeFacts, PlaceFacts DEF TypeInv, Phases
<1>2. /\ UNCHANGED <<policy, auto, lock, trusted, cmd, edits, faults>>
      /\ run[r].phase = "running"
  BY ExecuteCases DEF TypeInv
<1>3. PICK status \in {"success", "partial", "failed", "limited"} :
        run' = [run EXCEPT ![r].phase = "worked", ![r].status = status]
  BY ExecuteCases DEF TypeInv
<1>4. PICK written \in SUBSET Paths, undone \in SUBSET Paths :
        IF Isolated(r)
        THEN wt' = [wt EXCEPT ![run[r].at].tree = Written(r, written, undone)] /\ UNCHANGED root
        ELSE root' = [root EXCEPT !.tree = Written(r, written, undone)] /\ UNCHANGED wt
  BY ExecuteCases DEF TypeInv
<1>5. Written(r, written, undone) \in Tree
  BY WrittenType DEF TypeInv
<1>6. run' \in [Runs -> Run] /\ AtInv'
  <2> DEFINE new == [run[r] EXCEPT !.phase = "worked", !.status = status]
  <2>1. run' = [run EXCEPT ![r] = new]
    BY <1>3 DEF TypeInv, TypeOK
  <2>2. new \in Run /\ new.marker = run[r].marker /\ new.at = run[r].at /\ new.phase = "worked"
    BY <1>1 DEF Run
  <2> HIDE DEF new
  <2> QED
    BY <2>1, <2>2, OneRun DEF TypeInv, AtInv
<1>7. WellRooted(root')
  <2>1. CASE Isolated(r)
    BY <1>1, <1>4, <2>1
  <2>2. CASE ~Isolated(r)
    <3> DEFINE tree == Written(r, written, undone)
    <3>1. root' = [root EXCEPT !.tree = tree] /\ tree \in Tree
      BY <1>4, <1>5, <2>2
    <3> HIDE DEF tree
    <3> QED
      BY <1>1, <3>1, NewTreeOnly
  <2> QED
    BY <2>1, <2>2
<1>8. wt' \in [Runs -> Worktree] /\ \A v \in Runs : wt'[v].base <= Len(wt'[v].log)
  <2>1. CASE Isolated(r)
    BY <1>1, <1>4, <1>5, <2>1, NewWtTree
  <2>2. CASE ~Isolated(r)
    BY <1>1, <1>4, <2>2 DEF WtWell
  <2> QED
    BY <2>1, <2>2
<1> QED
  BY <1>2, <1>6, <1>7, <1>8 DEF TypeInv, TypeOK, WellRooted

(* The record of a run once its execution is over, before the commit.      *)
Delivered(r) ==
  LET delta == Delta(run[r].before, DetailsAt(r))
  IN [run[r] EXCEPT !.delta = delta,
        !.chain = @ \cup (DOMAIN delta \ DOMAIN run[r].before),
        !.integ = IF run[r].marker # NoRun THEN "pending" ELSE "none"]

Noted(r) == IF policy = "allow_delegated" /\ ~Isolated(r)
            THEN RecordDelegated(DetailsAt(r), Delta(run[r].before, DetailsAt(r))) ELSE trusted

FinishedAsIs(r) ==
  /\ ~auto \/ run[r].status # "success" \/ Lost(r)
  /\ run' = [run EXCEPT ![r] = [Delivered(r) EXCEPT !.phase = "saving",
                 !.commit = IF auto THEN "skipped" ELSE "disabled"]]
  /\ trusted' = Noted(r)
  /\ UNCHANGED <<root, wt>>

FinishedWith(r, res) ==
  /\ root' = res.root /\ wt' = res.wt
  /\ trusted' = IF Isolated(r) THEN Noted(r) ELSE Forget(Noted(r), res.paths)
  /\ run' = [run EXCEPT ![r] = [Delivered(r) EXCEPT
       !.phase  = IF Isolated(r) /\ res.commit # "failed" THEN "integrating" ELSE "saving",
       !.status = IF res.commit = "failed" THEN "partial" ELSE @,
       !.commit = res.commit, !.sha = res.sha]]

LEMMA DeliveredFacts ==
  ASSUME TypeOK, NEW r \in Runs
  PROVE  /\ Delivered(r) \in Run
         /\ Delivered(r).delta = Delta(run[r].before, DetailsAt(r))
         /\ Delivered(r).chain = run[r].chain \cup (DOMAIN Delivered(r).delta \ DOMAIN run[r].before)
         /\ Delivered(r).integ = IF run[r].marker # NoRun THEN "pending" ELSE "none"
         /\ Delivered(r).phase = run[r].phase /\ Delivered(r).prev = run[r].prev
         /\ Delivered(r).marker = run[r].marker /\ Delivered(r).at = run[r].at
         /\ Delivered(r).resolved = run[r].resolved /\ Delivered(r).before = run[r].before
         /\ Delivered(r).status = run[r].status /\ Delivered(r).commit = run[r].commit
         /\ Delivered(r).sha = run[r].sha /\ Delivered(r).unit = run[r].unit
         /\ Delivered(r).line = run[r].line
         /\ Noted(r) \in Changes
<1> DEFINE delta == Delta(run[r].before, DetailsAt(r))
           chain == run[r].chain \cup (DOMAIN delta \ DOMAIN run[r].before)
           integ == IF run[r].marker # NoRun THEN "pending" ELSE "none"
           new == [run[r] EXCEPT !.delta = delta, !.chain = chain, !.integ = integ]
<1>1. run[r] \in Run /\ DetailsAt(r) \in Changes /\ trusted \in Changes
  BY TypeFacts
<1>2. run[r].before \in Changes /\ run[r].chain \subseteq Paths
  BY <1>1 DEF Run
<1>3. delta \in Changes
  BY <1>1, <1>2, DeltaType
<1>4. Noted(r) \in Changes
  BY <1>1, <1>3, RecordDelegatedType DEF Noted
<1> HIDE DEF delta
<1>5. chain \in SUBSET Paths
  BY <1>2, <1>3, ChangesElim
<1>6. Delivered(r) = new
  BY <1>1 DEF Delivered, delta, Run
<1> HIDE DEF chain, integ
<1>7. integ \in {"none", "pending"}
  BY DEF integ
<1>8. /\ new \in Run /\ new.delta = delta /\ new.chain = chain /\ new.integ = integ
  BY <1>1, <1>3, <1>5, <1>7 DEF Run
<1>9. /\ new.phase = run[r].phase /\ new.prev = run[r].prev
      /\ new.marker = run[r].marker /\ new.at = run[r].at
      /\ new.resolved = run[r].resolved /\ new.before = run[r].before
      /\ new.status = run[r].status /\ new.commit = run[r].commit
      /\ new.sha = run[r].sha /\ new.unit = run[r].unit
      /\ new.line = run[r].line
  BY <1>1 DEF Run
<1> HIDE DEF new
<1> QED
  BY <1>4, <1>6, <1>8, <1>9 DEF delta, chain, integ

LEMMA FinishCases ==
  ASSUME NEW r, NEW ok, Finish(r, ok)
  PROVE  /\ run[r].phase = "worked" /\ UNCHANGED <<policy, auto, lock, cmd, edits>>
         /\ IF ok THEN UNCHANGED faults ELSE Fault
         /\ \/ FinishedAsIs(r)
            \/ /\ auto /\ run[r].status = "success" /\ ~Lost(r)
               /\ FinishedWith(r, AutoCommitted(r, Delivered(r), DetailsAt(r), root, ok))
<1> DEFINE delta == Delta(run[r].before, DetailsAt(r))
           rec == [run[r] EXCEPT !.delta = delta,
                      !.chain = @ \cup (DOMAIN delta \ DOMAIN run[r].before),
                      !.integ = IF run[r].marker # NoRun THEN "pending" ELSE "none"]
           res == AutoCommitted(r, rec, DetailsAt(r), root, ok)
<1>1. rec = Delivered(r)
  BY DEF Delivered
<1>2. /\ run[r].phase = "worked" /\ UNCHANGED <<policy, auto, lock, cmd, edits>>
      /\ IF ok THEN UNCHANGED faults ELSE Fault
      /\ IF ~auto \/ rec.status # "success" \/ Lost(r)
         THEN /\ ok
              /\ run' = [run EXCEPT ![r] = [rec EXCEPT !.phase = "saving",
                           !.commit = IF auto THEN "skipped" ELSE "disabled"]]
              /\ trusted' = Noted(r)
              /\ UNCHANGED <<root, wt>>
         ELSE /\ ok \/ res.commit = "failed"
              /\ root' = res.root /\ wt' = res.wt
              /\ trusted' = IF Isolated(r) THEN Noted(r) ELSE Forget(Noted(r), res.paths)
              /\ run' = [run EXCEPT ![r] = [rec EXCEPT
                   !.phase  = IF Isolated(r) /\ res.commit # "failed"
                              THEN "integrating" ELSE "saving",
                   !.status = IF res.commit = "failed" THEN "partial" ELSE @,
                   !.commit = res.commit, !.sha = res.sha]]
  BY DEF Finish, Noted
<1>3. rec.status = run[r].status
  OBVIOUS
<1> HIDE DEF rec
<1> QED
  BY <1>1, <1>2, <1>3 DEF FinishedAsIs, FinishedWith

LEMMA FinishType ==
  ASSUME TypeInv, NEW r \in Runs, NEW ok \in BOOLEAN, Finish(r, ok)
  PROVE  TypeInv'
<1>1. /\ Delivered(r) \in Run /\ Delivered(r).marker = run[r].marker /\ Delivered(r).at = run[r].at
      /\ Noted(r) \in Changes
      /\ run[r].marker \in {NoRun, run[r].at}
  BY DeliveredFacts DEF TypeInv, AtInv
<1>2. /\ UNCHANGED <<policy, auto, lock, cmd, edits>> /\ faults' \in 0..MaxFaults
  BY FinishCases, WorktreesAssumption DEF Fault, TypeInv, TypeOK
<1>3. WellRooted(root) /\ WtWell /\ {"saving", "integrating"} \subseteq Phases
  BY TypeFacts DEF TypeInv, Phases
<1>4. CASE FinishedAsIs(r)
  <2> DEFINE commit == IF auto THEN "skipped" ELSE "disabled"
             new == [Delivered(r) EXCEPT !.phase = "saving", !.commit = commit]
  <2>1. commit \in {"disabled", "skipped"}
    OBVIOUS
  <2>2. run' = [run EXCEPT ![r] = new] /\ trusted' = Noted(r) /\ UNCHANGED <<root, wt>>
    BY <1>4 DEF FinishedAsIs
  <2> HIDE DEF commit
  <2>3. /\ new \in Run /\ new.marker = run[r].marker /\ new.at = run[r].at /\ new.phase = "saving"
    BY <1>1, <1>3, <2>1 DEF Run
  <2> HIDE DEF new
  <2>4. run' \in [Runs -> Run] /\ AtInv'
    BY <1>1, <2>2, <2>3, OneRun
  <2> QED
    BY <1>1, <1>2, <2>2, <2>4 DEF TypeInv, TypeOK
<1>5. ASSUME NEW res, res = AutoCommitted(r, Delivered(r), DetailsAt(r), root, ok),
             FinishedWith(r, res)
      PROVE  TypeInv'
  <2> DEFINE phase == IF Isolated(r) /\ res.commit # "failed" THEN "integrating" ELSE "saving"
             status == IF res.commit = "failed" THEN "partial" ELSE Delivered(r).status
             new == [Delivered(r) EXCEPT !.phase = phase, !.status = status,
                       !.commit = res.commit, !.sha = res.sha]
  <2>1. /\ res.commit \in {"skipped", "failed", "committed"}
        /\ WellRooted(res.root) /\ res.sha \in Seq(Commit)
        /\ res.wt \in [Runs -> Worktree] /\ \A w \in Runs : res.wt[w].base <= Len(res.wt[w].log)
    BY <1>1, <1>3, <1>5, AutoCommitCases, AutoCommitType
  <2>2. /\ run' = [run EXCEPT ![r] = new] /\ root' = res.root /\ wt' = res.wt
        /\ trusted' = IF Isolated(r) THEN Noted(r) ELSE Forget(Noted(r), res.paths)
    BY <1>1, <1>5 DEF FinishedWith, Run
  <2>3. phase \in {"saving", "integrating"} /\ (phase = "integrating" => run[r].at # NoRun)
    BY DEF Isolated
  <2>4. status \in {"none", "blocked", "success", "partial", "failed", "limited"}
    BY <1>1 DEF Run
  <2> HIDE DEF phase, status
  <2>5. /\ new \in Run /\ new.marker = run[r].marker /\ new.at = run[r].at /\ new.phase = phase
    <3>1. Delivered(r) \in Run /\ phase \in Phases
      BY <1>1, <1>3, <2>3
    <3>2. new \in Run
      BY <2>1, <2>4, <3>1 DEF Run
    <3>3. new.marker = Delivered(r).marker /\ new.at = Delivered(r).at /\ new.phase = phase
      BY <3>1 DEF Run
    <3> QED
      BY <1>1, <3>2, <3>3
  <2> HIDE DEF new
  <2>6. run' \in [Runs -> Run] /\ AtInv'
    BY <1>1, <2>2, <2>3, <2>5, OneRun
  <2>7. trusted' \in Changes
    BY <1>1, <2>2, ForgetType
  <2> QED
    BY <1>2, <2>1, <2>2, <2>6, <2>7 DEF TypeInv, TypeOK, WellRooted
<1> QED
  BY <1>4, <1>5, FinishCases

(* Steps that change the phase, the status and the integration of a run.   *)
Moved(u, phase, status, integ, unit) ==
  [run[u] EXCEPT !.phase = phase, !.status = status, !.integ = integ, !.unit = unit]

LEMMA MovedFacts ==
  ASSUME TypeOK, NEW u \in Runs, NEW phase, NEW status, NEW integ, NEW unit,
         NEW rec, rec = Moved(u, phase, status, integ, unit)
  PROVE  /\ rec.phase = phase /\ rec.status = status /\ rec.integ = integ /\ rec.unit = unit
         /\ rec.prev = run[u].prev /\ rec.marker = run[u].marker /\ rec.at = run[u].at
         /\ rec.resolved = run[u].resolved /\ rec.before = run[u].before
         /\ rec.delta = run[u].delta /\ rec.chain = run[u].chain
         /\ rec.commit = run[u].commit /\ rec.sha = run[u].sha /\ rec.line = run[u].line
<1>1. run[u] \in Run
  BY TypeFacts
<1> QED
  BY <1>1 DEF Moved, Run

LEMMA MovedType ==
  ASSUME TypeInv, NEW u \in Runs, NEW phase \in Phases, NEW unit \in Seq(Commit),
         NEW status \in {"none", "blocked", "success", "partial", "failed", "limited"},
         NEW integ \in {"none", "pending", "integrated", "conflict", "failed"},
         phase \in {"integrating", "picking", "copying", "removing"} => run[u].at # NoRun,
         run' = [run EXCEPT ![u] = Moved(u, phase, status, integ, unit)]
  PROVE  run' \in [Runs -> Run] /\ AtInv'
<1> DEFINE rec == Moved(u, phase, status, integ, unit)
<1>1. run[u] \in Run /\ run[u].marker \in {NoRun, run[u].at}
  BY TypeFacts DEF TypeInv, AtInv
<1>2. rec \in Run
  BY <1>1 DEF Moved, Run
<1>3. rec.phase = phase /\ rec.marker = run[u].marker /\ rec.at = run[u].at
  BY MovedFacts DEF TypeInv
<1> HIDE DEF rec
<1> QED
  BY <1>1, <1>2, <1>3, OneRun DEF rec

LEMMA FieldTypes ==
  ASSUME TypeOK, NEW u \in Runs
  PROVE  /\ run[u] \in Run /\ run \in [Runs -> Run]
         /\ run[u].status \in {"none", "blocked", "success", "partial", "failed", "limited"}
         /\ run[u].integ \in {"none", "pending", "integrated", "conflict", "failed"}
         /\ run[u].unit \in Seq(Commit)
<1>1. run[u] \in Run /\ run \in [Runs -> Run]
  BY DEF TypeOK
<1> QED
  BY <1>1 DEF Run

LEMMA PhaseMoves ==
  ASSUME TypeOK, NEW u \in Runs, NEW phase, run' = [run EXCEPT ![u].phase = phase]
  PROVE  run' = [run EXCEPT ![u] = Moved(u, phase, run[u].status, run[u].integ, run[u].unit)]
<1>1. [run[u] EXCEPT !.phase = phase] = Moved(u, phase, run[u].status, run[u].integ, run[u].unit)
  BY FieldTypes DEF Moved, Run
<1> QED
  BY <1>1, FieldTypes

LEMMA StatusMoves ==
  ASSUME TypeOK, NEW u \in Runs, NEW phase, NEW status,
         run' = [run EXCEPT ![u].phase = phase, ![u].status = status]
  PROVE  run' = [run EXCEPT ![u] = Moved(u, phase, status, run[u].integ, run[u].unit)]
<1>1. [run[u] EXCEPT !.phase = phase, !.status = status]
        = Moved(u, phase, status, run[u].integ, run[u].unit)
  BY FieldTypes DEF Moved, Run
<1> QED
  BY <1>1, FieldTypes

LEMMA IntegMoves ==
  ASSUME TypeOK, NEW u \in Runs, NEW phase, NEW integ, Integrated(u, integ, phase)
  PROVE  run' = [run EXCEPT ![u] = Moved(u, phase, run[u].status, integ, run[u].unit)]
<1>1. [run[u] EXCEPT !.integ = integ, !.phase = phase]
        = Moved(u, phase, run[u].status, integ, run[u].unit)
  BY FieldTypes DEF Moved, Run
<1> QED
  BY <1>1, FieldTypes DEF Integrated

LEMMA UnitMoves ==
  ASSUME TypeOK, NEW u \in Runs, NEW unit,
         run' = [run EXCEPT ![u].integ = "integrated", ![u].phase = "cleanup", ![u].unit = unit]
  PROVE  run' = [run EXCEPT ![u] = Moved(u, "cleanup", run[u].status, "integrated", unit)]
<1>1. [run[u] EXCEPT !.integ = "integrated", !.phase = "cleanup", !.unit = unit]
        = Moved(u, "cleanup", run[u].status, "integrated", unit)
  BY FieldTypes DEF Moved, Run
<1> QED
  BY <1>1, FieldTypes

(* What _mark_resolved_worktree does to each run.                          *)
LEMMA ResolvedFacts ==
  ASSUME TypeOK, NEW w \in Runs, NEW u \in Runs, NEW phase \in Phases,
         NEW marker \in {"INTEGRATED", "ADOPTED", "DISCARDED"},
         NEW integ \in {"integrated", "failed"}, MarkResolved(w, u, marker, integ, phase),
         NEW v \in Runs, NEW rec, rec = run'[v]
  PROVE  /\ rec \in Run
         /\ rec.phase = (IF v = u THEN phase ELSE run[v].phase)
         /\ rec.marker = (IF run[v].marker = w THEN NoRun ELSE run[v].marker)
         /\ rec.at = (IF v = u \/ (run[v].marker = w /\ run[v].phase = "done")
                      THEN NoRun ELSE run[v].at)
         /\ rec.integ = (IF run[v].marker = w /\ (v = u \/ Finalized(v))
                         THEN integ ELSE run[v].integ)
         /\ rec.resolved = (IF run[v].marker = w THEN marker ELSE run[v].resolved)
         /\ rec.prev = run[v].prev /\ rec.before = run[v].before
         /\ rec.delta = run[v].delta /\ rec.chain = run[v].chain /\ rec.status = run[v].status
         /\ rec.commit = run[v].commit /\ rec.sha = run[v].sha /\ rec.unit = run[v].unit
         /\ rec.line = run[v].line
<1> DEFINE at == IF run[v].phase = "done" THEN NoRun ELSE run[v].at
           ig == IF v = u \/ Finalized(v) THEN integ ELSE run[v].integ
           res == IF run[v].marker # w THEN run[v]
                  ELSE [run[v] EXCEPT !.marker = NoRun, !.resolved = marker, !.at = at, !.integ = ig]
           new == IF v = u THEN [res EXCEPT !.at = NoRun, !.phase = phase] ELSE res
<1>1. run[v] \in Run
  BY TypeFacts
<1>2. rec = new
  BY <1>1 DEF MarkResolved, Run
<1>3. /\ at \in Runs \cup {NoRun} /\ ig \in {"none", "pending", "integrated", "conflict", "failed"}
  BY <1>1 DEF Run
<1> HIDE DEF at, ig
<1>4. /\ res \in Run
      /\ run[v].marker = w =>
           /\ res.marker = NoRun /\ res.resolved = marker /\ res.at = at /\ res.integ = ig
           /\ res.phase = run[v].phase
           /\ res.prev = run[v].prev /\ res.before = run[v].before
           /\ res.delta = run[v].delta /\ res.chain = run[v].chain /\ res.status = run[v].status
           /\ res.commit = run[v].commit /\ res.sha = run[v].sha /\ res.unit = run[v].unit
           /\ res.line = run[v].line
      /\ run[v].marker # w => res = run[v]
  <2>1. CASE run[v].marker # w
    BY <1>1, <2>1
  <2>2. CASE run[v].marker = w
    BY <1>1, <1>3, <2>2 DEF Run
  <2> QED
    BY <2>1, <2>2
<1> HIDE DEF res
<1>5. /\ new \in Run
      /\ new.phase = (IF v = u THEN phase ELSE res.phase)
      /\ new.at = (IF v = u THEN NoRun ELSE res.at)
      /\ new.marker = res.marker /\ new.resolved = res.resolved /\ new.integ = res.integ
      /\ new.prev = res.prev /\ new.before = res.before
      /\ new.delta = res.delta /\ new.chain = res.chain /\ new.status = res.status
      /\ new.commit = res.commit /\ new.sha = res.sha /\ new.unit = res.unit
      /\ new.line = res.line
  <2>1. CASE v = u
    BY <1>4, <2>1 DEF Run
  <2>2. CASE v # u
    BY <1>4, <2>2
  <2> QED
    BY <2>1, <2>2
<1> HIDE DEF new
<1>6. CASE run[v].marker = w
  BY <1>2, <1>4, <1>5, <1>6 DEF at, ig
<1>7. CASE run[v].marker # w
  BY <1>2, <1>4, <1>5, <1>7
<1> QED
  BY <1>6, <1>7

LEMMA ResolvedType ==
  ASSUME TypeInv, NEW w \in Runs, NEW u \in Runs, NEW phase \in {"saving", "done"},
         NEW marker \in {"INTEGRATED", "ADOPTED", "DISCARDED"}, run[u].marker \in {w, NoRun},
         NEW integ \in {"integrated", "failed"}, MarkResolved(w, u, marker, integ, phase)
  PROVE  run' \in [Runs -> Run] /\ AtInv'
<1>1. phase \in Phases
  BY DEF Phases
<1>2. \A v \in Runs :
        /\ run'[v] \in Run
        /\ run'[v].phase = (IF v = u THEN phase ELSE run[v].phase)
        /\ run'[v].marker = (IF run[v].marker = w THEN NoRun ELSE run[v].marker)
        /\ run'[v].at = (IF v = u \/ (run[v].marker = w /\ run[v].phase = "done")
                         THEN NoRun ELSE run[v].at)
  BY <1>1, ResolvedFacts DEF TypeInv
<1>3. run' = [v \in Runs |-> run'[v]]
  BY DEF MarkResolved
<1>4. run' \in [Runs -> Run]
  BY <1>2, <1>3
<1>5. AtInv'
  BY <1>2 DEF TypeInv, AtInv
<1> QED
  BY <1>4, <1>5

(* The root after a cherry-pick, and after one that is left in the middle. *)
LEMMA PickedRootFacts ==
  ASSUME TypeOK, NEW w \in Runs
  PROVE  /\ WellRooted(PickedRoot(w)) /\ PickedRoot(w).unfinished = root.unfinished
         /\ Units(w) = {} => PickedRoot(w) = root
         /\ Units(w) # {} =>
              /\ PickedRoot(w).branch = EnsureWorkBranch(root).branch
              /\ DOMAIN PickedRoot(w).heads = DOMAIN EnsureWorkBranch(root).heads
              /\ Head1(PickedRoot(w)) = Picked(w)
              /\ \A b \in DOMAIN EnsureWorkBranch(root).heads :
                   b # EnsureWorkBranch(root).branch =>
                     PickedRoot(w).heads[b] = EnsureWorkBranch(root).heads[b]
              /\ \A p \in Paths : PickedRoot(w).tree[p]
                   = IF p \in UnitPaths(w) THEN TreeOf(Picked(w))[p] ELSE root.tree[p]
<1> DEFINE rt == EnsureWorkBranch(root)
           log == Picked(w)
           tree == [p \in Paths |-> IF p \in UnitPaths(w) THEN TreeOf(log)[p] ELSE rt.tree[p]]
           rh == [rt EXCEPT !.heads[rt.branch] = log]
           new == [rh EXCEPT !.tree = tree]
<1>1. /\ WellRooted(root) /\ WellRooted(rt) /\ rt.tree = root.tree
      /\ rt.unfinished = root.unfinished
  BY TypeFacts, EnsureFacts
<1>2. log \in Seq(Commit) /\ TreeOf(log) \in Tree /\ root.tree \in Tree
  BY <1>1, TypeFacts, PickedFacts, Trees, RootFacts
<1>3. tree \in Tree /\ \A p \in Paths : tree[p]
        = IF p \in UnitPaths(w) THEN TreeOf(log)[p] ELSE root.tree[p]
  BY <1>1, <1>2 DEF Tree
<1>4. PickedRoot(w) = IF Units(w) = {} THEN root ELSE new
  BY <1>1 DEF PickedRoot, WellRooted, Root
<1> HIDE DEF rt, log, tree
<1>5. /\ WellRooted(rh) /\ rh.branch = rt.branch /\ rh.unfinished = rt.unfinished
      /\ DOMAIN rh.heads = DOMAIN rt.heads /\ Head1(rh) = log
      /\ \A b \in DOMAIN rt.heads : b # rt.branch => rh.heads[b] = rt.heads[b]
  BY <1>1, <1>2, NewHead
<1> HIDE DEF rh
<1>6. /\ WellRooted(new) /\ new.branch = rh.branch /\ new.heads = rh.heads
      /\ new.tree = tree /\ new.unfinished = rh.unfinished
  BY <1>3, <1>5, NewTreeOnly
<1> HIDE DEF new
<1>7. CASE Units(w) = {}
  BY <1>1, <1>4, <1>7
<1>8. CASE Units(w) # {}
  BY <1>1, <1>3, <1>4, <1>5, <1>6, <1>8 DEF Head1, rt, log
<1> QED
  BY <1>7, <1>8

LEMMA StuckRootFacts ==
  ASSUME TypeOK, NEW w \in Runs
  PROVE  /\ WellRooted(StuckRoot(w)) /\ StuckRoot(w).unfinished = TRUE
         /\ StuckRoot(w).branch = EnsureWorkBranch(root).branch
         /\ StuckRoot(w).heads = EnsureWorkBranch(root).heads
         /\ \A p \in Paths : StuckRoot(w).tree[p]
              = IF p \in UnitPaths(w) THEN "mixed" ELSE root.tree[p]
<1> DEFINE rt == EnsureWorkBranch(root)
           tree == [p \in Paths |-> IF p \in UnitPaths(w) THEN "mixed" ELSE rt.tree[p]]
           new == [rt EXCEPT !.tree = tree, !.unfinished = TRUE]
<1>1. /\ WellRooted(root) /\ WellRooted(rt) /\ rt.tree = root.tree /\ root.tree \in Tree
  BY TypeFacts, EnsureFacts, RootFacts
<1>2. tree \in Tree /\ \A p \in Paths : tree[p] = IF p \in UnitPaths(w) THEN "mixed" ELSE root.tree[p]
  BY <1>1, Names DEF Tree
<1>3. StuckRoot(w) = new
  BY <1>1 DEF StuckRoot, WellRooted, Root
<1> HIDE DEF rt, tree
<1>4. /\ WellRooted(new) /\ new.branch = rt.branch /\ new.heads = rt.heads
      /\ new.tree = tree /\ new.unfinished = TRUE
  BY <1>1, <1>2 DEF WellRooted, Root
<1> HIDE DEF new
<1> QED
  BY <1>2, <1>3, <1>4 DEF rt

LEMMA AcquireRootType ==
  ASSUME TypeInv, NEW u \in Runs, AcquireRoot(u)
  PROVE  TypeInv'
<1>1. \E phase \in {"saving", "picking"},
         integ \in {"none", "pending", "integrated", "conflict", "failed"} : Integrated(u, integ, phase)
  BY FieldTypes DEF AcquireRoot, TypeInv
<1>2. PICK phase \in {"saving", "picking"},
           integ \in {"none", "pending", "integrated", "conflict", "failed"} : Integrated(u, integ, phase)
  BY <1>1
<1>3. run' = [run EXCEPT ![u] = Moved(u, phase, run[u].status, integ, run[u].unit)]
  BY <1>2, IntegMoves DEF TypeInv
<1>4. phase \in Phases /\ run[u].at # NoRun
  BY DEF Phases, AcquireRoot, TypeInv, AtInv
<1>5. run' \in [Runs -> Run] /\ AtInv'
  BY <1>3, <1>4, FieldTypes, MovedType DEF TypeInv
<1>6. UNCHANGED <<policy, auto, root, trusted, wt, cmd, edits, faults>> /\ lock' \in {lock, u}
  BY DEF AcquireRoot
<1> QED
  BY <1>5, <1>6 DEF TypeInv, TypeOK

(* The ways in which a pick ends.                                          *)
LEMMA PickCases ==
  ASSUME NEW u \in Runs, Pick(u), NEW w, w = run[u].at
  PROVE  /\ run[u].phase = "picking" /\ Release(u)
         /\ UNCHANGED <<policy, auto, trusted, wt, cmd, edits>>
         /\ \/ /\ ~PickRefused(u) /\ ~Stuck(w) /\ root' = PickedRoot(w) /\ UNCHANGED faults
               /\ run' = [run EXCEPT ![u].integ = "integrated", ![u].phase = "cleanup",
                                     ![u].unit = wt[w].log]
            \/ /\ \E result \in {"failed", "conflict", run[u].integ} :
                     Integrated(u, result, "saving")
               /\ UNCHANGED faults \/ Fault
               /\ root' = root \/ (~PickRefused(u) /\ root' = StuckRoot(w))
BY DEF Pick

LEMMA PickType ==
  ASSUME TypeInv, NEW u \in Runs, Pick(u)
  PROVE  TypeInv'
<1> DEFINE w == run[u].at
<1>1. w \in Runs
  <2>1. run[u] \in Run /\ w # NoRun
    BY TypeFacts DEF Pick, TypeInv, AtInv
  <2> QED
    BY <2>1 DEF Run
<1>2. /\ lock' \in Runs \cup {Free} /\ UNCHANGED <<policy, auto, trusted, wt, cmd, edits>>
      /\ faults' \in 0..MaxFaults
  BY WorktreesAssumption DEF Pick, Release, Fault, TypeInv, TypeOK
<1>3. {"cleanup", "saving"} \subseteq Phases /\ wt[w].log \in Seq(Commit)
  BY <1>1, TypeFacts, WtFacts DEF Phases, TypeInv
<1>4. run' \in [Runs -> Run] /\ AtInv'
  <2>1. CASE run' = [run EXCEPT ![u].integ = "integrated", ![u].phase = "cleanup",
                                ![u].unit = wt[w].log]
    <3>1. run' = [run EXCEPT ![u] = Moved(u, "cleanup", run[u].status, "integrated", wt[w].log)]
      BY <2>1, UnitMoves DEF TypeInv
    <3>2. /\ "cleanup" \in Phases /\ "cleanup" \notin {"integrating", "picking", "copying", "removing"}
          /\ "integrated" \in {"none", "pending", "integrated", "conflict", "failed"}
          /\ run[u].status \in {"none", "blocked", "success", "partial", "failed", "limited"}
      BY FieldTypes DEF TypeInv, Phases
    <3> QED
      BY <1>3, <3>1, <3>2, MovedType
  <2>2. ASSUME NEW result \in {"failed", "conflict", run[u].integ},
             Integrated(u, result, "saving")
        PROVE  run' \in [Runs -> Run] /\ AtInv'
    <3>1. run' = [run EXCEPT ![u] = Moved(u, "saving", run[u].status, result, run[u].unit)]
      BY <2>2, IntegMoves DEF TypeInv
    <3>2. result \in {"none", "pending", "integrated", "conflict", "failed"}
      BY FieldTypes DEF TypeInv
    <3> QED
      BY <1>3, <3>1, <3>2, FieldTypes, MovedType DEF TypeInv
  <2> QED
    BY <2>1, <2>2, PickCases
<1>5. WellRooted(root')
  <2>1. root' = root \/ root' = PickedRoot(w) \/ root' = StuckRoot(w)
    BY PickCases
  <2> QED
    BY <1>1, <2>1, TypeFacts, PickedRootFacts, StuckRootFacts DEF TypeInv
<1> QED
  BY <1>2, <1>4, <1>5 DEF TypeInv, TypeOK, WellRooted

LEMMA NewWtThere ==
  ASSUME WtWell, NEW w \in Runs, wt' = [wt EXCEPT ![w].there = FALSE]
  PROVE  /\ wt' \in [Runs -> Worktree] /\ \A v \in Runs : wt'[v].base <= Len(wt'[v].log)
         /\ ~wt'[w].there /\ \A v \in Runs \ {w} : wt'[v] = wt[v]
         /\ \A v \in Runs : wt'[v].log = wt[v].log /\ wt'[v].tree = wt[v].tree /\ wt'[v].base = wt[v].base
<1>1. wt' \in [Runs -> Worktree]
  BY DEF WtWell, Worktree
<1>2. /\ wt'[w].tree = wt[w].tree /\ wt'[w].log = wt[w].log /\ ~wt'[w].there
      /\ wt'[w].base = wt[w].base
  BY DEF WtWell, Worktree
<1>3. \A v \in Runs \ {w} : wt'[v] = wt[v]
  BY DEF WtWell
<1>4. \A v \in Runs : wt'[v].log = wt[v].log /\ wt'[v].tree = wt[v].tree /\ wt'[v].base = wt[v].base
  BY <1>2, <1>3
<1>5. \A v \in Runs : wt'[v].base <= Len(wt'[v].log)
  BY <1>4 DEF WtWell
<1> QED
  BY <1>1, <1>2, <1>3, <1>4, <1>5

LEMMA CleanupType ==
  ASSUME TypeInv, NEW u \in Runs, Cleanup(u)
  PROVE  TypeInv'
<1> DEFINE w == run[u].marker
<1>1. /\ UNCHANGED <<policy, auto, root, lock, trusted, cmd, edits, faults>>
      /\ run[u] \in Run /\ "saving" \in Phases /\ WtWell
  BY TypeFacts DEF Cleanup, TypeInv, Phases
<1>2. CASE w # NoRun /\ CleanupAllowed(u)
  <2>1. w \in Runs
    BY <1>1, <1>2 DEF Run
  <2>2. /\ wt' = [wt EXCEPT ![w].there = FALSE]
        /\ MarkResolved(w, u, "INTEGRATED", "integrated", "saving")
    BY <1>2 DEF Cleanup
  <2>3. run' \in [Runs -> Run] /\ AtInv'
    BY <2>1, <2>2, ResolvedType
  <2> QED
    BY <1>1, <2>1, <2>2, <2>3, NewWtThere DEF TypeInv, TypeOK
<1>3. CASE ~(w # NoRun /\ CleanupAllowed(u))
  <2> DEFINE status == IF cmd.run = u THEN run[u].status ELSE "partial"
  <2>1. /\ run' = [run EXCEPT ![u].phase = "saving", ![u].status = status] /\ UNCHANGED wt
    BY <1>1, <1>3 DEF Cleanup, TypeInv, TypeOK, Run
  <2>2. status \in {"none", "blocked", "success", "partial", "failed", "limited"}
    BY <1>1 DEF Run
  <2> HIDE DEF status
  <2>3. run' = [run EXCEPT ![u] = Moved(u, "saving", status, run[u].integ, run[u].unit)]
    BY <2>1, StatusMoves DEF TypeInv
  <2>4. run' \in [Runs -> Run] /\ AtInv'
    BY <1>1, <2>2, <2>3, FieldTypes, MovedType DEF TypeInv
  <2> QED
    BY <1>1, <2>1, <2>4 DEF TypeInv, TypeOK
<1> QED
  BY <1>2, <1>3

LEMMA PhaseType ==
  ASSUME TypeInv, NEW u \in Runs, NEW phase \in Phases,
         phase \in {"integrating", "picking", "copying", "removing"} => run[u].at # NoRun,
         run' = [run EXCEPT ![u].phase = phase]
  PROVE  run' \in [Runs -> Run] /\ AtInv'
<1>1. run' = [run EXCEPT ![u] = Moved(u, phase, run[u].status, run[u].integ, run[u].unit)]
  BY PhaseMoves DEF TypeInv
<1>2. /\ run[u].status \in {"none", "blocked", "success", "partial", "failed", "limited"}
      /\ run[u].integ \in {"none", "pending", "integrated", "conflict", "failed"}
      /\ run[u].unit \in Seq(Commit)
  BY FieldTypes DEF TypeInv
<1> DEFINE rec == Moved(u, phase, run[u].status, run[u].integ, run[u].unit)
<1>3. run[u] \in Run /\ run[u].marker \in {NoRun, run[u].at}
  BY TypeFacts DEF TypeInv, AtInv
<1>4. rec \in Run
  BY <1>2, <1>3 DEF Moved, Run
<1>5. rec.phase = phase /\ rec.marker = run[u].marker /\ rec.at = run[u].at
  BY MovedFacts DEF TypeInv
<1> HIDE DEF rec
<1> QED
  BY <1>1, <1>3, <1>4, <1>5, OneRun DEF rec

LEMMA SaveType ==
  ASSUME TypeInv, NEW u \in Runs, Save(u)
  PROVE  TypeInv'
<1> DEFINE status == IF cmd.run # u /\ auto /\ run[u].status = "success"
                        /\ run[u].integ \in {"pending", "conflict", "failed"}
                     THEN "partial" ELSE run[u].status
<1>1. /\ run' = [run EXCEPT ![u].phase = "done", ![u].status = status]
      /\ cmd' = IF cmd.run = u THEN NoCommand ELSE cmd
      /\ lock' \in {lock, Free}
      /\ UNCHANGED <<policy, auto, root, trusted, wt, edits, faults>>
  BY FieldTypes DEF Save, Release, TypeInv, Run
<1>2. status \in {"none", "blocked", "success", "partial", "failed", "limited"} /\ "done" \in Phases
  BY FieldTypes DEF TypeInv, Phases
<1> HIDE DEF status
<1>3. run' = [run EXCEPT ![u] = Moved(u, "done", status, run[u].integ, run[u].unit)]
  BY <1>1, StatusMoves DEF TypeInv
<1>4. run' \in [Runs -> Run] /\ AtInv'
  BY <1>2, <1>3, FieldTypes, MovedType DEF TypeInv
<1>5. cmd' \in [op : {"none", "adopt", "discard", "commit"}, run : Runs \cup {NoRun},
              todo : SUBSET Paths, files : Changes, before : Changes]
  BY <1>1, NoChangesType DEF NoCommand, TypeInv, TypeOK
<1> QED
  BY <1>1, <1>4, <1>5 DEF TypeInv, TypeOK

Commands == [op : {"none", "adopt", "discard", "commit"}, run : Runs \cup {NoRun},
             todo : SUBSET Paths, files : Changes, before : Changes]

LEMMA NoCommandFacts ==
  /\ NoCommand \in Commands /\ NoCommand.op = "none" /\ NoCommand.run = NoRun
  /\ NoCommand.todo = {} /\ NoCommand.files = NoChanges /\ NoCommand.before = NoChanges
BY NoChangesType DEF NoCommand, Commands

LEMMA CommandFacts ==
  ASSUME NEW op \in {"adopt", "discard", "commit"}, NEW u \in Runs,
         cmd' = [NoCommand EXCEPT !.op = op, !.run = u], NEW c, c = cmd'
  PROVE  /\ c \in Commands /\ c.op = op /\ c.run = u /\ c.todo = {}
         /\ c.files = NoChanges /\ c.before = NoChanges
BY NoCommandFacts DEF Commands

LEMMA MayResolveFacts ==
  ASSUME TypeInv, NEW u \in Runs, MayResolve(u)
  PROVE  /\ cmd = NoCommand /\ run[u].phase = "done"
         /\ run[u].marker \in Runs /\ run[u].at = run[u].marker
<1>1. run[u] \in Run /\ run[u].marker # NoRun /\ run[u].marker \in {NoRun, run[u].at}
  BY TypeFacts DEF TypeInv, AtInv, MayResolve
<1> QED
  BY <1>1 DEF MayResolve, Run

LEMMA CommandType ==
  ASSUME TypeInv, NEW u \in Runs, MayResolve(u), NEW op \in {"adopt", "discard", "commit"},
         NEW phase \in {"cleanup", "integrating", "removing"}, Command(op, u, phase),
         UNCHANGED <<policy, auto, root, lock, trusted, wt, edits, faults>>
  PROVE  TypeInv'
<1>1. phase \in Phases /\ run[u].at # NoRun
  BY MayResolveFacts, Names DEF Phases
<1>2. run' \in [Runs -> Run] /\ AtInv'
  BY <1>1, PhaseType DEF Command
<1>3. cmd' = [NoCommand EXCEPT !.op = op, !.run = u]
  BY DEF Command
<1>4. cmd' \in Commands
  BY <1>3, CommandFacts
<1> QED
  BY <1>2, <1>4 DEF TypeInv, TypeOK, Commands

LEMMA AdoptFilesType ==
  ASSUME TypeInv, NEW u \in Runs, AdoptFiles(u)
  PROVE  TypeInv'
<1> DEFINE w == run[u].marker
           todo == {p \in DOMAIN WtDetails(w) : root.tree[p] # wt[w].tree[p]}
           c == [NoCommand EXCEPT !.op = "adopt", !.run = u, !.before = root.tree, !.todo = todo]
<1>1. w \in Runs /\ run[u].at = w /\ "copying" \in Phases
  BY MayResolveFacts DEF AdoptFiles, Phases
<1>2. /\ run' = [run EXCEPT ![u].phase = "copying"] /\ lock' = u /\ cmd' = c
      /\ UNCHANGED <<policy, auto, root, trusted, wt, edits, faults>>
  BY DEF AdoptFiles
<1>3. run' \in [Runs -> Run] /\ AtInv'
  BY <1>1, <1>2, Names, PhaseType
<1>4. root.tree \in Changes /\ todo \in SUBSET Paths
  <2>1. root.tree \in [Paths -> Content] /\ WtDetails(w) \in Changes
    BY <1>1, TypeFacts, RootFacts DEF TypeInv, Tree
  <2> QED
    BY <2>1, ChangesIntro, ChangesElim
<1> HIDE DEF todo
<1>5. c \in Commands
  BY <1>4, NoCommandFacts DEF Commands
<1> HIDE DEF c
<1> QED
  BY <1>2, <1>3, <1>5 DEF TypeInv, TypeOK, Commands

Copied(u, p) ==
  [cmd EXCEPT !.todo = @ \ {p}, !.files = [q \in DOMAIN @ \cup {p} |-> wt[run[u].at].tree[q]]]

LEMMA CopiedFacts ==
  ASSUME TypeInv, NEW u \in Runs, run[u].at \in Runs, NEW p \in Paths, NEW c, c = Copied(u, p)
  PROVE  /\ c \in Commands /\ c.op = cmd.op /\ c.run = cmd.run /\ c.before = cmd.before
         /\ c.todo = cmd.todo \ {p} /\ DOMAIN c.files = DOMAIN cmd.files \cup {p}
         /\ \A q \in DOMAIN c.files : c.files[q] = wt[run[u].at].tree[q]
<1> DEFINE S == DOMAIN cmd.files \cup {p}
           files == [q \in S |-> wt[run[u].at].tree[q]]
           todo == cmd.todo \ {p}
<1>1. cmd \in Commands /\ wt[run[u].at].tree \in Tree
  BY TypeFacts, WtFacts DEF TypeInv, TypeOK, Commands
<1>2. S \in SUBSET Paths /\ todo \in SUBSET Paths
  BY <1>1, ChangesElim DEF Commands
<1>3. files \in [S -> Content]
  BY <1>1, <1>2 DEF Tree
<1>4. DOMAIN files = S /\ \A q \in S : files[q] = wt[run[u].at].tree[q]
  OBVIOUS
<1>5. files \in Changes
  BY <1>2, <1>3, ChangesIntro
<1>6. c = [cmd EXCEPT !.todo = todo, !.files = files]
  BY <1>1 DEF Copied, Commands
<1> HIDE DEF files, todo
<1>7. /\ c \in Commands /\ c.op = cmd.op /\ c.run = cmd.run /\ c.before = cmd.before
      /\ c.todo = todo /\ c.files = files
  BY <1>1, <1>2, <1>5, <1>6 DEF Commands
<1> QED
  BY <1>4, <1>7 DEF todo, S

LEMMA CopyFileType ==
  ASSUME TypeInv, NEW u \in Runs, NEW p \in Paths, CopyFile(u, p)
  PROVE  TypeInv' /\ run[u].at \in Runs
<1>1. run[u].at \in Runs
  <2>1. run[u] \in Run /\ run[u].at # NoRun
    BY TypeFacts DEF CopyFile, TypeInv, AtInv
  <2> QED
    BY <2>1 DEF Run
<1>2. /\ cmd' = Copied(u, p) /\ root' = [root EXCEPT !.tree[p] = wt[run[u].at].tree[p]]
      /\ UNCHANGED <<policy, auto, lock, trusted, wt, run, edits, faults>>
  BY DEF CopyFile, Copied
<1>3. cmd' \in Commands
  BY <1>1, <1>2, CopiedFacts
<1>4. WellRooted(root')
  <2> DEFINE tree == [root.tree EXCEPT ![p] = wt[run[u].at].tree[p]]
  <2>1. WellRooted(root) /\ root' = [root EXCEPT !.tree = tree]
    BY <1>2, TypeFacts DEF TypeInv, WellRooted, Root
  <2>2. tree \in Tree
    BY <1>1, TypeFacts, WtFacts, RootFacts DEF TypeInv, Tree
  <2> HIDE DEF tree
  <2> QED
    BY <2>1, <2>2, NewTreeOnly
<1> QED
  BY <1>1, <1>2, <1>3, <1>4 DEF TypeInv, TypeOK, WellRooted, Commands, AtInv

(* A step of a command that only moves its run and ends or keeps it.       *)
LEMMA CommandMoveType ==
  ASSUME TypeInv, NEW u \in Runs, NEW phase \in {"done", "dead", "removing"},
         phase = "removing" => run[u].at # NoRun,
         run' = [run EXCEPT ![u].phase = phase],
         lock' \in {lock, Free}, cmd' \in {cmd, NoCommand}, trusted' \in Changes,
         WellRooted(root'), faults' \in 0..MaxFaults, UNCHANGED <<policy, auto, wt, edits>>
  PROVE  TypeInv'
<1>1. phase \in Phases
  BY DEF Phases
<1>2. run' \in [Runs -> Run] /\ AtInv'
  BY <1>1, PhaseType
<1>3. cmd' \in Commands
  BY NoCommandFacts DEF TypeInv, TypeOK, Commands
<1> QED
  BY <1>2, <1>3 DEF TypeInv, TypeOK, WellRooted, Commands

LEMMA RecordAdoptedType ==
  ASSUME TypeInv, NEW u \in Runs, RecordAdopted(u)
  PROVE  TypeInv'
<1>1. cmd.files \in Changes /\ RootDetails \in Changes /\ trusted \in Changes
  BY TypeFacts DEF TypeInv, TypeOK
<1>2. trusted' \in Changes
  BY <1>1, RecordDelegatedType DEF RecordAdopted
<1>3. run[u].at # NoRun /\ lock' \in {lock, Free} /\ WellRooted(root)
  BY TypeFacts DEF RecordAdopted, Release, TypeInv, AtInv
<1> QED
  BY <1>2, <1>3, CommandMoveType DEF RecordAdopted, TypeInv, TypeOK

(* What undoing an interrupted copy leaves.                                *)
PutBack == [p \in Paths |-> IF p \in DOMAIN cmd.files THEN cmd.before[p] ELSE root.tree[p]]

LEMMA AdoptFailsType ==
  ASSUME TypeInv, NEW u \in Runs, AdoptFails(u), DOMAIN cmd.files \subseteq DOMAIN cmd.before
  PROVE  TypeInv' /\ root'.tree = PutBack /\ root'.heads = root.heads /\ root'.branch = root.branch
<1>1. WellRooted(root) /\ root.tree \in Tree /\ cmd.before \in Changes
  BY TypeFacts, RootFacts DEF TypeInv, TypeOK
<1>2. PutBack \in Tree
  BY <1>1, ChangesElim DEF PutBack, Tree
<1>3. root' = [root EXCEPT !.tree = PutBack]
  BY DEF AdoptFails, PutBack
<1>4. /\ WellRooted(root') /\ root'.tree = PutBack /\ root'.heads = root.heads
      /\ root'.branch = root.branch
  BY <1>1, <1>2, <1>3, NewTreeOnly
<1>5. faults' \in 0..MaxFaults /\ lock' \in {lock, Free} /\ trusted' \in Changes
  BY WorktreesAssumption DEF AdoptFails, Fault, Release, TypeInv, TypeOK
<1> QED
  BY <1>4, <1>5, CommandMoveType DEF AdoptFails

LEMMA RemoveWorktreeType ==
  ASSUME TypeInv, NEW u \in Runs, RemoveWorktree(u), NEW w, w = run[u].at
  PROVE  /\ TypeInv' /\ w \in Runs /\ wt' = [wt EXCEPT ![w].there = FALSE]
         /\ \/ MarkResolved(w, u, "ADOPTED", "integrated", "done")
            \/ MarkResolved(w, u, "DISCARDED", "failed", "done")
<1>1. run[u] \in Run /\ w # NoRun /\ run[u].marker \in {NoRun, w} /\ WtWell
  BY TypeFacts DEF RemoveWorktree, TypeInv, AtInv
<1>2. w \in Runs
  BY <1>1 DEF Run
<1>3. /\ wt' = [wt EXCEPT ![w].there = FALSE] /\ cmd' = NoCommand
      /\ \/ MarkResolved(w, u, "ADOPTED", "integrated", "done")
         \/ MarkResolved(w, u, "DISCARDED", "failed", "done")
      /\ UNCHANGED <<policy, auto, root, lock, trusted, edits, faults>>
  BY DEF RemoveWorktree
<1>4. run' \in [Runs -> Run] /\ AtInv'
  BY <1>1, <1>2, <1>3, ResolvedType
<1>5. cmd' \in Commands
  BY <1>3, NoCommandFacts
<1> QED
  BY <1>1, <1>2, <1>3, <1>4, <1>5, NewWtThere DEF TypeInv, TypeOK, Commands

(* commit, for a run that was left partial.                                *)
CommitRoot(u) == IF Isolated(u) THEN root ELSE EnsureWorkBranch(root)

CommittedAs(u, res) ==
  /\ root' = res.root /\ wt' = res.wt
  /\ trusted' = IF Isolated(u) THEN trusted ELSE Forget(trusted, res.paths)
  /\ run' = [run EXCEPT ![u].commit = res.commit, ![u].sha = res.sha,
       ![u].phase = IF Isolated(u) /\ res.commit = "committed" THEN "integrating" ELSE "saving"]

LEMMA CommitPartialCases ==
  ASSUME NEW u, CommitPartial(u)
  PROVE  /\ cmd = NoCommand /\ run[u].phase = "done" /\ run[u].status = "partial"
         /\ run[u].commit \in {"skipped", "failed"} /\ run[u].resolved # "DISCARDED"
         /\ IF Isolated(u) THEN MayResolve(u) /\ wt[run[u].marker].there ELSE lock = Free
         /\ ~root.unfinished /\ MatchesRecord(u, DetailsAt(u))
         /\ \E ok \in BOOLEAN :
              CommittedAs(u, AutoCommitted(u, run[u], DetailsAt(u), CommitRoot(u), ok))
         /\ cmd' = [NoCommand EXCEPT !.op = "commit", !.run = u]
         /\ UNCHANGED <<policy, auto, lock, edits, faults>>
BY DEF CommitPartial, CommittedAs, CommitRoot

LEMMA CommitPartialType ==
  ASSUME TypeInv, NEW u \in Runs, CommitPartial(u)
  PROVE  TypeInv'
<1>1. /\ run[u] \in Run /\ WellRooted(CommitRoot(u)) /\ WtWell /\ trusted \in Changes
      /\ run[u].marker \in {NoRun, run[u].at}
      /\ {"saving", "integrating"} \subseteq Phases
  BY TypeFacts, EnsureFacts DEF TypeInv, AtInv, CommitRoot, Phases
<1>2. ASSUME NEW ok \in BOOLEAN, NEW res,
             res = AutoCommitted(u, run[u], DetailsAt(u), CommitRoot(u), ok), CommittedAs(u, res)
      PROVE  TypeInv'
  <2> DEFINE phase == IF Isolated(u) /\ res.commit = "committed" THEN "integrating" ELSE "saving"
             new == [run[u] EXCEPT !.commit = res.commit, !.sha = res.sha, !.phase = phase]
  <2>1. /\ res.commit \in {"skipped", "failed", "committed"}
        /\ WellRooted(res.root) /\ res.sha \in Seq(Commit)
        /\ res.wt \in [Runs -> Worktree] /\ \A w \in Runs : res.wt[w].base <= Len(res.wt[w].log)
    BY <1>1, <1>2, AutoCommitCases, AutoCommitType
  <2>2. /\ run' = [run EXCEPT ![u] = new] /\ root' = res.root /\ wt' = res.wt
        /\ trusted' = IF Isolated(u) THEN trusted ELSE Forget(trusted, res.paths)
    BY <1>1, <1>2 DEF CommittedAs, Run
  <2>3. phase \in {"saving", "integrating"} /\ (phase = "integrating" => run[u].at # NoRun)
    BY DEF Isolated
  <2> HIDE DEF phase
  <2>4. phase \in Phases
    BY <1>1, <2>3
  <2>5. new \in Run /\ new.marker = run[u].marker /\ new.at = run[u].at /\ new.phase = phase
    BY <1>1, <2>1, <2>4 DEF Run
  <2> HIDE DEF new
  <2>6. run' \in [Runs -> Run] /\ AtInv'
    BY <1>1, <2>2, <2>3, <2>5, OneRun
  <2>7. trusted' \in Changes
    BY <1>1, <2>2, ForgetType
  <2>8. cmd' \in Commands
    <3>1. cmd' = [NoCommand EXCEPT !.op = "commit", !.run = u]
      BY CommitPartialCases
    <3> QED
      BY <3>1, CommandFacts
  <2>9. UNCHANGED <<policy, auto, lock, edits, faults>>
    BY CommitPartialCases
  <2> QED
    BY <2>1, <2>2, <2>6, <2>7, <2>8, <2>9 DEF TypeInv, TypeOK, WellRooted, Commands
<1> QED
  BY <1>2, CommitPartialCases

LEMMA CrashCases ==
  ASSUME NEW u, Crash(u), NEW w, w = run[u].at
  PROVE  /\ run[u].phase \notin {"new", "done", "dead"} /\ Fault /\ Release(u)
         /\ run' = [run EXCEPT ![u].phase = IF cmd.run = u THEN "done" ELSE "dead"]
         /\ cmd' = IF cmd.run = u THEN NoCommand ELSE cmd
         /\ \/ root' = root
            \/ /\ run[u].phase = "picking" /\ ~PickRefused(u) /\ Units(w) # {}
               /\ root' = StuckRoot(w) \/ (root' = PickedRoot(w) /\ ~Stuck(w))
         /\ UNCHANGED <<policy, auto, trusted, wt, edits>>
BY DEF Crash

LEMMA CrashType ==
  ASSUME TypeInv, NEW u \in Runs, Crash(u)
  PROVE  TypeInv'
<1> DEFINE w == run[u].at
           phase == IF cmd.run = u THEN "done" ELSE "dead"
<1>1. /\ Fault /\ Release(u) /\ run' = [run EXCEPT ![u].phase = phase]
      /\ cmd' \in {cmd, NoCommand} /\ UNCHANGED <<policy, auto, trusted, wt, edits>>
      /\ phase \in {"done", "dead"}
  BY CrashCases
<1> HIDE DEF phase
<1>2. faults' \in 0..MaxFaults /\ lock' \in {lock, Free} /\ trusted' \in Changes
  BY <1>1, WorktreesAssumption DEF Fault, Release, TypeInv, TypeOK
<1>3. WellRooted(root')
  <2>1. CASE root' = root
    BY <2>1, TypeFacts DEF TypeInv
  <2>2. CASE run[u].phase = "picking" /\ root' \in {StuckRoot(w), PickedRoot(w)}
    <3>1. w \in Runs
      <4>1. run[u] \in Run /\ w # NoRun
        BY <2>2, TypeFacts DEF TypeInv, AtInv
      <4> QED
        BY <4>1 DEF Run
    <3> QED
      BY <2>2, <3>1, StuckRootFacts, PickedRootFacts DEF TypeInv
  <2> QED
    BY <2>1, <2>2, CrashCases
<1> QED
  BY <1>1, <1>2, <1>3, CommandMoveType

LEMMA UserType ==
  ASSUME TypeInv, UserStep
  PROVE  TypeInv'
<1>1. /\ WellRooted(root) /\ root.tree \in Tree /\ WtWell /\ RootLog \in Seq(Commit)
      /\ edits + 1 \in 0..MaxEdits \/ ~(edits < MaxEdits)
  BY TypeFacts, RootFacts, WorktreesAssumption DEF TypeInv, TypeOK
<1>2. CASE \E p \in Paths : UserEdits(p)
  <2>1. PICK p \in Paths : UserEdits(p)
    BY <1>2
  <2> DEFINE tree == [root.tree EXCEPT ![p] = "user"]
  <2>2. root' = [root EXCEPT !.tree = tree]
    BY <1>1, <2>1 DEF UserEdits, UserActs, WellRooted, Root
  <2>3. tree \in Tree
    BY <1>1, Names DEF Tree
  <2> HIDE DEF tree
  <2>4. WellRooted(root')
    BY <1>1, <2>2, <2>3, NewTreeOnly
  <2> QED
    BY <1>1, <2>1, <2>4 DEF UserEdits, UserActs, TypeInv, TypeOK, AtInv, WellRooted
<1>3. CASE UserSwitches
  <2> DEFINE tree == TreeOf(root.heads[Protected])
  <2>1. Protected \in DOMAIN root.heads /\ root.heads[Protected] \in Seq(Commit)
    BY <1>1, RootFacts DEF Protected
  <2>2. tree \in Tree
    BY <2>1, Trees
  <2>3. root' = [root EXCEPT !.branch = Protected, !.tree = tree]
    BY <1>3 DEF UserSwitches, UserActs
  <2> HIDE DEF tree
  <2>4. Protected \in Nat \ {0}
    BY DEF Protected
  <2>5. root' \in Root /\ root'.branch = Protected /\ root'.heads = root.heads
    BY <1>1, <2>2, <2>3, <2>4 DEF WellRooted, Root
  <2>6. WellRooted(root')
    BY <2>1, <2>5 DEF WellRooted
  <2> QED
    BY <1>1, <1>3, <2>6 DEF UserSwitches, UserActs, TypeInv, TypeOK, AtInv, WellRooted
<1>4. CASE UserAborts
  <2> DEFINE tree == [p \in Paths |-> IF root.tree[p] = "mixed" THEN TreeOf(RootLog)[p]
                                                                ELSE root.tree[p]]
  <2>1. tree \in Tree
    BY <1>1, Trees DEF Tree
  <2>2. root' = [root EXCEPT !.tree = tree, !.unfinished = FALSE]
    BY <1>1, <1>4 DEF UserAborts, WellRooted, Root
  <2> HIDE DEF tree
  <2>3. WellRooted(root')
    BY <1>1, <2>1, <2>2, NewTree
  <2> QED
    BY <1>1, <1>4, <2>3 DEF UserAborts, TypeInv, TypeOK, AtInv, WellRooted
<1>5. CASE \E w \in Runs, p \in Paths : UserFixes(w, p)
  <2>1. PICK w \in Runs, p \in Paths : UserFixes(w, p)
    BY <1>5
  <2> DEFINE tree == [wt[w].tree EXCEPT ![p] = "fix"]
  <2>2. wt' = [wt EXCEPT ![w].tree = tree]
    BY <1>1, <2>1 DEF UserFixes, WtWell, Worktree
  <2>3. tree \in Tree
    BY <1>1, WtFacts, Names DEF Tree
  <2> HIDE DEF tree
  <2>4. wt' \in [Runs -> Worktree] /\ \A v \in Runs : wt'[v].base <= Len(wt'[v].log)
    BY <1>1, <2>2, <2>3, NewWtTree
  <2> QED
    BY <1>1, <2>1, <2>4 DEF UserFixes, TypeInv, TypeOK, AtInv
<1> QED
  BY <1>2, <1>3, <1>4, <1>5 DEF UserStep

-----------------------------------------------------------------------------
(* Control: which run is where, who holds the lock, what a command does.   *)

Active(r) == run[r].phase \notin {"new", "done", "dead"}

StartInv ==
  \A r \in Runs :
    /\ run[r].phase = "new" => run[r] = Unstarted /\ ~wt[r].there
    /\ run[r].phase = "prepared" => run[r].before = NoChanges /\ run[r].delta = NoChanges
    /\ wt[r].there => run[r].marker = r

CommandInv ==
  /\ cmd.run = NoRun => cmd = NoCommand
  /\ \A r \in Runs :
       /\ cmd.run = r =>
            /\ cmd.op # "none"
            /\ run[r].phase \in {"integrating", "picking", "cleanup", "saving", "copying", "removing"}
       /\ run[r].phase = "copying" => cmd.run = r /\ cmd.op = "adopt" /\ DOMAIN cmd.before = Paths
       /\ run[r].phase = "removing" =>
            cmd.run = r /\ (cmd.op = "discard" \/ (cmd.op = "adopt" /\ cmd.todo = {}))

LockInv ==
  \A r \in Runs :
    /\ run[r].at = NoRun /\ run[r].phase \in {"prepared", "running", "worked"} => lock = r
    /\ run[r].phase \in {"picking", "copying"} => lock = r

(* Every process that works in a worktree has it to itself, and finds it.  *)
SharingInv ==
  /\ \A r \in Runs :
       /\ run[r].phase # "dead" => run[r].marker = run[r].at
       /\ run[r].marker # NoRun => wt[run[r].marker].there
  /\ \A r \in Runs, v \in Runs :
       r # v /\ Active(r) /\ Active(v) /\ run[r].at # NoRun => run[v].at # run[r].at

ControlInv == TypeInv /\ StartInv /\ CommandInv /\ LockInv

(* Run u goes on in another phase, where it was.                           *)
GoesOn(u, phase) ==
  /\ \A v \in Runs \ {u} : run'[v] = run[v]
  /\ run'[u].phase = phase /\ run'[u].marker = run[u].marker /\ run'[u].at = run[u].at
  /\ \A w \in Runs : wt'[w].there = wt[w].there

LEMMA GoesOnControl ==
  ASSUME ControlInv, NEW u \in Runs, NEW phase, GoesOn(u, phase),
         phase \notin {"new", "prepared"}, run[u].phase # "new",
         lock' = lock \/ Release(u) \/ (lock = Free /\ lock' = u),
         run[u].at = NoRun /\ phase \in {"running", "worked"} => lock' = u,
         phase \in {"picking", "copying"} => lock' = u,
         cmd' = cmd \/ (cmd.run \in {u, NoRun} /\ cmd'.run \in {u, NoRun}),
         cmd'.run = NoRun => cmd' = NoCommand,
         cmd'.run = u =>
           /\ cmd'.op # "none"
           /\ phase \in {"integrating", "picking", "cleanup", "saving", "copying", "removing"},
         phase = "copying" => cmd'.run = u /\ cmd'.op = "adopt" /\ DOMAIN cmd'.before = Paths,
         phase = "removing" =>
           cmd'.run = u /\ (cmd'.op = "discard" \/ (cmd'.op = "adopt" /\ cmd'.todo = {}))
  PROVE  StartInv' /\ CommandInv' /\ LockInv'
<1>1. StartInv'
  <2> SUFFICES ASSUME NEW r \in Runs
               PROVE  /\ run'[r].phase = "new" => run'[r] = Unstarted /\ ~wt'[r].there
                      /\ run'[r].phase = "prepared" =>
                           run'[r].before = NoChanges /\ run'[r].delta = NoChanges
                      /\ wt'[r].there => run'[r].marker = r
    BY DEF StartInv, Unstarted, NoChanges
  <2> QED
    BY DEF GoesOn, ControlInv, StartInv
<1>2. CommandInv'
  <2> SUFFICES ASSUME NEW r \in Runs
               PROVE  /\ cmd'.run = r =>
                           /\ cmd'.op # "none"
                           /\ run'[r].phase \in {"integrating", "picking", "cleanup", "saving",
                                                 "copying", "removing"}
                      /\ run'[r].phase = "copying" =>
                           cmd'.run = r /\ cmd'.op = "adopt" /\ DOMAIN cmd'.before = Paths
                      /\ run'[r].phase = "removing" =>
                           cmd'.run = r /\ (cmd'.op = "discard" \/ (cmd'.op = "adopt" /\ cmd'.todo = {}))
    BY DEF CommandInv, NoCommand, NoRun, NoChanges
  <2>1. CASE r = u
    BY <2>1 DEF GoesOn
  <2>2. CASE r # u
    BY <2>2, Names DEF GoesOn, ControlInv, CommandInv
  <2> QED
    BY <2>1, <2>2
<1>3. LockInv'
  <2> SUFFICES ASSUME NEW r \in Runs
               PROVE  /\ run'[r].at = NoRun /\ run'[r].phase \in {"prepared", "running", "worked"}
                           => lock' = r
                      /\ run'[r].phase \in {"picking", "copying"} => lock' = r
    BY DEF LockInv, NoRun
  <2>1. CASE r = u
    BY <2>1 DEF GoesOn
  <2>2. CASE r # u
    BY <2>2, Names DEF GoesOn, ControlInv, LockInv, Release
  <2> QED
    BY <2>1, <2>2
<1> QED
  BY <1>1, <1>2, <1>3

LEMMA GoesOnSharing ==
  ASSUME TypeInv, SharingInv, NEW u \in Runs, NEW phase, GoesOn(u, phase), phase # "new",
         run[u].phase \notin {"new", "dead"},
         run[u].phase = "done" /\ run[u].at # NoRun =>
           \A v \in Runs \ {u} : Active(v) => run[v].at # run[u].at
  PROVE  SharingInv'
<1>1. ASSUME NEW r \in Runs
      PROVE  /\ run'[r].phase # "dead" => run'[r].marker = run'[r].at
             /\ run'[r].marker # NoRun => wt'[run'[r].marker].there
  <2>1. run'[r].marker = run[r].marker /\ run'[r].at = run[r].at
    BY DEF GoesOn
  <2>2. run'[r].phase # "dead" => run'[r].marker = run'[r].at
    BY <2>1 DEF GoesOn, SharingInv
  <2>3. run[r].marker # NoRun => run[r].marker \in Runs
    BY TypeFacts DEF TypeInv, Run
  <2> QED
    BY <2>1, <2>2, <2>3 DEF GoesOn, SharingInv
<1>2. ASSUME NEW r \in Runs, NEW v \in Runs, r # v, Active(r)', Active(v)', run'[r].at # NoRun
      PROVE  run'[v].at # run'[r].at
  <2>1. run'[r].at = run[r].at /\ run'[v].at = run[v].at
    BY DEF GoesOn
  <2>2. CASE Active(u)
    <3>1. Active(r) /\ Active(v)
      BY <1>2, <2>2 DEF GoesOn, Active
    <3> QED
      BY <1>2, <2>1, <3>1 DEF SharingInv
  <2>3. CASE run[u].phase = "done" /\ r = u
    BY <1>2, <2>1, <2>3 DEF GoesOn, Active
  <2>4. CASE run[u].phase = "done" /\ v = u
    <3>1. Active(r)
      BY <1>2, <2>4 DEF GoesOn, Active
    <3> QED
      BY <1>2, <2>1, <2>4, <3>1
  <2>5. CASE r # u /\ v # u
    <3>1. Active(r) /\ Active(v)
      BY <1>2, <2>5 DEF GoesOn, Active
    <3> QED
      BY <1>2, <2>1, <3>1 DEF SharingInv
  <2> QED
    BY <2>2, <2>3, <2>4, <2>5 DEF Active
<1> QED
  BY <1>1, <1>2 DEF SharingInv, NoRun

LEMMA RecordGoesOn ==
  ASSUME TypeOK, NEW u \in Runs, NEW phase, NEW rec, run' = [run EXCEPT ![u] = rec],
         rec.phase = phase, rec.marker = run[u].marker, rec.at = run[u].at,
         \A w \in Runs : wt'[w].there = wt[w].there
  PROVE  GoesOn(u, phase)
BY DEF GoesOn, TypeOK

LEMMA MovedGoesOn ==
  ASSUME TypeOK, NEW u \in Runs, NEW phase, NEW status, NEW integ, NEW unit,
         run' = [run EXCEPT ![u] = Moved(u, phase, status, integ, unit)],
         \A w \in Runs : wt'[w].there = wt[w].there
  PROVE  GoesOn(u, phase)
<1> DEFINE rec == Moved(u, phase, status, integ, unit)
<1>1. rec.phase = phase /\ rec.marker = run[u].marker /\ rec.at = run[u].at
  BY MovedFacts
<1> HIDE DEF rec
<1> QED
  BY <1>1, RecordGoesOn DEF rec

LEMMA PhaseGoesOn ==
  ASSUME TypeOK, NEW u \in Runs, NEW phase, run' = [run EXCEPT ![u].phase = phase],
         \A w \in Runs : wt'[w].there = wt[w].there
  PROVE  GoesOn(u, phase)
<1>1. run' = [run EXCEPT ![u] = Moved(u, phase, run[u].status, run[u].integ, run[u].unit)]
  BY PhaseMoves
<1> DEFINE rec == Moved(u, phase, run[u].status, run[u].integ, run[u].unit)
<1>2. rec.phase = phase /\ rec.marker = run[u].marker /\ rec.at = run[u].at
  BY MovedFacts
<1> HIDE DEF rec
<1> QED
  BY <1>1, <1>2, RecordGoesOn DEF rec

ControlNext == StartInv' /\ CommandInv' /\ LockInv' /\ (SharingInv /\ ~Overlap => SharingInv')

LEMMA BeginControl ==
  ASSUME ControlInv, NEW r \in Runs, Begin(r)
  PROVE  ControlNext /\ GoesOn(r, "running")
<1>1. /\ run[r].phase = "prepared" /\ UNCHANGED <<lock, wt, cmd>>
      /\ run' = [run EXCEPT ![r].phase = "running", ![r].before = DetailsAt(r),
                            ![r].chain = Owned(r, DetailsAt(r))]
  BY DEF Begin
<1> DEFINE before == DetailsAt(r)
           chain == Owned(r, DetailsAt(r))
           rec == [run[r] EXCEPT !.phase = "running", !.before = before, !.chain = chain]
<1> HIDE DEF before, chain
<1>2. run[r] \in Run /\ run' = [run EXCEPT ![r] = rec]
  BY <1>1, TypeFacts DEF ControlInv, TypeInv, TypeOK, before, chain
<1>3. rec.phase = "running" /\ rec.marker = run[r].marker /\ rec.at = run[r].at
  BY <1>2 DEF Run
<1> HIDE DEF rec
<1>4. GoesOn(r, "running")
  BY <1>1, <1>2, <1>3, RecordGoesOn DEF ControlInv, TypeInv
<1>5. run[r].at = NoRun => lock' = r
  BY <1>1 DEF ControlInv, LockInv
<1>6. /\ cmd.run # r /\ (cmd.run = NoRun => cmd = NoCommand)
  BY <1>1 DEF ControlInv, CommandInv
<1>7. StartInv' /\ CommandInv' /\ LockInv'
  BY <1>1, <1>4, <1>5, <1>6, GoesOnControl
<1>8. SharingInv => SharingInv'
  BY <1>1, <1>4, GoesOnSharing DEF ControlInv
<1> QED
  BY <1>4, <1>7, <1>8 DEF ControlNext

LEMMA ExecuteControl ==
  ASSUME ControlInv, NEW r \in Runs, Execute(r)
  PROVE  ControlNext /\ GoesOn(r, "worked")
<1>1. /\ run[r].phase = "running" /\ UNCHANGED <<lock, cmd>>
  BY ExecuteCases DEF ControlInv, TypeInv
<1>2. \A w \in Runs : wt'[w].there = wt[w].there
  <2>1. PICK written \in SUBSET Paths, undone \in SUBSET Paths :
          IF Isolated(r)
          THEN wt' = [wt EXCEPT ![run[r].at].tree = Written(r, written, undone)] /\ UNCHANGED root
          ELSE root' = [root EXCEPT !.tree = Written(r, written, undone)] /\ UNCHANGED wt
    BY ExecuteCases DEF ControlInv, TypeInv
  <2>2. Written(r, written, undone) \in Tree /\ WtWell /\ (Isolated(r) => run[r].at \in Runs)
    BY WrittenType, TypeFacts, PlaceFacts DEF ControlInv, TypeInv
  <2> QED
    BY <2>1, <2>2, NewWtTree
<1>3. PICK status \in {"success", "partial", "failed", "limited"} :
        run' = [run EXCEPT ![r].phase = "worked", ![r].status = status]
  BY ExecuteCases DEF ControlInv, TypeInv
<1>4. run' = [run EXCEPT ![r] = Moved(r, "worked", status, run[r].integ, run[r].unit)]
  BY <1>3, StatusMoves DEF ControlInv, TypeInv
<1> DEFINE rec == Moved(r, "worked", status, run[r].integ, run[r].unit)
<1>5. rec.phase = "worked" /\ rec.marker = run[r].marker /\ rec.at = run[r].at
  BY MovedFacts DEF ControlInv, TypeInv
<1> HIDE DEF rec
<1>6. GoesOn(r, "worked")
  BY <1>2, <1>4, <1>5, RecordGoesOn DEF ControlInv, TypeInv, rec
<1>7. /\ (run[r].at = NoRun => lock' = r)
      /\ cmd.run # r /\ (cmd.run = NoRun => cmd = NoCommand)
  BY <1>1 DEF ControlInv, LockInv, CommandInv
<1>8. StartInv' /\ CommandInv' /\ LockInv'
  BY <1>1, <1>6, <1>7, GoesOnControl
<1>9. SharingInv => SharingInv'
  BY <1>1, <1>6, GoesOnSharing DEF ControlInv
<1> QED
  BY <1>6, <1>8, <1>9 DEF ControlNext

LEMMA FinishControl ==
  ASSUME ControlInv, NEW r \in Runs, NEW ok \in BOOLEAN, Finish(r, ok)
  PROVE  /\ ControlNext
         /\ GoesOn(r, "saving") \/ GoesOn(r, "integrating")
<1>1. /\ run[r].phase = "worked" /\ UNCHANGED <<lock, cmd>>
  BY FinishCases
<1>2. /\ Delivered(r) \in Run /\ Delivered(r).marker = run[r].marker /\ Delivered(r).at = run[r].at
      /\ WtWell /\ WellRooted(root)
  BY DeliveredFacts, TypeFacts DEF ControlInv, TypeInv
<1>3. GoesOn(r, "saving") \/ GoesOn(r, "integrating")
  <2>1. CASE FinishedAsIs(r)
    <3> DEFINE commit == IF auto THEN "skipped" ELSE "disabled"
               new == [Delivered(r) EXCEPT !.phase = "saving", !.commit = commit]
    <3> HIDE DEF commit
    <3>1. run' = [run EXCEPT ![r] = new] /\ UNCHANGED wt
      BY <2>1 DEF FinishedAsIs, commit
    <3>2. new.marker = run[r].marker /\ new.at = run[r].at /\ new.phase = "saving"
      BY <1>2 DEF Run
    <3> HIDE DEF new
    <3> QED
      BY <3>1, <3>2, RecordGoesOn DEF ControlInv, TypeInv
  <2>2. ASSUME NEW res, res = AutoCommitted(r, Delivered(r), DetailsAt(r), root, ok),
               FinishedWith(r, res)
        PROVE  GoesOn(r, "saving") \/ GoesOn(r, "integrating")
    <3> DEFINE phase == IF Isolated(r) /\ res.commit # "failed" THEN "integrating" ELSE "saving"
               status == IF res.commit = "failed" THEN "partial" ELSE Delivered(r).status
               new == [Delivered(r) EXCEPT !.phase = phase, !.status = status,
                         !.commit = res.commit, !.sha = res.sha]
    <3>1. run' = [run EXCEPT ![r] = new] /\ wt' = res.wt
      BY <1>2, <2>2 DEF FinishedWith, Run
    <3>2. phase \in {"saving", "integrating"}
      OBVIOUS
    <3> HIDE DEF phase, status
    <3>3. new.marker = run[r].marker /\ new.at = run[r].at /\ new.phase = phase
      BY <1>2 DEF Run
    <3> HIDE DEF new
    <3>4. \A w \in Runs : res.wt[w].there = wt[w].there
      BY <1>2, <2>2, AutoCommitPlaces
    <3>5. \A w \in Runs : wt'[w].there = wt[w].there
      BY <3>1, <3>4
    <3> QED
      BY <3>1, <3>2, <3>3, <3>5, RecordGoesOn DEF ControlInv, TypeInv
  <2> QED
    BY <2>1, <2>2, FinishCases
<1>4. cmd.run # r /\ (cmd.run = NoRun => cmd = NoCommand)
  BY <1>1 DEF ControlInv, CommandInv
<1>5. ASSUME NEW phase \in {"saving", "integrating"}, GoesOn(r, phase)
      PROVE  ControlNext
  <2>1. StartInv' /\ CommandInv' /\ LockInv'
    BY <1>1, <1>4, <1>5, GoesOnControl
  <2>2. SharingInv => SharingInv'
    BY <1>1, <1>5, GoesOnSharing DEF ControlInv
  <2> QED
    BY <2>1, <2>2 DEF ControlNext
<1> QED
  BY <1>3, <1>5

LEMMA AcquireRootControl ==
  ASSUME ControlInv, NEW u \in Runs, AcquireRoot(u)
  PROVE  /\ ControlNext
         /\ GoesOn(u, "saving") \/ GoesOn(u, "picking")
<1>1. run[u].phase = "integrating" /\ UNCHANGED <<cmd, wt>>
  BY DEF AcquireRoot
<1>2. \E phase \in {"saving", "picking"},
         integ \in {"none", "pending", "integrated", "conflict", "failed"} :
        /\ Integrated(u, integ, phase)
        /\ IF phase = "picking" THEN lock = Free /\ lock' = u ELSE lock' = lock
  BY FieldTypes DEF AcquireRoot, ControlInv, TypeInv
<1>3. PICK phase \in {"saving", "picking"},
           integ \in {"none", "pending", "integrated", "conflict", "failed"} :
        /\ Integrated(u, integ, phase)
        /\ IF phase = "picking" THEN lock = Free /\ lock' = u ELSE lock' = lock
  BY <1>2
<1>4. run' = [run EXCEPT ![u] = Moved(u, phase, run[u].status, integ, run[u].unit)]
  BY <1>3, IntegMoves DEF ControlInv, TypeInv
<1> DEFINE rec == Moved(u, phase, run[u].status, integ, run[u].unit)
<1>5. rec.phase = phase /\ rec.marker = run[u].marker /\ rec.at = run[u].at
  BY MovedFacts DEF ControlInv, TypeInv
<1> HIDE DEF rec
<1>6. GoesOn(u, phase)
  BY <1>1, <1>4, <1>5, RecordGoesOn DEF ControlInv, TypeInv, rec
<1>7. (cmd.run = NoRun => cmd = NoCommand) /\ (cmd.run = u => cmd.op # "none")
  BY <1>1 DEF ControlInv, CommandInv
<1>8. StartInv' /\ CommandInv' /\ LockInv'
  BY <1>1, <1>3, <1>6, <1>7, GoesOnControl
<1>9. SharingInv => SharingInv'
  BY <1>1, <1>6, GoesOnSharing DEF ControlInv
<1> QED
  BY <1>6, <1>8, <1>9 DEF ControlNext

LEMMA PickControl ==
  ASSUME ControlInv, NEW u \in Runs, Pick(u)
  PROVE  /\ ControlNext
         /\ GoesOn(u, "saving") \/ GoesOn(u, "cleanup")
<1>1. run[u].phase = "picking" /\ UNCHANGED <<cmd, wt>> /\ Release(u)
  BY PickCases
<1>2. GoesOn(u, "saving") \/ GoesOn(u, "cleanup")
  <2> DEFINE log == wt[run[u].at].log
  <2>1. CASE run' = [run EXCEPT ![u].integ = "integrated", ![u].phase = "cleanup",
                                ![u].unit = log]
    <3> HIDE DEF log
    <3>1. run' = [run EXCEPT ![u] = Moved(u, "cleanup", run[u].status, "integrated", log)]
      BY <2>1, UnitMoves DEF ControlInv, TypeInv
    <3> DEFINE rec == Moved(u, "cleanup", run[u].status, "integrated", log)
    <3>2. rec.phase = "cleanup" /\ rec.marker = run[u].marker /\ rec.at = run[u].at
      BY MovedFacts DEF ControlInv, TypeInv
    <3> HIDE DEF rec
    <3> QED
      BY <1>1, <3>1, <3>2, RecordGoesOn DEF ControlInv, TypeInv, rec
  <2>2. ASSUME NEW result \in {"failed", "conflict", run[u].integ},
             Integrated(u, result, "saving")
        PROVE  GoesOn(u, "saving")
    <3>1. run' = [run EXCEPT ![u] = Moved(u, "saving", run[u].status, result, run[u].unit)]
      BY <2>2, IntegMoves DEF ControlInv, TypeInv
    <3> DEFINE rec == Moved(u, "saving", run[u].status, result, run[u].unit)
    <3>2. rec.phase = "saving" /\ rec.marker = run[u].marker /\ rec.at = run[u].at
      BY MovedFacts DEF ControlInv, TypeInv
    <3> HIDE DEF rec
    <3> QED
      BY <1>1, <3>1, <3>2, RecordGoesOn DEF ControlInv, TypeInv, rec
  <2> QED
    BY <2>1, <2>2, PickCases
<1>3. (cmd.run = NoRun => cmd = NoCommand) /\ (cmd.run = u => cmd.op # "none")
  BY <1>1 DEF ControlInv, CommandInv
<1>4. ASSUME NEW phase \in {"saving", "cleanup"}, GoesOn(u, phase)
      PROVE  ControlNext
  <2>1. StartInv' /\ CommandInv' /\ LockInv'
    BY <1>1, <1>3, <1>4, GoesOnControl
  <2>2. SharingInv => SharingInv'
    BY <1>1, <1>4, GoesOnSharing DEF ControlInv
  <2> QED
    BY <2>1, <2>2 DEF ControlNext
<1> QED
  BY <1>2, <1>4

LEMMA SaveControl ==
  ASSUME ControlInv, NEW u \in Runs, Save(u)
  PROVE  ControlNext /\ GoesOn(u, "done")
<1> DEFINE status == IF cmd.run # u /\ auto /\ run[u].status = "success"
                        /\ run[u].integ \in {"pending", "conflict", "failed"}
                     THEN "partial" ELSE run[u].status
<1>1. /\ run[u].phase = "saving" /\ Release(u) /\ UNCHANGED wt
      /\ run' = [run EXCEPT ![u].phase = "done", ![u].status = status]
      /\ cmd' = IF cmd.run = u THEN NoCommand ELSE cmd
  BY FieldTypes DEF Save, ControlInv, TypeInv, Run
<1> HIDE DEF status
<1>2. run' = [run EXCEPT ![u] = Moved(u, "done", status, run[u].integ, run[u].unit)]
  BY <1>1, StatusMoves DEF ControlInv, TypeInv
<1> DEFINE rec == Moved(u, "done", status, run[u].integ, run[u].unit)
<1>3. rec.phase = "done" /\ rec.marker = run[u].marker /\ rec.at = run[u].at
  BY MovedFacts DEF ControlInv, TypeInv
<1> HIDE DEF rec
<1>4. GoesOn(u, "done")
  BY <1>1, <1>2, <1>3, RecordGoesOn DEF ControlInv, TypeInv, rec
<1>5. /\ cmd.run = NoRun => cmd = NoCommand
      /\ cmd'.run = NoRun => cmd' = NoCommand
      /\ cmd'.run # u
      /\ cmd' = cmd \/ (cmd.run \in {u, NoRun} /\ cmd'.run \in {u, NoRun})
  BY <1>1, NoCommandFacts, Names DEF ControlInv, CommandInv
<1>6. StartInv' /\ CommandInv' /\ LockInv'
  BY <1>1, <1>4, <1>5, GoesOnControl
<1>7. SharingInv => SharingInv'
  BY <1>1, <1>4, GoesOnSharing DEF ControlInv
<1> QED
  BY <1>4, <1>6, <1>7 DEF ControlNext

(* The other runs that share the worktree of a run the operator may        *)
(* resolve are over.                                                       *)
LEMMA ResolvableAlone ==
  ASSUME ControlInv, SharingInv, ~Overlap, NEW u \in Runs, MayResolve(u)
  PROVE  \A v \in Runs \ {u} : Active(v) => run[v].at # run[u].at
<1> SUFFICES ASSUME NEW v \in Runs \ {u}, Active(v), run[v].at = run[u].at
             PROVE  FALSE
  OBVIOUS
<1>1. /\ cmd = NoCommand /\ run[u].at = run[u].marker /\ run[u].marker \in Runs
  BY MayResolveFacts DEF ControlInv
<1>2. run[v].marker = run[u].at
  BY DEF SharingInv, Active
<1>3. cmd.run = NoRun /\ cmd.run # v
  BY <1>1, NoCommandFacts, Names
<1>4. run[v].phase # "prepared"
  BY <1>1, <1>2 DEF MayResolve
<1>5. run[v].phase \notin {"copying", "removing"}
  BY <1>3 DEF ControlInv, CommandInv
<1>6. run[v] \in Run
  BY TypeFacts DEF ControlInv, TypeInv
<1>7. run[v].phase \in Executing
  BY <1>4, <1>5, <1>6 DEF Active, Run, Phases, Executing
<1>8. SharedLive(u)
  BY <1>2, <1>3, <1>7 DEF SharedLive, Live
<1> QED
  BY <1>8 DEF MayResolve

LEMMA CommandControl ==
  ASSUME ControlInv, NEW u \in Runs, MayResolve(u), NEW op \in {"adopt", "discard"},
         NEW phase \in {"cleanup", "integrating", "removing"}, Command(op, u, phase),
         phase = "removing" => op = "discard", UNCHANGED <<lock, wt>>
  PROVE  ControlNext /\ GoesOn(u, phase)
<1>1. run[u].phase = "done" /\ cmd = NoCommand
  BY MayResolveFacts DEF ControlInv
<1>2. GoesOn(u, phase)
  BY PhaseGoesOn DEF Command, ControlInv, TypeInv
<1>3. cmd' = [NoCommand EXCEPT !.op = op, !.run = u]
  BY DEF Command
<1>4. cmd.run = NoRun /\ cmd'.run = u /\ cmd'.op = op
  <2>1. cmd'.run = u /\ cmd'.op = op
    BY <1>3, CommandFacts
  <2> QED
    BY <1>1, <2>1, NoCommandFacts
<1>5. StartInv' /\ CommandInv' /\ LockInv'
  BY <1>1, <1>2, <1>4, Names, GoesOnControl
<1>6. SharingInv /\ ~Overlap => SharingInv'
  BY <1>1, <1>2, ResolvableAlone, GoesOnSharing DEF ControlInv
<1> QED
  BY <1>2, <1>5, <1>6 DEF ControlNext

LEMMA AdoptFilesControl ==
  ASSUME ControlInv, NEW u \in Runs, AdoptFiles(u)
  PROVE  ControlNext /\ GoesOn(u, "copying")
<1> DEFINE w == run[u].marker
           todo == {p \in DOMAIN WtDetails(w) : root.tree[p] # wt[w].tree[p]}
<1>1. /\ MayResolve(u) /\ lock = Free /\ lock' = u /\ UNCHANGED wt
      /\ run' = [run EXCEPT ![u].phase = "copying"]
      /\ cmd' = [NoCommand EXCEPT !.op = "adopt", !.run = u, !.before = root.tree, !.todo = todo]
  BY DEF AdoptFiles
<1> HIDE DEF todo
<1>2. run[u].phase = "done" /\ cmd = NoCommand
  BY <1>1, MayResolveFacts DEF ControlInv
<1>3. GoesOn(u, "copying")
  BY <1>1, PhaseGoesOn DEF ControlInv, TypeInv
<1>4. cmd'.run = u /\ cmd'.op = "adopt" /\ cmd'.before = root.tree /\ cmd.run = NoRun
  BY <1>1, <1>2, NoCommandFacts DEF Commands
<1>5. DOMAIN root.tree = Paths
  BY TypeFacts, RootFacts DEF ControlInv, TypeInv, Tree
<1>6. StartInv' /\ CommandInv' /\ LockInv'
  BY <1>1, <1>2, <1>3, <1>4, <1>5, Names, GoesOnControl
<1>7. SharingInv /\ ~Overlap => SharingInv'
  BY <1>1, <1>2, <1>3, ResolvableAlone, GoesOnSharing DEF ControlInv
<1> QED
  BY <1>3, <1>6, <1>7 DEF ControlNext

LEMMA CopyFileControl ==
  ASSUME ControlInv, NEW u \in Runs, NEW p \in Paths, CopyFile(u, p)
  PROVE  ControlNext
<1>1. run[u].phase = "copying" /\ UNCHANGED <<run, lock, wt>> /\ cmd' = Copied(u, p)
  BY DEF CopyFile, Copied
<1>2. run[u].at \in Runs
  BY CopyFileType DEF ControlInv
<1>3. cmd'.op = cmd.op /\ cmd'.run = cmd.run /\ cmd'.before = cmd.before
  BY <1>1, <1>2, CopiedFacts DEF ControlInv
<1>4. cmd.run = u /\ cmd.op = "adopt" /\ DOMAIN cmd.before = Paths
  BY <1>1 DEF ControlInv, CommandInv
<1>5. CommandInv'
  <2> SUFFICES ASSUME NEW r \in Runs
               PROVE  /\ cmd'.run = r =>
                           /\ cmd'.op # "none"
                           /\ run'[r].phase \in {"integrating", "picking", "cleanup", "saving",
                                                 "copying", "removing"}
                      /\ run'[r].phase = "copying" =>
                           cmd'.run = r /\ cmd'.op = "adopt" /\ DOMAIN cmd'.before = Paths
                      /\ run'[r].phase = "removing" =>
                           cmd'.run = r /\ (cmd'.op = "discard" \/ (cmd'.op = "adopt" /\ cmd'.todo = {}))
    BY <1>3, <1>4, Names DEF CommandInv, NoRun
  <2> QED
    BY <1>1, <1>3, <1>4 DEF ControlInv, CommandInv
<1>6. StartInv' /\ LockInv' /\ (SharingInv => SharingInv')
  BY <1>1 DEF ControlInv, StartInv, LockInv, SharingInv, Active, Unstarted, NoChanges, NoRun
<1> QED
  BY <1>5, <1>6 DEF ControlNext

LEMMA RecordAdoptedControl ==
  ASSUME ControlInv, NEW u \in Runs, RecordAdopted(u)
  PROVE  ControlNext /\ GoesOn(u, "removing")
<1>1. /\ run[u].phase = "copying" /\ cmd.todo = {} /\ Release(u) /\ UNCHANGED <<wt, cmd>>
      /\ run' = [run EXCEPT ![u].phase = "removing"]
  BY DEF RecordAdopted
<1>2. GoesOn(u, "removing")
  BY <1>1, PhaseGoesOn DEF ControlInv, TypeInv
<1>3. cmd.run = u /\ cmd.op = "adopt"
  BY <1>1 DEF ControlInv, CommandInv
<1>4. StartInv' /\ CommandInv' /\ LockInv'
  BY <1>1, <1>2, <1>3, Names, GoesOnControl
<1>5. SharingInv => SharingInv'
  BY <1>1, <1>2, GoesOnSharing DEF ControlInv
<1> QED
  BY <1>2, <1>4, <1>5 DEF ControlNext

LEMMA AdoptFailsControl ==
  ASSUME ControlInv, NEW u \in Runs, AdoptFails(u)
  PROVE  ControlNext /\ GoesOn(u, "done")
<1>1. /\ run[u].phase = "copying" /\ cmd' = NoCommand /\ Release(u) /\ UNCHANGED wt
      /\ run' = [run EXCEPT ![u].phase = "done"]
  BY DEF AdoptFails
<1>2. GoesOn(u, "done")
  BY <1>1, PhaseGoesOn DEF ControlInv, TypeInv
<1>3. cmd.run = u /\ cmd'.run = NoRun
  BY <1>1, NoCommandFacts DEF ControlInv, CommandInv
<1>4. StartInv' /\ CommandInv' /\ LockInv'
  BY <1>1, <1>2, <1>3, Names, GoesOnControl
<1>5. SharingInv => SharingInv'
  BY <1>1, <1>2, GoesOnSharing DEF ControlInv
<1> QED
  BY <1>2, <1>4, <1>5 DEF ControlNext

LEMMA CommitPartialControl ==
  ASSUME ControlInv, NEW u \in Runs, CommitPartial(u)
  PROVE  /\ ControlNext
         /\ GoesOn(u, "saving") \/ GoesOn(u, "integrating")
<1>1. /\ cmd = NoCommand /\ run[u].phase = "done" /\ (Isolated(u) => MayResolve(u))
      /\ cmd' = [NoCommand EXCEPT !.op = "commit", !.run = u] /\ UNCHANGED lock
  BY CommitPartialCases
<1>2. /\ run[u] \in Run /\ WellRooted(CommitRoot(u)) /\ WtWell
  BY TypeFacts, EnsureFacts DEF ControlInv, TypeInv, CommitRoot
<1>3. GoesOn(u, "saving") \/ GoesOn(u, "integrating")
  <2>1. ASSUME NEW ok \in BOOLEAN, NEW res,
               res = AutoCommitted(u, run[u], DetailsAt(u), CommitRoot(u), ok), CommittedAs(u, res)
        PROVE  GoesOn(u, "saving") \/ GoesOn(u, "integrating")
    <3> DEFINE phase == IF Isolated(u) /\ res.commit = "committed" THEN "integrating" ELSE "saving"
               new == [run[u] EXCEPT !.commit = res.commit, !.sha = res.sha, !.phase = phase]
    <3>1. run' = [run EXCEPT ![u] = new] /\ wt' = res.wt
      BY <1>2, <2>1 DEF CommittedAs, Run
    <3>2. phase \in {"saving", "integrating"}
      OBVIOUS
    <3> HIDE DEF phase
    <3>3. new.marker = run[u].marker /\ new.at = run[u].at /\ new.phase = phase
      BY <1>2 DEF Run
    <3> HIDE DEF new
    <3>4. \A w \in Runs : res.wt[w].there = wt[w].there
      BY <1>2, <2>1, AutoCommitPlaces
    <3>5. \A w \in Runs : wt'[w].there = wt[w].there
      BY <3>1, <3>4
    <3> QED
      BY <3>1, <3>2, <3>3, <3>5, RecordGoesOn DEF ControlInv, TypeInv
  <2> QED
    BY <2>1, CommitPartialCases
<1>4. cmd.run = NoRun /\ cmd'.run = u /\ cmd'.op = "commit"
  <2>1. cmd'.run = u /\ cmd'.op = "commit"
    BY <1>1, CommandFacts
  <2> QED
    BY <1>1, <2>1, NoCommandFacts
<1>5. run[u].at # NoRun => MayResolve(u)
  BY <1>1 DEF Isolated
<1>6. ASSUME NEW phase \in {"saving", "integrating"}, GoesOn(u, phase)
      PROVE  ControlNext
  <2>1. StartInv' /\ CommandInv' /\ LockInv'
    BY <1>1, <1>4, <1>6, Names, GoesOnControl
  <2>2. SharingInv /\ ~Overlap => SharingInv'
    BY <1>1, <1>5, <1>6, ResolvableAlone, GoesOnSharing DEF ControlInv
  <2> QED
    BY <2>1, <2>2 DEF ControlNext
<1> QED
  BY <1>3, <1>6

LEMMA CrashControl ==
  ASSUME ControlInv, NEW u \in Runs, Crash(u)
  PROVE  /\ ControlNext
         /\ GoesOn(u, "done") \/ GoesOn(u, "dead")
<1> DEFINE phase == IF cmd.run = u THEN "done" ELSE "dead"
<1>1. /\ run[u].phase \notin {"new", "done", "dead"} /\ Release(u)
      /\ run' = [run EXCEPT ![u].phase = phase]
      /\ cmd' = IF cmd.run = u THEN NoCommand ELSE cmd
      /\ UNCHANGED wt /\ phase \in {"done", "dead"}
  BY CrashCases
<1> HIDE DEF phase
<1>2. GoesOn(u, phase)
  BY <1>1, PhaseGoesOn DEF ControlInv, TypeInv
<1>3. /\ cmd.run = NoRun => cmd = NoCommand
      /\ cmd'.run = NoRun => cmd' = NoCommand
      /\ cmd'.run # u
      /\ cmd' = cmd \/ (cmd.run \in {u, NoRun} /\ cmd'.run \in {u, NoRun})
  BY <1>1, NoCommandFacts, Names DEF ControlInv, CommandInv
<1>4. StartInv' /\ CommandInv' /\ LockInv'
  BY <1>1, <1>2, <1>3, GoesOnControl
<1>5. SharingInv => SharingInv'
  BY <1>1, <1>2, GoesOnSharing DEF ControlInv
<1> QED
  BY <1>1, <1>2, <1>4, <1>5 DEF ControlNext

LEMMA UserControl ==
  ASSUME ControlInv, UserStep
  PROVE  ControlNext /\ UNCHANGED <<run, lock, cmd>> /\ \A w \in Runs : wt'[w].there = wt[w].there
<1>1. UNCHANGED <<run, lock, cmd>>
  BY DEF UserStep, UserEdits, UserSwitches, UserAborts, UserFixes, UserActs
<1>2. \A w \in Runs : wt'[w].there = wt[w].there
  BY TypeFacts DEF UserStep, UserEdits, UserSwitches, UserAborts, UserFixes, UserActs,
       ControlInv, TypeInv, WtWell, Worktree
<1>3. \A r \in Runs : run[r].marker # NoRun => run[r].marker \in Runs
  BY TypeFacts DEF ControlInv, TypeInv, Run
<1>4. StartInv' /\ CommandInv' /\ LockInv'
  BY <1>1, <1>2 DEF ControlInv, StartInv, CommandInv, LockInv, Unstarted, NoChanges, NoCommand,
       NoRun
<1>5. SharingInv => SharingInv'
  BY <1>1, <1>2, <1>3 DEF SharingInv, Active, NoRun
<1> QED
  BY <1>1, <1>2, <1>4, <1>5 DEF ControlNext

(* What a step does to the place of a run, when it is not simply kept.     *)
LEMMA BlockControl ==
  ASSUME ControlInv, NEW r \in Runs, NEW rec \in Run, Block(r, rec),
         run[r].phase \in {"new", "prepared"},
         rec.marker = rec.at, rec.at # NoRun => wt[rec.at].there,
         wt[r].there => rec.marker = r
  PROVE  ControlNext
<1> DEFINE new == [rec EXCEPT !.phase = "done", !.status = "blocked"]
<1>1. /\ run' = [run EXCEPT ![r] = new] /\ Release(r) /\ UNCHANGED <<wt, cmd>>
  BY DEF Block
<1>2. /\ new.phase = "done" /\ new.marker = rec.marker /\ new.at = rec.at
  BY DEF Run
<1> HIDE DEF new
<1>4. /\ \A v \in Runs \ {r} : run'[v] = run[v]
      /\ run'[r].phase = "done" /\ run'[r].marker = rec.marker /\ run'[r].at = rec.at
  BY <1>1, <1>2 DEF ControlInv, TypeInv, TypeOK
<1>5. StartInv'
  <2> SUFFICES ASSUME NEW v \in Runs
               PROVE  /\ run'[v].phase = "new" => run'[v] = Unstarted /\ ~wt'[v].there
                      /\ run'[v].phase = "prepared" =>
                           run'[v].before = NoChanges /\ run'[v].delta = NoChanges
                      /\ wt'[v].there => run'[v].marker = v
    BY DEF StartInv, Unstarted, NoChanges
  <2>1. CASE v = r
    BY <1>1, <1>4, <2>1 DEF ControlInv, StartInv
  <2>2. CASE v # r
    BY <1>1, <1>4, <2>2 DEF ControlInv, StartInv
  <2> QED
    BY <2>1, <2>2
<1>6. CommandInv'
  <2>1. cmd.run # r
    BY DEF ControlInv, CommandInv
  <2> QED
    BY <1>1, <1>4, <2>1 DEF ControlInv, CommandInv, NoCommand, NoRun, NoChanges
<1>7. LockInv'
  BY <1>1, <1>4, Names DEF ControlInv, LockInv, Release, NoRun
<1>8. ASSUME SharingInv PROVE SharingInv'
  <2>1. \A v \in Runs : run[v].marker # NoRun => run[v].marker \in Runs
    BY TypeFacts DEF ControlInv, TypeInv, Run
  <2>2. \A v \in Runs :
          /\ run'[v].phase # "dead" => run'[v].marker = run'[v].at
          /\ run'[v].marker # NoRun => wt'[run'[v].marker].there
    BY <1>1, <1>4, <1>8 DEF SharingInv
  <2>3. \A v, x \in Runs :
          v # x /\ Active(v)' /\ Active(x)' /\ run'[v].at # NoRun => run'[x].at # run'[v].at
    BY <1>1, <1>4, <1>8 DEF SharingInv, Active
  <2> QED
    BY <2>2, <2>3 DEF SharingInv, NoRun
<1> QED
  BY <1>5, <1>6, <1>7, <1>8 DEF ControlNext

(* A run that starts, in the worktree m or in the launching one.           *)
LEMMA StartControl ==
  ASSUME ControlInv, NEW r \in Runs, NEW rec \in Run, NEW m \in Runs \cup {NoRun},
         run[r].phase = "new", run' = [run EXCEPT ![r] = rec],
         rec.phase = "prepared", rec.marker = m, rec.at = m,
         rec.before = NoChanges, rec.delta = NoChanges, UNCHANGED cmd,
         IF m = NoRun THEN lock = Free /\ lock' = r ELSE lock' = lock,
         \A w \in Runs : wt'[w].there <=> (wt[w].there \/ (w = r /\ w = m)),
         m # NoRun => wt'[m].there,
         SharingInv /\ ~Overlap /\ m # NoRun =>
           \A v \in Runs \ {r} : Active(v) => run[v].at # m
  PROVE  ControlNext
<1>1. /\ \A v \in Runs \ {r} : run'[v] = run[v]
      /\ run'[r] = rec
  BY DEF ControlInv, TypeInv, TypeOK
<1>2. ~wt[r].there
  BY DEF ControlInv, StartInv
<1>3. StartInv'
  <2> SUFFICES ASSUME NEW v \in Runs
               PROVE  /\ run'[v].phase = "new" => run'[v] = Unstarted /\ ~wt'[v].there
                      /\ run'[v].phase = "prepared" =>
                           run'[v].before = NoChanges /\ run'[v].delta = NoChanges
                      /\ wt'[v].there => run'[v].marker = v
    BY DEF StartInv, Unstarted, NoChanges
  <2>1. CASE v = r
    BY <1>1, <1>2, <2>1 DEF ControlInv, StartInv
  <2>2. CASE v # r
    BY <1>1, <1>2, <2>2 DEF ControlInv, StartInv
  <2> QED
    BY <2>1, <2>2
<1>4. CommandInv'
  <2>1. cmd.run # r
    BY DEF ControlInv, CommandInv
  <2> QED
    BY <1>1, <2>1 DEF ControlInv, CommandInv, NoCommand, NoRun, NoChanges
<1>5. LockInv'
  BY <1>1, Names DEF ControlInv, LockInv, NoRun
<1>6. ASSUME SharingInv, ~Overlap PROVE SharingInv'
  <2>1. \A v \in Runs : run[v].marker # NoRun => run[v].marker \in Runs
    BY TypeFacts DEF ControlInv, TypeInv, Run
  <2>2. \A v \in Runs :
          /\ run'[v].phase # "dead" => run'[v].marker = run'[v].at
          /\ run'[v].marker # NoRun => wt'[run'[v].marker].there
    BY <1>1, <1>6, <2>1 DEF SharingInv
  <2>3. \A v, x \in Runs :
          v # x /\ Active(v)' /\ Active(x)' /\ run'[v].at # NoRun => run'[x].at # run'[v].at
    BY <1>1, <1>6 DEF SharingInv, Active
  <2> QED
    BY <2>2, <2>3 DEF SharingInv, NoRun
<1> QED
  BY <1>3, <1>4, <1>5, <1>6 DEF ControlNext

LEMMA DelegateControl ==
  ASSUME ControlInv, NEW r \in Runs, Delegate(r)
  PROVE  ControlNext
<1>1. run[r].phase = "new" /\ run[r] = Unstarted /\ ~wt[r].there /\ run[r] \in Run
  BY TypeFacts DEF Delegate, ControlInv, StartInv, TypeInv
<1>2. run[r].marker = NoRun /\ run[r].at = NoRun /\ run[r].before = NoChanges /\ run[r].delta = NoChanges
  BY <1>1, UnstartedType
<1>3. CASE Block(r, run[r])
  BY <1>1, <1>2, <1>3, BlockControl
<1>4. CASE CreateIsolatedWorktree(r)
  <2> DEFINE new == [run[r] EXCEPT !.phase = "prepared", !.marker = r, !.at = r, !.line = {r}]
             place == [there |-> TRUE, log |-> RootLog, base |-> Len(RootLog),
                       tree |-> TreeOf(RootLog)]
  <2>1. run' = [run EXCEPT ![r] = new] /\ wt' = [wt EXCEPT ![r] = place]
        /\ UNCHANGED <<lock, cmd>>
    BY <1>4 DEF CreateIsolatedWorktree, ControlInv, TypeInv, TypeOK
  <2>2. /\ new \in Run /\ new.marker = r /\ new.at = r /\ new.phase = "prepared"
        /\ new.before = NoChanges /\ new.delta = NoChanges
    BY <1>1, <1>2 DEF Run, Phases
  <2>3. place.there
    OBVIOUS
  <2> HIDE DEF new, place
  <2>4. wt'[r].there /\ \A w \in Runs : wt'[w].there <=> (wt[w].there \/ (w = r /\ w = r))
    BY <1>1, <2>1, <2>3 DEF ControlInv, TypeInv, TypeOK
  <2>5. ASSUME SharingInv, NEW v \in Runs \ {r}, Active(v) PROVE run[v].at # r
    <3>1. run[v].at = r => wt[r].there
      BY <2>5, Names DEF SharingInv, Active
    <3> QED
      BY <1>1, <3>1
  <2> QED
    BY <1>1, <2>1, <2>2, <2>4, <2>5, Names, StartControl
<1>5. CASE /\ ~Isolates /\ ~(Refused \/ (~Isolates /\ (lock # Free \/ ~MayStart)))
           /\ lock' = r
           /\ run' = [run EXCEPT ![r].phase = "prepared", ![r].line = {r}]
           /\ UNCHANGED <<policy, auto, root, trusted, wt, cmd, edits, faults>>
  <2> DEFINE new == [run[r] EXCEPT !.phase = "prepared", !.line = {r}]
  <2>1. run' = [run EXCEPT ![r] = new] /\ lock = Free
    BY <1>5 DEF ControlInv, TypeInv, TypeOK
  <2>2. /\ new \in Run /\ new.marker = NoRun /\ new.at = NoRun /\ new.phase = "prepared"
        /\ new.before = NoChanges /\ new.delta = NoChanges
    BY <1>1, <1>2 DEF Run, Phases
  <2> HIDE DEF new
  <2>3. \A w \in Runs : wt'[w].there <=> (wt[w].there \/ (w = r /\ w = NoRun))
    BY <1>5, Names
  <2>4. NoRun \in Runs \cup {NoRun} /\ lock' = r /\ UNCHANGED cmd
    BY <1>5
  <2> QED
    BY <1>1, <2>1, <2>2, <2>3, <2>4, StartControl
<1> QED
  BY <1>3, <1>4, <1>5 DEF Delegate

LEMMA RetryControl ==
  ASSUME ControlInv, NEW r \in Runs, NEW u \in Runs, Retry(r, u)
  PROVE  ControlNext
<1> DEFINE m == IF Reuses(u) THEN run[u].marker ELSE NoRun
<1>1. /\ run[r].phase = "new" /\ ~wt[r].there
      /\ Reuses(u) => Unclaimed(run[u].marker)
  BY RetryCases DEF ControlInv, StartInv
<1>2. m \in Runs \cup {NoRun} /\ (m # NoRun => Reuses(u) /\ m = run[u].marker)
  <2>1. run[u] \in Run
    BY TypeFacts DEF ControlInv, TypeInv
  <2> QED
    BY <2>1 DEF Run, Reuses
<1>3. /\ Successor(r, u) \in Run /\ Homeless(r, u) \in Run
      /\ Successor(r, u).marker = m /\ Successor(r, u).at = m
      /\ Homeless(r, u).marker = NoRun /\ Homeless(r, u).at = NoRun
      /\ Successor(r, u).phase = "prepared"
      /\ Successor(r, u).before = NoChanges /\ Successor(r, u).delta = NoChanges
  BY SuccessorFacts DEF ControlInv, TypeInv
<1>4. CASE Block(r, Homeless(r, u))
  BY <1>1, <1>3, <1>4, BlockControl
<1>5. CASE Block(r, Successor(r, u)) /\ (Reuses(u) => wt[run[u].marker].there)
  <2>1. Successor(r, u).at # NoRun => wt[Successor(r, u).at].there
    BY <1>2, <1>3, <1>5
  <2> QED
    BY <1>1, <1>3, <1>5, <2>1, BlockControl
<1>6. CASE RetryStarts(r, u)
  <2> HIDE DEF m
  <2>1. /\ run' = [run EXCEPT ![r] = Successor(r, u)] /\ UNCHANGED <<wt, cmd>>
    BY <1>6 DEF RetryStarts
  <2>2. IF m = NoRun THEN lock = Free /\ lock' = r ELSE lock' = lock
    BY <1>2, <1>6, Names DEF RetryStarts, m, Reuses
  <2>3. m # NoRun => wt'[m].there
    BY <1>2, <1>6 DEF RetryStarts
  <2>4. \A w \in Runs : wt'[w].there <=> (wt[w].there \/ (w = r /\ w = m))
    BY <1>1, <2>1, <2>3, Names
  <2>5. ASSUME SharingInv, ~Overlap, m # NoRun, NEW v \in Runs \ {r}, Active(v), run[v].at = m
        PROVE  FALSE
    <3>1. run[v].marker = m
      BY <2>5 DEF SharingInv, Active
    <3>2. run[v].phase \in {"done", "dead"}
      BY <1>1, <1>2, <2>5, <3>1 DEF Unclaimed
    <3> QED
      BY <2>5, <3>2 DEF Active
  <2> QED
    BY <1>1, <1>2, <1>3, <2>1, <2>2, <2>3, <2>4, <2>5, StartControl
<1> QED
  BY <1>4, <1>5, <1>6, RetryCases

LEMMA BeginRefusedControl ==
  ASSUME ControlInv, NEW r \in Runs, BeginRefused(r)
  PROVE  ControlNext /\ GoesOn(r, "done")
<1>1. /\ run[r].phase = "prepared" /\ Release(r) /\ UNCHANGED <<wt, cmd>>
      /\ run' = [run EXCEPT ![r] = [run[r] EXCEPT !.phase = "done", !.status = "blocked"]]
  BY DEF BeginRefused, Block
<1> DEFINE new == [run[r] EXCEPT !.phase = "done", !.status = "blocked"]
<1>2. new.phase = "done" /\ new.marker = run[r].marker /\ new.at = run[r].at
  BY FieldTypes DEF ControlInv, TypeInv, Run
<1> HIDE DEF new
<1>3. GoesOn(r, "done")
  BY <1>1, <1>2, RecordGoesOn DEF ControlInv, TypeInv, new
<1>4. cmd.run # r /\ (cmd.run = NoRun => cmd = NoCommand)
  BY <1>1 DEF ControlInv, CommandInv
<1>5. StartInv' /\ CommandInv' /\ LockInv'
  BY <1>1, <1>3, <1>4, GoesOnControl
<1>6. SharingInv => SharingInv'
  BY <1>1, <1>3, GoesOnSharing DEF ControlInv
<1> QED
  BY <1>3, <1>5, <1>6 DEF ControlNext

(* The worktree w of run u is removed, and every run that used it is       *)
(* marked.                                                                 *)
LEMMA ResolvedControl ==
  ASSUME ControlInv, NEW u \in Runs, NEW w \in Runs, w = run[u].at,
         run[u].marker \in {w, NoRun},
         NEW phase \in {"saving", "done"}, NEW marker \in {"INTEGRATED", "ADOPTED", "DISCARDED"},
         NEW integ \in {"integrated", "failed"}, MarkResolved(w, u, marker, integ, phase),
         wt' = [wt EXCEPT ![w].there = FALSE],
         run[u].phase = (IF phase = "saving" THEN "cleanup" ELSE "removing"), UNCHANGED lock,
         IF phase = "saving" THEN UNCHANGED cmd ELSE cmd' = NoCommand /\ cmd.run = u
  PROVE  ControlNext
<1>1. \A v \in Runs :
        /\ run'[v].phase = (IF v = u THEN phase ELSE run[v].phase)
        /\ run'[v].marker = (IF run[v].marker = w THEN NoRun ELSE run[v].marker)
        /\ run'[v].at = (IF v = u \/ (run[v].marker = w /\ run[v].phase = "done")
                         THEN NoRun ELSE run[v].at)
        /\ run'[v].before = run[v].before /\ run'[v].delta = run[v].delta
  <2>1. phase \in Phases
    BY DEF Phases
  <2> QED
    BY <2>1, ResolvedFacts DEF ControlInv, TypeInv
<1>2. ~wt'[w].there /\ \A v \in Runs \ {w} : wt'[v] = wt[v]
  BY NewWtThere, TypeFacts DEF ControlInv, TypeInv
<1>3. \A v \in Runs : run[v].phase = "new" => run[v].marker = NoRun /\ run'[v] = run[v]
  <2> SUFFICES ASSUME NEW v \in Runs, run[v].phase = "new"
               PROVE  run[v].marker = NoRun /\ run'[v] = run[v]
    OBVIOUS
  <2>1. run[v].marker = NoRun /\ v # u
    BY UnstartedType DEF ControlInv, StartInv
  <2> QED
    BY <2>1, Names DEF MarkResolved
<1>4. StartInv'
  <2> SUFFICES ASSUME NEW v \in Runs
               PROVE  /\ run'[v].phase = "new" => run'[v] = Unstarted /\ ~wt'[v].there
                      /\ run'[v].phase = "prepared" =>
                           run'[v].before = NoChanges /\ run'[v].delta = NoChanges
                      /\ wt'[v].there => run'[v].marker = v
    BY DEF StartInv, Unstarted, NoChanges
  <2>1. run'[v].phase = "new" => run'[v] = Unstarted /\ ~wt'[v].there
    BY <1>1, <1>2, <1>3 DEF ControlInv, StartInv
  <2>2. run'[v].phase = "prepared" => run'[v].before = NoChanges /\ run'[v].delta = NoChanges
    BY <1>1 DEF ControlInv, StartInv
  <2>3. wt'[v].there => run'[v].marker = v
    BY <1>1, <1>2 DEF ControlInv, StartInv
  <2> QED
    BY <2>1, <2>2, <2>3
<1>5. CommandInv'
  <2> SUFFICES /\ cmd'.run = NoRun => cmd' = NoCommand
               /\ \A r \in Runs :
                    /\ cmd'.run = r =>
                         /\ cmd'.op # "none"
                         /\ run'[r].phase \in {"integrating", "picking", "cleanup", "saving",
                                               "copying", "removing"}
                    /\ run'[r].phase = "copying" =>
                         cmd'.run = r /\ cmd'.op = "adopt" /\ DOMAIN cmd'.before = Paths
                    /\ run'[r].phase = "removing" =>
                         cmd'.run = r /\ (cmd'.op = "discard" \/ (cmd'.op = "adopt" /\ cmd'.todo = {}))
    BY DEF CommandInv, NoCommand, NoRun, NoChanges
  <2>1. CASE phase = "saving"
    BY <1>1, <2>1 DEF ControlInv, CommandInv
  <2>2. CASE phase = "done"
    BY <1>1, <2>2, NoCommandFacts, Names DEF ControlInv, CommandInv
  <2> QED
    BY <2>1, <2>2
<1>6. LockInv'
  BY <1>1 DEF ControlInv, LockInv, NoRun
<1>7. ASSUME SharingInv PROVE SharingInv'
  <2>1. \A v \in Runs : run[v].marker # NoRun => run[v].marker \in Runs
    BY TypeFacts DEF ControlInv, TypeInv, Run
  <2>2. ASSUME NEW v \in Runs
        PROVE  /\ run'[v].phase # "dead" => run'[v].marker = run'[v].at
               /\ run'[v].marker # NoRun => wt'[run'[v].marker].there
    <3>1. run'[v].marker # NoRun => wt'[run'[v].marker].there
      BY <1>1, <1>2, <1>7, <2>1 DEF SharingInv
    <3>2. CASE v = u
      BY <1>1, <1>7, <3>1, <3>2 DEF SharingInv
    <3>3. CASE v # u /\ run[v].marker # w
      BY <1>1, <1>7, <3>1, <3>3 DEF SharingInv
    <3>4. CASE v # u /\ run[v].marker = w
      <4>1. ~(run[v].phase \notin {"done", "dead"})
        BY <1>3, <1>7, <3>4, Names DEF SharingInv, Active
      <4> QED
        BY <1>1, <3>1, <3>4, <4>1
    <3> QED
      BY <3>2, <3>3, <3>4
  <2>3. \A v, x \in Runs :
          v # x /\ Active(v)' /\ Active(x)' /\ run'[v].at # NoRun => run'[x].at # run'[v].at
    BY <1>1, <1>7 DEF SharingInv, Active
  <2> QED
    BY <2>2, <2>3 DEF SharingInv, NoRun
<1> QED
  BY <1>4, <1>5, <1>6, <1>7 DEF ControlNext

LEMMA CleanupControl ==
  ASSUME ControlInv, NEW u \in Runs, Cleanup(u), SharingInv \/ run[u].marker = NoRun \/ run[u].marker = run[u].at
  PROVE  ControlNext
<1> DEFINE w == run[u].marker
<1>1. /\ run[u].phase = "cleanup" /\ UNCHANGED <<lock, cmd>> /\ run[u] \in Run
  BY TypeFacts DEF Cleanup, ControlInv, TypeInv
<1>2. CASE w # NoRun /\ CleanupAllowed(u)
  <2>1. w \in Runs /\ w = run[u].at /\ run[u].marker \in {w, NoRun}
    BY <1>1, <1>2 DEF Run, ControlInv, TypeInv, AtInv
  <2>2. /\ wt' = [wt EXCEPT ![w].there = FALSE]
        /\ MarkResolved(w, u, "INTEGRATED", "integrated", "saving")
    BY <1>2 DEF Cleanup
  <2> QED
    BY <1>1, <2>1, <2>2, ResolvedControl
<1>3. CASE ~(w # NoRun /\ CleanupAllowed(u))
  <2> DEFINE status == IF cmd.run = u THEN run[u].status ELSE "partial"
             rec == Moved(u, "saving", status, run[u].integ, run[u].unit)
  <2>1. /\ run' = [run EXCEPT ![u].phase = "saving", ![u].status = status] /\ UNCHANGED wt
    BY <1>1, <1>3 DEF Cleanup, ControlInv, TypeInv, TypeOK, Run
  <2> HIDE DEF status
  <2>2. run' = [run EXCEPT ![u] = Moved(u, "saving", status, run[u].integ, run[u].unit)]
    BY <2>1, StatusMoves DEF ControlInv, TypeInv
  <2>3. rec.phase = "saving" /\ rec.marker = run[u].marker /\ rec.at = run[u].at
    BY MovedFacts DEF ControlInv, TypeInv
  <2> HIDE DEF rec
  <2>4. GoesOn(u, "saving")
    BY <2>1, <2>2, <2>3, RecordGoesOn DEF ControlInv, TypeInv, rec
  <2>5. (cmd.run = NoRun => cmd = NoCommand) /\ (cmd.run = u => cmd.op # "none")
    BY DEF ControlInv, CommandInv
  <2>6. StartInv' /\ CommandInv' /\ LockInv'
    BY <1>1, <2>4, <2>5, GoesOnControl
  <2>7. SharingInv => SharingInv'
    BY <1>1, <2>4, GoesOnSharing DEF ControlInv
  <2> QED
    BY <2>6, <2>7 DEF ControlNext
<1> QED
  BY <1>2, <1>3

LEMMA RemoveWorktreeControl ==
  ASSUME ControlInv, NEW u \in Runs, RemoveWorktree(u)
  PROVE  ControlNext
<1> DEFINE w == run[u].at
<1>1. /\ run[u].phase = "removing" /\ cmd' = NoCommand /\ UNCHANGED lock
  BY DEF RemoveWorktree
<1>2. /\ w \in Runs /\ wt' = [wt EXCEPT ![w].there = FALSE]
      /\ \/ MarkResolved(w, u, "ADOPTED", "integrated", "done")
         \/ MarkResolved(w, u, "DISCARDED", "failed", "done")
  BY RemoveWorktreeType DEF ControlInv
<1>3. run[u].marker \in {w, NoRun} /\ cmd.run = u
  BY <1>1 DEF ControlInv, CommandInv, TypeInv, AtInv
<1> QED
  BY <1>1, <1>2, <1>3, ResolvedControl

LEMMA InitControl == Init => ControlInv /\ SharingInv
<1> SUFFICES ASSUME Init PROVE ControlInv /\ SharingInv
  OBVIOUS
<1>1. \A r \in Runs : run[r] = Unstarted /\ ~wt[r].there
  BY DEF Init, NoWorktree
<1>2. cmd = NoCommand
  BY DEF Init
<1>3. StartInv /\ LockInv /\ SharingInv
  BY <1>1, UnstartedType, Names DEF StartInv, LockInv, SharingInv, Active
<1>4. CommandInv
  BY <1>1, <1>2, UnstartedType, NoCommandFacts, Names DEF CommandInv
<1> QED
  BY <1>3, <1>4, InitTypeInv DEF ControlInv

LEMMA ControlStep ==
  ASSUME ControlInv, [Next]_vars
  PROVE  ControlInv' /\ (SharingInv /\ ~Overlap => SharingInv')
<1>1. ASSUME NEW r \in Runs, RunStep(r)
      PROVE  TypeInv' /\ ControlNext
  <2>1. CASE Delegate(r)
    BY <2>1, DelegateType, DelegateControl DEF ControlInv
  <2>2. CASE \E u \in Runs : Retry(r, u)
    BY <2>2, RetryType, RetryControl DEF ControlInv
  <2>3. CASE Begin(r)
    BY <2>3, BeginType, BeginControl DEF ControlInv
  <2>4. CASE BeginRefused(r)
    BY <2>4, BeginRefusedType, BeginRefusedControl DEF ControlInv
  <2>5. CASE Execute(r)
    BY <2>5, ExecuteType, ExecuteControl DEF ControlInv
  <2>6. CASE \E ok \in BOOLEAN : Finish(r, ok)
    BY <2>6, FinishType, FinishControl DEF ControlInv
  <2>7. CASE AcquireRoot(r)
    BY <2>7, AcquireRootType, AcquireRootControl DEF ControlInv
  <2>8. CASE Pick(r)
    BY <2>8, PickType, PickControl DEF ControlInv
  <2>9. CASE Cleanup(r)
    BY <2>9, CleanupType, CleanupControl DEF ControlInv, TypeInv, AtInv
  <2>10. CASE Save(r)
    BY <2>10, SaveType, SaveControl DEF ControlInv
  <2> QED
    BY <1>1, <2>1, <2>2, <2>3, <2>4, <2>5, <2>6, <2>7, <2>8, <2>9, <2>10 DEF RunStep
<1>2. ASSUME NEW u \in Runs, OperatorStep(u)
      PROVE  TypeInv' /\ ControlNext
  <2>1. CASE AdoptIntegrated(u)
    BY <2>1, CommandType, CommandControl DEF AdoptIntegrated, ControlInv
  <2>2. CASE AdoptCommitted(u)
    BY <2>2, CommandType, CommandControl DEF AdoptCommitted, ControlInv
  <2>3. CASE AdoptFiles(u)
    BY <2>3, AdoptFilesType, AdoptFilesControl DEF ControlInv
  <2>4. CASE \E p \in Paths : CopyFile(u, p)
    BY <2>4, CopyFileType, CopyFileControl DEF ControlInv
  <2>5. CASE RecordAdopted(u)
    BY <2>5, RecordAdoptedType, RecordAdoptedControl DEF ControlInv
  <2>6. CASE AdoptFails(u)
    <3>1. DOMAIN cmd.files \subseteq DOMAIN cmd.before
      <4>1. run[u].phase = "copying" /\ cmd.files \in Changes
        BY <2>6 DEF AdoptFails, ControlInv, TypeInv, TypeOK
      <4> QED
        BY <4>1, ChangesElim DEF ControlInv, CommandInv
    <3> QED
      BY <2>6, <3>1, AdoptFailsType, AdoptFailsControl DEF ControlInv
  <2>7. CASE Discard(u)
    BY <2>7, CommandType, CommandControl DEF Discard, ControlInv
  <2>8. CASE RemoveWorktree(u)
    BY <2>8, RemoveWorktreeType, RemoveWorktreeControl DEF ControlInv
  <2>9. CASE CommitPartial(u)
    BY <2>9, CommitPartialType, CommitPartialControl DEF ControlInv
  <2> QED
    BY <1>2, <2>1, <2>2, <2>3, <2>4, <2>5, <2>6, <2>7, <2>8, <2>9 DEF OperatorStep
<1>3. ASSUME NEW u \in Runs, Crash(u)
      PROVE  TypeInv' /\ ControlNext
  BY <1>3, CrashType, CrashControl DEF ControlInv
<1>4. CASE UserStep
  BY <1>4, UserType, UserControl DEF ControlInv, ControlNext
<1>5. CASE UNCHANGED vars
  BY <1>5 DEF vars, ControlInv, TypeInv, TypeOK, AtInv, StartInv, CommandInv, LockInv, SharingInv,
       Active, Unstarted, NoChanges, NoCommand, NoRun
<1> QED
  BY <1>1, <1>2, <1>3, <1>4, <1>5 DEF Next, ControlInv, ControlNext

-----------------------------------------------------------------------------
(* The variables keep their shape: trees, logs, records and commands.      *)
THEOREM TypeCorrect == Spec => []TypeOK
<1>1. ControlInv => TypeOK
  BY DEF ControlInv, TypeInv
<1> QED
  BY <1>1, InitControl, ControlStep, PTL DEF Spec

(* A worktree that still exists is offered for resolution.                 *)
THEOREM KeptTheorem == Spec => []KeptIsPending
<1>1. ControlInv => KeptIsPending
  BY DEF ControlInv, StartInv, KeptIsPending, Finalized
<1> QED
  BY <1>1, InitControl, ControlStep, PTL DEF Spec

(* When a retry and another user of its worktree do not overlap before the *)
(* retry has announced itself, no worktree is removed under a live run.    *)
THEOREM LiveTheorem == ~Overlap => (Spec => []LiveWorktree)
<1>1. ControlInv /\ SharingInv => LiveWorktree
  BY DEF SharingInv, LiveWorktree, Live, Lost, Isolated, Executing
<1>2. ASSUME ~Overlap PROVE ControlInv /\ SharingInv /\ [Next]_vars => (ControlInv /\ SharingInv)'
  BY <1>2, ControlStep
<1>3. ASSUME ~Overlap PROVE Spec => []LiveWorktree
  <2>1. ControlInv /\ SharingInv /\ [Next]_vars => (ControlInv /\ SharingInv)'
    BY <1>2, <1>3
  <2> QED
    BY <1>1, <2>1, InitControl, PTL DEF Spec
<1> QED
  BY <1>3

-----------------------------------------------------------------------------
(* What a step does to the branches: none on the protected one, and        *)
(* nothing at all in the middle of a Git operation.                        *)
Advances(rt, to) ==
  /\ to.heads[Protected] = rt.heads[Protected]
  /\ rt.unfinished /\ to.unfinished => to.heads = rt.heads /\ to.branch = rt.branch

LEMMA ProtectedExists ==
  ASSUME NEW rt, WellRooted(rt)
  PROVE  Protected \in DOMAIN rt.heads
BY RootFacts DEF Protected

LEMMA AutoCommitAdvances ==
  ASSUME NEW r \in Runs, NEW rec \in Run, NEW now, NEW rt, WellRooted(rt), NEW ok \in BOOLEAN,
         NEW res, res = AutoCommitted(r, rec, now, rt, ok)
  PROVE  Advances(rt, res.root)
<1>1. \/ NoCommit(rec, rt, res) \/ RootCommit(r, rec, now, rt, res)
      \/ WtCommit(r, rec, now, rt, res)
  BY AutoCommitCases
<1>2. CASE res.root = rt
  BY <1>2 DEF Advances
<1>3. CASE RootCommit(r, rec, now, rt, res)
  <2> DEFINE log == res.sha
  <2>1. log \in Seq(Commit) /\ res.root = [rt EXCEPT !.heads[rt.branch] = log]
        /\ rt.branch # Protected /\ ~rt.unfinished
    BY <1>3, RootFacts, CommittedType DEF RootCommit
  <2> HIDE DEF log
  <2> QED
    BY <2>1, NewHead, ProtectedExists DEF Advances
<1> QED
  BY <1>1, <1>2, <1>3 DEF NoCommit, WtCommit

LEMMA PickAdvances ==
  ASSUME ControlInv, NEW w \in Runs, ~root.unfinished, NEW rt,
         rt \in {root, PickedRoot(w), StuckRoot(w)}
  PROVE  Advances(root, rt)
<1>1. WellRooted(root) /\ Protected \in DOMAIN root.heads
  BY TypeFacts, ProtectedExists DEF ControlInv, TypeInv
<1>2. EnsureWorkBranch(root).heads[Protected] = root.heads[Protected]
      /\ EnsureWorkBranch(root).branch # Protected
      /\ Protected \in DOMAIN EnsureWorkBranch(root).heads
  BY <1>1, EnsureFacts, ProtectedExists
<1>3. CASE rt = root
  BY <1>3 DEF Advances
<1>4. CASE rt = StuckRoot(w)
  BY <1>2, <1>4, StuckRootFacts DEF Advances, ControlInv, TypeInv
<1>5. CASE rt = PickedRoot(w)
  BY <1>2, <1>5, PickedRootFacts DEF Advances, ControlInv, TypeInv
<1> QED
  BY <1>3, <1>4, <1>5

LEMMA EnsureAdvances ==
  ASSUME NEW rt, WellRooted(rt), ~rt.unfinished, NEW to, Advances(EnsureWorkBranch(rt), to)
  PROVE  Advances(rt, to)
BY EnsureFacts, ProtectedExists DEF Advances

LEMMA RootAdvances ==
  ASSUME ControlInv, [Next]_vars
  PROVE  Advances(root, root')
<1>1. WellRooted(root)
  BY TypeFacts DEF ControlInv, TypeInv
<1>2. CASE root'.heads = root.heads /\ (root'.branch = root.branch \/ ~root.unfinished)
  BY <1>2 DEF Advances
<1>3. ASSUME NEW r \in Runs, RunStep(r), ~(UNCHANGED root)
      PROVE  Advances(root, root')
  <2>1. CASE Begin(r)
    <3>1. root' = EnsureWorkBranch(root) /\ ~root.unfinished
      BY <1>3, <2>1 DEF Begin, Refused
    <3>2. Advances(EnsureWorkBranch(root), EnsureWorkBranch(root))
      BY DEF Advances
    <3> QED
      BY <1>1, <3>1, <3>2, EnsureAdvances
  <2>2. CASE Execute(r)
    <3>1. PICK written \in SUBSET Paths, undone \in SUBSET Paths :
            root' = [root EXCEPT !.tree = Written(r, written, undone)]
      BY <1>3, <2>2, ExecuteCases DEF ControlInv, TypeInv
    <3>2. Written(r, written, undone) \in Tree
      BY WrittenType DEF ControlInv, TypeInv
    <3> QED
      BY <1>1, <1>2, <3>1, <3>2, NewTreeOnly
  <2>3. CASE \E ok \in BOOLEAN : Finish(r, ok)
    <3>1. Delivered(r) \in Run
      BY DeliveredFacts DEF ControlInv, TypeInv
    <3>2. PICK ok \in BOOLEAN :
            root' = AutoCommitted(r, Delivered(r), DetailsAt(r), root, ok).root
      BY <1>3, <2>3, FinishCases DEF FinishedAsIs, FinishedWith
    <3> QED
      BY <1>1, <3>1, <3>2, AutoCommitAdvances
  <2>4. CASE Pick(r)
    <3>1. run[r].at \in Runs
      <4>1. run[r] \in Run /\ run[r].at # NoRun
        BY <2>4, TypeFacts DEF Pick, ControlInv, TypeInv, AtInv
      <4> QED
        BY <4>1 DEF Run
    <3>2. ~PickRefused(r) /\ root' \in {PickedRoot(run[r].at), StuckRoot(run[r].at)}
      BY <1>3, <2>4, PickCases
    <3> QED
      BY <3>1, <3>2, PickAdvances DEF PickRefused
  <2> QED
    BY <1>3, <2>1, <2>2, <2>3, <2>4, RetryCases
       DEF RunStep, Delegate, CreateIsolatedWorktree, BeginRefused, AcquireRoot, Cleanup, Save
<1>4. ASSUME NEW u \in Runs, OperatorStep(u), ~(UNCHANGED root)
      PROVE  Advances(root, root')
  <2>1. CASE \E p \in Paths : CopyFile(u, p)
    <3>1. root'.heads = root.heads /\ root'.branch = root.branch
      BY <1>1, <2>1 DEF CopyFile, WellRooted, Root
    <3> QED
      BY <1>2, <3>1
  <2>2. CASE AdoptFails(u)
    <3>1. root'.heads = root.heads /\ root'.branch = root.branch
      BY <1>1, <2>2 DEF AdoptFails, WellRooted, Root
    <3> QED
      BY <1>2, <3>1
  <2>3. CASE CommitPartial(u)
    <3>1. /\ run[u] \in Run /\ WellRooted(CommitRoot(u)) /\ ~root.unfinished
      BY <1>1, <2>3, TypeFacts, EnsureFacts, CommitPartialCases DEF ControlInv, TypeInv, CommitRoot
    <3>2. PICK ok \in BOOLEAN :
            root' = AutoCommitted(u, run[u], DetailsAt(u), CommitRoot(u), ok).root
      BY <2>3, CommitPartialCases DEF CommittedAs
    <3>3. Advances(CommitRoot(u), root')
      BY <3>1, <3>2, AutoCommitAdvances
    <3> QED
      BY <1>1, <3>1, <3>3, EnsureAdvances DEF CommitRoot
  <2> QED
    BY <1>4, <2>1, <2>2, <2>3
       DEF OperatorStep, AdoptIntegrated, AdoptCommitted, AdoptFiles, RecordAdopted, Discard,
           RemoveWorktree
<1>5. ASSUME NEW u \in Runs, Crash(u), ~(UNCHANGED root)
      PROVE  Advances(root, root')
  <2>1. run[u].phase = "picking" /\ ~PickRefused(u)
        /\ root' \in {PickedRoot(run[u].at), StuckRoot(run[u].at)}
    BY <1>5, CrashCases
  <2>2. run[u].at \in Runs
    <3>1. run[u] \in Run /\ run[u].at # NoRun
      BY <2>1, TypeFacts DEF ControlInv, TypeInv, AtInv
    <3> QED
      BY <3>1 DEF Run
  <2> QED
    BY <2>1, <2>2, PickAdvances DEF PickRefused
<1>6. CASE UserStep
  <2>1. root'.heads = root.heads /\ (root'.branch = root.branch \/ ~root.unfinished)
    BY <1>1, <1>6 DEF UserStep, UserEdits, UserSwitches, UserAborts, UserFixes, UserActs,
         WellRooted, Root
  <2> QED
    BY <1>2, <2>1
<1>7. CASE UNCHANGED root
  BY <1>2, <1>7
<1> QED
  BY <1>3, <1>4, <1>5, <1>6, <1>7 DEF Next, vars

(* No branch the user protects ever moves.                                 *)
THEOREM ProtectedTheorem == Spec => []ProtectedStays
<1>1. Init => ProtectedStays
  BY DEF Init, ProtectedStays, Protected
<1>2. ControlInv /\ ProtectedStays /\ [Next]_vars => ProtectedStays'
  BY RootAdvances DEF ProtectedStays, Advances, Protected
<1> QED
  BY <1>1, <1>2, InitControl, ControlStep, PTL DEF Spec

(* No commit is made in a root worktree in the middle of a Git operation.  *)
THEOREM UnfinishedTheorem == Spec => UnfinishedIsLeftAlone
<1>1. ControlInv /\ [Next]_vars =>
        [(root.unfinished /\ root'.unfinished) =>
           (root'.heads = root.heads /\ root'.branch = root.branch)]_vars
  BY RootAdvances DEF Advances
<1> QED
  BY <1>1, InitControl, ControlStep, PTL DEF Spec, UnfinishedIsLeftAlone
=============================================================================
