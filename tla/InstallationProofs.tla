------------------------- MODULE InstallationProofs -------------------------
(***************************************************************************)
(* For any number of repositories, versions, changes of the user and       *)
(* failures: backups stay the originals, an installation does not take its *)
(* own work for the user's, guarded changes survive, and an uninstall that *)
(* preserves nothing gives every path back.                                *)
(***************************************************************************)
EXTENDS Installation, TLAPS

(* The records of the manifest, or of the install that runs.               *)
RecordsInv(rs) ==
  \A i \in DOMAIN rs :
    /\ i \in Managed => (rs[i].after = NoHash <=> i \in Directories)
    /\ i \in {"executable", "agent"} => rs[i].after.user = "none"
    /\ i = "codex" => rs[i].after.ours = 1

(* How far the command has come.                                           *)
JobInv ==
  /\ job.op = "none" => job = NoJob
  /\ job.op = "uninstall" => Installed /\ job.records = NoRecords /\ job.done \subseteq Recorded
  /\ job.op = "install" =>
       /\ job.repo \in Repos /\ job.at >= 1 /\ job.done \subseteq Recorded \ WrittenSoFar
       /\ job.at < Order.dropped => job.done = {}
       /\ job.at > Order.dropped => Recorded \subseteq WrittenSoFar \cup job.done
       /\ \A i \in WrittenSoFar : i \in Managed \cup {job.repo} /\ Place(i) < job.at
       /\ \A i \in Managed \cup {job.repo} :
            Place(i) < job.at => i \in WrittenSoFar \/ (i = "codex" /\ i \notin Recorded)

(* What no manifest and no running install lists is as the user left it,   *)
(* and every backup is what the user had.                                  *)
BackupInv ==
  /\ \A i \in Items \ (exposed \cup Recorded \cup WrittenSoFar) : content[i] = original[i]
  /\ BackupIsOriginal
  /\ \A i \in WrittenSoFar \ exposed : job.records[i].before = original[i]
  /\ job.op = "install" => \A i \in job.done \ exposed : content[i] = original[i]
  /\ "codex" \notin exposed => original["codex"].ours = 0

Matches(i, rec) == rec.after # NoHash => content[i] = rec.after

(* What nobody touched is as the last completed command recorded it, and   *)
(* what the running install wrote is as its records say.                   *)
HashInv ==
  /\ \A i \in (Recorded \cap Managed) \ (touched \cup WrittenSoFar \cup job.done) :
       Matches(i, manifest.records[i])
  /\ \A i \in WrittenSoFar \cap Managed : Matches(i, job.records[i])

(* What the preflight of an unforced command saw still holds of the paths  *)
(* the command has yet to come to.                                         *)
PreflightInv ==
  job.mode = "checked" =>
    /\ job.op = "install" =>
         \A i \in Recorded \cap {"executable", "agent"} : content[i].user = "none"
    /\ job.op = "uninstall" =>
         \A i \in (Recorded \cap Managed) \ (Directories \cup job.done) :
           content[i] = manifest.records[i].after

(* What an uninstall has dealt with.                                       *)
RemovalInv ==
  job.op = "uninstall" =>
    \A i \in job.done \ {"config"} :
      IF i = "codex" THEN content[i].ours = 0
      ELSE job.mode # "preserve" => content[i] = manifest.records[i].before

IInv == /\ TypeOK /\ RecordsInv(manifest.records) /\ RecordsInv(job.records)
        /\ JobInv /\ BackupInv /\ HashInv /\ PreflightInv /\ RemovalInv

-----------------------------------------------------------------------------

(* The places of the steps, and that no repository is another step.        *)
LEMMA Places ==
  /\ \A r \in Repos : r \notin Managed /\ Place(r) = 10 /\ r # "none"
  /\ Place("runtime") = 1 /\ Place("executable") = 2 /\ Place("config") = 3
  /\ Place("markdown") = 4 /\ Place("settings") = 5 /\ Place("codex") = 6
  /\ Place("skill") = 7 /\ Place("agent") = 8
  /\ Order.sync = 9 /\ Order.dropped = 11 /\ Order.manifest = 12
  /\ \A i \in Items : Place(i) \in 1..10
  /\ \A i \in Managed : Place(i) <= 8
BY InstallationAssumption DEF Managed, Items, Place, Order

(* An install leaves content of the right shape, and the user's part of    *)
(* every path it merges with.                                              *)
LEMMA WrittenType ==
  ASSUME NEW i \in Items, NEW c \in Content, NEW v \in 1..MaxVersion
  PROVE  /\ Written(i, c, v) \in Content
         /\ i \in Merged \cup {"config"} /\ c.user = "edit" => Written(i, c, v).user = "edit"
         /\ i \in {"executable", "agent"} => Written(i, c, v).user = "none"
         /\ i = "codex" => Written(i, c, v).ours = 1
BY InstallationAssumption DEF Written, Content, Merged, Missing

LEMMA SynchronizedType ==
  ASSUME NEW c \in Content
  PROVE  Synchronized(c) \in Content /\ Synchronized(c).user = c.user
BY InstallationAssumption DEF Synchronized, Content

(* Replacing one record.                                                   *)
LEMMA WithRecords ==
  ASSUME NEW rs, AreRecords(rs), NEW i \in Items, NEW rec \in RecordType
  PROVE  AreRecords(With(rs, i, rec))
BY DEF AreRecords, With

LEMMA NoRecordsType == AreRecords(NoRecords) /\ DOMAIN NoRecords = {}
BY DEF AreRecords, NoRecords

-----------------------------------------------------------------------------

LEMMA InitTypeOK == Init => TypeOK
<1> SUFFICES ASSUME Init PROVE TypeOK
  OBVIOUS
<1>1. content \in [Items -> Content]
  BY InstallationAssumption DEF Init, Content, Missing
<1> QED
  BY <1>1, NoRecordsType, InstallationAssumption
     DEF Init, TypeOK, NoManifest, NoJob, Installed, Order

LEMMA TypePreserved == TypeOK /\ JobInv /\ [Next]_vars => TypeOK'
<1> SUFFICES ASSUME TypeOK, JobInv, [Next]_vars PROVE TypeOK'
  OBVIOUS
<1> USE InstallationAssumption DEF TypeOK, Installed, Recorded, WrittenSoFar
<1>a. Missing \in Content /\ NoJob.records = NoRecords
  BY DEF Missing, Content, NoJob
<1>b. Order.manifest = 12
  BY Places
<1>1. CASE UNCHANGED vars
  BY <1>1 DEF vars
<1>2. ASSUME NEW r \in Repos, NEW mode \in {"checked", "force"}, StartInstall(r, mode)
      PROVE  TypeOK'
  <2>1. job' = [op |-> "install", repo |-> r, mode |-> mode, records |-> NoRecords,
                at |-> 1, done |-> {}]
    BY <1>2 DEF StartInstall, NoJob
  <2>2. /\ job'.records = NoRecords
        /\ job' \in [op : {"none", "install", "uninstall"}, repo : Repos \cup {"none"},
                    mode : {"none", "checked", "force", "preserve"},
                    records : {job'.records}, at : 0..12, done : SUBSET Items]
    BY <2>1
  <2> QED
    BY <1>2, <1>b, <2>2, NoRecordsType DEF StartInstall
<1>3. ASSUME NEW i \in Items, InstallItem(i) PROVE TypeOK'
  <2> USE DEF InstallItem
  <2>1. job.repo \in Repos /\ version[job.repo] \in 1..MaxVersion
    BY <1>3 DEF JobInv
  <2>2. CASE Skipped(i)
    BY <1>3, <2>2, Places DEF Order
  <2>3. CASE ~Skipped(i)
    <3> DEFINE new == Written(i, content[i], version[job.repo])
    <3>1. new \in Content /\ Record(i, new) \in RecordType
      BY <2>1, WrittenType DEF Record, RecordType, AreRecords
    <3>2. AreRecords(With(job.records, i, Record(i, new)))
      BY <3>1, WithRecords
    <3>3. job.at + 1 \in 0..12
      BY <1>3, <1>b, Places
    <3>4. job' = [job EXCEPT !.at = @ + 1, !.records = With(@, i, Record(i, new))]
      BY <1>3, <2>3
    <3>5. /\ job'.records = With(job.records, i, Record(i, new))
          /\ job' \in [op : {"none", "install", "uninstall"}, repo : Repos \cup {"none"},
                      mode : {"none", "checked", "force", "preserve"},
                      records : {job'.records}, at : 0..12, done : SUBSET Items]
      BY <3>3, <3>4
    <3>6. content' \in [Items -> Content]
      BY <1>3, <2>3, <3>1
    <3> QED
      BY <1>3, <1>b, <3>2, <3>5, <3>6
  <2> QED
    BY <2>2, <2>3
<1>4. CASE SyncAgents
  <2> DEFINE new == Synchronized(content["agent"])
  <2>1. "agent" \in Items /\ new \in Content
    BY SynchronizedType DEF Items, Managed
  <2>2. AreRecords([job.records EXCEPT !["agent"].after = new])
    BY <2>1 DEF AreRecords, RecordType
  <2>3. job.at + 1 \in 0..12
    BY <1>4, Places DEF SyncAgents, At
  <2>4. job' = [job EXCEPT !.at = @ + 1, !.records["agent"].after = new]
    BY <1>4 DEF SyncAgents
  <2>5. /\ job'.records = [job.records EXCEPT !["agent"].after = new]
        /\ job' \in [op : {"none", "install", "uninstall"}, repo : Repos \cup {"none"},
                    mode : {"none", "checked", "force", "preserve"},
                    records : {job'.records}, at : 0..12, done : SUBSET Items]
    BY <2>3, <2>4
  <2> QED
    BY <1>4, <1>b, <2>1, <2>2, <2>5 DEF SyncAgents
<1>5. ASSUME NEW i \in Items, RestoreDropped(i) PROVE TypeOK'
  BY <1>5 DEF RestoreDropped, Dropped, AreRecords, RecordType
<1>14. CASE DroppedAreRestored
  BY <1>14 DEF DroppedAreRestored, At, Order
<1>6. CASE WriteManifest
  BY <1>6, <1>a, NoRecordsType DEF WriteManifest, At, Order, JobInv, NoJob
<1>7. CASE InstallFails \/ MarkerRaises
  <2>1. job' = NoJob /\ UNCHANGED <<manifest, version, edits, original>>
    BY <1>7 DEF InstallFails, MarkerRaises, Abandon
  <2>2. NoJob \in [op : {"none", "install", "uninstall"}, repo : Repos \cup {"none"},
                  mode : {"none", "checked", "force", "preserve"},
                  records : {NoJob.records}, at : 0..12, done : SUBSET Items]
    BY DEF NoJob
  <2>3. WrittenSoFar \subseteq Items /\ HalfDone \subseteq Items /\ job.done \subseteq Items
    BY DEF AreRecords, Items, Managed, HalfDone, Directories, Dropped
  <2>4. exposed' \subseteq Items /\ touched' \subseteq Items
    BY <1>7, <2>3 DEF InstallFails, MarkerRaises, Abandon
  <2>6. \A i \in Items : Torn(i, content[i]) \in Content
    BY <1>a DEF Torn, WithoutOurs, Content
  <2>5. content' \in [Items -> Content] /\ failures' \in 0..MaxFailures
    <3>1. failures' \in 0..MaxFailures
      BY <1>7 DEF InstallFails, MarkerRaises
    <3>2. \/ UNCHANGED content
          \/ \E i \in HalfDone : content' = [content EXCEPT ![i] = Torn(i, @)]
      BY <1>7 DEF InstallFails, MarkerRaises
    <3>3. ASSUME NEW i \in HalfDone, content' = [content EXCEPT ![i] = Torn(i, @)]
          PROVE  content' \in [Items -> Content]
      <4>1. i \in Items /\ Torn(i, content[i]) \in Content
        BY <2>3, <2>6
      <4> HIDE DEF TypeOK
      <4>2. content \in [Items -> Content]
        BY DEF TypeOK
      <4> QED
        BY <3>3, <4>1, <4>2
    <3> QED
      BY <3>1, <3>2, <3>3
  <2> QED
    BY <1>a, <1>b, <2>1, <2>2, <2>4, <2>5, NoRecordsType
<1>8. ASSUME NEW mode \in {"checked", "force", "preserve"}, StartUninstall(mode) PROVE TypeOK'
  BY <1>8, NoRecordsType DEF StartUninstall, NoJob, Order
<1>9. ASSUME NEW i \in Items, UninstallItem(i) PROVE TypeOK'
  <2>1. Removed(i, content[i], manifest.records[i], job.mode) \in Content
    <3>1. i \in Recorded /\ content[i] \in Content
      BY <1>9 DEF UninstallItem, IsNextRemoved
    <3>2. manifest.records[i].before \in Content
      BY <3>1 DEF AreRecords, RecordType
    <3>3. WithoutOurs(content[i]) \in Content
      BY <3>1 DEF WithoutOurs, Content
    <3> QED
      BY <3>1, <3>2, <3>3 DEF Removed
  <2> QED
    BY <1>9, <2>1 DEF UninstallItem
<1>10. CASE RemoveManifest \/ UninstallFails
  BY <1>10, <1>a, NoRecordsType
     DEF RemoveManifest, UninstallFails, NoManifest, NoJob, Order
<1>11. ASSUME NEW i \in Items, UserEdits(i) \/ UserDeletes(i) PROVE TypeOK'
  <2>1. [content[i] EXCEPT !.user = "edit"] \in Content
    BY DEF Content
  <2> QED
    BY <1>11, <1>a, <2>1 DEF UserEdits, UserDeletes, UserChanges
<1>12. ASSUME NEW r \in Repos, UserCommits(r) PROVE TypeOK'
  BY <1>12 DEF UserCommits
<1>13. CASE SelfUpdate
  BY <1>2, <1>13 DEF SelfUpdate
<1> QED
  BY <1>1, <1>2, <1>3, <1>4, <1>5, <1>6, <1>7, <1>8, <1>9, <1>10, <1>11, <1>12, <1>13, <1>14
     DEF Next, InstallStep, UninstallStep

-----------------------------------------------------------------------------

(* What a command leaves of job, in terms of its fields.                   *)
LEMMA JobEnds ==
  job' = NoJob => /\ job'.op = "none" /\ job'.mode = "none" /\ job'.done = {}
                  /\ job'.records = NoRecords /\ WrittenSoFar' = {}
BY NoRecordsType DEF NoJob, WrittenSoFar

LEMMA InstallItemEffect ==
  ASSUME TypeOK, JobInv, NEW i \in Items, InstallItem(i)
  PROVE  /\ job.op = "install" /\ job'.op = "install" /\ job'.repo = job.repo
         /\ job'.mode = job.mode /\ job.done = {} /\ job'.done = {} /\ job'.at = job.at + 1
         /\ job.at = Place(i) /\ i \in Managed \cup {job.repo} /\ i \notin WrittenSoFar
         /\ UNCHANGED <<manifest, version, edits, failures, original, exposed, touched>>
         /\ \/ /\ Skipped(i) /\ job'.records = job.records /\ UNCHANGED content
            \/ /\ WrittenSoFar' = WrittenSoFar \cup {i}
               /\ \A j \in WrittenSoFar : job'.records[j] = job.records[j]
               /\ \A j \in Items \ {i} : content'[j] = content[j]
               /\ \E v \in 1..MaxVersion :
                    /\ content'[i] = Written(i, content[i], v)
                    /\ job'.records[i] = Record(i, content'[i])
                    /\ Record(i, content'[i]) \in RecordType
<1> USE DEF TypeOK, JobInv, WrittenSoFar, Items
<1>1. /\ job.op = "install" /\ job.repo \in Repos /\ version[job.repo] \in 1..MaxVersion
      /\ job.at = Place(i) /\ job.done = {}
  BY Places DEF InstallItem
<1>2. i \notin WrittenSoFar
  <2>1. \A j \in WrittenSoFar : Place(j) < job.at
    BY <1>1
  <2> QED
    BY <1>1, <2>1, Places
<1>3. CASE Skipped(i)
  BY <1>1, <1>2, <1>3 DEF InstallItem
<1>4. CASE ~Skipped(i)
  <2> DEFINE new == Written(i, content[i], version[job.repo])
  <2>1. new \in Content /\ Record(i, new) \in RecordType
    BY <1>1, WrittenType DEF Record, RecordType, AreRecords, Recorded
  <2>2. job' = [job EXCEPT !.at = @ + 1, !.records = With(@, i, Record(i, new))]
    BY <1>4 DEF InstallItem
  <2>3. content'[i] = new /\ \A j \in Items \ {i} : content'[j] = content[j]
    BY <1>4 DEF InstallItem
  <2>4. job'.records = With(job.records, i, Record(i, new))
    BY <2>2
  <2>5. /\ DOMAIN job'.records = DOMAIN job.records \cup {i}
        /\ job'.records[i] = Record(i, new)
        /\ \A j \in DOMAIN job.records \ {i} : job'.records[j] = job.records[j]
    BY <2>4 DEF With
  <2>6. /\ job'.op = job.op /\ job'.repo = job.repo /\ job'.mode = job.mode
        /\ job'.done = job.done /\ job'.at = job.at + 1
    BY <2>2
  <2> QED
    BY <1>1, <1>2, <2>1, <2>3, <2>5, <2>6 DEF InstallItem
<1> QED
  BY <1>3, <1>4

LEMMA SyncEffect ==
  ASSUME TypeOK, JobInv, SyncAgents
  PROVE  /\ job.op = "install" /\ job'.op = "install" /\ job'.repo = job.repo
         /\ job'.mode = job.mode /\ job.done = {} /\ job'.done = {} /\ job.at = 9 /\ job'.at = job.at + 1
         /\ WrittenSoFar' = WrittenSoFar /\ "agent" \in WrittenSoFar
         /\ \A j \in WrittenSoFar \ {"agent"} : job'.records[j] = job.records[j]
         /\ job'.records["agent"].before = job.records["agent"].before
         /\ job'.records["agent"].after = content'["agent"]
         /\ content'["agent"] \in Content
         /\ content'["agent"].user = content["agent"].user
         /\ \A j \in Items \ {"agent"} : content'[j] = content[j]
<1> USE DEF TypeOK, JobInv, WrittenSoFar, Items
<1> DEFINE new == Synchronized(content["agent"])
<1>1. job.op = "install" /\ job.at = 9 /\ job.done = {} /\ "agent" \in Items
  BY Places DEF SyncAgents, At, Managed
<1>2. "agent" \in WrittenSoFar
  BY <1>1, Places DEF Managed
<1>3. new \in Content /\ new.user = content["agent"].user
  BY <1>1, SynchronizedType
<1>4. job' = [job EXCEPT !.at = @ + 1, !.records["agent"].after = new]
  BY DEF SyncAgents
<1>5. /\ job'.records = [job.records EXCEPT !["agent"].after = new]
      /\ job'.op = job.op /\ job'.repo = job.repo /\ job'.mode = job.mode
      /\ job'.done = job.done /\ job'.at = job.at + 1
  BY <1>4
<1>6. job.records["agent"] \in RecordType
  BY <1>2 DEF AreRecords
<1>7. /\ job'.records["agent"].after = new
      /\ job'.records["agent"].before = job.records["agent"].before
      /\ DOMAIN job'.records = DOMAIN job.records
      /\ \A j \in WrittenSoFar \ {"agent"} : job'.records[j] = job.records[j]
  BY <1>2, <1>5, <1>6 DEF RecordType
<1>8. content'["agent"] = new /\ \A j \in Items \ {"agent"} : content'[j] = content[j]
  BY <1>1 DEF SyncAgents
<1> QED
  BY <1>1, <1>2, <1>3, <1>5, <1>7, <1>8

(* Only hooks are dropped: every other item is written again.              *)
LEMMA RestoreEffect ==
  ASSUME TypeOK, JobInv, NEW i \in Items, RestoreDropped(i)
  PROVE  /\ job.op = "install" /\ job'.op = "install" /\ job'.repo = job.repo
         /\ job'.mode = job.mode /\ job'.records = job.records
         /\ job.at = 11 /\ job'.at = 11 /\ job'.done = job.done \cup {i}
         /\ i \in Recorded \ WrittenSoFar /\ i \in Repos
         /\ content'[i] = manifest.records[i].before
         /\ \A j \in Items \ {i} : content'[j] = content[j]
         /\ UNCHANGED <<manifest, version, edits, failures, original, exposed, touched>>
<1>1. job.op = "install" /\ job.at = 11 /\ i \in Recorded \ WrittenSoFar
  BY Places DEF RestoreDropped, At, Dropped
<1>2. i \in Repos
  BY <1>1, Places DEF JobInv, Items
<1>3. job' = [job EXCEPT !.done = @ \cup {i}]
  BY DEF RestoreDropped
<1>4. /\ job'.op = job.op /\ job'.repo = job.repo /\ job'.mode = job.mode
      /\ job'.records = job.records /\ job'.at = job.at /\ job'.done = job.done \cup {i}
  BY <1>3 DEF TypeOK
<1> QED
  BY <1>1, <1>2, <1>4 DEF RestoreDropped, TypeOK

LEMMA DroppedEffect ==
  ASSUME TypeOK, JobInv, DroppedAreRestored
  PROVE  /\ job.op = "install" /\ job'.op = "install" /\ job'.repo = job.repo
         /\ job'.mode = job.mode /\ job'.records = job.records
         /\ job.at = 11 /\ job'.at = 12 /\ job'.done = job.done /\ Dropped = {}
         /\ UNCHANGED <<content, manifest, version, edits, failures, original, exposed, touched>>
<1>1. job' = [job EXCEPT !.at = @ + 1] /\ job.at = 11 /\ job.op = "install"
  BY Places DEF DroppedAreRestored, At
<1>2. /\ job'.op = job.op /\ job'.repo = job.repo /\ job'.mode = job.mode
      /\ job'.records = job.records /\ job'.at = 12 /\ job'.done = job.done
  BY <1>1 DEF TypeOK
<1> QED
  BY <1>1, <1>2 DEF DroppedAreRestored

(* A failed install accounts for all it changed.                           *)
LEMMA FailureEffect ==
  ASSUME TypeOK, JobInv, InstallFails \/ MarkerRaises
  PROVE  /\ job.op = "install" /\ job' = NoJob /\ UNCHANGED <<manifest, version, edits, original>>
         /\ \E changed \in SUBSET Items :
              /\ WrittenSoFar \cup job.done \subseteq changed
              /\ exposed' = exposed \cup (changed \ Recorded)
              /\ touched' = touched \cup changed
              /\ \A j \in Items \ changed : content'[j] = content[j]
<1>1. job.op = "install" /\ job' = NoJob /\ UNCHANGED <<manifest, version, edits, original>>
  BY DEF InstallFails, MarkerRaises, Abandon, At
<1>2. WrittenSoFar \subseteq Items /\ HalfDone \subseteq Items /\ job.done \subseteq Items
  BY DEF TypeOK, AreRecords, Items, Managed, HalfDone, Directories, Dropped, WrittenSoFar, Recorded
<1>3. CASE UNCHANGED content /\ Abandon(WrittenSoFar \cup job.done)
  BY <1>1, <1>2, <1>3 DEF Abandon
<1>4. ASSUME NEW i \in HalfDone, content' = [content EXCEPT ![i] = Torn(i, @)],
             Abandon(WrittenSoFar \cup job.done \cup {i})
      PROVE  \E changed \in SUBSET Items :
              /\ WrittenSoFar \cup job.done \subseteq changed
              /\ exposed' = exposed \cup (changed \ Recorded)
              /\ touched' = touched \cup changed
              /\ \A j \in Items \ changed : content'[j] = content[j]
  <2>1. \A j \in Items \ {i} : content'[j] = content[j]
    BY <1>4 DEF TypeOK
  <2> DEFINE all == WrittenSoFar \cup job.done \cup {i}
  <2>2. all \in SUBSET Items /\ WrittenSoFar \cup job.done \subseteq all
    BY <1>2
  <2>3. /\ exposed' = exposed \cup (all \ Recorded) /\ touched' = touched \cup all
        /\ \A j \in Items \ all : content'[j] = content[j]
    BY <1>4, <2>1 DEF Abandon
  <2> HIDE DEF all
  <2> QED
    BY <2>2, <2>3
<1>5. MarkerRaises => UNCHANGED content /\ Abandon(WrittenSoFar \cup job.done)
  <2> SUFFICES ASSUME MarkerRaises PROVE UNCHANGED content /\ Abandon(WrittenSoFar \cup job.done)
    OBVIOUS
  <2>1. job.done = {}
    BY <1>1 DEF MarkerRaises, At, JobInv, Order
  <2>2. WrittenSoFar \cup job.done = WrittenSoFar
    BY <2>1
  <2> QED
    BY <2>2 DEF MarkerRaises
<1> QED
  BY <1>1, <1>3, <1>4, <1>5 DEF InstallFails

(* A failed uninstall as well.                                             *)
LEMMA UninstallFailureEffect ==
  ASSUME TypeOK, JobInv, UninstallFails
  PROVE  /\ job.op = "uninstall" /\ job' = NoJob
         /\ UNCHANGED <<manifest, version, edits, original, exposed>>
         /\ \A j \in Items : content'[j] = content[j] \/ j \in Recorded \cap touched'
         /\ touched \cup job.done \subseteq touched'
BY DEF UninstallFails, IsNextRemoved, TypeOK

(* A step that leaves the command, the manifest and the records alone.     *)
Elsewhere == UNCHANGED <<manifest, job>>

LEMMA JobPreserved == TypeOK /\ JobInv /\ [Next]_vars => JobInv'
<1> SUFFICES ASSUME TypeOK, JobInv, [Next]_vars PROVE JobInv'
  OBVIOUS
<1>1. CASE Elsewhere
  BY <1>1 DEF Elsewhere, JobInv, Installed, Recorded, WrittenSoFar
<1>2. CASE job' = NoJob
  BY <1>2, JobEnds DEF JobInv
<1>3. ASSUME NEW r \in Repos, NEW mode \in {"checked", "force"}, StartInstall(r, mode)
      PROVE  JobInv'
  <2>1. job' = [op |-> "install", repo |-> r, mode |-> mode, records |-> NoRecords,
                at |-> 1, done |-> {}]
    BY <1>3 DEF StartInstall, NoJob
  <2>2. \A i \in Managed \cup {r} : Place(i) >= 1
    BY Places DEF Items
  <2>3. /\ job'.op = "install" /\ job'.repo = r /\ job'.records = NoRecords
        /\ job'.at = 1 /\ job'.done = {} /\ WrittenSoFar' = {}
    BY <2>1, NoRecordsType DEF WrittenSoFar
  <2>4. \A i \in Managed \cup {r} : ~(Place(i) < 1)
    BY <2>2, Places DEF Items
  <2> QED
    BY <2>3, <2>4, Places DEF JobInv
<1>4. ASSUME NEW i \in Items, InstallItem(i) PROVE JobInv'
  <2>1. \A j \in Managed \cup {job.repo} : Place(j) <= Place(i) => Place(j) < Place(i) \/ j = i
    BY <1>4, InstallItemEffect, InstallationAssumption DEF JobInv, Items, Managed, Place, Order
  <2>2. Skipped(i) => i = "codex" /\ i \notin Recorded
    BY DEF Skipped
  <2>3. UNCHANGED Recorded
    BY <1>4, InstallItemEffect DEF Recorded
  <2>4. \A j \in Items : Place(j) \in 1..10
    BY Places
  <2> QED
    BY <1>4, <2>1, <2>2, <2>3, <2>4, InstallItemEffect, Places DEF JobInv, Items, WrittenSoFar
<1>5. CASE SyncAgents
  <2>1. UNCHANGED Recorded
    BY <1>5 DEF SyncAgents, Recorded
  <2>2. \A j \in Items : Place(j) \in 1..10 /\ Place(j) # 9
    BY InstallationAssumption DEF Items, Managed, Place, Order
  <2> QED
    BY <1>5, <2>1, <2>2, SyncEffect, Places DEF JobInv, Items
<1>6. ASSUME NEW i \in Items, RestoreDropped(i) PROVE JobInv'
  <2>1. UNCHANGED <<Recorded, WrittenSoFar>>
    BY <1>6, RestoreEffect DEF Recorded, WrittenSoFar
  <2> QED
    BY <1>6, <2>1, RestoreEffect, Places DEF JobInv
<1>13. CASE DroppedAreRestored
  <2>1. UNCHANGED <<Recorded, WrittenSoFar>>
    BY <1>13, DroppedEffect DEF Recorded, WrittenSoFar
  <2>2. Recorded \subseteq WrittenSoFar \cup job.done
    BY <1>13, DroppedEffect DEF Dropped
  <2>3. \A j \in Items : Place(j) \in 1..10
    BY Places
  <2> QED
    BY <1>13, <2>1, <2>2, <2>3, DroppedEffect, Places DEF JobInv, Items
<1>7. ASSUME NEW mode \in {"checked", "force", "preserve"}, StartUninstall(mode) PROVE JobInv'
  <2>1. job' = [op |-> "uninstall", repo |-> "none", mode |-> mode, records |-> NoRecords,
                at |-> 0, done |-> {}]
    BY <1>7 DEF StartUninstall, NoJob
  <2>2. job'.op = "uninstall" /\ job'.records = NoRecords /\ job'.done = {}
    BY <2>1
  <2>3. Installed'
    BY <1>7 DEF StartUninstall, Installed
  <2> QED
    BY <2>2, <2>3 DEF JobInv
<1>8. ASSUME NEW i \in Items, UninstallItem(i) PROVE JobInv'
  <2>1. /\ job.op = "uninstall" /\ i \in Recorded /\ UNCHANGED manifest
        /\ job' = [job EXCEPT !.done = @ \cup {i}]
    BY <1>8 DEF UninstallItem, IsNextRemoved
  <2>2. job'.op = job.op /\ job'.records = job.records /\ job'.done = job.done \cup {i}
    BY <2>1 DEF TypeOK
  <2> QED
    BY <2>1, <2>2 DEF JobInv, Installed, Recorded
<1>9. CASE WriteManifest \/ InstallFails \/ MarkerRaises \/ RemoveManifest \/ UninstallFails
  BY <1>2, <1>9 DEF WriteManifest, InstallFails, MarkerRaises, Abandon, RemoveManifest,
     UninstallFails
<1>10. ASSUME NEW i \in Items, UserEdits(i) \/ UserDeletes(i) PROVE JobInv'
  BY <1>1, <1>10 DEF UserEdits, UserDeletes, UserChanges, Elsewhere
<1>11. CASE UNCHANGED vars \/ \E r \in Repos : UserCommits(r)
  BY <1>1, <1>11 DEF vars, UserCommits, Elsewhere
<1>12. CASE SelfUpdate
  BY <1>3, <1>12 DEF SelfUpdate, TypeOK, Installed
<1> QED
  BY <1>3, <1>4, <1>5, <1>6, <1>7, <1>8, <1>9, <1>10, <1>11, <1>12, <1>13
     DEF Next, InstallStep, UninstallStep

RecordsOK == RecordsInv(manifest.records) /\ RecordsInv(job.records)

LEMMA ContentIsHashed == \A c \in Content : c # NoHash
BY DEF Content, NoHash

LEMMA RecordsPreserved ==
  TypeOK /\ JobInv /\ RecordsOK /\ HashInv /\ [Next]_vars => RecordsOK'
<1> SUFFICES ASSUME TypeOK, JobInv, RecordsOK, HashInv, [Next]_vars PROVE RecordsOK'
  OBVIOUS
<1> USE DEF RecordsOK
<1>0. RecordsInv(NoRecords)
  BY NoRecordsType DEF RecordsInv
<1>1. CASE UNCHANGED <<manifest.records, job.records>>
  BY <1>1 DEF RecordsInv
<1>2. CASE UNCHANGED manifest.records /\ job'.records = NoRecords
  BY <1>0, <1>2 DEF RecordsInv
<1>3. ASSUME NEW i \in Items, InstallItem(i) PROVE RecordsOK'
  <2> SUFFICES ASSUME ~UNCHANGED job.records PROVE RecordsOK'
    BY <1>1, <1>3, InstallItemEffect
  <2>1. PICK v \in 1..MaxVersion : /\ content'[i] = Written(i, content[i], v)
                                  /\ job'.records[i] = Record(i, content'[i])
    BY <1>3, InstallItemEffect
  <2>2. content'[i] \in Content /\ content'[i] # NoHash
    BY <2>1, WrittenType, ContentIsHashed DEF TypeOK
  <2>3. job'.records[i].after = IF i \in Directories THEN NoHash ELSE content'[i]
    BY <2>1 DEF Record
  <2>4. /\ i \in {"executable", "agent"} => content'[i].user = "none"
        /\ i = "codex" => content'[i].ours = 1
    BY <2>1, WrittenType DEF TypeOK
  <2>5. /\ DOMAIN job'.records = DOMAIN job.records \cup {i}
        /\ \A j \in DOMAIN job.records : job'.records[j] = job.records[j]
        /\ UNCHANGED manifest
    BY <1>3, InstallItemEffect DEF WrittenSoFar
  <2> QED
    BY <2>2, <2>3, <2>4, <2>5 DEF RecordsInv, Directories
<1>4. CASE SyncAgents
  <2>1. content["agent"].user = "none"
    BY <1>4, SyncEffect DEF HashInv, Matches, RecordsInv, WrittenSoFar, Managed, Directories
  <2>2. job'.records["agent"].after # NoHash /\ job'.records["agent"].after.user = "none"
    BY <1>4, <2>1, SyncEffect, ContentIsHashed
  <2>3. /\ DOMAIN job'.records = DOMAIN job.records
        /\ \A j \in DOMAIN job.records \ {"agent"} : job'.records[j] = job.records[j]
        /\ UNCHANGED manifest
    BY <1>4, SyncEffect DEF WrittenSoFar, SyncAgents
  <2> QED
    BY <2>2, <2>3 DEF RecordsInv, Directories, Managed
<1>5. CASE WriteManifest
  BY <1>0, <1>5, JobEnds DEF WriteManifest, RecordsInv
<1>6. ASSUME NEW i \in Items, RestoreDropped(i) PROVE RecordsOK'
  BY <1>1, <1>6, RestoreEffect
<1>14. CASE DroppedAreRestored
  BY <1>1, <1>14, DroppedEffect
<1>7. CASE RemoveManifest
  BY <1>0, <1>7, JobEnds DEF RemoveManifest, NoManifest, RecordsInv
<1>8. CASE InstallFails \/ MarkerRaises \/ UninstallFails
  BY <1>2, <1>8, JobEnds DEF InstallFails, MarkerRaises, UninstallFails, Abandon
<1>9. ASSUME NEW r \in Repos, NEW mode \in {"checked", "force"}, StartInstall(r, mode)
      PROVE  RecordsOK'
  BY <1>2, <1>9 DEF StartInstall, NoJob
<1>10. ASSUME NEW mode \in {"checked", "force", "preserve"}, StartUninstall(mode)
       PROVE  RecordsOK'
  BY <1>2, <1>10 DEF StartUninstall, NoJob
<1>11. ASSUME NEW i \in Items, UninstallItem(i) \/ UserEdits(i) \/ UserDeletes(i)
       PROVE  RecordsOK'
  BY <1>1, <1>11 DEF UninstallItem, UserEdits, UserDeletes, UserChanges, TypeOK
<1>12. CASE UNCHANGED vars \/ \E r \in Repos : UserCommits(r)
  BY <1>1, <1>12 DEF vars, UserCommits
<1>13. CASE SelfUpdate
  BY <1>9, <1>13 DEF SelfUpdate, TypeOK, Installed
<1> QED
  BY <1>3, <1>4, <1>5, <1>6, <1>7, <1>8, <1>9, <1>10, <1>11, <1>12, <1>13, <1>14
     DEF Next, InstallStep, UninstallStep

LEMMA BackupPreserved ==
  TypeOK /\ JobInv /\ BackupInv /\ RemovalInv /\ [Next]_vars => BackupInv'
<1> SUFFICES ASSUME TypeOK, JobInv, BackupInv, RemovalInv, [Next]_vars PROVE BackupInv'
  OBVIOUS
<1> USE DEF BackupInv, BackupIsOriginal, Recorded, WrittenSoFar
<1>1. CASE UNCHANGED vars \/ \E r \in Repos : UserCommits(r)
  BY <1>1 DEF vars, UserCommits
<1>2. ASSUME NEW r \in Repos, NEW mode \in {"checked", "force"}, StartInstall(r, mode)
      PROVE  BackupInv'
  <2>1. /\ job'.op = "install" /\ job'.done = {} /\ WrittenSoFar' = {} /\ WrittenSoFar = {}
        /\ UNCHANGED <<content, manifest, original, exposed>>
    BY <1>2, NoRecordsType DEF StartInstall, NoJob
  <2> QED
    BY <2>1
<1>3. ASSUME NEW i \in Items, InstallItem(i) PROVE BackupInv'
  <2>0. /\ job.done = {} /\ job'.done = {} /\ i \notin WrittenSoFar
        /\ UNCHANGED <<manifest, original, exposed>>
    BY <1>3, InstallItemEffect
  <2>1. Recorded \subseteq Items /\ WrittenSoFar \subseteq Items
    BY DEF TypeOK, AreRecords
  <2>2. CASE UNCHANGED <<job.records, content>>
    BY <2>0, <2>2
  <2>3. CASE ~UNCHANGED <<job.records, content>>
    <3>1. PICK v \in 1..MaxVersion : job'.records[i] = Record(i, content'[i])
      BY <1>3, <2>3, InstallItemEffect
    <3>2. /\ WrittenSoFar' = WrittenSoFar \cup {i}
          /\ \A j \in WrittenSoFar : job'.records[j] = job.records[j]
          /\ \A j \in Items \ {i} : content'[j] = content[j]
      BY <1>3, <2>3, InstallItemEffect
    <3>3. i \notin exposed => job'.records[i].before = original[i]
      BY <2>0, <3>1 DEF Record
    <3> QED
      BY <2>0, <2>1, <3>2, <3>3
  <2> QED
    BY <2>2, <2>3
<1>4. CASE SyncAgents
  <2>1. UNCHANGED <<manifest, original, exposed>> /\ "agent" # "codex"
    BY <1>4 DEF SyncAgents
  <2> QED
    BY <1>4, <2>1, SyncEffect
<1>5. ASSUME NEW i \in Items, RestoreDropped(i) PROVE BackupInv'
  <2>1. i \notin exposed => content'[i] = original[i]
    BY <1>5, RestoreEffect
  <2>2. UNCHANGED WrittenSoFar /\ i # "codex"
    BY <1>5, RestoreEffect, Places DEF Managed
  <2>3. Recorded \subseteq Items /\ WrittenSoFar \subseteq Items /\ job.done \subseteq Items
    BY DEF TypeOK, AreRecords
  <2> QED
    BY <1>5, <2>1, <2>2, <2>3, RestoreEffect
<1>14. CASE DroppedAreRestored
  BY <1>14, DroppedEffect
<1>6. CASE WriteManifest
  <2>1. /\ UNCHANGED <<content, original, exposed>> /\ manifest'.records = job.records
        /\ WrittenSoFar' = {} /\ job'.op = "none"
    BY <1>6, JobEnds DEF WriteManifest
  <2>2. job.op = "install" /\ Recorded \subseteq WrittenSoFar \cup job.done
    BY <1>6, Places DEF WriteManifest, At, JobInv
  <2> QED
    BY <2>1, <2>2
<1>7. CASE InstallFails \/ MarkerRaises
  <2>1. WrittenSoFar' = {} /\ job'.op = "none" /\ job'.done = {}
    BY <1>7, FailureEffect, JobEnds
  <2> QED
    BY <1>7, <2>1, FailureEffect
<1>8. ASSUME NEW mode \in {"checked", "force", "preserve"}, StartUninstall(mode)
      PROVE  BackupInv'
  <2>1. /\ job'.op = "uninstall" /\ WrittenSoFar' = {} /\ WrittenSoFar = {}
        /\ UNCHANGED <<content, manifest, original, exposed>>
    BY <1>8, NoRecordsType DEF StartUninstall, NoJob
  <2> QED
    BY <2>1
<1>9. ASSUME NEW i \in Items, UninstallItem(i) PROVE BackupInv'
  <2>1. /\ job.op = "uninstall" /\ job'.op = "uninstall" /\ job'.records = job.records
        /\ i \in Recorded /\ UNCHANGED <<manifest, original, exposed>>
        /\ \A j \in Items \ {i} : content'[j] = content[j]
    BY <1>9 DEF UninstallItem, IsNextRemoved, TypeOK
  <2> QED
    BY <2>1
<1>10. CASE RemoveManifest
  <2>1. /\ job.op = "uninstall" /\ job.done = Recorded /\ WrittenSoFar' = {}
        /\ job'.op = "none" /\ Recorded' = {} /\ WrittenSoFar = {}
        /\ UNCHANGED <<content, exposed>>
        /\ original' = [i \in Items |-> IF i \in Recorded THEN content[i] ELSE original[i]]
    BY <1>10, JobEnds, NoRecordsType DEF RemoveManifest, NoManifest, JobInv
  <2>2. "codex" \in Recorded => content["codex"].ours = 0
    BY <2>1 DEF RemovalInv
  <2>3. "codex" \in Items
    BY DEF Items, Managed
  <2> QED
    BY <2>1, <2>2, <2>3
<1>11. CASE UninstallFails
  <2>1. WrittenSoFar' = {} /\ WrittenSoFar = {} /\ job'.op = "none"
    BY <1>11, JobEnds, NoRecordsType, UninstallFailureEffect DEF JobInv
  <2> QED
    BY <1>11, <2>1, UninstallFailureEffect
<1>12. ASSUME NEW i \in Items, UserEdits(i) \/ UserDeletes(i) PROVE BackupInv'
  <2>1. PICK c \in {[content[i] EXCEPT !.user = "edit"], Missing} : UserChanges(i, c)
    BY <1>12 DEF UserEdits, UserDeletes
  <2>2. c.ours \in {0, content[i].ours}
    BY DEF Missing, TypeOK, Content
  <2>3. /\ WrittenSoFar = {} /\ UNCHANGED <<manifest, job, exposed>>
        /\ content'[i] = c /\ \A j \in Items \ {i} : content'[j] = content[j]
        /\ i \in Recorded => UNCHANGED original
        /\ i \notin Recorded => /\ original'[i] = c
                               /\ \A j \in Items \ {i} : original'[j] = original[j]
    BY <2>1, NoRecordsType DEF UserChanges, TypeOK, NoJob
  <2>4. Recorded \subseteq Items /\ "codex" \in Items
    BY DEF TypeOK, AreRecords, Items, Managed
  <2>5. \A j \in Items \ (exposed \cup Recorded) : content'[j] = original'[j]
    BY <2>3, <2>4
  <2>6. \A j \in Recorded \ exposed : manifest.records[j].before = original'[j]
    BY <2>3, <2>4
  <2>7. "codex" \notin exposed => original'["codex"].ours = 0
    BY <2>2, <2>3, <2>4
  <2>8. job'.op = "none" /\ WrittenSoFar' = {}
    BY <2>1, <2>3 DEF UserChanges, NoJob
  <2> QED
    BY <2>3, <2>5, <2>6, <2>7, <2>8
<1>13. CASE SelfUpdate
  BY <1>2, <1>13 DEF SelfUpdate, TypeOK, Installed
<1> QED
  BY <1>1, <1>2, <1>3, <1>4, <1>5, <1>6, <1>7, <1>8, <1>9, <1>10, <1>11, <1>12, <1>13, <1>14
     DEF Next, InstallStep, UninstallStep

LEMMA HashPreserved ==
  TypeOK /\ JobInv /\ RecordsOK /\ HashInv /\ [Next]_vars => HashInv'
<1> SUFFICES ASSUME TypeOK, JobInv, RecordsOK, HashInv, [Next]_vars PROVE HashInv'
  OBVIOUS
<1> USE DEF HashInv, Matches, Recorded, WrittenSoFar
<1>0. WrittenSoFar \subseteq Items /\ Recorded \subseteq Items /\ Managed \subseteq Items
  BY DEF TypeOK, AreRecords, Items
<1>1. CASE UNCHANGED vars \/ \E r \in Repos : UserCommits(r)
  BY <1>1 DEF vars, UserCommits
<1>2. ASSUME NEW r \in Repos, NEW mode \in {"checked", "force"}, StartInstall(r, mode)
      PROVE  HashInv'
  BY <1>2, NoRecordsType DEF StartInstall, NoJob
<1>3. ASSUME NEW i \in Items, InstallItem(i) PROVE HashInv'
  <2>0. /\ i \notin WrittenSoFar /\ UNCHANGED <<manifest, touched>>
        /\ job'.done = {} /\ job.done = {}
    BY <1>3, InstallItemEffect
  <2>1. CASE UNCHANGED <<job.records, content>>
    BY <2>0, <2>1
  <2>2. CASE ~UNCHANGED <<job.records, content>>
    <3>1. PICK v \in 1..MaxVersion : job'.records[i] = Record(i, content'[i])
      BY <1>3, <2>2, InstallItemEffect
    <3>2. /\ WrittenSoFar' = WrittenSoFar \cup {i}
          /\ \A j \in WrittenSoFar : job'.records[j] = job.records[j]
          /\ \A j \in Items \ {i} : content'[j] = content[j]
      BY <1>3, <2>2, InstallItemEffect
    <3>3. job'.records[i].after # NoHash => content'[i] = job'.records[i].after
      BY <3>1 DEF Record
    <3> QED
      BY <1>0, <2>0, <3>2, <3>3
  <2> QED
    BY <2>1, <2>2
<1>4. CASE SyncAgents
  <2>1. UNCHANGED <<manifest, touched>> /\ job.done = {}
    BY <1>4, SyncEffect DEF SyncAgents
  <2> QED
    BY <1>0, <1>4, <2>1, SyncEffect
<1>5. ASSUME NEW i \in Items, RestoreDropped(i) PROVE HashInv'
  <2>1. i \notin Managed
    BY <1>5, RestoreEffect, Places
  <2> QED
    BY <1>0, <1>5, <2>1, RestoreEffect
<1>14. CASE DroppedAreRestored
  BY <1>14, DroppedEffect
<1>6. CASE WriteManifest
  <2>1. UNCHANGED content /\ manifest'.records = job.records /\ WrittenSoFar' = {}
    BY <1>6, JobEnds DEF WriteManifest
  <2> QED
    BY <2>1
<1>7. CASE InstallFails \/ MarkerRaises
  <2>1. WrittenSoFar' = {} /\ job'.done = {}
    BY <1>7, FailureEffect, JobEnds
  <2> QED
    BY <1>0, <1>7, <2>1, FailureEffect
<1>8. ASSUME NEW mode \in {"checked", "force", "preserve"}, StartUninstall(mode)
      PROVE  HashInv'
  BY <1>8, NoRecordsType DEF StartUninstall, NoJob
<1>9. ASSUME NEW i \in Items, UninstallItem(i) PROVE HashInv'
  <2>1. /\ WrittenSoFar = {} /\ job'.records = job.records /\ job'.done = job.done \cup {i}
        /\ UNCHANGED <<manifest, touched>>
        /\ \A j \in Items \ {i} : content'[j] = content[j]
    BY <1>9, NoRecordsType DEF UninstallItem, IsNextRemoved, JobInv, TypeOK
  <2> QED
    BY <1>0, <2>1
<1>10. CASE RemoveManifest
  BY <1>10, JobEnds, NoRecordsType DEF RemoveManifest, NoManifest
<1>11. CASE UninstallFails
  <2>1. WrittenSoFar' = {} /\ WrittenSoFar = {} /\ job'.done = {}
    BY <1>11, JobEnds, NoRecordsType, UninstallFailureEffect DEF JobInv
  <2> QED
    BY <1>0, <1>11, <2>1, UninstallFailureEffect
<1>12. ASSUME NEW i \in Items, UserEdits(i) \/ UserDeletes(i) PROVE HashInv'
  <2>1. /\ WrittenSoFar = {} /\ UNCHANGED <<manifest, job>> /\ touched' = touched \cup {i}
        /\ \A j \in Items \ {i} : content'[j] = content[j]
    BY <1>12, NoRecordsType DEF UserEdits, UserDeletes, UserChanges, TypeOK, NoJob
  <2> QED
    BY <1>0, <2>1
<1>13. CASE SelfUpdate
  BY <1>2, <1>13 DEF SelfUpdate, TypeOK, Installed
<1> QED
  BY <1>1, <1>2, <1>3, <1>4, <1>5, <1>6, <1>7, <1>8, <1>9, <1>10, <1>11, <1>12, <1>13, <1>14
     DEF Next, InstallStep, UninstallStep

LEMMA PreflightPreserved ==
  TypeOK /\ JobInv /\ RecordsOK /\ PreflightInv /\ [Next]_vars => PreflightInv'
<1> SUFFICES ASSUME TypeOK, JobInv, RecordsOK, PreflightInv, [Next]_vars PROVE PreflightInv'
  OBVIOUS
<1> USE DEF PreflightInv, Recorded
<1>0. Recorded \subseteq Items
  BY DEF TypeOK, AreRecords
<1>1. CASE UNCHANGED vars \/ \E r \in Repos : UserCommits(r)
  BY <1>1 DEF vars, UserCommits
<1>2. ASSUME NEW r \in Repos, NEW mode \in {"checked", "force"}, StartInstall(r, mode)
      PROVE  PreflightInv'
  <2>1. job'.op = "install" /\ job'.mode = mode /\ UNCHANGED <<content, manifest>>
    BY <1>2 DEF StartInstall, NoJob
  <2>2. ASSUME mode = "checked", NEW i \in Recorded \cap {"executable", "agent"}
        PROVE  content[i].user = "none"
    <3>1. ~InstallDrift(i) /\ i \in Managed
      BY <1>2, <2>2 DEF StartInstall, Managed
    <3>2. i \notin Repos
      BY <3>1, Places
    <3>3. manifest.records[i].after # NoHash /\ manifest.records[i].after.user = "none"
      BY <3>1 DEF RecordsOK, RecordsInv, Directories
    <3> QED
      BY <3>1, <3>2, <3>3 DEF InstallDrift
  <2> QED
    BY <2>1, <2>2
<1>3. ASSUME NEW i \in Items, InstallItem(i) PROVE PreflightInv'
  <2>1. \A j \in Items : content'[j] = content[j] \/ (j = i /\ \E v \in 1..MaxVersion :
                            content'[i] = Written(i, content[i], v))
    BY <1>3, InstallItemEffect
  <2>2. i \in {"executable", "agent"} /\ content[i].user = "none" => content'[i].user = "none"
    <3>1. content[i] \in Content
      BY DEF TypeOK
    <3>2. \A v \in 1..MaxVersion :
            i \in {"executable", "agent"} => Written(i, content[i], v).user = "none"
      BY <3>1, WrittenType
    <3> QED
      BY <2>1, <3>2
  <2>3. /\ UNCHANGED manifest /\ job'.op = "install" /\ job'.mode = job.mode
        /\ job.op = "install"
    BY <1>3, InstallItemEffect
  <2> QED
    BY <1>0, <2>1, <2>2, <2>3
<1>4. CASE SyncAgents
  <2>1. UNCHANGED manifest
    BY <1>4 DEF SyncAgents
  <2> QED
    BY <1>0, <1>4, <2>1, SyncEffect
<1>5. ASSUME NEW i \in Items, RestoreDropped(i) PROVE PreflightInv'
  <2>1. i \notin {"executable", "agent"}
    BY <1>5, RestoreEffect, Places DEF Managed
  <2> QED
    BY <1>0, <1>5, <2>1, RestoreEffect
<1>12. CASE DroppedAreRestored
  BY <1>12, DroppedEffect
<1>6. CASE job' = NoJob
  BY <1>6, JobEnds
<1>7. CASE WriteManifest \/ InstallFails \/ MarkerRaises \/ RemoveManifest \/ UninstallFails
  BY <1>6, <1>7 DEF WriteManifest, InstallFails, MarkerRaises, Abandon, RemoveManifest,
     UninstallFails
<1>8. ASSUME NEW mode \in {"checked", "force", "preserve"}, StartUninstall(mode)
      PROVE  PreflightInv'
  <2>1. /\ job'.op = "uninstall" /\ job'.mode = mode /\ UNCHANGED <<content, manifest>>
        /\ mode = "checked" => \A i \in Recorded : ~UninstallDrift(i)
    BY <1>8 DEF StartUninstall, NoJob
  <2>2. ASSUME mode = "checked", NEW i \in (Recorded \cap Managed) \ Directories
        PROVE  content[i] = manifest.records[i].after
    <3>1. manifest.records[i].after # NoHash /\ i \notin Repos
      BY Places DEF RecordsOK, RecordsInv
    <3> QED
      BY <2>1, <2>2, <3>1 DEF UninstallDrift
  <2> QED
    BY <2>1, <2>2
<1>9. ASSUME NEW i \in Items, UninstallItem(i) PROVE PreflightInv'
  <2>1. /\ job.op = "uninstall" /\ job'.op = "uninstall" /\ job'.mode = job.mode
        /\ job'.done = job.done \cup {i} /\ UNCHANGED manifest
        /\ \A j \in Items \ {i} : content'[j] = content[j]
    BY <1>9 DEF UninstallItem, IsNextRemoved, TypeOK
  <2> QED
    BY <1>0, <2>1
<1>10. ASSUME NEW i \in Items, UserEdits(i) \/ UserDeletes(i) PROVE PreflightInv'
  BY <1>10 DEF UserEdits, UserDeletes, UserChanges, NoJob
<1>11. CASE SelfUpdate
  BY <1>2, <1>11 DEF SelfUpdate, TypeOK, Installed
<1> QED
  BY <1>1, <1>2, <1>3, <1>4, <1>5, <1>7, <1>8, <1>9, <1>10, <1>11, <1>12
     DEF Next, InstallStep, UninstallStep

LEMMA RemovalPreserved == TypeOK /\ JobInv /\ RemovalInv /\ [Next]_vars => RemovalInv'
<1> SUFFICES ASSUME TypeOK, JobInv, RemovalInv, [Next]_vars, job'.op = "uninstall"
             PROVE  RemovalInv'
  BY DEF RemovalInv
<1> USE DEF RemovalInv
<1>1. CASE UNCHANGED vars \/ \E r \in Repos : UserCommits(r)
  BY <1>1 DEF vars, UserCommits
<1>2. ASSUME NEW mode \in {"checked", "force", "preserve"}, StartUninstall(mode)
      PROVE  RemovalInv'
  BY <1>2 DEF StartUninstall, NoJob
<1>3. ASSUME NEW i \in Items, UninstallItem(i) PROVE RemovalInv'
  <2>1. /\ job.op = "uninstall" /\ job'.mode = job.mode /\ UNCHANGED manifest
        /\ job'.done = job.done \cup {i} /\ job.done \subseteq Items
        /\ content'[i] = Removed(i, content[i], manifest.records[i], job.mode)
        /\ \A j \in Items \ {i} : content'[j] = content[j]
    BY <1>3 DEF UninstallItem, IsNextRemoved, TypeOK
  <2>2. i = "codex" => content'[i].ours = 0
    <3>1. content[i] \in Content
      BY DEF TypeOK
    <3>2. i = "codex" => content'[i] = WithoutOurs(content[i])
      BY <2>1 DEF Removed, Surgical, Merged
    <3>3. WithoutOurs(content[i]).ours = 0
      BY <3>1 DEF WithoutOurs, Content
    <3> QED
      BY <3>2, <3>3
  <2>3. i \notin {"config", "codex"} /\ job.mode # "preserve" =>
          content'[i] = manifest.records[i].before
    BY <2>1 DEF Removed, Surgical
  <2> QED
    BY <2>1, <2>2, <2>3
<1>4. ASSUME NEW i \in Items, InstallItem(i) PROVE FALSE
  BY <1>4, InstallItemEffect
<1>5. CASE SyncAgents
  BY <1>5, SyncEffect
<1>6. ASSUME NEW i \in Items, RestoreDropped(i) PROVE FALSE
  BY <1>6, RestoreEffect
<1>11. CASE DroppedAreRestored
  BY <1>11, DroppedEffect
<1>7. CASE WriteManifest \/ InstallFails \/ MarkerRaises \/ RemoveManifest \/ UninstallFails
  BY <1>7, JobEnds DEF WriteManifest, InstallFails, MarkerRaises, Abandon, RemoveManifest,
     UninstallFails
<1>8. ASSUME NEW i \in Items, UserEdits(i) \/ UserDeletes(i) PROVE FALSE
  BY <1>8 DEF UserEdits, UserDeletes, UserChanges, NoJob
<1>9. ASSUME NEW r \in Repos, NEW mode \in {"checked", "force"}, StartInstall(r, mode)
      PROVE  FALSE
  BY <1>9 DEF StartInstall, NoJob
<1>10. CASE SelfUpdate
  BY <1>9, <1>10 DEF SelfUpdate, TypeOK, Installed
<1> QED
  BY <1>1, <1>2, <1>3, <1>4, <1>5, <1>6, <1>7, <1>8, <1>9, <1>10, <1>11
     DEF Next, InstallStep, UninstallStep

-----------------------------------------------------------------------------

LEMMA InitIInv == Init => IInv
<1> SUFFICES ASSUME Init PROVE IInv
  OBVIOUS
<1>1. /\ job = NoJob /\ job.op = "none" /\ job.mode = "none" /\ WrittenSoFar = {}
      /\ Recorded = {} /\ manifest.records = NoRecords /\ job.records = NoRecords
  BY NoRecordsType DEF Init, NoJob, NoManifest, WrittenSoFar, Recorded
<1>2. RecordsInv(NoRecords)
  BY NoRecordsType DEF RecordsInv
<1>3. original["codex"].ours = 0
  BY DEF Init, Items, Managed, Missing
<1>4. BackupInv
  BY <1>1, <1>3 DEF BackupInv, BackupIsOriginal, Init
<1> QED
  BY <1>1, <1>2, <1>4, InitTypeOK
     DEF IInv, JobInv, HashInv, PreflightInv, RemovalInv

LEMMA StepIInv == IInv /\ [Next]_vars => IInv'
BY TypePreserved, JobPreserved, RecordsPreserved, BackupPreserved, HashPreserved,
   PreflightPreserved, RemovalPreserved DEF IInv, RecordsOK

LEMMA IInvHolds == Spec => []IInv
BY InitIInv, StepIInv, PTL DEF Spec

(* Every item, record and command has its type (installer.py).             *)
THEOREM TypeCorrect == Spec => []TypeOK
<1>1. IInv => TypeOK
  BY DEF IInv
<1> QED
  BY <1>1, IInvHolds, PTL

(* Of every path that no failed install exposed, the manifest keeps what   *)
(* the user had there before it was managed.                               *)
THEOREM BackupsAreOriginals == Spec => []BackupIsOriginal
<1>1. IInv => BackupIsOriginal
  BY DEF IInv, BackupInv
<1> QED
  BY <1>1, IInvHolds, PTL

(* A path nobody touched since the last completed command is not drift.    *)
THEOREM NoDriftOfItsOwn == Spec => []NoFalseDrift
<1>1. IInv => NoFalseDrift
  <2> SUFFICES ASSUME IInv, job = NoJob, NEW i \in Recorded \ touched
               PROVE  ~InstallDrift(i) /\ ~UninstallDrift(i)
    BY DEF NoFalseDrift
  <2>1. i \in Managed \/ i \in Repos
    BY DEF IInv, TypeOK, AreRecords, Recorded, Items
  <2>2. CASE i \in Repos
    BY <2>2 DEF InstallDrift, UninstallDrift
  <2>3. CASE i \in Managed
    <3>1. i \notin WrittenSoFar \cup job.done
      BY JobEnds, NoRecordsType DEF NoJob, WrittenSoFar
    <3>2. Matches(i, manifest.records[i])
      BY <2>3, <3>1 DEF IInv, HashInv
    <3>3. i = "codex" => /\ manifest.records[i].after.ours = 1
                         /\ manifest.records[i].after # NoHash
      BY <2>3 DEF IInv, RecordsInv, Recorded, Directories
    <3> QED
      BY <3>2, <3>3 DEF InstallDrift, UninstallDrift, Matches
  <2> QED
    BY <2>1, <2>2, <2>3
<1> QED
  BY <1>1, IInvHolds, PTL

(* When an uninstall that preserves nothing has finished, every path no    *)
(* failed install exposed is as it was before it was managed.              *)
THEOREM UninstallGivesBack == Spec => UninstallRestores
<1>1. IInv /\ [Next]_vars =>
        [(Installed /\ manifest' = NoManifest /\ job.mode # "preserve")
           => \A i \in Items \ (exposed \cup {"config"}) :
                IF i = "codex" THEN content[i].ours = 0 ELSE content[i] = original[i]]_vars
  <2> SUFFICES ASSUME IInv, [Next]_vars, Installed, manifest' = NoManifest,
                      job.mode # "preserve",
                      NEW i \in Items \ (exposed \cup {"config"})
               PROVE  IF i = "codex" THEN content[i].ours = 0 ELSE content[i] = original[i]
    OBVIOUS
  <2>1. manifest # manifest' /\ manifest'.repo = "none"
    BY DEF Installed, NoManifest
  <2>2. ~WriteManifest
    BY <2>1, Places DEF WriteManifest, At, IInv, JobInv
  <2>3. RemoveManifest
    <3>1. CASE UNCHANGED manifest
      BY <2>1, <3>1
    <3>2. CASE manifest' # manifest
      BY <2>2, <3>2
         DEF Next, InstallStep, UninstallStep, SelfUpdate, StartInstall, InstallItem,
             SyncAgents, RestoreDropped, DroppedAreRestored, InstallFails, MarkerRaises, Abandon,
             StartUninstall, UninstallItem, UninstallFails, UserEdits, UserDeletes,
             UserChanges, UserCommits, vars
    <3> QED
      BY <3>1, <3>2
  <2>4. job.op = "uninstall" /\ job.done = Recorded /\ WrittenSoFar = {}
    BY <2>3, NoRecordsType DEF RemoveManifest, IInv, JobInv, WrittenSoFar
  <2>5. CASE i \in Recorded
    BY <2>4, <2>5 DEF IInv, RemovalInv, BackupInv, BackupIsOriginal
  <2>6. CASE i \notin Recorded
    BY <2>4, <2>6 DEF IInv, BackupInv
  <2> QED
    BY <2>5, <2>6
<1> QED
  BY <1>1, IInvHolds, PTL DEF Spec, UninstallRestores

(* What a command leaves alone of the changes the user made.               *)
THEOREM GuardedEditsSurvive == Spec => EditSurvives
<1>1. IInv /\ [Next]_vars =>
        [\A i \in Items : (job # NoJob /\ Guarded(i) /\ content[i].user = "edit")
                            => content'[i].user = "edit"]_vars
  <2> SUFFICES ASSUME IInv, [Next]_vars, NEW i \in Items, job # NoJob, Guarded(i),
                      content[i].user = "edit", content'[i] # content[i]
               PROVE  content'[i].user = "edit"
    OBVIOUS
  <2> USE DEF IInv
  <2>0. content[i] \in Content /\ content[i] # Missing
    BY DEF TypeOK, Missing
  <2>1. ASSUME NEW j \in Items, InstallItem(j) PROVE content'[i].user = "edit"
    <3>1. i = j
      BY <2>1, InstallItemEffect
    <3>2. PICK v \in 1..MaxVersion : content'[i] = Written(i, content[i], v)
      BY <2>1, <3>1, InstallItemEffect
    <3>3. job.op = "install"
      BY <2>1, InstallItemEffect
    <3>4. i \in Recorded \cap {"executable", "agent"} => job.mode # "checked"
      BY <3>3 DEF PreflightInv
    <3>5. i \in Merged \cup {"config"}
      BY <3>3, <3>4 DEF Guarded, Items, Managed, Directories, Merged
    <3> QED
      BY <2>0, <3>2, <3>5, WrittenType
  <2>2. CASE SyncAgents
    BY <2>2, SyncEffect
  <2>3. ASSUME NEW j \in Items, RestoreDropped(j) PROVE FALSE
    <3>1. i = j
      BY <2>3, RestoreEffect
    <3>2. i \notin {"config", "codex"}
      BY <2>3, <3>1, RestoreEffect, Places DEF Managed
    <3> QED
      BY <2>3, <3>1, <3>2, RestoreEffect DEF Guarded
  <2>4. CASE InstallFails
    <3>1. PICK j \in HalfDone : content' = [content EXCEPT ![j] = Torn(j, @)]
      BY <2>4 DEF InstallFails
    <3>2. i = j /\ content'[i] = Torn(i, content[i]) /\ job.op = "install"
      BY <2>4, <3>1 DEF InstallFails, TypeOK
    <3>3. CASE i = "markdown"
      BY <2>0, <3>2, <3>3 DEF Torn, WithoutOurs, Content
    <3>4. CASE i \in Directories \cup {"executable"}
      BY <3>2, <3>4 DEF Guarded, PreflightInv, Directories
    <3>5. CASE i \in Dropped /\ At("dropped")
      <4>1. i \in Repos
        BY <3>5, Places DEF Dropped, At, JobInv, Items
      <4> QED
        BY <3>2, <4>1, Places DEF Guarded, Managed
    <3> QED
      BY <3>1, <3>2, <3>3, <3>4, <3>5 DEF HalfDone
  <2>7. ASSUME UninstallFails PROVE FALSE
    <3>1. /\ job.op = "uninstall" /\ i \in Recorded \ job.done
          /\ ~Surgical(i, content[i], manifest.records[i], job.mode)
      BY <2>7 DEF UninstallFails, IsNextRemoved, TypeOK
    <3>2. /\ job.mode = "checked" /\ i \in Recorded \ (Directories \cup Repos)
          /\ UserChanged(i)
      BY <2>0, <3>1 DEF Guarded, Surgical, UserChanged
    <3>3. content[i] = manifest.records[i].after
      BY <3>1, <3>2 DEF PreflightInv, Items
    <3> QED
      BY <3>2, <3>3 DEF UserChanged
  <2>5. ASSUME NEW j \in Items, UninstallItem(j) PROVE content'[i].user = "edit"
    <3>1. /\ i = j /\ job.op = "uninstall" /\ i \in Recorded \ job.done
          /\ content'[i] = Removed(i, content[i], manifest.records[i], job.mode)
      BY <2>5 DEF UninstallItem, IsNextRemoved, TypeOK
    <3>2. WithoutOurs(content[i]).user = "edit"
      BY <2>0 DEF WithoutOurs, Content
    <3>3. CASE Surgical(i, content[i], manifest.records[i], job.mode)
      BY <3>1, <3>2, <3>3 DEF Removed
    <3>4. CASE ~Surgical(i, content[i], manifest.records[i], job.mode)
      <4>1. /\ job.mode = "checked" /\ i \in Recorded \ (Directories \cup Repos)
            /\ UserChanged(i)
        BY <2>0, <3>1, <3>4 DEF Guarded, Surgical, UserChanged
      <4>2. content[i] = manifest.records[i].after
        BY <3>1, <4>1 DEF PreflightInv, Items
      <4> QED
        BY <4>1, <4>2 DEF UserChanged
    <3> QED
      BY <3>3, <3>4
  <2>6. SyncAgents \/ InstallFails \/ UninstallFails
          \/ (\E j \in Items : InstallItem(j) \/ RestoreDropped(j) \/ UninstallItem(j))
    BY DEF Next, InstallStep, UninstallStep, SelfUpdate, StartInstall, WriteManifest,
           DroppedAreRestored, MarkerRaises, StartUninstall, RemoveManifest, UserEdits,
           UserDeletes, UserChanges, UserCommits, vars
  <2> QED
    BY <2>1, <2>2, <2>3, <2>4, <2>5, <2>6, <2>7
<1> QED
  BY <1>1, IInvHolds, PTL DEF Spec, EditSurvives

=============================================================================
