---------------------------- MODULE Installation ----------------------------
(***************************************************************************)
(* Installing, updating and uninstalling the user assets (installer.py),   *)
(* and the update a Git hook of the repository starts (selfupdate.py).     *)
(*                                                                         *)
(* An install writes the managed paths one after the other and, at the     *)
(* very end, a manifest with one record per path: what was there before    *)
(* and what the install left.  Anything may fail in between; the manifest  *)
(* then stays as it was and the paths already written stay written.  Both  *)
(* commands compare the paths with the manifest before they start.         *)
(*                                                                         *)
(* The content of a path is the user's part and the managed part.  Paths   *)
(* of one kind are one item; the hook of repository r is the item r.       *)
(* Markers are never damaged, the configuration is valid, and the user     *)
(* has not set forced_login_method.  --purge-runtime and --dry-run are     *)
(* left out.  Nobody else changes a path while a command runs, though an   *)
(* install takes its hashes again at the end.                              *)
(***************************************************************************)
EXTENDS Naturals, FiniteSets

CONSTANTS
  Repos,        \* repositories an install may come from
  MaxVersion,   \* versions of a repository's files: a bound of the model
  MaxEdits,     \* how often the user changes a path: a bound
  MaxFailures   \* how often a command fails midway: a bound

Managed == {"runtime", "executable", "config", "markdown", "settings",
            "codex", "skill", "agent"}

Items == Managed \cup Repos

(* The steps of an install, in order: the items, the role settings, the    *)
(* hook of the repository, what is no longer managed, and the manifest.    *)
(* An uninstall goes backwards.                                            *)
Order == [runtime |-> 1, executable |-> 2, config |-> 3, markdown |-> 4, settings |-> 5,
          codex |-> 6, skill |-> 7, agent |-> 8, sync |-> 9, hook |-> 10,
          dropped |-> 11, manifest |-> 12]

Place(i) == IF i \in Repos THEN Order.hook ELSE Order[i]

(* Paths that hold the user's text and a managed part side by side.        *)
Merged == {"markdown", "settings", "codex"}

(* Directories: their records carry no hash.                               *)
Directories == {"runtime", "skill"}

Content == [user : {"none", "own", "edit"}, ours : 0..(2 * MaxVersion)]
Missing == [user |-> "none", ours |-> 0]
NoHash  == [user |-> "unhashed", ours |-> 0]

(* A record of the manifest: what was there before, what was left.         *)
RecordType == [before : Content, after : Content \cup {NoHash}]
NoRecords  == <<>>

(* The records of some items, and the same with that of item i replaced.   *)
AreRecords(rs) == DOMAIN rs \subseteq Items /\ rs \in [DOMAIN rs -> RecordType]
With(rs, i, rec) == [j \in DOMAIN rs \cup {i} |-> IF j = i THEN rec ELSE rs[j]]

ASSUME InstallationAssumption ==
  /\ IsFiniteSet(Repos) /\ Repos # {}
  /\ Repos \cap (Managed \cup {"none", "sync", "dropped"}) = {}
  /\ MaxVersion \in Nat \ {0}
  /\ MaxEdits \in Nat /\ MaxFailures \in Nat

NoManifest == [repo |-> "none", records |-> NoRecords]

(* at: the step an install has come to, with its records so far; done: the *)
(* items an uninstall has dealt with, or an install has restored.          *)
NoJob == [op |-> "none", repo |-> "none", mode |-> "none", records |-> NoRecords,
          at |-> 0, done |-> {}]

VARIABLES
  content,    \* what is at each item
  manifest,   \* install-manifest.json
  job,        \* the command that runs
  version,    \* the version of the files in each repository
  edits, failures,
  original,   \* history: what each item held when it last was not managed
  exposed,    \* history: items a failed install wrote that no manifest lists
  touched     \* history: items changed since a command last completed

vars == <<content, manifest, job, version, edits, failures, original, exposed, touched>>

Installed    == manifest.repo # "none"
Recorded     == DOMAIN manifest.records
WrittenSoFar == DOMAIN job.records

TypeOK ==
  /\ content \in [Items -> Content]
  /\ manifest \in [repo : Repos \cup {"none"}, records : {manifest.records}]
  /\ AreRecords(manifest.records)
  /\ ~Installed => manifest = NoManifest
  /\ job \in [op : {"none", "install", "uninstall"}, repo : Repos \cup {"none"},
              mode : {"none", "checked", "force", "preserve"}, records : {job.records},
              at : 0..Order.manifest, done : SUBSET Items]
  /\ AreRecords(job.records)
  /\ version \in [Repos -> 1..MaxVersion]
  /\ edits \in 0..MaxEdits /\ failures \in 0..MaxFailures
  /\ original \in [Items -> Content]
  /\ exposed \subseteq Items /\ touched \subseteq Items

-----------------------------------------------------------------------------
(* What an install writes over content c of item i, from version v.  JSON  *)
(* entries, the TOML block and the link do not depend on the version.      *)
Written(i, c, v) ==
  CASE i = "config" -> IF c = Missing THEN [user |-> "none", ours |-> v] ELSE c
    [] i = "markdown" -> [c EXCEPT !.ours = v]
    [] i \in Merged \ {"markdown"} -> [c EXCEPT !.ours = 1]
    [] i = "executable" -> [user |-> "none", ours |-> 1]
    [] OTHER -> [user |-> "none", ours |-> v]

(* An agent file once the models and efforts of the roles are applied.     *)
Synchronized(c) == [c EXCEPT !.ours = IF @ <= MaxVersion THEN @ + MaxVersion ELSE @]

(* A deleted or changed hook is never drift; a directory has no hash; the  *)
(* user's part of config.toml is compared by uninstall only.               *)
InstallDrift(i) ==
  /\ i \notin Repos \cup {"config"}
  /\ IF i = "codex" THEN content[i].ours # 1
     ELSE /\ manifest.records[i].after # NoHash
          /\ content[i] # manifest.records[i].after

UninstallDrift(i) ==
  /\ i \notin Repos
  /\ manifest.records[i].after # NoHash
  /\ content[i] # manifest.records[i].after

HookDrift(i) == i \in Repos /\ content[i] # manifest.records[i].after

(* Mutant: a reinstall keeps its own snapshots. *)
RecordAfresh(i, new) ==
  [before |-> content[i], after |-> IF i \in Directories THEN NoHash ELSE new]

(* The record of an item: the earlier one's backup if there is one.        *)
Record(i, new) ==
  [before |-> IF i \in Recorded THEN manifest.records[i].before ELSE content[i],
   after  |-> IF i \in Directories THEN NoHash ELSE new]

(* A marker block without a manifest is left from an install that failed.  *)
MarkerInTheWay == ~Installed /\ content["markdown"].ours # 0

(* config.toml gets no record when its block is there already.             *)
Skipped(i) == i = "codex" /\ content[i].ours = 1 /\ i \notin Recorded

-----------------------------------------------------------------------------
Init ==
  /\ \E own \in {{}, Items \ {"runtime", "executable", "skill"}} :
       content = [i \in Items |-> IF i \in own THEN [user |-> "own", ours |-> 0]
                                               ELSE Missing]
  /\ manifest = NoManifest
  /\ job = NoJob
  /\ version = [r \in Repos |-> 1]
  /\ edits = 0 /\ failures = 0
  /\ original = content
  /\ exposed = {} /\ touched = {}

(* Preflight of install: it changes nothing unless it goes on.             *)
StartInstall(r, mode) ==
  /\ job = NoJob
  /\ mode = "force" \/ \A i \in Recorded : ~InstallDrift(i)
  /\ job' = [NoJob EXCEPT !.op = "install", !.repo = r, !.mode = mode, !.at = 1]
  /\ UNCHANGED <<content, manifest, version, edits, failures, original, exposed, touched>>

(* A hook of the repository refreshes an installation that is behind.      *)
SelfUpdate ==
  /\ Installed
  /\ \/ content["runtime"] # [user |-> "none", ours |-> version[manifest.repo]]
     \/ \E i \in Recorded : HookDrift(i)
  /\ StartInstall(manifest.repo, "checked")

At(step) == job.op = "install" /\ job.at = Order[step]

InstallItem(i) ==
  /\ job.op = "install" /\ job.at = Place(i)
  /\ i \in Repos => i = job.repo
  /\ ~(i = "markdown" /\ MarkerInTheWay)
  /\ IF Skipped(i)
     THEN /\ job' = [job EXCEPT !.at = @ + 1]
          /\ UNCHANGED content
     ELSE LET new == Written(i, content[i], version[job.repo]) IN
          /\ content' = [content EXCEPT ![i] = new]
          /\ job' = [job EXCEPT !.at = @ + 1, !.records = With(@, i, Record(i, new))]
  /\ UNCHANGED <<manifest, version, edits, failures, original, exposed, touched>>

(* Mutant: the hashes of the agents are those of the copied files. *)
SyncAgentsUnrecorded ==
  /\ At("sync")
  /\ content' = [content EXCEPT !["agent"] = Synchronized(@)]
  /\ job' = [job EXCEPT !.at = @ + 1]
  /\ UNCHANGED <<manifest, version, edits, failures, original, exposed, touched>>

(* Role settings are applied to the copied agents and their hashes taken   *)
(* again.                                                                  *)
SyncAgents ==
  /\ At("sync")
  /\ LET new == Synchronized(content["agent"]) IN
     /\ content' = [content EXCEPT !["agent"] = new]
     /\ job' = [job EXCEPT !.at = @ + 1, !.records["agent"].after = new]
  /\ UNCHANGED <<manifest, version, edits, failures, original, exposed, touched>>

(* Mutant: items that are no longer managed are forgotten. *)
ForgetDropped ==
  /\ At("dropped")
  /\ job' = [job EXCEPT !.at = @ + 1]
  /\ UNCHANGED <<content, manifest, version, edits, failures, original, exposed, touched>>

(* Items the previous install managed and this one does not.               *)
Dropped == (Recorded \ WrittenSoFar) \ job.done

RestoreDropped(i) ==
  /\ At("dropped") /\ i \in Dropped
  /\ content' = [content EXCEPT ![i] = manifest.records[i].before]
  /\ job' = [job EXCEPT !.done = @ \cup {i}]
  /\ UNCHANGED <<manifest, version, edits, failures, original, exposed, touched>>

DroppedAreRestored ==
  /\ At("dropped") /\ Dropped = {}
  /\ job' = [job EXCEPT !.at = @ + 1]
  /\ UNCHANGED <<content, manifest, version, edits, failures, original, exposed, touched>>

WriteManifest ==
  /\ At("manifest")
  /\ manifest' = [repo |-> job.repo, records |-> job.records]
  /\ job' = NoJob
  /\ touched' = {}
  /\ UNCHANGED <<content, version, edits, failures, original, exposed>>

WithoutOurs(c) == [c EXCEPT !.ours = 0]

(* What is removed before it is written anew or restored: these paths may  *)
(* be left so.  The old marker block of an update goes first as well.      *)
HalfDone ==
  {i \in Directories \cup {"executable"} : job.at = Place(i)}
  \cup {i \in {"markdown"} : At(i) /\ Installed}
  \cup {i \in Dropped : At("dropped")}

Torn(i, c) == IF i = "markdown" THEN WithoutOurs(c) ELSE Missing

(* Whatever was written stays; only the manifest is as before.             *)
Abandon(changed) ==
  /\ job' = NoJob
  /\ exposed' = exposed \cup (changed \ Recorded)
  /\ touched' = touched \cup changed
  /\ UNCHANGED <<manifest, version, edits, original>>

InstallFails ==
  /\ job.op = "install" /\ failures < MaxFailures
  /\ failures' = failures + 1
  /\ \/ UNCHANGED content /\ Abandon(WrittenSoFar \cup job.done)
     \/ \E i \in HalfDone :
          /\ content' = [content EXCEPT ![i] = Torn(i, @)]
          /\ Abandon(WrittenSoFar \cup job.done \cup {i})

MarkerRaises ==
  /\ At("markdown") /\ MarkerInTheWay
  /\ Abandon(WrittenSoFar)
  /\ UNCHANGED <<content, failures>>

-----------------------------------------------------------------------------
(* Preflight of uninstall; config.toml must be a file in every mode.       *)
StartUninstall(mode) ==
  /\ job = NoJob /\ Installed
  /\ "codex" \in Recorded => content["codex"] # Missing
  /\ mode = "checked" => \A i \in Recorded : ~UninstallDrift(i)
  /\ job' = [NoJob EXCEPT !.op = "uninstall", !.mode = mode]
  /\ UNCHANGED <<content, manifest, version, edits, failures, original, exposed, touched>>

(* What uninstall takes its own part out of, or leaves alone, instead of   *)
(* restoring what was there before.                                        *)
Surgical(i, c, rec, mode) ==
  \/ i \in {"config", "codex"}
  \/ mode = "preserve" /\ i \in Merged /\ c # Missing
  \/ mode = "preserve" /\ i \in Repos /\ c # rec.after

(* Mutant: config.toml is restored from its backup like any other file. *)
RemovedCodexToo(i, c, rec, mode) ==
  IF Surgical(i, c, rec, mode) /\ (i = "codex" => mode = "preserve")
  THEN IF i \in Merged THEN WithoutOurs(c) ELSE c
  ELSE rec.before

(* Mutant: the installed state is restored instead of the backup. *)
RemovedToInstalled(i, c, rec, mode) ==
  IF Surgical(i, c, rec, mode) THEN IF i \in Merged THEN WithoutOurs(c) ELSE c
  ELSE rec.after

(* What uninstall leaves at item i, given its record and the mode.         *)
Removed(i, c, rec, mode) ==
  IF Surgical(i, c, rec, mode) THEN IF i \in Merged THEN WithoutOurs(c) ELSE c
  ELSE rec.before

IsNextRemoved(i) ==
  /\ job.op = "uninstall" /\ i \in Recorded \ job.done
  /\ \A other \in Recorded \ job.done : Place(other) <= Place(i)

UninstallItem(i) ==
  /\ IsNextRemoved(i)
  /\ content' = [content EXCEPT ![i] = Removed(i, @, manifest.records[i], job.mode)]
  /\ job' = [job EXCEPT !.done = @ \cup {i}]
  /\ UNCHANGED <<manifest, version, edits, failures, original, exposed, touched>>

RemoveManifest ==
  /\ job.op = "uninstall" /\ job.done = Recorded
  /\ manifest' = NoManifest
  /\ job' = NoJob
  /\ touched' = {}
  /\ original' = [i \in Items |-> IF i \in Recorded THEN content[i] ELSE original[i]]
  /\ UNCHANGED <<content, version, edits, failures, exposed>>

(* _restore_record removes a path before it puts the backup there.         *)
UninstallFails ==
  /\ job.op = "uninstall" /\ failures < MaxFailures
  /\ failures' = failures + 1
  /\ job' = NoJob
  /\ \/ UNCHANGED content /\ touched' = touched \cup job.done
     \/ \E i \in Items :
          /\ IsNextRemoved(i) /\ ~Surgical(i, content[i], manifest.records[i], job.mode)
          /\ content' = [content EXCEPT ![i] = Missing]
          /\ touched' = touched \cup job.done \cup {i}
  /\ UNCHANGED <<manifest, version, edits, original, exposed>>

-----------------------------------------------------------------------------
(* The user changes or deletes a path, and commits to a repository.        *)
UserChanges(i, c) ==
  /\ job = NoJob /\ edits < MaxEdits /\ c # content[i]
  /\ edits' = edits + 1
  /\ content' = [content EXCEPT ![i] = c]
  /\ touched' = touched \cup {i}
  /\ original' = IF i \in Recorded THEN original ELSE [original EXCEPT ![i] = c]
  /\ UNCHANGED <<manifest, job, version, failures, exposed>>

UserEdits(i) == UserChanges(i, [content[i] EXCEPT !.user = "edit"])
UserDeletes(i) == UserChanges(i, Missing)

UserCommits(r) ==
  /\ job = NoJob /\ version[r] < MaxVersion
  /\ version' = [version EXCEPT ![r] = @ + 1]
  /\ UNCHANGED <<content, manifest, job, edits, failures,
                 original, exposed, touched>>

InstallStep ==
  \/ \E i \in Items : InstallItem(i) \/ RestoreDropped(i)
  \/ SyncAgents \/ DroppedAreRestored \/ WriteManifest

UninstallStep == (\E i \in Items : UninstallItem(i)) \/ RemoveManifest

Next ==
  \/ \E r \in Repos, mode \in {"checked", "force"} : StartInstall(r, mode)
  \/ SelfUpdate
  \/ InstallStep \/ InstallFails \/ MarkerRaises
  \/ \E mode \in {"checked", "force", "preserve"} : StartUninstall(mode)
  \/ UninstallStep \/ UninstallFails
  \/ \E i \in Items \ {"executable"} : UserEdits(i)
  \/ \E i \in Items : UserDeletes(i)
  \/ \E r \in Repos : UserCommits(r)

Spec == Init /\ [][Next]_vars

-----------------------------------------------------------------------------
(* The backup a manifest keeps of a path is what the user had there before *)
(* the path was managed, whatever updates, forced updates, failed commands *)
(* and changes of the repository came between; a path that a failed        *)
(* install wrote and no manifest lists is the exception.                   *)
BackupIsOriginal ==
  \A i \in Recorded \ exposed : manifest.records[i].before = original[i]

(* An install does not mistake its own work for the user's: a path nobody  *)
(* touched since the last completed command is not drift, so the next      *)
(* update is not refused.                                                  *)
NoFalseDrift ==
  job = NoJob => \A i \in Recorded \ touched : ~InstallDrift(i) /\ ~UninstallDrift(i)

(* The user's part of an item is not the one the manifest recorded.        *)
UserChanged(i) == i \in Recorded => manifest.records[i].after.user # content[i].user

(* Which changes of the user a command must leave alone.                   *)
Guarded(i) ==
  \/ i \in {"config", "codex"}
  \/ job.mode = "checked" /\ i \in Recorded \ (Directories \cup Repos) /\ UserChanged(i)
  \/ job.op = "uninstall" /\ job.mode = "preserve" /\ i \in Merged
  \/ job.op = "uninstall" /\ job.mode = "preserve" /\ i \in Repos /\ UserChanged(i)

(* A change made since the last completed command survives an unforced     *)
(* install or uninstall of a hashed path and a surgical uninstall of a     *)
(* hook; the user's text survives a surgical uninstall of a merged path,   *)
(* and everything in the personal configuration and in config.toml.        *)
EditSurvives ==
  [][\A i \in Items :
       (job # NoJob /\ Guarded(i) /\ content[i].user = "edit")
         => content'[i].user = "edit"]_vars

(* The exact rollback: when uninstall has finished without preserving      *)
(* changes, every path is as it was before it was managed, the block in    *)
(* config.toml is gone, and only the personal configuration stays.         *)
UninstallRestores ==
  [][(Installed /\ manifest' = NoManifest /\ job.mode # "preserve")
       => \A i \in Items \ (exposed \cup {"config"}) :
            IF i = "codex" THEN content[i].ours = 0
            ELSE content[i] = original[i]]_vars
=============================================================================
