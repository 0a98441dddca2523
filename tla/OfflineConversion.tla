--------------------------- MODULE OfflineConversion ---------------------------
(***************************************************************************)
(* `fastdb migrate-to-mvcc` and `fastdb restore-migration`                 *)
(* (cli/src/migration.rs): a private, fingerprinted backup of a stopped    *)
(* database, a conversion in a staging directory, and its publication      *)
(* under a name that was unused.                                           *)
(*                                                                         *)
(* A command can fail, be killed, or lose the machine after any step.  A   *)
(* file's bytes outlive a power failure once the file was synced, its name *)
(* once its directory was; otherwise the bytes may be torn and the name    *)
(* may be gone.  The bytes of the source are abstracted to the number of   *)
(* the last write they hold; a fingerprint is the bytes themselves.        *)
(***************************************************************************)
EXTENDS Naturals, FiniteSets

CONSTANTS
  Commands,     \* processes, each running one command
  Restores,     \* those that run restore-migration
  BackupOf,     \* BackupOf[c]: the backup directory named on c's command line
  OutputOf,     \* OutputOf[c]: the output directory named there
  MaxVersion,   \* how often the application writes
  MaxCrashes,   \* how often the machine stops
  Torn,         \* the bytes of a file that a power failure spoiled
  None          \* no file, no directory, nobody

Versions == 0..MaxVersion
Snapshots == [main : Versions, wal : Versions \cup {None}]
Files(contents) == [bytes : contents \cup {None, Torn}, synced : BOOLEAN, named : BOOLEAN]
BackupDirs == [main : Files(Versions), wal : Files(Versions), manifest : Files(Snapshots)]
StageDirs == [main : Files(Versions), wal : Files(Versions), mode : {"wal", "mvcc"}, named : BOOLEAN]

\* Init has a write in the WAL, so there is at least one; the two markers are
\* neither data nor the owner.
ASSUME Parameters ==
  /\ Restores \subseteq Commands
  /\ DOMAIN BackupOf = Commands /\ DOMAIN OutputOf = Commands
  /\ MaxVersion \in Nat \ {0} /\ MaxCrashes \in Nat
  /\ None # Torn /\ "owner" \notin Commands \cup {None}
  /\ \A marker \in {None, Torn} :
       /\ marker \notin Commands /\ marker \notin Versions
       /\ marker \notin Snapshots /\ marker \notin BackupDirs /\ marker \notin StageDirs

VARIABLES
  source,    \* the application's database: main file and WAL (None: no file)
  lock,      \* who holds the lock on the source: None, "owner" or a command
  backups,   \* backup directories
  staging,   \* staging[c]: c's temporary directory
  outputs,   \* published directories
  files,     \* files[c]: the fingerprints c works with, or None
  pc,        \* where each command is
  crashes,
  taken      \* taken[b]: what the source held when backup b was begun (history)

vars == <<source, lock, backups, staging, outputs, files, pc, crashes, taken>>

Backups == {BackupOf[c] : c \in Commands}
Outputs == {OutputOf[c] : c \in Commands}

\* A file, whether its bytes are synced, and whether its name is.
File(bytes, synced, named) == [bytes |-> bytes, synced |-> synced, named |-> named]
NoFile == File(None, TRUE, TRUE)
Written(bytes) == File(bytes, TRUE, FALSE)    \* copy_file and write_private sync the file
Named(f) == [f EXCEPT !.named = TRUE]

Empty == [main |-> NoFile, wal |-> NoFile, manifest |-> NoFile]
Stage(main, wal) == [main |-> main, wal |-> wal, mode |-> "wal", named |-> FALSE]

Bytes(d) == [main |-> d.main.bytes, wal |-> d.wal.bytes]
\* The last write that a database of these files holds.
Holds(b) == IF b.wal = None THEN b.main ELSE b.wal

Init ==
  /\ source \in {[main |-> 0, wal |-> None], [main |-> 0, wal |-> 1]}
  /\ lock = None
  /\ backups = [b \in Backups |-> None]
  /\ staging = [c \in Commands |-> None]
  /\ outputs = [o \in Outputs |-> None]
  /\ files = [c \in Commands |-> None]
  /\ pc = [c \in Commands |-> "start"]
  /\ crashes = 0
  /\ taken = [b \in Backups |-> None]

(***************************************************************************)
(* The application that owns the source, through the engine's file lock.   *)
(***************************************************************************)
OwnerOpen ==
  /\ lock = None /\ lock' = "owner"
  /\ UNCHANGED <<source, backups, staging, outputs, files, pc, crashes, taken>>

OwnerWrite ==
  /\ lock = "owner" /\ Holds(source) < MaxVersion
  /\ source' = [source EXCEPT !.wal = Holds(source) + 1]
  /\ UNCHANGED <<lock, backups, staging, outputs, files, pc, crashes, taken>>

OwnerCheckpoint ==
  /\ lock = "owner" /\ source.wal # None
  /\ source' = [main |-> Holds(source), wal |-> None]
  /\ UNCHANGED <<lock, backups, staging, outputs, files, pc, crashes, taken>>

OwnerClose ==
  /\ lock = "owner" /\ lock' = None
  /\ UNCHANGED <<source, backups, staging, outputs, files, pc, crashes, taken>>

Go(c, from, to) == pc[c] = from /\ pc' = [pc EXCEPT ![c] = to]

(***************************************************************************)
(* migrate, up to the staging directory.                                   *)
(***************************************************************************)
\* require_unused. A source with a sidecar of another journal mode (-shm, -log,
\* -journal) is refused here too; the modelled source has none, so that refusal is
\* Fail.
CheckUnused(c) ==
  /\ Go(c, "start", IF c \in Restores THEN "manifest" ELSE "lock")
  /\ outputs[OutputOf[c]] = None
  /\ c \in Restores \/ backups[BackupOf[c]] = None
  /\ UNCHANGED <<source, lock, backups, staging, outputs, files, crashes, taken>>

LockSource(c) ==
  /\ Go(c, "lock", "mkdir")
  /\ lock = None /\ lock' = c
  /\ UNCHANGED <<source, backups, staging, outputs, files, crashes, taken>>

\* The directory is created, never reused, and its name synced.
CreateBackup(c) ==
  /\ Go(c, "mkdir", "copy_main")
  /\ backups[BackupOf[c]] = None
  /\ backups' = [backups EXCEPT ![BackupOf[c]] = Empty]
  /\ taken' = [taken EXCEPT ![BackupOf[c]] = source]
  /\ UNCHANGED <<source, lock, staging, outputs, files, crashes>>

CopyMain(c) ==
  /\ Go(c, "copy_main", "copy_wal")
  /\ backups' = [backups EXCEPT ![BackupOf[c]].main = Written(source.main)]
  /\ files' = [files EXCEPT ![c] = [main |-> source.main, wal |-> None]]
  /\ UNCHANGED <<source, lock, staging, outputs, crashes, taken>>

CopyWal(c) ==
  /\ Go(c, "copy_wal", "sync_backup")
  /\ backups' = [backups EXCEPT ![BackupOf[c]].wal =
                   IF source.wal = None THEN NoFile ELSE Written(source.wal)]
  /\ files' = [files EXCEPT ![c].wal = source.wal]
  /\ UNCHANGED <<source, lock, staging, outputs, crashes, taken>>

SyncBackup(c) ==
  /\ Go(c, "sync_backup", "stage")
  /\ Bytes(backups[BackupOf[c]]) = files[c]     \* verify_files
  /\ backups' = [backups EXCEPT ![BackupOf[c]].main = Named(@), ![BackupOf[c]].wal = Named(@)]
  /\ UNCHANGED <<source, lock, staging, outputs, files, crashes, taken>>

(***************************************************************************)
(* Both commands: a copy in a temporary directory beside the output, whose *)
(* fingerprints must still be the expected ones.                           *)
(***************************************************************************)
ReadManifest(c) ==
  /\ Go(c, "manifest", "stage")
  /\ backups[BackupOf[c]] # None
  /\ LET b == backups[BackupOf[c]]
     IN /\ b.manifest.bytes \notin {None, Torn}
        /\ Bytes(b) = b.manifest.bytes          \* verify_files
        /\ files' = [files EXCEPT ![c] = b.manifest.bytes]
  /\ UNCHANGED <<source, lock, backups, staging, outputs, crashes, taken>>

CopySnapshot(c) ==
  /\ Go(c, "stage", IF c \in Restores THEN "checkpoint" ELSE "write_manifest")
  /\ Bytes(backups[BackupOf[c]]) = files[c]
  /\ staging' = [staging EXCEPT ![c] =
                   Stage(Written(files[c].main),
                         IF files[c].wal = None THEN NoFile ELSE Written(files[c].wal))]
  /\ UNCHANGED <<source, lock, backups, outputs, files, crashes, taken>>

\* After the first audit.
WriteManifest(c) ==
  /\ Go(c, "write_manifest", "sync_manifest")
  /\ backups' = [backups EXCEPT ![BackupOf[c]].manifest = File(files[c], FALSE, FALSE)]
  /\ UNCHANGED <<source, lock, staging, outputs, files, crashes, taken>>

\* Fault: the manifest is left to the operating system.
SyncManifestLater(c) ==
  /\ Go(c, "sync_manifest", "convert")
  /\ UNCHANGED <<source, lock, backups, staging, outputs, files, crashes, taken>>

\* The file, then its name.
SyncManifest(c) ==
  /\ Go(c, "sync_manifest", "convert")
  /\ backups' = [backups EXCEPT ![BackupOf[c]].manifest = File(files[c], TRUE, TRUE)]
  /\ UNCHANGED <<source, lock, staging, outputs, files, crashes, taken>>

\* PRAGMA journal_mode=mvcc; equal audits before, after and on reopening; each
\* time a checkpoint moves everything into the main file.
Convert(c) ==
  /\ Go(c, "convert", "verify")
  /\ staging' = [staging EXCEPT ![c] =
       [Stage(File(Holds(Bytes(@)), FALSE, FALSE), NoFile) EXCEPT !.mode = "mvcc"]]
  /\ UNCHANGED <<source, lock, backups, outputs, files, crashes, taken>>

VerifyBackup(c) ==
  /\ Go(c, "verify", "sync")
  /\ Bytes(backups[BackupOf[c]]) = files[c]
  /\ UNCHANGED <<source, lock, backups, staging, outputs, files, crashes, taken>>

\* restore: open the copy, audit it, checkpoint it.
Checkpoint(c) ==
  /\ Go(c, "checkpoint", "sync")
  /\ staging' = [staging EXCEPT ![c] = Stage(File(Holds(Bytes(@)), FALSE, FALSE), NoFile)]
  /\ UNCHANGED <<source, lock, backups, outputs, files, crashes, taken>>

(***************************************************************************)
(* Publication.                                                            *)
(***************************************************************************)
SyncStaging(c) ==
  /\ Go(c, "sync", "publish")
  /\ staging' = [staging EXCEPT ![c].main = File(@.bytes, TRUE, TRUE)]
  /\ UNCHANGED <<source, lock, backups, outputs, files, crashes, taken>>

\* renameat2 with RENAME_NOREPLACE.
Publish(c) ==
  /\ Go(c, "publish", "sync_parent")
  /\ outputs[OutputOf[c]] = None
  /\ outputs' = [outputs EXCEPT ![OutputOf[c]] = staging[c]]
  /\ staging' = [staging EXCEPT ![c] = None]
  /\ UNCHANGED <<source, lock, backups, files, crashes, taken>>

\* Fault: success is reported before the new name is synced.
SyncParentLater(c) ==
  /\ Go(c, "sync_parent", "done")
  /\ lock' = IF lock = c THEN None ELSE lock
  /\ UNCHANGED <<source, backups, staging, outputs, files, crashes, taken>>

SyncParent(c) ==
  /\ Go(c, "sync_parent", "done")
  /\ outputs' = [outputs EXCEPT ![OutputOf[c]].named = TRUE]
  /\ lock' = IF lock = c THEN None ELSE lock
  /\ UNCHANGED <<source, backups, staging, files, crashes, taken>>

(***************************************************************************)
(* Failures.                                                               *)
(***************************************************************************)
Running(c) == pc[c] \notin {"done", "failed"}

\* An error returns and removes the temporary directory; or the process is killed
\* and leaves it under a name that nobody looks for.
Fail(c) ==
  /\ Running(c)
  /\ pc' = [pc EXCEPT ![c] = "failed"]
  /\ staging' = [staging EXCEPT ![c] = None]
  /\ lock' = IF lock = c THEN None ELSE lock
  /\ UNCHANGED <<source, backups, outputs, files, crashes, taken>>

\* What the disk may hold of a file and of a published directory after a crash.
AfterCrash(f) ==
  {File(f.bytes, TRUE, TRUE)}
    \cup (IF f.named THEN {} ELSE {NoFile})
    \cup (IF f.synced THEN {} ELSE {File(Torn, TRUE, TRUE)})

BackupsAfter(b) ==
  IF b = None THEN {None}
  ELSE {[main |-> m, wal |-> w, manifest |-> n] :
          m \in AfterCrash(b.main), w \in AfterCrash(b.wal), n \in AfterCrash(b.manifest)}

OutputsAfter(o) ==
  IF o = None THEN {None}
  ELSE {[o EXCEPT !.main = m, !.named = TRUE] : m \in AfterCrash(o.main)}
         \cup (IF o.named THEN {} ELSE {None})

PowerFailure ==
  /\ crashes < MaxCrashes /\ crashes' = crashes + 1
  /\ backups' \in {f \in [Backups -> UNION {BackupsAfter(backups[b]) : b \in Backups}] :
                     \A b \in Backups : f[b] \in BackupsAfter(backups[b])}
  /\ outputs' \in {f \in [Outputs -> UNION {OutputsAfter(outputs[o]) : o \in Outputs}] :
                     \A o \in Outputs : f[o] \in OutputsAfter(outputs[o])}
  /\ pc' = [c \in Commands |-> IF Running(c) /\ pc[c] # "start" THEN "failed" ELSE pc[c]]
  /\ staging' = [c \in Commands |-> None]
  /\ lock' = None
  /\ UNCHANGED <<source, files, taken>>

Owner == OwnerOpen \/ OwnerWrite \/ OwnerCheckpoint \/ OwnerClose

Step(c) ==
  \/ CheckUnused(c) \/ LockSource(c) \/ CreateBackup(c) \/ CopyMain(c) \/ CopyWal(c)
  \/ SyncBackup(c) \/ ReadManifest(c) \/ CopySnapshot(c) \/ WriteManifest(c) \/ SyncManifest(c)
  \/ Convert(c) \/ VerifyBackup(c) \/ Checkpoint(c) \/ SyncStaging(c) \/ Publish(c)
  \/ SyncParent(c)

Next == Owner \/ PowerFailure \/ \E c \in Commands : Step(c) \/ Fail(c)

Spec == Init /\ [][Next]_vars

(***************************************************************************)
(* Properties.                                                             *)
(***************************************************************************)
Places ==
  {"start", "lock", "mkdir", "copy_main", "copy_wal", "sync_backup", "manifest", "stage",
   "write_manifest", "sync_manifest", "convert", "verify", "checkpoint", "sync", "publish",
   "sync_parent", "done", "failed"}

TypeOK ==
  /\ source \in Snapshots
  /\ lock \in Commands \cup {None, "owner"}
  /\ backups \in [Backups -> BackupDirs \cup {None}]
  /\ staging \in [Commands -> StageDirs \cup {None}]
  /\ outputs \in [Outputs -> StageDirs \cup {None}]
  /\ files \in [Commands -> Snapshots \cup {None}]
  /\ pc \in [Commands -> Places]
  /\ crashes \in 0..MaxCrashes
  /\ taken \in [Backups -> Snapshots \cup {None}]

\* A manifest that can be read, after any failure, stands beside the whole source
\* as it was at one moment ("a private, hash-verified backup is completed before
\* conversion"): restore-migration then gives back exactly that database.
ManifestMeansBackup ==
  \A b \in Backups : backups[b] # None /\ backups[b].manifest.bytes \notin {None, Torn} =>
    /\ Bytes(backups[b]) = backups[b].manifest.bytes
    /\ backups[b].manifest.bytes = taken[b]

\* A published directory, after any failure, holds a whole database with every
\* write of the backup it was made from (sync_directory_files before the rename).
OutputWhole ==
  \A o \in Outputs : outputs[o] # None =>
    /\ outputs[o].main.bytes \in {Holds(taken[b]) : b \in {x \in Backups : taken[x] # None}}
    /\ outputs[o].wal = NoFile

\* Nothing is converted without a way back: a published conversion is whole and
\* has a backup whose manifest would survive a power failure now and means the
\* whole source (migrate: the manifest is synced before PRAGMA journal_mode).
ConversionHasBackup ==
  /\ TypeOK /\ ManifestMeansBackup /\ OutputWhole
  /\ \A o \in Outputs : outputs[o] # None /\ outputs[o].mode = "mvcc" =>
       \E c \in Commands \ Restores :
         /\ OutputOf[c] = o /\ backups[BackupOf[c]] # None
         /\ Holds(taken[BackupOf[c]]) = outputs[o].main.bytes
         /\ \A after \in BackupsAfter(backups[BackupOf[c]]) :
              after.manifest.bytes = taken[BackupOf[c]]

\* "no files were replaced": a published directory stays what it is (its name can
\* become durable), and after a power failure it is gone only if its name was
\* never synced; so what a command reported as done is still there
\* (publish_directory syncs the parent before the report).
ReportedSurvives ==
  [][\A o \in Outputs : outputs[o] # None =>
       \/ outputs'[o] \in {outputs[o], [outputs[o] EXCEPT !.named = TRUE]}
       \/ /\ crashes' # crashes /\ ~outputs[o].named
          /\ \A c \in Commands : OutputOf[c] = o => pc[c] # "done"]_vars
================================================================================
