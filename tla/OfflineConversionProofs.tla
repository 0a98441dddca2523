------------------------ MODULE OfflineConversionProofs ------------------------
(***************************************************************************)
(* For every number of commands, whichever backup and output directories   *)
(* they share, and every number of power failures: a manifest that can be  *)
(* read means a whole backup, a published directory is whole and a         *)
(* conversion has its way back, and what was reported stays.               *)
(***************************************************************************)
EXTENDS OfflineConversion, TLAPS

-----------------------------------------------------------------------------
(* The inductive invariant.                                                 *)

Locked == {"mkdir", "copy_main", "copy_wal", "sync_backup", "stage", "write_manifest",
           "sync_manifest", "convert", "verify", "sync", "publish", "sync_parent"}

\* Which command is at which place, and that a conversion holds the lock on the
\* source from lock_source to its end.
Roles ==
  \A c \in Commands :
    /\ pc[c] \in {"manifest", "checkpoint"} => c \in Restores
    /\ pc[c] \in (Locked \cup {"lock"}) \ {"stage", "sync", "publish", "sync_parent"} => c \notin Restores
    /\ lock = c <=> c \notin Restores /\ pc[c] \in Locked

Durable(f) == f.synced /\ f.named

\* The backup of a conversion under way, while it is filled and afterwards.
Filling(c) ==
  LET b == backups[BackupOf[c]]
      k == taken[BackupOf[c]]
  IN /\ pc[c] \in {"copy_main", "copy_wal", "sync_backup"} =>
          b # None /\ k = source /\ b.manifest = NoFile
     /\ pc[c] = "copy_wal" =>
          b.main = Written(k.main) /\ files[c] = [main |-> k.main, wal |-> None]
     /\ pc[c] = "sync_backup" =>
          Bytes(b) = k /\ files[c] = k /\ b.main.synced /\ b.wal.synced
     /\ pc[c] \in {"stage", "write_manifest", "sync_manifest"} /\ c \notin Restores =>
          Bytes(b) = k /\ Durable(b.main) /\ Durable(b.wal)
     /\ pc[c] \in {"stage", "write_manifest"} /\ c \notin Restores => b.manifest = NoFile
     /\ pc[c] \in {"convert", "verify", "sync", "publish"} /\ c \notin Restores =>
          b.manifest = File(k, TRUE, TRUE)

\* The copy in the staging directory is the backup's snapshot.
Staged(c) ==
  /\ pc[c] \in {"stage", "write_manifest", "sync_manifest", "convert", "verify",
                "checkpoint", "sync", "publish"} =>
       /\ backups[BackupOf[c]] # None
       /\ files[c] = taken[BackupOf[c]] /\ files[c] \in Snapshots
  /\ pc[c] \in {"write_manifest", "sync_manifest", "convert", "checkpoint"} =>
       staging[c] # None /\ Bytes(staging[c]) = files[c]
  /\ pc[c] \in {"verify", "sync", "publish"} =>
       /\ staging[c] # None
       /\ staging[c].main.bytes = Holds(files[c]) /\ staging[c].wal = NoFile
       /\ staging[c].mode = "mvcc" => c \notin Restores
  /\ pc[c] = "publish" => Durable(staging[c].main)

\* A readable manifest, and the files it lists, survive a power failure together.
Manifested(b) ==
  /\ backups[b] # None => taken[b] \in Snapshots
  /\ backups[b] # None /\ backups[b].manifest.bytes \notin {None, Torn} =>
       /\ Bytes(backups[b]) = taken[b] /\ backups[b].manifest.bytes = taken[b]
       /\ Durable(backups[b].main) /\ Durable(backups[b].wal)

HasWayBack(o, c) ==
  /\ OutputOf[c] = o /\ backups[BackupOf[c]] # None
  /\ Holds(taken[BackupOf[c]]) = outputs[o].main.bytes
  /\ backups[BackupOf[c]].manifest = File(taken[BackupOf[c]], TRUE, TRUE)

PublishedWhole(o) ==
  outputs[o] # None =>
    /\ Durable(outputs[o].main) /\ outputs[o].wal = NoFile
    /\ \E b \in Backups : backups[b] # None /\ outputs[o].main.bytes = Holds(taken[b])
    /\ outputs[o].mode = "mvcc" => \E c \in Commands \ Restores : HasWayBack(o, c)

Reported(c) ==
  /\ pc[c] \in {"sync_parent", "done"} => outputs[OutputOf[c]] # None
  /\ pc[c] = "done" => outputs[OutputOf[c]].named

Inv ==
  /\ TypeOK
  /\ Roles
  /\ \A c \in Commands : Filling(c)
  /\ \A c \in Commands : Staged(c)
  /\ \A b \in Backups : Manifested(b)
  /\ \A o \in Outputs : PublishedWhole(o)
  /\ \A c \in Commands : Reported(c)

-----------------------------------------------------------------------------
(* Facts about files and directories.                                       *)

LEMMA Directories ==
  \A c \in Commands : BackupOf[c] \in Backups /\ OutputOf[c] \in Outputs
BY DEF Backups, Outputs

LEMMA FileTypes ==
  ASSUME NEW contents
  PROVE  /\ NoFile \in Files(contents)
         /\ \A v \in contents \cup {None, Torn}, s, n \in BOOLEAN : File(v, s, n) \in Files(contents)
         /\ \A v \in contents : Written(v) \in Files(contents)
BY DEF Files, NoFile, File, Written

LEMMA FileFields ==
  ASSUME NEW contents, NEW f \in Files(contents)
  PROVE  /\ f.bytes \in contents \cup {None, Torn} /\ f.synced \in BOOLEAN /\ f.named \in BOOLEAN
         /\ Named(f) \in Files(contents)
         /\ Named(f).bytes = f.bytes /\ Named(f).synced = f.synced /\ Named(f).named
         /\ Durable(f) => f = File(f.bytes, TRUE, TRUE)
<1>1. f = [bytes |-> f.bytes, synced |-> f.synced, named |-> f.named]
      /\ f.bytes \in contents \cup {None, Torn} /\ f.synced \in BOOLEAN /\ f.named \in BOOLEAN
  BY DEF Files
<1>2. Named(f) \in Files(contents)
      /\ Named(f).bytes = f.bytes /\ Named(f).synced = f.synced /\ Named(f).named
  BY DEF Files, Named
<1>3. Durable(f) => f = File(f.bytes, TRUE, TRUE)
  BY <1>1 DEF Durable, File
<1> QED BY <1>1, <1>2, <1>3

\* What File and its abbreviations hold.
LEMMA DurableFile ==
  ASSUME NEW v PROVE File(v, TRUE, TRUE).bytes = v /\ Durable(File(v, TRUE, TRUE))
BY DEF File, Durable

LEMMA FileParts ==
  /\ \A v, s, n : /\ File(v, s, n).bytes = v /\ File(v, s, n).synced = s /\ File(v, s, n).named = n
  /\ NoFile.bytes = None /\ Durable(NoFile)
  /\ \A v : Durable(File(v, TRUE, TRUE))
  /\ \A v : Written(v).bytes = v /\ Written(v).synced
BY DEF File, NoFile, Written, Durable

LEMMA BackupTypes ==
  ASSUME NEW b \in BackupDirs, NEW f \in Files(Versions), NEW m \in Files(Snapshots)
  PROVE  /\ [b EXCEPT !.main = f] \in BackupDirs
         /\ [b EXCEPT !.wal = f] \in BackupDirs
         /\ [b EXCEPT !.manifest = m] \in BackupDirs
         /\ b.main \in Files(Versions) /\ b.wal \in Files(Versions) /\ b.manifest \in Files(Snapshots)
BY DEF BackupDirs

LEMMA SnapshotParts ==
  ASSUME NEW k \in Snapshots
  PROVE  /\ k.main \in Versions /\ k.wal \in Versions \cup {None}
         /\ Holds(k) \in Versions
         /\ k = [main |-> k.main, wal |-> k.wal]
         /\ k \notin {None, Torn}
BY Parameters DEF Snapshots, Holds

-----------------------------------------------------------------------------
(* What a step of one command leaves alone.                                 *)

\* A backup outlives the step, and so does a durable manifest.
Kept(b) ==
  backups[b] # None =>
    /\ backups'[b] # None /\ taken'[b] = taken[b]
    /\ backups[b].manifest = File(taken[b], TRUE, TRUE) => backups'[b].manifest = backups[b].manifest

LEMMA PublishedKept ==
  ASSUME NEW o \in Outputs, PublishedWhole(o), \A b \in Backups : Kept(b),
         outputs'[o] = outputs[o]
  PROVE  PublishedWhole(o)'
<1> SUFFICES ASSUME outputs[o] # None PROVE PublishedWhole(o)'
  BY DEF PublishedWhole
<1>1. PICK b \in Backups : backups[b] # None /\ outputs[o].main.bytes = Holds(taken[b])
  BY DEF PublishedWhole
<1>2. backups'[b] # None /\ outputs'[o].main.bytes = Holds(taken'[b])
  BY <1>1 DEF Kept
<1>3. ASSUME NEW c \in Commands \ Restores, HasWayBack(o, c) PROVE HasWayBack(o, c)'
  BY <1>3, Directories DEF HasWayBack, Kept
<1> QED BY <1>2, <1>3 DEF PublishedWhole

\* A command that does not hold the lock has no backup in the making.
LEMMA NotFilling ==
  ASSUME Roles', NEW d \in Commands, lock' # d PROVE Filling(d)'
BY DEF Roles, Filling, Locked

\* A step of c keeps the invariant if it keeps what concerns c.
LEMMA OneStep ==
  ASSUME Inv, NEW c \in Commands, TypeOK', Roles', source' = source,
         \A d \in Commands \ {c} :
           pc'[d] = pc[d] /\ files'[d] = files[d] /\ staging'[d] = staging[d],
         \A b \in Backups : Kept(b),
         \A b \in Backups \ {BackupOf[c]} : backups'[b] = backups[b] /\ taken'[b] = taken[b],
         lock' = c \/ (backups' = backups /\ taken' = taken),
         \A o \in Outputs \ {OutputOf[c]} : outputs'[o] = outputs[o],
         outputs[OutputOf[c]] # None =>
           /\ outputs'[OutputOf[c]] # None
           /\ outputs[OutputOf[c]].named => outputs'[OutputOf[c]].named,
         Filling(c)', Staged(c)', Reported(c)',
         Manifested(BackupOf[c])', PublishedWhole(OutputOf[c])'
  PROVE  Inv'
<1>1. ASSUME NEW d \in Commands PROVE Filling(d)'
  <2>1. CASE d = c
    BY <2>1
  <2>2. CASE d # c /\ lock' = c
    BY <2>2, NotFilling
  <2>3. CASE d # c /\ backups' = backups /\ taken' = taken
    <3>1. pc'[d] = pc[d] /\ files'[d] = files[d] /\ Filling(d)
      BY <2>3 DEF Inv
    <3> QED BY <2>3, <3>1 DEF Filling
  <2> QED BY <2>1, <2>2, <2>3
<1>2. ASSUME NEW d \in Commands PROVE Staged(d)'
  <2>1. CASE d = c
    BY <2>1
  <2>2. CASE d # c
    <3>1. backups[BackupOf[d]] # None =>
            backups'[BackupOf[d]] # None /\ taken'[BackupOf[d]] = taken[BackupOf[d]]
      BY Directories DEF Kept
    <3>2. pc'[d] = pc[d] /\ files'[d] = files[d] /\ staging'[d] = staging[d] /\ Staged(d)
      BY <2>2 DEF Inv
    <3> QED BY <3>1, <3>2 DEF Staged
  <2> QED BY <2>1, <2>2
<1>3. ASSUME NEW b \in Backups PROVE Manifested(b)'
  <2>1. CASE b = BackupOf[c]
    BY <2>1
  <2>2. CASE b # BackupOf[c]
    <3>1. Manifested(b) /\ backups'[b] = backups[b] /\ taken'[b] = taken[b]
      BY <2>2 DEF Inv
    <3> QED BY <3>1 DEF Manifested
  <2> QED BY <2>1, <2>2
<1>4. ASSUME NEW o \in Outputs PROVE PublishedWhole(o)'
  <2>1. CASE o = OutputOf[c]
    BY <2>1
  <2>2. CASE o # OutputOf[c]
    BY <2>2, PublishedKept DEF Inv
  <2> QED BY <2>1, <2>2
<1>5. ASSUME NEW d \in Commands PROVE Reported(d)'
  <2>1. CASE d = c
    BY <2>1
  <2>2. CASE d # c
    BY <2>2, Directories DEF Inv, Reported
  <2> QED BY <2>1, <2>2
<1> QED BY <1>1, <1>2, <1>3, <1>4, <1>5 DEF Inv

\* The same for a step that touches neither backups nor outputs.
LEMMA QuietStep ==
  ASSUME Inv, NEW c \in Commands, TypeOK', Roles', source' = source,
         backups' = backups, taken' = taken, outputs' = outputs,
         \A d \in Commands \ {c} :
           pc'[d] = pc[d] /\ files'[d] = files[d] /\ staging'[d] = staging[d],
         Filling(c)', Staged(c)', Reported(c)'
  PROVE  Inv'
<1>1. /\ BackupOf[c] \in Backups /\ OutputOf[c] \in Outputs
      /\ Manifested(BackupOf[c]) /\ PublishedWhole(OutputOf[c])
  BY Directories DEF Inv
<1>2. \A b \in Backups : Kept(b)
  BY DEF Kept
<1>3. Manifested(BackupOf[c])'
  BY <1>1 DEF Manifested
<1>4. PublishedWhole(OutputOf[c])'
  BY <1>1, <1>2, PublishedKept
<1> QED BY <1>2, <1>3, <1>4, OneStep

-----------------------------------------------------------------------------
(* One lemma per action of a command.                                       *)

LEMMA Moves ==
  ASSUME TypeOK, NEW c \in Commands, NEW from, NEW to \in Places, Go(c, from, to)
  PROVE  /\ pc[c] = from /\ pc'[c] = to /\ pc' \in [Commands -> Places]
         /\ \A d \in Commands \ {c} : pc'[d] = pc[d]
BY DEF TypeOK, Go

\* What the invariant says of the command of an action.
LEMMA Present ==
  ASSUME Inv, NEW c \in Commands
  PROVE  /\ Filling(c) /\ Staged(c) /\ Reported(c)
         /\ Manifested(BackupOf[c]) /\ PublishedWhole(OutputOf[c])
         /\ source \in Snapshots
         /\ backups[BackupOf[c]] \in BackupDirs \cup {None}
BY Directories DEF Inv, TypeOK

LEMMA SameRoles ==
  ASSUME Inv, NEW c \in Commands, lock' = lock,
         \A d \in Commands \ {c} : pc'[d] = pc[d],
         pc'[c] \in {"manifest", "checkpoint"} => c \in Restores,
         pc'[c] \in (Locked \cup {"lock"}) \ {"stage", "sync", "publish", "sync_parent"} => c \notin Restores,
         c \in Restores \/ (pc[c] \in Locked <=> pc'[c] \in Locked)
  PROVE  Roles'
<1>1. Roles
  BY DEF Inv
<1> QED BY <1>1 DEF Roles

LEMMA CheckUnusedStep == ASSUME Inv, NEW c \in Commands, CheckUnused(c) PROVE Inv'
<1> DEFINE to == IF c \in Restores THEN "manifest" ELSE "lock"
<1>1. /\ pc[c] = "start" /\ pc'[c] = to /\ pc' \in [Commands -> Places]
      /\ \A d \in Commands \ {c} : pc'[d] = pc[d]
  BY Moves DEF Inv, CheckUnused, Places
<1>2. TypeOK'
  BY <1>1 DEF Inv, TypeOK, CheckUnused
<1>3. Roles'
  BY <1>1, SameRoles DEF CheckUnused, Locked
<1>4. Filling(c)' /\ Staged(c)' /\ Reported(c)'
  BY <1>1 DEF Filling, Staged, Reported
<1> QED BY <1>1, <1>2, <1>3, <1>4, QuietStep DEF CheckUnused

LEMMA LockSourceStep == ASSUME Inv, NEW c \in Commands, LockSource(c) PROVE Inv'
<1>1. /\ pc[c] = "lock" /\ pc'[c] = "mkdir" /\ pc' \in [Commands -> Places]
      /\ \A d \in Commands \ {c} : pc'[d] = pc[d]
  BY Moves DEF Inv, LockSource, Places
<1>2. TypeOK'
  BY <1>1 DEF Inv, TypeOK, LockSource
<1>3. Roles'
  BY <1>1, Parameters DEF Inv, Roles, Locked, LockSource
<1>4. Filling(c)' /\ Staged(c)' /\ Reported(c)'
  BY <1>1 DEF Filling, Staged, Reported
<1> QED BY <1>1, <1>2, <1>3, <1>4, QuietStep DEF LockSource

LEMMA CreateBackupStep == ASSUME Inv, NEW c \in Commands, CreateBackup(c) PROVE Inv'
<1> DEFINE B == BackupOf[c]
<1> USE Directories
<1>1. /\ pc[c] = "mkdir" /\ pc'[c] = "copy_main" /\ pc' \in [Commands -> Places]
      /\ \A d \in Commands \ {c} : pc'[d] = pc[d]
  BY Moves DEF Inv, CreateBackup, Places
<1>2. Empty \in BackupDirs /\ Empty # None /\ Empty.manifest = NoFile
  <2>1. NoFile \in Files(Versions) /\ NoFile \in Files(Snapshots)
    BY FileTypes
  <2>2. Empty \in BackupDirs /\ Empty.manifest = NoFile
    BY <2>1 DEF Empty, BackupDirs
  <2>3. None \notin BackupDirs
    BY Parameters
  <2> QED BY <2>2, <2>3
<1>3. /\ backups[B] = None /\ backups'[B] = Empty /\ taken'[B] = source
      /\ \A b \in Backups \ {B} : backups'[b] = backups[b] /\ taken'[b] = taken[b]
      /\ source \in Snapshots
  BY DEF Inv, TypeOK, CreateBackup
<1>4. TypeOK'
  BY <1>1, <1>2 DEF Inv, TypeOK, CreateBackup
<1>5. lock' = c /\ Roles'
  BY <1>1, SameRoles DEF Inv, Roles, CreateBackup, Locked
<1>6. \A b \in Backups : Kept(b)
  BY <1>3 DEF Kept
<1>7. Filling(c)'
  BY <1>1, <1>2, <1>3 DEF Filling, CreateBackup
<1>8. Staged(c)' /\ Reported(c)'
  BY <1>1 DEF Staged, Reported
<1>9. Manifested(B)'
  BY <1>2, <1>3, FileParts DEF Manifested
<1>10. PublishedWhole(OutputOf[c])'
  BY <1>6, PublishedKept DEF Inv, CreateBackup
<1> QED BY <1>1, <1>3, <1>4, <1>5, <1>6, <1>7, <1>8, <1>9, <1>10, OneStep DEF CreateBackup

\* A step of a conversion that writes a part of its own backup, whose manifest is
\* not yet on disk or is the one it writes.
LEMMA BackupStep ==
  ASSUME Inv, NEW c \in Commands, NEW b \in BackupDirs,
         pc[c] \in Locked, c \notin Restores, Roles', lock' = lock, source' = source,
         backups[BackupOf[c]] # None, backups' = [backups EXCEPT ![BackupOf[c]] = b],
         taken' = taken, outputs' = outputs, staging' = staging, crashes' = crashes,
         pc' \in [Commands -> Places], files' \in [Commands -> Snapshots \cup {None}],
         \A d \in Commands \ {c} : pc'[d] = pc[d] /\ files'[d] = files[d],
         backups[BackupOf[c]].manifest = NoFile \/ b.manifest = File(taken[BackupOf[c]], TRUE, TRUE),
         Filling(c)', Staged(c)', Reported(c)', Manifested(BackupOf[c])'
  PROVE  Inv'
<1> DEFINE B == BackupOf[c]
<1> USE Directories
<1>1. /\ backups'[B] = b /\ b # None
      /\ \A x \in Backups \ {B} : backups'[x] = backups[x]
  BY Parameters DEF Inv, TypeOK
<1>2. TypeOK'
  BY DEF Inv, TypeOK
<1>3. lock' = c
  BY DEF Inv, Roles
<1>4. NoFile # File(taken[B], TRUE, TRUE)
  <2>1. taken[B] \in Snapshots
    BY DEF Inv, Manifested
  <2>2. taken[B] # None
    BY <2>1, SnapshotParts
  <2> QED BY <2>2 DEF File, NoFile
<1>5. \A x \in Backups : Kept(x)
  BY <1>1, <1>4 DEF Kept
<1>6. PublishedWhole(OutputOf[c])'
  BY <1>5, PublishedKept DEF Inv
<1> QED BY <1>1, <1>2, <1>3, <1>5, <1>6, OneStep

LEMMA CopyMainStep == ASSUME Inv, NEW c \in Commands, CopyMain(c) PROVE Inv'
<1> DEFINE B == BackupOf[c]
           b == [backups[B] EXCEPT !.main = Written(source.main)]
<1> USE Directories
<1>1. /\ pc[c] = "copy_main" /\ pc'[c] = "copy_wal" /\ pc' \in [Commands -> Places]
      /\ \A d \in Commands \ {c} : pc'[d] = pc[d]
  BY Moves DEF Inv, CopyMain, Places
<1>2. /\ backups[B] \in BackupDirs /\ backups[B] # None /\ taken[B] = source
      /\ backups[B].manifest = NoFile /\ source \in Snapshots /\ taken[B] \in Snapshots
  BY <1>1, Present DEF Filling
<1>3. /\ b \in BackupDirs /\ b.main = Written(source.main)
      /\ b.wal = backups[B].wal /\ b.manifest = NoFile
  <2>1. Written(source.main) \in Files(Versions)
    BY <1>2, SnapshotParts, FileTypes
  <2> QED BY <1>2, <2>1, BackupTypes DEF BackupDirs
<1>4. backups' = [backups EXCEPT ![B] = b] /\ backups'[B] = b /\ b # None
  BY <1>3, Parameters DEF Inv, TypeOK, CopyMain
<1>5. /\ files' \in [Commands -> Snapshots \cup {None}]
      /\ files'[c] = [main |-> source.main, wal |-> None]
      /\ \A d \in Commands \ {c} : files'[d] = files[d]
  <2>1. [main |-> source.main, wal |-> None] \in Snapshots
    BY <1>2 DEF Snapshots
  <2> QED BY <2>1 DEF Inv, TypeOK, CopyMain
<1>6. Roles' /\ c \notin Restores
  BY <1>1, SameRoles DEF Inv, Roles, CopyMain, Locked
<1>7. Filling(c)'
  BY <1>1, <1>2, <1>3, <1>4, <1>5 DEF Filling, CopyMain
<1>8. Staged(c)' /\ Reported(c)'
  BY <1>1 DEF Staged, Reported
<1>9. Manifested(B)'
  BY <1>2, <1>3, <1>4, FileParts DEF Manifested, CopyMain
<1>10. /\ lock' = lock /\ source' = source /\ taken' = taken /\ outputs' = outputs
       /\ staging' = staging /\ crashes' = crashes /\ pc[c] \in Locked
  BY <1>1 DEF CopyMain, Locked
<1> HIDE DEF b
<1> QED BY <1>1, <1>2, <1>3, <1>4, <1>5, <1>6, <1>7, <1>8, <1>9, <1>10, BackupStep

LEMMA CopyWalStep == ASSUME Inv, NEW c \in Commands, CopyWal(c) PROVE Inv'
<1> DEFINE B == BackupOf[c]
           w == IF source.wal = None THEN NoFile ELSE Written(source.wal)
           b == [backups[B] EXCEPT !.wal = w]
<1> USE Directories
<1>1. /\ pc[c] = "copy_wal" /\ pc'[c] = "sync_backup" /\ pc' \in [Commands -> Places]
      /\ \A d \in Commands \ {c} : pc'[d] = pc[d]
  BY Moves DEF Inv, CopyWal, Places
<1>2. /\ backups[B] \in BackupDirs /\ backups[B] # None /\ taken[B] = source
      /\ backups[B].manifest = NoFile /\ source \in Snapshots /\ taken[B] \in Snapshots
      /\ backups[B].main = Written(source.main) /\ files[c] = [main |-> source.main, wal |-> None]
  BY <1>1, Present DEF Filling
<1>3. w \in Files(Versions) /\ w.bytes = source.wal /\ w.synced
  BY <1>2, SnapshotParts, FileTypes, FileParts DEF Durable
<1>4. /\ b \in BackupDirs /\ b.wal = w
      /\ b.main = Written(source.main) /\ b.manifest = NoFile
  BY <1>2, <1>3, BackupTypes DEF BackupDirs
<1>5. backups' = [backups EXCEPT ![B] = b] /\ backups'[B] = b /\ b # None
  BY <1>4, Parameters DEF Inv, TypeOK, CopyWal
<1>6. /\ files' \in [Commands -> Snapshots \cup {None}]
      /\ files'[c] = source
      /\ \A d \in Commands \ {c} : files'[d] = files[d]
  <2>1. [files[c] EXCEPT !.wal = source.wal] = source
    BY <1>2, SnapshotParts
  <2> QED BY <1>2, <2>1 DEF Inv, TypeOK, CopyWal
<1>7. Roles' /\ c \notin Restores
  BY <1>1, SameRoles DEF Inv, Roles, CopyWal, Locked
<1>8. Bytes(b) = source /\ b.main.synced /\ b.wal.synced
  BY <1>2, <1>3, <1>4, FileParts, SnapshotParts DEF Bytes
<1> HIDE DEF b, w
<1>9. Filling(c)'
  BY <1>1, <1>2, <1>4, <1>5, <1>6, <1>8 DEF Filling, CopyWal
<1>10. Staged(c)' /\ Reported(c)'
  BY <1>1 DEF Staged, Reported
<1>11. Manifested(B)'
  BY <1>2, <1>4, <1>5, FileParts DEF Manifested, CopyWal
<1>12. /\ lock' = lock /\ source' = source /\ taken' = taken /\ outputs' = outputs
       /\ staging' = staging /\ crashes' = crashes /\ pc[c] \in Locked
  BY <1>1 DEF CopyWal, Locked
<1> QED BY <1>1, <1>2, <1>4, <1>5, <1>6, <1>7, <1>9, <1>10, <1>11, <1>12, BackupStep

LEMMA SyncBackupStep == ASSUME Inv, NEW c \in Commands, SyncBackup(c) PROVE Inv'
<1> DEFINE B == BackupOf[c]
           b == [backups[B] EXCEPT !.main = Named(backups[B].main), !.wal = Named(backups[B].wal)]
<1> USE Directories
<1>1. /\ pc[c] = "sync_backup" /\ pc'[c] = "stage" /\ pc' \in [Commands -> Places]
      /\ \A d \in Commands \ {c} : pc'[d] = pc[d]
  BY Moves DEF Inv, SyncBackup, Places
<1>2. /\ backups[B] \in BackupDirs /\ backups[B] # None /\ taken[B] \in Snapshots
      /\ backups[B].manifest = NoFile /\ Bytes(backups[B]) = taken[B] /\ files[c] = taken[B]
      /\ backups[B].main.synced /\ backups[B].wal.synced
  BY <1>1, Present DEF Filling, Manifested
<1>3. /\ b \in BackupDirs /\ b.main = Named(backups[B].main)
      /\ b.wal = Named(backups[B].wal) /\ b.manifest = NoFile
  <2>1. backups[B].main \in Files(Versions) /\ backups[B].wal \in Files(Versions)
    BY <1>2 DEF BackupDirs
  <2>2. Named(backups[B].main) \in Files(Versions) /\ Named(backups[B].wal) \in Files(Versions)
    BY <2>1, FileFields
  <2> QED BY <1>2, <2>2 DEF BackupDirs
<1>4. Bytes(b) = taken[B] /\ Durable(b.main) /\ Durable(b.wal)
  <2>1. backups[B].main \in Files(Versions) /\ backups[B].wal \in Files(Versions)
    BY <1>2 DEF BackupDirs
  <2>2. ASSUME NEW f \in Files(Versions)
        PROVE  Named(f).bytes = f.bytes /\ Named(f).synced = f.synced /\ Named(f).named
    BY FileFields
  <2>3. /\ b.main.bytes = backups[B].main.bytes /\ b.main.synced = backups[B].main.synced /\ b.main.named
        /\ b.wal.bytes = backups[B].wal.bytes /\ b.wal.synced = backups[B].wal.synced /\ b.wal.named
    <3> HIDE DEF b
    <3> QED BY <1>3, <2>1, <2>2
  <2> QED BY <1>2, <2>3 DEF Bytes, Durable
<1>5. backups' = [backups EXCEPT ![B] = b] /\ backups'[B] = b /\ b # None
  BY <1>3, Parameters DEF Inv, TypeOK, SyncBackup
<1>6. Roles' /\ c \notin Restores
  BY <1>1, SameRoles DEF Inv, Roles, SyncBackup, Locked
<1>7. /\ lock' = lock /\ source' = source /\ taken' = taken /\ outputs' = outputs /\ files' = files
      /\ staging' = staging /\ crashes' = crashes /\ pc[c] \in Locked /\ files \in [Commands -> Snapshots \cup {None}]
  BY <1>1 DEF SyncBackup, Locked, Inv, TypeOK
<1> HIDE DEF b
<1>8. Filling(c)'
  BY <1>1, <1>3, <1>4, <1>5, <1>7 DEF Filling
<1>9. Staged(c)' /\ Reported(c)'
  BY <1>1, <1>2, <1>5, <1>7 DEF Staged, Reported
<1>10. Manifested(B)'
  BY <1>2, <1>3, <1>5, <1>7, FileParts DEF Manifested
<1> QED BY <1>1, <1>2, <1>3, <1>5, <1>6, <1>7, <1>8, <1>9, <1>10, BackupStep

LEMMA ReadManifestStep == ASSUME Inv, NEW c \in Commands, ReadManifest(c) PROVE Inv'
<1> DEFINE B == BackupOf[c]
<1> USE Directories
<1>1. /\ pc[c] = "manifest" /\ pc'[c] = "stage" /\ pc' \in [Commands -> Places]
      /\ \A d \in Commands \ {c} : pc'[d] = pc[d]
  BY Moves DEF Inv, ReadManifest, Places
<1>2. /\ backups[B] # None /\ backups[B].manifest.bytes = taken[B] /\ taken[B] \in Snapshots
  BY DEF Inv, Manifested, ReadManifest
<1>3. /\ files' \in [Commands -> Snapshots \cup {None}] /\ files'[c] = taken[B]
      /\ \A d \in Commands \ {c} : files'[d] = files[d]
  BY <1>2 DEF Inv, TypeOK, ReadManifest
<1>4. TypeOK'
  BY <1>1, <1>3 DEF Inv, TypeOK, ReadManifest
<1>5. Roles' /\ c \in Restores
  BY <1>1, SameRoles DEF Inv, Roles, ReadManifest, Locked
<1>6. Filling(c)' /\ Staged(c)' /\ Reported(c)'
  BY <1>1, <1>2, <1>3, <1>5 DEF Filling, Staged, Reported, ReadManifest
<1> QED BY <1>1, <1>3, <1>4, <1>5, <1>6, QuietStep DEF ReadManifest

LEMMA StageTypes ==
  ASSUME NEW m \in Files(Versions), NEW w \in Files(Versions)
  PROVE  /\ Stage(m, w) \in StageDirs /\ Stage(m, w) # None
         /\ Stage(m, w).main = m /\ Stage(m, w).wal = w /\ Stage(m, w).mode = "wal"
<1>1. None \notin StageDirs
  BY Parameters
<1>2. /\ Stage(m, w) \in StageDirs
      /\ Stage(m, w).main = m /\ Stage(m, w).wal = w /\ Stage(m, w).mode = "wal"
  BY DEF Stage, StageDirs
<1> QED BY <1>1, <1>2

\* A step of c that changes its staging directory only.
LEMMA StagingStep ==
  ASSUME Inv, NEW c \in Commands, NEW s \in StageDirs, staging' = [staging EXCEPT ![c] = s],
         pc' \in [Commands -> Places], \A d \in Commands \ {c} : pc'[d] = pc[d], Roles',
         UNCHANGED <<source, lock, backups, outputs, files, crashes, taken>>,
         Filling(c)', Staged(c)', Reported(c)'
  PROVE  Inv'
<1>1. TypeOK' /\ \A d \in Commands \ {c} : staging'[d] = staging[d]
  BY DEF Inv, TypeOK
<1> QED BY <1>1, QuietStep

LEMMA CopySnapshotStep == ASSUME Inv, NEW c \in Commands, CopySnapshot(c) PROVE Inv'
<1> DEFINE B == BackupOf[c]
           to == IF c \in Restores THEN "checkpoint" ELSE "write_manifest"
           m == Written(files[c].main)
           w == IF files[c].wal = None THEN NoFile ELSE Written(files[c].wal)
           s == Stage(m, w)
<1>1. /\ pc[c] = "stage" /\ pc'[c] = to /\ pc' \in [Commands -> Places]
      /\ \A d \in Commands \ {c} : pc'[d] = pc[d]
  <2>1. to \in Places /\ Go(c, "stage", to)
    BY DEF CopySnapshot, Places
  <2> HIDE DEF to
  <2> QED BY <2>1, Moves DEF Inv
<1>2. files[c] \in Snapshots /\ Filling(c) /\ Staged(c)
  BY <1>1 DEF Inv, Staged
<1>3. /\ m \in Files(Versions) /\ w \in Files(Versions)
      /\ m.bytes = files[c].main /\ w.bytes = files[c].wal
  BY <1>2, SnapshotParts, FileTypes, FileParts
<1> HIDE DEF m, w
<1>4. s \in StageDirs /\ s # None /\ s.main = m /\ s.wal = w
  <2>1. m \in Files(Versions) /\ w \in Files(Versions)
    BY <1>3
  <2> QED BY <2>1, StageTypes, Zenon
<1>5. Bytes(s) = files[c]
  BY <1>2, <1>3, <1>4, SnapshotParts DEF Bytes
<1>6. staging' = [staging EXCEPT ![c] = s] /\ staging'[c] = s
  BY DEF CopySnapshot, Inv, TypeOK, m, w
<1>7. Roles'
  BY <1>1, SameRoles DEF Inv, CopySnapshot, Locked
<1>8. UNCHANGED <<source, lock, backups, outputs, files, crashes, taken>>
  BY DEF CopySnapshot
<1> HIDE DEF s
<1>9. Filling(c)'
  BY <1>1, <1>2, <1>8 DEF Filling
<1>10. Staged(c)' /\ Reported(c)'
  BY <1>1, <1>2, <1>4, <1>5, <1>6, <1>8 DEF Staged, Reported
<1> QED BY <1>1, <1>4, <1>6, <1>7, <1>8, <1>9, <1>10, StagingStep

LEMMA WriteManifestStep == ASSUME Inv, NEW c \in Commands, WriteManifest(c) PROVE Inv'
<1> DEFINE B == BackupOf[c]
           b == [backups[B] EXCEPT !.manifest = File(files[c], FALSE, FALSE)]
<1> USE Directories
<1>1. /\ pc[c] = "write_manifest" /\ pc'[c] = "sync_manifest" /\ pc' \in [Commands -> Places]
      /\ \A d \in Commands \ {c} : pc'[d] = pc[d]
  BY Moves DEF Inv, WriteManifest, Places
<1>2. Roles' /\ c \notin Restores
  BY <1>1, SameRoles DEF Inv, Roles, WriteManifest, Locked
<1>3. /\ backups[B] \in BackupDirs /\ backups[B] # None /\ taken[B] \in Snapshots /\ files[c] = taken[B]
      /\ backups[B].manifest = NoFile /\ Bytes(backups[B]) = taken[B]
      /\ Durable(backups[B].main) /\ Durable(backups[B].wal)
      /\ staging[c] # None /\ Bytes(staging[c]) = files[c]
  <2>1. Filling(c) /\ Staged(c) /\ backups[B] \in BackupDirs \cup {None}
    BY DEF Inv, TypeOK
  <2>2. /\ backups[B] # None /\ files[c] = taken[B] /\ files[c] \in Snapshots
        /\ staging[c] # None /\ Bytes(staging[c]) = files[c]
    BY <1>1, <2>1 DEF Staged
  <2> QED BY <1>1, <1>2, <2>1, <2>2 DEF Filling
<1>4. /\ b \in BackupDirs /\ b.main = backups[B].main /\ b.wal = backups[B].wal
      /\ b.manifest.bytes = taken[B]
  <2>1. File(files[c], FALSE, FALSE) \in Files(Snapshots)
    BY <1>3, FileTypes
  <2>2. File(files[c], FALSE, FALSE).bytes = files[c]
    BY DEF File
  <2> QED BY <1>3, <2>1, <2>2 DEF BackupDirs
<1>5. Bytes(b) = taken[B]
  BY <1>3, <1>4 DEF Bytes
<1>6. backups' = [backups EXCEPT ![B] = b] /\ backups'[B] = b /\ b # None
  BY <1>4, Parameters DEF Inv, TypeOK, WriteManifest
<1>7. /\ lock' = lock /\ source' = source /\ taken' = taken /\ outputs' = outputs /\ files' = files
      /\ staging' = staging /\ crashes' = crashes /\ pc[c] \in Locked /\ files \in [Commands -> Snapshots \cup {None}]
  BY <1>1 DEF WriteManifest, Locked, Inv, TypeOK
<1> HIDE DEF b
<1>8. Filling(c)'
  BY <1>1, <1>3, <1>4, <1>5, <1>6, <1>7 DEF Filling
<1>9. Staged(c)' /\ Reported(c)'
  BY <1>1, <1>3, <1>6, <1>7 DEF Staged, Reported
<1>10. Manifested(B)'
  BY <1>3, <1>4, <1>5, <1>6, <1>7 DEF Manifested
<1> QED BY <1>1, <1>2, <1>3, <1>4, <1>6, <1>7, <1>8, <1>9, <1>10, BackupStep

LEMMA SyncManifestStep == ASSUME Inv, NEW c \in Commands, SyncManifest(c) PROVE Inv'
<1> DEFINE B == BackupOf[c]
           b == [backups[B] EXCEPT !.manifest = File(files[c], TRUE, TRUE)]
<1> USE Directories
<1>1. /\ pc[c] = "sync_manifest" /\ pc'[c] = "convert" /\ pc' \in [Commands -> Places]
      /\ \A d \in Commands \ {c} : pc'[d] = pc[d]
  BY Moves DEF Inv, SyncManifest, Places
<1>2. Roles' /\ c \notin Restores
  BY <1>1, SameRoles DEF Inv, Roles, SyncManifest, Locked
<1>3. /\ backups[B] \in BackupDirs /\ backups[B] # None /\ taken[B] \in Snapshots /\ files[c] = taken[B]
      /\ Bytes(backups[B]) = taken[B]
      /\ Durable(backups[B].main) /\ Durable(backups[B].wal)
      /\ staging[c] # None /\ Bytes(staging[c]) = files[c]
  <2>1. Filling(c) /\ Staged(c) /\ backups[B] \in BackupDirs \cup {None}
    BY DEF Inv, TypeOK
  <2>2. /\ backups[B] # None /\ files[c] = taken[B] /\ files[c] \in Snapshots
        /\ staging[c] # None /\ Bytes(staging[c]) = files[c]
    BY <1>1, <2>1 DEF Staged
  <2> QED BY <1>1, <1>2, <2>1, <2>2 DEF Filling
<1>4. /\ b \in BackupDirs /\ b.main = backups[B].main /\ b.wal = backups[B].wal
      /\ b.manifest = File(taken[B], TRUE, TRUE) /\ b.manifest.bytes = taken[B]
  <2>1. File(files[c], TRUE, TRUE) \in Files(Snapshots)
    BY <1>3, FileTypes
  <2>2. File(files[c], TRUE, TRUE).bytes = files[c]
    BY DEF File
  <2> QED BY <1>3, <2>1, <2>2 DEF BackupDirs
<1>5. Bytes(b) = taken[B]
  BY <1>3, <1>4 DEF Bytes
<1>6. backups' = [backups EXCEPT ![B] = b] /\ backups'[B] = b /\ b # None
  BY <1>4, Parameters DEF Inv, TypeOK, SyncManifest
<1>7. /\ lock' = lock /\ source' = source /\ taken' = taken /\ outputs' = outputs /\ files' = files
      /\ staging' = staging /\ crashes' = crashes /\ pc[c] \in Locked /\ files \in [Commands -> Snapshots \cup {None}]
  BY <1>1 DEF SyncManifest, Locked, Inv, TypeOK
<1> HIDE DEF b
<1>8. Filling(c)'
  BY <1>1, <1>3, <1>4, <1>5, <1>6, <1>7 DEF Filling
<1>9. Staged(c)' /\ Reported(c)'
  BY <1>1, <1>3, <1>6, <1>7 DEF Staged, Reported
<1>10. Manifested(B)'
  BY <1>3, <1>4, <1>5, <1>6, <1>7 DEF Manifested
<1> QED BY <1>1, <1>2, <1>3, <1>4, <1>6, <1>7, <1>8, <1>9, <1>10, BackupStep

LEMMA ConvertStep == ASSUME Inv, NEW c \in Commands, Convert(c) PROVE Inv'
<1> DEFINE m == File(Holds(Bytes(staging[c])), FALSE, FALSE)
           s == [Stage(m, NoFile) EXCEPT !.mode = "mvcc"]
<1>1. /\ pc[c] = "convert" /\ pc'[c] = "verify" /\ pc' \in [Commands -> Places]
      /\ \A d \in Commands \ {c} : pc'[d] = pc[d]
  BY Moves DEF Inv, Convert, Places
<1>2. /\ files[c] \in Snapshots /\ Bytes(staging[c]) = files[c] /\ Filling(c) /\ Staged(c)
  BY <1>1 DEF Inv, Staged
<1>3. /\ m \in Files(Versions) /\ NoFile \in Files(Versions) /\ m.bytes = Holds(files[c])
  <2>1. Holds(files[c]) \in Versions
    BY <1>2, SnapshotParts
  <2> QED BY <1>2, <2>1, FileTypes DEF File
<1> HIDE DEF m
<1>4. s \in StageDirs /\ s # None /\ s.main = m /\ s.wal = NoFile
  <2>1. s \in StageDirs /\ s.main = m /\ s.wal = NoFile
    BY <1>3 DEF Stage, StageDirs
  <2> QED BY <2>1, Parameters
<1>5. staging' = [staging EXCEPT ![c] = s] /\ staging'[c] = s
  BY DEF Convert, Inv, TypeOK, m
<1>6. Roles' /\ c \notin Restores
  BY <1>1, SameRoles DEF Inv, Roles, Convert, Locked
<1>7. UNCHANGED <<source, lock, backups, outputs, files, crashes, taken>>
  BY DEF Convert
<1> HIDE DEF s
<1>8. Filling(c)'
  BY <1>1, <1>2, <1>7 DEF Filling
<1>9. Staged(c)' /\ Reported(c)'
  BY <1>1, <1>2, <1>3, <1>4, <1>5, <1>6, <1>7 DEF Staged, Reported
<1> QED BY <1>1, <1>4, <1>5, <1>6, <1>7, <1>8, <1>9, StagingStep

LEMMA CheckpointStep == ASSUME Inv, NEW c \in Commands, Checkpoint(c) PROVE Inv'
<1> DEFINE m == File(Holds(Bytes(staging[c])), FALSE, FALSE)
           s == Stage(m, NoFile)
<1>1. /\ pc[c] = "checkpoint" /\ pc'[c] = "sync" /\ pc' \in [Commands -> Places]
      /\ \A d \in Commands \ {c} : pc'[d] = pc[d]
  BY Moves DEF Inv, Checkpoint, Places
<1>2. /\ files[c] \in Snapshots /\ Bytes(staging[c]) = files[c] /\ Staged(c)
  BY <1>1 DEF Inv, Staged
<1>3. /\ m \in Files(Versions) /\ NoFile \in Files(Versions) /\ m.bytes = Holds(files[c])
  <2>1. Holds(files[c]) \in Versions
    BY <1>2, SnapshotParts
  <2> QED BY <1>2, <2>1, FileTypes DEF File
<1> HIDE DEF m
<1>4. s \in StageDirs /\ s # None /\ s.main = m /\ s.wal = NoFile /\ s.mode = "wal"
  BY <1>3, StageTypes, Zenon
<1>5. staging' = [staging EXCEPT ![c] = s] /\ staging'[c] = s
  BY DEF Checkpoint, Inv, TypeOK, m
<1>6. Roles' /\ c \in Restores
  BY <1>1, SameRoles DEF Inv, Roles, Checkpoint, Locked
<1>7. UNCHANGED <<source, lock, backups, outputs, files, crashes, taken>>
  BY DEF Checkpoint
<1> HIDE DEF s
<1>8. Filling(c)'
  BY <1>1, <1>6 DEF Filling
<1>9. Staged(c)' /\ Reported(c)'
  BY <1>1, <1>2, <1>3, <1>4, <1>5, <1>6, <1>7 DEF Staged, Reported
<1> QED BY <1>1, <1>4, <1>5, <1>6, <1>7, <1>8, <1>9, StagingStep

LEMMA VerifyBackupStep == ASSUME Inv, NEW c \in Commands, VerifyBackup(c) PROVE Inv'
<1>1. /\ pc[c] = "verify" /\ pc'[c] = "sync" /\ pc' \in [Commands -> Places]
      /\ \A d \in Commands \ {c} : pc'[d] = pc[d]
  BY Moves DEF Inv, VerifyBackup, Places
<1>2. TypeOK'
  BY <1>1 DEF Inv, TypeOK, VerifyBackup
<1>3. Roles'
  BY <1>1, SameRoles DEF VerifyBackup, Locked
<1>4. Filling(c) /\ Staged(c)
  BY DEF Inv
<1>5. Filling(c)' /\ Staged(c)' /\ Reported(c)'
  BY <1>1, <1>4 DEF Filling, Staged, Reported, VerifyBackup
<1> QED BY <1>1, <1>2, <1>3, <1>5, QuietStep DEF VerifyBackup

LEMMA SyncStagingStep == ASSUME Inv, NEW c \in Commands, SyncStaging(c) PROVE Inv'
<1> DEFINE m == File(staging[c].main.bytes, TRUE, TRUE)
           s == [staging[c] EXCEPT !.main = m]
<1>1. /\ pc[c] = "sync" /\ pc'[c] = "publish" /\ pc' \in [Commands -> Places]
      /\ \A d \in Commands \ {c} : pc'[d] = pc[d]
  BY Moves DEF Inv, SyncStaging, Places
<1>2. /\ staging[c] \in StageDirs /\ Filling(c) /\ Staged(c)
  <2>1. staging[c] # None
    BY <1>1 DEF Inv, Staged
  <2> QED BY <2>1 DEF Inv, TypeOK
<1>3. m \in Files(Versions) /\ Durable(m) /\ m.bytes = staging[c].main.bytes
  <2>1. staging[c].main.bytes \in Versions \cup {None, Torn}
    BY <1>2 DEF StageDirs, Files
  <2> QED BY <2>1, FileTypes DEF File, Durable
<1> HIDE DEF m
<1>4. /\ s \in StageDirs /\ s # None
      /\ s.main = m /\ s.wal = staging[c].wal /\ s.mode = staging[c].mode
  <2>1. /\ s \in StageDirs
        /\ s.main = m /\ s.wal = staging[c].wal /\ s.mode = staging[c].mode
    BY <1>2, <1>3 DEF StageDirs
  <2> QED BY <2>1, Parameters
<1>5. staging' = [staging EXCEPT ![c] = s] /\ staging'[c] = s
  BY DEF SyncStaging, Inv, TypeOK, m
<1>6. Roles'
  BY <1>1, SameRoles DEF SyncStaging, Locked
<1>7. UNCHANGED <<source, lock, backups, outputs, files, crashes, taken>>
  BY DEF SyncStaging
<1> HIDE DEF s
<1>8. Filling(c)'
  BY <1>1, <1>2, <1>7 DEF Filling
<1>9. Staged(c)' /\ Reported(c)'
  BY <1>1, <1>2, <1>3, <1>4, <1>5, <1>7 DEF Staged, Reported
<1> QED BY <1>1, <1>4, <1>5, <1>6, <1>7, <1>8, <1>9, StagingStep

\* Every write of the backup is in what is published, and a conversion's manifest
\* was synced long before.
LEMMA PublishStep == ASSUME Inv, NEW c \in Commands, Publish(c) PROVE Inv'
<1> DEFINE B == BackupOf[c]
           O == OutputOf[c]
<1> USE Directories
<1>1. /\ pc[c] = "publish" /\ pc'[c] = "sync_parent" /\ pc' \in [Commands -> Places]
      /\ \A d \in Commands \ {c} : pc'[d] = pc[d]
  BY Moves DEF Inv, Publish, Places
<1>2. /\ Staged(c) /\ Filling(c)
      /\ staging[c] \in StageDirs /\ staging[c] # None
      /\ backups[B] # None /\ files[c] = taken[B]
  <2>1. Staged(c) /\ Filling(c) /\ staging[c] \in StageDirs \cup {None}
    BY DEF Inv, TypeOK
  <2> QED BY <1>1, <2>1 DEF Staged
<1>3. /\ UNCHANGED <<source, lock, backups, files, crashes, taken>>
      /\ outputs[O] = None /\ outputs'[O] = staging[c]
      /\ \A o \in Outputs \ {O} : outputs'[o] = outputs[o]
      /\ \A d \in Commands \ {c} : staging'[d] = staging[d]
  BY DEF Publish, Inv, TypeOK
<1>4. TypeOK'
  BY <1>1, <1>2 DEF Inv, TypeOK, Publish
<1>5. Roles'
  BY <1>1, SameRoles DEF Publish, Locked
<1>6. Filling(c)' /\ Staged(c)' /\ Reported(c)'
  BY <1>1, <1>2, <1>3 DEF Filling, Staged, Reported
<1>7. \A b \in Backups : Kept(b)
  BY <1>3 DEF Kept
<1>8. Manifested(B)'
  BY <1>3 DEF Inv, Manifested
<1>9. PublishedWhole(O)'
  <2>1. /\ Durable(outputs'[O].main) /\ outputs'[O].wal = NoFile
        /\ outputs'[O].main.bytes = Holds(taken'[B]) /\ backups'[B] # None
        /\ outputs'[O].mode = "mvcc" => c \notin Restores
    BY <1>1, <1>2, <1>3 DEF Staged
  <2>2. c \notin Restores => backups'[B].manifest = File(taken'[B], TRUE, TRUE)
    BY <1>1, <1>2, <1>3 DEF Filling
  <2>3. c \notin Restores => HasWayBack(O, c)'
    BY <2>1, <2>2 DEF HasWayBack
  <2> QED BY <2>1, <2>3 DEF PublishedWhole
<1> QED BY <1>1, <1>3, <1>4, <1>5, <1>6, <1>7, <1>8, <1>9, OneStep

\* The end of a command gives back the lock, if it was its own.
LEMMA ReleasedRoles ==
  ASSUME Inv, NEW c \in Commands, lock' = (IF lock = c THEN None ELSE lock),
         \A d \in Commands \ {c} : pc'[d] = pc[d], pc'[c] \in {"done", "failed"}
  PROVE  Roles'
<1>1. Roles /\ None \notin Commands
  BY Parameters DEF Inv
<1>2. ASSUME NEW d \in Commands PROVE lock' = d <=> d \notin Restores /\ pc'[d] \in Locked
  <2>1. CASE d = c
    BY <1>1, <2>1 DEF Locked
  <2>2. CASE d # c
    <3>1. (lock' = d <=> lock = d) /\ pc'[d] = pc[d]
      BY <1>1, <2>2
    <3> QED BY <1>1, <3>1 DEF Roles
  <2> QED BY <2>1, <2>2
<1> QED BY <1>1, <1>2 DEF Roles, Locked

LEMMA SyncParentStep == ASSUME Inv, NEW c \in Commands, SyncParent(c) PROVE Inv'
<1> DEFINE O == OutputOf[c]
           out == [outputs[O] EXCEPT !.named = TRUE]
<1> USE Directories
<1>1. /\ pc[c] = "sync_parent" /\ pc'[c] = "done" /\ pc' \in [Commands -> Places]
      /\ \A d \in Commands \ {c} : pc'[d] = pc[d]
  BY Moves DEF Inv, SyncParent, Places
<1>2. outputs[O] # None /\ outputs[O] \in StageDirs /\ PublishedWhole(O) /\ Manifested(BackupOf[c])
  BY <1>1 DEF Inv, TypeOK, Reported
<1>3. /\ out \in StageDirs /\ out # None /\ out.main = outputs[O].main /\ out.wal = outputs[O].wal
      /\ out.mode = outputs[O].mode /\ out.named
  <2>1. /\ out \in StageDirs /\ out.main = outputs[O].main /\ out.wal = outputs[O].wal
        /\ out.mode = outputs[O].mode /\ out.named
    BY <1>2 DEF StageDirs
  <2> QED BY <2>1, Parameters
<1>4. /\ outputs' = [outputs EXCEPT ![O] = out] /\ outputs'[O] = out
      /\ \A o \in Outputs \ {O} : outputs'[o] = outputs[o]
      /\ UNCHANGED <<source, backups, staging, files, crashes, taken>>
      /\ lock' = IF lock = c THEN None ELSE lock
  BY DEF Inv, TypeOK, SyncParent
<1> HIDE DEF out
<1>5. TypeOK'
  BY <1>1, <1>3, <1>4 DEF Inv, TypeOK
<1>6. Roles'
  BY <1>1, <1>4, ReleasedRoles
<1>7. Filling(c)' /\ Staged(c)' /\ Reported(c)'
  BY <1>1, <1>3, <1>4 DEF Filling, Staged, Reported
<1>8. \A b \in Backups : Kept(b)
  BY <1>4 DEF Kept
<1>9. Manifested(BackupOf[c])'
  BY <1>2, <1>4 DEF Manifested
<1>10. PublishedWhole(O)'
  <2>1. /\ outputs'[O].main = outputs[O].main /\ outputs'[O].wal = outputs[O].wal
        /\ outputs'[O].mode = outputs[O].mode
    BY <1>3, <1>4
  <2>2. ASSUME NEW d \in Commands \ Restores, HasWayBack(O, d) PROVE HasWayBack(O, d)'
    BY <1>4, <2>1, <2>2 DEF HasWayBack
  <2>3. \E b \in Backups : backups'[b] # None /\ outputs'[O].main.bytes = Holds(taken'[b])
    BY <1>2, <1>4, <2>1 DEF PublishedWhole
  <2> QED BY <1>2, <2>1, <2>2, <2>3 DEF PublishedWhole
<1> QED BY <1>1, <1>3, <1>4, <1>5, <1>6, <1>7, <1>8, <1>9, <1>10, OneStep

LEMMA FailStep == ASSUME Inv, NEW c \in Commands, Fail(c) PROVE Inv'
<1>1. /\ pc'[c] = "failed" /\ pc' \in [Commands -> Places]
      /\ \A d \in Commands \ {c} : pc'[d] = pc[d] /\ staging'[d] = staging[d]
      /\ UNCHANGED <<source, backups, outputs, files, crashes, taken>>
      /\ lock' = IF lock = c THEN None ELSE lock
  BY DEF Inv, TypeOK, Fail, Places
<1>2. TypeOK'
  BY <1>1 DEF Inv, TypeOK, Fail
<1>3. Roles'
  BY <1>1, ReleasedRoles
<1>4. Filling(c)' /\ Staged(c)' /\ Reported(c)'
  BY <1>1 DEF Filling, Staged, Reported
<1> QED BY <1>1, <1>2, <1>3, <1>4, QuietStep

-----------------------------------------------------------------------------
(* The application and the power failure.                                   *)

\* While nobody or the application holds the lock, no backup is in the making,
\* so the application's writes concern no command.
LEMMA OwnerStep == ASSUME Inv, Owner PROVE Inv'
<1>1. /\ UNCHANGED <<backups, staging, outputs, files, pc, crashes, taken>>
      /\ lock \in {None, "owner"} /\ lock' \in {None, "owner"}
  BY DEF Owner, OwnerOpen, OwnerWrite, OwnerCheckpoint, OwnerClose
<1>2. source' \in Snapshots
  <2>1. /\ source \in Snapshots /\ source.main \in Versions /\ source.wal \in Versions \cup {None}
        /\ Holds(source) \in Versions
    BY SnapshotParts DEF Inv, TypeOK
  <2>2. CASE OwnerWrite
    <3>1. Holds(source) + 1 \in Versions
      BY <2>1, <2>2, Parameters DEF OwnerWrite, Versions
    <3> QED BY <2>1, <2>2, <3>1 DEF OwnerWrite, Snapshots
  <2>3. CASE OwnerCheckpoint
    BY <2>1, <2>3 DEF OwnerCheckpoint, Snapshots
  <2> QED BY <2>1, <2>2, <2>3 DEF Owner, OwnerOpen, OwnerClose
<1>3. TypeOK'
  BY <1>1, <1>2 DEF Inv, TypeOK
<1>4. \A c \in Commands : lock # c /\ lock' # c
  BY <1>1, Parameters
<1>5. Roles'
  BY <1>1, <1>4 DEF Inv, Roles
<1>6. \A c \in Commands : Filling(c)'
  BY <1>4, <1>5, NotFilling
<1>7. \A c \in Commands : Staged(c)' /\ Reported(c)'
  BY <1>1 DEF Inv, Staged, Reported
<1>8. \A b \in Backups : Manifested(b)' /\ Kept(b)
  BY <1>1 DEF Inv, Manifested, Kept
<1>9. \A o \in Outputs : PublishedWhole(o)'
  BY <1>1, <1>8, PublishedKept DEF Inv
<1> QED BY <1>3, <1>5, <1>6, <1>7, <1>8, <1>9 DEF Inv

\* A file stays a file, a durable file stays what it is, and the bytes are never
\* anybody else's.
LEMMA FileAfterCrash ==
  ASSUME NEW contents, NEW f \in Files(contents), NEW g \in AfterCrash(f)
  PROVE  /\ g \in Files(contents) /\ Durable(g)
         /\ g.bytes \in {f.bytes, None, Torn}
         /\ Durable(f) => g = f
<1>1. g \in {File(f.bytes, TRUE, TRUE), NoFile, File(Torn, TRUE, TRUE)}
  BY DEF AfterCrash
<1>2. f.bytes \in contents \cup {None, Torn}
  BY FileFields
<1>3. g \in Files(contents)
  BY <1>1, <1>2, FileTypes
<1>4. Durable(g) /\ g.bytes \in {f.bytes, None, Torn}
  BY <1>1 DEF File, NoFile, Durable
<1>5. Durable(f) => g = File(f.bytes, TRUE, TRUE)
  BY FileFields DEF AfterCrash, Durable
<1> QED BY <1>3, <1>4, <1>5, FileFields

LEMMA BackupAfterCrash ==
  ASSUME NEW b \in BackupDirs, NEW d \in BackupsAfter(b)
  PROVE  /\ d \in BackupDirs /\ d # None
         /\ d.main \in AfterCrash(b.main) /\ d.wal \in AfterCrash(b.wal)
         /\ d.manifest \in AfterCrash(b.manifest)
<1>1. b # None /\ None \notin BackupDirs
  BY Parameters
<1>2. PICK m \in AfterCrash(b.main), w \in AfterCrash(b.wal), n \in AfterCrash(b.manifest) :
        d = [main |-> m, wal |-> w, manifest |-> n]
  BY <1>1 DEF BackupsAfter
<1>3. m \in Files(Versions) /\ w \in Files(Versions) /\ n \in Files(Snapshots)
  BY BackupTypes, FileAfterCrash, FileTypes
<1>4. d \in BackupDirs
  BY <1>2, <1>3 DEF BackupDirs
<1> QED BY <1>1, <1>2, <1>4

LEMMA OutputAfterCrash ==
  ASSUME NEW o \in StageDirs, Durable(o.main), NEW p \in OutputsAfter(o)
  PROVE  \/ p = None /\ ~o.named
         \/ p = [o EXCEPT !.named = TRUE]
<1>1. o # None /\ o.main \in Files(Versions)
  BY Parameters DEF StageDirs
<1>2. (p = None /\ ~o.named) \/ \E m \in AfterCrash(o.main) : p = [o EXCEPT !.main = m, !.named = TRUE]
  BY <1>1 DEF OutputsAfter
<1>3. \A m \in AfterCrash(o.main) : m = o.main
  BY <1>1, FileAfterCrash
<1> QED BY <1>2, <1>3 DEF StageDirs

LEMMA PowerFailureStep == ASSUME Inv, PowerFailure PROVE Inv'
<1>1. /\ DOMAIN backups' = Backups /\ \A b \in Backups : backups'[b] \in BackupsAfter(backups[b])
      /\ DOMAIN outputs' = Outputs /\ \A o \in Outputs : outputs'[o] \in OutputsAfter(outputs[o])
      /\ UNCHANGED <<source, files, taken>> /\ lock' = None /\ crashes' = crashes + 1
      /\ \A c \in Commands : pc'[c] \in {"start", "done", "failed"} /\ (pc'[c] = "done" => pc[c] = "done")
  BY DEF PowerFailure, Running, Inv, TypeOK, Places
<1>2. ASSUME NEW b \in Backups
      PROVE  /\ backups[b] = None => backups'[b] = None
             /\ backups[b] # None =>
                  /\ backups[b] \in BackupDirs /\ backups'[b] \in BackupDirs /\ backups'[b] # None
                  /\ backups'[b].main \in AfterCrash(backups[b].main)
                  /\ backups'[b].wal \in AfterCrash(backups[b].wal)
                  /\ backups'[b].manifest \in AfterCrash(backups[b].manifest)
  <2>1. backups'[b] \in BackupsAfter(backups[b]) /\ backups[b] \in BackupDirs \cup {None}
    BY <1>1 DEF Inv, TypeOK
  <2>2. CASE backups[b] = None
    BY <2>1, <2>2 DEF BackupsAfter
  <2>3. CASE backups[b] # None
    BY <2>1, <2>3, BackupAfterCrash
  <2> QED BY <2>2, <2>3
<1>3. ASSUME NEW o \in Outputs
      PROVE  /\ outputs[o] = None => outputs'[o] = None
             /\ outputs[o] # None =>
                  \/ outputs'[o] = None /\ ~outputs[o].named
                  \/ /\ outputs[o] \in StageDirs
                     /\ outputs'[o] = [outputs[o] EXCEPT !.named = TRUE]
  <2>1. outputs'[o] \in OutputsAfter(outputs[o]) /\ outputs[o] \in StageDirs \cup {None}
    BY <1>1 DEF Inv, TypeOK
  <2>2. CASE outputs[o] = None
    BY <2>1, <2>2 DEF OutputsAfter
  <2>3. CASE outputs[o] # None
    <3>1. Durable(outputs[o].main)
      BY <2>3 DEF Inv, PublishedWhole
    <3> QED BY <2>1, <2>3, <3>1, OutputAfterCrash
  <2> QED BY <2>2, <2>3
<1>4. TypeOK'
  <2>1. backups' \in [Backups -> BackupDirs \cup {None}]
    <3>1. \A b \in Backups : backups'[b] \in BackupDirs \cup {None}
      BY <1>2
    <3> QED BY <3>1 DEF PowerFailure
  <2>2. outputs' \in [Outputs -> StageDirs \cup {None}]
    <3>1. \A o \in Outputs : outputs'[o] \in StageDirs \cup {None}
      BY <1>3 DEF StageDirs
    <3> QED BY <3>1 DEF PowerFailure
  <2>3. crashes' \in 0..MaxCrashes
    BY Parameters DEF PowerFailure, Inv, TypeOK
  <2>4. pc' \in [Commands -> Places] /\ staging' \in [Commands -> StageDirs \cup {None}]
    BY DEF PowerFailure, Places, Inv, TypeOK
  <2> QED BY <1>1, <2>1, <2>2, <2>3, <2>4 DEF Inv, TypeOK
<1>5. Roles'
  BY <1>1, Parameters DEF Roles, Locked
<1>6. \A c \in Commands : Filling(c)' /\ Staged(c)'
  BY <1>1 DEF Filling, Staged
<1>7. ASSUME NEW c \in Commands PROVE Reported(c)'
  <2> SUFFICES ASSUME pc'[c] = "done" PROVE outputs'[OutputOf[c]] # None /\ outputs'[OutputOf[c]].named
    BY <1>1 DEF Reported
  <2>1. outputs[OutputOf[c]] # None /\ outputs[OutputOf[c]].named /\ OutputOf[c] \in Outputs
    BY <1>1, Directories DEF Inv, Reported
  <2>2. outputs[OutputOf[c]] \in StageDirs /\ outputs'[OutputOf[c]] = [outputs[OutputOf[c]] EXCEPT !.named = TRUE]
    BY <1>3, <2>1
  <2>3. outputs'[OutputOf[c]] \in StageDirs /\ outputs'[OutputOf[c]].named
    BY <2>2 DEF StageDirs
  <2> QED BY <2>3, Parameters
<1>8. ASSUME NEW b \in Backups PROVE Manifested(b)'
  <2> DEFINE x == backups[b]
             y == backups'[b]
  <2> SUFFICES ASSUME y # None PROVE Manifested(b)'
    BY DEF Manifested
  <2>1. /\ x # None /\ x \in BackupDirs
        /\ y.main \in AfterCrash(x.main) /\ y.wal \in AfterCrash(x.wal)
        /\ y.manifest \in AfterCrash(x.manifest)
    BY <1>2
  <2>2. Manifested(b) /\ taken'[b] = taken[b]
    BY <1>1 DEF Inv
  <2>3. y.manifest.bytes \in {x.manifest.bytes, None, Torn}
    <3>1. x.manifest \in Files(Snapshots)
      BY <2>1 DEF BackupDirs
    <3> HIDE DEF x, y
    <3> QED BY <2>1, <3>1, FileAfterCrash
  <2>4. Durable(x.main) /\ Durable(x.wal) => y.main = x.main /\ y.wal = x.wal
    <3>1. x.main \in Files(Versions) /\ x.wal \in Files(Versions)
      BY <2>1 DEF BackupDirs
    <3> HIDE DEF x, y
    <3> QED BY <2>1, <3>1, FileAfterCrash
  <2> HIDE DEF x, y
  <2>5. y = backups'[b] /\ x = backups[b]
    BY DEF x, y
  <2> QED BY <2>1, <2>2, <2>3, <2>4, <2>5 DEF Manifested, Bytes
<1>9. \A b \in Backups : Kept(b)
  <2> TAKE b \in Backups
  <2> SUFFICES ASSUME backups[b] # None PROVE Kept(b)
    BY DEF Kept
  <2>1. /\ backups'[b] # None /\ taken'[b] = taken[b] /\ backups[b].manifest \in Files(Snapshots)
        /\ backups'[b].manifest \in AfterCrash(backups[b].manifest)
    BY <1>1, <1>2, BackupTypes, FileTypes
  <2>2. Durable(backups[b].manifest) => backups'[b].manifest = backups[b].manifest
    BY <2>1, FileAfterCrash
  <2>3. Durable(File(taken[b], TRUE, TRUE))
    BY FileParts
  <2> QED BY <2>1, <2>2, <2>3 DEF Kept
<1>10. ASSUME NEW o \in Outputs PROVE PublishedWhole(o)'
  <2> SUFFICES ASSUME outputs'[o] # None PROVE PublishedWhole(o)'
    BY DEF PublishedWhole
  <2>1. /\ outputs[o] # None /\ outputs[o] \in StageDirs
        /\ outputs'[o] = [outputs[o] EXCEPT !.named = TRUE] /\ PublishedWhole(o)
    BY <1>3 DEF Inv
  <2>2. /\ outputs'[o].main = outputs[o].main /\ outputs'[o].wal = outputs[o].wal
        /\ outputs'[o].mode = outputs[o].mode
    BY <2>1 DEF StageDirs
  <2>3. \E b \in Backups : backups'[b] # None /\ outputs'[o].main.bytes = Holds(taken'[b])
    BY <1>9, <2>1, <2>2 DEF PublishedWhole, Kept
  <2>4. ASSUME NEW c \in Commands \ Restores, HasWayBack(o, c) PROVE HasWayBack(o, c)'
    BY <1>9, <2>2, <2>4, Directories DEF HasWayBack, Kept
  <2> QED BY <2>1, <2>2, <2>3, <2>4 DEF PublishedWhole
<1> QED BY <1>4, <1>5, <1>6, <1>7, <1>8, <1>10 DEF Inv

-----------------------------------------------------------------------------
(* The theorems.                                                            *)

LEMMA Establish == Init => Inv
<1> SUFFICES ASSUME Init PROVE Inv
  OBVIOUS
<1>1. TypeOK
  <2>1. 0 \in Versions /\ 1 \in Versions
    BY Parameters DEF Versions
  <2>2. source \in Snapshots
    BY <2>1 DEF Init, Snapshots
  <2>3. 0 \in 0..MaxCrashes /\ "start" \in Places
    BY Parameters DEF Places
  <2> QED BY <2>2, <2>3 DEF Init, TypeOK
<1>2. Roles /\ \A c \in Commands : Filling(c) /\ Staged(c) /\ Reported(c)
  BY Parameters DEF Init, Roles, Locked, Filling, Staged, Reported
<1>3. \A b \in Backups : Manifested(b)
  BY DEF Init, Manifested
<1>4. \A o \in Outputs : PublishedWhole(o)
  BY DEF Init, PublishedWhole
<1> QED BY <1>1, <1>2, <1>3, <1>4 DEF Inv

LEMMA Preserve == Inv /\ [Next]_vars => Inv'
<1> SUFFICES ASSUME Inv, [Next]_vars PROVE Inv'
  OBVIOUS
<1>1. ASSUME NEW c \in Commands, Step(c) PROVE Inv'
  BY <1>1, CheckUnusedStep, LockSourceStep, CreateBackupStep, CopyMainStep, CopyWalStep,
     SyncBackupStep, ReadManifestStep, CopySnapshotStep, WriteManifestStep, SyncManifestStep,
     ConvertStep, VerifyBackupStep, CheckpointStep, SyncStagingStep, PublishStep,
     SyncParentStep, Zenon DEF Step
<1>2. CASE UNCHANGED vars
  <2>1. TypeOK' /\ Roles'
    BY <1>2 DEF vars, Inv, TypeOK, Roles
  <2>2. ASSUME NEW c \in Commands PROVE Filling(c)' /\ Staged(c)' /\ Reported(c)'
    <3>1. Filling(c)'
      BY <1>2, Present DEF vars, Filling
    <3>2. Staged(c)' /\ Reported(c)'
      BY <1>2, Present DEF vars, Staged, Reported
    <3> QED BY <3>1, <3>2
  <2>3. \A b \in Backups : Manifested(b)' /\ Kept(b)
    BY <1>2 DEF vars, Inv, Manifested, Kept
  <2>4. \A o \in Outputs : PublishedWhole(o)'
    BY <1>2, <2>3, PublishedKept DEF vars, Inv
  <2> QED BY <2>1, <2>2, <2>3, <2>4 DEF Inv
<1> QED BY <1>1, <1>2, OwnerStep, PowerFailureStep, FailStep DEF Next

LEMMA Invariance == Spec => []Inv
BY Establish, Preserve, PTL DEF Spec

\* Types, a manifest that means the whole source, whole outputs, and a conversion's
\* way back: migrate verifies and syncs the backup and its manifest before PRAGMA
\* journal_mode, and sync_directory_files precedes the rename.
THEOREM WayBack == Spec => []ConversionHasBackup
<1>1. ASSUME Inv PROVE ManifestMeansBackup
  BY <1>1 DEF Inv, Manifested, ManifestMeansBackup
<1>2. ASSUME Inv PROVE OutputWhole
  <2> SUFFICES ASSUME NEW o \in Outputs, outputs[o] # None
               PROVE  /\ outputs[o].main.bytes \in {Holds(taken[b]) : b \in {x \in Backups : taken[x] # None}}
                      /\ outputs[o].wal = NoFile
    BY DEF OutputWhole
  <2>1. PICK b \in Backups : backups[b] # None /\ outputs[o].main.bytes = Holds(taken[b])
    BY <1>2 DEF Inv, PublishedWhole
  <2>2. taken[b] # None
    BY <1>2, <2>1, Parameters DEF Inv, Manifested
  <2> QED BY <1>2, <2>1, <2>2 DEF Inv, PublishedWhole
<1>3. ASSUME Inv, NEW o \in Outputs, outputs[o] # None, outputs[o].mode = "mvcc"
      PROVE  \E c \in Commands \ Restores :
               /\ OutputOf[c] = o /\ backups[BackupOf[c]] # None
               /\ Holds(taken[BackupOf[c]]) = outputs[o].main.bytes
               /\ \A after \in BackupsAfter(backups[BackupOf[c]]) :
                    after.manifest.bytes = taken[BackupOf[c]]
  <2>1. PICK c \in Commands \ Restores : HasWayBack(o, c)
    BY <1>3 DEF Inv, PublishedWhole
  <2>2. ASSUME NEW after \in BackupsAfter(backups[BackupOf[c]])
        PROVE  after.manifest.bytes = taken[BackupOf[c]]
    <3>1. backups[BackupOf[c]] \in BackupDirs
      BY <1>3, <2>1, Directories DEF Inv, TypeOK, HasWayBack
    <3>2. /\ after.manifest \in AfterCrash(backups[BackupOf[c]].manifest)
          /\ backups[BackupOf[c]].manifest \in Files(Snapshots)
      BY <3>1, BackupAfterCrash, BackupTypes, FileTypes
    <3>3. /\ backups[BackupOf[c]].manifest.bytes = taken[BackupOf[c]]
          /\ Durable(backups[BackupOf[c]].manifest)
      <4>1. backups[BackupOf[c]].manifest = File(taken[BackupOf[c]], TRUE, TRUE)
        BY <2>1 DEF HasWayBack
      <4> QED BY <4>1, DurableFile
    <3> QED BY <3>2, <3>3, FileAfterCrash
  <2> QED BY <2>1, <2>2 DEF HasWayBack
<1>4. Inv => ConversionHasBackup
  BY <1>1, <1>2, <1>3 DEF ConversionHasBackup, Inv
<1> QED BY <1>4, Invariance, PTL

\* No step replaces a published directory, and a power failure removes only one
\* that no command has reported (publish_directory syncs the parent first).
THEOREM ReportIsFinal == Spec => ReportedSurvives
<1> DEFINE Same(o) == outputs'[o] \in {outputs[o], [outputs[o] EXCEPT !.named = TRUE]}
           Lost(o) == /\ crashes' # crashes /\ ~outputs[o].named
                      /\ \A c \in Commands : OutputOf[c] = o => pc[c] # "done"
<1>1. ASSUME Inv, [Next]_vars, NEW o \in Outputs, outputs[o] # None PROVE Same(o) \/ Lost(o)
  <2>1. CASE PowerFailure
    <3>1. /\ outputs'[o] \in OutputsAfter(outputs[o]) /\ outputs[o] \in StageDirs
          /\ Durable(outputs[o].main)
      BY <1>1, <2>1 DEF PowerFailure, Inv, TypeOK, PublishedWhole
    <3>2. CASE outputs'[o] = [outputs[o] EXCEPT !.named = TRUE]
      BY <3>2
    <3>3. CASE outputs'[o] = None /\ ~outputs[o].named
      <4>1. crashes' # crashes
        <5>1. crashes \in 0..MaxCrashes /\ crashes' = crashes + 1
          BY <1>1, <2>1 DEF PowerFailure, Inv, TypeOK
        <5> QED BY <5>1, Parameters
      <4>2. \A c \in Commands : OutputOf[c] = o => pc[c] # "done"
        BY <1>1, <3>3 DEF Inv, Reported
      <4> QED BY <3>3, <4>1, <4>2
    <3> QED BY <3>1, <3>2, <3>3, OutputAfterCrash
  <2>2. ASSUME NEW c \in Commands, SyncParent(c) PROVE Same(o)
    BY <1>1, <2>2 DEF SyncParent, Inv, TypeOK
  <2>3. ASSUME NEW c \in Commands, Publish(c) PROVE Same(o)
    BY <1>1, <2>3 DEF Publish, Inv, TypeOK
  <2>4. CASE outputs' = outputs
    BY <2>4
  <2>5. ASSUME NEW c \in Commands, Step(c) PROVE outputs' = outputs \/ SyncParent(c) \/ Publish(c)
    BY <2>5 DEF Step, CheckUnused, LockSource, CreateBackup, CopyMain, CopyWal, SyncBackup,
       ReadManifest, CopySnapshot, WriteManifest, SyncManifest, Convert, VerifyBackup,
       Checkpoint, SyncStaging
  <2>6. PowerFailure \/ outputs' = outputs \/ \E c \in Commands : SyncParent(c) \/ Publish(c)
    BY <1>1, <2>5 DEF Next, vars, Fail, Owner, OwnerOpen, OwnerWrite, OwnerCheckpoint, OwnerClose
  <2> QED BY <2>1, <2>2, <2>3, <2>4, <2>6
<1>2. Inv /\ [Next]_vars =>
        [\A o \in Outputs : outputs[o] # None =>
           \/ outputs'[o] \in {outputs[o], [outputs[o] EXCEPT !.named = TRUE]}
           \/ /\ crashes' # crashes /\ ~outputs[o].named
              /\ \A c \in Commands : OutputOf[c] = o => pc[c] # "done"]_vars
  BY <1>1
<1> QED BY <1>2, Invariance, PTL DEF Spec, ReportedSurvives
================================================================================
