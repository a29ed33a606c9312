--------------------------- MODULE CopiesProofs ---------------------------
(***************************************************************************)
(* Proofs about Copies, for any names, keys, commits and moments and any   *)
(* number of backups: the types of its state; that every backup and every  *)
(* restore is of a committed prefix, as long as mutations take the write   *)
(* guard; that a recovery point is one, as long as a name is used once;    *)
(* and that retention leaves the copies it was told to.                    *)
(***************************************************************************)
EXTENDS Copies, FiniteSetTheorems, TLAPS

-----------------------------------------------------------------------------
(* The types of the state.                                                  *)

\* A mutation, a backup, a verification or restore, and a retention run, each at
\* its step.
Writers == {Idle} \cup [at : {"write", "forget"}, commit : Commits]

Started ==
  [at : {"log", "copy", "manifest", "sign", "publish", "receipt"}, name : Names,
   key : Keys \cup {Null}, dir : Staging, list : SUBSET Commits, snapshot : BOOLEAN]

Backups == {Idle} \cup Started

Readers == {Idle}
  \cup [at : {"receipt"}, dir : Dirs, content : Contents]
  \cup [at : {"copy"}, dir : Dirs, content : Contents, signed : BOOLEAN]

Prunes == {Idle}
  \cup [at : {"apply"}, doomed : SUBSET Dirs, held : SUBSET Names]
  \cup [at : {"gone", "receipt"}, doomed : SUBSET Dirs, held : SUBSET Names, dir : Dirs]

\* What the variables hold.
TypeOK ==
  /\ pages \in SUBSET Commits /\ snapshot \in (SUBSET Commits) \cup {Null} /\ log \in SUBSET Commits
  /\ writer \in Writers
  /\ owner \in {"nobody", "server", "loomctl"} /\ lock \in {"free", "write", "backup"}
  /\ backup \in Backups /\ started \in 0..MaxBackups
  /\ shelf \in [Dirs -> Copies \cup {Null}] /\ receipt \in [Names -> Receipts \cup {Null}]
  /\ prune \in Prunes /\ reader \in Readers
  /\ now \in Times /\ headAt \in [Times -> SUBSET Commits]
  /\ vouched \in SUBSET Contents /\ used \in SUBSET Names /\ muddied \in BOOLEAN

-----------------------------------------------------------------------------
(* The invariants.                                                          *)

\* A mutation under way is of the server, and has the guard if it takes it.
Owned ==
  writer # Idle => owner = "server" /\ (writer.at = "write" => lock = "write")

\* A backup has the guard until it is published; the receipt is loomctl's, which
\* has the store to itself.
Guarded ==
  /\ backup.at \in {"log", "copy", "manifest", "sign", "publish"} => lock = "backup"
  /\ backup.at = "receipt" => owner = "loomctl"

\* The mutations there are wait for the guard.
WritesOnly == Kinds \subseteq {"write"}

\* The refs name only what is there, gc takes nothing of a mutation under way, and
\* under the guard nothing is committed or swept: the list is of what is there.
Listed ==
  /\ refs \subseteq pages
  /\ writer # Idle => writer.at = "write" /\ writer.commit \in pages
  /\ backup.at \in {"log", "copy"} => backup.list = pages

\* What a backup copies of the snapshot, if it does so now.
SnapshotSeen == IF backup.snapshot THEN In(snapshot) ELSE {}

\* The log that was copied and the snapshot as it is make up the refs there were
\* when the backup was begun, however often the one is folded into the other.
CopyComplete ==
  backup.at \in {"log", "copy"} /\ ~Missing(backup.dir) =>
    /\ ~shelf[backup.dir].manifest
    /\ ~backup.snapshot => shelf[backup.dir].from = {}
    /\ backup.at = "log" => shelf[backup.dir].from \subseteq refs
    /\ backup.at = "copy" =>
         /\ shelf[backup.dir].content.refs \subseteq refs
         /\ shelf[backup.dir].from \subseteq shelf[backup.dir].content.refs \cup SnapshotSeen

\* A committed prefix with all that was there when it was begun.
Sound(copy) == Whole(copy.content) /\ copy.from \subseteq copy.content.refs

\* What has its manifest, or is about to, is one.
ShelfWhole ==
  \A d \in Dirs : ~Missing(d) /\ (shelf[d].manifest \/ (backup.at = "manifest" /\ backup.dir = d))
    => Sound(shelf[d])

\* What has its name, or is about to, has the signature that was asked for, unless
\* it is being removed; until then a backup knows which that is.
ShelfSigned ==
  \A d \in Dirs : ~Missing(d) /\ shelf[d].asked # Null =>
    /\ d \in Names \/ (backup.at = "publish" /\ backup.dir = d) => shelf[d].key = shelf[d].asked
    /\ backup.at \in {"log", "copy", "manifest", "sign"} /\ backup.dir = d =>
         shelf[d].asked = backup.key

\* What a trusted key signed is as it was then: nothing is copied into a
\* directory once it is signed.
ShelfVouched ==
  \A d \in Dirs : ~Missing(d) =>
    /\ shelf[d].key \in Trusted => shelf[d].content \in vouched
    /\ backup.at \in {"log", "copy", "manifest"} /\ backup.dir = d => shelf[d].key = Null

\* A restore under way has what verified.
RestoringTrue ==
  reader.at = "copy" =>
    /\ Whole(reader.content)
    /\ reader.signed => reader.content \in vouched

\* No copy is published under a name twice.
NamedOnce ==
  /\ \A n \in Names : ~Missing(n) => n \in used
  /\ backup.at \in {"log", "copy", "manifest", "sign", "publish"} => backup.name \notin used

\* The refs never go back, and headAt is what they were.
HeadsBehind == \A t \in Times : t < now => headAt[t] \subseteq refs

\* While loomctl has the store the copy it made is of the refs there are.
CopyIsCurrent ==
  owner = "loomctl" =>
    /\ backup.at \in {"log", "copy"} => backup.snapshot = (snapshot # Null)
    /\ backup.at = "copy" /\ ~Missing(backup.dir) => shelf[backup.dir].content.refs = log
    /\ backup.at \in {"manifest", "sign", "publish"} /\ ~Missing(backup.dir)
         => shelf[backup.dir].content.refs = refs
    /\ backup.at = "receipt" /\ ~Missing(backup.name)
         => shelf[backup.name].content.refs = refs

\* What a copy with these contents, said to be of that moment, is behind.
PointTrue(content, point) == point <= now /\ (point > 0 => headAt[point - 1] \subseteq content.refs)

\* Every receipt says so truly.
ReceiptsTrue == \A n \in Names : receipt[n] # Null => PointTrue(receipt[n].digest, receipt[n].created)

\* What was verified by name is what is under the name, if anything still is.
ReaderNamed ==
  reader.at = "receipt" /\ reader.dir \in Names =>
    /\ reader.dir \in used
    /\ ~Missing(reader.dir) => shelf[reader.dir].content = reader.content

\* The copies a retention run was told to leave are there, and as new as what it
\* has still to take.
Spared(keep) ==
  /\ keep \subseteq Names /\ Cardinality(keep) = MinimumCopies
  /\ prune.doomed \subseteq Names /\ keep \cap prune.doomed = {}
  /\ prune.at \in {"gone", "receipt"} => prune.dir \notin keep \cup prune.doomed
  /\ \A m \in keep \cup prune.doomed :
       Recognised(m) /\ ~(backup.at = "receipt" /\ backup.name = m)
  /\ \A m \in keep, n \in prune.doomed : Date(m) >= Date(n)

\* A retention run dooms nothing that was held, and spares what it was told to.
PruneSpares ==
  prune # Idle =>
    /\ prune.doomed \cap prune.held = {}
    /\ ~muddied => \E keep \in SUBSET Names : Spared(keep)

\* What a step of an activity carries, by its name.
LEMMA Shapes ==
  ASSUME TypeOK
  PROVE  /\ Idle.at = "idle"
         /\ writer # Idle => writer \in [at : {"write", "forget"}, commit : Commits]
         /\ backup # Idle => backup \in Started
         /\ reader.at = "receipt" => reader \in [at : {"receipt"}, dir : Dirs, content : Contents]
         /\ reader.at = "copy" =>
              reader \in [at : {"copy"}, dir : Dirs, content : Contents, signed : BOOLEAN]
         /\ reader # Idle => reader.at \in {"receipt", "copy"}
         /\ prune.at = "apply" =>
              prune \in [at : {"apply"}, doomed : SUBSET Dirs, held : SUBSET Names]
         /\ prune.at \in {"gone", "receipt"} =>
              prune \in [at : {"gone", "receipt"}, doomed : SUBSET Dirs, held : SUBSET Names,
                         dir : Dirs]
         /\ prune # Idle => prune.at \in {"apply", "gone", "receipt"}
<1>1. Idle.at = "idle"
  BY DEF Idle
<1>2. writer \in Writers /\ backup \in Backups /\ reader \in Readers /\ prune \in Prunes
  BY DEF TypeOK
<1>3. writer # Idle => writer \in [at : {"write", "forget"}, commit : Commits]
  BY <1>2 DEF Writers
<1>4. backup # Idle => backup \in Started
  BY <1>2 DEF Backups
<1>5. /\ reader.at = "receipt" => reader \in [at : {"receipt"}, dir : Dirs, content : Contents]
      /\ reader.at = "copy" =>
           reader \in [at : {"copy"}, dir : Dirs, content : Contents, signed : BOOLEAN]
      /\ reader # Idle => reader.at \in {"receipt", "copy"}
  BY <1>1, <1>2 DEF Readers
<1>6. /\ prune.at = "apply" =>
           prune \in [at : {"apply"}, doomed : SUBSET Dirs, held : SUBSET Names]
      /\ prune.at \in {"gone", "receipt"} =>
           prune \in [at : {"gone", "receipt"}, doomed : SUBSET Dirs, held : SUBSET Names, dir : Dirs]
      /\ prune # Idle => prune.at \in {"apply", "gone", "receipt"}
  BY <1>1, <1>2 DEF Prunes
<1> QED  BY <1>1, <1>3, <1>4, <1>5, <1>6

\* A directory on the shelf.
LEMMA Shelved ==
  ASSUME TypeOK, NEW d \in Dirs, ~Missing(d)
  PROVE  shelf[d] \in Copies
  BY DEF TypeOK, Missing

\* What the refs name.
LEMMA RefsTyped ==
  ASSUME TypeOK
  PROVE  refs \in SUBSET Commits /\ In(snapshot) \in SUBSET Commits /\ refs # Null
<1>1. In(snapshot) \in SUBSET Commits
  <2>1. CASE snapshot = Null
    BY <2>1 DEF In
  <2>2. CASE snapshot # Null
    <3>1. snapshot \in SUBSET Commits
      BY <2>2 DEF TypeOK
    <3>2. In(snapshot) = snapshot
      BY <2>2, Zenon DEF In
    <3> QED  BY <3>1, <3>2
  <2> QED  BY <2>1, <2>2
<1>2. refs \in SUBSET Commits
  BY <1>1 DEF refs, TypeOK
<1> QED  BY <1>1, <1>2, CopiesAssumption

\* Steps of the store and of the clock.
StoreStep ==
  \/ Serve \/ Persist \/ WriteSnapshot \/ TruncateLog \/ Gc \/ Crash \/ Tick
  \/ \E kind \in Kinds : Commit(kind)

\* Steps of the store keep the types.
LEMMA StoreTypes ==
  ASSUME TypeOK, StoreStep
  PROVE  TypeOK'
<1> USE DEF TypeOK, store, making, clock
<1>1. CASE Serve
  BY <1>1 DEF Serve
<1>2. CASE Persist
  <2>1. writer.commit \in Commits
    BY <1>2, Shapes DEF Persist
  <2> QED  BY <1>2, <2>1 DEF Persist, Writers
<1>3. CASE Crash
  BY <1>3 DEF Crash, Writers, Backups
<1>6. CASE WriteSnapshot \/ TruncateLog \/ Gc
  <2>1. refs \in SUBSET Commits
    BY RefsTyped
  <2> QED  BY <1>6, <2>1 DEF WriteSnapshot, TruncateLog, Gc
<1>4. CASE Tick
  <2>1. now + 1 \in Times
    BY <1>4, CopiesAssumption DEF Tick, Times
  <2>2. refs \in SUBSET Commits
    BY RefsTyped
  <2> QED  BY <1>4, <2>1, <2>2 DEF Tick
<1>5. ASSUME NEW kind \in Kinds, Commit(kind)
      PROVE  TypeOK'
  <2>1. kind \in {"write", "forget"}
    BY CopiesAssumption
  <2>2. PICK c \in Commits \ pages : pages' = pages \cup {c} /\ writer' = [at |-> kind, commit |-> c]
    BY <1>5 DEF Commit
  <2>3. writer' \in Writers /\ pages' \in SUBSET Commits
    BY <2>1, <2>2 DEF Writers
  <2> QED  BY <1>5, <2>3 DEF Commit
<1> QED  BY <1>1, <1>2, <1>3, <1>4, <1>5, <1>6 DEF StoreStep

\* Steps of a backup.
BackupStep ==
  \/ \E name \in Names, key \in Keys \cup {Null} : BackupBegin(name, key)
  \/ CopyLog \/ CopyFiles \/ WriteManifest \/ WriteSignature \/ Publish \/ WriteReceipt
  \/ BackupFails

\* And those of a backup: what is staged is a directory.
LEMMA BackupTypes ==
  ASSUME TypeOK, BackupStep
  PROVE  TypeOK'
<1> USE DEF TypeOK, store, making, clock
<1>1. Names \subseteq Dirs /\ Staging \subseteq Dirs /\ refs \in SUBSET Commits
  BY RefsTyped DEF Dirs
<1>2. backup.at \in {"log", "copy", "manifest", "sign", "publish", "receipt"} => backup \in Started
  BY Shapes
<1>3. ASSUME NEW to \in {"copy", "manifest", "sign", "publish"}, NEW copy \in Copies, Stage(to, copy),
             backup.at \in {"log", "copy", "manifest", "sign"}, vouched' \in SUBSET Contents
      PROVE  TypeOK'
  <2>1. backup' \in Backups
    BY <1>2, <1>3 DEF Stage, Backups, Started
  <2>2. shelf' \in [Dirs -> Copies \cup {Null}]
    BY <1>3 DEF Stage
  <2> QED  BY <1>3, <2>1, <2>2 DEF Stage
<1>4. ASSUME NEW name \in Names, NEW key \in Keys \cup {Null}, BackupBegin(name, key)
      PROVE  TypeOK'
  <2>1. started + 1 \in Staging /\ started' = started + 1
    BY <1>4, CopiesAssumption DEF BackupBegin, Staging
  <2>2. [content |-> [pages |-> {}, refs |-> {}], manifest |-> FALSE, key |-> Null,
         intact |-> TRUE, mtime |-> now, asked |-> key,
         from |-> IF snapshot = Null THEN {} ELSE refs] \in Copies
    BY <1>1 DEF Copies, Contents
  <2>3. shelf' \in [Dirs -> Copies \cup {Null}]
    BY <1>4, <2>1, <2>2 DEF BackupBegin
  <2>4. backup' \in Backups
    BY <1>4, <2>1 DEF BackupBegin, Backups, Started
  <2>5. started' \in 0..MaxBackups
    BY <1>4, <2>1 DEF Staging
  <2> QED  BY <1>4, <2>3, <2>4, <2>5 DEF BackupBegin, Opened
<1>5. CASE CopyFiles
  <2>1. backup.dir \in Dirs /\ backup.list \in SUBSET Commits /\ In(snapshot) \in SUBSET Commits
    BY <1>1, <1>2, <1>5, RefsTyped DEF CopyFiles, Started
  <2>2. shelf[backup.dir] \in Copies /\ shelf[backup.dir].content.refs \in SUBSET Commits
    BY <1>5, <2>1, Shelved DEF CopyFiles, Copies, Contents
  <2> DEFINE seen == IF backup.snapshot THEN In(snapshot) ELSE {}
             new == [pages |-> backup.list, refs |-> shelf[backup.dir].content.refs \cup seen]
  <2>3. new \in Contents /\ now \in Times
    BY <2>1, <2>2 DEF Contents
  <2>4. [shelf[backup.dir] EXCEPT
           !.content = [pages |-> backup.list, refs |-> @.refs \cup seen], !.mtime = now] \in Copies
    <3> HIDE DEF TypeOK
    <3> QED  BY <2>2, <2>3 DEF Copies
  <2> QED  BY <1>3, <1>5, <2>4 DEF CopyFiles
<1>11. CASE CopyLog
  <2>1. backup.dir \in Dirs
    BY <1>1, <1>2, <1>11 DEF CopyLog, Started
  <2>2. [shelf[backup.dir] EXCEPT !.content = [pages |-> {}, refs |-> log], !.mtime = now] \in Copies
    <3>1. shelf[backup.dir] \in Copies
      BY <1>11, <2>1, Shelved DEF CopyLog
    <3>2. [pages |-> {}, refs |-> log] \in Contents /\ now \in Times
      BY DEF Contents
    <3> HIDE DEF TypeOK
    <3> QED  BY <3>1, <3>2 DEF Copies
  <2> QED  BY <1>3, <1>11, <2>2 DEF CopyLog
<1>6. CASE WriteManifest
  <2>1. backup.dir \in Dirs
    BY <1>1, <1>2, <1>6 DEF WriteManifest, Started
  <2>2. [shelf[backup.dir] EXCEPT !.manifest = TRUE, !.mtime = now] \in Copies
    <3>1. shelf[backup.dir] \in Copies /\ now \in Times
      BY <1>6, <2>1, Shelved DEF WriteManifest
    <3> HIDE DEF TypeOK
    <3> QED  BY <3>1 DEF Copies
  <2> QED  BY <1>3, <1>6, <2>2 DEF WriteManifest
<1>7. CASE WriteSignature
  <2>1. backup.dir \in Dirs /\ backup.key \in Keys \cup {Null}
    BY <1>1, <1>2, <1>7 DEF WriteSignature, Started
  <2>2. shelf[backup.dir] \in Copies
    BY <1>7, <2>1, Shelved DEF WriteSignature
  <2>3. /\ [shelf[backup.dir] EXCEPT !.key = backup.key, !.mtime = now] \in Copies
        /\ shelf[backup.dir].content \in Contents
    BY <2>1, <2>2 DEF Copies
  <2> QED  BY <1>3, <1>7, <2>3 DEF WriteSignature
<1>8. CASE Publish
  <2>1. backup.dir \in Dirs /\ backup.name \in Names /\ backup # Idle
    BY <1>1, <1>2, <1>8, Shapes DEF Publish, Started
  <2>2. shelf[backup.dir] \in Copies
    BY <1>8, <2>1, Shelved DEF Publish
  <2>3. shelf' \in [Dirs -> Copies \cup {Null}]
    BY <1>1, <1>8, <2>1, <2>2 DEF Publish
  <2>4. [backup EXCEPT !.at = "receipt"] \in Backups /\ Idle \in Backups
    BY <1>2, <1>8 DEF Publish, Backups, Started
  <2>5. backup' \in Backups /\ owner' \in {"nobody", "server", "loomctl"}
    BY <1>8, <2>4 DEF Publish, Ended
  <2> QED  BY <1>8, <2>1, <2>3, <2>5 DEF Publish
<1>9. CASE WriteReceipt
  <2>1. backup.name \in Names
    BY <1>2, <1>9 DEF WriteReceipt, Started
  <2>2. shelf[backup.name] \in Copies
    BY <1>1, <1>9, <2>1, Shelved DEF WriteReceipt, Recognised
  <2>3. [digest |-> shelf[backup.name].content, created |-> now] \in Receipts
    BY <2>2 DEF Copies, Receipts
  <2>4. receipt' \in [Names -> Receipts \cup {Null}]
    BY <1>9, <2>1, <2>3 DEF WriteReceipt
  <2> QED  BY <1>9, <2>4 DEF WriteReceipt, Ended, Backups
<1>10. CASE BackupFails
  <2>1. shelf' \in [Dirs -> Copies \cup {Null}]
    BY <1>10 DEF BackupFails
  <2> QED  BY <1>10, <2>1 DEF BackupFails, Ended, Backups
<1> QED  BY <1>4, <1>5, <1>6, <1>7, <1>8, <1>9, <1>10, <1>11 DEF BackupStep

\* Steps of a verification or a restore.
ReaderStep ==
  \/ \E d \in Dirs : VerifyBackupSigned(d)
  \/ PublishSignals
  \/ \E d \in Dirs, signed \in BOOLEAN : RestoreBegin(d, signed)
  \/ RestoreCopy \/ ReaderFails

\* And those of a verification or restore: what verified has contents.
LEMMA ReaderTypes ==
  ASSUME TypeOK, ReaderStep
  PROVE  TypeOK'
<1>1. UNCHANGED <<store, making, shelf, receipt, prune, clock, vouched, used, muddied>>
  BY DEF ReaderStep, VerifyBackupSigned, PublishSignals, RestoreBegin, RestoreCopy, ReaderFails
<1>2. reader' \in Readers
  <2>1. ASSUME NEW d \in Dirs, Verifies(d)
        PROVE  shelf[d].content \in Contents
    BY <2>1, Shelved DEF Verifies, Recognised, Copies
  <2>2. ASSUME NEW d \in Dirs, VerifyBackupSigned(d)
        PROVE  reader' \in Readers
    BY <2>1, <2>2 DEF VerifyBackupSigned, VerifiesSigned, Readers
  <2>3. ASSUME NEW d \in Dirs, NEW signed \in BOOLEAN, RestoreBegin(d, signed)
        PROVE  reader' \in Readers
    BY <2>1, <2>3 DEF RestoreBegin, VerifiesSigned, Readers
  <2>4. CASE PublishSignals \/ RestoreCopy \/ ReaderFails
    BY <2>4 DEF PublishSignals, RestoreCopy, ReaderFails, Readers
  <2> QED  BY <2>2, <2>3, <2>4 DEF ReaderStep
<1> QED  BY <1>1, <1>2 DEF TypeOK, store, making, clock

\* Steps of a retention run, and damage.
ShelfStep ==
  \/ PrunePlan \/ PruneDirectory \/ PruneReceipt \/ PruneFails
  \/ \E d \in Dirs : PruneFiles(d)
  \/ \E n \in Names : Damage(n)

\* And those of retention, and damage.
LEMMA ShelfTypes ==
  ASSUME TypeOK, ShelfStep
  PROVE  TypeOK'
<1> USE DEF TypeOK, store, making, clock
<1>1. CASE PrunePlan
  <2>1. prune' \in Prunes
    BY <1>1 DEF PrunePlan, Doomed, Candidates, Prunes
  <2> QED  BY <1>1, <2>1 DEF PrunePlan
<1>2. CASE PruneDirectory
  <2>1. prune' \in Prunes
    BY <1>2, Shapes DEF PruneDirectory, Prunes
  <2> QED  BY <1>2, <2>1 DEF PruneDirectory
<1>3. CASE PruneReceipt
  <2>1. prune' \in Prunes
    BY <1>3, Shapes DEF PruneReceipt, Prunes
  <2> QED  BY <1>3, <2>1 DEF PruneReceipt
<1>4. CASE PruneFails
  BY <1>4 DEF PruneFails, Prunes
<1>5. ASSUME NEW d \in Dirs, PruneFiles(d)
      PROVE  TypeOK'
  <2>1. prune' \in Prunes
    BY <1>5, Shapes DEF PruneFiles, Prunes
  <2>2. PICK lost : shelf' = [shelf EXCEPT ![d] = Removed(@, lost)]
    BY <1>5 DEF PruneFiles
  <2>3. shelf[d] \in Copies
    BY <1>5, Shelved DEF PruneFiles
  <2>5. Removed(shelf[d], lost) \in Copies
    <3>1. now \in Times
      OBVIOUS
    <3> HIDE DEF TypeOK
    <3> QED  BY <2>3, <3>1 DEF Copies, Removed
  <2>6. shelf' \in [Dirs -> Copies \cup {Null}]
    BY <2>2, <2>5
  <2> QED  BY <1>5, <2>1, <2>6 DEF PruneFiles
<1>6. ASSUME NEW n \in Names, Damage(n)
      PROVE  TypeOK'
  <2>1. n \in Dirs
    BY DEF Dirs
  <2>2. shelf[n] \in Copies
    BY <1>6, <2>1, Shelved DEF Damage, Recognised
  <2>3. [shelf[n] EXCEPT !.intact = FALSE] \in Copies
    BY <2>2 DEF Copies
  <2>4. shelf' \in [Dirs -> Copies \cup {Null}]
    BY <1>6, <2>1, <2>3 DEF Damage
  <2> QED  BY <1>6, <2>4 DEF Damage
<1> QED  BY <1>1, <1>2, <1>3, <1>4, <1>5, <1>6 DEF ShelfStep

\* Whose step it is.
LEMMA WhoseStep == [Next]_vars => StoreStep \/ BackupStep \/ ReaderStep \/ ShelfStep \/ UNCHANGED vars
  BY DEF Next, StoreStep, BackupStep, ReaderStep, ShelfStep

\* Every step of the store, of backups, restores and retention keeps the types.
THEOREM CopiesTypes == Spec => []TypeOK
<1>1. Init => TypeOK
  <2> SUFFICES ASSUME Init PROVE TypeOK
    OBVIOUS
  <2>1. 0 \in Times /\ 0 \in 0..MaxBackups
    BY CopiesAssumption DEF Times
  <2>2. snapshot \in (SUBSET Commits) \cup {Null}
    <3>1. snapshot = (IF Compacted THEN {} ELSE Null)
      BY DEF Init
    <3>2. snapshot = {} \/ snapshot = Null
      BY <3>1
    <3> QED  BY <3>2
  <2> QED  BY <2>1, <2>2 DEF Init, TypeOK, Writers, Backups, Prunes, Readers
<1>2. TypeOK /\ [Next]_vars => TypeOK'
  <2> SUFFICES ASSUME TypeOK, [Next]_vars PROVE TypeOK'
    OBVIOUS
  <2>1. CASE UNCHANGED vars
    BY <2>1 DEF TypeOK, vars, store, making, clock
  <2> QED  BY <2>1, WhoseStep, StoreTypes, BackupTypes, ReaderTypes, ShelfTypes
<1> QED  BY <1>1, <1>2, PTL DEF Spec

-----------------------------------------------------------------------------
(* What each of them leaves alone.                                          *)

\* The store moves under a backup, and nothing else does.
LEMMA StoreFrame ==
  ASSUME StoreStep
  PROVE  UNCHANGED <<started, shelf, receipt, prune, reader, vouched, used, muddied>>
  BY DEF StoreStep, Serve, Persist, WriteSnapshot, TruncateLog, Gc, Crash, Tick, Commit, store,
         making, clock

\* A backup reads the store and writes the shelf and its own receipt.
LEMMA BackupFrame ==
  ASSUME BackupStep
  PROVE  UNCHANGED <<pages, snapshot, log, refs, writer, now, headAt, prune, reader, muddied>>
  BY DEF refs, BackupStep, BackupBegin, CopyLog, CopyFiles, WriteManifest, WriteSignature, Stage, Publish,
         WriteReceipt, BackupFails, store, clock

\* A verification or restore only reads.
LEMMA ReaderFrame ==
  ASSUME ReaderStep
  PROVE  UNCHANGED <<store, making, shelf, receipt, prune, clock, vouched, used, muddied>>
  BY DEF ReaderStep, VerifyBackupSigned, PublishSignals, RestoreBegin, RestoreCopy, ReaderFails

\* Retention and damage are confined to the shelf and the receipts.
LEMMA ShelfFrame ==
  ASSUME ShelfStep
  PROVE  UNCHANGED <<store, making, reader, clock, vouched, used>>
  BY DEF ShelfStep, PrunePlan, PruneDirectory, PruneReceipt, PruneFails, PruneFiles, Damage

-----------------------------------------------------------------------------
(* The store and the guard.                                                 *)

\* The invariant of the store, its guard and its clock.
StoreInv == Owned /\ Guarded /\ HeadsBehind

\* What the refs named they go on naming.
LEMMA HeadsStay ==
  ASSUME HeadsBehind, refs \subseteq refs', UNCHANGED <<now, headAt>>
  PROVE  HeadsBehind'
  BY DEF HeadsBehind

\* Each step of the store takes the guard if it should, and the refs only grow:
\* folding the log into the snapshot takes nothing from them.
LEMMA StoreStepKeeps ==
  ASSUME TypeOK, StoreInv, StoreStep
  PROVE  StoreInv' /\ refs \subseteq refs' /\ In(snapshot) \subseteq In(snapshot')
<1> USE DEF StoreInv, Owned, Guarded
<1>1. CASE Serve
  <2>1. UNCHANGED <<snapshot, log, refs, writer, backup, lock, now, headAt>>
    BY <1>1 DEF Serve, store, clock, refs
  <2>2. backup.at # "receipt"
    BY <1>1, Shapes DEF Serve
  <2>3. writer # Idle => owner' = owner
    BY <1>1 DEF Serve
  <2> QED  BY <2>1, <2>2, <2>3, HeadsStay
<1>2. CASE Persist
  <2>1. refs \subseteq refs' /\ UNCHANGED <<snapshot, owner, backup, now, headAt>> /\ writer' = Idle
    BY <1>2 DEF Persist, refs, clock
  <2>2. Guarded'
    BY <1>2, <2>1 DEF Persist
  <2> QED  BY <2>1, <2>2, HeadsStay
<1>3. CASE WriteSnapshot
  <2>1. snapshot' = refs /\ UNCHANGED <<log, writer, owner, lock, backup, now, headAt>>
    BY <1>3 DEF WriteSnapshot, making, clock
  <2>2. refs # Null
    BY RefsTyped
  <2>3. In(snapshot) \subseteq refs /\ In(snapshot') = refs /\ refs \subseteq refs'
    BY <2>1, <2>2 DEF In, refs
  <2> QED  BY <2>1, <2>3, HeadsStay
<1>4. CASE TruncateLog
  <2>1. UNCHANGED <<snapshot, writer, owner, lock, backup, now, headAt>>
    BY <1>4 DEF TruncateLog, making, clock
  <2>2. refs \subseteq refs'
    BY <1>4, <2>1 DEF TruncateLog, refs
  <2> QED  BY <2>1, <2>2, HeadsStay
<1>5. CASE Gc
  <2>1. UNCHANGED <<snapshot, log, refs, writer, owner, lock, backup, now, headAt>>
    BY <1>5 DEF Gc, making, clock, refs
  <2> QED  BY <2>1, HeadsStay
<1>6. CASE Crash
  <2>1. backup'.at = "idle" /\ UNCHANGED <<snapshot, log, refs, now, headAt>>
    BY <1>6 DEF Crash, Idle, clock, refs
  <2> QED  BY <1>6, <2>1, HeadsStay DEF Crash
<1>7. CASE Tick
  <2>1. now' = now + 1 /\ headAt' = [headAt EXCEPT ![now] = refs] /\ UNCHANGED <<store, making, refs>>
    BY <1>7 DEF Tick, store, refs
  <2>2. now \in Times /\ Times \subseteq Int /\ headAt \in [Times -> SUBSET Commits]
    BY DEF TypeOK, Times
  <2>3. HeadsBehind'
    BY <2>1, <2>2 DEF HeadsBehind
  <2> QED  BY <2>1, <2>3 DEF store, making
<1>8. ASSUME NEW kind \in Kinds, Commit(kind)
      PROVE  StoreInv' /\ refs \subseteq refs' /\ In(snapshot) \subseteq In(snapshot')
  <2>1. UNCHANGED <<snapshot, log, refs, owner, backup, now, headAt>> /\ owner = "server"
    BY <1>8 DEF Commit, refs, clock
  <2>2. /\ writer'.at = kind
        /\ kind = "write" => lock = "free" /\ lock' = "write"
        /\ kind # "write" => lock' = lock
    BY <1>8 DEF Commit, Admitted
  <2>3. Guarded' /\ Owned'
    BY <2>1, <2>2
  <2> QED  BY <2>1, <2>3, HeadsStay
<1> QED  BY <1>1, <1>2, <1>3, <1>4, <1>5, <1>6, <1>7, <1>8 DEF StoreStep

\* Who has the store, and the guard, after each step of a backup.
LEMMA BackupOwns ==
  ASSUME TypeOK, StoreInv, BackupStep
  PROVE  /\ Guarded'
         /\ owner = "server" => owner' = "server"
         /\ lock = "write" => lock' = "write"
<1> USE DEF StoreInv, Guarded
<1> USE DEF Started
<1>1. backup.at \in {"log", "copy", "manifest", "sign", "publish", "receipt"} => backup # Idle
  BY Shapes
<1>2. backup # Idle => backup \in Started
  BY Shapes
<1>3. Ended => backup'.at = "idle"
  BY DEF Ended, Idle
<1>4. ASSUME NEW name \in Names, NEW key \in Keys \cup {Null}, BackupBegin(name, key)
      PROVE  /\ Guarded'
             /\ owner = "server" => owner' = "server"
             /\ lock = "write" => lock' = "write"
  BY <1>4 DEF BackupBegin, Opened
<1>5. CASE CopyLog \/ CopyFiles \/ WriteManifest \/ WriteSignature
  <2>1. PICK to \in {"copy", "manifest", "sign", "publish"} :
          backup' = [backup EXCEPT !.at = to] /\ UNCHANGED <<owner, lock>>
    BY <1>5 DEF CopyLog, CopyFiles, WriteManifest, WriteSignature, Stage
  <2>2. backup.at \in {"log", "copy", "manifest", "sign"} /\ backup'.at = to
    BY <1>1, <1>2, <1>5, <2>1 DEF CopyLog, CopyFiles, WriteManifest, WriteSignature
  <2> QED  BY <2>1, <2>2
<1>6. CASE Publish
  <2>1. lock = "backup" /\ lock' = "free"
    BY <1>6 DEF Publish
  <2>2. backup'.at = "idle" \/ (owner = "loomctl" /\ owner' = owner /\ backup'.at = "receipt")
    BY <1>1, <1>2, <1>3, <1>6 DEF Publish, ReceiptDue
  <2>3. owner = "server" => owner' = "server"
    BY <1>6 DEF Publish, Ended
  <2> QED  BY <2>1, <2>2, <2>3
<1>7. CASE WriteReceipt
  <2>1. backup'.at = "idle" /\ lock' = lock
    BY <1>3, <1>7 DEF WriteReceipt
  <2>2. owner = "server" => owner' = "server"
    BY <1>7 DEF WriteReceipt, Ended
  <2> QED  BY <2>1, <2>2
<1>8. CASE BackupFails
  <2>1. backup'.at = "idle"
    BY <1>3, <1>8 DEF BackupFails
  <2>2. owner = "server" => owner' = "server"
    BY <1>8 DEF BackupFails, Ended
  <2>3. lock = "write" => lock' = "write"
    BY <1>2, <1>8 DEF BackupFails
  <2> QED  BY <2>1, <2>2, <2>3
<1> QED  BY <1>4, <1>5, <1>6, <1>7, <1>8 DEF BackupStep

\* And nobody else changes what it holds.
LEMMA StoreKeeps ==
  ASSUME TypeOK, StoreInv, [Next]_vars
  PROVE  StoreInv' /\ refs \subseteq refs' /\ In(snapshot) \subseteq In(snapshot')
<1>1. CASE StoreStep
  BY <1>1, StoreStepKeeps
<1>2. CASE BackupStep
  <2>1. UNCHANGED <<snapshot, refs, writer, now, headAt>>
    BY <1>2, BackupFrame
  <2> QED  BY <1>2, <2>1, BackupOwns, HeadsStay DEF StoreInv, Owned
<1>3. CASE ReaderStep \/ ShelfStep \/ UNCHANGED vars
  <2>1. UNCHANGED <<snapshot, log, refs, writer, owner, lock, backup, now, headAt>>
    BY <1>3, ReaderFrame, ShelfFrame DEF vars, store, making, clock, refs
  <2> QED  BY <2>1, HeadsStay DEF StoreInv, Owned, Guarded
<1> QED  BY <1>1, <1>2, <1>3, WhoseStep

-----------------------------------------------------------------------------
(* What is on the shelf.                                                    *)

\* A directory that may have lost something of what it was, and has got nothing.
LessOf(copy, was) ==
  /\ copy.content = was.content /\ copy.from = was.from
  /\ copy.manifest => was.manifest
  /\ \/ copy.asked = was.asked /\ copy.key = was.key
     \/ copy.asked = Null /\ copy.key \in {was.key, Null}

\* Retention and damage change no content, and make no backup of a directory.
LEMMA ShelfOnlyLoses ==
  ASSUME TypeOK, ShelfStep, NEW d \in Dirs, ~Missing(d)'
  PROVE  /\ ~Missing(d)
         /\ LessOf(shelf'[d], shelf[d])
<1> USE DEF Missing, LessOf
<1>1. CASE PrunePlan \/ PruneReceipt \/ PruneFails
  BY <1>1 DEF PrunePlan, PruneReceipt, PruneFails
<1>2. CASE PruneDirectory
  <2>1. prune.dir \in Dirs
    BY <1>2, Shapes DEF PruneDirectory
  <2>2. shelf'[d] = shelf[d]
    BY <1>2, <2>1 DEF PruneDirectory, TypeOK
  <2> QED  BY <2>2
<1>3. ASSUME NEW e \in Dirs, PruneFiles(e)
      PROVE  ~Missing(d) /\ LessOf(shelf'[d], shelf[d])
  <2>1. PICK lost : shelf' = [shelf EXCEPT ![e] = Removed(@, lost)]
    BY <1>3 DEF PruneFiles
  <2>2. CASE d # e
    BY <2>1, <2>2 DEF TypeOK
  <2>3. CASE d = e
    <3>1. shelf[d] # Null /\ shelf[d] \in Copies
      BY <1>3, <2>3, Shelved DEF PruneFiles
    <3>2. shelf'[d] = Removed(shelf[d], lost)
      BY <2>1, <2>3 DEF TypeOK
    <3>3. /\ shelf'[d].content = shelf[d].content /\ shelf'[d].from = shelf[d].from
          /\ shelf'[d].key \in {shelf[d].key, Null} /\ shelf'[d].asked = Null
          /\ shelf'[d].manifest => shelf[d].manifest
      BY <3>1, <3>2 DEF Copies, Removed
    <3> QED  BY <3>1, <3>3
  <2> QED  BY <2>2, <2>3
<1>4. ASSUME NEW n \in Names, Damage(n)
      PROVE  ~Missing(d) /\ LessOf(shelf'[d], shelf[d])
  <2>1. n \in Dirs /\ shelf[n] # Null
    BY <1>4 DEF Dirs, Damage, Recognised
  <2>2. shelf[n] \in Copies
    BY <2>1, Shelved
  <2>3. shelf'[d] = IF d = n THEN [shelf[n] EXCEPT !.intact = FALSE] ELSE shelf[d]
    BY <1>4, <2>1 DEF Damage, TypeOK
  <2> QED  BY <2>1, <2>2, <2>3 DEF Copies
<1> QED  BY <1>1, <1>2, <1>3, <1>4 DEF ShelfStep

\* The directory a backup stages in is one of its own, never a name.
LEMMA OwnDirectory ==
  ASSUME TypeOK, backup # Idle
  PROVE  /\ backup.dir \in Dirs /\ backup.dir \notin Names
         /\ backup.name \in Names /\ backup.name \in Dirs /\ backup.key \in Keys \cup {Null}
  BY Shapes, CopiesAssumption DEF Dirs, Started

\* What each step of a backup does to the shelf.
Began ==
  /\ backup = Idle /\ backup'.at = "log" /\ backup'.dir \in Dirs \ Names
  /\ backup'.name \in Names /\ Missing(backup'.name) /\ (Reuse \/ backup'.name \notin used)
  /\ backup'.list = pages /\ backup'.snapshot = (snapshot # Null)
  /\ shelf'[backup'.dir].key = Null /\ ~shelf'[backup'.dir].manifest
  /\ shelf'[backup'.dir].asked = backup'.key
  /\ shelf'[backup'.dir].from = IF snapshot = Null THEN {} ELSE refs
  /\ \A d \in Dirs \ {backup'.dir} : shelf'[d] = shelf[d]
  /\ UNCHANGED <<vouched, used, receipt>>

\* A step done to the partial directory only.
Staged(at, to) ==
  /\ backup.at = at /\ backup'.at \in to
  /\ backup.dir \in Dirs \ Names /\ shelf[backup.dir] # Null
  /\ backup'.dir = backup.dir /\ backup'.name = backup.name /\ backup'.key = backup.key
  /\ backup'.list = backup.list /\ backup'.snapshot = backup.snapshot
  /\ shelf'[backup.dir].asked = shelf[backup.dir].asked
  /\ shelf'[backup.dir].from = shelf[backup.dir].from
  /\ \A d \in Dirs \ {backup.dir} : shelf'[d] = shelf[d]
  /\ UNCHANGED <<used, receipt, owner>>

\* The log is in it.
Logged ==
  /\ Staged("log", {"copy"})
  /\ shelf'[backup.dir].content = [pages |-> {}, refs |-> log]
  /\ shelf'[backup.dir].manifest = shelf[backup.dir].manifest
  /\ shelf'[backup.dir].key = shelf[backup.dir].key
  /\ vouched' = vouched

\* And the pages listed, and the snapshot there is.
Copied ==
  /\ Staged("copy", {"manifest"})
  /\ shelf'[backup.dir].content =
       [pages |-> backup.list, refs |-> shelf[backup.dir].content.refs \cup SnapshotSeen]
  /\ shelf'[backup.dir].key = shelf[backup.dir].key
  /\ vouched' = vouched

\* It has its manifest.
Described ==
  /\ Staged("manifest", {"sign", "publish"})
  /\ shelf'[backup.dir].content = shelf[backup.dir].content
  /\ shelf'[backup.dir].key = shelf[backup.dir].key
  /\ backup'.at = (IF backup.key = Null THEN "publish" ELSE "sign")
  /\ vouched' = vouched

\* It is signed, and nothing else about it changes.
Certified ==
  /\ Staged("sign", {"publish"})
  /\ shelf'[backup.dir].content = shelf[backup.dir].content
  /\ shelf'[backup.dir].manifest = shelf[backup.dir].manifest
  /\ shelf'[backup.dir].key = backup.key
  /\ vouched' = IF backup.key \in Trusted THEN vouched \cup {shelf[backup.dir].content} ELSE vouched

\* It goes by its name, and by no other.
Published ==
  /\ backup.at = "publish"
  /\ backup.dir \in Dirs \ Names /\ shelf[backup.dir] # Null
  /\ backup.name \in Names /\ Missing(backup.name)
  /\ \/ backup'.at = "idle"
     \/ backup'.at = "receipt" /\ backup'.name = backup.name /\ owner = "loomctl" /\ owner' = owner
  /\ shelf'[backup.name] = shelf[backup.dir] /\ shelf'[backup.dir] = Null
  /\ \A d \in Dirs \ {backup.name, backup.dir} : shelf'[d] = shelf[d]
  /\ used' = used \cup {backup.name}
  /\ UNCHANGED <<vouched, receipt>>

\* The name has its receipt.
Receipted ==
  /\ backup.at = "receipt" /\ backup'.at = "idle"
  /\ backup.name \in Names /\ Recognised(backup.name)
  /\ receipt' = [receipt EXCEPT ![backup.name] =
       [digest |-> shelf[backup.name].content, created |-> now]]
  /\ UNCHANGED <<shelf, vouched, used>>

\* It is gone, and the names are as they were.
Abandoned ==
  /\ backup'.at = "idle"
  /\ \A d \in Dirs : shelf'[d] = shelf[d] \/ (d \notin Names /\ shelf'[d] = Null)
  /\ UNCHANGED <<vouched, used, receipt>>

\* A step of a backup is one of these.
LEMMA BackupShelf ==
  ASSUME TypeOK, BackupStep
  PROVE  Began \/ Logged \/ Copied \/ Described \/ Certified \/ Published \/ Receipted \/ Abandoned
<1>1. Idle.at = "idle"
  BY DEF Idle
<1>2. ASSUME NEW name \in Names, NEW key \in Keys \cup {Null}, BackupBegin(name, key)
      PROVE  Began
  <2>1. started + 1 \in Staging /\ started' = started + 1
    BY <1>2, CopiesAssumption DEF BackupBegin, Staging, TypeOK
  <2>2. started' \in Dirs \ Names
    BY <2>1, CopiesAssumption DEF Dirs
  <2> QED  BY <1>2, <2>2 DEF BackupBegin, TypeOK, Began
<1>3. ASSUME NEW at \in {"log", "copy", "manifest", "sign"}, NEW to, NEW copy, Stage(to, copy),
             backup.at = at, ~Missing(backup.dir),
             copy.asked = shelf[backup.dir].asked, copy.from = shelf[backup.dir].from
      PROVE  /\ backup'.at = to /\ Staged(at, {to}) /\ shelf'[backup.dir] = copy
  <2>1. backup # Idle
    BY <1>1, <1>3
  <2>2. backup.dir \in Dirs \ Names
    BY <2>1, OwnDirectory
  <2>3. /\ backup'.at = to /\ backup'.dir = backup.dir /\ backup'.name = backup.name
        /\ backup'.key = backup.key /\ backup'.list = backup.list
        /\ backup'.snapshot = backup.snapshot
    BY <1>3, <2>1, Shapes DEF Stage, Started
  <2>4. shelf'[backup.dir] = copy /\ \A d \in Dirs \ {backup.dir} : shelf'[d] = shelf[d]
    BY <1>3, <2>2 DEF Stage, TypeOK
  <2> QED  BY <1>3, <2>2, <2>3, <2>4 DEF Stage, Staged, Missing
<1>10. ASSUME backup.at \in {"log", "copy", "manifest", "sign"}, ~Missing(backup.dir)
       PROVE  shelf[backup.dir] \in Copies
  BY <1>1, <1>10, OwnDirectory, Shelved
<1>11. CASE CopyLog
  <2> DEFINE new == [shelf[backup.dir] EXCEPT !.content = [pages |-> {}, refs |-> log], !.mtime = now]
  <2>1. shelf[backup.dir] \in Copies
    BY <1>10, <1>11 DEF CopyLog
  <2>2. /\ new.content = [pages |-> {}, refs |-> log] /\ new.key = shelf[backup.dir].key
        /\ new.asked = shelf[backup.dir].asked /\ new.from = shelf[backup.dir].from
        /\ new.manifest = shelf[backup.dir].manifest
    BY <2>1 DEF Copies
  <2> HIDE DEF new
  <2>3. Stage("copy", new) /\ backup.at = "log" /\ ~Missing(backup.dir) /\ vouched' = vouched
    BY <1>11 DEF CopyLog, new
  <2>4. Staged("log", {"copy"}) /\ shelf'[backup.dir] = new
    BY <1>3, <2>2, <2>3
  <2> QED  BY <2>2, <2>3, <2>4 DEF Logged
<1>4. CASE CopyFiles
  <2> DEFINE new == [shelf[backup.dir] EXCEPT
                       !.content = [pages |-> backup.list, refs |-> @.refs \cup SnapshotSeen],
                       !.mtime = now]
  <2>1. shelf[backup.dir] \in Copies
    BY <1>4, <1>10 DEF CopyFiles
  <2>2. /\ new.content = [pages |-> backup.list, refs |-> shelf[backup.dir].content.refs \cup SnapshotSeen]
        /\ new.key = shelf[backup.dir].key
        /\ new.asked = shelf[backup.dir].asked /\ new.from = shelf[backup.dir].from
    BY <2>1 DEF Copies
  <2> HIDE DEF new
  <2>3. Stage("manifest", new) /\ backup.at = "copy" /\ ~Missing(backup.dir) /\ vouched' = vouched
    BY <1>4 DEF CopyFiles, new, SnapshotSeen
  <2>4. Staged("copy", {"manifest"}) /\ shelf'[backup.dir] = new
    BY <1>3, <2>2, <2>3
  <2> QED  BY <2>2, <2>3, <2>4 DEF Copied
<1>5. CASE WriteManifest
  <2> DEFINE new == [shelf[backup.dir] EXCEPT !.manifest = TRUE, !.mtime = now]
             to == IF backup.key = Null THEN "publish" ELSE "sign"
  <2>1. shelf[backup.dir] \in Copies
    BY <1>5, <1>10 DEF WriteManifest
  <2>2. /\ new.content = shelf[backup.dir].content /\ new.key = shelf[backup.dir].key
        /\ new.asked = shelf[backup.dir].asked /\ new.from = shelf[backup.dir].from
    BY <2>1 DEF Copies
  <2> HIDE DEF new
  <2>3. Stage(to, new) /\ backup.at = "manifest" /\ ~Missing(backup.dir) /\ vouched' = vouched
    BY <1>5 DEF WriteManifest, new
  <2>4. Staged("manifest", {to}) /\ shelf'[backup.dir] = new /\ backup'.at = to
    BY <1>3, <2>2, <2>3
  <2> QED  BY <2>2, <2>3, <2>4 DEF Described, Staged
<1>6. CASE WriteSignature
  <2> DEFINE new == [shelf[backup.dir] EXCEPT !.key = backup.key, !.mtime = now]
  <2>1. shelf[backup.dir] \in Copies
    BY <1>6, <1>10 DEF WriteSignature
  <2>2. /\ new.content = shelf[backup.dir].content /\ new.key = backup.key
        /\ new.asked = shelf[backup.dir].asked /\ new.from = shelf[backup.dir].from
        /\ new.manifest = shelf[backup.dir].manifest
    BY <2>1 DEF Copies
  <2> HIDE DEF new
  <2>3. /\ Stage("publish", new) /\ backup.at = "sign" /\ ~Missing(backup.dir)
        /\ vouched' = IF backup.key \in Trusted THEN vouched \cup {shelf[backup.dir].content} ELSE vouched
    BY <1>6 DEF WriteSignature, new
  <2>4. Staged("sign", {"publish"}) /\ shelf'[backup.dir] = new
    BY <1>3, <2>2, <2>3
  <2> QED  BY <2>2, <2>3, <2>4 DEF Certified
<1>7. CASE Publish
  <2>1. backup # Idle
    BY <1>1, <1>7 DEF Publish
  <2>2. backup.dir \in Dirs \ Names /\ backup.name \in Names /\ backup.name \in Dirs
    BY <2>1, OwnDirectory
  <2>3. shelf' = [shelf EXCEPT ![backup.name] = shelf[backup.dir], ![backup.dir] = Null]
    BY <1>7 DEF Publish
  <2>4. /\ shelf'[backup.name] = shelf[backup.dir] /\ shelf'[backup.dir] = Null
        /\ \A d \in Dirs \ {backup.name, backup.dir} : shelf'[d] = shelf[d]
    BY <2>2, <2>3 DEF TypeOK
  <2>5. \/ backup' = Idle
        \/ backup' = [backup EXCEPT !.at = "receipt"] /\ owner = "loomctl" /\ owner' = owner
    BY <1>7 DEF Publish, Ended, ReceiptDue
  <2>6. \/ backup'.at = "idle"
        \/ backup'.at = "receipt" /\ backup'.name = backup.name /\ owner = "loomctl" /\ owner' = owner
    BY <1>1, <2>1, <2>5, Shapes DEF Started
  <2> QED  BY <1>7, <2>2, <2>4, <2>6 DEF Publish, Published, Missing
<1>8. CASE WriteReceipt
  <2>1. backup # Idle
    BY <1>1, <1>8 DEF WriteReceipt
  <2>2. backup.name \in Names
    BY <2>1, OwnDirectory
  <2> QED  BY <1>1, <1>8, <2>2 DEF WriteReceipt, Ended, Receipted
<1>9. CASE BackupFails
  <2>1. backup.dir \notin Names
    BY <1>9, OwnDirectory DEF BackupFails
  <2> QED  BY <1>1, <1>9, <2>1 DEF BackupFails, Ended, Abandoned, TypeOK
<1> QED  BY <1>2, <1>4, <1>5, <1>6, <1>7, <1>8, <1>9, <1>11 DEF BackupStep

-----------------------------------------------------------------------------
(* Every backup is of a committed prefix.                                   *)

\* A write and gc wait for the guard: what a backup has listed is all there is,
\* and what is committed stays until the refs name it.
LEMMA ListedKeeps ==
  ASSUME TypeOK, StoreInv, Listed, WritesOnly, [Next]_vars
  PROVE  Listed'
<1> USE DEF Listed
<1>1. CASE StoreStep
  <2>1. CASE Serve \/ Tick
    <3>1. UNCHANGED <<pages, refs, writer, backup>>
      BY <2>1 DEF Serve, Tick, store, making, refs
    <3> QED  BY <3>1
  <2>2. CASE WriteSnapshot \/ TruncateLog
    <3>1. UNCHANGED <<pages, writer, backup>> /\ refs' \subseteq refs
      BY <2>2 DEF WriteSnapshot, TruncateLog, making, refs, In
    <3> QED  BY <3>1
  <2>3. CASE Gc
    <3>1. lock = "free" /\ pages' = pages \cap refs /\ UNCHANGED <<refs, writer, backup>>
      BY <2>3 DEF Gc, making, refs
    <3>2. writer = Idle /\ backup.at \notin {"log", "copy"}
      BY <3>1 DEF StoreInv, Owned, Guarded
    <3> QED  BY <3>1, <3>2
  <2>4. CASE Persist
    <3>1. refs' = refs \cup {writer.commit} /\ writer # Idle /\ writer' = Idle /\ UNCHANGED <<pages, backup>>
      BY <2>4 DEF Persist, refs
    <3> QED  BY <3>1
  <2>5. CASE Crash
    <3>1. UNCHANGED <<pages, refs>> /\ writer' = Idle /\ backup'.at = "idle"
      BY <2>5 DEF Crash, Idle, refs
    <3> QED  BY <3>1
  <2>6. ASSUME NEW kind \in Kinds, Commit(kind)
        PROVE  Listed'
    <3>1. kind = "write"
      BY DEF WritesOnly
    <3>2. backup.at \notin {"log", "copy"}
      BY <2>6, <3>1 DEF Commit, Admitted, StoreInv, Guarded
    <3>3. UNCHANGED <<refs, backup>>
      BY <2>6 DEF Commit, refs
    <3>4. /\ pages \subseteq pages'
          /\ writer'.at = "write" /\ writer'.commit \in pages'
      BY <2>6, <3>1 DEF Commit
    <3> QED  BY <3>2, <3>3, <3>4
  <2> QED  BY <1>1, <2>1, <2>2, <2>3, <2>4, <2>5, <2>6 DEF StoreStep
<1>2. CASE BackupStep
  <2>1. UNCHANGED <<pages, refs, writer>>
    BY <1>2, BackupFrame
  <2>2. backup'.at \in {"log", "copy"} => backup'.list = pages
    BY <1>2, BackupShelf
       DEF Began, Logged, Copied, Described, Certified, Staged, Published, Receipted, Abandoned
  <2> QED  BY <2>1, <2>2
<1>3. CASE ReaderStep \/ ShelfStep \/ UNCHANGED vars
  <2>1. UNCHANGED <<pages, refs, writer, backup>>
    BY <1>3, ReaderFrame, ShelfFrame DEF vars, store, making, refs
  <2> QED  BY <2>1
<1> QED  BY <1>1, <1>2, <1>3, WhoseStep

\* The store leaves the shelf, and a backup goes on where it was or is gone.
LEMMA UnderTheBackup ==
  ASSUME TypeOK, StoreStep \/ ReaderStep \/ UNCHANGED vars
  PROVE  UNCHANGED <<shelf, receipt, prune, vouched, used>> /\ (backup' = backup \/ backup'.at = "idle")
<1>1. Idle.at = "idle"
  BY DEF Idle
<1>2. CASE StoreStep
  BY <1>1, <1>2, StoreFrame
     DEF StoreStep, Serve, Persist, WriteSnapshot, TruncateLog, Gc, Crash, Tick, Commit, making
<1>3. CASE ReaderStep \/ UNCHANGED vars
  BY <1>3, ReaderFrame DEF making, vars
<1> QED  BY <1>2, <1>3

\* What is copied of the refs, with what there is of them, is all there was.
LEMMA CopyCompleteKeeps ==
  ASSUME TypeOK, StoreInv, CopyComplete, [Next]_vars
  PROVE  CopyComplete'
<1> USE DEF CopyComplete, Missing
<1>1. refs \subseteq refs' /\ In(snapshot) \subseteq In(snapshot')
  BY StoreKeeps
<1>2. backup.at \in {"log", "copy"} => backup.dir \in Dirs
  BY OwnDirectory, Shapes
<1>3. CASE StoreStep \/ ReaderStep \/ UNCHANGED vars
  <2>1. shelf' = shelf /\ (backup' = backup \/ backup'.at = "idle")
    BY <1>3, UnderTheBackup
  <2>2. backup' = backup => SnapshotSeen \subseteq SnapshotSeen'
    BY <1>1 DEF SnapshotSeen
  <2> QED  BY <1>1, <2>1, <2>2
<1>4. CASE ShelfStep
  <2>1. backup' = backup
    BY <1>4, ShelfFrame DEF making
  <2>2. SnapshotSeen \subseteq SnapshotSeen'
    BY <1>1, <2>1 DEF SnapshotSeen
  <2>3. ASSUME backup.at \in {"log", "copy"}, shelf'[backup.dir] # Null
        PROVE  shelf[backup.dir] # Null /\ LessOf(shelf'[backup.dir], shelf[backup.dir])
    BY <1>2, <1>4, <2>3, ShelfOnlyLoses
  <2> QED  BY <1>1, <2>1, <2>2, <2>3 DEF LessOf
<1>5. CASE BackupStep
  <2>1. UNCHANGED <<snapshot, log, refs>>
    BY <1>5, BackupFrame
  <2>2. CASE Began
    <3>1. backup'.at = "log" /\ ~shelf'[backup'.dir].manifest
      BY <2>2 DEF Began
    <3>2. /\ ~backup'.snapshot => shelf'[backup'.dir].from = {}
          /\ shelf'[backup'.dir].from \subseteq refs
      BY <2>2 DEF Began
    <3> QED  BY <2>1, <3>1, <3>2
  <2>3. CASE Logged
    <3>1. /\ backup'.at = "copy" /\ backup'.dir = backup.dir /\ backup'.snapshot = backup.snapshot
          /\ shelf[backup.dir] # Null /\ backup.at = "log"
          /\ shelf'[backup.dir].from = shelf[backup.dir].from
          /\ shelf'[backup.dir].manifest = shelf[backup.dir].manifest
          /\ shelf'[backup.dir].content.refs = log
      BY <2>3 DEF Logged, Staged
    <3>2. ~shelf[backup.dir].manifest /\ (~backup.snapshot => shelf[backup.dir].from = {})
          /\ shelf[backup.dir].from \subseteq refs
      BY <3>1
    <3>3. log \subseteq refs /\ refs = In(snapshot) \cup log
      BY DEF refs
    <3>4. SnapshotSeen' = IF backup.snapshot THEN In(snapshot) ELSE {}
      BY <2>1, <3>1 DEF SnapshotSeen, In
    <3> QED  BY <2>1, <3>1, <3>2, <3>3, <3>4
  <2>4. CASE Copied \/ Described \/ Certified \/ Published \/ Receipted \/ Abandoned
    BY <2>4 DEF Copied, Described, Certified, Staged, Published, Receipted, Abandoned
  <2> QED  BY <1>5, <2>2, <2>3, <2>4, BackupShelf
<1> QED  BY <1>3, <1>4, <1>5, WhoseStep

\* Nothing gets a manifest that is not whole.
LEMMA ShelfWholeKeeps ==
  ASSUME TypeOK, StoreInv, Listed, CopyComplete, ShelfWhole, [Next]_vars
  PROVE  ShelfWhole'
<1> USE DEF ShelfWhole, Missing
<1>1. CASE StoreStep \/ ReaderStep \/ UNCHANGED vars
  BY <1>1, UnderTheBackup
<1>2. CASE ShelfStep
  <2>1. backup' = backup
    BY <1>2, ShelfFrame DEF making
  <2> QED  BY <1>2, <2>1, ShelfOnlyLoses DEF LessOf, Sound
<1>3. CASE BackupStep
  <2>1. CASE Began
    BY <2>1 DEF Began
  <2>2. CASE Logged
    <3>1. ~shelf'[backup.dir].manifest
      BY <2>2 DEF Logged, Staged, CopyComplete
    <3> QED  BY <2>2, <3>1 DEF Logged, Staged
  <2>3. CASE Copied
    <3>1. backup.list = pages /\ refs \subseteq pages
      BY <2>3 DEF Copied, Staged, Listed
    <3>2. /\ shelf[backup.dir].content.refs \subseteq refs
          /\ shelf[backup.dir].from \subseteq shelf[backup.dir].content.refs \cup SnapshotSeen
      BY <2>3 DEF Copied, Staged, CopyComplete
    <3>3. SnapshotSeen \subseteq refs
      BY DEF SnapshotSeen, refs
    <3>4. /\ shelf'[backup.dir].content.pages = backup.list
          /\ shelf'[backup.dir].content.refs = shelf[backup.dir].content.refs \cup SnapshotSeen
          /\ shelf'[backup.dir].from = shelf[backup.dir].from
      BY <2>3 DEF Copied, Staged
    <3>5. Sound(shelf'[backup.dir])
      BY <3>1, <3>2, <3>3, <3>4 DEF Sound, Whole
    <3> QED  BY <2>3, <3>5 DEF Copied, Staged
  <2>4. CASE Described
    BY <2>4 DEF Described, Staged, Sound
  <2>5. CASE Certified
    BY <2>5 DEF Certified, Staged, Sound
  <2>6. CASE Published
    BY <2>6 DEF Published
  <2>7. CASE Receipted \/ Abandoned
    BY <2>7 DEF Receipted, Abandoned
  <2> QED  BY <1>3, <2>1, <2>2, <2>3, <2>4, <2>5, <2>6, <2>7, BackupShelf
<1> QED  BY <1>1, <1>2, <1>3, WhoseStep

\* What was asked for is what is signed with before there is a name.
LEMMA ShelfSignedKeeps ==
  ASSUME TypeOK, ShelfSigned, [Next]_vars
  PROVE  ShelfSigned'
<1> USE DEF ShelfSigned, Missing
<1>1. CASE StoreStep \/ ReaderStep \/ UNCHANGED vars
  BY <1>1, UnderTheBackup
<1>2. CASE ShelfStep
  <2>1. backup' = backup
    BY <1>2, ShelfFrame DEF making
  <2> QED  BY <1>2, <2>1, ShelfOnlyLoses DEF LessOf
<1>3. CASE BackupStep
  <2>1. CASE Began
    BY <2>1 DEF Began
  <2>2. CASE Logged
    BY <2>2 DEF Logged, Staged
  <2>3. CASE Copied
    BY <2>3 DEF Copied, Staged
  <2>4. CASE Described
    BY <2>4 DEF Described, Staged
  <2>5. CASE Certified
    BY <2>5 DEF Certified, Staged
  <2>6. CASE Published
    BY <2>6 DEF Published
  <2>7. CASE Receipted \/ Abandoned
    BY <2>7 DEF Receipted, Abandoned
  <2> QED  BY <1>3, <2>1, <2>2, <2>3, <2>4, <2>5, <2>6, <2>7, BackupShelf
<1> QED  BY <1>1, <1>2, <1>3, WhoseStep

\* Nothing is vouched for but by a trusted key, and nothing vouched for changes.
LEMMA ShelfVouchedKeeps ==
  ASSUME TypeOK, ShelfVouched, [Next]_vars
  PROVE  ShelfVouched' /\ vouched \subseteq vouched'
<1> USE DEF ShelfVouched, Missing
<1>1. Null \notin Trusted
  BY CopiesAssumption
<1>2. CASE StoreStep \/ ReaderStep \/ UNCHANGED vars
  BY <1>2, UnderTheBackup
<1>3. CASE ShelfStep
  <2>1. backup' = backup /\ vouched' = vouched
    BY <1>3, ShelfFrame DEF making
  <2>2. ASSUME NEW d \in Dirs, shelf'[d] # Null
        PROVE  shelf[d] # Null /\ shelf'[d].content = shelf[d].content /\ shelf'[d].key \in {shelf[d].key, Null}
    BY <1>3, <2>2, ShelfOnlyLoses DEF LessOf
  <2> QED  BY <1>1, <2>1, <2>2
<1>4. CASE BackupStep
  <2>1. CASE Began
    BY <1>1, <2>1 DEF Began
  <2>2. CASE Logged \/ Copied
    BY <1>1, <2>2 DEF Logged, Copied, Staged
  <2>3. CASE Described
    BY <2>3 DEF Described, Staged
  <2>4. CASE Certified
    BY <2>4 DEF Certified, Staged
  <2>5. CASE Published
    BY <2>5 DEF Published
  <2>6. CASE Receipted \/ Abandoned
    BY <2>6 DEF Receipted, Abandoned
  <2> QED  BY <1>4, <2>1, <2>2, <2>3, <2>4, <2>5, <2>6, BackupShelf
<1> QED  BY <1>2, <1>3, <1>4, WhoseStep

\* A restore takes up what verified, and goes on only with that.
LEMMA RestoringKeeps ==
  ASSUME TypeOK, ShelfWhole, ShelfVouched, RestoringTrue, [Next]_vars
  PROVE  RestoringTrue'
<1> USE DEF RestoringTrue
<1>1. vouched \subseteq vouched'
  BY ShelfVouchedKeeps
<1>2. CASE reader' = reader
  BY <1>1, <1>2
<1>3. ASSUME NEW d \in Dirs, NEW signed \in BOOLEAN, RestoreBegin(d, signed)
      PROVE  RestoringTrue'
  <2>1. Whole(shelf[d].content) /\ ~Missing(d) /\ (signed => shelf[d].key \in Trusted)
    BY <1>3 DEF RestoreBegin, VerifiesSigned, Verifies, Recognised, ShelfWhole, Sound
  <2>2. signed => shelf[d].content \in vouched
    BY <2>1 DEF ShelfVouched
  <2> QED  BY <1>1, <1>3, <2>1, <2>2 DEF RestoreBegin
<1>4. CASE RestoreCopy \/ ReaderFails \/ PublishSignals \/ \E d \in Dirs : VerifyBackupSigned(d)
  BY <1>4 DEF Idle, RestoreCopy, ReaderFails, PublishSignals, VerifyBackupSigned
<1>5. CASE ReaderStep
  BY <1>3, <1>4, <1>5 DEF ReaderStep
<1>6. CASE StoreStep \/ BackupStep \/ ShelfStep \/ UNCHANGED vars
  BY <1>2, <1>6, StoreFrame, BackupFrame, ShelfFrame DEF vars
<1> QED  BY <1>5, <1>6, WhoseStep

\* What they come to: the invariant of backups, and of restores from them.
WholeInv ==
  /\ StoreInv /\ Listed /\ CopyComplete /\ ShelfWhole /\ ShelfSigned /\ ShelfVouched
  /\ RestoringTrue

\* An empty shelf is in order.
LEMMA WholeInit == Init => WholeInv
<1> SUFFICES ASSUME Init PROVE WholeInv
  OBVIOUS
<1>1. Idle.at = "idle" /\ Times \subseteq Nat
  BY DEF Idle, Times
<1>2. StoreInv
  BY <1>1 DEF Init, StoreInv, Owned, Guarded, HeadsBehind
<1>3. \A d \in Dirs : Missing(d)
  BY DEF Init, Missing
<1>4. refs = {}
  BY DEF Init, refs, In
<1> QED  BY <1>1, <1>2, <1>3, <1>4
         DEF Init, WholeInv, Listed, CopyComplete, ShelfWhole, ShelfSigned, ShelfVouched, RestoringTrue

\* And stays so.
LEMMA WholeNext ==
  ASSUME WritesOnly, TypeOK, WholeInv, [Next]_vars
  PROVE  WholeInv'
  BY StoreKeeps, ListedKeeps, CopyCompleteKeeps, ShelfWholeKeeps, ShelfSignedKeeps, ShelfVouchedKeeps,
     RestoringKeeps DEF WholeInv

\* Whatever is found to be a backup is of one committed prefix, has all the refs
\* named when it was begun (of a store with a refs.snapshot) however the log is
\* compacted and pages are swept meanwhile, and is signed as was asked, as long as
\* every mutation takes the write guard a backup holds (loom-branch: backup_to
\* under the guard; forget is the mutation that does not take it).
THEOREM CopiesAreWhole == WritesOnly /\ Spec => []CopiesWhole
<1>1. WritesOnly /\ TypeOK /\ WholeInv /\ [Next]_vars => WholeInv'
  BY WholeNext
<1>2. WholeInv => CopiesWhole
  BY DEF WholeInv, ShelfWhole, ShelfSigned, Sound, CopiesWhole, Verifies, Recognised
<1>3. WritesOnly <=> WritesOnly'
  BY DEF WritesOnly
<1> QED  BY WholeInit, CopiesTypes, <1>1, <1>2, <1>3, PTL DEF Spec

\* Whatever is damaged, pruned or replaced on the shelf between the verification
\* and the copy, a restore publishes a committed prefix, unaltered, that a
\* trusted key signed if a signature was asked for.
THEOREM RestoresAreTrue == WritesOnly /\ Spec => RestoredTrue
<1>1. WritesOnly /\ TypeOK /\ WholeInv /\ [Next]_vars => WholeInv'
  BY WholeNext
<1>2. TypeOK /\ WholeInv =>
        [RestoreCopy =>
           LET content == Restored(reader.dir, reader.content)
           IN  /\ shelf[reader.dir].intact /\ Whole(content)
               /\ reader.signed => content \in vouched]_vars
  <2> SUFFICES ASSUME TypeOK, WholeInv, RestoreCopy
               PROVE  /\ shelf[reader.dir].intact /\ Whole(Restored(reader.dir, reader.content))
                      /\ reader.signed => Restored(reader.dir, reader.content) \in vouched
    OBVIOUS
  <2>1. reader.at = "copy" /\ StillAs(reader.dir, reader.content)
    BY DEF RestoreCopy
  <2>2. reader.content \in Contents
    BY <2>1, Shapes
  <2>3. Restored(reader.dir, reader.content) = reader.content
    BY <2>1, <2>2 DEF StillAs, Restored, Contents
  <2> QED  BY <2>1, <2>3 DEF StillAs, WholeInv, RestoringTrue
<1>3. WritesOnly <=> WritesOnly'
  BY DEF WritesOnly
<1> QED  BY WholeInit, CopiesTypes, <1>1, <1>2, <1>3, PTL DEF Spec, RestoredTrue

-----------------------------------------------------------------------------
(* A recovery point is one.                                                 *)

\* A name that is not used again has one copy at most.
LEMMA NamedOnceKeeps ==
  ASSUME TypeOK, ~Reuse, NamedOnce, [Next]_vars
  PROVE  NamedOnce'
<1> USE DEF NamedOnce, Missing
<1>1. Names \subseteq Dirs
  BY DEF Dirs
<1>2. CASE StoreStep \/ ReaderStep \/ UNCHANGED vars
  BY <1>2, UnderTheBackup
<1>3. CASE ShelfStep
  <2>1. backup' = backup /\ used' = used
    BY <1>3, ShelfFrame DEF making
  <2> QED  BY <1>1, <1>3, <2>1, ShelfOnlyLoses
<1>4. CASE BackupStep
  <2>1. CASE Began
    BY <1>1, <2>1 DEF Began
  <2>2. CASE Logged \/ Copied \/ Described \/ Certified
    BY <1>1, <2>2 DEF Logged, Copied, Described, Certified, Staged
  <2>3. CASE Published
    BY <1>1, <2>3 DEF Published
  <2>4. CASE Receipted \/ Abandoned
    BY <1>1, <2>4 DEF Receipted, Abandoned
  <2> QED  BY <1>4, <2>1, <2>2, <2>3, <2>4, BackupShelf
<1> QED  BY <1>2, <1>3, <1>4, WhoseStep

\* While loomctl has the store nobody else commits to it.
LEMMA CopyIsCurrentKeeps ==
  ASSUME TypeOK, StoreInv, CopyIsCurrent, [Next]_vars
  PROVE  CopyIsCurrent'
<1> USE DEF CopyIsCurrent, Missing
<1>1. Names \subseteq Dirs
  BY DEF Dirs
<1>2. backup.at \in {"copy", "manifest", "sign", "publish", "receipt"} => backup.dir \in Dirs /\ backup.name \in Dirs
  BY OwnDirectory, Shapes
<1>3. CASE StoreStep
  <2>1. owner' = "loomctl" => UNCHANGED <<owner, snapshot, log, refs, backup>>
    BY <1>3 DEF StoreStep, Serve, Persist, WriteSnapshot, TruncateLog, Gc, Crash, Tick, Commit,
                StoreInv, Owned, store, making, refs
  <2> QED  BY <1>3, <2>1, StoreFrame
<1>4. CASE ReaderStep \/ UNCHANGED vars
  <2>1. UNCHANGED <<owner, snapshot, log, refs, backup, shelf>>
    BY <1>4, ReaderFrame DEF vars, store, making, refs
  <2> QED  BY <2>1
<1>5. CASE ShelfStep
  <2>1. UNCHANGED <<owner, snapshot, log, refs, backup>>
    BY <1>5, ShelfFrame DEF store, making, refs
  <2> QED  BY <1>2, <1>5, <2>1, ShelfOnlyLoses DEF LessOf
<1>6. CASE BackupStep
  <2>1. UNCHANGED <<snapshot, log, refs>>
    BY <1>6, BackupFrame
  <2>2. CASE Began
    BY <2>1, <2>2 DEF Began
  <2>7. CASE Logged
    BY <2>1, <2>7 DEF Logged, Staged
  <2>3. CASE Copied
    <3>1. owner' = owner /\ backup.at = "copy" /\ shelf[backup.dir] # Null
          /\ backup'.at = "manifest" /\ backup'.dir = backup.dir
      BY <2>3 DEF Copied, Staged
    <3>2. owner = "loomctl" => SnapshotSeen = In(snapshot) /\ shelf[backup.dir].content.refs = log
      BY <3>1 DEF SnapshotSeen, In
    <3>3. shelf'[backup.dir].content.refs = shelf[backup.dir].content.refs \cup SnapshotSeen
      BY <2>3 DEF Copied
    <3>4. owner = "loomctl" => shelf'[backup.dir].content.refs = refs
      BY <3>2, <3>3 DEF refs
    <3> QED  BY <2>1, <3>1, <3>4
  <2>4. CASE Described \/ Certified
    BY <2>1, <2>4 DEF Described, Certified, Staged
  <2>5. CASE Published
    BY <2>1, <2>5 DEF Published
  <2>6. CASE Receipted \/ Abandoned
    BY <2>6 DEF Receipted, Abandoned
  <2> QED  BY <1>6, <2>2, <2>3, <2>4, <2>5, <2>6, <2>7, BackupShelf
<1> QED  BY <1>3, <1>4, <1>5, <1>6, WhoseStep

\* Once a moment is past, what the refs were then stays what it was.
LEMMA PointKept ==
  ASSUME TypeOK, [Next]_vars, NEW content, NEW point \in Times, PointTrue(content, point)
  PROVE  PointTrue(content, point)'
<1>1. CASE Tick
  <2>1. now \in Times /\ Times \subseteq Int /\ now' = now + 1 /\ headAt' = [headAt EXCEPT ![now] = refs]
    BY <1>1 DEF TypeOK, Tick, Times
  <2>2. point <= now' /\ (point > 0 => headAt'[point - 1] = headAt[point - 1])
    BY <2>1 DEF PointTrue, TypeOK
  <2> QED  BY <2>2 DEF PointTrue
<1>2. CASE UNCHANGED <<now, headAt>>
  BY <1>2 DEF PointTrue
<1>3. Tick \/ UNCHANGED <<now, headAt>>
  <2>1. StoreStep => Tick \/ UNCHANGED <<now, headAt>>
    BY DEF StoreStep, Serve, Persist, WriteSnapshot, TruncateLog, Gc, Crash, Commit, clock
  <2> QED  BY <2>1, WhoseStep, BackupFrame, ReaderFrame, ShelfFrame DEF vars, clock
<1> QED  BY <1>1, <1>2, <1>3

\* A receipt is written of a copy no older than the moment it names.
LEMMA ReceiptsKeep ==
  ASSUME TypeOK, StoreInv, CopyIsCurrent, ReceiptsTrue, [Next]_vars
  PROVE  ReceiptsTrue'
<1> SUFFICES ASSUME NEW n \in Names, receipt'[n] # Null
             PROVE  /\ receipt'[n].created <= now'
                    /\ receipt'[n].created > 0 => headAt'[receipt'[n].created - 1] \subseteq receipt'[n].digest.refs
  BY DEF ReceiptsTrue, PointTrue
<1>1. ASSUME receipt'[n] = receipt[n]
      PROVE  /\ receipt'[n].created <= now'
             /\ receipt'[n].created > 0 => headAt'[receipt'[n].created - 1] \subseteq receipt'[n].digest.refs
  <2>1. receipt[n] \in Receipts /\ PointTrue(receipt[n].digest, receipt[n].created)
    BY <1>1 DEF TypeOK, ReceiptsTrue
  <2>2. receipt[n].created \in Times
    BY <2>1 DEF Receipts
  <2>3. ASSUME NEW c, NEW p \in Times, PointTrue(c, p)
        PROVE  p <= now' /\ (p > 0 => headAt'[p - 1] \subseteq c.refs)
    BY <2>3, PointKept DEF PointTrue
  <2> QED  BY <1>1, <2>1, <2>2, <2>3
<1>2. CASE StoreStep \/ ReaderStep \/ UNCHANGED vars
  BY <1>1, <1>2, UnderTheBackup
<1>3. CASE ShelfStep
  <2>1. receipt'[n] = receipt[n]
    BY <1>3 DEF ShelfStep, PrunePlan, PruneDirectory, PruneReceipt, PruneFails, PruneFiles, Damage, TypeOK
  <2> QED  BY <1>1, <2>1
<1>4. CASE BackupStep
  <2>1. CASE Began \/ Logged \/ Copied \/ Described \/ Certified \/ Published \/ Abandoned
    BY <1>1, <2>1 DEF Began, Logged, Copied, Described, Certified, Staged, Published, Abandoned
  <2>2. CASE Receipted
    <3>1. CASE n # backup.name
      BY <1>1, <2>2, <3>1 DEF Receipted, TypeOK
    <3>2. CASE n = backup.name
      <4>1. /\ receipt'[n].digest = shelf[n].content /\ receipt'[n].created = now
            /\ ~Missing(n) /\ backup.at = "receipt"
        BY <2>2, <3>2 DEF Receipted, Recognised, TypeOK
      <4>2. shelf[n].content.refs = refs
        BY <3>2, <4>1 DEF CopyIsCurrent, StoreInv, Guarded
      <4>3. now \in Nat /\ (now > 0 => now - 1 \in Times /\ now - 1 < now)
        BY CopiesAssumption DEF TypeOK, Times
      <4>4. now > 0 => headAt[now - 1] \subseteq refs
        BY <4>3 DEF StoreInv, HeadsBehind
      <4>5. UNCHANGED <<now, headAt>>
        BY <1>4, BackupFrame DEF clock
      <4> QED  BY <4>1, <4>2, <4>3, <4>4, <4>5
    <3> QED  BY <3>1, <3>2
  <2> QED  BY <1>4, <2>1, <2>2, BackupShelf
<1> QED  BY <1>2, <1>3, <1>4, WhoseStep

\* What verified under a name stays what is under it, until nothing is.
LEMMA ReaderNamedKeeps ==
  ASSUME TypeOK, ~Reuse, NamedOnce, ReaderNamed, [Next]_vars
  PROVE  ReaderNamed'
<1> USE DEF Missing
<1>1. Names \subseteq Dirs
  BY DEF Dirs
<1>2. ASSUME NEW n \in Names, n \in used
      PROVE  n \in used' /\ (shelf'[n] # Null => shelf[n] # Null /\ shelf'[n].content = shelf[n].content)
  <2>1. CASE StoreStep \/ ReaderStep \/ UNCHANGED vars
    BY <1>2, <2>1, UnderTheBackup
  <2>2. CASE ShelfStep
    <3>1. used' = used
      BY <2>2, ShelfFrame
    <3> QED  BY <1>1, <1>2, <2>2, <3>1, ShelfOnlyLoses DEF LessOf
  <2>3. CASE Began \/ Logged \/ Copied \/ Described \/ Certified
    BY <1>1, <1>2, <2>3 DEF Began, Logged, Copied, Described, Certified, Staged
  <2>4. CASE Published
    BY <1>1, <1>2, <2>4 DEF Published, NamedOnce
  <2>5. CASE Receipted \/ Abandoned
    BY <1>1, <1>2, <2>5 DEF Receipted, Abandoned
  <2> QED  BY <2>1, <2>2, <2>3, <2>4, <2>5, WhoseStep, BackupShelf
<1>3. CASE reader' = reader
  BY <1>2, <1>3 DEF ReaderNamed
<1>4. ASSUME NEW d \in Dirs, VerifyBackupSigned(d)
      PROVE  ReaderNamed'
  <2>1. /\ reader'.at = "receipt" /\ reader'.dir = d /\ reader'.content = shelf[d].content
        /\ ~Missing(d) /\ used' = used /\ shelf' = shelf
    BY <1>4 DEF VerifyBackupSigned, VerifiesSigned, Verifies, Recognised
  <2> QED  BY <2>1 DEF ReaderNamed, NamedOnce
<1>5. CASE PublishSignals \/ RestoreCopy \/ ReaderFails
             \/ \E d \in Dirs, signed \in BOOLEAN : RestoreBegin(d, signed)
  BY <1>5 DEF Idle, PublishSignals, RestoreCopy, ReaderFails, RestoreBegin, ReaderNamed
<1>6. CASE ReaderStep
  BY <1>4, <1>5, <1>6 DEF ReaderStep
<1>7. CASE StoreStep \/ BackupStep \/ ShelfStep \/ UNCHANGED vars
  BY <1>3, <1>7, StoreFrame, BackupFrame, ShelfFrame DEF vars
<1> QED  BY <1>6, <1>7, WhoseStep

\* The invariant of receipts.
PointInv == StoreInv /\ NamedOnce /\ CopyIsCurrent /\ ReceiptsTrue /\ ReaderNamed

\* A recovery point that is reported is one: what was acknowledged before it is
\* in the copy that verified, as long as a backup goes to a name of its own
\* (loomctl: the receipt is found by name, and counts by its digest).
THEOREM RecoveryPointsAreTrue == ~Reuse /\ Spec => RecoveryPointTrue
<1>1. Init => PointInv
  <2> SUFFICES ASSUME Init PROVE PointInv
    OBVIOUS
  <2>1. StoreInv
    BY WholeInit DEF WholeInv
  <2>2. Idle.at = "idle" /\ Names \subseteq Dirs
    BY DEF Idle, Dirs
  <2> QED  BY <2>1, <2>2 DEF Init, PointInv, NamedOnce, Missing, CopyIsCurrent, ReceiptsTrue, ReaderNamed
<1>2. ~Reuse /\ TypeOK /\ PointInv /\ [Next]_vars => PointInv'
  BY StoreKeeps, NamedOnceKeeps, CopyIsCurrentKeeps, ReceiptsKeep, ReaderNamedKeeps DEF PointInv
<1>3. TypeOK /\ PointInv =>
        [PublishSignals =>
           LET point == RecoveryPoint(reader.dir)
           IN  point # Null /\ point > 0 => headAt[point - 1] \subseteq reader.content.refs]_vars
  <2> SUFFICES ASSUME TypeOK, PointInv, PublishSignals,
                      RecoveryPoint(reader.dir) # Null, RecoveryPoint(reader.dir) > 0
               PROVE  headAt[RecoveryPoint(reader.dir) - 1] \subseteq reader.content.refs
    OBVIOUS
  <2>1. /\ reader.dir \in Names /\ receipt[reader.dir] # Null /\ ~Missing(reader.dir)
        /\ receipt[reader.dir].digest = shelf[reader.dir].content
        /\ RecoveryPoint(reader.dir) = receipt[reader.dir].created
    BY DEF RecoveryPoint
  <2>2. shelf[reader.dir].content = reader.content
    BY <2>1 DEF PublishSignals, PointInv, ReaderNamed
  <2>3. PointTrue(receipt[reader.dir].digest, receipt[reader.dir].created)
    BY <2>1 DEF PointInv, ReceiptsTrue
  <2> QED  BY <2>1, <2>2, <2>3 DEF PointTrue
<1>4. ~Reuse <=> ~Reuse'
  OBVIOUS
<1> QED  BY CopiesTypes, <1>1, <1>2, <1>3, <1>4, PTL DEF Spec, RecoveryPointTrue

-----------------------------------------------------------------------------
(* Retention leaves what it was told to.                                    *)

\* A backup under a name, with its receipt if it has one to come, is as it was
\* after every step but retention's and damage.
LEMMA NamedStays ==
  ASSUME TypeOK, StoreStep \/ BackupStep \/ ReaderStep \/ UNCHANGED vars,
         NEW m \in Names, Recognised(m), ~(backup.at = "receipt" /\ backup.name = m)
  PROVE  /\ shelf'[m] = shelf[m] /\ receipt'[m] = receipt[m]
         /\ ~(backup'.at = "receipt" /\ backup'.name = m)
<1>1. m \in Dirs /\ ~Missing(m)
  BY DEF Dirs, Recognised
<1>2. CASE StoreStep \/ ReaderStep \/ UNCHANGED vars
  BY <1>2, UnderTheBackup
<1>3. CASE BackupStep
  <2>1. CASE Began
    BY <1>1, <2>1 DEF Began
  <2>2. CASE Logged \/ Copied \/ Described \/ Certified
    BY <1>1, <2>2 DEF Logged, Copied, Described, Certified, Staged
  <2>3. CASE Published
    BY <1>1, <2>3 DEF Published
  <2>4. CASE Receipted
    BY <2>4 DEF Receipted, TypeOK
  <2>5. CASE Abandoned
    BY <1>1, <2>5 DEF Abandoned
  <2> QED  BY <1>3, <2>1, <2>2, <2>3, <2>4, <2>5, BackupShelf
<1> QED  BY <1>2, <1>3

\* And what is spared or doomed is so still.
LEMMA SparedStays ==
  ASSUME TypeOK, NEW keep \in SUBSET Names, Spared(keep), prune'.doomed \subseteq prune.doomed,
         prune'.at \in {"gone", "receipt"} => prune'.dir \notin keep \cup prune'.doomed,
         \A m \in keep \cup prune'.doomed :
           /\ Recognised(m)' /\ Date(m)' = Date(m)
           /\ ~(backup'.at = "receipt" /\ backup'.name = m)
  PROVE  Spared(keep)'
  BY DEF Spared

\* The newest are spared when a plan is made of whole backups only.
LEMMA PlanSpares ==
  ASSUME TypeOK, PrunePlan, ~muddied'
  PROVE  \E keep \in SUBSET Names : Spared(keep)'
<1>1. PICK newest \in SUBSET Candidates, held \in SUBSET Names :
        /\ Newest(newest, MinimumCopies) /\ Doomed(held, newest) # {}
        /\ prune' = [at |-> "apply", doomed |-> Doomed(held, newest), held |-> held]
  BY DEF PrunePlan
<1>2. \A d \in Candidates : ~Muddy(d)
  BY DEF PrunePlan
<1>3. Candidates \subseteq Names
  BY <1>2 DEF Candidates, Muddy, Dirs
<1>4. Cardinality(newest) = MinimumCopies
  <2>1. IsFiniteSet(Candidates)
    BY <1>3, CopiesAssumption, FS_Subset
  <2>2. newest # Candidates
    BY <1>1 DEF Doomed
  <2>3. Cardinality(newest) # Cardinality(Candidates)
    BY <2>1, <2>2, FS_Subset
  <2> QED  BY <1>1, <2>3 DEF Newest
<1>5. UNCHANGED <<shelf, receipt, backup>>
  BY DEF PrunePlan, making
<1>6. Doomed(held, newest) \subseteq Candidates \ newest
  BY DEF Doomed
<1>7. \A m \in Candidates : Recognised(m) /\ ~(backup.at = "receipt" /\ backup.name = m)
  BY <1>2 DEF Candidates, Muddy
<1>8. \A m \in newest, n \in Doomed(held, newest) : Date(m) >= Date(n)
  BY <1>1, <1>6 DEF Newest
<1>9. \A m \in Dirs : Recognised(m)' = Recognised(m) /\ Date(m)' = Date(m)
  BY <1>5 DEF Recognised, Missing, Date
<1>10. /\ prune'.doomed = Doomed(held, newest) /\ prune'.at = "apply"
  BY <1>1
<1>11. newest \subseteq Dirs /\ Doomed(held, newest) \subseteq Dirs
  BY <1>6 DEF Candidates
<1> QED
  <2>1. Spared(newest)'
    BY <1>3, <1>4, <1>5, <1>6, <1>7, <1>8, <1>9, <1>10, <1>11 DEF Spared
  <2> QED  BY <1>3, <2>1

\* What was planned is taken one by one, and what was spared stays.
LEMMA PruneSparesKeeps ==
  ASSUME TypeOK, PruneSpares, [Next]_vars
  PROVE  PruneSpares'
<1> USE DEF PruneSpares
<1>1. Names \subseteq Dirs
  BY DEF Dirs
<1>2. ASSUME prune' # Idle => prune # Idle /\ prune'.held = prune.held /\ prune'.doomed \subseteq prune.doomed,
             muddied' = muddied,
             \A keep \in SUBSET Names : prune' # Idle /\ prune # Idle /\ Spared(keep) => Spared(keep)'
      PROVE  PruneSpares'
  BY <1>2
<1>3. CASE StoreStep \/ BackupStep \/ ReaderStep \/ UNCHANGED vars
  <2>1. UNCHANGED <<prune, muddied>>
    BY <1>3, StoreFrame, BackupFrame, ReaderFrame DEF vars
  <2>2. ASSUME NEW keep \in SUBSET Names, Spared(keep)
        PROVE  Spared(keep)'
    <3>1. ASSUME NEW m \in keep \cup prune.doomed
          PROVE  /\ Recognised(m)' /\ Date(m)' = Date(m)
                 /\ ~(backup'.at = "receipt" /\ backup'.name = m)
      <4>1. m \in Names /\ Recognised(m) /\ ~(backup.at = "receipt" /\ backup.name = m)
        BY <2>2 DEF Spared
      <4> QED  BY <1>3, <4>1, NamedStays DEF Recognised, Missing, Date
    <3> QED  BY <2>1, <2>2, <3>1, SparedStays DEF Spared
  <2> QED  BY <1>2, <2>1, <2>2
<1>4. CASE PrunePlan
  <2>1. prune'.doomed \cap prune'.held = {}
    BY <1>4 DEF PrunePlan, Doomed
  <2> QED  BY <1>4, <2>1, PlanSpares
<1>5. ASSUME NEW d \in Dirs, PruneFiles(d)
      PROVE  PruneSpares'
  <2>1. /\ prune' = [at |-> "gone", doomed |-> prune.doomed \ {d}, held |-> prune.held, dir |-> d]
        /\ d \in prune.doomed /\ prune # Idle /\ UNCHANGED <<backup, receipt, muddied>>
        /\ \A e \in Dirs \ {d} : shelf'[e] = shelf[e]
    BY <1>5, Shapes DEF PruneFiles, making, TypeOK
  <2>2. ASSUME NEW keep \in SUBSET Names, Spared(keep)
        PROVE  Spared(keep)'
    <3>1. d \notin keep
      BY <2>1, <2>2 DEF Spared
    <3>2. ASSUME NEW m \in keep \cup prune'.doomed
          PROVE  /\ Recognised(m)' /\ Date(m)' = Date(m)
                 /\ ~(backup'.at = "receipt" /\ backup'.name = m)
      <4>1. /\ m \in Names /\ Recognised(m) /\ ~(backup.at = "receipt" /\ backup.name = m)
            /\ m # d
        BY <2>1, <2>2, <3>1 DEF Spared
      <4> QED  BY <1>1, <2>1, <4>1 DEF Recognised, Missing, Date
    <3> QED  BY <2>1, <2>2, <3>1, <3>2, SparedStays
  <2> QED  BY <1>2, <2>1, <2>2
<1>6. CASE PruneDirectory
  <2>1. /\ prune \in [at : {"gone", "receipt"}, doomed : SUBSET Dirs, held : SUBSET Names, dir : Dirs]
        /\ prune' = [prune EXCEPT !.at = "receipt"] /\ prune # Idle
        /\ prune.at = "gone" /\ UNCHANGED <<backup, receipt, muddied>>
        /\ \A e \in Dirs \ {prune.dir} : shelf'[e] = shelf[e]
    BY <1>6, Shapes DEF PruneDirectory, making, TypeOK
  <2>2. prune'.doomed = prune.doomed /\ prune'.held = prune.held /\ prune'.dir = prune.dir
    BY <2>1
  <2>3. ASSUME NEW keep \in SUBSET Names, Spared(keep)
        PROVE  Spared(keep)'
    <3>1. prune.dir \notin keep \cup prune.doomed
      BY <2>1, <2>3 DEF Spared
    <3>2. ASSUME NEW m \in keep \cup prune'.doomed
          PROVE  /\ Recognised(m)' /\ Date(m)' = Date(m)
                 /\ ~(backup'.at = "receipt" /\ backup'.name = m)
      <4>1. /\ m \in Names /\ Recognised(m) /\ ~(backup.at = "receipt" /\ backup.name = m)
            /\ m # prune.dir
        BY <2>2, <2>3, <3>1 DEF Spared
      <4> QED  BY <1>1, <2>1, <4>1 DEF Recognised, Missing, Date
    <3> QED  BY <2>2, <2>3, <3>1, <3>2, SparedStays
  <2> QED  BY <1>2, <2>1, <2>2, <2>3
<1>7. CASE PruneReceipt
  <2>1. /\ prune.at = "receipt" /\ prune # Idle /\ UNCHANGED <<backup, shelf, muddied>>
        /\ \A e \in Names \ {prune.dir} : receipt'[e] = receipt[e]
        /\ prune' # Idle => prune' = [at |-> "apply", doomed |-> prune.doomed, held |-> prune.held]
    BY <1>7, Shapes DEF PruneReceipt, making, TypeOK
  <2>2. prune' # Idle => prune'.doomed = prune.doomed /\ prune'.held = prune.held /\ prune'.at = "apply"
    BY <2>1
  <2>3. ASSUME NEW keep \in SUBSET Names, Spared(keep), prune' # Idle
        PROVE  Spared(keep)'
    <3>1. prune.dir \notin keep \cup prune.doomed
      BY <2>1, <2>3 DEF Spared
    <3>2. ASSUME NEW m \in keep \cup prune'.doomed
          PROVE  /\ Recognised(m)' /\ Date(m)' = Date(m)
                 /\ ~(backup'.at = "receipt" /\ backup'.name = m)
      <4>1. /\ m \in Names /\ Recognised(m) /\ ~(backup.at = "receipt" /\ backup.name = m)
            /\ m # prune.dir
        BY <2>2, <2>3, <3>1 DEF Spared
      <4> QED  BY <1>1, <2>1, <4>1 DEF Recognised, Missing, Date
    <3> QED  BY <2>2, <2>3, <3>2, SparedStays
  <2> QED  BY <1>2, <2>1, <2>2, <2>3
<1>8. CASE PruneFails
  BY <1>8 DEF PruneFails
<1>9. ASSUME NEW n \in Names, Damage(n)
      PROVE  PruneSpares'
  <2>1. n \in Dirs /\ shelf[n] \in Copies
    BY <1>1, <1>9, Shelved DEF Damage, Recognised
  <2>2. /\ UNCHANGED <<prune, backup, receipt, muddied>>
        /\ \A e \in Dirs : shelf'[e] = IF e = n THEN [shelf[n] EXCEPT !.intact = FALSE] ELSE shelf[e]
    BY <1>9 DEF Damage, making, TypeOK
  <2>3. /\ shelf'[n].manifest = shelf[n].manifest /\ shelf'[n].mtime = shelf[n].mtime
        /\ shelf'[n] # Null
    <3>1. shelf'[n] \in Copies
      BY <2>1, <2>2 DEF Copies
    <3> QED  BY <2>1, <2>2, <3>1, CopiesAssumption DEF Copies
  <2>4. ASSUME NEW keep \in SUBSET Names, Spared(keep)
        PROVE  Spared(keep)'
    <3>1. ASSUME NEW m \in keep \cup prune'.doomed
          PROVE  /\ Recognised(m)' /\ Date(m)' = Date(m)
                 /\ ~(backup'.at = "receipt" /\ backup'.name = m)
      <4>1. m \in Names /\ Recognised(m) /\ ~(backup.at = "receipt" /\ backup.name = m)
        BY <2>2, <2>4 DEF Spared
      <4> QED  BY <1>1, <2>2, <2>3, <4>1 DEF Recognised, Missing, Date
    <3> QED  BY <2>2, <2>4, <3>1, SparedStays DEF Spared
  <2> QED  BY <1>2, <2>2, <2>4
<1> QED  BY <1>3, <1>4, <1>5, <1>6, <1>7, <1>8, <1>9, WhoseStep DEF ShelfStep

\* Retention takes no backup that was held, and, if what it surveyed were whole
\* backups with receipts of their own, leaves as many as it was told that are as
\* new as the one it takes, whatever is published, restored, damaged or begun anew
\* while it runs (loomctl backup-prune: plan, then removals).  A partial directory
\* that has its manifest counts as a copy in the code, and may cost a whole one.
THEOREM RetentionLeavesEnough == Spec => RetentionKeeps
<1>1. Init => PruneSpares
  BY DEF Init, PruneSpares
<1>2. TypeOK /\ PruneSpares /\ [Next]_vars => PruneSpares'
  BY PruneSparesKeeps
<1>3. TypeOK /\ PruneSpares /\ [Next]_vars =>
        [\A n \in Names :
           Recognised(n) /\ prune.at = "apply" /\ prune'.at = "gone" /\ prune'.dir = n =>
             /\ n \notin prune.held
             /\ ~muddied => Cardinality({m \in Names \ {n} : Recognised(m) /\ Date(m) >= Date(n)})
                              >= MinimumCopies]_vars
  <2> SUFFICES ASSUME TypeOK, PruneSpares, [Next]_vars, NEW n \in Names,
                      prune.at = "apply", prune'.at = "gone", prune'.dir = n
               PROVE  /\ n \notin prune.held
                      /\ ~muddied => Cardinality({m \in Names \ {n} : Recognised(m) /\ Date(m) >= Date(n)})
                                       >= MinimumCopies
    OBVIOUS
  <2> DEFINE asNew == {m \in Names \ {n} : Recognised(m) /\ Date(m) >= Date(n)}
  <2>1. n \in prune.doomed /\ prune # Idle
    <3>1. Idle.at = "idle" /\ prune' # prune
      BY DEF Idle
    <3>2. PICK d \in Dirs : PruneFiles(d)
      BY <3>1, WhoseStep, StoreFrame, BackupFrame, ReaderFrame, Shapes
         DEF ShelfStep, PrunePlan, PruneDirectory, PruneReceipt, PruneFails, Damage, vars
    <3> QED  BY <3>1, <3>2 DEF PruneFiles
  <2>2. n \notin prune.held
    BY <2>1 DEF PruneSpares
  <2>3. ASSUME ~muddied
        PROVE  Cardinality(asNew) >= MinimumCopies
    <3>1. PICK keep \in SUBSET Names : Spared(keep)
      BY <2>1, <2>3 DEF PruneSpares
    <3>2. keep \subseteq asNew
      BY <2>1, <3>1 DEF Spared
    <3>3. IsFiniteSet(asNew)
      BY CopiesAssumption, FS_Subset
    <3>4. Cardinality(keep) <= Cardinality(asNew) /\ Cardinality(keep) = MinimumCopies
      BY <3>1, <3>2, <3>3, FS_Subset DEF Spared
    <3>5. Cardinality(asNew) \in Nat
      BY <3>3, FS_CardinalityType
    <3> HIDE DEF asNew
    <3> QED  BY <3>4, <3>5, CopiesAssumption
  <2> QED  BY <2>2, <2>3
<1> QED  BY CopiesTypes, <1>1, <1>2, <1>3, PTL DEF Spec, RetentionKeeps

=============================================================================
