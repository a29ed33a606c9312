------------------------------- MODULE Copies -------------------------------
(***************************************************************************)
(* Backups of a file-backed database: `backup` and `backup-signed` of      *)
(* loomctl and backup_to of the engine, the shelf they are kept on, the    *)
(* receipts beside them, independent verification, restore, and retention. *)
(*                                                                         *)
(* A commit stands for the pages it writes.  What the refs name, with its  *)
(* ancestors, is on disk in two files: refs.snapshot, and refs.log, which  *)
(* is replayed on it and now and then folded into it.  A backup is staged  *)
(* in a directory of its own beside its destination and published by a     *)
(* rename.  Everybody else finds backups by what is on the shelf; there is *)
(* no lock on it.                                                          *)
(***************************************************************************)
EXTENDS Naturals, FiniteSets

CONSTANTS
  Commits,        \* the commits there can be
  Compacted,      \* whether the store begins with a refs.snapshot
  Names,          \* names backups are published under
  Keys,           \* signing keys
  Trusted,        \* those a verifier trusts for the role
  Kinds,          \* mutations: "write" holds the write guard, "forget" does not
  Reuse,          \* whether a name may be used again once its backup is gone
  Horizon,        \* --keep-days
  MinimumCopies,  \* --minimum-copies
  MaxTime, MaxBackups,   \* bounds
  Null

Times   == 0..MaxTime
Staging == 1..MaxBackups     \* .<name>.partial-<pid>-<nonce>: a new one each time
Dirs    == Names \cup Staging

\* What a manifest commits to: the pages, and the commits its refs name.
Contents == [pages : SUBSET Commits, refs : SUBSET Commits]

\* A directory: what was copied into it, whether it has its manifest yet, who
\* signed that, whether the bytes still are those, and when it last changed.
\* History: which key was asked for, until it is being removed, and what the
\* refs named when it was begun.
Copies == [content : Contents, manifest : BOOLEAN, key : Keys \cup {Null},
           intact : BOOLEAN, mtime : Times, asked : Keys \cup {Null}, from : SUBSET Commits]

\* BackupReceipt: which manifest, and when the backup was done.
Receipts == [digest : Contents, created : Times]

ASSUME CopiesAssumption ==
  /\ MaxTime \in Nat /\ MaxBackups \in Nat
  /\ Horizon \in Nat /\ MinimumCopies \in Nat \ {0}
  /\ Reuse \in BOOLEAN /\ Compacted \in BOOLEAN
  /\ Trusted \subseteq Keys /\ Kinds \subseteq {"write", "forget"}
  /\ Names \cap Staging = {} /\ IsFiniteSet(Names)
  /\ \A set \in SUBSET Commits : Null # set
  /\ Null \notin Copies \cup Receipts \cup Contents \cup Keys \cup Times

VARIABLES
  pages,          \* the pages on disk
  snapshot, log,  \* refs.snapshot, or Null, and what refs.log adds to it
  owner,          \* who has the store open: "nobody", "server" or "loomctl"
  lock,           \* the write guard: "free", "write" or "backup"
  writer,         \* the mutation under way
  backup,         \* the backup under way
  started,        \* how many backups were begun
  shelf,          \* shelf[d]: the directory, or Null
  receipt,        \* receipt[n]: what is beside the name, or Null
  prune,          \* the retention run under way
  reader,         \* the verification or restore under way
  now,            \* the clock
  headAt,         \* history: what the refs named when each unit of time ended
  vouched,        \* history: contents a trusted key signed
  used,           \* history: names a backup was published under
  muddied         \* history: a plan counted or dated what was no whole backup's own

store  == <<pages, snapshot, log, writer>>
making == <<owner, lock, backup, started>>
clock  == <<now, headAt>>
vars   == <<store, making, shelf, receipt, prune, reader, clock, vouched, used, muddied>>

Idle == [at |-> "idle"]

\* What is in a file that may not be there.
In(file) == IF file = Null THEN {} ELSE file

\* The commits the refs name: the log is replayed on the snapshot.
refs == In(snapshot) \cup log

-----------------------------------------------------------------------------
(* What is asked of a directory on the shelf.                               *)

Missing(d) == shelf[d] = Null

\* A backup is a real directory with a manifest in it.
Recognised(d) == ~Missing(d) /\ shelf[d].manifest

\* verify_backup: the files are the manifest's, and as it says.
Verifies(d) == Recognised(d) /\ shelf[d].intact

\* verify_signed_backup and _with: and a key that is trusted signed the manifest.
VerifiesSigned(d) == Verifies(d) /\ shelf[d].key \in Trusted

\* survey: a backup is as old as its receipt says, or else as its directory.
Date(d) == IF d \in Names /\ receipt[d] # Null THEN receipt[d].created ELSE shelf[d].mtime

Candidates == {d \in Dirs : Recognised(d)}

\* set is a choice of the n newest.
Newest(set, n) ==
  LET all == Candidates
  IN  /\ set \subseteq all
      /\ Cardinality(set) = IF Cardinality(all) < n THEN Cardinality(all) ELSE n
      /\ \A d \in set, e \in all \ set : Date(d) >= Date(e)

-----------------------------------------------------------------------------

Init ==
  /\ pages = {} /\ snapshot = (IF Compacted THEN {} ELSE Null) /\ log = {} /\ writer = Idle
  /\ owner = "nobody" /\ lock = "free"
  /\ backup = Idle /\ prune = Idle /\ reader = Idle
  /\ started = 0 /\ shelf = [d \in Dirs |-> Null] /\ receipt = [n \in Names |-> Null]
  /\ now = 0 /\ headAt = [t \in Times |-> {}]
  /\ vouched = {} /\ used = {} /\ muddied = FALSE

\* The server opens the store, or closes it with nothing under way.
Serve ==
  /\ \/ owner = "nobody" /\ owner' = "server"
     \/ owner = "server" /\ writer = Idle /\ backup = Idle /\ owner' = "nobody"
  /\ UNCHANGED <<store, lock, backup, started, shelf, receipt, prune, reader, clock, vouched, used, muddied>>

\* Mutant: it does not wait.
AdmittedAlways(kind) == kind \in Kinds

\* What a write has to wait for, and a forget does not: the write guard.
Admitted(kind) == kind = "write" => lock = "free"

\* A mutation commits its pages.
Commit(kind) ==
  /\ owner = "server" /\ writer = Idle /\ Admitted(kind)
  /\ \E c \in Commits \ pages :
       pages' = pages \cup {c} /\ writer' = [at |-> kind, commit |-> c]
  /\ lock' = IF kind = "write" THEN "write" ELSE lock
  /\ UNCHANGED <<snapshot, log, owner, backup, started, shelf, receipt, prune, reader, clock, vouched, used, muddied>>

\* And makes the refs name it: an append to the log.
Persist ==
  /\ writer # Idle
  /\ log' = log \cup {writer.commit} /\ writer' = Idle
  /\ lock' = IF writer.at = "write" THEN "free" ELSE lock
  /\ UNCHANGED <<pages, snapshot, owner, backup, started, shelf, receipt, prune, reader, clock, vouched, used, muddied>>

\* Whenever something is appended the log may be folded into the snapshot.  A
\* merge that adds its second parent and a new branch append without the guard:
\* this happens beside a backup too.
WriteSnapshot ==
  /\ owner = "server" /\ snapshot # refs
  /\ snapshot' = refs
  /\ UNCHANGED <<pages, log, writer, making, shelf, receipt, prune, reader, clock, vouched, used, muddied>>

\* The log is emptied once the snapshot has all of it.
TruncateLog ==
  /\ owner = "server" /\ log # {} /\ log \subseteq In(snapshot)
  /\ log' = {}
  /\ UNCHANGED <<pages, snapshot, writer, making, shelf, receipt, prune, reader, clock, vouched, used, muddied>>

\* Under the guard, what the refs do not reach is swept.
Gc ==
  /\ owner = "server" /\ lock = "free" /\ ~ (pages \subseteq refs)
  /\ pages' = pages \cap refs
  /\ UNCHANGED <<snapshot, log, writer, making, shelf, receipt, prune, reader, clock, vouched, used, muddied>>

-----------------------------------------------------------------------------
(* Backup.                                                                  *)

\* loomctl opens the store for the one command; the server has it open.
Opened == IF owner = "nobody" THEN "loomctl" ELSE owner

\* The destination must be new.  Under the guard the refs are flushed, a partial
\* directory is made beside the destination, and the files to copy are listed.  A
\* snapshot that is not there yet is not listed: it is not looked for again, and
\* a first compaction may then take what the log had out of the backup's reach.
BackupBegin(name, key) ==
  /\ owner # "loomctl" /\ backup = Idle /\ lock = "free" /\ started < MaxBackups
  /\ Missing(name) /\ (Reuse \/ name \notin used)
  /\ owner' = Opened /\ lock' = "backup" /\ started' = started + 1
  /\ shelf' = [shelf EXCEPT ![started'] =
       [content |-> [pages |-> {}, refs |-> {}], manifest |-> FALSE, key |-> Null,
        intact |-> TRUE, mtime |-> now, asked |-> key,
        from |-> IF snapshot = Null THEN {} ELSE refs]]
  /\ backup' = [at |-> "log", name |-> name, key |-> key, dir |-> started', list |-> pages,
                snapshot |-> snapshot # Null]
  /\ UNCHANGED <<store, receipt, prune, reader, clock, vouched, used, muddied>>

\* A step of the backup, done to its partial directory.
Stage(to, copy) ==
  /\ shelf' = [shelf EXCEPT ![backup.dir] = copy]
  /\ backup' = [backup EXCEPT !.at = to]
  /\ UNCHANGED <<store, owner, lock, started, receipt, prune, reader, clock, used, muddied>>

\* Files are copied and hashed in the order of their names: the log as it is now.
CopyLog ==
  /\ backup.at = "log" /\ ~Missing(backup.dir)
  /\ Stage("copy", [shelf[backup.dir] EXCEPT !.content = [pages |-> {}, refs |-> log], !.mtime = now])
  /\ UNCHANGED vouched

\* And later the snapshot, and the pages; one that is gone fails the backup.
CopyFiles ==
  /\ backup.at = "copy" /\ ~Missing(backup.dir) /\ backup.list \subseteq pages
  /\ Stage("manifest",
       [shelf[backup.dir] EXCEPT
          !.content = [pages |-> backup.list,
                       refs |-> @.refs \cup (IF backup.snapshot THEN In(snapshot) ELSE {})],
          !.mtime = now])
  /\ UNCHANGED vouched

WriteManifest ==
  /\ backup.at = "manifest" /\ ~Missing(backup.dir)
  /\ Stage(IF backup.key = Null THEN "publish" ELSE "sign",
       [shelf[backup.dir] EXCEPT !.manifest = TRUE, !.mtime = now])
  /\ UNCHANGED vouched

WriteSignature ==
  /\ backup.at = "sign" /\ ~Missing(backup.dir)
  /\ Stage("publish", [shelf[backup.dir] EXCEPT !.key = backup.key, !.mtime = now])
  /\ vouched' = IF backup.key \in Trusted THEN vouched \cup {shelf[backup.dir].content} ELSE vouched

\* Whether the command still has a receipt to write.
ReceiptDue == owner = "loomctl" /\ backup.key # Null

\* The guard is dropped; loomctl closes the store with its last step.
Ended == /\ backup' = Idle /\ owner' = IF owner = "loomctl" THEN "nobody" ELSE owner

\* The partial directory is renamed to its destination.
Publish ==
  /\ backup.at = "publish" /\ ~Missing(backup.dir) /\ Missing(backup.name)
  /\ shelf' = [shelf EXCEPT ![backup.name] = shelf[backup.dir], ![backup.dir] = Null]
  /\ used' = used \cup {backup.name}
  /\ lock' = "free"
  /\ IF ReceiptDue THEN backup' = [backup EXCEPT !.at = "receipt"] /\ UNCHANGED owner ELSE Ended
  /\ UNCHANGED <<store, started, receipt, prune, reader, clock, vouched, muddied>>

\* Its receipt, of the signature that is there.
WriteReceipt ==
  /\ backup.at = "receipt" /\ Recognised(backup.name) /\ shelf[backup.name].key # Null
  /\ receipt' = [receipt EXCEPT ![backup.name] =
       [digest |-> shelf[backup.name].content, created |-> now]]
  /\ Ended
  /\ UNCHANGED <<store, lock, started, shelf, prune, reader, clock, vouched, used, muddied>>

\* A step fails: the partial directory is removed.
BackupFails ==
  /\ backup # Idle
  /\ shelf' = IF backup.at = "receipt" THEN shelf ELSE [shelf EXCEPT ![backup.dir] = Null]
  /\ lock' = IF backup.at = "receipt" THEN lock ELSE "free"
  /\ Ended
  /\ UNCHANGED <<store, started, receipt, prune, reader, clock, vouched, used, muddied>>

\* The process that has the store open dies: what it had made stays.
Crash ==
  /\ owner # "nobody"
  /\ owner' = "nobody" /\ lock' = "free" /\ writer' = Idle /\ backup' = Idle
  /\ UNCHANGED <<pages, snapshot, log, started, shelf, receipt, prune, reader, clock, vouched, used, muddied>>

-----------------------------------------------------------------------------
(* Verification and restore.  Both only read the shelf; one is followed.     *)

\* By name, or the newest on the shelf.
Target(d) == d \in Names \/ Newest({d}, 1)

\* verify-backup-signed: the backup verifies, and then its receipt is looked at.
VerifyBackupSigned(d) ==
  /\ reader = Idle /\ VerifiesSigned(d) /\ Target(d)
  /\ reader' = [at |-> "receipt", dir |-> d, content |-> shelf[d].content]
  /\ UNCHANGED <<store, making, shelf, receipt, prune, clock, vouched, used, muddied>>

\* Mutant: a backup without a receipt is as good as new.
RecoveryPointNow(d) ==
  IF d \in Names /\ receipt[d] # Null /\ ~Missing(d) /\ shelf[d].key # Null
       /\ receipt[d].digest = shelf[d].content
  THEN receipt[d].created ELSE now

\* The receipt counts if it is of the signature that is there.
RecoveryPoint(d) ==
  IF d \in Names /\ receipt[d] # Null /\ ~Missing(d) /\ shelf[d].key # Null
       /\ receipt[d].digest = shelf[d].content
  THEN receipt[d].created ELSE Null

\* It is reported, and the verification is over.
PublishSignals ==
  /\ reader.at = "receipt"
  /\ reader' = Idle
  /\ UNCHANGED <<store, making, shelf, receipt, prune, clock, vouched, used, muddied>>

\* restore and restore-signed, to a new destination: the backup verifies.
RestoreBegin(d, signed) ==
  /\ reader = Idle /\ (IF signed THEN VerifiesSigned(d) ELSE Verifies(d)) /\ Target(d)
  /\ reader' = [at |-> "copy", dir |-> d, content |-> shelf[d].content, signed |-> signed]
  /\ UNCHANGED <<store, making, shelf, receipt, prune, clock, vouched, used, muddied>>

\* Mutant: what verified a moment ago is copied as it is.
StillAsNamed(d, content) == content.pages \subseteq shelf[d].content.pages

\* Every file of the manifest that verified is there and as it says.
StillAs(d, content) ==
  /\ shelf[d].intact /\ content.refs = shelf[d].content.refs
  /\ content.pages \subseteq shelf[d].content.pages

\* What a restore leaves at its destination.
Restored(d, content) ==
  [pages |-> content.pages \cap shelf[d].content.pages, refs |-> shelf[d].content.refs]

\* The files are copied to a partial directory and hashed again, and that, which
\* nobody else knows of, is renamed.
RestoreCopy ==
  /\ reader.at = "copy" /\ ~Missing(reader.dir)
  /\ StillAs(reader.dir, reader.content)
  /\ reader' = Idle
  /\ UNCHANGED <<store, making, shelf, receipt, prune, clock, vouched, used, muddied>>

\* A file is gone or changed, or the process dies: nothing is published.
ReaderFails ==
  /\ reader # Idle
  /\ reader' = Idle
  /\ UNCHANGED <<store, making, shelf, receipt, prune, clock, vouched, used, muddied>>

-----------------------------------------------------------------------------
(* Retention.                                                               *)

\* Mutant: the newest copies are not spared.
DoomedByAge(held, newest) == {d \in Candidates : d \notin held /\ now - Date(d) > Horizon}

\* Neither held, nor of the newest, nor recent.
Doomed(held, newest) ==
  {d \in Candidates : d \notin held /\ d \notin newest /\ now - Date(d) > Horizon}

\* A candidate that is no whole backup, or has another's receipt, or none yet.
Muddy(d) ==
  \/ d \in Staging \/ ~shelf[d].intact \/ Date(d) < shelf[d].mtime
  \/ backup.at = "receipt" /\ backup.name = d

\* backup-prune --apply: the register of holds is loaded and the shelf surveyed.
PrunePlan ==
  /\ prune = Idle
  /\ \E newest \in SUBSET Candidates :
       /\ Newest(newest, MinimumCopies)
       /\ \E held \in SUBSET (Names \cap Doomed({}, newest)) :
            /\ Doomed(held, newest) # {}
            /\ prune' = [at |-> "apply", doomed |-> Doomed(held, newest), held |-> held]
  /\ muddied' = (muddied \/ \E d \in Candidates : Muddy(d))
  /\ UNCHANGED <<store, making, shelf, receipt, reader, clock, vouched, used>>

\* What is left of a copy that is being removed, when these are gone.
Removed(copy, lost) ==
  [copy EXCEPT !.intact = @ /\ "files" \notin lost, !.manifest = @ /\ "manifest" \notin lost,
               !.key = IF "signature" \in lost THEN Null ELSE @, !.asked = Null, !.mtime = now]

\* remove_dir_all takes the files of a directory away, in any order: by now the
\* signature, or pages and refs, or the manifest too are gone.
PruneFiles(d) ==
  /\ prune.at = "apply" /\ d \in prune.doomed /\ ~Missing(d)
  /\ \E lost \in {{"signature"}, {"files"}, {"signature", "files", "manifest"}} :
       shelf' = [shelf EXCEPT ![d] = Removed(@, lost)]
  /\ prune' = [at |-> "gone", doomed |-> prune.doomed \ {d}, held |-> prune.held, dir |-> d]
  /\ UNCHANGED <<store, making, receipt, reader, clock, vouched, used, muddied>>

\* The directory is gone.
PruneDirectory ==
  /\ prune.at = "gone"
  /\ shelf' = [shelf EXCEPT ![prune.dir] = Null]
  /\ prune' = [prune EXCEPT !.at = "receipt"]
  /\ UNCHANGED <<store, making, receipt, reader, clock, vouched, used, muddied>>

\* And its receipt.
PruneReceipt ==
  /\ prune.at = "receipt"
  /\ receipt' = IF prune.dir \in Names THEN [receipt EXCEPT ![prune.dir] = Null] ELSE receipt
  /\ prune' = IF prune.doomed = {} THEN Idle
              ELSE [at |-> "apply", doomed |-> prune.doomed, held |-> prune.held]
  /\ UNCHANGED <<store, making, shelf, reader, clock, vouched, used, muddied>>

\* A removal fails, or the process dies.
PruneFails ==
  /\ prune # Idle
  /\ prune' = Idle
  /\ UNCHANGED <<store, making, shelf, receipt, reader, clock, vouched, used, muddied>>

-----------------------------------------------------------------------------
(* The world around.                                                        *)

\* The bytes of a published copy change.
Damage(n) ==
  /\ Recognised(n) /\ \A d \in Candidates : shelf[d].intact
  /\ shelf' = [shelf EXCEPT ![n].intact = FALSE]
  /\ UNCHANGED <<store, making, receipt, prune, reader, clock, vouched, used, muddied>>

Tick ==
  /\ now < MaxTime
  /\ now' = now + 1 /\ headAt' = [headAt EXCEPT ![now] = refs]
  /\ UNCHANGED <<store, making, shelf, receipt, prune, reader, vouched, used, muddied>>

Next ==
  \/ Serve \/ Persist \/ WriteSnapshot \/ TruncateLog \/ Gc \/ Crash \/ Tick
  \/ \E kind \in Kinds : Commit(kind)
  \/ \E name \in Names, key \in Keys \cup {Null} : BackupBegin(name, key)
  \/ CopyLog \/ CopyFiles \/ WriteManifest \/ WriteSignature \/ Publish \/ WriteReceipt \/ BackupFails
  \/ \E d \in Dirs : VerifyBackupSigned(d)
  \/ PublishSignals
  \/ \E d \in Dirs, signed \in BOOLEAN : RestoreBegin(d, signed)
  \/ RestoreCopy \/ ReaderFails
  \/ PrunePlan \/ PruneDirectory \/ PruneReceipt \/ PruneFails
  \/ \E d \in Dirs : PruneFiles(d)
  \/ \E n \in Names : Damage(n)

Spec == Init /\ [][Next]_vars

-----------------------------------------------------------------------------

\* No ref points at a missing page.
Whole(content) == content.refs \subseteq content.pages

\* Whatever is found to be a backup, of any name and at any step, is of one
\* committed prefix, and loses nothing of what the refs named when it was begun,
\* although writes, compaction and gc come at any moment; and under its name it
\* is signed with the key that was asked for, until it is being removed.  This
\* is of mutations that wait for the write guard: a forget or a rewind does not.
\* Excepted is what a store without a refs.snapshot lost (see BackupBegin).
CopiesWhole ==
  \A d \in Dirs : Verifies(d) =>
    /\ Whole(shelf[d].content) /\ shelf[d].from \subseteq shelf[d].content.refs
    /\ d \in Names /\ shelf[d].asked # Null => shelf[d].key = shelf[d].asked

\* A restore publishes a committed prefix, unaltered, and if a signature was
\* asked for one a trusted key signed: whatever is damaged, pruned or replaced
\* on the shelf between the verification and the copy.
RestoredTrue ==
  [][RestoreCopy =>
       LET content == Restored(reader.dir, reader.content)
       IN  /\ shelf[reader.dir].intact /\ Whole(content)
           /\ reader.signed => content \in vouched]_vars

\* A recovery point that is reported is one: what was acknowledged before it is
\* in the copy that was verified.
RecoveryPointTrue ==
  [][PublishSignals =>
       LET point == RecoveryPoint(reader.dir)
       IN  point # Null /\ point > 0 => headAt[point - 1] \subseteq reader.content.refs]_vars

\* Retention takes no backup that was held, and none without leaving as many as
\* it was told that are as new, unless the shelf it surveyed held something that
\* was no whole backup.
RetentionKeeps ==
  [][\A n \in Names :
       Recognised(n) /\ prune.at = "apply" /\ prune'.at = "gone" /\ prune'.dir = n =>
         /\ n \notin prune.held
         /\ ~muddied => Cardinality({m \in Names \ {n} : Recognised(m) /\ Date(m) >= Date(n)})
                          >= MinimumCopies]_vars
=============================================================================
