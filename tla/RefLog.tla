------------------------------- MODULE RefLog -------------------------------
(***************************************************************************)
(* FileRefStore (refs.rs): refs kept as a snapshot file plus an append-    *)
(* only log of edit frames.  The module has the files, the sizes the store *)
(* caches, and every place where the process can die or the filesystem can *)
(* refuse: inside an append (which may leave a torn frame), between        *)
(* compaction's snapshot and its truncate, and inside the truncate.        *)
(*                                                                         *)
(* A frame is either a whole edit or Torn.  Sizes are counted in frames    *)
(* and in entries rather than bytes; only their order matters.             *)
(*                                                                         *)
(* A store is used by one process at a time (store.lock), and apply()      *)
(* holds the state mutex from the append to the end of the truncate, so    *)
(* one call is under way at most.                                          *)
(***************************************************************************)
EXTENDS Refs, FiniteSetsExt

CONSTANTS
  Batches,          \* the edit sequences the session may hand to apply()
  Main,             \* the branch a brand-new database is rooted with
  RootCommit,       \* pager.root_manifest()
  LegacyRefs,       \* what a pre-snapshot database may hold in refs.bin
  CompactFloor,     \* compact_floor, in frames
  WriteAfterTear,   \* may apply() be called while the log holds a torn frame?
  PartialTruncate,  \* may a crash inside truncate leave a prefix of the log?
  MaxCalls,         \* bound: apply() calls in a behaviour
  MaxFaults         \* bound: crashes and I/O errors in a behaviour

ASSUME RefLogAssumption ==
  /\ IsFiniteSet(Branches) /\ IsFiniteSet(Tags) /\ IsFiniteSet(Commits)
  /\ Main \in Branches
  /\ RootCommit \in Commits
  /\ Batches \subseteq Seq(RefEdit)
  /\ LegacyRefs \subseteq RefsType
  /\ CompactFloor \in Nat /\ MaxCalls \in Nat /\ MaxFaults \in Nat
  /\ {WriteAfterTear, PartialTruncate} \subseteq BOOLEAN

Torn   == [op |-> "Torn"]
NoFile == [op |-> "NoFile"]

VARIABLES
  snapshot,   \* refs.snapshot, or NoFile
  legacy,     \* refs.bin, or NoFile; read, never written
  log,        \* refs.log: a sequence of frames
  logBytes,   \* FileState::log_bytes
  snapBytes,  \* FileState::snapshot_bytes
  pc,         \* where the process is; "down" when there is none
  batch,      \* the edits of the apply() call under way
  image,      \* the refs write_snapshot_and_reset_log is writing
  seeding,    \* is that write the save() of a first open?
  acked,      \* history: the refs every Ok answer so far has promised
  answer,     \* history: how the last apply() of this process ended
  stray,      \* history: frames failed appends left in the log unaccounted for
  calls, faults

logVars == <<snapshot, legacy, log, logBytes, snapBytes, pc, batch, image, seeding>>
vars == <<logVars, acked, answer, stray, calls, faults>>

-----------------------------------------------------------------------------

\* frames_decode: the whole frames before the first torn one.
FramesDecode(frames) ==
  LET torn == {i \in DOMAIN frames : frames[i] = Torn}
      end  == IF torn = {} THEN Len(frames) ELSE Min(torn) - 1
  IN  SubSeq(frames, 1, end)

\* read_snapshot: refs.snapshot, else the legacy file, else nothing.
ReadSnapshot == IF snapshot # NoFile THEN snapshot ELSE legacy

\* reconstruct, of the given log: None when there is neither a snapshot nor a
\* whole frame.
Reconstruct(frames) ==
  IF ReadSnapshot = NoFile /\ FramesDecode(frames) = << >>
  THEN NoFile
  ELSE ApplyEdits(IF ReadSnapshot = NoFile THEN EmptyRefs ELSE ReadSnapshot,
                  FramesDecode(frames))

\* What a session opened on these files would believe.
Loaded(frames) ==
  IF Reconstruct(frames) = NoFile
  THEN Rooted(Main, RootCommit)
  ELSE Reconstruct(frames)

\* The size of an encoded snapshot.
SnapshotSize(r) ==
  IF r = NoFile THEN 0
  ELSE Cardinality({b \in Branches : r.branches[b] # Null})
     + Cardinality({t \in Tags : r.tags[t] # Null})
     + Cardinality({c \in Commits : r.commits[c] # {}})

HasTear == \E i \in DOMAIN log : log[i] = Torn

-----------------------------------------------------------------------------

Init ==
  /\ snapshot = NoFile
  /\ legacy \in LegacyRefs \cup {NoFile}
  /\ log = << >>
  /\ logBytes = 0 /\ snapBytes = 0
  /\ pc = "down"
  /\ batch = << >>
  /\ image = EmptyRefs
  /\ seeding = FALSE
  /\ acked = Loaded(log)
  /\ answer = "none" /\ stray = 0
  /\ calls = 0 /\ faults = 0

\* Mutant: a database with no snapshot of its own is taken for a new one.
OpenSeedsLegacy ==
  /\ pc = "down"
  /\ logBytes' = Len(log)
  /\ snapBytes' = SnapshotSize(snapshot)
  /\ seeding' = (snapshot = NoFile)
  /\ IF seeding'
     THEN /\ image' = Rooted(Main, RootCommit)
          /\ pc' = "snapshot"
     ELSE /\ pc' = "idle"
          /\ UNCHANGED image
  /\ answer' = "none" /\ stray' = 0
  /\ UNCHANGED <<snapshot, legacy, log, batch, acked, calls, faults>>

\* open_inner primes the cached sizes from the files; then assemble loads.  A
\* database with nothing to load is seeded by save(Refs::rooted(..)).
Open ==
  /\ pc = "down"
  /\ logBytes' = Len(log)
  /\ snapBytes' = SnapshotSize(snapshot)
  /\ seeding' = (Reconstruct(log) = NoFile)
  /\ IF seeding'
     THEN /\ image' = Rooted(Main, RootCommit)
          /\ pc' = "snapshot"
     ELSE /\ pc' = "idle"
          /\ UNCHANGED image
  /\ answer' = "none" /\ stray' = 0
  /\ UNCHANGED <<snapshot, legacy, log, batch, acked, calls, faults>>

\* apply(edits): the batch is encoded and the append begins.
BeginApply(edits) ==
  /\ pc = "idle" /\ calls < MaxCalls
  /\ WriteAfterTear \/ ~HasTear
  /\ pc' = "append"
  /\ batch' = edits
  /\ calls' = calls + 1
  /\ answer' = "none"
  /\ UNCHANGED <<snapshot, legacy, log, logBytes, snapBytes, image, seeding, acked, stray, faults>>

\* Has the log outgrown the snapshot, past the floor?
NeedsCompaction(lb, sb) == lb > Max({sb, CompactFloor})

\* Mutant: the log is folded as it was before the append.
AppendOkFoldsOldLog ==
  /\ pc = "append"
  /\ log' = log \o batch
  /\ logBytes' = logBytes + Len(batch)
  /\ IF NeedsCompaction(logBytes', snapBytes)
     THEN /\ pc' = "snapshot"
          /\ image' = Loaded(log)
     ELSE /\ pc' = "idle"
          /\ UNCHANGED image
  /\ answer' = IF pc' = "idle" THEN "ok" ELSE "none"
  /\ acked' = ApplyEdits(acked, batch)
  /\ batch' = << >>
  /\ UNCHANGED <<snapshot, legacy, snapBytes, seeding, stray, calls, faults>>

\* The append is durable.  When the log has outgrown the snapshot the call goes
\* on, under the same lock, to fold the log it has just read into a snapshot.
AppendOk ==
  /\ pc = "append"
  /\ log' = log \o batch
  /\ logBytes' = logBytes + Len(batch)
  /\ IF NeedsCompaction(logBytes', snapBytes)
     THEN /\ pc' = "snapshot"
          /\ image' = Reconstruct(log')
     ELSE /\ pc' = "idle"
          /\ UNCHANGED image
  /\ answer' = IF pc' = "idle" THEN "ok" ELSE "none"
  /\ acked' = ApplyEdits(acked, batch)
  /\ batch' = << >>
  /\ UNCHANGED <<snapshot, legacy, snapBytes, seeding, stray, calls, faults>>

\* Some of an append reached the disk: k whole frames, then possibly part of
\* the next one.
Landed(k, torn) ==
  /\ torn => k < Len(batch)
  /\ log' = log \o SubSeq(batch, 1, k) \o IF torn THEN <<Torn>> ELSE << >>

\* The append returns an error after writing part of the batch, and the process
\* lives on.  log_bytes is not advanced.
AppendErr(k, torn) ==
  /\ pc = "append" /\ faults < MaxFaults
  /\ Landed(k, torn)
  /\ pc' = "idle"
  /\ batch' = << >>
  /\ acked' = Loaded(log')
  /\ answer' = "err"
  /\ stray' = stray + k + IF torn THEN 1 ELSE 0
  /\ faults' = faults + 1
  /\ UNCHANGED <<snapshot, legacy, logBytes, snapBytes, image, seeding, calls>>

\* The machine stops inside the append.
AppendCrash(k, torn) ==
  /\ pc = "append" /\ faults < MaxFaults
  /\ Landed(k, torn)
  /\ pc' = "down"
  /\ batch' = << >>
  /\ acked' = Loaded(log')
  /\ faults' = faults + 1
  /\ UNCHANGED <<snapshot, legacy, logBytes, snapBytes, image, seeding, answer, stray, calls>>

\* Mutant: the cached sizes are reset as soon as the snapshot is in place.
WriteSnapshotResets ==
  /\ pc = "snapshot"
  /\ snapshot' = image
  /\ logBytes' = 0
  /\ snapBytes' = SnapshotSize(image)
  /\ pc' = "truncate"
  /\ UNCHANGED <<legacy, log, batch, image, seeding, acked, answer, stray, calls, faults>>

\* write_snapshot_and_reset_log, first half: the atomic snapshot write.
WriteSnapshot ==
  /\ pc = "snapshot"
  /\ snapshot' = image
  /\ pc' = "truncate"
  /\ UNCHANGED <<legacy, log, logBytes, snapBytes, batch, image, seeding, acked, answer, stray,
                 calls, faults>>

\* Second half: the log is cut and the cached sizes are reset.
TruncateLog ==
  /\ pc = "truncate"
  /\ log' = << >>
  /\ logBytes' = 0
  /\ snapBytes' = SnapshotSize(image)
  /\ pc' = "idle"
  /\ seeding' = FALSE
  /\ answer' = IF seeding THEN "none" ELSE "ok"
  /\ stray' = 0
  /\ UNCHANGED <<snapshot, legacy, batch, image, acked, calls, faults>>

\* Either half returns an error to the caller and leaves the cached sizes as
\* they were.  A failure while seeding fails the open.
CompactErr ==
  /\ pc \in {"snapshot", "truncate"} /\ faults < MaxFaults
  /\ pc' = IF seeding THEN "down" ELSE "idle"
  /\ answer' = "err"
  /\ faults' = faults + 1
  /\ UNCHANGED <<snapshot, legacy, log, logBytes, snapBytes, batch, image, seeding, acked, stray,
                 calls>>

\* The machine stops outside an append.  Inside the truncate the file may be
\* found at any length between the old one and zero.
Crash ==
  /\ pc \in {"idle", "snapshot", "truncate"} /\ faults < MaxFaults
  /\ \/ UNCHANGED log
     \/ /\ PartialTruncate /\ pc = "truncate"
        /\ \E k \in 0 .. Len(log) - 1 : log' = SubSeq(log, 1, k)
  /\ pc' = "down"
  /\ faults' = faults + 1
  /\ UNCHANGED <<snapshot, legacy, logBytes, snapBytes, batch, image, seeding, acked, answer, stray,
                 calls>>

Next ==
  \/ Open
  \/ \E edits \in Batches : BeginApply(edits)
  \/ AppendOk
  \/ \E k \in 0 .. Len(batch), torn \in BOOLEAN :
       AppendErr(k, torn) \/ AppendCrash(k, torn)
  \/ WriteSnapshot
  \/ TruncateLog
  \/ CompactErr
  \/ Crash

Spec == Init /\ [][Next]_vars

-----------------------------------------------------------------------------
(* Properties. *)

\* The values the variables take.
TypeOK ==
  /\ snapshot \in RefsType \cup {NoFile}
  /\ legacy \in LegacyRefs \cup {NoFile}
  /\ log \in Seq(RefEdit \cup {Torn})
  /\ logBytes \in Nat /\ snapBytes \in Nat
  /\ pc \in {"down", "idle", "append", "snapshot", "truncate"}
  /\ batch \in Seq(RefEdit)
  /\ image \in RefsType
  /\ seeding \in BOOLEAN
  /\ acked \in RefsType
  /\ answer \in {"none", "ok", "err"} /\ stray \in Nat

\* Whenever no append is under way, a session opened now would load exactly the
\* refs that the Ok answers (and the prefixes of failed appends) promised: no
\* crash, failed write, compaction or half-done compaction loses an acknowledged
\* edit or brings an overwritten one back.
AckedSurvive == pc # "append" => Loaded(log) = acked

\* The log-structured store implements the abstract store: appending is the
\* only step a caller can see; seeding, compaction, a crash between its two
\* halves and reopening change nothing that load() returns.
Store == INSTANCE RefStore WITH refs <- Loaded(log), call <- batch
ImplementsRefStore == Store!StoreSpec

\* After an apply() that answered Ok, recovery replays at most one snapshot's
\* worth of frames (or the floor's), whatever failed before it: a compaction
\* that failed in either half is made good by the next call, and the cached
\* sizes that trigger it are behind the files by nothing but the frames which
\* failed appends left in the log.
ReplayBounded ==
  pc = "idle" /\ answer = "ok" =>
    Len(log) <= Max({SnapshotSize(snapshot), CompactFloor}) + stray
=============================================================================
