---------------------------- MODULE StorageEngine ----------------------------
(***************************************************************************)
(* The LSM-C storage engine of one node, without S3: the WAL the journal   *)
(* thread writes and seals, the hot and warm cache, the flush loop that    *)
(* moves entries to EntrySegments, WAL garbage collection, the two-phase   *)
(* crash recovery, and crashes.                                            *)
(*                                                                         *)
(* A WAL file is a sequence of units.  The record of entry e is Size[e]    *)
(* units long, a write is padded to a multiple of Align units, and offsets *)
(* count units from 0.  An EntrySegment is the set of entries it holds.    *)
(***************************************************************************)
EXTENDS Integers, Sequences, FiniteSets, Functions

CONSTANTS Entries,
          Size,         \* Size[e]: units in the record of e
          Align,        \* units in an O_DIRECT block
          SealAt,       \* seal_threshold of the WAL, in units
          EntrySealAt,  \* seal_threshold of an EntrySegment, in entries
          Pressure,     \* TRUE when max_local_bytes is set
          MaxBatch,     \* bound: records in one WAL write
          MaxSegment,   \* bound: largest WAL segment id
          MaxErrors,    \* bound: failed writes
          MaxCrashes    \* bound: crashes

ASSUME EngineConstants ==
    /\ Align \in Nat \ {0}
    /\ Size \in [Entries -> Nat \ {0}]
    /\ SealAt \in Nat /\ EntrySealAt \in Nat
    /\ Pressure \in BOOLEAN
    /\ MaxBatch \in Nat /\ MaxSegment \in Nat /\ MaxErrors \in Nat /\ MaxCrashes \in Nat

Pad == <<>>                           \* a unit of zeros
Unit == {Pad} \cup (Entries \X (Nat \ {0}))
ActiveSeg == -1                       \* the path active.seg
NoSegment == -1
NoLocation == [id |-> NoSegment, pos |-> 0]

VARIABLES
    \* Files.
    wal,         \* the WAL files by path: ActiveSeg, or the id of seg-<id>.seg
    entryFile,   \* entry-<id>.ent, by id: the entries synced to it
    \* Fjall: the state in use and the state that survives a crash.
    fj, durable,
    \* Memory.
    phase,       \* where the process is: down, the phases of recover, serve
    journal,     \* the journal thread: at, seg_id, file_offset
    written,     \* add_entry calls whose WAL write has returned
    hot, warm,   \* EntrySegmentCache
    flush,       \* the flush loop: at, the batch, the open segment's id
    replay,      \* replay_wal_segment: the segments left, pos, last_valid_pos
    \* History and bounds.
    synced,      \* by path: the units write_at and sync_data returned Ok for
    acked,       \* entries whose add_entry returned Ok
    session,     \* those acknowledged since the process started
    errors, crashes

walVars == <<wal, synced>>
fileVars == <<walVars, entryFile>>
boundVars == <<errors, crashes>>
vars == <<fileVars, fj, durable, phase, journal, written, hot, warm, flush, replay,
          acked, session, boundVars>>

Greatest(S) == CHOOSE x \in S : \A y \in S : y <= x
Least(S) == CHOOSE x \in S : \A y \in S : x <= y

EmptyFjall ==
    [walIndex |-> [e \in Entries |-> NoLocation],   \* wal_index
     entryIndex |-> [e \in Entries |-> NoSegment],  \* entry_index
     checkpoint |-> <<>>,                           \* checkpoints, by segment id
     wal |-> <<>>,                                  \* wal_registry: id to status and path
     entry |-> <<>>]                                \* entry_registry: id to status

\* upsert.
Put(f, k, v) == [x \in DOMAIN f \cup {k} |-> IF x = k THEN v ELSE f[x]]

Stopped == [at |-> "down", id |-> 0, off |-> 0]
NoFlush == [at |-> "down", id |-> 0, batch |-> {}]
NoReplay == [todo |-> {}, pos |-> 0, valid |-> 0, open |-> FALSE]

\* An empty data directory.
Init ==
    /\ wal = <<>> /\ synced = <<>> /\ entryFile = <<>>
    /\ fj = EmptyFjall /\ durable = EmptyFjall
    /\ phase = "down"
    /\ journal = Stopped
    /\ written = {}
    /\ hot = {} /\ warm = {}
    /\ flush = NoFlush
    /\ replay = NoReplay
    /\ acked = {} /\ session = {}
    /\ errors = 0 /\ crashes = 0

----------------------------------------------------------------------------
(* Segment files *)

RoundUp(k) == ((k + Align - 1) \div Align) * Align
RoundDown(k) == (k \div Align) * Align

\* AlignedBuffer::push.
Record(e) == [i \in 1..Size[e] |-> <<e, i>>]

\* padded_aligned.
Padded(s) == [i \in 1..RoundUp(Len(s)) |-> IF i <= Len(s) THEN s[i] ELSE Pad]

\* write_at: f with s at offset off; a hole reads as zeros.
WriteAt(f, off, s) ==
    [i \in 1..Greatest({Len(f), off + Len(s)}) |->
        IF i > off /\ i <= off + Len(s) THEN s[i - off]
        ELSE IF i <= Len(f) THEN f[i] ELSE Pad]

\* decode_record at pos succeeds, and finds entry e.  Payload bytes that are
\* not the start of a record decode as a torn write.
Decodes(f, pos, e) ==
    /\ pos + Size[e] <= Len(f)
    /\ SubSeq(f, pos + 1, pos + Size[e]) = Record(e)

\* The file at a path; a missing one has nothing to read.
File(path) == IF path \in DOMAIN wal THEN wal[path] ELSE <<>>
SyncedTo(path) == IF path \in DOMAIN wal THEN synced[path] ELSE 0
WalFile(id) == File(fj.wal[id].path)
Sealed == DOMAIN wal \ {ActiveSeg}

\* Mutant: the largest id in use itself.
LastId(files, registered) == Greatest({0} \cup files \cup registered)

\* One past the largest id in use, in files or in the registry.
NextId(files, registered) == Greatest({0} \cup {id + 1 : id \in files \cup registered})

----------------------------------------------------------------------------
(* JournalService::add_entry, the part the engine sees *)

\* The duplicate check passes: a handler may have e in the journal's channel.
\* Two calls for one entry at a time are JournalService's subject.
MayAdd(e) ==
    /\ phase = "serve"
    /\ e \notin written \cup hot \cup warm
    /\ fj.entryIndex[e] = NoSegment /\ fj.walIndex[e] = NoLocation

\* journal.append has returned: into the hot cache, and Ok.
AddReturns(e) ==
    /\ e \in written
    /\ written' = written \ {e}
    /\ hot' = IF e \in warm THEN hot ELSE hot \cup {e}
    /\ acked' = acked \cup {e}
    /\ session' = session \cup {e}
    /\ UNCHANGED <<fileVars, fj, durable, phase, journal, warm, flush, replay, boundVars>>

----------------------------------------------------------------------------
(* LsmcJournal: the journal thread *)

Registered(registry, id, status, path) == Put(registry, id, [status |-> status, path |-> path])

\* The thread starts, while recover runs or after it: resume_offset,
\* open_odirect, register_active.
JournalStart ==
    /\ journal.at = "starting"
    /\ journal' = [journal EXCEPT !.at = "run", !.off = RoundDown(Len(File(ActiveSeg)))]
    /\ wal' = Put(wal, ActiveSeg, File(ActiveSeg))
    /\ synced' = Put(synced, ActiveSeg, SyncedTo(ActiveSeg))
    /\ fj' = [fj EXCEPT !.wal = Registered(@, journal.id, "Active", ActiveSeg)]
    /\ UNCHANGED <<entryFile, durable, phase, written, hot, warm, flush, replay,
                   acked, session, boundVars>>

\* Each request is pushed to the buffer, which is then padded.
Bytes(batch) ==
    LET pushed[i \in 0..Len(batch)] == IF i = 0 THEN <<>> ELSE pushed[i - 1] \o Record(batch[i])
    IN  Padded(pushed[Len(batch)])

\* What the channel may hold: up to MaxBatch requests, in any order.
Batches == {b \in UNION {[1..k -> {e \in Entries : MayAdd(e)}] : k \in 1..MaxBatch} :
               \A i, j \in DOMAIN b : b[i] = b[j] => i = j}

\* After a batch the segment is sealed if it is full.
AfterBatch(off) == IF off >= SealAt /\ journal.id < MaxSegment THEN "seal" ELSE "run"

\* write_at and sync_data return Ok.
BatchWritten(batch) ==
    LET off == journal.off + Len(Bytes(batch)) IN
    /\ journal.at = "run"
    /\ wal' = [wal EXCEPT ![ActiveSeg] = WriteAt(@, journal.off, Bytes(batch))]
    /\ synced' = [synced EXCEPT ![ActiveSeg] = off]
    /\ journal' = [journal EXCEPT !.off = off, !.at = AfterBatch(off)]
    /\ written' = written \cup Range(batch)
    /\ UNCHANGED <<entryFile, fj, durable, phase, hot, warm, flush, replay,
                   acked, session, boundVars>>

\* A short write, a failed sync_data or an error: k units reached the file,
\* every caller gets the error and file_offset stays.
BatchFails(batch, k) ==
    /\ journal.at = "run"
    /\ errors < MaxErrors
    /\ errors' = errors + 1
    /\ wal' = [wal EXCEPT ![ActiveSeg] = WriteAt(@, journal.off, SubSeq(Bytes(batch), 1, k))]
    /\ journal' = [journal EXCEPT !.at = AfterBatch(journal.off)]
    /\ UNCHANGED <<synced, entryFile, fj, durable, phase, written, hot, warm, flush,
                   replay, acked, session, crashes>>

\* JournalMsg::Seal.
seal ==
    /\ journal.at = "run"
    /\ phase = "serve"
    /\ journal.id < MaxSegment
    /\ journal' = [journal EXCEPT !.at = "seal"]
    /\ UNCHANGED <<fileVars, fj, durable, phase, written, hot, warm, flush, replay,
                   acked, session, boundVars>>

\* active.seg is renamed to the sealed segment's name.
Renamed(files) ==
    [path \in (DOMAIN files \ {ActiveSeg}) \cup {journal.id} |->
        IF path = journal.id THEN files[ActiveSeg] ELSE files[path]]

\* do_seal, up to the rename.
SealRename ==
    /\ journal.at = "seal"
    /\ ActiveSeg \in DOMAIN wal
    /\ wal' = Renamed(wal)
    /\ synced' = Renamed(synced)
    /\ journal' = [journal EXCEPT !.at = "renamed"]
    /\ UNCHANGED <<entryFile, fj, durable, phase, written, hot, warm, flush, replay,
                   acked, session, boundVars>>

\* do_seal: sync_all or the rename fails, and the journal goes on as it was.
\* The rename always fails once wal_gc has removed active.seg.
SealFails ==
    /\ journal.at = "seal"
    /\ ActiveSeg \in DOMAIN wal => errors < MaxErrors
    /\ errors' = IF ActiveSeg \in DOMAIN wal THEN errors + 1 ELSE errors
    /\ journal' = [journal EXCEPT !.at = "run"]
    /\ UNCHANGED <<fileVars, fj, durable, phase, written, hot, warm, flush, replay,
                   acked, session, crashes>>

\* do_seal: the sealed segment becomes Local.
SealRegister ==
    /\ journal.at = "renamed"
    /\ fj' = [fj EXCEPT !.wal = Registered(@, journal.id, "Local", journal.id)]
    /\ journal' = [journal EXCEPT !.at = "registered"]
    /\ UNCHANGED <<fileVars, durable, phase, written, hot, warm, flush, replay,
                   acked, session, boundVars>>

\* do_seal: a new active.seg, registered under the next id.
SealReopen ==
    /\ journal.at = "registered"
    /\ wal' = Put(wal, ActiveSeg, <<>>)
    /\ synced' = Put(synced, ActiveSeg, 0)
    /\ fj' = [fj EXCEPT !.wal = Registered(@, journal.id + 1, "Active", ActiveSeg)]
    /\ journal' = [at |-> "run", id |-> journal.id + 1, off |-> 0]
    /\ UNCHANGED <<entryFile, durable, phase, written, hot, warm, flush, replay,
                   acked, session, boundVars>>

----------------------------------------------------------------------------
(* flush_loop *)

\* Mutant: the segment is registered only after its first flush.
OpenUnregistered(id, registry) ==
    /\ entryFile' = Put(entryFile, id, {})
    /\ fj' = [fj EXCEPT !.entry = registry]
    /\ flush' = [at |-> "wait", id |-> id, batch |-> {}]

\* open_active_segment: the file is created or truncated, and registered.
OpenSegment(id, registry) ==
    /\ entryFile' = Put(entryFile, id, {})
    /\ fj' = [fj EXCEPT !.entry = Put(registry, id, "Active")]
    /\ flush' = [at |-> "wait", id |-> id, batch |-> {}]

\* Active segments of an earlier run become Local, and a new one is opened.
FlushStart ==
    /\ phase = "serve"
    /\ flush.at = "down"
    /\ OpenSegment(NextId(DOMAIN entryFile, DOMAIN fj.entry), [id \in DOMAIN fj.entry |-> "Local"])
    /\ UNCHANGED <<walVars, durable, phase, journal, written, hot, warm, replay,
                   acked, session, boundVars>>

\* Mutant: the drained entries are not kept in the warm half.
DrainHot ==
    /\ flush.at = "wait"
    /\ hot # {}
    /\ hot' = {}
    /\ flush' = [flush EXCEPT !.at = "write", !.batch = hot]
    /\ UNCHANGED <<fileVars, fj, durable, phase, journal, written, warm, replay,
                   acked, session, boundVars>>

drain_hot_to_warm ==
    /\ flush.at = "wait"
    /\ hot # {}
    /\ hot' = {}
    /\ warm' = warm \cup hot
    /\ flush' = [flush EXCEPT !.at = "write", !.batch = hot]
    /\ UNCHANGED <<fileVars, fj, durable, phase, journal, written, replay,
                   acked, session, boundVars>>

\* Mutant: write_batch stays in the buffer.
FlushBuffered ==
    /\ flush.at = "write"
    /\ flush' = [flush EXCEPT !.at = "index"]
    /\ UNCHANGED <<fileVars, fj, durable, phase, journal, written, hot, warm, replay,
                   acked, session, boundVars>>

\* write_batch and sync.
FlushSynced ==
    /\ flush.at = "write"
    /\ entryFile' = [entryFile EXCEPT ![flush.id] = @ \cup flush.batch]
    /\ flush' = [flush EXCEPT !.at = "index"]
    /\ UNCHANGED <<walVars, fj, durable, phase, journal, written, hot, warm, replay,
                   acked, session, boundVars>>

\* An error of the file or of Fjall ends the flush thread.
FlushFails ==
    /\ flush.at \in {"write", "index"}
    /\ errors < MaxErrors
    /\ errors' = errors + 1
    /\ flush' = [flush EXCEPT !.at = "dead"]
    /\ UNCHANGED <<fileVars, fj, durable, phase, journal, written, hot, warm, replay,
                   acked, session, crashes>>

\* One round of the loop over the batch: insert_location and delete_location.
FlushIndex(e) ==
    /\ flush.at = "index"
    /\ e \in flush.batch
    /\ fj' = [fj EXCEPT !.entryIndex[e] = flush.id, !.walIndex[e] = NoLocation]
    /\ flush' = [flush EXCEPT !.batch = @ \ {e}]
    /\ UNCHANGED <<fileVars, durable, phase, journal, written, hot, warm, replay,
                   acked, session, boundVars>>

\* The rest of the round: upsert, and seal_active_segment, evict_warm and
\* open_active_segment when the segment is full.
FlushRegister ==
    /\ flush.at = "index"
    /\ flush.batch = {}
    /\ \/ /\ Cardinality(entryFile[flush.id]) < EntrySealAt
          /\ flush' = [flush EXCEPT !.at = "wait"]
          /\ fj' = [fj EXCEPT !.entry = Put(@, flush.id, "Active")]
          /\ UNCHANGED <<warm, entryFile>>
       \/ /\ Cardinality(entryFile[flush.id]) >= EntrySealAt
          /\ warm' = {}
          /\ OpenSegment(flush.id + 1, Put(fj.entry, flush.id, "Local"))
    /\ UNCHANGED <<walVars, durable, phase, journal, written, hot, replay,
                   acked, session, boundVars>>

----------------------------------------------------------------------------
(* BackgroundOffloader: wal_gc *)

\* referenced_segment_ids.
Referenced == {fj.walIndex[e].id : e \in Entries}

\* The file is min_age old: an hour, many flush ticks after its last write.
OldEnough(id) ==
    \A e \in Entries : <<e, 1>> \in Range(WalFile(id)) => e \notin written \cup hot \cup flush.batch

\* compute_disk_pressure: the Local EntrySegments may exceed max_local_bytes.
DiskPressure ==
    /\ Pressure
    /\ \E id \in DOMAIN fj.entry : fj.entry[id] = "Local" /\ entryFile[id] # {}

\* The offloader ends with the flush thread, whose channel it waits on.
wal_gc(id) ==
    /\ phase = "serve"
    /\ flush.at # "dead"
    /\ id \in DOMAIN fj.wal /\ fj.wal[id].status = "Local"
    /\ id \notin Referenced
    /\ DiskPressure \/ OldEnough(id)
    /\ fj.wal[id].path \in DOMAIN wal
    /\ wal' = [path \in DOMAIN wal \ {fj.wal[id].path} |-> wal[path]]
    /\ synced' = [path \in DOMAIN wal' |-> synced[path]]
    /\ fj' = [fj EXCEPT !.wal[id].status = "Deleted"]
    /\ UNCHANGED <<entryFile, durable, phase, journal, written, hot, warm, flush,
                   replay, acked, session, boundVars>>

----------------------------------------------------------------------------
(* Crashes, Fjall durability, and CrashRecovery::recover *)

\* What Fjall has written so far reaches the disk.  Only a crash sees it.
FjallSync ==
    /\ crashes < MaxCrashes
    /\ durable # fj
    /\ durable' = fj
    /\ UNCHANGED <<fileVars, fj, phase, journal, written, hot, warm, flush, replay,
                   acked, session, boundVars>>

\* The process dies, or the machine loses power; `kept` is what survives of an
\* EntrySegment write that had not been synced.
Crash(kept) ==
    /\ phase # "down"
    /\ crashes < MaxCrashes
    /\ crashes' = crashes + 1
    /\ entryFile' = IF flush.at \in {"write", "dead"}
                      THEN [entryFile EXCEPT ![flush.id] = @ \cup kept] ELSE entryFile
    /\ fj' = durable
    /\ phase' = "down"
    /\ journal' = Stopped /\ flush' = NoFlush /\ replay' = NoReplay
    /\ written' = {} /\ hot' = {} /\ warm' = {} /\ session' = {}
    /\ UNCHANGED <<walVars, durable, acked, errors>>

\* Mutant: the next id is taken from the registry alone.
BootFromRegistry ==
    /\ phase = "down"
    /\ phase' = "entries"
    /\ journal' = [at |-> "starting", id |-> NextId({}, DOMAIN fj.wal), off |-> 0]
    /\ UNCHANGED <<fileVars, fj, durable, written, hot, warm, flush, replay,
                   acked, session, boundVars>>

\* boot: LsmcJournal::open computes the next segment id and spawns the thread.
Boot ==
    /\ phase = "down"
    /\ phase' = "entries"
    /\ journal' = [at |-> "starting", id |-> NextId(Sealed, DOMAIN fj.wal), off |-> 0]
    /\ UNCHANGED <<fileVars, fj, durable, written, hot, warm, flush, replay,
                   acked, session, boundVars>>

\* The EntrySegment files e is in.
FilesWith(e) == {id \in DOMAIN entryFile : e \in entryFile[id]}

\* Mutant: only files the registry does not know are indexed.
RecoverNewSegments ==
    /\ phase = "entries"
    /\ phase' = "register"
    /\ fj' = [fj EXCEPT
          !.entry = [id \in DOMAIN @ \cup DOMAIN entryFile |-> IF id \in DOMAIN @ THEN @[id] ELSE "Local"],
          !.entryIndex = [e \in Entries |->
              IF @[e] = NoSegment /\ FilesWith(e) \ DOMAIN fj.entry # {}
                THEN Least(FilesWith(e) \ DOMAIN fj.entry) ELSE @[e]]]
    /\ UNCHANGED <<fileVars, durable, journal, written, hot, warm, flush, replay,
                   acked, session, boundVars>>

\* Phase 1, in the order of the ids: register the files and index their records.
recover_entry_segments ==
    /\ phase = "entries"
    /\ phase' = "register"
    /\ fj' = [fj EXCEPT
          !.entry = [id \in DOMAIN @ \cup DOMAIN entryFile |-> IF id \in DOMAIN @ THEN @[id] ELSE "Local"],
          !.entryIndex = [e \in Entries |->
              IF @[e] = NoSegment /\ FilesWith(e) # {} THEN Least(FilesWith(e)) ELSE @[e]]]
    /\ UNCHANGED <<fileVars, durable, journal, written, hot, warm, flush, replay,
                   acked, session, boundVars>>

\* register_wal_if_absent for every file, active.seg under scan_next_segment_id.
WalRegistry ==
    LET activeId == IF ActiveSeg \in DOMAIN wal THEN {NextId(Sealed, {})} ELSE {} IN
    [id \in DOMAIN fj.wal \cup Sealed \cup activeId |->
        IF id \in DOMAIN fj.wal THEN fj.wal[id]
        ELSE [status |-> "Local", path |-> IF id \in Sealed THEN id ELSE ActiveSeg]]

\* Phase 2 begins: register, and list the segments to replay.
recover_wal ==
    /\ phase = "register"
    /\ phase' = "replay"
    /\ fj' = [fj EXCEPT !.wal = WalRegistry]
    /\ replay' = [NoReplay EXCEPT !.todo =
                    {id \in DOMAIN WalRegistry : WalRegistry[id].status \in {"Local", "Active"}}]
    /\ UNCHANGED <<fileVars, durable, journal, written, hot, warm, flush,
                   acked, session, boundVars>>

\* The segments are replayed in the order of their ids.
Segment == Least(replay.todo)
Content == WalFile(Segment)
Checkpoint(id) == IF id \in DOMAIN fj.checkpoint THEN fj.checkpoint[id] ELSE 0
Scanning == phase = "replay" /\ replay.todo # {} /\ replay.open

\* replay_wal_segment begins at the checkpoint.
ReplayOpen ==
    /\ phase = "replay" /\ replay.todo # {} /\ ~replay.open
    /\ replay' = [replay EXCEPT !.open = TRUE, !.pos = Checkpoint(Segment), !.valid = Checkpoint(Segment)]
    /\ UNCHANGED <<fileVars, fj, durable, phase, journal, written, hot, warm, flush,
                   acked, session, boundVars>>

\* set_checkpoint, and on to the next segment.
ReplayNext(index) ==
    /\ fj' = [fj EXCEPT !.walIndex = index, !.checkpoint = Put(@, Segment, replay.valid)]
    /\ replay' = [NoReplay EXCEPT !.todo = replay.todo \ {Segment}]

\* Mutant: padding ends the segment.
PaddingEnds ==
    /\ Scanning
    /\ replay.pos < Len(Content) /\ Content[replay.pos + 1] = Pad
    /\ ReplayNext(fj.walIndex)
    /\ UNCHANGED <<fileVars, durable, phase, journal, written, hot, warm, flush,
                   acked, session, boundVars>>

\* Mutant: a block is skipped from where the padding begins.
PaddingSkipsBlock ==
    /\ Scanning
    /\ replay.pos < Len(Content) /\ Content[replay.pos + 1] = Pad
    /\ replay' = [replay EXCEPT !.pos = @ + Align]
    /\ UNCHANGED <<fileVars, fj, durable, phase, journal, written, hot, warm, flush,
                   acked, session, boundVars>>

\* A zero length prefix: on to the next block.
ReplayPadding ==
    /\ Scanning
    /\ replay.pos < Len(Content) /\ Content[replay.pos + 1] = Pad
    /\ replay' = [replay EXCEPT !.pos = RoundUp(@)]
    /\ UNCHANGED <<fileVars, fj, durable, phase, journal, written, hot, warm, flush,
                   acked, session, boundVars>>

\* A record: unless entry_index has it, into wal_index (once) and the cache.
ReplayRecord(e) ==
    /\ Scanning
    /\ Decodes(Content, replay.pos, e)
    /\ IF fj.entryIndex[e] = NoSegment
         THEN /\ fj' = IF fj.walIndex[e] = NoLocation
                         THEN [fj EXCEPT !.walIndex[e] = [id |-> Segment, pos |-> replay.pos]] ELSE fj
              /\ hot' = hot \cup {e}
         ELSE UNCHANGED <<fj, hot>>
    /\ replay' = [replay EXCEPT !.pos = @ + Size[e], !.valid = replay.pos + Size[e]]
    /\ UNCHANGED <<fileVars, durable, phase, journal, written, warm, flush,
                   acked, session, boundVars>>

\* A torn write: truncate, purge the locations in the tail, stop.
ReplayTorn ==
    /\ Scanning
    /\ replay.pos < Len(Content) /\ Content[replay.pos + 1] # Pad
    /\ \A e \in Entries : ~Decodes(Content, replay.pos, e)
    /\ wal' = [wal EXCEPT ![fj.wal[Segment].path] = SubSeq(@, 1, replay.valid)]
    /\ synced' = [synced EXCEPT ![fj.wal[Segment].path] = Least({@, replay.valid})]
    /\ ReplayNext([e \in Entries |->
           IF fj.walIndex[e].id = Segment /\ fj.walIndex[e].pos >= replay.valid
             THEN NoLocation ELSE fj.walIndex[e]])
    /\ UNCHANGED <<entryFile, durable, phase, journal, written, hot, warm, flush,
                   acked, session, boundVars>>

ReplayEnd ==
    /\ Scanning
    /\ replay.pos >= Len(Content)
    /\ ReplayNext(fj.walIndex)
    /\ UNCHANGED <<fileVars, durable, phase, journal, written, hot, warm, flush,
                   acked, session, boundVars>>

\* recover has returned: the node serves.
RecoveryDone ==
    /\ phase = "replay" /\ replay.todo = {}
    /\ phase' = "serve"
    /\ UNCHANGED <<fileVars, fj, durable, journal, written, hot, warm, flush, replay,
                   acked, session, boundVars>>

----------------------------------------------------------------------------
Journal ==
    \/ JournalStart \/ seal \/ SealRename \/ SealFails \/ SealRegister \/ SealReopen
    \/ \E batch \in Batches :
          \/ BatchWritten(batch)
          \/ \E k \in 0..Len(Bytes(batch)) : BatchFails(batch, k)

Flush ==
    \/ FlushStart \/ drain_hot_to_warm \/ FlushSynced \/ FlushFails \/ FlushRegister
    \/ \E e \in flush.batch : FlushIndex(e)

Recover ==
    \/ recover_entry_segments \/ recover_wal
    \/ ReplayOpen \/ ReplayPadding \/ ReplayTorn \/ ReplayEnd \/ RecoveryDone
    \/ \E e \in Entries : ReplayRecord(e)

Next ==
    \/ \E e \in Entries : AddReturns(e)
    \/ Journal
    \/ Flush
    \/ \E id \in DOMAIN fj.wal : wal_gc(id)
    \/ FjallSync
    \/ \E kept \in SUBSET flush.batch : Crash(kept)
    \/ Boot
    \/ Recover

Spec == Init /\ [][Next]_vars

----------------------------------------------------------------------------
(* Properties *)

Ids == 0..(MaxSegment + MaxCrashes + 1)
FjallType(f) ==
    /\ \A e \in Entries : f.walIndex[e].id \in Ids \cup {NoSegment} /\ f.walIndex[e].pos \in Nat
    /\ \A e \in Entries : f.entryIndex[e] \in DOMAIN f.entry \cup {NoSegment}
    /\ \A id \in DOMAIN f.checkpoint : f.checkpoint[id] \in Nat
    /\ \A id \in DOMAIN f.wal : /\ f.wal[id].status \in {"Active", "Local", "Deleted"}
                                /\ f.wal[id].path \in {id, ActiveSeg}
    /\ \A id \in DOMAIN f.entry : f.entry[id] \in {"Active", "Local"}

\* Types.  entry_index names only registered EntrySegments, so that
\* TieredReader never meets "entry segment not in registry".
TypeOK ==
    /\ \A path \in DOMAIN wal : /\ path \in Ids \cup {ActiveSeg}
                                 /\ \A i \in 1..Len(wal[path]) : wal[path][i] \in Unit
    /\ DOMAIN synced = DOMAIN wal /\ \A path \in DOMAIN wal : synced[path] \in Nat
    /\ \A id \in DOMAIN entryFile : id \in Nat /\ entryFile[id] \subseteq Entries
    /\ FjallType(fj) /\ FjallType(durable)
    /\ phase \in {"down", "entries", "register", "replay", "serve"}
    /\ journal.at \in {"down", "starting", "run", "seal", "renamed", "registered"}
    /\ journal.id \in Ids /\ journal.off % Align = 0
    /\ \A S \in {written, hot, warm, acked, session, flush.batch} : S \subseteq Entries
    /\ flush.at \in {"down", "wait", "write", "index", "dead"}
    /\ replay.pos \in Nat /\ replay.valid <= replay.pos
    /\ errors \in 0..MaxErrors /\ crashes \in 0..MaxCrashes

\* JournalService::read_entry finds e: in the cache, else where entry_index
\* points, else where wal_index points.
Readable(e) ==
    \/ e \in hot \cup warm
    \/ fj.entryIndex[e] # NoSegment /\ e \in entryFile[fj.entryIndex[e]]
    \/ /\ fj.entryIndex[e] = NoSegment /\ fj.walIndex[e] # NoLocation
       /\ fj.wal[fj.walIndex[e].id].status # "Deleted"
       /\ Decodes(WalFile(fj.walIndex[e].id), fj.walIndex[e].pos, e)

\* An entry acknowledged since the process started is readable at every
\* moment: while it is drained, written, indexed and evicted, while the WAL is
\* sealed and collected, and after a failed flush.
SessionReadable == \A e \in session : Readable(e)

\* Once an entry is in a synced EntrySegment every later process serves it,
\* whatever a crash took from Fjall and whichever segment ids were in use.
FlushedReadable ==
    phase = "serve" => \A e \in Entries : FilesWith(e) # {} => Readable(e)

\* What entry_index names, in use or on the disk, is a registered EntrySegment
\* that holds the entry: TieredReader never meets "entry segment not in
\* registry", nor a file without the record.
IndexSound ==
    \A f \in {fj, durable} : \A e \in Entries : f.entryIndex[e] # NoSegment =>
        /\ f.entryIndex[e] \in DOMAIN f.entry \cap DOMAIN entryFile
        /\ e \in entryFile[f.entryIndex[e]]

\* EntrySegment files are append-only: no step, a crash included, removes a
\* file or an entry from one.  open_active_segment truncates only new paths.
\* (Local copies removed after an upload are EntryOffload's.)
FilesAppendOnly ==
    [][/\ DOMAIN entryFile \subseteq DOMAIN entryFile'
       /\ \A id \in DOMAIN entryFile : entryFile[id] \subseteq entryFile'[id]]_vars

\* Entry e has a record at pos in a file of which n units are synced.
Synced(f, n, pos, e) == pos + Size[e] <= n /\ Decodes(f, pos, e)

\* When recover returns after a crash, every synced record of a WAL segment it
\* replayed is readable, torn tails and lost index updates notwithstanding.
\* A second crash may find the first one's checkpoint in a rewritten block.
ReplayedReadable ==
    crashes <= 1 /\ phase = "replay" /\ replay.todo = {} =>
        \A id \in DOMAIN fj.checkpoint : fj.wal[id].status # "Deleted" =>
            \A e \in Entries, pos \in 0..Len(WalFile(id)) :
                Synced(WalFile(id), SyncedTo(fj.wal[id].path), pos, e) => Readable(e)

\* In that recovery the truncation of a torn segment removes no synced record,
\* whatever failed writes left behind them.
TruncationKeepsSynced ==
    [][crashes <= 1 /\ phase = "replay" =>
          \A path \in DOMAIN wal : \A e \in Entries, pos \in 0..Len(wal[path]) :
              Synced(wal[path], synced[path], pos, e) => Synced(wal'[path], synced'[path], pos, e)]_vars

\* The journal never renames active.seg over a sealed segment, also after a
\* crash that took the registry back.
SealIdFresh == journal.at = "seal" => journal.id \notin Sealed

\* wal_gc deletes a segment only when its acknowledged entries are in
\* EntrySegments.
GcOnlyFlushed ==
    [][\A id \in Sealed \ Sealed' :
          \A e \in acked : <<e, 1>> \in Range(wal[id]) => FilesWith(e) # {}]_vars

\* Every acknowledged entry is served by the recovered node.
AckedRecovered == phase = "serve" => \A e \in acked : Readable(e)
=============================================================================
