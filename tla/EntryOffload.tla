---------------------------- MODULE EntryOffload ----------------------------
(***************************************************************************)
(* The life of an EntrySegment of one node: the flush thread writes and    *)
(* seals it, the offloader uploads it to S3 and removes the local file,    *)
(* TieredReader reads it from either place through the block cache, and a  *)
(* crash at any point brings back an earlier state of the registry.        *)
(*                                                                         *)
(* cas_status is a get and an upsert: two steps in the flush thread's      *)
(* start-up, where the offloader may be at work on the same segment.  A    *)
(* segment is one block, a record is the entry it holds.  The WAL, which   *)
(* StorageEngine models, is taken to have been collected: what is flushed  *)
(* has no other copy on the node.                                          *)
(***************************************************************************)
EXTENDS Integers, FiniteSets

CONSTANTS NumEntries,   \* bound: entries 1..NumEntries reach the hot cache
          SealAfter,    \* seal_threshold, in records
          MaxRetries,   \* MAX_RETRIES of the offloader
          MaxCrashes,   \* bound: crashes
          MaxFaults     \* bound: S3 and file calls that fail

ASSUME OffloadConstants ==
    /\ NumEntries \in Nat
    /\ SealAfter \in Nat \ {0}
    /\ MaxRetries \in Nat
    /\ MaxCrashes \in Nat
    /\ MaxFaults \in Nat

Entries == 1..NumEntries
SegmentIds == 0..(NumEntries + MaxCrashes)
NoSegment == -1
NoFile == {0}           \* no file, no object, no block

Statuses == {"None", "Active", "Local", "Offloading", "S3"}

VARIABLES
    file,        \* file[s]: the records of entries/<s>.ent
    s3,          \* s3[s]: the records of the object entries/<s>.ent
    fj,          \* Fjall: the status of every segment, the segment of every entry
    durable,     \* the state of Fjall a crash falls back to
    hot, warm,   \* EntrySegmentCache
    cached,      \* cached[s]: BlockCache
    flush,       \* the flush thread
    off,         \* the offloader task
    read,        \* a call of TieredReader::read_entry
    added, crashes, faults,
    \* History.
    home,        \* home[e]: the segment entry e was synced to
    begun,       \* segments this process has begun to upload
    raced,       \* segments of `begun` the flush thread put back to Local
    forgotten    \* segments without a file whose S3 status, or all of whose record, a crash undid

vars == <<file, s3, fj, durable, hot, warm, cached, flush, off, read,
          added, crashes, faults, home, begun, raced, forgotten>>
storeVars == <<file, s3, fj, durable>>
cacheVars == <<hot, warm, cached>>
boundVars == <<added, crashes, faults>>
historyVars == <<home, begun, raced, forgotten>>

Fjall == [status: [SegmentIds -> Statuses], seg: [Entries -> SegmentIds \cup {NoSegment}]]
FlushState == [at: {"off", "orphans", "stuck", "reset", "tick", "index", "evict", "dead"},
               todo: SUBSET SegmentIds, seg: SegmentIds \cup {NoSegment}, seen: Statuses,
               batch: SUBSET Entries]
OffloadState == [at: {"off", "wait", "next", "upload", "head", "s3", "remove", "ended"},
                 todo: SUBSET SegmentIds, seg: SegmentIds \cup {NoSegment}, tries: 0..MaxRetries]
ReadState == [at: {"idle", "index", "block", "object", "bad"}, e: Entries \cup {0},
              seg: SegmentIds \cup {NoSegment}, status: Statuses]

NoFlush == [at |-> "off", todo |-> {}, seg |-> NoSegment, seen |-> "None", batch |-> {}]
NoOffload == [at |-> "off", todo |-> {}, seg |-> NoSegment, tries |-> 0]
NoRead == [at |-> "idle", e |-> 0, seg |-> NoSegment, status |-> "None"]

EmptyFjall == [status |-> [s \in SegmentIds |-> "None"], seg |-> [e \in Entries |-> NoSegment]]

Init ==
    /\ file = [s \in SegmentIds |-> NoFile]
    /\ s3 = [s \in SegmentIds |-> NoFile]
    /\ fj = EmptyFjall
    /\ durable = EmptyFjall
    /\ hot = {} /\ warm = {}
    /\ cached = [s \in SegmentIds |-> NoFile]
    /\ flush = NoFlush
    /\ off = NoOffload
    /\ read = NoRead
    /\ added = 0 /\ crashes = 0 /\ faults = 0
    /\ home = [e \in Entries |-> NoSegment]
    /\ begun = {} /\ raced = {} /\ forgotten = {}

\* SegmentRegistry::upsert with the status st; local_path is set unless st is
\* S3, when s3_key is.
Upsert(s, st) == fj' = [fj EXCEPT !.status[s] = st]

\* SegmentRegistry::list_by_status.
list_by_status(st) == {s \in SegmentIds : fj.status[s] = st}

Least(S) == CHOOSE x \in S : \A y \in S : x <= y
Greatest(S) == CHOOSE x \in S : \A y \in S : y <= x

----------------------------------------------------------------------------
(* boot: CrashRecovery's phase 1, then the flush thread and the offloader *)

HasFile(s) == file[s] # NoFile
FilesWith(e) == {s \in SegmentIds : HasFile(s) /\ e \in file[s]}

\* Mutant: files are registered and not indexed.
RecoverRegistersOnly ==
    [fj EXCEPT !.status = [s \in SegmentIds |-> IF @[s] = "None" /\ HasFile(s) THEN "Local" ELSE @[s]]]

\* recover_entry_segment for every file, in the order of the ids.
recover_entry_segments ==
    [status |-> [s \in SegmentIds |-> IF fj.status[s] = "None" /\ HasFile(s) THEN "Local" ELSE fj.status[s]],
     seg |-> [e \in Entries |-> IF fj.seg[e] = NoSegment /\ FilesWith(e) # {}
                                  THEN Least(FilesWith(e)) ELSE fj.seg[e]]]

\* The flush thread begins with a list of the Active segments.
boot ==
    /\ flush.at = "off"
    /\ fj' = recover_entry_segments
    /\ flush' = [NoFlush EXCEPT !.at = "orphans",
                   !.todo = {s \in SegmentIds : fj'.status[s] = "Active"}]
    /\ off' = [NoOffload EXCEPT !.at = "wait"]
    /\ UNCHANGED <<file, s3, durable, cacheVars, read, boundVars, historyVars>>

----------------------------------------------------------------------------
(* The flush thread *)

FlushUnchanged == UNCHANGED <<s3, durable, cached, off, read, added, crashes>>

\* An Active segment of the process before is sealed, and the offloader woken.
SealOrphan ==
    /\ flush.at = "orphans" /\ flush.todo # {}
    /\ LET s == Least(flush.todo) IN
         /\ Upsert(s, "Local")
         /\ flush' = [flush EXCEPT !.todo = @ \ {s}]
    /\ UNCHANGED <<file, hot, warm, faults, historyVars>> /\ FlushUnchanged

\* Mutant: Offloading segments are left as they are.
ListNothing ==
    /\ flush.at = "orphans" /\ flush.todo = {}
    /\ flush' = [flush EXCEPT !.at = "stuck"]
    /\ UNCHANGED <<file, fj, hot, warm, faults, historyVars>> /\ FlushUnchanged

\* The second list_by_status: by now the offloader may be at work.
ListStuck ==
    /\ flush.at = "orphans" /\ flush.todo = {}
    /\ flush' = [flush EXCEPT !.at = "stuck", !.todo = list_by_status("Offloading")]
    /\ UNCHANGED <<file, fj, hot, warm, faults, historyVars>> /\ FlushUnchanged

\* cas_status(Offloading, Local): the get ...
ResetGet ==
    /\ flush.at = "stuck" /\ flush.todo # {}
    /\ LET s == Least(flush.todo) IN
         flush' = [flush EXCEPT !.at = "reset", !.todo = @ \ {s}, !.seg = s, !.seen = fj.status[s]]
    /\ UNCHANGED <<file, fj, hot, warm, faults, historyVars>> /\ FlushUnchanged

\* ... and the upsert.
ResetPut ==
    /\ flush.at = "reset"
    /\ IF flush.seen = "Offloading"
         THEN /\ Upsert(flush.seg, "Local")
              /\ raced' = raced \cup ({flush.seg} \cap begun)
         ELSE UNCHANGED <<fj, raced>>
    /\ flush' = [flush EXCEPT !.at = "stuck"]
    /\ UNCHANGED <<file, hot, warm, faults, home, begun, forgotten>> /\ FlushUnchanged

\* next_entry_seg_id: above every file and every registry record.
NextId ==
    LET used == {s \in SegmentIds : HasFile(s) \/ fj.status[s] # "None"} IN
    IF used = {} THEN 0 ELSE Greatest(used) + 1

\* open_active_segment: the file, then its record.
open_active_segment(s) ==
    /\ s \in SegmentIds
    /\ file' = [file EXCEPT ![s] = {}]
    /\ Upsert(s, "Active")
    /\ flush' = [NoFlush EXCEPT !.at = "tick", !.seg = s]

FlushOpen ==
    /\ flush.at = "stuck" /\ flush.todo = {}
    /\ open_active_segment(NextId)
    /\ UNCHANGED <<hot, warm, faults, historyVars>> /\ FlushUnchanged

\* The hot entries move to warm; write_batch and sync put them into the file.
drain_hot_to_warm ==
    /\ flush.at = "tick" /\ hot # {}
    /\ warm' = warm \cup hot
    /\ hot' = {}
    /\ file' = [file EXCEPT ![flush.seg] = @ \cup hot]
    /\ home' = [e \in Entries |-> IF e \in hot THEN flush.seg ELSE home[e]]
    /\ flush' = [flush EXCEPT !.at = "index", !.batch = hot]
    /\ UNCHANGED <<fj, faults, begun, raced, forgotten>> /\ FlushUnchanged

\* An error of the write ends the thread and drops entry_sealed_tx.
FlushFails ==
    /\ flush.at = "tick" /\ hot # {}
    /\ faults < MaxFaults
    /\ faults' = faults + 1
    /\ warm' = warm \cup hot
    /\ hot' = {}
    /\ flush' = [flush EXCEPT !.at = "dead"]
    /\ UNCHANGED <<file, fj, historyVars>> /\ FlushUnchanged

Full == Cardinality(file[flush.seg]) >= SealAfter

\* Mutant: a full segment is sealed and written on.
IndexKeepsSegment ==
    /\ flush.at = "index"
    /\ fj' = [status |-> [fj.status EXCEPT ![flush.seg] = IF Full THEN "Local" ELSE "Active"],
              seg |-> [e \in Entries |-> IF e \in flush.batch THEN flush.seg ELSE fj.seg[e]]]
    /\ flush' = [flush EXCEPT !.batch = {}, !.at = "tick"]
    /\ UNCHANGED <<file, hot, warm, faults, historyVars>> /\ FlushUnchanged

\* The locations of the batch and the Active record of the segment; then, when
\* the segment is full, seal_active_segment.
FlushIndex ==
    /\ flush.at = "index"
    /\ fj' = [status |-> [fj.status EXCEPT ![flush.seg] = IF Full THEN "Local" ELSE "Active"],
              seg |-> [e \in Entries |-> IF e \in flush.batch THEN flush.seg ELSE fj.seg[e]]]
    /\ flush' = [flush EXCEPT !.batch = {}, !.at = IF Full THEN "evict" ELSE "tick"]
    /\ UNCHANGED <<file, hot, warm, faults, historyVars>> /\ FlushUnchanged

\* evict_warm, and the next segment.
evict_warm ==
    /\ flush.at = "evict"
    /\ warm' = {}
    /\ open_active_segment(flush.seg + 1)
    /\ UNCHANGED <<hot, faults, historyVars>> /\ FlushUnchanged

----------------------------------------------------------------------------
(* The offloader: offload_loop and process_pending *)

OffUnchanged == UNCHANGED <<durable, cacheVars, flush, read, added, crashes>>

\* A sealed segment or the poll timer wakes the task, which lists Local; with
\* the default min_age of zero every segment of the list is old enough.
OffWake ==
    /\ off.at = "wait"
    /\ off' = [off EXCEPT !.at = "next", !.todo = list_by_status("Local")]
    /\ UNCHANGED <<file, s3, fj, faults, historyVars>> /\ OffUnchanged

\* The flush thread has dropped its sender: rx.changed() is an error, the loop
\* breaks.
OffEnds ==
    /\ off.at = "wait" /\ flush.at = "dead"
    /\ off' = [off EXCEPT !.at = "ended"]
    /\ UNCHANGED <<file, s3, fj, faults, historyVars>> /\ OffUnchanged

\* The pass is over (wal_gc follows it, which StorageEngine models).
OffDone ==
    /\ off.at = "next" /\ off.todo = {}
    /\ off' = [off EXCEPT !.at = "wait"]
    /\ UNCHANGED <<file, s3, fj, faults, historyVars>> /\ OffUnchanged

\* cas_status(Local, Offloading) of the next segment.  All the flush thread can
\* write between its get and its upsert is Local once more.
OffBegin ==
    /\ off.at = "next" /\ off.todo # {}
    /\ LET s == Least(off.todo) IN
         IF fj.status[s] = "Local"
           THEN /\ Upsert(s, "Offloading")
                /\ begun' = begun \cup {s}
                /\ off' = [at |-> "upload", todo |-> off.todo \ {s}, seg |-> s, tries |-> 0]
           ELSE off' = [off EXCEPT !.todo = @ \ {s}] /\ UNCHANGED <<fj, begun>>
    /\ UNCHANGED <<file, s3, faults, home, raced, forgotten>> /\ OffUnchanged

\* Mutant: the last part of a multipart upload is left out.
UploadAllButLast ==
    /\ off.at = "upload"
    /\ HasFile(off.seg)
    /\ s3' = [s3 EXCEPT ![off.seg] = {e \in file[off.seg] : \E x \in file[off.seg] : e < x}]
    /\ off' = [off EXCEPT !.at = "head"]
    /\ UNCHANGED <<file, fj, faults, historyVars>> /\ OffUnchanged

\* do_upload: the whole file, in one put or in parts that appear at completion.
do_upload ==
    /\ off.at = "upload"
    /\ HasFile(off.seg)
    /\ s3' = [s3 EXCEPT ![off.seg] = file[off.seg]]
    /\ off' = [off EXCEPT !.at = "head"]
    /\ UNCHANGED <<file, fj, faults, historyVars>> /\ OffUnchanged

\* cas_status(Offloading, Local) after an error; both other writers of the
\* segment would leave it Local too.
RollBack ==
    /\ fj' = IF fj.status[off.seg] = "Offloading"
               THEN [fj EXCEPT !.status[off.seg] = "Local"] ELSE fj
    /\ off' = [off EXCEPT !.at = "next"]

\* Mutant: an attempt that failed is taken for an upload, and not verified.
UploadIgnored(took) ==
    /\ off.at = "upload"
    /\ \/ ~HasFile(off.seg) /\ ~took /\ UNCHANGED faults
       \/ HasFile(off.seg) /\ faults < MaxFaults /\ faults' = faults + 1
    /\ off' = [off EXCEPT !.at = "s3"]
    /\ UNCHANGED <<file, s3, fj, historyVars>> /\ OffUnchanged

\* An attempt of upload_with_retry fails, because there is no file or because
\* S3 fails; then the object may be there all the same.
UploadFails(took) ==
    /\ off.at = "upload"
    /\ \/ ~HasFile(off.seg) /\ ~took /\ UNCHANGED faults
       \/ HasFile(off.seg) /\ faults < MaxFaults /\ faults' = faults + 1
    /\ s3' = IF took THEN [s3 EXCEPT ![off.seg] = file[off.seg]] ELSE s3
    /\ IF off.tries < MaxRetries
         THEN off' = [off EXCEPT !.tries = @ + 1] /\ UNCHANGED fj
         ELSE RollBack
    /\ UNCHANGED <<file, historyVars>> /\ OffUnchanged

head_object ==
    /\ off.at = "head"
    /\ \/ s3[off.seg] # NoFile /\ off' = [off EXCEPT !.at = "s3"] /\ UNCHANGED <<fj, faults>>
       \/ faults < MaxFaults /\ faults' = faults + 1 /\ RollBack
    /\ UNCHANGED <<file, s3, historyVars>> /\ OffUnchanged

\* cas_to_s3(Offloading).  An answer of false is taken for success.
cas_to_s3 ==
    /\ off.at = "s3"
    /\ IF fj.status[off.seg] = "Offloading" THEN Upsert(off.seg, "S3") ELSE UNCHANGED fj
    /\ off' = [off EXCEPT !.at = "remove"]
    /\ UNCHANGED <<file, s3, faults, historyVars>> /\ OffUnchanged

\* remove_file; a failure is logged.
OffRemove ==
    /\ off.at = "remove"
    /\ \/ file' = [file EXCEPT ![off.seg] = NoFile] /\ UNCHANGED faults
       \/ faults < MaxFaults /\ faults' = faults + 1 /\ UNCHANGED file
    /\ off' = [off EXCEPT !.at = "next"]
    /\ UNCHANGED <<s3, fj, historyVars>> /\ OffUnchanged

----------------------------------------------------------------------------
(* read_entry: the cache of JournalService, then TieredReader *)

ReadUnchanged == UNCHANGED <<storeVars, hot, warm, flush, off, boundVars, historyVars>>

ReadMisses(e) ==
    /\ flush.at # "off" /\ read.at = "idle"
    /\ e \notin hot \cup warm
    /\ read' = [NoRead EXCEPT !.at = "index", !.e = e]
    /\ UNCHANGED cached /\ ReadUnchanged

\* The location and the record of its segment.  Within a process a location
\* does not change: looking both up at once loses nothing.
ReadLookUp ==
    /\ read.at = "index"
    /\ LET s == fj.seg[read.e]
           st == IF s = NoSegment THEN "None" ELSE fj.status[s] IN
       read' = CASE st = "None" -> NoRead          \* EntryNotFound, not in registry
                 [] st = "S3" -> [read EXCEPT !.at = "object", !.seg = s, !.status = st]
                 [] OTHER -> [read EXCEPT !.at = "block", !.seg = s, !.status = st]
    /\ UNCHANGED cached /\ ReadUnchanged

\* decode_record at the location of the entry.
Decoded(records) == read' = IF read.e \in records THEN NoRead ELSE [read EXCEPT !.at = "bad"]

\* Mutant: the blocks of an Active segment are cached too.
BlockAlwaysCached ==
    /\ read.at = "block"
    /\ IF cached[read.seg] # NoFile THEN Decoded(cached[read.seg]) /\ UNCHANGED cached
       ELSE IF HasFile(read.seg) THEN /\ Decoded(file[read.seg])
                                      /\ cached' = [cached EXCEPT ![read.seg] = file[read.seg]]
       ELSE read' = NoRead /\ UNCHANGED cached
    /\ ReadUnchanged

\* get_entry_block: only the blocks of a sealed segment go through the cache.
get_entry_block ==
    /\ read.at = "block"
    /\ LET cacheable == read.status # "Active" IN
       IF cacheable /\ cached[read.seg] # NoFile
         THEN Decoded(cached[read.seg]) /\ UNCHANGED cached
       ELSE IF HasFile(read.seg)
         THEN /\ Decoded(file[read.seg])
              /\ cached' = IF cacheable THEN [cached EXCEPT ![read.seg] = file[read.seg]] ELSE cached
       ELSE read' = NoRead /\ UNCHANGED cached               \* the file is gone
    /\ ReadUnchanged

read_s3_record ==
    /\ read.at = "object"
    /\ IF s3[read.seg] = NoFile THEN read' = NoRead ELSE Decoded(s3[read.seg])
    /\ UNCHANGED cached /\ ReadUnchanged

----------------------------------------------------------------------------
(* The environment *)

\* add_entry puts the next entry into the hot cache.
AddEntry ==
    /\ flush.at # "off" /\ added < NumEntries
    /\ added' = added + 1
    /\ hot' = hot \cup {added + 1}
    /\ UNCHANGED <<storeVars, warm, cached, flush, off, read, crashes, faults, historyVars>>

FjallSync ==
    /\ durable # fj /\ crashes < MaxCrashes
    /\ durable' = fj
    /\ UNCHANGED <<file, s3, fj, cacheVars, flush, off, read, boundVars, historyVars>>

Crash ==
    /\ flush.at # "off" /\ crashes < MaxCrashes
    /\ crashes' = crashes + 1
    /\ fj' = durable
    /\ forgotten' = forgotten \cup
          {s \in SegmentIds : /\ ~HasFile(s)
                              /\ fj.status[s] # durable.status[s]
                              /\ fj.status[s] = "S3" \/ durable.status[s] = "None"}
    /\ hot' = {} /\ warm' = {} /\ cached' = [s \in SegmentIds |-> NoFile]
    /\ flush' = NoFlush /\ off' = NoOffload /\ read' = NoRead
    /\ begun' = {}
    /\ UNCHANGED <<file, s3, durable, added, faults, home, raced>>

StartUp == SealOrphan \/ ListStuck \/ ResetGet \/ ResetPut \/ FlushOpen
FlushLoop == drain_hot_to_warm \/ FlushIndex \/ evict_warm
Offload == \/ OffWake \/ OffEnds \/ OffDone \/ OffBegin
           \/ do_upload \/ (\E took \in BOOLEAN : UploadFails(took))
           \/ head_object \/ cas_to_s3 \/ OffRemove
Read == \/ \E e \in Entries : ReadMisses(e)
        \/ ReadLookUp \/ get_entry_block \/ read_s3_record

Next ==
    \/ boot \/ StartUp \/ FlushLoop \/ FlushFails
    \/ Offload
    \/ Read
    \/ AddEntry \/ FjallSync \/ Crash

\* The flush thread and the offloader are scheduled.
Fairness == WF_vars(StartUp) /\ WF_vars(Offload)

Spec == Init /\ [][Next]_vars /\ Fairness

----------------------------------------------------------------------------
(* Properties *)

Contents == {NoFile} \cup SUBSET Entries

\* Types; and the flush thread writes only to a segment that is registered
\* Active and whose file is there.
TypeOK ==
    /\ file \in [SegmentIds -> Contents] /\ s3 \in [SegmentIds -> Contents]
    /\ cached \in [SegmentIds -> Contents]
    /\ fj \in Fjall /\ durable \in Fjall
    /\ hot \subseteq Entries /\ warm \subseteq Entries
    /\ flush \in FlushState /\ off \in OffloadState /\ read \in ReadState
    /\ added \in 0..NumEntries /\ crashes \in Nat /\ faults \in Nat
    /\ begun \subseteq SegmentIds /\ raced \subseteq SegmentIds /\ forgotten \subseteq SegmentIds
    /\ home \in [Entries -> SegmentIds \cup {NoSegment}]
    /\ flush.at \in {"tick", "index"} =>
         fj.status[flush.seg] = "Active" /\ HasFile(flush.seg)

\* A local file disappears only once the object of its segment holds every
\* record of it, whatever S3 calls failed, were retried or took effect without
\* an answer, and whoever else wrote the registry (process_pending).
RemovedOnlyUploaded ==
    [][\A s \in SegmentIds : HasFile(s) /\ file'[s] = NoFile => s3[s] = file[s]]_vars

Flushed == {e \in Entries : home[e] # NoSegment}

\* The bytes of a flushed entry are in the file or in the object of its segment
\* for ever, unless a crash undid the S3 status of a segment without a file:
\* then next_entry_seg_id may give the id, and the object, to a new segment.
BytesSurvive ==
    \A e \in Flushed : \/ e \in file[home[e]] \/ e \in s3[home[e]]
                       \/ home[e] \in forgotten

\* A flushed entry is where the index and the registry say it is: in the file of
\* a segment that is not S3, in the object of one that is.  There are two ways
\* out, both leaving a Local segment without a file: a crash before Fjall synced
\* the S3 status, and the flush thread's start-up reset of a segment whose upload
\* the offloader of the same process had begun.
FlushedReachable ==
    flush.at # "off" =>
        \A e \in Flushed :
            LET s == home[e] IN
            \/ e \in warm \/ s \in forgotten \/ s \in raced
            \/ /\ fj.seg[e] = s
               /\ IF fj.status[s] = "S3" THEN e \in s3[s] ELSE e \in file[s]

\* A read that gets hold of a block or an object finds its record in it: a block
\* is cached only when its segment can no longer grow, and no object or file is
\* exchanged for another under a reader.
ReadsWholeRecords == read.at # "bad"

\* A sealed segment is uploaded in the end, also when a crash interrupted the
\* upload: the start-up reset puts it back on the offloader's list.
SealedUploaded ==
    \A s \in SegmentIds :
        (flush.at # "off" /\ fj.status[s] \in {"Local", "Offloading"} /\ HasFile(s))
            ~> (s3[s] # NoFile \/ flush.at \in {"off", "dead"})
=============================================================================
