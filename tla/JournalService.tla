--------------------------- MODULE JournalService ---------------------------
(***************************************************************************)
(* One ledger on one storage node: concurrent add_entry, read_entry and    *)
(* fence_ledger calls, the flush loop that moves entries from the cache    *)
(* and wal_index to entry_index under them, and restarts of the node.      *)
(*                                                                         *)
(* Segments, files and their recovery are the subject of StorageEngine:    *)
(* here a restart finds every record of the WAL and of the EntrySegments.  *)
(* No client supplies a master key, so the durable state of the ledger is  *)
(* absent, open or fenced.                                                 *)
(***************************************************************************)
EXTENDS Integers, FiniteSets

CONSTANTS MaxEntry,    \* bound: largest entry id
          Adds,        \* concurrent add_entry calls
          Fences,      \* concurrent fence_ledger calls
          Reads,       \* concurrent read_entry calls
          MaxCrashes   \* bound: crashes

ASSUME ServiceConstants == MaxEntry \in Nat /\ MaxCrashes \in Nat

Entries == 0..MaxEntry
LedgerState == {"absent", "open", "fenced"}

VARIABLES
    \* Durable.
    wal,         \* entries with a WAL record
    file,        \* entries in synced EntrySegments
    entryIndex, walIndex,
    ledger,      \* the ledgers partition, as read
    survives,    \* the values of it a crash may leave
    \* Memory.
    fenced,      \* the ledger is in `fences`
    known,       \* it is in known_ledgers
    hiEntry,     \* hi_entry, 0 when absent
    hot, warm,
    flush,       \* flush_loop: where it is, the batch, the entry at hand
    add, fence, read,   \* the calls
    \* History and bounds.
    acked,       \* entries add_entry returned Ok for
    session,     \* those it wrote and acknowledged since the node started
    allowed,     \* entries stored or past the fence check when the fence was set
    fenceReturned,
    crashes

storeVars == <<wal, file, entryIndex, walIndex>>
ledgerVars == <<ledger, survives>>
memoryVars == <<fenced, known, hiEntry>>
cacheVars == <<hot, warm>>
historyVars == <<acked, session, allowed, fenceReturned, crashes>>
vars == <<storeVars, ledgerVars, memoryVars, cacheVars, flush, add, fence, read, historyVars>>

Largest(S) == CHOOSE x \in S : \A y \in S : y <= x

AddCall == [at: {"idle", "ensure", "create", "dup", "append", "highest", "cache"}, entry: Entries]
FenceCall == [at: {"idle", "persist", "set", "memory", "entries", "wal", "returned"},
              hi: Entries, due: Entries]
ReadCall == [at: {"idle", "entries", "wal", "missed"}, entry: Entries, due: BOOLEAN]
FlushState == [at: {"wait", "write", "index", "delete"}, batch: SUBSET Entries, entry: Entries]

NoAdd == [at |-> "idle", entry |-> 0]
NoFence == [at |-> "idle", hi |-> 0, due |-> 0]
NoRead == [at |-> "idle", entry |-> 0, due |-> FALSE]
NoFlush == [at |-> "wait", batch |-> {}, entry |-> 0]

Init ==
    /\ wal = {} /\ file = {} /\ entryIndex = {} /\ walIndex = {}
    /\ ledger = "absent" /\ survives = {"absent"}
    /\ fenced = FALSE /\ known = FALSE /\ hiEntry = 0
    /\ hot = {} /\ warm = {}
    /\ flush = NoFlush
    /\ add = [a \in Adds |-> NoAdd]
    /\ fence = [f \in Fences |-> NoFence]
    /\ read = [r \in Reads |-> NoRead]
    /\ acked = {} /\ session = {} /\ allowed = {}
    /\ fenceReturned = FALSE
    /\ crashes = 0

----------------------------------------------------------------------------
(* add_entry *)

Goto(a, step) == add' = [add EXCEPT ![a].at = step]
AddReturns(a) == add' = [add EXCEPT ![a] = NoAdd]

\* Mutant: no fence check for a ledger in known_ledgers.
AddUnchecked(a, e) ==
    /\ add[a].at = "idle"
    /\ known \/ ~fenced
    /\ add' = [add EXCEPT ![a] = [at |-> IF known THEN "dup" ELSE "ensure", entry |-> e]]
    /\ UNCHANGED <<storeVars, ledgerVars, memoryVars, cacheVars, flush, fence, read, historyVars>>

\* The fence check, and the look at known_ledgers.  A fenced ledger's call
\* returns LedgerFenced at once.
add_entry(a, e) ==
    /\ add[a].at = "idle"
    /\ ~fenced
    /\ add' = [add EXCEPT ![a] = [at |-> IF known THEN "dup" ELSE "ensure", entry |-> e]]
    /\ UNCHANGED <<storeVars, ledgerVars, memoryVars, cacheVars, flush, fence, read, historyVars>>

\* ensure_ledger_known: the read.
EnsureRead(a) ==
    /\ add[a].at = "ensure"
    /\ \/ ledger = "absent" /\ Goto(a, "create") /\ UNCHANGED known
       \/ ledger # "absent" /\ Goto(a, "dup") /\ known' = TRUE
    /\ UNCHANGED <<storeVars, ledgerVars, fenced, hiEntry, cacheVars, flush, fence, read, historyVars>>

\* ensure_ledger_known: the write of the state of a ledger not seen before.
EnsureWrite(a) ==
    /\ add[a].at = "create"
    /\ ledger' = "open"
    /\ survives' = survives \cup {"open"}
    /\ known' = TRUE
    /\ Goto(a, "dup")
    /\ UNCHANGED <<storeVars, fenced, hiEntry, cacheVars, flush, fence, read, historyVars>>

\* The duplicate check.  Its three reads are one step: an entry leaves the
\* cache only after it is in entry_index, the store looked at next.
DuplicateCheck(a) ==
    LET e == add[a].entry IN
    /\ add[a].at = "dup"
    /\ \/ /\ e \in hot \cup warm \cup entryIndex \cup walIndex
          /\ AddReturns(a)
          /\ acked' = acked \cup {e}
       \/ /\ e \notin hot \cup warm \cup entryIndex \cup walIndex
          /\ Goto(a, "append")
          /\ UNCHANGED acked
    /\ UNCHANGED <<storeVars, ledgerVars, memoryVars, cacheVars, flush, fence, read,
                   session, allowed, fenceReturned, crashes>>

\* journal.append has returned Ok.
WalWritten(a) ==
    /\ add[a].at = "append"
    /\ wal' = wal \cup {add[a].entry}
    /\ Goto(a, "highest")
    /\ UNCHANGED <<file, entryIndex, walIndex, ledgerVars, memoryVars, cacheVars, flush, fence, read,
                   historyVars>>

\* journal.append failed, with the record in the file or not.
WalFailed(a, recorded) ==
    /\ add[a].at = "append"
    /\ wal' = IF recorded THEN wal \cup {add[a].entry} ELSE wal
    /\ AddReturns(a)
    /\ UNCHANGED <<file, entryIndex, walIndex, ledgerVars, memoryVars, cacheVars, flush, fence, read,
                   historyVars>>

\* Mutant: hi_entry is the entry written last.
NoteLast(a) ==
    /\ add[a].at = "highest"
    /\ hiEntry' = add[a].entry
    /\ Goto(a, "cache")
    /\ UNCHANGED <<storeVars, ledgerVars, fenced, known, cacheVars, flush, fence, read, historyVars>>

\* hi_entry.
NoteHighest(a) ==
    /\ add[a].at = "highest"
    /\ hiEntry' = Largest({hiEntry, add[a].entry})
    /\ Goto(a, "cache")
    /\ UNCHANGED <<storeVars, ledgerVars, fenced, known, cacheVars, flush, fence, read, historyVars>>

\* EntrySegmentCache::insert, and Ok.
CacheInsert(a) ==
    /\ add[a].at = "cache"
    /\ hot' = IF add[a].entry \in warm THEN hot ELSE hot \cup {add[a].entry}
    /\ AddReturns(a)
    /\ acked' = acked \cup {add[a].entry}
    /\ session' = session \cup {add[a].entry}
    /\ UNCHANGED <<storeVars, ledgerVars, memoryVars, warm, flush, fence, read,
                   allowed, fenceReturned, crashes>>

----------------------------------------------------------------------------
(* fence_ledger *)

FenceGoto(f, step) == fence' = [fence EXCEPT ![f].at = step]

\* FjallIndex::fence_ledger.
fence_ledger(f) ==
    /\ fence[f].at \in {"idle", "returned"}
    /\ ledger' = "fenced"
    /\ survives' = survives \cup {"fenced"}
    /\ fence' = [fence EXCEPT ![f] = [NoFence EXCEPT !.at = "persist"]]
    /\ UNCHANGED <<storeVars, memoryVars, cacheVars, flush, add, read, historyVars>>

FencePersist(f) ==
    /\ fence[f].at = "persist"
    /\ survives' = {ledger}
    /\ FenceGoto(f, "set")
    /\ UNCHANGED <<storeVars, ledger, memoryVars, cacheVars, flush, add, read, historyVars>>

\* fences.insert.
FenceSet(f) ==
    /\ fence[f].at = "set"
    /\ fenced' = TRUE
    /\ fence' = [fence EXCEPT ![f] = [at |-> "memory", hi |-> 0, due |-> Largest(session \cup {0})]]
    /\ allowed' = IF fenced THEN allowed
                  ELSE wal \cup {add[a].entry : a \in {b \in Adds : add[b].at # "idle"}}
    /\ UNCHANGED <<storeVars, ledgerVars, known, hiEntry, cacheVars, flush, add, read,
                   acked, session, fenceReturned, crashes>>

\* mem_hi.
FenceMemory(f) ==
    /\ fence[f].at = "memory"
    /\ fence' = [fence EXCEPT ![f] = [fence[f] EXCEPT !.at = "entries", !.hi = hiEntry]]
    /\ UNCHANGED <<storeVars, ledgerVars, memoryVars, cacheVars, flush, add, read, historyVars>>

\* entry_index.get_next_entry_id, less one.
FenceEntryIndex(f) ==
    /\ fence[f].at = "entries"
    /\ fence' = [fence EXCEPT ![f] = [fence[f] EXCEPT !.at = "wal", !.hi = Largest({fence[f].hi} \cup entryIndex)]]
    /\ UNCHANGED <<storeVars, ledgerVars, memoryVars, cacheVars, flush, add, read, historyVars>>

\* wal_index.get_next_entry_id, less one; the call returns.
FenceWalIndex(f) ==
    /\ fence[f].at = "wal"
    /\ fence' = [fence EXCEPT ![f] = [fence[f] EXCEPT !.at = "returned", !.hi = Largest({fence[f].hi} \cup walIndex)]]
    /\ fenceReturned' = TRUE
    /\ UNCHANGED <<storeVars, ledgerVars, memoryVars, cacheVars, flush, add, read,
                   acked, session, allowed, crashes>>

----------------------------------------------------------------------------
(* read_entry *)

\* A read that finds the entry is over.
ReadGoto(r, found, step) ==
    read' = [read EXCEPT ![r] = IF found THEN NoRead ELSE [read[r] EXCEPT !.at = step]]

\* L0: the cache.  `due`: the entry has been acknowledged.
read_entry(r, e) ==
    /\ read[r].at \in {"idle", "missed"}
    /\ read' = [read EXCEPT ![r] = IF e \in hot \cup warm THEN NoRead
                                   ELSE [at |-> "entries", entry |-> e, due |-> e \in acked]]
    /\ UNCHANGED <<storeVars, ledgerVars, memoryVars, cacheVars, flush, add, fence, historyVars>>

\* L1: entry_index.
ReadEntryIndex(r) ==
    /\ read[r].at = "entries"
    /\ ReadGoto(r, read[r].entry \in entryIndex, "wal")
    /\ UNCHANGED <<storeVars, ledgerVars, memoryVars, cacheVars, flush, add, fence, historyVars>>

\* L2: wal_index.
ReadWalIndex(r) ==
    /\ read[r].at = "wal"
    /\ ReadGoto(r, read[r].entry \in walIndex, "missed")
    /\ UNCHANGED <<storeVars, ledgerVars, memoryVars, cacheVars, flush, add, fence, historyVars>>

----------------------------------------------------------------------------
(* flush_loop *)

\* Mutant: the batch is indexed before it is written.
DrainUnwritten ==
    /\ flush.at = "wait"
    /\ hot # {}
    /\ hot' = {}
    /\ warm' = warm \cup hot
    /\ flush' = [flush EXCEPT !.at = "index", !.batch = hot]
    /\ UNCHANGED <<storeVars, ledgerVars, memoryVars, add, fence, read, historyVars>>

drain_hot_to_warm ==
    /\ flush.at = "wait"
    /\ hot # {}
    /\ hot' = {}
    /\ warm' = warm \cup hot
    /\ flush' = [flush EXCEPT !.at = "write", !.batch = hot]
    /\ UNCHANGED <<storeVars, ledgerVars, memoryVars, add, fence, read, historyVars>>

\* write_batch and sync.
FlushSynced ==
    /\ flush.at = "write"
    /\ file' = file \cup flush.batch
    /\ flush' = [flush EXCEPT !.at = "index"]
    /\ UNCHANGED <<wal, entryIndex, walIndex, ledgerVars, memoryVars, cacheVars, add, fence, read,
                   historyVars>>

\* entry_index.insert_location.
FlushInsert(e) ==
    /\ flush.at = "index"
    /\ e \in flush.batch
    /\ entryIndex' = entryIndex \cup {e}
    /\ flush' = [at |-> "delete", batch |-> flush.batch \ {e}, entry |-> e]
    /\ UNCHANGED <<wal, file, walIndex, ledgerVars, memoryVars, cacheVars, add, fence, read, historyVars>>

\* wal_index.delete_location.
FlushDelete ==
    /\ flush.at = "delete"
    /\ walIndex' = walIndex \ {flush.entry}
    /\ flush' = [at |-> "index", batch |-> flush.batch, entry |-> 0]
    /\ UNCHANGED <<wal, file, entryIndex, ledgerVars, memoryVars, cacheVars, add, fence, read, historyVars>>

\* Mutant: warm is evicted before the batch is indexed.
EvictEarly(full) ==
    /\ flush.at = "index"
    /\ warm' = IF full THEN {} ELSE warm
    /\ flush' = IF flush.batch = {} THEN NoFlush ELSE flush
    /\ UNCHANGED <<storeVars, ledgerVars, memoryVars, hot, add, fence, read, historyVars>>

\* The round ends; evict_warm when the segment is full.
FlushEnd(full) ==
    /\ flush.at = "index"
    /\ flush.batch = {}
    /\ warm' = IF full THEN {} ELSE warm
    /\ flush' = NoFlush
    /\ UNCHANGED <<storeVars, ledgerVars, memoryVars, hot, add, fence, read, historyVars>>

----------------------------------------------------------------------------
(* Restart: crash recovery and new_lsmc *)

\* left: the ledger state that survived.  The WAL records not yet in an
\* EntrySegment are in wal_index and in the cache again.
Restart(left) ==
    /\ crashes < MaxCrashes
    /\ crashes' = crashes + 1
    /\ entryIndex' = file
    /\ walIndex' = wal \ file
    /\ hot' = wal \ file
    /\ warm' = {}
    /\ ledger' = left
    /\ survives' = {left}
    /\ fenced' = (left = "fenced")
    /\ known' = (left # "absent")
    /\ hiEntry' = 0
    /\ flush' = NoFlush
    /\ add' = [a \in Adds |-> NoAdd]
    /\ fence' = [f \in Fences |-> NoFence]
    /\ read' = [r \in Reads |-> NoRead]
    /\ session' = {}
    /\ allowed' = IF left = "fenced" THEN wal ELSE {}
    /\ UNCHANGED <<wal, file, acked, fenceReturned>>

----------------------------------------------------------------------------
Add(a) ==
    \/ \E e \in Entries : add_entry(a, e)
    \/ EnsureRead(a) \/ EnsureWrite(a) \/ DuplicateCheck(a)
    \/ WalWritten(a) \/ \E recorded \in BOOLEAN : WalFailed(a, recorded)
    \/ NoteHighest(a) \/ CacheInsert(a)

Fence(f) ==
    \/ fence_ledger(f) \/ FencePersist(f) \/ FenceSet(f)
    \/ FenceMemory(f) \/ FenceEntryIndex(f) \/ FenceWalIndex(f)

Read(r) ==
    \/ \E e \in Entries : read_entry(r, e)
    \/ ReadEntryIndex(r) \/ ReadWalIndex(r)

Flush ==
    \/ drain_hot_to_warm \/ FlushSynced \/ FlushDelete
    \/ \E e \in flush.batch : FlushInsert(e)
    \/ \E full \in BOOLEAN : FlushEnd(full)

Next ==
    \/ \E a \in Adds : Add(a)
    \/ \E f \in Fences : Fence(f)
    \/ \E r \in Reads : Read(r)
    \/ Flush
    \/ \E left \in survives : Restart(left)

Spec == Init /\ [][Next]_vars

----------------------------------------------------------------------------
(* Properties *)

\* Types.  An entry is indexed in entry_index only after its EntrySegment is
\* synced, and in wal_index only if the WAL has it.
TypeOK ==
    /\ wal \subseteq Entries /\ file \subseteq wal
    /\ entryIndex \subseteq file /\ walIndex \subseteq wal
    /\ ledger \in survives /\ survives \subseteq LedgerState
    /\ fenced \in BOOLEAN /\ known \in BOOLEAN /\ fenceReturned \in BOOLEAN
    /\ hiEntry \in Entries
    /\ hot \subseteq wal /\ warm \subseteq wal
    /\ flush \in FlushState
    /\ add \in [Adds -> AddCall] /\ fence \in [Fences -> FenceCall] /\ read \in [Reads -> ReadCall]
    /\ acked \subseteq wal /\ session \subseteq acked /\ allowed \subseteq Entries
    /\ crashes \in 0..MaxCrashes

\* A read that begins after the entry was acknowledged finds it, however the
\* flush loop moves the entry between the three looks of the read.
ReadNeverMisses == \A r \in Reads : read[r].at = "missed" => ~read[r].due

\* What fence_ledger reports covers every entry the node had written and
\* acknowledged since it started, when the fence was set.
FenceReportsSession ==
    \A f \in Fences : fence[f].at = "returned" => fence[f].due <= fence[f].hi

\* While the ledger is fenced the WAL gains only entries whose handlers had
\* passed the fence check when the fence was set.
FencedStoresOnlyInFlight == fenced => wal \subseteq allowed

\* Once fence_ledger has returned, no later process lets writes through.
FenceSurvives == fenceReturned => fenced
=============================================================================
