------------------------ MODULE JournalService_proof ------------------------
(***************************************************************************)
(* JournalService for any entries, any number of concurrent calls and any  *)
(* number of restarts: types, reads that miss nothing, what fence_ledger   *)
(* reports, and what a fenced ledger still takes.                          *)
(***************************************************************************)
EXTENDS JournalService, WellFoundedInduction, TLAPS

\* A set of naturals that is not empty has a least element.
LEMMA LeastNat ==
    ASSUME NEW S \in SUBSET Nat, S # {}
    PROVE  \E x \in S : \A y \in S : x <= y
  <1> DEFINE R == OpToRel(<, Nat)
  <1>1. \A x, y \in Nat : <<y, x>> \in R <=> y < x
    BY DEF OpToRel
  <1>2. IsWellFoundedOn(R, Nat)
    BY NatLessThanWellFounded, Zenon
  <1> HIDE DEF R
  <1>3. PICK x \in S : \A y \in S : ~(<<y, x>> \in R)
    BY <1>2, WFMin, Zenon
  <1>4. \A y \in S : ~(y < x)
    BY <1>1, <1>3, Zenon
  <1> QED
    BY <1>4

\* One that is bounded too has a greatest.
LEMMA GreatestNat ==
    ASSUME NEW S \in SUBSET Nat, S # {}, NEW k \in Nat, \A x \in S : x <= k
    PROVE  \E x \in S : \A y \in S : y <= x
  <1> DEFINE T == {k - x : x \in S}
  <1>1. T \in SUBSET Nat
    OBVIOUS
  <1>2. T # {}
    BY Zenon
  <1>3. PICK t \in T : \A u \in T : t <= u
    BY <1>1, <1>2, LeastNat, Zenon
  <1>4. PICK x \in S : t = k - x
    OBVIOUS
  <1>5. \A y \in S : k - x <= k - y
    BY <1>3, <1>4, Zenon
  <1> QED
    BY <1>5

\* Largest picks an upper bound that belongs to the set.
LEMMA LargestSpec ==
    ASSUME NEW S \in SUBSET Entries, S # {}
    PROVE  Largest(S) \in S /\ \A y \in S : y <= Largest(S)
  <1>1. S \in SUBSET Nat /\ \A x \in S : x <= MaxEntry
    BY ServiceConstants DEF Entries
  <1>2. \E x \in S : \A y \in S : y <= x
    BY <1>1, GreatestNat, ServiceConstants, Zenon
  <1> QED
    BY <1>2 DEF Largest

LEMMA ZeroIsEntry == 0 \in Entries /\ Entries \subseteq Nat
  BY ServiceConstants DEF Entries

LEMMA AtMost ==
    ASSUME NEW x \in Entries, NEW y \in Entries, NEW z \in Entries, x <= y, y <= z
    PROVE  x <= z
  BY ZeroIsEntry

----------------------------------------------------------------------------
(* The inductive invariant *)

\* An add_entry past the WAL write has its entry in the WAL, one past hi_entry is
\* counted there, and on a fenced ledger it was under way when the fence was set.
AddInv ==
    \A a \in Adds :
        /\ add[a].at \in {"highest", "cache"} => add[a].entry \in wal
        /\ add[a].at = "cache" => add[a].entry <= hiEntry
        /\ fenced /\ add[a].at # "idle" => add[a].entry \in allowed

\* What the flush loop holds is in warm and, once synced, in the file; the rest of
\* warm is indexed.  wal_index has only entries that wait for the loop.
FlushInv ==
    /\ flush.at = "wait" => flush.batch = {}
    /\ flush.batch \subseteq warm
    /\ flush.at \in {"index", "delete"} => flush.batch \subseteq file
    /\ flush.at = "delete" => flush.entry \in entryIndex
    /\ warm \ flush.batch \subseteq entryIndex
    /\ \A e \in walIndex : e \in hot \cup flush.batch \/ (flush.at = "delete" /\ e = flush.entry)

\* An acknowledged entry is in the cache or indexed, and one that a read did not
\* find in the cache is indexed.
ReadInv ==
    /\ acked \subseteq hot \cup warm \cup entryIndex
    /\ \A r \in Reads : read[r].due => /\ read[r].at \notin {"wal", "missed"}
                                       /\ read[r].at = "entries" => read[r].entry \in entryIndex

\* hi_entry covers what this process acknowledged, and what a fence_ledger call
\* has seen covers what was acknowledged when it set the fence.
FenceInv ==
    /\ \A e \in session : e <= hiEntry
    /\ \A f \in Fences :
          /\ fence[f].at = "memory" => fence[f].due <= hiEntry
          /\ fence[f].at \in {"entries", "wal", "returned"} => fence[f].due <= fence[f].hi

IInv == TypeOK /\ AddInv /\ FlushInv /\ ReadInv /\ FenceInv /\ FencedStoresOnlyInFlight

LEMMA InitialTypes ==
    /\ NoAdd \in AddCall /\ NoFence \in FenceCall /\ NoRead \in ReadCall /\ NoFlush \in FlushState
  BY ZeroIsEntry DEF NoAdd, NoFence, NoRead, NoFlush, AddCall, FenceCall, ReadCall, FlushState

LEMMA Initial == Init => IInv
  <1> SUFFICES ASSUME Init PROVE IInv
    OBVIOUS
  <1>1. TypeOK
    <2>1. fenced \in BOOLEAN /\ known \in BOOLEAN /\ fenceReturned \in BOOLEAN
      BY Zenon DEF Init
    <2> QED
      BY <2>1, InitialTypes, ZeroIsEntry, ServiceConstants DEF Init, TypeOK, LedgerState
  <1>2. AddInv /\ FlushInv /\ FenceInv
    BY DEF Init, AddInv, FlushInv, FenceInv, NoAdd, NoFence, NoFlush
  <1>3. ReadInv /\ FencedStoresOnlyInFlight
    BY DEF Init, ReadInv, FencedStoresOnlyInFlight, NoRead
  <1> QED
    BY <1>1, <1>2, <1>3 DEF IInv

----------------------------------------------------------------------------
(* add_entry *)

\* Each step of add_entry preserves the invariant.
LEMMA AddEntryStep ==
    ASSUME IInv, NEW a \in Adds, NEW e \in Entries, add_entry(a, e)
    PROVE  IInv'
  <1>1. TypeOK'
    BY DEF add_entry, IInv, TypeOK, AddCall, storeVars, ledgerVars, memoryVars, cacheVars, historyVars
  <1>2. AddInv'
    BY DEF add_entry, IInv, TypeOK, AddCall, AddInv, storeVars, memoryVars
  <1> QED
    BY <1>1, <1>2 DEF add_entry, IInv, FlushInv, ReadInv, FenceInv, FencedStoresOnlyInFlight,
                      storeVars, memoryVars, cacheVars, historyVars

LEMMA EnsureReadStep ==
    ASSUME IInv, NEW a \in Adds, EnsureRead(a)
    PROVE  IInv'
  <1>1. known' \in BOOLEAN
    BY Zenon DEF EnsureRead, IInv, TypeOK
  <1>2. TypeOK'
    BY <1>1 DEF EnsureRead, Goto, IInv, TypeOK, AddCall, storeVars, ledgerVars, cacheVars, historyVars
  <1>3. AddInv'
    BY DEF EnsureRead, Goto, IInv, TypeOK, AddCall, AddInv, storeVars, historyVars
  <1> QED
    BY <1>2, <1>3 DEF EnsureRead, IInv, FlushInv, ReadInv, FenceInv, FencedStoresOnlyInFlight,
                      storeVars, cacheVars, historyVars

LEMMA EnsureWriteStep ==
    ASSUME IInv, NEW a \in Adds, EnsureWrite(a)
    PROVE  IInv'
  <1>1. known' \in BOOLEAN
    BY DEF EnsureWrite
  <1>2. TypeOK'
    BY <1>1 DEF EnsureWrite, Goto, IInv, TypeOK, AddCall, LedgerState, storeVars, cacheVars, historyVars
  <1>3. AddInv'
    BY DEF EnsureWrite, Goto, IInv, TypeOK, AddCall, AddInv, storeVars, historyVars
  <1> QED
    BY <1>2, <1>3 DEF EnsureWrite, IInv, FlushInv, ReadInv, FenceInv, FencedStoresOnlyInFlight,
                      storeVars, cacheVars, historyVars

LEMMA DuplicateCheckStep ==
    ASSUME IInv, NEW a \in Adds, DuplicateCheck(a)
    PROVE  IInv'
  <1>1. TypeOK'
    BY InitialTypes DEF DuplicateCheck, Goto, AddReturns, IInv, TypeOK, AddCall, storeVars, ledgerVars, memoryVars, cacheVars
  <1>2. AddInv'
    BY DEF DuplicateCheck, Goto, AddReturns, NoAdd, IInv, TypeOK, AddCall, AddInv, storeVars, memoryVars
  <1>3. ReadInv'
    BY DEF DuplicateCheck, IInv, FlushInv, ReadInv, storeVars, cacheVars
  <1> QED
    BY <1>1, <1>2, <1>3 DEF DuplicateCheck, IInv, FlushInv, FenceInv, FencedStoresOnlyInFlight,
                           storeVars, memoryVars, cacheVars

LEMMA WalWrittenStep ==
    ASSUME IInv, NEW a \in Adds, WalWritten(a)
    PROVE  IInv'
  <1>1. TypeOK'
    BY DEF WalWritten, Goto, IInv, TypeOK, AddCall, ledgerVars, memoryVars, cacheVars, historyVars
  <1>2. AddInv' /\ FencedStoresOnlyInFlight'
    BY DEF WalWritten, Goto, IInv, TypeOK, AddCall, AddInv, FencedStoresOnlyInFlight, memoryVars, historyVars
  <1> QED
    BY <1>1, <1>2 DEF WalWritten, IInv, FlushInv, ReadInv, FenceInv, memoryVars, cacheVars, historyVars

LEMMA WalFailedStep ==
    ASSUME IInv, NEW a \in Adds, NEW recorded \in BOOLEAN, WalFailed(a, recorded)
    PROVE  IInv'
  <1>1. wal \subseteq wal' /\ wal' \subseteq wal \cup {add[a].entry}
    BY DEF WalFailed
  <1>2. add[a].entry \in Entries
    BY DEF IInv, TypeOK, AddCall
  <1>3. TypeOK'
    BY <1>1, <1>2, InitialTypes DEF WalFailed, AddReturns, IInv, TypeOK, ledgerVars, memoryVars, cacheVars, historyVars
  <1>4. AddInv'
    BY <1>1 DEF WalFailed, AddReturns, NoAdd, IInv, TypeOK, AddInv, memoryVars, historyVars
  <1>5. FencedStoresOnlyInFlight'
    BY <1>1 DEF WalFailed, IInv, AddInv, FencedStoresOnlyInFlight, memoryVars, historyVars
  <1> QED
    BY <1>3, <1>4, <1>5 DEF WalFailed, IInv, FlushInv, ReadInv, FenceInv, memoryVars, cacheVars, historyVars

LEMMA NoteHighestStep ==
    ASSUME IInv, NEW a \in Adds, NoteHighest(a)
    PROVE  IInv'
  <1>1. add[a].entry \in Entries /\ hiEntry \in Entries
    BY DEF IInv, TypeOK, AddCall
  <1>2. hiEntry' \in Entries /\ hiEntry <= hiEntry' /\ add[a].entry <= hiEntry'
    BY <1>1, LargestSpec DEF NoteHighest
  <1>3. TypeOK'
    BY <1>2 DEF NoteHighest, Goto, IInv, TypeOK, AddCall, storeVars, ledgerVars, cacheVars, historyVars
  <1>4. AddInv'
    BY <1>1, <1>2, ZeroIsEntry DEF NoteHighest, Goto, IInv, TypeOK, AddCall, AddInv, storeVars, historyVars
  <1>5. FenceInv'
    <2>1. \A k \in Nat : k <= hiEntry => k <= hiEntry'
      BY <1>1, <1>2, ZeroIsEntry
    <2>2. session \subseteq Nat /\ \A f \in Fences : fence[f].due \in Nat
      BY ZeroIsEntry, Zenon DEF IInv, TypeOK, FenceCall
    <2> QED
      BY <2>1, <2>2, Zenon DEF NoteHighest, IInv, FenceInv, historyVars
  <1> QED
    BY <1>3, <1>4, <1>5 DEF NoteHighest, IInv, FlushInv, ReadInv, FencedStoresOnlyInFlight,
                           storeVars, cacheVars, historyVars

LEMMA CacheInsertStep ==
    ASSUME IInv, NEW a \in Adds, CacheInsert(a)
    PROVE  IInv'
  <1>1. add[a].entry \in wal /\ add[a].entry <= hiEntry
    BY DEF CacheInsert, IInv, AddInv
  <1>2. hot \subseteq hot' /\ hot' \subseteq hot \cup {add[a].entry} /\ add[a].entry \in hot' \cup warm
    BY DEF CacheInsert
  <1>3. TypeOK'
    BY <1>1, <1>2, InitialTypes DEF CacheInsert, AddReturns, IInv, TypeOK, storeVars, ledgerVars, memoryVars
  <1>4. AddInv'
    BY DEF CacheInsert, AddReturns, NoAdd, IInv, TypeOK, AddInv, storeVars, memoryVars
  <1>5. FlushInv' /\ ReadInv'
    BY <1>2 DEF CacheInsert, IInv, FlushInv, ReadInv, storeVars
  <1>6. FenceInv'
    BY <1>1 DEF CacheInsert, IInv, FenceInv, memoryVars
  <1> QED
    BY <1>3, <1>4, <1>5, <1>6 DEF CacheInsert, IInv, FencedStoresOnlyInFlight, storeVars, memoryVars

----------------------------------------------------------------------------
(* fence_ledger *)

\* Each step of fence_ledger preserves the invariant.
LEMMA FenceLedgerStep ==
    ASSUME IInv, NEW f \in Fences, fence_ledger(f)
    PROVE  IInv'
  <1>1. [NoFence EXCEPT !.at = "persist"] \in FenceCall
    BY ZeroIsEntry DEF NoFence, FenceCall
  <1>2. TypeOK'
    BY <1>1 DEF fence_ledger, IInv, TypeOK, LedgerState, storeVars, memoryVars, cacheVars, historyVars
  <1>3. FenceInv'
    BY DEF fence_ledger, NoFence, IInv, TypeOK, FenceInv, memoryVars, historyVars
  <1> QED
    BY <1>2, <1>3 DEF fence_ledger, IInv, AddInv, FlushInv, ReadInv, FencedStoresOnlyInFlight,
                      storeVars, memoryVars, cacheVars, historyVars

LEMMA FencePersistStep ==
    ASSUME IInv, NEW f \in Fences, FencePersist(f)
    PROVE  IInv'
  <1>1. TypeOK'
    BY DEF FencePersist, FenceGoto, IInv, TypeOK, FenceCall, storeVars, memoryVars, cacheVars, historyVars
  <1>2. FenceInv'
    BY DEF FencePersist, FenceGoto, IInv, TypeOK, FenceCall, FenceInv, memoryVars, historyVars
  <1> QED
    BY <1>1, <1>2 DEF FencePersist, IInv, AddInv, FlushInv, ReadInv, FencedStoresOnlyInFlight,
                      storeVars, memoryVars, cacheVars, historyVars

LEMMA FenceSetStep ==
    ASSUME IInv, NEW f \in Fences, FenceSet(f)
    PROVE  IInv'
  <1>1. session \cup {0} \in SUBSET Entries
    BY ZeroIsEntry DEF IInv, TypeOK
  <1>2. Largest(session \cup {0}) \in session \cup {0}
    BY <1>1, LargestSpec
  <1>3. Largest(session \cup {0}) \in Entries /\ Largest(session \cup {0}) <= hiEntry
    <2>1. hiEntry \in Nat /\ \A e \in session \cup {0} : e <= hiEntry
      BY ZeroIsEntry DEF IInv, TypeOK, FenceInv
    <2> QED
      BY <1>1, <1>2, <2>1
  <1>4. allowed' \subseteq Entries /\ wal \subseteq allowed'
        /\ \A a \in Adds : add[a].at # "idle" => add[a].entry \in allowed'
    BY DEF FenceSet, IInv, TypeOK, AddCall, AddInv, FencedStoresOnlyInFlight
  <1>5. fenced' \in BOOLEAN
    BY DEF FenceSet
  <1>6. TypeOK'
    BY <1>3, <1>4, <1>5, ZeroIsEntry DEF FenceSet, IInv, TypeOK, FenceCall, storeVars, ledgerVars, cacheVars
  <1>7. AddInv' /\ FencedStoresOnlyInFlight'
    BY <1>4 DEF FenceSet, IInv, AddInv, FencedStoresOnlyInFlight, storeVars
  <1>8. FenceInv'
    BY <1>3 DEF FenceSet, IInv, TypeOK, FenceInv
  <1> QED
    BY <1>6, <1>7, <1>8 DEF FenceSet, IInv, FlushInv, ReadInv, storeVars, cacheVars

LEMMA FenceMemoryStep ==
    ASSUME IInv, NEW f \in Fences, FenceMemory(f)
    PROVE  IInv'
  <1>1. TypeOK'
    BY Zenon DEF FenceMemory, IInv, TypeOK, FenceCall, storeVars, ledgerVars, memoryVars, cacheVars, historyVars
  <1>2. FenceInv'
    BY DEF FenceMemory, IInv, TypeOK, FenceCall, FenceInv, memoryVars, historyVars
  <1> QED
    BY <1>1, <1>2 DEF FenceMemory, IInv, AddInv, FlushInv, ReadInv, FencedStoresOnlyInFlight,
                      storeVars, memoryVars, cacheVars, historyVars

LEMMA FenceEntryIndexStep ==
    ASSUME IInv, NEW f \in Fences, FenceEntryIndex(f)
    PROVE  IInv'
  <1>1. {fence[f].hi} \cup entryIndex \in SUBSET Entries /\ fence[f].hi \in Entries
    BY DEF IInv, TypeOK, FenceCall
  <1>2. fence[f].due \in Entries /\ fence[f].due <= fence[f].hi
    BY DEF FenceEntryIndex, IInv, TypeOK, FenceCall, FenceInv
  <1>3. Largest({fence[f].hi} \cup entryIndex) \in Entries
        /\ fence[f].due <= Largest({fence[f].hi} \cup entryIndex)
    <2>1. Largest({fence[f].hi} \cup entryIndex) \in Entries
          /\ fence[f].hi <= Largest({fence[f].hi} \cup entryIndex)
      BY <1>1, LargestSpec
    <2> QED
      BY <1>1, <1>2, <2>1, AtMost
  <1>4. TypeOK'
    BY <1>3, Zenon DEF FenceEntryIndex, IInv, TypeOK, FenceCall, storeVars, ledgerVars, memoryVars, cacheVars, historyVars
  <1>5. FenceInv'
    BY <1>3 DEF FenceEntryIndex, IInv, TypeOK, FenceCall, FenceInv, memoryVars, historyVars
  <1> QED
    BY <1>4, <1>5 DEF FenceEntryIndex, IInv, AddInv, FlushInv, ReadInv, FencedStoresOnlyInFlight,
                      storeVars, memoryVars, cacheVars, historyVars

LEMMA FenceWalIndexStep ==
    ASSUME IInv, NEW f \in Fences, FenceWalIndex(f)
    PROVE  IInv'
  <1>1. {fence[f].hi} \cup walIndex \in SUBSET Entries /\ fence[f].hi \in Entries
    BY DEF IInv, TypeOK, FenceCall
  <1>2. fence[f].due \in Entries /\ fence[f].due <= fence[f].hi
    BY DEF FenceWalIndex, IInv, TypeOK, FenceCall, FenceInv
  <1>3. Largest({fence[f].hi} \cup walIndex) \in Entries
        /\ fence[f].due <= Largest({fence[f].hi} \cup walIndex)
    <2>1. Largest({fence[f].hi} \cup walIndex) \in Entries
          /\ fence[f].hi <= Largest({fence[f].hi} \cup walIndex)
      BY <1>1, LargestSpec
    <2> QED
      BY <1>1, <1>2, <2>1, AtMost
  <1>4. fenceReturned' \in BOOLEAN
    BY DEF FenceWalIndex
  <1>5. TypeOK'
    BY <1>3, <1>4, Zenon DEF FenceWalIndex, IInv, TypeOK, FenceCall, storeVars, ledgerVars, memoryVars, cacheVars
  <1>6. FenceInv'
    BY <1>3 DEF FenceWalIndex, IInv, TypeOK, FenceCall, FenceInv, memoryVars
  <1> QED
    BY <1>5, <1>6 DEF FenceWalIndex, IInv, AddInv, FlushInv, ReadInv, FencedStoresOnlyInFlight,
                      storeVars, memoryVars, cacheVars

----------------------------------------------------------------------------
(* read_entry *)

\* Each step of read_entry preserves the invariant.
LEMMA ReadEntryStep ==
    ASSUME IInv, NEW r \in Reads, NEW e \in Entries, read_entry(r, e)
    PROVE  IInv'
  <1>1. TypeOK'
    BY InitialTypes DEF read_entry, IInv, TypeOK, ReadCall, storeVars, ledgerVars, memoryVars, cacheVars, historyVars
  <1>2. ReadInv'
    BY Zenon DEF read_entry, NoRead, IInv, TypeOK, ReadCall, FlushInv, ReadInv, storeVars, cacheVars, historyVars
  <1> QED
    BY <1>1, <1>2 DEF read_entry, IInv, AddInv, FlushInv, FenceInv, FencedStoresOnlyInFlight,
                      storeVars, memoryVars, cacheVars, historyVars

LEMMA ReadEntryIndexStep ==
    ASSUME IInv, NEW r \in Reads, ReadEntryIndex(r)
    PROVE  IInv'
  <1>1. TypeOK'
    BY InitialTypes DEF ReadEntryIndex, ReadGoto, IInv, TypeOK, ReadCall, storeVars, ledgerVars, memoryVars, cacheVars, historyVars
  <1>2. ReadInv'
    BY DEF ReadEntryIndex, ReadGoto, NoRead, IInv, TypeOK, ReadCall, FlushInv, ReadInv, storeVars, cacheVars, historyVars
  <1> QED
    BY <1>1, <1>2 DEF ReadEntryIndex, IInv, AddInv, FlushInv, FenceInv, FencedStoresOnlyInFlight,
                      storeVars, memoryVars, cacheVars, historyVars

LEMMA ReadWalIndexStep ==
    ASSUME IInv, NEW r \in Reads, ReadWalIndex(r)
    PROVE  IInv'
  <1>1. TypeOK'
    BY InitialTypes DEF ReadWalIndex, ReadGoto, IInv, TypeOK, ReadCall, storeVars, ledgerVars, memoryVars, cacheVars, historyVars
  <1>2. ReadInv'
    BY DEF ReadWalIndex, ReadGoto, NoRead, IInv, TypeOK, ReadCall, FlushInv, ReadInv, storeVars, cacheVars, historyVars
  <1> QED
    BY <1>1, <1>2 DEF ReadWalIndex, IInv, AddInv, FlushInv, FenceInv, FencedStoresOnlyInFlight,
                      storeVars, memoryVars, cacheVars, historyVars

----------------------------------------------------------------------------
(* flush_loop and restart *)

\* Each step of the flush loop preserves the invariant.
LEMMA DrainHotToWarmStep ==
    ASSUME IInv, drain_hot_to_warm
    PROVE  IInv'
  <1>1. TypeOK'
    BY InitialTypes, ZeroIsEntry, Zenon DEF drain_hot_to_warm, IInv, TypeOK, FlushState, FlushInv, storeVars, ledgerVars, memoryVars, historyVars
  <1>2. FlushInv' /\ ReadInv'
    BY DEF drain_hot_to_warm, IInv, TypeOK, FlushState, FlushInv, ReadInv, storeVars, ledgerVars, memoryVars, historyVars
  <1> QED
    BY <1>1, <1>2 DEF drain_hot_to_warm, IInv, AddInv, FenceInv, FencedStoresOnlyInFlight, memoryVars, historyVars, storeVars

LEMMA FlushSyncedStep ==
    ASSUME IInv, FlushSynced
    PROVE  IInv'
  <1>1. TypeOK'
    BY InitialTypes, ZeroIsEntry DEF FlushSynced, IInv, TypeOK, FlushState, FlushInv, ledgerVars, memoryVars, cacheVars, historyVars
  <1>2. FlushInv' /\ ReadInv'
    BY DEF FlushSynced, IInv, TypeOK, FlushState, FlushInv, ReadInv, ledgerVars, memoryVars, cacheVars, historyVars
  <1> QED
    BY <1>1, <1>2 DEF FlushSynced, IInv, AddInv, FenceInv, FencedStoresOnlyInFlight, memoryVars, historyVars

LEMMA FlushInsertStep ==
    ASSUME IInv, NEW e \in flush.batch, FlushInsert(e)
    PROVE  IInv'
  <1>1. TypeOK'
    BY InitialTypes, ZeroIsEntry DEF FlushInsert, IInv, TypeOK, FlushState, FlushInv, ledgerVars, memoryVars, cacheVars, historyVars
  <1>2. FlushInv' /\ ReadInv'
    BY DEF FlushInsert, IInv, TypeOK, FlushState, FlushInv, ReadInv, ledgerVars, memoryVars, cacheVars, historyVars
  <1> QED
    BY <1>1, <1>2 DEF FlushInsert, IInv, AddInv, FenceInv, FencedStoresOnlyInFlight, memoryVars, historyVars

LEMMA FlushDeleteStep ==
    ASSUME IInv, FlushDelete
    PROVE  IInv'
  <1>1. TypeOK'
    BY InitialTypes, ZeroIsEntry, Zenon DEF FlushDelete, IInv, TypeOK, FlushState, FlushInv, ledgerVars, memoryVars, cacheVars, historyVars
  <1>2. FlushInv' /\ ReadInv'
    BY Zenon DEF FlushDelete, IInv, TypeOK, FlushState, FlushInv, ReadInv, ledgerVars, memoryVars, cacheVars, historyVars
  <1> QED
    BY <1>1, <1>2 DEF FlushDelete, IInv, AddInv, FenceInv, FencedStoresOnlyInFlight, memoryVars, historyVars

LEMMA FlushEndStep ==
    ASSUME IInv, NEW full \in BOOLEAN, FlushEnd(full)
    PROVE  IInv'
  <1>1. TypeOK'
    BY InitialTypes, ZeroIsEntry, Zenon DEF FlushEnd, IInv, TypeOK, FlushState, FlushInv, storeVars, ledgerVars, memoryVars, historyVars
  <1>2. FlushInv' /\ ReadInv'
    BY DEF FlushEnd, NoFlush, IInv, TypeOK, FlushState, FlushInv, ReadInv, storeVars, ledgerVars, memoryVars, historyVars
  <1> QED
    BY <1>1, <1>2 DEF FlushEnd, IInv, AddInv, FenceInv, FencedStoresOnlyInFlight, memoryVars, historyVars, storeVars

\* A crash and the start after it preserve the invariant.
LEMMA RestartStep ==
    ASSUME IInv, NEW left \in survives, Restart(left)
    PROVE  IInv'
  <1>1. fenced' \in BOOLEAN /\ known' \in BOOLEAN /\ fenceReturned' \in BOOLEAN
    BY DEF Restart, IInv, TypeOK
  <1>2. crashes' \in 0..MaxCrashes
    BY ServiceConstants DEF Restart, IInv, TypeOK
  <1>3. allowed' \subseteq Entries /\ (fenced' => allowed' = wal)
    BY Zenon DEF Restart, IInv, TypeOK
  <1>4. TypeOK'
    BY <1>1, <1>2, <1>3, InitialTypes, ZeroIsEntry DEF Restart, IInv, TypeOK
  <1>5. FlushInv' /\ ReadInv'
    BY DEF Restart, NoFlush, NoRead, IInv, TypeOK, FlushInv, ReadInv
  <1>6. AddInv' /\ FenceInv'
    BY DEF Restart, NoAdd, NoFence, AddInv, FenceInv
  <1>7. FencedStoresOnlyInFlight'
    BY <1>3 DEF Restart, FencedStoresOnlyInFlight
  <1> QED
    BY <1>4, <1>5, <1>6, <1>7 DEF IInv

----------------------------------------------------------------------------
(* The theorems *)

LEMMA StutterStep == IInv /\ UNCHANGED vars => IInv'
  BY DEF IInv, TypeOK, AddInv, FlushInv, ReadInv, FenceInv, FencedStoresOnlyInFlight, vars,
         storeVars, ledgerVars, memoryVars, cacheVars, historyVars

LEMMA Preserved == IInv /\ [Next]_vars => IInv'
  <1> SUFFICES ASSUME IInv, [Next]_vars PROVE IInv'
    OBVIOUS
  <1>1. CASE \E a \in Adds : Add(a)
    BY <1>1, AddEntryStep, EnsureReadStep, EnsureWriteStep, DuplicateCheckStep, WalWrittenStep,
       WalFailedStep, NoteHighestStep, CacheInsertStep DEF Add
  <1>2. CASE \E f \in Fences : Fence(f)
    BY <1>2, FenceLedgerStep, FencePersistStep, FenceSetStep, FenceMemoryStep, FenceEntryIndexStep,
       FenceWalIndexStep DEF Fence
  <1>3. CASE \E r \in Reads : Read(r)
    BY <1>3, ReadEntryStep, ReadEntryIndexStep, ReadWalIndexStep DEF Read
  <1>4. CASE Flush
    BY <1>4, DrainHotToWarmStep, FlushSyncedStep, FlushInsertStep, FlushDeleteStep, FlushEndStep DEF Flush
  <1>5. CASE \E left \in survives : Restart(left)
    BY <1>5, RestartStep
  <1>6. CASE UNCHANGED vars
    BY <1>6, StutterStep
  <1> QED
    BY <1>1, <1>2, <1>3, <1>4, <1>5, <1>6 DEF Next

\* The inductive invariant holds in every reachable state.
THEOREM Invariant == Spec => []IInv
  BY Initial, Preserved, PTL DEF Spec

\* Types, and that the WAL has what files, indices, cache and acknowledgements name,
\* whatever add_entry, fence_ledger, the flush loop and restarts do.
THEOREM TypeCorrect == Spec => []TypeOK
  <1>1. IInv => TypeOK
    BY DEF IInv
  <1> QED
    BY <1>1, Invariant, PTL

\* read_entry finds every entry acknowledged before it began, for any number of
\* concurrent calls: what leaves the cache is in entry_index.
THEOREM ReadsMissNothing == Spec => []ReadNeverMisses
  <1>1. IInv => ReadNeverMisses
    BY DEF IInv, ReadInv, ReadNeverMisses
  <1> QED
    BY <1>1, Invariant, PTL

\* fence_ledger reports at least the highest entry that this process had
\* acknowledged when the fence was set.
THEOREM FencesReportSession == Spec => []FenceReportsSession
  <1>1. IInv => FenceReportsSession
    BY DEF IInv, FenceInv, FenceReportsSession
  <1> QED
    BY <1>1, Invariant, PTL

\* A fenced ledger gains only entries whose add_entry had passed the fence check.
THEOREM FencedLedgersClosed == Spec => []FencedStoresOnlyInFlight
  <1>1. IInv => FencedStoresOnlyInFlight
    BY DEF IInv
  <1> QED
    BY <1>1, Invariant, PTL
=============================================================================
