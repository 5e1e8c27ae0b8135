------------------------- MODULE StorageEngine_proof -------------------------
(***************************************************************************)
(* StorageEngine for any entries, record sizes, block sizes, thresholds    *)
(* and any number of crashes and failed writes: a segment id is never      *)
(* reused, entry_index never names a file without the entry, and neither a *)
(* session's entries nor flushed ones are ever unreadable.                 *)
(*                                                                         *)
(* Two inductive invariants.  IInv does not depend on the WAL's contents:  *)
(* an entry is kept readable by the cache or by entry_index alone.  TInv,  *)
(* resting on it, adds the types; StorageEngineWal_proof builds on both.   *)
(***************************************************************************)
EXTENDS StorageEngine, WellFoundedInduction, TLAPS

\* A set of naturals that is not empty has a least element.
LEMMA LeastNat ==
    ASSUME NEW S \in SUBSET Nat, S # {}
    PROVE  \E x \in S : \A y \in S : x <= y
  <1> DEFINE R == OpToRel(<, Nat)
  <1>1. \A x, y \in Nat : <<y, x>> \in R <=> y < x
    BY DEF OpToRel
  <1>2. IsWellFoundedOn(R, Nat)
    BY NatLessThanWellFounded, Zenon
  <1> HIDE DEF R
  <1>3. PICK x \in S : \A y \in S : ~(<<y, x>> \in R)
    BY <1>2, WFMin, Zenon
  <1>4. \A y \in S : ~(y < x)
    BY <1>1, <1>3, Zenon
  <1> QED
    BY <1>4

\* One that is bounded too has a greatest.
LEMMA GreatestNat ==
    ASSUME NEW S \in SUBSET Nat, S # {}, NEW k \in Nat, \A x \in S : x <= k
    PROVE  \E x \in S : \A y \in S : y <= x
  <1> DEFINE T == {k - x : x \in S}
  <1>1. T \in SUBSET Nat
    OBVIOUS
  <1>2. T # {}
    BY Zenon
  <1>3. PICK t \in T : \A u \in T : t <= u
    BY <1>1, <1>2, LeastNat, Zenon
  <1>4. PICK x \in S : t = k - x
    OBVIOUS
  <1>5. \A y \in S : k - x <= k - y
    BY <1>3, <1>4, Zenon
  <1> QED
    BY <1>5

----------------------------------------------------------------------------
(* The inductive invariant *)

\* A set of naturals that is bounded, as every set of segment ids in use is.
Bounded(S) == S \subseteq Nat /\ \E k \in Nat : \A x \in S : x <= k

Indexed(f, e) == f.entryIndex[e] # NoSegment

\* Fjall is its five maps.
Maps(f) ==
    f = [walIndex |-> f.walIndex, entryIndex |-> f.entryIndex, checkpoint |-> f.checkpoint,
         wal |-> f.wal, entry |-> f.entry]

\* Fjall, in use or on the disk, has an entry_index that is sound: what it
\* names is registered, is a file, and holds the entry.
FjallInv(f, files) ==
    /\ Maps(f)
    /\ Bounded(DOMAIN f.wal) /\ Bounded(DOMAIN f.entry)
    /\ f.entryIndex \in [Entries -> Nat \cup {NoSegment}]
    /\ \A e \in Entries : Indexed(f, e) =>
          /\ f.entryIndex[e] \in DOMAIN f.entry \cap DOMAIN files
          /\ e \in files[f.entryIndex[e]]

\* The journal thread: every sealed segment has an id below the one it will
\* give next, except between the rename and the reopening.
JournalInv ==
    /\ journal = [at |-> journal.at, id |-> journal.id, off |-> journal.off]
    /\ journal.id \in Nat
    /\ Bounded(Sealed)
    /\ journal.at \in {"starting", "run", "seal"} => \A id \in Sealed : id < journal.id
    /\ journal.at \in {"renamed", "registered"} => \A id \in Sealed : id <= journal.id
    /\ journal.at = "down" <=> phase = "down"

\* The flush loop: it runs only while the node serves, its segment is the
\* newest file and registered, and what it has drained is in the warm half.
FlushInv ==
    /\ flush = [at |-> flush.at, id |-> flush.id, batch |-> flush.batch]
    /\ flush.at \in {"down", "wait", "write", "index", "dead"}
    /\ Bounded(DOMAIN entryFile)
    /\ flush.at # "down" =>
          /\ phase = "serve"
          /\ flush.id \in DOMAIN entryFile \cap DOMAIN fj.entry
          /\ \A id \in DOMAIN entryFile : id <= flush.id
    /\ flush.at = "down" => warm = {}
    /\ flush.at \in {"down", "wait"} => flush.batch = {}
    /\ flush.batch \subseteq warm
    /\ flush.at = "index" => flush.batch \subseteq entryFile[flush.id]

\* The cache: what may leave the warm half is indexed, and so is what a file
\* holds, unless the flush loop holds it; and an entry of this session is in
\* the cache or indexed.
CacheInv ==
    /\ hot \subseteq Entries /\ warm \subseteq Entries /\ session \subseteq Entries
    /\ flush.at # "dead" => \A e \in warm : e \in flush.batch \/ Indexed(fj, e)
    /\ phase \notin {"down", "entries"} =>
          \A e \in Entries : FilesWith(e) # {} =>
              Indexed(fj, e) \/ (e \in flush.batch /\ flush.at \in {"index", "dead"})
    /\ \A e \in session : e \in hot \cup warm \/ Indexed(fj, e)

IInv == FjallInv(fj, entryFile) /\ FjallInv(durable, entryFile) /\ JournalInv /\ FlushInv /\ CacheInv

----------------------------------------------------------------------------
(* Segment ids *)

\* A set of ids stays bounded when one is added or some are removed.
LEMMA BoundedGrows ==
    ASSUME NEW S, Bounded(S), NEW n \in Nat, NEW T, T \subseteq S \cup {n}
    PROVE  Bounded(T)
  <1>1. PICK k \in Nat : \A x \in S : x <= k
    BY DEF Bounded
  <1>2. S \subseteq Nat
    BY DEF Bounded
  <1>3. k + n \in Nat /\ \A x \in T : x <= k + n
    BY <1>1, <1>2
  <1> QED
    BY <1>2, <1>3 DEF Bounded

\* And when two are joined.
LEMMA BoundedUnion ==
    ASSUME NEW S, NEW T, Bounded(S), Bounded(T)
    PROVE  Bounded(S \cup T)
  <1>1. PICK k \in Nat : \A x \in S : x <= k
    BY DEF Bounded
  <1>2. PICK l \in Nat : \A x \in T : x <= l
    BY Zenon DEF Bounded
  <1>3. S \subseteq Nat /\ T \subseteq Nat
    BY DEF Bounded
  <1>4. k + l \in Nat /\ \A x \in S \cup T : x <= k + l
    BY <1>1, <1>2, <1>3
  <1> QED
    BY <1>3, <1>4, Zenon DEF Bounded

\* scan_next_segment_id and next_entry_seg_id give the id after the largest.
LEMMA NextIdSpec ==
    ASSUME NEW files, NEW registered, Bounded(files), Bounded(registered)
    PROVE  /\ NextId(files, registered) \in Nat
           /\ \A id \in files \cup registered : id < NextId(files, registered)
           /\ NextId(files, registered) = 0 \/ \E id \in files \cup registered : NextId(files, registered) = id + 1
  <1> DEFINE used == files \cup registered
             above == {0} \cup {id + 1 : id \in used}
  <1>1. PICK k \in Nat : \A x \in used : x <= k
    BY BoundedUnion, Zenon DEF Bounded
  <1>2. used \subseteq Nat
    BY DEF Bounded
  <1>3. above \in SUBSET Nat /\ above # {} /\ k + 1 \in Nat /\ \A x \in above : x <= k + 1
    BY <1>1, <1>2
  <1>4. \A id \in used : id + 1 \in above
    OBVIOUS
  <1>5. NextId(files, registered) = Greatest(above)
    BY DEF NextId
  <1>10. \A y \in above : y = 0 \/ \E id \in used : y = id + 1
    OBVIOUS
  <1> HIDE DEF above, used
  <1>6. \E x \in above : \A y \in above : y <= x
    BY <1>3, GreatestNat, Zenon
  <1>7. Greatest(above) \in above /\ \A y \in above : y <= Greatest(above)
    BY <1>6 DEF Greatest
  <1>8. PICK g : g = Greatest(above)
    OBVIOUS
  <1>9. g \in Nat /\ \A id \in used : id < g
    <2>1. g \in Nat /\ \A y \in above : y <= g
      BY <1>3, <1>7, <1>8, Zenon
    <2>2. ASSUME NEW id \in used PROVE id < g
      <3>1. id \in Nat /\ id + 1 <= g
        BY <1>2, <1>4, <2>1
      <3> QED
        BY <2>1, <3>1
    <2> QED
      BY <2>1, <2>2
  <1> QED
    BY <1>5, <1>7, <1>8, <1>9, <1>10 DEF used

\* Least picks an element of a set of ids that is not empty.
LEMMA LeastSpec ==
    ASSUME NEW S \in SUBSET Nat, S # {}
    PROVE  Least(S) \in S
  BY LeastNat, Zenon DEF Least

----------------------------------------------------------------------------
(* Fjall *)

\* A change of the WAL's three maps leaves the EntrySegments' two.
SameEntries(f, g) == g.entryIndex = f.entryIndex /\ g.entry = f.entry

\* A change of one map leaves the others.
LEMMA MapsUpdates ==
    ASSUME NEW f, Maps(f), NEW w
    PROVE  /\ Maps([f EXCEPT !.wal = w]) /\ [f EXCEPT !.wal = w].wal = w
           /\ SameEntries(f, [f EXCEPT !.wal = w])
           /\ Maps([f EXCEPT !.entry = w]) /\ [f EXCEPT !.entry = w].entry = w
           /\ [f EXCEPT !.entry = w].entryIndex = f.entryIndex
           /\ [f EXCEPT !.entry = w].wal = f.wal
  BY DEF Maps, SameEntries

\* The journal thread writes only wal_registry.
LEMMA JournalFjall ==
    ASSUME IInv, Journal
    PROVE  Maps(fj') /\ SameEntries(fj, fj') /\ Bounded(DOMAIN fj'.wal)
  <1>0. Maps(fj) /\ Bounded(DOMAIN fj.wal) /\ journal.id \in Nat
    BY DEF IInv, FjallInv, JournalInv
  <1>1. ASSUME NEW id \in Nat, NEW s, NEW p, fj' = [fj EXCEPT !.wal = Registered(fj.wal, id, s, p)]
        PROVE  Maps(fj') /\ SameEntries(fj, fj') /\ Bounded(DOMAIN fj'.wal)
    <2>1. DOMAIN Registered(fj.wal, id, s, p) = DOMAIN fj.wal \cup {id}
      BY DEF Registered, Put
    <2>2. Maps(fj') /\ SameEntries(fj, fj') /\ fj'.wal = Registered(fj.wal, id, s, p)
      BY <1>0, <1>1, MapsUpdates, Zenon
    <2> QED
      BY <1>0, <2>1, <2>2, BoundedGrows
  <1>2. CASE JournalStart
    BY <1>0, <1>1, <1>2 DEF JournalStart
  <1>3. CASE SealRegister
    BY <1>0, <1>1, <1>3 DEF SealRegister
  <1>4. CASE SealReopen
    <2>1. journal.id + 1 \in Nat
      BY <1>0
    <2> QED
      BY <1>1, <1>4, <2>1 DEF SealReopen
  <1>5. CASE UNCHANGED fj
    BY <1>0, <1>5 DEF SameEntries
  <1> QED
    BY <1>2, <1>3, <1>4, <1>5, Zenon DEF Journal, seal, SealRename, SealFails, BatchWritten, BatchFails

\* wal_gc and the steps of replay.
LEMMA ReplayFjall ==
    ASSUME IInv, (\E id \in DOMAIN fj.wal : wal_gc(id)) \/ recover_wal \/ ReplayTorn \/ ReplayEnd
                 \/ (\E e \in Entries : ReplayRecord(e))
    PROVE  Maps(fj') /\ SameEntries(fj, fj') /\ Bounded(DOMAIN fj'.wal)
  <1>0. Maps(fj) /\ Bounded(DOMAIN fj.wal) /\ Bounded(Sealed)
    BY DEF IInv, FjallInv, JournalInv
  <1>1. CASE \E id \in DOMAIN fj.wal : wal_gc(id)
    <2>1. PICK id \in DOMAIN fj.wal : wal_gc(id)
      BY <1>1
    <2>2. fj' = [fj EXCEPT !.wal[id].status = "Deleted"]
      BY <2>1 DEF wal_gc
    <2>3. Maps(fj') /\ SameEntries(fj, fj') /\ DOMAIN fj'.wal = DOMAIN fj.wal
      BY <1>0, <2>2 DEF Maps, SameEntries
    <2> QED
      BY <1>0, <2>3
  <1>2. CASE recover_wal
    <2>1. NextId(Sealed, {}) \in Nat
      <3>1. Bounded({})
        BY DEF Bounded
      <3> QED
        BY <1>0, <3>1, NextIdSpec
    <2>2. DOMAIN WalRegistry \subseteq (DOMAIN fj.wal \cup Sealed) \cup {NextId(Sealed, {})}
      BY DEF WalRegistry
    <2>3. Bounded(DOMAIN WalRegistry)
      BY <1>0, <2>1, <2>2, BoundedUnion, BoundedGrows, Zenon
    <2>4. fj' = [fj EXCEPT !.wal = WalRegistry]
      BY <1>2 DEF recover_wal
    <2> QED
      BY <1>0, <2>3, <2>4, MapsUpdates, Zenon
  <1>3. ASSUME NEW index, ReplayNext(index)
        PROVE  Maps(fj') /\ SameEntries(fj, fj') /\ Bounded(DOMAIN fj'.wal)
    <2>1. PICK c : fj' = [fj EXCEPT !.walIndex = index, !.checkpoint = c]
      BY <1>3, Zenon DEF ReplayNext
    <2>2. Maps(fj') /\ SameEntries(fj, fj') /\ fj'.wal = fj.wal
      BY <1>0, <2>1, Zenon DEF Maps, SameEntries
    <2> QED
      BY <1>0, <2>2
  <1>4. CASE ReplayTorn \/ ReplayEnd
    BY <1>3, <1>4, Zenon DEF ReplayTorn, ReplayEnd
  <1>5. CASE \E e \in Entries : ReplayRecord(e)
    <2>1. PICK e \in Entries : ReplayRecord(e)
      BY <1>5
    <2>2. fj' = fj \/ fj' = [fj EXCEPT !.walIndex[e] = [id |-> Segment, pos |-> replay.pos]]
      BY <2>1, Zenon DEF ReplayRecord
    <2>3. Maps(fj') /\ SameEntries(fj, fj') /\ fj'.wal = fj.wal
      BY <1>0, <2>2, Zenon DEF Maps, SameEntries
    <2> QED
      BY <1>0, <2>3
  <1> QED
    BY <1>1, <1>2, <1>4, <1>5

\* The steps that change entry_index or the entry registry.
EntryStep ==
    \/ FlushStart \/ FlushRegister \/ recover_entry_segments
    \/ \E e \in flush.batch : FlushIndex(e)
    \/ \E kept \in SUBSET flush.batch : Crash(kept)

\* Every step keeps Fjall's form and its bounded set of WAL ids, and only those
\* steps touch the EntrySegments' two maps.
LEMMA FjallStep ==
    ASSUME IInv, Next
    PROVE  /\ Maps(fj') /\ Bounded(DOMAIN fj'.wal)
           /\ EntryStep \/ SameEntries(fj, fj')
  <1>0. Maps(fj) /\ Bounded(DOMAIN fj.wal) /\ Maps(durable) /\ Bounded(DOMAIN durable.wal)
    BY DEF IInv, FjallInv
  <1>1. CASE Journal
    BY <1>1, JournalFjall
  <1>2. CASE \/ \E id \in DOMAIN fj.wal : wal_gc(id)
             \/ recover_wal \/ ReplayTorn \/ ReplayEnd
             \/ \E e \in Entries : ReplayRecord(e)
    BY <1>2, ReplayFjall
  <1>3. CASE \E kept \in SUBSET flush.batch : Crash(kept)
    BY <1>0, <1>3, Zenon DEF Crash, EntryStep
  <1>4. CASE FlushStart \/ FlushRegister
    <2>1. PICK r : fj' = [fj EXCEPT !.entry = r]
      BY <1>4 DEF FlushStart, FlushRegister, OpenSegment
    <2>2. Maps(fj') /\ fj'.wal = fj.wal
      BY <1>0, <2>1, MapsUpdates, Zenon
    <2> QED
      BY <1>0, <1>4, <2>2 DEF EntryStep
  <1>5. CASE recover_entry_segments
    <2>1. PICK r, x : fj' = [fj EXCEPT !.entry = r, !.entryIndex = x]
      BY <1>5, Zenon DEF recover_entry_segments
    <2>2. Maps(fj') /\ fj'.wal = fj.wal
      BY <1>0, <2>1, Zenon DEF Maps
    <2> QED
      BY <1>0, <1>5, <2>2 DEF EntryStep
  <1>6. CASE \E e \in flush.batch : FlushIndex(e)
    <2>1. PICK e \in flush.batch : fj' = [fj EXCEPT !.entryIndex[e] = flush.id, !.walIndex[e] = NoLocation]
      BY <1>6, Zenon DEF FlushIndex
    <2>2. Maps(fj') /\ fj'.wal = fj.wal
      BY <1>0, <2>1, Zenon DEF Maps
    <2> QED
      BY <1>0, <1>6, <2>2 DEF EntryStep
  <1>7. CASE UNCHANGED fj
    BY <1>0, <1>7 DEF SameEntries
  <1> QED
    BY <1>1, <1>2, <1>3, <1>4, <1>5, <1>6, <1>7
    DEF Next, Flush, Recover, AddReturns, drain_hot_to_warm, FlushSynced, FlushFails, FjallSync, Boot,
        ReplayOpen, ReplayPadding, RecoveryDone

----------------------------------------------------------------------------
(* The journal thread *)

\* A step that moves the journal among the states before the rename, and
\* creates no sealed segment, keeps its invariant.
LEMMA JournalQuiet ==
    ASSUME JournalInv, journal.at \in {"starting", "run", "seal"}, phase' = phase,
           journal'.at \in {"run", "seal"}, journal' = [at |-> journal'.at, id |-> journal.id, off |-> journal'.off],
           Sealed' \subseteq Sealed
    PROVE  JournalInv'
  <1>1. Bounded(Sealed')
    <2>1. 0 \in Nat /\ Sealed' \subseteq Sealed \cup {0}
      OBVIOUS
    <2> QED
      BY <2>1, BoundedGrows DEF JournalInv
  <1> QED
    BY <1>1 DEF JournalInv

\* The sealed ids stay below the next one through do_seal, a crash, and boot's
\* scan of the directory and of the registry.
LEMMA JournalNext ==
    ASSUME IInv, Next
    PROVE  JournalInv'
  <1>0. JournalInv /\ Bounded(DOMAIN fj.wal)
    BY DEF IInv, FjallInv
  <1>f. journal = [at |-> journal.at, id |-> journal.id, off |-> journal.off] /\ journal.id \in Nat
    BY <1>0 DEF JournalInv
  <1>1. CASE JournalStart \/ seal \/ SealFails
    <2>1. Sealed' \subseteq Sealed
      BY <1>1 DEF JournalStart, seal, SealFails, Put, Sealed, fileVars, walVars
    <2>2. /\ journal'.at \in {"run", "seal"}
          /\ journal' = [at |-> journal'.at, id |-> journal.id, off |-> journal'.off]
      BY <1>1, <1>f, Zenon DEF JournalStart, seal, SealFails
    <2>3. phase' = phase /\ journal.at \in {"starting", "run", "seal"}
      BY <1>1 DEF JournalStart, seal, SealFails
    <2> QED
      BY <1>0, <2>1, <2>2, <2>3, JournalQuiet
  <1>2. CASE \E batch \in Batches :
                \/ BatchWritten(batch)
                \/ \E k \in 0..Len(Bytes(batch)) : BatchFails(batch, k)
    <2>1. PICK c : wal' = [wal EXCEPT ![ActiveSeg] = c]
      BY <1>2 DEF BatchWritten, BatchFails
    <2>2. Sealed' \subseteq Sealed
      BY <2>1 DEF Sealed
    <2>3. /\ journal'.at \in {"run", "seal"}
          /\ journal' = [at |-> journal'.at, id |-> journal.id, off |-> journal'.off]
      BY <1>2, <1>f, Zenon DEF BatchWritten, BatchFails, AfterBatch
    <2>4. phase' = phase /\ journal.at \in {"starting", "run", "seal"}
      BY <1>2 DEF BatchWritten, BatchFails
    <2> QED
      BY <1>0, <2>2, <2>3, <2>4, JournalQuiet
  <1>3. CASE SealRename
    <2>1. Sealed' \subseteq Sealed \cup {journal.id}
      BY <1>3 DEF SealRename, Renamed, Sealed
    <2>2. Bounded(Sealed')
      BY <1>0, <2>1, BoundedGrows DEF JournalInv
    <2>3. journal' = [at |-> "renamed", id |-> journal.id, off |-> journal.off] /\ phase' = phase
      BY <1>3, <1>f DEF SealRename
    <2>4. \A id \in Sealed' : id <= journal.id
      BY <1>0, <1>3, <2>1 DEF JournalInv, SealRename, Bounded
    <2> QED
      BY <1>0, <1>3, <2>2, <2>3, <2>4 DEF JournalInv, SealRename
  <1>4. CASE SealRegister
    <2>1. journal' = [at |-> "registered", id |-> journal.id, off |-> journal.off] /\ phase' = phase /\ Sealed' = Sealed
      BY <1>4, <1>f DEF SealRegister, Sealed, fileVars, walVars
    <2> QED
      BY <1>0, <1>4, <2>1 DEF JournalInv, SealRegister
  <1>5. CASE SealReopen
    <2>1. Sealed' = Sealed
      BY <1>5 DEF SealReopen, Put, Sealed
    <2>2. journal' = [at |-> "run", id |-> journal.id + 1, off |-> 0] /\ phase' = phase
      BY <1>5 DEF SealReopen
    <2>3. \A id \in Sealed' : id < journal.id + 1
      BY <1>0, <1>5, <2>1 DEF JournalInv, SealReopen, Bounded
    <2> QED
      BY <1>0, <1>5, <2>1, <2>2, <2>3 DEF JournalInv, SealReopen
  <1>6. CASE (\E id \in DOMAIN fj.wal : wal_gc(id)) \/ ReplayTorn
    <2>1. Sealed' \subseteq Sealed
      <3>1. CASE \E id \in DOMAIN fj.wal : wal_gc(id)
        BY <3>1 DEF wal_gc, Sealed
      <3>2. CASE ReplayTorn
        <4>1. PICK p, c : wal' = [wal EXCEPT ![p] = c]
          BY <3>2, Zenon DEF ReplayTorn
        <4> QED
          BY <4>1 DEF Sealed
      <3> QED
        BY <1>6, <3>1, <3>2
    <2>2. UNCHANGED <<journal, phase>>
      BY <1>6, Zenon DEF wal_gc, ReplayTorn
    <2>3. Bounded(Sealed')
      <3>1. 0 \in Nat /\ Sealed' \subseteq Sealed \cup {0}
        BY <2>1
      <3> QED
        BY <1>0, <3>1, BoundedGrows DEF JournalInv
    <2> QED
      BY <1>0, <2>1, <2>2, <2>3 DEF JournalInv
  <1>7. CASE \E kept \in SUBSET flush.batch : Crash(kept)
    <2>1. journal' = [at |-> "down", id |-> 0, off |-> 0] /\ phase' = "down" /\ Sealed' = Sealed
      BY <1>7 DEF Crash, Stopped, Sealed, walVars
    <2> QED
      BY <1>0, <2>1 DEF JournalInv
  <1>8. CASE Boot
    <2>1. PICK n : n = NextId(Sealed, DOMAIN fj.wal)
      OBVIOUS
    <2>2. n \in Nat /\ \A id \in Sealed : id < n
      BY <1>0, <2>1, NextIdSpec DEF JournalInv
    <2>3. journal' = [at |-> "starting", id |-> n, off |-> 0] /\ phase' = "entries" /\ Sealed' = Sealed
      BY <1>8, <2>1 DEF Boot, Sealed, fileVars, walVars
    <2> QED
      BY <1>0, <2>2, <2>3 DEF JournalInv
  <1>9. CASE UNCHANGED <<wal, journal>> /\ (phase' = "down" <=> phase = "down")
    <2>1. Sealed' = Sealed
      BY <1>9 DEF Sealed
    <2> QED
      BY <1>0, <1>9, <2>1 DEF JournalInv
  <1>10. \/ JournalStart \/ seal \/ SealFails \/ SealRename \/ SealRegister \/ SealReopen
         \/ \E batch \in Batches :
                \/ BatchWritten(batch)
                \/ \E k \in 0..Len(Bytes(batch)) : BatchFails(batch, k)
         \/ (\E id \in DOMAIN fj.wal : wal_gc(id)) \/ ReplayTorn
         \/ (\E kept \in SUBSET flush.batch : Crash(kept))
         \/ Boot
         \/ UNCHANGED <<wal, journal>> /\ (phase' = "down" <=> phase = "down")
    BY Zenon DEF Next, Journal, Flush, Recover, fileVars, walVars, AddReturns, FlushStart, drain_hot_to_warm, FlushSynced,
           FlushFails, FlushIndex, FlushRegister, FjallSync, recover_entry_segments, recover_wal, ReplayOpen,
           ReplayPadding, ReplayEnd, RecoveryDone, ReplayRecord
  <1> QED
    BY <1>1, <1>2, <1>3, <1>4, <1>5, <1>6, <1>7, <1>8, <1>9, <1>10

----------------------------------------------------------------------------
(* EntrySegments *)

\* No EntrySegment file disappears or loses an entry.
Grown(files, later) ==
    /\ DOMAIN files \subseteq DOMAIN later
    /\ \A id \in DOMAIN files : files[id] \subseteq later[id]

\* open_active_segment truncates no file: the id it is given is new.
LEMMA OpenGrows ==
    ASSUME NEW id, id \notin DOMAIN entryFile, NEW r, OpenSegment(id, r)
    PROVE  /\ Grown(entryFile, entryFile') /\ DOMAIN entryFile' = DOMAIN entryFile \cup {id}
           /\ \A e \in Entries : FilesWith(e)' = FilesWith(e)
  <1>1. entryFile' = Put(entryFile, id, {})
    BY DEF OpenSegment
  <1> QED
    BY <1>1 DEF Put, Grown, FilesWith

\* The id of the segment FlushStart opens is above all files and records.
LEMMA FreshAtStart ==
    ASSUME IInv, FlushStart
    PROVE  \E n \in Nat :
              /\ OpenSegment(n, [id \in DOMAIN fj.entry |-> "Local"])
              /\ \A id \in DOMAIN entryFile : id < n
              /\ n \notin DOMAIN entryFile
  <1>1. Bounded(DOMAIN entryFile) /\ Bounded(DOMAIN fj.entry)
    BY DEF IInv, FlushInv, FjallInv
  <1>2. PICK n : n = NextId(DOMAIN entryFile, DOMAIN fj.entry)
    OBVIOUS
  <1>3. n \in Nat /\ \A id \in DOMAIN entryFile : id < n
    BY <1>1, <1>2, NextIdSpec
  <1>4. n \notin DOMAIN entryFile
    BY <1>3
  <1>5. OpenSegment(n, [id \in DOMAIN fj.entry |-> "Local"])
    BY <1>2 DEF FlushStart
  <1> QED
    BY <1>3, <1>4, <1>5

\* The flush loop's segment is the newest, so the id after it is new.
LEMMA FreshAtSeal ==
    ASSUME IInv, flush.at # "down"
    PROVE  /\ flush.id \in Nat /\ flush.id + 1 \in Nat
           /\ flush.id + 1 \notin DOMAIN entryFile
           /\ \A id \in DOMAIN entryFile \cup {flush.id + 1} : id <= flush.id + 1
  <1>1. DOMAIN entryFile \subseteq Nat /\ flush.id \in DOMAIN entryFile
        /\ \A id \in DOMAIN entryFile : id <= flush.id
    BY DEF IInv, FlushInv, Bounded
  <1> QED
    BY <1>1

\* Files only grow: an append-only directory, crashes included.
LEMMA FilesGrow ==
    ASSUME IInv, Next
    PROVE  Grown(entryFile, entryFile') /\ Bounded(DOMAIN entryFile')
  <1>0. Bounded(DOMAIN entryFile)
    BY DEF IInv, FlushInv
  <1>1. ASSUME NEW id \in Nat, id \notin DOMAIN entryFile, NEW r, OpenSegment(id, r)
        PROVE  Grown(entryFile, entryFile') /\ Bounded(DOMAIN entryFile')
    BY <1>0, <1>1, OpenGrows, BoundedGrows, Zenon
  <1>2. ASSUME NEW S, entryFile' = [entryFile EXCEPT ![flush.id] = entryFile[flush.id] \cup S]
        PROVE  Grown(entryFile, entryFile') /\ Bounded(DOMAIN entryFile')
    BY <1>0, <1>2 DEF Grown
  <1>3. ASSUME UNCHANGED entryFile
        PROVE  Grown(entryFile, entryFile') /\ Bounded(DOMAIN entryFile')
    BY <1>0, <1>3 DEF Grown
  <1>4. CASE FlushStart
    BY <1>1, <1>4, FreshAtStart
  <1>5. CASE FlushRegister
    BY <1>1, <1>3, <1>5, FreshAtSeal DEF FlushRegister
  <1>6. CASE FlushSynced
    BY <1>2, <1>6, Zenon DEF FlushSynced
  <1>7. CASE \E kept \in SUBSET flush.batch : Crash(kept)
    BY <1>2, <1>3, <1>7, Zenon DEF Crash
  <1> QED
    BY <1>3, <1>4, <1>5, <1>6, <1>7, Zenon
    DEF Next, Journal, Flush, Recover, fileVars, walVars, AddReturns, JournalStart, seal, SealRename, SealFails,
        SealRegister, SealReopen, BatchWritten, BatchFails, drain_hot_to_warm, FlushFails, FlushIndex, wal_gc,
        FjallSync, Boot, recover_entry_segments, recover_wal, ReplayOpen, ReplayPadding, ReplayTorn, ReplayEnd,
        RecoveryDone, ReplayRecord

\* A sound entry_index stays sound as the files and the registry grow.
LEMMA IndexKept ==
    ASSUME NEW f, NEW g, NEW files, NEW later, FjallInv(f, files), Grown(files, later),
           Maps(g), Bounded(DOMAIN g.wal), Bounded(DOMAIN g.entry),
           g.entryIndex = f.entryIndex, DOMAIN f.entry \subseteq DOMAIN g.entry
    PROVE  FjallInv(g, later)
  <1>1. g.entryIndex \in [Entries -> Nat \cup {NoSegment}]
    BY DEF FjallInv
  <1>2. ASSUME NEW e \in Entries, Indexed(g, e)
        PROVE  /\ g.entryIndex[e] \in DOMAIN g.entry \cap DOMAIN later
               /\ e \in later[g.entryIndex[e]]
    BY <1>2 DEF FjallInv, Indexed, Grown
  <1> QED
    BY <1>1, <1>2 DEF FjallInv

\* What the flush loop's registrations do to Fjall.
LEMMA RegisterSpec ==
    ASSUME IInv, FlushStart \/ FlushRegister
    PROVE  /\ fj'.entryIndex = fj.entryIndex
           /\ DOMAIN fj.entry \subseteq DOMAIN fj'.entry /\ Bounded(DOMAIN fj'.entry)
           /\ flush'.id \in DOMAIN fj'.entry
  <1>0. Maps(fj) /\ Bounded(DOMAIN fj.entry)
    BY DEF IInv, FjallInv
  <1>1. ASSUME NEW n \in Nat, NEW r, OpenSegment(n, r), DOMAIN fj.entry \subseteq DOMAIN r, Bounded(DOMAIN r)
        PROVE  /\ fj'.entryIndex = fj.entryIndex
               /\ DOMAIN fj.entry \subseteq DOMAIN fj'.entry /\ Bounded(DOMAIN fj'.entry)
               /\ flush'.id \in DOMAIN fj'.entry
    <2>1. fj' = [fj EXCEPT !.entry = Put(r, n, "Active")] /\ flush'.id = n
      BY <1>1 DEF OpenSegment
    <2>2. DOMAIN Put(r, n, "Active") = DOMAIN r \cup {n}
      BY DEF Put
    <2>3. fj'.entry = Put(r, n, "Active") /\ fj'.entryIndex = fj.entryIndex
      BY <1>0, <2>1, MapsUpdates
    <2> QED
      BY <1>1, <2>1, <2>2, <2>3, BoundedGrows
  <1>2. CASE FlushStart
    <2>1. PICK n \in Nat : OpenSegment(n, [id \in DOMAIN fj.entry |-> "Local"])
      BY <1>2, FreshAtStart
    <2>2. DOMAIN [id \in DOMAIN fj.entry |-> "Local"] = DOMAIN fj.entry
      OBVIOUS
    <2> QED
      BY <1>0, <1>1, <2>1, <2>2
  <1>3. CASE FlushRegister
    <2>0. flush.id \in Nat /\ flush.id + 1 \in Nat
      BY <1>3, FreshAtSeal DEF FlushRegister
    <2>1. \A s : DOMAIN Put(fj.entry, flush.id, s) = DOMAIN fj.entry \cup {flush.id}
      BY DEF Put
    <2>2. \A s : Bounded(DOMAIN Put(fj.entry, flush.id, s))
      BY <1>0, <2>0, <2>1, BoundedGrows
    <2>3. CASE OpenSegment(flush.id + 1, Put(fj.entry, flush.id, "Local"))
      BY <1>1, <2>0, <2>1, <2>2, <2>3
    <2>4. CASE /\ flush' = [flush EXCEPT !.at = "wait"]
               /\ fj' = [fj EXCEPT !.entry = Put(fj.entry, flush.id, "Active")]
      <3>1. fj'.entry = Put(fj.entry, flush.id, "Active") /\ fj'.entryIndex = fj.entryIndex
        BY <1>0, <2>4, MapsUpdates
      <3>2. flush'.id = flush.id
        BY <2>4 DEF IInv, FlushInv
      <3> QED
        BY <2>1, <2>2, <3>1, <3>2
    <2> QED
      BY <1>3, <2>3, <2>4 DEF FlushRegister
  <1> QED
    BY <1>2, <1>3

\* insert_location: the entry is in the segment it is indexed under.
LEMMA IndexSpec ==
    ASSUME IInv, NEW e \in flush.batch, FlushIndex(e)
    PROVE  /\ fj'.entryIndex = [fj.entryIndex EXCEPT ![e] = flush.id] /\ fj'.entry = fj.entry
           /\ e \in Entries /\ flush.id \in Nat
           /\ flush.id \in DOMAIN fj.entry \cap DOMAIN entryFile /\ e \in entryFile[flush.id]
  <1>1. fj' = [fj EXCEPT !.entryIndex[e] = flush.id, !.walIndex[e] = NoLocation] /\ flush.at = "index"
    BY DEF FlushIndex
  <1>2. fj'.entryIndex = [fj.entryIndex EXCEPT ![e] = flush.id] /\ fj'.entry = fj.entry
    BY <1>1 DEF IInv, FjallInv, Maps
  <1> QED
    BY <1>1, <1>2, FreshAtSeal DEF IInv, FlushInv, CacheInv

\* recover_entry_segments indexes every entry of every file.
LEMMA RecoverSpec ==
    ASSUME IInv, recover_entry_segments
    PROVE  /\ Maps(fj')
           /\ DOMAIN fj'.entry = DOMAIN fj.entry \cup DOMAIN entryFile
           /\ fj'.entryIndex \in [Entries -> Nat \cup {NoSegment}]
           /\ \A e \in Entries : FilesWith(e) # {} => Indexed(fj', e)
           /\ \A e \in Entries : fj'.entryIndex[e] = fj.entryIndex[e] \/ fj'.entryIndex[e] \in FilesWith(e)
  <1> DEFINE x == [e \in Entries |-> IF fj.entryIndex[e] = NoSegment /\ FilesWith(e) # {}
                                       THEN Least(FilesWith(e)) ELSE fj.entryIndex[e]]
             r == [id \in DOMAIN fj.entry \cup DOMAIN entryFile |->
                      IF id \in DOMAIN fj.entry THEN fj.entry[id] ELSE "Local"]
  <1>0. Maps(fj) /\ fj.entryIndex \in [Entries -> Nat \cup {NoSegment}] /\ DOMAIN entryFile \subseteq Nat
    BY DEF IInv, FjallInv, FlushInv, Bounded
  <1>1. fj' = [fj EXCEPT !.entry = r, !.entryIndex = x]
    BY DEF recover_entry_segments
  <1>2. \A e \in Entries : FilesWith(e) \in SUBSET Nat
    BY <1>0 DEF FilesWith
  <1>3. \A e \in Entries : FilesWith(e) # {} => Least(FilesWith(e)) \in FilesWith(e)
    BY <1>2, LeastSpec
  <1>4. NoSegment \notin Nat
    BY DEF NoSegment
  <1>5. Maps(fj') /\ fj'.entry = r /\ fj'.entryIndex = x
    <2> HIDE DEF x, r
    <2> QED
      BY <1>0, <1>1, Zenon DEF Maps
  <1> QED
    BY <1>0, <1>2, <1>3, <1>4, <1>5 DEF Indexed

\* entry_index stays sound, in use and on the disk.
LEMMA FjallNext ==
    ASSUME IInv, Next
    PROVE  FjallInv(fj', entryFile') /\ FjallInv(durable', entryFile')
  <1>0. FjallInv(fj, entryFile) /\ FjallInv(durable, entryFile) /\ Grown(entryFile, entryFile')
        /\ Maps(fj') /\ Bounded(DOMAIN fj'.wal)
    BY FjallStep, FilesGrow DEF IInv
  <1>1. FjallInv(durable, entryFile')
    BY <1>0, IndexKept DEF FjallInv
  <1>2. FjallInv(fj', entryFile')
    <2>1. CASE SameEntries(fj, fj')
      <3>1. fj'.entryIndex = fj.entryIndex /\ fj'.entry = fj.entry /\ Bounded(DOMAIN fj.entry)
        BY <1>0, <2>1 DEF SameEntries, FjallInv
      <3>2. DOMAIN fj.entry \subseteq DOMAIN fj'.entry /\ Bounded(DOMAIN fj'.entry)
        BY <3>1
      <3> QED
        BY <1>0, <3>1, <3>2, IndexKept
    <2>2. CASE FlushStart \/ FlushRegister
      BY <1>0, <2>2, RegisterSpec, IndexKept
    <2>3. CASE recover_entry_segments
      <3>1. entryFile' = entryFile
        BY <2>3, Zenon DEF recover_entry_segments, fileVars, walVars
      <3>2. Bounded(DOMAIN fj'.entry)
        BY <1>0, <2>3, RecoverSpec, BoundedUnion DEF FjallInv, IInv, FlushInv
      <3>3. ASSUME NEW e \in Entries, Indexed(fj', e)
            PROVE  /\ fj'.entryIndex[e] \in DOMAIN fj'.entry \cap DOMAIN entryFile
                   /\ e \in entryFile[fj'.entryIndex[e]]
        <4>1. CASE fj'.entryIndex[e] \in FilesWith(e)
          BY <2>3, <4>1, RecoverSpec DEF FilesWith
        <4>2. CASE fj'.entryIndex[e] = fj.entryIndex[e]
          BY <1>0, <2>3, <3>3, <4>2, RecoverSpec DEF FjallInv, Indexed
        <4> QED
          BY <2>3, <4>1, <4>2, RecoverSpec
      <3> QED
        BY <1>0, <2>3, <3>1, <3>2, <3>3, RecoverSpec DEF FjallInv
    <2>4. CASE \E e \in flush.batch : FlushIndex(e)
      <3>1. PICK e \in flush.batch : FlushIndex(e)
        BY <2>4
      <3>2. entryFile' = entryFile
        BY <3>1 DEF FlushIndex, fileVars, walVars
      <3>3. fj'.entryIndex \in [Entries -> Nat \cup {NoSegment}] /\ Bounded(DOMAIN fj'.entry)
        BY <1>0, <3>1, IndexSpec, Zenon DEF FjallInv
      <3>4. ASSUME NEW d \in Entries, Indexed(fj', d)
            PROVE  /\ fj'.entryIndex[d] \in DOMAIN fj'.entry \cap DOMAIN entryFile
                   /\ d \in entryFile[fj'.entryIndex[d]]
        BY <1>0, <3>1, <3>4, IndexSpec, Zenon DEF FjallInv, Indexed
      <3> QED
        BY <1>0, <3>2, <3>3, <3>4 DEF FjallInv
    <2>5. CASE \E kept \in SUBSET flush.batch : Crash(kept)
      BY <1>1, <2>5 DEF Crash
    <2> QED
      BY <2>1, <2>2, <2>3, <2>4, <2>5, FjallStep DEF EntryStep
  <1>3. \/ durable' = durable
        \/ durable' = fj /\ fj' = fj
    BY Zenon DEF Next, Journal, Flush, Recover, AddReturns, JournalStart, seal, SealRename, SealFails, SealRegister,
           SealReopen, BatchWritten, BatchFails, FlushStart, drain_hot_to_warm, FlushSynced, FlushFails,
           FlushIndex, FlushRegister, wal_gc, FjallSync, Crash, Boot, recover_entry_segments, recover_wal,
           ReplayOpen, ReplayPadding, ReplayTorn, ReplayEnd, RecoveryDone, ReplayRecord
  <1> QED
    BY <1>1, <1>2, <1>3

----------------------------------------------------------------------------
(* The flush loop and the cache *)

\* Every step is one of the flush loop, of the cache, of boot or recovery, or
\* leaves alone what the two invariants are about.
LEMMA FlushSteps ==
    ASSUME IInv, Next
    PROVE  \/ FlushStart \/ drain_hot_to_warm \/ FlushSynced \/ FlushFails \/ FlushRegister
           \/ \E e \in flush.batch : FlushIndex(e)
           \/ \E kept \in SUBSET flush.batch : Crash(kept)
           \/ recover_entry_segments
           \/ /\ UNCHANGED <<flush, entryFile, warm>> /\ SameEntries(fj, fj')
              /\ \/ UNCHANGED phase
                 \/ phase = "down" /\ phase' = "entries"
                 \/ phase = "register" /\ phase' = "replay"
                 \/ phase = "replay" /\ phase' = "serve"
              /\ \/ UNCHANGED <<hot, session>>
                 \/ \E e \in Entries : /\ hot' = hot \cup {e} \/ (hot' = hot /\ e \in warm)
                                       /\ session' = session \cup {e}
                 \/ \E e \in Entries : hot' = hot \cup {e} /\ session' = session
  <1>1. CASE Flush
    BY <1>1 DEF Flush
  <1>2. CASE \E e \in Entries : AddReturns(e)
    BY <1>2 DEF AddReturns, fileVars, walVars, SameEntries
  <1>3. CASE Journal
    <2>1. SameEntries(fj, fj')
      BY <1>3, JournalFjall
    <2>2. UNCHANGED <<flush, entryFile, warm, phase, hot, session>>
      BY <1>3, Zenon DEF Journal, fileVars, walVars, JournalStart, seal, SealRename, SealFails, SealRegister, SealReopen,
                  BatchWritten, BatchFails
    <2> QED
      BY <2>1, <2>2
  <1>4. CASE \/ \E id \in DOMAIN fj.wal : wal_gc(id)
             \/ recover_wal \/ ReplayTorn \/ ReplayEnd
             \/ \E e \in Entries : ReplayRecord(e)
    <2>1. SameEntries(fj, fj')
      BY <1>4, ReplayFjall
    <2> QED
      BY <1>4, <2>1, Zenon DEF wal_gc, recover_wal, ReplayTorn, ReplayEnd, ReplayRecord, fileVars, walVars
  <1>5. CASE FjallSync \/ Boot \/ ReplayOpen \/ ReplayPadding \/ RecoveryDone
    BY <1>5 DEF FjallSync, Boot, ReplayOpen, ReplayPadding, RecoveryDone, fileVars, walVars, SameEntries
  <1> QED
    BY <1>1, <1>2, <1>3, <1>4, <1>5 DEF Next, Recover

\* The flush loop's segment stays the newest file.
LEMMA FlushNext ==
    ASSUME IInv, Next
    PROVE  FlushInv'
  <1>0. FlushInv /\ Bounded(DOMAIN entryFile') /\ Maps(fj)
    BY FilesGrow DEF IInv, FjallInv
  <1>f. flush = [at |-> flush.at, id |-> flush.id, batch |-> flush.batch]
    BY <1>0 DEF FlushInv
  <1>1. CASE FlushStart
    <2>1. PICK n \in Nat : /\ OpenSegment(n, [id \in DOMAIN fj.entry |-> "Local"])
                           /\ \A id \in DOMAIN entryFile : id < n
                           /\ n \notin DOMAIN entryFile
      BY <1>1, FreshAtStart
    <2>2. flush' = [at |-> "wait", id |-> n, batch |-> {}] /\ phase' = "serve" /\ phase = "serve"
      BY <1>1, <2>1 DEF OpenSegment, FlushStart
    <2>3. DOMAIN entryFile' = DOMAIN entryFile \cup {n}
      BY <2>1, OpenGrows, Zenon
    <2>4. n \in DOMAIN fj'.entry
      BY <1>1, <2>2, RegisterSpec
    <2>5. \A id \in DOMAIN entryFile' : id <= n
      BY <1>0, <2>1, <2>3 DEF FlushInv, Bounded
    <2> QED
      BY <1>0, <2>2, <2>3, <2>4, <2>5 DEF FlushInv
  <1>2. CASE drain_hot_to_warm
    <2>1. flush' = [at |-> "write", id |-> flush.id, batch |-> hot]
      BY <1>2, <1>f, Zenon DEF drain_hot_to_warm
    <2>2. warm' = warm \cup hot /\ UNCHANGED <<entryFile, fj, phase>> /\ flush.at = "wait"
      BY <1>2 DEF drain_hot_to_warm, fileVars, walVars
    <2> QED
      BY <1>0, <2>1, <2>2 DEF FlushInv
  <1>3. CASE FlushSynced
    <2>1. flush' = [at |-> "index", id |-> flush.id, batch |-> flush.batch]
      BY <1>3, <1>f DEF FlushSynced
    <2>2. UNCHANGED <<warm, fj, phase>> /\ flush.at = "write"
          /\ entryFile' = [entryFile EXCEPT ![flush.id] = entryFile[flush.id] \cup flush.batch]
      BY <1>3 DEF FlushSynced
    <2>3. DOMAIN entryFile' = DOMAIN entryFile /\ flush.batch \subseteq entryFile'[flush.id]
      BY <1>0, <2>2 DEF FlushInv
    <2> QED
      BY <1>0, <2>1, <2>2, <2>3 DEF FlushInv
  <1>4. CASE FlushFails
    <2>1. flush' = [at |-> "dead", id |-> flush.id, batch |-> flush.batch]
      BY <1>4, <1>f DEF FlushFails
    <2>2. UNCHANGED <<warm, entryFile, fj, phase>> /\ flush.at \in {"write", "index"}
      BY <1>4 DEF FlushFails, fileVars, walVars
    <2> QED
      BY <1>0, <2>1, <2>2 DEF FlushInv
  <1>5. CASE FlushRegister
    <2>0. flush.at = "index" /\ flush.batch = {} /\ phase' = phase
      BY <1>5 DEF FlushRegister
    <2>1. flush'.id \in DOMAIN fj'.entry
      BY <1>5, RegisterSpec
    <2>2. CASE UNCHANGED <<warm, entryFile>> /\ flush' = [flush EXCEPT !.at = "wait"]
      <3>1. flush' = [at |-> "wait", id |-> flush.id, batch |-> {}]
        BY <1>f, <2>0, <2>2
      <3> QED
        BY <1>0, <2>0, <2>1, <2>2, <3>1 DEF FlushInv
    <2>3. CASE warm' = {} /\ OpenSegment(flush.id + 1, Put(fj.entry, flush.id, "Local"))
      <3>1. PICK n : n = flush.id + 1
        OBVIOUS
      <3>2. n \notin DOMAIN entryFile /\ \A id \in DOMAIN entryFile \cup {n} : id <= n
        BY <2>0, <3>1, FreshAtSeal
      <3>3. flush' = [at |-> "wait", id |-> n, batch |-> {}]
        BY <2>3, <3>1 DEF OpenSegment
      <3>4. DOMAIN entryFile' = DOMAIN entryFile \cup {n}
        BY <2>3, <3>1, <3>2, OpenGrows, Zenon
      <3> QED
        BY <1>0, <2>0, <2>1, <2>3, <3>2, <3>3, <3>4 DEF FlushInv
    <2> QED
      BY <1>5, <2>2, <2>3 DEF FlushRegister
  <1>6. CASE \E e \in flush.batch : FlushIndex(e)
    <2>1. PICK e \in flush.batch : FlushIndex(e)
      BY <1>6
    <2>2. flush' = [at |-> "index", id |-> flush.id, batch |-> flush.batch \ {e}] /\ flush.at = "index"
      BY <1>f, <2>1 DEF FlushIndex
    <2>3. UNCHANGED <<warm, entryFile, phase>> /\ fj'.entry = fj.entry
      BY <2>1, IndexSpec, Zenon DEF FlushIndex, fileVars, walVars
    <2> QED
      BY <1>0, <2>2, <2>3 DEF FlushInv
  <1>7. CASE \E kept \in SUBSET flush.batch : Crash(kept)
    <2>1. flush' = [at |-> "down", id |-> 0, batch |-> {}] /\ warm' = {}
      BY <1>7 DEF Crash, NoFlush
    <2> QED
      BY <1>0, <2>1 DEF FlushInv
  <1>8. CASE recover_entry_segments
    <2>1. UNCHANGED <<flush, entryFile, warm>> /\ phase # "serve"
      BY <1>8 DEF recover_entry_segments, fileVars, walVars
    <2> QED
      BY <1>0, <2>1 DEF FlushInv
  <1>9. CASE /\ UNCHANGED <<flush, entryFile, warm>> /\ SameEntries(fj, fj')
             /\ UNCHANGED phase \/ phase \in {"down", "register", "replay"}
    BY <1>0, <1>9 DEF FlushInv, SameEntries
  <1> QED
    BY <1>1, <1>2, <1>3, <1>4, <1>5, <1>6, <1>7, <1>8, <1>9, FlushSteps, Zenon

\* What leaves the cache is indexed.
LEMMA CacheNext ==
    ASSUME IInv, Next
    PROVE  CacheInv'
  <1>0. CacheInv /\ FlushInv
    BY DEF IInv
  <1>f. flush = [at |-> flush.at, id |-> flush.id, batch |-> flush.batch]
    BY <1>0 DEF FlushInv
  <1>1. CASE FlushStart
    <2>1. PICK n \in Nat : /\ OpenSegment(n, [id \in DOMAIN fj.entry |-> "Local"])
                           /\ n \notin DOMAIN entryFile
      BY <1>1, FreshAtStart
    <2>2. flush'.at = "wait" /\ flush'.batch = {}
      BY <2>1 DEF OpenSegment
    <2>3. UNCHANGED <<hot, warm, session, phase>> /\ flush.at = "down" /\ phase = "serve"
      BY <1>1 DEF FlushStart
    <2>4. fj'.entryIndex = fj.entryIndex /\ \A e \in Entries : FilesWith(e)' = FilesWith(e)
      BY <1>1, <2>1, RegisterSpec, OpenGrows, Zenon
    <2> QED
      BY <1>0, <2>2, <2>3, <2>4 DEF CacheInv, FlushInv, Indexed
  <1>2. CASE drain_hot_to_warm
    <2>1. flush'.at = "write" /\ flush'.batch = hot
      BY <1>2, <1>f DEF drain_hot_to_warm
    <2>2. hot' = {} /\ warm' = warm \cup hot /\ UNCHANGED <<entryFile, fj, phase, session>> /\ flush.at = "wait"
      BY <1>2 DEF drain_hot_to_warm, fileVars, walVars
    <2>3. flush.batch = {} /\ \A e \in Entries : FilesWith(e)' = FilesWith(e)
      BY <1>0, <2>2 DEF FlushInv, FilesWith
    <2> QED
      BY <1>0, <2>1, <2>2, <2>3 DEF CacheInv, Indexed
  <1>3. CASE FlushSynced
    <2>1. flush'.at = "index" /\ flush'.batch = flush.batch
      BY <1>3, <1>f DEF FlushSynced
    <2>2. UNCHANGED <<hot, warm, session, fj, phase>> /\ flush.at = "write"
          /\ entryFile' = [entryFile EXCEPT ![flush.id] = entryFile[flush.id] \cup flush.batch]
      BY <1>3 DEF FlushSynced
    <2>3. \A e \in Entries : FilesWith(e)' # {} => FilesWith(e) # {} \/ e \in flush.batch
      BY <1>0, <2>2 DEF FlushInv, FilesWith
    <2> QED
      BY <1>0, <2>1, <2>2, <2>3 DEF CacheInv, Indexed
  <1>4. CASE FlushFails
    <2>1. flush'.at = "dead" /\ flush'.batch = flush.batch
      BY <1>4, <1>f DEF FlushFails
    <2>2. UNCHANGED <<hot, warm, session, entryFile, fj, phase>>
      BY <1>4 DEF FlushFails, fileVars, walVars
    <2>3. \A e \in Entries : FilesWith(e)' = FilesWith(e)
      BY <2>2 DEF FilesWith
    <2> QED
      BY <1>0, <2>1, <2>2, <2>3 DEF CacheInv, Indexed
  <1>5. CASE FlushRegister
    <2>0. flush.at = "index" /\ flush.batch = {} /\ UNCHANGED <<hot, session, phase>>
          /\ fj'.entryIndex = fj.entryIndex
      BY <1>5, RegisterSpec DEF FlushRegister
    <2>1. warm' \subseteq warm /\ \A e \in warm : e \in warm' \/ Indexed(fj, e)
      BY <1>0, <1>5 DEF FlushRegister, CacheInv
    <2>2. flush'.at = "wait" /\ flush'.batch = {}
      BY <1>5, <1>f DEF FlushRegister, OpenSegment
    <2>3. \A e \in Entries : FilesWith(e)' = FilesWith(e)
      <3>1. CASE UNCHANGED entryFile
        BY <3>1 DEF FilesWith
      <3>2. CASE OpenSegment(flush.id + 1, Put(fj.entry, flush.id, "Local"))
        BY <2>0, <3>2, FreshAtSeal, OpenGrows, Zenon
      <3> QED
        BY <1>5, <3>1, <3>2 DEF FlushRegister
    <2> QED
      BY <1>0, <2>0, <2>1, <2>2, <2>3 DEF CacheInv, Indexed
  <1>6. CASE \E e \in flush.batch : FlushIndex(e)
    <2>1. PICK e \in flush.batch : FlushIndex(e)
      BY <1>6
    <2>2. flush'.at = "index" /\ flush'.batch = flush.batch \ {e} /\ flush.at = "index"
      BY <1>f, <2>1 DEF FlushIndex
    <2>3. UNCHANGED <<hot, warm, session, entryFile, phase>>
      BY <2>1 DEF FlushIndex, fileVars, walVars
    <2>4. Indexed(fj', e) /\ \A d \in Entries : Indexed(fj, d) => Indexed(fj', d)
      <3>1. NoSegment \notin Nat /\ fj.entryIndex \in [Entries -> Nat \cup {NoSegment}]
        BY DEF NoSegment, IInv, FjallInv
      <3> QED
        BY <2>1, <3>1, IndexSpec, Zenon DEF Indexed
    <2>5. \A d \in Entries : FilesWith(d)' = FilesWith(d)
      BY <2>3 DEF FilesWith
    <2> QED
      BY <1>0, <2>2, <2>3, <2>4, <2>5 DEF CacheInv
  <1>7. CASE \E kept \in SUBSET flush.batch : Crash(kept)
    <2>1. phase' = "down" /\ hot' = {} /\ warm' = {} /\ session' = {}
      BY <1>7 DEF Crash
    <2> QED
      BY <2>1 DEF CacheInv
  <1>8. CASE recover_entry_segments
    <2>1. UNCHANGED <<flush, entryFile, hot, warm, session>>
      BY <1>8 DEF recover_entry_segments, fileVars, walVars
    <2>2. \A e \in Entries : FilesWith(e)' = FilesWith(e)
      BY <2>1 DEF FilesWith
    <2>3. \A e \in Entries : Indexed(fj, e) => Indexed(fj', e)
      <3>1. DOMAIN entryFile \subseteq Nat /\ NoSegment \notin Nat
        BY <1>0 DEF FlushInv, Bounded, NoSegment
      <3> QED
        BY <1>8, <3>1, RecoverSpec DEF Indexed, FilesWith
    <2> QED
      BY <1>0, <1>8, <2>1, <2>2, <2>3, RecoverSpec DEF CacheInv
  <1>9. CASE /\ UNCHANGED <<flush, entryFile, warm>> /\ SameEntries(fj, fj')
             /\ \/ UNCHANGED phase
                \/ phase = "down" /\ phase' = "entries"
                \/ phase = "register" /\ phase' = "replay"
                \/ phase = "replay" /\ phase' = "serve"
             /\ \/ UNCHANGED <<hot, session>>
                \/ \E e \in Entries : /\ hot' = hot \cup {e} \/ (hot' = hot /\ e \in warm)
                                      /\ session' = session \cup {e}
                \/ \E e \in Entries : hot' = hot \cup {e} /\ session' = session
    <2>1. \A e \in Entries : FilesWith(e)' = FilesWith(e) /\ (Indexed(fj', e) <=> Indexed(fj, e))
      BY <1>9 DEF FilesWith, Indexed, SameEntries
    <2>2. hot' \subseteq Entries /\ session' \subseteq Entries /\ hot \subseteq hot'
          /\ \A e \in session' : e \in session \/ e \in hot' \cup warm
      BY <1>0, <1>9 DEF CacheInv
    <2> QED
      BY <1>0, <1>9, <2>1, <2>2 DEF CacheInv
  <1> QED
    BY <1>1, <1>2, <1>3, <1>4, <1>5, <1>6, <1>7, <1>8, <1>9, FlushSteps

----------------------------------------------------------------------------
(* The theorems *)

\* An empty data directory satisfies it.
LEMMA IInvInit ==
    Init => IInv
  <1> SUFFICES ASSUME Init PROVE IInv
    OBVIOUS
  <1>1. Bounded({})
    BY DEF Bounded
  <1>2. DOMAIN wal = {} /\ DOMAIN entryFile = {} /\ Sealed = {}
    BY DEF Init, Sealed
  <1>3. FjallInv(EmptyFjall, entryFile)
    <2>1. EmptyFjall.entryIndex = [e \in Entries |-> NoSegment] /\ Maps(EmptyFjall)
      BY DEF Maps, EmptyFjall
    <2>2. DOMAIN EmptyFjall.wal = {} /\ DOMAIN EmptyFjall.entry = {}
      BY DEF EmptyFjall
    <2>3. \A e \in Entries : ~Indexed(EmptyFjall, e)
      BY <2>1 DEF Indexed
    <2> QED
      BY <1>1, <2>1, <2>2, <2>3 DEF FjallInv
  <1>4. JournalInv
    BY <1>1, <1>2 DEF Init, JournalInv, Stopped
  <1>5. FlushInv
    BY <1>1, <1>2 DEF Init, FlushInv, NoFlush
  <1>6. CacheInv
    BY DEF Init, CacheInv
  <1> QED
    BY <1>3, <1>4, <1>5, <1>6 DEF Init, IInv

\* Every step keeps it.
LEMMA IInvNext ==
    IInv /\ [Next]_vars => IInv'
  <1> SUFFICES ASSUME IInv, [Next]_vars PROVE IInv'
    OBVIOUS
  <1>1. CASE Next
    BY <1>1, FjallNext, JournalNext, FlushNext, CacheNext DEF IInv
  <1>2. CASE UNCHANGED vars
    <2>1. UNCHANGED <<wal, entryFile, fj, durable, phase, journal, hot, warm, flush, session>>
      BY <1>2 DEF vars, fileVars, walVars
    <2>2. Sealed' = Sealed /\ \A e \in Entries : FilesWith(e)' = FilesWith(e)
      BY <2>1 DEF Sealed, FilesWith
    <2> QED
      BY <2>1, <2>2, Zenon DEF IInv, FjallInv, JournalInv, FlushInv, CacheInv
  <1> QED
    BY <1>1, <1>2

\* The inductive invariant holds of every reachable state.
THEOREM Invariant == Spec => []IInv
  BY IInvInit, IInvNext, PTL DEF Spec

\* An entry in the cache or in entry_index is served by read_entry.
LEMMA CachedOrIndexed ==
    ASSUME IInv, NEW e \in Entries, e \in hot \cup warm \/ Indexed(fj, e)
    PROVE  Readable(e)
  BY Zenon DEF IInv, FjallInv, Indexed, Readable

\* An entry acknowledged since the process started is readable at every
\* moment, however add_entry, the journal thread, the flush loop, wal_gc and
\* failed writes interleave: evict_warm drops only what entry_index names.
THEOREM SessionAlwaysReadable == Spec => []SessionReadable
  <1>1. IInv => SessionReadable
    BY CachedOrIndexed, Zenon DEF IInv, CacheInv, SessionReadable
  <1> QED
    BY <1>1, Invariant, PTL

\* An entry in a synced EntrySegment is served by every process that finishes
\* recovery, after any number of crashes and whatever of Fjall they took back.
THEOREM FlushedAlwaysReadable == Spec => []FlushedReadable
  <1>1. IInv => FlushedReadable
    <2> SUFFICES ASSUME IInv, phase = "serve", NEW e \in Entries, FilesWith(e) # {}
                 PROVE  Readable(e)
      BY DEF FlushedReadable
    <2>1. Indexed(fj, e) \/ e \in warm
      BY DEF IInv, CacheInv, FlushInv
    <2> QED
      BY <2>1, CachedOrIndexed
  <1> QED
    BY <1>1, Invariant, PTL

\* do_seal never renames active.seg over a sealed segment, after any number of
\* crashes that took the registry back: boot scans the directory too.
THEOREM SealIdAlwaysFresh == Spec => []SealIdFresh
  <1>1. IInv => SealIdFresh
    <2> SUFFICES ASSUME IInv, journal.at = "seal", journal.id \in Sealed
                 PROVE  FALSE
      BY DEF SealIdFresh
    <2>1. journal.id < journal.id /\ journal.id \in Nat
      BY DEF IInv, JournalInv
    <2> QED
      BY <2>1
  <1> QED
    BY <1>1, Invariant, PTL

\* TieredReader never meets an entry segment that is not in the registry, nor
\* a file without the entry: entry_index is sound in use and on the disk.
THEOREM IndexAlwaysSound == Spec => []IndexSound
  <1>1. IInv => IndexSound
    BY DEF IInv, FjallInv, Indexed, IndexSound
  <1> QED
    BY <1>1, Invariant, PTL

\* open_active_segment truncates only new paths, and no step, a crash
\* included, takes a file or an entry back.
THEOREM FilesNeverShrink == Spec => FilesAppendOnly
  <1>1. IInv /\ [Next]_vars =>
            [/\ DOMAIN entryFile \subseteq DOMAIN entryFile'
             /\ \A id \in DOMAIN entryFile : entryFile[id] \subseteq entryFile'[id]]_vars
    BY FilesGrow DEF Grown
  <1> QED
    BY <1>1, Invariant, PTL DEF Spec, FilesAppendOnly

----------------------------------------------------------------------------
(* Blocks and records *)

\* A multiple of the block size.
Aligned(k) == \E q \in Nat : k = q * Align

\* It leaves no remainder.
LEMMA AlignedSpec ==
    ASSUME NEW k, Aligned(k)
    PROVE  k \in Nat /\ k % Align = 0
  BY EngineConstants DEF Aligned

\* The sum of two block boundaries is one.
LEMMA AlignedSum ==
    ASSUME NEW k, NEW l, Aligned(k), Aligned(l)
    PROVE  Aligned(k + l)
  <1>1. PICK q \in Nat, r \in Nat : k = q * Align /\ l = r * Align
    BY DEF Aligned
  <1>2. q + r \in Nat /\ k + l = (q + r) * Align
    BY <1>1, EngineConstants
  <1> QED
    BY <1>2 DEF Aligned

\* resume_offset and padded_aligned round to blocks, down and up.
LEMMA Rounding ==
    ASSUME NEW k \in Nat
    PROVE  /\ Aligned(RoundDown(k)) /\ Aligned(RoundUp(k))
           /\ RoundUp(k) \in Nat /\ RoundUp(k) >= k
  <1>1. k \div Align \in Nat
    BY EngineConstants
  <1>2. (k + Align - 1) \div Align \in Nat
    <2>1. k + Align - 1 \in Nat
      BY EngineConstants
    <2> QED
      BY <2>1, EngineConstants
  <1>3. Aligned(RoundDown(k)) /\ Aligned(RoundUp(k))
    BY <1>1, <1>2 DEF Aligned, RoundDown, RoundUp
  <1>4. ((k + Align - 1) \div Align) * Align >= k
    BY EngineConstants
  <1> QED
    BY <1>3, <1>4, AlignedSpec DEF RoundUp

\* A record is a sequence of units.
LEMMA RecordType ==
    ASSUME NEW e \in Entries
    PROVE  Record(e) \in Seq(Unit)
  <1>1. Size[e] \in Nat
    BY EngineConstants
  <1>2. \A i \in 1..Size[e] : <<e, i>> \in Unit
    BY <1>1 DEF Unit
  <1> QED
    BY <1>1, <1>2 DEF Record

\* The units of f from q on are the record of e.
RecordAt(f, q, e) == \A i \in 1..Size[e] : f[q + i] = <<e, i>>

\* decode_record finds e at pos when the units there are those of its record.
LEMMA DecodesSpec ==
    ASSUME NEW f \in Seq(Unit), NEW pos \in Nat, NEW e \in Entries
    PROVE  Decodes(f, pos, e) <=> pos + Size[e] <= Len(f) /\ RecordAt(f, pos, e)
  <1>1. Size[e] \in Nat \ {0}
    BY EngineConstants
  <1> SUFFICES ASSUME pos + Size[e] <= Len(f)
               PROVE  SubSeq(f, pos + 1, pos + Size[e]) = Record(e) <=> RecordAt(f, pos, e)
    BY DEF Decodes
  <1>2. SubSeq(f, pos + 1, pos + Size[e]) = [i \in 1..Size[e] |-> f[pos + i]]
    BY <1>1
  <1>3. Record(e) = [i \in 1..Size[e] |-> <<e, i>>]
    BY DEF Record
  <1> QED
    BY <1>2, <1>3, Zenon DEF RecordAt

\* The same, for a synced record.
LEMMA SyncedSpec ==
    ASSUME NEW f \in Seq(Unit), NEW n \in Nat, n <= Len(f), NEW q \in Nat, NEW e \in Entries
    PROVE  /\ Synced(f, n, q, e) <=> q + Size[e] <= n /\ RecordAt(f, q, e)
           /\ Synced(f, n, q, e) => q < n /\ f[q + 1] = <<e, 1>> /\ f[q + 1] # Pad
  <1>1. Size[e] \in Nat \ {0} /\ 1 \in 1..Size[e] /\ Len(f) \in Nat
    BY EngineConstants
  <1>2. Decodes(f, q, e) <=> q + Size[e] <= Len(f) /\ RecordAt(f, q, e)
    BY DecodesSpec
  <1>3. RecordAt(f, q, e) => f[q + 1] = <<e, 1>>
    BY <1>1 DEF RecordAt
  <1>4. <<e, 1>> # Pad
    BY DEF Pad
  <1>5. Synced(f, n, q, e) <=> q + Size[e] <= n /\ RecordAt(f, q, e)
    BY <1>1, <1>2 DEF Synced
  <1>6. Synced(f, n, q, e) => q < n
    BY <1>1, <1>5
  <1>7. Synced(f, n, q, e) => f[q + 1] = <<e, 1>> /\ f[q + 1] # Pad
    BY <1>3, <1>4, <1>5, Zenon
  <1> QED
    BY <1>5, <1>6, <1>7

\* A unit of a synced record.
\* A buffer of whole records.
Whole(s) ==
    \A u \in 1..Len(s) : \E e \in Entries : \E q \in 0..(u - 1) : u <= q + Size[e] /\ Synced(s, Len(s), q, e)

\* AlignedBuffer::push adds a whole record.
LEMMA WholePush ==
    ASSUME NEW s \in Seq(Unit), Whole(s), NEW e \in Entries
    PROVE  Whole(s \o Record(e))
  <1>0. Len(s) \in Nat /\ Size[e] \in Nat /\ Record(e) \in Seq(Unit) /\ \A x \in Entries : Size[x] \in Nat
    BY RecordType, EngineConstants
  <1>1. PICK g : g = s \o Record(e)
    BY Zenon
  <1>2. PICK n \in Nat : n = Len(s)
    BY <1>0
  <1>3. Len(Record(e)) = Size[e] /\ \A i \in 1..Size[e] : Record(e)[i] = <<e, i>>
    BY <1>0 DEF Record
  <1>4. /\ g \in Seq(Unit) /\ Len(g) = n + Size[e]
        /\ \A u \in 1..n : g[u] = s[u]
    <2>1. g \in Seq(Unit) /\ Len(g) = Len(s) + Len(Record(e))
      BY <1>0, <1>1
    <2>2. \A u \in 1..Len(s) : g[u] = s[u]
      BY <1>0, <1>1
    <2> QED
      BY <1>2, <1>3, <2>1, <2>2
  <1>5. \A i \in 1..Size[e] : g[n + i] = <<e, i>>
    <2>1. \A i \in 1..Size[e] : g[n + i] = Record(e)[i]
      BY <1>0, <1>1, <1>2, <1>3
    <2> QED
      BY <1>3, <2>1
  <1>6. Synced(g, Len(g), n, e)
    <2>1. RecordAt(g, n, e)
      BY <1>5 DEF RecordAt
    <2>2. Len(g) \in Nat /\ n + Size[e] <= Len(g) /\ Len(g) <= Len(g)
      BY <1>0, <1>4
    <2> QED
      BY <1>4, <2>1, <2>2, SyncedSpec
  <1>7. ASSUME NEW x \in Entries, NEW q \in Nat, Synced(s, n, q, x)
        PROVE  Synced(g, Len(g), q, x)
    <2>1. q + Size[x] <= n /\ RecordAt(s, q, x)
      BY <1>2, <1>7, SyncedSpec
    <2>2. \A i \in 1..Size[x] : q + i \in 1..n
      BY <1>0, <2>1
    <2>3. RecordAt(g, q, x)
      BY <1>4, <2>1, <2>2 DEF RecordAt
    <2>4. Len(g) \in Nat /\ q + Size[x] <= Len(g)
      BY <1>0, <1>4, <2>1
    <2>5. Len(g) <= Len(g)
      BY <2>4
    <2> QED
      BY <1>4, <2>3, <2>4, <2>5, SyncedSpec
  <1>8. ASSUME NEW u \in 1..Len(g)
        PROVE  \E x \in Entries : \E q \in 0..(u - 1) : u <= q + Size[x] /\ Synced(g, Len(g), q, x)
    <2>1. CASE u <= n
      <3>1. u \in 1..Len(s) /\ u \in Nat
        BY <1>2, <1>4, <2>1
      <3>2. PICK x \in Entries, q \in 0..(u - 1) : u <= q + Size[x] /\ Synced(s, n, q, x)
        BY <1>2, <3>1 DEF Whole
      <3>3. q \in Nat
        BY <3>1, <3>2
      <3> QED
        BY <1>7, <3>2, <3>3
    <2>2. CASE u > n
      <3>1. n \in 0..(u - 1) /\ u <= n + Size[e]
        BY <1>0, <1>4, <2>2
      <3> QED
        BY <1>6, <3>1
    <2> QED
      BY <1>4, <2>1, <2>2
  <1> QED
    BY <1>1, <1>8 DEF Whole

\* What AlignedBuffer holds after n pushes.
Pushed(batch, n, f) == f = [i \in 0..n |-> IF i = 0 THEN <<>> ELSE f[i - 1] \o Record(batch[i])]

\* The buffer after each number of pushes is defined.
LEMMA PushedExists ==
    ASSUME NEW batch \in Seq(Entries), NEW n \in 0..Len(batch)
    PROVE  \E f : Pushed(batch, n, f)
  <1> DEFINE S == {m \in 0..Len(batch) : ~\E f : Pushed(batch, m, f)}
  <1> SUFFICES ASSUME S # {} PROVE FALSE
    OBVIOUS
  <1>0. S \in SUBSET Nat
    OBVIOUS
  <1>1. PICK x \in S : \A y \in S : x <= y
    <2> HIDE DEF S
    <2> QED
      BY <1>0, LeastNat
  <1>2. CASE x = 0
    <2>1. Pushed(batch, 0, [i \in 0..0 |-> <<>>])
      BY DEF Pushed
    <2> QED
      BY <1>1, <1>2, <2>1
  <1>3. CASE x # 0
    <2>1. x - 1 \in 0..Len(batch) /\ x - 1 \notin S
      BY <1>1, <1>3
    <2>2. PICK g : Pushed(batch, x - 1, g)
      BY <2>1
    <2> DEFINE h == [i \in 0..x |-> IF i = x THEN g[x - 1] \o Record(batch[x]) ELSE g[i]]
    <2>3. ASSUME NEW i \in 0..x
          PROVE  h[i] = IF i = 0 THEN <<>> ELSE h[i - 1] \o Record(batch[i])
      <3>0. x \in Nat /\ x \in 0..x /\ x - 1 \in 0..x /\ x - 1 # x
        <4> HIDE DEF h, S
        <4> QED
          BY <1>0, <1>1, <1>3
      <3>1. CASE i = x
        <4>1. h[x] = g[x - 1] \o Record(batch[x]) /\ h[x - 1] = g[x - 1]
          BY <3>0, Zenon
        <4> HIDE DEF h
        <4> QED
          BY <1>3, <3>1, <4>1, Zenon
      <3>2. CASE i # x
        <4>1. i \in 0..(x - 1) /\ h[i] = g[i]
          BY <1>1, <2>1, <3>2
        <4>2. i # 0 => i - 1 \in 0..x /\ i - 1 # x /\ h[i - 1] = g[i - 1]
          BY <1>1, <2>1, <4>1
        <4>3. g[i] = IF i = 0 THEN <<>> ELSE g[i - 1] \o Record(batch[i])
          BY <2>2, <4>1, Zenon DEF Pushed
        <4> QED
          BY <4>1, <4>2, <4>3
      <3> QED
        BY <3>1, <3>2, Zenon
    <2>4. DOMAIN h = 0..x /\ h = [i \in 0..x |-> h[i]]
      OBVIOUS
    <2> HIDE DEF h
    <2>5. Pushed(batch, x, h)
      BY <2>3, <2>4 DEF Pushed
    <2> QED
      BY <1>1, <2>5
  <1> QED
    BY <1>2, <1>3

\* What AlignedBuffer holds after all pushes are whole records.
LEMMA PushedWhole ==
    ASSUME NEW batch \in Seq(Entries), NEW f, Pushed(batch, Len(batch), f)
    PROVE  f[Len(batch)] \in Seq(Unit) /\ Whole(f[Len(batch)])
  <1> DEFINE S == {m \in 0..Len(batch) : ~(f[m] \in Seq(Unit) /\ Whole(f[m]))}
  <1> SUFFICES ASSUME S # {} PROVE FALSE
    OBVIOUS
  <1>0. Len(batch) \in Nat /\ S \in SUBSET Nat
    OBVIOUS
  <1>1. PICK x \in S : \A y \in S : x <= y
    <2> HIDE DEF S
    <2> QED
      BY <1>0, LeastNat
  <1>2. x \in 0..Len(batch) /\ f[x] = IF x = 0 THEN <<>> ELSE f[x - 1] \o Record(batch[x])
    BY <1>1, Zenon DEF Pushed
  <1>3. CASE x = 0
    <2>1. <<>> \in Seq(Unit) /\ Whole(<<>>) /\ f[x] = <<>>
      BY <1>2, <1>3 DEF Whole
    <2> QED
      BY <1>1, <2>1, Zenon
  <1>4. CASE x # 0
    <2>1. x - 1 \in 0..Len(batch) /\ x - 1 \notin S /\ x \in 1..Len(batch)
      BY <1>0, <1>1, <1>2, <1>4
    <2>2. batch[x] \in Entries
      BY <2>1
    <2>3. f[x - 1] \in Seq(Unit) /\ Whole(f[x - 1]) /\ Record(batch[x]) \in Seq(Unit)
      BY <2>1, <2>2, RecordType
    <2>4. f[x - 1] \o Record(batch[x]) \in Seq(Unit) /\ Whole(f[x - 1] \o Record(batch[x]))
      BY <2>2, <2>3, WholePush
    <2>5. f[x] \in Seq(Unit) /\ Whole(f[x])
      BY <1>2, <1>4, <2>4
    <2> QED
      BY <1>1, <2>5
  <1> QED
    BY <1>3, <1>4

\* The buffer a batch is written from is a sequence of whole blocks.
LEMMA BytesType ==
    ASSUME NEW batch \in Seq(Entries)
    PROVE  Bytes(batch) \in Seq(Unit) /\ Aligned(Len(Bytes(batch)))
  <1> DEFINE p == CHOOSE f : Pushed(batch, Len(batch), f)
  <1>1. Pushed(batch, Len(batch), p)
    <2>1. Len(batch) \in 0..Len(batch)
      OBVIOUS
    <2> QED
      BY <2>1, PushedExists
  <1>2. PICK s : s = p[Len(batch)]
    BY Zenon
  <1>3. s \in Seq(Unit)
    BY <1>1, <1>2, PushedWhole
  <1>4. Bytes(batch) = Padded(s)
    BY <1>2 DEF Bytes, Pushed
  <1>5. RoundUp(Len(s)) \in Nat /\ Aligned(RoundUp(Len(s)))
    BY <1>3, Rounding
  <1>6. \A i \in 1..RoundUp(Len(s)) : (IF i <= Len(s) THEN s[i] ELSE Pad) \in Unit
    BY <1>3, <1>5 DEF Unit
  <1> QED
    BY <1>4, <1>5, <1>6 DEF Padded

\* write_at.
LEMMA WriteAtType ==
    ASSUME NEW f \in Seq(Unit), NEW off \in Nat, NEW s \in Seq(Unit)
    PROVE  WriteAt(f, off, s) \in Seq(Unit)
  <1>1. PICK n : n = Greatest({Len(f), off + Len(s)})
    OBVIOUS
  <1>2. n \in Nat
    <2>1. Len(f) \in Nat /\ off + Len(s) \in Nat
      OBVIOUS
    <2>2. \E x \in {Len(f), off + Len(s)} : \A y \in {Len(f), off + Len(s)} : y <= x
      BY <2>1
    <2>3. n \in {Len(f), off + Len(s)}
      BY <1>1, <2>2 DEF Greatest
    <2> QED
      BY <2>1, <2>3
  <1>3. \A i \in 1..n : (IF i > off /\ i <= off + Len(s) THEN s[i - off]
                         ELSE IF i <= Len(f) THEN f[i] ELSE Pad) \in Unit
    BY <1>2 DEF Unit
  <1> DEFINE g == [i \in 1..n |-> IF i > off /\ i <= off + Len(s) THEN s[i - off]
                                 ELSE IF i <= Len(f) THEN f[i] ELSE Pad]
  <1>4. WriteAt(f, off, s) = g
    BY <1>1 DEF WriteAt
  <1>5. g \in [1..n -> Unit]
    BY <1>3
  <1> HIDE DEF g
  <1> QED
    BY <1>2, <1>4, <1>5

----------------------------------------------------------------------------
(* Types *)

\* The largest WAL segment id in use.  Only a crash and a boot raise it: a seal
\* stops at MaxSegment, and boot takes the id after the largest it finds.
Limit == MaxSegment + crashes - (IF phase = "down" THEN 1 ELSE 0)

\* The part of TypeOK about Fjall, with the limit that makes it inductive.
FjallTypes(f, limit) ==
    /\ f.walIndex \in [Entries -> [id : Ids \cup {NoSegment}, pos : Nat]]
    /\ \A id \in DOMAIN f.checkpoint : f.checkpoint[id] \in Nat
    /\ \A id \in DOMAIN f.wal :
          /\ id <= limit
          /\ f.wal[id] \in [status : {"Active", "Local", "Deleted"}, path : {id, ActiveSeg}]
    /\ \A id \in DOMAIN f.entry : f.entry[id] \in {"Active", "Local"}

\* The WAL files, and the journal thread's place in active.seg.
WalTypes ==
    /\ \A path \in DOMAIN wal : wal[path] \in Seq(Unit)
    /\ \A path \in Sealed : path < MaxSegment
    /\ journal.at \in {"down", "starting", "run", "seal", "renamed", "registered"}
    /\ IF journal.at = "down" THEN journal.id = 0 ELSE journal.id <= Limit
    /\ journal.at \in {"seal", "renamed", "registered"} => journal.id < MaxSegment
    /\ Aligned(journal.off)

\* The sets of entries.
EntryTypes ==
    /\ \A id \in DOMAIN entryFile : entryFile[id] \subseteq Entries
    /\ written \subseteq Entries /\ acked \subseteq Entries

\* The replay, and the bounds.
ReplayTypes ==
    /\ replay = [todo |-> replay.todo, pos |-> replay.pos, valid |-> replay.valid, open |-> replay.open]
    /\ replay.todo \subseteq Ids
    /\ replay.pos \in Nat /\ replay.valid \in Nat /\ replay.valid <= replay.pos
    /\ phase \in {"down", "entries", "register", "replay", "serve"}
    /\ errors \in 0..MaxErrors /\ crashes \in 0..MaxCrashes

TInv == FjallTypes(fj, Limit) /\ FjallTypes(durable, Limit) /\ WalTypes /\ EntryTypes /\ ReplayTypes

\* Every number the model bounds a WAL id by.
LEMMA LimitSpec ==
    ASSUME TInv
    PROVE  /\ Limit \in Int /\ Limit <= MaxSegment + MaxCrashes
           /\ \A id \in Nat : id <= Limit + 1 => id \in Ids
  BY EngineConstants DEF TInv, ReplayTypes, Limit, Ids

\* The limit never falls, and boot raises it by one.
LEMMA LimitStep ==
    ASSUME IInv, TInv, Next
    PROVE  Limit' \in Int /\ Limit <= Limit' /\ (Boot => Limit' = Limit + 1)
  <1>0. MaxSegment \in Nat /\ crashes \in Nat
    BY EngineConstants DEF TInv, ReplayTypes
  <1>1. CASE \E kept \in SUBSET flush.batch : Crash(kept)
    BY <1>0, <1>1 DEF Crash, Boot, Limit
  <1>2. CASE Boot
    BY <1>0, <1>2 DEF Boot, Limit, boundVars
  <1>3. CASE ~Boot /\ crashes' = crashes /\ (phase' = "down" <=> phase = "down")
    BY <1>0, <1>3 DEF Limit
  <1>4. \/ \E kept \in SUBSET flush.batch : Crash(kept)
        \/ Boot
        \/ crashes' = crashes /\ (phase' = "down" <=> phase = "down")
    BY Zenon DEF Next, Journal, Flush, Recover, boundVars, AddReturns, JournalStart, seal, SealRename, SealFails,
           SealRegister, SealReopen, BatchWritten, BatchFails, FlushStart, drain_hot_to_warm, FlushSynced,
           FlushFails, FlushIndex, FlushRegister, wal_gc, FjallSync, recover_entry_segments, recover_wal,
           ReplayOpen, ReplayPadding, ReplayTorn, ReplayEnd, RecoveryDone, ReplayRecord
  <1> QED
    BY <1>1, <1>2, <1>3, <1>4

\* The segment under replay has an id.
LEMMA SegmentId ==
    ASSUME TInv, replay.todo # {}
    PROVE  Segment \in replay.todo /\ Segment \in Ids
  <1>1. replay.todo \in SUBSET Nat /\ replay.todo \subseteq Ids
    BY EngineConstants DEF TInv, ReplayTypes, Ids
  <1> QED
    BY <1>1, LeastSpec DEF Segment

\* A batch is a sequence of entries.
LEMMA BatchType ==
    ASSUME NEW batch \in Batches
    PROVE  batch \in Seq(Entries) /\ Range(batch) \subseteq Entries
  <1>1. PICK k \in 1..MaxBatch : batch \in [1..k -> {e \in Entries : MayAdd(e)}]
    BY DEF Batches
  <1>2. k \in Nat /\ batch \in [1..k -> Entries]
    BY <1>1, EngineConstants
  <1> QED
    BY <1>2 DEF Range

\* The file at a path is a sequence of units, also when there is none.
LEMMA FileType ==
    ASSUME TInv, NEW path
    PROVE  File(path) \in Seq(Unit)
  BY DEF TInv, WalTypes, File

\* The WAL files hold records and padding, and the journal writes at a block.
LEMMA WalTypesNext ==
    ASSUME IInv, TInv, Next
    PROVE  WalTypes'
  <1>0. WalTypes /\ journal.id \in Nat /\ journal = [at |-> journal.at, id |-> journal.id, off |-> journal.off]
        /\ Limit \in Int /\ Limit' \in Int /\ Limit <= Limit' /\ MaxSegment \in Nat
    BY LimitSpec, LimitStep, EngineConstants DEF IInv, JournalInv, TInv
  <1>1. CASE JournalStart
    <2>1. wal' = Put(wal, ActiveSeg, File(ActiveSeg)) /\ File(ActiveSeg) \in Seq(Unit)
      BY <1>1, FileType DEF JournalStart
    <2>2. Sealed' = Sealed /\ \A path \in DOMAIN wal' : wal'[path] \in Seq(Unit)
      BY <1>0, <2>1 DEF WalTypes, Put, Sealed
    <2>3. journal' = [at |-> "run", id |-> journal.id, off |-> RoundDown(Len(File(ActiveSeg)))]
          /\ journal.at = "starting"
      BY <1>0, <1>1, Zenon DEF JournalStart
    <2>4. Aligned(RoundDown(Len(File(ActiveSeg))))
      BY <2>1, Rounding
    <2> QED
      BY <1>0, <2>2, <2>3, <2>4 DEF WalTypes
  <1>2. CASE seal \/ SealFails
    <2>1. /\ journal' = [at |-> journal'.at, id |-> journal.id, off |-> journal.off]
          /\ journal'.at \in {"run", "seal"}
          /\ journal'.at = "seal" => journal.id < MaxSegment
          /\ journal.at \in {"run", "seal"}
      BY <1>0, <1>2 DEF seal, SealFails
    <2>2. UNCHANGED wal /\ Sealed' = Sealed
      BY <1>2 DEF seal, SealFails, fileVars, walVars, Sealed
    <2> QED
      BY <1>0, <2>1, <2>2 DEF WalTypes
  <1>3. CASE \E batch \in Batches :
                \/ BatchWritten(batch)
                \/ \E k \in 0..Len(Bytes(batch)) : BatchFails(batch, k)
    <2>1. PICK batch \in Batches : \/ BatchWritten(batch)
                                   \/ \E k \in 0..Len(Bytes(batch)) : BatchFails(batch, k)
      BY <1>3
    <2>2. PICK b : b = Bytes(batch)
      OBVIOUS
    <2>3. b \in Seq(Unit) /\ Aligned(Len(b)) /\ Aligned(journal.off) /\ journal.off \in Nat
      BY <1>0, <2>2, BatchType, BytesType, AlignedSpec DEF WalTypes
    <2>4. Aligned(journal.off + Len(b))
      BY <2>3, AlignedSum
    <2>5. /\ journal' = [at |-> journal'.at, id |-> journal.id, off |-> journal'.off]
          /\ journal'.off \in {journal.off, journal.off + Len(b)}
          /\ journal'.at \in {"run", "seal"}
          /\ journal'.at = "seal" => journal.id < MaxSegment
          /\ journal.at = "run"
      BY <1>0, <2>1, <2>2, Zenon DEF BatchWritten, BatchFails, AfterBatch
    <2>6. PICK s \in Seq(Unit) : wal' = [wal EXCEPT ![ActiveSeg] = WriteAt(wal[ActiveSeg], journal.off, s)]
      <3>1. CASE BatchWritten(batch)
        BY <2>2, <2>3, <3>1, Zenon DEF BatchWritten
      <3>2. ASSUME NEW k \in 0..Len(b), BatchFails(batch, k)
            PROVE  \E s \in Seq(Unit) : wal' = [wal EXCEPT ![ActiveSeg] = WriteAt(wal[ActiveSeg], journal.off, s)]
        <4>1. SubSeq(b, 1, k) \in Seq(Unit)
          BY <2>3
        <4> QED
          BY <2>2, <3>2, <4>1, Zenon DEF BatchFails
      <3> QED
        BY <2>1, <2>2, <3>1, <3>2
    <2>7. ActiveSeg \in DOMAIN wal => WriteAt(wal[ActiveSeg], journal.off, s) \in Seq(Unit)
      BY <1>0, <2>3, <2>6, WriteAtType DEF WalTypes
    <2>8. Sealed' = Sealed /\ \A path \in DOMAIN wal' : wal'[path] \in Seq(Unit)
      BY <1>0, <2>6, <2>7 DEF WalTypes, Sealed
    <2> QED
      BY <1>0, <2>3, <2>4, <2>5, <2>8 DEF WalTypes
  <1>4. CASE SealRename
    <2>1. \A path \in DOMAIN wal' : wal'[path] \in Seq(Unit)
      BY <1>0, <1>4 DEF SealRename, Renamed, WalTypes
    <2>2. Sealed' \subseteq Sealed \cup {journal.id}
      BY <1>4 DEF SealRename, Renamed, Sealed
    <2>3. journal' = [at |-> "renamed", id |-> journal.id, off |-> journal.off] /\ journal.at = "seal"
      BY <1>0, <1>4 DEF SealRename
    <2> QED
      BY <1>0, <2>1, <2>2, <2>3 DEF WalTypes
  <1>5. CASE SealRegister
    <2>1. journal' = [at |-> "registered", id |-> journal.id, off |-> journal.off] /\ journal.at = "renamed"
      BY <1>0, <1>5 DEF SealRegister
    <2>2. UNCHANGED wal /\ Sealed' = Sealed
      BY <1>5 DEF SealRegister, fileVars, walVars, Sealed
    <2> QED
      BY <1>0, <2>1, <2>2 DEF WalTypes
  <1>6. CASE SealReopen
    <2>1. Sealed' = Sealed /\ \A path \in DOMAIN wal' : wal'[path] \in Seq(Unit)
      <3>1. wal' = Put(wal, ActiveSeg, <<>>) /\ <<>> \in Seq(Unit)
        BY <1>6 DEF SealReopen
      <3> QED
        BY <1>0, <3>1 DEF WalTypes, Put, Sealed
    <2>2. journal' = [at |-> "run", id |-> journal.id + 1, off |-> 0] /\ journal.at = "registered"
      BY <1>6 DEF SealReopen
    <2>3. journal.id + 1 <= Limit' /\ Aligned(0)
      <3>1. MaxSegment <= Limit
        BY <1>0, <1>6 DEF SealReopen, IInv, JournalInv, TInv, ReplayTypes, Limit
      <3>2. journal.id < MaxSegment
        BY <1>0, <2>2 DEF WalTypes
      <3>3. 0 = 0 * Align
        BY EngineConstants
      <3> QED
        BY <1>0, <3>1, <3>2, <3>3 DEF Aligned
    <2> QED
      BY <1>0, <2>1, <2>2, <2>3 DEF WalTypes
  <1>7. CASE \E id \in DOMAIN fj.wal : wal_gc(id)
    <2>1. Sealed' \subseteq Sealed /\ (\A path \in DOMAIN wal' : wal'[path] \in Seq(Unit)) /\ journal' = journal
      BY <1>0, <1>7 DEF wal_gc, WalTypes, Sealed
    <2> QED
      BY <1>0, <2>1 DEF WalTypes
  <1>8. CASE ReplayTorn
    <2>1. PICK p : p = fj.wal[Segment].path
      OBVIOUS
    <2>2. wal' = [wal EXCEPT ![p] = SubSeq(wal[p], 1, replay.valid)] /\ journal' = journal
      BY <1>8, <2>1, Zenon DEF ReplayTorn
    <2>3. replay.pos < Len(File(p)) /\ File(p) \in Seq(Unit)
          /\ replay.pos \in Nat /\ replay.valid \in Nat /\ replay.valid <= replay.pos
      BY <1>8, <2>1, FileType DEF ReplayTorn, Content, WalFile, TInv, ReplayTypes
    <2>4. SubSeq(File(p), 1, replay.valid) \in Seq(Unit)
      BY <2>3
    <2>5. p \in DOMAIN wal => wal[p] = File(p)
      BY DEF File
    <2>6. Sealed' = Sealed /\ \A path \in DOMAIN wal' : wal'[path] \in Seq(Unit)
      BY <1>0, <2>2, <2>4, <2>5 DEF WalTypes, Sealed
    <2> QED
      BY <1>0, <2>2, <2>6 DEF WalTypes
  <1>9. CASE \E kept \in SUBSET flush.batch : Crash(kept)
    <2>1. journal' = [at |-> "down", id |-> 0, off |-> 0] /\ wal' = wal /\ Sealed' = Sealed
      BY <1>9, Zenon DEF Crash, Stopped, Sealed, walVars
    <2>2. Aligned(0)
      BY EngineConstants DEF Aligned
    <2> QED
      BY <1>0, <2>1, <2>2 DEF WalTypes
  <1>10. CASE Boot
    <2>1. PICK n : n = NextId(Sealed, DOMAIN fj.wal)
      OBVIOUS
    <2>2. journal' = [at |-> "starting", id |-> n, off |-> 0] /\ wal' = wal /\ Sealed' = Sealed
      BY <1>10, <2>1 DEF Boot, Sealed, fileVars, walVars
    <2>3. Aligned(0)
      BY EngineConstants DEF Aligned
    <2>4. n \in Nat /\ (n = 0 \/ \E id \in Sealed \cup DOMAIN fj.wal : n = id + 1)
      BY <2>1, NextIdSpec DEF IInv, JournalInv, FjallInv
    <2>5. \A id \in Sealed \cup DOMAIN fj.wal : id \in Nat /\ id <= Limit'- 1
      <3>1. Limit' = MaxSegment + crashes /\ Limit' = Limit + 1 /\ crashes \in Nat
        BY <1>10, LimitStep DEF Boot, Limit, boundVars, TInv, ReplayTypes
      <3>2. \A id \in Sealed : id \in Nat /\ id < MaxSegment
        BY <1>0 DEF WalTypes, IInv, JournalInv, Bounded
      <3>3. \A id \in DOMAIN fj.wal : id \in Nat /\ id <= Limit
        BY Zenon DEF TInv, FjallTypes, IInv, FjallInv, Bounded
      <3> QED
        BY <1>0, <3>1, <3>2, <3>3
    <2>6. 0 <= Limit'
      BY <1>10, EngineConstants DEF Boot, Limit, boundVars, TInv, ReplayTypes
    <2>7. n <= Limit'
      BY <1>0, <2>4, <2>5, <2>6
    <2> QED
      BY <1>0, <2>2, <2>3, <2>7 DEF WalTypes
  <1>11. CASE UNCHANGED <<wal, journal>>
    <2>1. Sealed' = Sealed
      BY <1>11 DEF Sealed
    <2> QED
      BY <1>0, <1>11, <2>1 DEF WalTypes
  <1>12. \/ JournalStart \/ seal \/ SealFails \/ SealRename \/ SealRegister \/ SealReopen
         \/ \E batch \in Batches :
                \/ BatchWritten(batch)
                \/ \E k \in 0..Len(Bytes(batch)) : BatchFails(batch, k)
         \/ (\E id \in DOMAIN fj.wal : wal_gc(id)) \/ ReplayTorn
         \/ (\E kept \in SUBSET flush.batch : Crash(kept))
         \/ Boot
         \/ UNCHANGED <<wal, journal>>
    BY Zenon DEF Next, Journal, Flush, Recover, fileVars, walVars, AddReturns, FlushStart, drain_hot_to_warm, FlushSynced,
           FlushFails, FlushIndex, FlushRegister, FjallSync, recover_entry_segments, recover_wal, ReplayOpen,
           ReplayPadding, ReplayEnd, RecoveryDone, ReplayRecord
  <1> QED
    BY <1>1, <1>2, <1>3, <1>4, <1>5, <1>6, <1>7, <1>8, <1>9, <1>10, <1>11, <1>12, Zenon

\* A larger limit allows what a smaller one does.
LEMMA LimitRaised ==
    ASSUME NEW f, NEW l \in Int, NEW m \in Int, l <= m, \A id \in DOMAIN f.wal : id \in Nat, FjallTypes(f, l)
    PROVE  FjallTypes(f, m)
  BY DEF FjallTypes

\* A registration of a WAL segment.
LEMMA RegisteredTypes ==
    ASSUME NEW l \in Int, FjallTypes(fj, l), Maps(fj), NEW id \in Nat, id <= l,
           NEW s \in {"Active", "Local", "Deleted"}, NEW p \in {id, ActiveSeg},
           fj' = [fj EXCEPT !.wal = Registered(fj.wal, id, s, p)]
    PROVE  FjallTypes(fj', l)
  <1>1. /\ fj'.walIndex = fj.walIndex /\ fj'.checkpoint = fj.checkpoint /\ fj'.entry = fj.entry
        /\ fj'.wal = Registered(fj.wal, id, s, p)
    BY DEF Maps
  <1>2. \A i \in DOMAIN fj'.wal :
            i <= l /\ fj'.wal[i] \in [status : {"Active", "Local", "Deleted"}, path : {i, ActiveSeg}]
    BY <1>1 DEF FjallTypes, Registered, Put
  <1> QED
    BY <1>1, <1>2 DEF FjallTypes

\* A change of the entry registry.
LEMMA EntryRegistryTypes ==
    ASSUME NEW l \in Int, FjallTypes(fj, l), Maps(fj), NEW r, fj' = [fj EXCEPT !.entry = r],
           \A id \in DOMAIN r : r[id] \in {"Active", "Local"}
    PROVE  FjallTypes(fj', l)
  BY DEF FjallTypes, Maps

\* ReplayNext writes wal_index and a checkpoint.
LEMMA ReplayNextTypes ==
    ASSUME NEW l \in Int, FjallTypes(fj, l), Maps(fj), NEW index, ReplayNext(index), replay.valid \in Nat,
           index \in [Entries -> [id : Ids \cup {NoSegment}, pos : Nat]]
    PROVE  FjallTypes(fj', l)
  <1>1. /\ fj'.walIndex = index /\ fj'.wal = fj.wal /\ fj'.entry = fj.entry
        /\ fj'.checkpoint = Put(fj.checkpoint, Segment, replay.valid)
    BY DEF Maps, ReplayNext
  <1>2. \A id \in DOMAIN fj'.checkpoint : fj'.checkpoint[id] \in Nat
    BY <1>1, Zenon DEF FjallTypes, Put
  <1> QED
    BY <1>1, <1>2 DEF FjallTypes

\* Fjall's values are well typed, in use and on the disk.
LEMMA FjallTypesNext ==
    ASSUME IInv, TInv, Next
    PROVE  FjallTypes(fj', Limit') /\ FjallTypes(durable', Limit')
  <1>0. /\ FjallTypes(fj, Limit) /\ FjallTypes(durable, Limit) /\ Maps(fj)
        /\ Limit \in Int /\ Limit' \in Int /\ Limit <= Limit'
        /\ \A id \in DOMAIN fj.wal \cup DOMAIN durable.wal : id \in Nat
        /\ journal.id \in Nat /\ MaxSegment \in Nat
    BY LimitSpec, LimitStep, EngineConstants, Zenon DEF TInv, IInv, FjallInv, JournalInv, Bounded
  <1>1. FjallTypes(fj, Limit') /\ FjallTypes(durable, Limit')
    BY <1>0, LimitRaised
  <1>2. NoLocation \in [id : Ids \cup {NoSegment}, pos : Nat]
    BY DEF NoLocation
  <1>3. FjallTypes(fj', Limit')
    <2>1. CASE JournalStart
      <3>1. journal.id <= Limit'
        BY <1>0, <2>1 DEF JournalStart, TInv, WalTypes
      <3> QED
        BY <1>0, <1>1, <2>1, <3>1, RegisteredTypes, Zenon DEF JournalStart
    <2>2. CASE SealRegister
      <3>1. journal.id <= Limit'
        BY <1>0, <2>2 DEF SealRegister, TInv, WalTypes
      <3> QED
        BY <1>0, <1>1, <2>2, <3>1, RegisteredTypes, Zenon DEF SealRegister
    <2>3. CASE SealReopen
      <3>1. MaxSegment <= Limit
        BY <2>3, <1>0 DEF SealReopen, IInv, JournalInv, TInv, ReplayTypes, Limit
      <3>2. journal.id < MaxSegment
        BY <2>3 DEF SealReopen, TInv, WalTypes
      <3>3. journal.id + 1 <= Limit' /\ journal.id + 1 \in Nat
        BY <1>0, <3>1, <3>2
      <3> QED
        BY <1>0, <1>1, <2>3, <3>3, RegisteredTypes, Zenon DEF SealReopen
    <2>4. CASE FlushStart \/ FlushRegister
      <3>1. ASSUME NEW q, NEW id, NEW s \in {"Active", "Local"}, fj' = [fj EXCEPT !.entry = Put(q, id, s)],
                   \A i \in DOMAIN q : q[i] \in {"Active", "Local"}
            PROVE  FjallTypes(fj', Limit')
        <4>1. \A i \in DOMAIN Put(q, id, s) : Put(q, id, s)[i] \in {"Active", "Local"}
          BY <3>1 DEF Put
        <4> QED
          BY <1>0, <1>1, <3>1, <4>1, EntryRegistryTypes
      <3>2. CASE FlushStart
        <4>1. PICK q : q = [id \in DOMAIN fj.entry |-> "Local"]
          BY Zenon
        <4>2. PICK n : fj' = [fj EXCEPT !.entry = Put(q, n, "Active")]
          BY <3>2, <4>1 DEF FlushStart, OpenSegment
        <4>3. \A i \in DOMAIN q : q[i] \in {"Active", "Local"}
          BY <4>1
        <4> QED
          BY <3>1, <4>2, <4>3, Zenon
      <3>3. CASE FlushRegister
        <4>1. \A i \in DOMAIN fj.entry : fj.entry[i] \in {"Active", "Local"}
          BY <1>0 DEF FjallTypes
        <4>2. \A i \in DOMAIN Put(fj.entry, flush.id, "Local") : Put(fj.entry, flush.id, "Local")[i] \in {"Active", "Local"}
          BY <4>1 DEF Put
        <4>3. \/ fj' = [fj EXCEPT !.entry = Put(fj.entry, flush.id, "Active")]
              \/ fj' = [fj EXCEPT !.entry = Put(Put(fj.entry, flush.id, "Local"), flush.id + 1, "Active")]
          BY <3>3 DEF FlushRegister, OpenSegment
        <4> QED
          BY <3>1, <4>1, <4>2, <4>3
      <3> QED
        BY <2>4, <3>2, <3>3
    <2>5. CASE \E e \in flush.batch : FlushIndex(e)
      <3>1. PICK e \in flush.batch : fj' = [fj EXCEPT !.entryIndex[e] = flush.id, !.walIndex[e] = NoLocation]
        BY <2>5, Zenon DEF FlushIndex
      <3>2. /\ fj'.checkpoint = fj.checkpoint /\ fj'.wal = fj.wal /\ fj'.entry = fj.entry
            /\ fj'.walIndex = [fj.walIndex EXCEPT ![e] = NoLocation]
        BY <1>0, <3>1 DEF Maps
      <3>3. fj'.walIndex \in [Entries -> [id : Ids \cup {NoSegment}, pos : Nat]]
        <4>1. fj.walIndex \in [Entries -> [id : Ids \cup {NoSegment}, pos : Nat]]
          BY <1>0 DEF FjallTypes
        <4> QED
          BY <1>2, <3>2, <4>1, Zenon
      <3> QED
        BY <1>1, <3>2, <3>3 DEF FjallTypes
    <2>6. CASE \E id \in DOMAIN fj.wal : wal_gc(id)
      <3>1. PICK id \in DOMAIN fj.wal : fj' = [fj EXCEPT !.wal[id].status = "Deleted"]
        BY <2>6, Zenon DEF wal_gc
      <3>2. /\ fj'.checkpoint = fj.checkpoint /\ fj'.walIndex = fj.walIndex /\ fj'.entry = fj.entry
            /\ fj'.wal = [fj.wal EXCEPT ![id] = [fj.wal[id] EXCEPT !.status = "Deleted"]]
        BY <1>0, <3>1 DEF Maps
      <3>3. [fj.wal[id] EXCEPT !.status = "Deleted"] \in [status : {"Active", "Local", "Deleted"}, path : {id, ActiveSeg}]
        BY <1>0 DEF FjallTypes
      <3> QED
        BY <1>1, <3>2, <3>3 DEF FjallTypes
    <2>7. CASE \E kept \in SUBSET flush.batch : Crash(kept)
      BY <1>1, <2>7 DEF Crash
    <2>8. CASE recover_entry_segments
      <3> DEFINE r == [id \in DOMAIN fj.entry \cup DOMAIN entryFile |->
                          IF id \in DOMAIN fj.entry THEN fj.entry[id] ELSE "Local"]
      <3>0. PICK x : fj' = [fj EXCEPT !.entry = r, !.entryIndex = x]
        BY <2>8, Zenon DEF recover_entry_segments
      <3>1. \A id \in DOMAIN r : r[id] \in {"Active", "Local"}
        BY <1>0 DEF FjallTypes
      <3> HIDE DEF r
      <3>2. /\ fj'.checkpoint = fj.checkpoint /\ fj'.walIndex = fj.walIndex /\ fj'.wal = fj.wal /\ fj'.entry = r
        BY <1>0, <3>0 DEF Maps
      <3> QED
        BY <1>1, <3>1, <3>2 DEF FjallTypes
    <2>9. CASE recover_wal
      <3>1. PICK n : n = NextId(Sealed, {})
        OBVIOUS
      <3>2. n \in Nat /\ (n = 0 \/ \E id \in Sealed : n = id + 1)
        BY <3>1, NextIdSpec DEF IInv, JournalInv, Bounded
      <3>3. \A id \in Sealed : id \in Nat /\ id < MaxSegment
        BY DEF TInv, WalTypes, IInv, JournalInv, Bounded
      <3>4. MaxSegment <= Limit'
        <4>1. MaxSegment <= Limit
          BY <1>0, <2>9 DEF recover_wal, TInv, ReplayTypes, Limit
        <4> QED
          BY <1>0, <4>1
      <3>5. n <= Limit'
        BY <1>0, <3>2, <3>3, <3>4
      <3>6. ASSUME NEW id \in DOMAIN WalRegistry
            PROVE  /\ id <= Limit'
                   /\ WalRegistry[id] \in [status : {"Active", "Local", "Deleted"}, path : {id, ActiveSeg}]
        <4>1. CASE id \in DOMAIN fj.wal
          BY <1>1, <4>1, Zenon DEF WalRegistry, FjallTypes
        <4>2. CASE id \notin DOMAIN fj.wal
          <5>1. WalRegistry[id] = [status |-> "Local", path |-> IF id \in Sealed THEN id ELSE ActiveSeg]
            BY <4>2 DEF WalRegistry
          <5>2. id \in Sealed \/ id = n
            BY <3>1, <4>2, Zenon DEF WalRegistry
          <5>3. id <= Limit'
            BY <1>0, <3>3, <3>4, <3>5, <5>2
          <5> QED
            BY <5>1, <5>3
        <4> QED
          BY <4>1, <4>2
      <3>7. /\ fj'.checkpoint = fj.checkpoint /\ fj'.walIndex = fj.walIndex /\ fj'.entry = fj.entry
            /\ fj'.wal = WalRegistry
        BY <1>0, <2>9 DEF Maps, recover_wal
      <3> QED
        BY <1>1, <3>6, <3>7 DEF FjallTypes
    <2>10. CASE ReplayTorn \/ ReplayEnd
      <3>0. replay.valid \in Nat /\ fj.walIndex \in [Entries -> [id : Ids \cup {NoSegment}, pos : Nat]]
        BY <1>0 DEF TInv, ReplayTypes, FjallTypes
      <3> DEFINE Locations == [id : Ids \cup {NoSegment}, pos : Nat]
                 purged == [e \in Entries |->
                     IF fj.walIndex[e].id = Segment /\ fj.walIndex[e].pos >= replay.valid
                       THEN NoLocation ELSE fj.walIndex[e]]
      <3>1. PICK index : ReplayNext(index) /\ index \in [Entries -> Locations]
        <4>1. CASE ReplayTorn
          <5>1. ReplayNext(purged)
            BY <4>1, Zenon DEF ReplayTorn
          <5>2. purged \in [Entries -> Locations]
            <6>1. NoLocation \in Locations
              BY <1>2
            <6> HIDE DEF Locations
            <6> QED
              BY <3>0, <6>1 DEF Locations
          <5> QED
            BY <5>1, <5>2, Zenon
        <4>2. CASE ReplayEnd
          BY <3>0, <4>2, Zenon DEF ReplayEnd
        <4> QED
          BY <2>10, <4>1, <4>2
      <3> QED
        BY <1>0, <1>1, <3>0, <3>1, ReplayNextTypes, Zenon
    <2>11. CASE \E e \in Entries : ReplayRecord(e)
      <3>1. PICK e \in Entries : ReplayRecord(e)
        BY <2>11
      <3>2. CASE fj' = fj
        BY <1>1, <3>2
      <3>3. CASE fj' = [fj EXCEPT !.walIndex[e] = [id |-> Segment, pos |-> replay.pos]]
        <4>1. [id |-> Segment, pos |-> replay.pos] \in [id : Ids \cup {NoSegment}, pos : Nat]
          BY <3>1, SegmentId DEF ReplayRecord, Scanning, TInv, ReplayTypes
        <4>2. /\ fj'.checkpoint = fj.checkpoint /\ fj'.wal = fj.wal /\ fj'.entry = fj.entry
              /\ fj'.walIndex = [fj.walIndex EXCEPT ![e] = [id |-> Segment, pos |-> replay.pos]]
          BY <1>0, <3>3 DEF Maps
        <4>3. fj'.walIndex \in [Entries -> [id : Ids \cup {NoSegment}, pos : Nat]]
          <5>1. fj.walIndex \in [Entries -> [id : Ids \cup {NoSegment}, pos : Nat]]
            BY <1>1, Zenon DEF FjallTypes
          <5> QED
            BY <4>1, <4>2, <5>1, Zenon
        <4> QED
          BY <1>1, <4>2, <4>3, Zenon DEF FjallTypes
      <3> QED
        BY <3>1, <3>2, <3>3 DEF ReplayRecord
    <2>12. CASE UNCHANGED fj
      BY <1>1, <2>12
    <2> QED
      BY <2>1, <2>2, <2>3, <2>4, <2>5, <2>6, <2>7, <2>8, <2>9, <2>10, <2>11, <2>12, Zenon
      DEF Next, Journal, Flush, Recover, AddReturns, seal, SealRename, SealFails, BatchWritten, BatchFails,
          drain_hot_to_warm, FlushSynced, FlushFails, FjallSync, Boot, ReplayOpen, ReplayPadding, RecoveryDone
  <1>4. durable' = durable \/ durable' = fj
    BY Zenon DEF Next, Journal, Flush, Recover, AddReturns, JournalStart, seal, SealRename, SealFails, SealRegister,
           SealReopen, BatchWritten, BatchFails, FlushStart, drain_hot_to_warm, FlushSynced, FlushFails,
           FlushIndex, FlushRegister, wal_gc, FjallSync, Crash, Boot, recover_entry_segments, recover_wal,
           ReplayOpen, ReplayPadding, ReplayTorn, ReplayEnd, RecoveryDone, ReplayRecord
  <1> QED
    BY <1>1, <1>3, <1>4

\* Files and sets hold entries.
LEMMA EntryTypesNext ==
    ASSUME IInv, TInv, Next
    PROVE  EntryTypes'
  <1>0. EntryTypes /\ flush.batch \subseteq Entries
    BY DEF TInv, IInv, FlushInv, CacheInv
  <1>1. CASE \E e \in Entries : AddReturns(e)
    BY <1>0, <1>1 DEF AddReturns, EntryTypes, fileVars, walVars
  <1>2. CASE \E batch \in Batches : BatchWritten(batch)
    BY <1>0, <1>2, BatchType DEF BatchWritten, EntryTypes
  <1>3. CASE FlushStart \/ FlushRegister
    <2>1. UNCHANGED <<written, acked>>
      BY <1>3 DEF FlushStart, FlushRegister
    <2>2. UNCHANGED entryFile \/ \E id : entryFile' = Put(entryFile, id, {})
      BY <1>3 DEF FlushStart, FlushRegister, OpenSegment
    <2> QED
      BY <1>0, <2>1, <2>2, Zenon DEF EntryTypes, Put
  <1>4. CASE FlushSynced
    BY <1>0, <1>4 DEF FlushSynced, EntryTypes
  <1>5. CASE \E kept \in SUBSET flush.batch : Crash(kept)
    BY <1>0, <1>5 DEF Crash, EntryTypes
  <1>6. CASE UNCHANGED <<entryFile, written, acked>>
    BY <1>0, <1>6 DEF EntryTypes
  <1> QED
    BY <1>1, <1>2, <1>3, <1>4, <1>5, <1>6, Zenon
    DEF Next, Journal, Flush, Recover, fileVars, walVars, JournalStart, seal, SealRename, SealFails, SealRegister,
        SealReopen, BatchFails, drain_hot_to_warm, FlushFails, FlushIndex, wal_gc, FjallSync, Boot,
        recover_entry_segments, recover_wal, ReplayOpen, ReplayPadding, ReplayTorn, ReplayEnd, RecoveryDone,
        ReplayRecord

\* The part of ReplayTypes about the replay.
Replaying ==
    /\ replay = [todo |-> replay.todo, pos |-> replay.pos, valid |-> replay.valid, open |-> replay.open]
    /\ replay.todo \subseteq Ids
    /\ replay.pos \in Nat /\ replay.valid \in Nat /\ replay.valid <= replay.pos

\* last_valid_pos never passes pos, and both only grow within a segment.
LEMMA ReplayTypesNext ==
    ASSUME IInv, TInv, Next
    PROVE  ReplayTypes'
  <1>0. ReplayTypes /\ Replaying /\ MaxErrors \in Nat /\ MaxCrashes \in Nat
    BY EngineConstants DEF TInv, ReplayTypes, Replaying
  <1>1. Replaying'
    <2>1. CASE recover_wal
      <3>1. FjallTypes(fj', Limit') /\ DOMAIN fj'.wal \subseteq Nat
        BY <2>1, FjallTypesNext, FjallStep DEF Bounded
      <3>2. fj'.wal = WalRegistry
        BY <2>1 DEF recover_wal, IInv, FjallInv, Maps
      <3>3. Limit' = Limit
        BY <2>1 DEF recover_wal, Limit, boundVars
      <3>4. DOMAIN WalRegistry \subseteq Ids
        BY <3>1, <3>2, <3>3, LimitSpec DEF FjallTypes
      <3>5. PICK t : t \subseteq DOMAIN WalRegistry /\ replay' = [NoReplay EXCEPT !.todo = t]
        BY <2>1, Zenon DEF recover_wal
      <3>6. replay' = [todo |-> t, pos |-> 0, valid |-> 0, open |-> FALSE]
        BY <3>5, Zenon DEF NoReplay
      <3>7. t \subseteq Ids
        BY <3>4, <3>5
      <3> QED
        BY <3>6, <3>7 DEF Replaying
    <2>2. CASE ReplayOpen
      <3>1. Checkpoint(Segment) \in Nat
        BY DEF Checkpoint, TInv, FjallTypes
      <3>2. replay' = [todo |-> replay.todo, pos |-> Checkpoint(Segment), valid |-> Checkpoint(Segment), open |-> TRUE]
        BY <1>0, <2>2, Zenon DEF ReplayOpen, Replaying
      <3> QED
        BY <1>0, <3>1, <3>2 DEF Replaying
    <2>3. CASE ReplayPadding
      <3>1. replay' = [todo |-> replay.todo, pos |-> RoundUp(replay.pos), valid |-> replay.valid, open |-> replay.open]
        BY <1>0, <2>3 DEF ReplayPadding, Replaying
      <3>2. PICK n : n = RoundUp(replay.pos)
        OBVIOUS
      <3>3. n \in Nat /\ n >= replay.pos
        BY <1>0, <3>2, Rounding DEF Replaying
      <3>4. replay.valid <= n
        BY <1>0, <3>3 DEF Replaying
      <3> QED
        BY <1>0, <3>1, <3>2, <3>3, <3>4 DEF Replaying
    <2>4. CASE \E e \in Entries : ReplayRecord(e)
      <3>1. PICK e \in Entries : ReplayRecord(e)
        BY <2>4
      <3>2. PICK n \in Nat : n = replay.pos + Size[e]
        BY <1>0, EngineConstants DEF Replaying
      <3>3. replay' = [todo |-> replay.todo, pos |-> n, valid |-> n, open |-> replay.open]
        BY <1>0, <3>1, <3>2, Zenon DEF ReplayRecord, Replaying
      <3> QED
        BY <1>0, <3>2, <3>3 DEF Replaying
    <2>5. CASE \E index : ReplayNext(index)
      <3>1. replay' = [todo |-> replay.todo \ {Segment}, pos |-> 0, valid |-> 0, open |-> FALSE]
        BY <2>5, Zenon DEF ReplayNext, NoReplay
      <3> QED
        BY <1>0, <3>1 DEF Replaying
    <2>6. CASE \E kept \in SUBSET flush.batch : Crash(kept)
      <3>1. replay' = [todo |-> {}, pos |-> 0, valid |-> 0, open |-> FALSE]
        BY <2>6 DEF Crash, NoReplay
      <3> QED
        BY <3>1 DEF Replaying
    <2>7. CASE UNCHANGED replay
      BY <1>0, <2>7 DEF Replaying
    <2> QED
      BY <2>1, <2>2, <2>3, <2>4, <2>5, <2>6, <2>7, Zenon
      DEF Next, Journal, Flush, Recover, AddReturns, JournalStart, seal, SealRename, SealFails, SealRegister,
          SealReopen, BatchWritten, BatchFails, FlushStart, drain_hot_to_warm, FlushSynced, FlushFails,
          FlushIndex, FlushRegister, wal_gc, FjallSync, Boot, recover_entry_segments, ReplayTorn, ReplayEnd,
          RecoveryDone
  <1>2. phase' \in {"down", "entries", "register", "replay", "serve"}
    BY <1>0, Zenon DEF ReplayTypes, Next, Journal, Flush, Recover, AddReturns, JournalStart, seal, SealRename, SealFails,
                SealRegister, SealReopen, BatchWritten, BatchFails, FlushStart, drain_hot_to_warm, FlushSynced,
                FlushFails, FlushIndex, FlushRegister, wal_gc, FjallSync, Crash, Boot, recover_entry_segments,
                recover_wal, ReplayOpen, ReplayPadding, ReplayTorn, ReplayEnd, RecoveryDone, ReplayRecord
  <1>3. /\ errors' = errors \/ (errors < MaxErrors /\ errors' = errors + 1)
        /\ crashes' = crashes \/ (crashes < MaxCrashes /\ crashes' = crashes + 1)
    BY Zenon DEF Next, Journal, Flush, Recover, boundVars, AddReturns, JournalStart, seal, SealRename, SealFails,
           SealRegister, SealReopen, BatchWritten, BatchFails, FlushStart, drain_hot_to_warm, FlushSynced,
           FlushFails, FlushIndex, FlushRegister, wal_gc, FjallSync, Crash, Boot, recover_entry_segments,
           recover_wal, ReplayOpen, ReplayPadding, ReplayTorn, ReplayEnd, RecoveryDone, ReplayRecord
  <1>4. errors' \in 0..MaxErrors /\ crashes' \in 0..MaxCrashes
    BY <1>0, <1>3 DEF ReplayTypes
  <1> QED
    BY <1>1, <1>2, <1>4 DEF ReplayTypes, Replaying

----------------------------------------------------------------------------
(* Type correctness *)

\* An empty data directory is well typed.
LEMMA TInvInit ==
    Init => TInv
  <1> SUFFICES ASSUME Init PROVE TInv
    OBVIOUS
  <1>1. FjallTypes(EmptyFjall, Limit)
    BY DEF FjallTypes, EmptyFjall, NoLocation
  <1>2. WalTypes
    <2>1. Aligned(0)
      BY EngineConstants DEF Aligned
    <2> QED
      BY <2>1 DEF Init, WalTypes, Sealed, Stopped
  <1>3. EntryTypes
    BY DEF Init, EntryTypes
  <1>4. ReplayTypes
    BY EngineConstants DEF Init, ReplayTypes, NoReplay
  <1> QED
    BY <1>1, <1>2, <1>3, <1>4 DEF Init, TInv

\* Every step keeps the types.
LEMMA TInvNext ==
    IInv /\ TInv /\ [Next]_vars => TInv'
  <1> SUFFICES ASSUME IInv, TInv, [Next]_vars PROVE TInv'
    OBVIOUS
  <1>1. CASE Next
    BY <1>1, FjallTypesNext, WalTypesNext, EntryTypesNext, ReplayTypesNext DEF TInv
  <1>2. CASE UNCHANGED vars
    <2>1. UNCHANGED <<wal, entryFile, fj, durable, phase, journal, written, acked, replay, errors, crashes>>
      BY <1>2 DEF vars, fileVars, walVars, boundVars
    <2>2. Sealed' = Sealed /\ Limit' = Limit
      BY <2>1 DEF Sealed, Limit
    <2> QED
      BY <2>1, <2>2, Zenon DEF TInv, FjallTypes, WalTypes, EntryTypes, ReplayTypes
  <1> QED
    BY <1>1, <1>2

\* The types the other invariants rest on.
THEOREM TypesInvariant == Spec => []TInv
  BY TInvInit, TInvNext, Invariant, PTL DEF Spec

=============================================================================
