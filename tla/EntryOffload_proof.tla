------------------------- MODULE EntryOffload_proof -------------------------
(***************************************************************************)
(* EntryOffload for any number of entries, segments, crashes and failing   *)
(* calls: the safety properties follow from the inductive invariant IInv,  *)
(* which says where the records of every segment are in each state of the  *)
(* registry, what the three tasks rely on, and what a crash may restore.   *)
(***************************************************************************)
EXTENDS EntryOffload, WellFoundedInduction, TLAPS

\* A set of naturals that is not empty has a least element.
LEMMA LeastNat ==
    ASSUME NEW S \in SUBSET Nat, S # {}
    PROVE  \E x \in S : \A y \in S : x <= y
  <1> DEFINE R == OpToRel(<, Nat)
  <1>1. \A x, y \in Nat : <<y, x>> \in R <=> y < x
    BY DEF OpToRel
  <1>2. IsWellFoundedOn(R, Nat)
    BY NatLessThanWellFounded, Zenon
  <1> HIDE DEF R
  <1>3. PICK x \in S : \A y \in S : ~(<<y, x>> \in R)
    BY <1>2, WFMin, Zenon
  <1>4. \A y \in S : ~(y < x)
    BY <1>1, <1>3, Zenon
  <1> QED
    BY <1>4

\* One that is bounded too has a greatest.
LEMMA GreatestNat ==
    ASSUME NEW S \in SUBSET Nat, S # {}, NEW k \in Nat, \A x \in S : x <= k
    PROVE  \E x \in S : \A y \in S : y <= x
  <1> DEFINE T == {k - x : x \in S}
  <1>1. T \in SUBSET Nat
    OBVIOUS
  <1>2. T # {}
    BY Zenon
  <1>3. PICK t \in T : \A u \in T : t <= u
    BY <1>1, <1>2, LeastNat, Zenon
  <1>4. PICK x \in S : t = k - x
    OBVIOUS
  <1>5. \A y \in S : k - x <= k - y
    BY <1>3, <1>4, Zenon
  <1> QED
    BY <1>5

\* Entries and segment ids are naturals; the markers NoSegment and NoFile are
\* neither a segment nor a set of records.
LEMMA Numbers ==
    /\ Entries \subseteq Nat /\ 0 \notin Entries
    /\ SegmentIds \subseteq Nat /\ NoSegment \notin SegmentIds
    /\ NoFile \notin SUBSET Entries
  BY OffloadConstants DEF Entries, SegmentIds, NoSegment, NoFile

\* Least is the least of a set of segment ids that is not empty.
LEMMA LeastSpec ==
    ASSUME NEW S \in SUBSET SegmentIds, S # {}
    PROVE  Least(S) \in S
  <1>1. \E x \in S : \A y \in S : x <= y
    BY LeastNat, Numbers
  <1> QED
    BY <1>1 DEF Least

\* Greatest is the greatest of a set of segment ids that is not empty.
LEMMA GreatestSpec ==
    ASSUME NEW S \in SUBSET SegmentIds, S # {}
    PROVE  Greatest(S) \in S /\ \A y \in S : y <= Greatest(S)
  <1>1. NumEntries + MaxCrashes \in Nat /\ \A x \in S : x <= NumEntries + MaxCrashes
    BY OffloadConstants DEF SegmentIds
  <1>2. \E x \in S : \A y \in S : y <= x
    BY <1>1, GreatestNat, Numbers, Zenon
  <1> QED
    BY <1>2 DEF Greatest

\* next_entry_seg_id is above every file and every record.
LEMMA NextIdSpec ==
    ASSUME TypeOK
    PROVE  NextId \in Nat /\ \A s \in SegmentIds : s >= NextId => fj.status[s] = "None" /\ ~HasFile(s)
  <1> DEFINE used == {s \in SegmentIds : HasFile(s) \/ fj.status[s] # "None"}
  <1>1. CASE used = {}
    BY <1>1, Numbers DEF NextId
  <1>2. CASE used # {}
    <2>1. PICK g \in used : g = Greatest(used) /\ \A y \in used : y <= g
      BY <1>2, GreatestSpec
    <2>2. NextId = g + 1 /\ g \in Nat
      BY <1>2, <2>1, Numbers DEF NextId
    <2>3. \A s \in SegmentIds : s >= g + 1 => s \notin used
      <3> HIDE DEF used
      <3> QED
        BY <2>1, <2>2, Numbers
    <2> QED
      BY <2>2, <2>3
  <1> QED
    BY <1>1, <1>2

\* What an upsert of the status does to Fjall.
Marked(s, st) ==
    /\ fj' \in Fjall /\ fj'.seg = fj.seg
    /\ fj'.status[s] = st
    /\ \A t \in SegmentIds : t # s => fj'.status[t] = fj.status[t]

\* Upsert does that and keeps the types.
LEMMA UpsertSpec ==
    ASSUME fj \in Fjall, NEW s \in SegmentIds, NEW st \in Statuses, Upsert(s, st)
    PROVE  Marked(s, st)
  BY DEF Upsert, Fjall, Marked

\* What boot and Crash reset the tasks to.
LEMMA InitialTypes ==
    /\ EmptyFjall \in Fjall /\ NoFlush \in FlushState /\ NoOffload \in OffloadState /\ NoRead \in ReadState
    /\ NoFlush.at = "off" /\ NoFlush.batch = {} /\ NoOffload.at = "off" /\ NoRead.at = "idle"
  BY OffloadConstants DEF EmptyFjall, Fjall, Statuses, NoFlush, FlushState, NoOffload, OffloadState,
                          NoRead, ReadState

----------------------------------------------------------------------------
(* The inductive invariant *)

Settled == {"Local", "Offloading", "S3"}

\* Fjall: a segment that has a location has a record, a location never changes,
\* and a status does not go back to Active or to none before a crash.
RegistryInv ==
    /\ \A s \in SegmentIds :
          /\ durable.status[s] # "None" => fj.status[s] # "None"
          /\ durable.status[s] \in Settled => fj.status[s] \in Settled
    /\ \A e \in Entries :
          /\ fj.seg[e] # NoSegment => fj.seg[e] = home[e] /\ fj.status[fj.seg[e]] # "None"
          /\ durable.seg[e] # NoSegment =>
                fj.seg[e] = durable.seg[e] /\ durable.status[durable.seg[e]] # "None"

\* Files: a record is in the file of its home only, an indexed one is there if the
\* file is; a segment that is not forgotten has its file or its record.
RecordsInv ==
    /\ \A s \in SegmentIds, e \in Entries : e \in file[s] \/ e \in s3[s] => home[e] = s
    /\ \A e \in Entries : fj.seg[e] # NoSegment /\ HasFile(fj.seg[e]) => e \in file[fj.seg[e]]
    /\ \A e \in Flushed : home[e] \notin forgotten =>
          IF HasFile(home[e]) THEN e \in file[home[e]]
                              ELSE e \in s3[home[e]] /\ fj.status[home[e]] # "None"

\* Entries are flushed once: what is in the hot cache, or has not been added, has
\* no home yet.
HotInv ==
    /\ \A e \in Entries : e \in hot \/ e > added => home[e] = NoSegment
    /\ \A e \in hot : e <= added

\* The object of an S3 segment has all its records, and all of them are indexed.
ObjectInv ==
    /\ \A e \in Entries :
          /\ fj.seg[e] # NoSegment /\ fj.status[fj.seg[e]] = "S3" => e \in s3[fj.seg[e]]
          /\ durable.seg[e] # NoSegment /\ durable.status[durable.seg[e]] = "S3" =>
                e \in s3[durable.seg[e]]
    /\ \A e \in Flushed : home[e] \notin forgotten \/ e \in file[home[e]] =>
          /\ fj.status[home[e]] = "S3" => fj.seg[e] = home[e]
          /\ durable.status[home[e]] = "S3" => durable.seg[e] = home[e]

\* The flush thread: where its segment stands, and what it has still to do.
FlushInv ==
    /\ flush.at = "off" => /\ off.at = "off" /\ read.at = "idle" /\ hot = {}
                           /\ \A s \in SegmentIds : cached[s] = NoFile
    /\ flush.at \in {"tick", "index", "evict", "reset"} => flush.seg \in SegmentIds
    /\ flush.at \in {"evict", "reset"} => fj.status[flush.seg] \in Settled
    /\ flush.at \in {"tick", "index", "evict"} =>
          \A s \in SegmentIds : s > flush.seg => fj.status[s] = "None" /\ ~HasFile(s)
    /\ flush.batch \subseteq warm
    /\ flush.at = "index" => flush.batch \subseteq file[flush.seg]
    /\ flush.at # "index" => flush.batch = {}
    /\ flush.at = "orphans" => \A s \in flush.todo : fj.status[s] = "Active"
    /\ flush.at \in {"stuck", "reset"} => \A s \in flush.todo : fj.status[s] \in Settled

\* The offloader: the segment it is at has been sealed, and its object is the file
\* once the upload has been answered.
OffloadInv ==
    /\ off.at \in {"upload", "head", "s3", "remove"} =>
          /\ off.seg \in SegmentIds /\ off.seg \in begun
          /\ fj.status[off.seg] \in Settled
          /\ off.seg \notin raced =>
                fj.status[off.seg] = IF off.at = "remove" THEN "S3" ELSE "Offloading"
    /\ off.at \in {"head", "s3", "remove"} =>
          HasFile(off.seg) /\ s3[off.seg] = file[off.seg]

\* While a process runs every record in a file is indexed, but for the batch at
\* hand; only an S3 segment has no file.
ReachInv ==
    /\ \A e \in Flushed : flush.at # "off" /\ e \in file[home[e]] /\ e \notin flush.batch =>
          fj.seg[e] = home[e]
    /\ \A e \in Flushed : home[e] \notin forgotten \cup raced /\ fj.status[home[e]] # "S3" =>
          HasFile(home[e])
    /\ flush.at = "reset" /\ flush.seen = "Offloading" =>
          flush.seg \in begun \/ fj.status[flush.seg] = "Offloading"

\* A read holds a location; cached blocks have all records of their segment.
ReadInv ==
    /\ read.at # "bad"
    /\ read.at \in {"index", "block", "object"} => read.e \in Entries
    /\ read.at \in {"block", "object"} => read.seg \in SegmentIds /\ fj.seg[read.e] = read.seg
    /\ read.at = "block" /\ read.status # "Active" => fj.status[read.seg] \in Settled
    /\ read.at = "object" => read.e \in s3[read.seg]
    /\ \A s \in SegmentIds : cached[s] # NoFile =>
          fj.status[s] \in Settled /\ \A e \in Entries : fj.seg[e] = s => e \in cached[s]

IInv == /\ TypeOK /\ RegistryInv /\ RecordsInv /\ HotInv /\ ObjectInv
        /\ FlushInv /\ OffloadInv /\ ReachInv /\ ReadInv

USE DEF HasFile, Flushed, Settled, storeVars, cacheVars, boundVars, historyVars,
        FlushUnchanged, OffUnchanged, ReadUnchanged

\* What each conjunct depends on.
LEMMA Frame ==
    /\ RegistryInv /\ UNCHANGED <<fj, durable, home>> => RegistryInv'
    /\ RecordsInv /\ UNCHANGED <<file, s3, fj, home, forgotten>> => RecordsInv'
    /\ HotInv /\ UNCHANGED <<hot, added, home>> => HotInv'
    /\ ObjectInv /\ UNCHANGED <<file, s3, fj, durable, home, forgotten>> => ObjectInv'
    /\ FlushInv /\ UNCHANGED <<file, fj, hot, warm, cached, flush, off, read>> => FlushInv'
    /\ OffloadInv /\ UNCHANGED <<file, s3, fj, off, begun, raced>> => OffloadInv'
    /\ ReachInv /\ UNCHANGED <<file, fj, flush, home, begun, raced, forgotten>> => ReachInv'
    /\ ReadInv /\ UNCHANGED <<s3, fj, cached, read>> => ReadInv'
  <1>1. RegistryInv /\ UNCHANGED <<fj, durable, home>> => RegistryInv'
    BY DEF RegistryInv
  <1>2. RecordsInv /\ UNCHANGED <<file, s3, fj, home, forgotten>> => RecordsInv'
    BY DEF RecordsInv
  <1>3. HotInv /\ UNCHANGED <<hot, added, home>> => HotInv'
    BY DEF HotInv
  <1>4. ObjectInv /\ UNCHANGED <<file, s3, fj, durable, home, forgotten>> => ObjectInv'
    BY DEF ObjectInv
  <1>5. FlushInv /\ UNCHANGED <<file, fj, hot, warm, cached, flush, off, read>> => FlushInv'
    BY DEF FlushInv
  <1>6. OffloadInv /\ UNCHANGED <<file, s3, fj, off, begun, raced>> => OffloadInv'
    BY DEF OffloadInv
  <1>7. ReachInv /\ UNCHANGED <<file, fj, flush, home, begun, raced, forgotten>> => ReachInv'
    BY DEF ReachInv
  <1>8. ReadInv /\ UNCHANGED <<s3, fj, cached, read>> => ReadInv'
    BY DEF ReadInv
  <1> QED
    BY <1>1, <1>2, <1>3, <1>4, <1>5, <1>6, <1>7, <1>8

----------------------------------------------------------------------------
(* The flush thread *)

\* The segments of the list are Active until the flush thread itself seals them.
LEMMA SealOrphanStep ==
    ASSUME IInv, SealOrphan
    PROVE  IInv'
  <1>1. PICK s \in flush.todo : s = Least(flush.todo) /\ s \in SegmentIds
    BY LeastSpec DEF SealOrphan, IInv, TypeOK, FlushState
  <1>2. Marked(s, "Local") /\ fj.status[s] = "Active"
    BY <1>1, UpsertSpec DEF SealOrphan, Statuses, IInv, TypeOK, FlushInv
  <1>3. TypeOK'
    BY <1>2 DEF SealOrphan, Marked, IInv, TypeOK, FlushState
  <1>4. RegistryInv' /\ ObjectInv'
    BY <1>1, <1>2 DEF SealOrphan, Marked, IInv, TypeOK, Fjall, RegistryInv, ObjectInv
  <1>5. RecordsInv' /\ ReachInv'
    BY <1>1, <1>2 DEF SealOrphan, Marked, IInv, TypeOK, FlushState, RecordsInv, ReachInv, FlushInv
  <1>6. FlushInv'
    BY <1>1, <1>2 DEF SealOrphan, Marked, IInv, TypeOK, FlushState, FlushInv
  <1>7. OffloadInv' /\ ReadInv'
    BY <1>1, <1>2 DEF SealOrphan, Marked, IInv, TypeOK, Fjall, RegistryInv, OffloadInv, ReadInv
  <1> QED
    BY <1>3, <1>4, <1>5, <1>6, <1>7, Frame DEF SealOrphan, IInv

\* What is Offloading at the second list stays settled.
LEMMA ListStuckStep ==
    ASSUME IInv, ListStuck
    PROVE  IInv'
  <1>1. TypeOK'
    BY Zenon DEF ListStuck, list_by_status, IInv, TypeOK, FlushState
  <1>2. FlushInv'
    BY DEF ListStuck, list_by_status, IInv, TypeOK, FlushState, FlushInv
  <1>3. ReachInv'
    BY DEF ListStuck, IInv, TypeOK, FlushState, FlushInv, ReachInv
  <1> QED
    BY <1>1, <1>2, <1>3, Frame DEF IInv, ListStuck

\* The status the get sees is Offloading, or the offloader has begun the segment since.
LEMMA ResetGetStep ==
    ASSUME IInv, ResetGet
    PROVE  IInv'
  <1>1. PICK s \in flush.todo : s = Least(flush.todo) /\ s \in SegmentIds
    BY LeastSpec DEF ResetGet, IInv, TypeOK, FlushState
  <1>2. TypeOK'
    BY <1>1, Zenon DEF ResetGet, IInv, TypeOK, FlushState, Fjall
  <1>3. FlushInv'
    BY <1>1 DEF ResetGet, IInv, TypeOK, FlushState, FlushInv
  <1>4. ReachInv'
    BY <1>1 DEF ResetGet, IInv, TypeOK, FlushState, FlushInv, ReachInv
  <1> QED
    BY <1>2, <1>3, <1>4, Frame DEF IInv, ResetGet

\* A segment the offloader has begun is recorded in raced when it is put back.
LEMMA ResetPutStep ==
    ASSUME IInv, ResetPut
    PROVE  IInv'
  <1>1. flush.seg \in SegmentIds /\ fj.status[flush.seg] \in Settled
    BY DEF ResetPut, IInv, FlushInv
  <1>2. \/ fj' = fj /\ raced' = raced
        \/ /\ Marked(flush.seg, "Local") /\ flush.seen = "Offloading"
           /\ raced' = raced \cup ({flush.seg} \cap begun)
    BY <1>1, UpsertSpec DEF ResetPut, Statuses, IInv, TypeOK
  <1>3. TypeOK'
    BY <1>2 DEF ResetPut, Marked, IInv, TypeOK, FlushState
  <1>4. RegistryInv' /\ ObjectInv'
    BY <1>1, <1>2 DEF ResetPut, Marked, IInv, TypeOK, Fjall, RegistryInv, ObjectInv
  <1>5. RecordsInv' /\ ReachInv'
    BY <1>1, <1>2 DEF ResetPut, Marked, IInv, TypeOK, Fjall, FlushState, RecordsInv, ReachInv, FlushInv
  <1>6. FlushInv'
    BY <1>1, <1>2 DEF ResetPut, Marked, IInv, TypeOK, FlushState, FlushInv
  <1>7. OffloadInv' /\ ReadInv'
    BY <1>1, <1>2 DEF ResetPut, Marked, IInv, TypeOK, Fjall, RegistryInv, OffloadInv, ReadInv
  <1> QED
    BY <1>3, <1>4, <1>5, <1>6, <1>7, Frame DEF ResetPut, IInv

\* open_active_segment of an id above every file and every record.
LEMMA OpenSegment ==
    ASSUME IInv, NEW n \in SegmentIds, open_active_segment(n), flush.at # "off", flush.batch = {},
           \A s \in SegmentIds : s = n \/ s > n => fj.status[s] = "None" /\ ~HasFile(s),
           warm' \in {warm, {}}, hot' = hot, faults' = faults,
           UNCHANGED historyVars, FlushUnchanged
    PROVE  IInv'
  <1>1. Marked(n, "Active")
    BY UpsertSpec DEF open_active_segment, Statuses, IInv, TypeOK
  <1>2. flush' \in FlushState /\ flush'.at = "tick" /\ flush'.seg = n /\ flush'.batch = {}
    BY InitialTypes, Zenon DEF open_active_segment, NoFlush, FlushState, Statuses
  <1>3. /\ file' \in [SegmentIds -> Contents] /\ file'[n] = {} /\ {} # NoFile
        /\ \A s \in SegmentIds : s # n => file'[s] = file[s]
    BY DEF open_active_segment, NoFile, IInv, TypeOK, Contents
  <1>4. \A e \in Entries : fj.seg[e] # n
    BY Numbers DEF IInv, RegistryInv
  <1>5. \A e \in Flushed : home[e] \notin forgotten => home[e] # n
    BY DEF IInv, RecordsInv
  <1>6. TypeOK'
    BY <1>1, <1>2, <1>3 DEF Marked, IInv, TypeOK
  <1>7. RegistryInv' /\ ObjectInv'
    <2>1. RegistryInv'
      BY <1>1, <1>4 DEF Marked, IInv, TypeOK, Fjall, RegistryInv
    <2>2. durable.status[n] # "S3" /\ fj'.status[n] # "S3"
      BY <1>1 DEF Marked, IInv, RegistryInv
    <2>3. \A e \in Flushed : home[e] # n => file'[home[e]] = file[home[e]]
      BY <1>3 DEF IInv, TypeOK
    <2>4. ObjectInv'
      BY <1>1, <1>4, <2>2, <2>3 DEF Marked, IInv, TypeOK, Fjall, ObjectInv
    <2> QED
      BY <2>1, <2>4
  <1>8. RecordsInv'
    <2>1. \A s \in SegmentIds, e \in Entries : e \in file'[s] \/ e \in s3[s] => home[e] = s
      BY <1>3 DEF IInv, RecordsInv
    <2>2. \A e \in Entries : fj.seg[e] \in SegmentIds /\ file'[fj.seg[e]] # NoFile => e \in file'[fj.seg[e]]
      <3>1. \A e \in Entries : fj.seg[e] \in SegmentIds => file'[fj.seg[e]] = file[fj.seg[e]]
        BY <1>3, <1>4, Zenon
      <3>2. \A e \in Entries : fj.seg[e] \in SegmentIds /\ file[fj.seg[e]] # NoFile => e \in file[fj.seg[e]]
        BY Numbers DEF IInv, RecordsInv, HasFile
      <3> QED
        BY <3>1, <3>2, Zenon
    <2>3. \A e \in Flushed : home[e] \notin forgotten =>
             IF file'[home[e]] # NoFile THEN e \in file'[home[e]]
                                       ELSE e \in s3[home[e]] /\ fj'.status[home[e]] # "None"
      BY <1>1, <1>3, <1>5 DEF Marked, IInv, TypeOK, RecordsInv
    <2> QED
      BY <1>1, <2>1, <2>2, <2>3 DEF Marked, IInv, TypeOK, Fjall, RecordsInv
  <1>9. FlushInv'
    BY <1>1, <1>2, <1>3, Numbers DEF Marked, IInv, FlushInv
  <1>10. OffloadInv' /\ ReadInv'
    BY <1>1, <1>3, <1>4 DEF Marked, IInv, TypeOK, Fjall, RegistryInv, OffloadInv, ReadInv
  <1>11. ReachInv'
    BY <1>1, <1>2, <1>3, <1>5 DEF Marked, IInv, TypeOK, Fjall, ReachInv
  <1> QED
    BY <1>6, <1>7, <1>8, <1>9, <1>10, <1>11, Frame DEF IInv

\* The first segment of a process, with the id of next_entry_seg_id.
LEMMA FlushOpenStep ==
    ASSUME IInv, FlushOpen
    PROVE  IInv'
  <1>1. PICK n \in SegmentIds : n = NextId /\ open_active_segment(n)
    BY Zenon DEF FlushOpen, open_active_segment
  <1>2. \A s \in SegmentIds : s = n \/ s > n => fj.status[s] = "None" /\ ~HasFile(s)
    BY <1>1, NextIdSpec, Numbers DEF IInv
  <1>3. flush.at # "off" /\ flush.batch = {}
    BY DEF FlushOpen, IInv, FlushInv
  <1> QED
    BY <1>1, <1>2, <1>3, OpenSegment DEF FlushOpen

\* The segment after a full one: nothing above the active segment is in use.
LEMMA EvictWarmStep ==
    ASSUME IInv, evict_warm
    PROVE  IInv'
  <1>1. PICK n \in SegmentIds : n = flush.seg + 1 /\ open_active_segment(n)
    BY Zenon DEF evict_warm, open_active_segment
  <1>2. PICK f \in SegmentIds : f = flush.seg
    BY DEF evict_warm, IInv, FlushInv
  <1>3. \A s \in SegmentIds : s = n \/ s > n => s > f
    <2> f \in Nat /\ n \in Nat /\ n = f + 1
      BY <1>1, <1>2, Numbers
    <2> TAKE s \in SegmentIds
    <2> s \in Nat
      BY Numbers
    <2> QED
      OBVIOUS
  <1>4. \A s \in SegmentIds : s = n \/ s > n => fj.status[s] = "None" /\ ~HasFile(s)
    BY <1>2, <1>3 DEF evict_warm, IInv, FlushInv
  <1>5. flush.at # "off" /\ flush.batch = {}
    BY DEF evict_warm, IInv, FlushInv
  <1> QED
    BY <1>1, <1>4, <1>5, OpenSegment DEF evict_warm

\* Only the Active segment grows, and it is neither uploaded nor cached.
LEMMA DrainHotToWarmStep ==
    ASSUME IInv, drain_hot_to_warm
    PROVE  IInv'
  <1>1. flush.seg \in SegmentIds /\ fj.status[flush.seg] = "Active" /\ HasFile(flush.seg) /\ flush.batch = {}
    BY DEF drain_hot_to_warm, IInv, TypeOK, FlushInv
  <1>2. file'[flush.seg] = file[flush.seg] \cup hot /\ file'[flush.seg] \in SUBSET Entries
        /\ \A s \in SegmentIds : s # flush.seg => file'[s] = file[s]
    BY <1>1 DEF drain_hot_to_warm, IInv, TypeOK, Contents
  <1>3. \A s \in SegmentIds : HasFile(s)' <=> HasFile(s)
    BY <1>1, <1>2, Numbers
  <1>4. \A e \in Entries : home[e] = NoSegment \/ e \notin hot
    BY DEF IInv, HotInv
  <1>5. TypeOK'
    BY <1>1, <1>2, <1>3, Zenon DEF drain_hot_to_warm, IInv, TypeOK, Contents, FlushState
  <1>6. RegistryInv'
    BY <1>4, Numbers DEF drain_hot_to_warm, IInv, TypeOK, Fjall, RegistryInv
  <1>7. RecordsInv' /\ HotInv'
    <2>1. \A e \in Entries : home'[e] = IF e \in hot THEN flush.seg ELSE home[e]
      BY DEF drain_hot_to_warm
    <2>2. RecordsInv'
      BY <1>1, <1>2, <1>3, <1>4, <2>1, Numbers DEF drain_hot_to_warm, IInv, TypeOK, Fjall, RecordsInv
    <2>3. HotInv'
      <3>1. \A e \in Entries : e > added => e \notin hot
        BY Numbers DEF IInv, TypeOK, HotInv
      <3> QED
        BY <2>1, <3>1 DEF drain_hot_to_warm, IInv, HotInv
    <2> QED
      BY <2>2, <2>3
  <1>8. ObjectInv'
    BY <1>1, <1>4, Numbers DEF drain_hot_to_warm, IInv, TypeOK, Fjall, RegistryInv, ObjectInv
  <1>9. FlushInv'
    BY <1>1, <1>2, <1>3 DEF drain_hot_to_warm, IInv, TypeOK, FlushState, FlushInv
  <1>10. OffloadInv'
    BY <1>1, <1>2, <1>3 DEF drain_hot_to_warm, IInv, OffloadInv
  <1>11. ReachInv'
    BY <1>1, <1>3, <1>4 DEF drain_hot_to_warm, IInv, TypeOK, FlushState, FlushInv, ReachInv
  <1> QED
    BY <1>5, <1>6, <1>7, <1>8, <1>9, <1>10, <1>11, Frame DEF IInv, drain_hot_to_warm

\* The thread dies with nothing written: its batch has no home.
LEMMA FlushFailsStep ==
    ASSUME IInv, FlushFails
    PROVE  IInv'
  <1>1. TypeOK'
    BY OffloadConstants DEF FlushFails, IInv, TypeOK, FlushState
  <1>2. flush'.at = "dead" /\ flush'.seg = flush.seg /\ flush'.batch = {} /\ flush.at # "off"
    BY DEF FlushFails, IInv, TypeOK, FlushState, FlushInv
  <1>3. HotInv' /\ FlushInv' /\ ReachInv'
    BY <1>2 DEF FlushFails, IInv, HotInv, FlushInv, ReachInv
  <1> QED
    BY <1>1, <1>3, Frame DEF IInv, FlushFails

\* The batch is in the file when its locations are written.
LEMMA FlushIndexStep ==
    ASSUME IInv, FlushIndex
    PROVE  IInv'
  <1>1. flush.seg \in SegmentIds /\ fj.status[flush.seg] = "Active" /\ HasFile(flush.seg)
    BY DEF FlushIndex, IInv, TypeOK, FlushInv
  <1>2. \A e \in flush.batch : e \in Entries /\ home[e] = flush.seg /\ e \in file[flush.seg]
    BY <1>1 DEF FlushIndex, IInv, TypeOK, FlushState, RecordsInv, FlushInv
  <1>3. /\ fj' \in Fjall /\ fj'.status[flush.seg] = IF Full THEN "Local" ELSE "Active"
        /\ \A s \in SegmentIds : s # flush.seg => fj'.status[s] = fj.status[s]
        /\ \A e \in Entries : fj'.seg[e] = IF e \in flush.batch THEN flush.seg ELSE fj.seg[e]
    BY <1>1 DEF FlushIndex, IInv, TypeOK, Fjall, Statuses
  <1>4. flush' \in FlushState /\ flush'.seg = flush.seg /\ flush'.batch = {}
        /\ flush'.at = IF Full THEN "evict" ELSE "tick"
    BY Zenon DEF FlushIndex, IInv, TypeOK, FlushState
  <1>5. TypeOK'
    BY <1>1, <1>3, <1>4 DEF FlushIndex, IInv, TypeOK
  <1>6. RegistryInv'
    BY <1>1, <1>2, <1>3, Numbers DEF FlushIndex, IInv, TypeOK, Fjall, RegistryInv
  <1>7. RecordsInv'
    BY <1>1, <1>2, <1>3 DEF FlushIndex, IInv, RecordsInv
  <1>8. ObjectInv'
    BY <1>1, <1>2, <1>3, Numbers DEF FlushIndex, IInv, TypeOK, Fjall, RegistryInv, ObjectInv
  <1>9. FlushInv'
    BY <1>1, <1>3, <1>4, Numbers DEF FlushIndex, IInv, FlushInv
  <1>10. OffloadInv'
    BY <1>1, <1>3 DEF FlushIndex, IInv, OffloadInv
  <1>11. \A e \in Entries : fj.seg[e] \in SegmentIds => fj'.seg[e] = fj.seg[e]
    BY <1>2, <1>3, Numbers DEF IInv, RegistryInv
  <1>12. \A s \in SegmentIds : fj.status[s] \in Settled => fj'.status[s] = fj.status[s]
        /\ \A e \in Entries : fj'.seg[e] = s => fj.seg[e] = s
    BY <1>1, <1>2, <1>3
  <1>13. ReadInv'
    BY <1>11, <1>12 DEF FlushIndex, IInv, TypeOK, ReadInv
  <1>14. ReachInv'
    BY <1>1, <1>2, <1>3, <1>4 DEF FlushIndex, IInv, TypeOK, ReachInv
  <1> QED
    BY <1>5, <1>6, <1>7, <1>8, <1>9, <1>10, <1>13, <1>14, Frame DEF FlushIndex, IInv

----------------------------------------------------------------------------
(* The offloader *)

\* A list changes nothing.
LEMMA OffWakeStep ==
    ASSUME IInv, OffWake
    PROVE  IInv'
  <1>1. off' \in OffloadState /\ off'.at = "next"
    BY Zenon DEF OffWake, list_by_status, IInv, TypeOK, OffloadState
  <1>2. TypeOK'
    BY <1>1 DEF OffWake, IInv, TypeOK
  <1>3. FlushInv' /\ OffloadInv'
    BY <1>1 DEF OffWake, IInv, FlushInv, OffloadInv
  <1> QED
    BY <1>2, <1>3, Frame DEF IInv, OffWake

\* The offloader ends between two segments.
LEMMA OffEndsStep ==
    ASSUME IInv, OffEnds
    PROVE  IInv'
  <1>1. off' \in OffloadState /\ off'.at = "ended"
    BY DEF OffEnds, IInv, TypeOK, OffloadState
  <1>2. TypeOK'
    BY <1>1 DEF OffEnds, IInv, TypeOK
  <1>3. FlushInv' /\ OffloadInv'
    BY <1>1 DEF OffEnds, IInv, FlushInv, OffloadInv
  <1> QED
    BY <1>2, <1>3, Frame DEF IInv, OffEnds

\* A pass ends between two segments.
LEMMA OffDoneStep ==
    ASSUME IInv, OffDone
    PROVE  IInv'
  <1>1. off' \in OffloadState /\ off'.at = "wait"
    BY DEF OffDone, IInv, TypeOK, OffloadState
  <1>2. TypeOK'
    BY <1>1 DEF OffDone, IInv, TypeOK
  <1>3. FlushInv' /\ OffloadInv'
    BY <1>1 DEF OffDone, IInv, FlushInv, OffloadInv
  <1> QED
    BY <1>2, <1>3, Frame DEF IInv, OffDone

\* The segment is Local when it is begun, so it is sealed and nobody grows it.
LEMMA OffBeginStep ==
    ASSUME IInv, OffBegin
    PROVE  IInv'
  <1>1. PICK s \in SegmentIds : s = Least(off.todo)
    BY LeastSpec DEF OffBegin, IInv, TypeOK, OffloadState
  <1>2. CASE fj.status[s] = "Local"
    <2>1. Marked(s, "Offloading") /\ begun' = begun \cup {s}
      BY <1>1, <1>2, UpsertSpec DEF OffBegin, Statuses, IInv, TypeOK
    <2>2. off' \in OffloadState /\ off'.at = "upload" /\ off'.seg = s
      BY <1>1, <1>2, OffloadConstants DEF OffBegin, IInv, TypeOK, OffloadState
    <2>3. TypeOK'
      <3>1. flush.at \in {"tick", "index"} => fj'.status[flush.seg] = "Active" /\ HasFile(flush.seg)
        BY <1>2, <2>1 DEF Marked, IInv, TypeOK, FlushInv
      <3> QED
        BY <2>1, <2>2, <3>1 DEF OffBegin, Marked, IInv, TypeOK
    <2>4. RegistryInv' /\ ObjectInv'
      BY <1>2, <2>1 DEF OffBegin, Marked, IInv, TypeOK, Fjall, RegistryInv, ObjectInv
    <2>5. RecordsInv' /\ ReachInv'
      BY <1>2, <2>1 DEF OffBegin, Marked, IInv, TypeOK, FlushInv, RecordsInv, ReachInv
    <2>6. FlushInv'
      BY <1>2, <2>1 DEF OffBegin, Marked, IInv, TypeOK, FlushState, FlushInv
    <2>7. OffloadInv'
      BY <1>2, <2>1, <2>2 DEF OffBegin, Marked, IInv, OffloadInv
    <2>8. ReadInv'
      BY <1>2, <2>1 DEF OffBegin, Marked, IInv, TypeOK, Fjall, ReadInv
    <2> QED
      BY <2>3, <2>4, <2>5, <2>6, <2>7, <2>8, Frame DEF OffBegin, IInv
  <1>3. CASE fj.status[s] # "Local"
    <2>1. fj' = fj /\ begun' = begun
      BY <1>1, <1>3 DEF OffBegin
    <2>2. off' \in OffloadState /\ off'.at = "next"
      BY <1>1, <1>3 DEF OffBegin, IInv, TypeOK, OffloadState
    <2>3. TypeOK'
      BY <2>1, <2>2 DEF OffBegin, IInv, TypeOK
    <2>4. FlushInv' /\ OffloadInv'
      BY <2>1, <2>2 DEF OffBegin, IInv, FlushInv, OffloadInv
    <2> QED
      BY <2>1, <2>3, <2>4, Frame DEF OffBegin, IInv
  <1> QED
    BY <1>2, <1>3

\* A registry that has the segment back at Local, if it was Offloading, or as it was.
RolledBack(u) == fj' = fj \/ (fj.status[u] = "Offloading" /\ Marked(u, "Local"))

\* An object that is as it was or has become the file.
Uploaded(u) ==
    /\ s3' \in [SegmentIds -> Contents]
    /\ \A s \in SegmentIds : s # u => s3'[s] = s3[s]
    /\ s3'[u] = s3[u] \/ (HasFile(u) /\ s3'[u] = file[u])

\* The steps of an upload, successful or not, leave the rest of the node alone.
LEMMA UploadKeeps ==
    ASSUME IInv, NEW u \in SegmentIds, u \in begun, RolledBack(u), Uploaded(u),
           off' \in OffloadState, OffloadInv', off.at # "off", faults' \in Nat,
           UNCHANGED <<file, historyVars>>, OffUnchanged
    PROVE  IInv'
  <1>1. fj' \in Fjall /\ fj'.seg = fj.seg /\ \A s \in SegmentIds : s # u => fj'.status[s] = fj.status[s]
    BY Zenon DEF RolledBack, Marked, IInv, TypeOK
  <1>2. fj'.status[u] = fj.status[u] \/ (fj.status[u] = "Offloading" /\ fj'.status[u] = "Local")
    BY DEF RolledBack, Marked
  <1>3. \A s \in SegmentIds, e \in Entries : e \in s3'[s] => e \in s3[s] \/ e \in file[s]
    BY DEF Uploaded
  <1>4. \A e \in Entries : fj.seg[e] \in SegmentIds /\ e \in s3[fj.seg[e]] => e \in s3'[fj.seg[e]]
    BY Numbers DEF Uploaded, IInv, RecordsInv
  <1>5. \A e \in Flushed : home[e] \notin forgotten /\ ~HasFile(home[e]) => s3'[home[e]] = s3[home[e]]
    BY DEF Uploaded, IInv, TypeOK
  <1>6. TypeOK'
    <2>1. flush.at \in {"tick", "index"} => fj'.status[flush.seg] = "Active" /\ HasFile(flush.seg)
      BY <1>1, <1>2 DEF IInv, TypeOK, FlushInv
    <2> QED
      BY <1>1, <2>1 DEF Uploaded, IInv, TypeOK
  <1>7. RegistryInv'
    BY <1>1, <1>2 DEF IInv, TypeOK, Fjall, RegistryInv
  <1>8. RecordsInv'
    <2>1. \A s \in SegmentIds, e \in Entries : e \in file[s] \/ e \in s3'[s] => home[e] = s
      BY <1>3 DEF IInv, RecordsInv
    <2>2. \A s \in SegmentIds : fj'.status[s] = "None" => fj.status[s] = "None"
      BY <1>1, <1>2
    <2>3. \A e \in Flushed : home[e] \notin forgotten =>
             IF HasFile(home[e]) THEN e \in file[home[e]]
                                 ELSE e \in s3'[home[e]] /\ fj'.status[home[e]] # "None"
      BY <1>5, <2>2 DEF IInv, TypeOK, RecordsInv
    <2> QED
      BY <1>1, <2>1, <2>3, Zenon DEF IInv, RecordsInv
  <1>9. ObjectInv'
    <2>1. \A e \in Entries : fj.seg[e] # NoSegment /\ fj'.status[fj.seg[e]] = "S3" => e \in s3'[fj.seg[e]]
      BY <1>1, <1>2, <1>4 DEF IInv, TypeOK, Fjall, ObjectInv
    <2>2. \A e \in Entries : durable.seg[e] # NoSegment /\ durable.status[durable.seg[e]] = "S3" =>
             e \in s3'[durable.seg[e]]
      <3>1. \A e \in Entries : durable.seg[e] # NoSegment =>
               durable.seg[e] \in SegmentIds /\ fj.seg[e] = durable.seg[e]
        BY DEF IInv, TypeOK, Fjall, RegistryInv
      <3> QED
        BY <1>4, <3>1 DEF IInv, ObjectInv
    <2>3. \A e \in Flushed : (home[e] \notin forgotten \/ e \in file[home[e]])
                          /\ fj'.status[home[e]] = "S3" => fj.seg[e] = home[e]
      BY <1>1, <1>2 DEF IInv, TypeOK, ObjectInv
    <2> QED
      BY <1>1, <2>1, <2>2, <2>3, Zenon DEF IInv, ObjectInv
  <1>10. FlushInv'
    <2>1. \A s \in SegmentIds : \/ fj'.status[s] = fj.status[s]
                                \/ fj.status[s] \in Settled /\ fj'.status[s] \in Settled
      BY <1>1, <1>2
    <2> QED
      BY <2>1 DEF IInv, TypeOK, FlushState, FlushInv
  <1>11. ReachInv'
    <2>1. \A s \in SegmentIds : fj'.status[s] = "S3" <=> fj.status[s] = "S3"
      BY <1>1, <1>2, Zenon
    <2>2. flush.at = "reset" /\ flush.seen = "Offloading" =>
             flush.seg \in begun \/ fj'.status[flush.seg] = "Offloading"
      BY <1>1 DEF IInv, FlushInv, ReachInv
    <2> QED
      BY <1>1, <2>1, <2>2 DEF IInv, TypeOK, ReachInv
  <1>12. ReadInv'
    BY <1>1, <1>2, <1>4 DEF IInv, ReadInv
  <1> QED
    BY <1>6, <1>7, <1>8, <1>9, <1>10, <1>11, <1>12, Frame DEF IInv

\* The object becomes the file.
LEMMA DoUploadStep ==
    ASSUME IInv, do_upload
    PROVE  IInv'
  <1>1. PICK u \in SegmentIds : u = off.seg /\ u \in begun /\ HasFile(u)
    BY DEF do_upload, IInv, OffloadInv
  <1>2. Uploaded(u) /\ s3'[u] = file[u] /\ RolledBack(u)
    BY <1>1 DEF do_upload, Uploaded, RolledBack, IInv, TypeOK
  <1>3. off' \in OffloadState /\ off'.at = "head" /\ off'.seg = u
    BY <1>1 DEF do_upload, IInv, TypeOK, OffloadState
  <1>4. OffloadInv'
    BY <1>1, <1>2, <1>3 DEF do_upload, IInv, OffloadInv
  <1> QED
    BY <1>1, <1>2, <1>3, <1>4, UploadKeeps DEF do_upload, IInv, TypeOK

\* RollBack takes the segment to Local, if anywhere, and leaves it.
LEMMA RollBackSpec ==
    ASSUME TypeOK, NEW u \in SegmentIds, u = off.seg, RollBack
    PROVE  RolledBack(u) /\ off' \in OffloadState /\ off'.at = "next"
  BY DEF RollBack, RolledBack, Marked, TypeOK, Fjall, Statuses, OffloadState

\* A failed attempt may leave the object of a sealed file: the same bytes.
LEMMA UploadFailsStep ==
    ASSUME IInv, NEW took \in BOOLEAN, UploadFails(took)
    PROVE  IInv'
  <1>1. PICK u \in SegmentIds : u = off.seg /\ u \in begun
    BY DEF UploadFails, IInv, OffloadInv
  <1>2. Uploaded(u)
    BY <1>1 DEF UploadFails, Uploaded, IInv, TypeOK
  <1>3. faults' \in Nat
    BY DEF UploadFails, IInv, TypeOK
  <1>4. CASE off.tries < MaxRetries
    <2>1. fj' = fj /\ off' = [off EXCEPT !.tries = off.tries + 1]
      BY <1>4 DEF UploadFails
    <2>2. off.tries + 1 \in 0..MaxRetries
      BY <1>4, OffloadConstants DEF IInv, TypeOK, OffloadState
    <2>3. off' \in OffloadState /\ off'.at = "upload" /\ off'.seg = off.seg
      BY <2>1, <2>2 DEF UploadFails, IInv, TypeOK, OffloadState
    <2>4. OffloadInv'
      BY <2>1, <2>3 DEF UploadFails, IInv, OffloadInv
    <2> QED
      BY <1>1, <1>2, <1>3, <2>1, <2>3, <2>4, UploadKeeps DEF UploadFails, RolledBack
  <1>5. CASE ~(off.tries < MaxRetries)
    <2>1. RolledBack(u) /\ off' \in OffloadState /\ off'.at = "next"
      BY <1>1, <1>5, RollBackSpec DEF UploadFails, IInv
    <2>2. OffloadInv'
      BY <2>1 DEF OffloadInv
    <2> QED
      BY <1>1, <1>2, <1>3, <2>1, <2>2, UploadKeeps DEF UploadFails
  <1> QED
    BY <1>4, <1>5

\* The object that head_object finds is the one that was put.
LEMMA HeadObjectStep ==
    ASSUME IInv, head_object
    PROVE  IInv'
  <1>1. PICK u \in SegmentIds : u = off.seg /\ u \in begun
    BY DEF head_object, IInv, OffloadInv
  <1>2. Uploaded(u) /\ faults' \in Nat
    BY DEF head_object, Uploaded, IInv, TypeOK
  <1>3. CASE off' = [off EXCEPT !.at = "s3"] /\ fj' = fj
    <2>1. off' \in OffloadState /\ off'.at = "s3" /\ off'.seg = off.seg
      BY <1>3 DEF IInv, TypeOK, OffloadState
    <2>2. OffloadInv'
      BY <1>3, <2>1 DEF head_object, IInv, OffloadInv
    <2> QED
      BY <1>1, <1>2, <1>3, <2>1, <2>2, UploadKeeps DEF head_object, RolledBack
  <1>4. CASE RollBack
    <2>1. RolledBack(u) /\ off' \in OffloadState /\ off'.at = "next"
      BY <1>1, <1>4, RollBackSpec DEF IInv
    <2>2. OffloadInv'
      BY <2>1 DEF OffloadInv
    <2> QED
      BY <1>1, <1>2, <2>1, <2>2, UploadKeeps DEF head_object
  <1> QED
    BY <1>3, <1>4 DEF head_object

\* S3 is set when the object is the whole file and the whole file is indexed: the
\* batch at hand belongs to another segment.  An answer of false means that the flush
\* thread has put the segment back: it is in raced.
LEMMA CasToS3Step ==
    ASSUME IInv, cas_to_s3
    PROVE  IInv'
  <1>1. PICK u \in SegmentIds : u = off.seg /\ u \in begun /\ HasFile(u) /\ s3[u] = file[u]
    BY DEF cas_to_s3, IInv, OffloadInv
  <1>2. off' \in OffloadState /\ off'.at = "remove" /\ off'.seg = u
    BY <1>1 DEF cas_to_s3, IInv, TypeOK, OffloadState
  <1>3. CASE fj.status[u] = "Offloading"
    <2>1. Marked(u, "S3")
      BY <1>1, <1>3, UpsertSpec DEF cas_to_s3, Statuses, IInv, TypeOK
    <2>2. \A e \in Flushed : home[e] = u => fj.seg[e] = u \/ (u \in forgotten /\ e \notin file[u])
      <3>1. flush.at # "off"
        BY Zenon DEF cas_to_s3, IInv, FlushInv
      <3>2. \A e \in flush.batch : home[e] # u
        BY <1>3 DEF IInv, TypeOK, FlushState, FlushInv, RecordsInv
      <3> QED
        BY <1>1, <3>1, <3>2 DEF IInv, RecordsInv, ReachInv
    <2>3. TypeOK'
      BY <1>2, <1>3, <2>1 DEF cas_to_s3, Marked, IInv, TypeOK, FlushInv
    <2>4. RegistryInv'
      BY <1>3, <2>1 DEF cas_to_s3, Marked, IInv, TypeOK, Fjall, RegistryInv
    <2>5. ObjectInv'
      BY <1>1, <1>3, <2>1, <2>2, Numbers DEF cas_to_s3, Marked, IInv, TypeOK, Fjall, RecordsInv, ObjectInv
    <2>6. RecordsInv' /\ ReachInv'
      BY <1>1, <1>3, <2>1 DEF cas_to_s3, Marked, IInv, TypeOK, RecordsInv, FlushInv, ReachInv
    <2>7. FlushInv'
      BY <1>2, <1>3, <2>1 DEF cas_to_s3, Marked, IInv, TypeOK, FlushState, FlushInv
    <2>8. OffloadInv'
      BY <1>1, <1>2, <2>1 DEF cas_to_s3, Marked, IInv, OffloadInv
    <2>9. ReadInv'
      BY <1>3, <2>1 DEF cas_to_s3, Marked, IInv, TypeOK, Fjall, ReadInv
    <2> QED
      BY <2>3, <2>4, <2>5, <2>6, <2>7, <2>8, <2>9, Frame DEF cas_to_s3, IInv
  <1>4. CASE fj.status[u] # "Offloading"
    <2>1. fj' = fj /\ u \in raced
      BY <1>1, <1>4 DEF cas_to_s3, IInv, OffloadInv
    <2>2. OffloadInv'
      BY <1>1, <1>2, <2>1 DEF cas_to_s3, IInv, OffloadInv
    <2>3. Uploaded(u) /\ RolledBack(u) /\ faults' \in Nat
      BY <2>1 DEF cas_to_s3, Uploaded, RolledBack, IInv, TypeOK
    <2> QED
      BY <1>1, <1>2, <2>2, <2>3, UploadKeeps DEF cas_to_s3
  <1> QED
    BY <1>3, <1>4

\* The file goes when its object has every record of it.
LEMMA OffRemoveStep ==
    ASSUME IInv, OffRemove
    PROVE  IInv'
  <1>1. PICK u \in SegmentIds : /\ u = off.seg /\ u \in begun /\ fj.status[u] \in Settled
                                /\ HasFile(u) /\ s3[u] = file[u]
                                /\ u \notin raced => fj.status[u] = "S3"
    BY DEF OffRemove, IInv, OffloadInv
  <1>2. off' \in OffloadState /\ off'.at = "next" /\ faults' \in Nat
    BY DEF OffRemove, IInv, TypeOK, OffloadState
  <1>3. OffloadInv'
    BY <1>2 DEF OffloadInv
  <1>4. CASE file' = file
    <2>1. Uploaded(u) /\ RolledBack(u)
      BY DEF OffRemove, Uploaded, RolledBack, IInv, TypeOK
    <2> QED
      BY <1>1, <1>2, <1>3, <1>4, <2>1, UploadKeeps DEF OffRemove
  <1>5. CASE file' = [file EXCEPT ![u] = NoFile]
    <2>1. /\ file' \in [SegmentIds -> Contents] /\ file'[u] = NoFile
          /\ \A s \in SegmentIds : s # u => file'[s] = file[s]
      BY <1>5 DEF IInv, TypeOK, Contents
    <2>2. \A e \in Entries : e \notin file'[u]
      BY <2>1, Numbers DEF NoFile
    <2>3. TypeOK'
      <3>1. flush.at \in {"tick", "index"} => fj.status[flush.seg] = "Active" /\ file'[flush.seg] # NoFile
        BY <1>1, <2>1 DEF IInv, TypeOK, FlushInv
      <3> QED
        BY <1>2, <2>1, <3>1, Zenon DEF OffRemove, IInv, TypeOK
    <2>4. RecordsInv'
      BY <1>1, <2>1, <2>2 DEF OffRemove, IInv, TypeOK, Fjall, RecordsInv
    <2>5. FlushInv'
      BY <1>1, <1>2, <2>1 DEF OffRemove, IInv, TypeOK, FlushInv
    <2>6. \A e \in Flushed : e \in file'[home[e]] => e \in file[home[e]]
      BY <2>1, <2>2 DEF IInv, TypeOK
    <2>7. ObjectInv'
      BY <2>6 DEF OffRemove, IInv, ObjectInv
    <2>8. ReachInv'
      BY <1>1, <2>1, <2>6 DEF OffRemove, IInv, TypeOK, ReachInv
    <2> QED
      BY <1>3, <2>3, <2>4, <2>5, <2>7, <2>8, Frame DEF OffRemove, IInv
  <1> QED
    BY <1>1, <1>4, <1>5 DEF OffRemove

----------------------------------------------------------------------------
(* Reads *)

\* A read starts only while a process runs.
LEMMA ReadMissesStep ==
    ASSUME IInv, NEW e \in Entries, ReadMisses(e)
    PROVE  IInv'
  <1>1. read' \in ReadState /\ read'.at = "index" /\ read'.e = e
    BY InitialTypes, Zenon DEF ReadMisses, NoRead, ReadState
  <1>2. TypeOK'
    BY <1>1 DEF ReadMisses, IInv, TypeOK
  <1>3. FlushInv' /\ ReadInv'
    BY <1>1 DEF ReadMisses, IInv, FlushInv, ReadInv
  <1> QED
    BY <1>2, <1>3, Frame DEF ReadMisses, IInv

\* A segment that is S3 has the object of every location in it.
LEMMA ReadLookUpStep ==
    ASSUME IInv, ReadLookUp
    PROVE  IInv'
  <1> DEFINE s == fj.seg[read.e]
             st == IF s = NoSegment THEN "None" ELSE fj.status[s]
  <1>1. read.e \in Entries /\ s \in SegmentIds \cup {NoSegment} /\ st \in Statuses /\ flush.at # "off"
    BY Numbers DEF ReadLookUp, IInv, TypeOK, Fjall, Statuses, FlushInv, ReadInv
  <1>2. \/ read' = NoRead
        \/ /\ s \in SegmentIds /\ st = fj.status[s] /\ st # "None"
           /\ read' = [read EXCEPT !.at = IF st = "S3" THEN "object" ELSE "block", !.seg = s, !.status = st]
    BY <1>1, Zenon DEF ReadLookUp
  <1>3. /\ read' \in ReadState /\ read'.at \in {"idle", "block", "object"}
        /\ read'.at # "idle" => /\ read'.e = read.e /\ read'.seg = s /\ read'.status = fj.status[s]
                                /\ s \in SegmentIds /\ fj.status[s] # "None"
                                /\ read'.at = IF fj.status[s] = "S3" THEN "object" ELSE "block"
    BY <1>1, <1>2, InitialTypes, Zenon DEF IInv, TypeOK, ReadState
  <1>4. TypeOK'
    BY <1>3, Zenon DEF ReadLookUp, IInv, TypeOK
  <1>5. FlushInv'
    BY <1>1 DEF ReadLookUp, IInv, FlushInv
  <1>6. ReadInv'
    <2>1. read'.at # "idle" /\ read'.status # "Active" => fj.status[s] \in Settled
      BY <1>1, <1>3 DEF IInv, TypeOK, Fjall, Statuses
    <2>2. read'.at = "object" => read.e \in s3[s]
      BY <1>1, <1>3, Numbers, Zenon DEF IInv, ObjectInv
    <2> QED
      BY <1>1, <1>3, <2>1, <2>2, Zenon DEF ReadLookUp, IInv, ReadInv
  <1> QED
    BY <1>4, <1>5, <1>6, Frame DEF ReadLookUp, IInv

\* A block that is cached has every location of its segment, and is of a sealed one.
LEMMA GetEntryBlockStep ==
    ASSUME IInv, get_entry_block
    PROVE  IInv'
  <1>1. /\ read.e \in Entries /\ read.seg \in SegmentIds /\ fj.seg[read.e] = read.seg /\ flush.at # "off"
        /\ read.status # "Active" => fj.status[read.seg] \in Settled
    BY Zenon DEF get_entry_block, IInv, FlushInv, ReadInv
  <1>2. cached[read.seg] # NoFile => read.e \in cached[read.seg]
    BY <1>1 DEF IInv, ReadInv
  <1>3. HasFile(read.seg) => \A e \in Entries : fj.seg[e] = read.seg => e \in file[read.seg]
    BY <1>1, Numbers DEF IInv, RecordsInv
  <1>4. read' = NoRead
    BY <1>1, <1>2, <1>3 DEF get_entry_block, Decoded
  <1>5. \/ cached' = cached
        \/ /\ cached' = [cached EXCEPT ![read.seg] = file[read.seg]]
           /\ HasFile(read.seg) /\ read.status # "Active"
    BY DEF get_entry_block
  <1>6. ReadUnchanged
    BY DEF get_entry_block
  <1>7. TypeOK'
    BY <1>1, <1>4, <1>5, <1>6, InitialTypes DEF IInv, TypeOK
  <1>8. FlushInv'
    BY <1>1, <1>6 DEF IInv, FlushInv
  <1>9. ReadInv'
    <2>1. \A s \in SegmentIds : \/ cached'[s] = cached[s]
                                \/ /\ s = read.seg /\ cached'[s] = file[s]
                                   /\ HasFile(s) /\ read.status # "Active"
      BY <1>1, <1>5 DEF IInv, TypeOK
    <2>2. \A s \in SegmentIds : cached'[s] # NoFile =>
             fj.status[s] \in Settled /\ \A e \in Entries : fj.seg[e] = s => e \in cached'[s]
      BY <1>1, <1>3, <2>1 DEF IInv, ReadInv
    <2> QED
      BY <1>4, <1>6, <2>2, InitialTypes DEF ReadInv
  <1> QED
    BY <1>6, <1>7, <1>8, <1>9, Frame, Frame, Zenon DEF get_entry_block, IInv

\* The object has the record since the location was looked up.
LEMMA ReadS3RecordStep ==
    ASSUME IInv, read_s3_record
    PROVE  IInv'
  <1>1. read' = NoRead /\ flush.at # "off"
    BY DEF read_s3_record, Decoded, IInv, FlushInv, ReadInv
  <1>2. TypeOK'
    BY <1>1, InitialTypes, Zenon DEF read_s3_record, IInv, TypeOK
  <1>3. FlushInv' /\ ReadInv'
    BY <1>1, InitialTypes DEF read_s3_record, IInv, FlushInv, ReadInv
  <1> QED
    BY <1>2, <1>3, Frame DEF read_s3_record, IInv

----------------------------------------------------------------------------
(* The environment *)

\* A new entry is above all that were added, and has no home.
LEMMA AddEntryStep ==
    ASSUME IInv, AddEntry
    PROVE  IInv'
  <1>1. PICK n \in Entries : n = added + 1
    BY OffloadConstants DEF AddEntry, IInv, TypeOK, Entries
  <1>2. hot' = hot \cup {n} /\ added' = n /\ n \in 0..NumEntries
    BY <1>1 DEF AddEntry, Entries
  <1>3. n > added /\ \A e \in Entries : (e > n => e > added) /\ (e <= added => e <= n)
    BY <1>1, Numbers DEF IInv, TypeOK
  <1>4. TypeOK'
    BY <1>2 DEF AddEntry, IInv, TypeOK
  <1>5. HotInv'
    <2>1. \A e \in Entries : e \in hot' \/ e > n => home[e] = NoSegment
      BY <1>2, <1>3 DEF IInv, HotInv
    <2>2. \A e \in hot' : e <= n
      BY <1>1, <1>2, <1>3, Numbers DEF IInv, TypeOK, HotInv
    <2> QED
      BY <1>2, <2>1, <2>2 DEF AddEntry, HotInv
  <1>6. FlushInv'
    BY DEF AddEntry, IInv, FlushInv
  <1> QED
    BY <1>4, <1>5, <1>6, Frame DEF AddEntry, IInv

\* What is durable is what Fjall holds.
LEMMA FjallSyncStep ==
    ASSUME IInv, FjallSync
    PROVE  IInv'
  <1>1. TypeOK'
    BY Zenon DEF FjallSync, IInv, TypeOK
  <1>2. RegistryInv' /\ ObjectInv'
    BY DEF FjallSync, IInv, RegistryInv, ObjectInv
  <1> QED
    BY <1>1, <1>2, Frame DEF FjallSync, IInv

\* Fjall goes back; a segment without a file that loses S3, or its record, is
\* forgotten, every other one keeps what a reader needs.
LEMMA CrashStep ==
    ASSUME IInv, Crash
    PROVE  IInv'
  <1>1. fj' = durable /\ durable' = durable /\ durable \in Fjall
    BY Zenon DEF Crash, IInv, TypeOK
  <1>2. /\ flush' = NoFlush /\ off' = NoOffload /\ read' = NoRead /\ hot' = {} /\ warm' = {}
        /\ cached' = [s \in SegmentIds |-> NoFile]
    BY Zenon DEF Crash
  <1>3. forgotten \subseteq forgotten' /\ forgotten' \subseteq SegmentIds
    BY Zenon DEF Crash, IInv, TypeOK
  <1>4. \A s \in SegmentIds : s \notin forgotten' /\ ~HasFile(s) =>
           /\ fj.status[s] = "S3" => durable.status[s] = "S3"
           /\ fj.status[s] # "None" => durable.status[s] # "None"
    BY Zenon DEF Crash
  <1>5. TypeOK'
    <2>1. cached' \in [SegmentIds -> Contents]
      BY <1>2 DEF Contents
    <2>2. begun' = {} /\ crashes' = crashes + 1 /\ UNCHANGED <<file, s3, added, faults, home, raced>>
      BY Zenon DEF Crash
    <2> QED
      <3>1. crashes' \in Nat
        BY <2>2 DEF IInv, TypeOK
      <3> QED
        BY <1>1, <1>2, <1>3, <2>1, <2>2, <3>1, InitialTypes DEF IInv, TypeOK
  <1>6. RegistryInv'
    BY <1>1, Zenon DEF Crash, IInv, RegistryInv
  <1>7. RecordsInv' /\ HotInv'
    <2>1. UNCHANGED <<file, s3, added, home>>
      BY Zenon DEF Crash
    <2>2. \A e \in Entries : durable.seg[e] # NoSegment /\ HasFile(durable.seg[e]) => e \in file[durable.seg[e]]
      BY DEF IInv, RegistryInv, RecordsInv
    <2>3. \A e \in Flushed : home[e] \notin forgotten' =>
             IF HasFile(home[e]) THEN e \in file[home[e]]
                                 ELSE e \in s3[home[e]] /\ durable.status[home[e]] # "None"
      BY <1>3, <1>4 DEF IInv, TypeOK, RecordsInv
    <2>4. RecordsInv'
      BY <1>1, <2>1, <2>2, <2>3 DEF IInv, RecordsInv
    <2>5. HotInv'
      BY <1>2, <2>1 DEF IInv, HotInv
    <2> QED
      BY <2>4, <2>5
  <1>8. ObjectInv'
    BY <1>1, <1>3 DEF Crash, IInv, ObjectInv
  <1>9. FlushInv' /\ OffloadInv' /\ ReadInv'
    BY <1>2, InitialTypes, Zenon DEF FlushInv, OffloadInv, ReadInv
  <1>10. ReachInv'
    BY <1>1, <1>2, <1>3, <1>4, InitialTypes DEF Crash, IInv, TypeOK, ReachInv
  <1> QED
    BY <1>5, <1>6, <1>7, <1>8, <1>9, <1>10, Frame DEF Crash, IInv

\* What recover_entry_segments does: a file without a record is registered Local,
\* and every record of a file is indexed there.
LEMMA RecoverSpec ==
    ASSUME IInv, boot
    PROVE  /\ fj' \in Fjall
           /\ \A s \in SegmentIds : \/ fj'.status[s] = fj.status[s]
                                    \/ fj.status[s] = "None" /\ fj'.status[s] = "Local" /\ HasFile(s)
           /\ \A s \in SegmentIds : HasFile(s) => fj'.status[s] # "None"
           /\ \A e \in Entries : fj.seg[e] # NoSegment => fj'.seg[e] = fj.seg[e]
           /\ \A e \in Entries : fj.seg[e] = NoSegment /\ fj'.seg[e] # NoSegment =>
                 fj'.seg[e] = home[e] /\ home[e] \in SegmentIds /\ HasFile(home[e]) /\ e \in file[home[e]]
           /\ \A e \in Flushed : e \in file[home[e]] => fj'.seg[e] = home[e]
  <1>1. \A e \in Entries : FilesWith(e) # {} =>
           Least(FilesWith(e)) = home[e] /\ home[e] \in SegmentIds /\ HasFile(home[e]) /\ e \in file[home[e]]
    <2> TAKE e \in Entries
    <2> HAVE FilesWith(e) # {}
    <2>1. Least(FilesWith(e)) \in FilesWith(e)
      BY LeastSpec DEF FilesWith
    <2> QED
      BY <2>1 DEF FilesWith, IInv, RecordsInv
  <1>2. /\ fj'.status = [s \in SegmentIds |-> IF fj.status[s] = "None" /\ HasFile(s)
                                                THEN "Local" ELSE fj.status[s]]
        /\ fj'.seg = [e \in Entries |-> IF fj.seg[e] = NoSegment /\ FilesWith(e) # {}
                                          THEN Least(FilesWith(e)) ELSE fj.seg[e]]
    BY DEF boot, recover_entry_segments
  <1>3. \A e \in Entries : fj'.seg[e] = IF fj.seg[e] = NoSegment /\ FilesWith(e) # {}
                                          THEN home[e] ELSE fj.seg[e]
    BY <1>1, <1>2
  <1>4. fj' \in Fjall
    BY <1>1 DEF boot, recover_entry_segments, Fjall, Statuses, IInv, TypeOK
  <1>5. \A e \in Flushed : e \in file[home[e]] => fj'.seg[e] = home[e]
    <2>1. \A e \in Flushed : e \in file[home[e]] => FilesWith(e) # {}
      BY Numbers, Zenon DEF FilesWith, NoFile, IInv, TypeOK
    <2> QED
      BY <1>3, <2>1 DEF IInv, RegistryInv
  <1>6. \A s \in SegmentIds : fj'.status[s] = IF fj.status[s] = "None" /\ HasFile(s)
                                               THEN "Local" ELSE fj.status[s]
    BY <1>2
  <1>7. \A e \in Entries : fj.seg[e] = NoSegment /\ fj'.seg[e] # NoSegment =>
           fj'.seg[e] = home[e] /\ home[e] \in SegmentIds /\ HasFile(home[e]) /\ e \in file[home[e]]
    BY <1>1, <1>3
  <1>8. \A e \in Entries : fj.seg[e] # NoSegment => fj'.seg[e] = fj.seg[e]
    BY <1>3
  <1> QED
    BY <1>4, <1>5, <1>6, <1>7, <1>8, Zenon

\* Recovery registers and indexes every file before a task starts.
LEMMA BootStep ==
    ASSUME IInv, boot
    PROVE  IInv'
  <1>1. /\ flush' \in FlushState /\ flush'.at = "orphans" /\ flush'.batch = {}
        /\ flush'.todo = {s \in SegmentIds : fj'.status[s] = "Active"}
    BY InitialTypes, Zenon DEF boot, NoFlush, FlushState
  <1>2. off' \in OffloadState /\ off'.at = "wait"
    BY InitialTypes DEF boot, NoOffload, OffloadState
  <1>3. read.at = "idle" /\ hot = {} /\ \A s \in SegmentIds : cached[s] = NoFile
    BY DEF boot, IInv, FlushInv
  <1>4. TypeOK'
    BY <1>1, <1>2, RecoverSpec DEF boot, IInv, TypeOK
  <1>5. RegistryInv'
    BY RecoverSpec DEF boot, IInv, TypeOK, Fjall, RegistryInv
  <1>6. RecordsInv'
    BY RecoverSpec DEF boot, IInv, TypeOK, Fjall, RegistryInv, RecordsInv
  <1>7. ObjectInv'
    <2>1. \A s \in SegmentIds : fj'.status[s] = "S3" => fj.status[s] = "S3"
      BY RecoverSpec
    <2>2. \A e \in Entries : fj'.seg[e] # NoSegment => fj'.seg[e] \in SegmentIds
      BY RecoverSpec DEF Fjall
    <2>3. ASSUME NEW e \in Entries, fj'.seg[e] # NoSegment, fj'.status[fj'.seg[e]] = "S3"
          PROVE  e \in s3[fj'.seg[e]]
      <3>1. fj.status[fj'.seg[e]] = "S3"
        BY <2>1, <2>2, <2>3
      <3>2. fj.seg[e] # NoSegment
        <4>1. SUFFICES ASSUME fj.seg[e] = NoSegment PROVE FALSE
          OBVIOUS
        <4>2. fj'.seg[e] = home[e] /\ home[e] \in SegmentIds /\ e \in file[home[e]]
          BY <2>3, <4>1, RecoverSpec
        <4>3. home[e] # NoSegment /\ fj.seg[e] = home[e]
          BY <3>1, <4>2, Numbers DEF IInv, ObjectInv
        <4> QED
          BY <4>1, <4>3
      <3>3. fj'.seg[e] = fj.seg[e]
        BY <3>2, RecoverSpec
      <3> QED
        BY <3>1, <3>2, <3>3 DEF IInv, ObjectInv
    <2>4. ASSUME NEW e \in Flushed, home[e] \notin forgotten \/ e \in file[home[e]], fj'.status[home[e]] = "S3"
          PROVE  fj'.seg[e] = home[e]
      <3>1. fj.status[home[e]] = "S3"
        BY <2>1, <2>4 DEF IInv, TypeOK
      <3>2. fj.seg[e] = home[e]
        BY <2>4, <3>1 DEF IInv, ObjectInv
      <3> QED
        BY <3>2, RecoverSpec
    <2> QED
      BY <2>3, <2>4 DEF boot, IInv, ObjectInv
  <1>8. FlushInv' /\ OffloadInv'
    BY <1>1, <1>2 DEF FlushInv, OffloadInv
  <1>9. ReachInv'
    BY <1>1, RecoverSpec DEF boot, IInv, TypeOK, ReachInv
  <1>10. ReadInv'
    BY <1>3 DEF boot, ReadInv
  <1> QED
    BY <1>4, <1>5, <1>6, <1>7, <1>8, <1>9, <1>10, Frame DEF boot, IInv

\* An empty node.
LEMMA Initial == Init => IInv
  <1> SUFFICES ASSUME Init PROVE IInv
    OBVIOUS
  <1>1. TypeOK
    BY InitialTypes, OffloadConstants DEF Init, TypeOK, Contents
  <1>2. \A s \in SegmentIds : file[s] = NoFile /\ s3[s] = NoFile /\ cached[s] = NoFile /\ fj.status[s] = "None"
    BY DEF Init, EmptyFjall
  <1>3. \A e \in Entries : fj.seg[e] = NoSegment /\ durable.seg[e] = NoSegment /\ home[e] = NoSegment
    BY DEF Init, EmptyFjall
  <1>4. \A e \in Entries : e \notin NoFile
    BY Numbers DEF NoFile
  <1>5. RegistryInv /\ ObjectInv
    BY <1>2, <1>3 DEF Init, RegistryInv, ObjectInv
  <1>6. RecordsInv /\ HotInv /\ ReachInv
    BY <1>2, <1>3, <1>4, InitialTypes, Zenon DEF Init, RecordsInv, HotInv, ReachInv
  <1>7. FlushInv /\ OffloadInv /\ ReadInv
    BY <1>2, InitialTypes DEF Init, FlushInv, OffloadInv, ReadInv
  <1> QED
    BY <1>1, <1>5, <1>6, <1>7 DEF IInv

\* One step per action.
LEMMA Preserved == IInv /\ [Next]_vars => IInv'
  <1> SUFFICES ASSUME IInv, [Next]_vars PROVE IInv'
    OBVIOUS
  <1>1. ASSUME UNCHANGED vars PROVE IInv'
    <2>1. TypeOK'
      BY <1>1 DEF vars, IInv, TypeOK
    <2> QED
      BY <1>1, <2>1, Frame, Zenon DEF vars, IInv
  <1>2. CASE boot
    BY <1>2, BootStep
  <1>3. CASE StartUp
    BY <1>3, SealOrphanStep, ListStuckStep, ResetGetStep, ResetPutStep, FlushOpenStep DEF StartUp
  <1>4. CASE FlushLoop
    BY <1>4, DrainHotToWarmStep, FlushIndexStep, EvictWarmStep DEF FlushLoop
  <1>5. CASE FlushFails
    BY <1>5, FlushFailsStep
  <1>6. CASE Offload
    BY <1>6, OffWakeStep, OffEndsStep, OffDoneStep, OffBeginStep, DoUploadStep, UploadFailsStep,
       HeadObjectStep, CasToS3Step, OffRemoveStep DEF Offload
  <1>7. CASE Read
    BY <1>7, ReadMissesStep, ReadLookUpStep, GetEntryBlockStep, ReadS3RecordStep DEF Read
  <1>8. CASE AddEntry
    BY <1>8, AddEntryStep
  <1>9. CASE FjallSync
    BY <1>9, FjallSyncStep
  <1>10. CASE Crash
    BY <1>10, CrashStep
  <1> QED
    BY <1>1, <1>2, <1>3, <1>4, <1>5, <1>6, <1>7, <1>8, <1>9, <1>10 DEF Next

----------------------------------------------------------------------------
(* The theorems *)

\* The inductive invariant holds always.
THEOREM Invariant == Spec => []IInv
  BY Initial, Preserved, PTL DEF Spec

\* The types; the flush thread only ever writes to a segment that is registered
\* Active and whose file is there (flush_loop).
THEOREM TypeCorrect == Spec => []TypeOK
  <1>1. IInv => TypeOK
    BY DEF IInv
  <1> QED
    BY <1>1, Invariant, PTL

\* The bytes of a flushed entry stay in the file or the object of its segment,
\* through any failures of S3 and any crashes that do not undo the record of a
\* segment without a file (process_pending, next_entry_seg_id).
THEOREM NoBytesLost == Spec => []BytesSurvive
  <1>1. IInv => BytesSurvive
    BY DEF IInv, RecordsInv, BytesSurvive
  <1> QED
    BY <1>1, Invariant, PTL

\* A flushed entry of a running node is where the index and the registry say it
\* is (cas_to_s3, recover_entry_segment).
THEOREM AllReachable == Spec => []FlushedReachable
  <1>1. IInv => FlushedReachable
    <2> SUFFICES ASSUME IInv, flush.at # "off", NEW e \in Flushed, e \notin warm,
                        home[e] \notin forgotten, home[e] \notin raced
                 PROVE  /\ fj.seg[e] = home[e]
                        /\ IF fj.status[home[e]] = "S3" THEN e \in s3[home[e]] ELSE e \in file[home[e]]
      BY DEF FlushedReachable
    <2>1. e \notin flush.batch
      BY DEF IInv, FlushInv
    <2>2. HasFile(home[e]) => e \in file[home[e]]
      BY DEF IInv, RecordsInv
    <2>3. fj.status[home[e]] # "S3" => HasFile(home[e])
      BY DEF IInv, ReachInv
    <2>4. fj.seg[e] = home[e]
      BY <2>1, <2>2, <2>3, Zenon DEF IInv, ObjectInv, ReachInv
    <2>5. fj.status[home[e]] = "S3" => e \in s3[home[e]]
      BY <2>4 DEF IInv, ObjectInv
    <2> QED
      BY <2>2, <2>3, <2>4, <2>5
  <1> QED
    BY <1>1, Invariant, PTL

\* A read that gets a block or an object finds its record in it: get_entry_block
\* caches only what can no longer grow.
THEOREM RecordsWhole == Spec => []ReadsWholeRecords
  <1>1. IInv => ReadsWholeRecords
    BY DEF IInv, ReadInv, ReadsWholeRecords
  <1> QED
    BY <1>1, Invariant, PTL

\* process_pending removes a file only once its object is the same, whatever
\* failed before.
THEOREM RemovalsAreSafe == Spec => RemovedOnlyUploaded
  <1> DEFINE Safe == \A s \in SegmentIds : HasFile(s) /\ file'[s] = NoFile => s3[s] = file[s]
  <1>1. IInv /\ [Next]_vars => [Safe]_vars
    <2> SUFFICES ASSUME IInv, Next PROVE Safe
      OBVIOUS
    <2>1. CASE UNCHANGED file
      BY <2>1
    <2>2. CASE \E n \in SegmentIds : open_active_segment(n)
      BY <2>2 DEF open_active_segment, NoFile, IInv, TypeOK
    <2>3. CASE drain_hot_to_warm
      BY <2>3, Numbers DEF drain_hot_to_warm, IInv, TypeOK, Contents
    <2>4. CASE OffRemove
      BY <2>4 DEF OffRemove, IInv, TypeOK, OffloadInv
    <2> QED
      BY <2>1, <2>2, <2>3, <2>4, Zenon DEF Next, boot, StartUp, SealOrphan, ListStuck, ResetGet, ResetPut, FlushOpen,
         open_active_segment, FlushLoop, FlushIndex, evict_warm, FlushFails, Offload, OffWake, OffEnds, OffDone,
         OffBegin, do_upload, UploadFails, head_object, cas_to_s3, Read, ReadMisses, ReadLookUp, get_entry_block,
         read_s3_record, AddEntry, FjallSync, Crash
  <1> QED
    BY <1>1, Invariant, PTL DEF Spec, RemovedOnlyUploaded
=============================================================================
