----------------------- MODULE StorageEngineWal_proof -----------------------
(***************************************************************************)
(* StorageEngine's WAL: the recovery after one crash serves, and does not  *)
(* truncate, what was synced, whatever the entries, the record and block   *)
(* sizes, the batches and the failed writes.                               *)
(*                                                                         *)
(* The inductive invariant WInv, on top of IInv and TInv, says how a WAL   *)
(* file is laid out (Laid: whole records, and padding to the end of a      *)
(* block), and where in it a replay may be (Between and Scanned: at the    *)
(* start of a record or in padding, with every record behind it kept).     *)
(***************************************************************************)
EXTENDS StorageEngine_proof

----------------------------------------------------------------------------
(* The layout of a WAL file *)

\* The first n units of f are whole records, and padding to the end of a block.
Laid(f, n) ==
    /\ n \in Nat /\ n <= Len(f)
    /\ \A u \in 1..n :
          \/ \A v \in u..n : v <= RoundUp(u) => f[v] = Pad
          \/ \E e \in Entries : \E q \in 0..(u - 1) : u <= q + Size[e] /\ Synced(f, n, q, e)

\* A scan at pos is not inside one of them.
Between(f, n, pos) == pos < n => f[pos + 1] = Pad \/ \E e \in Entries : Synced(f, n, pos, e)

\* A scan at pos has kept every record it passed, and last_valid_pos is not
\* before the end of any.
Scanned(f, n, pos, valid, kept) ==
    \A e \in Entries : \A q \in Nat : q < pos /\ Synced(f, n, q, e) => q + Size[e] <= valid /\ e \in kept
\* A unit of a synced record.
LEMMA SyncedUnit ==
    ASSUME NEW f \in Seq(Unit), NEW n \in Nat, n <= Len(f), NEW q \in Nat, NEW e \in Entries,
           Synced(f, n, q, e), NEW u \in Nat, q < u, u <= q + Size[e]
    PROVE  f[u] = <<e, u - q>> /\ f[u] # Pad
  <1>1. Size[e] \in Nat /\ RecordAt(f, q, e)
    BY SyncedSpec, EngineConstants
  <1>2. PICK i \in 1..Size[e] : i = u - q /\ q + i = u
    BY <1>1
  <1>3. f[u] = <<e, i>>
    BY <1>1, <1>2 DEF RecordAt
  <1> QED
    BY <1>2, <1>3 DEF Pad

\* A unit that is not padding belongs to a record.
LEMMA UnitOfRecord ==
    ASSUME NEW f \in Seq(Unit), NEW n, Laid(f, n), NEW u \in 1..n, f[u] # Pad
    PROVE  \E e \in Entries : \E q \in 0..(u - 1) : u <= q + Size[e] /\ Synced(f, n, q, e) /\ f[u] = <<e, u - q>>
  <1>0. n \in Nat /\ n <= Len(f)
    BY DEF Laid
  <1>1. RoundUp(u) >= u /\ RoundUp(u) \in Nat
    BY <1>0, Rounding
  <1>2. u \in u..n /\ u <= RoundUp(u)
    BY <1>0, <1>1
  <1>3. PICK e \in Entries, q \in 0..(u - 1) : u <= q + Size[e] /\ Synced(f, n, q, e)
    BY <1>2 DEF Laid
  <1>4. q \in Nat /\ u \in Nat /\ q < u
    BY <1>0, <1>3
  <1>5. f[u] = <<e, u - q>>
    BY <1>0, <1>3, <1>4, SyncedUnit
  <1> QED
    BY <1>3, <1>5, Zenon

\* A unit of padding is followed by padding to the end of the block.
LEMMA PaddingOfBlock ==
    ASSUME NEW f \in Seq(Unit), NEW n, Laid(f, n), NEW u \in 1..n, f[u] = Pad
    PROVE  \A v \in u..n : v <= RoundUp(u) => f[v] = Pad
  <1>0. n \in Nat /\ n <= Len(f)
    BY DEF Laid
  <1>1. ASSUME NEW e \in Entries, NEW q \in 0..(u - 1), u <= q + Size[e], Synced(f, n, q, e)
        PROVE  FALSE
    <2>1. q \in Nat /\ u \in Nat /\ q < u
      BY <1>0
    <2> QED
      BY <1>0, <1>1, <2>1, SyncedUnit
  <1> QED
    BY <1>1 DEF Laid

\* A position after the last unit of a record or of padding is between two.
LEMMA AfterUnit ==
    ASSUME NEW f \in Seq(Unit), NEW n, Laid(f, n), NEW pos \in Nat, pos > 0,
           f[pos] = Pad \/ \E e \in Entries : f[pos] = <<e, Size[e]>>
    PROVE  Between(f, n, pos)
  <1>0. n \in Nat /\ n <= Len(f)
    BY DEF Laid
  <1> SUFFICES ASSUME pos < n, f[pos + 1] # Pad
               PROVE  \E e \in Entries : Synced(f, n, pos, e)
    BY DEF Between
  <1>1. PICK e \in Entries, q \in 0..pos :
            pos + 1 <= q + Size[e] /\ Synced(f, n, q, e)
    BY <1>0, UnitOfRecord
  <1>2. q \in Nat /\ Size[e] \in Nat
    BY <1>1, EngineConstants
  <1>3. ASSUME q # pos PROVE FALSE
    <2>1. q < pos /\ pos <= q + Size[e] /\ pos - q # Size[e]
      BY <1>1, <1>2, <1>3
    <2>2. f[pos] = <<e, pos - q>> /\ f[pos] # Pad
      BY <1>0, <1>1, <1>2, <2>1, SyncedUnit
    <2> QED
      BY <2>1, <2>2
  <1> QED
    BY <1>1, <1>3

\* The scan begins between two records.
LEMMA ScanStart ==
    ASSUME NEW f \in Seq(Unit), NEW n, Laid(f, n), NEW kept
    PROVE  Between(f, n, 0) /\ Scanned(f, n, 0, 0, kept)
  <1>0. n \in Nat
    BY DEF Laid
  <1>1. ASSUME 0 < n, f[1] # Pad
        PROVE  \E e \in Entries : Synced(f, n, 0, e)
    <2>1. 1 \in 1..n
      BY <1>0, <1>1
    <2>2. PICK e \in Entries, q \in 0..(1 - 1) : Synced(f, n, q, e)
      BY <1>1, <2>1, UnitOfRecord
    <2> QED
      BY <2>2
  <1> QED
    BY <1>1 DEF Between, Scanned

\* replay_wal_segment passes a record: it is the one at pos.
LEMMA ScanRecord ==
    ASSUME NEW f \in Seq(Unit), NEW n, Laid(f, n), NEW pos \in Nat, NEW valid \in Nat, valid <= pos,
           NEW kept, NEW later, kept \subseteq later,
           NEW e \in Entries, e \in later, Decodes(f, pos, e),
           Between(f, n, pos), Scanned(f, n, pos, valid, kept)
    PROVE  /\ Between(f, n, pos + Size[e])
           /\ Scanned(f, n, pos + Size[e], pos + Size[e], later)
  <1>0. n \in Nat /\ n <= Len(f) /\ Len(f) \in Nat /\ \A x \in Entries : Size[x] \in Nat \ {0}
    BY EngineConstants DEF Laid
  <1>1. pos + Size[e] <= Len(f) /\ RecordAt(f, pos, e)
    BY DecodesSpec
  <1>2. f[pos + Size[e]] = <<e, Size[e]>>
    <2>1. Size[e] \in 1..Size[e]
      BY <1>0
    <2> QED
      BY <1>1, <2>1 DEF RecordAt
  <1>3. Between(f, n, pos + Size[e])
    <2>1. pos + Size[e] \in Nat /\ pos + Size[e] > 0
      BY <1>0
    <2> QED
      BY <1>2, <2>1, AfterUnit
  <1>4. ASSUME NEW x \in Entries, NEW q \in Nat, q < pos + Size[e], Synced(f, n, q, x)
        PROVE  q + Size[x] <= pos + Size[e] /\ x \in later
    <2>1. CASE q < pos
      <3>1. q + Size[x] <= valid /\ x \in kept
        BY <1>4, <2>1 DEF Scanned
      <3> QED
        BY <1>0, <3>1
    <2>2. CASE q >= pos
      <3>1. f[q + 1] = <<x, 1>>
        BY <1>0, <1>4, SyncedSpec
      <3>2. PICK i \in 1..Size[e] : pos + i = q + 1
        BY <1>0, <1>4, <2>2
      <3>3. f[q + 1] = <<e, i>>
        BY <1>1, <3>2 DEF RecordAt
      <3>4. x = e /\ i = 1
        BY <3>1, <3>3
      <3> QED
        BY <1>0, <3>2, <3>4
    <2> QED
      BY <2>1, <2>2
  <1> QED
    BY <1>3, <1>4 DEF Scanned

\* Rounding up to a block.
LEMMA RoundUpGrows ==
    ASSUME NEW k \in Nat
    PROVE  RoundUp(k) <= RoundUp(k + 1)
  <1>1. (k + Align - 1) \div Align <= (k + 1 + Align - 1) \div Align
    BY EngineConstants
  <1>2. (k + Align - 1) \div Align \in Nat /\ (k + 1 + Align - 1) \div Align \in Nat
    <2>1. k + Align - 1 \in Nat /\ k + 1 + Align - 1 \in Nat
      BY EngineConstants
    <2> QED
      BY <2>1, EngineConstants
  <1>3. \A a, b \in Nat : a <= b => a * Align <= b * Align
    BY EngineConstants
  <1> QED
    BY <1>1, <1>2, <1>3 DEF RoundUp

\* replay_wal_segment passes padding: no record begins in it.
LEMMA ScanPadding ==
    ASSUME NEW f \in Seq(Unit), NEW n, Laid(f, n), NEW pos \in Nat, NEW valid, NEW kept,
           f[pos + 1] = Pad,
           Between(f, n, pos), Scanned(f, n, pos, valid, kept)
    PROVE  /\ Between(f, n, RoundUp(pos))
           /\ Scanned(f, n, RoundUp(pos), valid, kept)
  <1>0. n \in Nat /\ n <= Len(f)
    BY DEF Laid
  <1>1. PICK r : r = RoundUp(pos)
    OBVIOUS
  <1>2. r \in Nat /\ r >= pos /\ r <= RoundUp(pos + 1) /\ RoundUp(pos + 1) \in Nat
    <2>1. pos + 1 \in Nat
      OBVIOUS
    <2> QED
      BY <1>1, <2>1, Rounding, RoundUpGrows
  <1>3. ASSUME NEW v \in Nat, pos < v, v <= n, v <= r
        PROVE  f[v] = Pad
    <2>1. pos + 1 \in 1..n /\ v \in (pos + 1)..n /\ v <= RoundUp(pos + 1)
      BY <1>0, <1>2, <1>3
    <2> QED
      BY <2>1, PaddingOfBlock
  <1>4. Between(f, n, r)
    <2>1. CASE r = pos
      BY <2>1
    <2>2. CASE r >= n
      BY <1>0, <1>2, <2>2 DEF Between
    <2>3. CASE r # pos /\ r < n
      <3>1. f[r] = Pad /\ r > 0
        BY <1>0, <1>2, <1>3, <2>3
      <3> QED
        BY <1>2, <3>1, AfterUnit
    <2> QED
      BY <1>0, <1>2, <2>1, <2>2, <2>3
  <1>5. ASSUME NEW x \in Entries, NEW q \in Nat, q < r, Synced(f, n, q, x)
        PROVE  q < pos
    <2>1. f[q + 1] # Pad /\ q < n
      BY <1>0, <1>5, SyncedSpec
    <2> QED
      BY <1>0, <1>2, <1>3, <1>5, <2>1
  <1>6. Scanned(f, n, r, valid, kept)
    BY <1>5 DEF Scanned
  <1> QED
    BY <1>1, <1>4, <1>6

\* A file that has the first n units of f is laid out as f, and has the same records.
LEMMA LaidPrefix ==
    ASSUME NEW f \in Seq(Unit), NEW n, Laid(f, n), NEW g \in Seq(Unit), n <= Len(g),
           \A u \in 1..n : g[u] = f[u]
    PROVE  Laid(g, n) /\ \A e \in Entries : \A q \in Nat : Synced(g, n, q, e) <=> Synced(f, n, q, e)
  <1>0. n \in Nat /\ n <= Len(f) /\ \A e \in Entries : Size[e] \in Nat
    BY EngineConstants DEF Laid
  <1>1. ASSUME NEW e \in Entries, NEW q \in Nat
        PROVE  Synced(g, n, q, e) <=> Synced(f, n, q, e)
    <2>1. q + Size[e] <= n => \A i \in 1..Size[e] : q + i \in 1..n
      BY <1>0
    <2>2. q + Size[e] <= n => (RecordAt(g, q, e) <=> RecordAt(f, q, e))
      BY <2>1, Zenon DEF RecordAt
    <2> QED
      BY <1>0, <2>2, SyncedSpec
  <1>2. ASSUME NEW u \in 1..n
        PROVE  \/ \A v \in u..n : v <= RoundUp(u) => g[v] = Pad
               \/ \E e \in Entries : \E q \in 0..(u - 1) : u <= q + Size[e] /\ Synced(g, n, q, e)
    <2>1. CASE \A v \in u..n : v <= RoundUp(u) => f[v] = Pad
      <3>1. \A v \in u..n : v \in 1..n
        BY <1>0
      <3> QED
        BY <2>1, <3>1
    <2>2. CASE \E e \in Entries : \E q \in 0..(u - 1) : u <= q + Size[e] /\ Synced(f, n, q, e)
      <3>1. PICK e \in Entries, q \in 0..(u - 1) : u <= q + Size[e] /\ Synced(f, n, q, e)
        BY <2>2
      <3>2. Synced(g, n, q, e)
        BY <1>0, <1>1, <3>1
      <3> QED
        BY <3>1, <3>2
    <2> QED
      BY <2>1, <2>2 DEF Laid
  <1>3. Laid(g, n)
    BY <1>0, <1>2 DEF Laid
  <1> QED
    BY <1>1, <1>3

\* The truncation of a torn segment: the synced records are those before
\* last_valid_pos, and stay.
LEMMA Truncated ==
    ASSUME NEW f \in Seq(Unit), NEW n, Laid(f, n), NEW pos \in Nat, NEW valid \in Nat, valid <= pos, pos <= Len(f),
           n <= pos, NEW kept, Scanned(f, n, pos, valid, kept),
           NEW m, m = Least({n, valid})
    PROVE  /\ SubSeq(f, 1, valid) \in Seq(Unit)
           /\ Laid(SubSeq(f, 1, valid), m)
           /\ \A e \in Entries : \A q \in Nat : Synced(SubSeq(f, 1, valid), m, q, e) <=> Synced(f, n, q, e)
  <1>0. n \in Nat /\ n <= Len(f) /\ Len(f) \in Nat /\ \A e \in Entries : Size[e] \in Nat \ {0}
    BY EngineConstants DEF Laid
  <1>1. m \in Nat /\ m <= n /\ m <= valid /\ (m = n \/ m = valid)
    <2>1. \E x \in {n, valid} : \A y \in {n, valid} : x <= y
      BY <1>0
    <2>2. m \in {n, valid} /\ \A y \in {n, valid} : m <= y
      BY <2>1 DEF Least
    <2> QED
      BY <1>0, <2>2
  <1>2. PICK g : g = SubSeq(f, 1, valid)
    BY Zenon
  <1>3. g \in Seq(Unit) /\ Len(g) = valid /\ \A u \in 1..valid : g[u] = f[u]
    <2>1. valid \in 0..Len(f)
      BY <1>0
    <2> QED
      BY <1>2, <2>1
  <1>4. ASSUME NEW e \in Entries, NEW q \in Nat, Synced(f, n, q, e)
        PROVE  q + Size[e] <= m
    <2>1. q < n /\ q + Size[e] <= n
      BY <1>0, <1>4, SyncedSpec
    <2>2. q + Size[e] <= valid
      BY <1>0, <1>4, <2>1 DEF Scanned
    <2> QED
      BY <1>1, <2>1, <2>2
  <1>5. ASSUME NEW e \in Entries, NEW q \in Nat
        PROVE  Synced(f, m, q, e) <=> Synced(f, n, q, e)
    <2>1. Synced(f, m, q, e) <=> q + Size[e] <= m /\ RecordAt(f, q, e)
      <3>1. m \in Nat /\ m <= Len(f)
        BY <1>0, <1>1
      <3> QED
        BY <3>1, SyncedSpec
    <2>2. Synced(f, n, q, e) <=> q + Size[e] <= n /\ RecordAt(f, q, e)
      BY <1>0, SyncedSpec
    <2>3. q + Size[e] \in Nat
      BY <1>0
    <2>4. q + Size[e] <= m => q + Size[e] <= n
      BY <1>0, <1>1, <2>3
    <2>5. Synced(f, n, q, e) => q + Size[e] <= m
      BY <1>4, Zenon
    <2> QED
      BY <2>1, <2>2, <2>4, <2>5
  <1>6. ASSUME NEW u \in 1..m
        PROVE  \/ \A v \in u..m : v <= RoundUp(u) => f[v] = Pad
               \/ \E e \in Entries : \E q \in 0..(u - 1) : u <= q + Size[e] /\ Synced(f, m, q, e)
    <2>1. u \in 1..n /\ \A v \in u..m : v \in u..n
      BY <1>0, <1>1
    <2>2. CASE \A v \in u..n : v <= RoundUp(u) => f[v] = Pad
      BY <2>1, <2>2, Zenon
    <2>3. CASE \E e \in Entries : \E q \in 0..(u - 1) : u <= q + Size[e] /\ Synced(f, n, q, e)
      <3>1. PICK e \in Entries, q \in 0..(u - 1) : u <= q + Size[e] /\ Synced(f, n, q, e)
        BY <2>3
      <3>2. q \in Nat
        BY <1>1, <3>1
      <3>3. Synced(f, m, q, e)
        BY <1>5, <3>1, <3>2, Zenon
      <3> QED
        BY <3>1, <3>3, Zenon
    <2> QED
      BY <2>1, <2>2, <2>3, Zenon DEF Laid
  <1>7. Laid(f, m)
    <2>1. m <= Len(f)
      BY <1>0, <1>1
    <2> QED
      BY <1>1, <1>6, <2>1, Zenon DEF Laid
  <1>8. m <= Len(g) /\ \A u \in 1..m : g[u] = f[u]
    <2>1. \A u \in 1..m : u \in 1..valid
      BY <1>1
    <2> QED
      BY <1>1, <1>3, <2>1, Zenon
  <1>9. Laid(g, m) /\ \A e \in Entries : \A q \in Nat : Synced(g, m, q, e) <=> Synced(f, m, q, e)
    BY <1>3, <1>7, <1>8, LaidPrefix, Zenon
  <1> QED
    BY <1>2, <1>3, <1>5, <1>9, Zenon

\* write_at: the length of the file, and its units.
LEMMA WriteAtSpec ==
    ASSUME NEW f \in Seq(Unit), NEW off \in Nat, off <= Len(f), NEW s \in Seq(Unit)
    PROVE  /\ WriteAt(f, off, s) \in Seq(Unit)
           /\ Len(WriteAt(f, off, s)) >= off + Len(s)
           /\ \A u \in 1..off : WriteAt(f, off, s)[u] = f[u]
           /\ \A u \in 1..Len(s) : WriteAt(f, off, s)[off + u] = s[u]
  <1>1. PICK n : n = Greatest({Len(f), off + Len(s)})
    OBVIOUS
  <1>2. n \in Nat /\ n >= off + Len(s)
    <2>1. Len(f) \in Nat /\ off + Len(s) \in Nat
      OBVIOUS
    <2>2. \E x \in {Len(f), off + Len(s)} : \A y \in {Len(f), off + Len(s)} : y <= x
      BY <2>1
    <2>3. n \in {Len(f), off + Len(s)} /\ \A y \in {Len(f), off + Len(s)} : y <= n
      BY <1>1, <2>2 DEF Greatest
    <2> QED
      BY <2>1, <2>3
  <1>3. WriteAt(f, off, s) = [i \in 1..n |-> IF i > off /\ i <= off + Len(s) THEN s[i - off]
                                            ELSE IF i <= Len(f) THEN f[i] ELSE Pad]
    BY <1>1 DEF WriteAt
  <1>4. WriteAt(f, off, s) \in Seq(Unit)
    BY WriteAtType
  <1>5. Len(WriteAt(f, off, s)) = n
    BY <1>2, <1>3
  <1>6. ASSUME NEW u \in 1..off PROVE WriteAt(f, off, s)[u] = f[u]
    BY <1>2, <1>3
  <1>7. ASSUME NEW u \in 1..Len(s) PROVE WriteAt(f, off, s)[off + u] = s[u]
    <2>1. off + u \in 1..n /\ off + u > off /\ off + u <= off + Len(s) /\ (off + u) - off = u
      BY <1>2
    <2> QED
      BY <1>3, <2>1
  <1> QED
    BY <1>2, <1>4, <1>5, <1>6, <1>7

\* A failed write leaves what was synced.
LEMMA FailedWrite ==
    ASSUME NEW f \in Seq(Unit), NEW n, Laid(f, n), NEW s \in Seq(Unit)
    PROVE  Laid(WriteAt(f, n, s), n)
  <1>1. n \in Nat /\ n <= Len(f)
    BY DEF Laid
  <1>2. PICK g : g = WriteAt(f, n, s)
    OBVIOUS
  <1>3. g \in Seq(Unit) /\ n <= Len(g) /\ \A u \in 1..n : g[u] = f[u]
    BY <1>1, <1>2, WriteAtSpec
  <1> QED
    BY <1>2, <1>3, LaidPrefix

\* Rounding up within blocks that follow a block boundary.
LEMMA RoundUpShift ==
    ASSUME NEW n, Aligned(n), NEW w \in Nat
    PROVE  RoundUp(n + w) = n + RoundUp(w)
  <1>1. PICK k \in Nat : n = k * Align
    BY DEF Aligned
  <1>2. PICK x \in Nat : x = w + Align - 1
    BY EngineConstants
  <1>3. (k * Align + x) \div Align = k + (x \div Align)
    BY EngineConstants
  <1>4. PICK y \in Nat : y = x \div Align
    BY <1>2, EngineConstants
  <1>5. (k + y) * Align = k * Align + y * Align
    BY EngineConstants
  <1>6. n + w + Align - 1 = k * Align + x
    BY <1>1, <1>2, EngineConstants
  <1>7. RoundUp(n + w) = (k + y) * Align
    BY <1>3, <1>4, <1>6 DEF RoundUp
  <1>8. RoundUp(w) = y * Align
    BY <1>2, <1>4 DEF RoundUp
  <1> QED
    BY <1>1, <1>5, <1>7, <1>8

\* Rounding up does not pass a block boundary.
LEMMA RoundUpWithin ==
    ASSUME NEW n, Aligned(n), NEW u \in Nat, u <= n
    PROVE  RoundUp(u) <= n
  <1>1. PICK k \in Nat : n = k * Align
    BY DEF Aligned
  <1>2. PICK y \in Nat : y = (u + Align - 1) \div Align
    <2>1. u + Align - 1 \in Nat
      BY EngineConstants
    <2> QED
      BY <2>1, EngineConstants
  <1>3. y * Align <= u + Align - 1
    BY <1>2, EngineConstants
  <1>4. k \in Nat /\ y \in Nat /\ y > k => y * Align >= k * Align + Align
    BY EngineConstants
  <1>5. k * Align \in Nat /\ y * Align \in Nat
    BY EngineConstants
  <1>6. y <= k
    BY <1>1, <1>3, <1>4, <1>5, EngineConstants
  <1>7. \A a, b \in Nat : a <= b => a * Align <= b * Align
    BY EngineConstants
  <1> QED
    BY <1>1, <1>2, <1>6, <1>7 DEF RoundUp

\* A batch written at the end of what is synced, at a block boundary.
LEMMA LaidAppend ==
    ASSUME NEW f \in Seq(Unit), NEW n, Laid(f, n), Aligned(n), NEW b \in Seq(Unit), Laid(b, Len(b)),
           NEW g \in Seq(Unit), n + Len(b) <= Len(g),
           \A u \in 1..n : g[u] = f[u], \A u \in 1..Len(b) : g[n + u] = b[u]
    PROVE  Laid(g, n + Len(b))
  <1>0. n \in Nat /\ n <= Len(f) /\ Len(b) \in Nat /\ \A e \in Entries : Size[e] \in Nat
    BY EngineConstants DEF Laid
  <1>1. PICK m \in Nat : m = n + Len(b)
    BY <1>0
  <1>2. ASSUME NEW e \in Entries, NEW q \in Nat, Synced(f, n, q, e)
        PROVE  Synced(g, m, q, e)
    <2>1. q + Size[e] <= n /\ RecordAt(f, q, e)
      BY <1>0, <1>2, SyncedSpec
    <2>2. \A i \in 1..Size[e] : q + i \in 1..n
      BY <1>0, <2>1
    <2>3. RecordAt(g, q, e)
      BY <2>1, <2>2 DEF RecordAt
    <2>4. q + Size[e] <= m
      BY <1>0, <1>1, <2>1
    <2> QED
      BY <1>1, <2>3, <2>4, SyncedSpec
  <1>3. ASSUME NEW e \in Entries, NEW q \in Nat, Synced(b, Len(b), q, e)
        PROVE  Synced(g, m, n + q, e)
    <2>1. q + Size[e] <= Len(b) /\ RecordAt(b, q, e)
      BY <1>0, <1>3, SyncedSpec
    <2>2. ASSUME NEW i \in 1..Size[e]
          PROVE  g[(n + q) + i] = <<e, i>>
      <3>1. q + i \in 1..Len(b) /\ (n + q) + i = n + (q + i)
        BY <1>0, <2>1
      <3>2. g[n + (q + i)] = b[q + i] /\ b[q + i] = <<e, i>>
        BY <2>1, <3>1 DEF RecordAt
      <3> QED
        BY <3>1, <3>2
    <2>3. RecordAt(g, n + q, e)
      BY <2>2 DEF RecordAt
    <2>4. n + q \in Nat /\ (n + q) + Size[e] <= m
      BY <1>0, <1>1, <2>1
    <2> QED
      BY <1>1, <2>3, <2>4, SyncedSpec
  <1>4. ASSUME NEW u \in 1..m, u <= n
        PROVE  \/ \A v \in u..m : v <= RoundUp(u) => g[v] = Pad
               \/ \E e \in Entries : \E q \in 0..(u - 1) : u <= q + Size[e] /\ Synced(g, m, q, e)
    <2>1. u \in 1..n /\ u \in Nat
      BY <1>0, <1>4
    <2>2. CASE \A v \in u..n : v <= RoundUp(u) => f[v] = Pad
      <3>1. RoundUp(u) <= n /\ RoundUp(u) \in Nat
        BY <1>4, <2>1, RoundUpWithin, Rounding
      <3>2. \A v \in u..m : v <= RoundUp(u) => v \in u..n /\ v \in 1..n
        BY <1>0, <1>1, <2>1, <3>1
      <3> QED
        BY <2>2, <3>2
    <2>3. CASE \E e \in Entries : \E q \in 0..(u - 1) : u <= q + Size[e] /\ Synced(f, n, q, e)
      <3>1. PICK e \in Entries, q \in 0..(u - 1) : u <= q + Size[e] /\ Synced(f, n, q, e)
        BY <2>3
      <3>2. q \in Nat
        BY <2>1, <3>1
      <3> QED
        BY <1>2, <3>1, <3>2
    <2> QED
      BY <2>1, <2>2, <2>3 DEF Laid
  <1>5. ASSUME NEW u \in 1..m, u > n
        PROVE  \/ \A v \in u..m : v <= RoundUp(u) => g[v] = Pad
               \/ \E e \in Entries : \E q \in 0..(u - 1) : u <= q + Size[e] /\ Synced(g, m, q, e)
    <2>1. PICK w \in 1..Len(b) : u = n + w /\ w \in Nat
      BY <1>0, <1>1, <1>5
    <2>2. CASE \A v \in w..Len(b) : v <= RoundUp(w) => b[v] = Pad
      <3>1. RoundUp(u) = n + RoundUp(w) /\ RoundUp(w) \in Nat
        BY <2>1, RoundUpShift, Rounding
      <3>2. ASSUME NEW v \in u..m, v <= RoundUp(u)
            PROVE  g[v] = Pad
        <4>1. PICK x \in w..Len(b) : v = n + x /\ x <= RoundUp(w) /\ x \in 1..Len(b)
          BY <1>0, <1>1, <2>1, <3>1, <3>2
        <4>2. b[x] = Pad
          BY <2>2, <4>1
        <4> QED
          BY <4>1, <4>2
      <3> QED
        BY <3>2
    <2>3. CASE \E e \in Entries : \E q \in 0..(w - 1) : w <= q + Size[e] /\ Synced(b, Len(b), q, e)
      <3>1. PICK e \in Entries, q \in 0..(w - 1) : w <= q + Size[e] /\ Synced(b, Len(b), q, e)
        BY <2>3
      <3>2. q \in Nat /\ n + q \in 0..(u - 1) /\ u <= (n + q) + Size[e]
        BY <1>0, <2>1, <3>1
      <3>3. Synced(g, m, n + q, e)
        BY <1>3, <3>1, <3>2
      <3> QED
        BY <3>2, <3>3
    <2> QED
      BY <2>1, <2>2, <2>3, Zenon DEF Laid
  <1>6. ASSUME NEW u \in 1..m
        PROVE  \/ \A v \in u..m : v <= RoundUp(u) => g[v] = Pad
               \/ \E e \in Entries : \E q \in 0..(u - 1) : u <= q + Size[e] /\ Synced(g, m, q, e)
    <2>1. u <= n \/ u > n
      BY <1>0, <1>1
    <2> QED
      BY <1>4, <1>5, <2>1
  <1> QED
    BY <1>1, <1>6 DEF Laid

\* The buffer a batch is written from: whole records, padded to whole blocks.
LEMMA BytesLaid ==
    ASSUME NEW batch \in Seq(Entries)
    PROVE  Laid(Bytes(batch), Len(Bytes(batch)))
  <1> DEFINE p == CHOOSE f : Pushed(batch, Len(batch), f)
  <1>1. Pushed(batch, Len(batch), p)
    <2>1. Len(batch) \in 0..Len(batch)
      OBVIOUS
    <2> QED
      BY <2>1, PushedExists
  <1>2. PICK s : s = p[Len(batch)]
    BY Zenon
  <1>3. s \in Seq(Unit) /\ Whole(s)
    BY <1>1, <1>2, PushedWhole
  <1>4. Bytes(batch) = Padded(s)
    BY <1>2 DEF Bytes, Pushed
  <1>5. PICK g : g = Padded(s)
    OBVIOUS
  <1>6. PICK n \in Nat : n = Len(s)
    BY <1>3
  <1>7. PICK m \in Nat : m = RoundUp(n) /\ m >= n
    BY <1>6, Rounding
  <1>8. g = [i \in 1..m |-> IF i <= n THEN s[i] ELSE Pad]
    BY <1>5, <1>6, <1>7 DEF Padded
  <1>9. g \in Seq(Unit) /\ Len(g) = m
    <2>1. Bytes(batch) \in Seq(Unit)
      BY BytesType
    <2> QED
      BY <1>4, <1>5, <1>7, <1>8, <2>1
  <1>10. ASSUME NEW e \in Entries, NEW q \in Nat, Synced(s, n, q, e)
         PROVE  Synced(g, m, q, e)
    <2>0. Size[e] \in Nat
      BY EngineConstants
    <2>1. q + Size[e] <= n /\ RecordAt(s, q, e)
      BY <1>3, <1>6, <1>10, SyncedSpec
    <2>2. \A i \in 1..Size[e] : q + i \in 1..m /\ q + i <= n
      BY <1>7, <2>0, <2>1
    <2>3. RecordAt(g, q, e)
      BY <1>8, <2>1, <2>2 DEF RecordAt
    <2>4. q + Size[e] <= m
      BY <1>7, <2>0, <2>1
    <2> QED
      BY <1>9, <2>3, <2>4, SyncedSpec
  <1>11. ASSUME NEW u \in 1..m
         PROVE  \/ \A v \in u..m : v <= RoundUp(u) => g[v] = Pad
                \/ \E e \in Entries : \E q \in 0..(u - 1) : u <= q + Size[e] /\ Synced(g, m, q, e)
    <2>1. CASE u <= n
      <3>1. u \in 1..Len(s) /\ u \in Nat
        BY <1>6, <2>1
      <3>2. PICK e \in Entries, q \in 0..(u - 1) : u <= q + Size[e] /\ Synced(s, n, q, e)
        BY <1>3, <1>6, <3>1 DEF Whole
      <3>3. q \in Nat
        BY <3>1, <3>2
      <3> QED
        BY <1>10, <3>2, <3>3
    <2>2. CASE u > n
      <3>1. \A v \in u..m : v \in 1..m /\ ~(v <= n)
        BY <2>2
      <3> QED
        BY <1>8, <3>1
    <2> QED
      BY <2>1, <2>2
  <1>12. Laid(g, m)
    BY <1>9, <1>11 DEF Laid
  <1> QED
    BY <1>4, <1>5, <1>9, <1>12

\* A batch that was written and synced extends what is synced.
LEMMA SyncedWrite ==
    ASSUME NEW f \in Seq(Unit), NEW n, Laid(f, n), Aligned(n), NEW batch \in Seq(Entries)
    PROVE  Laid(WriteAt(f, n, Bytes(batch)), n + Len(Bytes(batch)))
  <1>1. n \in Nat /\ n <= Len(f)
    BY DEF Laid
  <1>2. PICK b : b = Bytes(batch)
    OBVIOUS
  <1>3. b \in Seq(Unit) /\ Laid(b, Len(b))
    BY <1>2, BytesType, BytesLaid
  <1>4. PICK g : g = WriteAt(f, n, b)
    OBVIOUS
  <1>5. /\ g \in Seq(Unit) /\ n + Len(b) <= Len(g)
        /\ \A u \in 1..n : g[u] = f[u]
        /\ \A u \in 1..Len(b) : g[n + u] = b[u]
    BY <1>1, <1>3, <1>4, WriteAtSpec
  <1>6. Laid(g, n + Len(b))
    BY <1>3, <1>5, LaidAppend, Zenon
  <1> QED
    BY <1>2, <1>4, <1>6

----------------------------------------------------------------------------
(* The recovery after one crash *)

\* What replay_wal_segment need not look at again.
Kept == {e \in Entries : e \in hot \/ Indexed(fj, e)}
Extent(id) == SyncedTo(fj.wal[id].path)

\* Every WAL file is laid out so far, until the node has restarted and serves.
LayoutInv ==
    crashes = 0 \/ (crashes = 1 /\ phase # "serve") =>
        \A path \in DOMAIN wal : Laid(wal[path], synced[path])

\* Before the node serves the journal does not write or seal, and when its
\* thread registers active.seg recover has given its id to no other file.
\* What recover replays is registered.
StartInv ==
    phase # "serve" =>
        /\ journal.at \in {"down", "starting", "run"}
        /\ journal.at = "starting" /\ journal.id \in DOMAIN fj.wal =>
              phase = "replay" /\ fj.wal[journal.id] = [status |-> "Local", path |-> ActiveSeg]
        /\ phase = "replay" => replay.todo \subseteq DOMAIN fj.wal

\* The first process: it starts with no file, replays nothing, and the thread
\* writes where the synced part of active.seg ends.
FirstInv ==
    crashes = 0 =>
        /\ phase # "serve" => \A path \in DOMAIN wal : wal[path] = <<>>
        /\ journal.at \in {"down", "starting"} => DOMAIN wal = {}
        /\ journal.at \in {"run", "seal"} /\ ActiveSeg \in DOMAIN wal => synced[ActiveSeg] = journal.off
        /\ replay.pos = 0 /\ replay.valid = 0

\* Checkpoints: of registered segments, and 0 until a replay after a crash.
CheckpointInv(f, n) ==
    /\ DOMAIN f.checkpoint \subseteq DOMAIN f.wal
    /\ n = 0 => \A id \in DOMAIN f.checkpoint : f.checkpoint[id] = 0

\* The recovery after one crash: a segment still to be replayed has no
\* checkpoint, the scan of the open one is at a record or at padding, and what
\* is synced in those behind it is kept.
ScanInv ==
    crashes <= 1 /\ phase # "serve" =>
        /\ phase # "replay" => \A id \in DOMAIN fj.checkpoint : fj.checkpoint[id] = 0
        /\ phase = "replay" =>
              /\ \A id \in replay.todo : Checkpoint(id) = 0
              /\ replay.open =>
                    /\ replay.todo # {}
                    /\ Between(Content, Extent(Segment), replay.pos)
                    /\ Scanned(Content, Extent(Segment), replay.pos, replay.valid, Kept)
              /\ \A id \in DOMAIN fj.checkpoint \ replay.todo : fj.wal[id].status # "Deleted" =>
                    \A e \in Entries : \A q \in Nat : Synced(WalFile(id), Extent(id), q, e) => e \in Kept

\* The history variable synced describes the files there are.
SyncTypes == DOMAIN synced = DOMAIN wal /\ \A path \in DOMAIN wal : synced[path] \in Nat

WInv ==
    /\ SyncTypes /\ LayoutInv /\ StartInv /\ FirstInv /\ ScanInv
    /\ CheckpointInv(fj, crashes) /\ CheckpointInv(durable, crashes)

\* The steps that touch a WAL file.
LEMMA WalSteps ==
    ASSUME Next
    PROVE  \/ JournalStart \/ SealRename \/ SealReopen \/ ReplayTorn
           \/ \E batch \in Batches : \/ BatchWritten(batch)
                                     \/ \E k \in 0..Len(Bytes(batch)) : BatchFails(batch, k)
           \/ \E id \in DOMAIN fj.wal : wal_gc(id)
           \/ UNCHANGED <<wal, synced>>
  BY Zenon DEF Next, Journal, Flush, Recover, fileVars, walVars, AddReturns, seal, SealFails, SealRegister, FlushStart,
         drain_hot_to_warm, FlushSynced, FlushFails, FlushIndex, FlushRegister, FjallSync, Crash, Boot,
         recover_entry_segments, recover_wal, ReplayOpen, ReplayPadding, ReplayEnd, RecoveryDone, ReplayRecord

\* add_entry's entries reach the journal only from a node that serves.
LEMMA BatchServes ==
    ASSUME NEW batch \in Batches
    PROVE  phase = "serve"
  <1>1. PICK k \in 1..MaxBatch : batch \in [1..k -> {e \in Entries : MayAdd(e)}]
    BY DEF Batches
  <1>2. k \in Nat /\ 1 \in 1..k
    BY <1>1, EngineConstants
  <1>3. batch[1] \in {e \in Entries : MayAdd(e)}
    BY <1>1, <1>2
  <1> QED
    BY <1>3 DEF MayAdd

\* Before a node serves it only starts its journal thread and recovers.
LEMMA BeforeServing ==
    ASSUME IInv, StartInv, Next, phase # "serve"
    PROVE  \/ JournalStart \/ FjallSync \/ Boot \/ recover_entry_segments \/ recover_wal
           \/ ReplayOpen \/ ReplayPadding \/ ReplayTorn \/ ReplayEnd \/ RecoveryDone
           \/ \E e \in Entries : ReplayRecord(e) \/ AddReturns(e)
           \/ \E kept \in SUBSET flush.batch : Crash(kept)
  <1>1. flush.at = "down" /\ journal.at \in {"down", "starting", "run"} /\ flush.batch = {}
    BY DEF IInv, FlushInv, StartInv
  <1>2. ~Flush
    BY <1>1 DEF Flush, FlushStart, drain_hot_to_warm, FlushSynced, FlushFails, FlushIndex, FlushRegister
  <1>3. ~\E id \in DOMAIN fj.wal : wal_gc(id)
    BY Zenon DEF wal_gc
  <1>4. Journal => JournalStart
    BY <1>1, BatchServes, Zenon DEF Journal, seal, SealRename, SealFails, SealRegister, SealReopen
  <1> QED
    BY <1>2, <1>3, <1>4 DEF Next, Recover

\* A node stops serving only in a crash, and only a crash is counted.
LEMMA CrashCounted ==
    ASSUME Next
    PROVE  \/ \E kept \in SUBSET flush.batch : Crash(kept)
           \/ crashes' = crashes /\ (phase = "serve" => phase' = "serve")
  BY Zenon DEF Next, Journal, Flush, Recover, boundVars, AddReturns, JournalStart, seal, SealRename, SealFails,
         SealRegister, SealReopen, BatchWritten, BatchFails, FlushStart, drain_hot_to_warm, FlushSynced,
         FlushFails, FlushIndex, FlushRegister, wal_gc, FjallSync, Boot, recover_entry_segments, recover_wal,
         ReplayOpen, ReplayPadding, ReplayTorn, ReplayEnd, RecoveryDone, ReplayRecord

\* A torn segment is truncated at last_valid_pos.
LEMMA TornSpec ==
    ASSUME IInv, TInv, ReplayTorn
    PROVE  LET path == fj.wal[Segment].path IN
           /\ phase = "replay" /\ replay.open /\ path \in DOMAIN wal /\ Content = wal[path]
           /\ Content \in Seq(Unit) /\ replay.pos < Len(Content)
           /\ wal' = [wal EXCEPT ![path] = SubSeq(wal[path], 1, replay.valid)]
           /\ synced' = [synced EXCEPT ![path] = Least({synced[path], replay.valid})]
  <1>1. replay.pos \in Nat /\ Scanning /\ replay.pos < Len(Content)
    BY DEF TInv, ReplayTypes, ReplayTorn
  <1>2. fj.wal[Segment].path \in DOMAIN wal
    <2>1. Len(<<>>) = 0
      OBVIOUS
    <2> QED
      BY <1>1, <2>1 DEF Content, WalFile, File
  <1>3. Content = wal[fj.wal[Segment].path] /\ Content \in Seq(Unit)
    BY <1>2, FileType DEF Content, WalFile, File
  <1> QED
    BY <1>1, <1>2, <1>3, Zenon DEF ReplayTorn, Scanning

\* The lengths of files there are.
LEMMA SyncNext ==
    ASSUME IInv, TInv, SyncTypes, Next
    PROVE  SyncTypes'
  <1>1. CASE JournalStart
    BY <1>1 DEF JournalStart, Put, SyncTypes, SyncedTo
  <1>2. CASE SealRename
    BY <1>2 DEF SealRename, Renamed, SyncTypes
  <1>3. CASE SealReopen
    BY <1>3 DEF SealReopen, Put, SyncTypes
  <1>4. CASE ReplayTorn
    <2>1. PICK path : path = fj.wal[Segment].path
      OBVIOUS
    <2>2. /\ path \in DOMAIN wal
          /\ wal' = [wal EXCEPT ![path] = SubSeq(wal[path], 1, replay.valid)]
          /\ synced' = [synced EXCEPT ![path] = Least({synced[path], replay.valid})]
      BY <1>4, <2>1, TornSpec
    <2>3. Least({synced[path], replay.valid}) \in Nat
      <3>1. synced[path] \in Nat /\ replay.valid \in Nat
        BY <2>2 DEF SyncTypes, TInv, ReplayTypes
      <3>2. {synced[path], replay.valid} \in SUBSET Nat /\ {synced[path], replay.valid} # {}
        BY <3>1
      <3> QED
        BY <3>2, LeastSpec
    <2> QED
      BY <2>2, <2>3 DEF SyncTypes
  <1>5. CASE \E batch \in Batches : \/ BatchWritten(batch)
                                    \/ \E k \in 0..Len(Bytes(batch)) : BatchFails(batch, k)
    <2>1. PICK batch \in Batches : \/ BatchWritten(batch)
                                   \/ \E k \in 0..Len(Bytes(batch)) : BatchFails(batch, k)
      BY <1>5
    <2>2. journal.off + Len(Bytes(batch)) \in Nat
      BY BatchType, BytesType, AlignedSpec DEF TInv, WalTypes
    <2>3. DOMAIN wal' = DOMAIN wal
      BY <2>1 DEF BatchWritten, BatchFails
    <2>4. \/ synced' = [synced EXCEPT ![ActiveSeg] = journal.off + Len(Bytes(batch))]
          \/ synced' = synced
      BY <2>1 DEF BatchWritten, BatchFails
    <2> QED
      BY <2>2, <2>3, <2>4 DEF SyncTypes
  <1>6. CASE \E id \in DOMAIN fj.wal : wal_gc(id)
    BY <1>6 DEF wal_gc, SyncTypes
  <1>7. CASE UNCHANGED <<wal, synced>>
    BY <1>7 DEF SyncTypes
  <1> QED
    BY <1>1, <1>2, <1>3, <1>4, <1>5, <1>6, <1>7, WalSteps, Zenon

\* A missing or empty file is laid out.
LEMMA EmptyLaid ==
    Laid(<<>>, 0)
  <1>1. Len(<<>>) = 0 /\ 1..0 = {}
    OBVIOUS
  <1> QED
    BY <1>1 DEF Laid

\* The segments a recovery meets are laid out, as far as they are synced.
LEMMA SegmentLaid ==
    ASSUME TInv, LayoutInv, crashes <= 1, phase # "serve", NEW id
    PROVE  WalFile(id) \in Seq(Unit) /\ Laid(WalFile(id), Extent(id))
  <1>1. crashes = 0 \/ (crashes = 1 /\ phase # "serve")
    BY DEF TInv, ReplayTypes
  <1>2. CASE fj.wal[id].path \in DOMAIN wal
    BY <1>1, <1>2, FileType DEF LayoutInv, WalFile, File, Extent, SyncedTo
  <1>3. CASE fj.wal[id].path \notin DOMAIN wal
    BY <1>3, FileType, EmptyLaid DEF WalFile, File, Extent, SyncedTo
  <1> QED
    BY <1>2, <1>3

\* Where a torn write is met everything synced is behind, so it is kept.
LEMMA TornBehind ==
    ASSUME IInv, TInv, WInv, ReplayTorn, crashes <= 1
    PROVE  LET path == fj.wal[Segment].path IN
           /\ wal'[path] \in Seq(Unit)
           /\ Laid(wal'[path], synced'[path])
           /\ \A e \in Entries : \A q \in Nat :
                 Synced(wal'[path], synced'[path], q, e) <=> Synced(wal[path], synced[path], q, e)
           /\ \A e \in Entries : \A q \in Nat : Synced(wal[path], synced[path], q, e) => e \in Kept
  <1>1. PICK path : path = fj.wal[Segment].path
    OBVIOUS
  <1>2. /\ phase = "replay" /\ replay.open /\ path \in DOMAIN wal /\ Content = wal[path]
        /\ Content \in Seq(Unit) /\ replay.pos < Len(Content)
        /\ wal' = [wal EXCEPT ![path] = SubSeq(wal[path], 1, replay.valid)]
        /\ synced' = [synced EXCEPT ![path] = Least({synced[path], replay.valid})]
    BY <1>1, TornSpec
  <1>3. PICK f \in Seq(Unit), n \in Nat : f = wal[path] /\ n = synced[path]
    BY <1>2 DEF WInv, SyncTypes
  <1>4. Laid(f, n)
    <2>1. crashes = 0 \/ (crashes = 1 /\ phase # "serve")
      BY <1>2 DEF TInv, ReplayTypes
    <2> QED
      BY <1>2, <1>3, <2>1 DEF WInv, LayoutInv
  <1>5. Content = f /\ Extent(Segment) = n
    BY <1>1, <1>2, <1>3 DEF Extent, SyncedTo
  <1>6. Between(f, n, replay.pos) /\ Scanned(f, n, replay.pos, replay.valid, Kept)
    BY <1>2, <1>5 DEF WInv, ScanInv
  <1>7. replay.pos \in Nat /\ replay.valid \in Nat /\ replay.valid <= replay.pos /\ Len(f) \in Nat
    BY DEF TInv, ReplayTypes
  <1>8. n <= replay.pos
    <2>1. f[replay.pos + 1] # Pad /\ \A e \in Entries : ~Synced(f, n, replay.pos, e)
      BY <1>5, Zenon DEF ReplayTorn, Synced
    <2> QED
      BY <1>6, <1>7, <2>1 DEF Between
  <1>9. replay.pos <= Len(f)
    BY <1>2, <1>5, <1>7
  <1>10. PICK m : m = Least({n, replay.valid})
    OBVIOUS
  <1>11. wal'[path] = SubSeq(f, 1, replay.valid) /\ synced'[path] = m
    BY <1>2, <1>3, <1>10, Zenon DEF WInv, SyncTypes
  <1>12. /\ SubSeq(f, 1, replay.valid) \in Seq(Unit)
         /\ Laid(SubSeq(f, 1, replay.valid), m)
         /\ \A e \in Entries : \A q \in Nat : Synced(SubSeq(f, 1, replay.valid), m, q, e) <=> Synced(f, n, q, e)
    BY <1>4, <1>6, <1>7, <1>8, <1>9, <1>10, Truncated, Zenon
  <1>13. ASSUME NEW e \in Entries, NEW q \in Nat, Synced(f, n, q, e)
         PROVE  e \in Kept
    <2>1. q < n
      BY <1>4, <1>13, SyncedSpec, Zenon DEF Laid
    <2>2. q < replay.pos
      BY <1>7, <1>8, <2>1
    <2> QED
      BY <1>6, <1>13, <2>2 DEF Scanned
  <1> QED
    BY <1>1, <1>3, <1>11, <1>12, <1>13, Zenon

\* The layout of the files.
LEMMA LayoutNext ==
    ASSUME IInv, TInv, WInv, Next
    PROVE  LayoutInv'
  <1> SUFFICES ASSUME crashes' = 0 \/ (crashes' = 1 /\ phase' # "serve")
               PROVE  \A path \in DOMAIN wal' : Laid(wal'[path], synced'[path])
    BY DEF LayoutInv
  <1>1. crashes = 0 \/ (crashes = 1 /\ phase # "serve")
    <2>1. crashes \in Nat
      BY DEF TInv, ReplayTypes
    <2>2. CASE \E kept \in SUBSET flush.batch : Crash(kept)
      BY <2>1, <2>2 DEF Crash
    <2> QED
      BY <2>1, <2>2, CrashCounted
  <1>2. \A path \in DOMAIN wal : wal[path] \in Seq(Unit) /\ Laid(wal[path], synced[path])
    BY <1>1 DEF WInv, LayoutInv, TInv, WalTypes
  <1>3. CASE JournalStart
    <2>1. /\ wal' = Put(wal, ActiveSeg, File(ActiveSeg))
          /\ synced' = Put(synced, ActiveSeg, SyncedTo(ActiveSeg))
      BY <1>3 DEF JournalStart
    <2>2. Laid(File(ActiveSeg), SyncedTo(ActiveSeg))
      BY <1>2, EmptyLaid DEF File, SyncedTo
    <2> QED
      BY <1>2, <2>1, <2>2 DEF Put, WInv, SyncTypes
  <1>4. CASE SealRename
    BY <1>2, <1>4 DEF SealRename, Renamed, WInv, SyncTypes
  <1>5. CASE SealReopen
    BY <1>2, <1>5, EmptyLaid DEF SealReopen, Put, WInv, SyncTypes
  <1>6. CASE ReplayTorn
    <2>1. PICK p : p = fj.wal[Segment].path
      OBVIOUS
    <2>2. /\ wal' = [wal EXCEPT ![p] = SubSeq(wal[p], 1, replay.valid)]
          /\ synced' = [synced EXCEPT ![p] = Least({synced[p], replay.valid})]
      BY <1>6, <2>1, TornSpec, Zenon
    <2>3. Laid(wal'[p], synced'[p])
      BY <1>1, <1>6, <2>1, TornBehind
    <2> QED
      BY <1>2, <2>2, <2>3, Zenon DEF WInv, SyncTypes
  <1>7. CASE \E batch \in Batches : \/ BatchWritten(batch)
                                    \/ \E k \in 0..Len(Bytes(batch)) : BatchFails(batch, k)
    <2>1. PICK batch \in Batches : \/ BatchWritten(batch)
                                   \/ \E k \in 0..Len(Bytes(batch)) : BatchFails(batch, k)
      BY <1>7
    <2>2. crashes = 0 /\ journal.at = "run"
      BY <1>1, <2>1, BatchServes, Zenon DEF BatchWritten, BatchFails
    <2>3. Aligned(journal.off) /\ (ActiveSeg \in DOMAIN wal => synced[ActiveSeg] = journal.off)
      BY <2>2 DEF TInv, WalTypes, WInv, FirstInv
    <2>4. batch \in Seq(Entries) /\ Bytes(batch) \in Seq(Unit)
      BY BatchType, BytesType, Zenon
    <2>5. ASSUME ActiveSeg \in DOMAIN wal
          PROVE  Laid(wal'[ActiveSeg], synced'[ActiveSeg])
      <3>1. PICK f \in Seq(Unit), n \in Nat : f = wal[ActiveSeg] /\ n = synced[ActiveSeg] /\ n = journal.off
        BY <1>2, <2>3, <2>5 DEF WInv, SyncTypes
      <3>2. Laid(f, n) /\ Aligned(n)
        BY <1>2, <2>3, <2>5, <3>1, Zenon
      <3>3. CASE BatchWritten(batch)
        <4>1. wal'[ActiveSeg] = WriteAt(f, n, Bytes(batch)) /\ synced'[ActiveSeg] = n + Len(Bytes(batch))
          BY <2>5, <3>1, <3>3 DEF BatchWritten, WInv, SyncTypes
        <4> QED
          BY <2>4, <3>2, <4>1, SyncedWrite, Zenon
      <3>4. ASSUME NEW k \in 0..Len(Bytes(batch)), BatchFails(batch, k)
            PROVE  Laid(wal'[ActiveSeg], synced'[ActiveSeg])
        <4>1. wal'[ActiveSeg] = WriteAt(f, n, SubSeq(Bytes(batch), 1, k)) /\ synced'[ActiveSeg] = n
          BY <2>5, <3>1, <3>4, Zenon DEF BatchFails
        <4>2. SubSeq(Bytes(batch), 1, k) \in Seq(Unit)
          BY <2>4
        <4> QED
          BY <3>2, <4>1, <4>2, FailedWrite, Zenon
      <3> QED
        BY <2>1, <3>3, <3>4, Zenon
    <2>6. /\ DOMAIN wal' = DOMAIN wal
          /\ \A path \in DOMAIN wal : path # ActiveSeg => wal'[path] = wal[path] /\ synced'[path] = synced[path]
      BY <2>1 DEF BatchWritten, BatchFails, WInv, SyncTypes
    <2> QED
      BY <1>2, <2>5, <2>6
  <1>8. CASE \E id \in DOMAIN fj.wal : wal_gc(id)
    BY <1>2, <1>8 DEF wal_gc
  <1>9. CASE UNCHANGED <<wal, synced>>
    BY <1>2, <1>9
  <1> QED
    BY <1>3, <1>4, <1>5, <1>6, <1>7, <1>8, <1>9, WalSteps, Zenon

\* The journal thread and the registry until the node serves.
LEMMA StartNext ==
    ASSUME IInv, TInv, WInv, Next
    PROVE  StartInv'
  <1> SUFFICES ASSUME phase' # "serve" PROVE StartInv'
    BY DEF StartInv
  <1>1. CASE \E kept \in SUBSET flush.batch : Crash(kept)
    BY <1>1 DEF Crash, Stopped, StartInv
  <1>2. CASE phase # "serve"
    <2>1. /\ journal.at \in {"down", "starting", "run"}
          /\ journal.at = "starting" /\ journal.id \in DOMAIN fj.wal =>
                phase = "replay" /\ fj.wal[journal.id] = [status |-> "Local", path |-> ActiveSeg]
          /\ phase = "replay" => replay.todo \subseteq DOMAIN fj.wal
      BY <1>2, Zenon DEF WInv, StartInv
    <2>2. CASE JournalStart
      <3>1. /\ journal'.at = "run" /\ UNCHANGED <<phase, replay>>
            /\ fj'.wal = Registered(fj.wal, journal.id, "Active", ActiveSeg)
        BY <2>2 DEF JournalStart, IInv, JournalInv, FjallInv, Maps
      <3> QED
        BY <2>1, <3>1 DEF StartInv, Registered, Put
    <2>3. CASE Boot
      <3>1. PICK i : i = NextId(Sealed, DOMAIN fj.wal)
        OBVIOUS
      <3>2. i \notin DOMAIN fj.wal
        BY <3>1, NextIdSpec DEF IInv, JournalInv, FjallInv
      <3>3. journal' = [at |-> "starting", id |-> i, off |-> 0] /\ phase' = "entries" /\ UNCHANGED fj
        BY <2>3, <3>1 DEF Boot
      <3> QED
        BY <3>2, <3>3 DEF StartInv
    <2>4. CASE recover_entry_segments
      <3>1. UNCHANGED journal /\ phase = "entries" /\ phase' = "register" /\ fj'.wal = fj.wal
        BY <2>4 DEF recover_entry_segments, IInv, FjallInv, Maps
      <3> QED
        BY <2>1, <3>1 DEF StartInv
    <2>5. CASE recover_wal
      <3>1. UNCHANGED <<journal, wal>> /\ phase = "register" /\ phase' = "replay" /\ fj'.wal = WalRegistry
        BY <2>5 DEF recover_wal, fileVars, walVars, IInv, FjallInv, Maps
      <3>2. replay'.todo \subseteq DOMAIN WalRegistry
        BY <2>5 DEF recover_wal, NoReplay
      <3>3. ASSUME journal.at = "starting", journal.id \in DOMAIN WalRegistry
            PROVE  WalRegistry[journal.id] = [status |-> "Local", path |-> ActiveSeg]
        <4>1. journal.id \notin Sealed
          BY <3>3 DEF IInv, JournalInv
        <4>2. journal.id \notin DOMAIN fj.wal
          BY <2>1, <3>1, <3>3, Zenon
        <4> QED
          BY <3>3, <4>1, <4>2 DEF WalRegistry
      <3> QED
        BY <2>1, <3>1, <3>2, <3>3 DEF StartInv
    <2>6. CASE ReplayOpen \/ ReplayPadding \/ (\E e \in Entries : ReplayRecord(e))
      <3>1. UNCHANGED <<journal, phase>> /\ fj'.wal = fj.wal
        BY <2>6, Zenon DEF ReplayOpen, ReplayPadding, ReplayRecord, IInv, FjallInv, Maps
      <3>2. replay'.todo = replay.todo
        BY <2>6, Zenon DEF ReplayOpen, ReplayPadding, ReplayRecord, TInv, ReplayTypes
      <3> QED
        BY <2>1, <3>1, <3>2 DEF StartInv
    <2>7. CASE ReplayTorn \/ ReplayEnd
      <3>1. UNCHANGED <<journal, phase>> /\ fj'.wal = fj.wal
        BY <2>7, Zenon DEF ReplayTorn, ReplayEnd, ReplayNext, IInv, FjallInv, Maps
      <3>2. replay'.todo \subseteq replay.todo
        BY <2>7, Zenon DEF ReplayTorn, ReplayEnd, ReplayNext, NoReplay
      <3> QED
        BY <2>1, <3>1, <3>2 DEF StartInv
    <2>8. CASE FjallSync \/ \E e \in Entries : AddReturns(e)
      <3>1. UNCHANGED <<journal, phase, fj, replay>>
        BY <2>8 DEF FjallSync, AddReturns
      <3> QED
        BY <2>1, <3>1 DEF StartInv
    <2>9. CASE RecoveryDone
      BY <2>9 DEF RecoveryDone
    <2> QED
      BY <1>1, <1>2, <2>2, <2>3, <2>4, <2>5, <2>6, <2>7, <2>8, <2>9, BeforeServing, Zenon DEF WInv
  <1> QED
    BY <1>1, <1>2, CrashCounted

\* In the first process there is nothing to replay.
LEMMA NothingToReplay ==
    ASSUME WInv, crashes = 0, phase = "replay"
    PROVE  Content = <<>> /\ Len(Content) = 0
  <1>1. \A path \in DOMAIN wal : wal[path] = <<>>
    BY DEF WInv, FirstInv
  <1>2. Content = <<>>
    BY <1>1 DEF Content, WalFile, File
  <1>3. Len(<<>>) = 0
    BY Zenon
  <1> QED
    BY <1>2, <1>3

\* The first process.
LEMMA FirstNext ==
    ASSUME IInv, TInv, WInv, Next
    PROVE  FirstInv'
  <1> SUFFICES ASSUME crashes' = 0 PROVE FirstInv'
    BY DEF FirstInv
  <1>0. crashes = 0 /\ ~\E kept \in SUBSET flush.batch : Crash(kept)
    <2>1. crashes \in Nat
      BY DEF TInv, ReplayTypes
    <2>2. ~\E kept \in SUBSET flush.batch : Crash(kept)
      BY <2>1 DEF Crash
    <2> QED
      BY <2>2, CrashCounted
  <1>1. phase = "serve" => phase' = "serve"
    BY <1>0, CrashCounted, Zenon
  <1>2. /\ phase # "serve" => \A path \in DOMAIN wal : wal[path] = <<>>
        /\ journal.at \in {"down", "starting"} => DOMAIN wal = {}
        /\ journal.at \in {"run", "seal"} /\ ActiveSeg \in DOMAIN wal => synced[ActiveSeg] = journal.off
        /\ replay.pos = 0 /\ replay.valid = 0
        /\ DOMAIN synced = DOMAIN wal
    BY <1>0 DEF WInv, FirstInv, SyncTypes
  <1>3. ~ReplayTorn /\ ~ReplayPadding /\ ~\E e \in Entries : ReplayRecord(e)
    <2>1. phase = "replay" => ~(replay.pos < Len(Content))
      BY <1>0, <1>2, NothingToReplay
    <2>2. ASSUME NEW e \in Entries, phase = "replay", Decodes(Content, replay.pos, e)
          PROVE  FALSE
      <3>1. 0 + Size[e] <= 0 /\ Size[e] \in Nat \ {0}
        BY <1>0, <1>2, <2>2, NothingToReplay, EngineConstants, Zenon DEF Decodes
      <3> QED
        BY <3>1
    <2> QED
      BY <2>1, <2>2, Zenon DEF ReplayTorn, ReplayPadding, ReplayRecord, Scanning
  <1>4. replay'.pos = 0 /\ replay'.valid = 0
    <2>1. CASE ReplayOpen
      <3>1. Checkpoint(Segment) = 0
        BY <1>0 DEF WInv, CheckpointInv, Checkpoint
      <3> QED
        BY <2>1, <3>1 DEF ReplayOpen, TInv, ReplayTypes
    <2>2. CASE recover_wal \/ ReplayEnd
      BY <2>2 DEF recover_wal, ReplayEnd, ReplayNext, NoReplay
    <2>3. CASE UNCHANGED replay
      BY <1>2, <2>3
    <2> QED
      BY <1>0, <1>3, <2>1, <2>2, <2>3, Zenon
      DEF Next, Journal, Flush, Recover, AddReturns, JournalStart, seal, SealRename, SealFails, SealRegister,
          SealReopen, BatchWritten, BatchFails, FlushStart, drain_hot_to_warm, FlushSynced, FlushFails,
          FlushIndex, FlushRegister, wal_gc, FjallSync, Boot, recover_entry_segments, RecoveryDone
  <1>5. journal = [at |-> journal.at, id |-> journal.id, off |-> journal.off]
    BY DEF IInv, JournalInv
  <1>6. CASE JournalStart
    <2>1. DOMAIN wal = {} /\ File(ActiveSeg) = <<>> /\ SyncedTo(ActiveSeg) = 0
      BY <1>2, <1>6 DEF JournalStart, File, SyncedTo
    <2>2. wal' = Put(wal, ActiveSeg, <<>>) /\ synced' = Put(synced, ActiveSeg, 0)
      BY <1>6, <2>1 DEF JournalStart
    <2>3. RoundDown(Len(<<>>)) = 0
      BY EngineConstants DEF RoundDown
    <2>4. journal'.at = "run" /\ journal'.off = 0
      BY <1>5, <1>6, <2>1, <2>3 DEF JournalStart
    <2>5. DOMAIN wal' = {ActiveSeg} /\ wal'[ActiveSeg] = <<>> /\ synced'[ActiveSeg] = 0
      BY <2>1, <2>2, Zenon DEF Put
    <2> QED
      BY <1>4, <2>4, <2>5 DEF FirstInv
  <1>7. CASE seal \/ SealFails
    <2>1. UNCHANGED <<wal, synced>> /\ journal'.off = journal.off /\ journal'.at \in {"run", "seal"}
          /\ journal.at \in {"run", "seal"}
      BY <1>5, <1>7 DEF seal, SealFails, fileVars, walVars
    <2> QED
      BY <1>1, <1>2, <1>4, <2>1 DEF FirstInv
  <1>8. CASE \E batch \in Batches : \/ BatchWritten(batch)
                                    \/ \E k \in 0..Len(Bytes(batch)) : BatchFails(batch, k)
    <2>1. PICK batch \in Batches : \/ BatchWritten(batch)
                                   \/ \E k \in 0..Len(Bytes(batch)) : BatchFails(batch, k)
      BY <1>8
    <2>2. phase' = "serve" /\ journal.at = "run" /\ journal'.at \in {"run", "seal"}
      BY <1>1, <1>5, <2>1, BatchServes, Zenon DEF BatchWritten, BatchFails, AfterBatch
    <2>3. ActiveSeg \in DOMAIN wal' => synced'[ActiveSeg] = journal'.off
      BY <1>2, <1>5, <2>1, <2>2, Zenon DEF BatchWritten, BatchFails
    <2> QED
      BY <1>4, <2>2, <2>3 DEF FirstInv
  <1>9. CASE SealRename \/ SealRegister
    <2>1. phase' = "serve" /\ journal'.at \in {"renamed", "registered"}
      BY <1>1, <1>5, <1>9 DEF SealRename, SealRegister, WInv, StartInv
    <2> QED
      BY <1>4, <2>1 DEF FirstInv
  <1>10. CASE SealReopen
    <2>1. phase' = "serve" /\ journal'.at = "run" /\ journal'.off = 0 /\ synced'[ActiveSeg] = 0
      BY <1>1, <1>10 DEF SealReopen, Put, WInv, StartInv
    <2> QED
      BY <1>4, <2>1 DEF FirstInv
  <1>11. CASE \E id \in DOMAIN fj.wal : wal_gc(id)
    <2>1. /\ phase' = "serve" /\ UNCHANGED journal /\ DOMAIN wal' \subseteq DOMAIN wal
          /\ \A path \in DOMAIN wal' : synced'[path] = synced[path]
      BY <1>1, <1>11 DEF wal_gc
    <2> QED
      BY <1>2, <1>4, <2>1, Zenon DEF FirstInv
  <1>12. CASE Boot
    <2>1. UNCHANGED <<wal, synced>> /\ journal.at = "down" /\ phase # "serve" /\ journal'.at = "starting"
      BY <1>12 DEF Boot, fileVars, walVars, IInv, JournalInv
    <2> QED
      BY <1>2, <1>4, <2>1 DEF FirstInv
  <1>13. CASE UNCHANGED <<wal, synced, journal>>
    BY <1>1, <1>2, <1>4, <1>13, Zenon DEF FirstInv
  <1> QED
    BY <1>0, <1>3, <1>6, <1>7, <1>8, <1>9, <1>10, <1>11, <1>12, <1>13, Zenon
    DEF Next, Journal, Flush, Recover, fileVars, walVars, AddReturns, FlushStart, drain_hot_to_warm, FlushSynced,
        FlushFails, FlushIndex, FlushRegister, FjallSync, recover_entry_segments, recover_wal, ReplayOpen,
        ReplayEnd, RecoveryDone

\* Checkpoints are of registered segments; the first process only sets them to 0.
LEMMA CheckpointNext ==
    ASSUME IInv, TInv, WInv, Next
    PROVE  CheckpointInv(fj', crashes') /\ CheckpointInv(durable', crashes')
  <1>0. CheckpointInv(fj, crashes) /\ CheckpointInv(durable, crashes) /\ crashes \in Nat /\ Maps(fj)
    BY DEF WInv, TInv, ReplayTypes, IInv, FjallInv
  <1>1. CASE \E kept \in SUBSET flush.batch : Crash(kept)
    <2>1. crashes' # 0 /\ fj' = durable /\ durable' = durable
      BY <1>0, <1>1 DEF Crash
    <2> QED
      BY <1>0, <2>1 DEF CheckpointInv
  <1>2. CASE FjallSync
    <2>1. UNCHANGED <<fj, crashes>> /\ durable' = fj
      BY <1>2 DEF FjallSync, boundVars
    <2> QED
      BY <1>0, <2>1
  <1>3. CASE ReplayTorn \/ ReplayEnd
    <2>1. /\ fj'.wal = fj.wal /\ fj'.checkpoint = Put(fj.checkpoint, Segment, replay.valid)
          /\ UNCHANGED <<durable, crashes>>
      BY <1>0, <1>3, Zenon DEF ReplayTorn, ReplayEnd, ReplayNext, boundVars, Maps
    <2>2. Segment \in DOMAIN fj.wal
      <3>1. phase = "replay" /\ replay.todo # {}
        BY <1>3, Zenon DEF ReplayTorn, ReplayEnd, Scanning
      <3> QED
        BY <3>1, SegmentId, Zenon DEF WInv, StartInv
    <2>3. crashes = 0 => replay.valid = 0
      BY DEF WInv, FirstInv
    <2> QED
      BY <1>0, <2>1, <2>2, <2>3 DEF CheckpointInv, Put
  <1>4. CASE /\ fj'.checkpoint = fj.checkpoint /\ DOMAIN fj.wal \subseteq DOMAIN fj'.wal
             /\ UNCHANGED <<durable, crashes>>
    BY <1>0, <1>4, Zenon DEF CheckpointInv
  <1>5. CASE JournalStart \/ SealRegister \/ SealReopen
    <2>1. /\ fj'.checkpoint = fj.checkpoint /\ UNCHANGED <<durable, crashes>>
          /\ \E id, status, path : fj'.wal = Registered(fj.wal, id, status, path)
      BY <1>0, <1>5 DEF JournalStart, SealRegister, SealReopen, boundVars, Maps
    <2> QED
      BY <1>4, <2>1 DEF Registered, Put
  <1>6. CASE recover_wal
    <2>1. fj'.checkpoint = fj.checkpoint /\ fj'.wal = WalRegistry /\ UNCHANGED <<durable, crashes>>
      BY <1>0, <1>6 DEF recover_wal, boundVars, Maps
    <2> QED
      BY <1>4, <2>1, Zenon DEF WalRegistry
  <1>7. CASE \E id \in DOMAIN fj.wal : wal_gc(id)
    BY <1>0, <1>4, <1>7 DEF wal_gc, boundVars, Maps
  <1>8. CASE FlushStart \/ FlushRegister \/ recover_entry_segments
             \/ \E e \in Entries : ReplayRecord(e) \/ FlushIndex(e)
    BY <1>0, <1>4, <1>8, Zenon DEF FlushStart, FlushRegister, OpenSegment, recover_entry_segments, ReplayRecord, FlushIndex,
                            boundVars, Maps
  <1>9. CASE UNCHANGED <<fj, durable, crashes>>
    BY <1>4, <1>9
  <1>10. flush.batch \subseteq Entries
    BY DEF IInv, FlushInv, CacheInv
  <1> QED
    BY <1>1, <1>2, <1>3, <1>5, <1>6, <1>7, <1>8, <1>9, <1>10, Zenon
    DEF Next, Journal, Flush, Recover, boundVars, AddReturns, seal, SealRename, SealFails, BatchWritten, BatchFails,
        drain_hot_to_warm, FlushSynced, FlushFails, Boot, ReplayOpen, ReplayPadding, RecoveryDone

\* What a recovery has behind it stays behind it.
ScanOpen ==
    replay.open =>
        /\ replay.todo # {}
        /\ Between(Content, Extent(Segment), replay.pos)
        /\ Scanned(Content, Extent(Segment), replay.pos, replay.valid, Kept)
ScanDone ==
    \A id \in DOMAIN fj.checkpoint \ replay.todo : fj.wal[id].status # "Deleted" =>
        \A e \in Entries : \A q \in Nat : Synced(WalFile(id), Extent(id), q, e) => e \in Kept

\* A scan that has kept more is as good.
LEMMA ScannedMore ==
    ASSUME NEW f, NEW n, NEW pos, NEW valid, NEW kept, NEW later, kept \subseteq later,
           Scanned(f, n, pos, valid, kept)
    PROVE  Scanned(f, n, pos, valid, later)
  BY DEF Scanned

\* The recovery after one crash.
LEMMA ScanNext ==
    ASSUME IInv, TInv, WInv, Next
    PROVE  ScanInv'
  <1> SUFFICES ASSUME crashes' <= 1, phase' # "serve"
               PROVE  /\ phase' # "replay" => \A id \in DOMAIN fj'.checkpoint : fj'.checkpoint[id] = 0
                      /\ phase' = "replay" => (\A id \in replay'.todo : Checkpoint(id)' = 0) /\ ScanOpen' /\ ScanDone'
    BY Zenon DEF ScanInv, ScanOpen, ScanDone
  <1>0. crashes \in Nat /\ Maps(fj)
    BY DEF TInv, ReplayTypes, IInv, FjallInv
  <1>1. CASE \E kept \in SUBSET flush.batch : Crash(kept)
    <2>1. crashes = 0 /\ fj' = durable /\ phase' = "down"
      BY <1>0, <1>1 DEF Crash
    <2> QED
      BY <2>1 DEF WInv, CheckpointInv
  <1>2. CASE ~\E kept \in SUBSET flush.batch : Crash(kept)
    <2>0. crashes <= 1 /\ phase # "serve"
      BY <1>2, CrashCounted
    <2>1. /\ phase # "replay" => \A id \in DOMAIN fj.checkpoint : fj.checkpoint[id] = 0
          /\ phase = "replay" => (\A id \in replay.todo : Checkpoint(id) = 0) /\ ScanOpen /\ ScanDone
      BY <2>0, Zenon DEF WInv, ScanInv, ScanOpen, ScanDone
    <2>2. /\ replay = [todo |-> replay.todo, pos |-> replay.pos, valid |-> replay.valid, open |-> replay.open]
          /\ replay.pos \in Nat /\ replay.valid \in Nat /\ replay.valid <= replay.pos
      BY DEF TInv, ReplayTypes
    <2>3. CASE Boot \/ recover_entry_segments
      <3>1. phase # "replay" /\ phase' # "replay" /\ fj'.checkpoint = fj.checkpoint
        BY <1>0, <2>3, Zenon DEF Boot, recover_entry_segments, Maps
      <3> QED
        BY <2>1, <3>1
    <2>4. CASE recover_wal
      <3>1. /\ phase = "register" /\ phase' = "replay" /\ ~replay'.open
            /\ fj'.checkpoint = fj.checkpoint /\ fj'.wal = WalRegistry
            /\ replay'.todo = {id \in DOMAIN WalRegistry : WalRegistry[id].status \in {"Local", "Active"}}
        BY <1>0, <2>4, Zenon DEF recover_wal, NoReplay, Maps
      <3>2. \A id \in replay'.todo : Checkpoint(id)' = 0
        BY <2>1, <3>1 DEF Checkpoint
      <3>3. ASSUME NEW id \in DOMAIN fj.checkpoint, WalRegistry[id].status # "Deleted"
            PROVE  id \in replay'.todo
        <4>1. id \in DOMAIN fj.wal
          BY <3>3 DEF WInv, CheckpointInv
        <4>2. id \in DOMAIN WalRegistry /\ WalRegistry[id] = fj.wal[id]
          BY <4>1, Zenon DEF WalRegistry
        <4>3. fj.wal[id].status \in {"Active", "Local", "Deleted"}
          BY <4>1, Zenon DEF TInv, FjallTypes
        <4> QED
          BY <3>1, <3>3, <4>2, <4>3, Zenon
      <3>4. ScanOpen' /\ ScanDone'
        BY <3>1, <3>3, Zenon DEF ScanOpen, ScanDone
      <3> QED
        BY <3>1, <3>2, <3>4
    <2>5. CASE ReplayOpen
      <3>1. /\ phase = "replay" /\ replay.todo # {} /\ UNCHANGED <<wal, synced, fj, hot, phase>>
            /\ replay' = [todo |-> replay.todo, pos |-> Checkpoint(Segment), valid |-> Checkpoint(Segment), open |-> TRUE]
        BY <2>2, <2>5, Zenon DEF ReplayOpen, fileVars, walVars
      <3>2. Checkpoint(Segment) = 0
        BY <2>1, <3>1, SegmentId, Zenon
      <3>3. Content \in Seq(Unit) /\ Laid(Content, Extent(Segment))
        BY <2>0, SegmentLaid DEF WInv, Content
      <3>4. Between(Content, Extent(Segment), 0) /\ Scanned(Content, Extent(Segment), 0, 0, Kept)
        BY <3>3, ScanStart
      <3>5. Content' = Content /\ Extent(Segment)' = Extent(Segment) /\ Kept' = Kept
        BY <3>1, Zenon DEF Content, Segment, WalFile, File, Extent, SyncedTo, Kept
      <3>6. ScanOpen'
        BY <3>1, <3>2, <3>4, <3>5, Zenon DEF ScanOpen
      <3>7. ScanDone'
        BY <2>1, <3>1, <3>5, Zenon DEF ScanDone, WalFile, File, Extent, SyncedTo
      <3> QED
        BY <2>1, <3>1, <3>6, <3>7, Zenon DEF Checkpoint
    <2>6. CASE ReplayPadding \/ \E e \in Entries : ReplayRecord(e)
      <3>1. /\ phase = "replay" /\ replay.open /\ replay.todo # {} /\ UNCHANGED <<wal, synced, phase>>
            /\ fj'.wal = fj.wal /\ fj'.checkpoint = fj.checkpoint
            /\ replay'.todo = replay.todo
        BY <1>0, <2>2, <2>6, Zenon DEF ReplayPadding, ReplayRecord, Scanning, fileVars, walVars, Maps
      <3>2. Kept \subseteq Kept'
        BY <1>0, <2>6, Zenon DEF ReplayPadding, ReplayRecord, Kept, Indexed, Maps
      <3>3. PICK f \in Seq(Unit), n \in Nat : f = Content /\ n = Extent(Segment) /\ Laid(f, n)
        BY <2>0, SegmentLaid, Zenon DEF WInv, Content, Laid
      <3>4. /\ Content' = f /\ Extent(Segment)' = n
            /\ \A id : WalFile(id)' = WalFile(id) /\ Extent(id)' = Extent(id)
        BY <3>1, <3>3, Zenon DEF Content, Segment, WalFile, File, Extent, SyncedTo
      <3>5. Between(f, n, replay.pos) /\ Scanned(f, n, replay.pos, replay.valid, Kept)
        BY <2>1, <3>1, <3>3, Zenon DEF ScanOpen
      <3>6. Between(f, n, replay'.pos) /\ Scanned(f, n, replay'.pos, replay'.valid, Kept')
        <4>1. CASE ReplayPadding
          <5>1. f[replay.pos + 1] = Pad /\ replay'.pos = RoundUp(replay.pos) /\ replay'.valid = replay.valid
            BY <2>2, <3>3, <4>1, Zenon DEF ReplayPadding
          <5>2. Between(f, n, RoundUp(replay.pos)) /\ Scanned(f, n, RoundUp(replay.pos), replay.valid, Kept)
            BY <2>2, <3>3, <3>5, <5>1, ScanPadding
          <5> QED
            BY <3>2, <5>1, <5>2, ScannedMore, Zenon
        <4>2. ASSUME NEW e \in Entries, ReplayRecord(e)
              PROVE  Between(f, n, replay'.pos) /\ Scanned(f, n, replay'.pos, replay'.valid, Kept')
          <5>1. /\ Decodes(f, replay.pos, e)
                /\ replay'.pos = replay.pos + Size[e] /\ replay'.valid = replay.pos + Size[e]
            BY <2>2, <3>3, <4>2 DEF ReplayRecord
          <5>2. e \in Kept'
            BY <1>0, <4>2 DEF ReplayRecord, Kept, Indexed, Maps
          <5>3. replay.pos \in Nat /\ replay.valid \in Nat /\ replay.valid <= replay.pos
            BY <2>2 DEF TInv, ReplayTypes
          <5>4. /\ Between(f, n, replay.pos + Size[e])
                /\ Scanned(f, n, replay.pos + Size[e], replay.pos + Size[e], Kept')
            BY <3>2, <3>3, <3>5, <5>1, <5>2, <5>3, ScanRecord, Zenon
          <5> QED
            BY <5>1, <5>4, Zenon
        <4> QED
          BY <2>6, <4>1, <4>2
      <3>7. ScanOpen'
        BY <3>1, <3>4, <3>6, Zenon DEF ScanOpen
      <3>8. ScanDone'
        BY <2>1, <3>1, <3>2, <3>4, Zenon DEF ScanDone
      <3> QED
        BY <2>1, <3>1, <3>7, <3>8 DEF Checkpoint
    <2>7. CASE ReplayTorn \/ ReplayEnd
      <3>1. /\ phase = "replay" /\ replay.open /\ replay.todo # {} /\ UNCHANGED <<phase, hot>>
            /\ fj'.wal = fj.wal /\ fj'.entryIndex = fj.entryIndex
            /\ fj'.checkpoint = Put(fj.checkpoint, Segment, replay.valid)
            /\ replay' = [todo |-> replay.todo \ {Segment}, pos |-> 0, valid |-> 0, open |-> FALSE]
        BY <1>0, <2>7, Zenon DEF ReplayTorn, ReplayEnd, ReplayNext, NoReplay, Scanning, Maps
      <3>2. Kept' = Kept
        BY <3>1, Zenon DEF Kept, Indexed
      <3>3. \A id \in replay'.todo : Checkpoint(id)' = 0
        BY <2>1, <3>1, Zenon DEF Checkpoint, Put
      <3>4. ASSUME NEW e \in Entries, NEW q \in Nat, Synced(Content, Extent(Segment), q, e)
            PROVE  e \in Kept
        <4>1. CASE ReplayTorn
          <5>1. Content = wal[fj.wal[Segment].path] /\ Extent(Segment) = synced[fj.wal[Segment].path]
            BY <4>1, TornSpec DEF Extent, SyncedTo
          <5> QED
            BY <2>0, <3>4, <4>1, <5>1, TornBehind, Zenon
        <4>2. CASE ReplayEnd
          <5>1. PICK f \in Seq(Unit), n \in Nat : f = Content /\ n = Extent(Segment) /\ n <= Len(f)
            BY <2>0, SegmentLaid DEF WInv, Content, Laid
          <5>2. q < n /\ n <= replay.pos
            BY <2>2, <3>4, <4>2, <5>1, SyncedSpec DEF ReplayEnd
          <5>3. q < replay.pos
            BY <2>2, <5>1, <5>2
          <5> QED
            BY <2>1, <3>1, <3>4, <5>3, Zenon DEF ScanOpen, Scanned
        <4> QED
          BY <2>7, <4>1, <4>2
      <3>5. ASSUME NEW id, NEW e \in Entries, NEW q \in Nat, Synced(WalFile(id)', Extent(id)', q, e)
            PROVE  Synced(WalFile(id), Extent(id), q, e)
        <4>1. CASE ReplayTorn
          <5>1. PICK p : p = fj.wal[Segment].path
            OBVIOUS
          <5>2. /\ p \in DOMAIN wal
                /\ wal' = [wal EXCEPT ![p] = SubSeq(wal[p], 1, replay.valid)]
                /\ synced' = [synced EXCEPT ![p] = Least({synced[p], replay.valid})]
                /\ DOMAIN synced = DOMAIN wal
            BY <4>1, <5>1, TornSpec DEF WInv, SyncTypes
          <5>3. CASE fj.wal[id].path = p
            <6>1. /\ WalFile(id) = wal[p] /\ Extent(id) = synced[p]
                  /\ WalFile(id)' = wal'[p] /\ Extent(id)' = synced'[p]
              BY <3>1, <5>2, <5>3, Zenon DEF WalFile, File, Extent, SyncedTo
            <6>2. Synced(wal'[p], synced'[p], q, e) <=> Synced(wal[p], synced[p], q, e)
              BY <2>0, <4>1, <5>1, TornBehind, Zenon
            <6> QED
              BY <3>5, <6>1, <6>2, Zenon
          <5>4. CASE fj.wal[id].path # p
            <6>1. WalFile(id)' = WalFile(id) /\ Extent(id)' = Extent(id)
              BY <3>1, <5>2, <5>4 DEF WalFile, File, Extent, SyncedTo
            <6> QED
              BY <3>5, <6>1
          <5> QED
            BY <5>3, <5>4
        <4>2. CASE ReplayEnd
          <5>1. UNCHANGED <<wal, synced>>
            BY <4>2 DEF ReplayEnd, fileVars, walVars
          <5>2. WalFile(id)' = WalFile(id) /\ Extent(id)' = Extent(id)
            BY <3>1, <5>1, Zenon DEF WalFile, File, Extent, SyncedTo
          <5> QED
            BY <3>5, <5>2
        <4> QED
          BY <2>7, <4>1, <4>2
      <3>6. ScanDone'
        <4> SUFFICES ASSUME NEW id \in DOMAIN fj'.checkpoint \ replay'.todo, fj'.wal[id].status # "Deleted",
                            NEW e \in Entries, NEW q \in Nat, Synced(WalFile(id)', Extent(id)', q, e)
                     PROVE  e \in Kept'
          BY Zenon DEF ScanDone
        <4>1. Synced(WalFile(id), Extent(id), q, e)
          BY <3>5, Zenon
        <4>2. CASE id = Segment
          BY <3>2, <3>4, <4>1, <4>2 DEF Content
        <4>3. CASE id # Segment
          <5>1. id \in DOMAIN fj.checkpoint \ replay.todo /\ fj.wal[id].status # "Deleted"
            BY <3>1, <4>3, Zenon DEF Put
          <5> QED
            BY <2>1, <3>1, <3>2, <4>1, <5>1, Zenon DEF ScanDone
        <4> QED
          BY <4>2, <4>3
      <3> QED
        BY <3>1, <3>3, <3>6, Zenon DEF ScanOpen
    <2>8. CASE JournalStart
      <3>1. /\ UNCHANGED <<phase, replay, hot>>
            /\ wal' = Put(wal, ActiveSeg, File(ActiveSeg))
            /\ synced' = Put(synced, ActiveSeg, SyncedTo(ActiveSeg))
            /\ fj'.wal = Registered(fj.wal, journal.id, "Active", ActiveSeg)
            /\ fj'.checkpoint = fj.checkpoint /\ fj'.entryIndex = fj.entryIndex
        BY <1>0, <2>8 DEF JournalStart, Maps
      <3>2. CASE phase # "replay"
        BY <2>1, <3>1, <3>2, Zenon
      <3>3. CASE phase = "replay"
        <4>1. \A path : File(path)' = File(path) /\ SyncedTo(path)' = SyncedTo(path)
          BY <3>1, Zenon DEF File, SyncedTo, Put, WInv, SyncTypes
        <4>2. ASSUME NEW id \in DOMAIN fj.wal
              PROVE  /\ fj'.wal[id].path = fj.wal[id].path
                     /\ fj.wal[id].status = "Deleted" => fj'.wal[id].status = "Deleted"
          <5>1. CASE id = journal.id
            <6>1. fj.wal[id] = [status |-> "Local", path |-> ActiveSeg]
              BY <2>0, <2>8, <5>1, Zenon DEF JournalStart, WInv, StartInv
            <6>2. fj'.wal[id] = [status |-> "Active", path |-> ActiveSeg]
              BY <3>1, <5>1 DEF Registered, Put
            <6> QED
              BY <6>1, <6>2
          <5>2. CASE id # journal.id
            BY <3>1, <5>2, Zenon DEF Registered, Put
          <5> QED
            BY <5>1, <5>2
        <4>3. \A id \in DOMAIN fj.wal : WalFile(id)' = WalFile(id) /\ Extent(id)' = Extent(id)
          BY <4>1, <4>2, Zenon DEF WalFile, Extent
        <4>4. Kept' = Kept /\ \A id : Checkpoint(id)' = Checkpoint(id)
          BY <3>1, Zenon DEF Kept, Indexed, Checkpoint
        <4>5. ScanOpen'
          <5>1. SUFFICES ASSUME replay.open PROVE ScanOpen'
            BY <3>1, Zenon DEF ScanOpen
          <5>2. replay.todo # {} /\ Segment \in DOMAIN fj.wal
            BY <2>0, <2>1, <3>3, <5>1, SegmentId, Zenon DEF ScanOpen, WInv, StartInv
          <5>3. Segment' = Segment
            BY <3>1, Zenon DEF Segment
          <5>4. Content' = Content /\ Extent(Segment)' = Extent(Segment)
            BY <4>3, <5>2, <5>3, Zenon DEF Content
          <5> QED
            BY <2>1, <3>1, <3>3, <4>4, <5>1, <5>4, Zenon DEF ScanOpen
        <4>6. ScanDone'
          <5>1. DOMAIN fj.checkpoint \subseteq DOMAIN fj.wal
            BY Zenon DEF WInv, CheckpointInv
          <5>2. ScanDone /\ fj'.checkpoint = fj.checkpoint /\ replay'.todo = replay.todo
            BY <2>1, <3>1, <3>3
          <5>3. ASSUME NEW id \in DOMAIN fj.checkpoint \ replay.todo, fj'.wal[id].status # "Deleted",
                       NEW e \in Entries, NEW q \in Nat, Synced(WalFile(id)', Extent(id)', q, e)
                PROVE  e \in Kept'
            <6>1. id \in DOMAIN fj.wal /\ fj.wal[id].status # "Deleted"
              BY <4>2, <5>1, <5>3
            <6>2. Synced(WalFile(id), Extent(id), q, e)
              BY <4>3, <5>3, <6>1, Zenon
            <6> QED
              BY <4>4, <5>2, <5>3, <6>1, <6>2, Zenon DEF ScanDone
          <5> QED
            BY <5>2, <5>3, Zenon DEF ScanDone
        <4> QED
          BY <2>1, <3>1, <3>3, <4>4, <4>5, <4>6, Zenon
      <3> QED
        BY <3>2, <3>3
    <2>9. CASE FjallSync \/ \E e \in Entries : AddReturns(e)
      <3>1. UNCHANGED <<wal, synced, fj, phase, replay>> /\ hot \subseteq hot'
        BY <2>9 DEF FjallSync, AddReturns, fileVars, walVars
      <3>2. Kept \subseteq Kept' /\ Segment' = Segment /\ Content' = Content
            /\ \A id : WalFile(id)' = WalFile(id) /\ Extent(id)' = Extent(id) /\ Checkpoint(id)' = Checkpoint(id)
        BY <3>1, Zenon DEF Kept, Content, Segment, WalFile, File, Extent, SyncedTo, Checkpoint
      <3>3. CASE phase # "replay"
        BY <2>1, <3>1, <3>3
      <3>4. CASE phase = "replay"
        <4>1. ScanOpen'
          BY <2>1, <3>1, <3>2, <3>4, ScannedMore, Zenon DEF ScanOpen
        <4>2. ScanDone'
          BY <2>1, <3>1, <3>2, <3>4, Zenon DEF ScanDone
        <4> QED
          BY <2>1, <3>1, <3>2, <3>4, <4>1, <4>2
      <3> QED
        BY <3>3, <3>4
    <2>10. CASE RecoveryDone
      BY <2>10 DEF RecoveryDone
    <2> QED
      BY <1>2, <2>0, <2>3, <2>4, <2>5, <2>6, <2>7, <2>8, <2>9, <2>10, BeforeServing, Zenon DEF WInv
  <1> QED
    BY <1>1, <1>2, Zenon

\* An empty data directory.
LEMMA WInvInit ==
    Init => WInv
  <1> SUFFICES ASSUME Init PROVE WInv
    OBVIOUS
  <1>1. DOMAIN wal = {} /\ DOMAIN synced = {} /\ phase = "down" /\ crashes = 0 /\ fj = EmptyFjall /\ durable = EmptyFjall
        /\ journal = Stopped /\ replay = NoReplay
    BY DEF Init
  <1>2. SyncTypes /\ LayoutInv
    BY <1>1, Zenon DEF SyncTypes, LayoutInv
  <1>3. StartInv /\ FirstInv
    BY <1>1 DEF StartInv, FirstInv, Stopped, NoReplay
  <1>4. CheckpointInv(EmptyFjall, crashes) /\ DOMAIN EmptyFjall.checkpoint = {}
    BY DEF CheckpointInv, EmptyFjall
  <1>5. ScanInv
    BY <1>1, <1>4, Zenon DEF ScanInv
  <1> QED
    BY <1>1, <1>2, <1>3, <1>4, <1>5 DEF WInv

\* Every step keeps it.
LEMMA WInvNext ==
    IInv /\ TInv /\ WInv /\ [Next]_vars => WInv'
  <1> SUFFICES ASSUME IInv, TInv, WInv, [Next]_vars PROVE WInv'
    OBVIOUS
  <1>1. CASE Next
    BY <1>1, SyncNext, LayoutNext, StartNext, FirstNext, CheckpointNext, ScanNext, Zenon DEF WInv
  <1>2. CASE UNCHANGED vars
    <2>1. UNCHANGED <<wal, synced, fj, durable, phase, journal, hot, replay, crashes>>
      BY <1>2 DEF vars, fileVars, walVars, boundVars
    <2>2. /\ Kept' = Kept /\ Segment' = Segment /\ Content' = Content /\ Extent(Segment)' = Extent(Segment)
          /\ \A id : WalFile(id)' = WalFile(id) /\ Extent(id)' = Extent(id) /\ Checkpoint(id)' = Checkpoint(id)
      BY <2>1, Zenon DEF Kept, Content, Segment, WalFile, File, Extent, SyncedTo, Checkpoint
    <2>3. SyncTypes' /\ LayoutInv' /\ StartInv' /\ FirstInv'
      BY <2>1, Zenon DEF WInv, SyncTypes, LayoutInv, StartInv, FirstInv
    <2>4. ScanInv'
      BY <2>1, <2>2, Zenon DEF WInv, ScanInv
    <2> QED
      BY <2>1, <2>3, <2>4 DEF WInv
  <1> QED
    BY <1>1, <1>2

\* The layout of the WAL files and the progress of the replay, in every reachable
\* state.
THEOREM WalInvariant == Spec => []WInv
  BY WInvInit, WInvNext, Invariant, TypesInvariant, PTL DEF Spec

\* CrashRecovery::recover serves every synced record of the segments it
\* replayed after a crash.
THEOREM ReplayAlwaysReadable == Spec => []ReplayedReadable
  <1>1. IInv /\ TInv /\ WInv => ReplayedReadable
    <2> SUFFICES ASSUME IInv, TInv, WInv, crashes <= 1, phase = "replay", replay.todo = {},
                        NEW id \in DOMAIN fj.checkpoint, fj.wal[id].status # "Deleted",
                        NEW e \in Entries, NEW pos \in 0..Len(WalFile(id)),
                        Synced(WalFile(id), SyncedTo(fj.wal[id].path), pos, e)
                 PROVE  Readable(e)
      BY Zenon DEF ReplayedReadable
    <2>1. pos \in Nat
      BY FileType DEF WalFile
    <2>2. e \in Kept
      BY <2>1, Zenon DEF WInv, ScanInv, Extent
    <2> QED
      BY <2>2, CachedOrIndexed, Zenon DEF Kept
  <1> QED
    BY <1>1, Invariant, TypesInvariant, WalInvariant, PTL

\* truncate_segment never cuts a synced record.
THEOREM TruncationAlwaysSafe == Spec => TruncationKeepsSynced
  <1> DEFINE A == crashes <= 1 /\ phase = "replay" =>
          \A path \in DOMAIN wal : \A e \in Entries, pos \in 0..Len(wal[path]) :
              Synced(wal[path], synced[path], pos, e) => Synced(wal'[path], synced'[path], pos, e)
  <1>1. IInv /\ TInv /\ WInv /\ [Next]_vars => [A]_vars
    <2> SUFFICES ASSUME IInv, TInv, WInv, Next, crashes <= 1, phase = "replay",
                        NEW path \in DOMAIN wal, NEW e \in Entries, NEW pos \in 0..Len(wal[path]),
                        Synced(wal[path], synced[path], pos, e)
                 PROVE  Synced(wal'[path], synced'[path], pos, e)
      BY Zenon
    <2>1. CASE JournalStart
      <3>1. wal'[path] = wal[path] /\ synced'[path] = synced[path]
        BY <2>1 DEF JournalStart, Put, File, SyncedTo, WInv, SyncTypes
      <3> QED
        BY <3>1, Zenon
    <2>2. CASE ReplayTorn
      <3>1. PICK p : p = fj.wal[Segment].path
        OBVIOUS
      <3>2. /\ wal' = [wal EXCEPT ![p] = SubSeq(wal[p], 1, replay.valid)]
            /\ synced' = [synced EXCEPT ![p] = Least({synced[p], replay.valid})]
        BY <2>2, <3>1, TornSpec
      <3>3. CASE path = p
        <4>1. pos \in Nat
          <5>1. wal[path] \in Seq(Unit)
            BY Zenon DEF TInv, WalTypes
          <5> QED
            BY <5>1
        <4> QED
          BY <2>2, <3>1, <3>3, <4>1, TornBehind, Zenon
      <3>4. CASE path # p
        BY <3>2, <3>4 DEF WInv, SyncTypes
      <3> QED
        BY <3>3, <3>4
    <2>3. CASE UNCHANGED <<wal, synced>>
      BY <2>3, Zenon
    <2>4. ~\E batch \in Batches : TRUE
      BY BatchServes, Zenon
    <2>5. ~SealRename /\ ~SealReopen /\ ~\E id \in DOMAIN fj.wal : wal_gc(id)
      BY Zenon DEF SealRename, SealReopen, wal_gc, WInv, StartInv
    <2> QED
      BY <2>1, <2>2, <2>3, <2>4, <2>5, WalSteps, Zenon
  <1> QED
    BY <1>1, Invariant, TypesInvariant, WalInvariant, PTL DEF Spec, TruncationKeepsSynced

\* The types of the engine's state, for any sizes, thresholds, batches and
\* crashes: WAL files hold records and padding, the journal writes at whole
\* blocks, last_valid_pos never passes pos, segment ids stay within Ids, and
\* entry_index names only registered EntrySegments.
THEOREM TypeCorrect == Spec => []TypeOK
  <1>1. IInv /\ TInv /\ WInv => TypeOK
    <2> SUFFICES ASSUME IInv, TInv, WInv PROVE TypeOK
      OBVIOUS
    <2>0. Limit \in Int /\ \A id \in Nat : id <= Limit + 1 => id \in Ids
      BY LimitSpec, Zenon
    <2>1. \A path \in DOMAIN wal : /\ path \in Ids \cup {ActiveSeg}
                                   /\ \A i \in 1..Len(wal[path]) : wal[path][i] \in Unit
      <3>0. \A path \in Sealed : path \in Nat /\ path < MaxSegment
        BY Zenon DEF IInv, JournalInv, Bounded, TInv, WalTypes
      <3>1. \A path \in Sealed : path \in Ids
        BY <3>0, EngineConstants DEF Ids
      <3>2. ASSUME NEW path \in DOMAIN wal PROVE path \in Ids \cup {ActiveSeg}
        BY <3>1, Zenon DEF Sealed
      <3>3. \A path \in DOMAIN wal : wal[path] \in Seq(Unit)
        BY Zenon DEF TInv, WalTypes
      <3>4. \A f \in Seq(Unit) : \A i \in 1..Len(f) : f[i] \in Unit
        OBVIOUS
      <3> QED
        BY <3>2, <3>3, <3>4, Zenon
    <2>2. \A id \in DOMAIN entryFile : id \in Nat /\ entryFile[id] \subseteq Entries
      BY DEF IInv, FlushInv, Bounded, TInv, EntryTypes
    <2>3. ASSUME NEW f, FjallInv(f, entryFile), FjallTypes(f, Limit) PROVE FjallType(f)
      <3>1. \A e \in Entries : f.entryIndex[e] \in DOMAIN f.entry \cup {NoSegment}
        BY <2>3 DEF FjallInv, Indexed
      <3> QED
        BY <2>3, <3>1, Zenon DEF FjallTypes, FjallType
    <2>4. journal.id \in Ids /\ journal.off % Align = 0
      <3>1. 0 \in Ids
        BY EngineConstants DEF Ids
      <3>2. journal.id \in Nat /\ (journal.id = 0 \/ journal.id <= Limit) /\ Aligned(journal.off)
        BY Zenon DEF IInv, JournalInv, TInv, WalTypes
      <3> QED
        BY <2>0, <3>1, <3>2, AlignedSpec
    <2>5. \A S \in {written, hot, warm, acked, session, flush.batch} : S \subseteq Entries
      BY DEF IInv, FlushInv, CacheInv, TInv, EntryTypes
    <2> QED
      BY <2>1, <2>2, <2>3, <2>4, <2>5, Zenon DEF IInv, FlushInv, TInv, WalTypes, ReplayTypes, WInv, SyncTypes,
                                                 TypeOK
  <1> QED
    BY <1>1, Invariant, TypesInvariant, WalInvariant, PTL
=============================================================================
