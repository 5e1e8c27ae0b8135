---------------------------- MODULE Ledger_proof ----------------------------
(***************************************************************************)
(* Ledger for every number of nodes, entries, payloads, faults and         *)
(* recoveries: the operators it is built from, its types, what a sealed    *)
(* ledger covers, and the store's list of fragments.  LedgerQuorum_proof   *)
(* goes on to what a quorum acknowledged.                                  *)
(***************************************************************************)
EXTENDS Ledger, FiniteSetTheorems, TLAPS

\* A set of naturals that is not empty has a least element.
LEMMA LeastNat ==
    ASSUME NEW S \in SUBSET Nat, S # {}
    PROVE  \E x \in S : \A y \in S : x <= y
  <1> DEFINE R == OpToRel(<, Nat)
  <1>1. \A x, y \in Nat : <<y, x>> \in R <=> y < x
    BY DEF OpToRel
  <1>2. IsWellFoundedOn(R, Nat)
    BY NatLessThanWellFounded, Zenon
  <1> HIDE DEF R
  <1>3. PICK x \in S : \A y \in S : ~(<<y, x>> \in R)
    BY <1>2, WFMin, Zenon
  <1>4. \A y \in S : ~(y < x)
    BY <1>1, <1>3, Zenon
  <1> QED
    BY <1>4

\* One that is bounded too has a greatest.
LEMMA GreatestNat ==
    ASSUME NEW S \in SUBSET Nat, S # {}, NEW k \in Nat, \A x \in S : x <= k
    PROVE  \E x \in S : \A y \in S : y <= x
  <1> DEFINE T == {k - x : x \in S}
  <1>1. T \in SUBSET Nat
    OBVIOUS
  <1>2. T # {}
    BY Zenon
  <1>3. PICK t \in T : \A u \in T : t <= u
    BY <1>1, <1>2, LeastNat, Zenon
  <1>4. PICK x \in S : t = k - x
    OBVIOUS
  <1>5. \A y \in S : k - x <= k - y
    BY <1>3, <1>4, Zenon
  <1> QED
    BY <1>5

----------------------------------------------------------------------------
(* The largest entry, and the nodes change_fragment keeps and adds *)

\* Maximum of a bounded set.
LEMMA MaximumOf ==
    ASSUME NEW S \in SUBSET Nat, S # {}, NEW k \in Nat, \A x \in S : x <= k
    PROVE  Maximum(S) \in S /\ \A y \in S : y <= Maximum(S)
  <1>1. \E x \in S : \A y \in S : y <= x
    BY GreatestNat, Zenon
  <1> QED
    BY <1>1, Zenon DEF Maximum

\* Maximum of two numbers.
LEMMA MaximumOfTwo ==
    ASSUME NEW a \in Nat, NEW b \in Nat
    PROVE  Maximum({a, b}) \in Nat /\ a <= Maximum({a, b}) /\ b <= Maximum({a, b})
  <1>1. \A x \in {a, b} : x <= a + b
    OBVIOUS
  <1> QED
    BY <1>1, MaximumOf

\* What fence_ledger reports is a number no entry on the node exceeds.
LEMMA HighestStoredBounds ==
    ASSUME NEW n
    PROVE  /\ HighestStored(n) \in Nat
           /\ \A e \in Entries : stored[n][e] # NoData => e <= HighestStored(n)
  <1> DEFINE S == {e \in Entries : stored[n][e] # NoData} \cup {0}
  <1>1. S \in SUBSET Nat /\ S # {} /\ \A x \in S : x <= MaxEntries
    BY LedgerConstants DEF Entries
  <1>2. Maximum(S) \in S /\ \A y \in S : y <= Maximum(S)
    BY <1>1, MaximumOf, LedgerConstants, Zenon
  <1> QED
    BY <1>1, <1>2 DEF HighestStored

----------------------------------------------------------------------------
(* Filter *)

\* The k-th member of a finite set of numbers.
LEMMA KthMember ==
    ASSUME NEW n \in Nat, NEW I \in SUBSET (1..n), NEW k \in 1..Cardinality(I)
    PROVE  Kth(I, k) \in I /\ Cardinality({j \in I : j <= Kth(I, k)}) = k
  <1> DEFINE Upto(i) == {j \in I : j <= i}
  <1>0. I \in SUBSET Nat /\ \A x \in I : x <= n
    OBVIOUS
  <1>1. IsFiniteSet(I) /\ Cardinality(I) \in Nat /\ I # {}
    <2>1. IsFiniteSet(1..n)
      BY FS_Interval
    <2>2. IsFiniteSet(I)
      BY <2>1, FS_Subset, Zenon
    <2>3. Cardinality(I) \in Nat
      BY <2>2, FS_CardinalityType
    <2>4. Cardinality(I) # 0
      BY <2>3
    <2> QED
      BY <2>2, <2>3, <2>4, FS_EmptySet
  <1>2. \A i \in I : IsFiniteSet(Upto(i)) /\ Cardinality(Upto(i)) \in Nat
    BY <1>1, FS_Subset, FS_CardinalityType
  <1> DEFINE T == {i \in I : Cardinality(Upto(i)) >= k}
  <1>3. T # {}
    <2>1. PICK m \in I : \A y \in I : y <= m
      BY <1>1, <1>0, GreatestNat, Zenon
    <2>2. Upto(m) = I
      BY <2>1, Zenon
    <2> QED
      BY <1>1, <2>2
  <1>4. PICK t \in T : \A u \in T : t <= u
    <2>1. T \in SUBSET Nat
      BY <1>0, Zenon
    <2> HIDE DEF T
    <2> QED
      BY <1>3, <2>1, LeastNat
  <1>5. ASSUME Cardinality(Upto(t)) # k PROVE FALSE
    <2> DEFINE J == Upto(t) \ {t}
    <2>1. IsFiniteSet(J) /\ Cardinality(J) = Cardinality(Upto(t)) - 1
      BY <1>2, <1>4, FS_RemoveElement
    <2>2. Cardinality(J) >= k
      BY <1>2, <1>4, <1>5, <2>1
    <2>3. J # {}
      BY <2>2, FS_EmptySet
    <2>4. PICK g \in J : \A y \in J : y <= g
      <3>1. J \in SUBSET Nat /\ t \in Nat /\ \A x \in J : x <= t
        BY <1>0, <1>4, Zenon
      <3> HIDE DEF J
      <3> QED
        BY <2>3, <3>1, GreatestNat, Zenon
    <2>5. Upto(g) = J
      <3>1. g \in Nat /\ t \in Nat /\ g <= t /\ g # t
        BY <1>0, <1>4, <2>4
      <3>2. \A j \in I : j <= g <=> j <= t /\ j # t
        <4> TAKE j \in I
        <4>1. j \in Nat
          BY <1>0
        <4>2. j <= t /\ j # t => j <= g
          BY <2>4
        <4> QED
          BY <3>1, <4>1, <4>2
      <3> QED
        BY <3>2, Zenon
    <2>6. g \in T /\ g < t
      BY <2>2, <2>4, <2>5
    <2> QED
      BY <1>4, <2>6
  <1>6. \E i \in I : Cardinality({j \in I : j <= i}) = k
    BY <1>4, <1>5
  <1> QED
    BY <1>6, Zenon DEF Kth

\* Filter returns a sequence of elements of s that are in S, and repeats none
\* that s does not repeat.
LEMMA FilterSeq ==
    ASSUME NEW U, NEW s \in Seq(U), NEW S, NEW limit \in Nat
    PROVE  /\ Filter(s, S, limit) \in Seq(U)
           /\ \A k \in 1..Len(Filter(s, S, limit)) :
                 /\ Filter(s, S, limit)[k] \in S
                 /\ \E i \in 1..Len(s) : Filter(s, S, limit)[k] = s[i]
           /\ (\A i, j \in 1..Len(s) : s[i] = s[j] => i = j) =>
                 \A k, l \in 1..Len(Filter(s, S, limit)) :
                    Filter(s, S, limit)[k] = Filter(s, S, limit)[l] => k = l
  <1> DEFINE I == {i \in DOMAIN s : s[i] \in S}
             len == IF limit < Cardinality(I) THEN limit ELSE Cardinality(I)
             f == [k \in 1..len |-> s[Kth(I, k)]]
  <1>1. I \in SUBSET (1..Len(s)) /\ Len(s) \in Nat
    OBVIOUS
  <1>2. Cardinality(I) \in Nat
    <2>1. IsFiniteSet(1..Len(s))
      BY <1>1, FS_Interval
    <2> HIDE DEF I
    <2>2. IsFiniteSet(I)
      BY <1>1, <2>1, FS_Subset, Zenon
    <2> QED
      BY <2>2, FS_CardinalityType
  <1>3. len \in Nat /\ len <= Cardinality(I)
    BY <1>2
  <1>4. \A k \in 1..len : Kth(I, k) \in I /\ Cardinality({j \in I : j <= Kth(I, k)}) = k
    <2> SUFFICES ASSUME NEW k \in 1..len
                 PROVE  Kth(I, k) \in I /\ Cardinality({j \in I : j <= Kth(I, k)}) = k
      BY Zenon
    <2>1. k \in 1..Cardinality(I)
      BY <1>2, <1>3
    <2> HIDE DEF I
    <2> QED
      BY <1>1, <2>1, KthMember, Zenon
  <1>5. \A k, l \in 1..len : Kth(I, k) = Kth(I, l) => k = l
    BY <1>4, Zenon
  <1>6. \A i \in I : i \in 1..Len(s) /\ s[i] \in S /\ s[i] \in U
    OBVIOUS
  <1>7. Filter(s, S, limit) = f
    BY DEF Filter
  <1> HIDE DEF I, len
  <1>8. f \in Seq(U) /\ Len(f) = len /\ \A k \in 1..len : f[k] = s[Kth(I, k)]
    <2>1. \A k \in 1..len : s[Kth(I, k)] \in U
      BY <1>4, <1>6, Zenon
    <2> QED
      BY <1>3, <2>1
  <1> HIDE DEF f
  <1>9. \A k \in 1..len : f[k] \in S /\ \E i \in 1..Len(s) : f[k] = s[i]
    BY <1>4, <1>6, <1>8, Zenon
  <1>10. ASSUME \A i, j \in 1..Len(s) : s[i] = s[j] => i = j
         PROVE  \A k, l \in 1..len : f[k] = f[l] => k = l
    <2> TAKE k, l \in 1..len
    <2> HAVE f[k] = f[l]
    <2>1. Kth(I, k) \in 1..Len(s) /\ Kth(I, l) \in 1..Len(s)
      BY <1>4, <1>6, Zenon
    <2>2. s[Kth(I, k)] = s[Kth(I, l)]
      BY <1>8
    <2>3. Kth(I, k) = Kth(I, l)
      BY <1>10, <2>1, <2>2
    <2> QED
      BY <1>5, <2>3
  <1> QED
    BY <1>7, <1>8, <1>9, <1>10

----------------------------------------------------------------------------
(* Types *)

\* TypeOK with what it needs to be inductive: a recovery's copy of the record
\* is well formed, an append under way has a payload and, until its quorum, an
\* entry id within the bound.
TInv ==
    /\ TypeOK
    /\ \A r \in Recoverers : WellFormed(rec[r].md)
    /\ at # "idle" => data \in Data
    /\ at \in {"join", "replace"} => next \in Entries

LEMMA EntriesAreNat == Entries \subseteq Nat /\ MaxEntries \in Nat
    BY LedgerConstants DEF Entries

LEMMA RequestEntries == \A S \in SUBSET Request : {q.entry : q \in S} \subseteq Entries
  <1>1. \A q \in Request : q.entry \in Entries
    BY DEF Request
  <1> QED
    BY <1>1

LEMMA NewMetadataType == NewMetadata \in LedgerMetadata /\ WellFormed(NewMetadata)
  <1>1. [first |-> 0, ensemble |-> Ensemble] \in Fragment
    BY LedgerConstants DEF Fragment
  <1>2. NewMetadata \in LedgerMetadata
    BY <1>1 DEF NewMetadata, LedgerMetadata
  <1>3. WellFormed(NewMetadata)
    BY LedgerConstants, LedgerOptions DEF NewMetadata, WellFormed
  <1> QED
    BY <1>2, <1>3

\* The record put_ledger stores.
LEMMA PutType ==
    ASSUME NEW m \in LedgerMetadata, WellFormed(m)
    PROVE  LET p == [m EXCEPT !.version = @ + 1] IN
           /\ p \in LedgerMetadata /\ WellFormed(p)
           /\ p.fragments = m.fragments /\ p.state = m.state /\ p.lac = m.lac
           /\ p.version = m.version + 1
  <1> DEFINE p == [m EXCEPT !.version = @ + 1]
  <1>1. /\ p \in LedgerMetadata
        /\ p.fragments = m.fragments /\ p.state = m.state /\ p.lac = m.lac
        /\ p.version = m.version + 1
    BY DEF LedgerMetadata
  <1> HIDE DEF p
  <1>2. WellFormed(p)
    BY <1>1 DEF WellFormed
  <1> QED
    BY <1>1, <1>2 DEF p

\* The record a quorum leaves in the handle.
LEMMA AckedType ==
    ASSUME NEW m \in LedgerMetadata, WellFormed(m), NEW l \in Nat, NEW e \in Nat
    PROVE  LET p == [m EXCEPT !.lac = l, !.last = e] IN
           /\ p \in LedgerMetadata /\ WellFormed(p)
           /\ p.fragments = m.fragments /\ p.version = m.version
  <1> DEFINE p == [m EXCEPT !.lac = l, !.last = e]
  <1>1. p \in LedgerMetadata /\ p.fragments = m.fragments /\ p.version = m.version
    BY Zenon DEF LedgerMetadata
  <1> HIDE DEF p
  <1>2. WellFormed(p)
    BY <1>1 DEF WellFormed
  <1> QED
    BY <1>1, <1>2 DEF p

\* The record of a ledger in recovery.
LEMMA InRecoveryType ==
    ASSUME NEW m \in LedgerMetadata, WellFormed(m)
    PROVE  LET p == [m EXCEPT !.state = "InRecovery"] IN
           /\ p \in LedgerMetadata /\ WellFormed(p)
           /\ p.state = "InRecovery" /\ p.version = m.version
    BY Zenon DEF LedgerMetadata, WellFormed

\* A closed record.
LEMMA ClosedType ==
    ASSUME NEW m \in LedgerMetadata, WellFormed(m), NEW l \in Nat \cup {NONE}, NEW h \in Nat
    PROVE  Closed(m, l, h) \in LedgerMetadata /\ WellFormed(Closed(m, l, h))
    BY DEF LedgerMetadata, WellFormed, Closed

LEMMA SealedLastType ==
    ASSUME NEW h \in Nat
    PROVE  SealedLast(h) \in Nat \cup {NONE}
    BY DEF SealedLast, NONE

\* The last fragment of a well-formed record.
LEMMA LastFragment ==
    ASSUME NEW m \in LedgerMetadata, WellFormed(m)
    PROVE  /\ Len(m.fragments) \in Nat \ {0}
           /\ Last(m.fragments) \in Fragment
           /\ Last(m.fragments).ensemble \in Seq(Nodes)
           /\ WriteQuorum <= Len(Last(m.fragments).ensemble)
           /\ LET ens == Last(m.fragments).ensemble IN
              \A i, j \in 1..Len(ens) : ens[i] = ens[j] => i = j
  <1>1. m.fragments \in Seq(Fragment) /\ m.fragments # <<>>
    BY DEF LedgerMetadata, WellFormed
  <1>2. Len(m.fragments) \in 1..Len(m.fragments)
    BY <1>1
  <1>3. Last(m.fragments) \in Fragment
    BY <1>1, <1>2 DEF Last
  <1>4. /\ Len(Last(m.fragments).ensemble) >= WriteQuorum
        /\ LET ens == Last(m.fragments).ensemble IN
           \A i, j \in 1..Len(ens) : ens[i] = ens[j] => i = j
    BY <1>2 DEF Last, WellFormed
  <1>5. Last(m.fragments).ensemble \in Seq(Nodes)
    BY <1>3 DEF Fragment
  <1>6. Len(m.fragments) \in Nat \ {0} /\ Len(Last(m.fragments).ensemble) \in Nat
    BY <1>1, <1>2, <1>5
  <1> QED
    BY <1>3, <1>4, <1>5, <1>6, LedgerOptions

\* The nodes an append writes to, and those of them that fail.
LEMMA WriteSetType ==
    ASSUME hmd \in LedgerMetadata, WellFormed(hmd)
    PROVE  /\ WriteSet \subseteq Nodes
           /\ Failed \subseteq WriteSet
           /\ Cardinality(Failed) \in Nat
  <1>1. WriteSet \subseteq Nodes
    BY LastFragment, LedgerOptions DEF WriteSet
  <1>2. IsFiniteSet(Nodes)
    BY FS_Interval, LedgerConstants DEF Nodes
  <1>3. Failed \subseteq WriteSet
    BY DEF Failed
  <1>4. IsFiniteSet(Failed)
    BY <1>1, <1>2, <1>3, FS_Subset
  <1> QED
    BY <1>1, <1>3, <1>4, FS_CardinalityType

\* The ensemble change_fragment computes: nodes, none of them twice.
LEMMA NewEnsembleType ==
    ASSUME hmd \in LedgerMetadata, WellFormed(hmd), NEW rw \in SUBSET Nodes
    PROVE  /\ NewEnsemble(rw) \in Seq(Nodes)
           /\ \A i, j \in 1..Len(NewEnsemble(rw)) :
                 NewEnsemble(rw)[i] = NewEnsemble(rw)[j] => i = j
  <1> DEFINE ens == Last(hmd.fragments).ensemble
             kept == Nodes \ Failed
             spare == rw \ Members(Last(hmd.fragments))
             all == [n \in Nodes |-> n]
  <1>1. /\ ens \in Seq(Nodes) /\ Len(ens) \in Nat
        /\ \A i, j \in 1..Len(ens) : ens[i] = ens[j] => i = j
    BY LastFragment
  <1>2. /\ all \in Seq(Nodes)
        /\ \A i, j \in 1..Len(all) : all[i] = all[j] => i = j
    BY LedgerConstants DEF Nodes
  <1>3. Members(Last(hmd.fragments)) = {ens[i] : i \in 1..Len(ens)}
    BY DEF Members
  <1>4. Cardinality(Failed) \in Nat
    BY WriteSetType
  <1>5. Survivors = Filter(ens, kept, Len(ens))
    BY DEF Survivors
  <1>6. Spares(rw) = Filter(all, spare, Cardinality(Failed))
    BY DEF Spares
  <1> HIDE DEF ens, kept, all, spare
  <1>7. /\ Survivors \in Seq(Nodes)
        /\ \A k \in 1..Len(Survivors) : \E i \in 1..Len(ens) : Survivors[k] = ens[i]
        /\ \A k, l \in 1..Len(Survivors) : Survivors[k] = Survivors[l] => k = l
    BY <1>1, <1>5, FilterSeq
  <1>8. /\ Spares(rw) \in Seq(Nodes)
        /\ \A k \in 1..Len(Spares(rw)) : Spares(rw)[k] \in spare
        /\ \A k, l \in 1..Len(Spares(rw)) : Spares(rw)[k] = Spares(rw)[l] => k = l
    BY <1>2, <1>4, <1>6, FilterSeq
  <1>9. \A k \in 1..Len(Survivors), l \in 1..Len(Spares(rw)) : Survivors[k] # Spares(rw)[l]
    BY <1>3, <1>7, <1>8 DEF spare
  <1> QED
    BY <1>7, <1>8, <1>9 DEF NewEnsemble

\* The record with the new fragment pushed.
LEMMA PushedType ==
    ASSUME hmd \in LedgerMetadata, WellFormed(hmd), next \in Nat, NEW rw \in SUBSET Nodes,
           Len(NewEnsemble(rw)) >= WriteQuorum
    PROVE  /\ Pushed(rw) \in LedgerMetadata /\ WellFormed(Pushed(rw))
           /\ Pushed(rw).version = hmd.version
           /\ Pushed(rw).fragments =
                 Append(hmd.fragments, [first |-> next, ensemble |-> NewEnsemble(rw)])
  <1> DEFINE f == [first |-> next, ensemble |-> NewEnsemble(rw)]
  <1>1. /\ f \in Fragment /\ Len(f.ensemble) >= WriteQuorum
        /\ \A i, j \in 1..Len(f.ensemble) : f.ensemble[i] = f.ensemble[j] => i = j
    BY NewEnsembleType DEF Fragment
  <1>2. hmd.fragments \in Seq(Fragment)
    BY DEF LedgerMetadata
  <1>3. Pushed(rw) = [hmd EXCEPT !.fragments = Append(hmd.fragments, f)]
    BY DEF Pushed
  <1> HIDE DEF f
  <1>4. Append(hmd.fragments, f) \in Seq(Fragment)
    BY <1>1, <1>2
  <1>5. /\ Pushed(rw) \in LedgerMetadata
        /\ Pushed(rw).version = hmd.version
        /\ Pushed(rw).fragments = Append(hmd.fragments, f)
    BY <1>3, <1>4, Zenon DEF LedgerMetadata
  <1>6. WellFormed(Pushed(rw))
    <2> DEFINE g == Append(hmd.fragments, f)
    <2>1. /\ Len(g) = Len(hmd.fragments) + 1 /\ Len(hmd.fragments) \in Nat
          /\ \A k \in 1..Len(hmd.fragments) : g[k] = hmd.fragments[k]
          /\ g[Len(hmd.fragments) + 1] = f
      BY <1>1, <1>2
    <2>2. g # <<>>
      BY <1>1, <1>2
    <2> HIDE DEF g
    <2>3. ASSUME NEW k \in 1..Len(g)
          PROVE  (k \in 1..Len(hmd.fragments) /\ g[k] = hmd.fragments[k]) \/ g[k] = f
      BY <2>1
    <2>4. \A k \in 1..Len(g) :
             /\ Len(g[k].ensemble) >= WriteQuorum
             /\ \A i, j \in 1..Len(g[k].ensemble) : g[k].ensemble[i] = g[k].ensemble[j] => i = j
      BY <1>1, <2>3, Zenon DEF WellFormed
    <2>5. Pushed(rw).fragments = g
      BY <1>5 DEF g
    <2> QED
      BY <2>2, <2>4, <2>5 DEF WellFormed
  <1> QED
    BY <1>5, <1>6 DEF f

LEMMA TypeInit == Init => TInv
  <1> SUFFICES ASSUME Init PROVE TInv
    OBVIOUS
  <1>1. TypeOK
    BY NewMetadataType, LedgerConstants DEF Init, TypeOK, Idle
  <1> QED
    BY <1>1, NewMetadataType DEF TInv, Init, Idle

\* One attempt of do_append sends requests and waits.
LEMMA SendType ==
    ASSUME sent \in [Nodes -> SUBSET Request], next \in Entries, NEW d \in Data, NEW ws, Send(ws, d)
    PROVE  /\ sent' \in [Nodes -> SUBSET Request]
           /\ outcome' \in [Nodes -> {"none", "waiting", "ok", "fenced", "failed"}]
    BY DEF Send, Request

\* The variables AfterChange sets.
LEMMA AfterChangeType ==
    ASSUME TInv, at \in {"change", "replace"}, NEW ok \in BOOLEAN, AfterChange(ok)
    PROVE  /\ sent' \in [Nodes -> SUBSET Request]
           /\ outcome' \in [Nodes -> {"none", "waiting", "ok", "fenced", "failed"}]
           /\ at' \in {"idle", "join"}
           /\ data' \in Data \cup {NoData}
           /\ attempt' \in {0, 1}
           /\ acked' \in [Entries -> Data \cup {NoData}]
           /\ at' # "idle" => at = "replace" /\ data' \in Data
  <1>1. CASE at = "change"
    BY <1>1 DEF AfterChange, Return, TInv, TypeOK
  <1>2. CASE at = "replace" /\ ok
    <2>1. Send({Last(hmd'.fragments).ensemble[i] : i \in 1..WriteQuorum}, data)
      BY <1>2 DEF AfterChange
    <2>2. /\ sent' \in [Nodes -> SUBSET Request]
          /\ outcome' \in [Nodes -> {"none", "waiting", "ok", "fenced", "failed"}]
      BY <1>2, <2>1, SendType DEF TInv, TypeOK
    <2> QED
      BY <1>2, <2>2 DEF AfterChange, TInv, TypeOK
  <1>3. CASE at = "replace" /\ ~ok
    BY <1>3 DEF AfterChange, Return, TInv, TypeOK
  <1> QED
    BY <1>1, <1>2, <1>3

\* The answer of a node.
LEMMA AnswerType ==
    ASSUME outcome \in [Nodes -> {"none", "waiting", "ok", "fenced", "failed"}],
           NEW n, NEW q, NEW result \in {"ok", "fenced"}, Answer(n, q, result)
    PROVE  outcome' \in [Nodes -> {"none", "waiting", "ok", "fenced", "failed"}]
    BY Zenon DEF Answer

\* Every step keeps the types.
LEMMA TypeNext == TInv /\ [Next]_vars => TInv'
  <1> SUFFICES ASSUME TInv, [Next]_vars PROVE TInv'
    OBVIOUS
  <1> USE EntriesAreNat DEF TInv, TypeOK
  <1> USE DEF nodeVars, handleVars, historyVars
  <1>1. ASSUME NEW d \in Data, append(d) PROVE TInv'
    <2>1. next \in Entries
      BY <1>1, LedgerConstants DEF append, Entries
    <2>2. /\ sent' \in [Nodes -> SUBSET Request]
          /\ outcome' \in [Nodes -> {"none", "waiting", "ok", "fenced", "failed"}]
      BY <1>1, <2>1, SendType DEF append
    <2> QED
      BY <1>1, <2>1, <2>2 DEF append
  <1>2. ASSUME NEW n \in Nodes, CallFails(n) PROVE TInv'
    BY <1>2, LedgerConstants DEF CallFails
  <1>3. CASE AppendFenced
    BY <1>3 DEF AppendFenced, Return
  <1>4. CASE AppendQuorum
    <2>1. next \in Entries /\ next + 1 \in 0..MaxEntries
      BY <1>4, LedgerConstants DEF AppendQuorum, Joined, Entries
    <2>2. lac' \in Nat /\ lac' = advance(next)
      BY <1>4, <2>1 DEF AppendQuorum, advance
    <2>3. hmd' \in LedgerMetadata /\ WellFormed(hmd')
      <3>1. hmd' = [hmd EXCEPT !.lac = lac', !.last = next]
        BY <1>4, <2>2 DEF AppendQuorum
      <3> QED
        BY <2>1, <2>2, <3>1, AckedType, Zenon
    <2>4. /\ acked' \in [Entries -> Data \cup {NoData}]
          /\ outcome' \in [Nodes -> {"none", "waiting", "ok", "fenced", "failed"}]
          /\ at' \in {"idle", "change"}
          /\ data' \in Data \cup {NoData}
          /\ at' # "idle" => data' \in Data
      <3>1. CASE Return /\ acked' = [acked EXCEPT ![next] = data]
        BY <2>1, <3>1 DEF Return
      <3>2. CASE at' = "change" /\ UNCHANGED <<data, outcome, acked>>
        BY <1>4, <3>2 DEF AppendQuorum, Joined
      <3> QED
        BY <1>4, <3>1, <3>2 DEF AppendQuorum
    <2> QED
      BY <1>4, <2>1, <2>2, <2>3, <2>4 DEF AppendQuorum
  <1>5. CASE AppendNoQuorum
    BY <1>5 DEF AppendNoQuorum, Return, Joined
  <1>6. ASSUME NEW rw \in SUBSET Nodes, ChangeNotTried(rw) PROVE TInv'
    <2>1. storeErrors' \in 0..MaxStoreErrors
      BY <1>6, LedgerConstants DEF ChangeNotTried
    <2> QED
      BY <1>6, <2>1, AfterChangeType, Zenon DEF ChangeNotTried
  <1>7. ASSUME NEW rw \in SUBSET Nodes, ChangeStored(rw) PROVE TInv'
    <2>1. Pushed(rw) \in LedgerMetadata /\ WellFormed(Pushed(rw))
      BY <1>7, PushedType, next \in Nat, Zenon DEF ChangeStored
    <2>2. md' = [Pushed(rw) EXCEPT !.version = @ + 1]
      BY <1>7 DEF ChangeStored, PutLedger
    <2>3. md' \in LedgerMetadata /\ WellFormed(md') /\ hmd' = md'
      BY <1>7, <2>1, <2>2, PutType DEF ChangeStored
    <2> QED
      BY <1>7, <2>3, AfterChangeType, Zenon DEF ChangeStored
  <1>8. ASSUME NEW rw \in SUBSET Nodes, NEW took \in BOOLEAN, ChangeNotStored(rw, took) PROVE TInv'
    <2>1. Pushed(rw) \in LedgerMetadata /\ WellFormed(Pushed(rw))
      BY <1>8, PushedType, next \in Nat, Zenon DEF ChangeNotStored
    <2>2. md' = md \/ md' = [Pushed(rw) EXCEPT !.version = @ + 1]
      BY <1>8 DEF ChangeNotStored, PutLedger
    <2>3. md' \in LedgerMetadata /\ WellFormed(md')
      BY <2>1, <2>2, PutType
    <2>4. storeErrors' \in 0..MaxStoreErrors
      BY <1>8, LedgerConstants DEF ChangeNotStored
    <2> QED
      BY <1>8, <2>1, <2>3, <2>4, AfterChangeType, Zenon DEF ChangeNotStored
  <1>9. ASSUME NEW n \in Nodes, NEW q \in sent[n], add_entry(n, q) PROVE TInv'
    <2>1. /\ sent' \in [Nodes -> SUBSET Request]
          /\ handling' \in [Nodes -> SUBSET Request]
      BY <1>9 DEF add_entry
    <2>2. outcome' \in [Nodes -> {"none", "waiting", "ok", "fenced", "failed"}]
      BY <1>9, AnswerType, Zenon DEF add_entry
    <2> QED
      BY <1>9, <2>1, <2>2 DEF add_entry
  <1>10. ASSUME NEW n \in Nodes, NEW q \in handling[n], EntryWritten(n, q) PROVE TInv'
    <2>1. q \in Request
      OBVIOUS
    <2>2. stored' \in [Nodes -> [Entries -> Data \cup {NoData}]]
      BY <1>10, <2>1 DEF EntryWritten, Request
    <2>3. outcome' \in [Nodes -> {"none", "waiting", "ok", "fenced", "failed"}]
      BY <1>10, AnswerType, Zenon DEF EntryWritten
    <2>4. handling' \in [Nodes -> SUBSET Request]
      BY <1>10 DEF EntryWritten
    <2> QED
      BY <1>10, <2>2, <2>3, <2>4 DEF EntryWritten
  <1>11. ASSUME NEW r \in Recoverers, BeginRecovery(r) PROVE TInv'
    <2>1. md' \in LedgerMetadata /\ WellFormed(md')
      <3> DEFINE p == [md EXCEPT !.state = "InRecovery"]
      <3>1. p \in LedgerMetadata /\ WellFormed(p)
        BY InRecoveryType
      <3>2. md' = [p EXCEPT !.version = @ + 1]
        BY <1>11 DEF BeginRecovery, PutLedger
      <3> HIDE DEF p
      <3> QED
        BY <3>1, <3>2, PutType
    <2> QED
      BY <1>11, <2>1 DEF BeginRecovery, Fencing
  <1>12. ASSUME NEW r \in Recoverers, JoinRecovery(r) PROVE TInv'
    BY <1>12 DEF JoinRecovery, Fencing
  <1>13. ASSUME NEW r \in Recoverers, NEW answered \in BOOLEAN, fence_ledger(r, answered) PROVE TInv'
    <2> DEFINE n == Last(rec[r].md.fragments).ensemble[rec[r].i + 1]
    <2>1. fenced' \in [Nodes -> BOOLEAN]
      BY <1>13, Zenon DEF fence_ledger
    <2>2. racing' \in [Nodes -> SUBSET Entries]
      <3>1. racing' = [racing EXCEPT ![n] = @ \cup {q.entry : q \in handling[n]}]
        BY <1>13, Zenon DEF fence_ledger
      <3> HIDE DEF n
      <3>2. n \in Nodes => {q.entry : q \in handling[n]} \subseteq Entries
        BY RequestEntries
      <3> QED
        BY <3>1, <3>2, Zenon
    <2>3. Maximum({rec[r].hi, HighestStored(n)}) \in Nat
      BY HighestStoredBounds, MaximumOfTwo, Zenon
    <2>4. \/ rec' = [rec EXCEPT ![r] = Done]
          \/ rec' = [rec EXCEPT ![r] = Fencing(rec[r].md, rec[r].i + 1,
                                               Maximum({rec[r].hi, HighestStored(n)}))]
      BY <1>13, Zenon DEF fence_ledger
    <2> HIDE DEF n
    <2>5. /\ rec' \in [Recoverers -> [at: {"idle", "fence", "done"}, md: LedgerMetadata, i: Nat, hi: Nat]]
          /\ \A s \in Recoverers : WellFormed(rec'[s].md)
      <3>1. CASE rec' = [rec EXCEPT ![r] = Done]
        BY <3>1, NewMetadataType DEF Done
      <3> DEFINE new == Fencing(rec[r].md, rec[r].i + 1, Maximum({rec[r].hi, HighestStored(n)}))
      <3>2. /\ new \in [at: {"idle", "fence", "done"}, md: LedgerMetadata, i: Nat, hi: Nat]
            /\ new.md = rec[r].md
        BY <2>3 DEF Fencing
      <3> HIDE DEF new
      <3>3. CASE rec' = [rec EXCEPT ![r] = new]
        BY <3>2, <3>3
      <3> QED
        BY <2>4, <3>1, <3>3 DEF new
    <2> QED
      BY <1>13, <2>1, <2>2, <2>5, Zenon DEF fence_ledger
  <1>14. ASSUME NEW r \in Recoverers, SealRecovered(r) PROVE TInv'
    <2>1. Sealed(r) \in LedgerMetadata /\ WellFormed(Sealed(r))
      <3>1. SealedLast(rec[r].hi) \in Nat \cup {NONE} /\ rec[r].hi \in Nat
        BY SealedLastType
      <3> QED
        BY <3>1, ClosedType, Zenon DEF Sealed
    <2>2. md' \in LedgerMetadata /\ WellFormed(md')
      BY <1>14, <2>1, PutType DEF SealRecovered, PutLedger
    <2> QED
      BY <1>14, <2>2, NewMetadataType DEF SealRecovered, Done
  <1>15. ASSUME NEW r \in Recoverers, RecoveryFails(r) PROVE TInv'
    BY <1>15, NewMetadataType DEF RecoveryFails, Done
  <1>16. CASE seal_ledger
    <2>1. Closed(md, lac, lac) \in LedgerMetadata /\ WellFormed(Closed(md, lac, lac))
      BY ClosedType
    <2>2. md' \in LedgerMetadata /\ WellFormed(md')
      BY <1>16, <2>1, PutType DEF seal_ledger, PutLedger
    <2> QED
      BY <1>16, <2>2 DEF seal_ledger
  <1>17. CASE UNCHANGED vars
    BY <1>17 DEF vars
  <1> HIDE DEF TInv, TypeOK
  <1> QED
    BY <1>1, <1>2, <1>3, <1>4, <1>5, <1>6, <1>7, <1>8, <1>9, <1>10, <1>11, <1>12, <1>13, <1>14,
       <1>15, <1>16, <1>17 DEF Next, Start, Writer, Node, Recovery

\* Types hold in every reachable state.
LEMMA TypeInvariance == Spec => []TInv
    BY TypeInit, TypeNext, PTL DEF Spec

\* Every value keeps its type, and change_fragment never makes a fragment that
\* names a node twice or is smaller than the write quorum.
THEOREM TypeCorrect == Spec => []TypeOK
    BY TypeInvariance, PTL DEF TInv

----------------------------------------------------------------------------
(* What a sealed ledger covers *)

\* Node n is fenced, and what it holds above hi was being handled then.
Covered(n, hi) ==
    /\ fenced[n]
    /\ \A e \in Entries : Holds(n, e) => e <= hi \/ e \in racing[n]

\* A handler on a fenced node was there when the node was fenced.
RacingInv == \A n \in Nodes : fenced[n] => \A q \in handling[n] : q.entry \in racing[n]

\* The nodes a recovery has been to are covered by the highest entry so far.
Reached(r) ==
    LET ens == Last(rec[r].md.fragments).ensemble IN
    /\ rec[r].i <= Len(ens)
    /\ \A k \in 1..rec[r].i : Covered(ens[k], rec[r].hi)
FencingInv == \A r \in Recoverers : rec[r].at = "fence" => Reached(r)

\* The writer's copy is never newer than the stored record, and older than a
\* sealed one: no put_ledger of the writer replaces it.
SealedInv ==
    /\ hmd.version <= md.version
    /\ sealedBy # "nobody" => md.state = "Closed" /\ hmd.version < md.version

IInv == TInv /\ RacingInv /\ FencingInv /\ SealedInv /\ SealCoversStored

\* A put_ledger that closes the ledger leaves the writer's copy behind.
LEMMA SealedNext ==
    ASSUME hmd.version \in Nat, md.version \in Nat, SealedInv, UNCHANGED hmd,
           md'.state = "Closed", md'.version = md.version + 1
    PROVE  SealedInv'
  <1>1. hmd'.version = hmd.version
    OBVIOUS
  <1>2. hmd.version <= md.version
    BY DEF SealedInv
  <1>3. hmd'.version < md'.version
    BY <1>1, <1>2
  <1> QED
    BY <1>1, <1>2, <1>3 DEF SealedInv

\* SealCoversStored in terms of Covered.
LEMMA SealCoversDef ==
    SealCoversStored <=>
        (sealedBy = "recovery" => \A n \in Members(Last(md.fragments)) : Covered(n, md.lac))
    BY DEF SealCoversStored, Covered

LEMMA InvInit == Init => IInv
  <1> SUFFICES ASSUME Init PROVE IInv
    OBVIOUS
  <1>1. TInv
    BY TypeInit
  <1>2. RacingInv /\ FencingInv /\ SealCoversStored
    BY DEF Init, Idle, RacingInv, FencingInv, SealCoversStored
  <1>3. SealedInv
    BY DEF Init, NewMetadata, SealedInv
  <1> QED
    BY <1>1, <1>2, <1>3 DEF IInv

\* The steps that leave the nodes' entries and fences, the recoveries and who
\* sealed the ledger alone, and change the record only to a newer one that no
\* recovery has sealed.
LEMMA QuietSteps ==
    ASSUME IInv, TInv', UNCHANGED <<stored, fenced, handling, racing, rec, sealedBy>>,
           hmd'.version <= md'.version,
           sealedBy # "nobody" => UNCHANGED md /\ hmd'.version = hmd.version
    PROVE  RacingInv' /\ FencingInv' /\ SealedInv' /\ SealCoversStored'
  <1>1. RacingInv'
    BY DEF IInv, RacingInv
  <1>2. FencingInv'
    BY Zenon DEF IInv, FencingInv, Reached, Covered, Holds
  <1>3. SealedInv'
    BY DEF IInv, SealedInv
  <1>4. SealCoversStored'
    BY DEF IInv, SealCoversStored, Holds
  <1> QED
    BY <1>1, <1>2, <1>3, <1>4

\* Every step keeps the invariant.
LEMMA InvNext == IInv /\ [Next]_vars => IInv'
  <1> SUFFICES ASSUME IInv, [Next]_vars PROVE IInv'
    OBVIOUS
  <1> DEFINE Rest == RacingInv /\ FencingInv /\ SealedInv /\ SealCoversStored
  <1>1. TInv /\ TInv'
    BY TypeNext DEF IInv
  <1>2. md.version \in Nat /\ hmd.version \in Nat
    BY <1>1 DEF TInv, TypeOK, LedgerMetadata
  <1>21. /\ hmd \in LedgerMetadata /\ WellFormed(hmd)
         /\ next \in Nat
    BY <1>1, LedgerConstants DEF TInv, TypeOK
  <1> USE DEF nodeVars, handleVars, historyVars
  <1>3. ASSUME UNCHANGED <<md, hmd, stored, fenced, handling, racing, rec, sealedBy>> PROVE Rest'
    BY <1>1, <1>3, QuietSteps DEF IInv, SealedInv
  <1>4. ASSUME AppendQuorum PROVE Rest'
    <2>1. hmd'.version = hmd.version
      <3>1. advance(next) \in Nat
        BY <1>1, <1>21 DEF TInv, TypeOK, advance
      <3>2. hmd' = [hmd EXCEPT !.lac = advance(next), !.last = next]
        BY <1>4 DEF AppendQuorum
      <3> QED
        BY <1>21, <3>1, <3>2, AckedType, Zenon
    <2>2. UNCHANGED <<md, stored, fenced, handling, racing, rec, sealedBy>>
      BY <1>4 DEF AppendQuorum
    <2> QED
      BY <1>1, <2>1, <2>2, QuietSteps DEF IInv, SealedInv
  <1>5. ASSUME NEW rw \in SUBSET Nodes, ChangeStored(rw) PROVE Rest'
    <2>1. Pushed(rw).version = hmd.version /\ md.version = Pushed(rw).version
      BY <1>21, <1>5, PushedType, Zenon DEF ChangeStored, PutLedger
    <2>2. sealedBy = "nobody"
      BY <1>2, <2>1 DEF IInv, SealedInv
    <2>3. hmd' = md' /\ hmd'.version \in Nat
      BY <1>1, <1>5 DEF ChangeStored, TInv, TypeOK, LedgerMetadata
    <2>4. UNCHANGED <<stored, fenced, handling, racing, rec, sealedBy>>
      BY <1>5 DEF ChangeStored
    <2> QED
      BY <1>1, <2>2, <2>3, <2>4, QuietSteps
  <1>6. ASSUME NEW rw \in SUBSET Nodes, NEW took \in BOOLEAN, ChangeNotStored(rw, took) PROVE Rest'
    <2>1. /\ Pushed(rw).version = hmd.version /\ hmd' = Pushed(rw)
          /\ Pushed(rw) \in LedgerMetadata /\ WellFormed(Pushed(rw))
      BY <1>21, <1>6, PushedType, Zenon DEF ChangeNotStored
    <2>2. UNCHANGED <<stored, fenced, handling, racing, rec, sealedBy>>
      BY <1>6 DEF ChangeNotStored
    <2>3. CASE UNCHANGED md
      BY <1>1, <2>1, <2>2, <2>3, QuietSteps DEF IInv, SealedInv
    <2>4. CASE PutLedger(Pushed(rw))
      <3>1. md'.version = Pushed(rw).version + 1 /\ md.version = hmd.version
        BY <2>1, <2>4, PutType DEF PutLedger
      <3>2. sealedBy = "nobody"
        BY <1>2, <3>1 DEF IInv, SealedInv
      <3>3. hmd'.version <= md'.version
        BY <1>2, <2>1, <3>1
      <3> QED
        BY <1>1, <2>2, <3>2, <3>3, QuietSteps
    <2> QED
      BY <1>6, <2>3, <2>4, Zenon DEF ChangeNotStored
  <1>7. ASSUME NEW n \in Nodes, NEW q \in sent[n], add_entry(n, q) PROVE Rest'
    <2>1. UNCHANGED <<md, hmd, stored, fenced, racing, rec, sealedBy>>
      BY <1>7 DEF add_entry
    <2>2. \/ UNCHANGED handling
          \/ ~fenced[n] /\ handling' = [handling EXCEPT ![n] = @ \cup {q}]
      BY <1>7 DEF add_entry
    <2>3. RacingInv'
      BY <1>1, <2>1, <2>2, Zenon DEF IInv, RacingInv, TInv, TypeOK
    <2>4. FencingInv' /\ SealedInv' /\ SealCoversStored'
      BY <2>1, Zenon DEF IInv, FencingInv, Reached, Covered, Holds, SealedInv, SealCoversStored
    <2> QED
      BY <2>3, <2>4
  <1>8. ASSUME NEW n \in Nodes, NEW q \in handling[n], EntryWritten(n, q) PROVE Rest'
    <2>1. UNCHANGED <<md, hmd, fenced, racing, rec, sealedBy>>
      BY <1>8 DEF EntryWritten
    <2>2. handling' = [handling EXCEPT ![n] = @ \ {q}]
      BY <1>8 DEF EntryWritten
    <2>3. RacingInv'
      BY <1>1, <2>1, <2>2, Zenon DEF IInv, RacingInv, TInv, TypeOK
    <2>4. \A m, e, hi : Covered(m, hi) /\ e \in Entries /\ Holds(m, e)' => e <= hi \/ e \in racing[m]
      <3> SUFFICES ASSUME NEW m, NEW e \in Entries, NEW hi, Covered(m, hi), Holds(m, e)'
                   PROVE  e <= hi \/ e \in racing[m]
        OBVIOUS
      <3>1. CASE m = n /\ e = q.entry
        BY <3>1 DEF Covered, IInv, RacingInv
      <3>2. CASE ~(m = n /\ e = q.entry)
        <4>1. Holds(m, e)
          <5>1. stored' = [stored EXCEPT ![n][q.entry] = q.data]
            BY <1>8 DEF EntryWritten
          <5>2. stored \in [Nodes -> [Entries -> Data \cup {NoData}]]
            BY <1>1 DEF TInv, TypeOK
          <5> QED
            BY <3>2, <5>1, <5>2 DEF Holds
        <4> QED
          BY <4>1 DEF Covered
      <3> QED
        BY <3>1, <3>2
    <2>5. \A m, hi : Covered(m, hi) => Covered(m, hi)'
      BY <2>1, <2>4 DEF Covered
    <2>6. FencingInv'
      BY <2>1, <2>5, Zenon DEF IInv, FencingInv, Reached
    <2>7. SealedInv' /\ SealCoversStored'
      BY <2>1, <2>5, SealCoversDef DEF IInv, SealedInv, SealCoversStored, Covered
    <2> QED
      BY <2>3, <2>6, <2>7
  <1>9. ASSUME NEW r \in Recoverers, NEW m, m \in LedgerMetadata, md'.version >= md.version,
               rec' = [rec EXCEPT ![r] = Fencing(m, 0, 0)], UNCHANGED <<nodeVars, handleVars, historyVars>>,
               sealedBy # "nobody" => UNCHANGED md
        PROVE  Rest'
    <2>1. \A s \in Recoverers : s # r => rec'[s] = rec[s]
      BY <1>1, <1>9, Zenon DEF TInv, TypeOK
    <2>2. rec'[r] = Fencing(m, 0, 0)
      BY <1>1, <1>9 DEF TInv, TypeOK
    <2>3. FencingInv'
      <3> SUFFICES ASSUME NEW s \in Recoverers, (rec[s].at = "fence")' PROVE Reached(s)'
        BY DEF FencingInv
      <3>1. CASE s = r
        <4>1. rec'[s].i = 0 /\ rec'[s].md \in LedgerMetadata /\ WellFormed(rec'[s].md)
          <5>1. rec'[s].i = 0 /\ rec'[s].md = m
            BY <2>2, <3>1 DEF Fencing
          <5>2. WellFormed(rec'[s].md)
            BY <1>1, Zenon DEF TInv, WellFormed
          <5> QED
            BY <1>9, <5>1, <5>2
        <4>2. Len(Last(rec'[s].md.fragments).ensemble) \in Nat
          BY <4>1, LastFragment
        <4> QED
          BY <4>1, <4>2 DEF Reached
      <3>2. CASE s # r
        <4>1. rec'[s] = rec[s] /\ Reached(s)
          BY <2>1, <3>2 DEF IInv, FencingInv
        <4> QED
          BY <1>9, <4>1, Zenon DEF Reached, Covered, Holds
      <3> QED
        BY <3>1, <3>2
    <2>4. RacingInv'
      BY <1>9 DEF IInv, RacingInv
    <2>5. SealedInv'
      <3>1. md'.version \in Nat
        BY <1>1, Zenon DEF TInv, TypeOK, LedgerMetadata
      <3> QED
        BY <1>2, <1>9, <3>1 DEF IInv, SealedInv
    <2>6. SealCoversStored'
      BY <1>9 DEF IInv, SealCoversStored, Holds
    <2> QED
      BY <2>3, <2>4, <2>5, <2>6, Zenon
  <1>10. ASSUME NEW r \in Recoverers, BeginRecovery(r) PROVE Rest'
    <2>1. md' \in LedgerMetadata
      BY <1>1 DEF TInv, TypeOK
    <2>2. sealedBy = "nobody"
      BY <1>10 DEF BeginRecovery, IInv, SealedInv
    <2>3. md'.version >= md.version
      <3> DEFINE m == [md EXCEPT !.state = "InRecovery"]
      <3>1. m \in LedgerMetadata /\ m.version = md.version /\ WellFormed(m)
        BY <1>1, InRecoveryType DEF TInv, TypeOK
      <3>2. PutLedger(m)
        BY <1>10 DEF BeginRecovery
      <3> HIDE DEF m
      <3> QED
        BY <1>2, <3>1, <3>2, PutType DEF PutLedger
    <2> QED
      BY <1>9, <1>10, <2>1, <2>2, <2>3, Zenon DEF BeginRecovery
  <1>11. ASSUME NEW r \in Recoverers, JoinRecovery(r) PROVE Rest'
    <2>1. md \in LedgerMetadata
      BY <1>1 DEF TInv, TypeOK
    <2>2. md' = md /\ md'.version >= md.version
      BY <1>2, <1>11 DEF JoinRecovery
    <2> QED
      BY <1>9, <1>11, <2>1, <2>2, Zenon DEF JoinRecovery
  <1>12. ASSUME NEW r \in Recoverers, NEW answered \in BOOLEAN, fence_ledger(r, answered) PROVE Rest'
    <2> DEFINE ens == Last(rec[r].md.fragments).ensemble
    <2>1. /\ rec[r].i \in Nat /\ rec[r].hi \in Nat /\ rec[r].i < Len(ens)
          /\ ens \in Seq(Nodes) /\ Len(ens) \in Nat
      <3>1. /\ rec[r].md \in LedgerMetadata /\ WellFormed(rec[r].md)
            /\ rec[r].i \in Nat /\ rec[r].hi \in Nat
        BY <1>1, Zenon DEF TInv, TypeOK
      <3>2. ens \in Seq(Nodes)
        BY <3>1, LastFragment
      <3> HIDE DEF ens
      <3>3. rec[r].i < Len(ens)
        BY <1>12, Zenon DEF fence_ledger, ens
      <3> QED
        BY <3>1, <3>2, <3>3
    <2>2. PICK n \in Nodes : n = ens[rec[r].i + 1]
      <3> HIDE DEF ens
      <3>1. rec[r].i + 1 \in 1..Len(ens)
        BY <2>1
      <3> QED
        BY <2>1, <3>1
    <2>3. PICK hi \in Nat : /\ hi = Maximum({rec[r].hi, HighestStored(n)})
                            /\ rec[r].hi <= hi /\ HighestStored(n) <= hi
      BY <2>1, HighestStoredBounds, MaximumOfTwo
    <2>4. \A e \in Entries : Holds(n, e) => e <= hi
      <3>1. HighestStored(n) \in Nat /\ \A e \in Entries : Holds(n, e) => e <= HighestStored(n)
        BY HighestStoredBounds DEF Holds
      <3> QED
        BY <2>3, <3>1 DEF Entries
    <2>5. /\ fenced' = [fenced EXCEPT ![n] = TRUE]
          /\ racing' = [racing EXCEPT ![n] = @ \cup {q.entry : q \in handling[n]}]
          /\ UNCHANGED <<md, hmd, stored, handling, sealedBy>>
          /\ rec[r].at = "fence"
          /\ rec' = [rec EXCEPT ![r] = IF answered THEN Fencing(rec[r].md, rec[r].i + 1, hi) ELSE Done]
      BY <1>12, <2>2, <2>3, Zenon DEF fence_ledger
    <2>6. /\ fenced \in [Nodes -> BOOLEAN] /\ racing \in [Nodes -> SUBSET Entries]
          /\ \A s \in Recoverers : s # r => rec'[s] = rec[s]
          /\ rec'[r] = IF answered THEN Fencing(rec[r].md, rec[r].i + 1, hi) ELSE Done
      BY <1>1, <2>5, Zenon DEF TInv, TypeOK
    <2>7. \A m \in Nodes : fenced[m] => fenced'[m] /\ racing[m] \subseteq racing'[m]
      BY <2>5, <2>6
    <2>8. \A m \in Nodes : \A h : Covered(m, h) => Covered(m, h)'
      BY <2>5, <2>7 DEF Covered, Holds
    <2>9. Covered(n, hi)'
      <3>1. fenced'[n]
        BY <2>5, <2>6
      <3> QED
        BY <2>4, <2>5, <3>1 DEF Covered, Holds
    <2>10. \A m \in Nodes : \A h, g \in Nat : Covered(m, h) /\ h <= g => Covered(m, g)
      BY EntriesAreNat DEF Covered
    <2>11. RacingInv'
      BY <2>5, <2>6 DEF IInv, RacingInv
    <2>12. FencingInv'
      <3> SUFFICES ASSUME NEW s \in Recoverers, (rec[s].at = "fence")' PROVE Reached(s)'
        BY DEF FencingInv
      <3>1. CASE s = r
        <4>1. rec'[s] = Fencing(rec[r].md, rec[r].i + 1, hi)
          BY <2>6, <3>1 DEF Done
        <4>2. /\ rec'[s].md = rec[r].md /\ rec'[s].i = rec[r].i + 1 /\ rec'[s].hi = hi
          BY <4>1 DEF Fencing
        <4>3. ASSUME NEW k \in 1..(rec[r].i + 1), NEW m \in Nodes, m = ens[k] PROVE Covered(m, hi)'
          <5>1. CASE k = rec[r].i + 1
            BY <2>2, <2>9, <4>3, <5>1, Zenon
          <5>2. CASE k # rec[r].i + 1
            <6>1. Covered(m, rec[r].hi)
              <7>1. \A j \in 1..rec[r].i : Covered(ens[j], rec[r].hi)
                BY <2>5 DEF IInv, FencingInv, Reached
              <7>2. k \in 1..rec[r].i
                BY <2>1, <5>2
              <7> QED
                BY <4>3, <7>1, <7>2, Zenon
            <6> QED
              BY <2>1, <2>3, <2>8, <2>10, <6>1, Zenon
          <5> QED
            BY <5>1, <5>2
        <4>4. \A k \in 1..(rec[r].i + 1) : ens[k] \in Nodes
          BY <2>1
        <4> HIDE DEF ens
        <4>5. \A k \in 1..(rec[r].i + 1) :
                /\ fenced'[ens[k]]
                /\ \A e \in Entries : stored'[ens[k]][e] # NoData => e <= hi \/ e \in racing'[ens[k]]
          BY <4>3, <4>4 DEF Covered, Holds
        <4>6. Last(rec'[s].md.fragments).ensemble = ens
          BY <4>2 DEF ens
        <4>7. rec[r].i + 1 <= Len(ens)
          BY <2>1
        <4> QED
          BY <4>2, <4>5, <4>6, <4>7, Zenon DEF Reached, Covered, Holds
      <3>2. CASE s # r
        <4> DEFINE reached == Last(rec[s].md.fragments).ensemble
        <4>1. rec'[s] = rec[s] /\ Reached(s)
          BY <2>6, <3>2 DEF IInv, FencingInv
        <4>2. rec[s].i \in Nat /\ rec[s].i <= Len(reached) /\ reached \in Seq(Nodes)
          BY <1>1, <4>1, LastFragment, Zenon DEF TInv, TypeOK, Reached
        <4>3. \A k \in 1..rec[s].i : reached[k] \in Nodes /\ Covered(reached[k], rec[s].hi)
          <5>1. \A k \in 1..rec[s].i : reached[k] \in Nodes
            BY <4>2
          <5>2. \A k \in 1..rec[s].i : Covered(reached[k], rec[s].hi)
            BY <4>1, Zenon DEF Reached
          <5> QED
            BY <5>1, <5>2, Zenon
        <4> HIDE DEF reached
        <4>4. \A k \in 1..rec[s].i :
                /\ fenced'[reached[k]]
                /\ \A e \in Entries : stored'[reached[k]][e] # NoData =>
                                          e <= rec[s].hi \/ e \in racing'[reached[k]]
          BY <2>5, <2>7, <4>3 DEF Covered, Holds
        <4> QED
          BY <4>1, <4>2, <4>4, Zenon DEF Reached, Covered, Holds, reached
      <3> QED
        BY <3>1, <3>2
    <2>13. SealedInv'
      BY <2>5, Zenon DEF IInv, SealedInv
    <2>14. SealCoversStored'
      <3>1. Members(Last(md.fragments)) \subseteq Nodes
        <4>1. Last(md.fragments).ensemble \in Seq(Nodes)
          BY <1>1, LastFragment, Zenon DEF TInv, TypeOK
        <4> QED
          BY <4>1 DEF Members
      <3>2. sealedBy = "recovery" => \A m \in Members(Last(md.fragments)) : Covered(m, md.lac)
        BY SealCoversDef DEF IInv
      <3> QED
        BY <2>5, <2>8, <3>1, <3>2 DEF SealCoversStored, Covered
    <2> QED
      BY <2>11, <2>12, <2>13, <2>14
  <1>13. ASSUME NEW r \in Recoverers, rec' = [rec EXCEPT ![r] = Done],
                UNCHANGED <<nodeVars, handleVars, racing>>
         PROVE  RacingInv' /\ FencingInv'
    <2>1. RacingInv'
      BY <1>13 DEF IInv, RacingInv
    <2>2. \A s \in Recoverers : rec'[s].at = "fence" => rec'[s] = rec[s]
      BY <1>1, <1>13, Zenon DEF TInv, TypeOK, Done
    <2>3. FencingInv'
      <3> SUFFICES ASSUME NEW s \in Recoverers, (rec[s].at = "fence")' PROVE Reached(s)'
        BY DEF FencingInv
      <3>1. rec'[s] = rec[s] /\ Reached(s)
        BY <2>2 DEF IInv, FencingInv
      <3> QED
        BY <1>13, <3>1, Zenon DEF Reached, Covered, Holds
    <2> QED
      BY <2>1, <2>3, Zenon
  <1>14. ASSUME NEW r \in Recoverers, SealRecovered(r) PROVE Rest'
    <2>1. RacingInv' /\ FencingInv'
      BY <1>13, <1>14, Zenon DEF SealRecovered
    <2>2. /\ rec[r].md \in LedgerMetadata /\ WellFormed(rec[r].md)
          /\ rec[r].i \in Nat /\ rec[r].hi \in Nat /\ rec[r].at = "fence"
      BY <1>1, <1>14 DEF TInv, TypeOK, SealRecovered
    <2>3. /\ md'.state = "Closed" /\ md'.fragments = rec[r].md.fragments
          /\ md'.lac = rec[r].hi /\ md'.version = md.version + 1
      <3>1. /\ Sealed(r) \in LedgerMetadata /\ WellFormed(Sealed(r))
            /\ Sealed(r).state = "Closed" /\ Sealed(r).fragments = rec[r].md.fragments
            /\ Sealed(r).lac = rec[r].hi
        BY <2>2, SealedLastType, ClosedType DEF Sealed, Closed
      <3>2. md' = [Sealed(r) EXCEPT !.version = @ + 1] /\ md.version = Sealed(r).version
        BY <1>14 DEF SealRecovered, PutLedger
      <3> QED
        BY <3>1, <3>2, PutType, Zenon
    <2>4. SealedInv'
      <3>1. SealedInv /\ UNCHANGED hmd
        BY <1>14 DEF IInv, SealRecovered, handleVars
      <3> QED
        BY <1>2, <2>3, <3>1, SealedNext
    <2>5. \A n \in Members(Last(md'.fragments)) : Covered(n, rec[r].hi)
      BY <1>14, <2>2, <2>3, Zenon DEF IInv, FencingInv, Reached, SealRecovered, Members
    <2>6. SealCoversStored'
      BY <1>14, <2>3, <2>5, Zenon DEF SealRecovered, SealCoversStored, Covered, Holds
    <2> QED
      BY <2>1, <2>4, <2>6
  <1>15. ASSUME NEW r \in Recoverers, RecoveryFails(r) PROVE Rest'
    <2>1. RacingInv' /\ FencingInv'
      BY <1>13, <1>15, Zenon DEF RecoveryFails
    <2>2. SealedInv' /\ SealCoversStored'
      BY <1>15 DEF IInv, RecoveryFails, SealedInv, SealCoversStored, Holds
    <2> QED
      BY <2>1, <2>2
  <1>16. ASSUME seal_ledger PROVE Rest'
    <2>1. md'.state = "Closed" /\ md'.version = md.version + 1 /\ sealedBy' = "client"
      <3>1. /\ Closed(md, lac, lac) \in LedgerMetadata /\ WellFormed(Closed(md, lac, lac))
            /\ Closed(md, lac, lac).state = "Closed"
        BY <1>1, ClosedType DEF TInv, TypeOK, Closed
      <3>2. /\ md' = [Closed(md, lac, lac) EXCEPT !.version = @ + 1]
            /\ md.version = Closed(md, lac, lac).version /\ sealedBy' = "client"
        BY <1>16 DEF seal_ledger, PutLedger
      <3> QED
        BY <3>1, <3>2, PutType, Zenon
    <2>2. SealedInv' /\ SealCoversStored'
      <3>1. SealedInv /\ UNCHANGED hmd
        BY <1>16 DEF IInv, seal_ledger, handleVars
      <3>2. SealedInv'
        BY <1>2, <2>1, <3>1, SealedNext
      <3>3. SealCoversStored'
        BY <2>1 DEF SealCoversStored
      <3> QED
        BY <3>2, <3>3
    <2>3. RacingInv' /\ FencingInv'
      BY <1>16, Zenon DEF IInv, RacingInv, FencingInv, Reached, Covered, Holds, seal_ledger
    <2> QED
      BY <2>2, <2>3
  <1>17. Rest'
    <2>1. ASSUME NEW d \in Data, append(d) PROVE Rest'
      BY <1>3, <2>1 DEF append
    <2>2. ASSUME NEW n \in Nodes, CallFails(n) PROVE Rest'
      BY <1>3, <2>2 DEF CallFails
    <2>3. CASE AppendFenced \/ AppendNoQuorum
      BY <1>3, <2>3 DEF AppendFenced, AppendNoQuorum
    <2>4. ASSUME NEW rw \in SUBSET Nodes, ChangeNotTried(rw) PROVE Rest'
      BY <1>3, <2>4 DEF ChangeNotTried
    <2>5. CASE UNCHANGED vars
      BY <1>3, <2>5 DEF vars
    <2> HIDE DEF Rest
    <2> QED
      BY <1>4, <1>5, <1>6, <1>7, <1>8, <1>10, <1>11, <1>12, <1>14, <1>15, <1>16, Zenon,
         <2>1, <2>2, <2>3, <2>4, <2>5 DEF Next, Start, Writer, Node, Recovery
  <1> QED
    BY <1>1, <1>17 DEF IInv

\* So does the invariant behind SealCoversStored.
LEMMA Invariance == Spec => []IInv
    BY InvInit, InvNext, PTL DEF Spec

\* fence_and_seal fences every node of the fragment it seals, and the LAC it
\* writes covers all that those nodes hold, the entries whose add_entry had
\* passed the fence check excepted: for any ensemble, quorums, number of
\* concurrent recoveries, failed calls and lost answers of the store.
THEOREM SealedLedgerCovers == Spec => []SealCoversStored
    BY Invariance, PTL DEF IInv

----------------------------------------------------------------------------
(* The writer's list of fragments and the copies of it *)

Prefix(s, t) ==
    /\ Len(s) <= Len(t)
    /\ \A k \in 1..Len(s) : s[k] = t[k]

FirstFragments == <<[first |-> 0, ensemble |-> Ensemble]>>

\* A step leaves the writer's fragments alone, or pushes one that starts at
\* the next entry.
HandlePushes ==
    \/ hmd'.fragments = hmd.fragments
    \/ /\ next' = next /\ at \in {"change", "replace"}
       /\ \E f \in Fragment : f.first = next /\ hmd'.fragments = Append(hmd.fragments, f)

\* A step leaves the stored fragments alone, or stores the writer's or those of
\* a recovery.
StoreCopies ==
    \/ md'.fragments \in {md.fragments, hmd'.fragments}
    \/ \E r \in Recoverers : md'.fragments = rec[r].md.fragments

\* The store and every recovery have the writer's fragments or fewer: what
\* makes StoredIsPrefix inductive.
PrefixInv ==
    /\ Prefix(FirstFragments, hmd.fragments)
    /\ StoredIsPrefix
    /\ \A r \in Recoverers : Prefix(rec[r].md.fragments, hmd.fragments)

\* A longer list of fragments extends what a shorter one does.
LEMMA PrefixTransitive ==
    ASSUME NEW U, NEW s \in Seq(U), NEW t \in Seq(U), NEW u \in Seq(U),
           Prefix(s, t), Prefix(t, u)
    PROVE  Prefix(s, u)
  <1>1. Len(s) \in Nat /\ Len(t) \in Nat /\ Len(u) \in Nat
    OBVIOUS
  <1> QED
    BY <1>1 DEF Prefix

\* The record PutLedger stores has the fragments of the record it is given.
LEMMA PutFragments ==
    ASSUME NEW m \in LedgerMetadata, PutLedger(m)
    PROVE  md'.fragments = m.fragments /\ md'.state = m.state /\ md'.lac = m.lac
    BY DEF PutLedger, LedgerMetadata

\* What one step does to the writer's fragments.
LEMMA HandleStep ==
    ASSUME TInv, [Next]_vars
    PROVE  HandlePushes
  <1> USE DEF handleVars, HandlePushes
  <1>1. hmd \in LedgerMetadata /\ WellFormed(hmd) /\ next \in Nat
    BY LedgerConstants DEF TInv, TypeOK
  <1>2. ASSUME NEW rw \in SUBSET Nodes, Len(NewEnsemble(rw)) >= WriteQuorum,
               next' = next, at \in {"change", "replace"},
               hmd'.fragments = Pushed(rw).fragments
        PROVE  HandlePushes
    <2>1. NewEnsemble(rw) \in Seq(Nodes)
      BY <1>1, NewEnsembleType
    <2>2. [first |-> next, ensemble |-> NewEnsemble(rw)] \in Fragment
      BY <1>1, <2>1 DEF Fragment
    <2>3. Pushed(rw).fragments =
             Append(hmd.fragments, [first |-> next, ensemble |-> NewEnsemble(rw)])
      BY <1>1, <1>2, PushedType, Zenon
    <2> QED
      BY <1>2, <2>2, <2>3
  <1>3. ASSUME NEW rw \in SUBSET Nodes, ChangeStored(rw) PROVE HandlePushes
    <2>1. Pushed(rw) \in LedgerMetadata
      BY <1>1, <1>3, PushedType, Zenon DEF ChangeStored
    <2>2. hmd'.fragments = Pushed(rw).fragments
      BY <1>3, <2>1, PutFragments, Zenon DEF ChangeStored
    <2> QED
      BY <1>2, <1>3, <2>2 DEF ChangeStored
  <1>4. ASSUME NEW rw \in SUBSET Nodes, NEW took \in BOOLEAN, ChangeNotStored(rw, took)
        PROVE  HandlePushes
    BY <1>2, <1>4 DEF ChangeNotStored
  <1>5. CASE AppendQuorum
    BY <1>1, <1>5 DEF AppendQuorum, LedgerMetadata
  <1>6. CASE UNCHANGED hmd
    BY <1>6
  <1>7. \/ AppendQuorum
        \/ \E rw \in SUBSET Nodes : ChangeStored(rw) \/ \E took \in BOOLEAN : ChangeNotStored(rw, took)
        \/ UNCHANGED hmd
    BY Zenon DEF Next, Start, Writer, Node, Recovery, append, CallFails, AppendFenced, AppendNoQuorum,
           ChangeNotTried, add_entry, EntryWritten, BeginRecovery, JoinRecovery, fence_ledger,
           SealRecovered, RecoveryFails, seal_ledger, vars
  <1> QED
    BY <1>3, <1>4, <1>5, <1>6, <1>7

\* What one step does to the stored fragments.
LEMMA StoreStep ==
    ASSUME TInv, [Next]_vars
    PROVE  StoreCopies
  <1> USE DEF StoreCopies
  <1>1. /\ hmd \in LedgerMetadata /\ WellFormed(hmd) /\ next \in Nat
        /\ md \in LedgerMetadata /\ WellFormed(md) /\ lac \in Nat
    BY LedgerConstants DEF TInv, TypeOK
  <1>2. ASSUME NEW rw \in SUBSET Nodes, ChangeStored(rw) PROVE StoreCopies
    BY <1>2 DEF ChangeStored
  <1>3. ASSUME NEW rw \in SUBSET Nodes, NEW took \in BOOLEAN, ChangeNotStored(rw, took) PROVE StoreCopies
    <2>1. Pushed(rw) \in LedgerMetadata
      BY <1>1, <1>3, PushedType, Zenon DEF ChangeNotStored
    <2>2. hmd' = Pushed(rw) /\ (UNCHANGED md \/ PutLedger(Pushed(rw)))
      BY <1>3 DEF ChangeNotStored
    <2> QED
      BY <2>1, <2>2, PutFragments
  <1>4. ASSUME NEW r \in Recoverers, BeginRecovery(r) PROVE StoreCopies
    <2>1. PutLedger([md EXCEPT !.state = "InRecovery"])
      BY <1>4 DEF BeginRecovery
    <2>2. [md EXCEPT !.state = "InRecovery"] \in LedgerMetadata
      BY <1>1, InRecoveryType
    <2>3. [md EXCEPT !.state = "InRecovery"].fragments = md.fragments
      BY <1>1 DEF LedgerMetadata
    <2> QED
      BY <2>1, <2>2, <2>3, PutFragments, Zenon
  <1>5. ASSUME NEW r \in Recoverers, SealRecovered(r) PROVE StoreCopies
    <2>1. rec[r].md \in LedgerMetadata /\ WellFormed(rec[r].md) /\ rec[r].hi \in Nat
      BY DEF TInv, TypeOK
    <2>2. Sealed(r) \in LedgerMetadata
      BY <2>1, SealedLastType, ClosedType, Zenon DEF Sealed
    <2>3. PutLedger(Sealed(r)) /\ Sealed(r).fragments = rec[r].md.fragments
      BY <1>5 DEF SealRecovered, Sealed, Closed
    <2> QED
      BY <2>2, <2>3, PutFragments, Zenon
  <1>6. CASE seal_ledger
    <2>1. Closed(md, lac, lac) \in LedgerMetadata
      BY <1>1, ClosedType
    <2>2. PutLedger(Closed(md, lac, lac)) /\ Closed(md, lac, lac).fragments = md.fragments
      BY <1>6 DEF seal_ledger, Closed
    <2> QED
      BY <2>1, <2>2, PutFragments
  <1>7. CASE UNCHANGED md
    BY <1>7
  <1>8. \/ \E rw \in SUBSET Nodes : ChangeStored(rw) \/ \E took \in BOOLEAN : ChangeNotStored(rw, took)
        \/ \E r \in Recoverers : BeginRecovery(r) \/ SealRecovered(r)
        \/ seal_ledger
        \/ UNCHANGED md
    BY Zenon DEF Next, Start, Writer, Node, Recovery, append, CallFails, AppendFenced, AppendNoQuorum,
           AppendQuorum, ChangeNotTried, add_entry, EntryWritten, JoinRecovery, fence_ledger,
           RecoveryFails, vars
  <1> HIDE DEF StoreCopies
  <1> QED
    BY <1>2, <1>3, <1>4, <1>5, <1>6, <1>7, <1>8

\* What one step does to the fragments the recoveries read.
LEMMA RecoveryStep ==
    ASSUME TInv, [Next]_vars, NEW r \in Recoverers
    PROVE  rec'[r].md.fragments \in {rec[r].md.fragments, md'.fragments, FirstFragments}
  <1>1. rec \in [Recoverers -> [at: {"idle", "fence", "done"}, md: LedgerMetadata, i: Nat, hi: Nat]]
    BY DEF TInv, TypeOK
  <1>2. Done.md.fragments = FirstFragments
    BY DEF Done, NewMetadata, FirstFragments
  <1>3. ASSUME NEW s \in Recoverers, NEW m, NEW i, NEW hi, rec' = [rec EXCEPT ![s] = Fencing(m, i, hi)],
               m \in {md', rec[s].md}
        PROVE  rec'[r].md.fragments \in {rec[r].md.fragments, md'.fragments, FirstFragments}
    <2>1. rec'[r] = IF r = s THEN Fencing(m, i, hi) ELSE rec[r]
      BY <1>1, <1>3
    <2> QED
      BY <1>3, <2>1 DEF Fencing
  <1>4. ASSUME NEW s \in Recoverers, rec' = [rec EXCEPT ![s] = Done]
        PROVE  rec'[r].md.fragments \in {rec[r].md.fragments, md'.fragments, FirstFragments}
    BY <1>1, <1>2, <1>4
  <1>5. ASSUME NEW s \in Recoverers, NEW answered \in BOOLEAN, fence_ledger(s, answered)
        PROVE  \/ rec' = [rec EXCEPT ![s] = Done]
               \/ \E i, hi : rec' = [rec EXCEPT ![s] = Fencing(rec[s].md, i, hi)]
    BY <1>5, Zenon DEF fence_ledger
  <1>6. \/ \E s \in Recoverers : \E m \in {md', rec[s].md} : \E i, hi : rec' = [rec EXCEPT ![s] = Fencing(m, i, hi)]
        \/ \E s \in Recoverers : rec' = [rec EXCEPT ![s] = Done]
        \/ UNCHANGED rec
    <2>1. ASSUME NEW s \in Recoverers, BeginRecovery(s)
          PROVE  rec' = [rec EXCEPT ![s] = Fencing(md', 0, 0)]
      BY <2>1 DEF BeginRecovery
    <2>2. ASSUME NEW s \in Recoverers, JoinRecovery(s)
          PROVE  rec' = [rec EXCEPT ![s] = Fencing(md', 0, 0)]
      BY <2>2 DEF JoinRecovery
    <2>3. ASSUME NEW s \in Recoverers, SealRecovered(s) \/ RecoveryFails(s)
          PROVE  rec' = [rec EXCEPT ![s] = Done]
      BY <2>3 DEF SealRecovered, RecoveryFails
    <2>4. \/ \E s \in Recoverers : Recovery(s)
          \/ UNCHANGED rec
      BY Zenon DEF Next, Start, Writer, Node, append, CallFails, AppendFenced, AppendNoQuorum,
           AppendQuorum, ChangeNotTried, ChangeStored, ChangeNotStored, add_entry, EntryWritten,
           seal_ledger, vars
    <2> QED
      BY <1>5, <2>1, <2>2, <2>3, <2>4 DEF Recovery
  <1> QED
    BY <1>3, <1>4, <1>6

\* create_ledger stores the record it hands to the writer.
LEMMA PrefixInit == Init => PrefixInv
  <1> SUFFICES ASSUME Init PROVE PrefixInv
    OBVIOUS
  <1>1. NewMetadata.fragments = FirstFragments
    BY DEF NewMetadata, FirstFragments
  <1>2. /\ md.fragments = FirstFragments /\ hmd.fragments = FirstFragments
        /\ \A r \in Recoverers : rec[r].md.fragments = FirstFragments
    BY <1>1 DEF Init, Idle
  <1>3. Len(FirstFragments) = 1
    BY DEF FirstFragments
  <1>4. Prefix(FirstFragments, FirstFragments)
    BY <1>3 DEF Prefix
  <1> QED
    BY <1>2, <1>3, <1>4, Zenon DEF PrefixInv, StoredIsPrefix, Prefix

\* Every step keeps the prefixes: the writer's list only grows, the store gets
\* its fragments from the writer or from a recovery's copy, and a recovery
\* gets its copy from the store.
LEMMA PrefixNext ==
    ASSUME TInv, TInv', PrefixInv, [Next]_vars
    PROVE  PrefixInv'
  <1>1. /\ hmd.fragments \in Seq(Fragment) /\ hmd'.fragments \in Seq(Fragment)
        /\ md.fragments \in Seq(Fragment) /\ md'.fragments \in Seq(Fragment)
        /\ \A r \in Recoverers : rec[r].md.fragments \in Seq(Fragment)
    BY Zenon DEF TInv, TypeOK, LedgerMetadata
  <1>2. FirstFragments \in Seq(Fragment)
    BY LedgerConstants DEF FirstFragments, Fragment
  <1>3. Prefix(hmd.fragments, hmd'.fragments)
    <2>1. CASE hmd'.fragments = hmd.fragments
      BY <1>1, <2>1 DEF Prefix
    <2>2. ASSUME NEW f \in Fragment, hmd'.fragments = Append(hmd.fragments, f)
          PROVE  Prefix(hmd.fragments, hmd'.fragments)
      BY <1>1, <2>2 DEF Prefix
    <2> QED
      BY <2>1, <2>2, HandleStep DEF HandlePushes
  <1>4. Prefix(md.fragments, hmd.fragments)
    BY Zenon DEF PrefixInv, StoredIsPrefix, Prefix
  <1>5. \A s \in Seq(Fragment) : Prefix(s, hmd.fragments) => Prefix(s, hmd'.fragments)
    BY <1>1, <1>3, PrefixTransitive
  <1>6. Prefix(FirstFragments, hmd'.fragments)
    BY <1>2, <1>5, Zenon DEF PrefixInv
  <1>7. Prefix(md'.fragments, hmd'.fragments)
    <2>1. Prefix(hmd'.fragments, hmd'.fragments)
      BY <1>1 DEF Prefix
    <2> QED
      BY <1>1, <1>4, <1>5, <2>1, StoreStep DEF PrefixInv, StoreCopies
  <1>8. \A r \in Recoverers : Prefix(rec'[r].md.fragments, hmd'.fragments)
    BY <1>1, <1>5, <1>6, <1>7, RecoveryStep DEF PrefixInv
  <1> QED
    BY <1>6, <1>7, <1>8, Zenon DEF PrefixInv, StoredIsPrefix, Prefix

\* The metadata store never knows a fragment the writer does not, for any
\* number of failed or lost put_ledger calls and of concurrent recoveries.
THEOREM StoreNeverAhead == Spec => []StoredIsPrefix
  <1>1. Init => TInv /\ PrefixInv
    BY TypeInit, PrefixInit
  <1>2. TInv /\ PrefixInv /\ [Next]_vars => (TInv /\ PrefixInv)'
    BY TypeNext, PrefixNext
  <1>3. PrefixInv => StoredIsPrefix
    BY DEF PrefixInv
  <1> QED
    BY <1>1, <1>2, <1>3, PTL DEF Spec
=============================================================================
