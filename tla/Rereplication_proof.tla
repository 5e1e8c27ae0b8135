------------------------- MODULE Rereplication_proof -------------------------
(***************************************************************************)
(* Rereplication for every cluster, ledger and number of faults: the       *)
(* helpers it is built from, the leases, which the rest does not disturb,  *)
(* the soundness of the workers' views, and what a repair does to the      *)
(* replicas of an entry.                                                   *)
(***************************************************************************)
EXTENDS Rereplication, FiniteSetTheorems, TLAPS

\* A set of naturals that is not empty has a least element.
LEMMA LeastNat ==
    ASSUME NEW S \in SUBSET Nat, S # {}
    PROVE  \E x \in S : \A y \in S : x <= y
  <1> DEFINE R == OpToRel(<, Nat)
  <1>1. \A x, y \in Nat : <<y, x>> \in R <=> y < x
    BY DEF OpToRel
  <1>2. IsWellFoundedOn(R, Nat)
    BY NatLessThanWellFounded, Zenon
  <1> HIDE DEF R
  <1>3. PICK x \in S : \A y \in S : ~(<<y, x>> \in R)
    BY <1>2, WFMin, Zenon
  <1>4. \A y \in S : ~(y < x)
    BY <1>1, <1>3, Zenon
  <1> QED
    BY <1>4

\* One that is bounded too has a greatest.
LEMMA GreatestNat ==
    ASSUME NEW S \in SUBSET Nat, S # {}, NEW k \in Nat, \A x \in S : x <= k
    PROVE  \E x \in S : \A y \in S : y <= x
  <1> DEFINE T == {k - x : x \in S}
  <1>1. T \in SUBSET Nat
    OBVIOUS
  <1>2. T # {}
    BY Zenon
  <1>3. PICK t \in T : \A u \in T : t <= u
    BY <1>1, <1>2, LeastNat, Zenon
  <1>4. PICK x \in S : t = k - x
    OBVIOUS
  <1>5. \A y \in S : k - x <= k - y
    BY <1>3, <1>4, Zenon
  <1> QED
    BY <1>5

----------------------------------------------------------------------------
(* Fragments *)

LEMMA MinOf ==
    ASSUME NEW S \in SUBSET Nat, S # {}
    PROVE  Min(S) \in S /\ \A y \in S : Min(S) <= y
  <1>1. \E x \in S : \A y \in S : x =< y
    BY LeastNat
  <1> QED
    BY <1>1, Zenon DEF Min

LEMMA MaxOf ==
    ASSUME NEW S \in SUBSET Nat, S # {}, NEW k \in Nat, \A x \in S : x <= k
    PROVE  Max(S) \in S
  <1>1. \E x \in S : \A y \in S : x >= y
    <2>1. PICK x \in S : \A y \in S : y <= x
      BY GreatestNat, Zenon
    <2> QED
      BY <2>1
  <1> QED
    BY <1>1, Zenon DEF Max

LEMMA MetadataNumbers ==
    ASSUME NEW m \in LedgerMetadata
    PROVE  m.lac \in Nat /\ m.version \in Nat /\ m.version <= m.version
  <1>1. m.lac \in Nat /\ m.version \in Nat
    BY DEF LedgerMetadata
  <1> QED
    BY <1>1

LEMMA FragmentsType ==
    ASSUME NEW m \in LedgerMetadata
    PROVE  /\ m.fragments \in Seq(Fragment) /\ m.lac \in Nat /\ m.version \in Nat
           /\ Len(m.fragments) \in Nat /\ DOMAIN m.fragments = 1..Len(m.fragments)
           /\ \A i \in DOMAIN m.fragments :
                 /\ m.fragments[i] \in Fragment
                 /\ m.fragments[i].first \in Nat /\ m.fragments[i].ensemble \subseteq Nodes
  <1>1. m.fragments \in Seq(Fragment) /\ m.lac \in Nat /\ m.version \in Nat
    BY DEF LedgerMetadata
  <1>2. Len(m.fragments) \in Nat /\ DOMAIN m.fragments = 1..Len(m.fragments)
    BY <1>1
  <1>3. \A i \in DOMAIN m.fragments : m.fragments[i] \in Fragment
    BY <1>1, <1>2
  <1>4. \A f \in Fragment : f.first \in Nat /\ f.ensemble \subseteq Nodes
    BY DEF Fragment
  <1> QED
    BY <1>1, <1>2, <1>3, <1>4

\* FragmentOf is the last fragment that begins at or before the entry.
LEMMA FragmentOfSpec ==
    ASSUME NEW m \in LedgerMetadata, WellFormed(m), NEW e \in Nat
    PROVE  /\ FragmentOf(m, e) \in DOMAIN m.fragments
           /\ m.fragments[FragmentOf(m, e)].first <= e
           /\ \A j \in DOMAIN m.fragments : m.fragments[j].first <= e => j <= FragmentOf(m, e)
  <1> DEFINE S == {i \in DOMAIN m.fragments : m.fragments[i].first <= e}
  <1>1. S \in SUBSET Nat /\ Len(m.fragments) \in Nat /\ \A x \in S : x <= Len(m.fragments)
    BY FragmentsType
  <1>2. S # {}
    <2>1. 1 \in DOMAIN m.fragments
      BY FragmentsType DEF WellFormed
    <2> QED
      BY <2>1 DEF WellFormed
  <1>3. \E i \in S : \A j \in S : j <= i
    <2> HIDE DEF S
    <2> QED
      BY <1>1, <1>2, GreatestNat, Zenon
  <1>4. \E i \in DOMAIN m.fragments :
            /\ m.fragments[i].first <= e
            /\ \A j \in DOMAIN m.fragments : m.fragments[j].first <= e => j <= i
    BY <1>3
  <1> QED
    BY <1>4 DEF FragmentOf

\* The owner depends on where fragments begin and not on their ensembles.
LEMMA FragmentOfSame ==
    ASSUME NEW m \in LedgerMetadata, NEW n \in LedgerMetadata, WellFormed(m), WellFormed(n),
           DOMAIN m.fragments = DOMAIN n.fragments,
           \A i \in DOMAIN m.fragments : m.fragments[i].first = n.fragments[i].first,
           NEW e \in Nat
    PROVE  FragmentOf(m, e) = FragmentOf(n, e)
  <1>1. FragmentOf(m, e) \in Nat /\ FragmentOf(n, e) \in Nat
    <2>1. DOMAIN m.fragments \subseteq Nat
      BY FragmentsType
    <2> QED
      BY <2>1, FragmentOfSpec
  <1>2. FragmentOf(m, e) <= FragmentOf(n, e)
    BY FragmentOfSpec
  <1>3. FragmentOf(n, e) <= FragmentOf(m, e)
    BY FragmentOfSpec
  <1> QED
    BY <1>1, <1>2, <1>3

LEMMA BeginsFirst ==
    ASSUME NEW m \in LedgerMetadata, WellFormed(m), NEW e \in Nat, Begins(m, e)
    PROVE  m.fragments[FragmentOf(m, e)].first = e
  <1> DEFINE i == FragmentOf(m, e)
  <1>1. PICK k \in DOMAIN m.fragments : m.fragments[k].first = e
    BY DEF Begins
  <1>2. i \in DOMAIN m.fragments /\ m.fragments[i].first <= e /\ k <= i
    BY <1>1, FragmentOfSpec
  <1>3. m.fragments[k].first <= m.fragments[i].first
    BY <1>1, <1>2 DEF WellFormed
  <1> QED
    BY <1>1, <1>2, <1>3, FragmentsType

\* The fragment SwapNode changes, if it owns an entry below the LAC, is the one
\* that was copied, and the entry is among those copied.
LEMMA ChangedIsCopied ==
    ASSUME NEW m \in LedgerMetadata, WellFormed(m), NEW from \in Nat, Begins(m, from),
           NEW e \in Nat, e < m.lac,
           FragmentOf(m, e) = FirstAt(m, FragmentOf(m, from))
    PROVE  /\ FragmentOf(m, e) = FragmentOf(m, from)
           /\ from <= e
           /\ e < EndOf(m, FragmentOf(m, from))
  <1> DEFINE i == FragmentOf(m, from)
             o == FragmentOf(m, e)
             S == {k \in DOMAIN m.fragments : m.fragments[k].first = m.fragments[i].first}
             later == {k \in DOMAIN m.fragments : m.fragments[k].first > m.fragments[i].first}
  <1>1. i \in DOMAIN m.fragments /\ m.fragments[i].first = from
    BY FragmentOfSpec, BeginsFirst
  <1>2. S \in SUBSET Nat /\ i \in S
    BY <1>1, FragmentsType
  <1>3. o \in S /\ o <= i
    <2>1. o = Min(S)
      BY DEF FirstAt
    <2> HIDE DEF S, o, i
    <2>2. Min(S) \in S /\ \A y \in S : Min(S) <= y
      BY <1>2, MinOf
    <2> QED
      BY <1>2, <2>1, <2>2
  <1>4. from <= e
    BY <1>1, <1>3, FragmentOfSpec
  <1>5. i <= o
    BY <1>1, <1>4, FragmentOfSpec
  <1>6. o = i
    <2>1. o \in Nat /\ i \in Nat
      BY <1>2, <1>3
    <2> HIDE DEF o, i
    <2> QED
      BY <2>1, <1>3, <1>5
  <1>7. e < EndOf(m, i)
    <2>1. CASE later = {}
      BY <2>1 DEF EndOf
    <2>2. CASE later # {}
      <3>1. later \in SUBSET Nat
        BY FragmentsType
      <3>2. Min(later) \in later
        <4> HIDE DEF later
        <4> QED
          BY <2>2, <3>1, MinOf
      <3>3. EndOf(m, i) = m.fragments[Min(later)].first
        BY <2>2 DEF EndOf
      <3>4. ASSUME NEW k \in later, m.fragments[k].first <= e PROVE FALSE
        <4>1. k <= i
          BY <3>4, <1>6, FragmentOfSpec
        <4>2. m.fragments[k].first <= m.fragments[i].first
          BY <1>1, <3>4, <4>1 DEF WellFormed
        <4> QED
          BY <1>1, <3>4, <4>2, FragmentsType
      <3>5. ~(m.fragments[Min(later)].first <= e)
        BY <3>2, <3>4, Zenon
      <3>6. m.fragments[Min(later)].first \in Nat
        BY <3>2, FragmentsType, Zenon
      <3> QED
        BY <3>3, <3>5, <3>6
    <2> QED
      BY <2>1, <2>2
  <1> QED
    BY <1>4, <1>6, <1>7

LEMMA EndOfType ==
    ASSUME NEW m \in LedgerMetadata, NEW f
    PROVE  EndOf(m, f) \in Nat
  <1> DEFINE later == {k \in DOMAIN m.fragments : m.fragments[k].first > m.fragments[f].first}
  <1>1. later \in SUBSET Nat
    BY FragmentsType
  <1>2. \A k \in later : m.fragments[k].first \in Nat
    BY FragmentsType
  <1>3. m.lac \in Nat
    BY FragmentsType
  <1>4. EndOf(m, f) = IF later = {} THEN m.lac ELSE m.fragments[Min(later)].first
    BY DEF EndOf
  <1> HIDE DEF later
  <1>5. later = {} \/ Min(later) \in later
    BY <1>1, MinOf
  <1> QED
    BY <1>2, <1>3, <1>4, <1>5

\* What Swapped returns: the next version, with the same fragments and ranges,
\* and one ensemble exchanged.
SwapOf(n, m, i, failed, dst) ==
    /\ n \in LedgerMetadata /\ WellFormed(n) /\ n.version = m.version + 1
    /\ DOMAIN n.fragments = DOMAIN m.fragments
    /\ \A k \in DOMAIN m.fragments :
          /\ n.fragments[k].first = m.fragments[k].first
          /\ k # FirstAt(m, i) => n.fragments[k].ensemble = m.fragments[k].ensemble
          /\ k = FirstAt(m, i) =>
                n.fragments[k].ensemble = (m.fragments[k].ensemble \ {failed}) \cup {dst}

LEMMA SwappedSpec ==
    ASSUME NEW m \in LedgerMetadata, WellFormed(m), NEW i \in DOMAIN m.fragments,
           NEW failed, NEW dst \in Nodes
    PROVE  SwapOf(Swapped(m, i, failed, dst), m, i, failed, dst)
  <1> DEFINE S == {k \in DOMAIN m.fragments : m.fragments[k].first = m.fragments[i].first}
             j == FirstAt(m, i)
             f == m.fragments[j]
             g == [f EXCEPT !.ensemble = (f.ensemble \ {failed}) \cup {dst}]
             s == [m.fragments EXCEPT ![j] = g]
             n == Swapped(m, i, failed, dst)
  <1>1. j \in DOMAIN m.fragments
    <2>1. S \in SUBSET Nat /\ S # {}
      BY FragmentsType
    <2> HIDE DEF S
    <2>2. j \in S
      BY <2>1, MinOf DEF FirstAt, S
    <2> QED
      BY <2>2 DEF S
  <1>2. g \in Fragment /\ g.first = f.first /\ g.ensemble = (f.ensemble \ {failed}) \cup {dst}
    <2>1. f \in Fragment
      BY <1>1, FragmentsType
    <2> HIDE DEF f
    <2> QED
      BY <2>1 DEF Fragment
  <1>3. n = [m EXCEPT !.version = m.version + 1, !.fragments = s]
    BY DEF Swapped
  <1> HIDE DEF g
  <1>4. /\ s \in Seq(Fragment) /\ DOMAIN s = DOMAIN m.fragments
        /\ s[j] = g /\ \A k \in DOMAIN m.fragments : k # j => s[k] = m.fragments[k]
    <2>1. m.fragments \in Seq(Fragment)
      BY FragmentsType
    <2> HIDE DEF j
    <2> QED
      BY <1>1, <1>2, <2>1
  <1> HIDE DEF s, n, j
  <1>5. n \in LedgerMetadata /\ n.version = m.version + 1 /\ n.fragments = s
    <2>1. m.version + 1 \in Nat
      BY FragmentsType
    <2> QED
      BY <1>3, <1>4, <2>1, Zenon DEF LedgerMetadata
  <1>6. \A k \in DOMAIN m.fragments : n.fragments[k].first = m.fragments[k].first
    BY <1>1, <1>2, <1>4, <1>5
  <1>7. WellFormed(n)
    <2>1. n.fragments # <<>> /\ 1 \in DOMAIN m.fragments
      <3>1. m.fragments \in Seq(Fragment) /\ m.fragments # <<>>
        BY FragmentsType DEF WellFormed
      <3> QED
        BY <1>4, <1>5, <3>1
    <2> QED
      BY <1>4, <1>5, <1>6, <2>1 DEF WellFormed
  <1>8. \A k \in DOMAIN m.fragments :
          /\ k # j => n.fragments[k].ensemble = m.fragments[k].ensemble
          /\ k = j => n.fragments[k].ensemble = (m.fragments[k].ensemble \ {failed}) \cup {dst}
    BY <1>2, <1>4, <1>5
  <1> QED
    BY <1>4, <1>5, <1>6, <1>7, <1>8 DEF SwapOf, j, n

\* What a successful put of SwapNode does.

\* The entries copied so far, before the first copy, after one more, and when
\* the end is reached.
LEMMA NoneCopied ==
    ASSUME NEW a \in Nat
    PROVE  a..(a - 1) = {} /\ a <= a
  OBVIOUS

LEMMA OneMoreCopied ==
    ASSUME NEW a \in Nat, NEW c \in Nat, NEW S, a..(c - 1) \subseteq S, a <= c
    PROVE  a..((c + 1) - 1) \subseteq S \cup {c} /\ a <= c + 1
  OBVIOUS

LEMMA AllCopied ==
    ASSUME NEW a \in Nat, NEW c \in Nat, NEW x \in Int, NEW e \in Nat, a <= e, e < x, c >= x
    PROVE  e \in a..(c - 1)
  OBVIOUS

----------------------------------------------------------------------------
(* Node keys *)

\* Why the key of a steady node stays: it belongs to the lease of the process
\* that runs, or to none, so the end of an earlier lease does not take it.
KeyHeld ==
    \A n \in Nodes : up[n] =>
        /\ key[n].lease \in {boots[n], NoLease}
        /\ boots[n] \in live[n] => key[n] # NoKey
        /\ stream[n] = "ok" => boots[n] \in live[n]

LeaseInv == LeaseType /\ KeyHeld

LEMMA LeaseInvInit == LeaseInit => LeaseInv
    BY DEF LeaseInit, LeaseInv, LeaseType, KeyHeld, NoKey, NoLease

LEMMA StartInv == ASSUME LeaseInv, NEW n \in Nodes, Start(n) PROVE LeaseInv'
  <1>1. PICK opened \in BOOLEAN : register(n, opened)
    BY DEF Start
  <1> DEFINE k == [lease |-> boots[n] + 1, status |-> "ReadWrite"]
  <1>2. boots[n] \in Nat /\ k \in [lease: Nat, status: {"none", "ReadWrite", "ReadOnly"}] /\ k # NoKey
    BY DEF LeaseInv, LeaseType, NoKey
  <1>3. LeaseType'
    BY <1>1, <1>2 DEF LeaseInv, LeaseType, register
  <1>4. KeyHeld'
    BY <1>1, <1>2 DEF LeaseInv, LeaseType, KeyHeld, register
  <1> QED
    BY <1>3, <1>4 DEF LeaseInv

LEMMA EndLeaseType ==
    ASSUME LeaseType, NEW n \in Nodes, NEW b, EndLease(n, b)
    PROVE  /\ live' \in [Nodes -> SUBSET (Nat \ {0})]
           /\ key' \in [Nodes -> [lease: Nat, status: {"none", "ReadWrite", "ReadOnly"}]]
  <1>1. NoKey \in [lease: Nat, status: {"none", "ReadWrite", "ReadOnly"}]
    BY DEF NoKey, NoLease
  <1> QED
    BY <1>1 DEF LeaseType, EndLease

LEMMA StopInv == ASSUME LeaseInv, NEW n \in Nodes, Stop(n) PROVE LeaseInv'
  <1>1. CASE deregister(n)
    <2>1. LeaseType'
      BY <1>1, EndLeaseType DEF LeaseInv, LeaseType, deregister, Fault
    <2>2. \A m \in Nodes \ {n} : key'[m] = key[m] /\ live'[m] = live[m]
      BY <1>1 DEF LeaseInv, LeaseType, deregister, EndLease
    <2> QED
      BY <1>1, <2>1, <2>2 DEF LeaseInv, LeaseType, KeyHeld, deregister
  <1>2. CASE Crash(n)
    BY <1>2 DEF LeaseInv, LeaseType, KeyHeld, Crash, Fault
  <1> QED
    BY <1>1, <1>2 DEF Stop

LEMMA LeaseTaskInv == ASSUME LeaseInv, NEW n \in Nodes, Lease(n) PROVE LeaseInv'
  <1>1. CASE StreamLost(n)
    BY <1>1 DEF LeaseInv, LeaseType, KeyHeld, StreamLost, Fault
  <1>2. CASE Reconnect(n)
    BY <1>2 DEF LeaseInv, LeaseType, KeyHeld, Reconnect
  <1>3. ASSUME NEW b \in 1..MaxBoots, LeaseExpires(n, b) PROVE LeaseInv'
    <2>1. LeaseType'
      BY <1>3, EndLeaseType DEF LeaseInv, LeaseType, LeaseExpires
    <2>2. \A m \in Nodes \ {n} : key'[m] = key[m] /\ live'[m] = live[m]
      BY <1>3 DEF LeaseInv, LeaseType, LeaseExpires, EndLease
    <2>3. live'[n] = live[n] \ {b}
      BY <1>3 DEF LeaseInv, LeaseType, LeaseExpires, EndLease
    <2>4. ASSUME up[n]
          PROVE  /\ key'[n].lease \in {boots[n], NoLease}
                 /\ boots[n] \in live'[n] => key'[n] # NoKey
                 /\ stream[n] = "ok" => boots[n] \in live'[n]
      <3>1. CASE b = boots[n]
        <4>1. stream[n] # "ok"
          BY <1>3, <2>4, <3>1 DEF LeaseExpires
        <4>2. boots[n] \notin live'[n]
          BY <2>3, <3>1
        <4>3. key'[n] = key[n] \/ key'[n] = NoKey
          BY <1>3 DEF LeaseInv, LeaseType, LeaseExpires, EndLease
        <4> QED
          BY <2>4, <4>1, <4>2, <4>3 DEF LeaseInv, KeyHeld, NoKey
      <3>2. CASE b # boots[n]
        <4>1. key[n].lease # b
          BY <1>3, <2>4, <3>2, LeaseConstants DEF LeaseInv, KeyHeld, NoLease
        <4>2. key' = key
          BY <1>3, <4>1 DEF LeaseExpires, EndLease
        <4> QED
          BY <2>3, <2>4, <3>2, <4>2 DEF LeaseInv, KeyHeld
      <3> QED
        BY <3>1, <3>2
    <2>5. up' = up /\ boots' = boots /\ stream' = stream
      BY <1>3 DEF LeaseExpires
    <2>6. KeyHeld'
      BY <2>2, <2>4, <2>5 DEF LeaseInv, KeyHeld
    <2> QED
      BY <2>1, <2>6 DEF LeaseInv
  <1>4. ASSUME NEW s \in {"ReadWrite", "ReadOnly"}, NEW put \in BOOLEAN, HealthTick(n, s, put)
        PROVE  LeaseInv'
    <2> DEFINE k == [lease |-> NoLease, status |-> s]
    <2>1. k \in [lease: Nat, status: {"none", "ReadWrite", "ReadOnly"}] /\ k # NoKey
      BY DEF NoKey, NoLease
    <2>2. CASE put
      <3>1. key' = [key EXCEPT ![n] = k] /\ detached' = [detached EXCEPT ![n] = TRUE]
        BY <1>4, <2>2 DEF HealthTick
      <3>2. LeaseType'
        BY <1>4, <2>1, <3>1 DEF LeaseInv, LeaseType, HealthTick, Fault
      <3>3. k.lease = NoLease
        OBVIOUS
      <3> HIDE DEF k
      <3>4. up' = up /\ boots' = boots /\ stream' = stream /\ live' = live
        BY <1>4 DEF HealthTick
      <3>5. KeyHeld'
        BY <2>1, <3>1, <3>3, <3>4 DEF LeaseInv, LeaseType, KeyHeld
      <3> QED
        BY <3>2, <3>5 DEF LeaseInv
    <2>3. CASE ~put
      BY <1>4, <2>3 DEF LeaseInv, LeaseType, KeyHeld, HealthTick, Fault
    <2> QED
      BY <2>2, <2>3
  <1> QED
    BY <1>1, <1>2, <1>3, <1>4 DEF Lease

\* A step of the cluster is one of the node's lease, a failed call or neither.
LEMMA LeaseSide ==
    ASSUME [Next]_vars
    PROVE  \/ UNCHANGED leaseVars
           \/ CallFails
           \/ \E n \in Nodes : Start(n) \/ Stop(n) \/ Lease(n)
  <1>1. CASE UNCHANGED vars
    BY <1>1 DEF vars
  <1>2. ASSUME NEW p \in Nodes, boot(p) \/ Exit(p) \/ LeaseStep(p)
        PROVE  Start(p) \/ Stop(p) \/ Lease(p)
    BY <1>2 DEF boot, Exit, LeaseStep
  <1>3. ASSUME NEW p \in Nodes, Auditor(p) PROVE UNCHANGED leaseVars \/ CallFails
    BY <1>3, Zenon DEF Auditor, campaign_for_leadership, enqueue_for_node, EnqueueFails, AuditorExits
  <1>4. ASSUME NEW p \in Nodes, Worker(p) PROVE UNCHANGED leaseVars \/ CallFails
    BY <1>4, Zenon DEF Worker, process, TaskFails, transition_state, SealRecovered, fence_ledger,
                restore_replication, CopyEntry, SwapNode, restVars
  <1> QED
    BY <1>1, <1>2, <1>3, <1>4 DEF Next

LEMMA LeaseInvNext == LeaseInv /\ [Next]_vars => LeaseInv'
  <1> SUFFICES ASSUME LeaseInv, [Next]_vars PROVE LeaseInv'
    OBVIOUS
  <1>1. CASE UNCHANGED leaseVars
    BY <1>1 DEF LeaseInv, LeaseType, KeyHeld, leaseVars
  <1>2. CASE CallFails
    BY <1>2 DEF LeaseInv, LeaseType, KeyHeld, CallFails
  <1>3. CASE \E n \in Nodes : Start(n) \/ Stop(n) \/ Lease(n)
    BY <1>3, StartInv, StopInv, LeaseTaskInv
  <1> QED
    BY <1>1, <1>2, <1>3, LeaseSide

\* In every cluster, whatever fails, a running node whose keep-alive stream
\* stands is listed (NodeRegistry::register).
THEOREM SteadyListed == Spec => []SteadyNodeListed
  <1>1. Init => LeaseInv
    BY LeaseInvInit DEF Init
  <1>2. LeaseInv => SteadyNodeListed
    BY DEF LeaseInv, KeyHeld, SteadyNodeListed, list_nodes
  <1> QED
    BY <1>1, <1>2, LeaseInvNext, PTL DEF Spec

----------------------------------------------------------------------------
(* Workers *)

LEMMA WorkerFields ==
    ASSUME NEW w \in WorkerState
    PROVE  /\ w.at \in {"idle", "transition", "fence", "restore", "copy"}
           /\ w.failed \in Nodes \cup {NoNode} /\ w.from \in Nat /\ w.md \in LedgerMetadata
           /\ w.left \in SUBSET Nodes /\ w.hi \in Nat
           /\ w.src \in Nodes \cup {NoNode} /\ w.dst \in Nodes \cup {NoNode} /\ w.e \in Nat
  BY DEF WorkerState

LEMMA IdleType == Idle \in WorkerState /\ Idle.at = "idle"
  <1>1. NoMetadata \in LedgerMetadata
    BY DEF NoMetadata, LedgerMetadata
  <1> QED
    BY <1>1 DEF Idle, WorkerState

\* A sound view stays sound when nodes get entries, keys are deleted and the
\* store's version moves on.
LEMMA SoundStable ==
    ASSUME NEW w \in WorkerState, NEW m \in LedgerMetadata, NEW m2 \in LedgerMetadata,
           NEW has, NEW has2, \A n \in Nodes : has[n] \subseteq has2[n],
           NEW gone, NEW gone2, gone \subseteq gone2,
           m2 = m \/ m2.version = m.version + 1,
           \A e : Begins(m, e) => Begins(m2, e),
           Sound(w, m, has, gone)
    PROVE  Sound(w, m2, has2, gone2)
  <1>1. m.version \in Nat /\ w.md.version \in Nat
    BY WorkerFields, FragmentsType
  <1>2. ASSUME w.at # "idle"
        PROVE  w.md.version <= m2.version /\ (w.md.version = m2.version => w.md = m2)
    BY <1>1, <1>2 DEF Sound
  <1> QED
    BY <1>2 DEF Sound

\* How the record may change: the version moves on, fragments begin where they did.
MdStep ==
    \/ md' = md
    \/ /\ md' \in LedgerMetadata /\ WellFormed(md')
       /\ md'.version = md.version + 1
       /\ DOMAIN md'.fragments = DOMAIN md.fragments
       /\ \A i \in DOMAIN md.fragments : md'.fragments[i].first = md.fragments[i].first

IInv == LeaseInv /\ RepairsSound

\* What every step keeps, and when the rest of RepairsSound follows.
LEMMA Frame ==
    ASSUME RepairsSound, TypeOK', MdStep, noticed \subseteq noticed',
           \A n \in Nodes : stored[n] \subseteq stored'[n],
           \A p \in Nodes : \A i \in DOMAIN events'[p] : events'[p][i] \in noticed',
           \A p \in Nodes : \A i \in DOMAIN tasks'[p] :
               tasks'[p][i].failed \in noticed' /\ Begins(md, tasks'[p][i].from),
           \A p \in Nodes : \/ wk'[p] = wk[p]
                            \/ wk'[p] = Idle
                            \/ Sound(wk'[p], md', stored', noticed')
    PROVE  RepairsSound'
  <1>1. md \in LedgerMetadata /\ md' \in LedgerMetadata /\ WellFormed(md')
    BY DEF RepairsSound, TypeOK, MdStep
  <1>2. \A e : Begins(md, e) => Begins(md', e)
    BY DEF MdStep, Begins
  <1>3. ASSUME NEW p \in Nodes PROVE Sound(wk'[p], md', stored', noticed')
    <2>1. CASE wk'[p] = wk[p]
      <3>1. wk[p] \in WorkerState /\ Sound(wk[p], md, stored, noticed)
        BY DEF RepairsSound, TypeOK
      <3>2. md' = md \/ md'.version = md.version + 1
        BY DEF MdStep
      <3> QED
        BY <1>1, <1>2, <2>1, <3>1, <3>2, SoundStable, Zenon
    <2>2. CASE wk'[p] = Idle
      BY <2>2, IdleType DEF Sound
    <2> QED
      BY <2>1, <2>2
  <1>4. \A p \in Nodes : \A i \in DOMAIN tasks'[p] :
            tasks'[p][i].failed \in noticed' /\ Begins(md', tasks'[p][i].from)
    BY <1>2
  <1> QED
    BY <1>1, <1>3, <1>4, Zenon DEF RepairsSound

LEMMA SoundInit == Init => IInv
  <1> SUFFICES ASSUME Init PROVE IInv
    OBVIOUS
  <1>1. LeaseInv
    BY LeaseInvInit DEF Init
  <1>2. PICK l \in Ledgers : md = l.md /\ stored = l.stored /\ fenced = l.fenced
    BY DEF Init
  <1>3. md \in LedgerMetadata /\ WellFormed(md)
        /\ stored \in [Nodes -> SUBSET Entries] /\ fenced \in [Nodes -> BOOLEAN]
    BY <1>2, RereplicationConstants
  <1>4. wk \in [Nodes -> WorkerState] /\ \A p \in Nodes : wk[p].at = "idle"
    BY IdleType DEF Init
  <1>5. events \in [Nodes -> Seq(Nodes)] /\ \A p \in Nodes : DOMAIN events[p] = {}
    BY DEF Init
  <1>6. tasks \in [Nodes -> Seq(ReReplicationTask)] /\ \A p \in Nodes : DOMAIN tasks[p] = {}
    BY DEF Init
  <1>7. resolver \in [Nodes -> SUBSET Nodes] /\ aud \in [Nodes -> {"off", "start", "watch"}]
        /\ noticed \subseteq Nodes
    BY RereplicationConstants DEF Init
  <1>8. TypeOK
    BY <1>1, <1>3, <1>4, <1>5, <1>6, <1>7 DEF TypeOK, LeaseInv
  <1> QED
    BY <1>1, <1>3, <1>4, <1>5, <1>6, <1>8 DEF IInv, RepairsSound, Sound

\* The events after Notify name nodes whose key was deleted.
LEMMA NotifyEvents ==
    ASSUME RepairsSound, Notify
    PROVE  /\ noticed \subseteq noticed' /\ noticed' \subseteq Nodes
           /\ events' \in [Nodes -> Seq(Nodes)]
           /\ \A p \in Nodes : \A i \in DOMAIN events'[p] : events'[p][i] \in noticed'
  <1> DEFINE deleted == {n \in Nodes : key[n] # NoKey /\ key'[n] = NoKey}
             d == CHOOSE n \in deleted : TRUE
  <1>1. noticed' = noticed \cup deleted
    BY DEF Notify
  <1>2. noticed \subseteq Nodes /\ events \in [Nodes -> Seq(Nodes)]
    BY DEF RepairsSound, TypeOK
  <1>3. \A p \in Nodes : \/ events'[p] = <<>>
                         \/ events'[p] = events[p]
                         \/ deleted # {} /\ events'[p] = Append(events[p], d)
    BY DEF Notify
  <1>4. events' = [p \in Nodes |-> events'[p]]
    BY DEF Notify
  <1>5. deleted # {} => d \in deleted
    OBVIOUS
  <1>6. deleted \subseteq Nodes
    OBVIOUS
  <1> HIDE DEF deleted, d
  <1>7. ASSUME NEW p \in Nodes
        PROVE  events'[p] \in Seq(Nodes) /\ \A i \in DOMAIN events'[p] : events'[p][i] \in noticed'
    <2>1. events[p] \in Seq(Nodes) /\ \A i \in DOMAIN events[p] : events[p][i] \in noticed
      BY DEF RepairsSound, TypeOK
    <2>2. CASE events'[p] = <<>>
      BY <2>2
    <2>3. CASE events'[p] = events[p]
      BY <1>1, <2>1, <2>3
    <2>4. CASE deleted # {} /\ events'[p] = Append(events[p], d)
      BY <1>1, <1>5, <1>6, <2>1, <2>4
    <2> QED
      BY <1>3, <2>2, <2>3, <2>4
  <1> QED
    BY <1>1, <1>2, <1>4, <1>6, <1>7

LEMMA ClusterStep ==
    ASSUME IInv, LeaseInv', NEW n \in Nodes, boot(n) \/ Exit(n) \/ LeaseStep(n)
    PROVE  RepairsSound'
  <1>1. Notify /\ UNCHANGED dataVars
    BY Zenon DEF boot, Exit, LeaseStep
  <1>2. RepairsSound /\ TypeOK
    BY DEF IInv, RepairsSound
  <1>3. \A p \in Nodes : tasks'[p] = tasks[p] \/ tasks'[p] = <<>>
    BY <1>2 DEF boot, Exit, LeaseStep, TypeOK
  <1>4. \A p \in Nodes : wk'[p] = wk[p] \/ wk'[p] = Idle
    BY <1>2 DEF boot, Exit, LeaseStep, TypeOK
  <1>5. tasks' \in [Nodes -> Seq(ReReplicationTask)] /\ wk' \in [Nodes -> WorkerState]
    <2>1. <<>> \in Seq(ReReplicationTask)
      OBVIOUS
    <2>2. CASE Exit(n)
      BY <1>2, <2>1, <2>2, IdleType DEF Exit, TypeOK
    <2>3. CASE boot(n) \/ LeaseStep(n)
      BY <1>2, <2>3 DEF boot, LeaseStep, TypeOK
    <2> QED
      BY <2>2, <2>3
  <1>6. resolver' \in [Nodes -> SUBSET Nodes] /\ aud' \in [Nodes -> {"off", "start", "watch"}]
    <2>1. CASE Exit(n) \/ LeaseStep(n)
      BY <1>2, <2>1, Zenon DEF Exit, LeaseStep, TypeOK
    <2>2. CASE boot(n)
      <3>1. list_nodes \cup {n} \subseteq Nodes
        BY DEF list_nodes
      <3> QED
        BY <1>2, <2>2, <3>1 DEF boot, TypeOK
    <2> QED
      BY <2>1, <2>2
  <1>7. TypeOK'
    BY <1>1, <1>2, <1>5, <1>6, NotifyEvents DEF TypeOK, LeaseInv, dataVars
  <1>8. \A p \in Nodes : \A i \in DOMAIN tasks'[p] :
            tasks'[p][i].failed \in noticed' /\ Begins(md, tasks'[p][i].from)
    <2>1. noticed \subseteq noticed'
      BY <1>1, <1>2, NotifyEvents
    <2> TAKE p \in Nodes
    <2>2. CASE tasks'[p] = tasks[p]
      BY <1>2, <2>1, <2>2 DEF RepairsSound
    <2>3. CASE tasks'[p] = <<>>
      BY <2>3
    <2> QED
      BY <1>3, <2>2, <2>3
  <1> QED
    BY <1>1, <1>2, <1>4, <1>7, <1>8, NotifyEvents, Frame DEF dataVars, MdStep

LEMMA QueueElements ==
    ASSUME NEW S, NEW s \in Seq(S), s # <<>>
    PROVE  /\ 1 \in DOMAIN s /\ Head(s) = s[1] /\ Head(s) \in S
           /\ Tail(s) \in Seq(S)
           /\ \A i \in DOMAIN Tail(s) : i + 1 \in DOMAIN s /\ Tail(s)[i] = s[i + 1]
  OBVIOUS

\* An auditor's step that takes the first event and may queue tasks for its node.
LEMMA AuditorStep ==
    ASSUME IInv, LeaseInv', NEW p \in Nodes, Auditor(p)
    PROVE  RepairsSound'
  <1>1. RepairsSound /\ TypeOK
    BY DEF IInv, RepairsSound
  <1>2. UNCHANGED <<resolver, wk, dataVars, noticed>>
    BY Zenon DEF Auditor, campaign_for_leadership, enqueue_for_node, EnqueueFails, AuditorExits
  <1>3. aud' \in [Nodes -> {"off", "start", "watch"}]
    BY <1>1, Zenon DEF Auditor, campaign_for_leadership, enqueue_for_node, EnqueueFails, AuditorExits, TypeOK
  <1>4. /\ events' \in [Nodes -> Seq(Nodes)]
        /\ \A q \in Nodes : \A i \in DOMAIN events'[q] : events'[q][i] \in noticed'
    <2>1. CASE events' = events
      BY <1>1, <1>2, <2>1 DEF TypeOK, RepairsSound
    <2>2. CASE events' = [events EXCEPT ![p] = <<>>]
      BY <1>1, <1>2, <2>2 DEF TypeOK, RepairsSound
    <2>3. CASE events[p] # <<>> /\ events' = [events EXCEPT ![p] = Tail(events[p])]
      <3>1. events[p] \in Seq(Nodes)
        BY <1>1 DEF TypeOK
      <3>2. Tail(events[p]) \in Seq(Nodes)
        BY <2>3, <3>1, QueueElements, Zenon
      <3>3. \A i \in DOMAIN Tail(events[p]) : Tail(events[p])[i] \in noticed
        BY <1>1, <2>3, <3>1, QueueElements DEF RepairsSound
      <3> QED
        BY <1>1, <1>2, <2>3, <3>2, <3>3 DEF TypeOK, RepairsSound
    <2> QED
      BY <2>1, <2>2, <2>3, Zenon
         DEF Auditor, campaign_for_leadership, enqueue_for_node, EnqueueFails, AuditorExits
  <1>5. /\ tasks' \in [Nodes -> Seq(ReReplicationTask)]
        /\ \A q \in Nodes : \A i \in DOMAIN tasks'[q] :
              tasks'[q][i].failed \in noticed /\ Begins(md, tasks'[q][i].from)
    <2>1. CASE tasks' = tasks
      BY <1>1, <2>1, Zenon DEF TypeOK, RepairsSound
    <2>2. CASE enqueue_for_node(p)
      <3> DEFINE f == Head(events[p])
                 affected == {i \in DOMAIN md.fragments :
                                 /\ f \in md.fragments[i].ensemble
                                 /\ Targets(md.fragments[i].ensemble, f) # {}}
                 c == Cardinality(affected)
      <3>1. PICK o \in [1..c -> affected] :
               tasks' = [tasks EXCEPT ![p] = tasks[p] \o
                            [k \in DOMAIN o |-> [failed |-> f, from |-> md.fragments[o[k]].first]]]
        BY <2>2, Zenon DEF enqueue_for_node
      <3>2. f \in noticed /\ f \in Nodes
        <4>1. events[p] \in Seq(Nodes) /\ events[p] # <<>>
          BY <1>1, <2>2, Zenon DEF enqueue_for_node, TypeOK
        <4>2. 1 \in DOMAIN events[p] /\ f = events[p][1] /\ f \in Nodes
          BY <4>1, QueueElements
        <4> QED
          BY <1>1, <4>2 DEF RepairsSound
      <3>3. c \in Nat
        <4>1. DOMAIN md.fragments = 1..Len(md.fragments) /\ Len(md.fragments) \in Nat
          BY <1>1, FragmentsType, Zenon DEF TypeOK
        <4>2. affected \in SUBSET (1..Len(md.fragments))
          BY <4>1, Zenon
        <4> HIDE DEF f, affected
        <4>3. \A n \in Nat : IsFiniteSet(1..n)
          BY FS_Interval
        <4> QED
          BY <4>1, <4>2, <4>3, FS_Subset, FS_CardinalityType, Zenon
      <3>4. \A i \in affected : i \in DOMAIN md.fragments /\ md.fragments[i].first \in Nat
        BY <1>1, FragmentsType DEF TypeOK
      <3> DEFINE t == [k \in 1..c |-> [failed |-> f, from |-> md.fragments[o[k]].first]]
      <3>5. tasks' = [tasks EXCEPT ![p] = tasks[p] \o t]
        BY <3>1, Zenon
      <3>6. ASSUME NEW k \in 1..c
            PROVE  /\ t[k] \in ReReplicationTask
                   /\ t[k].failed \in noticed /\ Begins(md, t[k].from)
        BY <3>1, <3>2, <3>4, Zenon DEF ReReplicationTask, Begins
      <3>7. t \in Seq(ReReplicationTask) /\ DOMAIN t = 1..c /\ Len(t) = c
        <4>1. t \in [1..c -> ReReplicationTask]
          BY <3>6, Zenon
        <4> HIDE DEF t, c
        <4> QED
          BY <3>3, <4>1
      <3> HIDE DEF t, c, f, affected
      <3>8. tasks[p] \in Seq(ReReplicationTask)
        BY <1>1 DEF TypeOK
      <3>9. \A i \in DOMAIN (tasks[p] \o t) :
                \/ i \in DOMAIN tasks[p] /\ (tasks[p] \o t)[i] = tasks[p][i]
                \/ i - Len(tasks[p]) \in 1..c /\ (tasks[p] \o t)[i] = t[i - Len(tasks[p])]
        BY <3>3, <3>7, <3>8
      <3>10. \A i \in DOMAIN (tasks[p] \o t) :
                /\ (tasks[p] \o t)[i].failed \in noticed
                /\ Begins(md, (tasks[p] \o t)[i].from)
        BY <1>1, <3>6, <3>9 DEF RepairsSound
      <3>11. tasks[p] \o t \in Seq(ReReplicationTask)
        BY <3>7, <3>8
      <3> QED
        BY <1>1, <3>5, <3>10, <3>11 DEF TypeOK, RepairsSound
    <2> QED
      BY <2>1, <2>2, Zenon DEF Auditor, campaign_for_leadership, EnqueueFails, AuditorExits
  <1>6. TypeOK'
    BY <1>1, <1>2, <1>3, <1>4, <1>5 DEF TypeOK, LeaseInv, dataVars
  <1> QED
    BY <1>1, <1>2, <1>4, <1>5, <1>6, Frame, Zenon DEF dataVars, MdStep

\* A worker's step changes only wk[p], the queue p reads and the ledger.
LEMMA WorkerFrame ==
    ASSUME IInv, LeaseInv', NEW p \in Nodes, NEW w,
           UNCHANGED <<aud, events, resolver, noticed>>,
           wk' = [wk EXCEPT ![p] = w], w \in WorkerState,
           w = Idle \/ Sound(w, md', stored', noticed),
           tasks' = tasks \/ (tasks[p] # <<>> /\ tasks' = [tasks EXCEPT ![p] = Tail(tasks[p])]),
           fenced' \in [Nodes -> BOOLEAN], stored' \in [Nodes -> SUBSET Entries],
           \A n \in Nodes : stored[n] \subseteq stored'[n],
           MdStep
    PROVE  RepairsSound'
  <1>1. RepairsSound /\ TypeOK
    BY DEF IInv, RepairsSound
  <1>2. \A q \in Nodes : wk'[q] = wk[q] \/ (q = p /\ wk'[q] = w)
    BY <1>1 DEF TypeOK
  <1>3. wk' \in [Nodes -> WorkerState]
    BY <1>1 DEF TypeOK
  <1>4. /\ tasks' \in [Nodes -> Seq(ReReplicationTask)]
        /\ \A q \in Nodes : \A i \in DOMAIN tasks'[q] :
              tasks'[q][i].failed \in noticed /\ Begins(md, tasks'[q][i].from)
    <2>1. CASE tasks' = tasks
      BY <1>1, <2>1 DEF TypeOK, RepairsSound
    <2>2. CASE tasks[p] # <<>> /\ tasks' = [tasks EXCEPT ![p] = Tail(tasks[p])]
      <3>1. tasks[p] \in Seq(ReReplicationTask)
        BY <1>1 DEF TypeOK
      <3>2. Tail(tasks[p]) \in Seq(ReReplicationTask)
        BY <2>2, <3>1, QueueElements
      <3>3. \A i \in DOMAIN Tail(tasks[p]) :
               Tail(tasks[p])[i].failed \in noticed /\ Begins(md, Tail(tasks[p])[i].from)
        <4>1. \A i \in DOMAIN tasks[p] :
                 tasks[p][i].failed \in noticed /\ Begins(md, tasks[p][i].from)
          BY <1>1, Zenon DEF RepairsSound
        <4>2. \A i \in DOMAIN Tail(tasks[p]) :
                 i + 1 \in DOMAIN tasks[p] /\ Tail(tasks[p])[i] = tasks[p][i + 1]
          BY <2>2, <3>1, QueueElements
        <4> QED
          BY <4>1, <4>2, Zenon
      <3> QED
        BY <1>1, <2>2, <3>2, <3>3, Zenon DEF TypeOK, RepairsSound
    <2> QED
      BY <2>1, <2>2, Zenon
  <1>5. md' \in LedgerMetadata
    BY <1>1 DEF TypeOK, MdStep
  <1>6. TypeOK'
    BY <1>1, <1>3, <1>4, <1>5 DEF TypeOK, LeaseInv
  <1>7. \A q \in Nodes : wk'[q] = wk[q] \/ wk'[q] = Idle \/ Sound(wk'[q], md', stored', noticed')
    BY <1>2
  <1>8. \A q \in Nodes : \A i \in DOMAIN events'[q] : events'[q][i] \in noticed'
    BY <1>1 DEF RepairsSound
  <1>9. \A q \in Nodes : \A i \in DOMAIN tasks'[q] :
              tasks'[q][i].failed \in noticed' /\ Begins(md, tasks'[q][i].from)
    BY <1>4
  <1> QED
    BY <1>1, <1>6, <1>7, <1>8, <1>9, Frame, Zenon

\* A task that ends disturbs nothing.
LEMMA EndTaskSound ==
    ASSUME IInv, LeaseInv', NEW p \in Nodes, EndTask(p),
           UNCHANGED <<aud, events, tasks, resolver, noticed, dataVars>>
    PROVE  RepairsSound'
  <1>1. TypeOK
    BY DEF IInv, RepairsSound
  <1>2. MdStep /\ \A n \in Nodes : stored[n] \subseteq stored'[n]
    BY DEF MdStep, dataVars
  <1>3. fenced' \in [Nodes -> BOOLEAN] /\ stored' \in [Nodes -> SUBSET Entries]
    BY <1>1 DEF TypeOK, dataVars
  <1> QED
    BY <1>2, <1>3, IdleType, WorkerFrame, Zenon DEF EndTask

LEMMA ProcessSound ==
    ASSUME IInv, LeaseInv', NEW p \in Nodes, process(p)
    PROVE  RepairsSound'
  <1>1. RepairsSound /\ TypeOK
    BY DEF IInv, RepairsSound
  <1> DEFINE t == Head(tasks[p])
             a == IF md.state = "Open" THEN "transition" ELSE "restore"
             w == [Idle EXCEPT !.at = a, !.failed = t.failed, !.from = t.from, !.md = md]
  <1>2. tasks[p] \in Seq(ReReplicationTask) /\ tasks[p] # <<>>
    BY <1>1 DEF process, TypeOK
  <1>3. 1 \in DOMAIN tasks[p] /\ t = tasks[p][1] /\ t \in ReReplicationTask
    BY <1>2, QueueElements
  <1>4. t.failed \in noticed /\ Begins(md, t.from)
    BY <1>1, <1>3, Zenon DEF RepairsSound
  <1>5. t.failed \in Nodes /\ t.from \in Nat
    BY <1>3, Zenon DEF ReReplicationTask
  <1>6. md \in LedgerMetadata /\ WellFormed(md) /\ md.version \in Nat
    BY <1>1, FragmentsType DEF TypeOK, RepairsSound
  <1>7. /\ w \in WorkerState /\ w.at = a /\ w.failed = t.failed /\ w.from = t.from
        /\ w.md = md
    BY <1>5, <1>6, IdleType, Zenon DEF WorkerState, Idle
  <1>8. Sound(w, md, stored, noticed)
    BY <1>4, <1>6, <1>7 DEF Sound
  <1>9. wk' = [wk EXCEPT ![p] = w] /\ tasks' = [tasks EXCEPT ![p] = Tail(tasks[p])]
    BY DEF process
  <1>10. UNCHANGED <<aud, events, resolver, noticed>> /\ UNCHANGED dataVars
    BY DEF process, restVars
  <1> HIDE DEF w
  <1>11. MdStep /\ \A n \in Nodes : stored[n] \subseteq stored'[n]
    BY <1>10 DEF MdStep, dataVars
  <1>12. fenced' \in [Nodes -> BOOLEAN] /\ stored' \in [Nodes -> SUBSET Entries]
    BY <1>1, <1>10 DEF TypeOK, dataVars
  <1>13. Sound(w, md', stored', noticed)
    BY <1>8, <1>10, Zenon DEF dataVars
  <1> QED
    BY <1>2, <1>7, <1>9, <1>10, <1>11, <1>12, <1>13, WorkerFrame, Zenon

\* The record with another state and LAC and the next version.
LEMMA NextVersion ==
    ASSUME NEW m \in LedgerMetadata, WellFormed(m), NEW n,
           NEW st \in {"Open", "InRecovery", "Closed"}, NEW lac \in Nat,
           n = [state |-> st, fragments |-> m.fragments, lac |-> lac, version |-> m.version + 1]
    PROVE  /\ n \in LedgerMetadata /\ WellFormed(n) /\ n.version = m.version + 1
           /\ n.fragments = m.fragments
  <1>1. m.fragments \in Seq(Fragment) /\ m.version \in Nat
    BY FragmentsType, Zenon
  <1>2. m.version + 1 \in Nat
    BY <1>1
  <1>3. n \in LedgerMetadata
    BY <1>1, <1>2, Zenon DEF LedgerMetadata
  <1>4. n.version = m.version + 1 /\ n.fragments = m.fragments
    BY Zenon
  <1>5. WellFormed(n)
    BY <1>4, Zenon DEF WellFormed
  <1> QED
    BY <1>3, <1>4, <1>5, Zenon

\* Taking the ledger into recovery keeps the repairs sound.
LEMMA TransitionSound ==
    ASSUME IInv, LeaseInv', NEW p \in Nodes, transition_state(p)
    PROVE  RepairsSound'
  <1>1. RepairsSound /\ TypeOK
    BY DEF IInv, RepairsSound
  <1>2. md \in LedgerMetadata /\ WellFormed(md) /\ md.version \in Nat /\ md.lac \in Nat
    BY <1>1, FragmentsType, Zenon DEF TypeOK, RepairsSound
  <1>3. wk[p] \in WorkerState /\ Sound(wk[p], md, stored, noticed) /\ wk[p].at = "transition"
    BY <1>1 DEF TypeOK, RepairsSound, transition_state
  <1>4. md' \in LedgerMetadata /\ WellFormed(md') /\ md'.fragments = md.fragments
        /\ (md' = md \/ md'.version = md.version + 1)
    <2>1. CASE md.state = "Open"
      <3>1. md' = [md EXCEPT !.state = "InRecovery", !.version = md.version + 1]
        BY <2>1 DEF transition_state
      <3>2. md' = [state |-> "InRecovery", fragments |-> md.fragments, lac |-> md.lac,
                   version |-> md.version + 1]
        BY <1>2, <3>1, Zenon DEF LedgerMetadata
      <3> QED
        BY <1>2, <3>2, NextVersion
    <2>2. CASE md.state # "Open"
      BY <1>2, <2>2 DEF transition_state
    <2> QED
      BY <2>1, <2>2
  <1>5. MdStep
    BY <1>4 DEF MdStep
  <1> DEFINE left == md'.fragments[Len(md'.fragments)].ensemble
             w == [wk[p] EXCEPT !.at = "fence", !.md = md', !.left = left]
  <1>6. left \subseteq Nodes
    <2>1. Len(md'.fragments) \in DOMAIN md'.fragments
      BY <1>4, FragmentsType DEF WellFormed
    <2> QED
      BY <1>4, <2>1, FragmentsType
  <1>7. /\ w \in WorkerState /\ w.at = "fence" /\ w.md = md'
        /\ w.failed = wk[p].failed /\ w.from = wk[p].from
    BY <1>3, <1>4, <1>6, Zenon DEF WorkerState
  <1>8. w.failed \in noticed /\ Begins(md', w.from)
    BY <1>3, <1>4, <1>7 DEF Sound, Begins
  <1>9. wk' = [wk EXCEPT ![p] = w]
    BY DEF transition_state
  <1>10. /\ UNCHANGED <<aud, events, tasks, resolver, noticed>>
         /\ stored' = stored /\ fenced' = fenced
    BY DEF transition_state, restVars
  <1> HIDE DEF w
  <1>11. Sound(w, md', stored', noticed)
    <2>1. md'.version <= md'.version
      BY <1>4, MetadataNumbers
    <2> QED
      BY <1>4, <1>7, <1>8, <2>1 DEF Sound
  <1>12. fenced' \in [Nodes -> BOOLEAN] /\ stored' \in [Nodes -> SUBSET Entries]
    BY <1>1, <1>10 DEF TypeOK
  <1> QED
    BY <1>5, <1>7, <1>9, <1>10, <1>11, <1>12, WorkerFrame, Zenon

LEMMA FenceSound ==
    ASSUME IInv, LeaseInv', NEW p \in Nodes, NEW n \in Nodes, fence_ledger(p, n)
    PROVE  RepairsSound'
  <1>1. RepairsSound /\ TypeOK
    BY DEF IInv, RepairsSound
  <1>2. UNCHANGED <<aud, events, resolver, noticed, tasks, md, stored>>
    BY DEF fence_ledger, restVars
  <1>3. CASE ~Reaches(p, n)
    BY <1>2, <1>3, EndTaskSound DEF fence_ledger, dataVars
  <1>4. CASE Reaches(p, n)
    <2>1. wk[p] \in WorkerState /\ Sound(wk[p], md, stored, noticed) /\ wk[p].at = "fence"
      BY <1>1 DEF TypeOK, RepairsSound, fence_ledger
    <2> DEFINE hi == Max({wk[p].hi} \cup stored[n])
               w == [wk[p] EXCEPT !.left = wk[p].left \ {n}, !.hi = hi]
    <2>2. hi \in Nat
      <3> DEFINE S == {wk[p].hi} \cup stored[n]
                 k == wk[p].hi + LastEntry
      <3>1. wk[p].hi \in Nat /\ LastEntry \in Nat /\ stored[n] \subseteq 0..LastEntry
        BY <1>1, <2>1, WorkerFields, RereplicationConstants DEF TypeOK, Entries
      <3>2. S \in SUBSET Nat /\ S # {} /\ k \in Nat /\ \A x \in S : x <= k
        BY <3>1
      <3>3. hi = Max(S)
        OBVIOUS
      <3> HIDE DEF S, k, hi
      <3>4. Max(S) \in S
        BY <3>2, MaxOf
      <3> QED
        BY <3>2, <3>3, <3>4, Zenon
    <2>3. wk' = [wk EXCEPT ![p] = w] /\ fenced' = [fenced EXCEPT ![n] = TRUE]
      BY <1>4 DEF fence_ledger
    <2> HIDE DEF hi
    <2>4. /\ w \in WorkerState /\ w.at = "fence" /\ w.md = wk[p].md
          /\ w.failed = wk[p].failed /\ w.from = wk[p].from
      BY <2>1, <2>2, Zenon DEF WorkerState
    <2> HIDE DEF w
    <2>5. Sound(w, md', stored', noticed)
      BY <1>2, <2>1, <2>4, Zenon DEF Sound
    <2>6. MdStep /\ \A m \in Nodes : stored[m] \subseteq stored'[m]
      BY <1>2, Zenon DEF MdStep
    <2>7. fenced' \in [Nodes -> BOOLEAN] /\ stored' \in [Nodes -> SUBSET Entries]
      BY <1>1, <1>2, <2>3 DEF TypeOK
    <2> QED
      BY <1>2, <2>3, <2>4, <2>5, <2>6, <2>7, WorkerFrame, Zenon
  <1> QED
    BY <1>3, <1>4, Zenon

LEMMA SealSound ==
    ASSUME IInv, LeaseInv', NEW p \in Nodes, SealRecovered(p)
    PROVE  RepairsSound'
  <1>1. RepairsSound /\ TypeOK
    BY DEF IInv, RepairsSound
  <1>2. UNCHANGED <<aud, events, resolver, noticed, tasks, fenced, stored>>
    BY DEF SealRecovered, restVars
  <1>3. CASE ~PutSucceeds(wk[p].md)
    BY <1>2, <1>3, EndTaskSound DEF SealRecovered, dataVars
  <1>4. CASE PutSucceeds(wk[p].md)
    <2>1. wk[p] \in WorkerState /\ Sound(wk[p], md, stored, noticed) /\ wk[p].at = "fence"
      BY <1>1, Zenon DEF TypeOK, RepairsSound, SealRecovered
    <2>2. wk[p].md = md
      BY <1>4, <2>1 DEF Sound, PutSucceeds
    <2>3. md \in LedgerMetadata /\ WellFormed(md) /\ wk[p].hi \in Nat /\ md.version \in Nat
      BY <1>1, <2>1, FragmentsType, WorkerFields, Zenon DEF TypeOK, RepairsSound
    <2>4. md' = [md EXCEPT !.state = "Closed", !.lac = wk[p].hi, !.version = md.version + 1]
      BY <1>4, <2>2 DEF SealRecovered
    <2>5. md' = [state |-> "Closed", fragments |-> md.fragments, lac |-> wk[p].hi,
                 version |-> md.version + 1]
      BY <2>3, <2>4, Zenon DEF LedgerMetadata
    <2>6. md' \in LedgerMetadata /\ WellFormed(md') /\ md'.version = md.version + 1
          /\ md'.fragments = md.fragments
      BY <2>3, <2>5, NextVersion
    <2>7. MdStep
      BY <2>6 DEF MdStep
    <2> DEFINE w == [wk[p] EXCEPT !.at = "restore", !.md = md']
    <2>8. wk' = [wk EXCEPT ![p] = w]
      BY <1>4, Zenon DEF SealRecovered
    <2>9. /\ w \in WorkerState /\ w.at = "restore" /\ w.md = md'
          /\ w.failed = wk[p].failed /\ w.from = wk[p].from
      BY <2>1, <2>6, Zenon DEF WorkerState
    <2> HIDE DEF w
    <2>10. Sound(w, md', stored', noticed)
      <3>1. Begins(md', wk[p].from)
        BY <2>1, <2>6, Zenon DEF Sound, Begins
      <3>2. wk[p].failed \in noticed
        BY <2>1 DEF Sound
      <3> QED
        <4>1. md'.version <= md'.version
          BY <2>6, MetadataNumbers, Zenon
        <4> QED
          BY <2>6, <2>9, <3>1, <3>2, <4>1, Zenon DEF Sound
    <2>11. fenced' \in [Nodes -> BOOLEAN] /\ stored' \in [Nodes -> SUBSET Entries]
      BY <1>1, <1>2 DEF TypeOK
    <2> QED
      BY <1>2, <2>7, <2>8, <2>9, <2>10, <2>11, WorkerFrame, Zenon
  <1> QED
    BY <1>3, <1>4

LEMMA RestoreSound ==
    ASSUME IInv, LeaseInv', NEW p \in Nodes, restore_replication(p)
    PROVE  RepairsSound'
  <1>1. RepairsSound /\ TypeOK
    BY DEF IInv, RepairsSound
  <1>2. UNCHANGED <<aud, events, resolver, noticed, tasks, md, fenced, stored>>
    BY Zenon DEF restore_replication, restVars, dataVars
  <1>3. CASE EndTask(p)
    BY <1>2, <1>3, EndTaskSound DEF dataVars
  <1>4. CASE ~EndTask(p)
    <2> DEFINE ens == wk[p].md.fragments[FragmentOf(wk[p].md, wk[p].from)].ensemble
    <2>1. wk[p] \in WorkerState /\ Sound(wk[p], md, stored, noticed) /\ wk[p].at = "restore"
      BY <1>1, Zenon DEF TypeOK, RepairsSound, restore_replication
    <2>2. PICK s \in ens, t \in Targets(ens, wk[p].failed) :
             wk' = [wk EXCEPT ![p] = [wk[p] EXCEPT !.at = "copy", !.src = s, !.dst = t,
                                                   !.e = wk[p].from]]
      BY <1>4, Zenon DEF restore_replication
    <2>3. ens \subseteq Nodes
      BY <2>1, FragmentOfSpec, FragmentsType, WorkerFields, Zenon DEF Sound
    <2>4. s \in Nodes /\ t \in Nodes /\ t \notin ens
      BY <2>2, <2>3 DEF Targets, list_nodes
    <2> DEFINE w == [wk[p] EXCEPT !.at = "copy", !.src = s, !.dst = t, !.e = wk[p].from]
    <2>5. /\ w \in WorkerState /\ w.at = "copy" /\ w.md = wk[p].md
          /\ w.failed = wk[p].failed /\ w.from = wk[p].from
          /\ w.src = s /\ w.dst = t /\ w.e = w.from /\ w.from \in Nat
      BY <2>1, <2>4, Zenon DEF WorkerState
    <2>6. wk' = [wk EXCEPT ![p] = w]
      BY <2>2
    <2> HIDE DEF w
    <2>7. Sound(w, md', stored', noticed)
      <3>1. w.from..(w.e - 1) = {} /\ w.from <= w.e
        BY <2>5, NoneCopied, Zenon
      <3>2. /\ md' = md /\ stored' = stored /\ w.failed \in noticed /\ Begins(md, w.from)
            /\ Begins(w.md, w.from)
        BY <1>2, <2>1, <2>5 DEF Sound
      <3> QED
        BY <2>1, <2>4, <2>5, <3>1, <3>2, Zenon DEF Sound
    <2>8. MdStep /\ \A m \in Nodes : stored[m] \subseteq stored'[m]
      BY <1>2, Zenon DEF MdStep
    <2>9. fenced' \in [Nodes -> BOOLEAN] /\ stored' \in [Nodes -> SUBSET Entries]
      BY <1>1, <1>2 DEF TypeOK
    <2> QED
      BY <1>2, <2>5, <2>6, <2>7, <2>8, <2>9, WorkerFrame, Zenon
  <1> QED
    BY <1>3, <1>4

LEMMA CopySound ==
    ASSUME IInv, LeaseInv', NEW p \in Nodes, CopyEntry(p)
    PROVE  RepairsSound'
  <1>1. RepairsSound /\ TypeOK
    BY DEF IInv, RepairsSound
  <1>2. UNCHANGED <<aud, events, resolver, noticed, tasks, md, fenced>>
    BY DEF CopyEntry, restVars
  <1> DEFINE copied == /\ up[wk[p].src] /\ wk[p].e \in stored[wk[p].src]
                       /\ up[wk[p].dst] /\ ~fenced[wk[p].dst]
  <1>3. CASE ~copied
    <2>1. EndTask(p) /\ stored' = stored
      BY <1>3 DEF CopyEntry
    <2> QED
      BY <1>2, <2>1, EndTaskSound DEF dataVars
  <1>4. CASE copied
    <2>1. wk[p] \in WorkerState /\ Sound(wk[p], md, stored, noticed) /\ wk[p].at = "copy"
      BY <1>1 DEF TypeOK, RepairsSound, CopyEntry
    <2> DEFINE c == wk[p].e
               w == [wk[p] EXCEPT !.e = c + 1]
    <2>2. /\ c \in stored[wk[p].src]
          /\ stored' = [stored EXCEPT ![wk[p].dst] = @ \cup {c}]
      BY <1>4 DEF CopyEntry
    <2>10. wk' = [wk EXCEPT ![p] = w]
      BY <1>4, Zenon DEF CopyEntry
    <2>3. wk[p].src \in Nodes /\ wk[p].dst \in Nodes /\ wk[p].from \in Nat /\ c \in Nat
      BY <2>1, WorkerFields, Zenon DEF Sound
    <2>4. c \in Entries
      BY <1>1, <2>2, <2>3, Zenon DEF TypeOK
    <2>5. stored' \in [Nodes -> SUBSET Entries] /\ \A m \in Nodes : stored[m] \subseteq stored'[m]
      BY <1>1, <2>2, <2>3, <2>4 DEF TypeOK
    <2>6. /\ w \in WorkerState /\ w.at = "copy" /\ w.md = wk[p].md
          /\ w.failed = wk[p].failed /\ w.from = wk[p].from
          /\ w.src = wk[p].src /\ w.dst = wk[p].dst /\ w.e = c + 1
      BY <2>1, <2>3 DEF WorkerState
    <2> HIDE DEF w
    <2>7. Sound(w, md', stored', noticed)
      <3>1. w.from..(w.e - 1) \subseteq stored'[w.dst]
        <4>1. stored'[w.dst] = stored[w.dst] \cup {c}
          BY <1>1, <2>2, <2>3, <2>6, Zenon DEF TypeOK
        <4>2. wk[p].from..(c - 1) \subseteq stored[w.dst] /\ wk[p].from <= c
          BY <2>1, <2>6 DEF Sound
        <4> HIDE DEF c
        <4>3. wk[p].from..((c + 1) - 1) \subseteq stored[w.dst] \cup {c}
          BY <2>3, <4>2, OneMoreCopied
        <4> QED
          BY <2>6, <4>1, <4>3, Zenon
      <3>2. w.from <= w.e
        <4>1. wk[p].from <= c
          BY <2>1 DEF Sound
        <4> HIDE DEF c
        <4> QED
          BY <2>3, <2>6, <4>1
      <3> QED
        BY <1>2, <2>1, <2>6, <3>1, <3>2, Zenon DEF Sound
    <2>8. MdStep
      BY <1>2 DEF MdStep
    <2>9. fenced' \in [Nodes -> BOOLEAN]
      BY <1>1, <1>2 DEF TypeOK
    <2> QED
      BY <1>2, <2>10, <2>5, <2>6, <2>7, <2>8, <2>9, WorkerFrame, Zenon
  <1> QED
    BY <1>3, <1>4

LEMMA SwapEffect ==
    ASSUME IInv, NEW p \in Nodes, SwapNode(p), md' # md
    PROVE  /\ wk[p].md = md /\ wk[p].from \in Nat /\ wk[p].failed \in noticed /\ wk[p].dst \in Nodes
           /\ Begins(md, wk[p].from) /\ wk[p].e >= EndOf(md, FragmentOf(md, wk[p].from))
           /\ wk[p].e \in Nat
           /\ wk[p].dst \notin md.fragments[FragmentOf(md, wk[p].from)].ensemble
           /\ wk[p].from..(wk[p].e - 1) \subseteq stored[wk[p].dst]
           /\ FragmentOf(md, wk[p].from) \in DOMAIN md.fragments
           /\ SwapOf(md', md, FragmentOf(md, wk[p].from), wk[p].failed, wk[p].dst)
  <1>1. wk[p] \in WorkerState /\ Sound(wk[p], md, stored, noticed) /\ wk[p].at = "copy"
        /\ md \in LedgerMetadata /\ WellFormed(md)
    BY Zenon DEF IInv, RepairsSound, TypeOK, SwapNode
  <1>2. PutSucceeds(wk[p].md)
    BY Zenon DEF SwapNode
  <1>3. wk[p].md = md
    BY <1>1, <1>2, Zenon DEF Sound, PutSucceeds
  <1>4. /\ wk[p].e >= EndOf(md, FragmentOf(md, wk[p].from))
        /\ md' = Swapped(md, FragmentOf(md, wk[p].from), wk[p].failed, wk[p].dst)
    BY <1>2, <1>3, Zenon DEF SwapNode, CopyEnd
  <1>5. /\ wk[p].from \in Nat /\ wk[p].failed \in noticed /\ wk[p].dst \in Nodes
        /\ Begins(md, wk[p].from) /\ wk[p].e \in Nat
        /\ wk[p].dst \notin md.fragments[FragmentOf(md, wk[p].from)].ensemble
        /\ wk[p].from..(wk[p].e - 1) \subseteq stored[wk[p].dst]
    BY <1>1, <1>3, WorkerFields DEF Sound
  <1>6. FragmentOf(md, wk[p].from) \in DOMAIN md.fragments
    BY <1>1, <1>5, FragmentOfSpec, Zenon
  <1>7. SwapOf(md', md, FragmentOf(md, wk[p].from), wk[p].failed, wk[p].dst)
    BY <1>1, <1>4, <1>5, <1>6, SwappedSpec, Zenon
  <1> QED
    BY <1>3, <1>4, <1>5, <1>6, <1>7, Zenon

LEMMA SwapSound ==
    ASSUME IInv, LeaseInv', NEW p \in Nodes, SwapNode(p)
    PROVE  RepairsSound'
  <1>1. RepairsSound /\ TypeOK
    BY DEF IInv, RepairsSound
  <1>2. UNCHANGED <<aud, events, resolver, noticed, tasks, fenced, stored>> /\ EndTask(p)
    BY Zenon DEF SwapNode, restVars
  <1>3. MdStep
    <2>1. CASE md' = md
      BY <2>1, Zenon DEF MdStep
    <2>2. CASE md' # md
      <3>1. SwapOf(md', md, FragmentOf(md, wk[p].from), wk[p].failed, wk[p].dst)
        BY <2>2, SwapEffect
      <3> QED
        BY <3>1, Zenon DEF SwapOf, MdStep
    <2> QED
      BY <2>1, <2>2
  <1>4. fenced' \in [Nodes -> BOOLEAN] /\ stored' \in [Nodes -> SUBSET Entries]
    BY <1>1, <1>2, Zenon DEF TypeOK
  <1>5. \A n \in Nodes : stored[n] \subseteq stored'[n]
    BY <1>2
  <1> QED
    BY <1>2, <1>3, <1>4, <1>5, IdleType, WorkerFrame, Zenon DEF EndTask

LEMMA WorkerStep ==
    ASSUME IInv, LeaseInv', NEW p \in Nodes, Worker(p)
    PROVE  RepairsSound'
  <1>1. ASSUME TaskFails(p) PROVE RepairsSound'
    BY <1>1, EndTaskSound DEF TaskFails
  <1> QED
    BY <1>1, ProcessSound, TransitionSound, SealSound, FenceSound, RestoreSound, CopySound, SwapSound
       DEF Worker

LEMMA SoundNext == IInv /\ [Next]_vars => IInv'
  <1> SUFFICES ASSUME IInv, [Next]_vars PROVE IInv'
    OBVIOUS
  <1>1. LeaseInv'
    BY LeaseInvNext DEF IInv
  <1>2. CASE UNCHANGED vars
    <2>1. TypeOK'
      BY <1>1, <1>2, Zenon DEF IInv, RepairsSound, TypeOK, LeaseInv, vars, procVars, dataVars
    <2>2. RepairsSound'
      BY <1>2, <2>1 DEF IInv, RepairsSound, vars, procVars, dataVars
    <2> QED
      BY <1>1, <2>2 DEF IInv
  <1>3. CASE Next
    <2>1. PICK p \in Nodes : boot(p) \/ Exit(p) \/ LeaseStep(p) \/ Auditor(p) \/ Worker(p)
      BY <1>3 DEF Next
    <2>2. RepairsSound'
      BY <1>1, <2>1, ClusterStep, AuditorStep, WorkerStep
    <2> QED
      BY <1>1, <2>2 DEF IInv
  <1> QED
    BY <1>2, <1>3

LEMMA Invariance == Spec => []IInv
  BY SoundInit, SoundNext, PTL DEF Spec

\* In every cluster, whatever fails, the workers' views are sound: what a repair
\* puts into the metadata was true when its version was read
\* (RecoveryManager::restore_replication).
THEOREM RepairsAreSound == Spec => []RepairsSound
  <1>1. IInv => RepairsSound
    BY DEF IInv
  <1> QED
    BY <1>1, Invariance, PTL

----------------------------------------------------------------------------
(* What a repair does to ensembles and replicas *)

\* The record's fragments change in SwapNode only.
LEMMA FragmentsChange ==
    ASSUME IInv, [Next]_vars, md'.fragments # md.fragments
    PROVE  \E p \in Nodes : SwapNode(p) /\ md' # md
  <1>1. Next
    BY DEF vars, dataVars
  <1>2. PICK p \in Nodes : boot(p) \/ Exit(p) \/ LeaseStep(p) \/ Auditor(p) \/ Worker(p)
    BY <1>1 DEF Next
  <1>3. ~(boot(p) \/ Exit(p) \/ LeaseStep(p) \/ Auditor(p))
    BY Zenon DEF boot, Exit, LeaseStep, Auditor, campaign_for_leadership, enqueue_for_node,
           EnqueueFails, AuditorExits, dataVars
  <1>4. ~(process(p) \/ TaskFails(p) \/ restore_replication(p) \/ CopyEntry(p)
          \/ \E n \in Nodes : fence_ledger(p, n))
    BY Zenon DEF process, TaskFails, restore_replication, CopyEntry, fence_ledger, dataVars
  <1>5. md \in LedgerMetadata /\ wk[p] \in WorkerState /\ Sound(wk[p], md, stored, noticed)
    BY Zenon DEF IInv, RepairsSound, TypeOK
  <1>6. ~transition_state(p)
    BY <1>5, Zenon DEF transition_state, LedgerMetadata
  <1>7. ASSUME SealRecovered(p) PROVE FALSE
    <2>1. PutSucceeds(wk[p].md) /\ wk[p].at = "fence"
      BY <1>7 DEF SealRecovered
    <2>2. wk[p].md = md
      BY <1>5, <2>1, Zenon DEF Sound, PutSucceeds
    <2> QED
      BY <1>5, <1>7, <2>1, <2>2, Zenon DEF SealRecovered, LedgerMetadata
  <1> QED
    BY <1>2, <1>3, <1>4, <1>6, <1>7 DEF Worker

LEMMA StoredGrows ==
    ASSUME IInv, [Next]_vars
    PROVE  \A n \in Nodes : stored[n] \subseteq stored'[n]
  <1>1. CASE stored' = stored
    BY <1>1
  <1>2. CASE stored' # stored
    <2>1. \E p \in Nodes : CopyEntry(p)
      BY <1>2, Zenon DEF Next, vars, dataVars, boot, Exit, LeaseStep, Auditor, campaign_for_leadership,
           enqueue_for_node, EnqueueFails, AuditorExits, Worker, process, TaskFails,
           transition_state, SealRecovered, fence_ledger, restore_replication, SwapNode
    <2>2. PICK p \in Nodes : CopyEntry(p)
      BY <2>1
    <2>3. stored' = [stored EXCEPT ![wk[p].dst] = @ \cup {wk[p].e}]
      BY <1>2, <2>2 DEF CopyEntry
    <2>4. stored \in [Nodes -> SUBSET Entries]
      BY DEF IInv, RepairsSound, TypeOK
    <2> QED
      BY <2>3, <2>4
  <1> QED
    BY <1>1, <1>2

\* A swap takes the failed node out of one fragment and puts the target in.
LEMMA SwapEnsembles ==
    ASSUME IInv, NEW p \in Nodes, SwapNode(p), md' # md,
           NEW i \in DOMAIN md.fragments
    PROVE  LET j == FirstAt(md, FragmentOf(md, wk[p].from))
           IN  md'.fragments[i].ensemble =
                 IF i = j THEN (md.fragments[i].ensemble \ {wk[p].failed}) \cup {wk[p].dst}
                          ELSE md.fragments[i].ensemble
  <1>1. SwapOf(md', md, FragmentOf(md, wk[p].from), wk[p].failed, wk[p].dst)
    BY SwapEffect
  <1> QED
    BY <1>1, Zenon DEF SwapOf

\* In every cluster, only nodes whose key was deleted lose their place in an
\* ensemble (Auditor::watch_node_events, Worker::process).
THEOREM OnlyDeletedAreReplaced == Spec => OnlyDeletedReplaced
  <1>1. ASSUME IInv, [Next]_vars, NEW i \in DOMAIN md.fragments
        PROVE  md.fragments[i].ensemble \ md'.fragments[i].ensemble \subseteq noticed
    <2>1. CASE md'.fragments = md.fragments
      BY <2>1
    <2>2. CASE md'.fragments # md.fragments
      <3>1. PICK p \in Nodes : SwapNode(p) /\ md' # md
        BY <1>1, <2>2, FragmentsChange, Zenon
      <3>2. wk[p].failed \in noticed
        BY <1>1, <3>1, SwapEffect
      <3> QED
        BY <1>1, <3>1, <3>2, SwapEnsembles, Zenon
    <2> QED
      BY <2>1, <2>2
  <1>2. IInv /\ [Next]_vars =>
           [\A i \in DOMAIN md.fragments :
               md.fragments[i].ensemble \ md'.fragments[i].ensemble \subseteq noticed]_vars
    BY <1>1
  <1> QED
    BY <1>2, Invariance, PTL DEF Spec, OnlyDeletedReplaced

LEMMA ExchangedStep ==
    ASSUME IInv, IInv', [Next]_vars, NEW e \in 0..(md.lac - 1)
    PROVE  Exchanged(e)
  <1>1. md \in LedgerMetadata /\ WellFormed(md)
    BY Zenon DEF IInv, RepairsSound, TypeOK
  <1>9. md' \in LedgerMetadata /\ WellFormed(md')
    BY Zenon DEF IInv, RepairsSound, TypeOK
  <1>2. e \in Nat /\ e < md.lac
    <2>1. md.lac \in Nat
      BY <1>1, MetadataNumbers, Zenon
    <2> QED
      BY <2>1
  <1> DEFINE o == FragmentOf(md, e)
  <1>3. o \in DOMAIN md.fragments /\ md.fragments[o].ensemble \subseteq Nodes
    BY <1>1, <1>2, FragmentOfSpec, FragmentsType
  <1>4. \A n \in Nodes : stored[n] \subseteq stored'[n]
    BY StoredGrows
  <1>5. CASE md'.fragments = md.fragments
    <2>1. FragmentOf(md', e) = o
      BY <1>1, <1>9, <1>2, <1>5, FragmentOfSame
    <2>2. Holders(e)' = {n \in md.fragments[o].ensemble : e \in stored'[n]}
      BY <1>5, <2>1 DEF Holders
    <2> QED
      BY <1>3, <1>4, <2>2 DEF Holders, Exchanged
  <1>6. CASE md'.fragments # md.fragments
    <2>1. PICK p \in Nodes : SwapNode(p) /\ md' # md
      BY <1>6, FragmentsChange, Zenon
    <2> DEFINE f == FragmentOf(md, wk[p].from)
               j == FirstAt(md, f)
    <2>2. /\ wk[p].from \in Nat /\ wk[p].dst \in Nodes /\ Begins(md, wk[p].from)
          /\ wk[p].e >= EndOf(md, f) /\ wk[p].e \in Nat
          /\ wk[p].dst \notin md.fragments[f].ensemble
          /\ wk[p].from..(wk[p].e - 1) \subseteq stored[wk[p].dst]
          /\ SwapOf(md', md, f, wk[p].failed, wk[p].dst)
      BY <2>1, SwapEffect, Zenon
    <2>3. FragmentOf(md', e) = o
      <3>1. /\ DOMAIN md'.fragments = DOMAIN md.fragments
            /\ \A k \in DOMAIN md.fragments : md'.fragments[k].first = md.fragments[k].first
        BY <2>2 DEF SwapOf
      <3> HIDE DEF o
      <3> QED
        BY <1>1, <1>9, <1>2, <3>1, FragmentOfSame, Zenon DEF o
    <2>4. stored' = stored
      BY <2>1 DEF SwapNode
    <2>5. Holders(e)' = {n \in md'.fragments[o].ensemble : e \in stored[n]}
      BY <2>3, <2>4, Zenon DEF Holders
    <2>6. CASE o # j
      <3>1. md'.fragments[o].ensemble = md.fragments[o].ensemble
        BY <1>3, <2>1, <2>6, SwapEnsembles, Zenon
      <3> QED
        BY <2>5, <3>1 DEF Holders, Exchanged
    <2>7. CASE o = j
      <3>1. o = f /\ wk[p].from <= e /\ e < EndOf(md, f)
        BY <1>1, <1>2, <2>2, <2>7, ChangedIsCopied, Zenon
      <3>2. EndOf(md, f) \in Int
        BY <1>1, EndOfType
      <3>3. e \in wk[p].from..(wk[p].e - 1)
        <4>1. wk[p].from \in Nat /\ wk[p].e \in Nat /\ wk[p].e >= EndOf(md, f)
          BY <2>2
        <4> HIDE DEF f
        <4> QED
          BY <1>2, <3>1, <3>2, <4>1, AllCopied, Zenon
      <3>4. e \in stored[wk[p].dst] /\ wk[p].dst \notin md.fragments[o].ensemble
        BY <2>2, <3>1, <3>3, Zenon
      <3>5. md'.fragments[o].ensemble = (md.fragments[o].ensemble \ {wk[p].failed}) \cup {wk[p].dst}
        BY <1>3, <2>1, <2>7, SwapEnsembles, Zenon
      <3> HIDE DEF o
      <3>6. Holders(e) = {n \in md.fragments[o].ensemble : e \in stored[n]}
        BY DEF Holders, o
      <3>7. Holders(e) \ Holders(e)' \subseteq {wk[p].failed}
        BY <2>5, <3>5, <3>6
      <3>8. wk[p].dst \in Holders(e)' /\ wk[p].dst \notin Holders(e)
        BY <2>5, <3>4, <3>5, <3>6
      <3> QED
        BY <3>7, <3>8 DEF Exchanged
    <2> QED
      BY <2>6, <2>7
  <1> QED
    BY <1>5, <1>6

\* In every cluster and whatever fails, no repair costs an entry below the LAC a
\* replica (RecoveryManager::restore_replication).
THEOREM ReplicasAreExchanged == Spec => ReplicaExchanged
  <1>1. IInv /\ IInv' /\ [Next]_vars => [\A e \in 0..(md.lac - 1) : Exchanged(e)]_vars
    BY ExchangedStep
  <1> QED
    BY <1>1, Invariance, PTL DEF Spec, ReplicaExchanged
==============================================================================
