---------------------- MODULE EtcdMetadataStore_proof ----------------------
(***************************************************************************)
(* EtcdMetadataStore for every number of callers, ledgers, edits and       *)
(* versions: its invariants, and that it implements MetadataStore.         *)
(***************************************************************************)
EXTENDS EtcdMetadataStore, TLAPS

InTxn(c) == call[c].at \in {"put_txn", "transition_txn"}

\* The generator has been written once per id it handed out.
GenInv ==
    /\ idGen.rev = idGen.value
    /\ \A c \in Clients : call[c].seen.rev = call[c].seen.value

\* An id is allocated to a create_ledger before its transaction, and nothing
\* has been confirmed for it.
AllocInv ==
    \A c \in Clients :
        /\ allocated[c] # 0 <=> call[c].at = "create_txn"
        /\ allocated[c] <= idGen.value
        /\ allocated[c] # 0 => confirmed[allocated[c]] = {}

\* Ids above the generator's value have left no trace.
KnownIds ==
    /\ \A c \in Clients : held[c] # NoLedger => held[c].id <= idGen.value
    /\ \A l \in Ids :
          /\ kv[l] # NoLedger => kv[l].id = l /\ l <= idGen.value
          /\ confirmed[l] # {} => l <= idGen.value

IdsInv == GenInv /\ AllocInv /\ KnownIds /\ FreshIds

\* What a call carries from its read to its transaction: the next version of
\* the value read, with nothing taken away.  A put_ledger read what its caller
\* holds.
TxnInv ==
    \A c \in Clients : InTxn(c) =>
        /\ call[c].current # NoLedger
        /\ call[c].updated # NoLedger
        /\ call[c].updated.id = call[c].current.id
        /\ call[c].updated.version = call[c].current.version + 1
        /\ call[c].current.edits \subseteq call[c].updated.edits
        /\ call[c].at = "put_txn" => held[c] = call[c].current
        /\ call[c].at = "transition_txn" =>
              /\ call[c].current.state = "Open"
              /\ call[c].updated.state = "InRecovery"
              /\ call[c].updated.edits = call[c].current.edits

\* The inductive invariant.
IInv == TypeOK /\ IdsInv /\ TxnInv /\ VersionIdentifiesValue /\ NoLostUpdate

----------------------------------------------------------------------------
(* Types *)

LEMMA MetadataDef ==
    LedgerMetadata = [id: Ids, state: LedgerState, edits: SUBSET Edits, version: Nat]
    BY DEF LedgerMetadata, Ids, LedgerState, Store!LedgerMetadata

\* The value put_ledger and transition_state write is a LedgerMetadata.
LEMMA UpdatedType ==
    ASSUME NEW m \in LedgerMetadata, NEW E \in SUBSET Edits, NEW s \in LedgerState
    PROVE  Store!Updated(m, E, s) \in LedgerMetadata
    BY DEF Store!Updated, LedgerMetadata, LedgerState, Store!LedgerMetadata

LEMMA NewLedgerType ==
    ASSUME NEW l \in Ids
    PROVE  Store!NewLedger(l) \in LedgerMetadata
    BY DEF LedgerMetadata, Ids, Store!LedgerMetadata, Store!Ids, Store!LedgerState, Store!NewLedger

LEMMA IdsAreNat == Ids = 1..MaxId /\ Ids \subseteq Nat
    BY StoreConstants DEF Ids, Store!Ids

\* The copies callers keep have natural numbers as ids.
LEMMA HeldIds ==
    ASSUME held \in [Clients -> LedgerMetadata \cup {NoLedger}]
    PROVE  \A d \in Clients : held[d] # NoLedger => held[d].id \in Nat
  <1>1. \A m \in LedgerMetadata : m.id \in Nat
    BY MetadataDef, IdsAreNat, Zenon
  <1> QED
    BY <1>1

LEMMA IdleType == Idle \in Call
    BY StoreConstants DEF Idle, Call, NoId, IdGen

\* The fields of Idle.
LEMMA IdleFields ==
    /\ Idle.at = "idle" /\ Idle.current = NoLedger /\ Idle.updated = NoLedger
    /\ Idle.seen = NoId /\ Idle.tries = 0
    BY DEF Idle

----------------------------------------------------------------------------
(* The invariant *)

LEMMA InvInit == Init => IInv
  <1> SUFFICES ASSUME Init PROVE IInv
    OBVIOUS
  <1>1. TypeOK
    BY IdleType, StoreConstants DEF Init, TypeOK, IdGen, NoId
  <1>2. IdsInv
    BY IdleFields, IdsAreNat DEF Init, IdsInv, GenInv, AllocInv, KnownIds, FreshIds, NoId
  <1>3. TxnInv
    BY IdleFields DEF Init, TxnInv, InTxn
  <1>4. VersionIdentifiesValue /\ NoLostUpdate
    BY DEF Init, VersionIdentifiesValue, NoLostUpdate
  <1> QED
    BY <1>1, <1>2, <1>3, <1>4 DEF IInv

\* Every step keeps the types.
LEMMA TypeNext == IInv /\ [Next]_vars => TypeOK'
  <1> SUFFICES ASSUME IInv, [Next]_vars PROVE TypeOK'
    OBVIOUS
  <1> USE IdleType, IdleFields, IdsAreNat DEF IInv, TypeOK
  <1>1. ASSUME NEW c \in Clients, create_ledger(c) PROVE TypeOK'
    BY <1>1 DEF create_ledger, IdLoop, Call, NoId, IdGen
  <1>2. ASSUME NEW c \in Clients, IdGet(c) PROVE TypeOK'
    BY <1>2, StoreConstants DEF IdGet, IdLoop, Call, Return
  <1>3. ASSUME NEW c \in Clients, IdTxnRefused(c) PROVE TypeOK'
    BY <1>3 DEF IdTxnRefused, IdLoop, Call, NoId, IdGen
  <1>4. ASSUME NEW c \in Clients, NEW told \in BOOLEAN, IdTxn(c, told) PROVE TypeOK'
    <2>1. idGen' \in IdGen
      BY <1>4 DEF IdTxn, IdGen, Call
    <2>2. call[c].seen.value + 1 \in 0..MaxId
      BY <1>4, StoreConstants DEF IdTxn, IdGen, Call
    <2>3. Txn("create_txn", NoLedger, NoLedger) \in Call
      BY StoreConstants DEF Txn, Call, NoId, IdGen
    <2>4. CASE told
      BY <1>4, <2>1, <2>2, <2>3, <2>4, Zenon DEF IdTxn
    <2>5. CASE ~told
      BY <1>4, <2>1, <2>5 DEF IdTxn, Return
    <2> QED
      BY <2>4, <2>5
  <1>5. ASSUME NEW c \in Clients, NEW told \in BOOLEAN, CreateTxn(c, told) PROVE TypeOK'
    <2>1. allocated[c] \in Ids
      BY <1>5, StoreConstants DEF CreateTxn, IdsInv, AllocInv
    <2>2. Store!NewLedger(allocated[c]) \in LedgerMetadata
      BY <2>1, NewLedgerType
    <2>3. kv' \in [Ids -> LedgerMetadata \cup {NoLedger}]
      BY <1>5, <2>2, Zenon DEF CreateTxn
    <2>4. held' \in [Clients -> LedgerMetadata \cup {NoLedger}]
      BY <1>5, <2>2 DEF CreateTxn
    <2>5. allocated' \in [Clients -> 0..MaxId] /\ call' \in [Clients -> Call]
      BY <1>5, StoreConstants DEF CreateTxn, Return
    <2> QED
      BY <1>5, <2>3, <2>4, <2>5 DEF CreateTxn
  <1>6. ASSUME NEW c \in Clients, NEW l \in Ids, get_ledger(c, l) PROVE TypeOK'
    BY <1>6 DEF get_ledger
  <1>7. ASSUME NEW c \in Clients, NEW E \in SUBSET Edits, NEW s \in LedgerState, put_ledger(c, E, s)
        PROVE  TypeOK'
    <2>1. held[c] \in LedgerMetadata /\ held[c].id \in Ids
      BY <1>7, MetadataDef, Zenon DEF put_ledger
    <2>2. Txn("put_txn", kv[held[c].id], Store!Updated(held[c], E, s)) \in Call
      BY <2>1, UpdatedType DEF Txn, Call, NoId, IdGen
    <2> QED
      BY <1>7, <2>2 DEF put_ledger
  <1>8. ASSUME NEW c \in Clients, NEW l \in Ids, transition_state(c, l, "Open", "InRecovery")
        PROVE  TypeOK'
    <2>1. kv[l] \in LedgerMetadata
      BY <1>8 DEF transition_state
    <2>2. "InRecovery" \in LedgerState /\ {} \in SUBSET Edits
      BY DEF LedgerState, Store!LedgerState
    <2>3. Txn("transition_txn", kv[l], Store!Updated(kv[l], {}, "InRecovery")) \in Call
      BY <2>1, <2>2, UpdatedType DEF Txn, Call, NoId, IdGen
    <2> QED
      BY <1>8, <2>3 DEF transition_state
  <1>9. ASSUME NEW c \in Clients, NEW told \in BOOLEAN, ValueTxn(c, told) PROVE TypeOK'
    <2>1. /\ call[c].updated \in LedgerMetadata /\ call[c].current \in LedgerMetadata
          /\ call[c].updated.id \in Ids
          /\ call[c].updated.edits \subseteq Edits
      <3>1. call[c].updated \in LedgerMetadata /\ call[c].current \in LedgerMetadata
        BY <1>9 DEF ValueTxn, TxnInv, InTxn, Call
      <3> QED
        BY <3>1, MetadataDef, Zenon
    <2>2. kv' \in [Ids -> LedgerMetadata \cup {NoLedger}]
      BY <1>9, <2>1 DEF ValueTxn
    <2>3. held' \in [Clients -> LedgerMetadata \cup {NoLedger}]
      BY <1>9, <2>1 DEF ValueTxn
    <2>4. confirmed' \in [Ids -> SUBSET Edits]
      BY <1>9, <2>1 DEF ValueTxn
    <2> QED
      BY <1>9, <2>2, <2>3, <2>4 DEF ValueTxn, Return
  <1>10. ASSUME NEW c \in Clients, ValueTxnRefused(c) PROVE TypeOK'
    BY <1>10 DEF ValueTxnRefused, Return
  <1>11. ASSUME NEW c \in Clients, EtcdError(c) PROVE TypeOK'
    BY <1>11, StoreConstants DEF EtcdError, Return
  <1>12. ASSUME NEW l \in Ids, delete_ledger(l) PROVE TypeOK'
    BY <1>12 DEF delete_ledger
  <1>13. CASE UNCHANGED vars
    BY <1>13 DEF vars
  <1> QED
    BY <1>1, <1>2, <1>3, <1>4, <1>5, <1>6, <1>7, <1>8, <1>9, <1>10, <1>11, <1>12, <1>13, Zenon DEF Next

\* A call that moves, neither from nor to the transaction of create_ledger.
LEMMA OutsideCreate ==
    ASSUME IdsInv, call \in [Clients -> Call], NEW c \in Clients, NEW v,
           v.at # "create_txn", call[c].at # "create_txn", v.seen = NoId,
           call' = [call EXCEPT ![c] = v], UNCHANGED <<kv, idGen, allocated, held, confirmed>>
    PROVE  IdsInv'
  <1>1. call'[c] = v /\ \A d \in Clients : d # c => call'[d] = call[d]
    OBVIOUS
  <1>2. GenInv'
    BY <1>1 DEF IdsInv, GenInv, NoId
  <1>3. AllocInv'
    <2>1. \A d \in Clients : call'[d].at = "create_txn" <=> call[d].at = "create_txn"
      BY <1>1
    <2> QED
      BY <2>1 DEF IdsInv, AllocInv
  <1>4. KnownIds' /\ FreshIds'
    BY DEF IdsInv, KnownIds, FreshIds
  <1> QED
    BY <1>2, <1>3, <1>4 DEF IdsInv

\* Every step keeps the facts about ids.
LEMMA IdsNext == IInv /\ [Next]_vars => IdsInv'
  <1> SUFFICES ASSUME IInv, [Next]_vars PROVE IdsInv'
    OBVIOUS
  <1> USE IdleFields, IdsAreNat DEF IInv, TypeOK, IdsInv, GenInv, AllocInv, KnownIds, FreshIds
  <1>0. IdsInv /\ call \in [Clients -> Call]
    OBVIOUS
  <1>1. ASSUME NEW c \in Clients, create_ledger(c) PROVE IdsInv'
    BY <1>1 DEF create_ledger, IdLoop, NoId
  <1>2. ASSUME NEW c \in Clients, IdGet(c) PROVE IdsInv'
    <2>1. \/ call' = [call EXCEPT ![c] = Idle]
          \/ call' = [call EXCEPT ![c] = IdLoop("id_txn", idGen, call[c].tries + 1)]
      BY <1>2 DEF IdGet, Return
    <2>2. call[c].at = "id_get" /\ UNCHANGED <<kv, idGen, allocated, held, confirmed>>
      BY <1>2 DEF IdGet
    <2>3. GenInv'
      BY <2>1, <2>2 DEF IdLoop, NoId
    <2>4. AllocInv'
      <3>1. \A d \in Clients : call'[d].at = "create_txn" <=> call[d].at = "create_txn"
        BY <2>1, <2>2 DEF IdLoop
      <3> QED
        BY <2>2, <3>1
    <2>5. KnownIds' /\ FreshIds'
      BY <2>2
    <2> QED
      BY <2>3, <2>4, <2>5
  <1>3. ASSUME NEW c \in Clients, IdTxnRefused(c) PROVE IdsInv'
    BY <1>3 DEF IdTxnRefused, IdLoop, NoId
  <1>4. ASSUME NEW c \in Clients, NEW told \in BOOLEAN, IdTxn(c, told) PROVE IdsInv'
    <2> DEFINE id == idGen.value + 1
    <2>1. /\ call[c].at = "id_txn"
          /\ idGen' = [value |-> id, rev |-> id]
          /\ allocated[c] = 0
          /\ id \in Ids
          /\ idGen.value \in Nat
      BY <1>4, StoreConstants DEF IdTxn, IdUnchanged, Call, IdGen
    <2>2. \/ call' = [call EXCEPT ![c] = Idle] /\ UNCHANGED allocated
          \/ /\ call' = [call EXCEPT ![c] = Txn("create_txn", NoLedger, NoLedger)]
             /\ allocated' = [allocated EXCEPT ![c] = id]
      BY <1>4 DEF IdTxn, IdUnchanged, Return, Call, IdGen
    <2>3. UNCHANGED <<kv, held, confirmed>>
      BY <1>4 DEF IdTxn
    <2>4. \A d \in Clients : allocated[d] \in Nat /\ allocated[d] # id
      BY <2>1
    <2>41. idGen'.value = id /\ idGen'.rev = id /\ id \in Nat
      BY <2>1
    <2>42. \A d \in Clients : held[d] # NoLedger => held[d].id \in Nat
      BY HeldIds
    <2>43. \A k \in Ids : k <= idGen.value => k <= id /\ k # id
      BY <2>1
    <2>44. \A d \in Clients : held[d] # NoLedger => held[d].id <= id /\ held[d].id # id
      BY <2>1, <2>42
    <2> HIDE DEF id
    <2>5. GenInv'
      <3>1. \A d \in Clients : call'[d].seen.rev = call'[d].seen.value
        BY <2>2 DEF Txn, NoId
      <3> QED
        BY <3>1, <2>41
    <2>6. KnownIds'
      BY <2>41, <2>43, <2>44, <2>3
    <2>7. AllocInv'
      <3>1. confirmed[id] = {} /\ id # 0
        BY <2>1, <2>43
      <3>2. \A d \in Clients : allocated[d] <= id
        BY <2>1, <2>4 DEF id
      <3>3. CASE call' = [call EXCEPT ![c] = Idle] /\ UNCHANGED allocated
        BY <2>1, <2>3, <2>41, <3>2, <3>3
      <3>4. CASE /\ call' = [call EXCEPT ![c] = Txn("create_txn", NoLedger, NoLedger)]
                 /\ allocated' = [allocated EXCEPT ![c] = id]
        BY <2>3, <2>41, <3>1, <3>2, <3>4 DEF Txn
      <3> QED
        BY <2>2, <3>3, <3>4, Zenon
    <2>8. kv[id] = NoLedger
      BY <2>1, <2>43
    <2>9. FreshIds'
      BY <2>1, <2>2, <2>3, <2>4, <2>8, <2>44
    <2> QED
      BY <2>5, <2>6, <2>7, <2>9
  <1>5. ASSUME NEW c \in Clients, NEW told \in BOOLEAN, CreateTxn(c, told) PROVE IdsInv'
    <2> DEFINE l == allocated[c]
    <2>1. /\ l \in Ids /\ l <= idGen.value
          /\ kv' = [kv EXCEPT ![l] = Store!NewLedger(l)]
          /\ held' \in {held, [held EXCEPT ![c] = Store!NewLedger(l)]}
          /\ allocated' = [allocated EXCEPT ![c] = 0]
          /\ call' = [call EXCEPT ![c] = Idle]
          /\ UNCHANGED <<idGen, confirmed>>
      BY <1>5, StoreConstants DEF CreateTxn, Return
    <2>2. Store!NewLedger(l).id = l
      BY DEF Store!NewLedger
    <2>3. \A d \in Clients : d # c /\ allocated[d] # 0 => allocated[d] # l
      BY <2>1
    <2>4. GenInv'
      BY <2>1 DEF NoId
    <2>5. KnownIds'
      BY <2>1, <2>2
    <2>6. AllocInv'
      BY <2>1, StoreConstants DEF IdGen
    <2>7. FreshIds'
      BY <2>1, <2>2, <2>3
    <2> QED
      BY <2>4, <2>5, <2>6, <2>7
  <1>6. ASSUME NEW c \in Clients, NEW l \in Ids, get_ledger(c, l) PROVE IdsInv'
    BY <1>6 DEF get_ledger
  <1>7. ASSUME NEW c \in Clients, NEW E \in SUBSET Edits, NEW s \in LedgerState, put_ledger(c, E, s)
        PROVE  IdsInv'
    <2> HIDE IdsAreNat DEF IInv, TypeOK, IdsInv, GenInv, AllocInv, KnownIds, FreshIds
    <2> DEFINE v == Txn("put_txn", kv[held[c].id], Store!Updated(held[c], E, s))
    <2>1. /\ call[c].at = "idle" /\ call' = [call EXCEPT ![c] = v]
          /\ UNCHANGED <<kv, idGen, allocated, held, confirmed>>
      BY <1>7 DEF put_ledger
    <2>2. v.at = "put_txn" /\ v.seen = NoId
      BY DEF Txn
    <2> HIDE DEF v
    <2> QED
      BY <1>0, <2>1, <2>2, OutsideCreate, Zenon
  <1>8. ASSUME NEW c \in Clients, NEW l \in Ids, transition_state(c, l, "Open", "InRecovery")
        PROVE  IdsInv'
    <2> HIDE IdsAreNat DEF IInv, TypeOK, IdsInv, GenInv, AllocInv, KnownIds, FreshIds
    <2> DEFINE v == Txn("transition_txn", kv[l], Store!Updated(kv[l], {}, "InRecovery"))
    <2>1. /\ call[c].at = "idle" /\ call' = [call EXCEPT ![c] = v]
          /\ UNCHANGED <<kv, idGen, allocated, held, confirmed>>
      BY <1>8 DEF transition_state
    <2>2. v.at = "transition_txn" /\ v.seen = NoId
      BY DEF Txn
    <2> HIDE DEF v
    <2> QED
      BY <1>0, <2>1, <2>2, OutsideCreate, Zenon
  <1>9. ASSUME NEW c \in Clients, NEW told \in BOOLEAN, ValueTxn(c, told) PROVE IdsInv'
    <2> DEFINE u == call[c].updated
    <2>1. /\ u \in LedgerMetadata /\ u.id \in Ids /\ kv[u.id] # NoLedger
          /\ kv' = [kv EXCEPT ![u.id] = u]
          /\ held' \in {held, [held EXCEPT ![c] = u]}
          /\ \A l \in Ids : l # u.id => confirmed'[l] = confirmed[l]
          /\ call' = [call EXCEPT ![c] = Idle]
          /\ UNCHANGED <<idGen, allocated>>
      <3>1. u \in LedgerMetadata /\ kv[u.id] # NoLedger
        <4>1. call[c].updated \in LedgerMetadata \cup {NoLedger}
          BY DEF Call
        <4>2. call[c].updated # NoLedger /\ call[c].current # NoLedger
          BY <1>9 DEF ValueTxn, TxnInv, InTxn
        <4>3. kv[u.id] = call[c].current
          BY <1>9 DEF ValueTxn, ValueUnchanged
        <4> QED
          BY <4>1, <4>2, <4>3
      <3>2. u.id \in Ids
        BY <3>1, MetadataDef, Zenon
      <3> QED
        BY <1>9, <3>1, <3>2 DEF ValueTxn, Return
    <2>2. u.id <= idGen.value /\ \A d \in Clients : allocated[d] # u.id
      BY <2>1, StoreConstants
    <2> HIDE DEF u
    <2>3. GenInv'
      BY <2>1 DEF NoId
    <2>4. KnownIds'
      <3>1. \A d \in Clients : held'[d] # NoLedger => held'[d].id <= idGen.value
        BY <2>1, <2>2
      <3>2. \A l \in Ids : kv'[l] # NoLedger => kv'[l].id = l /\ l <= idGen.value
        BY <2>1, <2>2
      <3>3. \A l \in Ids : confirmed'[l] # {} => l <= idGen.value
        BY <2>1, <2>2
      <3> QED
        BY <2>1, <3>1, <3>2, <3>3
    <2>5. AllocInv'
      <3>1. \A d \in Clients : call'[d].at = "create_txn" <=> call[d].at = "create_txn"
        BY <1>9, <2>1 DEF ValueTxn
      <3>2. \A d \in Clients : allocated[d] # 0 =>
                confirmed'[allocated[d]] = confirmed[allocated[d]]
        BY <2>1, <2>2, StoreConstants
      <3> QED
        BY <2>1, <3>1, <3>2
    <2>6. FreshIds'
      BY <2>1, <2>2, StoreConstants
    <2> QED
      BY <2>3, <2>4, <2>5, <2>6
  <1>10. ASSUME NEW c \in Clients, ValueTxnRefused(c) PROVE IdsInv'
    <2> HIDE IdsAreNat DEF IInv, TypeOK, IdsInv, GenInv, AllocInv, KnownIds, FreshIds
    <2>1. /\ call[c].at \in {"put_txn", "transition_txn"} /\ call' = [call EXCEPT ![c] = Idle]
          /\ UNCHANGED <<kv, idGen, allocated, held, confirmed>>
      BY <1>10 DEF ValueTxnRefused, Return
    <2> QED
      BY <1>0, <2>1, OutsideCreate, Zenon
  <1>11. ASSUME NEW c \in Clients, EtcdError(c) PROVE IdsInv'
    <2>0. /\ call' = [call EXCEPT ![c] = Idle]
          /\ UNCHANGED <<kv, idGen, held, confirmed>>
      BY <1>11 DEF EtcdError, Return
    <2>1. GenInv' /\ KnownIds'
      <3>1. GenInv'
        BY <2>0 DEF NoId
      <3>2. KnownIds'
        BY <2>0
      <3> QED
        BY <3>1, <3>2
    <2>2. AllocInv'
      BY <1>11 DEF EtcdError, Return, IdGen
    <2>3. FreshIds'
      BY <1>11 DEF EtcdError
    <2> QED
      BY <2>1, <2>2, <2>3
  <1>12. ASSUME NEW l \in Ids, delete_ledger(l) PROVE IdsInv'
    BY <1>12 DEF delete_ledger
  <1>13. CASE UNCHANGED vars
    BY <1>13 DEF vars
  <1> HIDE DEF IInv, TypeOK, IdsInv
  <1> QED
    BY <1>1, <1>2, <1>3, <1>4, <1>5, <1>6, <1>7, <1>8, <1>9, <1>10, <1>11, <1>12, <1>13, Zenon DEF Next

\* A call that moves anywhere but to a value transaction leaves TxnInv alone.
LEMMA OutsideTxn ==
    ASSUME TxnInv, call \in [Clients -> Call], NEW c \in Clients, NEW v,
           v.at \notin {"put_txn", "transition_txn"},
           call' = [call EXCEPT ![c] = v], UNCHANGED held
    PROVE  TxnInv'
  <1>1. call'[c] = v /\ \A d \in Clients : d # c => call'[d] = call[d]
    OBVIOUS
  <1>2. \A d \in Clients : InTxn(d)' => call'[d] = call[d] /\ InTxn(d)
    BY <1>1 DEF InTxn
  <1> QED
    BY <1>2 DEF TxnInv

\* What TxnInv asks of a call that enters a transaction with m read and u to
\* be written.
Enters(step, m, u) ==
    /\ m # NoLedger /\ u # NoLedger
    /\ u.id = m.id /\ u.version = m.version + 1 /\ m.edits \subseteq u.edits
    /\ step = "transition_txn" => /\ m.state = "Open" /\ u.state = "InRecovery"
                                  /\ u.edits = m.edits

LEMMA IntoTxn ==
    ASSUME TxnInv, call \in [Clients -> Call], NEW c \in Clients, NEW step, NEW m, NEW u,
           Enters(step, m, u), step = "put_txn" => m = held[c],
           call' = [call EXCEPT ![c] = Txn(step, m, u)], UNCHANGED held
    PROVE  TxnInv'
  <1>1. call'[c] = Txn(step, m, u) /\ \A d \in Clients : d # c => call'[d] = call[d]
    OBVIOUS
  <1>2. call'[c].at = step /\ call'[c].current = m /\ call'[c].updated = u
    BY <1>1 DEF Txn
  <1> SUFFICES ASSUME NEW d \in Clients, InTxn(d)'
               PROVE  /\ call'[d].current # NoLedger
                      /\ call'[d].updated # NoLedger
                      /\ call'[d].updated.id = call'[d].current.id
                      /\ call'[d].updated.version = call'[d].current.version + 1
                      /\ call'[d].current.edits \subseteq call'[d].updated.edits
                      /\ call'[d].at = "put_txn" => held'[d] = call'[d].current
                      /\ call'[d].at = "transition_txn" =>
                            /\ call'[d].current.state = "Open"
                            /\ call'[d].updated.state = "InRecovery"
                            /\ call'[d].updated.edits = call'[d].current.edits
    BY DEF TxnInv
  <1>3. CASE d = c
    BY <1>2, <1>3 DEF Enters
  <1>4. CASE d # c
    <2>1. call'[d] = call[d] /\ InTxn(d)
      BY <1>1, <1>4 DEF InTxn
    <2> QED
      BY <2>1 DEF TxnInv
  <1> QED
    BY <1>3, <1>4

\* Every step keeps what calls carry to their transactions.
LEMMA TxnNext == IInv /\ [Next]_vars => TxnInv'
  <1> SUFFICES ASSUME IInv, [Next]_vars PROVE TxnInv'
    OBVIOUS
  <1> USE IdleFields DEF IInv, TypeOK, TxnInv, InTxn
  <1>1. ASSUME NEW c \in Clients, create_ledger(c) PROVE TxnInv'
    BY <1>1 DEF create_ledger, IdLoop
  <1>2. ASSUME NEW c \in Clients, IdGet(c) PROVE TxnInv'
    <2> DEFINE v == IdLoop("id_txn", idGen, call[c].tries + 1)
    <2>1. call' = [call EXCEPT ![c] = Idle] \/ call' = [call EXCEPT ![c] = v]
      BY <1>2 DEF IdGet, Return
    <2>2. UNCHANGED held
      BY <1>2 DEF IdGet
    <2>3. v.at = "id_txn"
      BY DEF IdLoop
    <2>4. TxnInv /\ call \in [Clients -> Call]
      OBVIOUS
    <2> HIDE DEF v, IInv, TypeOK, TxnInv, InTxn
    <2>5. CASE call' = [call EXCEPT ![c] = Idle]
      BY <2>2, <2>4, <2>5, OutsideTxn, Zenon
    <2>6. CASE call' = [call EXCEPT ![c] = v]
      BY <2>2, <2>3, <2>4, <2>6, OutsideTxn, Zenon
    <2> QED
      BY <2>1, <2>5, <2>6
  <1>3. ASSUME NEW c \in Clients, IdTxnRefused(c) PROVE TxnInv'
    BY <1>3 DEF IdTxnRefused, IdLoop
  <1>4. ASSUME NEW c \in Clients, NEW told \in BOOLEAN, IdTxn(c, told) PROVE TxnInv'
    <2>1. PICK v : v.at \in {"idle", "create_txn"} /\ call' = [call EXCEPT ![c] = v]
      BY <1>4 DEF IdTxn, Txn, Return
    <2>2. UNCHANGED held
      BY <1>4 DEF IdTxn
    <2>3. TxnInv /\ call \in [Clients -> Call]
      OBVIOUS
    <2> HIDE DEF IInv, TypeOK, TxnInv, InTxn
    <2> QED
      BY <2>1, <2>2, <2>3, OutsideTxn, Zenon
  <1>5. ASSUME NEW c \in Clients, NEW told \in BOOLEAN, CreateTxn(c, told) PROVE TxnInv'
    BY <1>5 DEF CreateTxn, Return
  <1>6. ASSUME NEW c \in Clients, NEW l \in Ids, get_ledger(c, l) PROVE TxnInv'
    BY <1>6 DEF get_ledger
  <1>7. ASSUME NEW c \in Clients, NEW E \in SUBSET Edits, NEW s \in LedgerState, put_ledger(c, E, s)
        PROVE  TxnInv'
    <2>1. held[c] \in LedgerMetadata /\ kv[held[c].id] = held[c]
      BY <1>7 DEF put_ledger, VersionIdentifiesValue
    <2>2. Store!Updated(held[c], E, s) # NoLedger
      BY <2>1, UpdatedType, StoreConstants
    <2> DEFINE u == Store!Updated(held[c], E, s)
    <2>3. call' = [call EXCEPT ![c] = Txn("put_txn", held[c], u)] /\ UNCHANGED held
      BY <1>7, <2>1, Zenon DEF put_ledger
    <2>4. Enters("put_txn", held[c], u)
      BY <2>1, <2>2, StoreConstants, Zenon DEF Enters, Store!Updated
    <2>5. TxnInv /\ call \in [Clients -> Call]
      OBVIOUS
    <2> HIDE DEF u, IInv, TypeOK, TxnInv, InTxn
    <2> QED
      BY <2>3, <2>4, <2>5, IntoTxn, Zenon
  <1>8. ASSUME NEW c \in Clients, NEW l \in Ids, transition_state(c, l, "Open", "InRecovery")
        PROVE  TxnInv'
    <2>1. kv[l] \in LedgerMetadata /\ kv[l].state = "Open"
      BY <1>8 DEF transition_state
    <2>2. Store!Updated(kv[l], {}, "InRecovery") # NoLedger
      BY <2>1, UpdatedType, StoreConstants DEF LedgerState, Store!LedgerState
    <2> DEFINE m == kv[l]
               u == Store!Updated(kv[l], {}, "InRecovery")
               step == "transition_txn"
    <2>3. call' = [call EXCEPT ![c] = Txn(step, m, u)] /\ UNCHANGED held
      BY <1>8, Zenon DEF transition_state
    <2>4. Enters(step, m, u)
      BY <2>1, <2>2, StoreConstants DEF Enters, Store!Updated
    <2>5. TxnInv /\ call \in [Clients -> Call]
      OBVIOUS
    <2>6. step # "put_txn"
      OBVIOUS
    <2> HIDE DEF m, u, step, IInv, TypeOK, TxnInv, InTxn
    <2> QED
      BY <2>3, <2>4, <2>5, <2>6, IntoTxn, Zenon
  <1>9. ASSUME NEW c \in Clients, NEW told \in BOOLEAN, ValueTxn(c, told) PROVE TxnInv'
    BY <1>9 DEF ValueTxn, Return
  <1>10. ASSUME NEW c \in Clients, ValueTxnRefused(c) PROVE TxnInv'
    BY <1>10 DEF ValueTxnRefused, Return
  <1>11. ASSUME NEW c \in Clients, EtcdError(c) PROVE TxnInv'
    BY <1>11 DEF EtcdError, Return
  <1>12. ASSUME NEW l \in Ids, delete_ledger(l) PROVE TxnInv'
    BY <1>12 DEF delete_ledger
  <1>13. CASE UNCHANGED vars
    BY <1>13 DEF vars
  <1> HIDE DEF IInv, TypeOK, TxnInv
  <1> QED
    BY <1>1, <1>2, <1>3, <1>4, <1>5, <1>6, <1>7, <1>8, <1>9, <1>10, <1>11, <1>12, <1>13, Zenon DEF Next

\* The steps that change no stored value and no caller's copy.
LEMMA QuietSteps ==
    ASSUME VersionIdentifiesValue, NoLostUpdate, UNCHANGED <<kv, held, confirmed>>
    PROVE  VersionIdentifiesValue' /\ NoLostUpdate'
    BY DEF VersionIdentifiesValue, NoLostUpdate

\* Every step keeps the version and the edits of a ledger in step.
LEMMA ValuesNext == IInv /\ [Next]_vars => VersionIdentifiesValue' /\ NoLostUpdate'
  <1> DEFINE Goal == VersionIdentifiesValue /\ NoLostUpdate
  <1> SUFFICES ASSUME IInv, [Next]_vars PROVE Goal'
    OBVIOUS
  <1> USE IdsAreNat DEF IInv, TypeOK
  <1>1. ASSUME UNCHANGED <<kv, held, confirmed>> PROVE Goal'
    BY <1>1, QuietSteps
  <1>2. ASSUME NEW c \in Clients, NEW told \in BOOLEAN, CreateTxn(c, told) PROVE Goal'
    <2> DEFINE l == allocated[c]
    <2>1. /\ l \in Ids
          /\ confirmed[l] = {}
          /\ \A d \in Clients : held[d] # NoLedger => held[d].id # l
          /\ kv' = [kv EXCEPT ![l] = Store!NewLedger(l)]
          /\ held' \in {held, [held EXCEPT ![c] = Store!NewLedger(l)]}
          /\ UNCHANGED confirmed
      BY <1>2, StoreConstants DEF CreateTxn, IdsInv, AllocInv, FreshIds
    <2>2. Store!NewLedger(l).id = l /\ Store!NewLedger(l).version = 1
      BY DEF Store!NewLedger
    <2> HIDE DEF l
    <2>3. VersionIdentifiesValue'
      <3> SUFFICES ASSUME NEW d \in Clients, held'[d] # NoLedger, kv'[held'[d].id] # NoLedger
                   PROVE  /\ held'[d].version <= kv'[held'[d].id].version
                          /\ held'[d].version = kv'[held'[d].id].version => held'[d] = kv'[held'[d].id]
        BY DEF VersionIdentifiesValue
      <3>1. CASE held'[d] = held[d]
        <4>1. held[d].id \in Ids /\ held[d].id # l
          BY <2>1, <3>1, MetadataDef, Zenon
        <4>2. kv'[held[d].id] = kv[held[d].id]
          BY <2>1, <4>1
        <4> QED
          BY <3>1, <4>2 DEF VersionIdentifiesValue
      <3>2. CASE held'[d] = Store!NewLedger(l)
        <4>1. kv'[l] = Store!NewLedger(l)
          BY <2>1
        <4> QED
          BY <2>2, <3>2, <4>1
      <3> QED
        BY <2>1, <3>1, <3>2
    <2>4. NoLostUpdate'
      BY <2>1 DEF NoLostUpdate
    <2> QED
      BY <2>3, <2>4
  <1>3. ASSUME NEW c \in Clients, NEW l \in Ids, get_ledger(c, l) PROVE Goal'
    <2>1. kv[l] # NoLedger /\ kv[l].id = l /\ kv[l].version \in Nat
      BY <1>3, MetadataDef, Zenon DEF get_ledger, IdsInv, KnownIds
    <2>2. VersionIdentifiesValue'
      BY <1>3, <2>1 DEF get_ledger, VersionIdentifiesValue
    <2>3. NoLostUpdate'
      BY <1>3, Zenon DEF get_ledger, NoLostUpdate
    <2> QED
      BY <2>2, <2>3
  <1>4. ASSUME NEW c \in Clients, NEW told \in BOOLEAN, ValueTxn(c, told) PROVE Goal'
    <2> DEFINE u == call[c].updated
               old == call[c].current
    <2>1. /\ u \in LedgerMetadata /\ old \in LedgerMetadata
          /\ u # NoLedger /\ old # NoLedger
          /\ u.version = old.version + 1
          /\ old.edits \subseteq u.edits
          /\ kv[u.id] = old
      BY <1>4 DEF ValueTxn, ValueUnchanged, TxnInv, InTxn, Call
    <2>2. u.id \in Ids /\ u.version \in Nat /\ old.version \in Nat
      BY <2>1, MetadataDef, Zenon
    <2>3. /\ kv' = [kv EXCEPT ![u.id] = u]
          /\ held' \in {held, [held EXCEPT ![c] = u]}
          /\ \A l \in Ids : confirmed'[l] \subseteq
                IF l = u.id THEN confirmed[l] \cup (u.edits \ old.edits) ELSE confirmed[l]
      BY <1>4, <2>2 DEF ValueTxn
    <2>4. \A d \in Clients : held[d] # NoLedger => held[d].version \in Nat
      BY MetadataDef, Zenon
    <2> HIDE DEF u, old
    <2>5. VersionIdentifiesValue'
      <3> SUFFICES ASSUME NEW d \in Clients, held'[d] # NoLedger, kv'[held'[d].id] # NoLedger
                   PROVE  /\ held'[d].version <= kv'[held'[d].id].version
                          /\ held'[d].version = kv'[held'[d].id].version =>
                                held'[d] = kv'[held'[d].id]
        BY DEF VersionIdentifiesValue
      <3>1. kv'[u.id] = u
        BY <2>2, <2>3
      <3>2. CASE held'[d] = u
        BY <2>2, <3>1, <3>2
      <3>3. CASE held'[d] = held[d] /\ held[d].id = u.id
        <4>1. held[d].version <= old.version
          BY <2>1, <3>3 DEF VersionIdentifiesValue
        <4> QED
          BY <2>1, <2>2, <2>4, <3>1, <3>3, <4>1
      <3>4. CASE held'[d] = held[d] /\ held[d].id # u.id
        <4>1. held[d].id \in Ids
          BY <3>4, MetadataDef, Zenon
        <4>2. kv'[held[d].id] = kv[held[d].id]
          BY <2>3, <3>4, <4>1
        <4> QED
          BY <3>4, <4>2 DEF VersionIdentifiesValue
      <3> QED
        BY <2>3, <3>2, <3>3, <3>4
    <2>6. NoLostUpdate'
      BY <2>1, <2>2, <2>3 DEF NoLostUpdate
    <2> QED
      BY <2>5, <2>6
  <1>5. ASSUME NEW l \in Ids, delete_ledger(l) PROVE Goal'
    BY <1>5 DEF delete_ledger, VersionIdentifiesValue, NoLostUpdate
  <1> HIDE DEF IInv, TypeOK, Goal
  <1> QED
    BY <1>1, <1>2, <1>3, <1>4, <1>5, Zenon DEF Next, vars, create_ledger, IdGet, IdTxnRefused, IdTxn,
       put_ledger, transition_state, ValueTxnRefused, EtcdError

\* The invariant is inductive, so it always holds.
THEOREM Invariance == Spec => []IInv
  <1>1. IInv /\ [Next]_vars => IInv'
    <2> SUFFICES ASSUME IInv, [Next]_vars PROVE IInv'
      OBVIOUS
    <2> QED
      BY TypeNext, IdsNext, TxnNext, ValuesNext DEF IInv
  <1> QED
    BY InvInit, <1>1, PTL DEF Spec

----------------------------------------------------------------------------
(* The properties *)

\* Every value of EtcdMetadataStore keeps its type: the id loop makes no more
\* than ID_GEN_CAS_RETRIES rounds, and a transaction writes a whole record.
THEOREM TypeCorrect == Spec => []TypeOK
    BY Invariance, PTL DEF IInv

\* No update that put_ledger answered Ok for is lost, however the reads and the
\* transactions of any number of callers interleave.
THEOREM NoUpdateIsLost == Spec => []NoLostUpdate
    BY Invariance, PTL DEF IInv

\* The version check of put_ledger is as strong as a comparison of values.
THEOREM VersionsIdentifyValues == Spec => []VersionIdentifiesValue
    BY Invariance, PTL DEF IInv

\* next_ledger_id hands an id out once.
THEOREM IdsAreFresh == Spec => []FreshIds
    BY Invariance, PTL DEF IInv, IdsInv

----------------------------------------------------------------------------
(* Refinement *)

LEMMA StoreInit == Init => Store!Init
    BY DEF Init, Store!Init, Ids, NoId

\* Every step of a call is one operation of the atomic store, or none.
LEMMA StoreNext == IInv /\ [Next]_vars => [Store!Next]_(Store!vars)
  <1> SUFFICES ASSUME IInv, [Next]_vars PROVE Store!Next \/ UNCHANGED Store!vars
    OBVIOUS
  <1> USE DEF Ids, LedgerState
  <1>1. ASSUME UNCHANGED <<kv, idGen, allocated, held, confirmed>> PROVE UNCHANGED Store!vars
    BY <1>1 DEF Store!vars
  <1>2. ASSUME NEW c \in Clients, NEW told \in BOOLEAN, IdTxn(c, told) PROVE Store!Next
    <2>1. /\ idGen'.value = idGen.value + 1
          /\ idGen.value < MaxId
          /\ UNCHANGED <<kv, held, confirmed>>
          /\ told => allocated' = [allocated EXCEPT ![c] = idGen.value + 1]
          /\ ~told => UNCHANGED allocated
      BY <1>2, StoreConstants DEF IdTxn, IdUnchanged, IInv, TypeOK, IdsInv, GenInv, Call, IdGen
    <2>2. CASE told
      BY <2>1, <2>2 DEF Store!Next, Store!next_ledger_id
    <2>3. CASE ~told
      BY <2>1, <2>3 DEF Store!Next, Store!AbandonId
    <2> QED
      BY <2>2, <2>3
  <1>3. ASSUME NEW c \in Clients, NEW told \in BOOLEAN, CreateTxn(c, told) PROVE Store!Next
    <2>1. Store!create_ledger(c, told)
      BY <1>3 DEF CreateTxn, Store!create_ledger, IInv, IdsInv, AllocInv
    <2> QED
      BY <2>1 DEF Store!Next
  <1>4. ASSUME NEW c \in Clients, NEW l \in Ids, get_ledger(c, l) PROVE Store!Next
    BY <1>4, Zenon DEF get_ledger, Store!get_ledger, Store!Next
  <1>5. ASSUME NEW c \in Clients, NEW told \in BOOLEAN, ValueTxn(c, told) PROVE Store!Next
    <2> DEFINE u == call[c].updated
               old == call[c].current
               E == u.edits \ old.edits
    <2>1. /\ u \in LedgerMetadata /\ old \in LedgerMetadata
          /\ u # NoLedger /\ old # NoLedger
          /\ u.id = old.id /\ u.version = old.version + 1
          /\ old.edits \subseteq u.edits
          /\ kv[u.id] = old
      BY <1>5 DEF ValueTxn, ValueUnchanged, IInv, TypeOK, TxnInv, InTxn, Call
    <2>2. E \in SUBSET Edits /\ u.state \in LedgerState /\ u.id \in Ids
      BY <2>1, MetadataDef, Zenon
    <2>3. u = Store!Updated(old, E, u.state)
      <3>1. u = [id |-> u.id, state |-> u.state, edits |-> u.edits, version |-> u.version]
        BY <2>1 DEF LedgerMetadata, Store!LedgerMetadata
      <3>2. u.edits = old.edits \cup E
        BY <2>1
      <3> HIDE DEF u, old, E
      <3> QED
        BY <2>1, <3>1, <3>2 DEF Store!Updated
    <2>4. /\ kv' = [kv EXCEPT ![u.id] = u]
          /\ held' = IF told THEN [held EXCEPT ![c] = u] ELSE held
          /\ confirmed' = IF told THEN [confirmed EXCEPT ![u.id] = @ \cup E] ELSE confirmed
          /\ UNCHANGED <<idGen, allocated>>
      BY <1>5 DEF ValueTxn
    <2>5. CASE call[c].at = "put_txn"
      <3>1. held[c] = old
        BY <2>5 DEF IInv, TxnInv, InTxn
      <3> HIDE DEF u, old, E
      <3>2. Store!put_ledger(c, E, u.state, told)
        BY <2>1, <2>3, <2>4, <3>1, Zenon DEF Store!put_ledger
      <3> QED
        BY <2>2, <3>2 DEF Store!Next
    <2>6. CASE call[c].at = "transition_txn"
      <3>1. old.state = "Open" /\ u.state = "InRecovery" /\ E = {}
        BY <2>6 DEF IInv, TxnInv, InTxn
      <3>2. confirmed' = confirmed
        BY <2>2, <2>4, <3>1 DEF IInv, TypeOK
      <3> HIDE DEF u, old, E
      <3>3. Store!transition_state(c, u.id, "Open", "InRecovery", told)
        BY <2>1, <2>3, <2>4, <3>1, <3>2 DEF Store!transition_state
      <3>4. "Open" \in LedgerState /\ "InRecovery" \in LedgerState
        BY DEF Store!LedgerState
      <3> QED
        BY <2>2, <3>3, <3>4 DEF Store!Next
    <2> QED
      BY <1>5, <2>5, <2>6, Zenon DEF ValueTxn
  <1>6. ASSUME NEW c \in Clients, EtcdError(c) PROVE Store!Next \/ UNCHANGED Store!vars
    <2>1. CASE allocated[c] # 0
      BY <1>6, <2>1, Zenon DEF EtcdError, Store!Next, Store!AbandonId
    <2>2. CASE allocated[c] = 0
      <3>1. UNCHANGED allocated
        BY <1>6, <2>2 DEF EtcdError, IInv, TypeOK
      <3> QED
        BY <1>1, <1>6, <3>1 DEF EtcdError
    <2> QED
      BY <2>1, <2>2
  <1>7. ASSUME NEW l \in Ids, delete_ledger(l) PROVE Store!Next
    BY <1>7, Zenon DEF delete_ledger, Store!delete_ledger, Store!Next
  <1> QED
    BY <1>1, <1>2, <1>3, <1>4, <1>5, <1>6, <1>7, Zenon DEF Next, vars, create_ledger, IdGet,
       IdTxnRefused, put_ledger, transition_state, ValueTxnRefused

\* The get-then-transaction calls of EtcdMetadataStore implement the atomic
\* operations of the MetadataStore trait.
THEOREM Refinement == Spec => ImplementsStore
  <1>1. Spec => [][Store!Next]_(Store!vars)
    BY Invariance, StoreNext, PTL DEF Spec
  <1> QED
    BY StoreInit, <1>1, PTL DEF Spec, ImplementsStore, Store!Spec

=============================================================================
