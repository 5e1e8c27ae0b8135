------------------------- MODULE EtcdMetadataStore -------------------------
(***************************************************************************)
(* EtcdMetadataStore: every mutating call is a read of the key followed by *)
(* a transaction that compares what was read, so any number of other       *)
(* callers may act in between, the transaction may be refused, and its     *)
(* reply may be lost.  Shown to implement MetadataStore.                   *)
(***************************************************************************)
EXTENDS Integers

CONSTANTS Clients, Edits, NoLedger, MaxId, MaxVersion,
          ID_GEN_CAS_RETRIES    \* attempts next_ledger_id makes

VARIABLES kv,           \* kv[l]: value under the key of ledger l
          idGen,        \* value and mod_revision under ID_GEN_KEY
          call,         \* call[c]: the call caller c is inside, its locals
          allocated, held, confirmed   \* as in MetadataStore

vars == <<kv, idGen, call, allocated, held, confirmed>>

Store == INSTANCE MetadataStore WITH ledgers <- kv, nextId <- idGen.value

Ids == Store!Ids
LedgerState == Store!LedgerState
LedgerMetadata == Store!LedgerMetadata

ASSUME StoreConstants ==
    /\ NoLedger \notin LedgerMetadata
    /\ MaxId \in Nat
    /\ MaxVersion \in Nat
    /\ ID_GEN_CAS_RETRIES \in Nat

IdGen == [value: 0..MaxId, rev: Nat]
NoId == [value |-> 0, rev |-> 0]

\* at: where the call is; current, updated: the ledger value it has read and
\* the one it will write; seen: the id generator it has read; tries: rounds
\* of next_ledger_id.
Call == [at: {"idle", "id_get", "id_txn", "create_txn", "put_txn", "transition_txn"},
         current: LedgerMetadata \cup {NoLedger}, updated: LedgerMetadata \cup {NoLedger},
         seen: IdGen, tries: 0..ID_GEN_CAS_RETRIES]

Idle == [at |-> "idle", current |-> NoLedger, updated |-> NoLedger, seen |-> NoId, tries |-> 0]
IdLoop(step, gen, n) ==
    [at |-> step, current |-> NoLedger, updated |-> NoLedger, seen |-> gen, tries |-> n]
Txn(step, value, update) ==
    [at |-> step, current |-> value, updated |-> update, seen |-> NoId, tries |-> 0]

\* Types; next_ledger_id makes at most ID_GEN_CAS_RETRIES rounds.
TypeOK ==
    /\ kv \in [Ids -> LedgerMetadata \cup {NoLedger}]
    /\ idGen \in IdGen
    /\ call \in [Clients -> Call]
    /\ allocated \in [Clients -> 0..MaxId]
    /\ held \in [Clients -> LedgerMetadata \cup {NoLedger}]
    /\ confirmed \in [Ids -> SUBSET Edits]

Init ==
    /\ kv = [l \in Ids |-> NoLedger]
    /\ idGen = NoId
    /\ call = [c \in Clients |-> Idle]
    /\ allocated = [c \in Clients |-> 0]
    /\ held = [c \in Clients |-> NoLedger]
    /\ confirmed = [l \in Ids |-> {}]

Return(c) == call' = [call EXCEPT ![c] = Idle]

----------------------------------------------------------------------------
(* next_ledger_id and create_ledger *)

\* create_ledger enters the loop of next_ledger_id.
create_ledger(c) ==
    /\ call[c] = Idle
    /\ call' = [call EXCEPT ![c] = IdLoop("id_get", NoId, 0)]
    /\ UNCHANGED <<kv, idGen, allocated, held, confirmed>>

\* Mutant: one round more than ID_GEN_CAS_RETRIES.
IdGetOneMore(c) ==
    /\ call[c].at = "id_get"
    /\ \/ /\ call[c].tries <= ID_GEN_CAS_RETRIES
          /\ call' = [call EXCEPT ![c] = IdLoop("id_txn", idGen, call[c].tries + 1)]
       \/ /\ call[c].tries > ID_GEN_CAS_RETRIES
          /\ Return(c)
    /\ UNCHANGED <<kv, idGen, allocated, held, confirmed>>

\* One round of the loop reads the generator; after the last round the call
\* gives up with CasConflict.
IdGet(c) ==
    /\ call[c].at = "id_get"
    /\ \/ /\ call[c].tries < ID_GEN_CAS_RETRIES
          /\ call' = [call EXCEPT ![c] = IdLoop("id_txn", idGen, call[c].tries + 1)]
       \/ /\ call[c].tries = ID_GEN_CAS_RETRIES
          /\ Return(c)
    /\ UNCHANGED <<kv, idGen, allocated, held, confirmed>>

\* Mutant: the id is written back without a compare.
IdBlind(c) == TRUE

\* The compare of the transaction is on mod_revision (create_revision = 0 for
\* a generator never written, the same test as revision 0 here).
IdUnchanged(c) == idGen.rev = call[c].seen.rev

IdTxn(c, told) ==
    LET id == call[c].seen.value + 1 IN
    /\ call[c].at = "id_txn"
    /\ IdUnchanged(c)
    /\ id <= MaxId
    /\ idGen' = [value |-> id, rev |-> idGen.rev + 1]
    /\ IF told THEN /\ allocated' = [allocated EXCEPT ![c] = id]
                    /\ call' = [call EXCEPT ![c] = Txn("create_txn", NoLedger, NoLedger)]
               ELSE UNCHANGED allocated /\ Return(c)
    /\ UNCHANGED <<kv, held, confirmed>>

IdTxnRefused(c) ==
    /\ call[c].at = "id_txn"
    /\ ~IdUnchanged(c)
    /\ call' = [call EXCEPT ![c] = IdLoop("id_get", NoId, call[c].tries)]
    /\ UNCHANGED <<kv, idGen, allocated, held, confirmed>>

\* The transaction compares create_revision with 0.
CreateTxn(c, told) ==
    LET l == allocated[c] IN
    /\ call[c].at = "create_txn"
    /\ kv[l] = NoLedger
    /\ kv' = [kv EXCEPT ![l] = Store!NewLedger(l)]
    /\ held' = IF told THEN [held EXCEPT ![c] = Store!NewLedger(l)] ELSE held
    /\ allocated' = [allocated EXCEPT ![c] = 0]
    /\ Return(c)
    /\ UNCHANGED <<idGen, confirmed>>

----------------------------------------------------------------------------
(* get_ledger, put_ledger, transition_state, delete_ledger *)

get_ledger(c, l) ==
    /\ call[c] = Idle
    /\ kv[l] # NoLedger
    /\ held' = [held EXCEPT ![c] = kv[l]]
    /\ UNCHANGED <<kv, idGen, call, allocated, confirmed>>

\* Mutant: the version of the caller's copy is not looked at.
PutUnversioned(c, E, s) ==
    LET m == held[c] IN
    /\ call[c] = Idle
    /\ m # NoLedger
    /\ s \in {m.state, "Closed", "Deleted"}
    /\ kv[m.id] # NoLedger
    /\ m.version < MaxVersion
    /\ call' = [call EXCEPT ![c] = Txn("put_txn", kv[m.id], Store!Updated(m, E, s))]
    /\ UNCHANGED <<kv, idGen, allocated, held, confirmed>>

\* put_ledger up to its transaction: the version of the value just read must
\* be the version of the caller's copy.  The callers add a fragment or swap an
\* ensemble member (an edit), close the ledger, or mark it deleted.
put_ledger(c, E, s) ==
    LET m == held[c] IN
    /\ call[c] = Idle
    /\ m # NoLedger
    /\ s \in {m.state, "Closed", "Deleted"}
    /\ kv[m.id] # NoLedger
    /\ kv[m.id].version = m.version
    /\ m.version < MaxVersion
    /\ call' = [call EXCEPT ![c] = Txn("put_txn", kv[m.id], Store!Updated(m, E, s))]
    /\ UNCHANGED <<kv, idGen, allocated, held, confirmed>>

transition_state(c, l, expected, next) ==
    /\ call[c] = Idle
    /\ kv[l] # NoLedger
    /\ kv[l].state = expected
    /\ kv[l].version < MaxVersion
    /\ call' = [call EXCEPT ![c] = Txn("transition_txn", kv[l], Store!Updated(kv[l], {}, next))]
    /\ UNCHANGED <<kv, idGen, allocated, held, confirmed>>

\* Mutant: the new value is put without the compare, so the read and the write
\* of put_ledger are no longer one step.
ValueBlind(c) == TRUE

\* The compare of both transactions: the stored value is the one read.
ValueUnchanged(c) == kv[call[c].updated.id] = call[c].current

ValueTxn(c, told) ==
    LET u == call[c].updated IN
    /\ call[c].at \in {"put_txn", "transition_txn"}
    /\ ValueUnchanged(c)
    /\ kv' = [kv EXCEPT ![u.id] = u]
    /\ held' = IF told THEN [held EXCEPT ![c] = u] ELSE held
    /\ confirmed' = IF told THEN [confirmed EXCEPT ![u.id] = @ \cup (u.edits \ call[c].current.edits)]
                            ELSE confirmed
    /\ Return(c)
    /\ UNCHANGED <<idGen, allocated>>

ValueTxnRefused(c) ==
    /\ call[c].at \in {"put_txn", "transition_txn"}
    /\ ~ValueUnchanged(c)
    /\ Return(c)
    /\ UNCHANGED <<kv, idGen, allocated, held, confirmed>>

delete_ledger(l) ==
    /\ kv[l] # NoLedger
    /\ kv' = [kv EXCEPT ![l] = NoLedger]
    /\ UNCHANGED <<idGen, call, allocated, held, confirmed>>

\* A request to etcd fails before it has any effect: the call returns
\* FolioError::Metadata.
EtcdError(c) ==
    /\ call[c] # Idle
    /\ Return(c)
    /\ allocated' = [allocated EXCEPT ![c] = 0]
    /\ UNCHANGED <<kv, idGen, held, confirmed>>

Next ==
    \/ \E c \in Clients : create_ledger(c) \/ IdGet(c) \/ IdTxnRefused(c)
    \/ \E c \in Clients, told \in BOOLEAN : IdTxn(c, told) \/ CreateTxn(c, told)
    \/ \E c \in Clients, l \in Ids : get_ledger(c, l)
    \/ \E c \in Clients, e \in Edits, s \in LedgerState : put_ledger(c, {e}, s)
    \/ \E c \in Clients, l \in Ids : transition_state(c, l, "Open", "InRecovery")
    \/ \E c \in Clients, told \in BOOLEAN : ValueTxn(c, told)
    \/ \E c \in Clients : ValueTxnRefused(c) \/ EtcdError(c)
    \/ \E l \in Ids : delete_ledger(l)

Spec == Init /\ [][Next]_vars

----------------------------------------------------------------------------
(* Properties *)

\* The get-then-transaction calls implement the atomic store: every change of
\* a stored value is one operation of MetadataStore, made by one caller
\* against the value that was there (put_ledger, transition_state,
\* create_ledger and next_ledger_id of EtcdMetadataStore).
ImplementsStore == Store!Spec

\* No lost update: whatever put_ledger answered Ok for is still in the ledger,
\* however many other callers were between their read and their transaction.
NoLostUpdate ==
    \A l \in Ids : kv[l] # NoLedger => confirmed[l] \subseteq kv[l].edits

\* A caller whose copy has the stored version has the stored value: the
\* version check of put_ledger is as strong as a comparison of contents.
VersionIdentifiesValue ==
    \A c \in Clients :
        (held[c] # NoLedger /\ kv[held[c].id] # NoLedger)
            => /\ held[c].version <= kv[held[c].id].version
               /\ held[c].version = kv[held[c].id].version => held[c] = kv[held[c].id]

\* An id is handed out once: two callers never create the same ledger, and no
\* stored or remembered ledger has the id a create_ledger is about to use.
FreshIds ==
    \A c \in Clients : allocated[c] # 0 =>
        /\ kv[allocated[c]] = NoLedger
        /\ \A d \in Clients :
              /\ d # c => allocated[d] # allocated[c]
              /\ held[d] # NoLedger => held[d].id # allocated[c]
=============================================================================
