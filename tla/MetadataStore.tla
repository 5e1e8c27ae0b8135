--------------------------- MODULE MetadataStore ---------------------------
(***************************************************************************)
(* What the MetadataStore trait promises its callers: the operations of    *)
(* InMemoryMetadataStore, each one atomic under the store's lock.          *)
(*                                                                         *)
(* A LedgerMetadata value is abstracted to its id, its lifecycle state,    *)
(* its version and the set of edits applied to it (a pushed fragment, a    *)
(* replaced ensemble member, a new LAC): what the store must never lose.   *)
(*                                                                         *)
(* `held[c]` is the LedgerMetadata a caller keeps between two calls, the   *)
(* copy whose version its next put_ledger is checked against.              *)
(***************************************************************************)
EXTENDS Integers

CONSTANTS Clients,      \* callers of the store: writers, sealers, workers
          Edits,        \* changes a caller may make to a ledger's metadata
          NoLedger,     \* the missing map entry, and "no metadata held"
          MaxId,        \* bound: ledger ids handed out
          MaxVersion    \* bound: versions of one ledger

VARIABLES ledgers,      \* BTreeMap<u64, LedgerMetadata>
          nextId,       \* the last ledger id handed out
          allocated,    \* allocated[c]: id create_ledger obtained, 0 if none
          held,         \* held[c]: the caller's copy of a ledger's metadata
          confirmed     \* history: confirmed[l], edits whose put returned Ok

vars == <<ledgers, nextId, allocated, held, confirmed>>

Ids == 1..MaxId

LedgerState == {"Open", "InRecovery", "Closed", "Deleted"}

LedgerMetadata == [id: Ids, state: LedgerState, edits: SUBSET Edits, version: Nat]

NewLedger(l) == [id |-> l, state |-> "Open", edits |-> {}, version |-> 1]

\* Mutant: the version is written back as it was read.
VersionKept(m, E, s) ==
    [id |-> m.id, state |-> s, edits |-> m.edits \cup E, version |-> m.version]

\* The record put_ledger and transition_state write: m with the edits E, in
\* state s, one version up.
Updated(m, E, s) ==
    [id |-> m.id, state |-> s, edits |-> m.edits \cup E, version |-> m.version + 1]

Init ==
    /\ ledgers = [l \in Ids |-> NoLedger]
    /\ nextId = 0
    /\ allocated = [c \in Clients |-> 0]
    /\ held = [c \in Clients |-> NoLedger]
    /\ confirmed = [l \in Ids |-> {}]

next_ledger_id(c) ==
    /\ nextId < MaxId
    /\ nextId' = nextId + 1
    /\ allocated' = [allocated EXCEPT ![c] = nextId + 1]
    /\ UNCHANGED <<ledgers, held, confirmed>>

\* An allocated id that never becomes a ledger: the store answered with an
\* error after handing it out, or the caller never learned of it.
AbandonId(c) ==
    /\ \/ /\ allocated[c] # 0
          /\ allocated' = [allocated EXCEPT ![c] = 0]
          /\ UNCHANGED nextId
       \/ /\ nextId < MaxId
          /\ nextId' = nextId + 1
          /\ UNCHANGED allocated
    /\ UNCHANGED <<ledgers, held, confirmed>>

\* `told` is FALSE when the reply is lost and the caller sees an error.
create_ledger(c, told) ==
    LET l == allocated[c] IN
    /\ l # 0
    /\ ledgers[l] = NoLedger
    /\ ledgers' = [ledgers EXCEPT ![l] = NewLedger(l)]
    /\ allocated' = [allocated EXCEPT ![c] = 0]
    /\ held' = IF told THEN [held EXCEPT ![c] = NewLedger(l)] ELSE held
    /\ UNCHANGED <<nextId, confirmed>>

get_ledger(c, l) ==
    /\ ledgers[l] # NoLedger
    /\ held' = [held EXCEPT ![c] = ledgers[l]]
    /\ UNCHANGED <<ledgers, nextId, allocated, confirmed>>

\* Compare-and-set on the version: caller c adds the edits E to its copy and
\* moves it to state s.
put_ledger(c, E, s, told) ==
    LET m == held[c] IN
    /\ m # NoLedger
    /\ ledgers[m.id] # NoLedger
    /\ ledgers[m.id].version = m.version
    /\ LET updated == Updated(m, E, s) IN
       /\ ledgers' = [ledgers EXCEPT ![m.id] = updated]
       /\ held' = IF told THEN [held EXCEPT ![c] = updated] ELSE held
       /\ confirmed' = IF told THEN [confirmed EXCEPT ![m.id] = @ \cup E] ELSE confirmed
    /\ UNCHANGED <<nextId, allocated>>

transition_state(c, l, expected, next, told) ==
    /\ ledgers[l] # NoLedger
    /\ ledgers[l].state = expected
    /\ LET updated == Updated(ledgers[l], {}, next) IN
       /\ ledgers' = [ledgers EXCEPT ![l] = updated]
       /\ held' = IF told THEN [held EXCEPT ![c] = updated] ELSE held
    /\ UNCHANGED <<nextId, allocated, confirmed>>

delete_ledger(l) ==
    /\ ledgers' = [ledgers EXCEPT ![l] = NoLedger]
    /\ UNCHANGED <<nextId, allocated, held, confirmed>>

Next ==
    \/ \E c \in Clients : next_ledger_id(c) \/ AbandonId(c)
    \/ \E c \in Clients, told \in BOOLEAN : create_ledger(c, told)
    \/ \E c \in Clients, l \in Ids : get_ledger(c, l)
    \/ \E c \in Clients, E \in SUBSET Edits, s \in LedgerState, told \in BOOLEAN :
          put_ledger(c, E, s, told)
    \/ \E c \in Clients, l \in Ids, s \in LedgerState, t \in LedgerState, told \in BOOLEAN :
          transition_state(c, l, s, t, told)
    \/ \E l \in Ids : delete_ledger(l)

Spec == Init /\ [][Next]_vars
=============================================================================
