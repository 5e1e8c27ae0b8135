------------------------------- MODULE Ledger -------------------------------
(***************************************************************************)
(* One ledger: the LedgerHandle that appends to it, the storage nodes that *)
(* hold its entries, its metadata record, the recovery that fences and     *)
(* seals it, and the client call that seals it.                            *)
(*                                                                         *)
(* The metadata store is the atomic one of MetadataStore: put_ledger is a  *)
(* compare-and-set on `version`.  A node is what the ledger sees of        *)
(* JournalService: add_entry checks the fence and the duplicate, waits for *)
(* the WAL, and then answers.  A request may be given up by the caller and *)
(* still be handled later.                                                 *)
(***************************************************************************)
EXTENDS Integers, Sequences, FiniteSets

CONSTANTS N,            \* storage nodes 1..N, in the order of list_nodes
          Ensemble,     \* the ensemble create_ledger is given
          WriteQuorum, AckQuorum,
          Data,         \* payloads an application may append
          NoData,
          Recoverers,   \* callers of fence_and_seal
          Sealing,      \* TRUE when the application may call seal_ledger
          MaxEntries,   \* bound: entries appended
          MaxFaults,    \* bound: add_entry calls that fail at the writer
          MaxStoreErrors \* bound: put_ledger and list_nodes calls that fail

Nodes == 1..N
Entries == 0..(MaxEntries - 1)
NONE == -1              \* last_entry_id: None

ASSUME LedgerConstants ==
    /\ N \in Nat
    /\ MaxEntries \in Nat
    /\ MaxFaults \in Nat
    /\ MaxStoreErrors \in Nat
    /\ Sealing \in BOOLEAN
    /\ NoData \notin Data
    /\ Ensemble \in Seq(Nodes)
    /\ \A i, j \in 1..Len(Ensemble) : Ensemble[i] = Ensemble[j] => i = j

\* LedgerOptions::validate.
ASSUME LedgerOptions ==
    /\ AckQuorum \in Nat \ {0}
    /\ WriteQuorum \in Nat
    /\ AckQuorum <= WriteQuorum
    /\ WriteQuorum <= Len(Ensemble)

Fragment == [first: Nat, ensemble: Seq(Nodes)]
LedgerMetadata == [state: {"Open", "InRecovery", "Closed"}, fragments: Seq(Fragment),
                   last: Nat \cup {NONE}, lac: Nat, version: Nat]
Request == [entry: Entries, data: Data]

VARIABLES
    md,          \* the ledger's record in the metadata store
    \* The storage nodes.
    stored,      \* stored[n][e]: the payload node n holds for entry e
    fenced,      \* fenced[n]: n is in `fences`
    sent,        \* sent[n]: add_entry requests under way to n
    handling,    \* handling[n]: add_entry handlers waiting for the WAL
    \* The LedgerHandle.
    hmd,         \* self.metadata
    next,        \* self.next_entry_id
    lac,         \* self.lac
    at,          \* where do_append is
    data,        \* the payload being appended
    attempt,
    outcome,     \* outcome[n]: the answer of n in this attempt
    \* fence_and_seal.
    rec,         \* rec[r]: where the call is, its metadata, its lacs
    \* The environment, and history.
    faults, storeErrors,
    acked,       \* acked[e]: the payload append returned Ok for
    racing,      \* racing[n]: entries being handled when n was fenced
    sealedBy     \* who closed the ledger

nodeVars == <<stored, fenced, sent, handling>>
handleVars == <<hmd, next, lac, at, data, attempt, outcome>>
historyVars == <<faults, storeErrors, acked, racing, sealedBy>>
vars == <<md, nodeVars, handleVars, rec, historyVars>>

Last(s) == s[Len(s)]
Members(f) == {f.ensemble[i] : i \in 1..Len(f.ensemble)}
Maximum(S) == CHOOSE x \in S : \A y \in S : y <= x

\* The nodes do_append writes to: the first write_quorum of the last fragment.
WriteSet == {Last(hmd.fragments).ensemble[i] : i \in 1..WriteQuorum}

Acks == {n \in WriteSet : outcome[n] = "ok"}
Failed == {n \in WriteSet : outcome[n] = "failed"}

NewMetadata ==
    [state |-> "Open", fragments |-> <<[first |-> 0, ensemble |-> Ensemble]>>,
     last |-> NONE, lac |-> 0, version |-> 1]

Idle == [at |-> "idle", md |-> NewMetadata, i |-> 0, hi |-> 0]
Fencing(m, i, hi) == [at |-> "fence", md |-> m, i |-> i, hi |-> hi]
Done == [at |-> "done", md |-> NewMetadata, i |-> 0, hi |-> 0]

\* create_ledger has returned the handle.
Init ==
    /\ md = NewMetadata
    /\ stored = [n \in Nodes |-> [e \in Entries |-> NoData]]
    /\ fenced = [n \in Nodes |-> FALSE]
    /\ sent = [n \in Nodes |-> {}]
    /\ handling = [n \in Nodes |-> {}]
    /\ hmd = NewMetadata
    /\ next = 0
    /\ lac = 0
    /\ at = "idle"
    /\ data = NoData
    /\ attempt = 0
    /\ outcome = [n \in Nodes |-> "none"]
    /\ rec = [r \in Recoverers |-> Idle]
    /\ faults = 0
    /\ storeErrors = 0
    /\ acked = [e \in Entries |-> NoData]
    /\ racing = [n \in Nodes |-> {}]
    /\ sealedBy = "nobody"

----------------------------------------------------------------------------
(* LedgerHandle::do_append *)

\* The body of one attempt up to join_all: entry `next` goes to WriteSet.
\* ws is the write set of the fragment the attempt uses.
Send(ws, d) ==
    /\ sent' = [n \in Nodes |-> IF n \in ws THEN sent[n] \cup {[entry |-> next, data |-> d]}
                                            ELSE sent[n]]
    /\ outcome' = [n \in Nodes |-> IF n \in ws THEN "waiting" ELSE "none"]

append(d) ==
    /\ at = "idle"
    /\ hmd.state = "Open"
    /\ next < MaxEntries
    /\ at' = "join"
    /\ data' = d
    /\ attempt' = 0
    /\ Send(WriteSet, d)
    /\ UNCHANGED <<md, stored, fenced, handling, hmd, next, lac, rec, historyVars>>

\* The writer's call to n fails: the request may still arrive, or not.
CallFails(n) ==
    /\ outcome[n] = "waiting"
    /\ faults < MaxFaults
    /\ faults' = faults + 1
    /\ outcome' = [outcome EXCEPT ![n] = "failed"]
    /\ UNCHANGED <<md, nodeVars, hmd, next, lac, at, data, attempt, rec,
                   storeErrors, acked, racing, sealedBy>>

\* do_append returns with no fragment change to make.
Return == at' = "idle" /\ data' = NoData /\ outcome' = [n \in Nodes |-> "none"]

\* Every call has been answered.
Joined == at = "join" /\ \A n \in WriteSet : outcome[n] # "waiting"
SawFence == \E n \in WriteSet : outcome[n] = "fenced"

AppendFenced ==
    /\ Joined
    /\ SawFence
    /\ Return
    /\ UNCHANGED <<md, nodeVars, hmd, next, lac, attempt, rec, historyVars>>

\* LacTracker::advance: every local_lac a node reports is an earlier value of
\* this handle's own lac, so the new lac is the larger of lac and the entry.
advance(e) == IF e > lac THEN e ELSE lac

AppendQuorum ==
    /\ Joined
    /\ ~SawFence
    /\ Cardinality(Acks) >= AckQuorum
    /\ lac' = advance(next)
    /\ hmd' = [hmd EXCEPT !.lac = advance(next), !.last = next]
    /\ next' = next + 1
    /\ \/ /\ Failed = {}
          /\ Return
          /\ acked' = [acked EXCEPT ![next] = data]
       \/ /\ Failed # {}
          /\ at' = "change"
          /\ UNCHANGED <<data, outcome, acked>>
    /\ UNCHANGED <<md, nodeVars, attempt, rec, faults, storeErrors, racing, sealedBy>>

AppendNoQuorum ==
    /\ Joined
    /\ ~SawFence
    /\ Cardinality(Acks) < AckQuorum
    /\ \/ /\ Failed # {}
          /\ attempt = 0
          /\ at' = "replace"
          /\ UNCHANGED <<data, outcome>>
       \/ /\ Failed = {} \/ attempt # 0
          /\ Return
    /\ UNCHANGED <<md, nodeVars, hmd, next, lac, attempt, rec, historyVars>>

----------------------------------------------------------------------------
(* change_fragment *)

\* The k-th smallest member of I.
Kth(I, k) == CHOOSE i \in I : Cardinality({j \in I : j <= i}) = k

\* The first `limit` elements of s that are in S, in their order.
Filter(s, S, limit) ==
    LET I == {i \in DOMAIN s : s[i] \in S}
        len == IF limit < Cardinality(I) THEN limit ELSE Cardinality(I) IN
    [k \in 1..len |-> s[Kth(I, k)]]

Survivors == LET ens == Last(hmd.fragments).ensemble IN Filter(ens, Nodes \ Failed, Len(ens))

\* Mutant: a node already in the ensemble is taken as a spare.
SparesAnyNode(rw) == Filter([n \in Nodes |-> n], rw, Cardinality(Failed))

\* As many nodes from list_nodes as failed, in list order: ReadWrite (the set
\* rw) and not in the current ensemble.
Spares(rw) ==
    Filter([n \in Nodes |-> n], rw \ Members(Last(hmd.fragments)), Cardinality(Failed))

NewEnsemble(rw) == Survivors \o Spares(rw)

Pushed(rw) ==
    [hmd EXCEPT !.fragments = Append(@, [first |-> next, ensemble |-> NewEnsemble(rw)])]

\* put_ledger of m took effect in the store.
PutLedger(m) ==
    /\ md.version = m.version
    /\ md' = [m EXCEPT !.version = @ + 1]

\* What do_append does with the result of change_fragment.  After a quorum the
\* append returns Ok whatever the result is; otherwise a change that worked is
\* followed by the second attempt and one that failed by QuorumNotMet.
AfterChange(ok) ==
    \/ /\ at = "change"
       /\ acked' = [acked EXCEPT ![next - 1] = data]
       /\ Return
       /\ UNCHANGED <<attempt, sent>>
    \/ /\ at = "replace"
       /\ IF ok THEN /\ attempt' = 1
                     /\ at' = "join"
                     /\ Send({Last(hmd'.fragments).ensemble[i] : i \in 1..WriteQuorum}, data)
                     /\ UNCHANGED data
                ELSE Return /\ UNCHANGED <<attempt, sent>>
       /\ UNCHANGED acked

\* Too few nodes for the write quorum, or list_nodes fails: no fragment is
\* pushed.
ChangeNotTried(rw) ==
    /\ at \in {"change", "replace"}
    /\ \/ Len(NewEnsemble(rw)) < WriteQuorum /\ UNCHANGED storeErrors
       \/ storeErrors < MaxStoreErrors /\ storeErrors' = storeErrors + 1
    /\ UNCHANGED hmd
    /\ AfterChange(FALSE)
    /\ UNCHANGED <<md, stored, fenced, handling, next, lac, rec, faults, racing, sealedBy>>

ChangeStored(rw) ==
    /\ at \in {"change", "replace"}
    /\ Len(NewEnsemble(rw)) >= WriteQuorum
    /\ PutLedger(Pushed(rw))
    /\ hmd' = md'
    /\ AfterChange(TRUE)
    /\ UNCHANGED <<stored, fenced, handling, next, lac, rec, faults, storeErrors, racing, sealedBy>>

\* Mutant: a failed put_ledger is rolled back in self.metadata.
ChangeRolledBack(rw, took) ==
    /\ at \in {"change", "replace"}
    /\ Len(NewEnsemble(rw)) >= WriteQuorum
    /\ UNCHANGED hmd
    /\ \/ ~took /\ md.version # hmd.version /\ UNCHANGED <<md, storeErrors>>
       \/ /\ storeErrors < MaxStoreErrors
          /\ storeErrors' = storeErrors + 1
          /\ IF took THEN PutLedger(Pushed(rw)) ELSE UNCHANGED md
    /\ AfterChange(FALSE)
    /\ UNCHANGED <<stored, fenced, handling, next, lac, rec, faults, racing, sealedBy>>

\* put_ledger fails.  The fragment was pushed into self.metadata before the
\* call and stays there.  `took` is TRUE when only the answer of etcd is lost.
ChangeNotStored(rw, took) ==
    /\ at \in {"change", "replace"}
    /\ Len(NewEnsemble(rw)) >= WriteQuorum
    /\ hmd' = Pushed(rw)
    /\ \/ ~took /\ md.version # hmd.version /\ UNCHANGED <<md, storeErrors>>
       \/ /\ storeErrors < MaxStoreErrors
          /\ storeErrors' = storeErrors + 1
          /\ IF took THEN PutLedger(Pushed(rw)) ELSE UNCHANGED md
    /\ AfterChange(FALSE)
    /\ UNCHANGED <<stored, fenced, handling, next, lac, rec, faults, racing, sealedBy>>

----------------------------------------------------------------------------
(* The storage nodes: JournalService::add_entry *)

\* The answer q gets, if the writer is still waiting for it.
Answer(n, q, result) ==
    outcome' = IF outcome[n] = "waiting" /\ q = [entry |-> next, data |-> data]
                 THEN [outcome EXCEPT ![n] = result] ELSE outcome

\* Mutant: a duplicate gets no answer.
AddSilentDuplicate(n, q) ==
    /\ q \in sent[n]
    /\ sent' = [sent EXCEPT ![n] = @ \ {q}]
    /\ \/ fenced[n] /\ Answer(n, q, "fenced") /\ UNCHANGED handling
       \/ /\ ~fenced[n]
          /\ stored[n][q.entry] # NoData
          /\ UNCHANGED <<outcome, handling>>
       \/ /\ ~fenced[n]
          /\ stored[n][q.entry] = NoData
          /\ handling' = [handling EXCEPT ![n] = @ \cup {q}]
          /\ UNCHANGED outcome
    /\ UNCHANGED <<md, stored, fenced, hmd, next, lac, at, data, attempt, rec, historyVars>>

\* Mutant: no fence check.
AddUnfenced(n, q) ==
    /\ q \in sent[n]
    /\ sent' = [sent EXCEPT ![n] = @ \ {q}]
    /\ \/ stored[n][q.entry] # NoData /\ Answer(n, q, "ok") /\ UNCHANGED handling
       \/ /\ stored[n][q.entry] = NoData
          /\ handling' = [handling EXCEPT ![n] = @ \cup {q}]
          /\ UNCHANGED outcome
    /\ UNCHANGED <<md, stored, fenced, hmd, next, lac, at, data, attempt, rec, historyVars>>

\* The fence check and the duplicate check.
add_entry(n, q) ==
    /\ q \in sent[n]
    /\ sent' = [sent EXCEPT ![n] = @ \ {q}]
    /\ \/ fenced[n] /\ Answer(n, q, "fenced") /\ UNCHANGED handling
       \/ /\ ~fenced[n]
          /\ stored[n][q.entry] # NoData
          /\ Answer(n, q, "ok")
          /\ UNCHANGED handling
       \/ /\ ~fenced[n]
          /\ stored[n][q.entry] = NoData
          /\ handling' = [handling EXCEPT ![n] = @ \cup {q}]
          /\ UNCHANGED outcome
    /\ UNCHANGED <<md, stored, fenced, hmd, next, lac, at, data, attempt, rec, historyVars>>

\* The WAL write has returned: the entry is stored and acknowledged.
EntryWritten(n, q) ==
    /\ q \in handling[n]
    /\ handling' = [handling EXCEPT ![n] = @ \ {q}]
    /\ stored' = [stored EXCEPT ![n][q.entry] = q.data]
    /\ Answer(n, q, "ok")
    /\ UNCHANGED <<md, fenced, sent, hmd, next, lac, at, data, attempt, rec, historyVars>>

----------------------------------------------------------------------------
(* RecoveryManager::fence_and_seal *)

\* transition_state(Open, InRecovery).
BeginRecovery(r) ==
    /\ rec[r].at = "idle"
    /\ md.state = "Open"
    /\ PutLedger([md EXCEPT !.state = "InRecovery"])
    /\ rec' = [rec EXCEPT ![r] = Fencing(md', 0, 0)]
    /\ UNCHANGED <<nodeVars, handleVars, historyVars>>

\* transition_state was refused, or failed: the record is read as it is.
JoinRecovery(r) ==
    /\ rec[r].at = "idle"
    /\ rec' = [rec EXCEPT ![r] = Fencing(md, 0, 0)]
    /\ UNCHANGED <<md, nodeVars, handleVars, historyVars>>

\* JournalService::fence_ledger: the highest entry stored, 0 when there is none.
HighestStored(n) == Maximum({e \in Entries : stored[n][e] # NoData} \cup {0})

\* The loop over the ensemble of the last fragment; any error ends the call
\* (`answered` is FALSE).
fence_ledger(r, answered) ==
    LET ens == Last(rec[r].md.fragments).ensemble
        n == ens[rec[r].i + 1] IN
    /\ rec[r].at = "fence"
    /\ rec[r].i < Len(ens)
    /\ fenced' = [fenced EXCEPT ![n] = TRUE]
    /\ racing' = [racing EXCEPT ![n] = @ \cup {q.entry : q \in handling[n]}]
    /\ rec' = [rec EXCEPT ![r] = IF answered
                                   THEN Fencing(@.md, @.i + 1, Maximum({@.hi, HighestStored(n)}))
                                   ELSE Done]
    /\ UNCHANGED <<md, stored, sent, handling, handleVars, faults, storeErrors, acked, sealedBy>>

\* checked_sub(1).
SealedLast(hi) == IF hi = 0 THEN NONE ELSE hi - 1

\* m closed with the given last_entry_id and lac.
Closed(m, lastEntry, sealedLac) ==
    [state |-> "Closed", fragments |-> m.fragments, last |-> lastEntry, lac |-> sealedLac,
     version |-> m.version]

Sealed(r) == Closed(rec[r].md, SealedLast(rec[r].hi), rec[r].hi)

\* Mutant: the record is sealed once one node has answered.
SealAfterFirst(r) ==
    /\ rec[r].at = "fence"
    /\ rec[r].i = 1
    /\ PutLedger(Sealed(r))
    /\ sealedBy' = "recovery"
    /\ rec' = [rec EXCEPT ![r] = Done]
    /\ UNCHANGED <<nodeVars, handleVars, faults, storeErrors, acked, racing>>

\* put_ledger of the sealed record.
SealRecovered(r) ==
    /\ rec[r].at = "fence"
    /\ rec[r].i = Len(Last(rec[r].md.fragments).ensemble)
    /\ PutLedger(Sealed(r))
    /\ sealedBy' = "recovery"
    /\ rec' = [rec EXCEPT ![r] = Done]
    /\ UNCHANGED <<nodeVars, handleVars, faults, storeErrors, acked, racing>>

\* A node does not resolve or refuses, or put_ledger fails.
RecoveryFails(r) ==
    /\ rec[r].at = "fence"
    /\ rec' = [rec EXCEPT ![r] = Done]
    /\ UNCHANGED <<md, nodeVars, handleVars, historyVars>>

----------------------------------------------------------------------------
(* Client::seal_ledger *)

\* The application hands over its handle's lac.
seal_ledger ==
    /\ Sealing
    /\ md.state # "Closed"
    /\ PutLedger(Closed(md, lac, lac))
    /\ sealedBy' = "client"
    /\ UNCHANGED <<nodeVars, handleVars, rec, faults, storeErrors, acked, racing>>

----------------------------------------------------------------------------
(* LedgerHandle::read: the fragment an entry is looked up in *)

\* Mutant: the first such fragment.
FirstFragment(fragments, e) ==
    fragments[CHOOSE i \in 1..Len(fragments) :
                /\ fragments[i].first <= e
                /\ \A j \in 1..Len(fragments) : j < i => fragments[j].first > e]

\* The last fragment that starts at or before e.
FragmentOf(fragments, e) ==
    fragments[CHOOSE i \in 1..Len(fragments) :
                /\ fragments[i].first <= e
                /\ \A j \in 1..Len(fragments) : j > i => fragments[j].first > e]

----------------------------------------------------------------------------
Start == \E d \in Data : append(d)

Writer ==
    \/ AppendFenced \/ AppendQuorum \/ AppendNoQuorum
    \/ \E rw \in SUBSET Nodes :
          \/ ChangeNotTried(rw)
          \/ ChangeStored(rw)
          \/ \E took \in BOOLEAN : ChangeNotStored(rw, took)

Node(n) ==
    \/ \E q \in sent[n] : add_entry(n, q)
    \/ \E q \in handling[n] : EntryWritten(n, q)

Recovery(r) ==
    \/ BeginRecovery(r) \/ JoinRecovery(r) \/ SealRecovered(r) \/ RecoveryFails(r)
    \/ \E answered \in BOOLEAN : fence_ledger(r, answered)

Next ==
    \/ Start
    \/ Writer
    \/ \E n \in Nodes : Node(n) \/ CallFails(n)
    \/ \E r \in Recoverers : Recovery(r)
    \/ seal_ledger

Spec == Init /\ [][Next]_vars

\* The runtime polls every task that can move: do_append once its calls are
\* answered, and the handlers on a node.  Nothing obliges an application to
\* append, a call to fail or a recovery to make progress.
FairSpec ==
    /\ Spec
    /\ WF_vars(Writer)
    /\ \A n \in Nodes : WF_vars(Node(n))

----------------------------------------------------------------------------
(* Properties that hold *)

WellFormed(m) ==
    /\ m.fragments # <<>>
    /\ \A k \in 1..Len(m.fragments) :
          LET ens == m.fragments[k].ensemble IN
          /\ Len(ens) >= WriteQuorum
          /\ \A i, j \in 1..Len(ens) : ens[i] = ens[j] => i = j

\* Types; no fragment names a node twice or has fewer nodes than the write
\* quorum (change_fragment keeps both).
TypeOK ==
    /\ md \in LedgerMetadata /\ hmd \in LedgerMetadata
    /\ WellFormed(md) /\ WellFormed(hmd)
    /\ stored \in [Nodes -> [Entries -> Data \cup {NoData}]]
    /\ fenced \in [Nodes -> BOOLEAN]
    /\ sent \in [Nodes -> SUBSET Request]
    /\ handling \in [Nodes -> SUBSET Request]
    /\ next \in 0..MaxEntries
    /\ lac \in Nat
    /\ at \in {"idle", "join", "change", "replace"}
    /\ data \in Data \cup {NoData}
    /\ attempt \in {0, 1}
    /\ outcome \in [Nodes -> {"none", "waiting", "ok", "fenced", "failed"}]
    /\ rec \in [Recoverers -> [at: {"idle", "fence", "done"}, md: LedgerMetadata, i: Nat, hi: Nat]]
    /\ faults \in 0..MaxFaults
    /\ storeErrors \in 0..MaxStoreErrors
    /\ acked \in [Entries -> Data \cup {NoData}]
    /\ racing \in [Nodes -> SUBSET Entries]
    /\ sealedBy \in {"nobody", "client", "recovery"}

Acked(e) == acked[e] # NoData

\* n holds entry e.
Holds(n, e) == stored[n][e] # NoData

\* Every entry append returned Ok for is within the handle's own limits, and
\* the fragment `read` looks it up in has an ack quorum of members that hold
\* it: after failed calls, replaced nodes, fragments that start at the same
\* entry and fragment changes the store refused.
ReadFindsAcked ==
    \A e \in Entries : Acked(e) =>
        /\ e <= hmd.last /\ e <= lac
        /\ \E Q \in SUBSET Members(FragmentOf(hmd.fragments, e)) :
              Cardinality(Q) >= AckQuorum /\ \A n \in Q : Holds(n, e)

\* The store never knows a fragment the writer does not: the stored list is
\* the writer's or a prefix of it, also after an answer of etcd is lost.
StoredIsPrefix ==
    /\ Len(md.fragments) <= Len(hmd.fragments)
    /\ \A k \in 1..Len(md.fragments) : md.fragments[k] = hmd.fragments[k]

\* After fence_and_seal a node of the sealed fragment is fenced, and it holds
\* an entry above the sealed LAC only if the add_entry of that entry had passed
\* the fence check when fence_ledger set the fence.
SealCoversStored ==
    sealedBy = "recovery" =>
        \A n \in Members(Last(md.fragments)) :
            /\ fenced[n]
            /\ \A e \in Entries : Holds(n, e) => e <= md.lac \/ e \in racing[n]

\* With a majority ack quorum, and as long as the writer has not moved to a new
\* fragment, at most the one entry in flight is acknowledged above the LAC a
\* recovery seals the ledger with: its nodes may all have passed the fence check
\* before they were fenced, but then the next append meets a fenced node in
\* every ack quorum.
SealShortByAtMostOne ==
    2 * AckQuorum > WriteQuorum /\ sealedBy = "recovery" /\ Len(hmd.fragments) = 1 =>
        \A e \in Entries : Acked(e) => e <= md.lac + 1

\* An append that has begun returns, whatever calls fail, whatever the store
\* answers and whichever replicas already hold the entry.
AppendReturns == (at # "idle") ~> (at = "idle")

----------------------------------------------------------------------------
(* What the comments promise and the code does not do *)

\* fence_and_seal leaves no acknowledged entry within the sealed LAC out of
\* the readers' reach (read refuses entries above last_entry_id).
SealedLastCoversLac ==
    sealedBy = "recovery" => \A e \in Entries : Acked(e) /\ e <= md.lac => e <= md.last

\* The sealed LAC covers every acknowledged entry of the fragments before the
\* last one.
SealCoversEarlierFragments ==
    sealedBy = "recovery" =>
        \A e \in Entries : Acked(e) /\ e < Last(md.fragments).first => e <= md.lac
=============================================================================
