-------------------------- MODULE LedgerQuorum_proof --------------------------
(***************************************************************************)
(* Ledger, continued: where the entries a quorum acknowledged are, and how *)
(* far a sealed ledger may fall short of them.                             *)
(***************************************************************************)
EXTENDS Ledger_proof

----------------------------------------------------------------------------
(* The fragment `read` looks an entry up in *)

\* The entries fragments start at are naturals.
LEMMA FirstsAreNat ==
    ASSUME NEW s \in Seq(Fragment)
    PROVE  Len(s) \in Nat /\ \A j \in 1..Len(s) : s[j].first \in Nat
  <1>1. \A j \in 1..Len(s) : s[j] \in Fragment
    OBVIOUS
  <1>2. \A f \in Fragment : f.first \in Nat
    BY DEF Fragment
  <1> QED
    BY <1>1, <1>2

\* FragmentOf is the only fragment that starts at or before the entry and is
\* followed by none that does.
LEMMA FragmentAt ==
    ASSUME NEW s \in Seq(Fragment), NEW e \in Nat, NEW i \in 1..Len(s),
           s[i].first <= e, \A j \in 1..Len(s) : j > i => s[j].first > e
    PROVE  FragmentOf(s, e) = s[i]
  <1> DEFINE P(k) == s[k].first <= e /\ \A j \in 1..Len(s) : j > k => s[j].first > e
  <1>1. \A j \in 1..Len(s) : s[j].first \in Nat
    BY FirstsAreNat
  <1>2. ASSUME NEW c \in 1..Len(s), P(c) PROVE c = i
    BY <1>1, <1>2
  <1>3. P(i)
    OBVIOUS
  <1>4. (CHOOSE k \in 1..Len(s) : P(k)) = i
    <2> HIDE DEF P
    <2>1. PICK c \in 1..Len(s) : P(c) /\ c = (CHOOSE k \in 1..Len(s) : P(k))
      BY <1>3
    <2> QED
      BY <1>2, <2>1
  <1> QED
    BY <1>4, Zenon DEF FragmentOf, P

\* There is one for every entry when the first fragment starts at 0.
LEMMA FragmentExists ==
    ASSUME NEW s \in Seq(Fragment), Len(s) >= 1, s[1].first = 0, NEW e \in Nat
    PROVE  \E i \in 1..Len(s) : /\ s[i].first <= e
                                /\ \A j \in 1..Len(s) : j > i => s[j].first > e
  <1> DEFINE I == {i \in 1..Len(s) : s[i].first <= e}
  <1>1. Len(s) \in Nat /\ \A j \in 1..Len(s) : s[j].first \in Nat
    BY FirstsAreNat
  <1>2. I \in SUBSET Nat /\ 1 \in I /\ \A i \in I : i <= Len(s)
    BY <1>1
  <1>3. PICK i \in I : \A j \in I : j <= i
    <2> HIDE DEF I
    <2> QED
      BY <1>1, <1>2, GreatestNat, Zenon
  <1>4. ASSUME NEW j \in 1..Len(s), j > i PROVE s[j].first > e
    <2>1. j \notin I
      BY <1>1, <1>3, <1>4
    <2> QED
      BY <1>1, <2>1
  <1> QED
    BY <1>3, <1>4

\* A fragment that starts later does not change it.
LEMMA FragmentOfAppend ==
    ASSUME NEW s \in Seq(Fragment), Len(s) >= 1, s[1].first = 0, NEW e \in Nat,
           NEW f \in Fragment, e < f.first
    PROVE  FragmentOf(Append(s, f), e) = FragmentOf(s, e)
  <1>1. PICK i \in 1..Len(s) : /\ s[i].first <= e
                               /\ \A j \in 1..Len(s) : j > i => s[j].first > e
    BY FragmentExists, Zenon
  <1>2. FragmentOf(s, e) = s[i]
    BY <1>1, FragmentAt, Zenon
  <1> DEFINE t == Append(s, f)
  <1>3. /\ t \in Seq(Fragment) /\ Len(t) = Len(s) + 1 /\ Len(s) \in Nat
        /\ \A j \in 1..Len(s) : t[j] = s[j]
        /\ t[Len(s) + 1] = f
    OBVIOUS
  <1> HIDE DEF t
  <1>4. i \in 1..Len(t) /\ t[i].first <= e
    BY <1>1, <1>3
  <1>5. ASSUME NEW j \in 1..Len(t), j > i PROVE t[j].first > e
    <2>1. CASE j = Len(s) + 1
      BY <1>3, <2>1 DEF Fragment
    <2>2. CASE j # Len(s) + 1
      BY <1>1, <1>3, <1>5, <2>2
    <2> QED
      BY <2>1, <2>2
  <1>6. FragmentOf(t, e) = t[i]
    BY <1>3, <1>4, <1>5, FragmentAt, Zenon
  <1> QED
    BY <1>1, <1>2, <1>3, <1>6 DEF t

----------------------------------------------------------------------------
(* The entries a quorum holds *)

\* The nodes of fragment f that an append writes to.
WriteNodes(f) == {f.ensemble[i] : i \in 1..WriteQuorum}

\* No fragment starts above the next entry.
FragmentsInv == \A k \in 1..Len(hmd.fragments) : hmd.fragments[k].first <= next

\* No request was sent for an entry above the next one.
InFlightInv ==
    \A n \in Nodes :
        /\ \A q \in sent[n] \cup handling[n] : q.entry <= next
        /\ \A e \in racing[n] : e <= next

\* A node that answered Ok in this attempt holds the entry.
OutcomeInv == at = "join" => \A n \in Nodes : outcome[n] = "ok" => Holds(n, next)

\* The handle's limits are those of the entry before the next one.
LimitsInv ==
    /\ hmd.last = next - 1 /\ lac >= next - 1
    /\ \A e \in Entries : Acked(e) => e < next
    /\ at = "change" => next >= 1

\* Recovery r has fenced node n.
Visited(r, n) ==
    /\ rec[r].at = "fence"
    /\ \E k \in 1..rec[r].i : Last(rec[r].md.fragments).ensemble[k] = n

\* If entry e + 1 was being handled when n was fenced, every recovery that has
\* been to n, and the one that sealed the ledger, has seen e.
Seen(n, e) ==
    fenced[n] /\ e + 1 \in racing[n] =>
        /\ \A r \in Recoverers : Visited(r, n) => e <= rec[r].hi
        /\ sealedBy = "recovery" => e <= md.lac

\* Q acknowledged e.
Acknowledged(Q, e) ==
    /\ Q \subseteq WriteNodes(FragmentOf(hmd.fragments, e))
    /\ Cardinality(Q) >= AckQuorum
    /\ \A n \in Q : Holds(n, e) /\ (Len(hmd.fragments) = 1 => Seen(n, e))

\* Every entry before the next one was acknowledged by a quorum.
QuorumInv == \A e \in Entries : e < next => \E Q \in SUBSET Nodes : Acknowledged(Q, e)

WInv ==
    /\ IInv /\ PrefixInv
    /\ FragmentsInv /\ InFlightInv /\ OutcomeInv /\ LimitsInv /\ QuorumInv

\* Only a quorum moves the next entry.
LEMMA EntryStep ==
    ASSUME [Next]_vars
    PROVE  next' = next \/ (AppendQuorum /\ next' = next + 1)
    BY Zenon DEF Next, Start, Writer, Node, Recovery, append, CallFails, AppendFenced, AppendNoQuorum,
           AppendQuorum, ChangeNotTried, ChangeStored, ChangeNotStored, add_entry, EntryWritten,
           BeginRecovery, JoinRecovery, fence_ledger, SealRecovered, RecoveryFails, seal_ledger,
           vars, handleVars

\* A pushed fragment starts at the next entry, and that never goes back.
LEMMA FragmentsNext ==
    ASSUME TInv, TInv', FragmentsInv, [Next]_vars
    PROVE  FragmentsInv'
  <1>1. next \in Nat /\ next' \in Nat /\ next <= next'
    BY EntryStep, LedgerConstants DEF TInv, TypeOK
  <1>2. hmd.fragments \in Seq(Fragment)
    BY DEF TInv, TypeOK, LedgerMetadata
  <1>3. \A k \in 1..Len(hmd.fragments) : hmd.fragments[k].first \in Nat
    BY <1>2, FirstsAreNat
  <1>4. CASE hmd'.fragments = hmd.fragments
    BY <1>1, <1>3, <1>4 DEF FragmentsInv
  <1>5. ASSUME NEW f \in Fragment, f.first = next, hmd'.fragments = Append(hmd.fragments, f)
        PROVE  FragmentsInv'
    <2> SUFFICES ASSUME NEW k \in 1..Len(hmd'.fragments) PROVE hmd'.fragments[k].first <= next'
      BY DEF FragmentsInv
    <2>1. CASE k = Len(hmd.fragments) + 1
      BY <1>1, <1>2, <1>5, <2>1
    <2>2. CASE k # Len(hmd.fragments) + 1
      <3>1. k \in 1..Len(hmd.fragments) /\ hmd'.fragments[k] = hmd.fragments[k]
        BY <1>2, <1>5, <2>2
      <3> QED
        BY <1>1, <1>3, <3>1 DEF FragmentsInv
    <2> QED
      BY <2>1, <2>2
  <1> QED
    BY <1>4, <1>5, HandleStep DEF HandlePushes

\* What AfterChange adds to the requests under way.
LEMMA AfterChangeSends ==
    ASSUME NEW ok \in BOOLEAN, AfterChange(ok)
    PROVE  \/ UNCHANGED sent
           \/ \E ws : Send(ws, data)
    BY DEF AfterChange, Return

\* A request is sent for the next entry, and that never goes back.
LEMMA InFlightNext ==
    ASSUME TInv, TInv', InFlightInv, [Next]_vars
    PROVE  InFlightInv'
  <1>0. /\ next \in Nat /\ next' \in Nat /\ next <= next'
        /\ sent \in [Nodes -> SUBSET Request] /\ handling \in [Nodes -> SUBSET Request]
        /\ racing \in [Nodes -> SUBSET Entries]
    BY EntryStep, LedgerConstants DEF TInv, TypeOK
  <1>1. /\ \A q \in Request : q.entry \in Nat
        /\ \A e \in Entries : e \in Nat
    BY EntriesAreNat, Zenon DEF Request
  <1> DEFINE Low(S) == \A q \in S : q.entry <= next
  <1>2. \A S \in SUBSET Request : Low(S) => \A q \in S : q.entry <= next'
    BY <1>0, <1>1
  <1>3. ASSUME \A n \in Nodes : Low(sent'[n]) /\ Low(handling'[n]),
               \A n \in Nodes : \A e \in racing'[n] : e <= next
        PROVE  InFlightInv'
    <2>1. \A n \in Nodes : sent'[n] \in SUBSET Request /\ handling'[n] \in SUBSET Request
                           /\ racing'[n] \in SUBSET Entries
      BY DEF TInv, TypeOK
    <2>2. \A n \in Nodes : \A q \in sent'[n] \cup handling'[n] : q.entry <= next'
      BY <1>2, <1>3, <2>1
    <2>3. \A n \in Nodes : \A e \in racing'[n] : e <= next'
      BY <1>0, <1>1, <1>3, <2>1
    <2> QED
      BY <2>2, <2>3 DEF InFlightInv
  <1>4. \A n \in Nodes : Low(sent[n]) /\ Low(handling[n]) /\ \A e \in racing[n] : e <= next
    BY DEF InFlightInv
  <1>5. ASSUME NEW ws, NEW d, Send(ws, d) PROVE \A n \in Nodes : Low(sent'[n])
    BY <1>0, <1>4, <1>5 DEF Send
  <1>6. ASSUME UNCHANGED <<handling, racing>>, UNCHANGED sent \/ \E ws, d : Send(ws, d)
        PROVE  InFlightInv'
    <2>1. \A n \in Nodes : Low(sent'[n])
      BY <1>4, <1>5, <1>6
    <2> HIDE DEF Low
    <2> QED
      BY <1>3, <1>4, <1>6, <2>1
  <1>7. ASSUME NEW n \in Nodes, NEW q \in sent[n], add_entry(n, q) PROVE InFlightInv'
    <2>1. /\ sent' = [sent EXCEPT ![n] = @ \ {q}] /\ UNCHANGED racing
          /\ handling' = handling \/ handling' = [handling EXCEPT ![n] = @ \cup {q}]
      BY <1>7 DEF add_entry, historyVars
    <2>2. \A m \in Nodes : Low(sent'[m]) /\ Low(handling'[m])
      BY <1>0, <1>4, <2>1
    <2> QED
      BY <1>3, <1>4, <2>1, <2>2
  <1>8. ASSUME NEW n \in Nodes, NEW q \in handling[n], EntryWritten(n, q) PROVE InFlightInv'
    <2>1. /\ handling' = [handling EXCEPT ![n] = @ \ {q}] /\ UNCHANGED <<sent, racing>>
      BY <1>8 DEF EntryWritten, historyVars
    <2>2. \A m \in Nodes : Low(sent'[m]) /\ Low(handling'[m])
      BY <1>0, <1>4, <2>1
    <2> QED
      BY <1>3, <1>4, <2>1, <2>2, Zenon
  <1>9. ASSUME NEW r \in Recoverers, NEW answered \in BOOLEAN, fence_ledger(r, answered)
        PROVE  InFlightInv'
    <2>1. PICK n : racing' = [racing EXCEPT ![n] = @ \cup {q.entry : q \in handling[n]}]
      BY <1>9, Zenon DEF fence_ledger
    <2>2. \A m \in Nodes : \A e \in racing'[m] : e <= next
      BY <1>0, <1>4, <2>1
    <2>3. UNCHANGED <<sent, handling>>
      BY <1>9, Zenon DEF fence_ledger
    <2> QED
      BY <1>3, <1>4, <2>2, <2>3
  <1>10. ASSUME NEW rw \in SUBSET Nodes,
                ChangeNotTried(rw) \/ ChangeStored(rw) \/ \E took \in BOOLEAN : ChangeNotStored(rw, took)
         PROVE  InFlightInv'
    <2>1. AfterChange(TRUE) \/ AfterChange(FALSE)
      BY <1>10, Zenon DEF ChangeNotTried, ChangeStored, ChangeNotStored
    <2>2. UNCHANGED <<handling, racing>>
      BY <1>10, Zenon DEF ChangeNotTried, ChangeStored, ChangeNotStored
    <2> QED
      BY <1>6, <2>1, <2>2, AfterChangeSends, Zenon
  <1>11. ASSUME NEW d \in Data, append(d) PROVE InFlightInv'
    BY <1>6, <1>11 DEF append, historyVars
  <1>12. CASE UNCHANGED <<sent, handling, racing>>
    BY <1>6, <1>12
  <1>13. \/ \E n \in Nodes : (\E q \in sent[n] : add_entry(n, q)) \/ (\E q \in handling[n] : EntryWritten(n, q))
         \/ \E r \in Recoverers : \E answered \in BOOLEAN : fence_ledger(r, answered)
         \/ \E rw \in SUBSET Nodes :
              ChangeNotTried(rw) \/ ChangeStored(rw) \/ \E took \in BOOLEAN : ChangeNotStored(rw, took)
         \/ \E d \in Data : append(d)
         \/ UNCHANGED <<sent, handling, racing>>
    BY Zenon DEF Next, Start, Writer, Node, Recovery, CallFails, AppendFenced, AppendNoQuorum,
           AppendQuorum, BeginRecovery, JoinRecovery, SealRecovered, RecoveryFails, seal_ledger,
           vars, nodeVars, historyVars
  <1> QED
    BY <1>7, <1>8, <1>9, <1>10, <1>11, <1>12, <1>13

\* An attempt starts with no answers, and a node answers Ok only for an entry
\* it holds.
LEMMA OutcomeNext ==
    ASSUME TInv, OutcomeInv, [Next]_vars
    PROVE  OutcomeInv'
  <1>0. /\ stored \in [Nodes -> [Entries -> Data \cup {NoData}]]
        /\ handling \in [Nodes -> SUBSET Request] /\ sent \in [Nodes -> SUBSET Request]
        /\ outcome \in [Nodes -> {"none", "waiting", "ok", "fenced", "failed"}]
    BY DEF TInv, TypeOK
  <1>1. CASE at' # "join"
    BY <1>1 DEF OutcomeInv
  <1>2. ASSUME NEW ws, NEW d, Send(ws, d) PROVE OutcomeInv'
    BY <1>2 DEF Send, OutcomeInv
  <1>3. CASE UNCHANGED <<at, next, outcome, stored>>
    BY <1>3 DEF OutcomeInv, Holds
  <1>4. ASSUME NEW n \in Nodes, CallFails(n) PROVE OutcomeInv'
    BY <1>0, <1>4 DEF CallFails, OutcomeInv, Holds, nodeVars
  <1>5. ASSUME NEW n \in Nodes, NEW q, NEW result \in {"ok", "fenced"}, Answer(n, q, result),
               UNCHANGED <<at, next>>, result = "ok" => Holds(n, q.entry)',
               \A m \in Nodes, e \in Entries : Holds(m, e) => Holds(m, e)',
               at = "join" => next \in Entries
        PROVE  OutcomeInv'
    <2> SUFFICES ASSUME at' = "join", NEW m \in Nodes, outcome'[m] = "ok" PROVE Holds(m, next)'
      BY DEF OutcomeInv
    <2>1. CASE outcome[m] = "ok"
      BY <1>5, <2>1 DEF OutcomeInv
    <2>2. CASE outcome[m] # "ok"
      <3>1. m = n /\ result = "ok" /\ q = [entry |-> next, data |-> data]
        BY <1>0, <1>5, <2>2 DEF Answer
      <3>2. q.entry = next
        BY <3>1
      <3> QED
        BY <1>5, <3>1, <3>2 DEF Holds
    <2> QED
      BY <2>1, <2>2
  <1>6. at = "join" => next \in Entries
    BY DEF TInv
  <1>7. ASSUME NEW n \in Nodes, NEW q \in sent[n], add_entry(n, q) PROVE OutcomeInv'
    <2>1. UNCHANGED <<at, next, stored>>
      BY <1>7, Zenon DEF add_entry
    <2>2. \/ UNCHANGED outcome
          \/ Answer(n, q, "fenced")
          \/ stored[n][q.entry] # NoData /\ Answer(n, q, "ok")
      BY <1>7 DEF add_entry
    <2>3. \A m \in Nodes, e \in Entries : Holds(m, e) => Holds(m, e)'
      BY <2>1 DEF Holds
    <2>4. CASE Answer(n, q, "fenced")
      BY <1>5, <1>6, <2>1, <2>3, <2>4
    <2>5. CASE stored[n][q.entry] # NoData /\ Answer(n, q, "ok")
      <3>1. Holds(n, q.entry)'
        BY <2>1, <2>5 DEF Holds
      <3> QED
        BY <1>5, <1>6, <2>1, <2>3, <2>5, <3>1
    <2> QED
      BY <1>3, <2>1, <2>2, <2>4, <2>5, Zenon
  <1>8. ASSUME NEW n \in Nodes, NEW q \in handling[n], EntryWritten(n, q) PROVE OutcomeInv'
    <2>1. /\ UNCHANGED <<at, next>> /\ Answer(n, q, "ok")
          /\ stored' = [stored EXCEPT ![n][q.entry] = q.data]
      BY <1>8 DEF EntryWritten
    <2>2. q.entry \in Entries /\ q.data # NoData
      <3>1. q \in Request
        BY <1>0
      <3> QED
        BY <3>1, LedgerConstants DEF Request
    <2>3. Holds(n, q.entry)' /\ \A m \in Nodes, e \in Entries : Holds(m, e) => Holds(m, e)'
      BY <1>0, <2>1, <2>2 DEF Holds
    <2> QED
      BY <1>5, <1>6, <2>1, <2>3
  <1>9. ASSUME NEW ok \in BOOLEAN, AfterChange(ok) PROVE OutcomeInv'
    <2>1. CASE at' = "idle"
      BY <1>1, <2>1
    <2>2. CASE at' # "idle"
      <3>1. \E ws : Send(ws, data)
        BY <1>9, <2>2 DEF AfterChange, Return
      <3> QED
        BY <1>2, <3>1
    <2> QED
      BY <2>1, <2>2
  <1>10. ASSUME NEW rw \in SUBSET Nodes,
                ChangeNotTried(rw) \/ ChangeStored(rw) \/ \E took \in BOOLEAN : ChangeNotStored(rw, took)
         PROVE  OutcomeInv'
    <2>1. AfterChange(TRUE) \/ AfterChange(FALSE)
      BY <1>10, Zenon DEF ChangeNotTried, ChangeStored, ChangeNotStored
    <2> QED
      BY <1>9, <2>1, Zenon
  <1>11. ASSUME NEW d \in Data, append(d) PROVE OutcomeInv'
    BY <1>2, <1>11 DEF append
  <1>12. CASE AppendFenced \/ AppendQuorum \/ AppendNoQuorum
    BY <1>1, <1>12 DEF AppendFenced, AppendQuorum, AppendNoQuorum, Return
  <1>13. \/ \E n \in Nodes : \/ \E q \in sent[n] : add_entry(n, q)
                             \/ \E q \in handling[n] : EntryWritten(n, q)
                             \/ CallFails(n)
         \/ \E rw \in SUBSET Nodes :
              ChangeNotTried(rw) \/ ChangeStored(rw) \/ \E took \in BOOLEAN : ChangeNotStored(rw, took)
         \/ \E d \in Data : append(d)
         \/ AppendFenced \/ AppendQuorum \/ AppendNoQuorum
         \/ UNCHANGED <<at, next, outcome, stored>>
    BY Zenon DEF Next, Start, Writer, Node, Recovery, BeginRecovery, JoinRecovery, SealRecovered,
           RecoveryFails, fence_ledger, seal_ledger, vars, nodeVars, handleVars
  <1> QED
    BY <1>3, <1>4, <1>7, <1>8, <1>10, <1>11, <1>12, <1>13

\* A quorum moves the limits with the next entry, and append returns Ok only
\* for the entry before it.
LEMMA LimitsNext ==
    ASSUME TInv, TInv', LimitsInv, [Next]_vars
    PROVE  LimitsInv'
  <1>0. /\ next \in Nat /\ next' \in Nat /\ lac \in Nat
        /\ hmd \in LedgerMetadata /\ WellFormed(hmd)
        /\ acked \in [Entries -> Data \cup {NoData}]
        /\ \A e \in Entries : e \in Nat
    BY LedgerConstants, EntriesAreNat DEF TInv, TypeOK
  <1>1. CASE UNCHANGED <<hmd, next, lac, acked>> /\ at' # "change"
    BY <1>1 DEF LimitsInv, Acked
  <1>2. CASE UNCHANGED <<hmd, next, lac, acked, at>>
    BY <1>2 DEF LimitsInv, Acked
  <1>3. CASE AppendQuorum
    <2>1. /\ next' = next + 1 /\ lac' = advance(next)
          /\ hmd' = [hmd EXCEPT !.lac = advance(next), !.last = next]
          /\ acked' = acked \/ acked' = [acked EXCEPT ![next] = data]
      BY <1>3 DEF AppendQuorum
    <2>2. hmd'.last = next
      BY <1>0, <2>1 DEF LedgerMetadata
    <2>3. lac' >= next
      BY <1>0, <2>1 DEF advance
    <2>4. \A e \in Entries : acked'[e] # NoData => e < next + 1
      BY <1>0, <2>1 DEF LimitsInv, Acked
    <2> QED
      BY <1>0, <2>1, <2>2, <2>3, <2>4 DEF LimitsInv, Acked
  <1>4. ASSUME NEW ok \in BOOLEAN, AfterChange(ok), UNCHANGED <<next, lac>>, hmd'.last = hmd.last
        PROVE  LimitsInv'
    <2>1. at' # "change"
      BY <1>4 DEF AfterChange, Return
    <2>2. \A e \in Entries : acked'[e] # NoData => e < next
      <3>1. CASE UNCHANGED acked
        BY <3>1 DEF LimitsInv, Acked
      <3>2. CASE acked' = [acked EXCEPT ![next - 1] = data]
        BY <1>0, <3>2 DEF LimitsInv, Acked
      <3> QED
        BY <1>4, <3>1, <3>2 DEF AfterChange
    <2> QED
      BY <1>4, <2>1, <2>2 DEF LimitsInv, Acked
  <1>5. ASSUME NEW rw \in SUBSET Nodes, Len(NewEnsemble(rw)) >= WriteQuorum
        PROVE  Pushed(rw) \in LedgerMetadata /\ Pushed(rw).last = hmd.last
    <2>1. Pushed(rw) \in LedgerMetadata
      BY <1>0, <1>5, PushedType, Zenon
    <2>2. Pushed(rw).last = hmd.last
      BY <1>0 DEF Pushed, LedgerMetadata
    <2> QED
      BY <2>1, <2>2
  <1>6. ASSUME NEW rw \in SUBSET Nodes, ChangeStored(rw) PROVE LimitsInv'
    <2>1. hmd' = [Pushed(rw) EXCEPT !.version = @ + 1]
      BY <1>6 DEF ChangeStored, PutLedger
    <2>2. hmd'.last = hmd.last
      BY <1>5, <1>6, <2>1 DEF ChangeStored, LedgerMetadata
    <2> QED
      BY <1>4, <1>6, <2>2, Zenon DEF ChangeStored
  <1>7. ASSUME NEW rw \in SUBSET Nodes, NEW took \in BOOLEAN, ChangeNotStored(rw, took)
        PROVE  LimitsInv'
    BY <1>4, <1>5, <1>7, Zenon DEF ChangeNotStored
  <1>8. ASSUME NEW rw \in SUBSET Nodes, ChangeNotTried(rw) PROVE LimitsInv'
    BY <1>4, <1>8, Zenon DEF ChangeNotTried
  <1>9. ASSUME NEW d \in Data, append(d) PROVE LimitsInv'
    BY <1>1, <1>9 DEF append, historyVars
  <1>10. CASE AppendFenced \/ AppendNoQuorum
    BY <1>1, <1>10 DEF AppendFenced, AppendNoQuorum, Return, historyVars
  <1>11. \/ \E rw \in SUBSET Nodes :
              ChangeNotTried(rw) \/ ChangeStored(rw) \/ \E took \in BOOLEAN : ChangeNotStored(rw, took)
         \/ \E d \in Data : append(d)
         \/ AppendFenced \/ AppendQuorum \/ AppendNoQuorum
         \/ UNCHANGED <<hmd, next, lac, acked, at>>
    <2>1. ASSUME NEW n \in Nodes, Node(n) \/ CallFails(n) PROVE UNCHANGED <<hmd, next, lac, acked, at>>
      BY <2>1 DEF Node, CallFails, add_entry, EntryWritten, historyVars
    <2>2. ASSUME NEW r \in Recoverers, Recovery(r) PROVE UNCHANGED <<hmd, next, lac, acked, at>>
      BY <2>2, Zenon DEF Recovery, BeginRecovery, JoinRecovery, SealRecovered, RecoveryFails,
                  fence_ledger, handleVars, historyVars
    <2>3. CASE seal_ledger \/ UNCHANGED vars
      BY <2>3 DEF seal_ledger, vars, handleVars, historyVars
    <2> QED
      BY <2>1, <2>2, <2>3 DEF Next, Start, Writer
  <1> QED
    BY <1>2, <1>3, <1>6, <1>7, <1>8, <1>9, <1>10, <1>11

\* The first fragment starts at 0.
LEMMA FirstStarts ==
    ASSUME TInv, PrefixInv
    PROVE  /\ hmd.fragments \in Seq(Fragment)
           /\ Len(hmd.fragments) \in Nat /\ Len(hmd.fragments) >= 1
           /\ hmd.fragments[1].first = 0
  <1>1. hmd.fragments \in Seq(Fragment)
    BY Zenon DEF TInv, TypeOK, LedgerMetadata
  <1>2. Len(FirstFragments) = 1 /\ FirstFragments[1].first = 0
    BY DEF FirstFragments
  <1> QED
    BY <1>1, <1>2 DEF PrefixInv, Prefix

\* While the writer has one fragment, every copy of the record ends with it.
LEMMA OnlyFragment ==
    ASSUME TInv, PrefixInv, Len(hmd.fragments) = 1,
           NEW m \in LedgerMetadata, WellFormed(m), Prefix(m.fragments, hmd.fragments)
    PROVE  /\ Last(m.fragments) = hmd.fragments[1]
           /\ WriteNodes(hmd.fragments[1]) \subseteq Members(Last(m.fragments))
  <1>1. Len(m.fragments) = 1
    <2>1. Len(m.fragments) \in Nat \ {0}
      BY LastFragment
    <2>2. Len(m.fragments) <= 1
      BY DEF Prefix
    <2>3. \A k \in Nat \ {0} : k <= 1 => k = 1
      OBVIOUS
    <2> QED
      BY <2>1, <2>2, <2>3, Zenon
  <1>2. Last(m.fragments) = hmd.fragments[1]
    BY <1>1 DEF Last, Prefix
  <1>3. /\ WriteQuorum <= Len(Last(m.fragments).ensemble) /\ WriteQuorum \in Nat
        /\ Last(m.fragments).ensemble \in Seq(Nodes)
    BY LastFragment, LedgerOptions
  <1>4. PICK k \in Nat : k = Len(Last(m.fragments).ensemble)
    BY <1>3
  <1>5. 1..WriteQuorum \subseteq 1..k
    BY <1>3, <1>4
  <1> QED
    BY <1>2, <1>4, <1>5 DEF WriteNodes, Members

\* QuorumInv holds after a step that loses no entry of a node and makes no
\* recovery unsee an entry.
LEMMA QuorumKept ==
    ASSUME TInv, PrefixInv, QuorumInv, HandlePushes, next' = next,
           \A n \in Nodes : \A e \in Entries : Holds(n, e) => Holds(n, e)',
           ASSUME NEW n \in WriteNodes(hmd.fragments[1]), n \in Nodes, NEW e \in Entries,
                  Len(hmd.fragments) = 1, Holds(n, e), Seen(n, e)
           PROVE  Seen(n, e)'
    PROVE  QuorumInv'
  <1> SUFFICES ASSUME NEW e \in Entries, e < next
               PROVE  \E Q \in SUBSET Nodes : Acknowledged(Q, e)'
    BY DEF QuorumInv
  <1>1. PICK Q \in SUBSET Nodes : Acknowledged(Q, e)
    BY DEF QuorumInv
  <1>2. e \in Nat /\ next \in Nat
    <2>1. next \in 0..MaxEntries
      BY Zenon DEF TInv, TypeOK
    <2> QED
      BY <2>1, EntriesAreNat
  <1>3. /\ hmd.fragments \in Seq(Fragment) /\ Len(hmd.fragments) \in Nat
        /\ Len(hmd.fragments) >= 1 /\ hmd.fragments[1].first = 0
    BY FirstStarts, Zenon
  <1>4. /\ FragmentOf(hmd'.fragments, e) = FragmentOf(hmd.fragments, e)
        /\ Len(hmd'.fragments) = 1 => Len(hmd.fragments) = 1
    <2>1. ASSUME NEW f \in Fragment, f.first = next, hmd'.fragments = Append(hmd.fragments, f)
          PROVE  /\ FragmentOf(hmd'.fragments, e) = FragmentOf(hmd.fragments, e)
                 /\ Len(hmd'.fragments) # 1
      <3>1. FragmentOf(Append(hmd.fragments, f), e) = FragmentOf(hmd.fragments, e)
        BY <1>2, <1>3, <2>1, FragmentOfAppend
      <3>2. Len(hmd'.fragments) = Len(hmd.fragments) + 1
        <4>1. Len(Append(hmd.fragments, f)) = Len(hmd.fragments) + 1
          BY <1>3
        <4> QED
          BY <2>1, <4>1, Zenon
      <3> QED
        BY <1>3, <2>1, <3>1, <3>2
    <2> QED
      BY <2>1 DEF HandlePushes
  <1>5. Len(hmd.fragments) = 1 => FragmentOf(hmd.fragments, e) = hmd.fragments[1]
    BY <1>2, <1>3, FragmentAt
  <1>6. ASSUME NEW n \in Q PROVE Holds(n, e)' /\ (Len(hmd'.fragments) = 1 => Seen(n, e)')
    <2>1. n \in Nodes /\ Holds(n, e)
      BY <1>1, <1>6 DEF Acknowledged
    <2>2. Len(hmd'.fragments) = 1 => Seen(n, e) /\ n \in WriteNodes(hmd.fragments[1])
      BY <1>1, <1>4, <1>5, <1>6, Zenon DEF Acknowledged
    <2> QED
      BY <1>4, <2>1, <2>2, Zenon
  <1>7. /\ Q \subseteq WriteNodes(FragmentOf(hmd'.fragments, e))
        /\ Cardinality(Q) >= AckQuorum
    BY <1>1, <1>4 DEF Acknowledged
  <1>8. Acknowledged(Q, e)'
    BY <1>6, <1>7 DEF Acknowledged, WriteNodes
  <1> QED
    BY <1>8

\* A step that leaves fences, recoveries and the sealed record alone.
LEMMA SeenQuiet ==
    ASSUME UNCHANGED <<fenced, racing, rec, sealedBy>>, sealedBy = "recovery" => UNCHANGED md,
           NEW n, NEW e, Seen(n, e)
    PROVE  Seen(n, e)'
    BY DEF Seen, Visited

\* Every step keeps QuorumInv.
LEMMA QuorumNext ==
    ASSUME WInv, IInv', PrefixInv', [Next]_vars
    PROVE  QuorumInv'
  <1> USE DEF nodeVars, handleVars, historyVars
  <1>0. /\ TInv /\ TInv' /\ PrefixInv /\ QuorumInv /\ HandlePushes
        /\ RacingInv /\ FencingInv /\ SealedInv /\ SealCoversStored
        /\ FragmentsInv /\ InFlightInv /\ OutcomeInv
    BY HandleStep DEF WInv, IInv
  <1>1. /\ hmd \in LedgerMetadata /\ WellFormed(hmd) /\ next \in Nat
        /\ md \in LedgerMetadata /\ WellFormed(md)
        /\ \A r \in Recoverers : /\ rec[r].md \in LedgerMetadata /\ WellFormed(rec[r].md)
                                 /\ rec[r].i \in Nat /\ rec[r].hi \in Nat
        /\ rec \in [Recoverers -> [at: {"idle", "fence", "done"}, md: LedgerMetadata, i: Nat, hi: Nat]]
        /\ fenced \in [Nodes -> BOOLEAN] /\ racing \in [Nodes -> SUBSET Entries]
        /\ \A e \in Entries : e \in Nat
    <2>1. hmd \in LedgerMetadata /\ WellFormed(hmd) /\ md \in LedgerMetadata /\ WellFormed(md)
      BY <1>0, Zenon DEF TInv, TypeOK
    <2>2. /\ fenced \in [Nodes -> BOOLEAN] /\ racing \in [Nodes -> SUBSET Entries]
          /\ rec \in [Recoverers -> [at: {"idle", "fence", "done"}, md: LedgerMetadata, i: Nat, hi: Nat]]
      BY <1>0, Zenon DEF TInv, TypeOK
    <2>3. next \in Nat
      BY <1>0, LedgerConstants DEF TInv, TypeOK
    <2>4. \A r \in Recoverers : rec[r].md \in LedgerMetadata /\ rec[r].i \in Nat /\ rec[r].hi \in Nat
      BY <2>2
    <2>5. \A r \in Recoverers : WellFormed(rec[r].md)
      BY <1>0, Zenon DEF TInv, TypeOK
    <2> QED
      BY <2>1, <2>2, <2>3, <2>4, <2>5, EntriesAreNat, Zenon
  <1>2. ASSUME UNCHANGED <<fenced, racing, rec, sealedBy, next>>, sealedBy = "recovery" => UNCHANGED md,
               \A n \in Nodes : \A e \in Entries : Holds(n, e) => Holds(n, e)'
        PROVE  QuorumInv'
    BY <1>0, <1>2, QuorumKept, SeenQuiet, Zenon
  <1>3. UNCHANGED stored => \A n \in Nodes : \A e \in Entries : Holds(n, e) => Holds(n, e)'
    BY DEF Holds
  <1>4. CASE UNCHANGED <<md, stored, fenced, racing, rec, sealedBy, next>>
    BY <1>2, <1>3, <1>4
  <1>5. CASE AppendQuorum
    <2>1. /\ next' = next + 1 /\ Joined /\ Cardinality(Acks) >= AckQuorum
          /\ UNCHANGED <<md, stored, fenced, racing, rec, sealedBy>>
      BY <1>5 DEF AppendQuorum
    <2>2. hmd'.fragments = hmd.fragments
      BY <1>1, <1>5, Zenon DEF AppendQuorum, LedgerMetadata
    <2>3. ASSUME NEW Q \in SUBSET Nodes, NEW e, Acknowledged(Q, e) PROVE Acknowledged(Q, e)'
      <3>1. \A n : Holds(n, e) => Holds(n, e)'
        BY <2>1 DEF Holds
      <3>2. \A n : Seen(n, e) => Seen(n, e)'
        BY <2>1, SeenQuiet
      <3> QED
        BY <2>2, <2>3, <3>1, <3>2 DEF Acknowledged, WriteNodes
    <2>4. Acknowledged(Acks, next)
      <3>1. FragmentOf(hmd.fragments, next) = Last(hmd.fragments)
        <4>1. /\ hmd.fragments \in Seq(Fragment) /\ Len(hmd.fragments) \in Nat
              /\ Len(hmd.fragments) >= 1
          BY <1>0, FirstStarts
        <4>2. hmd.fragments[Len(hmd.fragments)].first <= next
          BY <1>0, <4>1 DEF FragmentsInv
        <4> QED
          BY <1>1, <4>1, <4>2, FragmentAt DEF Last
      <3>2. Acks \subseteq WriteNodes(Last(hmd.fragments)) /\ Acks \subseteq Nodes
        BY <1>1, WriteSetType DEF Acks, WriteSet, WriteNodes
      <3>3. \A n \in Acks : Holds(n, next)
        BY <1>0, <2>1, <3>2 DEF Acks, Joined, OutcomeInv
      <3>4. \A n \in Acks : next + 1 \notin racing[n]
        <4>1. \A n \in Nodes : \A e \in racing[n] : e <= next
          BY <1>0 DEF InFlightInv
        <4>2. ~(next + 1 <= next)
          BY <1>1
        <4> QED
          BY <3>2, <4>1, <4>2
      <3>5. \A n \in Acks : Seen(n, next)
        BY <3>4 DEF Seen
      <3> QED
        BY <2>1, <3>1, <3>2, <3>3, <3>5 DEF Acknowledged
    <2>5. Acks \in SUBSET Nodes
      BY <1>1, WriteSetType DEF Acks
    <2> SUFFICES ASSUME NEW e \in Entries, e < next'
                 PROVE  \E Q \in SUBSET Nodes : Acknowledged(Q, e)'
      BY DEF QuorumInv
    <2>6. CASE e = next
      BY <2>3, <2>4, <2>5, <2>6
    <2>7. CASE e # next
      <3>1. e < next
        BY <1>1, <2>1, <2>7
      <3> QED
        BY <1>0, <2>3, <3>1 DEF QuorumInv
    <2> QED
      BY <2>6, <2>7
  <1>6. ASSUME md.version = hmd.version PROVE sealedBy = "nobody"
    BY <1>0, <1>1, <1>6 DEF SealedInv, LedgerMetadata
  <1>7. ASSUME NEW rw \in SUBSET Nodes, ChangeStored(rw) \/ \E took \in BOOLEAN : ChangeNotStored(rw, took)
        PROVE  QuorumInv'
    <2>1. UNCHANGED <<stored, fenced, racing, rec, sealedBy, next>>
      BY <1>7, Zenon DEF ChangeStored, ChangeNotStored
    <2>2. UNCHANGED md \/ PutLedger(Pushed(rw))
      BY <1>7, Zenon DEF ChangeStored, ChangeNotStored
    <2>3. Pushed(rw).version = hmd.version
      BY <1>1, <1>7, PushedType, Zenon DEF ChangeStored, ChangeNotStored
    <2>4. sealedBy = "recovery" => UNCHANGED md
      BY <1>6, <2>2, <2>3 DEF PutLedger
    <2> QED
      BY <1>2, <1>3, <2>1, <2>4
  <1>8. ASSUME NEW n \in Nodes, NEW q \in handling[n], EntryWritten(n, q) PROVE QuorumInv'
    <2>1. /\ UNCHANGED <<md, fenced, racing, rec, sealedBy, next>>
          /\ stored' = [stored EXCEPT ![n][q.entry] = q.data]
      BY <1>8 DEF EntryWritten
    <2>2. q \in Request /\ stored \in [Nodes -> [Entries -> Data \cup {NoData}]]
      BY <1>0, <1>8 DEF TInv, TypeOK
    <2>3. q.entry \in Entries /\ q.data # NoData
      BY <2>2, LedgerConstants DEF Request
    <2>4. \A m \in Nodes : \A e \in Entries : Holds(m, e) => Holds(m, e)'
      BY <2>1, <2>2, <2>3 DEF Holds
    <2> QED
      BY <1>2, <2>1, <2>4
  <1>9. CASE seal_ledger
    <2>1. /\ UNCHANGED <<stored, fenced, racing, rec, next>> /\ sealedBy' = "client"
      BY <1>9 DEF seal_ledger
    <2>2. \A n, e : Seen(n, e) => Seen(n, e)'
      BY <2>1 DEF Seen, Visited
    <2> QED
      BY <1>0, <1>3, <2>1, <2>2, QuorumKept, Zenon
  <1>10. ASSUME NEW r \in Recoverers, NEW new, rec' = [rec EXCEPT ![r] = new],
                new.at = "fence" => new.i = 0,
                UNCHANGED <<stored, fenced, racing, sealedBy, next>>, sealedBy = "recovery" => UNCHANGED md
         PROVE  QuorumInv'
    <2>1. \A s \in Recoverers : rec'[s] = IF s = r THEN new ELSE rec[s]
      BY <1>1, <1>10
    <2>2. \A s \in Recoverers : \A n : Visited(s, n)' => s # r /\ Visited(s, n) /\ rec'[s] = rec[s]
      <3> SUFFICES ASSUME NEW s \in Recoverers, NEW n, Visited(s, n)'
                   PROVE  s # r /\ Visited(s, n) /\ rec'[s] = rec[s]
        OBVIOUS
      <3>1. s # r
        BY <1>10, <2>1 DEF Visited
      <3> QED
        BY <2>1, <3>1 DEF Visited
    <2>3. \A n, e : Seen(n, e) => Seen(n, e)'
      BY <1>10, <2>2 DEF Seen
    <2> QED
      BY <1>0, <1>3, <1>10, <2>3, QuorumKept, Zenon
  <1>11. ASSUME NEW r \in Recoverers, BeginRecovery(r) \/ JoinRecovery(r) \/ RecoveryFails(r)
         PROVE  QuorumInv'
    <2>1. PICK new \in {Done, Fencing(md, 0, 0), Fencing(md', 0, 0)} : rec' = [rec EXCEPT ![r] = new]
      BY <1>11 DEF BeginRecovery, JoinRecovery, RecoveryFails
    <2>11. new.at = "fence" => new.i = 0
      BY <2>1 DEF Fencing, Done
    <2>2. UNCHANGED <<stored, fenced, racing, sealedBy, next>>
      BY <1>11 DEF BeginRecovery, JoinRecovery, RecoveryFails
    <2>3. sealedBy = "recovery" => UNCHANGED md
      BY <1>0, <1>11 DEF BeginRecovery, JoinRecovery, RecoveryFails, SealedInv
    <2> QED
      BY <1>10, <2>1, <2>11, <2>2, <2>3, Zenon
  <1>12. ASSUME NEW r \in Recoverers, SealRecovered(r) PROVE QuorumInv'
    <2>1. /\ rec[r].at = "fence" /\ rec[r].i = Len(Last(rec[r].md.fragments).ensemble)
          /\ PutLedger(Sealed(r)) /\ sealedBy' = "recovery" /\ rec' = [rec EXCEPT ![r] = Done]
          /\ UNCHANGED <<stored, fenced, racing, next>>
      BY <1>12 DEF SealRecovered
    <2>2. md'.lac = rec[r].hi
      <3>1. Sealed(r) \in LedgerMetadata /\ Sealed(r).lac = rec[r].hi
        BY <1>1, SealedLastType, ClosedType DEF Sealed, Closed
      <3> QED
        BY <2>1, <3>1, PutFragments
    <2>3. ASSUME NEW n \in WriteNodes(hmd.fragments[1]), Len(hmd.fragments) = 1
          PROVE  Visited(r, n)
      <3>1. n \in Members(Last(rec[r].md.fragments))
        BY <1>0, <1>1, <2>3, OnlyFragment, Zenon DEF PrefixInv
      <3> QED
        BY <2>1, <3>1 DEF Members, Visited
    <2>4. \A s \in Recoverers : \A n : Visited(s, n)' => Visited(s, n) /\ rec'[s] = rec[s]
      <3> SUFFICES ASSUME NEW s \in Recoverers, NEW n, Visited(s, n)'
                   PROVE  Visited(s, n) /\ rec'[s] = rec[s]
        OBVIOUS
      <3>1. rec'[s] = IF s = r THEN Done ELSE rec[s]
        BY <1>1, <2>1
      <3>2. rec'[s].at = "fence"
        BY DEF Visited
      <3>3. rec'[s] = rec[s]
        BY <3>1, <3>2 DEF Done
      <3> QED
        BY <3>3 DEF Visited
    <2>5. ASSUME NEW n \in WriteNodes(hmd.fragments[1]), NEW e \in Entries,
                 Len(hmd.fragments) = 1, Seen(n, e)
          PROVE  Seen(n, e)'
      BY <2>1, <2>2, <2>3, <2>4, <2>5, Zenon DEF Seen
    <2> QED
      BY <1>0, <1>3, <2>1, <2>5, QuorumKept, Zenon
  <1>13. ASSUME NEW r \in Recoverers, NEW answered \in BOOLEAN, fence_ledger(r, answered)
         PROVE  QuorumInv'
    <2> DEFINE ens == Last(rec[r].md.fragments).ensemble
    <2>1. /\ rec[r].at = "fence" /\ rec[r].i < Len(ens)
          /\ UNCHANGED <<md, stored, handling, next, sealedBy>>
      BY <1>13, Zenon DEF fence_ledger
    <2>2. PICK m \in Nodes : m = ens[rec[r].i + 1]
      <3>1. ens \in Seq(Nodes) /\ rec[r].i \in Nat
        BY <1>1, LastFragment
      <3> HIDE DEF ens
      <3>2. rec[r].i + 1 \in 1..Len(ens)
        BY <2>1, <3>1
      <3> QED
        BY <3>1, <3>2
    <2>3. PICK hi \in Nat : /\ hi = Maximum({rec[r].hi, HighestStored(m)})
                            /\ rec[r].hi <= hi /\ HighestStored(m) <= hi
      BY <1>1, HighestStoredBounds, MaximumOfTwo
    <2>4. /\ fenced' = [fenced EXCEPT ![m] = TRUE]
          /\ racing' = [racing EXCEPT ![m] = @ \cup {q.entry : q \in handling[m]}]
          /\ rec' = [rec EXCEPT ![r] = IF answered THEN Fencing(rec[r].md, rec[r].i + 1, hi) ELSE Done]
      BY <1>13, <2>2, <2>3, Zenon DEF fence_ledger
    <2>5. \A e \in Entries : Holds(m, e) => e <= hi
      <3>1. HighestStored(m) \in Nat /\ \A e \in Entries : Holds(m, e) => e <= HighestStored(m)
        BY HighestStoredBounds DEF Holds
      <3> QED
        BY <1>1, <2>3, <3>1
    <2>6. \A s \in Recoverers : rec'[s] = IF s # r THEN rec[s] ELSE
                                   IF answered THEN Fencing(rec[r].md, rec[r].i + 1, hi) ELSE Done
      BY <1>1, <2>4
    <2>7. ASSUME NEW s \in Recoverers, NEW n, Visited(s, n)'
          PROVE  \/ Visited(s, n) /\ rec[s].hi <= rec'[s].hi
                 \/ s = r /\ n = m /\ rec'[s].hi = hi
      <3>1. CASE s # r
        <4>1. rec'[s] = rec[s]
          BY <2>6, <3>1
        <4>2. Visited(s, n)
          BY <2>7, <4>1 DEF Visited
        <4>3. rec[s].hi <= rec'[s].hi
          BY <1>1, <4>1
        <4> QED
          BY <4>2, <4>3
      <3>2. CASE s = r
        <4>1. rec'[r] = Fencing(rec[r].md, rec[r].i + 1, hi)
          BY <2>6, <2>7, <3>2 DEF Visited, Done
        <4>2. rec'[r].md = rec[r].md /\ rec'[r].i = rec[r].i + 1 /\ rec'[r].hi = hi
          BY <4>1 DEF Fencing
        <4>3. PICK k \in 1..(rec[r].i + 1) : ens[k] = n
          BY <2>7, <3>2, <4>2, Zenon DEF Visited
        <4>4. CASE k = rec[r].i + 1
          BY <2>2, <3>2, <4>2, <4>3, <4>4, Zenon
        <4>5. CASE k # rec[r].i + 1
          <5>1. k \in 1..rec[r].i
            <6>1. \A i \in Nat : k \in 1..(i + 1) /\ k # i + 1 => k \in 1..i
              OBVIOUS
            <6> QED
              BY <1>1, <4>3, <4>5, <6>1
          <5>2. Visited(r, n)
            BY <2>1, <4>3, <5>1 DEF Visited
          <5> QED
            BY <2>3, <3>2, <4>2, <5>2, Zenon
        <4> QED
          BY <4>4, <4>5
      <3> QED
        BY <3>1, <3>2
    <2>8. \A s \in Recoverers, n \in Nodes : Visited(s, n) => fenced[n]
      BY <1>0, Zenon DEF Visited, FencingInv, Reached, Covered
    <2>9. ASSUME NEW n \in WriteNodes(hmd.fragments[1]), Len(hmd.fragments) = 1, sealedBy = "recovery"
          PROVE  fenced[n]
      <3>1. n \in Members(Last(md.fragments))
        <4>1. Prefix(md.fragments, hmd.fragments)
          BY <1>0, Zenon DEF PrefixInv, StoredIsPrefix, Prefix
        <4> QED
          BY <1>0, <1>1, <2>9, <4>1, OnlyFragment, Zenon
      <3> QED
        BY <1>0, <2>9, <3>1 DEF SealCoversStored
    <2>10. \A n \in Nodes : fenced[n] => fenced'[n] /\ racing'[n] = racing[n]
      <3>1. fenced[m] => {q.entry : q \in handling[m]} \subseteq racing[m]
        BY <1>0, Zenon DEF RacingInv
      <3> QED
        BY <1>1, <2>4, <3>1, Zenon
    <2>11. \A n \in Nodes : n # m => fenced'[n] = fenced[n] /\ racing'[n] = racing[n]
      BY <1>1, <2>4
    <2>12. ASSUME NEW n \in WriteNodes(hmd.fragments[1]), n \in Nodes, NEW e \in Entries,
                  Len(hmd.fragments) = 1, Holds(n, e), Seen(n, e)
           PROVE  Seen(n, e)'
      <3> SUFFICES ASSUME fenced'[n], e + 1 \in racing'[n]
                   PROVE  /\ \A s \in Recoverers : Visited(s, n)' => e <= rec'[s].hi
                          /\ sealedBy' = "recovery" => e <= md'.lac
        BY DEF Seen
      <3>1. CASE fenced[n]
        <4>1. e + 1 \in racing[n]
          BY <2>10, <2>12, <3>1, Zenon
        <4>2. /\ \A s \in Recoverers : Visited(s, n) => e <= rec[s].hi
              /\ sealedBy = "recovery" => e <= md.lac
          BY <2>12, <3>1, <4>1, Zenon DEF Seen
        <4>3. ASSUME NEW s \in Recoverers, Visited(s, n)' PROVE e <= rec'[s].hi
          <5>0. \A i, j, k \in Nat : i <= j /\ j <= k => i <= k
            OBVIOUS
          <5>1. rec'[s].hi \in Nat /\ rec[s].hi \in Nat /\ e \in Nat
            BY <1>0, <1>1, Zenon DEF TInv, TypeOK
          <5>2. CASE Visited(s, n) /\ rec[s].hi <= rec'[s].hi
            <6>1. e <= rec[s].hi
              BY <4>2, <5>2
            <6> QED
              BY <5>0, <5>1, <5>2, <6>1, Zenon
          <5>3. CASE n = m /\ rec'[s].hi = hi
            BY <2>5, <2>12, <5>3
          <5>4. \/ Visited(s, n) /\ rec[s].hi <= rec'[s].hi
                \/ s = r /\ n = m /\ rec'[s].hi = hi
            BY <2>7, <4>3
          <5> QED
            BY <5>2, <5>3, <5>4, Zenon
        <4> QED
          BY <2>1, <4>2, <4>3, Zenon
      <3>2. CASE ~fenced[n]
        <4>1. n = m
          BY <2>11, <2>12, <3>2
        <4>2. ASSUME NEW s \in Recoverers, Visited(s, n)' PROVE e <= rec'[s].hi
          BY <2>5, <2>7, <2>8, <2>12, <3>2, <4>1, <4>2, Zenon
        <4>3. sealedBy # "recovery"
          BY <2>9, <2>12, <3>2, Zenon
        <4> QED
          BY <2>1, <4>2, <4>3, Zenon
      <3> QED
        BY <3>1, <3>2
    <2> QED
      BY <1>0, <1>3, <2>1, <2>12, QuorumKept, Zenon
  <1>14. \/ AppendQuorum
         \/ \E rw \in SUBSET Nodes : ChangeStored(rw) \/ \E took \in BOOLEAN : ChangeNotStored(rw, took)
         \/ \E n \in Nodes : \E q \in handling[n] : EntryWritten(n, q)
         \/ \E r \in Recoverers :
               \/ BeginRecovery(r) \/ JoinRecovery(r) \/ RecoveryFails(r) \/ SealRecovered(r)
               \/ \E answered \in BOOLEAN : fence_ledger(r, answered)
         \/ seal_ledger
         \/ UNCHANGED <<md, stored, fenced, racing, rec, sealedBy, next>>
    BY Zenon DEF Next, Start, Writer, Node, Recovery, append, CallFails, AppendFenced, AppendNoQuorum,
           ChangeNotTried, add_entry, vars
  <1> QED
    BY <1>4, <1>5, <1>7, <1>8, <1>9, <1>11, <1>12, <1>13, <1>14, Zenon

\* The invariant holds of a new ledger.
LEMMA WInit == Init => WInv
  <1> SUFFICES ASSUME Init PROVE WInv
    OBVIOUS
  <1>1. IInv /\ PrefixInv
    BY InvInit, PrefixInit
  <1>2. hmd.fragments = FirstFragments /\ hmd.last = NONE
    BY DEF Init, NewMetadata, FirstFragments
  <1>3. FragmentsInv
    <2>1. Len(FirstFragments) = 1 /\ FirstFragments[1].first = 0
      BY DEF FirstFragments
    <2>2. \A k \in 1..Len(FirstFragments) : FirstFragments[k].first <= 0
      BY <2>1
    <2>3. next = 0
      BY DEF Init
    <2> QED
      BY <1>2, <2>2, <2>3 DEF FragmentsInv
  <1>4. InFlightInv /\ OutcomeInv
    BY DEF Init, InFlightInv, OutcomeInv
  <1>5. LimitsInv
    BY <1>2 DEF Init, LimitsInv, Acked, NONE
  <1>6. QuorumInv
    BY EntriesAreNat DEF Init, QuorumInv
  <1> QED
    BY <1>1, <1>3, <1>4, <1>5, <1>6 DEF WInv

\* Every step keeps the invariant.
LEMMA WNext == WInv /\ [Next]_vars => WInv'
  <1> SUFFICES ASSUME WInv, [Next]_vars PROVE WInv'
    OBVIOUS
  <1>1. IInv' /\ TInv /\ TInv'
    BY InvNext DEF WInv, IInv
  <1>2. PrefixInv'
    BY <1>1, PrefixNext DEF WInv
  <1>3. FragmentsInv' /\ InFlightInv' /\ OutcomeInv' /\ LimitsInv'
    BY <1>1, FragmentsNext, InFlightNext, OutcomeNext, LimitsNext DEF WInv
  <1>4. QuorumInv'
    BY <1>1, <1>2, QuorumNext
  <1> QED
    BY <1>1, <1>2, <1>3, <1>4 DEF WInv

\* And the one about quorums.
LEMMA WInvariance == Spec => []WInv
    BY WInit, WNext, PTL DEF Spec

\* The quorum that acknowledged an entry is where `read` looks for it.
LEMMA AckedReadable == WInv => ReadFindsAcked
  <1> SUFFICES ASSUME WInv, NEW e \in Entries, Acked(e)
               PROVE  /\ e <= hmd.last /\ e <= lac
                      /\ \E Q \in SUBSET Members(FragmentOf(hmd.fragments, e)) :
                            Cardinality(Q) >= AckQuorum /\ \A n \in Q : Holds(n, e)
    BY DEF ReadFindsAcked
  <1>1. TInv /\ PrefixInv /\ e \in Nat /\ next \in Nat /\ lac \in Nat
    <2>1. TInv /\ PrefixInv
      BY DEF WInv, IInv
    <2>2. next \in 0..MaxEntries /\ lac \in Nat
      BY <2>1 DEF TInv, TypeOK
    <2> QED
      BY <2>1, <2>2, EntriesAreNat
  <1>2. e < next /\ hmd.last = next - 1 /\ lac >= next - 1
    BY DEF WInv, LimitsInv
  <1>3. e <= hmd.last /\ e <= lac
    BY <1>1, <1>2
  <1>4. PICK Q \in SUBSET Nodes : Acknowledged(Q, e)
    BY <1>2 DEF WInv, QuorumInv
  <1>5. /\ hmd.fragments \in Seq(Fragment) /\ Len(hmd.fragments) \in Nat
        /\ Len(hmd.fragments) >= 1 /\ hmd.fragments[1].first = 0
    BY <1>1, FirstStarts
  <1>6. PICK i \in 1..Len(hmd.fragments) : FragmentOf(hmd.fragments, e) = hmd.fragments[i]
    <2>1. PICK i \in 1..Len(hmd.fragments) :
             /\ hmd.fragments[i].first <= e
             /\ \A j \in 1..Len(hmd.fragments) : j > i => hmd.fragments[j].first > e
      BY <1>1, <1>5, FragmentExists
    <2>2. FragmentOf(hmd.fragments, e) = hmd.fragments[i]
      BY <1>1, <1>5, <2>1, FragmentAt, Zenon
    <2> QED
      BY <2>2
  <1>7. PICK ens : ens = hmd.fragments[i].ensemble
    OBVIOUS
  <1>8. Len(ens) >= WriteQuorum /\ ens \in Seq(Nodes)
    <2>0. hmd.fragments[i] \in Fragment
      BY <1>5
    <2>1. hmd.fragments[i].ensemble \in Seq(Nodes)
      BY <2>0 DEF Fragment
    <2>2. Len(hmd.fragments[i].ensemble) >= WriteQuorum
      BY <1>1, Zenon DEF TInv, TypeOK, WellFormed
    <2> QED
      BY <1>7, <2>1, <2>2
  <1>9. WriteNodes(hmd.fragments[i]) \subseteq Members(hmd.fragments[i])
    <2>1. 1..WriteQuorum \subseteq 1..Len(ens)
      BY <1>8, LedgerOptions
    <2> QED
      BY <1>7, <2>1 DEF WriteNodes, Members
  <1>10. /\ Q \in SUBSET Members(FragmentOf(hmd.fragments, e))
         /\ Cardinality(Q) >= AckQuorum /\ \A n \in Q : Holds(n, e)
    BY <1>4, <1>6, <1>9 DEF Acknowledged
  <1> QED
    BY <1>3, <1>10

\* Two sets of AckQuorum nodes out of WriteQuorum meet when AckQuorum is a
\* majority.
LEMMA QuorumsMeet ==
    ASSUME NEW f \in Fragment, Len(f.ensemble) >= WriteQuorum, 2 * AckQuorum > WriteQuorum,
           NEW Q1 \in SUBSET WriteNodes(f), NEW Q2 \in SUBSET WriteNodes(f),
           Cardinality(Q1) >= AckQuorum, Cardinality(Q2) >= AckQuorum
    PROVE  \E n \in Q1 : n \in Q2
  <1> DEFINE W == WriteNodes(f)
             g == [i \in 1..WriteQuorum |-> f.ensemble[i]]
  <1>1. WriteQuorum \in Nat /\ AckQuorum \in Nat
    BY LedgerOptions
  <1>2. g \in Surjection(1..WriteQuorum, W)
    BY DEF WriteNodes, Surjection
  <1>3. IsFiniteSet(1..WriteQuorum) /\ Cardinality(1..WriteQuorum) = WriteQuorum
    BY <1>1, FS_Interval
  <1> HIDE DEF W, g
  <1>4. IsFiniteSet(W) /\ Cardinality(W) <= WriteQuorum
    BY <1>2, <1>3, FS_Surjection
  <1>5. Q1 \subseteq W /\ Q2 \subseteq W
    BY DEF W
  <1>6. IsFiniteSet(Q1) /\ IsFiniteSet(Q2)
    BY <1>4, <1>5, FS_Subset
  <1>7. /\ IsFiniteSet(Q1 \cup Q2)
        /\ Cardinality(Q1 \cup Q2) = Cardinality(Q1) + Cardinality(Q2) - Cardinality(Q1 \cap Q2)
    BY <1>6, FS_Union
  <1>8. Cardinality(Q1 \cup Q2) <= Cardinality(W)
    <2>1. Q1 \cup Q2 \subseteq W
      BY <1>5
    <2> QED
      BY <1>4, <2>1, FS_Subset
  <1>9. /\ Cardinality(W) \in Nat /\ Cardinality(Q1) \in Nat /\ Cardinality(Q2) \in Nat
        /\ Cardinality(Q1 \cup Q2) \in Nat
    BY <1>4, <1>6, <1>7, FS_CardinalityType
  <1>10. Cardinality(Q1 \cap Q2) # 0
    BY <1>1, <1>4, <1>7, <1>8, <1>9
  <1>11. Q1 \cap Q2 # {}
    BY <1>10, FS_EmptySet, Zenon
  <1> QED
    BY <1>11

\* Of two acknowledged entries above the sealed LAC, a node acknowledged both:
\* it was fenced while it handled the second, so it already held the first, and
\* the recovery saw it.
LEMMA ShortByOne == WInv => SealShortByAtMostOne
  <1> SUFFICES ASSUME WInv, 2 * AckQuorum > WriteQuorum, sealedBy = "recovery",
                      Len(hmd.fragments) = 1, NEW e \in Entries, Acked(e), ~(e <= md.lac + 1)
               PROVE  FALSE
    BY DEF SealShortByAtMostOne
  <1>1. /\ TInv /\ PrefixInv /\ e \in Nat /\ next \in Nat
        /\ md \in LedgerMetadata /\ WellFormed(md) /\ md.lac \in Nat
        /\ hmd \in LedgerMetadata /\ WellFormed(hmd)
    <2>1. TInv /\ PrefixInv
      BY DEF WInv, IInv
    <2>2. /\ md \in LedgerMetadata /\ WellFormed(md)
          /\ hmd \in LedgerMetadata /\ WellFormed(hmd) /\ next \in 0..MaxEntries
      BY <2>1 DEF TInv, TypeOK
    <2>3. md.lac \in Nat
      BY <2>2 DEF LedgerMetadata
    <2> QED
      BY <2>1, <2>2, <2>3, EntriesAreNat
  <1>2. PICK d \in Entries : d = e - 1 /\ d \in Nat /\ d + 1 = e
    BY <1>1, LedgerConstants DEF Entries
  <1>3. e < next /\ d < next
    BY <1>1, <1>2 DEF WInv, LimitsInv
  <1>4. PICK Q1 \in SUBSET Nodes : Acknowledged(Q1, d)
    BY <1>3 DEF WInv, QuorumInv
  <1>5. PICK Q2 \in SUBSET Nodes : Acknowledged(Q2, e)
    BY <1>3 DEF WInv, QuorumInv
  <1> DEFINE f == hmd.fragments[1]
  <1>6. /\ hmd.fragments \in Seq(Fragment) /\ f \in Fragment /\ f.first = 0
        /\ Len(f.ensemble) >= WriteQuorum
    <2>1. hmd.fragments \in Seq(Fragment) /\ hmd.fragments[1].first = 0
      BY <1>1, FirstStarts
    <2>2. 1 \in 1..Len(hmd.fragments)
      OBVIOUS
    <2>3. hmd.fragments[1] \in Fragment
      BY <2>1, <2>2
    <2>4. Len(hmd.fragments[1].ensemble) >= WriteQuorum
      BY <1>1, <2>2, Zenon DEF WellFormed
    <2> QED
      BY <2>1, <2>3, <2>4, Zenon
  <1>7. FragmentOf(hmd.fragments, d) = f /\ FragmentOf(hmd.fragments, e) = f
    <2>1. 1 \in 1..Len(hmd.fragments) /\ \A j \in 1..Len(hmd.fragments) : ~(j > 1)
      OBVIOUS
    <2>2. ASSUME NEW k \in Nat PROVE FragmentOf(hmd.fragments, k) = hmd.fragments[1]
      <3>1. hmd.fragments \in Seq(Fragment) /\ hmd.fragments[1].first <= k
        BY <1>6 DEF f
      <3> QED
        BY <2>1, <3>1, FragmentAt
    <2> QED
      BY <1>1, <1>2, <2>2 DEF f
  <1> HIDE DEF f
  <1>8. PICK n \in Q1 : n \in Q2
    BY <1>4, <1>5, <1>6, <1>7, QuorumsMeet, Zenon DEF Acknowledged
  <1>9. n \in WriteNodes(f) /\ Holds(n, e) /\ Seen(n, d)
    BY <1>4, <1>5, <1>7, <1>8 DEF Acknowledged
  <1>10. n \in Members(Last(md.fragments))
    <2>1. Prefix(md.fragments, hmd.fragments)
      BY <1>1, Zenon DEF PrefixInv, StoredIsPrefix, Prefix
    <2> QED
      BY <1>1, <1>9, <2>1, OnlyFragment, Zenon DEF f
  <1>11. fenced[n] /\ (e <= md.lac \/ e \in racing[n])
    BY <1>9, <1>10 DEF WInv, IInv, SealCoversStored
  <1>12. e \in racing[n]
    BY <1>1, <1>11
  <1>13. d <= md.lac
    BY <1>2, <1>9, <1>11, <1>12 DEF Seen
  <1> QED
    BY <1>1, <1>2, <1>13

\* Every entry append returned Ok for is within the handle's limits, and an ack
\* quorum of the fragment `read` looks it up in holds it: for any ensemble,
\* quorums, failed calls, fragment changes and concurrent recoveries.
THEOREM AckedEntriesReadable == Spec => []ReadFindsAcked
    BY WInvariance, AckedReadable, PTL

\* With a majority ack quorum and one fragment, fence_and_seal loses at most the
\* one entry in flight, however many recoveries run at once.
THEOREM SealLosesAtMostOne == Spec => []SealShortByAtMostOne
    BY WInvariance, ShortByOne, PTL
=============================================================================
