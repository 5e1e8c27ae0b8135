---------------------------- MODULE Rereplication ----------------------------
(***************************************************************************)
(* Re-replication of one ledger in a cluster of storage nodes.  Every      *)
(* process runs an auditor, which campaigns for leadership, watches etcd   *)
(* for deleted node keys and queues one task per fragment of the failed    *)
(* node, and a worker, which fences and seals an open ledger, copies the   *)
(* entries of the fragment to another node and swaps the node in the       *)
(* metadata.  NodeLease gives the node keys and the processes.             *)
(*                                                                         *)
(* An ensemble is a set: its order decides only which survivor is the      *)
(* source and in which order nodes are fenced, and here any may be; in the *)
(* same way any listed node outside the ensemble may be the target.  The   *)
(* worker takes no notice of the target the task names.  One call to a     *)
(* node or to etcd is one step.                                            *)
(***************************************************************************)
EXTENDS NodeLease, Sequences, FiniteSetsExt

CONSTANTS NoNode,
          Auditors,     \* nodes whose auditor gets as far as to campaign
          LastEntry,    \* bound: entries are 0..LastEntry
          Ledgers,      \* the ledgers re-replication may start from
          Resolvers     \* the nodes the workers may know at the start

Entries == 0..LastEntry
Fragment == [first: Nat, ensemble: SUBSET Nodes]
LedgerMetadata == [state: {"Open", "InRecovery", "Closed"}, fragments: Seq(Fragment),
                   lac: Nat, version: Nat]

\* The fragments of a ledger begin at 0 and are in order.
WellFormed(m) ==
    /\ m.fragments # <<>>
    /\ m.fragments[1].first = 0
    /\ \A i, j \in DOMAIN m.fragments : i <= j => m.fragments[i].first <= m.fragments[j].first

ASSUME RereplicationConstants ==
    /\ NoNode \notin Nodes
    /\ Auditors \subseteq Nodes
    /\ LastEntry \in Nat
    /\ Resolvers \subseteq [Nodes -> SUBSET Nodes]
    /\ Ledgers \subseteq [md: LedgerMetadata, stored: [Nodes -> SUBSET Entries],
                          fenced: [Nodes -> BOOLEAN]]
    /\ \A l \in Ledgers : WellFormed(l.md)

VARIABLES
    md,          \* the ledger's record in the metadata store
    stored,      \* stored[n]: entries of the ledger that n holds
    fenced,      \* fenced[n]: n refuses appends to the ledger
    aud,         \* aud[n]: the auditor of n's process
    events,      \* events[n]: DELETE events its watch has not handled
    tasks,       \* tasks[n]: the channel from auditor to worker
    resolver,    \* resolver[n]: nodes n's worker can resolve
    wk,          \* wk[n]: n's worker
    noticed      \* history: nodes whose key was deleted

procVars == <<aud, events, tasks, resolver, wk>>
dataVars == <<md, stored, fenced>>
vars == <<leaseVars, procVars, dataVars, noticed>>

ReReplicationTask == [failed: Nodes, from: Nat]
WorkerState ==
    [at: {"idle", "transition", "fence", "restore", "copy"},
     failed: Nodes \cup {NoNode}, from: Nat, md: LedgerMetadata,
     left: SUBSET Nodes, hi: Nat,
     src: Nodes \cup {NoNode}, dst: Nodes \cup {NoNode}, e: Nat]

NoMetadata == [state |-> "Closed", fragments |-> <<>>, lac |-> 0, version |-> 0]
Idle == [at |-> "idle", failed |-> NoNode, from |-> 0, md |-> NoMetadata,
         left |-> {}, hi |-> 0, src |-> NoNode, dst |-> NoNode, e |-> 0]

\* The nodes have just been started.
Init ==
    /\ LeaseInit
    /\ \E l \in Ledgers : md = l.md /\ stored = l.stored /\ fenced = l.fenced
    /\ aud = [n \in Nodes |-> IF n \in Down THEN "off" ELSE "start"]
    /\ events = [n \in Nodes |-> <<>>]
    /\ tasks = [n \in Nodes |-> <<>>]
    /\ resolver \in Resolvers
    /\ wk = [n \in Nodes |-> Idle]
    /\ noticed = {}

\* A call fails though the callee runs.
CallFails ==
    /\ faults < MaxFaults
    /\ faults' = faults + 1
    /\ UNCHANGED <<up, boots, live, key, stream, last, detached>>

----------------------------------------------------------------------------
(* Processes and etcd *)

\* Mutant: a status that turns read-only is taken for a failure.
NotifyReadOnly ==
    LET deleted == {n \in Nodes : key[n] # NoKey /\ key'[n] = NoKey}
        lost == {n \in Nodes : key[n].status = "ReadWrite" /\ key'[n].status # "ReadWrite"}
    IN  /\ noticed' = noticed \cup deleted
        /\ events' = [p \in Nodes |->
                         IF ~up'[p] THEN <<>>
                         ELSE IF aud[p] # "watch" \/ lost = {} THEN events[p]
                         ELSE Append(events[p], CHOOSE n \in lost : TRUE)]

\* The watches of the auditors that run on see the deletion of a key.
Notify ==
    LET deleted == {n \in Nodes : key[n] # NoKey /\ key'[n] = NoKey}
    IN  /\ noticed' = noticed \cup deleted
        /\ events' = [p \in Nodes |->
                         IF ~up'[p] THEN <<>>
                         ELSE IF aud[p] # "watch" \/ deleted = {} THEN events[p]
                         ELSE Append(events[p], CHOOSE n \in deleted : TRUE)]

\* boot and spawn_recovery_tasks: the worker's resolver is built, once, from the
\* nodes that are listed now; their address and not their life is looked at.
boot(n) ==
    /\ Start(n)
    /\ Notify
    /\ resolver' = [resolver EXCEPT ![n] = list_nodes \cup {n}]
    /\ aud' = [aud EXCEPT ![n] = "start"]
    /\ UNCHANGED <<tasks, wk, dataVars>>

\* The process ends: what auditor and worker have not finished is lost.
Exit(n) ==
    /\ Stop(n)
    /\ Notify
    /\ aud' = [aud EXCEPT ![n] = "off"]
    /\ tasks' = [tasks EXCEPT ![n] = <<>>]
    /\ wk' = [wk EXCEPT ![n] = Idle]
    /\ UNCHANGED <<resolver, dataVars>>

LeaseStep(n) ==
    /\ Lease(n)
    /\ Notify
    /\ UNCHANGED <<aud, tasks, resolver, wk, dataVars>>

----------------------------------------------------------------------------
(* Auditor *)

\* acquire_lease, start_keepalive, campaign, and the watch begins.  campaign
\* returns when the election keys created before this one are gone.  They go also
\* while their auditors run and watch on: the task that renews an auditor's lease
\* waits, after the first renewal, for a second answer that never comes.  So the
\* election delays an auditor and shuts none out: this step has no other guard.
campaign_for_leadership(p) ==
    /\ p \in Auditors
    /\ aud[p] = "start"
    /\ aud' = [aud EXCEPT ![p] = "watch"]
    /\ UNCHANGED <<leaseVars, events, tasks, resolver, wk, dataVars, noticed>>

\* A node that is listed, has not failed and is not in the ensemble.
Targets(ensemble, failed) == list_nodes \ (ensemble \cup {failed})

\* Mutant: only the last fragment is looked at.
EnqueueLast(p) ==
    LET f == Head(events[p])
        n == Len(md.fragments)
    IN  /\ aud[p] = "watch"
        /\ events[p] # <<>>
        /\ events' = [events EXCEPT ![p] = Tail(@)]
        /\ tasks' = [tasks EXCEPT ![p] =
               IF f \in md.fragments[n].ensemble /\ Targets(md.fragments[n].ensemble, f) # {}
               THEN Append(@, [failed |-> f, from |-> md.fragments[n].first]) ELSE @]
        /\ UNCHANGED <<leaseVars, aud, resolver, wk, dataVars, noticed>>

\* A task for every fragment of the failed node for which there is a target.
enqueue_for_node(p) ==
    LET f == Head(events[p])
        affected == {i \in DOMAIN md.fragments :
                        /\ f \in md.fragments[i].ensemble
                        /\ Targets(md.fragments[i].ensemble, f) # {}}
        inOrder == {o \in [1..Cardinality(affected) -> affected] :
                       \A j, k \in DOMAIN o : j < k => o[j] < o[k]}
    IN  /\ aud[p] = "watch"
        /\ events[p] # <<>>
        /\ events' = [events EXCEPT ![p] = Tail(@)]
        /\ \E o \in inOrder : tasks' = [tasks EXCEPT ![p] = @ \o
               [k \in DOMAIN o |-> [failed |-> f, from |-> md.fragments[o[k]].first]]]
        /\ UNCHANGED <<leaseVars, aud, resolver, wk, dataVars, noticed>>

\* list_ledgers or list_nodes fails: the error is logged, the event is gone.
EnqueueFails(p) ==
    /\ aud[p] = "watch"
    /\ events[p] # <<>>
    /\ CallFails
    /\ events' = [events EXCEPT ![p] = Tail(@)]
    /\ UNCHANGED <<aud, tasks, resolver, wk, dataVars, noticed>>

\* Auditor::run returns with an error of etcd and is not started again.
AuditorExits(p) ==
    /\ aud[p] # "off"
    /\ up[p]
    /\ CallFails
    /\ aud' = [aud EXCEPT ![p] = "off"]
    /\ events' = [events EXCEPT ![p] = <<>>]
    /\ UNCHANGED <<tasks, resolver, wk, dataVars, noticed>>

----------------------------------------------------------------------------
(* Worker *)

restVars == <<leaseVars, aud, events, resolver, noticed>>

\* The task ends, done or failed; run only logs the error.
EndTask(p) == wk' = [wk EXCEPT ![p] = Idle]

\* Worker::run and the get_ledger of process.
process(p) ==
    LET t == Head(tasks[p])
    IN  /\ wk[p].at = "idle"
        /\ tasks[p] # <<>>
        /\ tasks' = [tasks EXCEPT ![p] = Tail(@)]
        /\ wk' = [wk EXCEPT ![p] =
               [Idle EXCEPT !.at = IF md.state = "Open" THEN "transition" ELSE "restore",
                            !.failed = t.failed, !.from = t.from, !.md = md]]
        /\ UNCHANGED <<dataVars, restVars>>

\* A call of the worker to etcd or to a node fails, and with it the task.
TaskFails(p) ==
    /\ wk[p].at # "idle"
    /\ CallFails
    /\ EndTask(p)
    /\ UNCHANGED <<tasks, dataVars, aud, events, resolver, noticed>>

\* fence_and_seal: transition_state(Open, InRecovery), or the record as it is.
transition_state(p) ==
    LET m == IF md.state = "Open" THEN [md EXCEPT !.state = "InRecovery", !.version = @ + 1] ELSE md
    IN  /\ wk[p].at = "transition"
        /\ md' = m
        /\ wk' = [wk EXCEPT ![p] = [@ EXCEPT !.at = "fence", !.md = m,
                                    !.left = m.fragments[Len(m.fragments)].ensemble]]
        /\ UNCHANGED <<stored, fenced, tasks, restVars>>

\* A call reaches node n: it runs, and the worker's resolver has it.
Reaches(p, n) == up[n] /\ n \in resolver[p]

\* fence_ledger on a node of the last fragment: the highest entry it holds, or 0.
fence_ledger(p, n) ==
    /\ wk[p].at = "fence"
    /\ n \in wk[p].left
    /\ \/ /\ Reaches(p, n)
          /\ fenced' = [fenced EXCEPT ![n] = TRUE]
          /\ wk' = [wk EXCEPT ![p] = [@ EXCEPT !.left = wk[p].left \ {n},
                                                 !.hi = Max({wk[p].hi} \cup stored[n])]]
       \/ /\ ~Reaches(p, n)
          /\ EndTask(p)
          /\ UNCHANGED fenced
    /\ UNCHANGED <<md, stored, tasks, restVars>>

\* Mutant: no compare.
PutAlways(m) == TRUE

\* put_ledger: a compare-and-swap on the version.
PutSucceeds(m) == md.version = m.version

\* The end of fence_and_seal; the worker goes on with the record it has put.
SealRecovered(p) ==
    LET w == wk[p]
        m == [w.md EXCEPT !.state = "Closed", !.lac = w.hi, !.version = @ + 1]
    IN  /\ w.at = "fence"
        /\ w.left = {}
        /\ \/ /\ PutSucceeds(w.md)
              /\ md' = m
              /\ wk' = [wk EXCEPT ![p] = [@ EXCEPT !.at = "restore", !.md = m]]
           \/ /\ ~PutSucceeds(w.md)
              /\ EndTask(p)
              /\ UNCHANGED md
        /\ UNCHANGED <<stored, fenced, tasks, restVars>>

\* The fragment that owns entry e: the last that begins at or before it.
FragmentOf(m, e) ==
    CHOOSE i \in DOMAIN m.fragments :
        /\ m.fragments[i].first <= e
        /\ \A j \in DOMAIN m.fragments : m.fragments[j].first <= e => j <= i

\* The first fragment's entry beyond fragment i, or the LAC: where the copy ends,
\* this entry not included.
EndOf(m, i) ==
    LET later == {j \in DOMAIN m.fragments : m.fragments[j].first > m.fragments[i].first}
    IN  IF later = {} THEN m.lac ELSE m.fragments[Min(later)].first

\* restore_replication up to the copy: fragment, source and target.
restore_replication(p) ==
    LET w == wk[p]
        ensemble == w.md.fragments[FragmentOf(w.md, w.from)].ensemble
        sources == ensemble \ {w.failed}
        targets == Targets(ensemble, w.failed)
    IN  /\ w.at = "restore"
        /\ \/ \E s \in sources, t \in targets :
                 /\ {s, t} \subseteq resolver[p]
                 /\ wk' = [wk EXCEPT ![p] = [@ EXCEPT !.at = "copy", !.src = s, !.dst = t, !.e = w.from]]
           \/ /\ sources = {} \/ targets = {} \/ ~(sources \cup targets \subseteq resolver[p])
              /\ EndTask(p)
        /\ UNCHANGED <<tasks, dataVars, restVars>>

CopyEnd(w) == EndOf(w.md, FragmentOf(w.md, w.from))

\* Mutant: an entry the source does not give is left out.
CopySkips(p) ==
    LET w == wk[p]
        copied == /\ up[w.src] /\ w.e \in stored[w.src]
                  /\ up[w.dst] /\ ~fenced[w.dst]
    IN  /\ w.at = "copy"
        /\ w.e < CopyEnd(w)
        /\ stored' = IF copied THEN [stored EXCEPT ![w.dst] = @ \cup {w.e}] ELSE stored
        /\ wk' = [wk EXCEPT ![p] = [w EXCEPT !.e = w.e + 1]]
        /\ UNCHANGED <<md, fenced, tasks, restVars>>

\* One turn of the copy loop: the source is read, the target appends.  A target
\* that has the entry takes it as a duplicate; one that is fenced refuses it.
CopyEntry(p) ==
    LET w == wk[p]
        copied == /\ up[w.src] /\ w.e \in stored[w.src]
                  /\ up[w.dst] /\ ~fenced[w.dst]
    IN  /\ w.at = "copy"
        /\ w.e < CopyEnd(w)
        /\ \/ /\ copied
              /\ stored' = [stored EXCEPT ![w.dst] = @ \cup {w.e}]
              /\ wk' = [wk EXCEPT ![p] = [w EXCEPT !.e = w.e + 1]]
           \/ /\ ~copied
              /\ EndTask(p)
              /\ UNCHANGED stored
        /\ UNCHANGED <<md, fenced, tasks, restVars>>

\* The first fragment that begins where fragment i does.
FirstAt(m, i) == Min({k \in DOMAIN m.fragments : m.fragments[k].first = m.fragments[i].first})

\* It gives up the failed node and gets the target.
Swapped(m, i, failed, dst) ==
    LET f == m.fragments[FirstAt(m, i)]
        g == [f EXCEPT !.ensemble = (@ \ {failed}) \cup {dst}]
    IN  [m EXCEPT !.version = @ + 1, !.fragments = [@ EXCEPT ![FirstAt(m, i)] = g]]

\* The last put_ledger of restore_replication.
SwapNode(p) ==
    LET w == wk[p]
    IN  /\ w.at = "copy"
        /\ w.e >= CopyEnd(w)
        /\ md' = IF PutSucceeds(w.md)
                   THEN Swapped(w.md, FragmentOf(w.md, w.from), w.failed, w.dst) ELSE md
        /\ EndTask(p)
        /\ UNCHANGED <<stored, fenced, tasks, restVars>>

----------------------------------------------------------------------------
Auditor(p) ==
    \/ campaign_for_leadership(p)
    \/ enqueue_for_node(p) \/ EnqueueFails(p) \/ AuditorExits(p)

Worker(p) ==
    \/ process(p) \/ TaskFails(p) \/ transition_state(p) \/ SealRecovered(p)
    \/ \E n \in Nodes : fence_ledger(p, n)
    \/ restore_replication(p) \/ CopyEntry(p) \/ SwapNode(p)

Next == \E p \in Nodes : boot(p) \/ Exit(p) \/ LeaseStep(p) \/ Auditor(p) \/ Worker(p)

\* Tasks that can run do run, and a lease nobody renews ends.  With the bounds
\* every behaviour is finite, so fairness of the whole is fairness of each.
Fairness ==
    WF_vars(\E p \in Nodes :
                \/ enqueue_for_node(p) \/ Worker(p)
                \/ (\E b \in 1..MaxBoots : LeaseExpires(p, b)) /\ LeaseStep(p))

Spec == Init /\ [][Next]_vars /\ Fairness

----------------------------------------------------------------------------
(* Properties *)

TypeOK ==
    /\ LeaseType
    /\ md \in LedgerMetadata
    /\ stored \in [Nodes -> SUBSET Entries]
    /\ fenced \in [Nodes -> BOOLEAN]
    /\ aud \in [Nodes -> {"off", "start", "watch"}]
    /\ events \in [Nodes -> Seq(Nodes)]
    /\ tasks \in [Nodes -> Seq(ReReplicationTask)]
    /\ resolver \in [Nodes -> SUBSET Nodes]
    /\ wk \in [Nodes -> WorkerState]
    /\ noticed \subseteq Nodes

Begins(m, e) == \E i \in DOMAIN m.fragments : m.fragments[i].first = e

\* What a worker knows: it works for a node whose key was deleted, on a fragment
\* there is, with a record that is that of the store unless the store's version
\* has moved on; while it copies, the target is no member of the fragment and
\* has the entries copied so far.
Sound(w, m, has, gone) ==
    w.at # "idle" =>
        /\ w.failed \in gone
        /\ WellFormed(w.md) /\ Begins(w.md, w.from) /\ Begins(m, w.from)
        /\ w.md.version <= m.version
        /\ w.md.version = m.version => w.md = m
        /\ w.at = "copy" =>
              /\ w.src \in Nodes /\ w.dst \in Nodes
              /\ w.dst \notin w.md.fragments[FragmentOf(w.md, w.from)].ensemble
              /\ w.from <= w.e
              /\ w.from..(w.e - 1) \subseteq has[w.dst]

\* However auditors, workers and failures interleave, every worker's view of its
\* task is sound: what the repair puts into the metadata (the last put_ledger of
\* restore_replication) was true of the nodes when the version was read.
RepairsSound ==
    /\ TypeOK
    /\ WellFormed(md)
    /\ \A p \in Nodes : \A i \in DOMAIN events[p] : events[p][i] \in noticed
    /\ \A p \in Nodes : \A i \in DOMAIN tasks[p] :
          tasks[p][i].failed \in noticed /\ Begins(md, tasks[p][i].from)
    /\ \A p \in Nodes : Sound(wk[p], md, stored, noticed)

\* The nodes a reader asks for entry e that have it.
Holders(e) == {n \in md.fragments[FragmentOf(md, e)].ensemble : e \in stored[n]}

Exchanged(e) ==
    LET lost == Holders(e) \ Holders(e)'
    IN  lost # {} => (\E n \in lost : lost = {n}) /\ Holders(e)' \ Holders(e) # {}

\* Below the LAC a repair never costs a replica: when a node that holds an entry
\* leaves the fragment that owns it, it leaves alone and another that holds the
\* entry has come in the same put, whatever other auditors and workers do on
\* the same ledger and though the copy reads a record that may be out of date
\* (RecoveryManager::restore_replication).  The entry at the LAC is not copied
\* ("from_entry_id..end_entry_id").
ReplicaExchanged == [][\A e \in 0..(md.lac - 1) : Exchanged(e)]_vars

\* A node loses its place in an ensemble only if its key was deleted at some
\* time: neither a read-only node nor one that is slow is taken for failed
\* (Auditor::watch_node_events acts on DELETE only).
OnlyDeletedReplaced ==
    [][\A i \in DOMAIN md.fragments :
          md.fragments[i].ensemble \ md'.fragments[i].ensemble \subseteq noticed]_vars

InEnsemble(f) == {i \in DOMAIN md.fragments : f \in md.fragments[i].ensemble}

Unoccupied(q) == aud[q] # "watch" /\ tasks[q] = <<>> /\ wk[q].at = "idle"

\* The conditions a repair of f by p needs: no other auditor or worker is active,
\* the ledger is closed, every other node of f's fragments runs, is known to p and
\* has the entries, and every node that may be a target runs, is known to p and is
\* not fenced.  f itself is not the target of a copy that began before it failed:
\* SwapNode would put it into an ensemble after its event has been handled.
Repairable(p, f) ==
    /\ up[p] /\ faults = MaxFaults
    /\ \A q \in Nodes \ {p} : Unoccupied(q)
    /\ wk[p].dst # f
    /\ md.state = "Closed"
    /\ \A i \in InEnsemble(f) :
          LET m == md.fragments[i].ensemble
          IN  /\ m \ {f} # {} /\ Targets(m, f) # {}
              /\ \A s \in m \ {f} : Reaches(p, s) /\ md.fragments[i].first..(EndOf(md, i) - 1) \subseteq stored[s]
              /\ \A t \in Targets(m, f) : Reaches(p, t) /\ ~fenced[t]

\* A failure that the one active auditor has been told of is repaired in every
\* fragment the node is in, while the conditions of a repair last: a task is
\* queued for each fragment and entries the target already has are no obstacle.
\* With two active auditors ("Exactly one Auditor is active at a time",
\* recovery/auditor.rs) it fails: the put of one worker refuses that of the
\* other, whose task is dropped.
NoticedRepaired ==
    \A p \in Auditors, f \in Down \cup Failing :
        (aud[p] = "watch" /\ (\E i \in DOMAIN events[p] : events[p][i] = f) /\ Repairable(p, f))
            ~> (InEnsemble(f) = {} \/ ~Repairable(p, f))
=============================================================================
