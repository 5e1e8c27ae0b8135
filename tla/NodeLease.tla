------------------------------ MODULE NodeLease ------------------------------
(***************************************************************************)
(* How storage nodes appear in etcd: NodeRegistry writes the node's key    *)
(* under a lease and keeps the lease alive, HealthMonitor overwrites the   *)
(* key when the status changes, and etcd deletes the key when the lease it *)
(* is attached to ends.  list_nodes lists the nodes that have a key.       *)
(*                                                                         *)
(* etcd's clock is not modelled: a lease that is not being renewed may end *)
(* at any time, one that is renewed does not end.                          *)
(***************************************************************************)
EXTENDS Integers, FiniteSets

CONSTANTS Nodes,
          Down,         \* nodes that have just stopped at the start
          MaxBoots,     \* bound: times a node is started
          Failing,      \* bound: nodes that stop, lose a stream or change status
          MaxFaults     \* bound: how often they do

ASSUME LeaseConstants ==
    /\ MaxBoots \in Nat
    /\ Down \subseteq Nodes
    /\ Failing \subseteq Nodes
    /\ MaxFaults \in Nat

NoLease == 0            \* put without a lease
NoKey == [lease |-> NoLease, status |-> "none"]

VARIABLES
    up,          \* up[n]: the process of n runs and is registered
    boots,       \* boots[n]: leases granted to n; the last is its process's
    live,        \* live[n]: leases of n that etcd still holds
    key,         \* key[n]: the value of /folio/nodes/<n>, and its lease
    stream,      \* stream[n]: the keep-alive task of n's process
    last,        \* last[n]: last_status of n's health monitor
    faults,
    detached     \* history: the health monitor of n's last process put the key

leaseVars == <<up, boots, live, key, stream, last, faults, detached>>

LeaseInit ==
    /\ up = [n \in Nodes |-> n \notin Down]
    /\ boots = [n \in Nodes |-> 1]
    /\ live = [n \in Nodes |-> {1}]
    /\ key = [n \in Nodes |-> [lease |-> 1, status |-> "ReadWrite"]]
    /\ stream = [n \in Nodes |-> "ok"]
    /\ last = [n \in Nodes |-> "ReadWrite"]
    /\ faults = 0
    /\ detached = [n \in Nodes |-> FALSE]

\* MetadataStore::list_nodes: every key, whatever its status.
list_nodes == {n \in Nodes : key[n] # NoKey}

Fault(n) == n \in Failing /\ faults < MaxFaults /\ faults' = faults + 1

----------------------------------------------------------------------------
(* NodeRegistry *)

\* Mutant: the key is written only if there is none.
RegisterOnce(n, opened) ==
    /\ ~up[n]
    /\ boots[n] < MaxBoots
    /\ opened \/ faults < MaxFaults
    /\ up' = [up EXCEPT ![n] = TRUE]
    /\ boots' = [boots EXCEPT ![n] = @ + 1]
    /\ live' = [live EXCEPT ![n] = @ \cup {boots[n] + 1}]
    /\ key' = IF key[n] = NoKey
                THEN [key EXCEPT ![n] = [lease |-> boots[n] + 1, status |-> "ReadWrite"]] ELSE key
    /\ stream' = [stream EXCEPT ![n] = IF opened THEN "ok" ELSE "ended"]
    /\ faults' = IF opened THEN faults ELSE faults + 1
    /\ last' = [last EXCEPT ![n] = "ReadWrite"]
    /\ detached' = [detached EXCEPT ![n] = FALSE]

\* Mutant: the key is written without the lease.
RegisterUnleased(n, opened) ==
    /\ ~up[n]
    /\ boots[n] < MaxBoots
    /\ opened \/ faults < MaxFaults
    /\ up' = [up EXCEPT ![n] = TRUE]
    /\ boots' = [boots EXCEPT ![n] = @ + 1]
    /\ live' = [live EXCEPT ![n] = @ \cup {boots[n] + 1}]
    /\ key' = [key EXCEPT ![n] = [lease |-> NoLease, status |-> "ReadWrite"]]
    /\ stream' = [stream EXCEPT ![n] = IF opened THEN "ok" ELSE "ended"]
    /\ faults' = IF opened THEN faults ELSE faults + 1
    /\ last' = [last EXCEPT ![n] = "ReadWrite"]
    /\ detached' = [detached EXCEPT ![n] = FALSE]

\* boot: a new lease, the key under it, the keep-alive task and the health
\* monitor.  When the first stream cannot be opened the keep-alive task returns.
register(n, opened) ==
    /\ ~up[n]
    /\ boots[n] < MaxBoots
    /\ opened \/ faults < MaxFaults
    /\ up' = [up EXCEPT ![n] = TRUE]
    /\ boots' = [boots EXCEPT ![n] = @ + 1]
    /\ live' = [live EXCEPT ![n] = @ \cup {boots[n] + 1}]
    /\ key' = [key EXCEPT ![n] = [lease |-> boots[n] + 1, status |-> "ReadWrite"]]
    /\ stream' = [stream EXCEPT ![n] = IF opened THEN "ok" ELSE "ended"]
    /\ faults' = IF opened THEN faults ELSE faults + 1
    /\ last' = [last EXCEPT ![n] = "ReadWrite"]
    /\ detached' = [detached EXCEPT ![n] = FALSE]

\* A keep_alive is not sent or not answered: the task begins to reconnect.
StreamLost(n) ==
    /\ up[n]
    /\ stream[n] = "ok"
    /\ Fault(n)
    /\ stream' = [stream EXCEPT ![n] = "lost"]
    /\ UNCHANGED <<up, boots, live, key, last, detached>>

\* lease_keep_alive on the same lease_id works only while etcd has the lease;
\* after that the task retries for ever and no new lease is granted.
Reconnect(n) ==
    /\ up[n]
    /\ stream[n] = "lost"
    /\ boots[n] \in live[n]
    /\ stream' = [stream EXCEPT ![n] = "ok"]
    /\ UNCHANGED <<up, boots, live, key, last, faults, detached>>

\* What etcd does when lease b of n ends.
EndLease(n, b) ==
    /\ live' = [live EXCEPT ![n] = @ \ {b}]
    /\ key' = IF key[n] # NoKey /\ key[n].lease = b THEN [key EXCEPT ![n] = NoKey] ELSE key

\* etcd: the TTL of a lease nobody renews has passed.
LeaseExpires(n, b) ==
    /\ b \in live[n]
    /\ ~(up[n] /\ b = boots[n] /\ stream[n] = "ok")
    /\ EndLease(n, b)
    /\ UNCHANGED <<up, boots, stream, last, faults, detached>>

\* wait_for_shutdown: the server has ended, the lease is revoked.
deregister(n) ==
    /\ up[n]
    /\ Fault(n)
    /\ up' = [up EXCEPT ![n] = FALSE]
    /\ EndLease(n, boots[n])
    /\ UNCHANGED <<boots, stream, last, detached>>

\* The process dies, or ends without deregister (an error of the server), or the
\* revocation fails.
Crash(n) ==
    /\ up[n]
    /\ Fault(n)
    /\ up' = [up EXCEPT ![n] = FALSE]
    /\ UNCHANGED <<boots, live, key, stream, last, detached>>

----------------------------------------------------------------------------
(* HealthMonitor::run *)

\* A tick finds a status other than last_status, which it replaces before it
\* puts the key; the put carries no lease, and may fail.
HealthTick(n, status, put) ==
    /\ up[n]
    /\ status # last[n]
    /\ Fault(n)
    /\ last' = [last EXCEPT ![n] = status]
    /\ IF put THEN /\ key' = [key EXCEPT ![n] = [lease |-> NoLease, status |-> status]]
                   /\ detached' = [detached EXCEPT ![n] = TRUE]
              ELSE UNCHANGED <<key, detached>>
    /\ UNCHANGED <<up, boots, live, stream>>

Start(n) == \E opened \in BOOLEAN : register(n, opened)
Stop(n) == deregister(n) \/ Crash(n)
Lease(n) ==
    \/ StreamLost(n) \/ Reconnect(n)
    \/ \E b \in 1..MaxBoots : LeaseExpires(n, b)
    \/ \E s \in {"ReadWrite", "ReadOnly"}, put \in BOOLEAN : HealthTick(n, s, put)

LeaseNext == \E n \in Nodes : Start(n) \/ Stop(n) \/ Lease(n)
LeaseSpec == LeaseInit /\ [][LeaseNext]_leaseVars

----------------------------------------------------------------------------
(* Properties *)

LeaseType ==
    /\ up \in [Nodes -> BOOLEAN]
    /\ boots \in [Nodes -> Nat \ {0}]
    /\ live \in [Nodes -> SUBSET (Nat \ {0})]
    /\ key \in [Nodes -> [lease: Nat, status: {"none", "ReadWrite", "ReadOnly"}]]
    /\ stream \in [Nodes -> {"ok", "lost", "ended"}]
    /\ last \in [Nodes -> {"ReadWrite", "ReadOnly"}]
    /\ faults \in Nat
    /\ detached \in [Nodes -> BOOLEAN]

\* A running node whose keep-alive stream stands is listed, also when it came
\* back before the lease of its earlier process ended: that lease takes its key
\* along only if register has not written it anew (NodeRegistry::register).
SteadyNodeListed == \A n \in Nodes : up[n] /\ stream[n] = "ok" => n \in list_nodes

\* The key of a node that has stopped goes away, or the node comes back, unless
\* the health monitor of its last process wrote the key: "the key disappears
\* automatically if the node crashes" (node/registry.rs) holds up to HealthTick.
StoppedUnlisted ==
    \A n \in Down \cup Failing : (~up[n] /\ ~detached[n]) ~> (up[n] \/ n \notin list_nodes)
=============================================================================
