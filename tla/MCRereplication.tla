--------------------------- MODULE MCRereplication ---------------------------
EXTENDS Rereplication, TLC

CONSTANTS n1, n2, n3, n4

Ledger(state, fragments, lac, s, f) ==
    [md |-> [state |-> state, fragments |-> fragments, lac |-> lac, version |-> 1],
     stored |-> [n \in Nodes |-> IF n \in DOMAIN s THEN s[n] ELSE {}],
     fenced |-> [n \in Nodes |-> n \in f]]

\* Closed by the client after two appends: one fragment, LAC 1.
\* Open after two appends: the LAC in the record is still 0.
\* Closed by the client, n1 replaced by n3 before entry 1.
MCLedgers ==
    {Ledger("Closed", <<[first |-> 0, ensemble |-> {n1, n2}]>>, 1,
            n1 :> {0, 1} @@ n2 :> {0, 1}, {}),
     Ledger("Open", <<[first |-> 0, ensemble |-> {n1, n2}]>>, 0,
            n1 :> {0, 1} @@ n2 :> {0, 1}, {}),
     Ledger("Closed", <<[first |-> 0, ensemble |-> {n1, n2}], [first |-> 1, ensemble |-> {n2, n3}]>>, 2,
            n1 :> {0} @@ n2 :> {0, 1, 2} @@ n3 :> {1, 2}, {})}

\* The nodes were started in this order, each after the others had registered.
MCResolvers ==
    {n1 :> {n1} @@ n2 :> {n1, n2} @@ n3 :> {n1, n2, n3} @@ n4 :> Nodes}

=============================================================================
