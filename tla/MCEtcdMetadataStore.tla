------------------------ MODULE MCEtcdMetadataStore ------------------------
(* Instance of EtcdMetadataStore for TLC. *)
EXTENDS EtcdMetadataStore, TLC

CONSTANTS c1, c2, e1, e2

MCClients == {c1, c2}
MCEdits == {e1, e2}
MCSymmetry == Permutations(MCClients) \cup Permutations(MCEdits)
=============================================================================
