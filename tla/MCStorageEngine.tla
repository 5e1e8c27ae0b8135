--------------------------- MODULE MCStorageEngine ---------------------------
(* Instances of StorageEngine for TLC. *)
EXTENDS StorageEngine

MCSize == [e \in Entries |-> IF e = 1 THEN 1 ELSE 2]
=============================================================================
