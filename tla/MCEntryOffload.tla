--------------------------- MODULE MCEntryOffload ---------------------------
(* The instance of EntryOffload for TLC. *)
EXTENDS EntryOffload
=============================================================================
