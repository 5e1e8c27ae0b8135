------------------------------ MODULE MCLedger ------------------------------
(* Instances of Ledger for TLC. *)
EXTENDS Ledger, TLC

MCOneNode == <<1>>
MCTwoNodes == <<1, 2>>
MCThreeNodes == <<1, 2, 3>>

\* Two calls of fence_and_seal differ in nothing but their names.
MCSymmetry == Permutations(Recoverers)
=============================================================================
