-------------------------- MODULE MCJournalService --------------------------
(* Instances of JournalService for TLC. *)
EXTENDS JournalService, TLC

CONSTANTS a1, a2, f1, f2, r1

MCAdds == {a1, a2}
MCOneFence == {f1}
MCTwoFences == {f1, f2}
MCReads == {r1}
MCNoReads == {}
MCSymmetry == Permutations(MCAdds) \cup Permutations(MCTwoFences)
=============================================================================
