---------------------------- MODULE MCInputDaemon ----------------------------
(* InputDaemon with small sets of contexts and applications. *)
EXTENDS InputDaemon, TLC

SlotSymmetry == Permutations(Slots)
SlotAppSymmetry == Permutations(Slots) \union Permutations(Apps)
=============================================================================
