----------------------------- MODULE LoraMeshMC -----------------------------
(* LoraMesh for TLC.  Nodes and messages are model values.  Steady is the      *)
(* constraint of the safety run: its properties say nothing of other states.   *)
EXTENDS LoraMesh, TLC
Symmetry == Permutations(Node) \cup Permutations(Msg)
Steady == steady
=============================================================================
