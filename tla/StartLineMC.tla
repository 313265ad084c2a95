---------------------------- MODULE StartLineMC ----------------------------
(* StartLine for TLC.  Boats, contexts, nonces and epochs are model values,   *)
(* told apart only by equality, so the safety runs may identify states that   *)
(* differ by a permutation of them; slots and addresses are ordered and       *)
(* searched in order, and stay as they are.                                   *)
EXTENDS StartLineQueue, TLC
Symmetry == Permutations(Boat) \cup Permutations(GrantNonce) \cup Permutations(RegNonce)
            \cup Permutations(Epoch)
=============================================================================
