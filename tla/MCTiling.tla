------------------------------ MODULE MCTiling -------------------------------
(* Instances of Tiling for TLC, on a screen of 20 by 33. *)
EXTENDS Tiling

Program == Rect(3, 3, 5, 5)
MasterAmounts == {40}
ReplMoves == {<<2, 40000>>}
ReplSizes == {<<6, -1>>}
AllSymmetry == Permutations(Clients) \cup Permutations(Windows)
=============================================================================
