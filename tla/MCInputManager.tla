---------------------------- MODULE MCInputManager ----------------------------
(* Two windows, two contexts, one device and one subscription.               *)
EXTENDS InputManager, TLC

CONSTANTS w1, w2, c1, c2, d1

Symmetry == Permutations({w1, w2}) \cup Permutations({c1, c2})

AllWishes == {{"capture", "relative"}}
===============================================================================
