---------------------------- MODULE MCAtomicFile ----------------------------
(***************************************************************************)
(* An instance of AtomicFile for TLC: two processes and the stranger.      *)
(***************************************************************************)
EXTENDS AtomicFile, TLC

CONSTANTS a, b, i1, i2, i3

Processes == {a, b}
Numbers == {i1, i2, i3}
Symmetry == Permutations(Processes) \cup Permutations(Numbers)
SomeFaults == "cut" :> 1 @@ "stranger" :> 2
=============================================================================
