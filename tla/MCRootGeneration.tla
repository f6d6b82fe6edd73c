-------------------------- MODULE MCRootGeneration --------------------------
(***************************************************************************)
(* Instances of RootGeneration for TLC.                                    *)
(***************************************************************************)
EXTENDS RootGeneration, TLC

CONSTANTS a, b

TwoCalls == {a, b}
Symmetry == Permutations(TwoCalls)
FaultsTwice == [f \in Faults |-> 2]
=============================================================================
