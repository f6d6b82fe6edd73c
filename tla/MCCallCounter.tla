--------------------------- MODULE MCCallCounter ----------------------------
(***************************************************************************)
(* Instances of CallCounter for TLC: two roots on one counter file, and a  *)
(* call that delegates in turn.                                            *)
(***************************************************************************)
EXTENDS CallCounter, TLC

CONSTANTS a, b, c, d, first, second

Quad == {a, b, c, d}
TwoRoots == {first, second}

\* Two roots; a call of the first one delegates.
MixedParent == (a :> first @@ b :> first @@ c :> second @@ d :> a)
MixedRoot == (a :> first @@ b :> first @@ c :> second @@ d :> first)

EachFault == [f \in Faults |-> 1]
==============================================================================
