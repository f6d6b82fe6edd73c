------------------------- MODULE MCTreeCoordinator -------------------------
(***************************************************************************)
(* Instances of TreeCoordinator for TLC: small trees of calls and, per     *)
(* run, which kinds of fault may happen and how often.                     *)
(***************************************************************************)
EXTENDS TreeCoordinator, TLC

CONSTANTS a, b, c, d, root

\* A call of the root that delegates once, and its sibling.
Family == {a, b, c}
NestedParent == (a :> root @@ b :> a @@ c :> root)

\* A call of the root that delegates a batch of two.
BatchParent == (a :> root @@ b :> a @@ c :> a)

\* A full batch of the root, each call of which delegates in turn.
TwoFamilies == {a, b, c, d}
FullBatchParent == (a :> root @@ b :> root @@ c :> a @@ d :> b)

\* Fault budgets
Budget(F) == [f \in Faults |-> IF f \in F THEN 1 ELSE 0]
Canceling == Budget({"cancel"})
EndOfTree == Budget({"cutoff", "rootdeath"})
TwoFaults == [f \in Faults |-> 2]
==============================================================================
