--------------------------- MODULE MCLeaseJournal ---------------------------
(***************************************************************************)
(* Instances of LeaseJournal for TLC: an owner and the recoveries that     *)
(* find its lease after its death.                                         *)
(***************************************************************************)
EXTENDS LeaseJournal, TLC, FiniteSets

CONSTANTS owner, r1, r2

TwoRecoveries == {r1, r2}
Symmetry == Permutations(TwoRecoveries)
SomeFaults == "io" :> 1 @@ "kill" :> 2 @@ "outage" :> 2
=============================================================================
