------------------------- MODULE MCImplementerMutex -------------------------
(***************************************************************************)
(* Instances of ImplementerMutex for TLC.                                  *)
(***************************************************************************)
EXTENDS ImplementerMutex

CONSTANTS h1, h2, c1, c2

TwoHolders == {h1, h2}
TwoCleaners == {c1, c2}
AllButOneCleaner == {h1, h2, c2}
=============================================================================
