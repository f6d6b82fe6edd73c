--------------------------- MODULE AttemptedWork ----------------------------
(***************************************************************************)
(* What the implementer registry promises of the work a child attempts: it *)
(* is in an isolated worktree, and the worktree goes away only once a ref  *)
(* holds the same work.  "Before a verified reference exists, the isolated *)
(* worktree remains the primary copy.  After verification, the reference   *)
(* is authoritative" (README.md:228-230).                                  *)
(***************************************************************************)
EXTENDS Naturals

CONSTANT Calls  \* the implement calls

VARIABLES
    tree,  \* contents of the worktree of each call, 0 if it does not exist
    ref    \* contents of the attempt ref of each call, 0 if it does not exist

Baseline == 1  \* what a fresh worktree contains

Init == tree = [c \in Calls |-> 0] /\ ref = [c \in Calls |-> 0]

Begin(c) ==
    /\ tree[c] = 0 /\ ref[c] = 0
    /\ tree' = [tree EXCEPT ![c] = Baseline]
    /\ UNCHANGED ref

\* A child writes; nobody writes once the work is in the ref.
Edit(c) ==
    /\ tree[c] # 0 /\ ref[c] = 0
    /\ tree' = [tree EXCEPT ![c] = @ + 1]
    /\ UNCHANGED ref

Save(c) ==
    /\ tree[c] # 0 /\ ref[c] = 0
    /\ ref' = [ref EXCEPT ![c] = tree[c]]
    /\ UNCHANGED tree

\* A worktree that was never worked in needs no ref.
Drop(c) ==
    /\ tree[c] # 0 /\ (ref[c] = tree[c] \/ tree[c] = Baseline)
    /\ tree' = [tree EXCEPT ![c] = 0]
    /\ UNCHANGED ref

Next == \E c \in Calls : Begin(c) \/ Edit(c) \/ Save(c) \/ Drop(c)

Spec == Init /\ [][Next]_<<tree, ref>>
=============================================================================
