----------------------- MODULE MCImplementerRegistry ------------------------
(***************************************************************************)
(* Small instances of ImplementerRegistry.                                 *)
(***************************************************************************)
EXTENDS ImplementerRegistry, TLC

CONSTANTS a, b, d, p1, p2, r1, r2

TwoCalls == {a, b}
ThreeCalls == {a, b, d}
OwnersTwo == a :> p1 @@ b :> p2
OwnersThree == a :> p1 @@ b :> p1 @@ d :> p2

\* Names that differ in case, the directory of Git, and a letter (U+2025) whose
\* compatible form is two dots.
SomeNames == {"src", "SRC", "lib", ".git", ".GIT", "2025"}
LowerCase ==
    ("SRC" :> "src" @@ ".GIT" :> ".git" @@ "2025" :> "..") @@ [n \in SomeNames |-> n]
ManyFiles == UNION {[1 .. n -> SomeNames \ {".git", "lib"}] : n \in 1 .. 2}

\* What a and d ask for is spelt differently; b asks for something else, and for
\* a directory that overlaps nothing, as a does.
Dir(path) == [path |-> path, slash |-> TRUE]
File(path) == [path |-> path, slash |-> FALSE]
Requests ==
    a :> {File(<<"lib", "..", "SRC", ".">>), File(<<"SRC", "lib">>), File(<<".GIT">>)} @@
    b :> {File(<<"lib">>), File(<<"lib", "src">>), Dir(<<"SRC", "..", "lib">>),
           File(<<".GIT">>)} @@
    d :> {File(<<"src", "lib">>), File(<<"src", "lib", ".", "src">>)}

SomeFiles == {<<"src">>, <<"SRC", "lib">>, <<"src", "lib">>, <<"lib", "src">>,
              <<".GIT", "src">>}

SameFiles ==
    {pair \in ManyFiles \X ManyFiles : SameFile(pair[1], pair[2]) /\ Comparable(pair[1])}

\* Every entry of up to two components.
SomeEntries == [path : UNION {[1 .. n -> (SomeNames \ {"lib"}) \cup {".", ".."}] : n \in 0 .. 2},
                slash : BOOLEAN]
SomeAccepted == {e \in SomeEntries : Accepted(e)}
ScopeOf(e) == NormalizeScope({e})

\* The entries of a scope are told apart from each other as the files beneath
\* them are: scopes that do not overlap leave no file to both, unless its folded
\* path cannot be compared.
ASSUME DisjointScopes ==
    \A l, r \in SomeAccepted :
        \/ ScopesOverlap(ScopeOf(l), ScopeOf(r))
        \/ \A pair \in SameFiles :
             ~MayWrite(pair[1], ScopeOf(l)) \/ ~MayWrite(pair[2], ScopeOf(r))

\* What is left out of a scope because another entry covers it is not lost.
ASSUME ReducedScopes ==
    \A l, r \in SomeAccepted :
        LET both == NormalizeScope({l, r})  left == ScopeOf(l)  right == ScopeOf(r)
        IN  \A p \in ManyFiles : MayWrite(p, both) <=> MayWrite(p, left) \/ MayWrite(p, right)

EveryStage == Synchronous \cup {"idle", "ready", "running", "killing"}

\* Two scenarios of one run: all that may happen to the lease of one call; and
\* several calls until a child runs or ends well, while p2 may die, no cleanup is
\* run, no child edits and a call that fails has reserved nothing.
AnyOther == Calls \ {a}
OneLease ==
    /\ \A c \in AnyOther :
         lease[c] = "none" /\ pc[c] \in {"idle", "dead"} /\ baseline[c] = 0
    /\ p2 \in alive
Failing == {"discarding", "dropping", "dropped", "killing", "failed", "retained"}
SeveralLeases ==
    /\ {p1} \cup Recoveries \subseteq alive /\ \A r \in Recoveries : rpc[r] = "idle"
    /\ crashes >= CrashBudget - 1 /\ lock # Broken
    /\ \A c \in Calls :
         /\ pc[c] \notin Failing /\ tree[c] <= 1 /\ ref[c] <= 1
         /\ pc[c] = "refused" => lease[c] = "none"
         /\ pc[c] = "dead" => child[c] = "none"
Scenarios == OneLease \/ SeveralLeases
=============================================================================
