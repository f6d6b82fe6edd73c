----------------------------- MODULE WriteScope -----------------------------
(***************************************************************************)
(* The paths that implementers declare, and which files they may write:    *)
(* implement-scope.ts.  An entry of a scope is a path of names, ".", ".."  *)
(* with or without a slash at its end; the path of a file has neither.     *)
(* Fold is the folding of one name to its compatible lower-case form,      *)
(* which may be ".git", "." or ".."; the code folds a whole path, and no   *)
(* name here folds into one with a slash in it.                            *)
(***************************************************************************)
EXTENDS Naturals, Sequences

CONSTANTS
    Names,   \* names of files and directories
    Fold     \* what scopesOverlap makes of a name

Components == Names \cup {".", ".."}
Entry == [path : Seq(Components), slash : BOOLEAN]

ASSUME NamesAssumption ==
    Names \cap {".", ".."} = {} /\ Fold \in [Names -> Components]

\* path.posix.normalize: every ".." takes back the name before it.
Resolve(path) ==
    LET upTo[n \in 0 .. Len(path)] ==
          IF n = 0 THEN <<>>
          ELSE LET before == upTo[n - 1]  last == Len(before)
               IN  CASE path[n] = "." -> before
                     [] path[n] = ".." /\ last > 0 /\ before[last] # ".." ->
                          SubSeq(before, 1, last - 1)
                     [] OTHER -> Append(before, path[n])
    IN  upTo[Len(path)]

Normal(entry) == [entry EXCEPT !.path = Resolve(@)]

\* It stays in the repository and out of its metadata.
Accepted(entry) ==
    \A i \in DOMAIN Resolve(entry.path) : Resolve(entry.path)[i] \notin {"..", ".git"}

\* The string of the candidate begins with that of the owner and a slash.
Beneath(candidate, owner) ==
    /\ ~owner.slash /\ owner.path # <<>> /\ Len(owner.path) <= Len(candidate.path)
    /\ SubSeq(candidate.path, 1, Len(owner.path)) = owner.path
    /\ Len(owner.path) < Len(candidate.path) \/ candidate.slash

Everything == [path |-> <<>>, slash |-> FALSE]

\* pathIsWithinImplementScope.
IsWithin(candidate, owner) ==
    /\ Accepted(candidate)
    /\ owner \in {Everything, Normal(candidate)} \/ Beneath(Normal(candidate), owner)

NormalizeScope(request) ==
    LET entries == {Normal(e) : e \in request}
    IN  {e \in entries : \A owner \in entries \ {e} : ~IsWithin(e, owner)}

Folded(entry) == [entry EXCEPT !.path = [i \in DOMAIN @ |-> Fold[@[i]]]]

ScopesOverlap(left, right) ==
    \E l \in left, r \in right :
        IsWithin(Folded(l), Folded(r)) \/ IsWithin(Folded(r), Folded(l))

\* checkImplementWritePath and the snapshot ask this of a file.
MayWrite(file, scope) == \E owner \in scope : IsWithin([path |-> file, slash |-> FALSE], owner)
=============================================================================
