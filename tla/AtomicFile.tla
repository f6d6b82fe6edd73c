----------------------------- MODULE AtomicFile -----------------------------
(***************************************************************************)
(* One file that processes create and replace through atomic-file.ts,      *)
(* beside a stranger of the same user who renames, links and removes what  *)
(* it finds.  A process takes one system call or one run of checks at a    *)
(* time; whatever it has checked may have changed when it acts.            *)
(*                                                                         *)
(* A new file takes a number that no name and no descriptor refers to any  *)
(* more, so that numbers are used again.  Owner, type and mode of a file   *)
(* are one bit.  A temporary has a random name: nobody creates it by       *)
(* chance.  What the descriptors say after a close is not modelled.        *)
(***************************************************************************)
EXTENDS Naturals, FiniteSets, Functions

CONSTANTS
    Writers,      \* the processes that use the file
    Inodes,       \* numbers of files
    Stranger,     \* another process of the user
    Target,       \* the path of the file
    None,         \* no file, no content
    MaxOperations,    \* bound: how many operations begin
    FaultBudget   \* bound: how often each kind of fault may happen

Faults == {"cut", "stranger"}

ASSUME NamesAssumption ==
    /\ Stranger \notin Writers \cup {None} /\ Target \notin Writers /\ None \notin Inodes \cup Writers
    /\ IsFiniteSet(Inodes) /\ IsFiniteSet(Writers)
ASSUME BoundAssumption == MaxOperations \in Nat /\ FaultBudget \in [Faults -> Nat]

VARIABLES
    file,    \* the files by number
    name,    \* what the target and the temporary of each writer name
    here,    \* the directory is still at its path
    stage,   \* progress of each writer
    kind,    \* the operation it is in
    round,   \* which of its operations that is
    fd,      \* the file its descriptor holds
    goal,    \* what a replacement expects to find
    held,    \* identity and content that its last success returned
    disk,    \* contents and target as they are on the disk
    faults   \* what is left of FaultBudget

vars == <<file, name, here, stage, kind, round, fd, goal, held, disk, faults>>
opVars == <<kind, round, goal, held>>
world == <<here, disk, faults>>

\* A value is told by its writer and the operation that writes it.
Values == Writers \X Nat
Empty == <<None, 0>>
Part == <<None, 1>>
Alien == <<Stranger, 0>>
Contents == Values \cup {Empty, Part, Alien}
File == [by : Writers \cup {Stranger, None}, content : Contents, private : BOOLEAN,
         extra : Nat, edited : BOOLEAN]
NoFile == [by |-> None, content |-> Empty, private |-> FALSE, extra |-> 0, edited |-> FALSE]
Expected == [inode : Inodes \cup {None}, content : Contents \cup {None}]
Nothing == [inode |-> None, content |-> None]
Ended == {"ok", "failed", "visible", "dead"}
Stages == Ended \cup
    {"idle", "preparing", "filling", "filled", "checked", "linking", "published", "confirmed",
     "retiring", "unlinked", "cleaning", "dropping",
     "opening", "opened", "truncating", "writing", "rewritten", "verifying"}

Names == Writers \cup {Target}
Links(i) == Cardinality({n \in Names : name[n] = i}) + file[i].extra
InUse(i) == (\E n \in Names : name[n] = i) \/ file[i].extra > 0 \/ \E w \in Writers : fd[w] = i
Value(w) == <<w, round[w]>>
Begun == FoldFunction(+, 0, round)

\* assertPathNamesIdentity and privateFileIdentity: the path leads to this file,
\* which is ours, private and has that many names.
IsFile(i, links) == file[i].private /\ Links(i) = links
PathNames(n, i, links) == here /\ name[n] = i /\ IsFile(i, links)

Init ==
    /\ file = [i \in Inodes |-> NoFile]
    /\ name = [n \in Names |-> None] /\ here = TRUE
    /\ stage = [w \in Writers |-> "idle"] /\ kind = [w \in Writers |-> "create"]
    /\ round = [w \in Writers |-> 0] /\ fd = [w \in Writers |-> None]
    /\ goal = [w \in Writers |-> Nothing] /\ held = [w \in Writers |-> Nothing]
    /\ disk = [content |-> [i \in Inodes |-> Empty], target |-> None]
    /\ faults = FaultBudget

Goto(w, s) == stage' = [stage EXCEPT ![w] = s]
\* The operation ends and its descriptors are closed.
End(w, s) == Goto(w, s) /\ fd' = [fd EXCEPT ![w] = None]
Check(w, condition, next, failure) ==
    /\ IF condition THEN Goto(w, next) /\ UNCHANGED fd
       ELSE IF failure \in Ended THEN End(w, failure) ELSE Goto(w, failure) /\ UNCHANGED fd
    /\ UNCHANGED <<file, name, opVars, world>>
SyncDirectory == disk' = [disk EXCEPT !.target = name[Target]]
Spend(f) == faults[f] > 0 /\ faults' = [faults EXCEPT ![f] = @ - 1]

------------------------------------------------------------------------------
(* Beginning of an operation *)

\* Only a process that knows what became of its last operation goes on.
Begin(w, k) ==
    /\ stage[w] \in {"idle", "ok"} /\ Begun < MaxOperations
    /\ round' = [round EXCEPT ![w] = @ + 1] /\ kind' = [kind EXCEPT ![w] = k]
    /\ UNCHANGED <<file, name, fd, held, world>>

BeginCreate(w) ==
    Begin(w, "create") /\ Goto(w, "preparing") /\ UNCHANGED goal

\* The caller passes the identity and, as the coordinator does, the content
\* that its last operation left.
BeginReplace(w) ==
    /\ held[w] # Nothing
    /\ Begin(w, "replace") /\ Goto(w, "opening") /\ goal' = [goal EXCEPT ![w] = held[w]]

\* atomicWriteFile takes what it finds.
BeginWrite(w) ==
    LET found == IF here THEN name[Target] ELSE None
    IN  /\ Begin(w, "write")
        /\ IF found = None THEN Goto(w, "preparing") /\ UNCHANGED goal
           ELSE IF IsFile(found, 1)
           THEN Goto(w, "opening") /\ goal' = [goal EXCEPT ![w] = [Nothing EXCEPT !.inode = found]]
           ELSE Goto(w, "failed") /\ UNCHANGED goal

\* A process that did not create the file takes it over if it shows a value.
Adopt(w) ==
    /\ stage[w] \in {"idle", "ok"} /\ Begun < MaxOperations
    /\ here /\ name[Target] # None /\ IsFile(name[Target], 1)
    /\ held' = [held EXCEPT ![w] = [inode |-> name[Target],
                                    content |-> file[name[Target]].content]]
    /\ file[name[Target]].content \in Values /\ held' # held
    /\ UNCHANGED <<file, name, stage, kind, round, fd, goal, world>>

------------------------------------------------------------------------------
(* prepareTemporary and publishPreparedTemporary *)

MakeTemporary(w) ==
    /\ stage[w] = "preparing" /\ UNCHANGED <<opVars, world>>
    /\ IF ~here THEN End(w, "failed") /\ UNCHANGED <<file, name>>
       ELSE \E i \in Inodes :
              /\ ~InUse(i)
              /\ file' = [file EXCEPT ![i] = [NoFile EXCEPT !.by = w, !.private = TRUE]]
              /\ name' = [name EXCEPT ![w] = i] /\ fd' = [fd EXCEPT ![w] = i]
              /\ Goto(w, "filling")

FillTemporary(w) ==
    /\ stage[w] = "filling" /\ Goto(w, "filled")
    /\ file' = [file EXCEPT ![fd[w]].content = Value(w)]
    /\ UNCHANGED <<name, fd, opVars, world>>

SyncTemporary(w) ==
    /\ stage[w] = "filled"
    /\ disk' = [disk EXCEPT !.content[fd[w]] = file[fd[w]].content]
    /\ Goto(w, IF PathNames(w, fd[w], 1) THEN "checked" ELSE "cleaning")
    /\ UNCHANGED <<file, name, here, fd, opVars, faults>>

CheckTemporary(w) ==
    stage[w] = "checked" /\ Check(w, PathNames(w, fd[w], 1), "linking", "cleaning")

\* link(2) names what is at the path of the temporary by then.
LinkTarget(w) ==
    /\ stage[w] = "linking"
    /\ IF here /\ name[w] # None /\ name[Target] = None
       THEN name' = [name EXCEPT ![Target] = name[w]] /\ Goto(w, "published")
       ELSE Goto(w, "cleaning") /\ UNCHANGED name
    /\ UNCHANGED <<file, fd, opVars, world>>

BothNames(w) == PathNames(w, fd[w], 2) /\ PathNames(Target, fd[w], 2)

ConfirmForgets(w) ==
    /\ stage[w] = "published" /\ UNCHANGED <<file, name, here, opVars, faults>>
    /\ IF BothNames(w) THEN SyncDirectory /\ Goto(w, "confirmed") /\ UNCHANGED fd
       ELSE Goto(w, "cleaning") /\ UNCHANGED <<disk, fd>>
ConfirmPublished(w) ==
    /\ stage[w] = "published" /\ UNCHANGED <<file, name, here, opVars, faults>>
    /\ IF BothNames(w) THEN SyncDirectory /\ Goto(w, "confirmed") /\ UNCHANGED fd
       ELSE End(w, "visible") /\ UNCHANGED disk

CheckRetirement(w) ==
    stage[w] = "confirmed" /\ Check(w, BothNames(w), "retiring", "visible")

\* unlink(2) removes the name, whatever it names by then.
RetireTemporary(w) ==
    /\ stage[w] = "retiring" /\ UNCHANGED <<file, opVars, world>>
    /\ IF here /\ name[w] # None
       THEN name' = [name EXCEPT ![w] = None] /\ Goto(w, "unlinked") /\ UNCHANGED fd
       ELSE End(w, "visible") /\ UNCHANGED name

FinishCreate(w) ==
    /\ stage[w] = "unlinked" /\ UNCHANGED <<file, name, here, kind, round, goal, faults>>
    /\ IF PathNames(Target, fd[w], 1)
       THEN /\ SyncDirectory /\ End(w, "ok")
            /\ held' = [held EXCEPT ![w] = [inode |-> fd[w], content |-> Value(w)]]
       ELSE End(w, "visible") /\ UNCHANGED <<disk, held>>

\* A creation that published nothing removes its temporary, if it still is its
\* own; only publishPreparedTemporary syncs the directory after that.
CheckCleanup(w) ==
    stage[w] = "cleaning" /\ Check(w, PathNames(w, fd[w], 1), "dropping", "failed")
DropTemporary(w) ==
    /\ stage[w] = "dropping" /\ End(w, "failed")
    /\ name' = IF here THEN [name EXCEPT ![w] = None] ELSE name
    /\ UNCHANGED disk \/ (here /\ SyncDirectory)
    /\ UNCHANGED <<file, here, faults, opVars>>

------------------------------------------------------------------------------
(* atomicConditionalReplaceFile *)

UnchangedMutant(w, i) == TRUE
Unchanged(w, i) == goal[w].content \in {None, file[i].content}

OpenTarget(w) ==
    LET i == name[Target]
    IN  /\ stage[w] = "opening" /\ UNCHANGED <<file, name, opVars, world>>
        /\ IF i # None /\ PathNames(Target, goal[w].inode, 1) /\ Unchanged(w, i)
           THEN fd' = [fd EXCEPT ![w] = i] /\ Goto(w, "opened")
           ELSE End(w, "failed")

CheckTarget(w) ==
    /\ stage[w] = "opened"
    /\ \E start \in {"truncating", "writing"} :  \* truncateBeforeWrite
         Check(w, PathNames(Target, fd[w], 1) /\ Unchanged(w, fd[w]), start, "failed")

Truncate(w) ==
    /\ stage[w] = "truncating" /\ Goto(w, "writing")
    /\ file' = [file EXCEPT ![fd[w]].content = Empty, ![fd[w]].edited = TRUE]
    /\ UNCHANGED <<name, fd, opVars, world>>

Rewrite(w) ==
    /\ stage[w] = "writing" /\ Goto(w, "rewritten")
    /\ file' = [file EXCEPT ![fd[w]].content = Value(w), ![fd[w]].edited = TRUE]
    /\ UNCHANGED <<name, fd, opVars, world>>

SyncTargetSkipped(w) ==
    stage[w] = "rewritten" /\ Goto(w, "verifying") /\ UNCHANGED <<file, name, fd, opVars, world>>
SyncTarget(w) ==
    /\ stage[w] = "rewritten" /\ Goto(w, "verifying")
    /\ disk' = [disk EXCEPT !.content[fd[w]] = file[fd[w]].content]
    /\ UNCHANGED <<file, name, here, fd, opVars, faults>>

VerifyTarget(w) ==
    /\ stage[w] = "verifying"
    /\ UNCHANGED <<file, name, here, kind, round, goal, faults>>
    /\ IF PathNames(Target, fd[w], 1) /\ file[fd[w]].content = Value(w)
       THEN /\ SyncDirectory /\ End(w, "ok")
            /\ held' = [held EXCEPT ![w] = [inode |-> fd[w], content |-> Value(w)]]
       ELSE End(w, "failed") /\ UNCHANGED <<disk, held>>

------------------------------------------------------------------------------
(* Faults *)

\* A write is cut short, and what it had written stays in the file.
WriteFailsUnseen(w) ==
    /\ stage[w] \in {"filling", "writing"} /\ Spend("cut")
    /\ file' = [file EXCEPT ![fd[w]].content = Part, ![fd[w]].edited = @ \/ stage[w] = "writing"]
    /\ Goto(w, IF stage[w] = "filling" THEN "filled" ELSE "rewritten")
    /\ UNCHANGED <<name, here, fd, disk, opVars>>
WriteFails(w) ==
    /\ stage[w] \in {"filling", "writing"} /\ Spend("cut")
    /\ file' = [file EXCEPT ![fd[w]].content = Part, ![fd[w]].edited = @ \/ stage[w] = "writing"]
    /\ IF stage[w] = "filling" THEN Goto(w, "cleaning") /\ UNCHANGED fd ELSE End(w, "failed")
    /\ UNCHANGED <<name, here, disk, opVars>>

Kill(w) ==
    /\ stage[w] \notin Ended \cup {"idle"} /\ Spend("cut") /\ End(w, "dead")
    /\ \/ UNCHANGED file
       \/ /\ stage[w] \in {"filling", "writing"}
          /\ file' = [file EXCEPT ![fd[w]].content = Part,
                                  ![fd[w]].edited = @ \/ stage[w] = "writing"]
    /\ UNCHANGED <<name, here, disk, opVars>>

\* The stranger renames a file of its own onto a path, or removes what is there.
Intrude(n) ==
    /\ here
    /\ \/ \E i \in Inodes, private \in BOOLEAN :
            /\ ~InUse(i) /\ name' = [name EXCEPT ![n] = i]
            /\ file' = [file EXCEPT ![i] = [NoFile EXCEPT !.by = Stranger, !.content = Alien,
                                                          !.private = private]]
       \/ name[n] # None /\ name' = [name EXCEPT ![n] = None] /\ UNCHANGED file
    /\ UNCHANGED here

\* It links a file elsewhere, edits it, changes its mode or moves the directory.
Meddle ==
    /\ \/ here' = FALSE /\ here /\ UNCHANGED file
       \/ /\ here /\ name[Target] # None /\ UNCHANGED here
          /\ \/ file' = [file EXCEPT ![name[Target]].extra = 1]
             \/ file' = [file EXCEPT ![name[Target]].private = FALSE]
             \/ file' = [file EXCEPT ![name[Target]].content = Alien,
                                     ![name[Target]].edited = TRUE]
    /\ UNCHANGED name

StrangerStep ==
    /\ Spend("stranger")
    /\ (\E n \in Names : Intrude(n)) \/ Meddle
    /\ UNCHANGED <<stage, fd, opVars, disk>>

Operation(w) ==
    \/ BeginCreate(w) \/ BeginReplace(w) \/ BeginWrite(w) \/ Adopt(w)
    \/ MakeTemporary(w) \/ FillTemporary(w) \/ SyncTemporary(w) \/ CheckTemporary(w)
    \/ LinkTarget(w) \/ ConfirmPublished(w) \/ CheckRetirement(w) \/ RetireTemporary(w)
    \/ FinishCreate(w) \/ CheckCleanup(w) \/ DropTemporary(w)
    \/ OpenTarget(w) \/ CheckTarget(w) \/ Truncate(w) \/ Rewrite(w) \/ SyncTarget(w)
    \/ VerifyTarget(w)
    \/ WriteFails(w) \/ Kill(w)

Next == (\E w \in Writers : Operation(w)) \/ StrangerStep

Spec == Init /\ [][Next]_vars

------------------------------------------------------------------------------
(* Properties *)

\* Every variable holds a value of its kind.
TypeOK ==
    /\ file \in [Inodes -> File]
    /\ name \in [Names -> Inodes \cup {None}] /\ here \in BOOLEAN
    /\ stage \in [Writers -> Stages] /\ kind \in [Writers -> {"create", "replace", "write"}]
    /\ round \in [Writers -> Nat] /\ fd \in [Writers -> Inodes \cup {None}]
    /\ goal \in [Writers -> Expected] /\ held \in [Writers -> Expected]
    /\ disk \in [content : [Inodes -> Contents], target : Inodes \cup {None}]
    /\ faults \in [Faults -> Nat]

\* A file that was created shows its whole content or is not there, until
\* somebody writes into it: publication is one step, after the temporary was
\* written and whatever was done to its name.
CreatedWhole ==
    \A i \in Inodes : name[Target] = i /\ file[i].by \in Writers /\ ~file[i].edited =>
        file[i].content \in Values

\* A creation that fails without saying that its file may be visible has not
\* made it visible: publishPreparedTemporary tells the two kinds of failure
\* apart, so that a caller may try again after the first.
FailedInvisible ==
    \A w \in Writers : stage[w] = "failed" /\ kind[w] = "create" =>
        \A i \in Inodes : name[Target] = i => file[i].content # Value(w)

\* No operation removes or overwrites a file that the stranger put in the place
\* of the target, except atomicWriteFile on the file it found there: not even
\* when that file has taken over the number of the one before it.
SuccessorKept ==
    [][faults'["stranger"] = faults["stranger"] =>
         \A i \in Inodes : name[Target] = i /\ file[i].by = Stranger /\ ~file[i].edited =>
           /\ name'[Target] = i
           /\ \/ file'[i] = file[i]
              \/ \E w \in Writers : fd[w] = i /\ goal[w].content = None]_vars

\* What every writer was told is done is on the disk, unless the stranger
\* interfered.
SuccessDurable ==
    /\ faults["stranger"] = FaultBudget["stranger"]
    /\ \A w \in Writers : stage[w] \in {"idle", "ok"}
    =>
    /\ disk.target = name[Target]
    /\ name[Target] # None => disk.content[name[Target]] = file[name[Target]].content
=============================================================================
