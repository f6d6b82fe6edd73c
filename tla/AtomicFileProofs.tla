-------------------------- MODULE AtomicFileProofs ---------------------------
(***************************************************************************)
(* Theorems about AtomicFile, for any number of writers, operations and    *)
(* faults.  A file that a writer fills has a number that nobody else names *)
(* or holds, so that no other operation can touch it before it is linked;  *)
(* what a replacement holds is what its caller expects.                    *)
(***************************************************************************)
EXTENDS AtomicFile, TLAPS

------------------------------------------------------------------------------
(* The inductive invariant *)

\* The writer has a temporary of its own that nobody else can reach.
Own == {"filling", "filled", "checked", "linking"}
\* It has published nothing.
Hiding == {"preparing", "cleaning", "dropping"} \cup Own
\* It has a descriptor of the target.
Replacing == {"opened", "truncating", "writing", "rewritten", "verifying"}
Holding == Stages \ (Ended \cup {"idle", "preparing", "opening"})

OwnInv(w) == stage[w] \in Own =>
    /\ fd[w] # name[Target] /\ file[fd[w]].by = w
    /\ \A v \in Writers \ {w} : fd[v] # fd[w] /\ name[v] # fd[w]
    /\ name[w] \in {None, fd[w]} \/ file[name[w]].by = Stranger
    /\ stage[w] # "filling" => file[fd[w]].content = Value(w)
    /\ stage[w] \in {"checked", "linking"} => disk.content[fd[w]] = Value(w)

\* What it has written for a creation is at no path that may become the target.
HiddenInv(w) == stage[w] \in Hiding \cup {"failed"} /\ kind[w] = "create" =>
    \A i \in Inodes : file[i].content = Value(w) =>
        i # name[Target] /\ \A v \in Writers \ {w} : name[v] # i

\* A file that is not what the caller expects is not held.
GoalInv(w) ==
    /\ {goal[w].content, held[w].content} \subseteq Values \cup {None}
    /\ stage[w] \in {"opened", "truncating", "writing"} =>
         \/ file[fd[w]].by # Stranger \/ file[fd[w]].edited
         \/ goal[w].content = None

\* Nobody has interfered.
Calm == faults["stranger"] = FaultBudget["stranger"]

WriterInv(w) ==
    /\ stage[w] \in Holding <=> fd[w] # None
    /\ OwnInv(w) /\ HiddenInv(w) /\ GoalInv(w)
    /\ stage[w] \in {"opening"} \cup Replacing => kind[w] # "create"
    /\ Calm /\ stage[w] \in Replacing => fd[w] = name[Target]

FileInv(i) ==
    /\ name[Target] = i /\ file[i].by \in Writers /\ ~file[i].edited => file[i].content \in Values
    /\ file[i].by = Stranger => ~Calm /\ (~file[i].edited => file[i].content = Alien)
    /\ file[i].content[1] \in Writers => file[i].content[2] <= round[file[i].content[1]]

\* What is not on the disk, somebody is about to put there or has failed to.
Unsynced(w) == stage[w] \in {"published", "visible", "dead"}
Unwritten(w) == stage[w] \in {"writing", "rewritten", "failed", "dead"}
DiskInv == Calm =>
    /\ disk.target = name[Target] \/ \E w \in Writers : Unsynced(w)
    /\ name[Target] # None =>
         \/ disk.content[name[Target]] = file[name[Target]].content
         \/ \E w \in Writers : Unwritten(w)

IInv ==
    /\ TypeOK /\ faults["stranger"] <= FaultBudget["stranger"]
    /\ (\A w \in Writers : WriterInv(w)) /\ (\A i \in Inodes : FileInv(i)) /\ DiskInv

------------------------------------------------------------------------------
(* Types *)

LEMMA NoFileType == NoFile \in File
  BY DEF NoFile, File, Contents, Empty

LEMMA FileTypes ==
    ASSUME TypeOK, NEW w \in Writers
    PROVE  /\ Value(w) \in Values /\ Value(w) \in Contents
           /\ Part \in Contents /\ Empty \in Contents /\ Alien \in Contents
           /\ Alien \notin Values /\ Value(w)[1] = w /\ Value(w)[2] = round[w]
           /\ Part[1] = None /\ Empty[1] = None /\ Alien[1] = Stranger
           /\ None \notin Writers /\ Stranger \notin Writers
  BY NamesAssumption DEF TypeOK, Value, Values, Contents, Part, Empty, Alien

\* What a file becomes.
LEMMA NewFiles ==
    ASSUME TypeOK
    PROVE  /\ \A w \in Writers, i \in Inodes :
                [file EXCEPT ![i] = [NoFile EXCEPT !.by = w, !.private = TRUE]]
                  \in [Inodes -> File]
           /\ \A i \in Inodes, private \in BOOLEAN :
                [file EXCEPT ![i] = [NoFile EXCEPT !.by = Stranger, !.content = Alien,
                                                   !.private = private]] \in [Inodes -> File]
           /\ \A i \in Inodes, content \in Contents, edited \in BOOLEAN :
                [file EXCEPT ![i].content = content, ![i].edited = edited] \in [Inodes -> File]
           /\ \A i \in Inodes, content \in Contents :
                [file EXCEPT ![i].content = content] \in [Inodes -> File]
           /\ \A i \in Inodes : /\ [file EXCEPT ![i].extra = 1] \in [Inodes -> File]
                                /\ [file EXCEPT ![i].private = FALSE] \in [Inodes -> File]
           /\ \A i \in Inodes : file[i] \in File /\ file[i].edited \in BOOLEAN
<1>1. file \in [Inodes -> File] /\ Alien \in Contents
  BY DEF TypeOK, Contents
<1> QED
  BY <1>1, NoFileType DEF File, NoFile

LEMMA DiskTypes ==
    ASSUME TypeOK
    PROVE  /\ \A t \in Inodes \cup {None} :
                /\ [disk EXCEPT !.target = t]
                     \in [content : [Inodes -> Contents], target : Inodes \cup {None}]
                /\ [disk EXCEPT !.target = t].target = t
                /\ [disk EXCEPT !.target = t].content = disk.content
           /\ \A i \in Inodes, c \in Contents :
                /\ [disk EXCEPT !.content[i] = c]
                     \in [content : [Inodes -> Contents], target : Inodes \cup {None}]
                /\ [disk EXCEPT !.content[i] = c].target = disk.target
                /\ [disk EXCEPT !.content[i] = c].content[i] = c
                /\ \A j \in Inodes \ {i} :
                     [disk EXCEPT !.content[i] = c].content[j] = disk.content[j]
  BY DEF TypeOK

LEMMA SyncedDirectory ==
    ASSUME TypeOK, SyncDirectory
    PROVE  disk'.target = name[Target] /\ disk'.content = disk.content
  BY DEF TypeOK, SyncDirectory

LEMMA PlaceTypes ==
    ASSUME TypeOK, NEW w \in Writers
    PROVE  /\ name[Target] \in Inodes \cup {None} /\ name[w] \in Inodes \cup {None}
           /\ w # Target /\ {w, Target} \subseteq Names /\ None \notin Inodes
           /\ fd[w] \in Inodes \cup {None}
           /\ \A i \in Inodes : file[i].content \in Contents /\ file[i] \in File
           /\ disk.content \in [Inodes -> Contents]
  BY NamesAssumption DEF TypeOK, Names, File

LEMMA ExpectedTypes ==
    ASSUME TypeOK
    PROVE  /\ \A i \in Inodes, c \in Contents : [inode |-> i, content |-> c] \in Expected
           /\ \A i \in Inodes : /\ [Nothing EXCEPT !.inode = i] \in Expected
                                /\ [Nothing EXCEPT !.inode = i].content = None
           /\ Nothing \in Expected
  BY DEF Expected, Nothing

------------------------------------------------------------------------------
(* What a step of a writer does to the files, the names and the others *)

OthersKept(w) == \A v \in Writers \ {w} :
    /\ stage'[v] = stage[v] /\ kind'[v] = kind[v] /\ round'[v] = round[v] /\ fd'[v] = fd[v]
    /\ goal'[v] = goal[v] /\ held'[v] = held[v] /\ name'[v] = name[v]

\* It writes into the file it holds, or makes a new one.
FilesMove(w) == \A i \in Inodes :
    \/ file'[i] = file[i]
    \/ /\ i = fd[w] /\ file'[i].by = file[i].by /\ (file[i].edited => file'[i].edited)
       /\ file'[i].content \in {Value(w), Part, Empty}
       /\ stage[w] = "filling" \/ file'[i].edited
    \/ i = name'[w] /\ ~InUse(i) /\ file'[i] = [NoFile EXCEPT !.by = w, !.private = TRUE]

NamesMove(w) ==
    /\ \/ name'[Target] = name[Target]
       \/ name[Target] = None /\ name'[Target] = name[w] /\ stage[w] = "linking" /\ file' = file
    /\ \/ name'[w] \in {None, name[w]}
       \/ name'[w] \in Inodes /\ ~InUse(name'[w]) /\ file'[name'[w]].content = Empty
    /\ \/ fd'[w] \in {None, fd[w], name[Target]}
       \/ fd'[w] = name'[w] /\ ~InUse(fd'[w])

Moves(w) ==
    /\ TypeOK' /\ OthersKept(w) /\ FilesMove(w) /\ NamesMove(w)
    /\ faults'["stranger"] = faults["stranger"] /\ round[w] <= round'[w]
    /\ \A i \in Inodes \ {fd[w]} : disk'.content[i] = disk.content[i]

LEMMA OperationMoves ==
    ASSUME TypeOK, NEW w \in Writers, Operation(w), stage[w] \in Holding <=> fd[w] # None
    PROVE  Moves(w)
<1> USE DEF Stages, Ended, opVars, world, Goto, End
<1>1. CASE BeginCreate(w)
  <2>1. TypeOK'
    BY <1>1 DEF TypeOK, BeginCreate, Begin
  <2>2. Moves(w)
    BY <1>1, <2>1, NamesAssumption DEF TypeOK, BeginCreate, Begin, Moves, OthersKept, FilesMove, NamesMove, Names
  <2> QED
    BY <2>2
<1>2. CASE BeginReplace(w)
  <2>1. TypeOK'
    BY <1>2 DEF TypeOK, BeginReplace, Begin
  <2>2. Moves(w)
    BY <1>2, <2>1, NamesAssumption DEF TypeOK, BeginReplace, Begin, Moves, OthersKept, FilesMove, NamesMove, Names
  <2> QED
    BY <2>2
<1>3. CASE BeginWrite(w)
  <2>a. goal' \in [Writers -> Expected]
    BY <1>3, PlaceTypes, ExpectedTypes DEF TypeOK, BeginWrite
  <2>b. stage' \in [Writers -> Stages]
    BY <1>3 DEF TypeOK, BeginWrite
  <2>1. TypeOK'
    BY <1>3, <2>a, <2>b DEF TypeOK, BeginWrite, Begin
  <2>2. Moves(w)
    BY <1>3, <2>1, NamesAssumption DEF TypeOK, BeginWrite, Begin, Moves, OthersKept, FilesMove, NamesMove, Names
  <2> QED
    BY <2>2
<1>4. CASE Adopt(w)
  <2>a. held' \in [Writers -> Expected]
    BY <1>4, PlaceTypes, ExpectedTypes DEF TypeOK, Adopt
  <2>1. TypeOK'
    BY <1>4, <2>a DEF TypeOK, Adopt
  <2>2. Moves(w)
    BY <1>4, <2>1, NamesAssumption DEF TypeOK, Adopt, Moves, OthersKept, FilesMove, NamesMove, Names
  <2> QED
    BY <2>2
<1>5. CASE MakeTemporary(w)
  <2>1. CASE ~here
    <3>1. TypeOK'
      BY <1>5, <2>1 DEF TypeOK, MakeTemporary
    <3>2. Moves(w)
      BY <1>5, <2>1, <3>1, NamesAssumption DEF TypeOK, MakeTemporary, Moves, OthersKept, FilesMove, NamesMove, Names
    <3> QED
      BY <3>2
  <2>2. CASE here
    <3>1. PICK i \in Inodes :
            /\ ~InUse(i)
            /\ file' = [file EXCEPT ![i] = [NoFile EXCEPT !.by = w, !.private = TRUE]]
            /\ name' = [name EXCEPT ![w] = i] /\ fd' = [fd EXCEPT ![w] = i]
            /\ stage' = [stage EXCEPT ![w] = "filling"]
      BY <1>5, <2>2 DEF MakeTemporary
    <3>2. file' \in [Inodes -> File]
      BY <3>1, NewFiles
    <3>3. TypeOK'
      BY <1>5, <3>1, <3>2 DEF TypeOK, MakeTemporary
    <3>4. OthersKept(w)
      BY <1>5, <3>1, NamesAssumption DEF TypeOK, MakeTemporary, OthersKept, Names
    <3>5. name'[w] = i /\ fd'[w] = i /\ name'[Target] = name[Target]
      BY <3>1, NamesAssumption DEF TypeOK, Names
    <3>6. FilesMove(w)
      BY <3>1, <3>5 DEF TypeOK, FilesMove
    <3>7. file'[i].content = Empty
      BY <3>1 DEF TypeOK, NoFile
    <3>8. NamesMove(w)
      BY <3>1, <3>5, <3>7 DEF NamesMove
    <3> QED
      BY <1>5, <3>3, <3>4, <3>6, <3>8 DEF MakeTemporary, Moves, TypeOK
  <2> QED
    BY <2>1, <2>2 DEF TypeOK
<1>6. CASE FillTemporary(w)
  <2>1. TypeOK'
    BY <1>6, FileTypes, NewFiles DEF TypeOK, FillTemporary
  <2>2. Moves(w)
    BY <1>6, <2>1, NamesAssumption DEF TypeOK, FillTemporary, Moves, OthersKept, FilesMove, NamesMove, Names
  <2> QED
    BY <2>2
<1>7. CASE SyncTemporary(w)
  <2>h. fd[w] \in Inodes
    BY <1>7, PlaceTypes DEF SyncTemporary, Holding
  <2>a. disk' \in [content : [Inodes -> Contents], target : Inodes \cup {None}]
    BY <1>7, <2>h, PlaceTypes, DiskTypes DEF SyncTemporary
  <2>1. TypeOK'
    BY <1>7, <2>a DEF TypeOK, SyncTemporary
  <2>2. Moves(w)
    BY <1>7, <2>1, NamesAssumption DEF TypeOK, SyncTemporary, Moves, OthersKept, FilesMove, NamesMove, Names
  <2> QED
    BY <2>2
<1>8. CASE CheckTemporary(w)
  <2>1. TypeOK'
    BY <1>8 DEF TypeOK, CheckTemporary, Check
  <2>2. Moves(w)
    BY <1>8, <2>1, NamesAssumption DEF TypeOK, CheckTemporary, Check, Moves, OthersKept, FilesMove, NamesMove, Names
  <2> QED
    BY <2>2
<1>9. CASE LinkTarget(w)
  <2>a. name' \in [Names -> Inodes \cup {None}]
    BY <1>9, PlaceTypes DEF TypeOK, LinkTarget
  <2>1. TypeOK'
    BY <1>9, <2>a DEF TypeOK, LinkTarget
  <2>2. Moves(w)
    BY <1>9, <2>1, NamesAssumption DEF TypeOK, LinkTarget, Moves, OthersKept, FilesMove, NamesMove, Names
  <2> QED
    BY <2>2
<1>10. CASE ConfirmPublished(w)
  <2>a. disk' \in [content : [Inodes -> Contents], target : Inodes \cup {None}]
    BY <1>10, PlaceTypes, DiskTypes DEF TypeOK, ConfirmPublished, SyncDirectory
  <2>1. TypeOK'
    BY <1>10, <2>a DEF TypeOK, ConfirmPublished
  <2>2. Moves(w)
    BY <1>10, <2>1, NamesAssumption DEF TypeOK, ConfirmPublished, SyncDirectory, Moves, OthersKept, FilesMove, NamesMove, Names
  <2> QED
    BY <2>2
<1>11. CASE CheckRetirement(w)
  <2>1. TypeOK'
    BY <1>11 DEF TypeOK, CheckRetirement, Check
  <2>2. Moves(w)
    BY <1>11, <2>1, NamesAssumption DEF TypeOK, CheckRetirement, Check, Moves, OthersKept, FilesMove, NamesMove, Names
  <2> QED
    BY <2>2
<1>12. CASE RetireTemporary(w)
  <2>1. TypeOK'
    BY <1>12 DEF TypeOK, RetireTemporary
  <2>2. Moves(w)
    BY <1>12, <2>1, NamesAssumption DEF TypeOK, RetireTemporary, Moves, OthersKept, FilesMove, NamesMove, Names
  <2> QED
    BY <2>2
<1>13. CASE FinishCreate(w)
  <2>h. fd[w] \in Inodes
    BY <1>13, PlaceTypes DEF FinishCreate, Holding
  <2>a. disk' \in [content : [Inodes -> Contents], target : Inodes \cup {None}]
    BY <1>13, PlaceTypes, DiskTypes DEF TypeOK, FinishCreate, SyncDirectory
  <2>b. held' \in [Writers -> Expected]
    BY <1>13, <2>h, FileTypes, ExpectedTypes DEF TypeOK, FinishCreate
  <2>1. TypeOK'
    BY <1>13, <2>a, <2>b DEF TypeOK, FinishCreate
  <2>2. Moves(w)
    BY <1>13, <2>1, NamesAssumption DEF TypeOK, FinishCreate, SyncDirectory, Moves, OthersKept, FilesMove, NamesMove, Names
  <2> QED
    BY <2>2
<1>14. CASE CheckCleanup(w)
  <2>1. TypeOK'
    BY <1>14 DEF TypeOK, CheckCleanup, Check
  <2>2. Moves(w)
    BY <1>14, <2>1, NamesAssumption DEF TypeOK, CheckCleanup, Check, Moves, OthersKept, FilesMove, NamesMove, Names
  <2> QED
    BY <2>2
<1>15. CASE DropTemporary(w)
  <2>a. disk' \in [content : [Inodes -> Contents], target : Inodes \cup {None}]
    BY <1>15, PlaceTypes, DiskTypes DEF TypeOK, DropTemporary, SyncDirectory
  <2>1. TypeOK'
    BY <1>15, <2>a DEF TypeOK, DropTemporary
  <2>2. Moves(w)
    BY <1>15, <2>1, NamesAssumption DEF TypeOK, DropTemporary, SyncDirectory, Moves, OthersKept, FilesMove, NamesMove, Names
  <2> QED
    BY <2>2
<1>16. CASE OpenTarget(w)
  <2>1. TypeOK'
    BY <1>16, PlaceTypes DEF TypeOK, OpenTarget
  <2>2. Moves(w)
    BY <1>16, <2>1, NamesAssumption DEF TypeOK, OpenTarget, Moves, OthersKept, FilesMove, NamesMove, Names
  <2> QED
    BY <2>2
<1>17. CASE CheckTarget(w)
  <2>1. TypeOK'
    BY <1>17 DEF TypeOK, CheckTarget, Check
  <2>2. Moves(w)
    BY <1>17, <2>1, NamesAssumption DEF TypeOK, CheckTarget, Check, Moves, OthersKept, FilesMove, NamesMove, Names
  <2> QED
    BY <2>2
<1>18. CASE Truncate(w)
  <2>1. TypeOK'
    BY <1>18, FileTypes, NewFiles DEF TypeOK, Truncate
  <2>2. Moves(w)
    BY <1>18, <2>1, NamesAssumption DEF TypeOK, Truncate, Moves, OthersKept, FilesMove, NamesMove, Names
  <2> QED
    BY <2>2
<1>19. CASE Rewrite(w)
  <2>1. TypeOK'
    BY <1>19, FileTypes, NewFiles DEF TypeOK, Rewrite
  <2>2. Moves(w)
    BY <1>19, <2>1, NamesAssumption DEF TypeOK, Rewrite, Moves, OthersKept, FilesMove, NamesMove, Names
  <2> QED
    BY <2>2
<1>20. CASE SyncTarget(w)
  <2>h. fd[w] \in Inodes
    BY <1>20, PlaceTypes DEF SyncTarget, Holding
  <2>a. disk' \in [content : [Inodes -> Contents], target : Inodes \cup {None}]
    BY <1>20, <2>h, PlaceTypes, DiskTypes DEF SyncTarget
  <2>1. TypeOK'
    BY <1>20, <2>a DEF TypeOK, SyncTarget
  <2>2. Moves(w)
    BY <1>20, <2>1, NamesAssumption DEF TypeOK, SyncTarget, Moves, OthersKept, FilesMove, NamesMove, Names
  <2> QED
    BY <2>2
<1>21. CASE VerifyTarget(w)
  <2>h. fd[w] \in Inodes
    BY <1>21, PlaceTypes DEF VerifyTarget, Holding
  <2>a. disk' \in [content : [Inodes -> Contents], target : Inodes \cup {None}]
    BY <1>21, PlaceTypes, DiskTypes DEF TypeOK, VerifyTarget, SyncDirectory
  <2>b. held' \in [Writers -> Expected]
    BY <1>21, <2>h, FileTypes, ExpectedTypes DEF TypeOK, VerifyTarget
  <2>1. TypeOK'
    BY <1>21, <2>a, <2>b DEF TypeOK, VerifyTarget
  <2>2. Moves(w)
    BY <1>21, <2>1, NamesAssumption DEF TypeOK, VerifyTarget, SyncDirectory, Moves, OthersKept, FilesMove, NamesMove, Names
  <2> QED
    BY <2>2
<1>22. CASE WriteFails(w)
  <2>a. faults' \in [Faults -> Nat]
    BY <1>22 DEF TypeOK, WriteFails, Spend, Faults
  <2>b. stage' \in [Writers -> Stages] /\ fd' \in [Writers -> Inodes \cup {None}]
    BY <1>22 DEF TypeOK, WriteFails
  <2>c. UNCHANGED <<name, here, disk, kind, round, goal, held>>
    BY <1>22 DEF WriteFails
  <2>1. CASE file' = file
    <3>1. TypeOK'
      BY <2>1, <2>a, <2>b, <2>c DEF TypeOK
    <3>2. OthersKept(w) /\ NamesMove(w)
      BY <1>22, NamesAssumption DEF TypeOK, WriteFails, OthersKept, NamesMove, Names
    <3>3. faults'["stranger"] = faults["stranger"]
      BY <1>22 DEF TypeOK, WriteFails, Spend, Faults
    <3> QED
      BY <2>1, <2>c, <3>1, <3>2, <3>3 DEF TypeOK, Moves, FilesMove
  <2>2. CASE /\ stage[w] \in {"filling", "writing"}
             /\ file' = [file EXCEPT ![fd[w]].content = Part,
                                     ![fd[w]].edited = @ \/ stage[w] = "writing"]
    <3>1. fd[w] \in Inodes
      BY <2>2, PlaceTypes DEF Holding
    <3>2. PICK edited \in BOOLEAN : /\ edited = (file[fd[w]].edited \/ stage[w] = "writing")
      BY <3>1, NewFiles
    <3>3. file' = [file EXCEPT ![fd[w]].content = Part, ![fd[w]].edited = edited]
      BY <2>2, <3>1, <3>2 DEF TypeOK, File
    <3>4. file' \in [Inodes -> File]
      BY <3>1, <3>3, NewFiles, FileTypes
    <3>5. TypeOK'
      BY <3>4, <2>a, <2>b, <2>c DEF TypeOK
    <3>6. OthersKept(w) /\ NamesMove(w)
      BY <1>22, NamesAssumption DEF TypeOK, WriteFails, OthersKept, NamesMove, Names
    <3>7. faults'["stranger"] = faults["stranger"]
      BY <1>22 DEF TypeOK, WriteFails, Spend, Faults
    <3>8. FilesMove(w)
      BY <2>2, <3>1, <3>2, <3>3 DEF TypeOK, File, FilesMove
    <3> QED
      BY <2>c, <3>5, <3>6, <3>7, <3>8 DEF TypeOK, Moves
  <2> QED
    BY <1>22, <2>1, <2>2 DEF WriteFails
<1>23. CASE Kill(w)
  <2>a. faults' \in [Faults -> Nat]
    BY <1>23 DEF TypeOK, Kill, Spend, Faults
  <2>b. stage' \in [Writers -> Stages] /\ fd' \in [Writers -> Inodes \cup {None}]
    BY <1>23 DEF TypeOK, Kill
  <2>c. UNCHANGED <<name, here, disk, kind, round, goal, held>>
    BY <1>23 DEF Kill
  <2>1. CASE file' = file
    <3>1. TypeOK'
      BY <2>1, <2>a, <2>b, <2>c DEF TypeOK
    <3>2. OthersKept(w) /\ NamesMove(w)
      BY <1>23, NamesAssumption DEF TypeOK, Kill, OthersKept, NamesMove, Names
    <3>3. faults'["stranger"] = faults["stranger"]
      BY <1>23 DEF TypeOK, Kill, Spend, Faults
    <3> QED
      BY <2>1, <2>c, <3>1, <3>2, <3>3 DEF TypeOK, Moves, FilesMove
  <2>2. CASE /\ stage[w] \in {"filling", "writing"}
             /\ file' = [file EXCEPT ![fd[w]].content = Part,
                                     ![fd[w]].edited = @ \/ stage[w] = "writing"]
    <3>1. fd[w] \in Inodes
      BY <2>2, PlaceTypes DEF Holding
    <3>2. PICK edited \in BOOLEAN : /\ edited = (file[fd[w]].edited \/ stage[w] = "writing")
      BY <3>1, NewFiles
    <3>3. file' = [file EXCEPT ![fd[w]].content = Part, ![fd[w]].edited = edited]
      BY <2>2, <3>1, <3>2 DEF TypeOK, File
    <3>4. file' \in [Inodes -> File]
      BY <3>1, <3>3, NewFiles, FileTypes
    <3>5. TypeOK'
      BY <3>4, <2>a, <2>b, <2>c DEF TypeOK
    <3>6. OthersKept(w) /\ NamesMove(w)
      BY <1>23, NamesAssumption DEF TypeOK, Kill, OthersKept, NamesMove, Names
    <3>7. faults'["stranger"] = faults["stranger"]
      BY <1>23 DEF TypeOK, Kill, Spend, Faults
    <3>8. FilesMove(w)
      BY <2>2, <3>1, <3>2, <3>3 DEF TypeOK, File, FilesMove
    <3> QED
      BY <2>c, <3>5, <3>6, <3>7, <3>8 DEF TypeOK, Moves
  <2> QED
    BY <1>23, <2>1, <2>2 DEF Kill
<1> QED
  BY <1>1, <1>2, <1>3, <1>4, <1>5, <1>6, <1>7, <1>8, <1>9, <1>10, <1>11, <1>12, <1>13, <1>14, <1>15, <1>16, <1>17, <1>18, <1>19, <1>20, <1>21, <1>22, <1>23 DEF Operation

------------------------------------------------------------------------------
(* The other writers and the files *)

LEMMA OthersFollow ==
    ASSUME IInv, NEW w \in Writers, Moves(w), NEW v \in Writers \ {w}
    PROVE  WriterInv(v)'
<1> USE DEF Holding, Own, Hiding, Replacing, Stages, Ended
<1>1. /\ WriterInv(v) /\ TypeOK /\ TypeOK' /\ FilesMove(w) /\ NamesMove(w)
      /\ stage'[v] = stage[v] /\ kind'[v] = kind[v] /\ round'[v] = round[v] /\ fd'[v] = fd[v]
      /\ goal'[v] = goal[v] /\ held'[v] = held[v] /\ name'[v] = name[v]
      /\ faults'["stranger"] = faults["stranger"]
      /\ Value(v)' = Value(v)
  BY DEF IInv, Moves, OthersKept, Value
<1>2. \A u \in Writers \ {v} : u # w => fd'[u] = fd[u] /\ name'[u] = name[u]
  BY DEF Moves, OthersKept
<1>3. /\ Value(v) \in Values /\ Value(v)[1] = v /\ Value(w)[1] = w /\ None \notin Writers
      /\ Part[1] = None /\ Empty[1] = None /\ NoFile.content = Empty
  BY <1>1, FileTypes DEF NoFile
<1>4. \A i \in Inodes : (fd[v] = i \/ name[v] = i \/ name[w] = i \/ name[Target] = i) => InUse(i)
  BY NamesAssumption DEF InUse, Names
<1>5. fd[v] \in Inodes \cup {None} /\ name[v] \in Inodes \cup {None} /\ None \notin Inodes
  BY <1>1, PlaceTypes
<1>6. stage[v] \in Holding <=> fd[v] # None
  BY <1>1 DEF WriterInv
<1>7. OwnInv(v)'
  <2> SUFFICES ASSUME stage[v] \in Own
               PROVE  OwnInv(v)'
    BY <1>1 DEF OwnInv
  <2>1. /\ fd[v] # name[Target] /\ file[fd[v]].by = v /\ fd[v] \in Inodes
        /\ \A u \in Writers \ {v} : fd[u] # fd[v] /\ name[u] # fd[v]
        /\ name[v] \in {None, fd[v]} \/ file[name[v]].by = Stranger
        /\ stage[v] # "filling" => file[fd[v]].content = Value(v)
        /\ stage[v] \in {"checked", "linking"} => disk.content[fd[v]] = Value(v)
    BY <1>1, <1>5, <1>6 DEF WriterInv, OwnInv
  <2>2. file'[fd[v]] = file[fd[v]] /\ disk'.content[fd[v]] = disk.content[fd[v]]
    BY <1>1, <1>4, <2>1 DEF FilesMove, Moves
  <2>3. name'[Target] # fd[v] /\ name'[w] # fd[v] /\ fd'[w] # fd[v]
    BY <1>1, <1>4, <1>5, <2>1 DEF NamesMove
  <2>4. name[v] \in {None, fd[v]} \/ file'[name[v]].by = Stranger
    BY <1>1, <1>4, <1>5, <2>1 DEF FilesMove
  <2>5. \A u \in Writers \ {v} : fd'[u] # fd[v] /\ name'[u] # fd[v]
    BY <1>2, <2>1, <2>3
  <2> QED
    BY <1>1, <2>1, <2>2, <2>3, <2>4, <2>5 DEF OwnInv
<1>8. HiddenInv(v)'
  <2> SUFFICES ASSUME stage[v] \in Hiding \cup {"failed"}, kind[v] = "create",
                      NEW i \in Inodes, file'[i].content = Value(v)
               PROVE  i # name'[Target] /\ \A u \in Writers \ {v} : name'[u] # i
    BY <1>1 DEF HiddenInv
  <2>a. Value(v) \notin {Value(w), Part, Empty}
    BY <1>3
  <2>1. file[i].content = Value(v)
    BY <1>1, <2>a DEF FilesMove, NoFile
  <2>2. i # name[Target] /\ \A u \in Writers \ {v} : name[u] # i
    BY <1>1, <2>1 DEF WriterInv, HiddenInv
  <2>3. i # name'[Target] /\ name'[w] # i
    BY <1>1, <1>3, <1>5, <2>2 DEF NamesMove
  <2> QED
    BY <1>2, <2>2, <2>3
<1>9. GoalInv(v)'
  BY <1>1, <1>4, <1>5, <1>6 DEF WriterInv, GoalInv, FilesMove
<1>10. Calm' /\ stage[v] \in Replacing => fd[v] = name'[Target]
  BY <1>1, <1>6 DEF WriterInv, Calm, NamesMove
<1> QED
  BY <1>1, <1>7, <1>8, <1>9, <1>10 DEF WriterInv

LEMMA FilesFollow ==
    ASSUME IInv, NEW w \in Writers, Moves(w), NEW i \in Inodes
    PROVE  FileInv(i)'
<1>1. /\ TypeOK /\ TypeOK' /\ FileInv(i) /\ OwnInv(w) /\ FilesMove(w) /\ NamesMove(w)
      /\ Calm' <=> Calm
      /\ \A v \in Writers : round[v] \in Nat /\ round'[v] \in Nat /\ round[v] <= round'[v]
  BY DEF IInv, WriterInv, Moves, OthersKept, Calm, TypeOK
<1>2. /\ Value(w) \in Values /\ Value(w)[1] = w /\ Value(w)[2] = round[w]
      /\ Part[1] = None /\ Empty[1] = None /\ None \notin Writers /\ Stranger \notin Writers
  BY <1>1, FileTypes
<1>3. name[Target] = i => InUse(i)
  BY DEF InUse, Names
<1>4. stage[w] = "filling" => fd[w] # name[Target] /\ file[fd[w]].by = w
  BY <1>1 DEF OwnInv, Own
<1>5. CASE file'[i] = file[i]
  <2>1. ASSUME name'[Target] = i, file[i].by \in Writers, ~file[i].edited
        PROVE  file[i].content \in Values
    <3>1. CASE name'[Target] = name[Target]
      BY <1>1, <2>1, <3>1 DEF FileInv
    <3>2. CASE name'[Target] = name[w] /\ stage[w] = "linking"
      <4>1. name[w] = i /\ i # None
        BY <1>1, <2>1, <3>2, PlaceTypes
      <4>2. i = fd[w] /\ file[i].content = Value(w)
        BY <1>1, <1>2, <2>1, <3>2, <4>1 DEF OwnInv, Own
      <4> QED
        BY <4>2, <1>2
    <3> QED
      BY <1>1, <3>1, <3>2 DEF NamesMove
  <2>2. ASSUME file[i].content[1] \in Writers
        PROVE  file[i].content[2] <= round'[file[i].content[1]]
    <3>1. file[i].content \in Values
      BY <1>1, <1>2, <2>2, FileTypes, PlaceTypes, NamesAssumption DEF Contents, Empty, Part, Alien
    <3>2. file[i].content[2] \in Nat
      BY <3>1 DEF Values
    <3> QED
      BY <1>1, <2>2, <3>2 DEF FileInv
  <2> QED
    BY <1>1, <1>5, <2>1, <2>2 DEF FileInv
<1>6. CASE /\ i = fd[w] /\ file'[i].by = file[i].by /\ file'[i].content \in {Value(w), Part, Empty}
           /\ stage[w] = "filling" \/ file'[i].edited
  <2>1. name'[Target] = i => file'[i].edited \/ file'[i] = file[i]
    BY <1>1, <1>4, <1>6 DEF NamesMove
  <2>2. file'[i].by = Stranger => file'[i].edited /\ ~Calm
    BY <1>1, <1>2, <1>4, <1>6 DEF FileInv
  <2>3. file'[i].content[1] \in Writers => file'[i].content[2] <= round'[file'[i].content[1]]
    BY <1>1, <1>2, <1>6
  <2> QED
    BY <1>1, <1>5, <2>1, <2>2, <2>3 DEF FileInv
<1>7. CASE i = name'[w] /\ ~InUse(i) /\ file'[i] = [NoFile EXCEPT !.by = w, !.private = TRUE]
  <2>1. file'[i].by = w /\ file'[i].content = Empty
    BY <1>7 DEF NoFile
  <2>2. name'[Target] # i \/ file'[i] = file[i]
    BY <1>1, <1>3, <1>7 DEF NamesMove
  <2> QED
    BY <1>1, <1>2, <1>5, <2>1, <2>2 DEF FileInv
<1> QED
  BY <1>1, <1>5, <1>6, <1>7 DEF FilesMove

------------------------------------------------------------------------------
(* The writer itself *)

\* What it does about the disk: what is not on it, it has still to put there,
\* or it says that it has failed.
DiskMove(w) == Calm =>
    /\ \/ Unsynced(w)'
       \/ /\ name'[Target] = name[Target]
          /\ disk'.target = name[Target] \/ (disk'.target = disk.target /\ ~Unsynced(w))
    /\ \/ Unwritten(w)' \/ name'[Target] = None
       \/ disk'.content[name'[Target]] = file'[name'[Target]].content
       \/ /\ name'[Target] = name[Target] /\ ~Unwritten(w)
          /\ file'[name[Target]].content = file[name[Target]].content
          /\ disk'.content[name[Target]] = disk.content[name[Target]]

LEMMA ActingWriter ==
    ASSUME IInv, NEW w \in Writers, Operation(w), Moves(w)
    PROVE  WriterInv(w)' /\ DiskMove(w)
<1> USE DEF Stages, Ended, opVars, world, Goto, End, Own, Hiding, Replacing
<1>a. /\ TypeOK /\ TypeOK' /\ WriterInv(w) /\ (Calm' <=> Calm)
      /\ (\A v \in Writers \ {w} : name'[v] = name[v] /\ fd'[v] = fd[v])
  BY DEF IInv, Moves, OthersKept, Calm
<1>b. /\ stage[w] \in Stages /\ (stage[w] \in Holding <=> fd[w] # None)
      /\ fd[w] \in Inodes \cup {None} /\ name[w] \in Inodes \cup {None}
      /\ name[Target] \in Inodes \cup {None} /\ None \notin Inodes /\ w # Target
      /\ w \in Names /\ Target \in Names
      /\ stage \in [Writers -> Stages] /\ kind \in [Writers -> {"create", "replace", "write"}]
      /\ fd \in [Writers -> Inodes \cup {None}] /\ name \in [Names -> Inodes \cup {None}]
      /\ goal \in [Writers -> Expected] /\ held \in [Writers -> Expected]
      /\ round \in [Writers -> Nat] /\ file \in [Inodes -> File]
  BY <1>a, PlaceTypes DEF WriterInv, TypeOK
<1>c. /\ Value(w) \in Values /\ Value(w)[1] = w /\ Value(w)[2] = round[w] /\ Alien \notin Values
      /\ Value(w) \notin {Part, Empty, Alien} /\ None \notin Writers /\ Stranger \notin Writers
      /\ (UNCHANGED round => Value(w)' = Value(w))
  BY <1>a, FileTypes DEF Value
<1>d. \A i \in Inodes : FileInv(i)
  BY DEF IInv
<1>1. CASE BeginCreate(w)
  <2>1. OwnInv(w)'
    BY <1>a, <1>b, <1>c, <1>1 DEF WriterInv, OwnInv, Holding, BeginCreate, Begin
  <2>2. HiddenInv(w)'
    <3>1. Value(w)' = <<w, round[w] + 1>>
      BY <1>b, <1>1 DEF BeginCreate, Begin, Value
    <3>2. \A i \in Inodes : file[i].content # <<w, round[w] + 1>>
      BY <1>b, <1>d DEF FileInv
    <3> QED
      BY <1>1, <3>1, <3>2 DEF BeginCreate, Begin, HiddenInv
  <2>3. GoalInv(w)'
    BY <1>a, <1>b, <1>c, <1>1 DEF WriterInv, GoalInv, Holding, BeginCreate, Begin
  <2>4. /\ stage'[w] \in Holding <=> fd'[w] # None
        /\ stage'[w] \in {"opening"} \cup Replacing => kind'[w] # "create"
    BY <1>a, <1>b, <1>1 DEF WriterInv, Holding, BeginCreate, Begin
  <2>5. Calm /\ stage'[w] \in Replacing => fd'[w] = name'[Target]
    BY <1>a, <1>b, <1>1 DEF WriterInv, Holding, BeginCreate, Begin
  <2>6. DiskMove(w)
    BY <1>a, <1>b, <1>c, <1>1 DEF WriterInv, OwnInv, DiskMove, Unsynced, Unwritten, Holding, BeginCreate, Begin
  <2> QED
    BY <1>a, <2>1, <2>2, <2>3, <2>4, <2>5, <2>6 DEF WriterInv
<1>2. CASE BeginReplace(w)
  <2>1. OwnInv(w)'
    BY <1>a, <1>b, <1>c, <1>2 DEF WriterInv, OwnInv, Holding, BeginReplace, Begin
  <2>2. HiddenInv(w)'
    BY <1>a, <1>b, <1>c, <1>2 DEF WriterInv, OwnInv, HiddenInv, Holding, BeginReplace, Begin
  <2>3. GoalInv(w)'
    BY <1>a, <1>b, <1>c, <1>2 DEF WriterInv, GoalInv, Holding, BeginReplace, Begin
  <2>4. /\ stage'[w] \in Holding <=> fd'[w] # None
        /\ stage'[w] \in {"opening"} \cup Replacing => kind'[w] # "create"
    BY <1>a, <1>b, <1>2 DEF WriterInv, Holding, BeginReplace, Begin
  <2>5. Calm /\ stage'[w] \in Replacing => fd'[w] = name'[Target]
    BY <1>a, <1>b, <1>2 DEF WriterInv, Holding, BeginReplace, Begin
  <2>6. DiskMove(w)
    BY <1>a, <1>b, <1>c, <1>2 DEF WriterInv, OwnInv, DiskMove, Unsynced, Unwritten, Holding, BeginReplace, Begin
  <2> QED
    BY <1>a, <2>1, <2>2, <2>3, <2>4, <2>5, <2>6 DEF WriterInv
<1>3. CASE BeginWrite(w)
  <2>1. OwnInv(w)'
    BY <1>a, <1>b, <1>c, <1>3 DEF WriterInv, OwnInv, Holding, BeginWrite, Begin
  <2>2. HiddenInv(w)'
    BY <1>a, <1>b, <1>c, <1>3 DEF WriterInv, OwnInv, HiddenInv, Holding, BeginWrite, Begin
  <2>3. GoalInv(w)'
    <3>1. stage'[w] \in {"preparing", "opening", "failed"} /\ UNCHANGED held
      BY <1>b, <1>3 DEF BeginWrite, Begin
    <3>2. goal' = goal \/ \E i \in Inodes \cup {None} : goal' = [goal EXCEPT ![w] = [Nothing EXCEPT !.inode = i]]
      BY <1>b, <1>3 DEF BeginWrite
    <3>3. goal'[w].content \in {goal[w].content, None}
      BY <1>b, <3>2 DEF Nothing
    <3> QED
      BY <1>a, <3>1, <3>3 DEF WriterInv, GoalInv
  <2>4. /\ stage'[w] \in Holding <=> fd'[w] # None
        /\ stage'[w] \in {"opening"} \cup Replacing => kind'[w] # "create"
    BY <1>a, <1>b, <1>3 DEF WriterInv, Holding, BeginWrite, Begin
  <2>5. Calm /\ stage'[w] \in Replacing => fd'[w] = name'[Target]
    BY <1>a, <1>b, <1>3 DEF WriterInv, Holding, BeginWrite, Begin
  <2>6. DiskMove(w)
    BY <1>a, <1>b, <1>c, <1>3 DEF WriterInv, OwnInv, DiskMove, Unsynced, Unwritten, Holding, BeginWrite, Begin
  <2> QED
    BY <1>a, <2>1, <2>2, <2>3, <2>4, <2>5, <2>6 DEF WriterInv
<1>4. CASE Adopt(w)
  <2>1. OwnInv(w)'
    BY <1>a, <1>b, <1>c, <1>4 DEF WriterInv, OwnInv, Holding, Adopt
  <2>2. HiddenInv(w)'
    BY <1>a, <1>b, <1>c, <1>4 DEF WriterInv, OwnInv, HiddenInv, Holding, Adopt
  <2>3. GoalInv(w)'
    BY <1>a, <1>b, <1>c, <1>4 DEF WriterInv, GoalInv, Holding, Adopt
  <2>4. /\ stage'[w] \in Holding <=> fd'[w] # None
        /\ stage'[w] \in {"opening"} \cup Replacing => kind'[w] # "create"
    BY <1>a, <1>b, <1>4 DEF WriterInv, Holding, Adopt
  <2>5. Calm /\ stage'[w] \in Replacing => fd'[w] = name'[Target]
    BY <1>a, <1>b, <1>4 DEF WriterInv, Holding, Adopt
  <2>6. DiskMove(w)
    BY <1>a, <1>b, <1>c, <1>4 DEF WriterInv, OwnInv, DiskMove, Unsynced, Unwritten, Holding, Adopt
  <2> QED
    BY <1>a, <2>1, <2>2, <2>3, <2>4, <2>5, <2>6 DEF WriterInv
<1>5. CASE MakeTemporary(w)
  <2>1. stage[w] = "preparing" /\ UNCHANGED <<kind, round, goal, held, disk>>
    BY <1>5 DEF MakeTemporary
  <2>2. CASE stage'[w] = "failed" /\ fd'[w] = None /\ UNCHANGED <<file, name>>
    BY <1>a, <1>b, <1>c, <2>1, <2>2
       DEF WriterInv, OwnInv, HiddenInv, GoalInv, DiskMove, Unsynced, Unwritten, Holding
  <2>3. CASE stage'[w] = "filling"
    <3>1. PICK i \in Inodes :
            /\ ~InUse(i)
            /\ file' = [file EXCEPT ![i] = [NoFile EXCEPT !.by = w, !.private = TRUE]]
            /\ name' = [name EXCEPT ![w] = i] /\ fd' = [fd EXCEPT ![w] = i]
      BY <1>b, <1>5, <2>3 DEF MakeTemporary
    <3>2. /\ name'[w] = i /\ fd'[w] = i /\ name'[Target] = name[Target]
          /\ file'[i].by = w /\ file'[i].content = Empty
          /\ \A j \in Inodes \ {i} : file'[j] = file[j]
      BY <1>b, <3>1 DEF NoFile
    <3>3. i # name[Target] /\ \A v \in Writers \ {w} : name[v] # i /\ fd[v] # i
      BY <1>b, <3>1 DEF InUse, Names
    <3>4. OwnInv(w)'
      BY <1>a, <2>3, <3>2, <3>3 DEF OwnInv
    <3>5. HiddenInv(w)'
      BY <1>a, <1>c, <2>1, <3>2, <3>3 DEF WriterInv, HiddenInv
    <3>6. GoalInv(w)'
      BY <1>a, <2>1, <2>3 DEF WriterInv, GoalInv
    <3>7. DiskMove(w)
      BY <1>b, <2>1, <3>2, <3>3 DEF DiskMove, Unsynced, Unwritten
    <3> QED
      BY <1>b, <2>3, <3>2, <3>4, <3>5, <3>6, <3>7 DEF WriterInv, Holding
  <2> QED
    BY <1>b, <1>5, <2>2, <2>3 DEF MakeTemporary
<1>6. CASE FillTemporary(w)
  <2>1. OwnInv(w)'
    BY <1>a, <1>b, <1>c, <1>6 DEF WriterInv, OwnInv, Holding, FillTemporary
  <2>2. HiddenInv(w)'
    BY <1>a, <1>b, <1>c, <1>6 DEF WriterInv, OwnInv, HiddenInv, Holding, FillTemporary
  <2>3. GoalInv(w)'
    BY <1>a, <1>b, <1>c, <1>6 DEF WriterInv, GoalInv, Holding, FillTemporary
  <2>4. /\ stage'[w] \in Holding <=> fd'[w] # None
        /\ stage'[w] \in {"opening"} \cup Replacing => kind'[w] # "create"
    BY <1>a, <1>b, <1>6 DEF WriterInv, Holding, FillTemporary
  <2>5. Calm /\ stage'[w] \in Replacing => fd'[w] = name'[Target]
    BY <1>a, <1>b, <1>6 DEF WriterInv, Holding, FillTemporary
  <2>6. DiskMove(w)
    BY <1>a, <1>b, <1>c, <1>6 DEF WriterInv, OwnInv, DiskMove, Unsynced, Unwritten, Holding, FillTemporary
  <2> QED
    BY <1>a, <2>1, <2>2, <2>3, <2>4, <2>5, <2>6 DEF WriterInv
<1>7. CASE SyncTemporary(w)
  <2>a. /\ stage[w] = "filled" /\ UNCHANGED <<file, name, fd, kind, round, goal, held>>
        /\ stage'[w] \in {"checked", "cleaning"}
    BY <1>b, <1>7 DEF SyncTemporary
  <2>b. disk'.content[fd[w]] = file[fd[w]].content
    BY <1>a, <1>b, <1>7, DiskTypes, PlaceTypes DEF SyncTemporary, Holding
  <2>1. OwnInv(w)'
    BY <1>a, <1>c, <2>a, <2>b DEF WriterInv, OwnInv
  <2>2. HiddenInv(w)'
    BY <1>a, <1>b, <1>c, <1>7 DEF WriterInv, OwnInv, HiddenInv, Holding, SyncTemporary
  <2>3. GoalInv(w)'
    BY <1>a, <1>b, <1>c, <1>7 DEF WriterInv, GoalInv, Holding, SyncTemporary
  <2>4. /\ stage'[w] \in Holding <=> fd'[w] # None
        /\ stage'[w] \in {"opening"} \cup Replacing => kind'[w] # "create"
    BY <1>a, <1>b, <1>7 DEF WriterInv, Holding, SyncTemporary
  <2>5. Calm /\ stage'[w] \in Replacing => fd'[w] = name'[Target]
    BY <1>a, <1>b, <1>7 DEF WriterInv, Holding, SyncTemporary
  <2>6. DiskMove(w)
    BY <1>a, <1>b, <1>c, <1>7 DEF WriterInv, OwnInv, DiskMove, Unsynced, Unwritten, Holding, SyncTemporary
  <2> QED
    BY <1>a, <2>1, <2>2, <2>3, <2>4, <2>5, <2>6 DEF WriterInv
<1>8. CASE CheckTemporary(w)
  <2>1. OwnInv(w)'
    BY <1>a, <1>b, <1>c, <1>8 DEF WriterInv, OwnInv, Holding, CheckTemporary, Check
  <2>2. HiddenInv(w)'
    BY <1>a, <1>b, <1>c, <1>8 DEF WriterInv, OwnInv, HiddenInv, Holding, CheckTemporary, Check
  <2>3. GoalInv(w)'
    BY <1>a, <1>b, <1>c, <1>8 DEF WriterInv, GoalInv, Holding, CheckTemporary, Check
  <2>4. /\ stage'[w] \in Holding <=> fd'[w] # None
        /\ stage'[w] \in {"opening"} \cup Replacing => kind'[w] # "create"
    BY <1>a, <1>b, <1>8 DEF WriterInv, Holding, CheckTemporary, Check
  <2>5. Calm /\ stage'[w] \in Replacing => fd'[w] = name'[Target]
    BY <1>a, <1>b, <1>8 DEF WriterInv, Holding, CheckTemporary, Check
  <2>6. DiskMove(w)
    BY <1>a, <1>b, <1>c, <1>8 DEF WriterInv, OwnInv, DiskMove, Unsynced, Unwritten, Holding, CheckTemporary, Check
  <2> QED
    BY <1>a, <2>1, <2>2, <2>3, <2>4, <2>5, <2>6 DEF WriterInv
<1>9. CASE LinkTarget(w)
  <2>1. OwnInv(w)'
    BY <1>a, <1>b, <1>c, <1>9 DEF WriterInv, OwnInv, Holding, LinkTarget
  <2>2. HiddenInv(w)'
    BY <1>a, <1>b, <1>c, <1>9 DEF WriterInv, OwnInv, HiddenInv, Holding, LinkTarget
  <2>3. GoalInv(w)'
    BY <1>a, <1>b, <1>c, <1>9 DEF WriterInv, GoalInv, Holding, LinkTarget
  <2>4. /\ stage'[w] \in Holding <=> fd'[w] # None
        /\ stage'[w] \in {"opening"} \cup Replacing => kind'[w] # "create"
    BY <1>a, <1>b, <1>9 DEF WriterInv, Holding, LinkTarget
  <2>5. Calm /\ stage'[w] \in Replacing => fd'[w] = name'[Target]
    BY <1>a, <1>b, <1>9 DEF WriterInv, Holding, LinkTarget
  <2>6. DiskMove(w)
    <3>1. CASE name' = name
      BY <1>b, <1>9, <3>1 DEF LinkTarget, DiskMove, Unsynced, Unwritten
    <3>2. CASE name[w] # None /\ name' = [name EXCEPT ![Target] = name[w]] /\ stage'[w] = "published"
      <4>1. name'[Target] = name[w] /\ stage[w] = "linking" /\ UNCHANGED <<file, disk>>
        BY <1>b, <1>9, <3>2 DEF LinkTarget
      <4>2. ASSUME Calm
            PROVE  disk'.content[name'[Target]] = file'[name'[Target]].content
        <5>1. file[name[w]].by # Stranger
          BY <1>b, <1>d, <3>2, <4>2 DEF FileInv
        <5> QED
          BY <1>a, <3>2, <4>1, <5>1 DEF WriterInv, OwnInv
      <4> QED
        BY <3>2, <4>1, <4>2 DEF DiskMove, Unsynced
    <3> QED
      BY <1>b, <1>9, <3>1, <3>2 DEF LinkTarget
  <2> QED
    BY <1>a, <2>1, <2>2, <2>3, <2>4, <2>5, <2>6 DEF WriterInv
<1>10. CASE ConfirmPublished(w)
  <2>1. OwnInv(w)'
    BY <1>a, <1>b, <1>c, <1>10 DEF WriterInv, OwnInv, Holding, ConfirmPublished, SyncDirectory
  <2>2. HiddenInv(w)'
    BY <1>a, <1>b, <1>c, <1>10 DEF WriterInv, OwnInv, HiddenInv, Holding, ConfirmPublished, SyncDirectory
  <2>3. GoalInv(w)'
    BY <1>a, <1>b, <1>c, <1>10 DEF WriterInv, GoalInv, Holding, ConfirmPublished, SyncDirectory
  <2>4. /\ stage'[w] \in Holding <=> fd'[w] # None
        /\ stage'[w] \in {"opening"} \cup Replacing => kind'[w] # "create"
    BY <1>a, <1>b, <1>10 DEF WriterInv, Holding, ConfirmPublished, SyncDirectory
  <2>5. Calm /\ stage'[w] \in Replacing => fd'[w] = name'[Target]
    BY <1>a, <1>b, <1>10 DEF WriterInv, Holding, ConfirmPublished, SyncDirectory
  <2>6. DiskMove(w)
    <3>1. stage[w] = "published" /\ UNCHANGED <<file, name>>
      BY <1>10 DEF ConfirmPublished
    <3>2. \/ disk'.target = name[Target] /\ disk'.content = disk.content
          \/ stage'[w] = "visible" /\ disk' = disk
      BY <1>a, <1>b, <1>10, SyncedDirectory DEF ConfirmPublished
    <3> QED
      BY <1>b, <3>1, <3>2 DEF DiskMove, Unsynced, Unwritten
  <2> QED
    BY <1>a, <2>1, <2>2, <2>3, <2>4, <2>5, <2>6 DEF WriterInv
<1>11. CASE CheckRetirement(w)
  <2>1. OwnInv(w)'
    BY <1>a, <1>b, <1>c, <1>11 DEF WriterInv, OwnInv, Holding, CheckRetirement, Check
  <2>2. HiddenInv(w)'
    BY <1>a, <1>b, <1>c, <1>11 DEF WriterInv, OwnInv, HiddenInv, Holding, CheckRetirement, Check
  <2>3. GoalInv(w)'
    BY <1>a, <1>b, <1>c, <1>11 DEF WriterInv, GoalInv, Holding, CheckRetirement, Check
  <2>4. /\ stage'[w] \in Holding <=> fd'[w] # None
        /\ stage'[w] \in {"opening"} \cup Replacing => kind'[w] # "create"
    BY <1>a, <1>b, <1>11 DEF WriterInv, Holding, CheckRetirement, Check
  <2>5. Calm /\ stage'[w] \in Replacing => fd'[w] = name'[Target]
    BY <1>a, <1>b, <1>11 DEF WriterInv, Holding, CheckRetirement, Check
  <2>6. DiskMove(w)
    BY <1>a, <1>b, <1>c, <1>11 DEF WriterInv, OwnInv, DiskMove, Unsynced, Unwritten, Holding, CheckRetirement, Check
  <2> QED
    BY <1>a, <2>1, <2>2, <2>3, <2>4, <2>5, <2>6 DEF WriterInv
<1>12. CASE RetireTemporary(w)
  <2>1. OwnInv(w)'
    BY <1>a, <1>b, <1>c, <1>12 DEF WriterInv, OwnInv, Holding, RetireTemporary
  <2>2. HiddenInv(w)'
    BY <1>a, <1>b, <1>c, <1>12 DEF WriterInv, OwnInv, HiddenInv, Holding, RetireTemporary
  <2>3. GoalInv(w)'
    BY <1>a, <1>b, <1>c, <1>12 DEF WriterInv, GoalInv, Holding, RetireTemporary
  <2>4. /\ stage'[w] \in Holding <=> fd'[w] # None
        /\ stage'[w] \in {"opening"} \cup Replacing => kind'[w] # "create"
    BY <1>a, <1>b, <1>12 DEF WriterInv, Holding, RetireTemporary
  <2>5. Calm /\ stage'[w] \in Replacing => fd'[w] = name'[Target]
    BY <1>a, <1>b, <1>12 DEF WriterInv, Holding, RetireTemporary
  <2>6. DiskMove(w)
    BY <1>a, <1>b, <1>c, <1>12 DEF WriterInv, OwnInv, DiskMove, Unsynced, Unwritten, Holding, RetireTemporary
  <2> QED
    BY <1>a, <2>1, <2>2, <2>3, <2>4, <2>5, <2>6 DEF WriterInv
<1>13. CASE FinishCreate(w)
  <2>1. OwnInv(w)'
    BY <1>a, <1>b, <1>c, <1>13 DEF WriterInv, OwnInv, Holding, FinishCreate, SyncDirectory
  <2>2. HiddenInv(w)'
    BY <1>a, <1>b, <1>c, <1>13 DEF WriterInv, OwnInv, HiddenInv, Holding, FinishCreate, SyncDirectory
  <2>3. GoalInv(w)'
    BY <1>a, <1>b, <1>c, <1>13 DEF WriterInv, GoalInv, Holding, FinishCreate, SyncDirectory
  <2>4. /\ stage'[w] \in Holding <=> fd'[w] # None
        /\ stage'[w] \in {"opening"} \cup Replacing => kind'[w] # "create"
    BY <1>a, <1>b, <1>13 DEF WriterInv, Holding, FinishCreate, SyncDirectory
  <2>5. Calm /\ stage'[w] \in Replacing => fd'[w] = name'[Target]
    BY <1>a, <1>b, <1>13 DEF WriterInv, Holding, FinishCreate, SyncDirectory
  <2>6. DiskMove(w)
    <3>1. stage[w] = "unlinked" /\ UNCHANGED <<file, name>>
      BY <1>13 DEF FinishCreate
    <3>2. \/ disk'.target = name[Target] /\ disk'.content = disk.content
          \/ stage'[w] = "visible" /\ disk' = disk
      BY <1>a, <1>b, <1>13, SyncedDirectory DEF FinishCreate
    <3> QED
      BY <1>b, <3>1, <3>2 DEF DiskMove, Unsynced, Unwritten
  <2> QED
    BY <1>a, <2>1, <2>2, <2>3, <2>4, <2>5, <2>6 DEF WriterInv
<1>14. CASE CheckCleanup(w)
  <2>1. OwnInv(w)'
    BY <1>a, <1>b, <1>c, <1>14 DEF WriterInv, OwnInv, Holding, CheckCleanup, Check
  <2>2. HiddenInv(w)'
    BY <1>a, <1>b, <1>c, <1>14 DEF WriterInv, OwnInv, HiddenInv, Holding, CheckCleanup, Check
  <2>3. GoalInv(w)'
    BY <1>a, <1>b, <1>c, <1>14 DEF WriterInv, GoalInv, Holding, CheckCleanup, Check
  <2>4. /\ stage'[w] \in Holding <=> fd'[w] # None
        /\ stage'[w] \in {"opening"} \cup Replacing => kind'[w] # "create"
    BY <1>a, <1>b, <1>14 DEF WriterInv, Holding, CheckCleanup, Check
  <2>5. Calm /\ stage'[w] \in Replacing => fd'[w] = name'[Target]
    BY <1>a, <1>b, <1>14 DEF WriterInv, Holding, CheckCleanup, Check
  <2>6. DiskMove(w)
    BY <1>a, <1>b, <1>c, <1>14 DEF WriterInv, OwnInv, DiskMove, Unsynced, Unwritten, Holding, CheckCleanup, Check
  <2> QED
    BY <1>a, <2>1, <2>2, <2>3, <2>4, <2>5, <2>6 DEF WriterInv
<1>15. CASE DropTemporary(w)
  <2>1. OwnInv(w)'
    BY <1>a, <1>b, <1>c, <1>15 DEF WriterInv, OwnInv, Holding, DropTemporary, SyncDirectory
  <2>2. HiddenInv(w)'
    BY <1>a, <1>b, <1>c, <1>15 DEF WriterInv, OwnInv, HiddenInv, Holding, DropTemporary, SyncDirectory
  <2>3. GoalInv(w)'
    BY <1>a, <1>b, <1>c, <1>15 DEF WriterInv, GoalInv, Holding, DropTemporary, SyncDirectory
  <2>4. /\ stage'[w] \in Holding <=> fd'[w] # None
        /\ stage'[w] \in {"opening"} \cup Replacing => kind'[w] # "create"
    BY <1>a, <1>b, <1>15 DEF WriterInv, Holding, DropTemporary, SyncDirectory
  <2>5. Calm /\ stage'[w] \in Replacing => fd'[w] = name'[Target]
    BY <1>a, <1>b, <1>15 DEF WriterInv, Holding, DropTemporary, SyncDirectory
  <2>6. DiskMove(w)
    <3>1. stage[w] = "dropping" /\ stage'[w] = "failed" /\ file' = file /\ name'[Target] = name[Target]
      BY <1>b, <1>15 DEF DropTemporary
    <3>2. disk'.target \in {disk.target, name[Target]} /\ disk'.content = disk.content
      BY <1>a, <1>b, <1>15, SyncedDirectory DEF DropTemporary
    <3> QED
      BY <3>1, <3>2 DEF DiskMove, Unsynced, Unwritten
  <2> QED
    BY <1>a, <2>1, <2>2, <2>3, <2>4, <2>5, <2>6 DEF WriterInv
<1>16. CASE OpenTarget(w)
  <2>1. OwnInv(w)'
    BY <1>a, <1>b, <1>c, <1>16 DEF WriterInv, OwnInv, Holding, OpenTarget, Unchanged, PathNames
  <2>2. HiddenInv(w)'
    BY <1>a, <1>b, <1>c, <1>16 DEF WriterInv, OwnInv, HiddenInv, Holding, OpenTarget, Unchanged, PathNames
  <2>3. GoalInv(w)'
    <3>1. UNCHANGED <<file, goal, held>>
      BY <1>16 DEF OpenTarget
    <3>2. {goal[w].content, held[w].content} \subseteq Values \cup {None}
      BY <1>a DEF WriterInv, GoalInv
    <3>3. CASE stage'[w] = "opened"
      <4>1. fd'[w] = name[Target] /\ name[Target] \in Inodes
            /\ goal[w].content \in {None, file[name[Target]].content}
        BY <1>b, <1>16, <3>3 DEF OpenTarget, Unchanged
      <4>2. \/ file[name[Target]].by # Stranger \/ file[name[Target]].edited
            \/ file[name[Target]].content = Alien
        BY <1>d, <4>1 DEF FileInv
      <4> QED
        BY <1>c, <3>1, <3>2, <4>1, <4>2 DEF GoalInv
    <3>4. CASE stage'[w] = "failed"
      BY <3>1, <3>2, <3>4 DEF GoalInv
    <3> QED
      BY <1>b, <1>16, <3>3, <3>4 DEF OpenTarget
  <2>4. /\ stage'[w] \in Holding <=> fd'[w] # None
        /\ stage'[w] \in {"opening"} \cup Replacing => kind'[w] # "create"
    BY <1>a, <1>b, <1>16 DEF WriterInv, Holding, OpenTarget, Unchanged, PathNames
  <2>5. Calm /\ stage'[w] \in Replacing => fd'[w] = name'[Target]
    BY <1>a, <1>b, <1>16 DEF WriterInv, Holding, OpenTarget, Unchanged, PathNames
  <2>6. DiskMove(w)
    BY <1>a, <1>b, <1>c, <1>16 DEF WriterInv, OwnInv, DiskMove, Unsynced, Unwritten, Holding, OpenTarget, Unchanged, PathNames
  <2> QED
    BY <1>a, <2>1, <2>2, <2>3, <2>4, <2>5, <2>6 DEF WriterInv
<1>17. CASE CheckTarget(w)
  <2>1. OwnInv(w)'
    BY <1>a, <1>b, <1>c, <1>17 DEF WriterInv, OwnInv, Holding, CheckTarget, Check
  <2>2. HiddenInv(w)'
    BY <1>a, <1>b, <1>c, <1>17 DEF WriterInv, OwnInv, HiddenInv, Holding, CheckTarget, Check
  <2>3. GoalInv(w)'
    BY <1>a, <1>b, <1>c, <1>17 DEF WriterInv, GoalInv, Holding, CheckTarget, Check
  <2>4. /\ stage'[w] \in Holding <=> fd'[w] # None
        /\ stage'[w] \in {"opening"} \cup Replacing => kind'[w] # "create"
    BY <1>a, <1>b, <1>17 DEF WriterInv, Holding, CheckTarget, Check
  <2>5. Calm /\ stage'[w] \in Replacing => fd'[w] = name'[Target]
    BY <1>a, <1>b, <1>17 DEF WriterInv, Holding, CheckTarget, Check
  <2>6. DiskMove(w)
    BY <1>a, <1>b, <1>c, <1>17 DEF WriterInv, OwnInv, DiskMove, Unsynced, Unwritten, Holding, CheckTarget, Check
  <2> QED
    BY <1>a, <2>1, <2>2, <2>3, <2>4, <2>5, <2>6 DEF WriterInv
<1>18. CASE Truncate(w)
  <2>1. OwnInv(w)'
    BY <1>a, <1>b, <1>c, <1>18 DEF WriterInv, OwnInv, Holding, Truncate
  <2>2. HiddenInv(w)'
    BY <1>a, <1>b, <1>c, <1>18 DEF WriterInv, OwnInv, HiddenInv, Holding, Truncate
  <2>3. GoalInv(w)'
    BY <1>a, <1>b, <1>c, <1>18 DEF WriterInv, GoalInv, Holding, Truncate
  <2>4. /\ stage'[w] \in Holding <=> fd'[w] # None
        /\ stage'[w] \in {"opening"} \cup Replacing => kind'[w] # "create"
    BY <1>a, <1>b, <1>18 DEF WriterInv, Holding, Truncate
  <2>5. Calm /\ stage'[w] \in Replacing => fd'[w] = name'[Target]
    BY <1>a, <1>b, <1>18 DEF WriterInv, Holding, Truncate
  <2>6. DiskMove(w)
    BY <1>a, <1>b, <1>c, <1>18 DEF WriterInv, OwnInv, DiskMove, Unsynced, Unwritten, Holding, Truncate
  <2> QED
    BY <1>a, <2>1, <2>2, <2>3, <2>4, <2>5, <2>6 DEF WriterInv
<1>19. CASE Rewrite(w)
  <2>1. OwnInv(w)'
    BY <1>a, <1>b, <1>c, <1>19 DEF WriterInv, OwnInv, Holding, Rewrite
  <2>2. HiddenInv(w)'
    BY <1>a, <1>b, <1>c, <1>19 DEF WriterInv, OwnInv, HiddenInv, Holding, Rewrite
  <2>3. GoalInv(w)'
    BY <1>a, <1>b, <1>c, <1>19 DEF WriterInv, GoalInv, Holding, Rewrite
  <2>4. /\ stage'[w] \in Holding <=> fd'[w] # None
        /\ stage'[w] \in {"opening"} \cup Replacing => kind'[w] # "create"
    BY <1>a, <1>b, <1>19 DEF WriterInv, Holding, Rewrite
  <2>5. Calm /\ stage'[w] \in Replacing => fd'[w] = name'[Target]
    BY <1>a, <1>b, <1>19 DEF WriterInv, Holding, Rewrite
  <2>6. DiskMove(w)
    BY <1>a, <1>b, <1>c, <1>19 DEF WriterInv, OwnInv, DiskMove, Unsynced, Unwritten, Holding, Rewrite
  <2> QED
    BY <1>a, <2>1, <2>2, <2>3, <2>4, <2>5, <2>6 DEF WriterInv
<1>20. CASE SyncTarget(w)
  <2>1. OwnInv(w)'
    BY <1>a, <1>b, <1>c, <1>20 DEF WriterInv, OwnInv, Holding, SyncTarget
  <2>2. HiddenInv(w)'
    BY <1>a, <1>b, <1>c, <1>20 DEF WriterInv, OwnInv, HiddenInv, Holding, SyncTarget
  <2>3. GoalInv(w)'
    BY <1>a, <1>b, <1>c, <1>20 DEF WriterInv, GoalInv, Holding, SyncTarget
  <2>4. /\ stage'[w] \in Holding <=> fd'[w] # None
        /\ stage'[w] \in {"opening"} \cup Replacing => kind'[w] # "create"
    BY <1>a, <1>b, <1>20 DEF WriterInv, Holding, SyncTarget
  <2>5. Calm /\ stage'[w] \in Replacing => fd'[w] = name'[Target]
    BY <1>a, <1>b, <1>20 DEF WriterInv, Holding, SyncTarget
  <2>6. DiskMove(w)
    <3>1. stage[w] = "rewritten" /\ stage'[w] = "verifying" /\ UNCHANGED <<file, name>>
          /\ disk' = [disk EXCEPT !.content[fd[w]] = file[fd[w]].content]
          /\ fd[w] \in Inodes
      BY <1>b, <1>20 DEF SyncTarget, Holding
    <3>2. disk'.target = disk.target /\ disk'.content[fd[w]] = file[fd[w]].content
      BY <1>a, <3>1, DiskTypes, PlaceTypes
    <3>3. Calm => fd[w] = name[Target]
      BY <1>a, <3>1 DEF WriterInv
    <3> QED
      BY <3>1, <3>2, <3>3 DEF DiskMove, Unsynced
  <2> QED
    BY <1>a, <2>1, <2>2, <2>3, <2>4, <2>5, <2>6 DEF WriterInv
<1>21. CASE VerifyTarget(w)
  <2>1. OwnInv(w)'
    BY <1>a, <1>b, <1>c, <1>21 DEF WriterInv, OwnInv, Holding, VerifyTarget, SyncDirectory
  <2>2. HiddenInv(w)'
    BY <1>a, <1>b, <1>c, <1>21 DEF WriterInv, OwnInv, HiddenInv, Holding, VerifyTarget, SyncDirectory
  <2>3. GoalInv(w)'
    BY <1>a, <1>b, <1>c, <1>21 DEF WriterInv, GoalInv, Holding, VerifyTarget, SyncDirectory
  <2>4. /\ stage'[w] \in Holding <=> fd'[w] # None
        /\ stage'[w] \in {"opening"} \cup Replacing => kind'[w] # "create"
    BY <1>a, <1>b, <1>21 DEF WriterInv, Holding, VerifyTarget, SyncDirectory
  <2>5. Calm /\ stage'[w] \in Replacing => fd'[w] = name'[Target]
    BY <1>a, <1>b, <1>21 DEF WriterInv, Holding, VerifyTarget, SyncDirectory
  <2>6. DiskMove(w)
    <3>1. stage[w] = "verifying" /\ UNCHANGED <<file, name>>
      BY <1>21 DEF VerifyTarget
    <3>2. \/ disk'.target = name[Target] /\ disk'.content = disk.content
          \/ stage'[w] = "failed" /\ disk' = disk
      BY <1>a, <1>b, <1>21, SyncedDirectory DEF VerifyTarget
    <3> QED
      BY <1>b, <3>1, <3>2 DEF DiskMove, Unsynced, Unwritten
  <2> QED
    BY <1>a, <2>1, <2>2, <2>3, <2>4, <2>5, <2>6 DEF WriterInv
<1>22. CASE WriteFails(w)
  <2>1. OwnInv(w)'
    BY <1>a, <1>b, <1>c, <1>22 DEF WriterInv, OwnInv, Holding, WriteFails
  <2>2. HiddenInv(w)'
    BY <1>a, <1>b, <1>c, <1>22 DEF WriterInv, OwnInv, HiddenInv, Holding, WriteFails
  <2>3. GoalInv(w)'
    BY <1>a, <1>b, <1>c, <1>22 DEF WriterInv, GoalInv, Holding, WriteFails
  <2>4. /\ stage'[w] \in Holding <=> fd'[w] # None
        /\ stage'[w] \in {"opening"} \cup Replacing => kind'[w] # "create"
    BY <1>a, <1>b, <1>22 DEF WriterInv, Holding, WriteFails
  <2>5. Calm /\ stage'[w] \in Replacing => fd'[w] = name'[Target]
    BY <1>a, <1>b, <1>22 DEF WriterInv, Holding, WriteFails
  <2>6. DiskMove(w)
    BY <1>a, <1>b, <1>c, <1>22 DEF WriterInv, OwnInv, DiskMove, Unsynced, Unwritten, Holding, WriteFails
  <2> QED
    BY <1>a, <2>1, <2>2, <2>3, <2>4, <2>5, <2>6 DEF WriterInv
<1>23. CASE Kill(w)
  <2>1. OwnInv(w)'
    BY <1>a, <1>b, <1>c, <1>23 DEF WriterInv, OwnInv, Holding, Kill
  <2>2. HiddenInv(w)'
    BY <1>a, <1>b, <1>c, <1>23 DEF WriterInv, OwnInv, HiddenInv, Holding, Kill
  <2>3. GoalInv(w)'
    BY <1>a, <1>b, <1>c, <1>23 DEF WriterInv, GoalInv, Holding, Kill
  <2>4. /\ stage'[w] \in Holding <=> fd'[w] # None
        /\ stage'[w] \in {"opening"} \cup Replacing => kind'[w] # "create"
    BY <1>a, <1>b, <1>23 DEF WriterInv, Holding, Kill
  <2>5. Calm /\ stage'[w] \in Replacing => fd'[w] = name'[Target]
    BY <1>a, <1>b, <1>23 DEF WriterInv, Holding, Kill
  <2>6. DiskMove(w)
    BY <1>a, <1>b, <1>c, <1>23 DEF WriterInv, OwnInv, DiskMove, Unsynced, Unwritten, Holding, Kill
  <2> QED
    BY <1>a, <2>1, <2>2, <2>3, <2>4, <2>5, <2>6 DEF WriterInv
<1> QED
  BY <1>1, <1>2, <1>3, <1>4, <1>5, <1>6, <1>7, <1>8, <1>9, <1>10, <1>11, <1>12, <1>13, <1>14, <1>15, <1>16, <1>17, <1>18, <1>19, <1>20, <1>21, <1>22, <1>23 DEF Operation

LEMMA DiskFollows ==
    ASSUME IInv, NEW w \in Writers, Moves(w), DiskMove(w)
    PROVE  DiskInv'
<1> SUFFICES ASSUME Calm'
             PROVE  /\ disk'.target = name'[Target] \/ \E v \in Writers : Unsynced(v)'
                    /\ name'[Target] # None =>
                         \/ disk'.content[name'[Target]] = file'[name'[Target]].content
                         \/ \E v \in Writers : Unwritten(v)'
  BY DEF DiskInv
<1>1. Calm /\ \A v \in Writers \ {w} : (Unsynced(v) => Unsynced(v)') /\ (Unwritten(v) => Unwritten(v)')
  BY DEF Moves, OthersKept, Calm, Unsynced, Unwritten
<1>2. disk'.target = name'[Target] \/ \E v \in Writers : Unsynced(v)'
  BY <1>1 DEF IInv, DiskInv, DiskMove
<1>3. name'[Target] # None =>
        \/ disk'.content[name'[Target]] = file'[name'[Target]].content
        \/ \E v \in Writers : Unwritten(v)'
  BY <1>1 DEF IInv, DiskInv, DiskMove
<1> QED
  BY <1>2, <1>3

LEMMA OperationInv ==
    ASSUME IInv, NEW w \in Writers, Operation(w)
    PROVE  IInv'
<1>1. Moves(w)
  BY OperationMoves DEF IInv, WriterInv
<1>2. \A v \in Writers : WriterInv(v)'
  BY <1>1, ActingWriter, OthersFollow
<1>3. \A i \in Inodes : FileInv(i)'
  BY <1>1, FilesFollow
<1>4. DiskInv'
  BY <1>1, ActingWriter, DiskFollows
<1> QED
  BY <1>1, <1>2, <1>3, <1>4 DEF IInv, Moves

------------------------------------------------------------------------------
(* The stranger *)

FilesMeddled == \A i \in Inodes :
    \/ file'[i].by = file[i].by /\ file'[i].content = file[i].content /\ file'[i].edited = file[i].edited
    \/ i = name[Target] /\ file'[i].by = file[i].by /\ file'[i].content = Alien /\ file'[i].edited
    \/ ~InUse(i) /\ file'[i].by = Stranger /\ file'[i].content = Alien /\ ~file'[i].edited

NamesMeddled == \A n \in Names :
    \/ name'[n] \in {None, name[n]}
    \/ /\ name'[n] \in Inodes /\ ~InUse(name'[n])
       /\ file'[name'[n]].by = Stranger /\ file'[name'[n]].content = Alien

LEMMA StrangerMoves ==
    ASSUME TypeOK, StrangerStep
    PROVE  /\ TypeOK' /\ FilesMeddled /\ NamesMeddled
           /\ faults'["stranger"] < faults["stranger"]
           /\ UNCHANGED <<stage, kind, round, fd, goal, held, disk>>
<1>1. /\ faults' \in [Faults -> Nat] /\ faults'["stranger"] < faults["stranger"]
      /\ UNCHANGED <<stage, kind, round, fd, goal, held, disk>>
  BY DEF StrangerStep, Spend, TypeOK, Faults, opVars
<1>2. CASE \E n \in Names : Intrude(n)
  <2>1. PICK n \in Names : Intrude(n)
    BY <1>2
  <2>2. CASE \E i \in Inodes, private \in BOOLEAN :
               /\ ~InUse(i) /\ name' = [name EXCEPT ![n] = i]
               /\ file' = [file EXCEPT ![i] = [NoFile EXCEPT !.by = Stranger, !.content = Alien,
                                                             !.private = private]]
    <3>1. PICK i \in Inodes, private \in BOOLEAN :
               /\ ~InUse(i) /\ name' = [name EXCEPT ![n] = i]
               /\ file' = [file EXCEPT ![i] = [NoFile EXCEPT !.by = Stranger, !.content = Alien,
                                                             !.private = private]]
      BY <2>2
    <3>2. file' \in [Inodes -> File] /\ name' \in [Names -> Inodes \cup {None}]
      BY <3>1, NewFiles DEF TypeOK
    <3>3. TypeOK'
      BY <1>1, <2>1, <3>2 DEF TypeOK, Intrude
    <3>4. file'[i].by = Stranger /\ file'[i].content = Alien /\ ~file'[i].edited
          /\ \A j \in Inodes \ {i} : file'[j] = file[j]
      BY <3>1 DEF TypeOK, NoFile
    <3>5. name'[n] = i /\ \A m \in Names \ {n} : name'[m] = name[m]
      BY <2>1, <3>1 DEF TypeOK
    <3> QED
      BY <1>1, <3>1, <3>3, <3>4, <3>5 DEF FilesMeddled, NamesMeddled
  <2>3. CASE name' = [name EXCEPT ![n] = None] /\ UNCHANGED file
    BY <1>1, <2>1, <2>3 DEF TypeOK, Intrude, FilesMeddled, NamesMeddled
  <2> QED
    BY <2>1, <2>2, <2>3 DEF Intrude
<1>3. CASE Meddle
  <2>1. UNCHANGED name /\ here' \in BOOLEAN
    BY <1>3 DEF Meddle, TypeOK
  <2>2. CASE UNCHANGED file
    BY <1>1, <2>1, <2>2 DEF TypeOK, FilesMeddled, NamesMeddled
  <2>3. CASE name[Target] # None /\ ~UNCHANGED file
    <3>1. name[Target] \in Inodes /\ Alien \in Contents
      BY <2>3 DEF TypeOK, Names, Contents
    <3>2. \/ file' = [file EXCEPT ![name[Target]].extra = 1]
          \/ file' = [file EXCEPT ![name[Target]].private = FALSE]
          \/ file' = [file EXCEPT ![name[Target]].content = Alien, ![name[Target]].edited = TRUE]
      BY <1>3, <2>3 DEF Meddle
    <3>a. /\ [file EXCEPT ![name[Target]].extra = 1] \in [Inodes -> File]
          /\ [file EXCEPT ![name[Target]].private = FALSE] \in [Inodes -> File]
      BY <3>1, NewFiles
    <3>b. [file EXCEPT ![name[Target]].content = Alien, ![name[Target]].edited = TRUE]
            \in [Inodes -> File]
      BY <3>1, NewFiles
    <3>3. file' \in [Inodes -> File]
      BY <3>2, <3>a, <3>b
    <3>4. FilesMeddled
      BY <3>1, <3>2 DEF TypeOK, File, FilesMeddled
    <3> QED
      BY <1>1, <2>1, <3>3, <3>4 DEF TypeOK, NamesMeddled
  <2> QED
    BY <1>3, <2>2, <2>3 DEF Meddle
<1> QED
  BY <1>2, <1>3 DEF StrangerStep

LEMMA StrangerInv ==
    ASSUME IInv, StrangerStep
    PROVE  IInv'
<1>1. /\ TypeOK /\ TypeOK' /\ FilesMeddled /\ NamesMeddled
      /\ faults'["stranger"] < faults["stranger"]
      /\ UNCHANGED <<stage, kind, round, fd, goal, held, disk>>
  BY StrangerMoves DEF IInv
<1>2. ~Calm' /\ faults'["stranger"] <= FaultBudget["stranger"]
  BY <1>1, BoundAssumption DEF IInv, Calm, TypeOK, Faults
<1>3. \A i \in Inodes : FileInv(i)'
  <2> SUFFICES ASSUME NEW i \in Inodes
               PROVE  FileInv(i)'
    OBVIOUS
  <2>1. FileInv(i) /\ Alien[1] \notin Writers /\ Stranger \notin Writers /\ name[Target] \in Inodes \cup {None}
    BY <1>1, NamesAssumption DEF IInv, Alien, TypeOK, Names
  <2>2. name'[Target] = i => name[Target] = i \/ file'[i].by = Stranger
    BY <1>1, NamesAssumption DEF NamesMeddled, Names
  <2> QED
    BY <1>1, <1>2, <2>1, <2>2 DEF FileInv, FilesMeddled, InUse, Names
<1>4. \A v \in Writers : WriterInv(v)'
  <2> SUFFICES ASSUME NEW v \in Writers
               PROVE  WriterInv(v)'
    OBVIOUS
  <2>1. WriterInv(v) /\ Value(v)' = Value(v) /\ Value(v) # Alien
    BY <1>1, FileTypes DEF IInv, Value
  <2>2. /\ \A i \in Inodes : (fd[v] = i \/ \E n \in Names : name[n] = i) => InUse(i)
        /\ fd[v] \in Inodes \cup {None} /\ None \notin Inodes /\ Target \in Names /\ Writers \subseteq Names
        /\ \A n \in Names : name[n] \in Inodes \cup {None}
        /\ stage[v] \in Holding => fd[v] # None
    BY <1>1, <2>1, NamesAssumption DEF InUse, TypeOK, Names, WriterInv
  <2>3. OwnInv(v)'
    <3> SUFFICES ASSUME stage[v] \in Own
                 PROVE  OwnInv(v)'
      BY <1>1 DEF OwnInv
    <3>1. OwnInv(v) /\ fd[v] \in Inodes
      BY <2>1, <2>2 DEF WriterInv, Own, Holding, Stages, Ended
    <3>2. file'[fd[v]].by = file[fd[v]].by /\ file'[fd[v]].content = file[fd[v]].content
      BY <1>1, <2>2, <3>1 DEF FilesMeddled, OwnInv
    <3>3. \A n \in Names : name'[n] = fd[v] => name[n] = fd[v]
      BY <1>1, <2>2, <3>1 DEF NamesMeddled
    <3>4. name'[v] \in {None, fd[v]} \/ file'[name'[v]].by = Stranger
      BY <1>1, <2>2, <3>1 DEF NamesMeddled, FilesMeddled, OwnInv
    <3> QED
      BY <1>1, <2>1, <2>2, <3>1, <3>2, <3>3, <3>4 DEF OwnInv
  <2>4. HiddenInv(v)'
    <3> SUFFICES ASSUME stage[v] \in Hiding \cup {"failed"}, kind[v] = "create",
                        NEW i \in Inodes, file'[i].content = Value(v)
                 PROVE  i # name'[Target] /\ \A u \in Writers \ {v} : name'[u] # i
      BY <1>1, <2>1 DEF HiddenInv
    <3>1. file[i].content = Value(v)
      BY <1>1, <2>1 DEF FilesMeddled
    <3>2. i # name[Target] /\ \A u \in Writers \ {v} : name[u] # i
      BY <2>1, <3>1 DEF WriterInv, HiddenInv
    <3> QED
      BY <1>1, <2>1, <2>2, <3>2 DEF NamesMeddled
  <2>5. GoalInv(v)'
    BY <1>1, <2>1, <2>2 DEF WriterInv, GoalInv, FilesMeddled, Holding, Stages, Ended
  <2> QED
    BY <1>1, <1>2, <2>1, <2>3, <2>4, <2>5 DEF WriterInv
<1>5. DiskInv'
  BY <1>2 DEF DiskInv
<1> QED
  BY <1>1, <1>2, <1>3, <1>4, <1>5 DEF IInv

------------------------------------------------------------------------------
(* The theorems *)

LEMMA InitInv == Init => IInv
<1> SUFFICES ASSUME Init
             PROVE  IInv
  OBVIOUS
<1>1. TypeOK
  BY NamesAssumption, BoundAssumption, NoFileType
     DEF Init, TypeOK, Stages, Ended, Expected, Nothing, Contents, Empty
<1>2. \A w \in Writers : WriterInv(w)
  BY DEF Init, WriterInv, OwnInv, HiddenInv, GoalInv, Holding, Own, Hiding, Replacing, Ended, Nothing
<1>3. \A i \in Inodes : FileInv(i)
  BY NamesAssumption DEF Init, FileInv, NoFile, Empty, Names
<1>4. DiskInv
  BY DEF Init, DiskInv, Names
<1>5. faults["stranger"] <= FaultBudget["stranger"]
  BY BoundAssumption DEF Init, Faults
<1> QED
  BY <1>1, <1>2, <1>3, <1>4, <1>5 DEF IInv

LEMMA StepInv == IInv /\ [Next]_vars => IInv'
<1> SUFFICES ASSUME IInv, [Next]_vars
             PROVE  IInv'
  OBVIOUS
<1>1. CASE Next
  BY <1>1, OperationInv, StrangerInv DEF Next
<1>2. CASE UNCHANGED vars
  BY <1>2 DEF vars, IInv, TypeOK, WriterInv, OwnInv, HiddenInv, GoalInv, FileInv, DiskInv, Calm,
              Unsynced, Unwritten, Value
<1> QED
  BY <1>1, <1>2

LEMMA Invariance == Spec => []IInv
  BY InitInv, StepInv, PTL DEF Spec

\* Every variable always holds a value of its kind.
THEOREM TypeInvariant == Spec => []TypeOK
<1>1. IInv => TypeOK
  BY DEF IInv
<1> QED
  BY <1>1, Invariance, PTL

\* However many processes create the file at once, and whatever a stranger
\* does to the names of their temporaries: what link(2) of
\* publishPreparedTemporary makes visible is a file that was written whole.
THEOREM WholeTheorem == Spec => []CreatedWhole
<1>1. IInv => CreatedWhole
  BY DEF IInv, FileInv, CreatedWhole
<1> QED
  BY <1>1, Invariance, PTL

\* A creation that reports a failure, and not that its file may be visible, has
\* left nothing of its own at the target: a caller may try again.
THEOREM InvisibleTheorem == Spec => []FailedInvisible
<1>1. IInv => FailedInvisible
  BY DEF IInv, WriterInv, HiddenInv, FailedInvisible
<1> QED
  BY <1>1, Invariance, PTL

\* Without a stranger the target and its content are on the disk as soon as
\* every operation has reported success.
THEOREM DurableTheorem == Spec => []SuccessDurable
<1>1. IInv => SuccessDurable
  BY DEF IInv, DiskInv, Calm, Unsynced, Unwritten, SuccessDurable
<1> QED
  BY <1>1, Invariance, PTL

\* What a step of an operation may do to a file of the stranger at the target:
\* it leaves the name, since link(2) does not replace and only temporaries are
\* removed, and writes only where atomicWriteFile is to write.
LEMMA StepKeeps ==
    ASSUME IInv, [Next]_vars, faults'["stranger"] = faults["stranger"],
           NEW i \in Inodes, name[Target] = i, file[i].by = Stranger, ~file[i].edited
    PROVE  /\ name'[Target] = i
           /\ \/ file'[i] = file[i]
              \/ \E w \in Writers : fd[w] = i /\ goal[w].content = None
<1>1. InUse(i) /\ i # None /\ Stranger \notin Writers
  BY NamesAssumption DEF InUse, Names
<1>2. ASSUME NEW w \in Writers, Operation(w)
      PROVE  /\ name'[Target] = i
             /\ file'[i] = file[i] \/ (fd[w] = i /\ goal[w].content = None)
  <2>1. Moves(w) /\ WriterInv(w) /\ TypeOK
    BY <1>2, OperationMoves DEF IInv, WriterInv
  <2>2. name'[Target] = i
    BY <1>1, <2>1 DEF Moves, NamesMove
  <2>3. CASE file'[i] # file[i]
    <3>1. fd[w] = i
      BY <1>1, <2>1, <2>3 DEF Moves, FilesMove
    <3>2. stage[w] \in {"filling", "truncating", "writing"}
      BY <1>1, <1>2, <2>1, <2>3
         DEF Operation, BeginCreate, BeginReplace, BeginWrite, Begin, Adopt, MakeTemporary,
             FillTemporary, SyncTemporary, CheckTemporary, LinkTarget, ConfirmPublished,
             CheckRetirement, RetireTemporary, FinishCreate, CheckCleanup, DropTemporary,
             OpenTarget, CheckTarget, Check, Truncate, Rewrite, SyncTarget, VerifyTarget,
             WriteFails, Kill, TypeOK
    <3>3. stage[w] # "filling"
      BY <2>1, <3>1 DEF WriterInv, OwnInv, Own
    <3> QED
      BY <2>1, <2>2, <3>1, <3>2, <3>3 DEF WriterInv, GoalInv
  <2> QED
    BY <2>2, <2>3
<1>3. CASE StrangerStep
  BY <1>3, StrangerMoves DEF IInv, TypeOK, Faults
<1>4. CASE UNCHANGED vars
  BY <1>4 DEF vars
<1> QED
  BY <1>2, <1>3, <1>4 DEF Next

\* A file that the stranger has put in the place of the target stays there, and
\* is not written unless its writer is atomicWriteFile, which takes what it
\* finds: the identity and the content that a caller of
\* atomicConditionalReplaceFile expects tell the file from its own.
THEOREM SuccessorTheorem == Spec => SuccessorKept
<1>1. ASSUME IInv, [Next]_vars
      PROVE  [faults'["stranger"] = faults["stranger"] =>
                \A i \in Inodes : name[Target] = i /\ file[i].by = Stranger /\ ~file[i].edited =>
                  /\ name'[Target] = i
                  /\ \/ file'[i] = file[i]
                     \/ \E w \in Writers : fd[w] = i /\ goal[w].content = None]_vars
  BY <1>1, StepKeeps
<1> QED
  BY <1>1, Invariance, PTL DEF Spec, SuccessorKept
=============================================================================
