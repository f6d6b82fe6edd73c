------------------------- MODULE ImplementerProofs --------------------------
(***************************************************************************)
(* What holds of implement calls for any number of calls, root processes   *)
(* and recoveries, whatever scopes are declared and whoever is killed:     *)
(*                                                                         *)
(*  - the registry.  The inductive invariant IInv says at every stage of   *)
(*    an owner, and of a recovery, what the lease, the record, the         *)
(*    container, the worktree, the index and the ref of a call can be; what*)
(*    a dead owner leaves is the part of it, LeaseInv, that needs no stage.*)
(*    From it follow the safety properties of ImplementerRegistry, and that*)
(*    it implements AttemptedWork.                                         *)
(*  - the scopes.  Two calls that may write one file have scopes that      *)
(*    overlap (CollisionOverlaps): the check of admission misses nothing.  *)
(*  - the lock.  The claim and the retirement of its directory, step by    *)
(*    step (ImplementerMutex): at most one process holds it.               *)
(***************************************************************************)
EXTENDS ImplementerRegistry, ImplementerMutex, FiniteSetTheorems, WellFoundedInduction,
        SequenceTheorems, TLAPS

(***************************************************************************)
(* Types, and what assignments do to records and scans.                    *)
(***************************************************************************)

\* The steps of an owner, by what it is at.
SetsUp(c) ==
    \/ Discover(c) \/ Reserve(c) \/ CreateLease(c) \/ CompleteLease(c)
    \/ ReserveFails(c) \/ RecordPaths(c) \/ MakeBox(c) \/ MarkBox(c) \/ PersistBox(c)
    \/ AddWorktree(c) \/ PersistWorktree(c) \/ CreateConfinement(c)
    \/ PersistConfinement(c) \/ SetupFails(c) \/ MarkerFails(c) \/ DiscardWorkspace(c)
    \/ DropLease(c) \/ RetireDropped(c) \/ DiscardFails(c)
Launches(c) ==
    \/ PrepareLaunch(c) \/ SpawnGate(c) \/ NoteChildPid(c) \/ PublishPid(c)
    \/ NoteLaunchReady(c) \/ LaunchFails(c) \/ ChildClosed(c)
Finalizes(c) ==
    \/ OwnIndex(c) \/ StageSnapshot(c) \/ TakeSnapshot(c) \/ CreateRef(c)
    \/ PersistVerified(c) \/ CompareTree(c) \/ RemoveWorktree(c) \/ RecordRemoval(c)
    \/ RemoveContainer(c) \/ RemoveLease(c) \/ FinalizationFails(c)

\* What an update of a record may write is a record again.
LEMMA RecordUpdates ==
    ASSUME NEW rec \in Record
    PROVE  /\ [rec EXCEPT !.located = TRUE] \in Record
           /\ \A i \in Idents : [rec EXCEPT !.ident = i] \in Record
           /\ [rec EXCEPT !.indexOwned = TRUE] \in Record
           /\ \A s \in {"ref-verified", "worktree-removed"} : [rec EXCEPT !.state = s] \in Record
           /\ [rec EXCEPT !.state = "worktree-ready", !.ident = "worktree"] \in Record
           /\ \A res \in SUBSET Resources : [rec EXCEPT !.resources = res] \in Record
           /\ \A res \in SUBSET Resources :
                [rec EXCEPT !.child = TRUE, !.resources = res] \in Record
           /\ \A k \in BOOLEAN, res \in SUBSET Resources :
                [rec EXCEPT !.indexOwned = TRUE, !.child = k, !.resources = res] \in Record
  BY DEF Record, Idents

\* The three parts of the type invariant.
CallsOK ==
    /\ pc \in [Calls -> Stages]
    /\ baseline \in [Calls -> Nat]
    /\ lease \in [Calls -> {"none", "partial", "active", "retired", "cut", "gone"}]
    /\ disk \in [Calls -> Record]
    /\ noted \in [Calls -> SUBSET Resources]
    /\ files \in [Calls -> SUBSET Resources]
    /\ box \in [Calls -> {"none", "bare", "marked", "quarantined"} \cup Unfinished]
    /\ tree \in [Calls -> Nat] /\ ref \in [Calls -> Nat] /\ snap \in [Calls -> Nat]
    /\ staged \in [Calls -> BOOLEAN]
    /\ child \in [Calls -> {"none", "gate", "working", "over"}]
    /\ retiredBy \in [Calls -> Actors \cup {Free}]
RecoveriesOK ==
    /\ rpc \in [Recoveries -> RecoveryStages]
    /\ job \in [Recoveries -> Calls \cup {Free}]
    /\ \A r \in Recoveries : /\ DOMAIN scan[r] \subseteq Calls
                             /\ \A c \in DOMAIN scan[r] : scan[r][c] \in Record
    /\ artifacts \in [Recoveries -> SUBSET Calls]
WorldOK == alive \subseteq Actors /\ head \in Nat /\ crashes \in Nat
LockOK == lock \in Actors \cup {Free, Broken}

\* A scan is a function from calls to records.
ScanShape == scan = [r \in Recoveries |-> [c \in DOMAIN scan[r] |-> scan[r][c]]]

\* Together they are the type invariant.
LEMMA TypeParts == TypeOK <=> CallsOK /\ RecoveriesOK /\ WorldOK /\ LockOK
  BY DEF TypeOK, CallsOK, RecoveriesOK, WorldOK, LockOK

\* An owner or a child touches neither the world nor the recoveries.
LEMMA OwnerFrame ==
    ASSUME NEW c \in Calls, OwnerStep(c)
    PROVE  UNCHANGED <<alive, head, crashes, rpc, job, scan, artifacts>>
  BY DEF OwnerStep, Turn, recovery_vars,
     Discover, Reserve, CreateLease, CompleteLease, ReserveFails,
     RecordPaths, MakeBox, MarkBox, MarkerFails, PersistBox, AddWorktree, PersistWorktree,
     CreateConfinement, PersistConfinement, SetupFails, DiscardWorkspace, DropLease, RetireDropped, DiscardFails,
     PrepareLaunch, SpawnGate, NoteChildPid, PublishPid, NoteLaunchReady, LaunchFails,
     ChildClosed, OwnIndex, StageSnapshot, TakeSnapshot, CreateRef, PersistVerified,
     CompareTree, RemoveWorktree, RecordRemoval, RemoveContainer, RemoveLease,
     FinalizationFails

\* Every step of an owner in setup keeps the state well typed.
LEMMA SetupType ==
    ASSUME CallsOK, WorldOK, LockOK, NEW c \in Calls,
           SetsUp(c)
    PROVE  CallsOK' /\ LockOK'
<1> USE CallsAssumption
    DEF CallsOK, WorldOK, LockOK, Turn, Goto, Actors, files_vars, Stages, Synchronous,
        SetupStages,
        Terminal
<1>0. disk[c] \in Record /\ noted[c] \in SUBSET Resources /\ OwnerOf[c] \in Processes
  OBVIOUS
<1>1. ASSUME Discover(c) PROVE CallsOK' /\ LockOK'
  BY <1>1 DEF Discover
<1>2. ASSUME Reserve(c) PROVE CallsOK' /\ LockOK'
  <2>1. CASE Goto(c, "admitted") /\ lock' = OwnerOf[c]
    BY <1>2, <2>1 DEF Reserve
  <2>2. CASE Goto(c, "refused") /\ UNCHANGED lock
    BY <1>2, <2>2 DEF Reserve
  <2> QED
    BY <1>2, <2>1, <2>2 DEF Reserve
<1>3. ASSUME CreateLease(c) \/ CompleteLease(c) PROVE CallsOK' /\ LockOK'
  BY <1>3 DEF CreateLease, CompleteLease
<1>4. ASSUME ReserveFails(c) PROVE CallsOK' /\ LockOK'
  BY <1>4 DEF ReserveFails, LeaveSection
<1>5. ASSUME RecordPaths(c) PROVE CallsOK' /\ LockOK'
  <2>1. disk' \in [Calls -> Record]
    BY <1>0, <1>5, RecordUpdates DEF RecordPaths, Write
  <2> QED
    BY <1>5, <2>1 DEF RecordPaths
<1>6. ASSUME MakeBox(c) \/ MarkBox(c) \/ MarkerFails(c) PROVE CallsOK' /\ LockOK'
  <2>1. /\ box' \in [Calls -> {"none", "bare", "marked", "quarantined"} \cup Unfinished]
        /\ pc' \in [Calls -> Stages]
    BY <1>6 DEF MakeBox, MarkBox, MarkerFails, Box, Unfinished
  <2> QED
    BY <1>6, <2>1 DEF MakeBox, MarkBox, MarkerFails
<1>7. ASSUME PersistBox(c) PROVE CallsOK' /\ LockOK'
  <2>1. disk' \in [Calls -> Record]
    <3>1. PICK i \in Idents : disk' = [disk EXCEPT ![c] = [disk[c] EXCEPT !.ident = i]]
      BY <1>7 DEF PersistBox, Persist, Write, Idents
    <3>2. [disk[c] EXCEPT !.ident = i] \in Record
      BY <1>0, RecordUpdates
    <3> QED
      BY <3>1, <3>2
  <2>2. Goto(c, "box-known") \/ Goto(c, "marker-known")
    BY <1>7 DEF PersistBox, Persist
  <2> QED
    BY <1>7, <2>1, <2>2 DEF PersistBox, Persist
<1>8. ASSUME AddWorktree(c) PROVE CallsOK' /\ LockOK'
  BY <1>8 DEF AddWorktree
<1>9. ASSUME PersistWorktree(c) PROVE CallsOK' /\ LockOK'
  <2>1. disk' \in [Calls -> Record]
    BY <1>0, <1>9, RecordUpdates DEF PersistWorktree, Write
  <2> QED
    BY <1>9, <2>1 DEF PersistWorktree
<1>10. ASSUME CreateConfinement(c) PROVE CallsOK' /\ LockOK'
  BY <1>10 DEF CreateConfinement, Resources
<1>11. ASSUME PersistConfinement(c) PROVE CallsOK' /\ LockOK'
  <2>1. disk' \in [Calls -> Record]
    BY <1>0, <1>11, RecordUpdates DEF PersistConfinement, Persist, Write
  <2> QED
    BY <1>11, <2>1 DEF PersistConfinement
<1>12. ASSUME SetupFails(c) PROVE CallsOK' /\ LockOK'
  BY <1>12 DEF SetupFails, LeaveSection
<1>13. ASSUME DiscardWorkspace(c) PROVE CallsOK' /\ LockOK'
  <2>1. CASE tree[c] # 0
    <3>1. tree' = [tree EXCEPT ![c] = 0] /\ pc' = pc /\ box' = box
      BY <1>13, <2>1 DEF DiscardWorkspace, Emptied, Box
    <3> QED
      BY <1>13, <3>1 DEF DiscardWorkspace, Emptied, Box
  <2>2. CASE tree[c] = 0
    BY <1>13, <2>2 DEF DiscardWorkspace, Emptied, Emptier, WithMarker, Box
  <2> QED
    BY <2>1, <2>2
<1>14. ASSUME DropLease(c) PROVE CallsOK' /\ LockOK'
  BY <1>14 DEF DropLease, RenameLease
<1>15. ASSUME RetireDropped(c) PROVE CallsOK' /\ LockOK'
  <2>1. CASE CutLease(c) /\ UNCHANGED <<lock, pc>>
    BY <1>15, <2>1 DEF RetireDropped, CutLease
  <2>2. CASE FinishLease(c) /\ lock' = Free /\ Goto(c, "refused")
    BY <1>15, <2>2 DEF RetireDropped, FinishLease
  <2> QED
    BY <1>15, <2>1, <2>2 DEF RetireDropped
<1>16. ASSUME DiscardFails(c) PROVE CallsOK' /\ LockOK'
  BY <1>16 DEF DiscardFails, LeaveSection
<1> QED
  BY <1>1, <1>2, <1>3, <1>4, <1>5, <1>6, <1>7, <1>8, <1>9, <1>10, <1>11, <1>12, <1>13,
     <1>14, <1>15, <1>16 DEF SetsUp

\* So does every step of an owner from the launch on.
LEMMA LaunchType ==
    ASSUME CallsOK, LockOK, NEW c \in Calls,
           Launches(c)
    PROVE  CallsOK' /\ LockOK'
<1> USE DEF CallsOK, LockOK, Turn, Goto, files_vars, Stages, Synchronous, LaunchStages,
            FinalStages
<1>0. disk[c] \in Record /\ noted[c] \in SUBSET Resources
  OBVIOUS
<1>1. ASSUME PrepareLaunch(c) PROVE CallsOK' /\ LockOK'
  <2>1. disk' \in [Calls -> Record]
    BY <1>0, <1>1 DEF PrepareLaunch, Persist, Write
  <2>2. Goto(c, "prepared") \/ Goto(c, "ended")
    BY <1>1 DEF PrepareLaunch
  <2> QED
    BY <1>1, <2>1, <2>2 DEF PrepareLaunch
<1>2. ASSUME SpawnGate(c) PROVE CallsOK' /\ LockOK'
  BY <1>2 DEF SpawnGate, Mind
<1>3. ASSUME NoteChildPid(c) PROVE CallsOK' /\ LockOK'
  <2>1. disk' \in [Calls -> Record]
    BY <1>0, <1>3, RecordUpdates DEF NoteChildPid, Persist, Write
  <2> QED
    BY <1>3, <2>1 DEF NoteChildPid
<1>4. ASSUME PublishPid(c) PROVE CallsOK' /\ LockOK'
  BY <1>4 DEF PublishPid, Resources
<1>5. ASSUME NoteLaunchReady(c) PROVE CallsOK' /\ LockOK'
  <2>1. noted' \in [Calls -> SUBSET Resources]
    BY <1>5 DEF NoteLaunchReady, Resources
  <2>2. disk' \in [Calls -> Record]
    BY <1>0, <1>5, <2>1, RecordUpdates DEF NoteLaunchReady, Persist, Write
  <2> QED
    BY <1>5, <2>1, <2>2 DEF NoteLaunchReady
<1>6. ASSUME LaunchFails(c) PROVE CallsOK' /\ LockOK'
  <2>1. noted' \in [Calls -> SUBSET Resources]
    BY <1>6 DEF LaunchFails, Resources
  <2>2. pc' \in [Calls -> Stages]
    BY <1>6 DEF LaunchFails
  <2>3. LockOK'
    BY <1>6 DEF LaunchFails, LeaveSection
  <2> QED
    BY <1>6, <2>1, <2>2, <2>3 DEF LaunchFails
<1>7. ASSUME ChildClosed(c) PROVE CallsOK' /\ LockOK'
  BY <1>7 DEF ChildClosed
<1> QED
  BY <1>1, <1>2, <1>3, <1>4, <1>5, <1>6, <1>7 DEF Launches

\* So does every step of it in finalization ...
LEMMA FinalType ==
    ASSUME CallsOK, LockOK, NEW c \in Calls,
           Finalizes(c)
    PROVE  CallsOK' /\ LockOK'
<1> USE CallsAssumption
    DEF CallsOK, LockOK, Turn, Goto, files_vars, Actors, Stages, Synchronous, FinalStages,
        Terminal
<1>0. disk[c] \in Record /\ noted[c] \in SUBSET Resources /\ OwnerOf[c] \in Processes
  OBVIOUS
<1>1. ASSUME OwnIndex(c) PROVE CallsOK' /\ LockOK'
  <2>1. disk' \in [Calls -> Record]
    <3>1. (child[c] # "none") \in BOOLEAN
      OBVIOUS
    <3> QED
      BY <1>0, <1>1, <3>1, RecordUpdates DEF OwnIndex, Persist, Write
  <2> QED
    BY <1>1, <2>1 DEF OwnIndex
<1>2. ASSUME StageSnapshot(c) \/ CompareTree(c) PROVE CallsOK' /\ LockOK'
  BY <1>2 DEF StageSnapshot, CompareTree, Stage
<1>3. ASSUME TakeSnapshot(c) PROVE CallsOK' /\ LockOK'
  BY <1>3 DEF TakeSnapshot
<1>4. ASSUME CreateRef(c) PROVE CallsOK' /\ LockOK'
  BY <1>4 DEF CreateRef
<1>5. ASSUME PersistVerified(c) PROVE CallsOK' /\ LockOK'
  <2>1. disk' \in [Calls -> Record]
    BY <1>0, <1>5, RecordUpdates DEF PersistVerified, Persist, Write
  <2> QED
    BY <1>5, <2>1 DEF PersistVerified
<1>6. ASSUME RemoveWorktree(c) PROVE CallsOK' /\ LockOK'
  BY <1>6 DEF RemoveWorktree
<1>7. ASSUME RecordRemoval(c) PROVE CallsOK' /\ LockOK'
  <2>1. disk' \in [Calls -> Record]
    BY <1>0, <1>7, RecordUpdates DEF RecordRemoval, Write
  <2> QED
    BY <1>7, <2>1 DEF RecordRemoval
<1>8. ASSUME RemoveContainer(c) PROVE CallsOK' /\ LockOK'
  BY <1>8 DEF RemoveContainer, Emptied, Emptier, WithMarker, Box
<1>9. ASSUME RemoveLease(c) PROVE CallsOK' /\ LockOK'
  <2>1. CASE RenameLease(c, OwnerOf[c]) /\ Goto(c, "renamed") /\ UNCHANGED lock
    BY <1>9, <2>1 DEF RemoveLease, RenameLease
  <2>2. CASE CutLease(c) /\ Goto(c, "cut") /\ UNCHANGED lock
    BY <1>9, <2>2 DEF RemoveLease, CutLease
  <2>3. CASE FinishLease(c) /\ Goto(c, "done") /\ lock' = Free
    BY <1>9, <2>3 DEF RemoveLease, FinishLease
  <2> QED
    BY <1>9, <2>1, <2>2, <2>3 DEF RemoveLease
<1>10. ASSUME FinalizationFails(c) PROVE CallsOK' /\ LockOK'
  <2>1. staged' \in [Calls -> BOOLEAN] /\ Goto(c, "failed")
    BY <1>10 DEF FinalizationFails, Stage
  <2>2. LockOK'
    BY <1>10 DEF FinalizationFails, LeaveSection
  <2> QED
    BY <1>10, <2>1, <2>2 DEF FinalizationFails
<1> QED
  BY <1>1, <1>2, <1>3, <1>4, <1>5, <1>6, <1>7, <1>8, <1>9, <1>10 DEF Finalizes

\* ... and every step of a child.
LEMMA ChildType ==
    ASSUME CallsOK, NEW c \in Calls, ChildStep(c)
    PROVE  CallsOK'
  BY DEF CallsOK, ChildStep, GateExec, GateExit, ChildEdit, ChildEnd, Mind, Alone, files_vars,
         owner_vars

\* The scans of recoveries are functions from calls to records.
ScansOK ==
    /\ ScanShape
    /\ \A r \in Recoveries : /\ DOMAIN scan[r] \subseteq Calls
                             /\ \A c \in DOMAIN scan[r] : scan[r][c] \in Record

\* What an assignment to the scan of one recovery does.
LEMMA ScanUpdate ==
    ASSUME ScansOK, NEW r \in Recoveries, NEW S \in SUBSET Calls, NEW f \in [S -> Record],
           scan' = [scan EXCEPT ![r] = f]
    PROVE  /\ ScansOK'
           /\ scan'[r] = f
           /\ \A q \in Recoveries \ {r} : scan'[q] = scan[q]
  BY DEF ScansOK, ScanShape

\* A job that ends is forgotten.
LEMMA DropUpdate ==
    ASSUME RecoveriesOK, ScansOK, NEW r \in Recoveries, NEW c, Drop(r, c)
    PROVE  /\ RecoveriesOK' /\ ScansOK'
           /\ rpc'[r] = "recovering"
           /\ DOMAIN scan'[r] = DOMAIN scan[r] \ {c}
           /\ \A e \in DOMAIN scan'[r] : scan'[r][e] = scan[r][e]
           /\ artifacts'[r] = artifacts[r] \ {c}
           /\ \A q \in Recoveries \ {r} : /\ rpc'[q] = rpc[q] /\ job'[q] = job[q]
                                          /\ scan'[q] = scan[q] /\ artifacts'[q] = artifacts[q]
<1> DEFINE S == DOMAIN scan[r] \ {c}
           f == [e \in S |-> scan[r][e]]
<1>1. S \in SUBSET Calls /\ f \in [S -> Record]
  BY DEF ScansOK
<1>2. scan' = [scan EXCEPT ![r] = f]
  <2>1. r \in DOMAIN scan
    BY DEF ScansOK, ScanShape
  <2> QED
    BY <2>1 DEF Drop, Restrict
<1> HIDE DEF f, S
<1>3. ScansOK' /\ scan'[r] = f /\ \A q \in Recoveries \ {r} : scan'[q] = scan[q]
  BY <1>1, <1>2, ScanUpdate
<1>4. DOMAIN f = S /\ \A e \in S : f[e] = scan[r][e]
  BY DEF f
<1>5. /\ rpc' \in [Recoveries -> RecoveryStages] /\ job' \in [Recoveries -> Calls \cup {Free}]
      /\ artifacts' \in [Recoveries -> SUBSET Calls]
      /\ rpc'[r] = "recovering" /\ artifacts'[r] = artifacts[r] \ {c}
      /\ \A q \in Recoveries \ {r} : /\ rpc'[q] = rpc[q] /\ job'[q] = job[q]
                                     /\ artifacts'[q] = artifacts[q]
  BY DEF Drop, Proceed, RecoveriesOK, RecoveryStages
<1>6. RecoveriesOK'
  BY <1>3, <1>5 DEF RecoveriesOK, ScansOK
<1> QED
  BY <1>3, <1>4, <1>5, <1>6 DEF S

\* A recovery writes a record that it knows.
LEMMA WriteUpdate ==
    ASSUME CallsOK, ScansOK, NEW r \in Recoveries, NEW c \in DOMAIN scan[r], NEW rec \in Record,
           WriteCopy(r, c, rec)
    PROVE  /\ ScansOK' /\ disk' \in [Calls -> Record]
           /\ lease[c] = "active" /\ disk[c] = scan[r][c]
           /\ disk'[c] = rec /\ \A e \in Calls \ {c} : disk'[e] = disk[e]
           /\ scan'[r][c] = rec /\ DOMAIN scan'[r] = DOMAIN scan[r]
           /\ \A e \in DOMAIN scan[r] \ {c} : scan'[r][e] = scan[r][e]
           /\ \A q \in Recoveries \ {r} : scan'[q] = scan[q]
<1> DEFINE f == [scan[r] EXCEPT ![c] = rec]
<1>1. /\ DOMAIN scan[r] \in SUBSET Calls /\ f \in [DOMAIN scan[r] -> Record]
      /\ f[c] = rec /\ \A e \in DOMAIN scan[r] \ {c} : f[e] = scan[r][e]
      /\ DOMAIN f = DOMAIN scan[r]
  BY DEF ScansOK, ScanShape
<1>2. scan' = [scan EXCEPT ![r] = f]
  <2>1. r \in DOMAIN scan
    BY DEF ScansOK, ScanShape
  <2> QED
    BY <2>1 DEF WriteCopy
<1> HIDE DEF f
<1>3. ScansOK' /\ scan'[r] = f /\ \A q \in Recoveries \ {r} : scan'[q] = scan[q]
  BY <1>1, <1>2, ScanUpdate
<1>4. c \in Calls
  BY DEF ScansOK
<1> QED
  BY <1>1, <1>3, <1>4 DEF WriteCopy, Unchanged, Write, CallsOK

\* The part of JobInv that types need: a recovery is at a lease that it has read.
JobKnown(r) ==
    /\ rpc[r] \in JobStages => job[r] \in Calls
    /\ rpc[r] \in JobStages \ {"cutting", "cut"} => job[r] \in DOMAIN scan[r]

\* Every step of a recovery keeps the state well typed.
LEMMA RecoveryType ==
    ASSUME CallsOK, RecoveriesOK, ScansOK, LockOK, NEW r \in Recoveries, JobKnown(r),
           RecoveryStep(r)
    PROVE  CallsOK' /\ RecoveriesOK' /\ ScansOK' /\ LockOK'
<1> DEFINE Typed == CallsOK /\ RecoveriesOK /\ ScansOK /\ LockOK
<1>1. r \in Actors
  BY DEF Actors
<1>2. ASSUME UNCHANGED <<files_vars, owner_vars, child>> PROVE CallsOK'
  BY <1>2 DEF CallsOK, files_vars, owner_vars
<1>3. ASSUME UNCHANGED <<scan, job, artifacts>>, NEW s \in RecoveryStages, Proceed(r, s)
      PROVE  RecoveriesOK' /\ ScansOK'
  BY <1>3 DEF RecoveriesOK, ScansOK, ScanShape, Proceed
<1>4. \A s \in {"idle", "inspected", "scanned", "recovering"} \cup JobStages : s \in RecoveryStages
  BY DEF RecoveryStages
<1>5. ASSUME InspectLock(r) PROVE Typed'
  <2>1. RecoveriesOK' /\ ScansOK'
    BY <1>3, <1>4, <1>5 DEF InspectLock
  <2> QED
    BY <1>2, <1>5, <2>1 DEF InspectLock, At, LockOK
<1>6. ASSUME Scan(r) PROVE Typed'
  <2> DEFINE S == {e \in Calls : NeedsRecovery(e)}
             f == [e \in S |-> disk[e]]
             A == {e \in Calls : lease[e] = "retired" /\ retiredBy[e] \notin alive}
  <2>1. S \in SUBSET Calls /\ f \in [S -> Record]
    BY DEF CallsOK
  <2>2. scan' = [scan EXCEPT ![r] = f] /\ artifacts' = [artifacts EXCEPT ![r] = A]
    BY <1>6 DEF Scan
  <2>3. A \in SUBSET Calls
    OBVIOUS
  <2> HIDE DEF S, f, A
  <2>4. ScansOK'
    BY <2>1, <2>2, ScanUpdate
  <2>5. rpc' \in [Recoveries -> RecoveryStages] /\ job' = job
    BY <1>6 DEF Scan, Proceed, RecoveriesOK, RecoveryStages
  <2>6. RecoveriesOK'
    BY <2>2, <2>3, <2>4, <2>5 DEF RecoveriesOK, ScansOK
  <2> QED
    BY <1>2, <1>6, <2>4, <2>6 DEF Scan, At, LockOK
<1>7. ASSUME ClaimLock(r) PROVE Typed'
  <2>1. CASE lock = Free /\ lock' = r /\ Proceed(r, "recovering") /\ UNCHANGED <<scan, artifacts>>
    <3>1. RecoveriesOK' /\ ScansOK'
      BY <1>3, <1>4, <1>7, <2>1 DEF ClaimLock
    <3> QED
      BY <1>1, <1>2, <1>7, <2>1, <3>1 DEF ClaimLock, At, LockOK
  <2>2. CASE /\ UNCHANGED lock /\ Proceed(r, "idle")
             /\ scan' = [scan EXCEPT ![r] = NoScan]
             /\ artifacts' = [artifacts EXCEPT ![r] = {}]
    <3>1. NoScan \in [{} -> Record] /\ {} \in SUBSET Calls
      BY DEF NoScan
    <3>2. ScansOK'
      BY <2>2, <3>1, ScanUpdate
    <3>3. rpc' \in [Recoveries -> RecoveryStages] /\ job' = job
      BY <1>7, <2>2 DEF ClaimLock, Proceed, RecoveriesOK, RecoveryStages
    <3>4. RecoveriesOK'
      BY <2>2, <3>2, <3>3 DEF RecoveriesOK, ScansOK
    <3> QED
      BY <1>2, <1>7, <2>2, <3>2, <3>4 DEF ClaimLock, At, LockOK
  <2> QED
    BY <1>7, <2>1, <2>2 DEF ClaimLock
<1>8. ASSUME FinishRecovery(r) PROVE Typed'
  <2>1. RecoveriesOK' /\ ScansOK'
    BY <1>3, <1>4, <1>8 DEF FinishRecovery
  <2> QED
    BY <1>2, <1>8, <2>1 DEF FinishRecovery, At, LockOK
<1>9. ASSUME NEW c \in Calls, TakeArtifact(r, c) PROVE Typed'
  <2>1. /\ rpc' \in [Recoveries -> RecoveryStages] /\ job' \in [Recoveries -> Calls \cup {Free}]
        /\ UNCHANGED <<scan, artifacts>>
    BY <1>9 DEF TakeArtifact, Proceed, RecoveriesOK, RecoveryStages, JobStages
  <2>2. RecoveriesOK' /\ ScansOK'
    BY <2>1 DEF RecoveriesOK, ScansOK, ScanShape
  <2> QED
    BY <1>2, <1>9, <2>2 DEF TakeArtifact, At, LockOK
<1>10. ASSUME NEW c \in Calls, TakeLease(r, c) PROVE Typed'
  <2>1. UNCHANGED <<lock, files_vars, owner_vars, child>>
    BY <1>10 DEF TakeLease, At
  <2>2. \/ Drop(r, c)
        \/ /\ \E s \in JobStages : Proceed(r, s)
           /\ job' = [job EXCEPT ![r] = c] /\ UNCHANGED <<scan, artifacts>>
    BY <1>10 DEF TakeLease, ReservedPlan, WorkPlan, JobStages
  <2>3. RecoveriesOK' /\ ScansOK'
    <3>1. CASE Drop(r, c)
      BY <3>1, DropUpdate
    <3>2. CASE /\ \E s \in JobStages : Proceed(r, s)
               /\ job' = [job EXCEPT ![r] = c] /\ UNCHANGED <<scan, artifacts>>
      <4>1. PICK s \in JobStages : Proceed(r, s)
        BY <3>2
      <4>2. rpc' \in [Recoveries -> RecoveryStages] /\ job' \in [Recoveries -> Calls \cup {Free}]
        BY <1>4, <3>2, <4>1 DEF Proceed, RecoveriesOK
      <4> QED
        BY <3>2, <4>2 DEF RecoveriesOK, ScansOK, ScanShape
    <3> QED
      BY <2>2, <3>1, <3>2
  <2> QED
    BY <1>2, <2>1, <2>3 DEF LockOK
<1>11. ASSUME NEW c \in DOMAIN scan[r], NEW rec \in Record, WriteCopy(r, c, rec), LockOK,
              UNCHANGED <<lock, lease, files, box, tree, staged, ref, retiredBy, owner_vars, child>>,
              NEW s \in RecoveryStages, Proceed(r, s)
      PROVE  Typed'
  <2>1. ScansOK' /\ disk' \in [Calls -> Record]
    BY <1>11, WriteUpdate
  <2>2. job' = job /\ artifacts' = artifacts /\ rpc' \in [Recoveries -> RecoveryStages]
    BY <1>11 DEF WriteCopy, Proceed, RecoveriesOK
  <2>3. RecoveriesOK'
    BY <2>1, <2>2 DEF RecoveriesOK, ScansOK
  <2>4. CallsOK'
    BY <1>11, <2>1 DEF CallsOK, owner_vars
  <2> QED
    BY <1>11, <2>1, <2>3, <2>4 DEF LockOK
<1>12. ASSUME MarkIndex(r) PROVE Typed'
  <2>1. job[r] \in DOMAIN scan[r] /\ scan[r][job[r]] \in Record
    BY <1>12 DEF MarkIndex, At, JobKnown, JobStages, ScansOK
  <2>2. [scan[r][job[r]] EXCEPT !.indexOwned = TRUE] \in Record
    BY <2>1, RecordUpdates
  <2>3. Proceed(r, rpc[r]) /\ rpc[r] \in RecoveryStages
    BY <1>12 DEF MarkIndex, Proceed, RecoveriesOK
  <2> QED
    BY <1>11, <1>12, <2>1, <2>2, <2>3 DEF MarkIndex, At
<1>13. ASSUME Salvage(r) PROVE Typed'
  <2>1. RecoveriesOK' /\ ScansOK'
    BY <1>3, <1>4, <1>13 DEF Salvage, JobStages
  <2>2. ref' \in [Calls -> Nat] /\ staged' \in [Calls -> BOOLEAN]
    BY <1>13 DEF Salvage, Stage, CallsOK, At, JobKnown, JobStages
  <2> QED
    BY <1>13, <2>1, <2>2 DEF Salvage, At, LockOK, CallsOK, owner_vars
<1>14. ASSUME RecordRef(r) \/ RecordRecovered(r) PROVE Typed'
  <2>1. job[r] \in DOMAIN scan[r] /\ scan[r][job[r]] \in Record
    BY <1>14 DEF RecordRef, RecordRecovered, At, JobKnown, JobStages, ScansOK
  <2>2. \A s \in {"ref-verified", "worktree-removed"} :
          [scan[r][job[r]] EXCEPT !.state = s] \in Record
    BY <2>1, RecordUpdates
  <2>3. "comparing" \in RecoveryStages /\ "emptying" \in RecoveryStages
    BY DEF RecoveryStages, JobStages
  <2> QED
    BY <1>11, <1>14, <2>1, <2>2, <2>3 DEF RecordRef, RecordRecovered, At
<1>15. ASSUME RecoverWorktree(r) PROVE Typed'
  <2>1. RecoveriesOK' /\ ScansOK'
    BY <1>3, <1>4, <1>15 DEF RecoverWorktree, JobStages
  <2> QED
    BY <1>15, <2>1 DEF RecoverWorktree, At, LockOK, CallsOK, owner_vars
<1>16. ASSUME EmptyBox(r) PROVE Typed'
  <2>1. Proceed(r, "emptying") \/ Proceed(r, "retiring")
    BY <1>16 DEF EmptyBox
  <2>2. RecoveriesOK' /\ ScansOK'
    BY <1>3, <1>4, <1>16, <2>1 DEF EmptyBox, JobStages
  <2> QED
    BY <1>16, <2>2 DEF EmptyBox, At, LockOK, CallsOK, owner_vars, Emptier, WithMarker, Box
<1>17. ASSUME RetireLease(r) PROVE Typed'
  <2>1. CASE RenameLease(job[r], r) /\ Proceed(r, "cutting") /\ UNCHANGED <<job, scan, artifacts>>
    <3>1. RecoveriesOK' /\ ScansOK'
      BY <1>3, <1>4, <2>1 DEF JobStages
    <3> QED
      BY <1>1, <1>17, <2>1, <3>1 DEF RetireLease, RenameLease, At, LockOK, CallsOK, owner_vars
  <2>2. CASE CutLease(job[r]) /\ Proceed(r, "cut") /\ UNCHANGED <<job, scan, artifacts>>
    <3>1. RecoveriesOK' /\ ScansOK'
      BY <1>3, <1>4, <2>2 DEF JobStages
    <3> QED
      BY <1>17, <2>2, <3>1 DEF RetireLease, CutLease, At, LockOK, CallsOK, owner_vars
  <2>3. CASE FinishLease(job[r]) /\ Drop(r, job[r])
    <3>1. RecoveriesOK' /\ ScansOK'
      BY <2>3, DropUpdate
    <3> QED
      BY <1>17, <2>3, <3>1 DEF RetireLease, FinishLease, At, LockOK, CallsOK, owner_vars
  <2> QED
    BY <1>17, <2>1, <2>2, <2>3 DEF RetireLease
<1>18. ASSUME PreserveLease(r) PROVE Typed'
  <2>1. RecoveriesOK' /\ ScansOK'
    BY <1>18, DropUpdate DEF PreserveLease
  <2> QED
    BY <1>2, <1>18, <2>1 DEF PreserveLease, At, LockOK
<1> QED
  BY <1>5, <1>6, <1>7, <1>8, <1>9, <1>10, <1>12, <1>13, <1>14, <1>15, <1>16, <1>17, <1>18
     DEF RecoveryStep

----------------------------------------------------------------------------
(* The invariant.                                                           *)

\* Sections of the lock that last for more than one step.
HoldingStages == {"admitted", "reserving", "adding", "dropped", "removing", "removed",
                  "emptied", "renamed", "cut"}
HoldingRecovery == {"recovering"} \cup JobStages

LockInv ==
    /\ \A c \in Calls : pc[c] \in HoldingStages => lock = OwnerOf[c]
    /\ \A r \in Recoveries : rpc[r] \in HoldingRecovery => lock = r

\* A process is at one call at a time, and the dead do nothing.
ProcessInv ==
    /\ \A c, e \in Calls : /\ OwnerOf[c] = OwnerOf[e]
                           /\ pc[c] \in Synchronous /\ pc[e] \in Synchronous
                           => c = e
    /\ \A c \in Calls : OwnerOf[c] \notin alive => pc[c] \in Terminal
    /\ \A c \in Calls : pc[c] = "dead" => OwnerOf[c] \notin alive
    /\ \A r \in Recoveries : r \notin alive => rpc[r] = "dead"

\* A child works, or its gate may still let it.
Engaged(c) == child[c] = "working" \/ (child[c] = "gate" /\ "pid" \in files[c])

\* The worktree as it was made, with a child's edits.
Ready(c) ==
    /\ lease[c] = "active" /\ box[c] = "marked" /\ tree[c] # 0 /\ ref[c] = 0
    /\ disk[c].state = "worktree-ready" /\ disk[c].ident = "worktree"
Intact(c) == Ready(c) /\ ~staged[c]

Salvageable(c) ==
    /\ disk[c].state # "reserved"
    /\ tree[c] # 0 =>
         /\ box[c] = "marked" /\ disk[c].ident = "worktree" /\ ref[c] \in {0, tree[c]}
         /\ staged[c] => disk[c].indexOwned
    /\ tree[c] = 0 => ref[c] # 0 /\ BoxKnown(c, disk[c])

Left == {"retired", "cut", "gone"}

\* What holds of a lease and its workspace wherever the owner is, or was killed.
LeaseInv(c) ==
    /\ lease[c] \in {"none", "partial"} => ref[c] = 0 /\ child[c] = "none" /\ ~staged[c]
    /\ tree[c] # 0 \/ box[c] # "none" => lease[c] = "active"
    /\ box[c] # "none" => disk[c].located
    /\ child[c] = "working" => "pid" \in files[c]
    /\ Engaged(c) => Intact(c)
    /\ lease[c] = "active" /\ child[c] \in {"gate", "over"} => Salvageable(c)
    /\ lease[c] \in Left => retiredBy[c] = OwnerOf[c] \/ OwnerOf[c] \notin alive

\* What the owner of a call has made of it while it is in setup ...
SetupInv(c) ==
    /\ pc[c] \in {"idle", "discovered", "admitted"} => lease[c] = "none"
    /\ pc[c] = "reserving" => lease[c] = "partial"
    /\ pc[c] \in SetupStages =>
         /\ lease[c] = "active" /\ child[c] = "none" /\ ref[c] = 0 /\ ~staged[c]
         /\ tree[c] = IF pc[c] \in {"adding", "added", "confining"} THEN 1 ELSE 0
         /\ box[c] = CASE pc[c] \in {"reserved", "recorded"} -> "none"
                       [] pc[c] = "boxed" -> "bare"
                       [] pc[c] = "box-known" -> box[c]
                       [] OTHER -> "marked"
         /\ pc[c] = "box-known" => box[c] \in {"bare"} \cup Unfinished
         /\ pc[c] # "reserved" => disk[c].located
         /\ pc[c] \in {"added", "confining"} => Intact(c)
    /\ pc[c] = "discarding" =>
         lease[c] = "active" /\ child[c] = "none" /\ ref[c] = 0 /\ tree[c] \in {0, 1}
    /\ pc[c] = "dropping" => lease[c] = "active" /\ child[c] = "none"
                              /\ box[c] = "none" /\ tree[c] = 0
    /\ pc[c] = "dropped" => lease[c] \in {"retired", "cut"} /\ child[c] = "none"

\* ... has a child ...
LaunchInv(c) ==
    /\ pc[c] \in {"ready", "prepared"} => child[c] = "none" /\ Intact(c)
    /\ pc[c] \in {"spawned", "registered", "published", "running", "killing"} =>
         child[c] # "none" /\ Intact(c)

\* ... and finalizes the attempt.
FinalInv(c) ==
    /\ pc[c] \in FinalStages => child[c] \in {"none", "over"}
    /\ pc[c] \in {"ended", "indexed"} => Intact(c)
    /\ pc[c] \in FinalStages \ {"ended", "renamed", "cut"} => disk[c].indexOwned
    /\ pc[c] \in {"staging", "snapshotted"} => Ready(c)
    /\ pc[c] = "snapshotted" => snap[c] = tree[c] /\ ~staged[c]
    /\ pc[c] \in {"referenced", "verified", "compared"} =>
         /\ lease[c] = "active" /\ box[c] = "marked" /\ disk[c].ident = "worktree"
         /\ tree[c] # 0 /\ ref[c] = tree[c] /\ snap[c] = tree[c]
         /\ disk[c].state # "reserved"
         /\ pc[c] # "compared" => ~staged[c]
    /\ pc[c] \in {"removing", "removed", "emptied"} =>
         /\ lease[c] = "active" /\ tree[c] = 0 /\ ref[c] # 0
         /\ disk[c].state # "reserved" /\ disk[c].ident = "worktree"
         /\ pc[c] = "emptied" => box[c] = "none"
    /\ pc[c] = "renamed" => lease[c] = "retired"
    /\ pc[c] = "cut" => lease[c] = "cut"

\* No one writes to the workspace any more, and no one begins to.
Quiet(c) == OwnerOf[c] \notin alive /\ ~Engaged(c)

\* A stale record that a recovery has read may be old, but not in this.
CopyInv(r, c) ==
    /\ Quiet(c)
    /\ scan[r][c].ident = disk[c].ident /\ scan[r][c].located = disk[c].located
    /\ scan[r][c].state = "reserved" <=> disk[c].state = "reserved"
    /\ scan[r][c].indexOwned => disk[c].indexOwned

ScanInv ==
    /\ ScanShape
    /\ \A r \in Recoveries : \A c \in DOMAIN scan[r] : CopyInv(r, c)
    /\ \A r \in Recoveries : \A c \in artifacts[r] : Quiet(c) /\ lease[c] \in Left

\* What a recovery has made of the lease it works on.
JobInv(r) ==
    LET c == job[r] IN
    /\ rpc[r] \in JobStages => c \in DOMAIN scan[r] \cup artifacts[r]
    /\ rpc[r] \in JobStages \ {"cutting", "cut"} => c \in DOMAIN scan[r]
    /\ rpc[r] \in {"salvaging", "referenced", "comparing", "removed"} =>
         scan[r][c].state # "reserved"
    /\ rpc[r] \in {"salvaging", "referenced", "comparing"} =>
         tree[c] # 0 /\ box[c] = "marked"
    /\ rpc[r] = "salvaging" => ref[c] = 0
    /\ rpc[r] \in {"referenced", "comparing", "removed"} => ref[c] # 0
    /\ rpc[r] = "referenced" => ref[c] = tree[c]
    /\ rpc[r] \in {"removed", "emptying", "retiring"} => tree[c] = 0
    /\ rpc[r] = "retiring" => box[c] = "none"
    /\ rpc[r] \in {"cutting", "cut"} => lease[c] \in Left

\* Leases side by side are compatible, and the one that is about to be made is.
ReservedCalls == {c \in Calls : Reserved(c)}
AdmissionInv ==
    /\ \A c, e \in Calls : c # e /\ Reserved(c) /\ Reserved(e) =>
         baseline[c] = baseline[e] /\ <<c, e>> \notin Overlaps
    /\ IsFiniteSet(ReservedCalls)
    /\ Cardinality(ReservedCalls) <= MaxParallelImplementers
    /\ \A c \in Calls : pc[c] = "admitted" => Admissible(c)

CallInv(c) == LeaseInv(c) /\ SetupInv(c) /\ LaunchInv(c) /\ FinalInv(c)

IInv ==
    /\ TypeOK /\ LockInv /\ ProcessInv /\ ScanInv /\ AdmissionInv
    /\ \A c \in Calls : CallInv(c)
    /\ \A r \in Recoveries : JobInv(r)

----------------------------------------------------------------------------
(* Owners and their children keep the invariant.                            *)

\* Each step of an owner in setup makes of its call what SetupInv says.
LEMMA SetupCall ==
    ASSUME CallsOK, CallsOK', NEW c \in Calls, CallInv(c),
           SetsUp(c)
    PROVE  CallInv(c)'
<1> USE DEF CallInv, LeaseInv, SetupInv, LaunchInv, FinalInv, Turn, Goto, CallsOK, Record,
            files_vars, recovery_vars, SetupStages, LaunchStages, FinalStages, Intact, Ready,
            Engaged, Salvageable, BoxKnown, WithMarker, Unfinished, Left
<1>1. ASSUME Discover(c) PROVE CallInv(c)'
  BY <1>1 DEF Discover
<1>2. ASSUME Reserve(c) PROVE CallInv(c)'
  BY <1>2 DEF Reserve
<1>3. ASSUME CreateLease(c) PROVE CallInv(c)'
  BY <1>3 DEF CreateLease
<1>4. ASSUME CompleteLease(c) PROVE CallInv(c)'
  BY <1>4 DEF CompleteLease
<1>5. ASSUME ReserveFails(c) PROVE CallInv(c)'
  BY <1>5 DEF ReserveFails, LeaveSection
<1>6. ASSUME RecordPaths(c) PROVE CallInv(c)'
  BY <1>6 DEF RecordPaths, Write
<1>7. ASSUME MakeBox(c) \/ MarkBox(c) \/ MarkerFails(c) PROVE CallInv(c)'
  BY <1>7 DEF MakeBox, MarkBox, MarkerFails, Box
<1>8. ASSUME PersistBox(c) PROVE CallInv(c)'
  BY <1>8 DEF PersistBox, Persist, Write
<1>9. ASSUME AddWorktree(c) PROVE CallInv(c)'
  BY <1>9 DEF AddWorktree
<1>10. ASSUME PersistWorktree(c) PROVE CallInv(c)'
  BY <1>10 DEF PersistWorktree, Write
<1>11. ASSUME CreateConfinement(c) PROVE CallInv(c)'
  BY <1>11 DEF CreateConfinement
<1>12. ASSUME PersistConfinement(c) PROVE CallInv(c)'
  BY <1>12 DEF PersistConfinement, Persist, Write
<1>13. ASSUME SetupFails(c) PROVE CallInv(c)'
  BY <1>13 DEF SetupFails
<1>14. ASSUME DiscardWorkspace(c) PROVE CallInv(c)'
  BY <1>14 DEF DiscardWorkspace, Emptied, Emptier, WithMarker, Box
<1>15. ASSUME DropLease(c) PROVE CallInv(c)'
  BY <1>15 DEF DropLease, RenameLease
<1>16. ASSUME RetireDropped(c) PROVE CallInv(c)'
  BY <1>16 DEF RetireDropped, CutLease, FinishLease
<1>17. ASSUME DiscardFails(c) PROVE CallInv(c)'
  BY <1>17 DEF DiscardFails
<1> QED
  BY <1>1, <1>2, <1>3, <1>4, <1>5, <1>6, <1>7, <1>8, <1>9, <1>10, <1>11, <1>12, <1>13,
     <1>14, <1>15, <1>16, <1>17 DEF SetsUp

\* So does each step of a launch with LaunchInv ...
LEMMA LaunchCall ==
    ASSUME CallsOK, CallsOK', NEW c \in Calls, CallInv(c),
           Launches(c)
    PROVE  CallInv(c)'
<1> USE DEF CallInv, LeaseInv, SetupInv, LaunchInv, FinalInv, Turn, Goto, CallsOK, Record,
            files_vars, recovery_vars, SetupStages, LaunchStages, FinalStages, Intact, Ready,
            Engaged, Salvageable, BoxKnown, WithMarker, Unfinished, Left
<1>1. ASSUME PrepareLaunch(c) PROVE CallInv(c)'
  BY <1>1 DEF PrepareLaunch, Persist, Write
<1>2. ASSUME SpawnGate(c) PROVE CallInv(c)'
  BY <1>2 DEF SpawnGate, Mind
<1>3. ASSUME NoteChildPid(c) PROVE CallInv(c)'
  BY <1>3 DEF NoteChildPid, Persist, Write
<1>4. ASSUME PublishPid(c) PROVE CallInv(c)'
  BY <1>4 DEF PublishPid
<1>5. ASSUME NoteLaunchReady(c) PROVE CallInv(c)'
  BY <1>5 DEF NoteLaunchReady, Persist, Write
<1>6. ASSUME LaunchFails(c) PROVE CallInv(c)'
  BY <1>6 DEF LaunchFails
<1>7. ASSUME ChildClosed(c) PROVE CallInv(c)'
  BY <1>7 DEF ChildClosed
<1> QED
  BY <1>1, <1>2, <1>3, <1>4, <1>5, <1>6, <1>7 DEF Launches

\* ... and each of finalization with FinalInv.
LEMMA FinalCall ==
    ASSUME CallsOK, CallsOK', NEW c \in Calls, CallInv(c),
           Finalizes(c)
    PROVE  CallInv(c)'
<1> USE DEF CallInv, LeaseInv, SetupInv, LaunchInv, FinalInv, Turn, Goto, CallsOK, Record,
            files_vars, recovery_vars, SetupStages, LaunchStages, FinalStages, Intact, Ready,
            Engaged, Salvageable, BoxKnown, WithMarker, Unfinished, Left
<1>1. ASSUME OwnIndex(c) PROVE CallInv(c)'
  BY <1>1 DEF OwnIndex, Persist, Write
<1>2. ASSUME StageSnapshot(c) PROVE CallInv(c)'
  BY <1>2 DEF StageSnapshot, Stage
<1>3. ASSUME TakeSnapshot(c) PROVE CallInv(c)'
  BY <1>3 DEF TakeSnapshot
<1>4. ASSUME CreateRef(c) PROVE CallInv(c)'
  BY <1>4 DEF CreateRef
<1>5. ASSUME PersistVerified(c) PROVE CallInv(c)'
  BY <1>5 DEF PersistVerified, Persist, Write
<1>6. ASSUME CompareTree(c) PROVE CallInv(c)'
  BY <1>6 DEF CompareTree, Stage
<1>7. ASSUME RemoveWorktree(c) PROVE CallInv(c)'
  BY <1>7 DEF RemoveWorktree
<1>8. ASSUME RecordRemoval(c) PROVE CallInv(c)'
  BY <1>8 DEF RecordRemoval, Write
<1>9. ASSUME RemoveContainer(c) PROVE CallInv(c)'
  BY <1>9 DEF RemoveContainer, Emptied, Emptier, WithMarker, Box
<1>10. ASSUME RemoveLease(c) PROVE CallInv(c)'
  BY <1>10 DEF RemoveLease, RenameLease, CutLease, FinishLease
<1>11. ASSUME FinalizationFails(c) PROVE CallInv(c)'
  BY <1>11 DEF FinalizationFails, Stage
<1> QED
  BY <1>1, <1>2, <1>3, <1>4, <1>5, <1>6, <1>7, <1>8, <1>9, <1>10, <1>11 DEF Finalizes
\* A step that leaves a call as it is.
Untouched(c) ==
    /\ pc'[c] = pc[c] /\ baseline'[c] = baseline[c] /\ noted'[c] = noted[c]
    /\ snap'[c] = snap[c] /\ child'[c] = child[c] /\ lease'[c] = lease[c]
    /\ disk'[c] = disk[c] /\ files'[c] = files[c] /\ box'[c] = box[c]
    /\ tree'[c] = tree[c] /\ staged'[c] = staged[c] /\ ref'[c] = ref[c]
    /\ retiredBy'[c] = retiredBy[c]

\* An owner, or a child, touches no other call.
LEMMA OwnerUntouched ==
    ASSUME CallsOK, NEW c \in Calls, OwnerStep(c) \/ ChildStep(c), NEW d \in Calls \ {c}
    PROVE  Untouched(d)
<1> USE DEF CallsOK, Untouched, Goto, files_vars
<1>1. ASSUME Discover(c) PROVE Untouched(d)
  BY <1>1 DEF Discover
<1>2. ASSUME Reserve(c) PROVE Untouched(d)
  BY <1>2 DEF Reserve
<1>3. ASSUME CreateLease(c) PROVE Untouched(d)
  BY <1>3 DEF CreateLease
<1>4. ASSUME CompleteLease(c) PROVE Untouched(d)
  BY <1>4 DEF CompleteLease
<1>5. ASSUME ReserveFails(c) PROVE Untouched(d)
  BY <1>5 DEF ReserveFails
<1>6. ASSUME RecordPaths(c) PROVE Untouched(d)
  BY <1>6 DEF RecordPaths, Write
<1>7. ASSUME MakeBox(c) \/ MarkBox(c) \/ MarkerFails(c) PROVE Untouched(d)
  BY <1>7 DEF MakeBox, MarkBox, MarkerFails, Box
<1>8. ASSUME PersistBox(c) PROVE Untouched(d)
  BY <1>8 DEF PersistBox, Persist, Write
<1>9. ASSUME AddWorktree(c) PROVE Untouched(d)
  BY <1>9 DEF AddWorktree
<1>10. ASSUME PersistWorktree(c) PROVE Untouched(d)
  BY <1>10 DEF PersistWorktree, Write
<1>11. ASSUME CreateConfinement(c) PROVE Untouched(d)
  BY <1>11 DEF CreateConfinement
<1>12. ASSUME PersistConfinement(c) PROVE Untouched(d)
  BY <1>12 DEF PersistConfinement, Persist, Write
<1>13. ASSUME SetupFails(c) PROVE Untouched(d)
  BY <1>13 DEF SetupFails
<1>14. ASSUME DiscardWorkspace(c) PROVE Untouched(d)
  BY <1>14 DEF DiscardWorkspace, Emptied, Box
<1>15. ASSUME DropLease(c) PROVE Untouched(d)
  BY <1>15 DEF DropLease, RenameLease
<1>16. ASSUME RetireDropped(c) PROVE Untouched(d)
  BY <1>16 DEF RetireDropped, CutLease, FinishLease
<1>17. ASSUME DiscardFails(c) PROVE Untouched(d)
  BY <1>17 DEF DiscardFails
<1>18. ASSUME PrepareLaunch(c) PROVE Untouched(d)
  BY <1>18 DEF PrepareLaunch, Persist, Write
<1>19. ASSUME SpawnGate(c) PROVE Untouched(d)
  BY <1>19 DEF SpawnGate, Mind
<1>20. ASSUME NoteChildPid(c) PROVE Untouched(d)
  BY <1>20 DEF NoteChildPid, Persist, Write
<1>21. ASSUME PublishPid(c) PROVE Untouched(d)
  BY <1>21 DEF PublishPid
<1>22. ASSUME NoteLaunchReady(c) PROVE Untouched(d)
  BY <1>22 DEF NoteLaunchReady, Persist, Write
<1>23. ASSUME LaunchFails(c) PROVE Untouched(d)
  BY <1>23 DEF LaunchFails
<1>24. ASSUME ChildClosed(c) PROVE Untouched(d)
  BY <1>24 DEF ChildClosed
<1>25. ASSUME OwnIndex(c) PROVE Untouched(d)
  BY <1>25 DEF OwnIndex, Persist, Write
<1>26. ASSUME StageSnapshot(c) PROVE Untouched(d)
  BY <1>26 DEF StageSnapshot, Stage
<1>27. ASSUME TakeSnapshot(c) PROVE Untouched(d)
  BY <1>27 DEF TakeSnapshot
<1>28. ASSUME CreateRef(c) PROVE Untouched(d)
  BY <1>28 DEF CreateRef
<1>29. ASSUME PersistVerified(c) PROVE Untouched(d)
  BY <1>29 DEF PersistVerified, Persist, Write
<1>30. ASSUME CompareTree(c) PROVE Untouched(d)
  BY <1>30 DEF CompareTree, Stage
<1>31. ASSUME RemoveWorktree(c) PROVE Untouched(d)
  BY <1>31 DEF RemoveWorktree
<1>32. ASSUME RecordRemoval(c) PROVE Untouched(d)
  BY <1>32 DEF RecordRemoval, Write
<1>33. ASSUME RemoveContainer(c) PROVE Untouched(d)
  BY <1>33 DEF RemoveContainer, Emptied, Box
<1>34. ASSUME RemoveLease(c) PROVE Untouched(d)
  BY <1>34 DEF RemoveLease, RenameLease, CutLease, FinishLease
<1>35. ASSUME FinalizationFails(c) PROVE Untouched(d)
  BY <1>35 DEF FinalizationFails, Stage
<1>36. ASSUME ChildStep(c) PROVE Untouched(d)
  BY <1>36 DEF ChildStep, GateExec, GateExit, ChildEdit, ChildEnd, Mind, Alone, owner_vars
<1> QED
  BY <1>1, <1>2, <1>3, <1>4, <1>5, <1>6, <1>7, <1>8, <1>9, <1>10, <1>11, <1>12, <1>13, <1>14,
     <1>15, <1>16, <1>17, <1>18, <1>19, <1>20, <1>21, <1>22, <1>23, <1>24, <1>25, <1>26, <1>27,
     <1>28, <1>29, <1>30, <1>31, <1>32, <1>33, <1>34, <1>35, <1>36 DEF OwnerStep

\* What holds of a call depends on nothing but the call and the life of its owner.
LEMMA UntouchedCall ==
    ASSUME NEW d \in Calls, CallInv(d), Untouched(d),
           (OwnerOf[d] \in alive)' <=> OwnerOf[d] \in alive
    PROVE  CallInv(d)'
  BY DEF CallInv, LeaseInv, SetupInv, LaunchInv, FinalInv, Untouched, Intact, Ready, Engaged,
         Salvageable, BoxKnown, WithMarker, Unfinished

\* An owner acts in its turn, and takes and leaves no lock but its own.
LEMMA OwnerTurn ==
    ASSUME CallsOK, LockInv, NEW c \in Calls, OwnerStep(c)
    PROVE  /\ lock' = lock \/ lock = Free \/ lock = OwnerOf[c]
           /\ pc'[c] \in HoldingStages => lock' = OwnerOf[c]
           /\ pc[c] \notin Terminal /\ pc'[c] # "dead" /\ OwnerOf[c] \in alive
           /\ \A d \in Calls \ {c} : OwnerOf[d] = OwnerOf[c] => pc[d] \notin Synchronous
<1> DEFINE Good == /\ lock' = lock \/ lock = Free \/ lock = OwnerOf[c]
                   /\ pc'[c] \in HoldingStages => lock' = OwnerOf[c]
                   /\ pc[c] \notin Terminal /\ pc'[c] # "dead" /\ OwnerOf[c] \in alive
                   /\ \A d \in Calls \ {c} : OwnerOf[d] = OwnerOf[c] => pc[d] \notin Synchronous
<1> USE DEF CallsOK, LockInv, Turn, Goto, LeaveSection, HoldingStages, Terminal, SetupStages,
            LaunchStages, FinalStages
<1>1. ASSUME Discover(c) PROVE Good
  BY <1>1 DEF Discover
<1>2. ASSUME Reserve(c) PROVE Good
  BY <1>2 DEF Reserve
<1>3. ASSUME CreateLease(c) PROVE Good
  BY <1>3 DEF CreateLease
<1>4. ASSUME CompleteLease(c) PROVE Good
  BY <1>4 DEF CompleteLease
<1>5. ASSUME ReserveFails(c) PROVE Good
  BY <1>5 DEF ReserveFails
<1>6. ASSUME RecordPaths(c) PROVE Good
  BY <1>6 DEF RecordPaths
<1>7. ASSUME MakeBox(c) \/ MarkBox(c) \/ MarkerFails(c) PROVE Good
  BY <1>7 DEF MakeBox, MarkBox, MarkerFails, Box
<1>8. ASSUME PersistBox(c) PROVE Good
  BY <1>8 DEF PersistBox
<1>9. ASSUME AddWorktree(c) PROVE Good
  BY <1>9 DEF AddWorktree
<1>10. ASSUME PersistWorktree(c) PROVE Good
  BY <1>10 DEF PersistWorktree
<1>11. ASSUME CreateConfinement(c) PROVE Good
  BY <1>11 DEF CreateConfinement
<1>12. ASSUME PersistConfinement(c) PROVE Good
  BY <1>12 DEF PersistConfinement
<1>13. ASSUME SetupFails(c) PROVE Good
  BY <1>13 DEF SetupFails
<1>14. ASSUME DiscardWorkspace(c) PROVE Good
  BY <1>14 DEF DiscardWorkspace, Emptied, Box
<1>15. ASSUME DropLease(c) PROVE Good
  BY <1>15 DEF DropLease
<1>16. ASSUME RetireDropped(c) PROVE Good
  BY <1>16 DEF RetireDropped
<1>17. ASSUME DiscardFails(c) PROVE Good
  BY <1>17 DEF DiscardFails
<1>18. ASSUME PrepareLaunch(c) PROVE Good
  BY <1>18 DEF PrepareLaunch
<1>19. ASSUME SpawnGate(c) PROVE Good
  BY <1>19 DEF SpawnGate
<1>20. ASSUME NoteChildPid(c) PROVE Good
  BY <1>20 DEF NoteChildPid
<1>21. ASSUME PublishPid(c) PROVE Good
  BY <1>21 DEF PublishPid
<1>22. ASSUME NoteLaunchReady(c) PROVE Good
  BY <1>22 DEF NoteLaunchReady
<1>23. ASSUME LaunchFails(c) PROVE Good
  BY <1>23 DEF LaunchFails
<1>24. ASSUME ChildClosed(c) PROVE Good
  BY <1>24 DEF ChildClosed
<1>25. ASSUME OwnIndex(c) PROVE Good
  BY <1>25 DEF OwnIndex
<1>26. ASSUME StageSnapshot(c) PROVE Good
  BY <1>26 DEF StageSnapshot
<1>27. ASSUME TakeSnapshot(c) PROVE Good
  BY <1>27 DEF TakeSnapshot
<1>28. ASSUME CreateRef(c) PROVE Good
  BY <1>28 DEF CreateRef
<1>29. ASSUME PersistVerified(c) PROVE Good
  BY <1>29 DEF PersistVerified
<1>30. ASSUME CompareTree(c) PROVE Good
  BY <1>30 DEF CompareTree
<1>31. ASSUME RemoveWorktree(c) PROVE Good
  BY <1>31 DEF RemoveWorktree
<1>32. ASSUME RecordRemoval(c) PROVE Good
  BY <1>32 DEF RecordRemoval
<1>33. ASSUME RemoveContainer(c) PROVE Good
  BY <1>33 DEF RemoveContainer, Emptied, Box
<1>34. ASSUME RemoveLease(c) PROVE Good
  BY <1>34 DEF RemoveLease
<1>35. ASSUME FinalizationFails(c) PROVE Good
  BY <1>35 DEF FinalizationFails
<1> QED
  BY <1>1, <1>2, <1>3, <1>4, <1>5, <1>6, <1>7, <1>8, <1>9, <1>10, <1>11, <1>12, <1>13, <1>14,
     <1>15, <1>16, <1>17, <1>18, <1>19, <1>20, <1>21, <1>22, <1>23, <1>24, <1>25, <1>26, <1>27,
     <1>28, <1>29, <1>30, <1>31, <1>32, <1>33, <1>34, <1>35 DEF OwnerStep

\* What an owner leaves as it was.
LEMMA OwnerShared ==
    ASSUME IInv, TypeOK', NEW c \in Calls, OwnerStep(c), CallInv(c)'
    PROVE  /\ LockInv' /\ ProcessInv' /\ ScanInv'
           /\ \A d \in Calls : CallInv(d)'
           /\ \A r \in Recoveries : JobInv(r)'
<1>1. CallsOK /\ LockInv /\ ProcessInv /\ ScanInv /\ CallsOK'
  BY TypeParts DEF IInv, TypeOK, CallsOK
<1>2. \A d \in Calls \ {c} : Untouched(d)
  BY <1>1, OwnerUntouched
<1>3. UNCHANGED <<alive, head, crashes, rpc, job, scan, artifacts>>
  BY OwnerFrame
<1>4. /\ lock' = lock \/ lock = Free \/ lock = OwnerOf[c]
      /\ pc'[c] \in HoldingStages => lock' = OwnerOf[c]
      /\ pc[c] \notin Terminal /\ pc'[c] # "dead" /\ OwnerOf[c] \in alive
      /\ \A d \in Calls \ {c} : OwnerOf[d] = OwnerOf[c] => pc[d] \notin Synchronous
  BY <1>1, OwnerTurn
<1>5. \A d \in Calls : CallInv(d)'
  BY <1>2, <1>3, UntouchedCall DEF IInv
<1>6. \A d \in Calls : OwnerOf[d] \in Actors /\ OwnerOf[d] \notin Recoveries /\ OwnerOf[d] # Free
  BY CallsAssumption, ActorsAssumption DEF Actors
<1>7. LockInv'
  <2>1. ASSUME NEW d \in Calls, pc'[d] \in HoldingStages PROVE lock' = OwnerOf[d]
    <3>1. CASE d = c
      BY <1>4, <2>1, <3>1
    <3>2. CASE d # c
      <4>1. pc[d] \in HoldingStages /\ pc[d] \in Synchronous /\ lock = OwnerOf[d]
        BY <1>1, <1>2, <2>1, <3>2 DEF Untouched, LockInv, HoldingStages, Synchronous,
                                      SetupStages, FinalStages
      <4> QED
        BY <1>4, <1>6, <3>2, <4>1
    <3> QED
      BY <3>1, <3>2
  <2>2. ASSUME NEW r \in Recoveries, rpc'[r] \in HoldingRecovery PROVE lock' = r
    BY <1>1, <1>3, <1>4, <1>6, <2>2, ActorsAssumption DEF LockInv, Actors
  <2> QED
    BY <2>1, <2>2 DEF LockInv
<1>8. ProcessInv'
  <2>1. \A d \in Calls \ {c} : pc'[d] = pc[d]
    BY <1>2 DEF Untouched
  <2> QED
    BY <1>1, <1>3, <1>4, <2>1 DEF ProcessInv
<1>9. \A d \in Calls : OwnerOf[d] \notin alive => Untouched(d)
  BY <1>2, <1>4
<1>10. ScanInv'
  <2>1. ScanShape'
    BY <1>1, <1>3 DEF ScanInv, ScanShape
  <2>2. ASSUME NEW r \in Recoveries, NEW e \in DOMAIN scan'[r] PROVE CopyInv(r, e)'
    <3>1. e \in Calls /\ CopyInv(r, e) /\ scan' = scan /\ alive' = alive
      BY <1>1, <1>3, <2>2 DEF ScanInv, IInv, TypeOK
    <3>2. Untouched(e)
      BY <1>9, <3>1 DEF CopyInv, Quiet
    <3> QED
      BY <3>1, <3>2 DEF CopyInv, Quiet, Engaged, Untouched
  <2>3. ASSUME NEW r \in Recoveries, NEW e \in artifacts'[r]
        PROVE  (Quiet(e) /\ lease[e] \in Left)'
    <3>1. e \in Calls /\ Quiet(e) /\ lease[e] \in Left /\ alive' = alive
      BY <1>1, <1>3, <2>3 DEF ScanInv, IInv, TypeOK
    <3>2. Untouched(e)
      BY <1>9, <3>1 DEF Quiet
    <3> QED
      BY <3>1, <3>2 DEF Quiet, Engaged, Untouched
  <2> QED
    BY <2>1, <2>2, <2>3 DEF ScanInv
<1>11. ASSUME NEW r \in Recoveries PROVE JobInv(r)'
  <2>1. JobInv(r) /\ rpc' = rpc /\ job' = job /\ scan' = scan /\ artifacts' = artifacts
    BY <1>3 DEF IInv
  <2>2. CASE rpc[r] \notin JobStages
    BY <2>1, <2>2 DEF JobInv, JobStages
  <2>3. CASE rpc[r] \in JobStages
    <3>1. job[r] \in Calls /\ OwnerOf[job[r]] \notin alive
      BY <1>1, <2>1, <2>3 DEF JobInv, IInv, TypeOK, ScanInv, CopyInv, Quiet
    <3>2. Untouched(job[r])
      BY <1>9, <3>1
    <3> QED
      BY <2>1, <3>2 DEF JobInv, Untouched
  <2> QED
    BY <2>2, <2>3
<1> QED
  BY <1>5, <1>7, <1>8, <1>10, <1>11

\* Scopes overlap both ways or not at all.
LEMMA OverlapsSymmetric ==
    \A c, e \in Calls : <<c, e>> \in Overlaps <=> <<e, c>> \in Overlaps
  BY DEF Overlaps, ScopesOverlap

\* What releases leases keeps those that are left compatible.
LEMMA AdmissionKept ==
    ASSUME AdmissionInv,
           \A d \in Calls : Reserved(d)' => Reserved(d) /\ baseline'[d] = baseline[d],
           \A c \in Calls : pc'[c] = "admitted" =>
               /\ baseline'[c] = baseline[c]
               /\ pc[c] = "admitted" \/ Admissible(c)
    PROVE  AdmissionInv'
<1>1. ReservedCalls' \subseteq ReservedCalls
  BY DEF ReservedCalls
<1>2. /\ IsFiniteSet(ReservedCalls') /\ Cardinality(ReservedCalls') \in Nat
      /\ Cardinality(ReservedCalls) \in Nat
      /\ Cardinality(ReservedCalls') <= Cardinality(ReservedCalls)
  BY <1>1, FS_Subset, FS_CardinalityType DEF AdmissionInv
<1>3. Cardinality(ReservedCalls') <= MaxParallelImplementers
  BY <1>2, BoundsAssumption DEF AdmissionInv
<1>4. ASSUME NEW c \in Calls, pc'[c] = "admitted" PROVE Admissible(c)'
  <2>1. Admissible(c) /\ baseline'[c] = baseline[c]
    BY <1>4 DEF AdmissionInv
  <2>2. \A d \in Calls : Reserved(d)' => baseline'[d] = baseline'[c] /\ <<c, d>> \notin Overlaps
    BY <2>1 DEF Admissible
  <2>3. Cardinality(ReservedCalls) < MaxParallelImplementers
    BY <2>1 DEF Admissible, ReservedCalls
  <2>4. Cardinality(ReservedCalls') < MaxParallelImplementers
    BY <1>2, <2>3, BoundsAssumption
  <2> QED
    BY <2>2, <2>4 DEF Admissible, ReservedCalls
<1>5. \A c, e \in Calls : c # e /\ Reserved(c)' /\ Reserved(e)' =>
        baseline'[c] = baseline'[e] /\ <<c, e>> \notin Overlaps
  BY DEF AdmissionInv
<1> QED
  BY <1>2, <1>3, <1>4, <1>5 DEF AdmissionInv

\* The lease that is created is the one that was admitted: the registry lock is
\* held from the check of the leases to the creation of the directory.
LEMMA CreateAdmission ==
    ASSUME IInv, NEW c \in Calls, CreateLease(c)
    PROVE  AdmissionInv'
<1>1. /\ pc[c] = "admitted" /\ pc'[c] = "reserving" /\ lease[c] = "none"
      /\ lease'[c] = "partial" /\ baseline' = baseline
      /\ \A d \in Calls \ {c} : pc'[d] = pc[d] /\ lease'[d] = lease[d]
  BY DEF CreateLease, Turn, Goto, IInv, TypeOK, CallInv, SetupInv
<1>2. /\ Admissible(c) /\ IsFiniteSet(ReservedCalls)
      /\ Cardinality(ReservedCalls) < MaxParallelImplementers
  BY <1>1 DEF IInv, AdmissionInv, Admissible, ReservedCalls
<1>3. ReservedCalls' = ReservedCalls \cup {c} /\ c \notin ReservedCalls
  BY <1>1 DEF ReservedCalls, Reserved
<1>4. /\ IsFiniteSet(ReservedCalls')
      /\ Cardinality(ReservedCalls') = Cardinality(ReservedCalls) + 1
  BY <1>2, <1>3, FS_AddElement
<1>5. Cardinality(ReservedCalls') <= MaxParallelImplementers
  BY <1>2, <1>4, FS_CardinalityType, BoundsAssumption
<1>6. \A d \in Calls : Reserved(d)' => d = c \/ Reserved(d)
  BY <1>1 DEF Reserved
<1>7. \A d, e \in Calls : d # e /\ Reserved(d)' /\ Reserved(e)' =>
        baseline'[d] = baseline'[e] /\ <<d, e>> \notin Overlaps
  BY <1>1, <1>2, <1>6, OverlapsSymmetric DEF IInv, AdmissionInv, Admissible
<1>8. \A d \in Calls : pc'[d] # "admitted"
  BY <1>1 DEF IInv, LockInv, ProcessInv, HoldingStages, Synchronous
<1> QED
  BY <1>4, <1>5, <1>7, <1>8 DEF AdmissionInv

\* No other step of an owner creates a lease, or changes the baseline of one.
LEMMA OwnerAdmission ==
    ASSUME IInv, NEW c \in Calls, OwnerStep(c)
    PROVE  AdmissionInv'
<1> DEFINE Kept == /\ Reserved(c)' => Reserved(c) /\ baseline'[c] = baseline[c]
                   /\ pc'[c] = "admitted" => /\ baseline'[c] = baseline[c]
                                             /\ pc[c] = "admitted" \/ Admissible(c)
<1>0. CallsOK /\ SetupInv(c) /\ FinalInv(c)
  BY DEF IInv, TypeOK, CallsOK, CallInv
<1>a. ASSUME Kept PROVE AdmissionInv'
  <2>1. \A d \in Calls \ {c} : Untouched(d)
    BY <1>0, OwnerUntouched
  <2>2. \A d \in Calls : Reserved(d)' => Reserved(d) /\ baseline'[d] = baseline[d]
    BY <1>a, <2>1 DEF Untouched, Reserved
  <2>3. \A d \in Calls : pc'[d] = "admitted" =>
            baseline'[d] = baseline[d] /\ (pc[d] = "admitted" \/ Admissible(d))
    BY <1>a, <2>1 DEF Untouched
  <2> QED
    BY <2>2, <2>3, AdmissionKept DEF IInv
<1>1. CASE CreateLease(c)
  BY <1>1, CreateAdmission
<1>2. ASSUME Discover(c) PROVE Kept
  BY <1>0, <1>2 DEF Discover, Turn, Goto, CallsOK, SetupInv, Reserved, files_vars
<1>3. ASSUME Reserve(c) PROVE Kept
  BY <1>0, <1>3 DEF Reserve, Turn, Goto, CallsOK, Reserved, files_vars
<1> USE <1>0 DEF CallsOK, Reserved, Turn, Goto, files_vars, SetupInv, FinalInv, SetupStages, FinalStages
<1>4. ASSUME CompleteLease(c) PROVE Kept
  BY <1>4 DEF CompleteLease
<1>5. ASSUME ReserveFails(c) PROVE Kept
  BY <1>5 DEF ReserveFails
<1>6. ASSUME RecordPaths(c) PROVE Kept
  BY <1>6 DEF RecordPaths
<1>7. ASSUME MakeBox(c) \/ MarkBox(c) \/ MarkerFails(c) PROVE Kept
  BY <1>7 DEF MakeBox, MarkBox, MarkerFails, Box
<1>8. ASSUME PersistBox(c) PROVE Kept
  BY <1>8 DEF PersistBox
<1>9. ASSUME AddWorktree(c) PROVE Kept
  BY <1>9 DEF AddWorktree
<1>10. ASSUME PersistWorktree(c) PROVE Kept
  BY <1>10 DEF PersistWorktree
<1>11. ASSUME CreateConfinement(c) PROVE Kept
  BY <1>11 DEF CreateConfinement
<1>12. ASSUME PersistConfinement(c) PROVE Kept
  BY <1>12 DEF PersistConfinement
<1>13. ASSUME SetupFails(c) PROVE Kept
  BY <1>13 DEF SetupFails
<1>14. ASSUME DiscardWorkspace(c) PROVE Kept
  BY <1>14 DEF DiscardWorkspace, Emptied, Box
<1>15. ASSUME DropLease(c) PROVE Kept
  BY <1>15 DEF DropLease, RenameLease
<1>16. ASSUME RetireDropped(c) PROVE Kept
  BY <1>16 DEF RetireDropped, CutLease, FinishLease
<1>17. ASSUME DiscardFails(c) PROVE Kept
  BY <1>17 DEF DiscardFails
<1>18. ASSUME PrepareLaunch(c) PROVE Kept
  BY <1>18 DEF PrepareLaunch
<1>19. ASSUME SpawnGate(c) PROVE Kept
  BY <1>19 DEF SpawnGate
<1>20. ASSUME NoteChildPid(c) PROVE Kept
  BY <1>20 DEF NoteChildPid
<1>21. ASSUME PublishPid(c) PROVE Kept
  BY <1>21 DEF PublishPid
<1>22. ASSUME NoteLaunchReady(c) PROVE Kept
  BY <1>22 DEF NoteLaunchReady
<1>23. ASSUME LaunchFails(c) PROVE Kept
  BY <1>23 DEF LaunchFails
<1>24. ASSUME ChildClosed(c) PROVE Kept
  BY <1>24 DEF ChildClosed
<1>25. ASSUME OwnIndex(c) PROVE Kept
  BY <1>25 DEF OwnIndex
<1>26. ASSUME StageSnapshot(c) PROVE Kept
  BY <1>26 DEF StageSnapshot
<1>27. ASSUME TakeSnapshot(c) PROVE Kept
  BY <1>27 DEF TakeSnapshot
<1>28. ASSUME CreateRef(c) PROVE Kept
  BY <1>28 DEF CreateRef
<1>29. ASSUME PersistVerified(c) PROVE Kept
  BY <1>29 DEF PersistVerified
<1>30. ASSUME CompareTree(c) PROVE Kept
  BY <1>30 DEF CompareTree
<1>31. ASSUME RemoveWorktree(c) PROVE Kept
  BY <1>31 DEF RemoveWorktree
<1>32. ASSUME RecordRemoval(c) PROVE Kept
  BY <1>32 DEF RecordRemoval
<1>33. ASSUME RemoveContainer(c) PROVE Kept
  BY <1>33 DEF RemoveContainer, Emptied, Box
<1>34. ASSUME RemoveLease(c) PROVE Kept
  BY <1>34 DEF RemoveLease, RenameLease, CutLease, FinishLease
<1>35. ASSUME FinalizationFails(c) PROVE Kept
  BY <1>35 DEF FinalizationFails
<1> QED
  BY <1>a, <1>1, <1>2, <1>3, <1>4, <1>5, <1>6, <1>7, <1>8, <1>9, <1>10, <1>11, <1>12, <1>13,
     <1>14, <1>15, <1>16, <1>17, <1>18, <1>19, <1>20, <1>21, <1>22, <1>23, <1>24, <1>25, <1>26,
     <1>27, <1>28, <1>29, <1>30, <1>31, <1>32, <1>33, <1>34, <1>35 DEF OwnerStep

\* A child keeps what holds of its call.
LEMMA ChildCall ==
    ASSUME CallsOK, ProcessInv, NEW c \in Calls, CallInv(c), ChildStep(c)
    PROVE  CallInv(c)'
<1> USE DEF CallInv, LeaseInv, SetupInv, LaunchInv, FinalInv, CallsOK, files_vars, owner_vars,
            Mind, Alone, SetupStages, FinalStages, Intact, Ready, Engaged, Salvageable,
            BoxKnown, WithMarker, Unfinished, Left
<1>1. ASSUME GateExec(c) PROVE CallInv(c)'
  BY <1>1 DEF GateExec
<1>2. ASSUME GateExit(c) PROVE CallInv(c)'
  BY <1>2 DEF GateExit, ProcessInv, Terminal
<1>3. ASSUME ChildEdit(c) PROVE CallInv(c)'
  BY <1>3 DEF ChildEdit
<1>4. ASSUME ChildEnd(c) PROVE CallInv(c)'
  BY <1>4 DEF ChildEnd
<1> QED
  BY <1>1, <1>2, <1>3, <1>4 DEF ChildStep

\* A child keeps the invariant.
LEMMA ChildInvariant ==
    ASSUME IInv, NEW c \in Calls, ChildStep(c)
    PROVE  IInv'
<1>1. CallsOK /\ CallsOK' /\ RecoveriesOK /\ WorldOK /\ LockOK
  BY TypeParts, ChildType DEF IInv
<1>2. /\ UNCHANGED <<lock, alive, head, crashes, pc, baseline, rpc, job, scan, artifacts>>
      /\ UNCHANGED <<lease, disk, box, files, ref, staged>>
  BY DEF ChildStep, GateExec, GateExit, ChildEdit, ChildEnd, Alone, owner_vars, recovery_vars,
         files_vars
<1>3. TypeOK'
  <2>1. RecoveriesOK' /\ WorldOK' /\ LockOK'
    BY <1>1, <1>2 DEF RecoveriesOK, WorldOK, LockOK
  <2> QED
    BY <1>1, <2>1, TypeParts DEF TypeOK, CallsOK, RecoveriesOK, WorldOK, LockOK
<1>4. \A d \in Calls : CallInv(d)'
  <2>1. \A d \in Calls \ {c} : CallInv(d)'
    BY <1>1, <1>2, OwnerUntouched, UntouchedCall DEF IInv
  <2> QED
    BY <1>1, <2>1, ChildCall DEF IInv
<1>5. LockInv' /\ ProcessInv'
  BY <1>2 DEF IInv, LockInv, ProcessInv
<1>6. \A d \in Calls : Quiet(d) => Quiet(d)' /\ tree'[d] = tree[d]
  <2> SUFFICES ASSUME NEW d \in Calls, Quiet(d) PROVE Quiet(d)' /\ tree'[d] = tree[d]
    OBVIOUS
  <2>1. CASE d # c
    <3>1. Untouched(d)
      BY <1>1, <2>1, OwnerUntouched
    <3> QED
      BY <1>2, <3>1 DEF Quiet, Engaged, Untouched
  <2>2. CASE d = c
    BY <1>1, <1>2, <2>2 DEF Quiet, Engaged, ChildStep, GateExec, GateExit, ChildEdit, ChildEnd,
                            Mind, CallsOK, files_vars
  <2> QED
    BY <2>1, <2>2
<1>7. ScanInv'
  BY <1>1, <1>2, <1>6 DEF IInv, ScanInv, ScanShape, CopyInv, RecoveriesOK
<1>8. \A r \in Recoveries : JobInv(r)'
  <2> SUFFICES ASSUME NEW r \in Recoveries PROVE JobInv(r)'
    OBVIOUS
  <2>1. JobInv(r)
    BY DEF IInv
  <2>2. CASE rpc[r] \notin JobStages
    BY <1>2, <2>2 DEF JobInv, JobStages
  <2>3. CASE rpc[r] \in JobStages
    <3>1. job[r] \in Calls /\ Quiet(job[r])
      BY <1>1, <2>1, <2>3 DEF JobInv, RecoveriesOK, IInv, ScanInv, CopyInv
    <3>2. tree'[job[r]] = tree[job[r]]
      BY <1>6, <3>1
    <3> QED
      BY <1>2, <2>1, <3>2 DEF JobInv
  <2> QED
    BY <2>2, <2>3
<1>9. AdmissionInv'
  BY <1>2, AdmissionKept DEF IInv, Reserved
<1> QED
  BY <1>3, <1>4, <1>5, <1>7, <1>8, <1>9 DEF IInv

\* An owner keeps the invariant.
LEMMA OwnerInvariant ==
    ASSUME IInv, NEW c \in Calls, OwnerStep(c)
    PROVE  IInv'
<1>1. CallsOK /\ RecoveriesOK /\ WorldOK /\ LockOK /\ CallInv(c)
  BY TypeParts DEF IInv
<1>2. CallsOK' /\ LockOK'
  BY <1>1, SetupType, LaunchType, FinalType DEF OwnerStep, SetsUp, Launches, Finalizes
<1>3. UNCHANGED <<alive, head, crashes, rpc, job, scan, artifacts>>
  BY OwnerFrame
<1>4. TypeOK'
  <2>1. RecoveriesOK' /\ WorldOK'
    BY <1>1, <1>3 DEF RecoveriesOK, WorldOK
  <2> QED
    BY <1>2, <2>1 DEF TypeOK, CallsOK, RecoveriesOK, WorldOK, LockOK
<1>5. CallInv(c)'
  BY <1>1, <1>2, SetupCall, LaunchCall, FinalCall DEF OwnerStep, SetsUp, Launches, Finalizes
<1>6. AdmissionInv'
  BY OwnerAdmission
<1> QED
  BY <1>4, <1>5, <1>6, OwnerShared DEF IInv

----------------------------------------------------------------------------
(* Recoveries keep the invariant.                                           *)

\* A recovery touches only the lease it works on.
LEMMA RecoveryUntouched ==
    ASSUME CallsOK, NEW r \in Recoveries, RecoveryStep(r), NEW d \in Calls,
           rpc[r] \in JobStages => d # job[r]
    PROVE  Untouched(d)
<1> USE DEF CallsOK, Untouched, At, owner_vars, files_vars, JobStages
<1>1. CASE \/ InspectLock(r) \/ Scan(r) \/ ClaimLock(r) \/ FinishRecovery(r)
           \/ \E c \in Calls : TakeArtifact(r, c) \/ TakeLease(r, c)
           \/ PreserveLease(r)
  BY <1>1 DEF InspectLock, Scan, ClaimLock, FinishRecovery, TakeArtifact, TakeLease,
              PreserveLease
<1>2. CASE MarkIndex(r) \/ RecordRef(r) \/ RecordRecovered(r)
  BY <1>2 DEF MarkIndex, RecordRef, RecordRecovered, WriteCopy, Write
<1>3. CASE Salvage(r) \/ RecoverWorktree(r) \/ EmptyBox(r)
  BY <1>3 DEF Salvage, RecoverWorktree, EmptyBox, Box, Stage
<1>4. CASE RetireLease(r)
  BY <1>4 DEF RetireLease, RenameLease, CutLease, FinishLease
<1> QED
  BY <1>1, <1>2, <1>3, <1>4 DEF RecoveryStep

\* What a recovery is at, and what it leaves.
LEMMA RecoveryFrame ==
    ASSUME NEW r \in Recoveries, RecoveryStep(r)
    PROVE  /\ UNCHANGED <<alive, head, crashes, pc, baseline, noted, snap, child>>
           /\ r \in alive
  BY DEF RecoveryStep, At, owner_vars, InspectLock, Scan, ClaimLock, FinishRecovery,
     TakeArtifact,
         TakeLease, PreserveLease, MarkIndex, RecordRef, RecordRecovered, Salvage,
         RecoverWorktree, EmptyBox, RetireLease

\* The record of a lease changes only in what a copy of it need not tell.
RecordKept(c) ==
    /\ disk'[c].ident = disk[c].ident /\ disk'[c].located = disk[c].located
    /\ disk'[c].state = "reserved" <=> disk[c].state = "reserved"
    /\ disk[c].indexOwned => disk'[c].indexOwned

\* What a recovery does to the lease it works on keeps what holds of the lease.
LEMMA JobCall ==
    ASSUME CallsOK, CallsOK', ScansOK, ProcessInv, NEW r \in Recoveries, NEW c \in Calls,
           c = job[r], JobInv(r), CallInv(c), Quiet(c), c \in DOMAIN scan[r] => CopyInv(r, c),
           rpc[r] \in JobStages, RecoveryStep(r)
    PROVE  CallInv(c)' /\ RecordKept(c) /\ Quiet(c)' /\ (lease[c] \in Left => lease'[c] \in Left)
<1> DEFINE Goal == /\ CallInv(c)' /\ RecordKept(c) /\ Quiet(c)'
                   /\ lease[c] \in Left => lease'[c] \in Left
<1>1. pc[c] \in Terminal /\ pc' = pc /\ alive' = alive /\ child' = child
  BY RecoveryFrame DEF ProcessInv, Quiet
<1>2. LeaseInv(c)' => CallInv(c)'
  BY <1>1 DEF CallInv, SetupInv, LaunchInv, FinalInv, SetupStages, FinalStages, Terminal
<1>3. LeaseInv(c) /\ ~Engaged(c) /\ OwnerOf[c] \notin alive
  BY DEF CallInv, Quiet
<1>4. rpc[r] \notin {"cutting", "cut"} =>
        scan[r][c] \in Record /\ CopyInv(r, c) /\ c \in DOMAIN scan[r]
  BY DEF JobInv, ScansOK
<1> USE DEF CallsOK, LeaseInv, Engaged, Salvageable, BoxKnown, WithMarker, Unfinished, Quiet, RecordKept, Record, At,
            files_vars, JobInv, JobStages, Left
<1>5. CASE UNCHANGED files_vars
  BY <1>1, <1>2, <1>3, <1>5
<1>6. ASSUME MarkIndex(r) \/ RecordRef(r) \/ RecordRecovered(r) PROVE Goal
  <2>1. rpc[r] \in {"salvaging", "comparing", "referenced", "removed"}
    BY <1>6 DEF MarkIndex, RecordRef, RecordRecovered
  <2>2. /\ lease[c] = "active" /\ disk[c] = scan[r][c]
        /\ UNCHANGED <<lease, files, box, tree, staged, ref, retiredBy>>
        /\ \/ disk'[c] = [disk[c] EXCEPT !.indexOwned = TRUE]
           \/ \E s \in {"ref-verified", "worktree-removed"} :
                disk'[c] = [disk[c] EXCEPT !.state = s]
    <3>1. /\ Unchanged(r, c) /\ UNCHANGED <<lease, files, box, tree, staged, ref, retiredBy>>
          /\ \/ Write(c, [scan[r][c] EXCEPT !.indexOwned = TRUE])
             \/ Write(c, [scan[r][c] EXCEPT !.state = "ref-verified"])
             \/ Write(c, [scan[r][c] EXCEPT !.state = "worktree-removed"])
      BY <1>6 DEF MarkIndex, RecordRef, RecordRecovered, WriteCopy
    <3> QED
      BY <3>1 DEF Unchanged, Write
  <2> QED
    BY <1>1, <1>2, <1>3, <1>4, <2>1, <2>2
<1>7. ASSUME Salvage(r) PROVE Goal
  BY <1>1, <1>2, <1>3, <1>4, <1>7 DEF Salvage, Stage, CopyInv
<1>8. ASSUME RecoverWorktree(r) PROVE Goal
  BY <1>1, <1>2, <1>3, <1>4, <1>8 DEF RecoverWorktree, CopyInv
<1>9. ASSUME EmptyBox(r) PROVE Goal
  BY <1>1, <1>2, <1>3, <1>4, <1>9 DEF EmptyBox, CopyInv, Emptier, WithMarker, Box
<1>10. ASSUME RetireLease(r) PROVE Goal
  BY <1>1, <1>2, <1>3, <1>4, <1>10 DEF RetireLease, RenameLease, CutLease, FinishLease
<1> QED
  BY <1>5, <1>6, <1>7, <1>8, <1>9, <1>10
     DEF RecoveryStep, InspectLock, Scan, ClaimLock, FinishRecovery, TakeArtifact, TakeLease,
         PreserveLease

\* The lease that a recovery turns to next is as its job expects it.
LEMMA JobStep ==
    ASSUME IInv, NEW r \in Recoveries, RecoveryStep(r)
    PROVE  JobInv(r)'
<1>1. /\ CallsOK /\ RecoveriesOK /\ ScansOK /\ JobInv(r)
      /\ \A c \in DOMAIN scan[r] : c \in Calls /\ CopyInv(r, c) /\ LeaseInv(c)
      /\ \A c \in artifacts[r] : lease[c] \in Left
  BY TypeParts DEF IInv, ScanInv, ScansOK, CallInv, RecoveriesOK
<1>2. ASSUME rpc'[r] \notin JobStages PROVE JobInv(r)'
  BY <1>2 DEF JobInv, JobStages
<1>3. ASSUME NEW c, Drop(r, c) PROVE JobInv(r)'
  BY <1>1, <1>2, <1>3, DropUpdate DEF JobStages
<1>4. CASE InspectLock(r) \/ Scan(r) \/ ClaimLock(r) \/ FinishRecovery(r)
  BY <1>1, <1>2, <1>4 DEF InspectLock, Scan, ClaimLock, FinishRecovery, Proceed, JobStages,
                          RecoveriesOK
<1>5. ASSUME NEW c \in Calls, TakeArtifact(r, c) PROVE JobInv(r)'
  BY <1>1, <1>5 DEF TakeArtifact, Proceed, JobInv, RecoveriesOK, files_vars
<1>6. ASSUME NEW c \in Calls, TakeLease(r, c) PROVE JobInv(r)'
  <2> DEFINE rec == scan[r][c]
             plan == IF rec.state = "reserved" THEN ReservedPlan(c, rec) ELSE WorkPlan(c, rec)
  <2>1. /\ c \in DOMAIN scan[r] /\ CopyInv(r, c) /\ LeaseInv(c)
        /\ UNCHANGED files_vars
    BY <1>1, <1>6 DEF TakeLease
  <2>2. CASE plan = "recovering"
    BY <1>3, <1>6, <2>2 DEF TakeLease
  <2>3. CASE plan # "recovering"
    <3>1. /\ Proceed(r, plan) /\ job' = [job EXCEPT ![r] = c]
          /\ UNCHANGED <<scan, artifacts>>
      BY <1>6, <2>3 DEF TakeLease
    <3>2. rpc'[r] = plan /\ job'[r] = c
      BY <1>1, <3>1 DEF Proceed, RecoveriesOK
    <3> QED
      BY <1>1, <2>1, <2>3, <3>1, <3>2
         DEF JobInv, ReservedPlan, WorkPlan, CopyInv, LeaseInv, files_vars, CallsOK, JobStages
  <2> QED
    BY <2>2, <2>3
<1>7. ASSUME MarkIndex(r) \/ RecordRef(r) \/ RecordRecovered(r) PROVE JobInv(r)'
  <2> DEFINE c == job[r]
  <2>1. c \in DOMAIN scan[r] /\ c \in Calls /\ scan[r][c] \in Record
    BY <1>1, <1>7 DEF MarkIndex, RecordRef, RecordRecovered, At, JobInv, JobStages, ScansOK
  <2>2. /\ [scan[r][c] EXCEPT !.indexOwned = TRUE] \in Record
        /\ [scan[r][c] EXCEPT !.state = "ref-verified"] \in Record
        /\ [scan[r][c] EXCEPT !.state = "worktree-removed"] \in Record
    BY <2>1, RecordUpdates
  <2>3. /\ UNCHANGED <<lease, files, box, tree, staged, ref, retiredBy>>
        /\ \/ /\ rpc[r] \in {"salvaging", "comparing"} /\ rpc' = rpc
              /\ WriteCopy(r, c, [scan[r][c] EXCEPT !.indexOwned = TRUE])
           \/ /\ rpc[r] = "referenced" /\ rpc'[r] = "comparing"
              /\ WriteCopy(r, c, [scan[r][c] EXCEPT !.state = "ref-verified"])
           \/ /\ rpc[r] = "removed" /\ rpc'[r] = "emptying"
              /\ WriteCopy(r, c, [scan[r][c] EXCEPT !.state = "worktree-removed"])
    BY <1>1, <1>7 DEF MarkIndex, RecordRef, RecordRecovered, At, Proceed, RecoveriesOK
  <2>4. /\ job' = job /\ artifacts' = artifacts /\ DOMAIN scan'[r] = DOMAIN scan[r]
        /\ \/ scan'[r][c] = [scan[r][c] EXCEPT !.indexOwned = TRUE]
           \/ scan'[r][c].state # "reserved"
    <3>1. job' = job /\ artifacts' = artifacts
      BY <2>3 DEF WriteCopy
    <3>2. /\ DOMAIN scan'[r] = DOMAIN scan[r]
          /\ \/ scan'[r][c] = [scan[r][c] EXCEPT !.indexOwned = TRUE]
             \/ scan'[r][c] = [scan[r][c] EXCEPT !.state = "ref-verified"]
             \/ scan'[r][c] = [scan[r][c] EXCEPT !.state = "worktree-removed"]
      BY <1>1, <2>1, <2>2, <2>3, WriteUpdate
    <3> QED
      BY <2>1, <3>1, <3>2 DEF Record
  <2> QED
    BY <1>1, <2>1, <2>3, <2>4 DEF JobInv, Record, JobStages
<1>8. ASSUME Salvage(r) \/ RecoverWorktree(r) \/ EmptyBox(r) PROVE JobInv(r)'
  <2>1. job[r] \in DOMAIN scan[r] /\ job[r] \in Calls
    BY <1>1, <1>8 DEF Salvage, RecoverWorktree, EmptyBox, At, JobInv, JobStages
  <2> QED
    BY <1>1, <1>8, <2>1
       DEF Salvage, RecoverWorktree, EmptyBox, At, Proceed, JobInv, JobStages, CallsOK,
           RecoveriesOK, Emptier, WithMarker, Box
<1>9. ASSUME RetireLease(r) PROVE JobInv(r)'
  <2>1. rpc[r] \in JobStages /\ job[r] \in Calls
    BY <1>1, <1>9 DEF RetireLease, At, JobInv, JobStages, RecoveriesOK
  <2>2. CASE Drop(r, job[r])
    BY <1>3, <2>2
  <2>3. CASE /\ UNCHANGED <<job, scan, artifacts>>
             /\ \/ RenameLease(job[r], r) /\ Proceed(r, "cutting")
                \/ CutLease(job[r]) /\ Proceed(r, "cut")
    <3>1. rpc'[r] \in {"cutting", "cut"} /\ lease'[job[r]] \in Left
      BY <1>1, <2>1, <2>3 DEF RenameLease, CutLease, Proceed, Left, CallsOK, RecoveriesOK
    <3> QED
      BY <1>1, <2>1, <2>3, <3>1 DEF JobInv
  <2> QED
    BY <1>9, <2>2, <2>3 DEF RetireLease
<1>10. ASSUME PreserveLease(r) PROVE JobInv(r)'
  BY <1>3, <1>10 DEF PreserveLease
<1> QED
  BY <1>4, <1>5, <1>6, <1>7, <1>8, <1>9, <1>10 DEF RecoveryStep

\* What another recovery has read stays as true as it was.
LEMMA CopiesStep ==
    ASSUME IInv, TypeOK', ScansOK', NEW r \in Recoveries, RecoveryStep(r),
           \A c \in Calls : Quiet(c) =>
               Quiet(c)' /\ RecordKept(c) /\ (lease[c] \in Left => lease'[c] \in Left)
    PROVE  ScanInv'
<1>1. /\ CallsOK /\ RecoveriesOK /\ ScansOK /\ JobInv(r)
      /\ \A q \in Recoveries : \A c \in DOMAIN scan[q] : c \in Calls /\ CopyInv(q, c)
      /\ \A q \in Recoveries : \A c \in artifacts[q] : c \in Calls /\ Quiet(c) /\ lease[c] \in Left
  BY TypeParts DEF IInv, ScanInv, ScansOK, RecoveriesOK
<1>2. ASSUME NEW q \in Recoveries, NEW c \in DOMAIN scan[q], scan'[q][c] = scan[q][c]
      PROVE  CopyInv(q, c)'
  BY <1>1, <1>2 DEF CopyInv, RecordKept
<1> DEFINE Copies == \A q \in Recoveries : \A c \in DOMAIN scan'[q] : CopyInv(q, c)'
           Others == \A q \in Recoveries : \A c \in artifacts'[q] : c \in artifacts[q]
<1>3. ASSUME UNCHANGED <<scan, artifacts>> PROVE Copies /\ Others
  BY <1>2, <1>3
<1>4. ASSUME NEW e, Drop(r, e) PROVE Copies /\ Others
  BY <1>1, <1>2, <1>4, DropUpdate
<1>5. ASSUME \/ InspectLock(r) \/ FinishRecovery(r) \/ (\E c \in Calls : TakeArtifact(r, c))
             \/ Salvage(r) \/ RecoverWorktree(r) \/ EmptyBox(r)
      PROVE  Copies /\ Others
  BY <1>3, <1>5 DEF InspectLock, FinishRecovery, TakeArtifact, Salvage, RecoverWorktree,
     EmptyBox
<1>6. ASSUME Scan(r) PROVE ScanInv'
  <2> DEFINE S == {e \in Calls : NeedsRecovery(e)}
             f == [e \in S |-> disk[e]]
             A == {e \in Calls : lease[e] = "retired" /\ retiredBy[e] \notin alive}
  <2>1. /\ scan' = [scan EXCEPT ![r] = f] /\ artifacts' = [artifacts EXCEPT ![r] = A]
        /\ UNCHANGED <<alive, child, files_vars>>
    BY <1>6 DEF Scan, At
  <2>2. S \in SUBSET Calls /\ f \in [S -> Record]
    BY <1>1 DEF CallsOK
  <2>3. \A e \in S : Quiet(e) /\ f[e] = disk[e]
    BY DEF NeedsRecovery, ChildKnown, Quiet, Engaged, IInv, CallInv, LeaseInv
  <2>4. \A e \in A : Quiet(e) /\ lease[e] \in Left
    BY DEF Quiet, IInv, CallInv, LeaseInv, Left, Intact, Ready
  <2>5. DOMAIN f = S
    OBVIOUS
  <2> HIDE DEF S, f, A
  <2>6. scan'[r] = f /\ \A q \in Recoveries \ {r} : scan'[q] = scan[q]
    BY <1>1, <2>1, <2>2, ScanUpdate
  <2>7. artifacts'[r] = A /\ \A q \in Recoveries \ {r} : artifacts'[q] = artifacts[q]
    BY <1>1, <2>1 DEF RecoveriesOK
  <2>8. \A e \in S : CopyInv(r, e)'
    BY <1>1, <2>1, <2>2, <2>3, <2>6 DEF CopyInv, Quiet, Engaged, files_vars
  <2>9. \A q \in Recoveries : \A c \in artifacts'[q] : (Quiet(c) /\ lease[c] \in Left)'
    BY <1>1, <2>1, <2>4, <2>7 DEF Quiet, Engaged, files_vars
  <2>10. \A q \in Recoveries : \A c \in DOMAIN scan'[q] : CopyInv(q, c)'
    BY <1>2, <2>5, <2>6, <2>8
  <2> QED
    BY <2>9, <2>10 DEF ScanInv, ScansOK
<1>7. ASSUME ClaimLock(r) PROVE Copies /\ Others
  <2>1. CASE UNCHANGED <<scan, artifacts>>
    BY <1>3, <2>1
  <2>2. CASE scan' = [scan EXCEPT ![r] = NoScan] /\ artifacts' = [artifacts EXCEPT ![r] = {}]
    <3>1. NoScan \in [{} -> Record] /\ {} \in SUBSET Calls /\ DOMAIN NoScan = {}
      BY DEF NoScan
    <3>2. scan'[r] = NoScan /\ \A q \in Recoveries \ {r} : scan'[q] = scan[q]
      BY <1>1, <2>2, <3>1, ScanUpdate
    <3>3. artifacts'[r] = {} /\ \A q \in Recoveries \ {r} : artifacts'[q] = artifacts[q]
      BY <1>1, <2>2 DEF RecoveriesOK
    <3> QED
      BY <1>2, <3>1, <3>2, <3>3
  <2> QED
    BY <1>7, <2>1, <2>2 DEF ClaimLock
<1>8. ASSUME NEW c \in Calls, TakeLease(r, c) PROVE Copies /\ Others
  <2>1. Drop(r, c) \/ UNCHANGED <<scan, artifacts>>
    BY <1>8 DEF TakeLease
  <2> QED
    BY <1>3, <1>4, <2>1
<1>9. ASSUME MarkIndex(r) \/ RecordRef(r) \/ RecordRecovered(r) PROVE Copies /\ Others
  <2>0. rpc[r] \in {"salvaging", "comparing", "referenced", "removed"}
    BY <1>9 DEF MarkIndex, RecordRef, RecordRecovered, At
  <2>1. PICK c \in Calls : c = job[r] /\ c \in DOMAIN scan[r] /\ scan[r][c] \in Record
    BY <1>1, <2>0 DEF JobInv, JobStages, ScansOK
  <2>2. \E rec \in Record : WriteCopy(r, c, rec)
    <3>1. /\ [scan[r][c] EXCEPT !.indexOwned = TRUE] \in Record
          /\ [scan[r][c] EXCEPT !.state = "ref-verified"] \in Record
          /\ [scan[r][c] EXCEPT !.state = "worktree-removed"] \in Record
      BY <2>1, RecordUpdates
    <3> QED
      BY <1>9, <2>1, <3>1 DEF MarkIndex, RecordRef, RecordRecovered
  <2>3. /\ scan'[r][c] = disk'[c] /\ DOMAIN scan'[r] = DOMAIN scan[r]
        /\ \A e \in DOMAIN scan[r] \ {c} : scan'[r][e] = scan[r][e]
        /\ \A q \in Recoveries \ {r} : scan'[q] = scan[q]
    BY <1>1, <2>1, <2>2, WriteUpdate
  <2>4. artifacts' = artifacts
    BY <2>2 DEF WriteCopy
  <2>5. CopyInv(r, c)'
    <3>1. Quiet(c)'
      BY <1>1, <2>1 DEF CopyInv
    <3> QED
      BY <2>3, <3>1 DEF CopyInv
  <2>6. ASSUME NEW e \in DOMAIN scan'[r] PROVE CopyInv(r, e)'
    <3>1. CASE e = c
      BY <2>5, <3>1
    <3>2. CASE e # c
      BY <1>2, <2>3, <3>2
    <3> QED
      BY <3>1, <3>2
  <2>7. \A q \in Recoveries \ {r} : \A e \in DOMAIN scan'[q] : CopyInv(q, e)'
    BY <1>2, <2>3
  <2> QED
    BY <2>4, <2>6, <2>7
<1>10. ASSUME RetireLease(r) \/ PreserveLease(r) PROVE Copies /\ Others
  <2>1. Drop(r, job[r]) \/ UNCHANGED <<scan, artifacts>>
    BY <1>10 DEF RetireLease, PreserveLease
  <2> QED
    BY <1>3, <1>4, <2>1
<1>11. ASSUME Copies /\ Others PROVE ScanInv'
  BY <1>1, <1>11 DEF ScanInv, ScansOK
<1> QED
  BY <1>5, <1>6, <1>7, <1>8, <1>9, <1>10, <1>11 DEF RecoveryStep

\* A recovery keeps the invariant.
LEMMA RecoveryInvariant ==
    ASSUME IInv, NEW r \in Recoveries, RecoveryStep(r)
    PROVE  IInv'
<1>1. /\ CallsOK /\ RecoveriesOK /\ WorldOK /\ LockOK /\ ScansOK /\ JobInv(r)
      /\ LockInv /\ ProcessInv
  BY TypeParts DEF IInv, ScanInv, ScansOK, RecoveriesOK
<1>2. UNCHANGED <<alive, head, crashes, pc, baseline, noted, snap, child>> /\ r \in alive
  BY RecoveryFrame
<1>3. rpc[r] \in JobStages => /\ job[r] \in Calls /\ Quiet(job[r])
                              /\ job[r] \in DOMAIN scan[r] => CopyInv(r, job[r])
  BY <1>1 DEF IInv, JobInv, ScanInv, CopyInv, RecoveriesOK
<1>4. CallsOK' /\ RecoveriesOK' /\ ScansOK' /\ LockOK' /\ WorldOK' /\ TypeOK'
  <2>1. JobKnown(r)
    BY <1>1, <1>3 DEF JobKnown, JobInv
  <2>2. CallsOK' /\ RecoveriesOK' /\ ScansOK' /\ LockOK'
    BY <1>1, <2>1, RecoveryType
  <2>3. WorldOK'
    BY <1>1, <1>2 DEF WorldOK
  <2> QED
    BY <2>2, <2>3 DEF TypeOK, CallsOK, RecoveriesOK, WorldOK, LockOK
<1>5. \A d \in Calls : \/ Untouched(d)
                       \/ rpc[r] \in JobStages /\ d = job[r]
  BY <1>1, RecoveryUntouched
<1>6. \A d \in Calls : CallInv(d)' /\ (Quiet(d) =>
          Quiet(d)' /\ RecordKept(d) /\ (lease[d] \in Left => lease'[d] \in Left))
  <2> SUFFICES ASSUME NEW d \in Calls
               PROVE  CallInv(d)' /\ (Quiet(d) =>
                 Quiet(d)' /\ RecordKept(d) /\ (lease[d] \in Left => lease'[d] \in Left))
    OBVIOUS
  <2>1. CASE Untouched(d)
    <3>1. CallInv(d)'
      BY <1>2, <2>1, UntouchedCall DEF IInv
    <3>2. Quiet(d) => Quiet(d)'
      BY <1>2, <2>1 DEF Quiet, Engaged, Untouched
    <3> QED
      BY <2>1, <3>1, <3>2 DEF RecordKept, Untouched
  <2>2. CASE rpc[r] \in JobStages /\ d = job[r]
    BY <1>1, <1>3, <1>4, <2>2, JobCall DEF IInv
  <2> QED
    BY <1>5, <2>1, <2>2
<1>7. ScanInv'
  BY <1>4, <1>6, CopiesStep
<1>8. /\ \A q \in Recoveries \ {r} : rpc'[q] = rpc[q] /\ job'[q] = job[q]
                                     /\ scan'[q] = scan[q] /\ artifacts'[q] = artifacts[q]
      /\ rpc[r] \in HoldingRecovery \/ \A d \in Calls : Untouched(d)
  <2>1. \A c : Drop(r, c) => \A q \in Recoveries \ {r} :
          /\ rpc'[q] = rpc[q] /\ job'[q] = job[q]
          /\ scan'[q] = scan[q] /\ artifacts'[q] = artifacts[q]
    BY <1>1, DropUpdate
  <2>2. rpc[r] \in HoldingRecovery \/ \A d \in Calls : Untouched(d)
    BY <1>5 DEF HoldingRecovery
  <2> QED
    BY <1>1, <2>1, <2>2
       DEF RecoveryStep, InspectLock, Scan, ClaimLock, FinishRecovery, TakeArtifact, TakeLease,
           PreserveLease, MarkIndex, RecordRef, RecordRecovered, Salvage, RecoverWorktree,
           EmptyBox, RetireLease, Proceed, WriteCopy, RecoveriesOK, ScansOK, ScanShape
<1>9. LockInv'
  <2>1. \/ lock' = lock /\ (rpc'[r] \in HoldingRecovery => rpc[r] \in HoldingRecovery)
        \/ lock = Free /\ lock' = r
        \/ lock \in {Free} \cup (Actors \ alive) /\ lock' = Free /\ rpc'[r] \notin HoldingRecovery
        \/ rpc[r] = "recovering" /\ lock' = Free /\ rpc'[r] \notin HoldingRecovery
    <3> DEFINE Kept == lock' = lock /\ rpc[r] \in HoldingRecovery
    <3>1. CASE InspectLock(r) \/ FinishRecovery(r) \/ Scan(r) \/ ClaimLock(r)
      BY <1>1, <3>1 DEF InspectLock, FinishRecovery, Scan, ClaimLock, At, Proceed, RecoveriesOK,
                        HoldingRecovery, JobStages
    <3>2. ASSUME NEW c \in Calls, TakeArtifact(r, c) \/ TakeLease(r, c) PROVE Kept
      BY <3>2 DEF TakeArtifact, TakeLease, At, HoldingRecovery
    <3>3. ASSUME \/ MarkIndex(r) \/ Salvage(r) \/ RecordRef(r) \/ RecoverWorktree(r)
                 \/ RecordRecovered(r) \/ EmptyBox(r) \/ RetireLease(r) \/ PreserveLease(r)
          PROVE  Kept
      BY <3>3 DEF MarkIndex, Salvage, RecordRef, RecoverWorktree, RecordRecovered, EmptyBox,
                  RetireLease, PreserveLease, At, HoldingRecovery, JobStages
    <3> QED
      BY <3>1, <3>2, <3>3 DEF RecoveryStep
  <2>2. \A d \in Calls : OwnerOf[d] \in Actors /\ OwnerOf[d] \notin Recoveries /\ OwnerOf[d] # Free
    BY CallsAssumption, ActorsAssumption DEF Actors
  <2>3. \A d \in Calls : pc[d] \in HoldingStages => OwnerOf[d] \in alive
    BY <1>1 DEF ProcessInv, HoldingStages, Terminal
  <2>4. \A q \in Recoveries : rpc[q] \in HoldingRecovery => q \in alive
    BY <1>1 DEF ProcessInv, HoldingRecovery, JobStages
  <2> QED
    BY <1>1, <1>2, <1>8, <2>1, <2>2, <2>3, <2>4, ActorsAssumption
       DEF LockInv, Actors, HoldingRecovery
<1>10. ProcessInv'
  BY <1>1, <1>2, <1>8 DEF ProcessInv
<1>11. \A q \in Recoveries : JobInv(q)'
  <2>1. JobInv(r)'
    BY JobStep
  <2>2. ASSUME NEW q \in Recoveries \ {r} PROVE JobInv(q)'
    <3>1. JobInv(q) /\ rpc'[q] = rpc[q] /\ job'[q] = job[q] /\ scan'[q] = scan[q]
          /\ artifacts'[q] = artifacts[q]
      BY <1>8 DEF IInv
    <3>2. CASE rpc[q] \notin JobStages
      BY <3>1, <3>2 DEF JobInv, JobStages
    <3>3. CASE rpc[q] \in JobStages
      <4>1. rpc[r] \notin HoldingRecovery
        BY <1>1, <3>3 DEF LockInv, HoldingRecovery
      <4>2. job[q] \in Calls /\ Untouched(job[q])
        BY <1>1, <1>8, <3>1, <3>3, <4>1 DEF JobInv, RecoveriesOK
      <4> QED
        BY <3>1, <4>2 DEF JobInv, Untouched
    <3> QED
      BY <3>2, <3>3
  <2> QED
    BY <2>1, <2>2
<1>12. AdmissionInv'
  <2>1. \A d \in Calls : Reserved(d)' => Reserved(d)
    <3>1. \A d \in Calls : lease'[d] = lease[d] \/ lease'[d] \in Left
      BY <1>1
         DEF RecoveryStep, InspectLock, Scan, ClaimLock, FinishRecovery, TakeArtifact,
             TakeLease,
             PreserveLease, MarkIndex, RecordRef, RecordRecovered, Salvage, RecoverWorktree,
             EmptyBox, RetireLease, RenameLease, CutLease, FinishLease, files_vars, CallsOK,
             Left
    <3> QED
      BY <3>1 DEF Reserved, Left
  <2> QED
    BY <1>2, <2>1, AdmissionKept DEF IInv
<1> QED
  BY <1>4, <1>6, <1>7, <1>9, <1>10, <1>11, <1>12 DEF IInv

----------------------------------------------------------------------------
(* Deaths keep the invariant, and it holds at first.                        *)

\* The death or the exit of a process keeps the invariant: what it leaves is what
\* a recovery expects.
LEMMA DeathInvariant ==
    ASSUME IInv, Death
    PROVE  IInv'
<1>1. CallsOK /\ RecoveriesOK /\ WorldOK /\ LockOK /\ LockInv /\ ProcessInv
  BY TypeParts DEF IInv
<1>2. UNCHANGED <<head, files_vars, baseline, noted, snap, child, job, scan, artifacts>>
  BY DEF Death, CrashOwner, CrashRecovery, Exit, Crash, owner_vars, recovery_vars
<1>3. /\ crashes' \in Nat /\ alive' \subseteq alive
      /\ lock' = lock \/ (lock = Free /\ lock' \in Actors \cup {Free, Broken})
  BY <1>1, ActorsAssumption
     DEF Death, CrashOwner, CrashRecovery, Exit, Crash, LockLeftBy, WorldOK
<1> DEFINE Stopped ==
             /\ pc' \in [Calls -> Stages]
             /\ \A c \in Calls : /\ pc'[c] = pc[c] \/ pc'[c] = "dead"
                                 /\ OwnerOf[c] \notin alive' => pc'[c] \in Terminal
                                 /\ pc'[c] = "dead" => OwnerOf[c] \notin alive'
<1>4. Stopped
  <2>1. ASSUME NEW p \in Actors, CrashOwner(p) PROVE Stopped
    BY <1>1, <2>1 DEF CrashOwner, Crash, CallsOK, ProcessInv, Stages, Terminal
  <2>2. ASSUME NEW p \in Actors, CrashRecovery(p) PROVE Stopped
    BY <1>1, <2>2, CallsAssumption, ActorsAssumption
       DEF CrashRecovery, Crash, CallsOK, ProcessInv
  <2>3. ASSUME NEW p \in Actors, Exit(p) PROVE Stopped
    BY <1>1, <2>3 DEF Exit, owner_vars, CallsOf, CallsOK, ProcessInv
  <2> QED
    BY <2>1, <2>2, <2>3 DEF Death
<1>5. /\ rpc' \in [Recoveries -> RecoveryStages]
      /\ \A r \in Recoveries : /\ rpc'[r] = rpc[r] \/ rpc'[r] = "dead"
                               /\ r \notin alive' => rpc'[r] = "dead"
  BY <1>1, ActorsAssumption
     DEF Death, CrashOwner, CrashRecovery, Exit, Crash, recovery_vars, RecoveriesOK, ProcessInv,
         RecoveryStages
<1>6. TypeOK'
  BY <1>1, <1>2, <1>3, <1>4, <1>5 DEF TypeOK, CallsOK, RecoveriesOK, WorldOK, LockOK, files_vars
<1>7. LockInv'
  <2>1. \A c \in Calls : OwnerOf[c] # Free
    BY CallsAssumption, ActorsAssumption DEF Actors
  <2>2. \A r \in Recoveries : r # Free
    BY ActorsAssumption DEF Actors
  <2> QED
    BY <1>1, <1>3, <1>4, <1>5, <2>1, <2>2 DEF LockInv, HoldingStages, HoldingRecovery, JobStages
<1>8. ProcessInv'
  BY <1>1, <1>4, <1>5
     DEF ProcessInv, Synchronous, SetupStages, LaunchStages, FinalStages, Terminal
<1>9. ASSUME NEW c \in Calls PROVE CallInv(c)' /\ (Quiet(c) => Quiet(c)')
  <2>1. LeaseInv(c)' /\ (Quiet(c) => Quiet(c)')
    BY <1>2, <1>3 DEF IInv, CallInv, LeaseInv, Quiet, Engaged, Intact, Ready, Salvageable,
                      BoxKnown, WithMarker, Unfinished, files_vars
  <2>2. CASE pc'[c] = "dead"
    BY <2>1, <2>2 DEF CallInv, SetupInv, LaunchInv, FinalInv, SetupStages, FinalStages
  <2>3. CASE pc'[c] = pc[c]
    BY <1>2, <2>1, <2>3 DEF IInv, CallInv, SetupInv, LaunchInv, FinalInv, Intact, Ready,
       files_vars
  <2> QED
    BY <1>4, <2>1, <2>2, <2>3
<1>10. ScanInv'
  BY <1>2, <1>9, TypeParts DEF IInv, ScanInv, ScanShape, CopyInv, RecoveriesOK, files_vars
<1>11. \A r \in Recoveries : JobInv(r)'
  <2> SUFFICES ASSUME NEW r \in Recoveries PROVE JobInv(r)'
    OBVIOUS
  <2>1. JobInv(r)
    BY DEF IInv
  <2> QED
    BY <1>2, <1>5, <2>1 DEF JobInv, JobStages, files_vars
<1>12. AdmissionInv'
  BY <1>2, <1>4, AdmissionKept DEF IInv, Reserved, files_vars
<1> QED
  BY <1>6, <1>7, <1>8, <1>9, <1>10, <1>11, <1>12 DEF IInv

\* So do a commit of the user and a step of something else.
LEMMA IdleInvariant ==
    ASSUME IInv, RootCommits \/ UNCHANGED vars
    PROVE  IInv'
<1>1. UNCHANGED <<lock, alive, crashes, files_vars, owner_vars, child, recovery_vars>>
      /\ head' \in Nat
  BY TypeParts DEF RootCommits, vars, IInv, WorldOK
<1>2. TypeOK'
  BY <1>1 DEF IInv, TypeOK, files_vars, owner_vars, recovery_vars
<1>3. LockInv' /\ ProcessInv'
  BY <1>1 DEF IInv, LockInv, ProcessInv, owner_vars, recovery_vars
<1>4. \A c \in Calls : Untouched(c)
  BY <1>1 DEF Untouched, files_vars, owner_vars
<1>5. \A c \in Calls : CallInv(c)'
  BY <1>1, <1>4, UntouchedCall DEF IInv
<1>6. ScanInv'
  BY <1>1, TypeParts
     DEF IInv, ScanInv, ScanShape, CopyInv, Quiet, Engaged, RecoveriesOK, files_vars,
         recovery_vars
<1>7. \A r \in Recoveries : JobInv(r)'
  BY <1>1 DEF IInv, JobInv, files_vars, recovery_vars
<1>8. AdmissionInv'
  BY <1>1, AdmissionKept DEF IInv, Reserved, files_vars, owner_vars
<1> QED
  BY <1>2, <1>3, <1>5, <1>6, <1>7, <1>8 DEF IInv

\* Nothing is reserved, claimed or running at first.
LEMMA InitialInvariant == Init => IInv
<1> SUFFICES ASSUME Init PROVE IInv
  OBVIOUS
<1> USE DEF Init
<1>1. FreshRecord \in Record
  BY DEF FreshRecord, Record, Idents
<1>2. DOMAIN NoScan = {} /\ NoScan = [c \in DOMAIN NoScan |-> NoScan[c]]
  BY DEF NoScan
<1>3. TypeOK
  BY <1>1, <1>2, BoundsAssumption DEF TypeOK, Stages, RecoveryStages
<1>4. LockInv /\ ProcessInv
  BY CallsAssumption
     DEF LockInv, ProcessInv, HoldingStages, HoldingRecovery, JobStages, Synchronous,
         SetupStages,
         LaunchStages, FinalStages, Actors
<1>5. ScanInv
  BY <1>2 DEF ScanInv, ScanShape
<1>6. \A c \in Calls : CallInv(c)
  BY DEF CallInv, LeaseInv, SetupInv, LaunchInv, FinalInv, Engaged, SetupStages, FinalStages,
     Left
<1>7. \A r \in Recoveries : JobInv(r)
  BY DEF JobInv, JobStages
<1>8. AdmissionInv
  <2>1. ReservedCalls = {}
    BY DEF ReservedCalls, Reserved
  <2>2. IsFiniteSet({}) /\ Cardinality({}) = 0
    BY FS_EmptySet
  <2> QED
    BY <2>1, <2>2, BoundsAssumption DEF AdmissionInv, Reserved
<1> QED
  BY <1>3, <1>4, <1>5, <1>6, <1>7, <1>8 DEF IInv

\* The inductive invariant holds of the registry, whoever is killed and whatever fails.
THEOREM InductiveInvariant == Spec => []IInv
<1>1. IInv /\ [Next]_vars => IInv'
  BY OwnerInvariant, ChildInvariant, RecoveryInvariant, DeathInvariant, IdleInvariant DEF Next
<1> QED
  BY <1>1, InitialInvariant, PTL DEF Spec

\* Every variable of the registry has its type.
THEOREM TypeInvariant == Spec => []TypeOK
  BY InductiveInvariant, PTL DEF IInv

\* A child that works keeps its worktree and its lease, whatever other owners and
\* recoveries do, and whether or not its own owner lives.
THEOREM LiveChildTheorem == Spec => []LiveChildUndisturbed
<1>1. IInv => LiveChildUndisturbed
  BY DEF IInv, CallInv, LeaseInv, Engaged, Intact, Ready, LiveChildUndisturbed
<1> QED
  BY <1>1, InductiveInvariant, PTL

\* A container or a worktree always has an active lease by which a recovery finds it.
THEOREM OrphanTheorem == Spec => []NothingOrphaned
<1>1. IInv => NothingOrphaned
  BY DEF IInv, CallInv, LeaseInv, NothingOrphaned
<1> QED
  BY <1>1, InductiveInvariant, PTL

\* Whenever the gate or the child of an active lease is no longer at work, a recovery
\* would accept what is there: worktree, index, ref, record and container fit.
THEOREM SalvageTheorem == Spec => []WorkSalvageable
<1>1. IInv => WorkSalvageable
  BY DEF IInv, CallInv, LeaseInv, Salvageable, WorkSalvageable
<1> QED
  BY <1>1, InductiveInvariant, PTL

\* A recovery touches only leases of the dead.
LEMMA RecoveryTouchesDead ==
    ASSUME IInv, NEW r \in Recoveries, RecoveryStep(r), NEW c \in Calls, OwnerOf[c] \in alive
    PROVE  Untouched(c)
<1>1. CallsOK /\ JobInv(r)
  BY TypeParts DEF IInv
<1>2. rpc[r] \in JobStages => Quiet(job[r])
  BY <1>1 DEF IInv, JobInv, ScanInv, CopyInv
<1>3. rpc[r] \in JobStages => job[r] # c
  BY <1>2 DEF Quiet
<1> QED
  BY <1>1, <1>3, RecoveryUntouched

\* No step of a recovery, of another owner or of a death changes the lease, the record,
\* the container or the ref of a call whose owner lives; its worktree is changed by its
\* own child only.
THEOREM OwnersTheorem == Spec => OwnersUndisturbed
<1> DEFINE Kept(c) == /\ lease'[c] = lease[c] /\ disk'[c] = disk[c]
                      /\ box'[c] = box[c] /\ ref'[c] = ref[c]
                      /\ tree'[c] # tree[c] => child[c] = "working"
<1>1. ASSUME IInv, [Next]_vars, NEW c \in Calls, OwnerOf[c] \in alive, ~OwnerStep(c)
      PROVE  Kept(c)
  <2>1. CASE Untouched(c)
    BY <2>1 DEF Untouched
  <2>2. ASSUME NEW d \in Calls \ {c}, OwnerStep(d) \/ ChildStep(d) PROVE Untouched(c)
    BY <1>1, <2>2, OwnerUntouched, TypeParts DEF IInv
  <2>3. CASE ChildStep(c)
    BY <2>3 DEF ChildStep, GateExec, GateExit, ChildEdit, ChildEnd, files_vars
  <2>4. ASSUME NEW r \in Recoveries, RecoveryStep(r) PROVE Untouched(c)
    BY <1>1, <2>4, RecoveryTouchesDead
  <2>5. CASE Death \/ RootCommits \/ UNCHANGED vars
    BY <2>5 DEF Death, CrashOwner, CrashRecovery, Exit, Crash, RootCommits, vars, files_vars
  <2> QED
    BY <1>1, <2>1, <2>2, <2>3, <2>4, <2>5 DEF Next
<1>2. IInv /\ [Next]_vars =>
        [\A c \in Calls : OwnerOf[c] \in alive /\ ~OwnerStep(c) => Kept(c)]_vars
  BY <1>1
<1> QED
  BY <1>2, InductiveInvariant, PTL DEF Spec, OwnersUndisturbed

----------------------------------------------------------------------------
(* The registry implements what it promises of attempted work.              *)

\* What an owner does to a worktree and its ref.
LEMMA OwnerAttempt ==
    ASSUME IInv, NEW c \in Calls, OwnerStep(c)
    PROVE  UNCHANGED <<tree, ref>> \/ Attempts!Begin(c) \/ Attempts!Save(c) \/ Attempts!Drop(c)
<1>1. CallInv(c) /\ CallsOK
  BY TypeParts DEF IInv
<1>2. CASE AddWorktree(c)
  BY <1>1, <1>2 DEF AddWorktree, Turn, CallInv, SetupInv, SetupStages, Attempts!Begin,
                    Attempts!Baseline
<1>3. CASE CreateRef(c)
  BY <1>1, <1>3 DEF CreateRef, Turn, CallInv, FinalInv, Ready, Attempts!Save
<1>4. CASE DiscardWorkspace(c)
  BY <1>1, <1>4 DEF DiscardWorkspace, Turn, CallInv, SetupInv, Attempts!Drop, Attempts!Baseline
<1>5. CASE RemoveWorktree(c)
  BY <1>1, <1>5 DEF RemoveWorktree, Turn, CallInv, FinalInv, Attempts!Drop
<1> QED
  BY <1>2, <1>3, <1>4, <1>5
     DEF OwnerStep, Discover, Reserve, CreateLease, CompleteLease, ReserveFails, RecordPaths,
         MakeBox, MarkBox, MarkerFails, PersistBox, PersistWorktree, CreateConfinement,
         PersistConfinement, SetupFails, DropLease, RetireDropped, DiscardFails, PrepareLaunch, SpawnGate, NoteChildPid,
         PublishPid, NoteLaunchReady, LaunchFails, ChildClosed, OwnIndex, StageSnapshot,
         TakeSnapshot, PersistVerified, CompareTree, RecordRemoval, RemoveContainer,
         RemoveLease, FinalizationFails, RenameLease, CutLease, FinishLease, files_vars

\* What a recovery does to them.
LEMMA RecoveryAttempt ==
    ASSUME IInv, NEW r \in Recoveries, RecoveryStep(r)
    PROVE  UNCHANGED <<tree, ref>> \/ \E c \in Calls : Attempts!Save(c) \/ Attempts!Drop(c)
<1>1. CallsOK /\ JobInv(r) /\ RecoveriesOK
  BY TypeParts DEF IInv
<1>2. CASE Salvage(r)
  <2>1. PICK c \in Calls : c = job[r]
    BY <1>1, <1>2 DEF Salvage, At, JobInv, JobStages, RecoveriesOK
  <2>2. Attempts!Save(c)
    BY <1>1, <1>2, <2>1 DEF Salvage, At, JobInv, Attempts!Save
  <2> QED
    BY <2>2
<1>3. CASE RecoverWorktree(r)
  <2>1. PICK c \in Calls : c = job[r]
    BY <1>1, <1>3 DEF RecoverWorktree, At, JobInv, JobStages, RecoveriesOK
  <2>2. Attempts!Drop(c)
    BY <1>1, <1>3, <2>1 DEF RecoverWorktree, At, JobInv, Attempts!Drop
  <2> QED
    BY <2>2
<1> QED
  BY <1>2, <1>3
     DEF RecoveryStep, InspectLock, Scan, ClaimLock, FinishRecovery, TakeArtifact, TakeLease,
         PreserveLease, MarkIndex, RecordRef, RecordRecovered, EmptyBox, RetireLease,
         RenameLease, CutLease, FinishLease, files_vars

\* The registry implements AttemptedWork: work that was attempted is in its worktree or
\* in its ref, and nobody writes once the ref holds it.
THEOREM AttemptTheorem == Spec => AttemptSpec
<1>1. Init => Attempts!Init
  BY DEF Init, Attempts!Init
<1>2. ASSUME IInv, [Next]_vars PROVE [Attempts!Next]_<<tree, ref>>
  <2>1. ASSUME NEW c \in Calls, OwnerStep(c) PROVE [Attempts!Next]_<<tree, ref>>
    BY <1>2, <2>1, OwnerAttempt DEF Attempts!Next
  <2>2. ASSUME NEW c \in Calls, ChildStep(c) PROVE [Attempts!Next]_<<tree, ref>>
    <3>1. UNCHANGED <<tree, ref>> \/ Attempts!Edit(c)
      BY <1>2, <2>2 DEF ChildStep, GateExec, GateExit, ChildEdit, ChildEnd, files_vars, IInv,
                        CallInv, LeaseInv, Engaged, Intact, Ready, Attempts!Edit
    <3> QED
      BY <3>1 DEF Attempts!Next
  <2>3. ASSUME NEW r \in Recoveries, RecoveryStep(r) PROVE [Attempts!Next]_<<tree, ref>>
    BY <1>2, <2>3, RecoveryAttempt DEF Attempts!Next
  <2>4. CASE Death \/ RootCommits \/ UNCHANGED vars
    BY <2>4 DEF Death, CrashOwner, CrashRecovery, Exit, Crash, RootCommits, vars, files_vars
  <2> QED
    BY <1>2, <2>1, <2>2, <2>3, <2>4 DEF Next
<1> QED
  BY <1>1, <1>2, InductiveInvariant, PTL DEF Spec, AttemptSpec, Attempts!Spec

----------------------------------------------------------------------------
(* Scopes that contain one file overlap.                                    *)

\* Any set of numbers has a least one.
LEMMA LeastNumber ==
    ASSUME NEW T \in SUBSET Nat, T # {}
    PROVE  \E n \in T : \A m \in T : n <= m
<1>1. PICK n \in T : \A m \in T : ~(<<m, n>> \in OpToRel(<, Nat))
  BY NatLessThanWellFounded, WFMin
<1>2. \A m \in T : ~(m < n)
  BY <1>1 DEF OpToRel
<1> QED
  BY <1>2

\* One component of a path joins what the components before it resolve to.
Join(before, component) ==
    LET last == Len(before)
    IN  CASE component = "." -> before
          [] component = ".." /\ last > 0 /\ before[last] # ".." -> SubSeq(before, 1, last - 1)
          [] OTHER -> Append(before, component)

\* f resolves every prefix of a path.
Resolves(f, path) ==
    f = [n \in 0 .. Len(path) |-> IF n = 0 THEN <<>> ELSE Join(f[n - 1], path[n])]

\* Resolve is such a function, at the whole path.
LEMMA ResolveDefinition ==
    ASSUME NEW path
    PROVE  Resolve(path) = (CHOOSE f : Resolves(f, path))[Len(path)]
  BY DEF Resolve, Resolves, Join

\* What a component joins is a path again.
LEMMA JoinType ==
    ASSUME NEW before \in Seq(Components), NEW component \in Components
    PROVE  Join(before, component) \in Seq(Components)
<1>1. CASE component = "."
  BY <1>1 DEF Join
<1>2. CASE component # "." /\ component = ".." /\ Len(before) > 0 /\ before[Len(before)] # ".."
  <2>1. Join(before, component) = SubSeq(before, 1, Len(before) - 1)
    BY <1>2 DEF Join
  <2>2. \A i \in 1 .. Len(before) - 1 : before[i] \in Components
    OBVIOUS
  <2> QED
    BY <1>2, <2>1, <2>2
<1>3. CASE component # "." /\ ~(component = ".." /\ Len(before) > 0 /\ before[Len(before)] # "..")
  BY <1>3 DEF Join
<1> QED
  BY <1>1, <1>2, <1>3

\* There is such an f: it can be made for one prefix after the other.
LEMMA Resolvable ==
    ASSUME NEW path \in Seq(Components)
    PROVE  \E f : Resolves(f, path)
<1> DEFINE Upto(f, k) == \A n \in 0 .. k : f[n] = IF n = 0 THEN <<>> ELSE Join(f[n - 1], path[n])
           T == {k \in 0 .. Len(path) : ~\E f \in [0 .. k -> Seq(Components)] : Upto(f, k)}
<1>0. Len(path) \in Nat /\ <<>> \in Seq(Components)
  OBVIOUS
<1>1. SUFFICES Len(path) \notin T
  <2>1. PICK f \in [0 .. Len(path) -> Seq(Components)] : Upto(f, Len(path))
    BY <1>0, <1>1
  <2>2. f = [n \in 0 .. Len(path) |-> f[n]]
    OBVIOUS
  <2> QED
    BY <2>1, <2>2 DEF Resolves
<1>2. SUFFICES ASSUME T # {} PROVE FALSE
  BY <1>2
<1>a. T \in SUBSET Nat
  BY <1>0
<1> HIDE DEF T
<1>3. PICK k \in T : \A m \in T : k <= m
  BY <1>2, <1>a, LeastNumber
<1>b. k \in 0 .. Len(path)
  BY DEF T
<1>4. CASE k = 0
  <2> DEFINE f == [n \in 0 .. 0 |-> <<>>]
  <2>1. f \in [0 .. 0 -> Seq(Components)] /\ Upto(f, 0)
    BY <1>0
  <2> QED
    BY <1>4, <2>1 DEF T
<1>5. CASE k # 0
  <2>1. k \in 1 .. Len(path) /\ k - 1 \in 0 .. Len(path) /\ k - 1 \notin T
    BY <1>0, <1>3, <1>b, <1>5
  <2>2. PICK f \in [0 .. k - 1 -> Seq(Components)] : Upto(f, k - 1)
    BY <2>1 DEF T
  <2> DEFINE g == [n \in 0 .. k |-> IF n = k THEN Join(f[k - 1], path[k]) ELSE f[n]]
  <2>3. Join(f[k - 1], path[k]) \in Seq(Components)
    <3>1. f[k - 1] \in Seq(Components) /\ path[k] \in Components
      BY <1>0, <2>1, <2>2
    <3> QED
      BY <3>1, JoinType
  <2>4. g \in [0 .. k -> Seq(Components)]
    BY <2>1, <2>3
  <2>5. \A n \in 0 .. k : g[n] = IF n = 0 THEN <<>> ELSE Join(g[n - 1], path[n])
    <3> SUFFICES ASSUME NEW n \in 0 .. k
                 PROVE  g[n] = IF n = 0 THEN <<>> ELSE Join(g[n - 1], path[n])
      OBVIOUS
    <3>1. CASE n = k
      BY <2>1, <3>1
    <3>2. CASE n # k
      <4>1. n \in 0 .. k - 1 /\ g[n] = f[n]
        BY <1>0, <2>1, <3>2
      <4>2. n # 0 => n - 1 \in 0 .. k /\ n - 1 # k /\ g[n - 1] = f[n - 1]
        BY <1>0, <2>1, <3>2
      <4>3. f[n] = IF n = 0 THEN <<>> ELSE Join(f[n - 1], path[n])
        BY <2>2, <4>1
      <4> QED
        BY <4>1, <4>2, <4>3
    <3> QED
      BY <3>1, <3>2
  <2> QED
    BY <2>4, <2>5 DEF T
<1> QED
  BY <1>4, <1>5

\* Every prefix resolves to a path ...
LEMMA ResolvedPrefixes ==
    ASSUME NEW path \in Seq(Components), NEW f, Resolves(f, path)
    PROVE  \A n \in 0 .. Len(path) : f[n] \in Seq(Components)
<1> DEFINE T == {n \in 0 .. Len(path) : f[n] \notin Seq(Components)}
<1>0. Len(path) \in Nat /\ <<>> \in Seq(Components)
  OBVIOUS
<1>1. SUFFICES ASSUME T # {} PROVE FALSE
  BY <1>1
<1>a. T \in SUBSET Nat
  BY <1>0
<1> HIDE DEF T
<1>2. PICK k \in T : \A m \in T : k <= m
  BY <1>1, <1>a, LeastNumber
<1>b. k \in 0 .. Len(path)
  BY DEF T
<1>3. f[k] = IF k = 0 THEN <<>> ELSE Join(f[k - 1], path[k])
  BY <1>b DEF Resolves
<1>4. CASE k = 0
  BY <1>0, <1>3, <1>4 DEF T
<1>5. CASE k # 0
  <2>1. k \in 1 .. Len(path) /\ k - 1 \notin T
    BY <1>0, <1>2, <1>b, <1>5
  <2>2. f[k - 1] \in Seq(Components) /\ path[k] \in Components
    BY <1>0, <2>1 DEF T
  <2>3. Join(f[k - 1], path[k]) \in Seq(Components)
    BY <2>2, JoinType
  <2> QED
    BY <1>3, <1>5, <2>3 DEF T
<1> QED
  BY <1>4, <1>5

\* ... and so does the whole.
LEMMA ResolveType ==
    ASSUME NEW path \in Seq(Components)
    PROVE  Resolve(path) \in Seq(Components)
<1>1. Resolves(CHOOSE f : Resolves(f, path), path)
  BY Resolvable
<1> QED
  BY <1>1, ResolvedPrefixes, ResolveDefinition

\* A prefix of names resolves to itself.
LEMMA PlainPrefixes ==
    ASSUME NEW path \in Seq(Names), NEW f, Resolves(f, path)
    PROVE  \A n \in 0 .. Len(path) : f[n] = SubSeq(path, 1, n)
<1> DEFINE T == {n \in 0 .. Len(path) : f[n] # SubSeq(path, 1, n)}
<1>0. Len(path) \in Nat
  OBVIOUS
<1>1. SUFFICES ASSUME T # {} PROVE FALSE
  BY <1>1
<1>a. T \in SUBSET Nat
  BY <1>0
<1> HIDE DEF T
<1>2. PICK k \in T : \A m \in T : k <= m
  BY <1>1, <1>a, LeastNumber
<1>b. k \in 0 .. Len(path)
  BY DEF T
<1>3. f[k] = IF k = 0 THEN <<>> ELSE Join(f[k - 1], path[k])
  BY <1>b DEF Resolves
<1>4. CASE k = 0
  <2>1. SubSeq(path, 1, 0) = <<>>
    BY SubSeqEmpty, SubSeqProperties
  <2> QED
    BY <1>3, <1>4, <2>1 DEF T
<1>5. CASE k # 0
  <2>0. k \in 1 .. Len(path) /\ k - 1 \notin T
    BY <1>0, <1>2, <1>b, <1>5
  <2>1. k \in 1 .. Len(path) /\ f[k - 1] = SubSeq(path, 1, k - 1)
    BY <1>0, <2>0 DEF T
  <2>2. path[k] \notin {".", ".."}
    <3>1. path[k] \in Names
      BY <2>1
    <3> QED
      BY <3>1, NamesAssumption
  <2>3. Join(f[k - 1], path[k]) = Append(f[k - 1], path[k])
    BY <2>2 DEF Join
  <2>4. Append(SubSeq(path, 1, k - 1), path[k]) = SubSeq(path, 1, k)
    BY <2>1
  <2> QED
    BY <1>3, <1>5, <2>1, <2>3, <2>4 DEF T
<1> QED
  BY <1>4, <1>5

\* A path of names only is in order as it stands.
LEMMA ResolvePlain ==
    ASSUME NEW path \in Seq(Names)
    PROVE  Resolve(path) = path
<1>1. path \in Seq(Components)
  BY DEF Components
<1>2. Resolves(CHOOSE f : Resolves(f, path), path)
  BY <1>1, Resolvable
<1>3. SubSeq(path, 1, Len(path)) = path
  OBVIOUS
<1> QED
  BY <1>2, <1>3, PlainPrefixes, ResolveDefinition

\* The entry of a plain path: names only, and no slash at its end.
Plain(entry) == entry \in [path : Seq(Names), slash : {FALSE}]

\* The normal form of an entry is an entry.
LEMMA NormalType ==
    ASSUME NEW e \in Entry
    PROVE  Normal(e) \in Entry
<1>1. Resolve(e.path) \in Seq(Components)
  BY ResolveType DEF Entry
<1> QED
  BY <1>1 DEF Normal, Entry

\* A plain entry is in normal form.
LEMMA NormalPlain ==
    ASSUME NEW e, Plain(e)
    PROVE  Normal(e) = e
<1>1. Resolve(e.path) = e.path
  BY ResolvePlain DEF Plain
<1> QED
  BY <1>1 DEF Normal, Plain

\* What contains a file of names is plain, and is the file or a directory above it.
LEMMA OwnerOfFile ==
    ASSUME NEW names \in Seq(Names), NEW owner \in Entry,
           IsWithin([path |-> names, slash |-> FALSE], owner)
    PROVE  /\ Plain(owner) /\ Len(owner.path) <= Len(names)
           /\ \A i \in 1 .. Len(owner.path) : owner.path[i] = names[i]
<1> DEFINE f == [path |-> names, slash |-> FALSE]
<1>1. Normal(f) = f /\ f.path = names /\ ~f.slash
  <2>1. Plain(f)
    BY DEF Plain
  <2> QED
    BY <2>1, NormalPlain
<1>2. Len(names) \in Nat /\ owner.path \in Seq(Components) /\ owner.slash \in BOOLEAN
  BY DEF Entry
<1>3. CASE owner = Everything
  <2>1. owner.path = <<>> /\ Len(owner.path) = 0 /\ <<>> \in Seq(Names)
    BY <1>3 DEF Everything
  <2>2. Plain(owner)
    BY <1>3, <2>1 DEF Everything, Plain
  <2>3. \A i \in 1 .. Len(owner.path) : FALSE
    BY <2>1
  <2> QED
    BY <1>2, <2>1, <2>2, <2>3
<1>4. CASE owner = f
  BY <1>2, <1>4 DEF Plain
<1>5. CASE Beneath(f, owner)
  <2>1. /\ ~owner.slash /\ Len(owner.path) <= Len(names)
        /\ SubSeq(names, 1, Len(owner.path)) = owner.path
    BY <1>1, <1>5 DEF Beneath
  <2>2. Len(owner.path) \in Nat /\ \A i \in 1 .. Len(owner.path) : names[i] \in Names
    BY <1>2, <2>1
  <2>3. /\ SubSeq(names, 1, Len(owner.path)) \in Seq(Names)
        /\ \A i \in 1 .. Len(owner.path) : SubSeq(names, 1, Len(owner.path))[i] = names[i]
    BY <2>2, SubSeqProperties
  <2>4. owner = [path |-> owner.path, slash |-> owner.slash]
    BY DEF Entry
  <2> QED
    BY <1>2, <2>1, <2>3, <2>4 DEF Plain
<1> QED
  BY <1>1, <1>3, <1>4, <1>5 DEF IsWithin

\* Folding keeps a plain entry whose names fold to names plain, and folds it name
\* by name.
LEMMA FoldedPlain ==
    ASSUME NEW e, Plain(e), \A i \in 1 .. Len(e.path) : Fold[e.path[i]] \in Names
    PROVE  /\ Plain(Folded(e)) /\ Len(Folded(e).path) = Len(e.path)
           /\ \A i \in 1 .. Len(e.path) : Folded(e).path[i] = Fold[e.path[i]]
<1> DEFINE path == [i \in DOMAIN e.path |-> Fold[e.path[i]]]
<1>1. e.path \in Seq(Names) /\ e = [path |-> e.path, slash |-> FALSE]
  BY DEF Plain
<1>2. DOMAIN e.path = 1 .. Len(e.path) /\ Len(e.path) \in Nat
  BY <1>1
<1>3. path \in [1 .. Len(e.path) -> Names]
  BY <1>1, <1>2
<1>4. path \in Seq(Names) /\ Len(path) = Len(e.path)
  <2> HIDE DEF path
  <2>1. path \in Seq(Names)
    BY <1>2, <1>3, SeqDef
  <2>2. 1 .. Len(path) = 1 .. Len(e.path) /\ Len(path) \in Nat
    BY <1>3, <2>1, LenProperties
  <2>3. ASSUME NEW m \in Nat, NEW n \in Nat, 1 .. m = 1 .. n PROVE ~(m < n)
    <3> SUFFICES ASSUME m < n PROVE FALSE
      OBVIOUS
    <3>1. n \in 1 .. n
      OBVIOUS
    <3>2. n \in 1 .. m
      BY <2>3, <3>1, Zenon
    <3> QED
      BY <3>2
  <2> QED
    BY <1>2, <2>1, <2>2, <2>3
<1>5. Folded(e) = [path |-> path, slash |-> FALSE]
  <2>1. Folded(e) = [e EXCEPT !.path = path]
    BY DEF Folded
  <2> HIDE DEF path
  <2> QED
    BY <1>1, <1>4, <2>1 DEF Plain
<1> QED
  BY <1>5, <1>2, <1>4 DEF Plain

\* A plain path that another begins with, up to the folding, contains it.
LEMMA FoldedWithin ==
    ASSUME NEW l, NEW r, Plain(l), Plain(r), Len(r.path) <= Len(l.path),
           \A i \in 1 .. Len(l.path) : Fold[l.path[i]] \in Names \ {".git"},
           \A i \in 1 .. Len(r.path) : Fold[r.path[i]] = Fold[l.path[i]]
    PROVE  IsWithin(Folded(l), Folded(r))
<1> DEFINE L == Folded(l)
           R == Folded(r)
<1>0. /\ \A i \in 1 .. Len(l.path) : Fold[l.path[i]] \in Names
      /\ \A i \in 1 .. Len(r.path) : Fold[r.path[i]] \in Names
  <2>1. Len(r.path) \in Nat /\ Len(l.path) \in Nat
    BY DEF Plain
  <2> QED
    BY <2>1
<1>1. /\ Plain(L) /\ Plain(R) /\ Normal(L) = L
      /\ Len(L.path) = Len(l.path) /\ Len(R.path) = Len(r.path)
  BY <1>0, FoldedPlain, NormalPlain
<1>a. Accepted(L)
  <2>1. L.path \in Seq(Names) /\ Len(L.path) \in Nat /\ Resolve(L.path) = L.path
    BY <1>1, ResolvePlain DEF Plain
  <2>2. ASSUME NEW i \in DOMAIN L.path PROVE L.path[i] \notin {"..", ".git"}
    <3>1. i \in 1 .. Len(l.path)
      BY <1>1, <2>1
    <3>2. L.path[i] = Fold[l.path[i]]
      BY <1>0, <3>1, FoldedPlain
    <3>3. L.path[i] \in Names \ {".git"}
      BY <3>1, <3>2
    <3> QED
      BY <3>3, NamesAssumption
  <2> QED
    BY <2>1, <2>2 DEF Accepted
<1>2. /\ L.path \in Seq(Names) /\ R.path \in Seq(Names) /\ ~L.slash /\ ~R.slash
      /\ L = [path |-> L.path, slash |-> FALSE] /\ R = [path |-> R.path, slash |-> FALSE]
  BY <1>1 DEF Plain
<1>3. \A i \in 1 .. Len(R.path) : R.path[i] = L.path[i]
  <2> SUFFICES ASSUME NEW i \in 1 .. Len(R.path) PROVE R.path[i] = L.path[i]
    OBVIOUS
  <2>1. Len(r.path) \in Nat /\ Len(l.path) \in Nat
    BY DEF Plain
  <2>2. i \in 1 .. Len(r.path) /\ i \in 1 .. Len(l.path)
    BY <1>1, <2>1
  <2> QED
    BY <1>0, <2>2, FoldedPlain
<1> HIDE DEF L, R
<1>4. Len(L.path) \in Nat /\ Len(R.path) \in Nat /\ Len(R.path) <= Len(L.path)
  BY <1>1, <1>2
<1>5. SubSeq(L.path, 1, Len(R.path)) = R.path
  <2>1. \A i \in 1 .. Len(R.path) : L.path[i] \in Names
    BY <1>2, <1>4
  <2>2. /\ SubSeq(L.path, 1, Len(R.path)) \in Seq(Names)
        /\ Len(SubSeq(L.path, 1, Len(R.path))) = Len(R.path)
        /\ \A i \in 1 .. Len(R.path) : SubSeq(L.path, 1, Len(R.path))[i] = L.path[i]
    BY <1>4, <2>1, SubSeqProperties
  <2> QED
    BY <1>2, <1>3, <1>4, <2>2, SeqEqual
<1>6. CASE Len(R.path) = Len(L.path)
  <2>1. R.path = L.path
    BY <1>2, <1>3, <1>6, SeqEqual
  <2> QED
    BY <1>1, <1>2, <1>a, <2>1 DEF IsWithin, L, R
<1>7. CASE R.path = <<>>
  BY <1>2, <1>7, <1>a DEF IsWithin, Everything, L, R
<1>8. CASE R.path # <<>> /\ Len(R.path) # Len(L.path)
  <2>1. Beneath(L, R)
    BY <1>2, <1>4, <1>5, <1>8 DEF Beneath
  <2> QED
    BY <1>1, <1>a, <2>1 DEF IsWithin, L, R
<1> QED
  BY <1>6, <1>7, <1>8

\* An entry of a declared scope is the normal form of one that was asked for.
LEMMA ScopeEntry ==
    ASSUME NEW c \in Calls, NEW owner \in Scope[c]
    PROVE  owner \in Entry
<1>1. PICK e \in Request[c] : owner = Normal(e)
  BY DEF Scope, NormalizeScope
<1>2. e \in Entry
  BY CallsAssumption
<1> QED
  BY <1>1, <1>2, NormalType

\* Scopes that contain one file that can be compared, up to the folding, overlap.
LEMMA CollisionOverlaps ==
    ASSUME NEW c \in Calls, NEW e \in Calls, Collide(c, e)
    PROVE  <<c, e>> \in Overlaps
<1>1. PICK p \in Writable[c], q \in Writable[e] : SameFile(p, q) /\ Comparable(p)
  BY DEF Collide
<1>2. /\ p \in Seq(Names) /\ q \in Seq(Names)
      /\ MayWrite(p, Scope[c]) /\ MayWrite(q, Scope[e])
  BY CallsAssumption DEF Writable
<1>3. PICK l \in Scope[c] : IsWithin([path |-> p, slash |-> FALSE], l)
  BY <1>2 DEF MayWrite
<1>4. PICK r \in Scope[e] : IsWithin([path |-> q, slash |-> FALSE], r)
  BY <1>2 DEF MayWrite
<1>5. /\ Plain(l) /\ Len(l.path) <= Len(p)
      /\ \A i \in 1 .. Len(l.path) : l.path[i] = p[i]
  BY <1>2, <1>3, ScopeEntry, OwnerOfFile
<1>6. /\ Plain(r) /\ Len(r.path) <= Len(q)
      /\ \A i \in 1 .. Len(r.path) : r.path[i] = q[i]
  BY <1>2, <1>4, ScopeEntry, OwnerOfFile
<1>7. /\ Len(l.path) \in Nat /\ Len(r.path) \in Nat /\ Len(p) \in Nat /\ Len(q) = Len(p)
      /\ \A i \in 1 .. Len(p) : Fold[p[i]] = Fold[q[i]]
  BY <1>1, <1>2, <1>5, <1>6 DEF SameFile, Plain
<1>a. /\ \A i \in 1 .. Len(l.path) : Fold[l.path[i]] \in Names \ {".git"}
      /\ \A i \in 1 .. Len(r.path) : Fold[r.path[i]] \in Names \ {".git"}
  <2>1. \A i \in 1 .. Len(p) : Fold[p[i]] \in Names \ {".git"}
    BY <1>1, <1>2 DEF Comparable
  <2> QED
    BY <1>5, <1>6, <1>7, <2>1
<1>8. IsWithin(Folded(l), Folded(r)) \/ IsWithin(Folded(r), Folded(l))
  <2>1. CASE Len(r.path) <= Len(l.path)
    <3>1. \A i \in 1 .. Len(r.path) : Fold[r.path[i]] = Fold[l.path[i]]
      BY <1>5, <1>6, <1>7, <2>1
    <3> QED
      BY <1>5, <1>6, <1>a, <2>1, <3>1, FoldedWithin
  <2>2. CASE Len(l.path) <= Len(r.path)
    <3>1. \A i \in 1 .. Len(l.path) : Fold[l.path[i]] = Fold[r.path[i]]
      BY <1>5, <1>6, <1>7, <2>2
    <3> QED
      BY <1>5, <1>6, <1>a, <2>2, <3>1, FoldedWithin
  <2> QED
    BY <1>7, <2>1, <2>2
<1> QED
  BY <1>8 DEF ScopesOverlap, Overlaps

\* Leases that exist side by side have one baseline, may not write one file whose
\* folded path scopesOverlap can compare (nothing in it folds to ".git", "." or
\* ".."; any other may be written by two), and are at most
\* MAX_PARALLEL_IMPLEMENTERS.
THEOREM AdmissionTheorem == Spec => []AdmittedTogether
<1>1. IInv => AdmittedTogether
  BY CollisionOverlaps DEF IInv, AdmissionInv, ReservedCalls, AdmittedTogether
<1> QED
  BY <1>1, InductiveInvariant, PTL

----------------------------------------------------------------------------
(***************************************************************************)
(* The lock of the registry: claims and retirements of its directory.      *)
(***************************************************************************)
Claiming == {"made", "created", "critical"}
Retiring == {"stale", "checked", "unlinked", "verified"}
Removing == {"unlinked", "verified"}

Claimed == \A p \in Procs : step[p] \in Claiming => dir = claim[p] /\ claim[p] # 0

Numbered ==
    /\ dir <= claims
    /\ \A p \in Procs : claim[p] <= claims
    /\ \A p, q \in Procs : claim[p] = claim[q] /\ claim[p] # 0 => p = q

FileFits ==
    /\ file.id # 0 => file.id = dir
    /\ file.id = 0 => file = NoFile
    /\ file.owner # NoOwner =>
         \E q \in Procs : /\ file.owner = Own(q) /\ file.id = claim[q]
                          /\ step[q] \notin {"made", "created"}

DeadStop == \A p \in Procs : step[p] = "dead" <=> ~up[p]

TargetOver ==
    \A p \in Procs : step[p] \in Retiring =>
        \E q \in Procs : /\ target[p] = Own(q) /\ claim[q] # 0
                         /\ q = p \/ ~up[q]

RemovalSafe ==
    /\ \A p \in Procs : step[p] = "verified" => dir = target[p].id
    /\ \A p \in Procs :
         step[p] \in Removing /\ file.id # 0 => target[p].id # dir
    /\ \A p, q \in Procs :
         /\ step[p] \in Removing /\ step[q] \in Removing
         /\ target[p].id = dir /\ target[q].id = dir
         => p = q

MutexInv == LockTypeOK /\ Claimed /\ Numbered /\ FileFits /\ DeadStop /\ TargetOver /\ RemovalSafe

----------------------------------------------------------------------------
\* What is retired is never what a live process is claiming or holds.
LEMMA TargetNotClaimed ==
    ASSUME MutexInv, NEW p \in Procs, step[p] \in Retiring,
           NEW r \in Procs, step[r] \in Claiming
    PROVE  target[p].id # claim[r]
<1>1. PICK q \in Procs : /\ target[p] = Own(q) /\ claim[q] # 0
                         /\ q = p \/ ~up[q]
  BY DEF MutexInv, TargetOver
<1>2. q # r
  BY <1>1 DEF MutexInv, DeadStop, Claiming, Retiring
<1>3. target[p].id = claim[q]
  BY <1>1 DEF Own
<1> QED
  BY <1>1, <1>2, <1>3 DEF MutexInv, Numbered

\* A claim is at most as large as the counter, so a new directory differs from
\* every target.
LEMMA TargetCounted ==
    ASSUME MutexInv, NEW p \in Procs, step[p] \in Retiring
    PROVE  target[p].id \in 1 .. claims
  BY DEF MutexInv, TargetOver, Numbered, LockTypeOK, Own

\* The initial state satisfies the invariant.
LEMMA MutexInitially == LockInit => MutexInv
  BY ProcsAssumption
     DEF LockInit, MutexInv, LockTypeOK, Claimed, Numbered, FileFits, DeadStop, TargetOver,
         RemovalSafe, NoFile, NoOwner, Owner, LockStages, Claiming, Retiring, Removing

\* Each action of a process keeps the state well typed.
LEMMA MutexTypeStep == ASSUME LockTypeOK, [LockNext]_lockVars PROVE LockTypeOK'
<1> USE ProcsAssumption DEF LockTypeOK, Owner, LockStages
<1>1. ASSUME NEW p \in Procs, MakeDirectory(p) PROVE LockTypeOK'
  BY <1>1 DEF MakeDirectory
<1>2. ASSUME NEW p \in Procs, GiveUp(p) PROVE LockTypeOK'
  BY <1>2 DEF GiveUp, Throw, NoOwner
<1>3. ASSUME NEW p \in Procs, CreateOwnerFile(p) PROVE LockTypeOK'
  BY <1>3 DEF CreateOwnerFile, Throw, NoOwner
<1>4. ASSUME NEW p \in Procs, WriteOwner(p) PROVE LockTypeOK'
  BY <1>4 DEF WriteOwner, Throw, NoOwner, Own
<1>5. ASSUME NEW p \in Procs, Release(p) \/ RetireStale(p) PROVE LockTypeOK'
  BY <1>5 DEF Release, RetireStale, CheckLock, Throw, NoOwner, Own
<1>6. ASSUME NEW p \in Procs, UnlinkOwner(p) PROVE LockTypeOK'
  BY <1>6 DEF UnlinkOwner, Throw, NoFile, NoOwner
<1>7. ASSUME NEW p \in Procs, VerifyDirectory(p) PROVE LockTypeOK'
  BY <1>7 DEF VerifyDirectory, Throw, NoOwner
<1>8. ASSUME NEW p \in Procs, RemoveDirectory(p) PROVE LockTypeOK'
  BY <1>8 DEF RemoveDirectory, Throw, NoOwner
<1>9. ASSUME NEW p \in Procs, Inspect(p) PROVE LockTypeOK'
  BY <1>9 DEF Inspect
<1>10. ASSUME NEW p \in Procs, Die(p) PROVE LockTypeOK'
  BY <1>10 DEF Die
<1>11. CASE UNCHANGED lockVars
  BY <1>11 DEF lockVars
<1> QED
  BY <1>1, <1>2, <1>3, <1>4, <1>5, <1>6, <1>7, <1>8, <1>9, <1>10, <1>11
     DEF LockNext, Step

\* A process that throws, or that finds the lock as it expects it, changes no
\* file, so only its own progress and target matter.
LEMMA ThrowStep ==
    ASSUME MutexInv, LockTypeOK', NEW p \in Procs, Throw(p), up[p],
           UNCHANGED <<claims, claim, up>>
    PROVE  MutexInv'
<1> USE DEF MutexInv, LockTypeOK, Throw
<1>1. Claimed' /\ Numbered' /\ DeadStop'
  BY DEF Claimed, Numbered, DeadStop, Claiming
<1>2. FileFits'
  BY DEF FileFits, Own
<1>3. TargetOver' /\ RemovalSafe'
  BY DEF TargetOver, RemovalSafe, Own, Retiring, Removing
<1> QED
  BY <1>1, <1>2, <1>3

LEMMA CheckStep ==
    ASSUME MutexInv, LockTypeOK', NEW p \in Procs, up[p], NEW o, CheckLock(p, o),
           \E q \in Procs : o = Own(q) /\ claim[q] # 0 /\ (q = p \/ ~up[q])
    PROVE  MutexInv'
<1>1. CASE ~Matches(o)
  BY <1>1, ThrowStep DEF CheckLock
<1>2. CASE Matches(o)
  <2> USE <1>2 DEF MutexInv, LockTypeOK, CheckLock
  <2>1. Claimed' /\ Numbered' /\ DeadStop'
    BY DEF Claimed, Numbered, DeadStop, Claiming
  <2>2. FileFits'
    BY DEF FileFits, Own
  <2>3. TargetOver'
    BY DEF TargetOver, Own, Retiring
  <2>4. RemovalSafe'
    BY DEF RemovalSafe, Removing
  <2> QED
    BY <2>1, <2>2, <2>3, <2>4
<1> QED
  BY <1>1, <1>2

\* Every step of every process preserves the invariant.
LEMMA MutexStepInvariant == ASSUME MutexInv, [LockNext]_lockVars PROVE MutexInv'
<1> LockTypeOK'
  BY MutexTypeStep DEF MutexInv
<1>0. ASSUME NEW p \in Procs, step[p] # "dead" PROVE up[p]
  BY <1>0 DEF MutexInv, DeadStop
<1>1. ASSUME NEW p \in Procs, MakeDirectory(p) PROVE MutexInv'
  <2> USE <1>1 DEF MakeDirectory, MutexInv, LockTypeOK
  <2>1. file = NoFile
    BY DEF FileFits
  <2>2. Claimed' /\ DeadStop'
    BY DEF Claimed, DeadStop, Claiming
  <2>3. Numbered'
    BY DEF Numbered
  <2>4. FileFits'
    BY <2>1 DEF FileFits, NoFile
  <2>5. TargetOver'
    <3> SUFFICES ASSUME NEW r \in Procs, step'[r] \in Retiring
                 PROVE  \E q \in Procs : /\ target'[r] = Own(q)' /\ claim'[q] # 0
                                         /\ q = r \/ ~up'[q]
      BY DEF TargetOver
    <3>1. r # p /\ step[r] \in Retiring
      BY DEF Retiring
    <3>2. PICK q \in Procs : /\ target[r] = Own(q) /\ claim[q] # 0
                             /\ q = r \/ ~up[q]
      BY <3>1 DEF TargetOver
    <3>3. q # p
      BY <3>1, <3>2
    <3> QED
      BY <3>2, <3>3 DEF Own
  <2>6. RemovalSafe'
    <3>1. \A r \in Procs : step'[r] \in Retiring =>
            r # p /\ step[r] \in Retiring /\ target[r].id # dir'
      BY TargetCounted DEF Retiring
    <3> QED
      BY <2>1, <3>1, TargetCounted DEF RemovalSafe, Removing, Retiring, NoFile
  <2> QED
    BY <2>2, <2>3, <2>4, <2>5, <2>6
<1>2. ASSUME NEW p \in Procs, GiveUp(p) PROVE MutexInv'
  BY <1>0, <1>2, ThrowStep DEF GiveUp
<1>3. ASSUME NEW p \in Procs, CreateOwnerFile(p) PROVE MutexInv'
  <2>1. CASE ~(dir # 0 /\ file.id = 0)
    BY <1>0, <1>3, <2>1, ThrowStep DEF CreateOwnerFile
  <2>2. CASE dir # 0 /\ file.id = 0
    <3> USE <1>3, <2>2 DEF CreateOwnerFile, MutexInv, LockTypeOK
    <3>1. dir = claim[p]
      BY DEF Claimed, Claiming
    <3>2. Claimed' /\ Numbered' /\ DeadStop'
      BY DEF Claimed, Numbered, DeadStop, Claiming
    <3>3. FileFits'
      BY <3>1 DEF FileFits, NoOwner
    <3>4. TargetOver'
      BY DEF TargetOver, Own, Retiring
    <3>5. RemovalSafe'
      <4>1. \A r \in Procs : step[r] \in Retiring => target[r].id # claim[p]
        BY TargetNotClaimed DEF Claiming
      <4> QED
        BY <3>1, <4>1 DEF RemovalSafe, Removing, Retiring
    <3> QED
      BY <3>2, <3>3, <3>4, <3>5
  <2> QED
    BY <2>1, <2>2
<1>4. ASSUME NEW p \in Procs, WriteOwner(p) PROVE MutexInv'
  <2>1. CASE ~(dir # 0 /\ file.id = claim[p])
    BY <1>0, <1>4, <2>1, ThrowStep DEF WriteOwner
  <2>2. CASE dir # 0 /\ file.id = claim[p]
    <3> USE <1>4, <2>2 DEF WriteOwner, MutexInv, LockTypeOK
    <3>1. Claimed' /\ Numbered' /\ DeadStop'
      BY DEF Claimed, Numbered, DeadStop, Claiming
    <3>2. FileFits'
      BY DEF FileFits, Claimed, Claiming, Own
    <3>3. TargetOver'
      BY DEF TargetOver, Own, Retiring
    <3>4. RemovalSafe'
      BY DEF RemovalSafe, Removing
    <3> QED
      BY <3>1, <3>2, <3>3, <3>4
  <2> QED
    BY <2>1, <2>2
<1>5. ASSUME NEW p \in Procs, Release(p) PROVE MutexInv'
  <2>1. claim[p] # 0
    BY <1>5 DEF Release, MutexInv, Claimed, Claiming
  <2>2. up[p]
    BY <1>0, <1>5 DEF Release
  <2> QED
    BY <1>5, <2>1, <2>2, CheckStep DEF Release
<1>6. ASSUME NEW p \in Procs, RetireStale(p) PROVE MutexInv'
  <2>1. \E q \in Procs : /\ target[p] = Own(q) /\ claim[q] # 0
                         /\ q = p \/ ~up[q]
    BY <1>6 DEF RetireStale, MutexInv, TargetOver, Retiring
  <2>2. up[p]
    BY <1>0, <1>6 DEF RetireStale
  <2> QED
    BY <1>6, <2>1, <2>2, CheckStep DEF RetireStale
<1>7. ASSUME NEW p \in Procs, UnlinkOwner(p) PROVE MutexInv'
  <2>1. CASE ~(dir # 0 /\ file.id # 0)
    BY <1>0, <1>7, <2>1, ThrowStep DEF UnlinkOwner
  <2>2. CASE dir # 0 /\ file.id # 0
    <3> USE <1>7, <2>2 DEF UnlinkOwner, MutexInv, LockTypeOK
    <3>1. Claimed' /\ Numbered' /\ DeadStop'
      BY DEF Claimed, Numbered, DeadStop, Claiming
    <3>2. FileFits'
      BY DEF FileFits, NoFile
    <3>3. TargetOver'
      BY DEF TargetOver, Own, Retiring
    <3>4. RemovalSafe'
      BY DEF RemovalSafe, Removing, NoFile
    <3> QED
      BY <3>1, <3>2, <3>3, <3>4
  <2> QED
    BY <2>1, <2>2
<1>8. ASSUME NEW p \in Procs, VerifyDirectory(p) PROVE MutexInv'
  <2>1. CASE dir # target[p].id
    BY <1>0, <1>8, <2>1, ThrowStep DEF VerifyDirectory
  <2>2. CASE dir = target[p].id
    <3> USE <1>8, <2>2 DEF VerifyDirectory, MutexInv, LockTypeOK
    <3>1. Claimed' /\ Numbered' /\ DeadStop'
      BY DEF Claimed, Numbered, DeadStop, Claiming
    <3>2. FileFits'
      BY DEF FileFits, Own
    <3>3. TargetOver' /\ RemovalSafe'
      BY DEF TargetOver, RemovalSafe, Own, Retiring, Removing
    <3> QED
      BY <3>1, <3>2, <3>3
  <2> QED
    BY <2>1, <2>2
<1>9. ASSUME NEW p \in Procs, RemoveDirectory(p) PROVE MutexInv'
  <2>1. CASE ~(dir # 0 /\ file.id = 0)
    BY <1>0, <1>9, <2>1, ThrowStep DEF RemoveDirectory
  <2>2. CASE dir # 0 /\ file.id = 0
    <3> USE <1>9, <2>2 DEF RemoveDirectory, MutexInv, LockTypeOK
    <3>1. dir = target[p].id
      BY DEF RemovalSafe
    <3>2. \A r \in Procs : step[r] \notin Claiming
      BY <3>1, TargetNotClaimed DEF Claimed, Retiring
    <3>3. Claimed' /\ Numbered' /\ DeadStop'
      BY <3>2 DEF Claimed, Numbered, DeadStop, Claiming
    <3>4. FileFits'
      BY DEF FileFits, NoFile
    <3>5. TargetOver'
      BY DEF TargetOver, Own, Retiring
    <3>6. \A r \in Procs \ {p} :
            step[r] \in Removing => target[r].id # 0 /\ target[r].id # dir
      BY <3>1, TargetCounted DEF RemovalSafe, Removing, Retiring
    <3>7. RemovalSafe'
      BY <3>6 DEF RemovalSafe, Removing
    <3> QED
      BY <3>3, <3>4, <3>5, <3>7
  <2> QED
    BY <2>1, <2>2
<1>10. ASSUME NEW p \in Procs, Inspect(p) PROVE MutexInv'
  <2> USE <1>10 DEF Inspect, MutexInv, LockTypeOK
  <2>1. Claimed' /\ Numbered' /\ DeadStop'
    BY DEF Claimed, Numbered, DeadStop, Claiming
  <2>2. FileFits'
    BY DEF FileFits, Own
  <2>3. TargetOver'
    BY DEF TargetOver, FileFits, StaleClaim, CompleteClaim, Matches, Own, Retiring
  <2>4. RemovalSafe'
    BY DEF RemovalSafe, Removing
  <2> QED
    BY <2>1, <2>2, <2>3, <2>4
<1>11. ASSUME NEW p \in Procs, Die(p) PROVE MutexInv'
  <2> USE <1>11 DEF Die, MutexInv, LockTypeOK
  <2>1. Claimed' /\ Numbered' /\ DeadStop'
    BY DEF Claimed, Numbered, DeadStop, Claiming
  <2>2. FileFits'
    BY DEF FileFits, Own
  <2>3. TargetOver'
    BY DEF TargetOver, Own, Retiring
  <2>4. RemovalSafe'
    BY DEF RemovalSafe, Removing
  <2> QED
    BY <2>1, <2>2, <2>3, <2>4
<1>12. CASE UNCHANGED lockVars
  BY <1>12 DEF lockVars, MutexInv, LockTypeOK, Claimed, Numbered, FileFits, DeadStop, TargetOver,
               RemovalSafe, Own
<1> QED
  BY <1>1, <1>2, <1>3, <1>4, <1>5, <1>6, <1>7, <1>8, <1>9, <1>10, <1>11, <1>12
     DEF LockNext, Step

----------------------------------------------------------------------------
\* The invariant holds of every reachable state.
THEOREM MutexInvariance == LockSpec => []MutexInv
<1> QED
  BY MutexInitially, MutexStepInvariant, PTL DEF LockSpec

\* The state is well typed, whatever the processes do.
THEOREM MutexTypes == LockSpec => []LockTypeOK
<1>1. MutexInv => LockTypeOK
  BY DEF MutexInv
<1> QED
  BY <1>1, MutexInvariance, PTL

\* A live process that has created the lock directory keeps it until it removes
\* it itself, however many cleaners retire older generations
\* (retireImplementerMutex, createImplementerMutex).
THEOREM DirectoryTheorem == LockSpec => []DirectoryHeld
<1>1. MutexInv => DirectoryHeld
  BY DEF MutexInv, Claimed, Claiming, DirectoryHeld
<1> QED
  BY <1>1, MutexInvariance, PTL

\* At most one process is in its critical section: the directory is one, and
\* no two processes have created the same (withImplementerRegistryLock).
THEOREM ExclusionTheorem == LockSpec => []MutualExclusion
<1>1. MutexInv => MutualExclusion
  BY DEF MutexInv, Claimed, Numbered, Claiming, MutualExclusion
<1> QED
  BY <1>1, MutexInvariance, PTL
=============================================================================
