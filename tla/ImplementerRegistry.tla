------------------------ MODULE ImplementerRegistry -------------------------
(***************************************************************************)
(* Implement calls of several root processes on one repository: the        *)
(* admission of leases, the isolated worktree of each call from its        *)
(* reservation to its removal, and the recovery of what dead processes     *)
(* left behind (rlm_cleanup --force), with a crash between any two steps.  *)
(*                                                                         *)
(* The registry lock is the one of ImplementerMutex, taken and released in *)
(* one step each; a crash inside a short section is a crash that leaves    *)
(* the lock behind.  Node runs setup, launch and finalization of a call    *)
(* synchronously, so two calls of one process do not interleave in them.   *)
(* Contents of a worktree are counted: 1 is the baseline, and every edit   *)
(* adds one.  Ages are 0 and the launch grace may be over at any moment.   *)
(***************************************************************************)
EXTENDS WriteScope, FiniteSets, Functions

CONSTANTS
    Calls,        \* implement calls; each reserves one lease
    Processes,    \* root processes
    OwnerOf,      \* the process that makes each call (ownerPid)
    Recoveries,   \* runs of rlm_cleanup --force
    Request,      \* the scope that each call asks for
    Files,        \* the paths that children may write
    MaxParallelImplementers,
    Faults,       \* "io": any step may throw; "timeout": the deadline of the lock
                  \* passes; "torn": a kill in mid-claim leaves an incomplete lock
    Mortal,       \* bound: the actors that may be killed
    CrashStages,  \* bound: the stages in which a root process may be
    CrashBudget,  \* bound: how many are
    MaxEdits,     \* bound: edits of one child
    MaxCommits,   \* bound: commits to the root checkout
    Free,         \* no lock directory
    Broken        \* a lock directory without a complete owner record

Actors == Processes \cup Recoveries

ASSUME CallsAssumption ==
    /\ OwnerOf \in [Calls -> Processes]
    /\ Files \subseteq Seq(Names)
    /\ \A c \in Calls : Request[c] \subseteq Entry
\* runRecursiveChild refuses a request that is not in order.
ASSUME RequestAssumption == \A c \in Calls : \A e \in Request[c] : Accepted(e)
ASSUME ActorsAssumption ==
    /\ Processes \cap Recoveries = {}
    /\ Free \notin Actors /\ Broken \notin Actors /\ Free # Broken
ASSUME BoundsAssumption ==
    /\ MaxParallelImplementers \in Nat \ {0}
    /\ Faults \subseteq {"io", "timeout", "torn"}
    /\ Mortal \subseteq Actors
    /\ CrashBudget \in Nat /\ MaxEdits \in Nat /\ MaxCommits \in Nat

VARIABLES
    lock,       \* Free, Broken, or the process whose complete claim it is
    alive,      \* the actors that have not died
    head,       \* HEAD of the root checkout
    crashes,    \* what is left of CrashBudget
    pc,         \* progress of each call in its owner
    baseline,   \* baselineHead of each call
    lease,      \* where its lease directory is
    disk,       \* the committed record in lease.json
    noted,      \* leaseResources of the record in the owner's memory
    files,      \* the resources that exist in the lease directory
    box,        \* the workspace container, and how far its owner file is
    tree,       \* contents of the worktree, 0 if it does not exist
    staged,     \* its index differs from the baseline
    snap,       \* snapshotTree of the owner's finalization
    ref,        \* contents of refs/ypi/attempt-*, 0 if it does not exist
    child,      \* the launch gate or child process
    retiredBy,  \* the pid in the name of the retired lease directory
    rpc,        \* progress of each recovery
    job,        \* the lease it works on
    scan,       \* the stale records it read before it took the lock
    artifacts   \* the interrupted retirements it saw then

files_vars == <<lease, disk, files, box, tree, staged, ref, retiredBy>>
owner_vars == <<pc, baseline, noted, snap>>
recovery_vars == <<rpc, job, scan, artifacts>>
vars == <<lock, alive, head, crashes, files_vars, owner_vars, child, recovery_vars>>

Resources == {"confinement", "pid"}
Idents == {"none", "directory", "owner", "worktree"}
Record == [state : {"reserved", "worktree-ready", "ref-verified", "worktree-removed"},
           located : BOOLEAN, ident : Idents, child : BOOLEAN, indexOwned : BOOLEAN,
           resources : SUBSET Resources]
FreshRecord == [state |-> "reserved", located |-> FALSE, ident |-> "none",
                child |-> FALSE, indexOwned |-> FALSE, resources |-> {}]

\* The container holds the temporary of its marker, without or beside the marker.
Unfinished == {"temporary", "linked"}

SetupStages == {"reserved", "recorded", "boxed", "box-known", "marked",
                "marker-known", "adding", "added", "confining"}
LaunchStages == {"prepared", "spawned", "registered", "published"}
FinalStages == {"ended", "indexed", "staging", "snapshotted", "referenced", "verified",
                "compared", "removing", "removed", "emptied", "renamed", "cut"}
Synchronous == {"discovered", "admitted", "reserving", "discarding", "dropping", "dropped"}
                 \cup SetupStages \cup LaunchStages \cup FinalStages
Terminal == {"refused", "retained", "failed", "done", "dead"}
Stages == {"idle", "ready", "running", "killing"} \cup Synchronous \cup Terminal

JobStages == {"salvaging", "referenced", "comparing", "removed", "emptying",
              "retiring", "cutting", "cut"}
RecoveryStages == {"idle", "inspected", "scanned", "recovering", "dead"} \cup JobStages

TypeOK ==
    /\ lock \in Actors \cup {Free, Broken}
    /\ alive \subseteq Actors
    /\ head \in Nat /\ crashes \in Nat
    /\ pc \in [Calls -> Stages]
    /\ baseline \in [Calls -> Nat]
    /\ lease \in [Calls -> {"none", "partial", "active", "retired", "cut", "gone"}]
    /\ disk \in [Calls -> Record]
    /\ noted \in [Calls -> SUBSET Resources]
    /\ files \in [Calls -> SUBSET Resources]
    /\ box \in [Calls -> {"none", "bare", "marked", "quarantined"} \cup Unfinished]
    /\ tree \in [Calls -> Nat] /\ ref \in [Calls -> Nat] /\ snap \in [Calls -> Nat]
    /\ staged \in [Calls -> BOOLEAN]
    /\ child \in [Calls -> {"none", "gate", "working", "over"}]
    /\ retiredBy \in [Calls -> Actors \cup {Free}]
    /\ rpc \in [Recoveries -> RecoveryStages]
    /\ job \in [Recoveries -> Calls \cup {Free}]
    /\ \A r \in Recoveries : /\ DOMAIN scan[r] \subseteq Calls
                             /\ \A c \in DOMAIN scan[r] : scan[r][c] \in Record
    /\ artifacts \in [Recoveries -> SUBSET Calls]

NoScan == [c \in {} |-> FreshRecord]

Init ==
    /\ lock = Free /\ alive = Actors /\ head = 0 /\ crashes = CrashBudget
    /\ pc = [c \in Calls |-> "idle"]
    /\ baseline = [c \in Calls |-> 0]
    /\ lease = [c \in Calls |-> "none"]
    /\ disk = [c \in Calls |-> FreshRecord]
    /\ noted = [c \in Calls |-> {}]
    /\ files = [c \in Calls |-> {}]
    /\ box = [c \in Calls |-> "none"]
    /\ tree = [c \in Calls |-> 0]
    /\ staged = [c \in Calls |-> FALSE]
    /\ snap = [c \in Calls |-> 0]
    /\ ref = [c \in Calls |-> 0]
    /\ child = [c \in Calls |-> "none"]
    /\ retiredBy = [c \in Calls |-> Free]
    /\ rpc = [r \in Recoveries |-> "idle"]
    /\ job = [r \in Recoveries |-> Free]
    /\ scan = [r \in Recoveries |-> NoScan]
    /\ artifacts = [r \in Recoveries |-> {}]

----------------------------------------------------------------------------
(* Shared by owners and recoveries.                                         *)

\* readImplementerLeaseRecords throws on any incomplete lease.
Readable == \A d \in Calls : lease[d] # "partial"

\* removeImplementerLeaseRecord and retireRecoveryLease: the directory leaves
\* the active leases before anything in it is unlinked.
RenameLease(c, a) ==
    /\ lease[c] = "active"
    /\ lease' = [lease EXCEPT ![c] = "retired"]
    /\ retiredBy' = [retiredBy EXCEPT ![c] = a]
    /\ UNCHANGED <<disk, files, box, tree, staged, ref>>

\* retireOwnedPrivateTree begins only if the directory holds what the record
\* declares, nothing more and nothing less.
CutLease(c) ==
    /\ lease[c] = "retired" /\ files[c] = disk[c].resources
    /\ lease' = [lease EXCEPT ![c] = "cut"]
    /\ UNCHANGED <<disk, files, box, tree, staged, ref, retiredBy>>

FinishLease(c) ==
    /\ lease' = [lease EXCEPT ![c] = "gone"]
    /\ files' = [files EXCEPT ![c] = {}]
    /\ UNCHANGED <<disk, box, tree, staged, ref, retiredBy>>

----------------------------------------------------------------------------
(* The owner: admission.                                                    *)

\* The event loop of the owner is at this call.
Turn(c, stage) ==
    /\ pc[c] = stage /\ OwnerOf[c] \in alive
    /\ \A d \in Calls \ {c} : OwnerOf[d] = OwnerOf[c] => pc[d] \notin Synchronous
    /\ UNCHANGED <<alive, head, crashes, recovery_vars>>

Goto(c, stage) == pc' = [pc EXCEPT ![c] = stage]

\* HEAD is read, and found clean, before the lock is taken.
Discover(c) ==
    /\ Turn(c, "idle") /\ Goto(c, "discovered")
    /\ baseline' = [baseline EXCEPT ![c] = head]
    /\ UNCHANGED <<lock, files_vars, noted, snap, child>>

Reserved(d) == lease[d] \in {"partial", "active"}

Scope == [c \in Calls |-> NormalizeScope(Request[c])]
Overlaps == {pair \in Calls \X Calls : ScopesOverlap(Scope[pair[1]], Scope[pair[2]])}

Admissible(c) ==
    /\ \A d \in Calls : Reserved(d) => baseline[d] = baseline[c]
    /\ \A d \in Calls : Reserved(d) => <<c, d>> \notin Overlaps
    /\ Cardinality({d \in Calls : Reserved(d)}) < MaxParallelImplementers

\* A slip of Reserve: the leases are read without the lock.
ReserveMutant(c) ==
    /\ Turn(c, "discovered") /\ Readable
    /\ Admissible(c) /\ Goto(c, "admitted") /\ lock' = OwnerOf[c]
    /\ UNCHANGED <<files_vars, baseline, noted, snap, child>>

Reserve(c) ==
    /\ Turn(c, "discovered") /\ lock = Free /\ Readable
    /\ \/ Admissible(c) /\ Goto(c, "admitted") /\ lock' = OwnerOf[c]
       \/ ~Admissible(c) /\ Goto(c, "refused") /\ UNCHANGED lock
    /\ UNCHANGED <<files_vars, baseline, noted, snap, child>>

\* The directory exists before its record does.
CreateLease(c) ==
    /\ Turn(c, "admitted") /\ Goto(c, "reserving")
    /\ lease' = [lease EXCEPT ![c] = "partial"]
    /\ UNCHANGED <<lock, baseline, disk, noted, files, box, tree, staged, snap, ref, child, retiredBy>>

CompleteLease(c) ==
    /\ Turn(c, "reserving") /\ Goto(c, "reserved")
    /\ lock' = Free
    /\ lease' = [lease EXCEPT ![c] = "active"]
    /\ UNCHANGED <<baseline, disk, noted, files, box, tree, staged, snap, ref, child, retiredBy>>

----------------------------------------------------------------------------
(* The owner: setup of the workspace.                                       *)

Write(c, record) == disk' = [disk EXCEPT ![c] = record]

\* persistLeaseRecord: a section of the lock in which the lease must still be
\* this process's; it writes the record as it is in memory.
Persist(c, record) == lock = Free /\ Readable /\ lease[c] = "active" /\ Write(c, record)

\* The first write of the paths goes without the check of ownership.
RecordPaths(c) ==
    /\ Turn(c, "reserved") /\ Goto(c, "recorded")
    /\ lock = Free /\ lease[c] = "active"
    /\ Write(c, [disk[c] EXCEPT !.located = TRUE])
    /\ UNCHANGED <<lock, baseline, noted, snap, lease, files, box, tree, staged, ref, child, retiredBy>>

Box(c, state) == box' = [box EXCEPT ![c] = state]

MakeBox(c) ==
    /\ Turn(c, "recorded") /\ Goto(c, "boxed") /\ Box(c, "bare")
    /\ UNCHANGED <<lock, baseline, noted, snap, lease, disk, files, tree, staged, ref, child, retiredBy>>

\* atomicCreateFile of the owner marker: a temporary, the link, the unlink.
MarkBox(c) ==
    /\ Turn(c, "box-known")
    /\ \/ box[c] = "bare" /\ Box(c, "temporary") /\ UNCHANGED pc
       \/ box[c] = "temporary" /\ Box(c, "linked") /\ UNCHANGED pc
       \/ box[c] = "linked" /\ Box(c, "marked") /\ Goto(c, "marked")
    /\ UNCHANGED <<lock, baseline, noted, snap, lease, disk, files, tree, staged, ref, child, retiredBy>>

PersistBox(c) ==
    /\ \/ Turn(c, "boxed") /\ Goto(c, "box-known")
          /\ Persist(c, [disk[c] EXCEPT !.ident = "directory"])
       \/ Turn(c, "marked") /\ Goto(c, "marker-known")
          /\ Persist(c, [disk[c] EXCEPT !.ident = "owner"])
    /\ UNCHANGED <<lock, baseline, noted, snap, lease, files, box, tree, staged, ref, child, retiredBy>>

\* git worktree add and the record of it happen under one lock.
AddWorktree(c) ==
    /\ Turn(c, "marker-known") /\ Goto(c, "adding")
    /\ lock = Free /\ lock' = OwnerOf[c]
    /\ tree' = [tree EXCEPT ![c] = 1]
    /\ UNCHANGED <<baseline, noted, snap, lease, disk, files, box, staged, ref, child, retiredBy>>

\* A slip of PersistWorktree: the identity of the checkout is not captured.
PersistWorktreeMutant(c) ==
    /\ Turn(c, "adding") /\ Goto(c, "added")
    /\ lock' = Free /\ lease[c] = "active"
    /\ Write(c, [disk[c] EXCEPT !.state = "worktree-ready"])
    /\ UNCHANGED <<baseline, noted, snap, lease, files, box, tree, staged, ref, child, retiredBy>>

PersistWorktree(c) ==
    /\ Turn(c, "adding") /\ Goto(c, "added")
    /\ lock' = Free /\ lease[c] = "active"
    /\ Write(c, [disk[c] EXCEPT !.state = "worktree-ready", !.ident = "worktree"])
    /\ UNCHANGED <<baseline, noted, snap, lease, files, box, tree, staged, ref, child, retiredBy>>

\* createConfinementState: files first, then the record that declares them.
CreateConfinement(c) ==
    /\ Turn(c, "added") /\ Goto(c, "confining")
    /\ files' = [files EXCEPT ![c] = @ \cup {"confinement"}]
    /\ noted' = [noted EXCEPT ![c] = @ \cup {"confinement"}]
    /\ UNCHANGED <<lock, baseline, snap, lease, disk, box, tree, staged, ref, child, retiredBy>>

PersistConfinement(c) ==
    /\ Turn(c, "confining") /\ Goto(c, "ready")
    /\ Persist(c, [disk[c] EXCEPT !.resources = noted[c]])
    /\ UNCHANGED <<lock, baseline, noted, snap, lease, files, box, tree, staged, ref, child, retiredBy>>

----------------------------------------------------------------------------
(* The owner: discarding a setup that failed.                               *)

\* Steps that need the lock, and those that read every lease under it.
ReadingStages == {"discovered", "boxed", "marked", "confining", "dropping", "spawned",
                  "published", "ended", "referenced"}
LockingStages == ReadingStages \cup {"reserved", "marker-known", "compared"}

MayFail(c) ==
    \/ "io" \in Faults
    \/ /\ pc[c] \in LockingStages /\ "timeout" \in Faults
       /\ lock # Free /\ lock # OwnerOf[c]
    \/ pc[c] \in ReadingStages /\ ~Readable

LeaveSection(c) == lock' = IF lock = OwnerOf[c] THEN Free ELSE lock

\* Before the lease is complete nothing is cleaned up.
ReserveFails(c) ==
    /\ Turn(c, "discovered") \/ Turn(c, "admitted") \/ Turn(c, "reserving")
    /\ MayFail(c) /\ LeaveSection(c) /\ Goto(c, "refused")
    /\ UNCHANGED <<files_vars, baseline, noted, snap, child>>

SetupFails(c) ==
    /\ \E stage \in SetupStages : Turn(c, stage)
    /\ MayFail(c) /\ LeaveSection(c) /\ Goto(c, "discarding")
    /\ UNCHANGED <<files_vars, baseline, noted, snap, child>>

\* atomicCreateFile fails and takes its temporary away, or fails after it has: the
\* identity of the marker is then unknown, and the container cannot be discarded.
MarkerFails(c) ==
    /\ Turn(c, "box-known") /\ "io" \in Faults
    /\ \/ box[c] = "temporary" /\ Box(c, "bare") /\ Goto(c, "discarding")
       \/ box[c] = "linked" /\ Box(c, "marked") /\ Goto(c, "retained")
    /\ UNCHANGED <<lock, baseline, noted, snap, lease, disk, files, tree, staged, ref, child, retiredBy>>

\* retireEmptyWorkspaceContainer: the marker is renamed and unlinked, then the
\* directory goes; a container that holds anything else is refused.
WithMarker(c) == box[c] \in {"marked", "quarantined"}
Emptier(c) ==
    IF box[c] = "marked" THEN "quarantined" ELSE IF box[c] = "quarantined" THEN "bare" ELSE "none"
Emptied(c, stage, next) ==
    /\ box[c] \notin Unfinished /\ Box(c, Emptier(c))
    /\ Goto(c, IF WithMarker(c) THEN stage ELSE next)

\* A slip of DiscardWorkspace: the container stays.
DiscardWorkspaceMutant(c) ==
    /\ Turn(c, "discarding") /\ Goto(c, "dropping")
    /\ tree' = [tree EXCEPT ![c] = 0]
    /\ UNCHANGED <<lock, baseline, noted, snap, lease, disk, files, box, staged, ref, child, retiredBy>>

\* bestEffortDiscardSetupWorktree: the worktree, then its container; the owner
\* knows the identity of what it has made.
DiscardWorkspace(c) ==
    /\ Turn(c, "discarding")
    /\ \/ /\ tree[c] # 0
          /\ tree' = [tree EXCEPT ![c] = 0]
          /\ UNCHANGED <<pc, box>>
       \/ /\ tree[c] = 0
          /\ Emptied(c, "discarding", "dropping")
          /\ UNCHANGED tree
    /\ UNCHANGED <<lock, baseline, noted, snap, lease, disk, files, staged, ref, child, retiredBy>>

\* removeSetupLease.
DropLease(c) ==
    /\ Turn(c, "dropping") /\ lock = Free /\ Readable
    /\ lock' = OwnerOf[c] /\ Goto(c, "dropped")
    /\ RenameLease(c, OwnerOf[c])
    /\ UNCHANGED <<baseline, noted, snap, child>>

RetireDropped(c) ==
    /\ Turn(c, "dropped")
    /\ \/ CutLease(c) /\ UNCHANGED <<lock, pc>>
       \/ lease[c] = "cut" /\ FinishLease(c) /\ lock' = Free /\ Goto(c, "refused")
    /\ UNCHANGED <<baseline, noted, snap, child>>

\* What cannot be discarded is retained for a recovery.
DiscardFails(c) ==
    /\ \/ Turn(c, "discarding") /\ (MayFail(c) \/ box[c] \in Unfinished)
       \/ Turn(c, "dropping") /\ MayFail(c)
       \/ Turn(c, "dropped") /\ "io" \in Faults
       \/ Turn(c, "dropped") /\ lease[c] = "retired" /\ files[c] # disk[c].resources
    /\ LeaveSection(c) /\ Goto(c, "retained")
    /\ UNCHANGED <<files_vars, baseline, noted, snap, child>>

----------------------------------------------------------------------------
(* The owner: launch of the child, and the child.                           *)

Mind(c, state) == child' = [child EXCEPT ![c] = state]

\* The call yields once more before the launch; what fails until then leaves
\* the workspace to finalization.
PrepareLaunch(c) ==
    /\ Turn(c, "ready")
    /\ \/ Goto(c, "prepared") /\ Persist(c, disk[c])
       \/ Goto(c, "ended") /\ UNCHANGED disk
    /\ UNCHANGED <<lock, baseline, noted, snap, lease, files, box, tree, staged, ref, child, retiredBy>>

SpawnGate(c) ==
    /\ Turn(c, "prepared") /\ Goto(c, "spawned") /\ Mind(c, "gate")
    /\ UNCHANGED <<lock, baseline, noted, snap, files_vars>>

NoteChildPid(c) ==
    /\ Turn(c, "spawned") /\ Goto(c, "registered")
    /\ Persist(c, [disk[c] EXCEPT !.child = TRUE, !.resources = noted[c]])
    /\ UNCHANGED <<lock, baseline, noted, snap, lease, files, box, tree, staged, ref, child, retiredBy>>

\* A slip of PublishPid: a file that no inventory knows.
PublishPidMutant(c) ==
    /\ Turn(c, "registered") /\ Goto(c, "published")
    /\ files' = [files EXCEPT ![c] = @ \cup {"pid", "temporary"}]
    /\ UNCHANGED <<lock, baseline, noted, snap, lease, disk, box, tree, staged, ref, child, retiredBy>>

\* The files that release the gate.
PublishPid(c) ==
    /\ Turn(c, "registered") /\ Goto(c, "published")
    /\ files' = [files EXCEPT ![c] = @ \cup {"pid"}]
    /\ UNCHANGED <<lock, baseline, noted, snap, lease, disk, box, tree, staged, ref, child, retiredBy>>

NoteLaunchReady(c) ==
    /\ Turn(c, "published") /\ Goto(c, "running")
    /\ noted' = [noted EXCEPT ![c] = @ \cup {"pid"}]
    /\ Persist(c, [disk[c] EXCEPT !.resources = noted'[c]])
    /\ UNCHANGED <<lock, baseline, snap, lease, files, box, tree, staged, ref, child, retiredBy>>

\* An error in one of these kills the child's group; what the record in memory
\* has noted stays noted.
LaunchFails(c) ==
    /\ \E stage \in LaunchStages : Turn(c, stage)
    /\ MayFail(c) /\ LeaveSection(c)
    /\ Goto(c, IF child[c] = "none" THEN "ended" ELSE "killing")
    /\ noted' = [noted EXCEPT ![c] = IF pc[c] = "published" THEN @ \cup {"pid"} ELSE @]
    /\ UNCHANGED <<baseline, snap, child, files_vars>>

\* A slip of ChildClosed: an abort finalizes at once.
ChildClosedMutant(c) ==
    /\ Turn(c, "running") \/ Turn(c, "killing")
    /\ Goto(c, "ended")
    /\ UNCHANGED <<lock, baseline, noted, snap, child, files_vars>>

\* The group of the child is gone before the call goes on.
ChildClosed(c) ==
    /\ Turn(c, "running") \/ Turn(c, "killing")
    /\ child[c] = "over" /\ Goto(c, "ended")
    /\ UNCHANGED <<lock, baseline, noted, snap, child, files_vars>>

Alone == UNCHANGED <<lock, alive, head, crashes, owner_vars, recovery_vars>>

\* The gate has seen the published files, and its owner alive when it looked.
GateExec(c) ==
    /\ child[c] = "gate" /\ "pid" \in files[c]
    /\ Mind(c, "working")
    /\ Alone /\ UNCHANGED files_vars

GateExit(c) ==
    /\ child[c] = "gate" /\ (OwnerOf[c] \notin alive \/ pc[c] = "killing")
    /\ Mind(c, "over")
    /\ Alone /\ UNCHANGED files_vars

ChildEdit(c) ==
    /\ child[c] = "working" /\ tree[c] \in 1 .. MaxEdits
    /\ tree' = [tree EXCEPT ![c] = @ + 1]
    /\ Alone /\ UNCHANGED <<child, lease, disk, files, box, staged, ref, retiredBy>>

\* It exits, or is killed by a cancellation, a timeout or its parent's cleanup.
ChildEnd(c) ==
    /\ child[c] = "working" /\ Mind(c, "over")
    /\ Alone /\ UNCHANGED files_vars

----------------------------------------------------------------------------
(* The owner: finalization.                                                 *)

\* The index is owned on disk before it is touched.
OwnIndex(c) ==
    /\ Turn(c, "ended") /\ head = baseline[c] /\ Goto(c, "indexed")
    /\ Persist(c, [disk[c] EXCEPT !.indexOwned = TRUE, !.child = child[c] # "none",
                                  !.resources = noted[c]])
    /\ UNCHANGED <<lock, baseline, noted, snap, lease, files, box, tree, staged, ref, child, retiredBy>>

Stage(c) == staged' = [staged EXCEPT ![c] = tree[c] # 1]

StageSnapshot(c) ==
    /\ Turn(c, "indexed") /\ Goto(c, "staging") /\ Stage(c)
    /\ UNCHANGED <<lock, baseline, noted, snap, lease, disk, files, box, tree, ref, child, retiredBy>>

\* write-tree and commit-tree, then the index is reset.
TakeSnapshot(c) ==
    /\ Turn(c, "staging") /\ Goto(c, "snapshotted")
    /\ snap' = [snap EXCEPT ![c] = tree[c]]
    /\ staged' = [staged EXCEPT ![c] = FALSE]
    /\ UNCHANGED <<lock, baseline, noted, lease, disk, files, box, tree, ref, child, retiredBy>>

\* update-ref from the null object creates the ref or fails.
CreateRef(c) ==
    /\ Turn(c, "snapshotted") /\ ref[c] = 0 /\ Goto(c, "referenced")
    /\ ref' = [ref EXCEPT ![c] = snap[c]]
    /\ UNCHANGED <<lock, baseline, noted, snap, lease, disk, files, box, tree, staged, child, retiredBy>>

PersistVerified(c) ==
    /\ Turn(c, "referenced") /\ ref[c] = snap[c] /\ Goto(c, "verified")
    /\ Persist(c, [disk[c] EXCEPT !.state = "ref-verified"])
    /\ UNCHANGED <<lock, baseline, noted, snap, lease, files, box, tree, staged, ref, child, retiredBy>>

CompareTree(c) ==
    /\ Turn(c, "verified") /\ Goto(c, "compared") /\ Stage(c)
    /\ tree[c] = snap[c] /\ head = baseline[c]
    /\ UNCHANGED <<lock, baseline, noted, snap, lease, disk, files, box, tree, ref, child, retiredBy>>

\* From here to the removal of the lease the lock is held.
RemoveWorktree(c) ==
    /\ Turn(c, "compared") /\ lock = Free /\ lock' = OwnerOf[c] /\ Goto(c, "removing")
    /\ tree' = [tree EXCEPT ![c] = 0]
    /\ staged' = [staged EXCEPT ![c] = FALSE]
    /\ UNCHANGED <<baseline, noted, snap, lease, disk, files, box, ref, child, retiredBy>>

RecordRemoval(c) ==
    /\ Turn(c, "removing") /\ lease[c] = "active" /\ Goto(c, "removed")
    /\ Write(c, [disk[c] EXCEPT !.state = "worktree-removed"])
    /\ UNCHANGED <<lock, baseline, noted, snap, lease, files, box, tree, staged, ref, child, retiredBy>>

RemoveContainer(c) ==
    /\ Turn(c, "removed") /\ Emptied(c, "removed", "emptied")
    /\ UNCHANGED <<lock, baseline, noted, snap, lease, disk, files, tree, staged, ref, child, retiredBy>>

RemoveLease(c) ==
    /\ \/ Turn(c, "emptied") /\ RenameLease(c, OwnerOf[c]) /\ Goto(c, "renamed") /\ UNCHANGED lock
       \/ Turn(c, "renamed") /\ CutLease(c) /\ Goto(c, "cut") /\ UNCHANGED lock
       \/ Turn(c, "cut") /\ FinishLease(c) /\ Goto(c, "done") /\ lock' = Free
    /\ UNCHANGED <<baseline, noted, snap, child>>

\* Whatever fails leaves the lease, and with it the worktree or the ref.
FinalizationFails(c) ==
    /\ \E stage \in FinalStages : Turn(c, stage)
    /\ \/ MayFail(c)
       \/ pc[c] \in {"ended", "verified"} /\ head # baseline[c]
       \/ pc[c] = "verified" /\ tree[c] # snap[c]
       \/ pc[c] = "renamed" /\ files[c] # disk[c].resources
    /\ LeaveSection(c) /\ Goto(c, "failed")
    /\ \/ UNCHANGED staged
       \/ pc[c] = "verified" /\ Stage(c)
    /\ UNCHANGED <<baseline, noted, snap, lease, disk, files, box, tree, ref, child, retiredBy>>

----------------------------------------------------------------------------
(* Death of a process, and commits of the user.                             *)

CallsOf(p) == {c \in Calls : OwnerOf[c] = p}

\* A process killed while the lock is free may have been in a short section.
LockLeftBy(p) ==
    {lock} \cup IF lock = Free THEN {p} \cup IF "torn" \in Faults THEN {Broken} ELSE {}
               ELSE {}

Crash(p) ==
    /\ p \in Mortal \cap alive /\ crashes > 0
    /\ crashes' = crashes - 1
    /\ alive' = alive \ {p}
    /\ lock' \in LockLeftBy(p)
    /\ UNCHANGED <<head, files_vars, baseline, noted, snap, child>>

CrashOwner(p) ==
    /\ p \in Processes /\ \A c \in CallsOf(p) : pc[c] \in CrashStages \cup Terminal
    /\ Crash(p)
    /\ pc' = [c \in Calls |-> IF OwnerOf[c] = p THEN "dead" ELSE pc[c]]
    /\ UNCHANGED recovery_vars

CrashRecovery(r) ==
    /\ r \in Recoveries
    /\ Crash(r)
    /\ rpc' = [rpc EXCEPT ![r] = "dead"]
    /\ UNCHANGED <<pc, job, scan, artifacts>>

\* A root process whose calls are over exits.
Exit(p) ==
    /\ p \in Processes \cap alive /\ \A c \in CallsOf(p) : pc[c] \in Terminal
    /\ alive' = alive \ {p}
    /\ UNCHANGED <<lock, head, crashes, files_vars, owner_vars, child, recovery_vars>>

RootCommits ==
    /\ head < MaxCommits
    /\ head' = head + 1
    /\ UNCHANGED <<lock, alive, crashes, files_vars, owner_vars, child, recovery_vars>>

----------------------------------------------------------------------------
(* Recovery: what is stale.                                                 *)

At(r, stage) ==
    /\ rpc[r] = stage /\ r \in alive
    /\ UNCHANGED <<alive, head, crashes, owner_vars, child>>

Proceed(r, stage) == rpc' = [rpc EXCEPT ![r] = stage]

\* A slip of InspectLock: it stops at every lock.
InspectLockMutant(r) ==
    /\ At(r, "idle") /\ Proceed(r, "inspected")
    /\ lock = Free
    /\ UNCHANGED <<lock, files_vars, job, scan, artifacts>>

\* A complete claim of a dead process is retired; at any other lock it stops.
InspectLock(r) ==
    /\ At(r, "idle") /\ Proceed(r, "inspected")
    /\ lock \in {Free} \cup (Actors \ alive)
    /\ lock' = Free
    /\ UNCHANGED <<files_vars, job, scan, artifacts>>

\* A pid file that the record does not declare makes the lease invalid.
Valid(c) == "pid" \in files[c] => "pid" \in disk[c].resources

ChildKnown(c) == "pid" \in files[c] \/ disk[c].child

\* Slips of NeedsRecovery: the child, or the owner, is not looked for.
NeedsRecoveryChildMutant(c) ==
    lease[c] = "active" /\ Valid(c) /\ OwnerOf[c] \notin alive
NeedsRecoveryOwnerMutant(c) ==
    /\ lease[c] = "active" /\ Valid(c)
    /\ ChildKnown(c) => child[c] \notin {"gate", "working"}

NeedsRecovery(c) ==
    /\ lease[c] = "active" /\ Valid(c)
    /\ OwnerOf[c] \notin alive
    /\ ChildKnown(c) => child[c] \notin {"gate", "working"}

Scan(r) ==
    /\ At(r, "inspected") /\ Proceed(r, "scanned")
    /\ scan' = [scan EXCEPT ![r] = [c \in {d \in Calls : NeedsRecovery(d)} |-> disk[c]]]
    /\ artifacts' = [artifacts EXCEPT ![r] =
                       {c \in Calls : lease[c] = "retired" /\ retiredBy[c] \notin alive}]
    /\ UNCHANGED <<lock, files_vars, job>>

\* It acts on that list, however old it is when the lock is claimed.
ClaimLock(r) ==
    /\ At(r, "scanned")
    /\ \/ /\ lock = Free /\ lock' = r /\ Proceed(r, "recovering")
          /\ UNCHANGED <<scan, artifacts>>
       \/ /\ lock # Free /\ UNCHANGED lock /\ Proceed(r, "idle")
          /\ scan' = [scan EXCEPT ![r] = NoScan]
          /\ artifacts' = [artifacts EXCEPT ![r] = {}]
    /\ UNCHANGED <<files_vars, job>>

FinishRecovery(r) ==
    /\ At(r, "recovering") /\ DOMAIN scan[r] = {} /\ artifacts[r] = {}
    /\ Proceed(r, "idle") /\ lock' = Free
    /\ UNCHANGED <<files_vars, job, scan, artifacts>>

----------------------------------------------------------------------------
(* Recovery: one stale lease or interrupted retirement after the other.     *)

\* The job is over, with or without an error.
Drop(r, c) ==
    /\ Proceed(r, "recovering")
    /\ job' = [job EXCEPT ![r] = Free]
    /\ scan' = [scan EXCEPT ![r] = Restrict(@, DOMAIN @ \ {c})]
    /\ artifacts' = [artifacts EXCEPT ![r] = @ \ {c}]

TakeArtifact(r, c) ==
    /\ At(r, "recovering") /\ c \in artifacts[r]
    /\ Proceed(r, "cutting")
    /\ job' = [job EXCEPT ![r] = c]
    /\ UNCHANGED <<lock, files_vars, scan, artifacts>>

\* What retireEmptyWorkspaceContainer asks: nothing but the marker is in the
\* container, and their identities are recorded.
BoxKnown(c, rec) ==
    /\ box[c] \notin Unfinished
    /\ box[c] # "none" => rec.ident # "none"
    /\ WithMarker(c) => rec.ident \in {"owner", "worktree"}

\* What becomes of a lease whose child was never admitted.
ReservedPlan(c, rec) ==
    IF ref[c] # 0 \/ tree[c] # 0 THEN "recovering"
    ELSE IF ~rec.located \/ box[c] = "none" THEN "retiring" ELSE "emptying"

\* What becomes of one that may hold attempted work.
WorkPlan(c, rec) ==
    IF tree[c] # 0
    THEN IF box[c] # "marked" \/ rec.ident # "worktree" THEN "recovering"
         ELSE IF ref[c] = 0 THEN "salvaging" ELSE "comparing"
    ELSE IF ref[c] = 0 THEN "recovering"
         ELSE IF box[c] = "none" THEN "retiring" ELSE "emptying"

TakeLease(r, c) ==
    /\ At(r, "recovering") /\ artifacts[r] = {} /\ c \in DOMAIN scan[r]
    /\ LET rec == scan[r][c]
           plan == IF rec.state = "reserved" THEN ReservedPlan(c, rec) ELSE WorkPlan(c, rec)
       IN IF plan = "recovering" THEN Drop(r, c)
          ELSE /\ Proceed(r, plan)
               /\ job' = [job EXCEPT ![r] = c]
               /\ UNCHANGED <<scan, artifacts>>
    /\ UNCHANGED <<lock, files_vars>>

\* The record can only be written over what was read of it.
Unchanged(r, c) == lease[c] = "active" /\ disk[c] = scan[r][c]

WriteCopy(r, c, rec) ==
    /\ Unchanged(r, c) /\ Write(c, rec)
    /\ scan' = [scan EXCEPT ![r][c] = rec]
    /\ UNCHANGED <<job, artifacts>>

MarkIndex(r) ==
    /\ At(r, "salvaging") \/ At(r, "comparing")
    /\ LET c == job[r] IN
        /\ ~scan[r][c].indexOwned /\ ~staged[c]
        /\ WriteCopy(r, c, [scan[r][c] EXCEPT !.indexOwned = TRUE])
    /\ UNCHANGED <<lock, rpc, lease, files, box, tree, staged, ref, retiredBy>>

Salvage(r) ==
    /\ At(r, "salvaging") /\ Proceed(r, "referenced")
    /\ LET c == job[r] IN
        /\ scan[r][c].indexOwned /\ ref[c] = 0
        /\ Stage(c)
        /\ ref' = [ref EXCEPT ![c] = tree[c]]
    /\ UNCHANGED <<lock, job, scan, artifacts, lease, disk, files, box, tree, retiredBy>>

RecordRef(r) ==
    /\ At(r, "referenced") /\ Proceed(r, "comparing")
    /\ WriteCopy(r, job[r], [scan[r][job[r]] EXCEPT !.state = "ref-verified"])
    /\ UNCHANGED <<lock, lease, files, box, tree, staged, ref, retiredBy>>

\* The index is left as the comparison stages it, unless the worktree goes.
RecoverWorktree(r) ==
    /\ At(r, "comparing") /\ Proceed(r, "removed")
    /\ LET c == job[r] IN
        /\ scan[r][c].indexOwned /\ tree[c] = ref[c]
        /\ tree' = [tree EXCEPT ![c] = 0]
        /\ staged' = [staged EXCEPT ![c] = FALSE]
    /\ UNCHANGED <<lock, job, scan, artifacts, lease, disk, files, box, ref, retiredBy>>

RecordRecovered(r) ==
    /\ At(r, "removed") /\ Proceed(r, "emptying")
    /\ WriteCopy(r, job[r], [scan[r][job[r]] EXCEPT !.state = "worktree-removed"])
    /\ UNCHANGED <<lock, lease, files, box, tree, staged, ref, retiredBy>>

EmptyBox(r) ==
    /\ At(r, "emptying")
    /\ LET c == job[r] IN
        /\ box[c] # "none" /\ BoxKnown(c, scan[r][c])
        /\ Box(c, Emptier(c))
        /\ Proceed(r, IF WithMarker(c) THEN "emptying" ELSE "retiring")
    /\ UNCHANGED <<lock, job, scan, artifacts, lease, disk, files, tree, staged, ref, retiredBy>>

RetireLease(r) ==
    /\ \/ At(r, "retiring") /\ RenameLease(job[r], r) /\ Proceed(r, "cutting")
          /\ UNCHANGED <<job, scan, artifacts>>
       \/ At(r, "cutting") /\ CutLease(job[r]) /\ Proceed(r, "cut")
          /\ UNCHANGED <<job, scan, artifacts>>
       \/ At(r, "cut") /\ FinishLease(job[r]) /\ Drop(r, job[r])
    /\ UNCHANGED lock

JobError(r) ==
    LET c == job[r]  rec == scan[r][c] IN
    CASE rpc[r] = "salvaging" -> ~rec.indexOwned /\ (staged[c] \/ ~Unchanged(r, c))
      [] rpc[r] = "comparing" -> IF rec.indexOwned THEN tree[c] # ref[c]
                                 ELSE staged[c] \/ ~Unchanged(r, c)
      [] rpc[r] \in {"referenced", "removed"} -> ~Unchanged(r, c)
      [] rpc[r] = "emptying" -> box[c] = "none" \/ ~BoxKnown(c, rec)
      [] rpc[r] = "retiring" -> lease[c] # "active"
      [] rpc[r] = "cutting" -> lease[c] # "retired" \/ files[c] # disk[c].resources
      [] OTHER -> FALSE

\* A lease that cannot be recovered is kept for explicit inspection.
PreserveLease(r) ==
    /\ \E stage \in JobStages : At(r, stage)
    /\ "io" \in Faults \/ JobError(r)
    /\ Drop(r, job[r])
    /\ UNCHANGED <<lock, files_vars>>

----------------------------------------------------------------------------

OwnerStep(c) ==
    \/ Discover(c) \/ Reserve(c) \/ CreateLease(c) \/ CompleteLease(c) \/ ReserveFails(c)
    \/ RecordPaths(c) \/ MakeBox(c) \/ MarkBox(c) \/ PersistBox(c) \/ AddWorktree(c)
    \/ PersistWorktree(c) \/ CreateConfinement(c) \/ PersistConfinement(c)
    \/ SetupFails(c) \/ MarkerFails(c)
    \/ DiscardWorkspace(c) \/ DropLease(c) \/ RetireDropped(c) \/ DiscardFails(c)
    \/ PrepareLaunch(c) \/ SpawnGate(c) \/ NoteChildPid(c) \/ PublishPid(c)
    \/ NoteLaunchReady(c) \/ LaunchFails(c) \/ ChildClosed(c)
    \/ OwnIndex(c) \/ StageSnapshot(c) \/ TakeSnapshot(c) \/ CreateRef(c) \/ PersistVerified(c)
    \/ CompareTree(c) \/ RemoveWorktree(c) \/ RecordRemoval(c) \/ RemoveContainer(c)
    \/ RemoveLease(c) \/ FinalizationFails(c)

ChildStep(c) == GateExec(c) \/ GateExit(c) \/ ChildEdit(c) \/ ChildEnd(c)

RecoveryStep(r) ==
    \/ InspectLock(r) \/ Scan(r) \/ ClaimLock(r) \/ FinishRecovery(r)
    \/ \E c \in Calls : TakeArtifact(r, c) \/ TakeLease(r, c)
    \/ MarkIndex(r) \/ Salvage(r) \/ RecordRef(r) \/ RecoverWorktree(r)
    \/ RecordRecovered(r) \/ EmptyBox(r) \/ RetireLease(r) \/ PreserveLease(r)

Death == \E p \in Actors : CrashOwner(p) \/ CrashRecovery(p) \/ Exit(p)

Next ==
    \/ \E c \in Calls : OwnerStep(c) \/ ChildStep(c)
    \/ \E r \in Recoveries : RecoveryStep(r)
    \/ Death \/ RootCommits

Spec == Init /\ [][Next]_vars

\* Processes go on with what they have begun, and a child ends.  That a cleanup
\* is run again after one has finished, or failed, is up to its operator.
FairSpec ==
    /\ Spec
    /\ \A c \in Calls : WF_vars(pc[c] # "idle" /\ OwnerStep(c)) /\ WF_vars(GateExit(c))
                         /\ WF_vars(ChildEnd(c))
    /\ \A r \in Recoveries : WF_vars(RecoveryStep(r))

----------------------------------------------------------------------------
(* Properties.                                                              *)

\* Attempted work is always in its worktree or in its ref, and no one writes
\* any more once the ref holds it (README.md:228-230), whatever crashes or
\* throws in setup, launch, finalization and recovery.
Attempts == INSTANCE AttemptedWork WITH Calls <- Calls, tree <- tree, ref <- ref
AttemptSpec == Attempts!Spec

\* A child that works has its worktree and its lease, whether or not its owner
\* lives: "leaves live processes untouched" (README.md:231).
LiveChildUndisturbed ==
    \A c \in Calls : child[c] = "working" => tree[c] # 0 /\ lease[c] = "active"

\* A container or a worktree without an active lease would be found by no
\* recovery: the lease is the first to come and the last to go.
NothingOrphaned ==
    \A c \in Calls : (tree[c] # 0 \/ box[c] # "none") => lease[c] = "active"

\* What a child has attempted can be salvaged at any time after a crash: none of
\* the checks of recoverLeaseWorkspace would refuse the worktree, its index (one
\* that differs from the baseline is declared in the record) or the ref.
WorkSalvageable ==
    \A c \in Calls : lease[c] = "active" /\ child[c] \in {"gate", "over"} =>
        /\ disk[c].state # "reserved"
        /\ tree[c] # 0 =>
             /\ box[c] = "marked" /\ disk[c].ident = "worktree" /\ ref[c] \in {0, tree[c]}
             /\ staged[c] => disk[c].indexOwned
        /\ tree[c] = 0 => ref[c] # 0 /\ BoxKnown(c, disk[c])

\* Two calls may write one file, or two that a file system which ignores case
\* or the form of a letter takes for one.
SameFile(p, q) == Len(p) = Len(q) /\ \A i \in DOMAIN p : Fold[p[i]] = Fold[q[i]]
Writable == [c \in Calls |-> {p \in Files : MayWrite(p, Scope[c])}]
\* scopesOverlap can compare the path, folded: nothing in it folds to ".git", "."
\* or "..".  A scope entry that does, a directory .GIT for one, is accepted as it
\* stands and overlaps nothing, not even itself (implement-scope.ts:56-58).
Comparable(p) == \A i \in DOMAIN p : Fold[p[i]] \in Names \ {".git"}
Collide(c, d) ==
    \E p \in Writable[c], q \in Writable[d] : SameFile(p, q) /\ Comparable(p)

\* Leases that exist side by side, those of the dead included, have one baseline
\* and are at most MAX_PARALLEL_IMPLEMENTERS, also if their owners read HEAD and
\* the leases at different times; and they may not write the same file, unless
\* its folded path is one that scopesOverlap cannot compare.
AdmittedTogether ==
    /\ \A c, e \in Calls : c # e /\ Reserved(c) /\ Reserved(e) =>
         baseline[c] = baseline[e] /\ ~Collide(c, e)
    /\ Cardinality({c \in Calls : Reserved(c)}) <= MaxParallelImplementers

\* No step of a recovery, or of another owner, touches the lease, the container
\* or the ref of a call whose owner lives (persistLeaseRecord: "no longer owned
\* by this process").
OwnersUndisturbed ==
    [][\A c \in Calls :
        OwnerOf[c] \in alive /\ ~OwnerStep(c) =>
            /\ lease'[c] = lease[c] /\ disk'[c] = disk[c]
            /\ box'[c] = box[c] /\ ref'[c] = ref[c]
            /\ tree'[c] # tree[c] => child[c] = "working"]_vars

\* The record on disk is enough: the pid file is declared, of a reservation no
\* checkout exists and the container is known, and otherwise the work is there.
\* The container is not known, and the lease stays, after a death between the
\* mkdir or the link of the marker and its record, and after one in the middle of
\* atomicCreateFile, whose temporary no cleanup takes away
\* (workspace-container.ts:289-320).
Recoverable(c) ==
    /\ lease[c] = "active" /\ OwnerOf[c] \notin alive /\ Valid(c)
    /\ IF disk[c].state = "reserved" THEN tree[c] = 0 /\ BoxKnown(c, disk[c])
       ELSE tree[c] # 0 \/ ref[c] # 0

\* Such a lease of a dead owner is recovered by a cleanup that is run again,
\* wherever its owner died and whatever another call does meanwhile
\* (service.ts:241-262, "recovered leases").
Recovered == \A c \in Calls : Recoverable(c) ~> lease[c] # "active"
=============================================================================
