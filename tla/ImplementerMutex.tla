-------------------------- MODULE ImplementerMutex --------------------------
(***************************************************************************)
(* The lock of the implementer registry: a directory with a file           *)
(* owner.json, made and retired by system calls that other processes may   *)
(* interleave with.                                                        *)
(*                                                                         *)
(* Holders enter through withImplementerRegistryLock.  Cleaners are runs   *)
(* of rlm_cleanup --force, which first retire a lock whose recorded owner  *)
(* is dead and then claim the lock themselves.  Every directory and every  *)
(* file has an identity (device and inode): the number of the claim that   *)
(* created it, 0 for a path that does not exist.  An age of 0 minutes is   *)
(* assumed, so that age never protects a lock; an inode is not reused.     *)
(* Names differ from those of ImplementerRegistry: a module can extend both.*)
(***************************************************************************)
EXTENDS Naturals, FiniteSets

CONSTANTS
    Holders,    \* processes that use the registry
    Cleaners,   \* processes that run a forced recovery
    Killable,   \* bound: the processes that may be killed
    MaxClaims,  \* bound: how often a lock directory is created
    Nobody      \* no process

Procs == Holders \cup Cleaners

ASSUME ProcsAssumption ==
    /\ Holders \cap Cleaners = {}
    /\ Nobody \notin Procs
    /\ Killable \subseteq Procs
ASSUME BoundAssumption == MaxClaims \in Nat

VARIABLES
    dir,     \* identity of the lock directory
    file,    \* identity and contents of owner.json in it
    claims,  \* how many lock directories were ever created
    step,    \* progress of each process
    claim,   \* the directory each process created last
    target,  \* the owner whose lock it is retiring
    up       \* whether process.kill(pid, 0) finds it

lockVars == <<dir, file, claims, step, claim, target, up>>

Owner == [proc : Procs \cup {Nobody}, id : Nat]
NoOwner == [proc |-> Nobody, id |-> 0]
NoFile == [id |-> 0, owner |-> NoOwner]

LockStages == {"idle", "made", "created", "critical", "stale", "scanned",
               "checked", "unlinked", "verified", "dead"}

LockTypeOK ==
    /\ dir \in Nat
    /\ file \in [id : Nat, owner : Owner]
    /\ claims \in Nat
    /\ step \in [Procs -> LockStages]
    /\ claim \in [Procs -> Nat]
    /\ target \in [Procs -> Owner]
    /\ up \in [Procs -> BOOLEAN]

LockInit ==
    /\ dir = 0 /\ file = NoFile /\ claims = 0
    /\ step = [p \in Procs |-> "idle"]
    /\ claim = [p \in Procs |-> 0]
    /\ target = [p \in Procs |-> NoOwner]
    /\ up = [p \in Procs |-> TRUE]

Own(p) == [proc |-> p, id |-> claim[p]]

\* An error is thrown to the caller, which leaves the file system as it is.
Throw(p) ==
    /\ step' = [step EXCEPT ![p] = "idle"]
    /\ target' = [target EXCEPT ![p] = NoOwner]
    /\ UNCHANGED <<dir, file>>

----------------------------------------------------------------------------
(* Claiming: createImplementerMutex.                                        *)

\* mkdir, which fails while the path exists.  A holder then tries again until
\* its deadline; a cleaner gives up.
MakeDirectory(p) ==
    /\ step[p] = IF p \in Holders THEN "idle" ELSE "scanned"
    /\ up[p] /\ dir = 0 /\ claims < MaxClaims
    /\ dir' = claims + 1
    /\ claims' = claims + 1
    /\ claim' = [claim EXCEPT ![p] = claims + 1]
    /\ step' = [step EXCEPT ![p] = "made"]
    /\ UNCHANGED <<file, target, up>>

GiveUp(p) ==
    /\ p \in Cleaners /\ step[p] = "scanned" /\ dir # 0
    /\ Throw(p)
    /\ UNCHANGED <<claims, claim, up>>

\* The empty record, which no reader accepts as an owner.
CreateOwnerFile(p) ==
    /\ step[p] = "made"
    /\ IF dir # 0 /\ file.id = 0
       THEN /\ file' = [id |-> claim[p], owner |-> NoOwner]
            /\ step' = [step EXCEPT ![p] = "created"]
            /\ UNCHANGED <<dir, target>>
       ELSE Throw(p)
    /\ UNCHANGED <<claims, claim, up>>

\* writeOwnedPrivateFile writes only into the file whose identity it knows.
WriteOwner(p) ==
    /\ step[p] = "created"
    /\ IF dir # 0 /\ file.id = claim[p]
       THEN /\ file' = [id |-> claim[p], owner |-> Own(p)]
            /\ step' = [step EXCEPT ![p] = "critical"]
            /\ UNCHANGED <<dir, target>>
       ELSE Throw(p)
    /\ UNCHANGED <<claims, claim, up>>

----------------------------------------------------------------------------
(* Retiring: retireImplementerMutex of an expected owner.                   *)

\* The last look before the unlink: directory, inventory, file, contents.
Matches(o) == dir = o.id /\ file = [id |-> o.id, owner |-> o]

CheckLock(p, o) ==
    /\ IF Matches(o)
       THEN /\ step' = [step EXCEPT ![p] = "checked"]
            /\ target' = [target EXCEPT ![p] = o]
            /\ UNCHANGED <<dir, file>>
       ELSE Throw(p)
    /\ UNCHANGED <<claims, claim, up>>

\* The protected action of the holder is over, with or without an error.
Release(p) == step[p] = "critical" /\ CheckLock(p, Own(p))

RetireStale(p) == step[p] = "stale" /\ CheckLock(p, target[p])

\* unlink goes by the path: it takes away whatever owner.json is there now.
UnlinkOwner(p) ==
    /\ step[p] = "checked"
    /\ IF dir # 0 /\ file.id # 0
       THEN /\ file' = NoFile
            /\ step' = [step EXCEPT ![p] = "unlinked"]
            /\ UNCHANGED <<dir, target>>
       ELSE Throw(p)
    /\ UNCHANGED <<claims, claim, up>>

VerifyDirectory(p) ==
    /\ step[p] = "unlinked"
    /\ IF dir = target[p].id
       THEN step' = [step EXCEPT ![p] = "verified"] /\ UNCHANGED <<dir, file, target>>
       ELSE Throw(p)
    /\ UNCHANGED <<claims, claim, up>>

\* rmdir, which fails on a directory that is not empty.  A cleaner that has
\* retired a stale lock goes on; a process that has released its own is done.
RemoveDirectory(p) ==
    /\ step[p] = "verified"
    /\ IF dir # 0 /\ file.id = 0
       THEN /\ dir' = 0
            /\ step' = [step EXCEPT ![p] = IF target[p].proc = p THEN "idle" ELSE "scanned"]
            /\ target' = [target EXCEPT ![p] = NoOwner]
            /\ UNCHANGED file
       ELSE Throw(p)
    /\ UNCHANGED <<claims, claim, up>>

----------------------------------------------------------------------------
(* Recovery, and death.                                                     *)

\* readMutexOwner: a record that identifies its own file and directory.
CompleteClaim == file.owner # NoOwner /\ Matches(file.owner)

\* A slip of StaleClaim: the age of the lock is enough.
StaleClaimMutant == CompleteClaim
StaleClaim == CompleteClaim /\ ~up[file.owner.proc]

\* A slip of Inspect: a lock of any kind is skipped.
InspectMutant(p) ==
    /\ p \in Cleaners /\ step[p] = "idle" /\ dir = 0
    /\ step' = [step EXCEPT ![p] = "scanned"]
    /\ UNCHANGED <<dir, file, claims, claim, target, up>>

\* A recovery finds no lock, or a stale one; at any other lock it stops.
Inspect(p) ==
    /\ p \in Cleaners /\ step[p] = "idle"
    /\ \/ /\ dir = 0
          /\ step' = [step EXCEPT ![p] = "scanned"]
          /\ UNCHANGED target
       \/ /\ dir # 0 /\ StaleClaim
          /\ step' = [step EXCEPT ![p] = "stale"]
          /\ target' = [target EXCEPT ![p] = file.owner]
    /\ UNCHANGED <<dir, file, claims, claim, up>>

Die(p) ==
    /\ p \in Killable /\ up[p]
    /\ up' = [up EXCEPT ![p] = FALSE]
    /\ step' = [step EXCEPT ![p] = "dead"]
    /\ UNCHANGED <<dir, file, claims, claim, target>>

Step(p) ==
    \/ MakeDirectory(p) \/ GiveUp(p) \/ CreateOwnerFile(p) \/ WriteOwner(p)
    \/ Release(p) \/ RetireStale(p) \/ UnlinkOwner(p) \/ VerifyDirectory(p)
    \/ RemoveDirectory(p) \/ Inspect(p)

LockNext == \E p \in Procs : Step(p) \/ Die(p)

LockSpec == LockInit /\ [][LockNext]_lockVars

\* A live process finishes what it has begun, the scheduler sees to that; that
\* the cleanup is run again is up to an operator.
FairLockSpec ==
    /\ LockSpec
    /\ \A p \in Holders : WF_lockVars(step[p] # "idle" /\ Step(p))
    /\ \A p \in Cleaners : WF_lockVars(Step(p))

----------------------------------------------------------------------------
(* Properties.                                                              *)

\* At most one live process is inside the critical section, whatever two
\* cleaners and the holders do between each other's checks and system calls
\* (withImplementerRegistryLock: the registry is read and written there).
MutualExclusion ==
    \A p, q \in Procs : step[p] = "critical" /\ step[q] = "critical" => p = q

\* A live process that has created the lock directory still has it on disk
\* until it removes it: no retirement of an older generation takes it away
\* (retireImplementerMutex: "identity changed").
DirectoryHeld ==
    \A p \in Procs : step[p] \in {"made", "created", "critical"} => dir = claim[p]

\* A complete claim whose owner was killed does not stay when the cleanup is run
\* again: "Run rlm_cleanup ... to inspect and recover stale state"
\* (workspace-registry.ts:85).  It is retired, or it is left incomplete and
\* reported, if another cleanup dies while retiring it or retires it as well.
StaleClaimRetired ==
    \A g \in 1 .. MaxClaims : (dir = g /\ StaleClaim) ~> ~(dir = g /\ StaleClaim)
=============================================================================
