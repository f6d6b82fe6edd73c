---------------------------- MODULE LeaseJournal ----------------------------
(***************************************************************************)
(* The journal lease.json of one implementer lease: two lines for every    *)
(* revision of the record, the payload and the commit that carries its     *)
(* digest.  Its owner writes it in sections of the registry lock; after    *)
(* the owner's death runs of rlm_cleanup --force read it without the lock  *)
(* and write it in one section.  A section is a series of system calls,    *)
(* each of which may fail, be the last one of its process, or be followed  *)
(* by the loss of everything that is not yet on the disk.                  *)
(*                                                                         *)
(* The lock is ImplementerMutex's, taken in one step here.  A line counts  *)
(* two units, and one while its end is missing.  Outages tear a line or    *)
(* lose it; a payload is long enough to lose its middle, a commit is not.  *)
(* An fsync that failed is not followed by one that hides the loss, and an *)
(* outage leaves the directory entry.                                      *)
(***************************************************************************)
EXTENDS Naturals, Sequences

CONSTANTS
    Owner,       \* the process that reserved the lease
    Recoveries,  \* runs of rlm_cleanup --force
    Nobody,      \* no process
    MaxWrites,   \* bound: how many records are ever written
    FaultBudget  \* bound: how often each kind of fault may happen

Writers == Recoveries \cup {Owner}
Faults == {"io", "kill", "outage"}

ASSUME WritersAssumption == Owner \notin Recoveries /\ Nobody \notin Writers
ASSUME BoundAssumption == MaxWrites \in Nat /\ FaultBudget \in [Faults -> Nat]

VARIABLES
    file,     \* the lines of lease.json
    durable,  \* the lines that are on the disk
    lock,     \* the process that holds the registry lock
    alive,    \* the processes that live
    pc,       \* progress of each process
    known,    \* the record each process holds, as it last read or wrote it
    plan,     \* the append in progress
    size,     \* size of the file when a recovery opened it to read
    writes,   \* how many records were ever made
    acked,    \* how many revisions a writer was told are written
    faults    \* what is left of FaultBudget

vars == <<file, durable, lock, alive, pc, known, plan, size, writes, acked, faults>>

\* A record: content stands for its fields, base for what they were made from.
Record == [revision : Nat, content : Nat, base : Nat]
NoRecord == [revision |-> 0, content |-> 0, base |-> 0]
Line == [kind : {"payload", "commit"}, record : Record, whole : BOOLEAN, good : BOOLEAN]
Plan == [observed : Nat, committed : Nat, record : Record]
NoPlan == [observed |-> 0, committed |-> 0, record |-> NoRecord]

Payload(r) == [kind |-> "payload", record |-> r, whole |-> TRUE, good |-> TRUE]
CommitOf(r) == [kind |-> "commit", record |-> r, whole |-> TRUE, good |-> TRUE]

Appending == {"opening", "trimming", "trimmed", "writing", "payload", "committing",
              "commit", "synced"}
Section == Appending \cup {"holding", "leaving"}
Stages == Section \cup {"idle", "sized", "scanned", "gone"}

------------------------------------------------------------------------------
(* The file *)

Torn(f) == f # <<>> /\ ~f[Len(f)].whole
Size(f) == IF Torn(f) THEN 2 * Len(f) - 1 ELSE 2 * Len(f)

\* The first n units of f.
Cut(f, n) ==
    IF n % 2 = 0 THEN SubSeq(f, 1, n \div 2)
    ELSE [SubSeq(f, 1, (n + 1) \div 2) EXCEPT ![(n + 1) \div 2].whole = FALSE]

\* O_APPEND: a line written behind a torn one completes it to garbage.
Extend(f, line) ==
    IF Torn(f) THEN [f EXCEPT ![Len(f)].whole = line.whole, ![Len(f)].good = FALSE]
    ELSE Append(f, line)
Broken(line) == [line EXCEPT !.whole = FALSE]

\* readLeaseJournal: the lines that have their end, taken in pairs.
Lines(f) == IF Torn(f) THEN Len(f) - 1 ELSE Len(f)
Pairs(f) == Lines(f) \div 2
PairOK(f, k) ==
    /\ f[2*k - 1].good /\ f[2*k].good
    /\ f[2*k - 1].kind = "payload" /\ f[2*k].kind = "commit"
    /\ f[2*k - 1].record = f[2*k].record
    /\ f[2*k].record.revision = k - 1
Readable(f) ==
    /\ Pairs(f) > 0
    /\ \A k \in 1 .. Pairs(f) : PairOK(f, k)
    /\ Lines(f) = 2 * Pairs(f) + 1 => f[Lines(f)].kind = "payload" \/ ~f[Lines(f)].good
Committed(f) == IF Readable(f) THEN [k \in 1 .. Pairs(f) |-> f[2*k].record] ELSE <<>>
CommittedSize(f) == 4 * Pairs(f)
LastRecord(f) == f[2 * Pairs(f)].record

\* What an outage leaves of the lines behind the ones on the disk.
Least(m, n) == IF m < n THEN m ELSE n
Damaged(f) ==
    {f} \cup {[f EXCEPT ![i].good = FALSE] :
                i \in {j \in DOMAIN f : j > Len(durable) /\ f[j].kind = "payload"}}
Surviving ==
    {durable} \cup UNION {Damaged(Cut(file, n)) :
                            n \in Least(Size(durable), Size(file)) .. Size(file)}

------------------------------------------------------------------------------
(* Sections of the lock *)

Goto(w, stage) == pc' = [pc EXCEPT ![w] = stage]
Spend(f) == faults[f] > 0 /\ faults' = [faults EXCEPT ![f] = @ - 1]

Init ==
    /\ file = <<>> /\ durable = <<>>
    /\ lock = Nobody /\ alive = Writers
    /\ pc = [w \in Writers |-> "idle"]
    /\ known = [w \in Writers |-> NoRecord]
    /\ plan = [w \in Writers |-> NoPlan]
    /\ size = [w \in Writers |-> 0]
    /\ writes = 0 /\ acked = 0 /\ faults = FaultBudget

\* leaseNeedsRecovery: a recovery reads the lease of a dead owner, before it
\* takes the lock; what it reads is as long as the file was when it opened it.
Measure(r) ==
    /\ pc[r] = "idle" /\ r \in alive /\ Owner \notin alive
    /\ Goto(r, "sized") /\ size' = [size EXCEPT ![r] = Size(file)]
    /\ UNCHANGED <<file, durable, lock, alive, known, plan, writes, acked, faults>>

Scan(r) ==
    LET seen == Cut(file, size[r])
    IN  /\ pc[r] = "sized" /\ r \in alive
        /\ IF size[r] <= Size(file) /\ Readable(seen)
           THEN Goto(r, "scanned") /\ known' = [known EXCEPT ![r] = LastRecord(seen)]
           ELSE Goto(r, "gone") /\ UNCHANGED known
        /\ UNCHANGED <<file, durable, lock, alive, plan, size, writes, acked, faults>>

\* withImplementerRegistryLock, and acquireRecoveryMutex once the lock of a dead
\* process is retired.
Acquire(w) ==
    /\ w \in alive
    /\ pc[w] = IF w = Owner THEN "idle" ELSE "scanned"
    /\ lock = Nobody \/ (w # Owner /\ lock \notin alive)
    /\ lock' = w /\ Goto(w, "holding")
    /\ UNCHANGED <<file, durable, alive, known, plan, size, writes, acked, faults>>

\* The owner whose lease was never initialised has no lease to write again.
Leave(w) ==
    /\ w \in alive
    /\ pc[w] = "leaving" \/ (w # Owner /\ pc[w] = "holding")
    /\ lock' = Nobody
    /\ Goto(w, IF w = Owner /\ known[w] # NoRecord THEN "idle" ELSE "gone")
    /\ UNCHANGED <<file, durable, alive, known, plan, size, writes, acked, faults>>

------------------------------------------------------------------------------
(* writeImplementerLeaseFile and appendOwnedPrivateFileTransaction *)

NextRecord(w) ==
    [revision |-> IF known[w] = NoRecord THEN 0 ELSE known[w].revision + 1,
     content |-> writes + 1, base |-> known[w].content]

\* The record on the disk is the one this process knows; the first one is
\* written to an empty file.
UpToDate(w) ==
    IF known[w] = NoRecord THEN file = <<>>
    ELSE Readable(file) /\ LastRecord(file) = known[w]

Check(w) ==
    /\ w \in alive /\ pc[w] = "holding" /\ writes < MaxWrites
    /\ IF UpToDate(w)
       THEN /\ plan' = [plan EXCEPT ![w] = [observed |-> Size(file),
                          committed |-> CommittedSize(file), record |-> NextRecord(w)]]
            /\ writes' = writes + 1 /\ Goto(w, "opening")
       ELSE Goto(w, "leaving") /\ UNCHANGED <<plan, writes>>
    /\ UNCHANGED <<file, durable, lock, alive, known, size, acked, faults>>

OpenJournal(w) ==
    /\ w \in alive /\ pc[w] = "opening"
    /\ Goto(w, IF Size(file) # plan[w].observed THEN "leaving"
               ELSE IF plan[w].committed < plan[w].observed THEN "trimming"
               ELSE "writing")
    /\ UNCHANGED <<file, durable, lock, alive, known, plan, size, writes, acked, faults>>

\* One system call of the append that succeeds.
TrimmedMutant(w) == file
Trimmed(w) == Cut(file, plan[w].committed)
Written(w) ==
    CASE pc[w] = "trimming" -> Trimmed(w)
      [] pc[w] = "writing" -> Extend(file, Payload(plan[w].record))
      [] pc[w] = "committing" -> Extend(file, CommitOf(plan[w].record))
After == [trimming |-> "trimmed", trimmed |-> "writing", writing |-> "payload",
          payload |-> "committing", committing |-> "commit", commit |-> "synced"]

WriteLine(w) ==
    /\ w \in alive /\ pc[w] \in {"trimming", "writing", "committing"}
    /\ file' = Written(w) /\ Goto(w, After[pc[w]])
    /\ UNCHANGED <<durable, lock, alive, known, plan, size, writes, acked, faults>>

SyncMutant(w) ==
    /\ w \in alive /\ pc[w] \in {"trimmed", "payload", "commit"}
    /\ durable' = IF pc[w] = "commit" THEN durable ELSE file
    /\ Goto(w, After[pc[w]])
    /\ UNCHANGED <<file, lock, alive, known, plan, size, writes, acked, faults>>

Sync(w) ==
    /\ w \in alive /\ pc[w] \in {"trimmed", "payload", "commit"}
    /\ durable' = file /\ Goto(w, After[pc[w]])
    /\ UNCHANGED <<file, lock, alive, known, plan, size, writes, acked, faults>>

\* The record in memory becomes the one that was written.
Finish(w) ==
    /\ w \in alive /\ pc[w] = "synced"
    /\ IF Size(file) = plan[w].committed + 4
       THEN /\ known' = [known EXCEPT ![w] = plan[w].record]
            /\ acked' = plan[w].record.revision + 1
            /\ Goto(w, IF w = Owner THEN "leaving" ELSE "holding")
       ELSE Goto(w, "leaving") /\ UNCHANGED <<known, acked>>
    /\ UNCHANGED <<file, durable, lock, alive, plan, size, writes, faults>>

------------------------------------------------------------------------------
(* Faults *)

\* What a call that is cut short leaves: nothing of it, or a part.
CutShort(w) ==
    CASE pc[w] = "writing" -> {file, Extend(file, Broken(Payload(plan[w].record)))}
      [] pc[w] = "committing" -> {file, Extend(file, Broken(CommitOf(plan[w].record)))}
      [] OTHER -> {file}

\* A system call fails, and the section ends with its error.
Fail(w) ==
    /\ w \in alive /\ pc[w] \in Appending \ {"synced"}
    /\ Spend("io") /\ file' \in CutShort(w) /\ Goto(w, "leaving")
    /\ UNCHANGED <<durable, lock, alive, known, plan, size, writes, acked>>

Kill(w) ==
    /\ w \in alive /\ Spend("kill")
    /\ file' \in CutShort(w) /\ alive' = alive \ {w} /\ Goto(w, "gone")
    /\ UNCHANGED <<durable, lock, known, plan, size, writes, acked>>

\* Every process that has begun dies; recoveries may be run after the reboot.
Outage ==
    /\ Spend("outage")
    /\ file' \in Surviving /\ durable' = file'
    /\ alive' = {r \in alive \cap Recoveries : pc[r] = "idle"}
    /\ pc' = [w \in Writers |-> IF w \in alive' THEN "idle" ELSE "gone"]
    /\ UNCHANGED <<lock, known, plan, size, writes, acked>>

Next ==
    \/ \E r \in Recoveries : Measure(r) \/ Scan(r)
    \/ \E w \in Writers : \/ Acquire(w) \/ Leave(w) \/ Check(w) \/ OpenJournal(w)
                          \/ WriteLine(w) \/ Sync(w) \/ Finish(w) \/ Fail(w) \/ Kill(w)
    \/ Outage

Spec == Init /\ [][Next]_vars

------------------------------------------------------------------------------
(* Properties *)

\* Every variable holds a value of its kind.
TypeOK ==
    /\ file \in Seq(Line) /\ durable \in Seq(Line)
    /\ lock \in Writers \cup {Nobody} /\ alive \subseteq Writers
    /\ pc \in [Writers -> Stages]
    /\ known \in [Writers -> Record]
    /\ plan \in [Writers -> Plan]
    /\ size \in [Writers -> Nat]
    /\ writes \in Nat /\ acked \in Nat /\ faults \in [Faults -> Nat]

\* Once the reservation of a lease succeeded, no failed call, death or outage
\* leaves a journal that readLeaseJournal rejects: what is behind the last
\* commit always reads as a tail that the next append cuts off.
JournalReadable == acked > 0 => Readable(file) /\ Readable(durable)

\* The journal implements the log of DurableLog: records are added one by one,
\* each made from the one before it (no update is lost when several recoveries
\* read the lease before either took the lock), and only an outage takes records
\* away, never one that a writer was told is written.
Log == INSTANCE DurableLog WITH
           log <- Committed(file),
           acked <- acked,
           outages <- FaultBudget["outage"] - faults["outage"]
ImplementsLog == Log!Spec
=============================================================================
