# A TLA+ verification project for ypi

ypi lets a coding agent delegate work to *recursive child generations*: the
root process answers a user, calls `rlm_query`, and each call runs a child Pi
process that may itself delegate, down to a depth limit.  The program's own
logic is what makes such a tree safe: one root-owned coordinator that bounds
how many generations work at once and that can cut the whole tree off, launch
gates that close the window between spawning and registering a child, a counter
of calls, and a registry with isolated worktrees for the children that write.

This directory models that logic.  Everything is translated from the sources
under `src/`; paths below are relative to `src/extensions/ypi/` unless they
start with `src/`.

Contents: [inventory](#1-inventory), [plan](#2-plan),
[modules](#3-modules-and-their-correspondence-to-the-code),
[runs](#4-runs-bounds-and-what-they-show), [fairness](#5-fairness),
[proofs](#6-proofs), [findings](#7-findings),
[limits](#8-what-is-only-model-checked-and-what-is-not-modelled).

## 1. Inventory

| component | source | state it keeps | operations |
|---|---|---|---|
| tree coordinator | `internal/tree-coordinator.ts` | status, active and suspended slots, queue, maximum, call count, manifest | acquire, resume, suspend, release, register-launch, check, allocate-call, ack timer, drain, prune, terminate, start |
| slot client | `internal/concurrency.ts` | nested delegation count and transition queue of one process, its current token | acquire, release, suspend the inherited slot, resume it |
| delegation lifecycle | `runtime-core.ts`, `native-tool.ts` | progress of one call, what must be cleaned up | `runRecursiveChild`: admit, allocate, suspend, acquire, check, spawn, await, release, resume |
| launch gate | `internal/launch-gate.ts`, `src/scripts/launch-recursive-child.ts` | registration file, pid and ready records | wait for owner and registration, register, exec |
| process identity | `internal/process-identity.ts`, `internal/process-liveness.ts` | none (pid plus start time) | "is this the same live process?" |
| child process runner | `internal/child-process.ts`, `internal/child-output.ts` | reason of a kill, timers, settled flags | spawn, kill escalation, quiesce the group, classify |
| call counter | `guardrails.ts`, `allocateCall` in the coordinator | call count, counter file and its identity | allocate, adopt, replace |
| root generations | `src/extensions/recursive.ts`, `env.ts`, coordinator start and end | local coordinator of a root process | begin a turn, ensure, terminate, shut down |
| implementer registry | `internal/workspace-registry.ts`, `internal/implementer-mutex.ts`, `internal/implementer-lease*.ts` | lock directory, lease records | lock with deadline, reserve (scopes, baseline, cap of 3), write, remove |
| implementer workspace | `internal/workspace-policy.ts`, `internal/workspace-container.ts`, `internal/worktree-inventory.ts` | container, worktree, attempt ref, lease state | set up, launch, snapshot, update ref, restage, remove, discard |
| implementer recovery | `internal/implementer-recovery/*.ts`, `src/scripts/cleanup-implementer-workspaces.ts` | none of its own | find stale leases, retire a dead lock, salvage into a ref, remove |
| lease journal | `internal/implementer-lease-file.ts` | append-only records with commit lines | append, replay |
| atomic files | `internal/atomic-file.ts`, `internal/private-path.ts` | files | no-clobber create, conditional replace, retire a tree |
| async jobs | `internal/cli-async.ts`, `cli.ts` | job directory, admission, sentinel, pid | create, launch, admit, cancel, finish, collect, discard |
| transcripts | `internal/transcript*.ts`, `src/scripts/validate-recursion-transcripts.ts` | receipts | capture, bind, publish, validate |
| scopes and batches | `internal/implement-scope.ts`, `internal/write-scope.ts`, `internal/root-batch-policy.ts`, `internal/implementer-confinement.ts` | tools blocked in the current batch | overlap, allow or block |
| model routing | `internal/model-routing.ts` | none | choose a route |
| prompts, context, display, launchers, analytics | see `PROJECT.json` | none that a protocol depends on | text and wrappers |

**How they interact.**  The root process hosts the coordinator.  Every process
of the tree, the root included, talks to it over a Unix socket, one connection
per request; a grant needs a second round on that connection (grant,
acknowledgement, confirmation).  Children inherit a slot token and the
generation's authority through their environment, and read its status from a
manifest file.  A child is spawned detached as a launch gate that registers with
the coordinator before it becomes the child.  Implementers share the
registry directory across unrelated roots, through a lock directory and lease
files; recovery is one more process on the same files.  Async jobs and
transcripts communicate through files of a private directory.

**What is hard, and what must be true of each part.**

* *Coordinator, clients and gates*: sockets closing while a request is in
  flight, acknowledgement timers against late acknowledgements, caller death
  with detached children, cutoff against a gate about to exec, root death.
  Correct means: the limit is never passed, no waiter is forgotten, whatever
  runs can be found and signalled, a cutoff reaches everything, a parent that
  waits occupies no capacity, and every call ends.
* *Call counter*: seeds from environments of several processes, adoption of a
  file from an earlier process, failed or torn writes.  Correct means: a number
  is used once, the limit is not passed, and the file never lags behind.
* *Root generations*: replacement and termination of a generation that is still
  starting or whose manifest cannot be written, calls that are overtaken by the
  next generation.  Correct means: at most one generation accepts work, none comes
  back, a child runs only where it was admitted, a cutoff reaches what runs.
* *Implementers*: several roots and a recovery on one directory, with a crash
  between any two steps.  Correct means: exclusive lock, disjoint scopes, one
  baseline, at most three, and attempted work always survives in a worktree or
  in a verified ref.
* *Journal and atomic files*: failed calls, deaths and outages in the middle of
  an append, recoveries that read before they lock, a competitor between check
  and commit.  Correct means: the journal stays readable, an acknowledged record
  survives, no update is lost; a successor's file is not overwritten.
* *Child runner and async jobs*: abort, timeout, transport failure, exit and
  close in any order, descendants that outlive their leader, a front and a
  worker that share a directory and die at any point.  Correct means: nothing of
  a settled implementer lives, whoever is asked to stop is gone in the end, and
  nobody mistakes a killed worker for a finished one.
* *Transcripts*: files that grow, are rewritten or replaced between any two
  reads.  Correct means: a receipt vouches for bytes that were validated, the
  validator passes only what is proved, and passes what is in order.

`PROJECT.json` lists each hazard at its line with the properties that would
catch it, or a note that says why none does.

## 2. Plan

Written, in this order:

1. `TreeCoordinator` (coordinator, slot clients, delegation lifecycle, gates),
   `MCTreeCoordinator`, `TreeCoordinatorProofs`.
2. `CallCounter` (allocation across turns, processes and crashes),
   `MCCallCounter`, `CallCounterProofs`.
3. `ImplementerMutex` (the registry lock, one action per system call),
   `MCImplementerMutex`.
4. `WriteScope` (normalization and overlap of scopes, pure) and
   `ImplementerRegistry` (lease admission by it, the workspace lifecycle and
   recovery as processes over the same files), which implements `AttemptedWork`,
   `MCImplementerRegistry`, and `ImplementerProofs` for this and the lock.
5. `LeaseJournal` (the append-only record of one lease under failing calls,
   deaths and outages), which implements `DurableLog`, `MCLeaseJournal`,
   `LeaseJournalProofs`.
6. `ChildRunner` (one child and its process group) and `AsyncJob`, which extends
   it with the front and the worker of an asynchronous job; `AsyncJobProofs`.
7. `TranscriptProof` (receipts and their validator), `MCTranscriptProof`,
   `TranscriptProofProofs`.
8. `AtomicFile` (creation and replacement of one file beside a stranger, one
   system call at a time), `MCAtomicFile`, `AtomicFileProofs`.
9. `RootGeneration` (start, replacement and end of the generations of one root,
   against its own calls), `MCRootGeneration`, `RootGenerationProofs`.

Left:

10. `SlotPool`: the abstract promise of the coordinator (a pool of at most
   `MaxConcurrent` holders that stops granting once it is closed) and the
    refinement from `TreeCoordinator`.
11. The remaining pure parts as operators checked against reference definitions:
    batch gate, routing.

Theorem planned after those of section 6: the step simulation of `SlotPool` by the
coordinator.

## 3. Modules and their correspondence to the code

### TreeCoordinator

One generation of the coordinator with all its clients.  A request handler of
the coordinator runs to completion on the event loop of the root, so it is one
action; so is each turn of a client between two `await`s.  `Calls` names at the
same time the delegated calls, their slot tokens (`RLM_ACTIVE_SLOT_TOKEN`) and
the child generations they spawn; `Parent[c]` is the process that makes call `c`.

| variable | code |
|---|---|
| `authority` | `LocalCoordinator.status` and the manifest, `dead` when the root process is |
| `slots` | `activeSlots` (`at = "active"`) and `suspendedSlots`; `owner` is the caller or, after a resume, the child itself; `bound` when `childPid` is registered |
| `captured` | the `suspended` record that the closure of a resume grant keeps for its rollback |
| `queue` | `state.queue` |
| `conn` | the socket of one request: `sent`, `queued`, `granted`, `acked` (acknowledgement written), `confirmed`, `ok`, `refused` |
| `pc` | where `runRecursiveChild` is for the call: `suspending`, `acquiring`, `held`, `cleared` (last authority check passed), `spawned`, `releasing`, `leaving` (inside `resume()`), `resuming`, `returned`; `lost` if its process died |
| `joined` | the call counts in `nestedDelegations` of its caller |
| `proc` | the child: `gate` until the launch gate executes it, then `live` |
| `signalled` | what `markLocalCoordinatorTerminal` sent SIGTERM to |

Server actions are the branches of `handleRequest` (`ServeSlotRequest`,
`ServeRelease`, `ServeSuspend`, `ServeRegister`), `ServeAck`, `AckTimeout` and
`Close` (the socket events of `grantSlot` with its `rollback`), and `Refuse`
(`authenticateRequest` and the closed listener).  `DrainQueue` is the loop of
`drainQueue` in one formula: the number of queue entries it shifts is the only
prefix that keeps finding room and then stops.  Client actions follow
`runRecursiveChild` and `concurrency.ts`; `GateRegister`, `GateExec` and
`GateExit` follow `launch-gate.ts`.

Faults are actions with a budget: `Cancel` (the signal of a nested call while it
waits for admission), `DeadlinePasses` (`RLM_TIMEOUT` of any call while it waits
for the coordinator, also in `resume-slot`, which no signal aborts),
`AckTimeout` (`stall`), `Crash` of a child or gate, `Terminate` (`cutoff`: a root
abort, a new turn, a shutdown) and `RootDies`.  A client that gave up leaves
bytes behind that the coordinator may still serve; this is `Received` with
`~Waiting`.  A deadline stays passed, whereas in the model a later request of the
call may still succeed: the model has more behaviours.  One order is
left out (`Noticed`): a process that gave up a `resume-slot` in flight and has
since suspended again asks for its slot a second time before the coordinator has
seen the first socket close.  A whole round of other connections lies between
the two, and `captured` therefore needs one entry per slot.

### CallCounter

`allocateCall` over the generations that beginning a turn, a cutoff and a
restart create, for one or two root processes that name the same counter file.
`gen[r]` is the part of `LocalCoordinator` that matters here: `bound` once
`maxCalls` and `counterFile` are frozen, `held` with `raw` for
`counterIdentity` with `counterRaw`.  `env[x]` is `RLM_CALL_COUNT` of a process.
`InterruptedWrite` is the commit of the file cut short by an I/O error, which
leaves the coordinator bound but not advanced, or by the death of the root: the
file may be unchanged, truncated (only a replacement writes in place;
publication of a new file is atomic) or complete.  `Ask` and `Answered` are the
two halves of `allocateCallCount`; answers to one process are read in the order
in which the coordinator wrote them, which its single event loop and the
sockets' readiness order give.  A call may be made by the child of an earlier
one (`Parent`), which is what the root's own `RLM_CALL_COUNT` does not see.

### ImplementerMutex

The lock directory of the registry, at the grain of system calls: `mkdir`,
creation of `owner.json`, its write, the checks of the retirement, `unlink`,
`rmdir`.  Users are `Holders` (`withImplementerRegistryLock`) and `Cleaners`
(`rlm_cleanup --force`, which also retires the complete claim of a dead process
and then claims the lock itself); each may die between any two of its calls.
Directories and files carry a generation number for their inode, because all
checks of `private-path.ts` compare inodes: `dir` and `file` are what the path
holds now, `claim` the identity of the directory a process created last, `target`
what it is retiring, `up` whether it lives.  `step` says how far it has come.  The
names of the module differ from the registry's (`LockInit`, `LockSpec`, `step`), so
that `ImplementerProofs` can extend both.  A new directory never has the
inode of an old one, which the device and inode pair of a file system does not
quite promise.

### WriteScope

`implement-scope.ts` as operators: `Resolve` is `path.posix.normalize`,
`NormalizeScope`, `IsWithin` and `ScopesOverlap` are the functions of (nearly)
the same names, and `MayWrite` is what the hook of `write-scope.ts` and the
snapshot ask.  A path is a sequence of names with or without a slash at its
end, which `normalize` keeps.  `ImplementerRegistry` admits calls by
`ScopesOverlap`; what it must achieve, that no two of them may write one file,
is stated with `MayWrite`, up to the case and the form of letters.
`MCImplementerRegistry` assumes, and TLC evaluates, that the first gives the
second for every pair of entries of up to two components over the names of the
instance and every file whose folded path `scopesOverlap` can compare
(`DisjointScopes`; what it cannot compare is in section 7), and that the
reduction of a scope loses nothing (`ReducedScopes`).

### ImplementerRegistry and AttemptedWork

Calls of several root processes and any number of cleanups.  The lock is taken
and released in one step each, since `ImplementerMutex` is about its inside.
Several files of a process change between two lock sections, and every change
that a cleanup tells apart is an action of its own, so that a death can fall
between any two; section 8 names what is one step here and several system calls
in the code.

| variable | code |
|---|---|
| `lock`, `alive`, `head` | the lock directory, live pids, HEAD of the root checkout |
| `pc` | where `createGitWorktreeLease`, `runChildProcess` or `finalize` is; `Synchronous` stages run without a yield of the owner's event loop, so that calls of one process do not interleave in them |
| `lease`, `disk` | the directory under `leases/` (`partial` before its record is complete, `retired` once renamed, `cut` while it is unlinked) and the record committed in `lease.json`; `ident` is how much of `workspaceIdentity` is known |
| `noted`, `files` | `leaseResources` in the owner's memory, and the files that exist |
| `box`, `tree`, `staged`, `ref` | container (`bare`, or with the `temporary` of its marker, the marker `linked` beside it, `marked`, or the marker renamed before it is unlinked, `quarantined`), contents of the worktree, its index, the attempt ref |
| `child`, `retiredBy` | the launch gate or child; the pid in the name of a retired lease |
| `rpc`, `job`, `scan`, `artifacts` | one run of `recoverImplementerWorkspaces`: its stage, its current lease, and the lists it made *before* it took the lock |

Contents of a worktree are a number, 1 for the baseline, one more for every
edit.  `Persist` is `persistLeaseRecord` with all its refusals: the lock must be
free, every lease readable, and the lease still active.  The failures of each
stage (`ReserveFails`, `SetupFails`, `MarkerFails`, `DiscardFails`,
`LaunchFails`, `FinalizationFails`, `PreserveLease`) happen when the code's own checks refuse,
when `Faults` contains `io` (any call may throw) or when the deadline of the
lock passes.  A death while the lock is free may have fallen into one of the
short sections, so it may leave the lock behind, complete or incomplete.
`AttemptedWork` is what README.md:227-230 promises: a worktree is worked in,
its contents are saved to a ref, and it is dropped only if the ref has the same
contents or nothing was done in it.

Over-approximations, all on the safe side of the properties: a gate may execute
after its owner died, if the pid file is there (the code looks at the owner once
more); the launch grace of 5 seconds may be over at any moment; the age of a
lease or lock is always sufficient.  The second liveness barrier of an
implementer child, its registration with the coordinator, is in
`TreeCoordinator` and not repeated.

### LeaseJournal and DurableLog

The file `lease.json` of one lease, from `initializeImplementerLease` to
`writeImplementerLeaseFile` with `appendOwnedPrivateFileTransaction` under it:
two lines for each revision, the payload and the commit that carries its
digest.  A section of the registry lock is a series of system calls, each an
action that may succeed (`WriteLine`, `Sync`), fail with a part written
(`Fail`), be the last of its process (`Kill`) or be followed by an outage of the
machine, which leaves what was synced and any part of what was not.

| variable | code |
|---|---|
| `file`, `durable` | the lines as readers see them, and as they are on the disk |
| `known` | `lease.record`, with its revision and digest, of the owner or of a recovery |
| `plan` | what `writeImplementerLeaseFile` passes to the append: size observed, bytes committed, the new record |
| `pc`, `lock`, `alive` | the next system call of each writer, the registry lock, live pids |
| `acked`, `writes` | revisions whose append returned; records ever made (a ghost that tells contents apart) |

The owner reads nothing before it writes: its record is the one in its memory.
A recovery reads the lease *before* it takes the lock (`Measure`, `Scan`: the
read is as long as the file was when it was opened) and writes it afterwards;
what saves it is the comparison of revision and digest with the file on disk
(`UpToDate`).  `DurableLog` says what a caller may rely on: records are added
one at a time, each made from the content of the one before, and an outage takes
away only records that no writer was told are written.  Two things the module
makes visible: the fsync between payload and commit is needed, because a payload
may lose its middle in an outage while a later line survives; and an owner whose
last fsync failed cannot write again (its record is behind the file's) until a
recovery has read the lease.

### ChildRunner and AsyncJob

`ChildRunner` is `runChildProcess`: the child is the leader of a process group
in which it may leave a helper that holds its pipes open (`holding`) or does not
(`apart`), and every member may ignore SIGTERM.  `KillChild` is `killChild`,
`OnExit` and `OnClose` are the events of the same name, `Escalate` and
`FinalSweep` the timers `killTimer`, `exitSweepTimer` and the one in the close
handler; `quiesce` is `options.quiesceProcessGroup`, set for implementers.
`outcome` is what the promise settles with, `closing` while the close handler
waits for its last sweep.

`AsyncJob` extends it with the two processes of `rlm_query --async`.  The front
(`cli.ts`, `cli-async.ts`) creates the job directory, launches the worker, waits
for its admission and acknowledges the job or cancels it: SIGTERM to the child
and the worker, five seconds for the sentinel, SIGKILL, one more.  The worker
admits the request, runs the child, writes the output, publishes the sentinel
and removes its private files, one action each, since the front looks at the
files between any two.  `files` are `job.json`, the admission marker,
`child.pid` and the sentinel; `output` and `sentinel` their contents; `terms`
the SIGTERMs on their way to the worker.  With `quiesce` the same runner serves an
implementer: there is no front, and the worker stands for the session.  The
launch gate is not repeated here, and the registration of the child's pid fails
as a whole (`RegistrationFails`).

### TranscriptProof

`prepareTranscriptProof`, `finalizeTranscriptProof` and the part of
`runRecursiveChild` and `acquireChildResources` around them, for calls of one
process, with the validator (`validate-recursion-transcripts.ts`,
`verifyTranscriptReceipt`) as one more process over the same files.  Every read
or digest of a file is a step, because writers (the child, a descendant that
outlives it, somebody who rewrites in place or replaces the file) may come in
between; stages of one process that have no `await` between them do not
interleave (`Synchronous`).  A file is a sequence of events, each a whole line
or one of the two halves of a line (`head`, `tail`); only messages are evidence.
`held` is the leased inode, `at` what its path names, `size`, `messages` and
`digest` the fields of a receipt under construction, and a digest is modelled by
the contents it is a digest of.  `seen` and `left` are the validator's lists;
`ran` and `calm` remember, for the properties, how things stood when it read the
trace.  `ran` are the calls it has to account for (`Accountable`): every child
that had been started by then, also one whose process has been killed since
(stage `killed`), and every call refused or killed in its setup (`refused`,
`dead`) that had left its session file behind.

### RootGeneration

What `TreeCoordinator` takes as given: that there is one generation.  The root
process begins one per user turn (`Begin`), makes sure there is one before tools
and at the ends of turns (`Ensure`) and terminates it on an abort or at the end
of a session (`Terminate`), while its own calls wait, are admitted, check and
launch.  A call that awaits something may wake up under another generation than
the one it asked.

| variable | code |
|---|---|
| `gens` | per generation `LocalCoordinator.status`, the manifest file (`torn` if a write stopped halfway), `memo` for `manifestRaw` (what `updateManifest` expects to find), and the promise `ready` |
| `current` | `localCoordinator`; `YPI_TREE_GENERATION` of the root names the same |
| `pc`, `asked` | where `runRecursiveChild` is for a call, and the generation whose `ready` or socket it waits for |
| `slot`, `bound` | the generation whose table holds the call's token, and whether the child is registered there (`childPid`) |
| `born`, `proc` | the generation in the child's environment, and the child |
| `signalled`, `grace` | who got SIGTERM; the timer of `terminateRootTreeCoordinator` and the promise `termination` (`done`) |

`MarkTerminal` is `markLocalCoordinatorTerminal` and `MarkThrows` the same when
its manifest update throws: the status is terminal already, the rest is skipped,
and `Begin` starts nothing.  A failed update leaves the old, the new or a torn
manifest, and after one that differs from `memo` every later update throws.
`ListenCallback` may come after its generation was replaced, or never, since
the server may have been closed first; nothing is claimed about calls that wait
for `ready` then.  How a slot is granted is `TreeCoordinator`'s: here a request
waits in line for as long as it likes, the grant is one step and the confirmation
the next, and `GiveUp` stands for an abandoned request together with its rollback.
A replacement sends SIGTERM and nothing after it, so a child that ignores the
signal goes on; `TerminationComplete` speaks of terminations only.  After an
abort and an `Ensure`, the end of the session awaits the new generation's
termination and not the old one's.

### AtomicFile

`atomic-file.ts`: how processes create, adopt and replace one file while a
stranger of the same user renames files onto its path, removes, links or edits
it, or moves the directory away.  Each system call that changes something is an
action, and so is each run of checks between two of them; what was checked may
have changed by the time the next call acts.

| variable | code |
|---|---|
| `file` | what a number stands for: content, owner and mode (`private`), links under other names (`extra`); `by` and `edited` are ghosts: who made it, and whether its content was changed after it got its name |
| `name`, `here` | what the target and each temporary name; whether `assertHeldDirectory` still finds the directory at its path |
| `stage`, `kind`, `fd` | the next system call of each process, its operation, its descriptor |
| `goal`, `held` | what a replacement expects (`expected`, `options.expectedContent`), and what the last success returned (`counterIdentity`, `counterRaw` of the coordinator) |
| `disk` | contents and the target's directory entry as far as they were synced |

A number is free again when no name and no descriptor refers to it, as inode
numbers are: a file of the stranger may take over the number of the target.  What
saves the coordinator then is that it also compares the content.
`atomicWriteFile` takes whatever it finds as its own, so `SuccessorKept` excepts
it.  Two windows of the code are in the model and no property denies them: the
one between the last check of a temporary and its `unlink`, which the code
states (`atomic-file.ts:276-279`), and two replacements that check before either
of them writes, of which one is lost (callers serialize, the coordinator by its
event loop).

## 4. Runs, bounds and what they show

| run | instance | shows |
|---|---|---|
| `tree_faults` | one slot, `a` with the batch `{b, c}`, each fault up to twice | limit, control, cutoff, lease and yielding invariants; a working generation holds an active slot; no capacity is idle while a request waits |
| `tree_liveness` | one slot, `a`, `b` with one nested call each, cutoff and root death, fairness | every call ends, a cutoff ends every generation |
| `counter` | two roots, a nested call, one proof envelope, each fault once | within a generation numbers are unique; while no write fails the file covers them, and the roots' own numbers are unique in the envelope if every answer is read |
| `mutex_race` | two holders, two cleanups, deaths of all but one at any system call, fairness | exclusion; a dead claim does not stay |
| `registry_recovery` | two scenarios (`Scenarios`): the lease of one call, two cleanups, all failures, two deaths in any stage; three calls of two processes, two scopes overlap, a cap of two, a commit and a death | `AttemptedWork` is implemented; a live child and the index are accounted for; no work is out of a cleanup's reach; what is admitted together has one baseline, no file in common and is within the cap |
| `registry_pair` | two calls of two processes, one cleanup again and again, a crash in any stage, fairness | what a living owner works on is left alone; a lease whose record suffices is recovered |
| `lease_journal` | an owner and two recoveries, four records, one failing call, two kills, two outages | the journal stays readable; it implements `DurableLog` |
| `async_job` | one job, or one implementer's child, with three faults of any kind, a deadline, fairness | the sentinel is truthful, settled implementers leave nothing, killed groups end, no helper holds a lease, the front ends |
| `transcripts` | a fork and a call with a session of its own, faults and writes bounded | receipts prove, the validator passes only proofs, and passes what is in order |
| `atomic_file` | two processes, three operations, one cut write or kill, two steps of the stranger, three inode numbers | a new file is whole; a failure that does not warn is invisible; success is on the disk; a successor is neither overwritten nor removed |
| `root_generation` | two calls, two generations, each fault up to twice | no generation comes back; children run where they were admitted; cutoff and sweep reach what runs |
| `lost_suspension` | the smallest instance of the finding | see section 7 |

*Why these bounds.*  The hazards of the coordinator need a parent, a nested
call and a competitor: three calls.  One slot makes every grant contended and
forces each parent to yield; that the limit holds for every number of slots is
proved.  The batch under one parent exercises the delegation count going above
one.  Two faults of each kind allow a fault during the repair of another.  The
counter needs a call that delegates beside calls of two roots, four in all, so
that two can collide after a third; generations are bounded because a root may
begin turns for ever.  Counters are otherwise
bounded by the number of calls, each of which runs once.  The races of the lock
need a holder and two cleanups; a second holder makes the successor.  In the
registry a call shares with others only the lock, the set of active leases and
the root's HEAD: one call with two cleanups covers what happens inside a lease,
two or three calls of two processes what happens between leases.  The constraint
of `registry_recovery` cuts the product of the two off.  In its first scenario
the other calls never begin (their process may be dead); in the second the
process of the single call may die before its child runs, no cleanup is run, no
child edits, and a call that fails has reserved nothing, so that what remains is
who is admitted beside whom.  One edit
distinguishes a worktree from the baseline and from an earlier snapshot; one
commit moves HEAD; a death of the owner and one of a cleanup during the repair
are two.  Four records of a journal are a reservation, an update of the owner, and
one update of each recovery; two outages allow one during the repair of what the
other left.  A job is one child; three faults are enough for two signals
and a kill, or a failing write between them.  Of transcripts two calls are
needed for the validator to see one and not the other, two events for a line in
two halves, and two kinds of fault for a late writer beside a failing call.  A
reused number needs two steps of the stranger, one to free it and one to take it;
a creation, its replacement and a competitor are three operations.  Of the
generations of a root only two matter to a call, the one it was admitted to and
the one it wakes up under; two calls let one be admitted to each.

*Deadlock.*  A tree whose calls have returned and whose fault budget is spent
has nothing left to do, and a counter may reach its bounds, so every
configuration says `CHECK_DEADLOCK FALSE`, as it does where a journal has been
written to its bound, a job is over, a validator has spoken, all operations
on a file have ended or the last generation is terminal; that nothing
stops *early* is `CallsEnd`, `CutoffEndsTree`, `Recovered`, `StaleClaimRetired`,
`KilledGroupEnds`, `LeaseNotHeld` and `FrontEnds`.

*What a property excludes, and why.*  `WorkingHoldsSlot` has three exceptions.  A
suspension is cancelled in flight (section 7).  A resumption is given up for a
late acknowledgement.  Or a call runs into its deadline: `concurrency.ts:152-158`
hands `RLM_TIMEOUT` on to `resume-slot`, so a call that has timed out gives its
resumption up, at once if the deadline has passed before.  After a resumption that was
given up `runRecursiveChild` reports a failed cleanup or, where the call had not
been admitted, that the inherited slot could not be resumed
(`runtime-core.ts:262-279`), and the caller goes on without its slot, or, if the
coordinator serves what was left behind, with a slot it does not know of.
`WorkConserving` holds until a process dies,
because dead slots are only pruned when a request is served: when a parent is
killed while it waits, the slot of its nested call is released by nobody, and a
queued sibling waits until some other request comes.  It asks that a drain is
due (`DrainComing`) and not that the waiters are served next: a request that
arrives while a dead slot is still in the table prunes it and is granted at once,
ahead of the queue (section 7).  `CallsEnd` is checked
without cancellations and deadlines (a leaked grant, section 7) and, for the reason just given,
without crashes.  `RootNumbersUnique` speaks of the roots' own calls, because a
call that delegates breaks uniqueness (*Counter regression*, section 7), and of clients that read their
answers: a root that abandons one does not learn its number.  It and
`FileCoversNumbers` speak of envelopes in which no write failed; section 7 says
what happens otherwise (*Counter rewound*).  Deaths in the middle of a write are
no failures in this sense: they are in both.
`StaleClaimRetired` lets a dead claim end up
incomplete: `private-path.ts:501` unlinks the owner record by its path after
checking it, so of two cleanups that retire the same dead lock the slower one can
unlink the record of a successor, and one that dies halfway leaves a directory
without a record; no cleanup retires that.  The directory itself is never lost
to its claimant, so exclusion holds.  `Recovered` speaks of leases whose record
suffices (`Recoverable`).  It does not where the owner died before the identity
of what it made was recorded (in `boxed`, `marked`, `adding`), while the
container held the temporary of its marker (in `box-known`, section 7), after
the discard
of a failed setup (`discarding`, `dropping`), with an incomplete lease directory
(`reserving`), or between publishing the pid of a child and declaring it
(section 7); `registry_recovery` has all of these, and nothing is lost in any.
`ReceiptProves` excludes a rewriting in place, which can fall between the reads
that make a receipt; `PassIsProof` includes it, since the validator reads again,
but each kind of fault happens once: two rewritings, one while the receipt is
made and one that undoes it while it is verified, would pass.  `NoFalseAlarm`
excludes faults, a call refused between its setup and its start line among them:
its reserved file stays, nothing in the trace accounts for it, and the validator
rejects the whole trace, which errs on the safe side.  `FrontEnds` needs
`RLM_TIMEOUT`: without a deadline a front polls for ever when its worker dies
before it admits the job, and a worker killed between the spawn and `child.pid`
leaves a child that no front finds.

*What no run repeats.*  `TypeOK` is proved for every module that has a module of
proofs, and so are `LimitRespected`, `DirectoryHeld` and `OneAuthority`; of the
type invariants only that of `ImplementerRegistry`, the largest, is in a run too.
The run of a property that is proved as well stays, for its mutant: it shows that
the theorem is about something the code could get wrong.

Each property of a passing run has a mutant in `PROJECT.json`: a plausible bug
in the code it depends on (a limit off by one, a prune that looks only at the
owner, a rollback that does not drain, a cutoff that forgets suspended slots)
under which the run fails.

## 5. Fairness

`FairSpec` assumes weak fairness, per call, of three things.  The coordinator's
event loop serves what has arrived and notices closed sockets (`ServerStep`).
A caller's event loop continues a call that is under way (`ClientStep`).  A
child generation or gate continues and ends once the calls it waits for have
returned (`ChildStep`): a gate polls with a timer, a model turn ends, a signalled
process dies of SIGTERM or of the SIGKILL after the grace period.  Nothing makes
a call start, and no fault has to happen.  Queues are drained by the handlers
themselves, so no strong fairness is needed.

`ImplementerMutex!FairLockSpec` lets live processes go on with a claim, a release
or a retirement they have begun, and cleanups be run again; it does not make a
holder come back.  `ImplementerRegistry!FairSpec` lets a process continue a
call that is under way and a child end.  Its fairness of `RecoveryStep` says
that an operator runs cleanups until nothing is left to recover, which is what
`Recovered` is about; it is weak, since the lock that a step may wait for is
free in the end: its holders continue, or are dead and then retired.

`AsyncJob!Spec` lets the front and the worker go on, and the runner's events and
timers arrive (exit, close, `Escalate`, `FinalSweep`), as an event loop does while
its process lives.  No child has to end or to heed a SIGTERM, no abort, timeout
or transport failure has to come, and nothing makes a front be signalled.
`LeaseJournal`, `TranscriptProof`, `AtomicFile` and `RootGeneration` have safety
properties only.

## 6. Proofs

`TreeCoordinatorProofs`, `CallCounterProofs`, `ImplementerProofs`,
`LeaseJournalProofs`, `AsyncJobProofs`, `RootGenerationProofs`,
`TranscriptProofProofs` and `AtomicFileProofs` hold the theorems; all leaves are
checked by TLAPS.  The assumptions are those named in the modules: the calls are
a finite set that does not contain the root, each has a parent, the limit is a
positive number, budgets are natural numbers; for the counter, each call belongs
to the tree of one root; for the registry, each call belongs to a process, which
is no recovery, and its request is in order, as `runRecursiveChild` asks
(`RequestAssumption`); for the journal, the owner is not a recovery; for a
file, the stranger is no writer and the names of files, writers and nothing
differ.

* `TreeCoordinatorProofs!TypeInvariant`: `TypeOK` is inductive.  The lemmas
  about `SetConn`, `RolledBack` and `DrainQueue` are stated once.
* `TreeCoordinatorProofs!CapTheorem`: `SlotCapRespected`.  With `TypeOK` it is
  inductive: every handler removes tokens from the active set or adds one where
  `HasRoom` held, and `DrainQueue` adds tokens one queue entry at a time, each
  where there was room after the entries before it; pruning and rollback only
  remove or suspend.  The proof goes over the length of the prefix that is
  shifted: before its last entry there was room, and that entry adds at most
  one token.
* `TreeCoordinatorProofs!InductiveInvariant` and, from it, `LiveTheorem`,
  `CutoffTheorem`, `LeaseTheorem`, `WaitingTheorem`, `WorkingTheorem` and
  `ConserveTheorem`: every safety property of the module.  None of them is
  inductive, since each speaks of the slot table and depends on where the
  clients, their sockets and the queue are.  `IInv` therefore says which
  connections of a call may be open at each of its stages (`ConnInv`), that the
  queue holds waiting requests, each once (`QueueInv`), what a call's progress
  says of its caller and its child (`ClientInv`), and then, while the generation
  is active, what the table is worth to them (`ActiveInv`): a slot is there for
  whoever was granted one and whose child has not ended (`Backed`), bound for
  whoever passed the gate (`Registered`), suspended under whoever has yielded it
  (`Yielded`), active otherwise unless it is on its way back (`Away`).  At most one
  request at a time, perhaps one that a call has given up, may take a slot back,
  and only while no call of its owner participates (`ReclaimInv`); a request of a
  dead caller waits only while that caller's own parent has still to release it
  (`EndInv`), which is why a grant nobody wants is always rolled back; and a dead
  slot, or room beside a waiter, is on its way to be found (`ConserveInv`).  The
  proof of a handler does not look into the queue: `Drained` states the common
  effect of all handlers that grant, prune or roll back, namely that each slot
  and each connection makes one of the moves of `SlotMove` and `ConnMove`.  Steps of
  clients change one call and at most its caller (`CallStep`), deaths change
  one process (`GoneStep`).
* `CallCounterProofs!UniqueInGeneration` and `LimitTheorem`.  Uniqueness is not
  inductive: the strengthening `IInv` adds that identifiers of coordinators are
  fresh and distinct, that a request in flight belongs to the active
  generation and has no number, and that the count of a bound coordinator
  covers all numbers given under its identifier.  Then a new number, the count
  plus one, differs from all of them.
* `CallCounterProofs!FileCoverTheorem` and `RootNumbersTheorem`, for any number
  of roots on one file.  A root's count may be behind the file: a turn begins at
  what the root has read, and numbers of its nested calls are not among that.
  The inductive invariant (`Lineage`) says what each coordinator may still do to
  the file.  It can commit only while the file says what it remembers (`Fresh`),
  and take the file back only to what its root has read (`Low`).  `LineInv`: of
  the coordinators that could take the file back, all but one are behind it, and
  stay so whichever of the others commits (`Past`), so the file never returns to
  what they remember.  `OwnInv`: whoever may still commit has read every number
  a root gave to a call of its own, or has the answer still waiting for it.
  `KeepLine` and `KeepOwn` state once what steps that write nothing keep,
  `WriteLine` what a write does to the coordinators beside the writer.
* `ImplementerProofs!InductiveInvariant` and, from it, `LiveChildTheorem`,
  `OrphanTheorem`, `SalvageTheorem`, `AdmissionTheorem`, `OwnersTheorem` and
  `AttemptTheorem`: every safety property of `ImplementerRegistry`, for any
  numbers of calls, processes and recoveries, any scopes, and deaths at any
  stage.  None of them is inductive: whether the work can be salvaged after a
  death depends on how far the owner was, and whether a recovery is right
  depends on a list it read before it took the lock.  `IInv` says who holds the
  lock at which stage (`LockInv`), that a process is at one call at a time and
  the dead do nothing (`ProcessInv`), and for each call in which stage its
  lease, record, container, worktree, index, ref and child can be what
  (`SetupInv`, `LaunchInv`, `FinalInv`).  `LeaseInv` is the part of it that names
  no stage, and so the part that a death leaves: a child that works, or whose
  gate can still execute, has its worktree as it was made (`Engaged`, `Intact`);
  what is no longer engaged is `Salvageable`.  For recoveries, `CopyInv` says in
  what a record that was read early may have aged, given that its owner is dead
  and nothing is engaged (`Quiet`, which lasts: a dead owner is not restarted and
  publishes no pid file), and `JobInv` what a recovery has made of the lease it
  is at.  Every action of an owner touches one call (`OwnerUntouched`), every
  action of a recovery one call of a dead owner (`RecoveryTouchesDead`), which is
  most of `OwnersTheorem`.
* The refinement `AttemptTheorem` needs of `IInv` only what the four steps that
  change a worktree or a ref rely on: a ref is created from a worktree that
  nobody writes any more, and a worktree is removed when it is the baseline or
  equals the ref.
* `AdmissionTheorem`: leases side by side do not overlap, are made of one
  baseline and are at most the limit; and no two of them may write one file, with
  the exception of files whose folded path `scopesOverlap` cannot compare
  (`Comparable`, section 7).  Requests and names are any.  The check and the creation of the lease
  are two steps under one lock, so `AdmissionInv` carries the result of the check
  in between (`Admissible` of whoever is admitted).  That scopes which do not
  overlap have no file in common is a lemma about `WriteScope` for paths of any
  length, `CollisionOverlaps`: whatever contains a file of names is a beginning
  of it (`OwnerOfFile`), and of two beginnings of one path, up to the folding, the
  longer lies within the shorter (`FoldedWithin`).  For that, `Resolve` must
  return a path, and leave a path of names as it is (`ResolveType`,
  `ResolvePlain`); it is a recursive function, and since the library's induction
  theorems cannot be instantiated, existence and value of its prefixes are proved
  from the least number for which they would fail (`LeastNumber`).
* `ImplementerProofs!DirectoryTheorem` and `ExclusionTheorem`: the lock itself,
  at the grain of system calls, for any holders, cleaners and deaths at any call.
  `MutexInv` is `LockTypeOK` with: a live claimant's directory is the one at the path
  (`Claimed`); generations not yet created are nowhere (`Numbered`); the owner
  record at the path names the directory it lies in (`FileFits`); the dead take
  no steps (`DeadStop`); what a process retires is its own or belongs to a dead
  owner (`TargetOver`); and whoever is about to remove a directory has seen that
  it is the target (`RemovalSafe`).  Exclusion follows since two claimants would
  have the same directory.  The lemma `TargetNotClaimed` says why a stale
  retirement cannot take a successor's directory: it compares the inode, and a
  target's inode belongs to nobody alive.
* `LeaseJournalProofs!JournalTheorem` and `Refinement`, for any number of
  recoveries, records and faults.  `Shape` says of a file that payloads and
  commits alternate, that only the last line may lack its end and that complete
  pairs agree; cutting (`CutShape`), damage behind the last commit
  (`DamageShape`) and appending (`PayloadShape`, `CommitShape`) keep it, each
  lemma stating which pairs remain.  `IInv` joins `TypeOK`, the lock
  (`HolderInv`), what each stage of an append knows of the file (`Progress`) and
  `JournalInv`: file and disk have the shape, the disk's pairs are a beginning
  of the file's and hold all that was acknowledged, and **the disk lags by the
  last commit only**.  The last part is what the fsync between payload and commit
  is for: without it an outage could damage a payload in the middle.  The
  refinement maps the second line of an append to `Commit`, the end of a
  successful append to `Acknowledge`, an outage to `Outage` and every other
  step to a stutter.
* `AsyncJobProofs!QuiescedTheorem` and `SentinelTheorem`, for any number of
  faults, with and without a deadline.  `IInv` joins three parts.  `RunnerInv`:
  how far the runner is determines what is left of the child, so that an
  implementer's promise is settled either because nothing was spawned or by the
  final sweep, whose SIGKILL no member survives; `ok` fixes the exit and the
  reason.  `WorkerInv`: no child before the spawn, none alive after it, and the
  code is `ok` only if the runner said so.  `SentinelInv`: a sentinel comes after
  the output it vouches for, and the front discards nothing without one.
  `RunnerMoves` states once what the steps of `ChildRunner` may change for those
  around it; every action of the front and the worker then has one step.
* `RootGenerationProofs`, for any numbers of calls, generations and faults:
  `AuthorityTheorem`, `IrrevocableTheorem`, `LaunchTheorem`, `CutoffTheorem` and
  `TerminationTheorem`, every property of the module.  `IInv` is `TypeOK` with:
  all generations before the current one have ended (`StatusInv`); only failures
  part a manifest from what its coordinator remembers (`WriteInv`); a registered
  child that runs belongs to a call that awaits it, and the slot of that call is
  where the child was born (`ChildInv`); and, by the progress of a termination,
  whatever is registered under a generation was signalled, or nothing is
  (`CutoffInv`).  The argument is that nothing is added under a generation that
  has ended: its entry is never written again (`Lasting`), and registration asks
  for an active one.  `GenerationMoves` and `CallMoves` state once what the two
  kinds of steps do to each other; `TerminationTheorem` needs no assumption
  about failures, since a mark that throws does not start the timer.

* `TranscriptProofProofs!ReceiptTheorem`, `PassTheorem` and `AlarmTheorem`, for
  any number of calls, events and late writers.  Files only grow, except where
  somebody rewrites or replaces one, so what was read of a file stays true of its
  beginning.  A receipt is put together from four reads; the proof follows what
  each of them still says about the file of its call when the next one is made,
  and what the validator's own reads add.  The validator is misled by nothing
  less than two rewritings of one file, which the budget of faults excludes.
* `AtomicFileProofs`: `WholeTheorem`, `InvisibleTheorem`, `DurableTheorem` and
  `SuccessorTheorem`, every property of the module, for any numbers of writers,
  operations, files and faults.  `IInv` says of each writer that the temporary
  it fills has a number that nobody else names or holds, so that whatever it
  links is its own or the stranger's (`OwnInv`); that what it has written for a
  creation that may still fail is not where it could become visible
  (`HiddenInv`); and that the file it replaces is not an untouched file of the
  stranger unless it takes what it finds (`GoalInv`).  `DiskInv` names, while no
  stranger has interfered, the stages that leave the disk behind.  `Moves` and
  `NamesMeddled` state once what a step of a writer or of the stranger does to
  the others; then each action has one step for its own writer.

## 7. Findings

**Lost suspension** (`lost_suspension`).  A nested call cancelled while its
`suspend-slot` request is in flight returns as if nothing was suspended,
but the coordinator serves the request.  Its caller works on without a slot
while another generation takes the capacity.  `PROJECT.json` quotes the sentence
of the documentation that this contradicts.  A deadline that passes then does the
same, and one that passes in `resume-slot` leaves the caller without its slot too.

More behaviours limit what is claimed; no run is kept for them, but a stronger
form of a property would fail:

* *Counter regression*.  `RLM_CALL_COUNT` of the root does not see numbers given
  to its descendants.  The next turn of a proof envelope seeds itself with it
  (`guardrails.ts:50`), and the comparison with the file is skipped because the
  file is already held: numbers are given again and the file goes back.
  `RootNumbersUnique` for all calls shows it.
* *Counter rewound*.  Outside an envelope a turn begins at zero
  (`internal/tree-coordinator.ts:1195`), and its first number takes a file that
  other roots share back below theirs.  Inside one it takes two failures: a write
  that reaches the file but is reported as failed, by the fsync for example
  (`internal/atomic-file.ts:484-506`), leaves `counterRaw` behind the file; when
  that happens to two roots, the file may come to say again what the first of
  them remembers, on the same inode, and it repeats numbers of the other.
  `FileCoversNumbers` without its first line, with two `io` faults, shows both.
* *A newcomer passes the queue*.  The handler of `acquire-slot` prunes dead slots
  and grants if there is room then (`internal/tree-coordinator.ts:519-521`); it
  does not drain the queue first, so a request that arrives just after a holder
  died is served before those that were waiting.  A property that promises the
  freed slot to whoever waits longest would fail.
* *Unsignalled tree*.  `markLocalCoordinatorTerminal` sets the status and then
  updates the manifest; when that throws (`internal/tree-coordinator.ts:1127`),
  the waiters are not answered, the server is not closed and no registered child
  is signalled, and later terminations return at once (`:1201`).  The `error`
  event of the server (`:1061-1079`) has the same effect on whatever runs.  What
  `src/docs/recursion-runtime-contract.md:86-87` says of a cancellation does not
  hold then; `CutoffComplete` without its first line shows it.
* *Leaked grant*.  A cancellation or a deadline between the acknowledgement and
  the confirmation of a grant leaves the slot acknowledged on the server
  (`internal/tree-coordinator.ts:389`) and unknown to the client, which throws
  (`internal/concurrency.ts:59`).  Nobody releases it while its owner lives; with
  one slot, the owner's own resume waits behind it for ever.  `CallsEnd` with a
  budget for `cancel` or `deadline` shows it.
* *Published child lost*.  The pid file of a child exists
  (`internal/child-process.ts:216`) before the lease record declares it
  (`internal/workspace-policy.ts:861-863`).  If the owner dies in between, every
  cleanup finds the lease invalid (`internal/implementer-recovery/registry.ts:190-194`)
  and keeps it, although owner and child are dead; it goes on counting against
  the cap and blocks its scope.  `Recovered` without `Recoverable` shows it.

* *Unfinished marker*.  The owner file of a container is published by
  `atomicCreateFile` (`internal/workspace-policy.ts:801`).  An owner that dies
  while it is, leaves `.owner.*.tmp` in the container, and
  `retireEmptyWorkspaceContainer` refuses a container with anything but the
  marker (`internal/workspace-container.ts:289-320`): every cleanup keeps the
  lease, although nothing was attempted under it, and it goes on counting against
  the cap.  `Recovered` with a `BoxKnown` that does not ask for this shows it.
* *Scopes that overlap nothing*.  `scopesOverlap` folds both scopes and then asks
  `pathIsWithinImplementScope`, which answers no to a path that is not in order
  (`internal/implement-scope.ts:56-58`).  An entry that is in order but whose
  folded form is not, such as one with a directory `.GIT` or a name that folds to
  `..`, therefore does not even overlap itself: two implementers may be admitted
  with it, and in `registry_recovery` they are.  `AdmittedTogether` excepts the
  files beneath such a directory (`Comparable`); it fails without.
* *A slash at the end*.  `normalize` keeps it, so an entry `src/` is taken for an
  owner of what begins with `src//`: a child with this scope may write nothing, although
  `src/README.md:72` speaks of directory prefixes.  This errs on the safe side and
  is in the runs (`Dir`).

## 8. What is only model-checked, and what is not modelled

*Only model-checked*: liveness (`Recovered`, `CallsEnd` and the other leads-to
properties), for which the prover has no means, and that the reduction of a scope
loses nothing (`ReducedScopes`).  Every safety property that a passing run checks
is a theorem.

*Abstracted in `TreeCoordinator`*: the bytes of the protocol and its malformed
messages; what `RLM_TIMEOUT` does outside waits for the coordinator; a request to
reclaim a slot that overtakes the end of an earlier one (`Noticed`, section 3),
whose rollback would then enter the old suspension again beside the active slot;
the abort of a root request, which ends the tree and is `Terminate`; the
resources, prompts and reports of a call; and the `starting` state of a generation, which is
`RootGeneration`'s.  A gate whose owner
survives an abrupt root death may still execute after it registered: the
coordinator is gone and nobody can signal it.  `CutoffReachesAll` and
`CutoffEndsTree` therefore speak of trees that were cut off by a living root.

*Abstracted in `CallCounter`*: the counter file is one file that only these
processes write, at one path; its ownership and mode checks, and its
displacement by a stranger, are `AtomicFile`'s.

*Abstracted in `WriteScope`*: the bounds on the length and the characters of a
path; a name that folds into several; the order of the entries of a scope, with
which the reduction may keep an entry that it need not.

*Abstracted in the registry*: identities, digests and the inventories of
ignored files and submodules are reduced to whether they match; the audit of a
child's writes and the scope check of the snapshot, which only refuse, act like
an `io` failure; lease records are written atomically, which `LeaseJournal`
justifies.  Several system calls are one step where `git worktree add` and
`remove` are (a git killed midway, by its timeout for example, leaves what a
person has to look at), where the confinement and the two files that release the
gate are created in the lease directory, and where that directory is unlinked: a
death in the middle of these leaves a temporary or a part there, which the record
does not declare, so that the retirement of the lease stops at it
(`CutLease`) after the lease has left the active ones.  The release of the lock does not fail here (it does in
`ImplementerMutex`).  A lease whose setup was discarded but could not be removed,
and a lease directory without a complete record, stay until they are inspected
by hand, as the code intends.

*Abstracted in `LeaseJournal`*: the fields of a record and the comparison of the
fields that may not change; identity and mode checks of the file; the lock, which
is `ImplementerMutex`'s.  The directory entry of the journal survives an outage,
an fsync that reported an error is not followed by one that hides the loss, and
a commit line, which is short, is lost or torn but not damaged in its middle.

*Abstracted in `ChildRunner` and `AsyncJob`*: the delays of timers, so that a
timer may fire at any moment after it is set; the decoding and backpressure of
the child's output; the launch gate; how the input of a request is resolved, and
the snapshots that a job directory carries.  Whoever waits for a job with `wait`
in a shell reads the sentinel and the output and is no process here.

*Abstracted in `AtomicFile`*: owner, type and mode are one bit; random names of
temporaries do not collide; a directory that was moved away names nothing; a call
that only reads does not fail.  `SuccessDurable` speaks of moments at which no
operation is under way, and holds without the stranger.

*Abstracted in `RootGeneration`*: slots are not limited and nested calls absent,
both `TreeCoordinator`'s; the socket directory, the proof of identity in a
request and the trace; a manifest that somebody else changes; processes and
generations do not share identities.

*Abstracted in `TranscriptProof`*: JSON and paths; two processes that make calls in
one trace; the reports of workspaces; a reader of the trace sees whole lines.
Digests do not collide.

*Not modelled*: the components with that status in `PROJECT.json`, planned in
section 2 or, for text, display, wrappers and analytics, outside what a protocol
model can say something about.
