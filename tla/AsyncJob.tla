------------------------------ MODULE AsyncJob ------------------------------
(***************************************************************************)
(* rlm_query --async: the front, which creates the job directory, starts   *)
(* the worker and acknowledges or cancels the job, and the detached        *)
(* worker, which runs the child (ChildRunner) and publishes the output and *)
(* the sentinel.  The two share the files of the directory and signals.    *)
(*                                                                         *)
(* The same runner serves the implementers of a session: quiesce is TRUE,  *)
(* there is no front and no job directory, and the worker is the session.  *)
(* A file made by atomicCreateFile appears with its contents, at its       *)
(* link(2); the replacement of the output is torn until it is complete.    *)
(***************************************************************************)
EXTENDS ChildRunner

CONSTANTS
    Deadline,    \* RLM_TIMEOUT is set
    MaxFaults    \* bound: how many I/O errors, signals and kills happen

ASSUME DeadlineAssumption == Deadline \in BOOLEAN
ASSUME BoundAssumption == MaxFaults \in Nat

VARIABLES
    dir,        \* the job directory exists
    files,      \* which of its files exist
    output,     \* contents of output.txt
    sentinel,   \* exit code in done
    front,      \* progress of the front
    aborted,    \* its AbortController
    sig,        \* what cancelAsyncJob sends
    worker,     \* progress of the worker
    terms,      \* SIGTERMs on their way to the worker
    requested,  \* requestedExitCode of the worker is set
    code,       \* how executeRequest ended
    faults      \* how many faults have happened

fileVars == <<dir, files, output, sentinel>>
frontVars == <<front, aborted, sig>>
workerVars == <<worker, terms, requested, code>>
vars == <<runnerVars, fileVars, frontVars, workerVars, faults>>

Files == {"job", "admitted", "child.pid", "done"}
Codes == {"ok", "error", "timeout", "cancelled", "terminated"}
FrontEnded == {"acked", "rejected", "discarded", "preserved", "failed", "dead"}
Stages == {"none", "booting", "ready", "admitted", "spawned", "running", "output", "torn",
           "sentinel", "cleanup", "over", "dead"}

TypeOK ==
    /\ RunnerTypeOK
    /\ dir \in BOOLEAN /\ files \in SUBSET Files
    /\ output \in {"none", "empty", "torn", "child", "message"}
    /\ sentinel \in Codes \cup {"none"}
    /\ front \in FrontEnded \cup {"absent", "start", "created", "polling", "acking", "writing",
                                  "cancelling", "reading", "signalling", "waiting"}
    /\ aborted \in BOOLEAN /\ sig \in {"SIGTERM", "SIGKILL"}
    /\ worker \in Stages /\ terms \in Nat /\ requested \in BOOLEAN
    /\ code \in Codes \cup {"none"}
    /\ faults \in Nat

Init ==
    /\ RunnerInit
    /\ dir = FALSE /\ files = {} /\ output = "none" /\ sentinel = "none"
    /\ front = IF quiesce THEN "absent" ELSE "start"
    /\ aborted = FALSE /\ sig = "SIGTERM"
    /\ worker = IF quiesce THEN "admitted" ELSE "none"
    /\ terms = 0 /\ requested = FALSE /\ code = "none"
    /\ faults = 0

Fault == faults < MaxFaults /\ faults' = faults + 1

------------------------------------------------------------------------------
(* The front: admission *)

FrontGoes(stage) == front' = stage /\ UNCHANGED <<aborted, sig>>

\* createAsyncJob; a failure removes what it made.
CreateJob ==
    /\ front = "start"
    /\ \/ FrontGoes("created") /\ dir' = TRUE /\ output' = "empty" /\ UNCHANGED faults
       \/ Fault /\ FrontGoes("failed") /\ UNCHANGED <<dir, output>>
    /\ UNCHANGED <<runnerVars, files, sentinel, workerVars>>

\* discardAsyncJob: rmSync of the directory.
Discard == dir' = FALSE /\ files' = {} /\ output' = "none" /\ UNCHANGED sentinel

\* launchAsyncWorker; without a worker the job is discarded at once.
Launch ==
    /\ front = "created"
    /\ \/ /\ FrontGoes("polling") /\ worker' = "booting"
          /\ files' = {"job"} /\ UNCHANGED <<dir, output, sentinel, faults>>
       \/ Fault /\ FrontGoes("failed") /\ Discard /\ UNCHANGED worker
    /\ UNCHANGED <<runnerVars, terms, requested, code>>

\* One round of waitForAsyncAdmission: abort, admission, sentinel, deadline.
PollAborted ==
    /\ front = "polling" /\ aborted /\ FrontGoes("cancelling") /\ UNCHANGED fileVars
PollAdmitted ==
    /\ front = "polling" /\ ~aborted /\ "admitted" \in files
    /\ FrontGoes("acking") /\ UNCHANGED fileVars
PollDone ==
    /\ front = "polling" /\ ~aborted /\ "admitted" \notin files /\ "done" \in files
    /\ IF sentinel = "ok" THEN FrontGoes("acking") /\ UNCHANGED fileVars
       ELSE FrontGoes("rejected") /\ Discard
PollTimedOut ==
    /\ front = "polling" /\ ~aborted /\ Deadline /\ files \cap {"admitted", "done"} = {}
    /\ FrontGoes("cancelling") /\ UNCHANGED fileVars

\* The acknowledgement is written unless the front was aborted meanwhile.
Acknowledge ==
    /\ front = "acking"
    /\ FrontGoes(IF aborted THEN "cancelling" ELSE "writing") /\ UNCHANGED fileVars
Written == front = "writing" /\ FrontGoes("acked") /\ UNCHANGED fileVars
BrokenPipe ==
    /\ front = "writing" /\ front' = "cancelling" /\ aborted' = TRUE
    /\ UNCHANGED <<sig, fileVars>>

------------------------------------------------------------------------------
(* The front: cancelAsyncJobToTerminal *)

\* cancelAsyncJob looks for child.pid, reads it, then signals both groups; the
\* worker may remove the file in between, and the read throws.
LookForChild ==
    /\ front = "cancelling"
    /\ FrontGoes(IF "child.pid" \in files THEN "reading" ELSE "signalling")
    /\ UNCHANGED <<runnerVars, fileVars, workerVars>>

SignalChild ==
    /\ front = "reading"
    /\ IF "child.pid" \in files
       THEN FrontGoes("signalling") /\ SignalGroup(sig)
       ELSE FrontGoes("failed") /\ UNCHANGED <<leader, exit, helper>>
    /\ UNCHANGED <<hostUp, quiesce, exitSeen, reason, timers, outcome,
                   fileVars, workerVars>>

WorkerDies == worker' = "dead" /\ hostUp' = FALSE /\ UNCHANGED <<terms, requested, code>>

SignalWorker ==
    /\ front = "signalling" /\ FrontGoes("waiting")
    /\ IF worker \in {"over", "dead"} THEN UNCHANGED <<hostUp, workerVars>>
       ELSE IF sig = "SIGKILL" THEN WorkerDies
       ELSE terms' = terms + 1 /\ UNCHANGED <<hostUp, worker, requested, code>>
    /\ UNCHANGED <<quiesce, leader, exit, helper, exitSeen, reason, timers,
                   outcome, fileVars>>

\* waitForAsyncTerminal
TerminalSeen ==
    /\ front = "waiting" /\ "done" \in files
    /\ FrontGoes("discarded") /\ Discard
GiveUpNever == FALSE /\ UNCHANGED <<frontVars, fileVars>>
GiveUp ==
    /\ front = "waiting" /\ "done" \notin files
    /\ IF sig = "SIGTERM" THEN front' = "cancelling" /\ sig' = "SIGKILL"
       ELSE front' = "preserved" /\ UNCHANGED sig
    /\ UNCHANGED <<aborted, fileVars>>

FrontStep ==
    \/ CreateJob \/ Launch
    \/ /\ \/ PollAborted \/ PollAdmitted \/ PollDone \/ PollTimedOut
          \/ Acknowledge \/ Written \/ BrokenPipe \/ TerminalSeen \/ GiveUp
       /\ UNCHANGED <<runnerVars, workerVars, faults>>
    \/ (LookForChild \/ SignalChild \/ SignalWorker) /\ UNCHANGED faults

\* SIGINT or SIGTERM: the first aborts, a further one may kill.
FrontSignalled ==
    /\ front \notin FrontEnded \cup {"absent"} /\ Fault
    /\ IF aborted THEN front' = "dead" /\ UNCHANGED <<aborted, sig>>
       ELSE aborted' = TRUE /\ UNCHANGED <<front, sig>>
    /\ UNCHANGED <<runnerVars, fileVars, workerVars>>

------------------------------------------------------------------------------
(* The worker *)

WorkerGoes(stage) == worker' = stage /\ UNCHANGED <<terms, requested, code>>
EndsWith(c) == worker' = "output" /\ code' = c /\ UNCHANGED <<terms, requested>>
Running == worker \notin {"none", "over", "dead"}

\* The handlers are installed.
Boot ==
    /\ worker = "booting" /\ WorkerGoes("ready")
    /\ UNCHANGED <<runnerVars, fileVars, frontVars, faults>>

\* readAsyncJob or ensureEnvironment throws: nothing is published.
BootFails ==
    /\ worker = "ready" /\ Fault /\ WorkerDies
    /\ UNCHANGED <<quiesce, leader, exit, helper, exitSeen, reason, timers,
                   outcome, fileVars, frontVars>>

\* The code of a request that threw.
Failure(c) == IF requested THEN "terminated" ELSE c

\* executeRequest is refused, or cancelled while it waits for its slot.
Refused ==
    /\ worker = "ready" /\ EndsWith(Failure("error"))
    /\ UNCHANGED <<runnerVars, fileVars, frontVars, faults>>

\* markAsyncJobAdmitted
Admitted ==
    /\ worker = "ready" /\ ~requested /\ dir
    /\ \/ files' = files \cup {"admitted"} /\ WorkerGoes("admitted") /\ UNCHANGED faults
       \/ Fault /\ EndsWith("error") /\ UNCHANGED files
    /\ UNCHANGED <<runnerVars, dir, output, sentinel, frontVars>>

\* The spawn, and what onSpawn publishes in the same turn of the event loop.
Spawn ==
    /\ worker = "admitted" /\ SpawnChild /\ WorkerGoes("spawned")
    /\ UNCHANGED <<fileVars, frontVars, faults>>
Publish ==
    /\ worker = "spawned" /\ WorkerGoes("running")
    /\ \/ /\ files' = IF quiesce \/ leader = "failed" THEN files ELSE files \cup {"child.pid"}
          /\ UNCHANGED <<runnerVars, faults>>
       \/ Fault /\ RegistrationFails /\ UNCHANGED files
    /\ UNCHANGED <<dir, output, sentinel, frontVars>>

Abort ==
    /\ worker = "running" /\ requested /\ KillChild("abort")
    /\ UNCHANGED <<fileVars, frontVars, workerVars, faults>>

\* The runner's events wait until the worker has published the child.
Serve ==
    /\ worker \in {"running", "output", "torn", "sentinel", "cleanup", "over"} /\ RunnerStep
    /\ UNCHANGED <<fileVars, frontVars, workerVars, faults>>

\* executeRequest ends; what it does after the child, as the transcript proof,
\* may still fail.
RequestEnds ==
    /\ worker = "running" /\ Settled
    /\ IF quiesce THEN WorkerGoes("over") /\ UNCHANGED faults
       ELSE IF outcome = "ok"
       THEN \/ EndsWith("ok") /\ UNCHANGED faults
            \/ Fault /\ EndsWith(Failure("error"))
       ELSE EndsWith(Failure(IF outcome = "rejected" THEN "error" ELSE outcome)) /\ UNCHANGED faults
    /\ UNCHANGED <<runnerVars, fileVars, frontVars>>

\* finishAsyncJob: the output in place, the sentinel, then the private files.
TruncateOutputMutant ==
    /\ worker = "output" /\ dir /\ WorkerGoes("torn") /\ output' = "torn"
    /\ sentinel' = code /\ files' = files \cup {"done"}
    /\ UNCHANGED <<runnerVars, dir, frontVars, faults>>
TruncateOutput ==
    /\ worker = "output" /\ dir /\ WorkerGoes("torn") /\ output' = "torn"
    /\ UNCHANGED <<runnerVars, dir, files, sentinel, frontVars, faults>>
WriteOutput ==
    /\ worker = "torn" /\ WorkerGoes("sentinel")
    /\ output' = IF code = "ok" THEN "child" ELSE "message"
    /\ UNCHANGED <<runnerVars, dir, files, sentinel, frontVars, faults>>
PublishSentinel ==
    /\ worker = "sentinel" /\ dir /\ WorkerGoes("cleanup")
    /\ sentinel' = code /\ files' = files \cup {"done"}
    /\ UNCHANGED <<runnerVars, dir, output, frontVars, faults>>
RemovePrivate ==
    /\ worker = "cleanup" /\ WorkerGoes("over")
    /\ files' = files \ {"job", "child.pid"}
    /\ UNCHANGED <<runnerVars, dir, output, sentinel, frontVars, faults>>

\* A write of finishAsyncJob fails, and the worker ends with its error.
FinishFails ==
    /\ worker \in {"output", "torn", "sentinel"} /\ Fault /\ WorkerDies
    /\ UNCHANGED <<quiesce, leader, exit, helper, exitSeen, reason, timers,
                   outcome, fileVars, frontVars>>

\* SIGTERM: the first one is handled, in a turn of the event loop, once the
\* handlers are installed; every other one kills.
Terminated ==
    /\ terms > 0 /\ Running /\ terms' = terms - 1
    /\ \/ /\ worker \in {"ready", "running"} /\ ~requested
          /\ requested' = TRUE /\ UNCHANGED <<worker, hostUp>>
       \/ /\ worker = "booting" \/ requested
          /\ worker' = "dead" /\ hostUp' = FALSE /\ UNCHANGED requested
    /\ UNCHANGED <<code, quiesce, leader, exit, helper, exitSeen, reason, timers,
                   outcome, fileVars, frontVars, faults>>

\* The worker gets a SIGTERM, the call of an implementer is aborted; or either
\* process is killed.
Cancelled ==
    /\ Running /\ Fault
    /\ IF quiesce THEN requested' = TRUE /\ UNCHANGED terms
       ELSE terms' = terms + 1 /\ UNCHANGED requested
    /\ UNCHANGED <<runnerVars, fileVars, frontVars, worker, code>>
Killed ==
    /\ Running /\ Fault /\ WorkerDies
    /\ UNCHANGED <<quiesce, leader, exit, helper, exitSeen, reason, timers,
                   outcome, fileVars, frontVars>>

WorkerStep ==
    \/ Boot \/ Refused \/ Admitted \/ Spawn \/ Publish \/ Abort \/ RequestEnds
    \/ TruncateOutput \/ WriteOutput \/ PublishSentinel \/ RemovePrivate
    \/ Terminated

Next ==
    \/ FrontStep \/ FrontSignalled
    \/ WorkerStep \/ BootFails \/ FinishFails \/ Cancelled \/ Killed
    \/ Serve
    \/ ChildStep /\ UNCHANGED <<fileVars, frontVars, workerVars, faults>>

\* The front and the worker run, timers fire and events are delivered; a child
\* need not end by itself.
Spec ==
    /\ Init /\ [][Next]_vars
    /\ WF_vars(FrontStep)
    /\ WF_vars(WorkerStep)
    /\ WF_vars(worker \in {"running", "output", "torn", "sentinel", "cleanup", "over"}
               /\ (OnExit \/ OnClose \/ FinalSweep \/ \E timer \in timers : Escalate(timer))
               /\ UNCHANGED <<fileVars, frontVars, workerVars, faults>>)

------------------------------------------------------------------------------
(* Properties *)

\* "The sentinel contains the exit code when the job is terminal" (README.md:130):
\* who finds it finds the whole output next to it and no child behind it, and it
\* says ok only for a child that ended well before anyone asked it to stop.  And
\* the front never removes the files of a job without it: a worker that was
\* killed is not taken for one that finished.
SentinelTruthful ==
    /\ sentinel # "none" =>
         /\ leader # "alive"
         /\ dir => output = IF sentinel = "ok" THEN "child" ELSE "message"
         /\ sentinel = "ok" => exit = "ok" /\ reason = "none"
    /\ front \in {"rejected", "discarded"} => sentinel # "none"

\* With RLM_TIMEOUT set, the front comes to an end: it acknowledges the job, or is
\* rejected, or has cancelled it, though the worker may die at any point and its
\* child ignore every SIGTERM.  Without it, which is the default, there is no
\* deadline, and the front polls for ever for a worker that died before it said
\* anything (cli-async.ts:176-191).
FrontEnds == Deadline => ((front = "polling") ~> (front \in FrontEnded))
=============================================================================
