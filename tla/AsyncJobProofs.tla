--------------------------- MODULE AsyncJobProofs ---------------------------
(***************************************************************************)
(* Theorems about AsyncJob and the ChildRunner it extends, for any number  *)
(* of I/O errors, signals and kills, with and without a deadline.  A       *)
(* settled promise means a dead group because only the SIGKILL of the      *)
(* final sweep settles an implementer's; the sentinel is truthful because  *)
(* it is published by the stage that follows the output, and the code it   *)
(* carries was fixed when the child had ended.                             *)
(***************************************************************************)
EXTENDS AsyncJob, TLAPS

\* How far the runner is determines what is left of the child and its result.
RunnerInv ==
    /\ leader \in {"none", "failed"} => helper = "none"
    /\ leader \in {"none", "alive"} => outcome = "none"
    /\ leader = "gone" => exit # "none"
    /\ "final" \in timers => outcome = "closing"
    /\ outcome = "closing" => leader = "gone"
    /\ outcome = "ok" => exit = "ok" /\ reason = "none"
    /\ QuiescedGroupDead

\* What output.txt holds next to a sentinel with the code c.
Expected(c) == IF c = "ok" THEN "child" ELSE "message"

\* The worker has a child only between spawning and ending it, and has published
\* a sentinel only after its output.
WorkerInv ==
    /\ worker \in {"none", "booting", "ready", "admitted"} => leader = "none"
    /\ worker = "spawned" => outcome = "none"
    /\ worker \in {"output", "torn", "sentinel", "cleanup"} => leader # "alive" /\ code \in Codes
    /\ code = "ok" => outcome = "ok"
    /\ worker = "sentinel" /\ dir => output = Expected(code)

SentinelInv ==
    /\ sentinel # "none" => worker \in {"cleanup", "over", "dead"} /\ leader # "alive"
    /\ sentinel # "none" /\ dir => output = Expected(sentinel)
    /\ sentinel = "ok" => outcome = "ok"
    /\ "done" \in files => sentinel # "none"
    /\ front \in {"start", "created"} => worker = "none"
    /\ front \in {"rejected", "discarded"} => sentinel # "none"

IInv == TypeOK /\ RunnerInv /\ WorkerInv /\ SentinelInv

\* What the runner's steps may change for those who look at it: it settles once,
\* and never brings a child to life.
RunnerMoves ==
    /\ RunnerTypeOK' /\ RunnerInv'
    /\ leader' = "alive" => leader = "alive"
    /\ leader = "none" => leader' = "none"
    /\ Settled => outcome' = outcome

------------------------------------------------------------------------------
\* A signal to the group takes members away; SIGKILL takes them all.
LEMMA SignalFacts ==
    ASSUME RunnerTypeOK, RunnerInv, NEW s, SignalGroup(s)
    PROVE  /\ leader' \in {"none", "alive", "gone", "failed"}
           /\ exit' \in {"none", "ok", "error"}
           /\ helper' \in {"none", "holding", "apart", "gone"}
           /\ leader' # leader => leader = "alive" /\ leader' = "gone" /\ exit' = "error"
           /\ leader' = leader => exit' = exit
           /\ helper' # helper => HelperAlive /\ helper' = "gone"
           /\ s # "SIGTERM" => leader' # "alive" /\ helper' \in {"none", "gone"}
  BY DEF SignalGroup, RunnerTypeOK, RunnerInv, HelperAlive

\* The result of a child that has ended is a settlement, and ok only if it
\* ended well on its own.
LEMMA ResultFacts ==
    ASSUME RunnerTypeOK, RunnerInv, leader \in {"gone", "failed"}
    PROVE  /\ Result \in Settlements
           /\ Result = "ok" => exit = "ok" /\ reason = "none"
  BY DEF Result, Settlements, Reasons, RunnerTypeOK, RunnerInv

LEMMA KillMoves ==
    ASSUME RunnerTypeOK, RunnerInv, NEW s, NEW r \in Reasons, SignalGroup(s),
           outcome = "none", reason' = r, timers' = timers \cup {"kill"},
           UNCHANGED <<hostUp, quiesce, exitSeen, outcome>>
    PROVE  RunnerMoves
<1>1. /\ leader' \in {"none", "alive", "gone", "failed"}
      /\ exit' \in {"none", "ok", "error"}
      /\ helper' \in {"none", "holding", "apart", "gone"}
      /\ leader' # leader => leader = "alive" /\ leader' = "gone" /\ exit' = "error"
      /\ leader' = leader => exit' = exit
      /\ helper' # helper => HelperAlive /\ helper' = "gone"
  BY SignalFacts
<1>2. RunnerTypeOK'
  BY <1>1 DEF RunnerTypeOK
<1>3. RunnerInv'
  BY <1>1 DEF RunnerTypeOK, RunnerInv, QuiescedGroupDead, Settled, Settlements,
              HelperAlive
<1> QED
  BY <1>1, <1>2, <1>3 DEF RunnerMoves, Settled, Settlements

------------------------------------------------------------------------------
\* Every step of the runner and of the child keeps the runner's invariant.
LEMMA ChildMoves ==
    ASSUME RunnerTypeOK, RunnerInv, RunnerStep \/ ChildStep
    PROVE  RunnerMoves
<1> USE DEF RunnerMoves
<1>1. CASE StartHelper
  BY <1>1 DEF StartHelper, RunnerTypeOK, RunnerInv, QuiescedGroupDead, Settled,
              Settlements
<1>2. CASE LeaderExits
  BY <1>2 DEF LeaderExits, RunnerTypeOK, RunnerInv, QuiescedGroupDead, Settled,
              Settlements
<1>3. CASE HelperExits
  BY <1>3 DEF HelperExits, RunnerTypeOK, RunnerInv, QuiescedGroupDead, Settled,
              Settlements, GroupAlive, HelperAlive
<1>4. CASE OnExit
  <2>1. /\ exitSeen' = TRUE
        /\ UNCHANGED <<hostUp, quiesce, reason, outcome>> /\ leader = "gone"
    BY <1>4 DEF OnExit
  <2>2. CASE SignalGroup("SIGTERM") /\ timers' = timers \cup {"sweep"}
    BY <2>1, <2>2, SignalFacts
       DEF RunnerTypeOK, RunnerInv, QuiescedGroupDead, Settled, Settlements,
           GroupAlive, HelperAlive
  <2>3. CASE UNCHANGED <<leader, exit, helper, timers>>
    BY <2>1, <2>3
       DEF RunnerTypeOK, RunnerInv, QuiescedGroupDead, Settled, GroupAlive, HelperAlive
  <2> QED
    BY <1>4, <2>2, <2>3 DEF OnExit
<1>5. CASE OnClose
  <2>1. /\ outcome = "none" /\ leader \in {"gone", "failed"}
        /\ UNCHANGED <<hostUp, quiesce, exitSeen, reason>>
        /\ Kept \subseteq {"kill"}
    BY <1>5 DEF OnClose, PipesClosed, Kept
  <2>2. CASE quiesce /\ leader # "failed"
    <3>1. /\ SignalGroup("SIGTERM") /\ timers' = Kept \cup {"final"}
          /\ outcome' = "closing" /\ leader = "gone"
      BY <1>5, <2>1, <2>2 DEF OnClose
    <3> QED
      BY <2>1, <3>1, SignalFacts
         DEF RunnerTypeOK, RunnerInv, QuiescedGroupDead, Settled, Settlements
  <2>3. CASE ~(quiesce /\ leader # "failed")
    <3>1. /\ timers' = Kept /\ outcome' = Result
          /\ UNCHANGED <<leader, exit, helper>>
      BY <1>5, <2>3 DEF OnClose
    <3>2. RunnerTypeOK'
      BY <2>1, <3>1, ResultFacts DEF RunnerTypeOK
    <3>3. QuiescedGroupDead'
      BY <2>1, <2>3, <3>1
         DEF QuiescedGroupDead, GroupAlive, HelperAlive, RunnerInv
    <3> QED
      BY <2>1, <3>1, <3>2, <3>3, ResultFacts DEF RunnerInv, Settled, Settlements
  <2> QED
    BY <2>2, <2>3
<1>6. CASE FinalSweep
  <2>1. /\ outcome = "closing" /\ leader = "gone" /\ timers' = {} /\ outcome' = Result
        /\ SignalGroup("SIGKILL") /\ UNCHANGED <<hostUp, quiesce, exitSeen, reason>>
    BY <1>6 DEF FinalSweep, RunnerInv
  <2>2. /\ leader' = "gone" /\ exit' = exit
        /\ helper' \in {"none", "gone"}
    BY <2>1, SignalFacts
  <2>3. RunnerTypeOK'
    BY <2>1, <2>2, ResultFacts DEF RunnerTypeOK
  <2> QED
    BY <2>1, <2>2, <2>3, ResultFacts
       DEF RunnerInv, QuiescedGroupDead, GroupAlive, HelperAlive, Settled, Settlements
<1>7. ASSUME NEW timer \in timers, Escalate(timer) PROVE RunnerMoves
  BY <1>7, SignalFacts
     DEF Escalate, RunnerTypeOK, RunnerInv, QuiescedGroupDead, GroupAlive,
         HelperAlive, Settled, Settlements
<1>8. ASSUME NEW r \in {"timeout", "transport"}, KillChild(r) PROVE RunnerMoves
  BY <1>8, KillMoves DEF KillChild, Reasons
<1> QED
  BY <1>1, <1>2, <1>3, <1>4, <1>5, <1>6, <1>7, <1>8 DEF RunnerStep, ChildStep

------------------------------------------------------------------------------
\* Steps that leave the worker, its code and the files alone, and let the runner
\* move, keep the invariant.
LEMMA MovesInv ==
    ASSUME IInv, RunnerMoves, UNCHANGED <<fileVars, worker, code>>,
           worker = "spawned" => outcome' = outcome,
           front' \in {"start", "created", "rejected", "discarded"} => front' = front,
           TypeOK'
    PROVE  IInv'
<1>1. /\ leader' = "alive" => leader = "alive"
      /\ leader = "none" => leader' = "none"
      /\ outcome = "ok" => outcome' = outcome
  BY DEF RunnerMoves, Settled, Settlements
<1>2. WorkerInv'
  BY <1>1 DEF IInv, WorkerInv, Expected, fileVars
<1>3. SentinelInv'
  BY <1>1 DEF IInv, SentinelInv, Expected, fileVars
<1> QED
  BY <1>2, <1>3 DEF IInv, RunnerMoves

\* So do steps of the front that leave the runner, the worker and the files alone.
LEMMA FrontGoesInv ==
    ASSUME IInv, UNCHANGED <<runnerVars, fileVars, worker, requested, code>>,
           terms' \in Nat, faults' \in Nat,
           aborted' \in BOOLEAN, sig' \in {"SIGTERM", "SIGKILL"},
           \/ front' = front
           \/ front' \in FrontEnded \ {"rejected", "discarded"}
           \/ front' \in {"polling", "acking", "writing", "cancelling", "reading",
                          "signalling", "waiting"}
    PROVE  IInv'
<1>1. RunnerTypeOK'
  BY DEF IInv, TypeOK, RunnerTypeOK, runnerVars
<1>2. TypeOK'
  BY <1>1 DEF IInv, TypeOK, FrontEnded, fileVars
<1>3. RunnerInv'
  BY DEF IInv, RunnerInv, runnerVars, QuiescedGroupDead, Settled, GroupAlive,
         HelperAlive
<1>4. WorkerInv'
  BY DEF IInv, WorkerInv, Expected, runnerVars, fileVars
<1>5. SentinelInv'
  BY DEF IInv, SentinelInv, Expected, runnerVars, fileVars, FrontEnded
<1> QED
  BY <1>2, <1>3, <1>4, <1>5 DEF IInv

\* So does the death of the worker.
LEMMA WorkerDiesInv ==
    ASSUME IInv, WorkerDies, worker # "none", faults' \in Nat,
           UNCHANGED <<quiesce, leader, exit, helper, exitSeen, reason, timers,
                       outcome, fileVars, frontVars>>
    PROVE  IInv'
<1>1. worker' = "dead" /\ hostUp' \in BOOLEAN /\ UNCHANGED <<terms, requested, code>>
  BY Zenon DEF WorkerDies
<1>2. TypeOK'
  BY <1>1 DEF IInv, TypeOK, RunnerTypeOK, Stages, fileVars, frontVars
<1>3. RunnerInv'
  BY DEF IInv, RunnerInv, QuiescedGroupDead, Settled, GroupAlive, HelperAlive
<1>4. UNCHANGED <<dir, files, output, sentinel, front, leader, outcome>>
  BY DEF fileVars, frontVars
<1>5. WorkerInv'
  BY <1>1, <1>4 DEF IInv, WorkerInv, Expected
<1>6. SentinelInv'
  BY <1>1, <1>4 DEF IInv, SentinelInv, Expected
<1> QED
  BY <1>2, <1>3, <1>5, <1>6 DEF IInv

------------------------------------------------------------------------------
\* Every step of the front keeps the invariant.
LEMMA FrontInv == IInv /\ (FrontStep \/ FrontSignalled) => IInv'
<1> SUFFICES ASSUME IInv, FrontStep \/ FrontSignalled PROVE IInv'
  OBVIOUS
<1>1. TypeOK /\ faults \in Nat /\ terms \in Nat
  BY DEF IInv, TypeOK
<1>2. CASE CreateJob
  <2>1. /\ worker = "none" /\ sentinel = "none"
        /\ UNCHANGED <<runnerVars, files, sentinel, workerVars, aborted, sig>>
        /\ front' \in {"created", "failed"}
        /\ output' \in {output, "empty"} /\ faults' \in Nat
    <3>1. front = "start" /\ worker = "none" /\ sentinel = "none"
      BY <1>2 DEF CreateJob, IInv, SentinelInv
    <3>2. /\ UNCHANGED <<runnerVars, files, sentinel, workerVars, aborted, sig>>
          /\ front' = "created" \/ front' = "failed"
          /\ output' = output \/ output' = "empty"
          /\ faults' = faults \/ faults' = faults + 1
      BY <1>2, Zenon DEF CreateJob, FrontGoes, Fault
    <3> QED
      BY <1>1, <3>1, <3>2
  <2>4. dir' \in BOOLEAN
    BY <1>1, <1>2, Zenon DEF CreateJob, TypeOK
  <2>2. TypeOK'
    BY <1>1, <2>1, <2>4 DEF TypeOK, RunnerTypeOK, runnerVars, workerVars, FrontEnded
  <2>3. RunnerInv'
    BY <2>1 DEF IInv, RunnerInv, runnerVars, QuiescedGroupDead, Settled, GroupAlive,
                HelperAlive
  <2> QED
    BY <2>1, <2>2, <2>3
       DEF IInv, WorkerInv, SentinelInv, Expected, runnerVars, workerVars
<1>3. CASE Launch
  <2>1. /\ front = "created" /\ worker = "none" /\ sentinel = "none"
        /\ UNCHANGED <<runnerVars, terms, requested, code, aborted, sig, sentinel>>
        /\ front' \in {"polling", "failed"} /\ worker' \in {"none", "booting"}
        /\ files' \in {{}, {"job"}} /\ output' \in {output, "none"} /\ faults' \in Nat
    <3>1. front = "created" /\ worker = "none" /\ sentinel = "none"
      BY <1>3 DEF Launch, IInv, SentinelInv
    <3>2. /\ UNCHANGED <<runnerVars, terms, requested, code, aborted, sig, sentinel>>
          /\ front' = "polling" \/ front' = "failed"
          /\ worker' = worker \/ worker' = "booting"
          /\ files' = {} \/ files' = {"job"}
          /\ output' = output \/ output' = "none"
          /\ faults' = faults \/ faults' = faults + 1
      BY <1>3, Zenon DEF Launch, FrontGoes, Fault, Discard
    <3> QED
      BY <1>1, <3>1, <3>2
  <2>4. dir' \in BOOLEAN
    BY <1>1, <1>3, Zenon DEF Launch, Discard, TypeOK
  <2>2. TypeOK'
    BY <1>1, <2>1, <2>4 DEF TypeOK, RunnerTypeOK, runnerVars, FrontEnded, Files, Stages
  <2>3. RunnerInv'
    BY <2>1 DEF IInv, RunnerInv, runnerVars, QuiescedGroupDead, Settled, GroupAlive,
                HelperAlive
  <2> QED
    BY <2>1, <2>2, <2>3
       DEF IInv, WorkerInv, SentinelInv, Expected, runnerVars
<1>4. ASSUME UNCHANGED <<runnerVars, workerVars, faults>>,
             front' \in {"rejected", "discarded"}, Discard, UNCHANGED <<aborted, sig>>,
             "done" \in files
      PROVE  IInv'
  <2>3. dir' \in BOOLEAN /\ ~dir' /\ files' = {} /\ output' = "none" /\ sentinel' = sentinel
    BY <1>4, Zenon DEF Discard
  <2>4. UNCHANGED <<runnerVars, workerVars, faults, aborted, sig>>
    BY <1>4
  <2>1. TypeOK'
    BY <1>1, <1>4, <2>3, <2>4
       DEF TypeOK, RunnerTypeOK, runnerVars, workerVars, FrontEnded
  <2>2. RunnerInv'
    BY <1>4 DEF IInv, RunnerInv, runnerVars, QuiescedGroupDead, Settled, GroupAlive,
                HelperAlive
  <2> QED
    BY <1>4, <2>1, <2>2, <2>3, <2>4
       DEF IInv, WorkerInv, SentinelInv, Expected, runnerVars, workerVars
<1>5. CASE /\ \/ PollAborted \/ PollAdmitted \/ PollTimedOut \/ Acknowledge \/ Written
              \/ BrokenPipe \/ GiveUp
           /\ UNCHANGED <<runnerVars, workerVars, faults>>
  <2>1. /\ front' \in {"cancelling", "acking", "writing", "acked", "preserved"}
        /\ aborted' \in BOOLEAN /\ sig' \in {"SIGTERM", "SIGKILL"}
        /\ UNCHANGED fileVars
    BY <1>1, <1>5
       DEF PollAborted, PollAdmitted, PollTimedOut, Acknowledge, Written, BrokenPipe,
           GiveUp, FrontGoes, TypeOK
  <2> QED
    BY <1>1, <1>5, <2>1, FrontGoesInv DEF FrontEnded, workerVars
<1>6. CASE /\ PollDone /\ UNCHANGED <<runnerVars, workerVars, faults>>
  <2>1. CASE sentinel = "ok"
    <3>1. front' = "acking" /\ UNCHANGED <<aborted, sig, fileVars>>
      BY <1>6, <2>1 DEF PollDone, FrontGoes
    <3> QED
      BY <1>1, <1>6, <3>1, FrontGoesInv DEF workerVars, TypeOK
  <2>2. CASE sentinel # "ok"
    BY <1>4, <1>6, <2>2 DEF PollDone, FrontGoes
  <2> QED
    BY <2>1, <2>2
<1>7. CASE TerminalSeen /\ UNCHANGED <<runnerVars, workerVars, faults>>
  BY <1>4, <1>7 DEF TerminalSeen, FrontGoes
<1>8. CASE LookForChild /\ UNCHANGED faults
  <2>1. front' \in {"reading", "signalling"} /\ UNCHANGED <<aborted, sig>>
    BY <1>8 DEF LookForChild, FrontGoes
  <2> QED
    BY <1>1, <1>8, <2>1, FrontGoesInv DEF LookForChild, workerVars, TypeOK
<1>9. CASE SignalChild /\ UNCHANGED faults
  <2>1. /\ UNCHANGED <<hostUp, quiesce, exitSeen, reason, timers, outcome, fileVars,
                       workerVars, faults, aborted, sig>>
        /\ front' \in {"signalling", "failed"}
        /\ SignalGroup(sig) \/ UNCHANGED <<leader, exit, helper>>
    BY <1>9 DEF SignalChild, FrontGoes
  <2>2. RunnerMoves
    <3>1. CASE SignalGroup(sig)
      BY <2>1, <3>1, SignalFacts
         DEF RunnerMoves, IInv, TypeOK, RunnerTypeOK, RunnerInv, QuiescedGroupDead,
             GroupAlive, HelperAlive, Settled, Settlements
    <3>2. CASE UNCHANGED <<leader, exit, helper>>
      BY <2>1, <3>2
         DEF RunnerMoves, IInv, TypeOK, RunnerTypeOK, RunnerInv, QuiescedGroupDead,
             GroupAlive, HelperAlive, Settled, Settlements
    <3> QED
      BY <2>1, <3>1, <3>2
  <2>3. TypeOK'
    BY <1>1, <2>1, <2>2 DEF RunnerMoves, TypeOK, fileVars, workerVars, FrontEnded
  <2> QED
    BY <2>1, <2>2, <2>3, MovesInv DEF workerVars
<1>10. CASE SignalWorker /\ UNCHANGED faults
  <2>1. /\ front' = "waiting" /\ UNCHANGED <<aborted, sig, fileVars, faults>>
        /\ UNCHANGED <<quiesce, leader, exit, helper, exitSeen, reason, timers, outcome>>
    BY <1>10 DEF SignalWorker, FrontGoes
  <2>2. CASE WorkerDies
    <3>1. /\ worker' = "dead" /\ hostUp' \in BOOLEAN
          /\ UNCHANGED <<terms, requested, code>>
      BY <2>2, Zenon DEF WorkerDies
    <3>2. TypeOK'
      BY <1>1, <2>1, <3>1 DEF TypeOK, RunnerTypeOK, Stages, fileVars
    <3>3. RunnerInv'
      BY <2>1 DEF IInv, RunnerInv, QuiescedGroupDead, Settled, GroupAlive, HelperAlive
    <3> QED
      BY <2>1, <3>1, <3>2, <3>3
         DEF IInv, WorkerInv, SentinelInv, Expected, fileVars
  <2>3. CASE UNCHANGED <<hostUp, worker, requested, code>> /\ terms' \in {terms, terms + 1}
    <3>1. UNCHANGED runnerVars /\ terms' \in Nat
      BY <1>1, <2>1, <2>3 DEF runnerVars
    <3> QED
      BY <1>1, <2>1, <2>3, <3>1, FrontGoesInv DEF TypeOK
  <2> QED
    BY <1>10, <2>2, <2>3 DEF SignalWorker, workerVars
<1>11. CASE FrontSignalled
  <2>1. /\ UNCHANGED <<runnerVars, fileVars, workerVars, sig>>
        /\ front' = front \/ front' = "dead"
        /\ aborted' \in BOOLEAN /\ faults' = faults + 1
    BY <1>1, <1>11, Zenon DEF FrontSignalled, Fault, TypeOK
  <2> QED
    BY <1>1, <2>1, FrontGoesInv DEF workerVars, TypeOK, FrontEnded
<1> QED
  BY <1>2, <1>3, <1>5, <1>6, <1>7, <1>8, <1>9, <1>10, <1>11 DEF FrontStep

------------------------------------------------------------------------------
\* A step of the worker that leaves its child and the front alone: what remains to
\* be shown of it.
LEMMA StageInv ==
    ASSUME IInv, UNCHANGED <<runnerVars, frontVars, dir>>,
           worker' \in Stages, code' \in Codes \cup {"none"},
           sentinel' \in Codes \cup {"none"}, files' \in SUBSET Files,
           output' \in {"none", "empty", "torn", "child", "message"},
           terms' \in Nat, requested' \in BOOLEAN, faults' \in Nat,
           WorkerInv', SentinelInv'
    PROVE  IInv'
<1>1. TypeOK'
  BY DEF IInv, TypeOK, RunnerTypeOK, runnerVars, frontVars
<1>2. RunnerInv'
  BY DEF IInv, RunnerInv, runnerVars, QuiescedGroupDead, Settled, GroupAlive,
         HelperAlive
<1> QED
  BY <1>1, <1>2 DEF IInv

\* The worker goes on to its next stage, or ends with a code it has reason for.
LEMMA GoesInv ==
    ASSUME IInv, UNCHANGED <<runnerVars, fileVars, frontVars, terms, requested>>,
           faults' \in Nat,
           \/ /\ code' = code
              /\ \/ worker = "booting" /\ worker' = "ready"
                 \/ worker = "running" /\ worker' = "over"
           \/ /\ worker' = "output" /\ code' \in Codes
              /\ worker \in {"ready", "running"} /\ leader # "alive"
              /\ code' = "ok" => outcome = "ok"
    PROVE  IInv'
<1>1. WorkerInv'
  BY DEF IInv, WorkerInv, Expected, runnerVars, fileVars
<1>2. SentinelInv'
  BY DEF IInv, SentinelInv, Expected, runnerVars, fileVars, frontVars
<1>3. /\ worker' \in Stages /\ code' \in Codes \cup {"none"}
      /\ sentinel' \in Codes \cup {"none"} /\ files' \in SUBSET Files
      /\ output' \in {"none", "empty", "torn", "child", "message"}
      /\ terms' \in Nat /\ requested' \in BOOLEAN
  BY DEF IInv, TypeOK, Stages, fileVars
<1>4. UNCHANGED <<runnerVars, frontVars, dir>>
  BY DEF fileVars
<1> QED
  BY <1>1, <1>2, <1>3, <1>4, StageInv

\* The failure of a request never counts as its success.
LEMMA FailureFacts ==
    ASSUME NEW c \in Codes
    PROVE  Failure(c) \in Codes /\ (c # "ok" => Failure(c) # "ok")
  BY DEF Failure, Codes

\* Every step of the worker, and what happens to it, keeps the invariant.
LEMMA WorkerStepInv ==
    ASSUME IInv, WorkerStep \/ BootFails \/ FinishFails \/ Cancelled \/ Killed
    PROVE  IInv'
<1>1. TypeOK /\ faults \in Nat /\ terms \in Nat
  BY DEF IInv, TypeOK
<1>2. CASE Boot
  BY <1>1, <1>2, GoesInv DEF Boot, WorkerGoes
<1>3. CASE BootFails \/ FinishFails \/ Killed
  BY <1>1, <1>3, WorkerDiesInv DEF BootFails, FinishFails, Killed, Running, Fault
<1>4. CASE Refused
  <2>1. leader # "alive" /\ Failure("error") \in Codes /\ Failure("error") # "ok"
    BY <1>4, FailureFacts DEF Refused, IInv, WorkerInv, Codes
  <2> QED
    BY <1>1, <1>4, <2>1, GoesInv DEF Refused, EndsWith
<1>5. CASE Admitted
  <2>1. CASE files' = files \cup {"admitted"} /\ WorkerGoes("admitted") /\ UNCHANGED faults
    <3>1. /\ worker = "ready" /\ worker' = "admitted"
          /\ UNCHANGED <<runnerVars, dir, output, sentinel, frontVars, terms, requested,
                         code, faults>>
      BY <1>5, <2>1, Zenon DEF Admitted, WorkerGoes
    <3>2. WorkerInv'
      BY <2>1, <3>1 DEF IInv, WorkerInv, Expected, runnerVars
    <3>3. SentinelInv'
      BY <2>1, <3>1 DEF IInv, SentinelInv, Expected, runnerVars, frontVars
    <3>4. files' \in SUBSET Files /\ worker' \in Stages
      BY <1>1, <2>1, <3>1 DEF TypeOK, Files, Stages
    <3> QED
      BY <1>1, <3>1, <3>2, <3>3, <3>4, StageInv DEF TypeOK
  <2>2. CASE Fault /\ EndsWith("error") /\ UNCHANGED files
    <3>1. worker = "ready" /\ leader = "none"
          /\ UNCHANGED <<runnerVars, dir, output, sentinel, frontVars>>
      BY <1>5 DEF Admitted, IInv, WorkerInv
    <3> QED
      BY <1>1, <2>2, <3>1, GoesInv DEF EndsWith, Fault, Codes, fileVars
  <2> QED
    BY <1>5, <2>1, <2>2, Zenon DEF Admitted
<1>6. CASE Spawn
  <2>1. /\ worker = "admitted" /\ worker' = "spawned" /\ leader = "none" /\ outcome = "none"
        /\ leader' \in {"alive", "failed"} /\ helper = "none" /\ sentinel = "none"
        /\ UNCHANGED <<fileVars, frontVars, faults, terms, requested, code>>
        /\ UNCHANGED <<hostUp, quiesce, exit, helper, exitSeen, reason, timers, outcome>>
    BY <1>6 DEF Spawn, SpawnChild, WorkerGoes, IInv, RunnerInv, WorkerInv, SentinelInv
  <2>2. TypeOK'
    BY <1>1, <2>1 DEF TypeOK, RunnerTypeOK, Stages, fileVars, frontVars
  <2>3. RunnerInv'
    BY <2>1 DEF IInv, RunnerInv, QuiescedGroupDead, Settled, Settlements
  <2>4. WorkerInv'
    BY <2>1 DEF IInv, WorkerInv, Codes
  <2>5. SentinelInv'
    BY <2>1 DEF IInv, SentinelInv, Expected, fileVars, frontVars
  <2> QED
    BY <2>2, <2>3, <2>4, <2>5 DEF IInv
<1>7. CASE Publish
  <2>1. /\ worker = "spawned" /\ worker' = "running" /\ outcome = "none" /\ sentinel = "none"
        /\ UNCHANGED <<dir, output, sentinel, frontVars, terms, requested, code>>
        /\ faults' = faults \/ faults' = faults + 1
    BY <1>7 DEF Publish, WorkerGoes, Fault, IInv, WorkerInv, SentinelInv
  <2>2. files' = files \/ files' = files \cup {"child.pid"}
    BY <1>7, Zenon DEF Publish
  <2>3. RunnerMoves
    <3>1. CASE UNCHANGED runnerVars
      BY <3>1 DEF RunnerMoves, IInv, TypeOK, RunnerTypeOK, RunnerInv, runnerVars,
                  QuiescedGroupDead, Settled, GroupAlive, HelperAlive
    <3>2. CASE RegistrationFails
      <4>1. PICK s \in {"SIGTERM", "SIGKILL"} : SignalGroup(s)
        BY <3>2 DEF RegistrationFails
      <4> QED
        BY <2>1, <3>2, <4>1, KillMoves DEF RegistrationFails, IInv, TypeOK, Reasons
    <3> QED
      BY <1>7, <3>1, <3>2, Zenon DEF Publish
  <2>4. leader' = "alive" => leader = "alive"
    BY <2>3 DEF RunnerMoves
  <2>5. TypeOK'
    <3>1. files' \in SUBSET Files
      BY <1>1, <2>2 DEF TypeOK, Files
    <3>2. worker' \in Stages /\ faults' \in Nat
      BY <1>1, <2>1 DEF Stages
    <3>3. RunnerTypeOK'
      BY <2>3 DEF RunnerMoves
    <3> QED
      BY <1>1, <2>1, <3>1, <3>2, <3>3 DEF TypeOK, frontVars
  <2>6. WorkerInv'
    BY <2>1 DEF IInv, WorkerInv, Codes
  <2>7. SentinelInv'
    BY <2>1, <2>2 DEF IInv, SentinelInv, frontVars
  <2> QED
    BY <2>3, <2>5, <2>6, <2>7 DEF IInv, RunnerMoves
<1>8. CASE Abort
  <2>1. RunnerMoves
    BY <1>8, KillMoves DEF Abort, KillChild, Reasons, IInv, TypeOK
  <2>2. /\ worker = "running"
        /\ UNCHANGED <<fileVars, frontVars, worker, terms, requested, code, faults>>
    BY <1>8 DEF Abort, workerVars
  <2>3. TypeOK'
    BY <1>1, <2>1, <2>2 DEF RunnerMoves, TypeOK, fileVars, frontVars
  <2> QED
    BY <2>1, <2>2, <2>3, MovesInv DEF frontVars
<1>9. CASE RequestEnds
  <2>1. /\ worker = "running" /\ UNCHANGED <<runnerVars, fileVars, frontVars>>
        /\ outcome \in Settlements /\ leader # "alive" /\ requested' = requested
    BY <1>9 DEF RequestEnds, Settled, IInv, RunnerInv, Settlements, WorkerGoes, EndsWith
  <2>2. \/ WorkerGoes("over") /\ UNCHANGED faults
        \/ outcome = "ok" /\ EndsWith("ok") /\ UNCHANGED faults
        \/ Fault /\ EndsWith(Failure("error"))
        \/ /\ outcome # "ok"
           /\ EndsWith(Failure(IF outcome = "rejected" THEN "error" ELSE outcome))
           /\ UNCHANGED faults
    BY <1>9, Zenon DEF RequestEnds
  <2>3. CASE WorkerGoes("over") /\ UNCHANGED faults
    BY <1>1, <2>1, <2>3, GoesInv DEF WorkerGoes
  <2>4. CASE outcome = "ok" /\ EndsWith("ok") /\ UNCHANGED faults
    BY <1>1, <2>1, <2>4, GoesInv DEF EndsWith, Codes
  <2>5. CASE Fault /\ EndsWith(Failure("error"))
    <3>1. Failure("error") \in Codes /\ Failure("error") # "ok"
      BY FailureFacts DEF Codes
    <3> QED
      BY <1>1, <2>1, <2>5, <3>1, GoesInv DEF EndsWith, Fault
  <2>6. CASE /\ outcome # "ok"
             /\ EndsWith(Failure(IF outcome = "rejected" THEN "error" ELSE outcome))
             /\ UNCHANGED faults
    <3> DEFINE c == IF outcome = "rejected" THEN "error" ELSE outcome
    <3>1. c \in Codes /\ c # "ok"
      BY <2>1, <2>6 DEF Codes, Settlements
    <3>2. Failure(c) \in Codes /\ Failure(c) # "ok"
      BY <3>1, FailureFacts
    <3> QED
      BY <1>1, <2>1, <2>6, <3>2, GoesInv DEF EndsWith
  <2> QED
    BY <2>2, <2>3, <2>4, <2>5, <2>6
<1>10. CASE TruncateOutput \/ WriteOutput \/ RemovePrivate
  <2>1. /\ UNCHANGED <<runnerVars, dir, sentinel, frontVars, faults, terms, requested, code>>
        /\ \/ /\ worker = "output" /\ worker' = "torn" /\ output' = "torn"
              /\ files' = files
           \/ /\ worker = "torn" /\ worker' = "sentinel" /\ output' = Expected(code)
              /\ files' = files
           \/ /\ worker = "cleanup" /\ worker' = "over" /\ output' = output
              /\ files' = files \ {"job", "child.pid"}
    BY <1>10, Zenon DEF TruncateOutput, WriteOutput, RemovePrivate, WorkerGoes, Expected
  <2>2. WorkerInv'
    BY <2>1 DEF IInv, WorkerInv, Expected, runnerVars
  <2>3. SentinelInv'
    BY <2>1 DEF IInv, SentinelInv, Expected, runnerVars, frontVars
  <2>4. /\ files' \in SUBSET Files /\ worker' \in Stages
        /\ output' \in {"none", "empty", "torn", "child", "message"}
    BY <1>1, <2>1 DEF TypeOK, Stages, Expected
  <2> QED
    BY <1>1, <2>1, <2>2, <2>3, <2>4, StageInv DEF TypeOK
<1>11. CASE PublishSentinel
  <2>1. /\ worker = "sentinel" /\ worker' = "cleanup" /\ dir
        /\ sentinel' = code /\ files' = files \cup {"done"}
        /\ UNCHANGED <<runnerVars, dir, output, frontVars, faults, terms, requested, code>>
    BY <1>11, Zenon DEF PublishSentinel, WorkerGoes
  <2>2. code \in Codes /\ leader # "alive" /\ output = Expected(code)
        /\ (code = "ok" => outcome = "ok")
    BY <2>1 DEF IInv, WorkerInv
  <2>3. WorkerInv'
    BY <2>1, <2>2 DEF IInv, WorkerInv, runnerVars
  <2>4. code # "none"
    BY <2>2 DEF Codes
  <2>5. SentinelInv'
    BY <2>1, <2>2, <2>4 DEF IInv, SentinelInv, runnerVars, frontVars, Expected
  <2>6. files' \in SUBSET Files /\ worker' \in Stages
    BY <1>1, <2>1 DEF TypeOK, Files, Stages
  <2> QED
    BY <1>1, <2>1, <2>2, <2>3, <2>5, <2>6, StageInv DEF TypeOK
<1>12. CASE Terminated
  <2>1. /\ terms \in Nat /\ terms > 0 /\ terms' = terms - 1
        /\ UNCHANGED <<code, quiesce, leader, exit, helper, exitSeen, reason, timers,
                       outcome, fileVars, frontVars, faults>>
        /\ worker # "none"
    BY <1>1, <1>12 DEF Terminated, Running
  <2>2. \/ worker' = worker /\ hostUp' = hostUp
        \/ worker' = "dead" /\ hostUp' \in BOOLEAN
    BY <1>12, Zenon DEF Terminated
  <2>3. requested' \in BOOLEAN
    BY <1>1, <1>12, Zenon DEF Terminated, TypeOK
  <2>4. TypeOK'
    BY <1>1, <2>1, <2>2, <2>3 DEF TypeOK, RunnerTypeOK, Stages, fileVars, frontVars
  <2>5. RunnerInv'
    BY <2>1 DEF IInv, RunnerInv, QuiescedGroupDead, Settled, GroupAlive, HelperAlive
  <2>6. WorkerInv'
    BY <2>1, <2>2 DEF IInv, WorkerInv, Expected, fileVars
  <2>7. SentinelInv'
    BY <2>1, <2>2 DEF IInv, SentinelInv, Expected, fileVars, frontVars
  <2> QED
    BY <2>4, <2>5, <2>6, <2>7 DEF IInv
<1>13. CASE Cancelled
  <2>1. /\ UNCHANGED <<runnerVars, fileVars, frontVars, worker, code>>
        /\ terms' = terms \/ terms' = terms + 1
        /\ faults' = faults + 1
    BY <1>13, Zenon DEF Cancelled, Fault
  <2>2. requested' \in BOOLEAN
    BY <1>1, <1>13, Zenon DEF Cancelled, TypeOK
  <2>3. WorkerInv'
    BY <2>1 DEF IInv, WorkerInv, Expected, fileVars, runnerVars
  <2>4. SentinelInv'
    BY <2>1 DEF IInv, SentinelInv, Expected, fileVars, frontVars, runnerVars
  <2>5. UNCHANGED dir
    BY <2>1 DEF fileVars
  <2> QED
    BY <1>1, <2>1, <2>2, <2>3, <2>4, <2>5, StageInv DEF TypeOK, fileVars
<1> QED
  BY <1>2, <1>3, <1>4, <1>5, <1>6, <1>7, <1>8, <1>9, <1>10, <1>11, <1>12, <1>13
     DEF WorkerStep

------------------------------------------------------------------------------
LEMMA InitInv == Init => IInv
<1> SUFFICES ASSUME Init PROVE IInv
  OBVIOUS
<1>1. /\ leader = "none" /\ exit = "none" /\ helper = "none" /\ reason = "none"
      /\ timers = {} /\ outcome = "none" /\ quiesce \in BOOLEAN
      /\ files = {} /\ output = "none" /\ sentinel = "none" /\ sig = "SIGTERM"
      /\ front = "absent" \/ (front = "start" /\ worker = "none")
      /\ worker \in {"none", "admitted"} /\ terms = 0 /\ code = "none" /\ faults = 0
  BY Zenon DEF Init, RunnerInit
<1>2. /\ hostUp \in BOOLEAN /\ exitSeen \in BOOLEAN /\ dir \in BOOLEAN
      /\ aborted \in BOOLEAN /\ requested \in BOOLEAN
  BY Zenon DEF Init, RunnerInit
<1>3. TypeOK
  BY <1>1, <1>2 DEF TypeOK, RunnerTypeOK, Stages
<1>4. RunnerInv
  BY <1>1 DEF RunnerInv, QuiescedGroupDead, Settled, Settlements
<1>5. WorkerInv /\ SentinelInv
  BY <1>1 DEF WorkerInv, SentinelInv
<1> QED
  BY <1>3, <1>4, <1>5 DEF IInv

LEMMA StepInv == IInv /\ [Next]_vars => IInv'
<1> SUFFICES ASSUME IInv, [Next]_vars PROVE IInv'
  OBVIOUS
<1>1. CASE FrontStep \/ FrontSignalled
  BY <1>1, FrontInv
<1>2. CASE WorkerStep \/ BootFails \/ FinishFails \/ Cancelled \/ Killed
  BY <1>2, WorkerStepInv
<1>3. CASE Serve \/ (ChildStep /\ UNCHANGED <<fileVars, frontVars, workerVars, faults>>)
  <2>1. /\ RunnerStep \/ ChildStep
        /\ UNCHANGED <<fileVars, frontVars, workerVars, faults>>
        /\ worker = "spawned" => ChildStep
    BY <1>3 DEF Serve
  <2>2. RunnerMoves
    BY <2>1, ChildMoves DEF IInv, TypeOK
  <2>3. worker = "spawned" => outcome' = outcome
    BY <2>1 DEF ChildStep, StartHelper, LeaderExits, HelperExits
  <2>4. TypeOK'
    BY <2>1, <2>2 DEF RunnerMoves, IInv, TypeOK, fileVars, frontVars, workerVars
  <2> QED
    BY <2>1, <2>2, <2>3, <2>4, MovesInv DEF frontVars, workerVars
<1>4. CASE UNCHANGED vars
  <2>1. UNCHANGED <<runnerVars, fileVars, frontVars, workerVars, faults>>
    BY <1>4 DEF vars
  <2> QED
    BY <2>1, FrontGoesInv DEF IInv, TypeOK, frontVars, workerVars
<1> QED
  BY <1>1, <1>2, <1>3, <1>4 DEF Next

\* What the theorems follow from holds in every reachable state.
THEOREM Invariant == Spec => []IInv
  BY InitInv, StepInv, PTL DEF Spec

\* The files of a job, the stages of its front and worker and the state of the
\* runner stay of their kinds.
THEOREM TypeInvariant == Spec => []TypeOK
<1>1. IInv => TypeOK
  BY DEF IInv
<1> QED
  BY <1>1, Invariant, PTL

\* runChildProcess settles the promise of an implementer's child only when its
\* process group is dead, however often its processes are signalled, killed or
\* fail.
THEOREM QuiescedTheorem == Spec => []QuiescedGroupDead
<1>1. IInv => QuiescedGroupDead
  BY DEF IInv, RunnerInv
<1> QED
  BY <1>1, Invariant, PTL

\* Whatever is cancelled, killed or fails, the sentinel of an asynchronous job
\* says how it ended, next to its whole output, and no job is discarded without.
THEOREM SentinelTheorem == Spec => []SentinelTruthful
<1>1. IInv => SentinelTruthful
  BY DEF IInv, RunnerInv, SentinelInv, SentinelTruthful, Expected
<1> QED
  BY <1>1, Invariant, PTL
=============================================================================
