---------------------------- MODULE ChildRunner -----------------------------
(***************************************************************************)
(* runChildProcess: one child, the leader of a process group of its own,   *)
(* with a descendant (the helper) that it may leave behind in the group.   *)
(* An abort, a timeout and a broken transport reach the runner in any      *)
(* order with the exit of the leader and the close of its pipes.  The      *)
(* delays of its timers are not modelled: a timer fires some time after it *)
(* is set, unless it is cleared.                                           *)
(***************************************************************************)
EXTENDS Naturals

VARIABLES
    hostUp,   \* the process that runs runChildProcess lives
    quiesce,  \* options.quiesceProcessGroup: the child is an implementer
    leader,   \* the child
    exit,     \* how it ended
    helper,   \* its descendant in the group, which may hold its pipes open
    exitSeen, \* the exit event was handled
    reason,   \* why killChild was called first
    timers,   \* the timers that are set
    outcome   \* what the promise was settled with

runnerVars == <<hostUp, quiesce, leader, exit, helper, exitSeen,
                reason, timers, outcome>>

Reasons == {"abort", "timeout", "transport"}
Settlements == {"ok", "error", "timeout", "cancelled", "rejected"}

RunnerTypeOK ==
    /\ hostUp \in BOOLEAN /\ quiesce \in BOOLEAN
    /\ leader \in {"none", "alive", "gone", "failed"}
    /\ exit \in {"none", "ok", "error"}
    /\ helper \in {"none", "holding", "apart", "gone"}
    /\ exitSeen \in BOOLEAN
    /\ reason \in Reasons \cup {"none"}
    /\ timers \in SUBSET {"kill", "sweep", "final"}
    /\ outcome \in Settlements \cup {"none", "closing"}

RunnerInit ==
    /\ hostUp = TRUE /\ quiesce \in BOOLEAN
    /\ leader = "none" /\ exit = "none"
    /\ helper = "none" /\ exitSeen = FALSE /\ reason = "none" /\ timers = {}
    /\ outcome = "none"

HelperAlive == helper \in {"holding", "apart"}
GroupAlive == leader = "alive" \/ HelperAlive
Settled == outcome \in Settlements

------------------------------------------------------------------------------
(* The process group *)

\* process.kill(-pid, signal): a member may ignore a SIGTERM, or handle it and
\* end later with a code of its own.
SignalGroup(signal) ==
    /\ leader' \in (IF leader = "alive" THEN {"gone"} ELSE {leader})
                   \cup (IF signal = "SIGTERM" THEN {leader} ELSE {})
    /\ exit' = IF leader' # leader THEN "error" ELSE exit
    /\ helper' \in (IF HelperAlive THEN {"gone"} ELSE {helper})
                   \cup (IF signal = "SIGTERM" THEN {helper} ELSE {})

StartHelper ==
    /\ leader = "alive" /\ helper = "none"
    /\ helper' \in {"holding", "apart"}
    /\ UNCHANGED <<hostUp, quiesce, leader, exit, exitSeen, reason, timers, outcome>>

LeaderExits ==
    /\ leader = "alive"
    /\ leader' = "gone" /\ exit' \in {"ok", "error"}
    /\ UNCHANGED <<hostUp, quiesce, helper, exitSeen, reason, timers, outcome>>

HelperExits ==
    /\ HelperAlive /\ helper' = "gone"
    /\ UNCHANGED <<hostUp, quiesce, leader, exit, exitSeen, reason, timers,
                   outcome>>

------------------------------------------------------------------------------
(* The runner *)

SpawnChild ==
    /\ hostUp /\ leader = "none"
    /\ leader' \in {"alive", "failed"}
    /\ UNCHANGED <<hostUp, quiesce, exit, helper, exitSeen, reason, timers, outcome>>

\* killChild: the first reason wins, and the listeners end with the close.
KillChild(r) ==
    /\ hostUp /\ leader \in {"alive", "gone"}
    /\ reason = "none" /\ outcome = "none"
    /\ reason' = r
    /\ SignalGroup("SIGTERM")
    /\ timers' = timers \cup {"kill"}
    /\ UNCHANGED <<hostUp, quiesce, exitSeen, outcome>>

\* onSpawn throws, if noteChildPid failed after it killed the group, or the pid
\* files cannot be created; runChildProcess calls killChild.
RegistrationFails ==
    /\ hostUp /\ leader \in {"alive", "gone"} /\ reason = "none"
    /\ reason' = "transport"
    /\ \E signal \in {"SIGTERM", "SIGKILL"} : SignalGroup(signal)
    /\ timers' = timers \cup {"kill"}
    /\ UNCHANGED <<hostUp, quiesce, exitSeen, outcome>>

\* The exit event, which comes before the close event.
OnExitMutant ==
    /\ hostUp /\ leader = "gone" /\ ~exitSeen /\ exitSeen' = TRUE
    /\ UNCHANGED <<hostUp, quiesce, leader, exit, helper, reason, timers, outcome>>

OnExit ==
    /\ hostUp /\ leader = "gone" /\ ~exitSeen /\ exitSeen' = TRUE
    /\ IF quiesce /\ reason = "none" /\ HelperAlive
       THEN SignalGroup("SIGTERM") /\ timers' = timers \cup {"sweep"}
       ELSE UNCHANGED <<leader, exit, helper, timers>>
    /\ UNCHANGED <<hostUp, quiesce, reason, outcome>>

Result ==
    CASE leader = "failed" \/ reason = "transport" -> "rejected"
      [] reason = "timeout" -> "timeout"
      [] reason = "abort" -> "cancelled"
      [] OTHER -> exit

\* The close event: no process holds the pipes.
PipesClosed ==
    \/ leader = "failed"
    \/ leader = "gone" /\ exitSeen /\ helper # "holding"
KeptMutant == {}
Kept == IF reason = "none" THEN {} ELSE timers \cap {"kill"}

OnCloseMutant ==
    /\ hostUp /\ outcome = "none" /\ PipesClosed
    /\ timers' = Kept /\ outcome' = Result
    /\ UNCHANGED <<hostUp, quiesce, leader, exit, helper, exitSeen, reason>>

OnClose ==
    /\ hostUp /\ outcome = "none" /\ PipesClosed
    /\ IF quiesce /\ leader # "failed"
       THEN /\ SignalGroup("SIGTERM")
            /\ timers' = Kept \cup {"final"} /\ outcome' = "closing"
       ELSE /\ timers' = Kept /\ outcome' = Result
            /\ UNCHANGED <<leader, exit, helper>>
    /\ UNCHANGED <<hostUp, quiesce, exitSeen, reason>>

\* The SIGKILL of killChild, and that of the sweep after the exit.
Escalate(timer) ==
    /\ hostUp /\ timer \in timers /\ timer # "final"
    /\ timers' = timers \ {timer}
    /\ SignalGroup("SIGKILL")
    /\ UNCHANGED <<hostUp, quiesce, exitSeen, reason, outcome>>

FinalSweep ==
    /\ hostUp /\ "final" \in timers
    /\ timers' = {} /\ outcome' = Result
    /\ SignalGroup("SIGKILL")
    /\ UNCHANGED <<hostUp, quiesce, exitSeen, reason>>

\* What the runner and the system do without its caller.
RunnerStep ==
    \/ OnExit \/ OnClose \/ FinalSweep
    \/ \E timer \in timers : Escalate(timer)
    \/ \E r \in {"timeout", "transport"} : KillChild(r)
ChildStep == StartHelper \/ LeaderExits \/ HelperExits

------------------------------------------------------------------------------
(* Properties *)

\* An implementer's lease is finalized only over a quiet worktree: when the
\* promise of an implementer's child is settled, nothing of its process group
\* lives, whichever of its members ignore SIGTERM, outlive the leader or keep
\* its pipes open.
QuiescedGroupDead == Settled /\ quiesce => ~GroupAlive

\* Whoever is asked to stop is gone in the end: after an abort, a timeout or a
\* failed transport the group ends, also when the promise is settled before the
\* timer of killChild fires.
KilledGroupEnds == (reason # "none" /\ hostUp) ~> (~GroupAlive \/ ~hostUp)

\* A background process of an implementer cannot hold its lease: once the leader
\* has exited the promise is settled, though nothing ends a helper that keeps
\* the pipes open but the runner.
LeaseNotHeld == (quiesce /\ leader = "gone" /\ hostUp) ~> (Settled \/ ~hostUp)
=============================================================================
