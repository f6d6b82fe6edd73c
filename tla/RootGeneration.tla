--------------------------- MODULE RootGeneration ---------------------------
(***************************************************************************)
(* The generations that one root process starts, replaces and terminates   *)
(* (the second half of tree-coordinator.ts), and the root's own calls,     *)
(* which carry a generation in their environment while the process goes on *)
(* to the next one.  Handlers of the event loop are atomic; a call may be  *)
(* overtaken wherever it awaits something.                                 *)
(*                                                                         *)
(* What a generation does with its slots is TreeCoordinator's: here a      *)
(* request may wait in line for as long as it likes, and the grant, its    *)
(* acknowledgement and the confirmation are two steps.                     *)
(***************************************************************************)
EXTENDS Naturals, FiniteSets

CONSTANTS
    Calls,            \* the root's calls, also their slot tokens and children
    MaxGenerations,   \* bound: how many generations are started
    FaultBudget       \* bound: how often each kind of fault may happen

\* The manifest cannot be written, the listening server fails, a request is
\* abandoned or not acknowledged in time.
Faults == {"manifest", "server", "request"}

ASSUME GenerationsAssumption == MaxGenerations \in Nat
ASSUME FaultsAssumption == FaultBudget \in [Faults -> Nat]

VARIABLES
    gens,        \* LocalCoordinator and manifest file of every generation
    current,     \* localCoordinator, and YPI_TREE_GENERATION of the root
    pc,          \* progress of each call in runRecursiveChild
    asked,       \* the generation a call waits for, or has sent a request to
    slot,        \* the generation that has the call's token in its table
    bound,       \* the calls whose child is registered there
    born,        \* the generation in the environment of a call's child
    proc,        \* the child of each call
    signalled,   \* children that were sent SIGTERM
    grace,       \* the timer of terminateRootTreeCoordinator
    faults       \* what is left of FaultBudget

vars == <<gens, current, pc, asked, slot, bound, born, proc, signalled, grace,
          faults>>
callVars == <<pc, asked, slot, bound, born, proc>>
cutoffVars == <<signalled, grace>>

Generations == 1 .. MaxGenerations
Statuses == {"starting", "active", "terminal"}
Generation == [status : Statuses \cup {"none"},
               manifest : Statuses \cup {"none", "torn"},  \* the file
               memo : Statuses \cup {"none"},              \* state.manifestRaw
               ready : {"pending", "yes", "no"}]           \* state.ready
Unstarted == [status |-> "none", manifest |-> "none", memo |-> "none",
              ready |-> "pending"]
PcStates == {"idle", "waiting", "sent", "queued", "granted", "held", "cleared",
             "spawned", "releasing", "done"}

Spend(f) == faults[f] > 0 /\ faults' = [faults EXCEPT ![f] = @ - 1]
Goto(c, s) == pc' = [pc EXCEPT ![c] = s]
Terminal(g) == gens[g].status = "terminal"
NoneRuns == current # 0 => Terminal(current)
Open(g) == gens[g].status = "active"
Running(c) == proc[c] \in {"gate", "live"}

\* updateManifest replaces the file if it holds what the coordinator wrote last;
\* an error may come before, within or after that, and leaves memo alone.
CanWrite(r) == r.manifest = r.memo
Written(r, s) == [r EXCEPT !.manifest = s, !.memo = s]
Reached(r, s) == [Written(r, s) EXCEPT !.status = s]
Unwritten(r, s) ==
    IF CanWrite(r) THEN {r} \cup {[r EXCEPT !.manifest = m] : m \in {s, "torn"}} ELSE {r}
WriteFails(r) == IF CanWrite(r) THEN Spend("manifest") ELSE UNCHANGED faults
\* An update whose error is caught.
Attempted(r, s) == Unwritten(r, s) \cup (IF CanWrite(r) THEN {Written(r, s)} ELSE {})

Init ==
    /\ gens = [g \in Generations |-> Unstarted] /\ current = 0
    /\ pc = [c \in Calls |-> "idle"] /\ asked = [c \in Calls |-> 0]
    /\ slot = [c \in Calls |-> 0] /\ bound = {} /\ born = [c \in Calls |-> 0]
    /\ proc = [c \in Calls |-> "none"]
    /\ signalled = {} /\ grace = [g \in Generations |-> "none"]
    /\ faults = FaultBudget

------------------------------------------------------------------------------
(* Start and end of generations *)

\* controlledSlots with a registered child that still runs
RegisteredMutant(g) == {c \in Calls : slot[c] = g /\ c \in bound /\ proc[c] = "live"}
Registered(g) == {c \in Calls : slot[c] = g /\ c \in bound /\ Running(c)}

\* Requests that wait in line are answered.
Answered(g) == [c \in Calls |-> IF pc[c] = "queued" /\ asked[c] = g THEN "done" ELSE pc[c]]

\* markLocalCoordinatorTerminal: the generations after it, and what else it does.
Marked == [gens EXCEPT ![current] = Reached(@, "terminal")]
MarkTerminal ==
    /\ CanWrite(gens[current])
    /\ pc' = Answered(current) /\ signalled' = signalled \cup Registered(current)

\* It throws: the generation is terminal, and nothing else has happened.
MarkThrows ==
    /\ WriteFails(gens[current])
    /\ \E r \in Unwritten(gens[current], "terminal") :
         gens' = [gens EXCEPT ![current] = [r EXCEPT !.status = "terminal"]]
    /\ UNCHANGED <<pc, signalled>>

\* startLocalCoordinator, after the generations G
StartGeneration(G) ==
    \/ /\ current < MaxGenerations /\ current' = current + 1
       /\ gens' = [G EXCEPT ![current + 1] = Reached(Unstarted, "starting")]
       /\ UNCHANGED faults
    \/ Spend("manifest") /\ gens' = G /\ UNCHANGED current

\* beginRootTreeCoordinator: a user's prompt begins a turn.
Begin ==
    /\ \/ /\ NoneRuns
          /\ StartGeneration(gens) /\ UNCHANGED <<pc, signalled>>
       \/ /\ ~NoneRuns
          /\ (MarkTerminal /\ StartGeneration(Marked)) \/ (MarkThrows /\ UNCHANGED current)
    /\ UNCHANGED <<asked, slot, bound, born, proc, grace>>

\* ensureRootTreeCoordinator: before tools and at the ends of turns.  The root's
\* environment always names its current generation.
Ensure ==
    /\ NoneRuns
    /\ StartGeneration(gens)
    /\ UNCHANGED <<callVars, cutoffVars>>

\* The callback of listen, which comes late when the generation is terminal.
ListenCallbackMutant(g) ==
    /\ gens[g].status # "none" /\ gens[g].ready = "pending" /\ CanWrite(gens[g])
    /\ gens' = [gens EXCEPT ![g] = [Reached(@, "active") EXCEPT !.ready = "yes"]]
    /\ UNCHANGED <<current, callVars, cutoffVars, faults>>
ListenCallback(g) ==
    /\ gens[g].status # "none" /\ gens[g].ready = "pending"
    /\ \/ /\ Terminal(g) /\ UNCHANGED faults
          /\ gens' = [gens EXCEPT ![g].ready = "no"]
       \/ /\ ~Terminal(g) /\ CanWrite(gens[g]) /\ UNCHANGED faults
          /\ gens' = [gens EXCEPT ![g] = [Reached(@, "active") EXCEPT !.ready = "yes"]]
       \/ /\ ~Terminal(g) /\ WriteFails(gens[g])
          /\ \E r \in Unwritten(gens[g], "active") : \E q \in Attempted(r, "terminal") :
               gens' = [gens EXCEPT ![g] = [q EXCEPT !.status = "terminal", !.ready = "no"]]
    /\ UNCHANGED <<current, callVars, cutoffVars>>

\* The server's "error" event, during startup (failStartup) or later.
ServerError(g) ==
    /\ gens[g].status \in {"starting", "active"} /\ Spend("server")
    /\ \E r \in Attempted(gens[g], "terminal") :
         gens' = [gens EXCEPT ![g] =
                    [r EXCEPT !.status = "terminal",
                              !.ready = IF @ = "pending" THEN "no" ELSE @]]
    /\ pc' = Answered(g)
    /\ UNCHANGED <<current, asked, slot, bound, born, proc, cutoffVars>>

\* terminateRootTreeCoordinator: an abort of a root request, the end of a session.
Terminate ==
    /\ current # 0
    /\ \/ Terminal(current) /\ UNCHANGED <<gens, pc, signalled, grace, faults>>
       \/ /\ ~Terminal(current) /\ MarkTerminal /\ gens' = Marked /\ UNCHANGED faults
          /\ grace' = [grace EXCEPT ![current] =
                          IF Registered(current) = {} THEN "done" ELSE "running"]
       \/ ~Terminal(current) /\ MarkThrows /\ UNCHANGED grace
    /\ UNCHANGED <<current, asked, slot, bound, born, proc>>

\* The timer: SIGKILL for those of the signalled groups that the table still has.
SweepMutant(g) ==
    /\ grace[g] = "running" /\ grace' = [grace EXCEPT ![g] = "done"]
    /\ proc' = [c \in Calls |-> IF c \in signalled /\ slot[c] = current THEN "dead"
                                ELSE proc[c]]
    /\ UNCHANGED <<gens, current, pc, asked, slot, bound, born, signalled, faults>>
Sweep(g) ==
    /\ grace[g] = "running" /\ grace' = [grace EXCEPT ![g] = "done"]
    /\ proc' = [c \in Calls |-> IF c \in signalled /\ slot[c] = g THEN "dead" ELSE proc[c]]
    /\ UNCHANGED <<gens, current, pc, asked, slot, bound, born, signalled, faults>>

------------------------------------------------------------------------------
(* The root's calls *)

\* inheritedAuthority: the manifest that the environment names admits a request.
Send(c) ==
    /\ Goto(c, IF gens[current].manifest = "active" THEN "sent" ELSE "done")
    /\ asked' = [asked EXCEPT ![c] = current]

\* requestCoordinator waits for a generation that is starting.
Ask(c) ==
    /\ pc[c] = "idle" /\ current # 0
    /\ IF gens[current].status = "starting"
       THEN Goto(c, "waiting") /\ asked' = [asked EXCEPT ![c] = current]
       ELSE Send(c)
    /\ UNCHANGED <<gens, current, slot, bound, born, proc, cutoffVars, faults>>

\* By now the environment may name another generation.
OnReady(c) ==
    /\ pc[c] = "waiting"
    /\ \/ gens[asked[c]].ready = "yes" /\ Send(c)
       \/ gens[asked[c]].ready = "no" /\ Goto(c, "done") /\ UNCHANGED asked
    /\ UNCHANGED <<gens, current, slot, bound, born, proc, cutoffVars, faults>>

\* acquire-slot: refused, put in line, or granted now or later.
Enqueue(c) ==
    /\ pc[c] = "sent" /\ Goto(c, IF Open(asked[c]) THEN "queued" ELSE "done")
    /\ UNCHANGED <<gens, current, asked, slot, bound, born, proc, cutoffVars, faults>>
Grant(c) ==
    /\ pc[c] \in {"sent", "queued"} /\ Open(asked[c])
    /\ Goto(c, "granted") /\ slot' = [slot EXCEPT ![c] = asked[c]]
    /\ UNCHANGED <<gens, current, asked, bound, born, proc, cutoffVars, faults>>

\* The request is abandoned or acknowledged too late; a grant is rolled back.
GiveUp(c) ==
    /\ pc[c] \in {"waiting", "sent", "queued", "granted"} /\ Spend("request")
    /\ Goto(c, "done") /\ slot' = [slot EXCEPT ![c] = 0]
    /\ UNCHANGED <<gens, current, asked, bound, born, proc, cutoffVars>>

\* The confirmation arrives, and the environment of the child is made.
OnConfirmed(c) ==
    /\ pc[c] = "granted" /\ Goto(c, "held") /\ born' = [born EXCEPT ![c] = current]
    /\ UNCHANGED <<gens, current, asked, slot, bound, proc, cutoffVars, faults>>

\* assertTreeCoordinatorActive, at the generation that is current by now
CheckAuthority(c) ==
    /\ pc[c] = "held" /\ gens[current].status # "starting"
    /\ Goto(c, IF Open(current) /\ gens[current].manifest = "active"
               THEN "cleared" ELSE "releasing")
    /\ UNCHANGED <<gens, current, asked, slot, bound, born, proc, cutoffVars, faults>>

Spawn(c) ==
    /\ pc[c] = "cleared" /\ Goto(c, "spawned") /\ proc' = [proc EXCEPT ![c] = "gate"]
    /\ UNCHANGED <<gens, current, asked, slot, bound, born, cutoffVars, faults>>

\* register-launch with the child's environment: the slot must be there.
RegistersMutant(c) == Open(born[c]) /\ gens[born[c]].manifest = "active"
Registers(c) ==
    /\ gens[born[c]].manifest = "active" /\ Open(born[c]) /\ slot[c] = born[c]
GateRegister(c) ==
    /\ proc[c] = "gate" /\ c \notin bound
    /\ IF Registers(c) THEN bound' = bound \cup {c} /\ UNCHANGED proc
       ELSE proc' = [proc EXCEPT ![c] = "dead"] /\ UNCHANGED bound
    /\ UNCHANGED <<gens, current, pc, asked, slot, born, cutoffVars, faults>>

GateExec(c) ==
    /\ proc[c] = "gate" /\ c \in bound /\ proc' = [proc EXCEPT ![c] = "live"]
    /\ UNCHANGED <<gens, current, pc, asked, slot, bound, born, cutoffVars, faults>>

\* It ends its work or heeds a signal, which it need not do.
ChildEnds(c) ==
    /\ Running(c) /\ proc' = [proc EXCEPT ![c] = "dead"]
    /\ UNCHANGED <<gens, current, pc, asked, slot, bound, born, cutoffVars, faults>>

\* The child is closed.
Finish(c) ==
    /\ pc[c] = "spawned" /\ proc[c] = "dead" /\ Goto(c, "releasing")
    /\ UNCHANGED <<gens, current, asked, slot, bound, born, proc, cutoffVars, faults>>

\* release-slot goes to the current generation, which may not have the token.
Release(c) ==
    /\ pc[c] = "releasing" /\ gens[current].status # "starting" /\ Goto(c, "done")
    /\ slot' = IF Open(current) /\ slot[c] = current THEN [slot EXCEPT ![c] = 0] ELSE slot
    /\ UNCHANGED <<gens, current, asked, bound, born, proc, cutoffVars, faults>>

CallStep(c) ==
    \/ Ask(c) \/ OnReady(c) \/ Enqueue(c) \/ Grant(c) \/ GiveUp(c) \/ OnConfirmed(c)
    \/ CheckAuthority(c) \/ Spawn(c) \/ GateRegister(c) \/ GateExec(c) \/ ChildEnds(c)
    \/ Finish(c) \/ Release(c)

Next ==
    \/ Begin \/ Ensure \/ Terminate
    \/ \E g \in Generations : ListenCallback(g) \/ ServerError(g) \/ Sweep(g)
    \/ \E c \in Calls : CallStep(c)

Spec == Init /\ [][Next]_vars

------------------------------------------------------------------------------
(* Properties *)

\* Every variable holds a value of its kind.
TypeOK ==
    /\ gens \in [Generations -> Generation] /\ current \in 0 .. MaxGenerations
    /\ pc \in [Calls -> PcStates] /\ asked \in [Calls -> 0 .. MaxGenerations]
    /\ slot \in [Calls -> 0 .. MaxGenerations] /\ bound \in SUBSET Calls
    /\ born \in [Calls -> 0 .. MaxGenerations]
    /\ proc \in [Calls -> {"none", "gate", "live", "dead"}]
    /\ signalled \in SUBSET Calls
    /\ grace \in [Generations -> {"none", "running", "done"}]
    /\ faults \in [Faults -> Nat]

\* The root serves one generation at a time: whatever is replaced, fails or
\* listens late, only the last one started may be other than terminal.
OneAuthority == \A g \in Generations : gens[g].status \in {"starting", "active"} => g = current

\* A generation that was terminal stays so, on the coordinator's side and in the
\* manifest: a late listen callback does not bring it back.
Irrevocable ==
    [][\A g \in Generations :
         /\ gens[g].status = "terminal" => gens'[g].status = "terminal"
         /\ gens[g].manifest = "terminal" => gens'[g].manifest = "terminal"]_vars

\* A child that executes runs under the generation whose slot it holds, however
\* often the root went on to another one between its admission and its launch.
LaunchedWhereAdmitted ==
    \A c \in Calls : proc[c] = "live" => c \in bound /\ slot[c] = born[c]

NoneYet(f) == faults[f] = FaultBudget[f]

\* A generation that ended, by cancellation or replacement, has signalled
\* whatever runs under it, unless its manifest or its server had failed.
CutoffComplete ==
    NoneYet("manifest") /\ NoneYet("server") =>
      \A g \in Generations : Terminal(g) =>
        \A c \in Calls : born[c] = g /\ proc[c] = "live" => c \in signalled

\* When the termination of a generation is complete, nothing runs under it, even
\* if it ignores SIGTERM and the root has a new generation by then.
TerminationComplete ==
    \A g \in Generations : grace[g] = "done" =>
      \A c \in Calls : born[c] = g => proc[c] # "live"
=============================================================================
