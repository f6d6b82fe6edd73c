--------------------------- MODULE TreeCoordinator ---------------------------
(***************************************************************************)
(* One generation of the root-owned tree coordinator and every recursive   *)
(* call made under it.  The coordinator (tree-coordinator.ts) is a server  *)
(* inside the root process: each request handler runs to completion on the *)
(* event loop, so a handler is one action.  Its clients are the root and   *)
(* the child generations, which run runRecursiveChild (runtime-core.ts)    *)
(* over the slot client (concurrency.ts), and the launch gate of each      *)
(* spawned child (launch-gate.ts).                                         *)
(*                                                                         *)
(* A call c is made by the process Parent[c], is named by its slot token,  *)
(* and spawns the child generation c.  Sockets are reliable and private to *)
(* one request: conn[k][c] is the connection that carries the request of   *)
(* kind k made for the call c.                                             *)
(***************************************************************************)
EXTENDS Naturals, Sequences, FiniteSets

CONSTANTS
    Calls,          \* the delegated calls, also their slot tokens and children
    Root,           \* the depth-0 process
    Parent,         \* the process that makes each call
    MaxConcurrent,  \* RLM_MAX_CONCURRENT_CALLS, frozen for the generation
    FaultBudget     \* bound: how often each kind of fault may happen

Faults == {"cancel", "deadline", "stall", "crash", "cutoff", "rootdeath"}

ASSUME CallsAssumption ==
    /\ IsFiniteSet(Calls)
    /\ Root \notin Calls
    /\ Parent \in [Calls -> Calls \cup {Root}]
ASSUME MaximumAssumption == MaxConcurrent \in Nat \ {0}
ASSUME BudgetAssumption == FaultBudget \in [Faults -> Nat]

VARIABLES
    authority,   \* status of the generation; "dead" once the root process is
    slots,       \* activeSlots and suspendedSlots
    captured,    \* owner of the suspension a resume grant keeps for rollback
    queue,       \* state.queue: requests waiting for a slot, oldest first
    conn,        \* the request connections, by kind and call
    pc,          \* progress of the client side of each call
    joined,      \* the delegation counts in its caller's nestedDelegations
    proc,        \* the child generation of each call
    signalled,   \* processes the terminated coordinator has signalled
    faults       \* what is left of FaultBudget

serverVars == <<slots, captured, queue>>
clientVars == <<pc, joined>>
vars == <<authority, slots, captured, queue, conn, pc, joined, proc,
          signalled, faults>>

SlotKinds == {"acquire", "resume"}
Kinds == SlotKinds \cup {"suspend", "release", "register"}
Owners == {"caller", "self"}
Slot == [at : {"none", "active", "suspended"}, owner : Owners, bound : BOOLEAN]
NoSlot == [at |-> "none", owner |-> "caller", bound |-> FALSE]
ConnStates == {"none", "sent", "queued", "granted", "acked", "confirmed",
               "ok", "refused"}
PcStates == {"idle", "suspending", "acquiring", "held", "cleared", "spawned",
             "releasing", "leaving", "resuming", "returned", "lost"}
ProcStates == {"none", "gate", "live", "dead"}

------------------------------------------------------------------------------
(* Processes and tokens *)

\* processMatchesStartIdentity: the process still runs and is the same one.
Alive(x) == IF x = Root THEN authority # "dead" ELSE proc[x] \in {"gate", "live"}

\* suspend and resume name the caller's own slot, the other kinds the call's.
Token(k, c) == IF k \in {"suspend", "resume"} THEN Parent[c] ELSE c

\* The process that opens the connection and whose identity it carries.
Requester(k, c) == IF k = "register" THEN c ELSE Parent[c]

\* The client still has the connection open and waits for its answer.
Waiting(k, c) ==
    CASE k = "suspend"  -> pc[c] = "suspending"
      [] k = "acquire"  -> pc[c] = "acquiring"
      [] k = "release"  -> pc[c] = "releasing"
      [] k = "resume"   -> pc[c] = "resuming"
      [] k = "register" -> proc[c] = "gate"

\* nestedDelegations of the process p
NestedDelegations(p) == Cardinality({c \in Calls : Parent[c] = p /\ joined[c]})

\* transitionQueue: a process runs one suspend or resume transition at a time.
TransitionFree(p) ==
    \A c \in Calls : Parent[c] = p => pc[c] \notin {"suspending", "resuming"}

\* What the agent that owns the process can still do: it runs model turns.
CanDelegate(p) == IF p = Root THEN Alive(Root) ELSE proc[p] = "live"

SetConn(k, c, s) == conn' = [conn EXCEPT ![k][c] = s]
Spend(f) == faults[f] > 0 /\ faults' = [faults EXCEPT ![f] = @ - 1]

------------------------------------------------------------------------------
(* The slot table *)

ActiveIn(S) == {c \in Calls : S[c].at = "active"}
ActiveSlots == ActiveIn(slots)

\* One more slot fits beside the active ones.
HasRoomMutant(active) == Cardinality(active) <= MaxConcurrent
HasRoom(active) == Cardinality(active) < MaxConcurrent

\* slotProcessAlive: the owner or the registered child is still there.
SlotAliveMutant(S, c) ==
    IF S[c].owner = "caller" THEN Alive(Parent[c]) ELSE Alive(c)
SlotAliveChildOnly(S, c) == (S[c].owner = "self" \/ S[c].bound) /\ Alive(c)
SlotAlive(S, c) ==
    \/ S[c].owner = "caller" /\ Alive(Parent[c])
    \/ S[c].owner = "self" /\ Alive(c)
    \/ S[c].bound /\ Alive(c)

\* pruneDeadSlots
Pruned(S) ==
    [c \in Calls |-> IF S[c].at # "none" /\ ~SlotAlive(S, c)
                     THEN NoSlot ELSE S[c]]

\* The slot grantSlot stores: a resumed one is owned by the resuming child.
GrantedSlot(k) ==
    [at |-> "active", owner |-> IF k = "resume" THEN "self" ELSE "caller",
     bound |-> k = "resume"]

\* grantSlot throws for a token already active or a resume not suspended.
Grantable(S, k, t) ==
    IF k = "resume" THEN S[t].at = "suspended" ELSE S[t].at # "active"

\* The tokens that the requests of kind k among the first n entries of Q are
\* granted from the table P; the others of them are refused.
TokenAt(Q, i) == Token(Q[i][1], Q[i][2])
Granted(P, Q, n, k) ==
    {TokenAt(Q, i) : i \in {j \in 1..n : /\ Q[j][1] = k
                                         /\ Grantable(P, k, TokenAt(Q, j))}}

\* The active tokens once these entries are served.
ActiveAfter(P, Q, n) ==
    ActiveIn(P) \cup Granted(P, Q, n, "acquire") \cup Granted(P, Q, n, "resume")

\* drainQueue: prune, then grant from the head while there is room.  S, Q and
\* N are the table, queue and connections the handler has left so far; n is
\* the number of entries the loop shifts.
DrainQueue(S, Q, N) ==
    LET P == Pruned(S)
    IN  \E n \in 0..Len(Q) :
          /\ \A m \in 0..(n - 1) : HasRoom(ActiveAfter(P, Q, m))
          /\ n < Len(Q) => ~HasRoom(ActiveAfter(P, Q, n))
          /\ queue' = SubSeq(Q, n + 1, Len(Q))
          /\ slots' = [c \in Calls |->
                         IF c \in Granted(P, Q, n, "resume") THEN GrantedSlot("resume")
                         ELSE IF c \in Granted(P, Q, n, "acquire")
                         THEN GrantedSlot("acquire") ELSE P[c]]
          /\ captured' = [c \in Calls |-> IF c \in Granted(P, Q, n, "resume")
                                          THEN P[c].owner ELSE captured[c]]
          /\ conn' = [k \in Kinds |-> [c \in Calls |->
                        IF \A i \in 1..n : Q[i] # <<k, c>> THEN N[k][c]
                        ELSE IF Grantable(P, k, Token(k, c))
                             THEN "granted" ELSE "refused"]]

------------------------------------------------------------------------------
(* Request handlers of the coordinator *)

\* authenticateRequest accepts: the authority is active and the requester is
\* alive.  The client may have closed its end: the bytes are already here.
Received(k, c) ==
    /\ conn[k][c] = "sent"
    /\ authority = "active"
    /\ Alive(Requester(k, c))

\* A request that reaches a terminal generation or a dead root is refused, by
\* the manifest check, the closed listener or authenticateRequest.
Refuse(k, c) ==
    /\ conn[k][c] = "sent"
    /\ authority # "active"
    /\ SetConn(k, c, "refused")
    /\ UNCHANGED <<authority, serverVars, clientVars, proc, signalled, faults>>

\* An earlier resume-slot request of the process that it gave up was rolled back
\* long ago: a suspension, with its own connections, lies between the two.
Noticed(k, c) ==
    k = "resume" =>
      \A d \in Calls \ {c} : Parent[d] = Parent[c] =>
        conn["resume"][d] \notin {"granted", "acked"}

\* acquire-slot and resume-slot: prune, then grant at once, or wait in line.
ServeSlotRequest(k, c) ==
    LET P == Pruned(slots)
        t == Token(k, c)
    IN  /\ Received(k, c) /\ Noticed(k, c)
        /\ IF ~HasRoom(ActiveIn(P))
           THEN /\ slots' = P
                /\ queue' = Append(queue, <<k, c>>)
                /\ SetConn(k, c, "queued")
                /\ UNCHANGED captured
           ELSE IF Grantable(P, k, t)
           THEN /\ slots' = [P EXCEPT ![t] = GrantedSlot(k)]
                /\ captured' = IF k = "resume"
                               THEN [captured EXCEPT ![t] = P[t].owner]
                               ELSE captured
                /\ SetConn(k, c, "granted")
                /\ UNCHANGED queue
           ELSE /\ slots' = P
                /\ SetConn(k, c, "refused")
                /\ UNCHANGED <<queue, captured>>
        /\ UNCHANGED <<authority, clientVars, proc, signalled, faults>>

\* release-slot
ServeRelease(c) ==
    /\ Received("release", c)
    /\ DrainQueue([slots EXCEPT ![c] = NoSlot], queue,
                  [conn EXCEPT !["release"][c] = "ok"])
    /\ UNCHANGED <<authority, clientVars, proc, signalled, faults>>

\* suspend-slot: only the owner or the registered child may yield the slot.
ServeSuspend(c) ==
    LET p == Parent[c]
    IN  /\ Received("suspend", c)
        /\ IF slots[p].at = "active" /\ (slots[p].bound \/ slots[p].owner = "self")
           THEN DrainQueue([slots EXCEPT ![p].at = "suspended"], queue,
                           [conn EXCEPT !["suspend"][c] = "ok"])
           ELSE SetConn("suspend", c, "refused") /\ UNCHANGED serverVars
        /\ UNCHANGED <<authority, clientVars, proc, signalled, faults>>

\* register-launch: binds the gate process to its slot, if that is still held.
ServeRegister(c) ==
    /\ Received("register", c)
    /\ IF slots[c].at = "active"
       THEN /\ slots' = [slots EXCEPT ![c].bound = TRUE]
            /\ SetConn("register", c, "ok")
       ELSE /\ SetConn("register", c, "refused")
            /\ UNCHANGED slots
    /\ UNCHANGED <<authority, captured, queue, clientVars, proc, signalled,
                   faults>>

\* The acknowledgement of a grant arrives; it is accepted in any status.
ServeAck(k, c) ==
    /\ conn[k][c] = "acked"
    /\ SetConn(k, c, "confirmed")
    /\ UNCHANGED <<authority, serverVars, clientVars, proc, signalled, faults>>

\* The slot table a rollback of an unacknowledged grant leaves behind.
RolledBack(k, c) ==
    LET t == Token(k, c)
    IN  IF k = "acquire" THEN [slots EXCEPT ![t] = NoSlot]
        ELSE IF slots[t].at = "suspended" THEN slots
        ELSE [slots EXCEPT ![t] = [at |-> "suspended", owner |-> captured[t],
                                   bound |-> TRUE]]

\* rollback; drainQueue does nothing once the generation is terminal.
RollbackMutant(k, c, s) ==
    /\ slots' = RolledBack(k, c)
    /\ SetConn(k, c, s)
    /\ UNCHANGED <<queue, captured>>
Rollback(k, c, s) ==
    LET N == [conn EXCEPT ![k][c] = s]
    IN  IF authority = "active"
        THEN DrainQueue(RolledBack(k, c), queue, N)
        ELSE /\ slots' = RolledBack(k, c)
             /\ conn' = N
             /\ UNCHANGED <<queue, captured>>

\* A grant whose ackTimer still runs.
AckPending(k, c) == conn[k][c] \in {"granted", "acked"} /\ authority # "dead"

\* ackTimer: the client did not acknowledge within five seconds.
AckTimeout(k, c) ==
    /\ AckPending(k, c)
    /\ Spend("stall")
    /\ Rollback(k, c, "refused")
    /\ UNCHANGED <<authority, clientVars, proc, signalled>>

\* removeQueuedSocket: a request is queued at most once.
LeaveQueue(k, c) ==
    IF \E i \in 1..Len(queue) : queue[i] = <<k, c>>
    THEN \E i \in 1..Len(queue) :
           /\ queue[i] = <<k, c>>
           /\ queue' = SubSeq(queue, 1, i - 1) \o SubSeq(queue, i + 1, Len(queue))
    ELSE UNCHANGED queue

\* The client has closed the connection and the coordinator notices.
Close(k, c) ==
    /\ conn[k][c] # "none"
    /\ ~Waiting(k, c)
    /\ IF AckPending(k, c)
       THEN Rollback(k, c, "none")
       ELSE /\ LeaveQueue(k, c)
            /\ SetConn(k, c, "none")
            /\ UNCHANGED <<slots, captured>>
    /\ UNCHANGED <<authority, clientVars, proc, signalled, faults>>

------------------------------------------------------------------------------
(* The client side of a call *)

\* The first nested delegation of a process yields its slot.
MustYieldMutant(p) == p # Root /\ NestedDelegations(p) > 0
MustYield(p) == p # Root /\ NestedDelegations(p) = 0

\* Admission passed its authority check; suspendInheritedConcurrencySlot
\* begins.  The root has no slot to yield, and of several delegations of one
\* process only the first suspends it.
Start(c) ==
    LET p == Parent[c]
    IN  /\ pc[c] = "idle"
        /\ CanDelegate(p)
        /\ authority = "active"
        /\ TransitionFree(p)
        /\ IF MustYield(p)
           THEN /\ pc' = [pc EXCEPT ![c] = "suspending"]
                /\ SetConn("suspend", c, "sent")
                /\ UNCHANGED joined
           ELSE /\ pc' = [pc EXCEPT ![c] = "acquiring"]
                /\ SetConn("acquire", c, "sent")
                /\ joined' = [joined EXCEPT ![c] = p # Root]
        /\ UNCHANGED <<authority, serverVars, proc, signalled, faults>>

\* suspend-slot succeeded: participate, and ask for the call's own slot.
OnSuspended(c) ==
    /\ pc[c] = "suspending"
    /\ conn["suspend"][c] = "ok"
    /\ pc' = [pc EXCEPT ![c] = "acquiring"]
    /\ joined' = [joined EXCEPT ![c] = TRUE]
    /\ conn' = [conn EXCEPT !["suspend"][c] = "none", !["acquire"][c] = "sent"]
    /\ UNCHANGED <<authority, serverVars, proc, signalled, faults>>

\* The grant arrives and is acknowledged.
OnGrant(k, c) ==
    /\ conn[k][c] = "granted"
    /\ Waiting(k, c)
    /\ SetConn(k, c, "acked")
    /\ UNCHANGED <<authority, serverVars, clientVars, proc, signalled, faults>>

\* The confirmation arrives: the lease is held, or the caller runs again.  The
\* close of an acknowledged connection changes nothing and is left out.
OnConfirmed(k, c) ==
    /\ conn[k][c] = "confirmed"
    /\ Waiting(k, c)
    /\ pc' = [pc EXCEPT ![c] = IF k = "acquire" THEN "held" ELSE "returned"]
    /\ SetConn(k, c, "none")
    /\ UNCHANGED <<authority, serverVars, joined, proc, signalled, faults>>

\* Where a call goes once it needs no slot: a participant must still resume.
AfterSlot(c) == IF joined[c] THEN "leaving" ELSE "returned"

\* Any request but register is refused or its socket closes.
OnRefused(k, c) ==
    /\ k # "register"
    /\ conn[k][c] = "refused"
    /\ Waiting(k, c)
    /\ pc' = [pc EXCEPT ![c] =
                IF k \in {"acquire", "release"} THEN AfterSlot(c) ELSE "returned"]
    /\ SetConn(k, c, "none")
    /\ UNCHANGED <<authority, serverVars, joined, proc, signalled, faults>>

\* The request signal of a nested call aborts while it waits for admission.  Its
\* socket is destroyed; what it has already written may still be served.
Cancel(c) ==
    /\ pc[c] \in {"suspending", "acquiring"}
    /\ Parent[c] # Root
    /\ Spend("cancel")
    /\ pc' = [pc EXCEPT ![c] = AfterSlot(c)]
    /\ UNCHANGED <<authority, serverVars, conn, joined, proc, signalled>>

\* RLM_TIMEOUT of a call passes while it waits for the coordinator, also in
\* resume-slot, which no signal can abort.
DeadlinePasses(c) ==
    /\ pc[c] \in {"suspending", "acquiring", "resuming"}
    /\ Spend("deadline")
    /\ pc' = [pc EXCEPT ![c] = AfterSlot(c)]
    /\ UNCHANGED <<authority, serverVars, conn, joined, proc, signalled>>

\* assertTreeCoordinatorActive, the last check before the spawn.
PassCheck(c) ==
    /\ pc[c] = "held"
    /\ authority = "active"
    /\ pc' = [pc EXCEPT ![c] = "cleared"]
    /\ UNCHANGED <<authority, serverVars, conn, joined, proc, signalled, faults>>

\* The child is spawned, detached, at the launch gate.
Spawn(c) ==
    /\ pc[c] = "cleared"
    /\ pc' = [pc EXCEPT ![c] = "spawned"]
    /\ proc' = [proc EXCEPT ![c] = "gate"]
    /\ UNCHANGED <<authority, serverVars, conn, joined, signalled, faults>>

\* The finally block: child closed, or never spawned.  A root request whose own
\* abort ended the generation skips the control cleanup.
Finish(c) ==
    /\ \/ pc[c] = "spawned" /\ proc[c] = "dead"
       \/ pc[c] = "held"
    /\ \/ /\ Parent[c] = Root /\ authority = "terminal"
          /\ pc' = [pc EXCEPT ![c] = "returned"]
          /\ UNCHANGED conn
       \/ /\ pc' = [pc EXCEPT ![c] = "releasing"]
          /\ SetConn("release", c, "sent")
    /\ UNCHANGED <<authority, serverVars, joined, proc, signalled, faults>>

OnReleased(c) ==
    /\ pc[c] = "releasing"
    /\ conn["release"][c] = "ok"
    /\ pc' = [pc EXCEPT ![c] = AfterSlot(c)]
    /\ SetConn("release", c, "none")
    /\ UNCHANGED <<authority, serverVars, joined, proc, signalled, faults>>

\* The last nested delegation of a process takes its slot back.
MustReclaimEarly(p) == TRUE
MustReclaimNever(p) == NestedDelegations(p) = 0
MustReclaim(p) == NestedDelegations(p) = 1

\* resume(): leave the nested delegations, and reclaim the slot if none is left.
Resume(c) ==
    LET p == Parent[c]
    IN  /\ pc[c] = "leaving"
        /\ TransitionFree(p)
        /\ joined' = [joined EXCEPT ![c] = FALSE]
        /\ IF MustReclaim(p)
           THEN /\ pc' = [pc EXCEPT ![c] = "resuming"]
                /\ SetConn("resume", c, "sent")
           ELSE /\ pc' = [pc EXCEPT ![c] = "returned"]
                /\ UNCHANGED conn
        /\ UNCHANGED <<authority, serverVars, proc, signalled, faults>>

------------------------------------------------------------------------------
(* Child generations *)

\* The process x is gone, and with it every delegation it was waiting for.
Gone(x) ==
    /\ proc' = [proc EXCEPT ![x] = "dead"]
    /\ pc' = [c \in Calls |-> IF Parent[c] = x /\ pc[c] \notin {"idle", "returned"}
                              THEN "lost" ELSE pc[c]]

\* The launch gate asks for its final authority, while its owner lives.
GateRegister(c) ==
    /\ proc[c] = "gate"
    /\ conn["register"][c] = "none"
    /\ Alive(Parent[c])
    /\ SetConn("register", c, "sent")
    /\ UNCHANGED <<authority, serverVars, clientVars, proc, signalled, faults>>

\* Registered and the owner is still there: execve, the generation runs.
GateExec(c) ==
    /\ proc[c] = "gate"
    /\ conn["register"][c] = "ok"
    /\ Alive(Parent[c])
    /\ proc' = [proc EXCEPT ![c] = "live"]
    /\ SetConn("register", c, "none")
    /\ UNCHANGED <<authority, serverVars, clientVars, signalled, faults>>

\* Its owner is gone, or the coordinator refused the registration.
GateRevokedMutant(c) == ~Alive(Parent[c])
GateRevoked(c) == ~Alive(Parent[c]) \/ conn["register"][c] = "refused"

\* The gate exits without running the child.
GateExit(c) ==
    /\ proc[c] = "gate"
    /\ GateRevoked(c)
    /\ Gone(c)
    /\ UNCHANGED <<authority, serverVars, conn, joined, signalled, faults>>

Idle(c) == \A d \in Calls : Parent[d] = c => pc[d] \in {"idle", "returned"}

\* The generation ends its work.  It awaits every delegation it made.
Exit(c) ==
    /\ proc[c] = "live"
    /\ Idle(c)
    /\ Gone(c)
    /\ UNCHANGED <<authority, serverVars, conn, joined, signalled, faults>>

\* Killed at any point: out of memory, a signal, a timeout of its parent.
Crash(c) ==
    /\ Alive(c)
    /\ ~(proc[c] = "live" /\ Idle(c))
    /\ Spend("crash")
    /\ Gone(c)
    /\ UNCHANGED <<authority, serverVars, conn, joined, signalled>>

\* SIGTERM, and SIGKILL after the grace period, of a terminated generation.
Killed(c) ==
    /\ c \in signalled
    /\ Alive(c)
    /\ Gone(c)
    /\ UNCHANGED <<authority, serverVars, conn, joined, signalled, faults>>

------------------------------------------------------------------------------
(* The root *)

\* controlledSlots
ControlledMutant == ActiveSlots
Controlled == {c \in Calls : slots[c].at # "none"}

\* markLocalCoordinatorTerminal: revoke first, fail the waiters, then signal
\* every registered child that still runs.
Terminate ==
    /\ authority = "active"
    /\ Spend("cutoff")
    /\ authority' = "terminal"
    /\ queue' = <<>>
    /\ conn' = [k \in Kinds |-> [c \in Calls |->
                  IF conn[k][c] = "queued" THEN "refused" ELSE conn[k][c]]]
    /\ signalled' = {c \in Controlled : slots[c].bound /\ Alive(c)}
    /\ UNCHANGED <<slots, captured, clientVars, proc>>

\* The root process dies: coordinator state and unanswered requests vanish.
RootDies ==
    /\ authority # "dead"
    /\ Spend("rootdeath")
    /\ authority' = "dead"
    /\ slots' = [c \in Calls |-> NoSlot]
    /\ queue' = <<>>
    /\ conn' = [k \in Kinds |-> [c \in Calls |->
                  IF conn[k][c] \in {"sent", "queued", "granted", "acked"}
                  THEN "refused" ELSE conn[k][c]]]
    /\ pc' = [c \in Calls |->
                IF Parent[c] = Root /\ pc[c] \notin {"idle", "returned"}
                THEN "lost" ELSE pc[c]]
    /\ UNCHANGED <<captured, joined, proc, signalled>>

------------------------------------------------------------------------------
Init ==
    /\ authority = "active"
    /\ slots = [c \in Calls |-> NoSlot]
    /\ captured = [c \in Calls |-> "caller"]
    /\ queue = <<>>
    /\ conn = [k \in Kinds |-> [c \in Calls |-> "none"]]
    /\ pc = [c \in Calls |-> "idle"]
    /\ joined = [c \in Calls |-> FALSE]
    /\ proc = [c \in Calls |-> "none"]
    /\ signalled = {}
    /\ faults = FaultBudget

\* What the coordinator's event loop does for the call c.
ServerStep(c) ==
    \/ ServeRelease(c) \/ ServeSuspend(c) \/ ServeRegister(c)
    \/ \E k \in SlotKinds : ServeSlotRequest(k, c) \/ ServeAck(k, c)
    \/ \E k \in Kinds : Refuse(k, c) \/ Close(k, c)

\* What the process that makes the call c does once the call is under way.
ClientStep(c) ==
    \/ OnSuspended(c) \/ PassCheck(c) \/ Spawn(c)
    \/ Finish(c) \/ OnReleased(c) \/ Resume(c)
    \/ \E k \in SlotKinds : OnGrant(k, c) \/ OnConfirmed(k, c)
    \/ \E k \in Kinds : OnRefused(k, c)

\* What the child generation of the call c does.
ChildStep(c) ==
    GateRegister(c) \/ GateExec(c) \/ GateExit(c) \/ Exit(c) \/ Killed(c)

FaultStep(c) ==
    Cancel(c) \/ DeadlinePasses(c) \/ Crash(c) \/ \E k \in SlotKinds : AckTimeout(k, c)

Next ==
    \/ \E c \in Calls :
         Start(c) \/ ServerStep(c) \/ ClientStep(c) \/ ChildStep(c) \/ FaultStep(c)
    \/ Terminate
    \/ RootDies

Spec == Init /\ [][Next]_vars

\* The event loops of the root and of the callers keep turning, and a child
\* generation ends once the calls it waits for have returned.  Nothing obliges
\* a call to start or a fault to happen.
Fairness ==
    \A c \in Calls : /\ WF_vars(ServerStep(c))
                     /\ WF_vars(ClientStep(c))
                     /\ WF_vars(ChildStep(c))

FairSpec == Spec /\ Fairness
------------------------------------------------------------------------------
(* Properties *)

\* Every variable holds a value of its kind, and a queue entry is a request
\* for a slot: what the handlers may store in the tables of LocalCoordinator.
TypeOK ==
    /\ authority \in {"active", "terminal", "dead"}
    /\ slots \in [Calls -> Slot]
    /\ captured \in [Calls -> Owners]
    /\ queue \in Seq(SlotKinds \X Calls)
    /\ conn \in [Kinds -> [Calls -> ConnStates]]
    /\ pc \in [Calls -> PcStates]
    /\ joined \in [Calls -> BOOLEAN]
    /\ proc \in [Calls -> ProcStates]
    /\ signalled \in SUBSET Calls
    /\ faults \in [Faults -> Nat]

\* The coordinator never lets more than RLM_MAX_CONCURRENT_CALLS slots be
\* active, whichever of its handlers, drains and rollbacks grant them.
SlotCapRespected == Cardinality(ActiveSlots) <= MaxConcurrent

\* A generation that runs while the tree is active is in the slot table, with
\* its own identity bound: a cutoff of the tree will find and signal it.
LiveIsControlled ==
    authority = "active" =>
      \A c \in Calls : proc[c] = "live" => slots[c].at # "none" /\ slots[c].bound

\* Once the tree is cut off, whatever still runs has been signalled: nothing
\* crossed the launch gate behind the cutoff's back.
CutoffReachesAll ==
    authority = "terminal" => \A c \in Calls : proc[c] = "live" => c \in signalled

\* A call that holds its lease is backed by a slot until its child is dead, so
\* the gate it opens finds something to register: no prune, late timer or
\* rollback takes it away.
LeaseIsBacked ==
    authority = "active" =>
      \A c \in Calls : pc[c] \in {"held", "cleared", "spawned"} /\ proc[c] # "dead"
                        => slots[c].at # "none"

\* A generation that waits for nested delegations occupies no active capacity,
\* whatever was cancelled, refused or rolled back; this is what lets its
\* children run when every slot is taken.
WaitingYieldsSlot ==
    authority = "active" =>
      \A p \in Calls : proc[p] = "live" /\ NestedDelegations(p) > 0
                        => slots[p].at = "suspended"

NoneYet(f) == faults[f] = FaultBudget[f]

\* As long as no call was cancelled, or ran into its deadline, while it waited for
\* the coordinator and no grant was given up for a late acknowledgement, the
\* generations that do model work are among the active slots, so no more than
\* RLM_MAX_CONCURRENT_CALLS of them work at once, whatever dies or is cut off.
WorkingHoldsSlot ==
    authority = "active" /\ NoneYet("cancel") /\ NoneYet("deadline") /\ NoneYet("stall") =>
      \A c \in Calls : proc[c] = "live" /\ Idle(c) => slots[c].at = "active"

\* At most RLM_MAX_CONCURRENT_CALLS child generations are active across the
\* tree: those that run and do not wait for a delegation of their own.
WorkingCapRespected ==
    authority = "active" =>
      Cardinality({c \in Calls : proc[c] = "live" /\ Idle(c)}) <= MaxConcurrent

\* The queue will be drained again: the child of a call is gone, and with it the
\* slot will be released; or a grant reached a client that had given up.
DrainComing ==
    \E c \in Calls :
      \/ pc[c] = "spawned" /\ proc[c] = "dead"
      \/ pc[c] = "releasing" /\ conn["release"][c] = "sent"
      \/ conn["acquire"][c] = "granted" /\ ~Waiting("acquire", c)

\* As long as no process is killed, capacity is idle beside a waiting request
\* only until a release or a rollback that is already due, whatever is
\* cancelled, rolled back or acknowledged too late: no waiter is forgotten.
WorkConserving ==
    authority = "active" /\ NoneYet("crash") /\ queue # <<>> =>
      Cardinality(ActiveSlots) = MaxConcurrent \/ DrainComing

\* Every call that begins ends, also when one slot serves a batch of nested
\* delegations: the suspensions and queues cannot deadlock the tree.
CallsEnd == \A c \in Calls : pc[c] # "idle" ~> pc[c] \in {"returned", "lost"}

\* After the tree is cut off every generation and every gate of it ends.
CutoffEndsTree ==
    authority = "terminal" ~> \A c \in Calls : proc[c] \in {"none", "dead"}
==============================================================================
