----------------------------- MODULE CallCounter -----------------------------
(***************************************************************************)
(* The numbering of recursive calls: allocateCall of the tree coordinator, *)
(* its client allocateCallCount (guardrails.ts), the RLM_CALL_COUNT that   *)
(* every process keeps in its environment, and the counter file that       *)
(* several generations, several turns and several root processes share.    *)
(*                                                                         *)
(* A call c is made by the process Parent[c], a root or an earlier call,   *)
(* in the tree of the root Root[c].  Each root process hosts one local     *)
(* coordinator at a time, whose requests run to completion one by one.     *)
(* An I/O error or a death in the middle of a write of the counter file    *)
(* is a choice of that write.                                              *)
(***************************************************************************)
EXTENDS Naturals, FiniteSets

CONSTANTS
    Calls,           \* the recursive calls, also the children they spawn
    Roots,           \* root processes that name the same counter file
    Parent,          \* the process that makes each call
    Root,            \* the root of the tree of each call
    Envelope,        \* YPI_RECURSIVE_RUN_DIR is set: a proof envelope
    MaxCalls,        \* RLM_MAX_CALLS
    MaxGenerations,  \* bound: generations that are started
    FaultBudget      \* bound: how often each kind of fault may happen

Faults == {"io", "crash", "abandon"}

ASSUME RootsAssumption ==
    /\ Calls \cap Roots = {}
    /\ Parent \in [Calls -> Calls \cup Roots]
    /\ Root \in [Calls -> Roots]
    /\ \A c \in Calls :
         Root[c] = IF Parent[c] \in Roots THEN Parent[c] ELSE Root[Parent[c]]
ASSUME LimitAssumption == MaxCalls \in Nat /\ MaxGenerations \in Nat
ASSUME EnvelopeAssumption == Envelope \in BOOLEAN
ASSUME BudgetAssumption == FaultBudget \in [Faults -> Nat]

VARIABLES
    file,         \* the counter file
    gen,          \* localCoordinator of each root process
    generations,  \* how many generations were ever started
    env,          \* RLM_CALL_COUNT of each process
    pc,           \* progress of the admission of each call
    seed,         \* seedCallCount of its request
    number,       \* the number the coordinator gave it, 0 if none
    stamp,        \* the generation that admitted it
    faults        \* what is left of FaultBudget

callVars == <<pc, seed, number, stamp>>
vars == <<file, gen, generations, env, pc, seed, number, stamp, faults>>

Processes == Roots \cup Calls
File == [kind : {"absent", "torn", "count"}, n : Nat]
Holding(n) == [kind |-> "count", n |-> n]
Torn == [kind |-> "torn", n |-> 0]
NoFile == [kind |-> "absent", n |-> 0]

\* LocalCoordinator: bound once maxCalls and counterFile are frozen, held once
\* it knows the identity and the contents (raw) of the counter file.
Coordinator == [status : {"none", "active", "terminal"}, id : Nat, bound : BOOLEAN,
                count : Nat, held : BOOLEAN, raw : Nat]
NoCoordinator == [status |-> "none", id |-> 0, bound |-> FALSE, count |-> 0,
                  held |-> FALSE, raw |-> 0]
PcStates == {"idle", "asking", "answered", "admitted", "refused", "abandoned"}

Spend(f) == faults[f] > 0 /\ faults' = [faults EXCEPT ![f] = @ - 1]

\* The process still runs under the authority of the current generation of r.
UnderAuthority(x, r) ==
    IF x \in Roots THEN x = r
    ELSE pc[x] = "admitted" /\ stamp[x] = gen[r].id

\* The requests in flight to a coordinator that stops serving fail.
FailPending(r) ==
    pc' = [c \in Calls |->
             IF Root[c] = r /\ pc[c] = "asking" THEN "refused" ELSE pc[c]]

------------------------------------------------------------------------------
(* Generations *)

\* startLocalCoordinator(previous): the new one inherits the file it held.
StartCoordinator(r, previous) ==
    /\ generations < MaxGenerations
    /\ generations' = generations + 1
    /\ gen' = [gen EXCEPT ![r] = [status |-> "active", id |-> generations + 1,
                                  bound |-> FALSE, count |-> 0,
                                  held |-> previous.held, raw |-> previous.raw]]

\* A root process starts.  A continuation declares what the file says, and a
\* root that is started by another one's shell inherits its environment.
Declared == {IF file.kind = "count" THEN file.n ELSE 0}
            \cup {env[r] : r \in {s \in Roots : gen[s].status # "none"}}
StartRoot(r) ==
    /\ gen[r].status = "none"
    /\ StartCoordinator(r, NoCoordinator)
    /\ \E n \in Declared : env' = [env EXCEPT ![r] = n]
    /\ UNCHANGED <<file, callVars, faults>>

\* The calls the root process made itself have returned.
Settled(r) ==
    \A c \in Calls : Parent[c] = r => pc[c] \notin {"asking", "answered"}

\* ensureRootTreeCoordinator, at the first tool call after a cutoff; a cutoff
\* aborts the turn, so its own calls have settled.
EnsureGeneration(r) ==
    /\ gen[r].status = "terminal"
    /\ Settled(r)
    /\ StartCoordinator(r, gen[r])
    /\ UNCHANGED <<file, env, callVars, faults>>

\* beginRootTreeCoordinator, at the next user prompt; what the calls of the turn
\* before have spawned may still run.
TurnCountMutant(r) == 0
TurnCount(r) == IF Envelope THEN env[r] ELSE 0
BeginTurn(r) ==
    /\ gen[r].status # "none"
    /\ Settled(r)
    /\ StartCoordinator(r, gen[r])
    /\ env' = [env EXCEPT ![r] = TurnCount(r)]
    /\ FailPending(r)
    /\ UNCHANGED <<file, seed, number, stamp, faults>>

\* terminateRootTreeCoordinator
EndTree(r) ==
    /\ gen[r].status = "active"
    /\ gen' = [gen EXCEPT ![r].status = "terminal"]
    /\ FailPending(r)
    /\ UNCHANGED <<file, generations, env, seed, number, stamp, faults>>

\* The root process is gone, and its coordinator with it.
RootGone(r) ==
    /\ gen' = [gen EXCEPT ![r] = NoCoordinator]
    /\ pc' = [c \in Calls |->
                IF Root[c] = r /\ pc[c] \in {"asking", "answered"}
                THEN "refused" ELSE pc[c]]
RootExit(r) ==
    /\ gen[r].status # "none"
    /\ RootGone(r)
    /\ UNCHANGED <<file, generations, env, seed, number, stamp, faults>>

------------------------------------------------------------------------------
(* The counter file *)

\* The coordinator g may commit its next number: atomicConditionalReplaceFile
\* finds what it wrote last, atomicCreateFile finds no file.
CommittableMutant(g) == ~g.held => file = NoFile
Committable(g) == IF g.held THEN file = Holding(g.raw) ELSE file = NoFile

\* What an I/O error or a crash can leave: nothing written, a truncated file
\* (only a replacement writes in place), or all of it.
Interrupted(g) ==
    {file, Holding(g.count + 1)} \cup (IF g.held THEN {Torn} ELSE {})

------------------------------------------------------------------------------
(* allocate-call *)

\* The first request of a generation adopts an existing file that says what
\* the requester declares; otherwise allocation fails before it binds.
CanBind(g, s) == g.bound \/ g.held \/ file \in {NoFile, Holding(s)}
Bound(g, s) ==
    IF g.bound THEN g
    ELSE IF g.held \/ file = NoFile
    THEN [g EXCEPT !.bound = TRUE, !.count = s]
    ELSE [g EXCEPT !.bound = TRUE, !.count = s, !.held = TRUE, !.raw = s]

Exhausted(g) == g.count >= MaxCalls

\* The coordinator after it has committed and given out its next number.
AdvancedMutant(g) == [g EXCEPT !.held = TRUE, !.raw = g.count + 1]
Advanced(g) == [g EXCEPT !.held = TRUE, !.raw = g.count + 1, !.count = g.count + 1]

\* allocateCallCount sends the request with its own idea of the count.
Ask(c) ==
    LET r == Root[c]
    IN  /\ pc[c] = "idle"
        /\ gen[r].status = "active"
        /\ UnderAuthority(Parent[c], r)
        /\ pc' = [pc EXCEPT ![c] = "asking"]
        /\ seed' = [seed EXCEPT ![c] = env[Parent[c]]]
        /\ stamp' = [stamp EXCEPT ![c] = gen[r].id]
        /\ UNCHANGED <<file, gen, generations, env, number, faults>>

\* allocateCall succeeds, or refuses without touching the file.
Allocate(c) ==
    LET r == Root[c]
        g == Bound(gen[r], seed[c])
    IN  /\ pc[c] = "asking"
        /\ IF CanBind(gen[r], seed[c]) /\ ~Exhausted(g) /\ Committable(g)
           THEN /\ file' = Holding(g.count + 1)
                /\ gen' = [gen EXCEPT ![r] = Advanced(g)]
                /\ number' = [number EXCEPT ![c] = g.count + 1]
                /\ pc' = [pc EXCEPT ![c] = "answered"]
           ELSE /\ gen' = IF CanBind(gen[r], seed[c]) THEN [gen EXCEPT ![r] = g]
                          ELSE gen
                /\ pc' = [pc EXCEPT ![c] = "refused"]
                /\ UNCHANGED <<file, number>>
        /\ UNCHANGED <<generations, env, seed, stamp, faults>>

\* The write of the counter file is cut short by an error, which allocateCall
\* passes on, or by the death of the root.
InterruptedWrite(c) ==
    LET r == Root[c]
        g == Bound(gen[r], seed[c])
    IN  /\ pc[c] = "asking"
        /\ CanBind(gen[r], seed[c]) /\ ~Exhausted(g) /\ Committable(g)
        /\ file' \in Interrupted(g)
        /\ \/ /\ Spend("io")
              /\ gen' = [gen EXCEPT ![r] = g]
              /\ pc' = [pc EXCEPT ![c] = "refused"]
           \/ Spend("crash") /\ RootGone(r)
        /\ UNCHANGED <<generations, env, seed, number, stamp>>

\* The answer arrives.  Answers to one process are read in the order they were
\* written, and the child inherits its number as its RLM_CALL_COUNT.
Answered(c) ==
    /\ pc[c] = "answered"
    /\ \A d \in Calls : /\ pc[d] = "answered"
                        /\ Parent[d] = Parent[c]
                        /\ stamp[d] = stamp[c]
                        => number[c] <= number[d]
    /\ pc' = [pc EXCEPT ![c] = "admitted"]
    /\ env' = [env EXCEPT ![Parent[c]] = number[c], ![c] = number[c]]
    /\ UNCHANGED <<file, gen, generations, seed, number, stamp, faults>>

\* The request is cancelled before its answer is read.
Abandon(c) ==
    /\ pc[c] = "answered"
    /\ Spend("abandon")
    /\ pc' = [pc EXCEPT ![c] = "abandoned"]
    /\ UNCHANGED <<file, gen, generations, env, seed, number, stamp>>

------------------------------------------------------------------------------
Init ==
    /\ file \in {NoFile, Holding(0)}
    /\ gen = [r \in Roots |-> NoCoordinator]
    /\ generations = 0
    /\ env = [x \in Processes |-> 0]
    /\ pc = [c \in Calls |-> "idle"]
    /\ seed = [c \in Calls |-> 0]
    /\ number = [c \in Calls |-> 0]
    /\ stamp = [c \in Calls |-> 0]
    /\ faults = FaultBudget

Next ==
    \/ \E r \in Roots : \/ StartRoot(r) \/ EnsureGeneration(r) \/ BeginTurn(r)
                        \/ EndTree(r) \/ RootExit(r)
    \/ \E c \in Calls : \/ Ask(c) \/ Allocate(c) \/ InterruptedWrite(c)
                        \/ Answered(c) \/ Abandon(c)

Spec == Init /\ [][Next]_vars

------------------------------------------------------------------------------
(* Properties *)

\* Every variable holds a value of its kind: what allocateCall and the starts
\* of a generation may store.
TypeOK ==
    /\ file \in File
    /\ gen \in [Roots -> Coordinator]
    /\ generations \in Nat
    /\ env \in [Processes -> Nat]
    /\ pc \in [Calls -> PcStates]
    /\ seed \in [Calls -> Nat]
    /\ number \in [Calls -> Nat]
    /\ stamp \in [Calls -> Nat]
    /\ faults \in [Faults -> Nat]

\* The calls a coordinator has given a number.
Numbered == {c \in Calls : number[c] # 0}

\* One generation never numbers two calls alike, whatever its callers declare
\* and whichever of its writes fail.
GenerationNumbersUnique ==
    \A c, d \in Numbered : stamp[c] = stamp[d] /\ number[c] = number[d] => c = d

\* RLM_MAX_CALLS bounds every number, so it bounds the calls of a generation.
LimitRespected == \A c \in Numbered : number[c] <= MaxCalls

\* A continuation goes by what the file says, a new turn of a root by its own
\* RLM_CALL_COUNT.  Outside a proof envelope a turn begins at zero, and a failed
\* write leaves its coordinator behind the file, which may come to say again what
\* that one remembers: neither keeps the roots that share a file apart.
NoneFailed == faults["io"] = FaultBudget["io"]
NoneAbandoned == faults["abandon"] = FaultBudget["abandon"]

\* In an envelope, as long as no write failed, the counter file never says less
\* than a number that a generation still in place gave out, whichever roots share
\* it, begin turns, die in the middle of a write and are started again: a
\* continuation that reads it starts behind no call of that generation.
FileCoversNumbers ==
    Envelope /\ NoneFailed =>
      \A c \in Numbered :
        gen[Root[c]].id = stamp[c] /\ file.kind = "count" => number[c] <= file.n

\* With calls that delegate in turn the envelope cannot promise that much, but
\* the roots' own calls stay distinct, in whatever order roots share the file,
\* begin turns, are cut off, are killed and are started again, as long as they
\* read the answers they asked for.
FromRoots == {c \in Numbered : Parent[c] \in Roots}
RootNumbersUnique ==
    Envelope /\ NoneFailed /\ NoneAbandoned =>
      \A c, d \in FromRoots : number[c] = number[d] => c = d
==============================================================================
