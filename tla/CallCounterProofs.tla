-------------------------- MODULE CallCounterProofs --------------------------
(***************************************************************************)
(* Theorems about CallCounter, for every tree of calls, set of roots,      *)
(* limit and budget.                                                       *)
(*                                                                         *)
(* A number is unique in its generation because a generation's identifier  *)
(* is never used again and its count covers every number it has given      *)
(* (IInv).                                                                 *)
(*                                                                         *)
(* Between the roots that share the file the argument is about what each   *)
(* of them may still do to it (Lineage).  A coordinator commits only if    *)
(* the file says what it remembers, so one that the file has left behind   *)
(* is out, unless another takes the file back to what it remembers.  Only  *)
(* the first allocation of a generation can take the file back, to what    *)
(* its root has read, and at most one coordinator can do so at any time:   *)
(* by the time another could, the file is past it for good.                *)
(***************************************************************************)
EXTENDS CallCounter, TLAPS

\* An identifier belongs to one coordinator, and no call is ahead of them.
IdsFresh ==
    /\ \A r \in Roots : gen[r].id <= generations
    /\ \A r \in Roots : gen[r].status = "none" <=> gen[r].id = 0
    /\ \A r, q \in Roots : /\ gen[r].status # "none"
                           /\ gen[q].status # "none"
                           /\ gen[r].id = gen[q].id
                           => r = q
    /\ \A c \in Calls : stamp[c] <= generations

\* A request in flight is one of the active generation of its root, and has no
\* number yet.
RequestsAreCurrent ==
    \A c \in Calls :
      /\ pc[c] \in {"idle", "asking"} => number[c] = 0
      /\ pc[c] = "asking" => /\ gen[Root[c]].status = "active"
                             /\ stamp[c] = gen[Root[c]].id

\* A generation that has given a number has bound its count, which covers it.
CountCoversNumbers ==
    \A c \in Calls, r \in Roots :
      /\ number[c] # 0
      /\ gen[r].status # "none"
      /\ stamp[c] = gen[r].id
      => gen[r].bound /\ number[c] <= gen[r].count

IInv ==
    /\ TypeOK
    /\ IdsFresh
    /\ RequestsAreCurrent
    /\ CountCoversNumbers
    /\ GenerationNumbersUnique
    /\ LimitRespected

------------------------------------------------------------------------------
\* What binding and advancing a coordinator make of it.
LEMMA BoundType ==
    ASSUME NEW g \in Coordinator, NEW s \in Nat
    PROVE  /\ Bound(g, s) \in Coordinator
           /\ Bound(g, s).id = g.id
           /\ Bound(g, s).status = g.status
           /\ Bound(g, s).bound
           /\ g.bound => Bound(g, s).count = g.count
<1>1. CASE g.bound
  BY <1>1 DEF Bound
<1>2. CASE ~g.bound /\ (g.held \/ file = NoFile)
  <2>1. Bound(g, s) = [g EXCEPT !.bound = TRUE, !.count = s]
    BY <1>2 DEF Bound
  <2> QED
    BY <1>2, <2>1 DEF Coordinator
<1>3. CASE ~g.bound /\ ~(g.held \/ file = NoFile)
  <2>1. Bound(g, s) = [g EXCEPT !.bound = TRUE, !.count = s, !.held = TRUE, !.raw = s]
    BY <1>3 DEF Bound
  <2> QED
    BY <1>3, <2>1 DEF Coordinator
<1> QED
  BY <1>1, <1>2, <1>3

\* A commit moves the count on by one and leaves the rest.
LEMMA AdvancedType ==
    ASSUME NEW g \in Coordinator
    PROVE  /\ Advanced(g) \in Coordinator
           /\ Advanced(g).id = g.id
           /\ Advanced(g).status = g.status
           /\ Advanced(g).bound = g.bound
           /\ Advanced(g).count = g.count + 1
<1>1. g.count + 1 \in Nat
  BY DEF Coordinator
<1>2. Advanced(g) = [g EXCEPT !.held = TRUE, !.raw = g.count + 1, !.count = g.count + 1]
  BY DEF Advanced
<1>3. Advanced(g) = [status |-> g.status, id |-> g.id, bound |-> g.bound,
                     count |-> g.count + 1, held |-> TRUE, raw |-> g.count + 1]
  BY <1>2 DEF Coordinator
<1> HIDE DEF Advanced
<1> QED
  BY <1>1, <1>3 DEF Coordinator

\* The empty coordinator is one.
LEMMA NoCoordinatorType ==
    NoCoordinator \in Coordinator /\ NoCoordinator.status = "none"
  BY DEF NoCoordinator, Coordinator

\* No generation was started and no call made.
LEMMA InitInv == Init => IInv
<1> SUFFICES ASSUME Init PROVE IInv
  OBVIOUS
<1> USE DEF Init
<1>1. TypeOK
  BY BudgetAssumption, NoCoordinatorType
     DEF TypeOK, File, NoFile, Holding, PcStates
<1>2. \A r \in Roots : gen[r].status = "none" /\ gen[r].id = 0
  BY DEF NoCoordinator
<1>3. Numbered = {}
  BY DEF Numbered
<1> QED
  BY <1>1, <1>2, <1>3
     DEF IInv, IdsFresh, RequestsAreCurrent, CountCoversNumbers,
         GenerationNumbersUnique, LimitRespected

------------------------------------------------------------------------------
\* A coordinator that starts has a fresh identifier and an unbound count.
LEMMA StartInv ==
    ASSUME IInv, NEW r \in Roots, NEW p \in Coordinator, StartCoordinator(r, p),
           file' = file, env' \in [Processes -> Nat], faults' = faults,
           seed' = seed, number' = number, stamp' = stamp,
           pc' \in [Calls -> PcStates],
           \A c \in Calls :
             \/ pc'[c] = pc[c] /\ (Root[c] # r \/ pc[c] # "asking")
             \/ pc'[c] = "refused"
    PROVE  IInv'
<1> USE RootsAssumption DEF IInv
<1> DEFINE g == [status |-> "active", id |-> generations + 1, bound |-> FALSE,
                 count |-> 0, held |-> p.held, raw |-> p.raw]
<1>1. /\ gen' = [gen EXCEPT ![r] = g]
      /\ generations' = generations + 1
      /\ generations \in Nat
  BY DEF StartCoordinator, TypeOK
<1>2. g \in Coordinator
  BY <1>1 DEF Coordinator
<1> HIDE DEF g
<1>3. TypeOK'
  BY <1>1, <1>2 DEF TypeOK
<1>4. g.id = generations + 1 /\ g.status = "active"
  BY DEF g
<1>5. \A q \in Roots : gen'[q] = IF q = r THEN g ELSE gen[q]
  BY <1>1 DEF TypeOK
<1>6. /\ \A q \in Roots : gen[q].id \in Nat
      /\ stamp \in [Calls -> Nat]
  BY DEF TypeOK, Coordinator
<1>7. IdsFresh'
  BY <1>1, <1>4, <1>5, <1>6 DEF IdsFresh
<1>8. RequestsAreCurrent'
  BY <1>5 DEF RequestsAreCurrent
<1>9. CountCoversNumbers'
  BY <1>1, <1>4, <1>5, <1>6 DEF CountCoversNumbers, IdsFresh
<1>10. GenerationNumbersUnique' /\ LimitRespected'
  BY DEF GenerationNumbersUnique, LimitRespected, Numbered
<1> QED
  BY <1>3, <1>7, <1>8, <1>9, <1>10

\* The end of the root of an allocation: only its own calls and coordinator
\* change, and nothing it leaves is in flight.
LEMMA GoneInv ==
    ASSUME IInv, NEW r \in Roots, RootGone(r),
           file' \in File, faults' \in [Faults -> Nat],
           UNCHANGED <<generations, env, seed, number, stamp>>
    PROVE  IInv'
<1> USE RootsAssumption DEF IInv
<1>1. /\ gen' = [gen EXCEPT ![r] = NoCoordinator]
      /\ pc' = [c \in Calls |->
                   IF Root[c] = r /\ pc[c] \in {"asking", "answered"}
                   THEN "refused" ELSE pc[c]]
  BY DEF RootGone
<1>2. \A q \in Roots : gen'[q] = IF q = r THEN NoCoordinator ELSE gen[q]
  BY <1>1 DEF TypeOK
<1>3. TypeOK'
  BY <1>1, NoCoordinatorType DEF TypeOK, PcStates
<1>4. NoCoordinator.status = "none" /\ NoCoordinator.id = 0
  BY DEF NoCoordinator
<1>5. IdsFresh'
  <2>1. generations \in Nat /\ generations' = generations /\ stamp' = stamp
    BY DEF TypeOK
  <2> QED
    BY <1>2, <1>4, <2>1 DEF IdsFresh
<1>6. RequestsAreCurrent'
  BY <1>1, <1>2 DEF RequestsAreCurrent
<1>7. CountCoversNumbers'
  BY <1>2, <1>4 DEF CountCoversNumbers
<1>8. GenerationNumbersUnique' /\ LimitRespected'
  BY DEF GenerationNumbersUnique, LimitRespected, Numbered
<1> QED
  BY <1>3, <1>5, <1>6, <1>7, <1>8

\* A coordinator that only binds, or keeps what it had, while calls that are not
\* idle or asking move on.
LEMMA BindInv ==
    ASSUME IInv, NEW r \in Roots, NEW g \in Coordinator,
           gen' = [gen EXCEPT ![r] = g],
           g.id = gen[r].id, g.status = gen[r].status,
           gen[r].bound => g.bound /\ g.count = gen[r].count,
           file' \in File, faults' \in [Faults -> Nat],
           UNCHANGED <<generations, seed, number, stamp>>,
           env' \in [Processes -> Nat], pc' \in [Calls -> PcStates],
           \A c \in Calls : \/ pc'[c] = pc[c]
                            \/ pc'[c] \in {"refused", "admitted", "abandoned"}
    PROVE  IInv'
<1> USE RootsAssumption DEF IInv
<1>1. \A q \in Roots : gen'[q] = IF q = r THEN g ELSE gen[q]
  BY DEF TypeOK
<1>2. TypeOK'
  BY DEF TypeOK
<1>3. IdsFresh'
  BY <1>1 DEF IdsFresh
<1>4. RequestsAreCurrent'
  BY <1>1 DEF RequestsAreCurrent
<1>5. CountCoversNumbers'
  BY <1>1 DEF CountCoversNumbers
<1>6. GenerationNumbersUnique' /\ LimitRespected'
  BY DEF GenerationNumbersUnique, LimitRespected, Numbered
<1> QED
  BY <1>2, <1>3, <1>4, <1>5, <1>6

------------------------------------------------------------------------------
\* A successful allocation gives out a number above all those of its generation.
LEMMA GiveInv ==
    ASSUME IInv, NEW c \in Calls, pc[c] = "asking", NEW g,
           g = Bound(gen[Root[c]], seed[c]), ~Exhausted(g),
           file' = Holding(g.count + 1),
           gen' = [gen EXCEPT ![Root[c]] = Advanced(g)],
           number' = [number EXCEPT ![c] = g.count + 1],
           pc' = [pc EXCEPT ![c] = "answered"],
           UNCHANGED <<generations, env, seed, stamp, faults>>
    PROVE  IInv'
<1> USE RootsAssumption, LimitAssumption DEF IInv
<1> DEFINE r == Root[c]
<1>1. /\ r \in Roots /\ gen[r] \in Coordinator /\ seed[c] \in Nat
      /\ \A q \in Roots : gen[q].id \in Nat /\ gen[q].count \in Nat
      /\ number \in [Calls -> Nat] /\ stamp \in [Calls -> Nat]
  BY DEF TypeOK, Coordinator
<1>2. /\ g \in Coordinator /\ g.id = gen[r].id /\ g.status = gen[r].status
      /\ g.bound
      /\ gen[r].bound => g.count = gen[r].count
  BY <1>1, BoundType
<1>3. g.count \in Nat
  BY <1>2 DEF Coordinator
<1>4. /\ Advanced(g) \in Coordinator /\ Advanced(g).id = gen[r].id
      /\ Advanced(g).status = gen[r].status /\ Advanced(g).bound
      /\ Advanced(g).count = g.count + 1
  BY <1>2, AdvancedType
<1>5. \A q \in Roots : gen'[q] = IF q = r THEN Advanced(g) ELSE gen[q]
  BY <1>1 DEF TypeOK
<1>6. \A d \in Calls : number'[d] = IF d = c THEN g.count + 1 ELSE number[d]
  BY <1>1
<1>7. /\ gen[r].status = "active" /\ stamp[c] = gen[r].id /\ number[c] = 0
  BY DEF RequestsAreCurrent
<1>8. TypeOK'
  <2>1. Holding(g.count + 1) \in File
    BY <1>3 DEF Holding, File
  <2> QED
    BY <1>1, <1>3, <1>4, <2>1 DEF TypeOK, PcStates
<1>9. IdsFresh'
  BY <1>4, <1>5 DEF IdsFresh
<1>10. RequestsAreCurrent'
  <2>1. \A d \in Calls : pc'[d] = IF d = c THEN "answered" ELSE pc[d]
    BY DEF TypeOK
  <2> QED
    BY <1>4, <1>5, <1>6, <2>1 DEF RequestsAreCurrent
<1>11. \A d \in Calls : number[d] # 0 /\ stamp[d] = stamp[c] => number[d] <= g.count
  BY <1>2, <1>7 DEF CountCoversNumbers
<1>12. CountCoversNumbers'
  <2> SUFFICES ASSUME NEW d \in Calls, NEW q \in Roots,
                      number'[d] # 0, gen'[q].status # "none",
                      stamp[d] = gen'[q].id
               PROVE  gen'[q].bound /\ number'[d] <= gen'[q].count
    BY DEF CountCoversNumbers
  <2>1. CASE q = r /\ d = c
    BY <2>1, <1>3, <1>4, <1>5, <1>6
  <2>2. CASE q = r /\ d # c
    BY <2>2, <1>1, <1>3, <1>4, <1>5, <1>6, <1>7, <1>11
  <2>3. CASE q # r
    BY <2>3, <1>5, <1>6, <1>7 DEF CountCoversNumbers, IdsFresh
  <2> QED
    BY <2>1, <2>2, <2>3
<1>13. GenerationNumbersUnique'
  BY <1>1, <1>3, <1>6, <1>11 DEF GenerationNumbersUnique, Numbered
<1>14. LimitRespected'
  BY <1>2, <1>3, <1>6 DEF LimitRespected, Numbered, Exhausted
<1> QED
  BY <1>8, <1>9, <1>10, <1>12, <1>13, <1>14

------------------------------------------------------------------------------
\* Every step keeps the invariant.
LEMMA StepInv == IInv /\ [Next]_vars => IInv'
<1> SUFFICES ASSUME IInv, [Next]_vars PROVE IInv'
  OBVIOUS
<1> USE RootsAssumption
<1>1. \A r \in Roots : gen[r] \in Coordinator
  BY DEF IInv, TypeOK
<1>2. /\ file \in File /\ env \in [Processes -> Nat] /\ pc \in [Calls -> PcStates]
      /\ faults \in [Faults -> Nat] /\ gen \in [Roots -> Coordinator]
  BY DEF IInv, TypeOK
<1>3. \A r \in Roots : env[r] \in Nat
  BY <1>2 DEF Processes
<1>4. ASSUME NEW r \in Roots, StartRoot(r) PROVE IInv'
  <2>1. Declared \subseteq Nat
    BY <1>2, <1>3 DEF Declared, File
  <2>2. env' \in [Processes -> Nat]
    BY <1>2, <1>4, <2>1 DEF StartRoot
  <2>3. \A c \in Calls : Root[c] = r => pc[c] # "asking"
    BY <1>4 DEF StartRoot, IInv, RequestsAreCurrent
  <2> QED
    BY <1>2, <1>4, <2>2, <2>3, NoCoordinatorType, StartInv
       DEF StartRoot, callVars
<1>5. ASSUME NEW r \in Roots, EnsureGeneration(r) PROVE IInv'
  <2>1. \A c \in Calls : Root[c] = r => pc[c] # "asking"
    BY <1>5 DEF EnsureGeneration, IInv, RequestsAreCurrent
  <2> QED
    BY <1>1, <1>2, <1>5, <2>1, StartInv DEF EnsureGeneration, callVars
<1>6. ASSUME NEW r \in Roots, BeginTurn(r) PROVE IInv'
  <2>1. env' \in [Processes -> Nat]
    BY <1>2, <1>3, <1>6 DEF BeginTurn, TurnCount
  <2>2. /\ pc' \in [Calls -> PcStates]
        /\ \A c \in Calls : \/ pc'[c] = pc[c] /\ (Root[c] # r \/ pc[c] # "asking")
                            \/ pc'[c] = "refused"
    BY <1>2, <1>6 DEF BeginTurn, FailPending, PcStates
  <2> QED
    BY <1>1, <1>6, <2>1, <2>2, StartInv DEF BeginTurn
<1>7. ASSUME NEW r \in Roots, EndTree(r) PROVE IInv'
  <2> DEFINE g == [gen[r] EXCEPT !.status = "terminal"]
  <2>1. /\ g \in Coordinator /\ g.id = gen[r].id /\ g.status = "terminal"
        /\ g.bound = gen[r].bound /\ g.count = gen[r].count
    BY <1>1 DEF Coordinator
  <2>2. gen' = [gen EXCEPT ![r] = g]
    BY <1>7 DEF EndTree
  <2>3. \A q \in Roots : gen'[q] = IF q = r THEN g ELSE gen[q]
    BY <1>2, <2>2
  <2>4. pc' = [c \in Calls |->
                 IF Root[c] = r /\ pc[c] = "asking" THEN "refused" ELSE pc[c]]
    BY <1>7 DEF EndTree, FailPending
  <2>5. /\ gen[r].status = "active"
        /\ UNCHANGED <<file, generations, env, seed, number, stamp, faults>>
    BY <1>7 DEF EndTree
  <2> HIDE DEF g
  <2>6. TypeOK'
    BY <2>1, <2>2, <2>4, <2>5 DEF IInv, TypeOK, PcStates
  <2>7. IdsFresh'
    BY <2>1, <2>3, <2>5 DEF IInv, IdsFresh
  <2>8. RequestsAreCurrent'
    BY <2>3, <2>4, <2>5 DEF IInv, RequestsAreCurrent
  <2>9. CountCoversNumbers'
    BY <2>1, <2>3, <2>5 DEF IInv, CountCoversNumbers
  <2>10. GenerationNumbersUnique' /\ LimitRespected'
    BY <2>5 DEF IInv, GenerationNumbersUnique, LimitRespected, Numbered
  <2> QED
    BY <2>6, <2>7, <2>8, <2>9, <2>10 DEF IInv
<1>8. ASSUME NEW r \in Roots, RootExit(r) PROVE IInv'
  BY <1>2, <1>8, GoneInv DEF RootExit
<1>9. ASSUME NEW c \in Calls, Ask(c) PROVE IInv'
  <2>1. \A d \in Calls : /\ pc'[d] = IF d = c THEN "asking" ELSE pc[d]
                         /\ stamp'[d] = IF d = c THEN gen[Root[c]].id ELSE stamp[d]
    BY <1>9 DEF Ask, IInv, TypeOK
  <2>2. /\ gen[Root[c]].status = "active" /\ number[c] = 0
        /\ UNCHANGED <<file, gen, generations, env, number, faults>>
    BY <1>9 DEF Ask, IInv, RequestsAreCurrent
  <2>3. env[Parent[c]] \in Nat /\ gen[Root[c]].id \in Nat
    BY <1>1, <1>2 DEF Processes, Coordinator
  <2>4. TypeOK'
    BY <1>9, <2>3 DEF Ask, IInv, TypeOK, PcStates
  <2>5. IdsFresh'
    BY <2>1, <2>2 DEF IInv, IdsFresh
  <2>6. RequestsAreCurrent'
    BY <2>1, <2>2 DEF IInv, RequestsAreCurrent
  <2>7. CountCoversNumbers'
    BY <2>1, <2>2 DEF IInv, CountCoversNumbers
  <2>8. GenerationNumbersUnique' /\ LimitRespected'
    BY <2>1, <2>2 DEF IInv, GenerationNumbersUnique, LimitRespected, Numbered
  <2> QED
    BY <2>4, <2>5, <2>6, <2>7, <2>8 DEF IInv
<1>10. ASSUME NEW c \in Calls, Allocate(c) PROVE IInv'
  <2> DEFINE g == Bound(gen[Root[c]], seed[c])
  <2>1. seed[c] \in Nat
    BY DEF IInv, TypeOK
  <2>2. CASE CanBind(gen[Root[c]], seed[c]) /\ ~Exhausted(g) /\ Committable(g)
    BY <1>10, <2>2, GiveInv DEF Allocate
  <2>3. CASE /\ CanBind(gen[Root[c]], seed[c])
             /\ ~(~Exhausted(g) /\ Committable(g))
    <3>1. /\ gen' = [gen EXCEPT ![Root[c]] = g] /\ pc' = [pc EXCEPT ![c] = "refused"]
          /\ UNCHANGED <<file, number, generations, env, seed, stamp, faults>>
      BY <1>10, <2>3 DEF Allocate
    <3>2. /\ g \in Coordinator /\ g.id = gen[Root[c]].id
          /\ g.status = gen[Root[c]].status /\ g.bound
          /\ gen[Root[c]].bound => g.count = gen[Root[c]].count
      BY <1>1, <2>1, BoundType
    <3>3. /\ pc' \in [Calls -> PcStates]
          /\ \A d \in Calls : pc'[d] = pc[d] \/ pc'[d] = "refused"
      BY <1>2, <3>1 DEF PcStates
    <3> HIDE DEF g
    <3> QED
      BY <1>2, <3>1, <3>2, <3>3, BindInv
  <2>4. CASE ~CanBind(gen[Root[c]], seed[c])
    <3>1. /\ gen' = gen /\ pc' = [pc EXCEPT ![c] = "refused"]
          /\ UNCHANGED <<file, number, generations, env, seed, stamp, faults>>
      BY <1>10, <2>4 DEF Allocate
    <3>2. gen' = [gen EXCEPT ![Root[c]] = gen[Root[c]]]
      BY <1>2, <3>1
    <3>3. /\ pc' \in [Calls -> PcStates]
          /\ \A d \in Calls : pc'[d] = pc[d] \/ pc'[d] = "refused"
      BY <1>2, <3>1 DEF PcStates
    <3>4. env' \in [Processes -> Nat] /\ file' \in File /\ faults' \in [Faults -> Nat]
      BY <1>2, <3>1
    <3>5. UNCHANGED <<generations, seed, number, stamp>>
      BY <3>1
    <3> HIDE DEF g
    <3> QED
      BY <1>1, <3>2, <3>3, <3>4, <3>5, BindInv
  <2> QED
    BY <2>2, <2>3, <2>4
<1>11. ASSUME NEW c \in Calls, InterruptedWrite(c) PROVE IInv'
  <2> DEFINE g == Bound(gen[Root[c]], seed[c])
  <2>1. seed[c] \in Nat
    BY DEF IInv, TypeOK
  <2>2. /\ g \in Coordinator /\ g.id = gen[Root[c]].id
        /\ g.status = gen[Root[c]].status /\ g.bound
        /\ gen[Root[c]].bound => g.count = gen[Root[c]].count
    BY <1>1, <2>1, BoundType
  <2>3. Interrupted(g) \subseteq File
    BY <1>2, <2>2 DEF Interrupted, Holding, Torn, File, Coordinator
  <2>4. faults' \in [Faults -> Nat]
    BY <1>2, <1>11 DEF InterruptedWrite, Spend, Faults
  <2>5. CASE gen' = [gen EXCEPT ![Root[c]] = g] /\ pc' = [pc EXCEPT ![c] = "refused"]
    BY <1>2, <1>11, <2>2, <2>3, <2>4, <2>5, BindInv DEF InterruptedWrite, PcStates
  <2>6. CASE RootGone(Root[c])
    BY <1>11, <2>3, <2>4, <2>6, GoneInv DEF InterruptedWrite
  <2> QED
    BY <1>11, <2>5, <2>6 DEF InterruptedWrite
<1>12. ASSUME NEW c \in Calls, Answered(c) \/ Abandon(c) PROVE IInv'
  <2>1. gen' = [gen EXCEPT ![Root[c]] = gen[Root[c]]]
    BY <1>2, <1>12 DEF Answered, Abandon
  <2>2. env' \in [Processes -> Nat] /\ faults' \in [Faults -> Nat]
    BY <1>2, <1>12 DEF Answered, Abandon, Spend, Faults, IInv, TypeOK
  <2>3. /\ pc' \in [Calls -> PcStates]
        /\ \A d \in Calls : pc'[d] = pc[d] \/ pc'[d] \in {"admitted", "abandoned"}
    BY <1>2, <1>12 DEF Answered, Abandon, PcStates
  <2>4. UNCHANGED <<file, generations, seed, number, stamp>>
    BY <1>12 DEF Answered, Abandon
  <2> QED
    BY <1>1, <1>2, <2>1, <2>2, <2>3, <2>4, BindInv
<1>13. CASE UNCHANGED vars
  BY <1>13 DEF vars, IInv, TypeOK, IdsFresh, RequestsAreCurrent, CountCoversNumbers,
               GenerationNumbersUnique, LimitRespected, Numbered
<1> QED
  BY <1>4, <1>5, <1>6, <1>7, <1>8, <1>9, <1>10, <1>11, <1>12, <1>13 DEF Next

\* So it holds in every behaviour.
LEMMA Invariance == Spec => []IInv
  BY InitInv, StepInv, PTL DEF Spec

\* Every variable keeps its type: what allocateCall and the starts of a
\* generation store.
THEOREM TypeInvariant == Spec => []TypeOK
<1>1. IInv => TypeOK
  BY DEF IInv
<1> QED
  BY <1>1, Invariance, PTL

\* allocateCall never gives two calls of a generation the same number, for every
\* tree of calls and whatever its callers declare and its writes do.
THEOREM UniqueInGeneration == Spec => []GenerationNumbersUnique
<1>1. IInv => GenerationNumbersUnique
  BY DEF IInv
<1> QED
  BY <1>1, Invariance, PTL

\* allocateCall gives out no number above RLM_MAX_CALLS.
THEOREM LimitTheorem == Spec => []LimitRespected
<1>1. IInv => LimitRespected
  BY DEF IInv
<1> QED
  BY <1>1, Invariance, PTL
------------------------------------------------------------------------------
(* What keeps the roots that share the counter file apart. *)

\* What a request knows of the coordinator it is sent to, and its answer of the
\* process that reads it.
RequestsOwn ==
    \A c \in Calls :
      /\ pc[c] \in {"answered", "admitted"} => number[c] # 0
      /\ number[c] # 0 => stamp[c] # 0
      /\ Parent[c] \in Roots /\ pc[c] \in {"asking", "answered"}
           => gen[Parent[c]].status # "none" /\ stamp[c] = gen[Parent[c]].id
      /\ pc[c] = "asking" /\ ~gen[Root[c]].bound
           => Parent[c] = Root[c] /\ seed[c] = env[Root[c]]
      /\ pc[c] = "answered" /\ Parent[c] \in Roots => env[Parent[c]] <= number[c]

\* With the coordinators G, the generation that numbered c is still in place.
Current(G, c) ==
    number[c] # 0 /\ G[Root[c]].status # "none" /\ stamp[c] = G[Root[c]].id

\* A coordinator's memory of the file and its count enclose what its root has
\* read, and agree once it has given out a number.
HoldersInv(G, F) ==
    /\ \A r \in Roots :
         /\ G[r].status = "none" => ~G[r].held /\ ~G[r].bound
         /\ G[r].held => env[r] <= G[r].raw
         /\ G[r].bound => env[r] <= G[r].count
         /\ G[r].bound /\ G[r].held => G[r].count \in {G[r].raw, env[r]}
    /\ \A c \in Calls :
         Current(G, c) => G[Root[c]].held /\ G[Root[c]].raw = G[Root[c]].count
    /\ F.kind = "absent" => /\ \A r \in Roots : ~G[r].held
                            /\ \A c \in Calls : number[c] = 0
                            /\ \A x \in Processes : env[x] = 0

\* With the coordinators G and the file F: that of r may commit; its next number
\* may be below the file; it is behind the file, and so it stays whichever
\* coordinator commits, that of q apart.
Fresh(G, F, r) == G[r].held /\ G[r].raw = F.n
Low(G, r) == G[r].held /\ env[r] < G[r].raw
PastBut(G, F, q, r) ==
    /\ G[r].raw < F.n
    /\ \A t \in Roots \ {q} : Fresh(G, F, t) => G[r].raw <= env[t]
Past(G, F, r) == PastBut(G, F, r, r)

\* At most one coordinator can take the file back, and then to no number that a
\* generation in place has given out or that another one still remembers.
LineInv(G, F) ==
    /\ \A r \in Roots : Low(G, r) => Fresh(G, F, r) \/ Past(G, F, r)
    /\ \A r, t \in Roots : /\ Low(G, r) /\ Fresh(G, F, r)
                           /\ Low(G, t) /\ Fresh(G, F, t)
                           => r = t
    /\ \A c \in Calls : Current(G, c) =>
         /\ number[c] <= F.n
         /\ \A r \in Roots \ {Root[c]} :
              G[r].held => number[c] <= env[r] \/ PastBut(G, F, Root[c], r)

\* No coordinator that may ever commit again would give out the number of a call
\* some root made itself.
OwnInv(G, F) ==
    \A c \in FromRoots :
      /\ number[c] <= F.n
      /\ \A r \in Roots : G[r].held =>
           \/ number[c] <= env[r]
           \/ Past(G, F, r)
           \/ pc[c] = "answered" /\ (Parent[c] = r \/ PastBut(G, F, Parent[c], r))

\* A fault that is spent stays spent.
WithinBudget == \A f \in Faults : faults[f] <= FaultBudget[f]

InLine == Envelope /\ NoneFailed /\ file.kind = "count"
Lineage ==
    /\ WithinBudget
    /\ RequestsOwn
    /\ HoldersInv(gen, file)
    /\ InLine => LineInv(gen, file)
    /\ InLine /\ NoneAbandoned => OwnInv(gen, file)
    /\ RootNumbersUnique

\* The kinds of the values that the order of the numbers is about.
LEMMA Values ==
    ASSUME IInv
    PROVE  /\ \A r \in Roots :
                /\ gen[r] \in Coordinator
                /\ gen[r].raw \in Nat /\ gen[r].count \in Nat /\ gen[r].id \in Nat
                /\ gen[r].held \in BOOLEAN /\ gen[r].bound \in BOOLEAN
                /\ env[r] \in Nat /\ r \notin Calls
           /\ \A c \in Calls :
                /\ number[c] \in Nat /\ stamp[c] \in Nat /\ seed[c] \in Nat
                /\ Root[c] \in Roots /\ Parent[c] \in Processes
                /\ Parent[c] \in Roots => Root[c] = Parent[c]
           /\ file.n \in Nat
  BY RootsAssumption DEF IInv, TypeOK, Coordinator, Processes, File

\* What every step keeps that does not write the file: a holder remembers what
\* it remembered, and its root has read no less.
LEMMA KeepLine ==
    ASSUME NEW G, LineInv(G, file),
           \A r \in Roots : /\ G[r].raw \in Nat /\ env[r] \in Nat /\ env'[r] \in Nat
                            /\ gen'[r].held => /\ G[r].held
                                               /\ gen'[r].raw = G[r].raw
                                               /\ env[r] <= env'[r],
           \A c \in Calls : number[c] \in Nat /\ Root[c] \in Roots,
           \A c \in Calls : Current(gen, c)' => Current(G, c),
           file' = file, number' = number, file.n \in Nat
    PROVE  /\ LineInv(gen, file)'
           /\ \A q \in Roots, r \in Roots :
                PastBut(G, file, q, r) /\ gen'[r].held => PastBut(gen, file, q, r)'
<1>1. \A q \in Roots, r \in Roots :
        PastBut(G, file, q, r) /\ gen'[r].held => PastBut(gen, file, q, r)'
  BY DEF PastBut, Fresh
<1>2. ASSUME NEW r \in Roots, Low(gen, r)' PROVE Low(G, r) /\ gen'[r].held
  BY <1>2 DEF Low
<1>3. ASSUME NEW r \in Roots, gen'[r].held PROVE Fresh(G, file, r) <=> Fresh(gen, file, r)'
  BY <1>3 DEF Fresh
<1>4. \A r \in Roots : Low(gen, r)' => Fresh(gen, file, r)' \/ Past(gen, file, r)'
  BY <1>1, <1>2, <1>3 DEF LineInv, Past
<1>5. \A r, t \in Roots : /\ Low(gen, r)' /\ Fresh(gen, file, r)'
                          /\ Low(gen, t)' /\ Fresh(gen, file, t)'
                          => r = t
  BY <1>2, <1>3 DEF LineInv
<1>6. ASSUME NEW c \in Calls, Current(gen, c)', NEW r \in Roots \ {Root[c]}, gen'[r].held
      PROVE  number[c] <= env'[r] \/ PastBut(gen, file, Root[c], r)'
  <2>1. number[c] <= env[r] \/ PastBut(G, file, Root[c], r)
    BY <1>6 DEF LineInv
  <2> QED
    BY <1>1, <1>6, <2>1
<1>7. \A c \in Calls : Current(gen, c)' => number[c] <= file.n
  BY DEF LineInv
<1> QED
  BY <1>1, <1>4, <1>5, <1>6, <1>7 DEF LineInv

\* The same for the numbers of the roots' own calls: an answer is read, still
\* waits to be read, or its root is gone.
LEMMA KeepOwn ==
    ASSUME NEW G, LineInv(G, file), OwnInv(G, file),
           \A r \in Roots : /\ G[r].raw \in Nat /\ env[r] \in Nat /\ env'[r] \in Nat
                            /\ gen'[r].held => /\ G[r].held
                                               /\ gen'[r].raw = G[r].raw
                                               /\ env[r] <= env'[r],
           \A c \in Calls : number[c] \in Nat,
           \A c \in FromRoots :
             pc[c] = "answered" => \/ pc'[c] = "answered"
                                   \/ ~gen'[Parent[c]].held
                                   \/ env'[Parent[c]] = number[c],
           file' = file, number' = number, file.n \in Nat
    PROVE  OwnInv(gen, file)'
<1> SUFFICES ASSUME NEW c \in FromRoots, NEW r \in Roots, gen'[r].held
             PROVE  /\ number[c] <= file.n
                    /\ \/ number[c] <= env'[r]
                       \/ Past(gen, file, r)'
                       \/ /\ pc'[c] = "answered"
                          /\ Parent[c] = r \/ PastBut(gen, file, Parent[c], r)'
  BY DEF OwnInv, FromRoots, Numbered
<1>1. /\ c \in Calls /\ Parent[c] \in Roots /\ number[c] \in Nat
      /\ number[c] <= file.n
  BY DEF FromRoots, Numbered, OwnInv
<1>2. \A q \in Roots : PastBut(G, file, q, r) => PastBut(gen, file, q, r)'
  BY DEF PastBut, Fresh
<1>3. CASE number[c] <= env[r]
  BY <1>1, <1>3
<1>4. CASE Past(G, file, r)
  BY <1>1, <1>2, <1>4 DEF Past
<1>5. CASE pc[c] = "answered" /\ Parent[c] = r
  BY <1>1, <1>5
<1>6. CASE /\ pc[c] = "answered" /\ PastBut(G, file, Parent[c], r)
           /\ env[r] < number[c] /\ ~Past(G, file, r)
  <2>1. G[r].raw < file.n /\ ~Fresh(G, file, r)
    BY <1>6 DEF PastBut, Fresh
  <2>2. ~Low(G, r)
    BY <1>6, <2>1 DEF LineInv
  <2>3. G[r].raw <= number[c]
    BY <1>1, <1>6, <2>2 DEF Low
  <2>4. CASE pc'[c] = "answered"
    BY <1>1, <1>2, <1>6, <2>4
  <2>5. CASE ~gen'[Parent[c]].held
    BY <1>1, <1>6, <2>5 DEF Past, PastBut, Fresh
  <2>6. CASE env'[Parent[c]] = number[c]
    BY <1>1, <1>6, <2>3, <2>6 DEF Past, PastBut, Fresh
  <2> QED
    BY <1>6, <2>4, <2>5, <2>6
<1>7. \/ number[c] <= env[r] \/ Past(G, file, r)
      \/ pc[c] = "answered" /\ (Parent[c] = r \/ PastBut(G, file, Parent[c], r))
  BY DEF OwnInv
<1> QED
  BY <1>1, <1>3, <1>4, <1>5, <1>6, <1>7

\* The first request of a generation binds its coordinator, which adopts the
\* file its root has read: no order is disturbed.
LEMMA AdoptLine ==
    ASSUME IInv, RequestsOwn, HoldersInv(gen, file), NEW c \in Calls,
           pc[c] = "asking", CanBind(gen[Root[c]], seed[c]), NEW G,
           G = [gen EXCEPT ![Root[c]] = Bound(gen[Root[c]], seed[c])]
    PROVE  /\ HoldersInv(G, file)
           /\ file.kind = "count" /\ LineInv(gen, file) => LineInv(G, file)
           /\ LineInv(gen, file) /\ OwnInv(gen, file) /\ file.kind = "count"
                => OwnInv(G, file)
           /\ G \in [Roots -> Coordinator]
           /\ G[Root[c]].bound
           /\ \A r \in Roots : /\ G[r].id = gen[r].id /\ G[r].status = gen[r].status
                               /\ gen[r].bound => G[r].count = gen[r].count
<1> DEFINE w == Root[c]
           b == Bound(gen[w], seed[c])
<1>1. /\ \A r \in Roots : /\ gen[r].raw \in Nat /\ gen[r].count \in Nat
                          /\ gen[r].held \in BOOLEAN /\ gen[r].bound \in BOOLEAN
                          /\ env[r] \in Nat /\ gen[r] \in Coordinator
      /\ w \in Roots /\ seed[c] \in Nat /\ gen \in [Roots -> Coordinator]
      /\ \A d \in Calls : number[d] \in Nat /\ Root[d] \in Roots
      /\ file.n \in Nat
  BY Values DEF IInv, TypeOK
<1>2. /\ b \in Coordinator /\ b.id = gen[w].id /\ b.status = gen[w].status /\ b.bound
      /\ gen[w].bound => b.count = gen[w].count
  BY <1>1, BoundType
<1>3. \A r \in Roots : G[r] = IF r = w THEN b ELSE gen[r]
  BY <1>1
<1>4. gen[w].status = "active"
  BY DEF IInv, RequestsAreCurrent
<1>5. \A d \in Calls : Current(G, d) <=> Current(gen, d)
  BY <1>1, <1>2, <1>3 DEF Current
<1>6. /\ G \in [Roots -> Coordinator] /\ G[w].bound
      /\ \A r \in Roots : /\ G[r].id = gen[r].id /\ G[r].status = gen[r].status
                          /\ gen[r].bound => G[r].count = gen[r].count
  BY <1>1, <1>2, <1>3
<1>7. CASE gen[w].bound
  <2>1. b = gen[w]
    BY <1>7 DEF Bound
  <2>2. G = gen
    BY <1>1, <2>1
  <2> HIDE DEF w, b
  <2> QED
    BY <1>6, <2>2 DEF w
<1> SUFFICES ASSUME ~gen[w].bound
             PROVE  /\ HoldersInv(G, file)
                    /\ file.kind = "count" /\ LineInv(gen, file) => LineInv(G, file)
                    /\ LineInv(gen, file) /\ OwnInv(gen, file) /\ file.kind = "count"
                         => OwnInv(G, file)
  BY <1>6, <1>7
<1>8. seed[c] = env[w]
  BY DEF RequestsOwn
<1>9. \A d \in Calls : Current(gen, d) => Root[d] # w
  BY <1>1 DEF Current, IInv, CountCoversNumbers
<1> HIDE DEF b
<1>10. CASE gen[w].held \/ file = NoFile
  <2>1. b.count = env[w] /\ b.held = gen[w].held /\ b.raw = gen[w].raw
    BY <1>1, <1>8, <1>10 DEF Bound, b, Coordinator
  <2>2. HoldersInv(G, file)
    <3>1. \A r \in Roots :
            /\ G[r].status = "none" => ~G[r].held /\ ~G[r].bound
            /\ G[r].held => env[r] <= G[r].raw
            /\ G[r].bound => env[r] <= G[r].count
            /\ G[r].bound /\ G[r].held => G[r].count \in {G[r].raw, env[r]}
      <4> TAKE r \in Roots
      <4>1. CASE r = w
        BY <1>1, <1>2, <1>3, <1>4, <2>1, <4>1 DEF HoldersInv
      <4>2. CASE r # w
        BY <1>3, <4>2 DEF HoldersInv
      <4> QED
        BY <4>1, <4>2
    <3>2. \A d \in Calls : Current(G, d) => G[Root[d]].held /\ G[Root[d]].raw = G[Root[d]].count
      BY <1>1, <1>3, <1>5, <1>9 DEF HoldersInv
    <3>3. file.kind = "absent" => \A r \in Roots : ~G[r].held
      BY <1>3, <2>1 DEF HoldersInv
    <3> QED
      BY <3>1, <3>2, <3>3 DEF HoldersInv
  <2>3. \A r \in Roots : G[r].held = gen[r].held /\ G[r].raw = gen[r].raw
    BY <1>3, <2>1
  <2> HIDE DEF w
  <2>4. \A r \in Roots : /\ Fresh(G, file, r) <=> Fresh(gen, file, r)
                         /\ Low(G, r) <=> Low(gen, r)
    BY <2>3 DEF Fresh, Low
  <2>5. \A q, r \in Roots : PastBut(G, file, q, r) <=> PastBut(gen, file, q, r)
    BY <2>3, <2>4 DEF PastBut
  <2>6. \A r \in Roots : Past(G, file, r) <=> Past(gen, file, r)
    BY <2>5 DEF Past
  <2>7. LineInv(gen, file) => LineInv(G, file)
    BY <1>1, <1>5, <2>3, <2>4, <2>5, <2>6 DEF LineInv
  <2>8. OwnInv(gen, file) => OwnInv(G, file)
    BY <1>1, <2>3, <2>5, <2>6 DEF OwnInv, FromRoots, Numbered
  <2> QED
    BY <2>2, <2>7, <2>8
<1>11. CASE ~gen[w].held /\ file # NoFile
  <2>1. file = Holding(env[w])
    BY <1>8, <1>11 DEF CanBind
  <2>2. b.count = env[w] /\ b.held /\ b.raw = env[w]
    BY <1>1, <1>8, <1>11 DEF Bound, b, Coordinator
  <2>3. file.kind = "count" /\ file.n = env[w]
    BY <2>1 DEF Holding
  <2>4. HoldersInv(G, file)
    <3>1. \A r \in Roots :
            /\ G[r].status = "none" => ~G[r].held /\ ~G[r].bound
            /\ G[r].held => env[r] <= G[r].raw
            /\ G[r].bound => env[r] <= G[r].count
            /\ G[r].bound /\ G[r].held => G[r].count \in {G[r].raw, env[r]}
      <4> TAKE r \in Roots
      <4>1. CASE r = w
        BY <1>1, <1>2, <1>3, <1>4, <2>2, <4>1 DEF HoldersInv
      <4>2. CASE r # w
        BY <1>3, <4>2 DEF HoldersInv
      <4> QED
        BY <4>1, <4>2
    <3>2. \A d \in Calls : Current(G, d) => G[Root[d]].held /\ G[Root[d]].raw = G[Root[d]].count
      BY <1>1, <1>3, <1>5, <1>9 DEF HoldersInv
    <3> QED
      BY <2>3, <3>1, <3>2 DEF HoldersInv
  <2>5. \A r \in Roots : r # w => G[r] = gen[r]
    BY <1>3
  <2>6. G[w].held /\ G[w].raw = env[w] /\ Fresh(G, file, w) /\ ~Low(G, w)
    BY <1>1, <1>3, <2>2, <2>3 DEF Fresh, Low
  <2> HIDE DEF w
  <2>7. \A r \in Roots : r # w => /\ Fresh(G, file, r) <=> Fresh(gen, file, r)
                                  /\ Low(G, r) <=> Low(gen, r)
    BY <2>5 DEF Fresh, Low
  <2>8. \A q, r \in Roots : r # w /\ PastBut(gen, file, q, r) => PastBut(G, file, q, r)
    <3> SUFFICES ASSUME NEW q \in Roots, NEW r \in Roots, r # w,
                        PastBut(gen, file, q, r), NEW t \in Roots \ {q},
                        Fresh(G, file, t)
                 PROVE  G[r].raw < file.n /\ G[r].raw <= env[t]
      BY <2>5 DEF PastBut
    <3>1. G[r].raw = gen[r].raw /\ gen[r].raw < file.n /\ gen[r].raw \in Nat
      BY <1>1, <2>5 DEF PastBut
    <3>2. CASE t = w
      BY <1>1, <2>3, <3>1, <3>2
    <3>3. CASE t # w
      BY <2>7, <3>1, <3>3 DEF PastBut
    <3> QED
      BY <3>1, <3>2, <3>3
  <2>9. ASSUME LineInv(gen, file) PROVE LineInv(G, file)
    <3>1. \A r \in Roots : Low(G, r) => Fresh(G, file, r) \/ Past(G, file, r)
      BY <2>6, <2>7, <2>8, <2>9 DEF LineInv, Past
    <3>2. \A r, t \in Roots : /\ Low(G, r) /\ Fresh(G, file, r)
                              /\ Low(G, t) /\ Fresh(G, file, t)
                              => r = t
      BY <2>6, <2>7, <2>9 DEF LineInv
    <3>3. ASSUME NEW d \in Calls, Current(G, d) PROVE number[d] <= file.n
      BY <1>5, <2>9, <3>3 DEF LineInv
    <3>4. ASSUME NEW d \in Calls, Current(G, d), NEW r \in Roots \ {Root[d]}, G[r].held
          PROVE  number[d] <= env[r] \/ PastBut(G, file, Root[d], r)
      <4>1. CASE r = w
        BY <2>3, <3>3, <3>4, <4>1
      <4>2. CASE r # w
        <5>1. number[d] <= env[r] \/ PastBut(gen, file, Root[d], r)
          BY <1>5, <2>5, <2>9, <3>4, <4>2 DEF LineInv
        <5> QED
          BY <1>1, <2>8, <4>2, <5>1
      <4> QED
        BY <4>1, <4>2
    <3> QED
      BY <3>1, <3>2, <3>3, <3>4 DEF LineInv
  <2>10. ASSUME OwnInv(gen, file) PROVE OwnInv(G, file)
    <3> SUFFICES ASSUME NEW d \in FromRoots, NEW r \in Roots, G[r].held
                 PROVE  /\ number[d] <= file.n
                        /\ \/ number[d] <= env[r]
                           \/ Past(G, file, r)
                           \/ /\ pc[d] = "answered"
                              /\ Parent[d] = r \/ PastBut(G, file, Parent[d], r)
      BY <2>10 DEF OwnInv
    <3>1. number[d] <= file.n /\ Parent[d] \in Roots
      BY <2>10 DEF OwnInv, FromRoots
    <3>2. CASE r = w
      BY <2>3, <3>1, <3>2
    <3>3. CASE r # w
      <4>1. \/ number[d] <= env[r] \/ Past(gen, file, r)
            \/ /\ pc[d] = "answered"
               /\ Parent[d] = r \/ PastBut(gen, file, Parent[d], r)
        BY <2>5, <2>10, <3>3 DEF OwnInv
      <4> QED
        BY <2>8, <3>1, <3>3, <4>1 DEF Past
    <3> QED
      BY <3>2, <3>3
  <2> QED
    BY <2>4, <2>9, <2>10
<1> QED
  BY <1>10, <1>11

\* A write of the coordinator of w, to a file that says what it remembers: no
\* other one that may still commit is below the new number, and those the file
\* had left behind stay behind.
LEMMA WriteLine ==
    ASSUME NEW G, NEW K, NEW F, NEW w \in Roots,
           \A r \in Roots : /\ G[r].raw \in Nat /\ G[r].count \in Nat /\ env[r] \in Nat
                            /\ G[r].held => env[r] <= G[r].raw,
           file.n \in Nat, LineInv(G, file), Fresh(G, file, w),
           env[w] <= G[w].count, G[w].count \in {G[w].raw, env[w]},
           F.n = G[w].count + 1,
           \A r \in Roots \ {w} : K[r] = G[r]
    PROVE  \A r \in Roots \ {w} : G[r].held =>
             /\ Low(G, r) => Past(K, F, r) /\ ~Fresh(K, F, r)
             /\ F.n <= env[r] \/ PastBut(K, F, w, r)
             /\ \A q \in Roots :
                  PastBut(G, file, q, r) /\ (q = w => G[w].count = G[w].raw)
                    => PastBut(K, F, q, r)
             /\ ~K[w].held /\ PastBut(K, F, w, r) => Past(K, F, r)
<1>1. G[w].held /\ G[w].raw = file.n
  BY DEF Fresh
<1>2. ASSUME NEW r \in Roots \ {w}, Low(G, r)
      PROVE  G[r].raw < F.n /\ G[r].raw <= env[w]
  <2>1. CASE Fresh(G, file, r)
    <3>1. ~Low(G, w)
      BY <1>2, <2>1 DEF LineInv
    <3>2. env[w] = file.n
      BY <1>1, <3>1 DEF Low
    <3> QED
      BY <1>1, <2>1, <3>2 DEF Fresh
  <2>2. CASE Past(G, file, r)
    <3>1. G[r].raw <= env[w]
      BY <1>2, <2>2 DEF Past, PastBut
    <3> QED
      BY <3>1
  <2> QED
    BY <1>2, <2>1, <2>2 DEF LineInv
<1>3. ASSUME NEW t \in Roots \ {w}, Fresh(K, F, t)
      PROVE  G[t].held /\ env[t] = F.n
  <2>1. G[t].held /\ G[t].raw = F.n
    BY <1>3 DEF Fresh
  <2>2. ~Low(G, t)
    BY <1>1, <1>2, <2>1
  <2> QED
    BY <2>1, <2>2 DEF Low
<1>4. F.n \in Nat
  OBVIOUS
<1> SUFFICES ASSUME NEW r \in Roots \ {w}, G[r].held
             PROVE  /\ Low(G, r) => Past(K, F, r) /\ ~Fresh(K, F, r)
                    /\ F.n <= env[r] \/ PastBut(K, F, w, r)
                    /\ \A q \in Roots :
                         PastBut(G, file, q, r) /\ (q = w => G[w].count = G[w].raw)
                           => PastBut(K, F, q, r)
                    /\ ~K[w].held /\ PastBut(K, F, w, r) => Past(K, F, r)
  OBVIOUS
<1>5. K[r] = G[r] /\ G[r].raw \in Nat
  OBVIOUS
<1>6. ASSUME NEW q \in Roots, G[r].raw < F.n, q # w => G[r].raw <= env[w]
      PROVE  PastBut(K, F, q, r)
  BY <1>3, <1>4, <1>5, <1>6 DEF PastBut
<1>7. Low(G, r) => Past(K, F, r) /\ ~Fresh(K, F, r)
  BY <1>2, <1>4, <1>5, <1>6 DEF Past, Fresh
<1>8. F.n <= env[r] \/ PastBut(K, F, w, r)
  <2>1. CASE Low(G, r)
    BY <1>2, <1>6, <2>1
  <2>2. CASE ~Low(G, r)
    BY <1>4, <1>5, <1>6, <2>2 DEF Low
  <2> QED
    BY <2>1, <2>2
<1>9. ASSUME NEW q \in Roots, PastBut(G, file, q, r), q = w => G[w].count = G[w].raw
      PROVE  PastBut(K, F, q, r)
  <2>1. G[r].raw < file.n
    BY <1>9 DEF PastBut
  <2>2. q # w => G[r].raw <= env[w]
    BY <1>9 DEF PastBut
  <2>3. G[r].raw < F.n
    BY <1>1, <1>4, <1>5, <1>9, <2>1, <2>2
  <2> QED
    BY <1>6, <2>2, <2>3
<1>10. ~K[w].held /\ PastBut(K, F, w, r) => Past(K, F, r)
  BY DEF Past, PastBut, Fresh
<1> QED
  BY <1>7, <1>8, <1>9, <1>10

\* What a coordinator that may commit knows of the file and of the calls that
\* were numbered before: those in place and the roots' own end at its count.
LEMMA CommitBase ==
    ASSUME IInv, RequestsOwn, NEW G \in [Roots -> Coordinator],
           \A r \in Roots : /\ G[r].id = gen[r].id /\ G[r].status = gen[r].status
                            /\ gen[r].bound => G[r].count = gen[r].count,
           HoldersInv(G, file), NEW w \in Roots, G[w].bound, Committable(G[w])
    PROVE  /\ G[w].count \in Nat /\ G[w].raw \in Nat
           /\ env[w] \in Nat /\ env[w] <= G[w].count
           /\ file.kind = "count" \/ file = NoFile
           /\ file.kind = "count" => /\ Fresh(G, file, w)
                                     /\ G[w].count \in {G[w].raw, env[w]}
           /\ \A d \in Calls : /\ Current(G, d) /\ Root[d] = w
                               => G[w].count = G[w].raw /\ number[d] <= G[w].count
           /\ file.kind = "count" /\ LineInv(G, file)
                => \A d \in Calls : Current(G, d) => number[d] <= G[w].count
           /\ (file.kind = "count" /\ OwnInv(G, file)) \/ file = NoFile
                => \A d \in FromRoots : number[d] <= G[w].count
           /\ \A d \in FromRoots : pc[d] = "answered" => /\ Current(G, d)
                                                         /\ Root[d] = Parent[d]
<1>1. /\ G[w].count \in Nat /\ G[w].raw \in Nat /\ env[w] \in Nat
      /\ file \in File /\ file.n \in Nat
      /\ \A d \in Calls : /\ number[d] \in Nat /\ Root[d] \in Roots
                          /\ Parent[d] \in Roots => Root[d] = Parent[d]
  BY Values DEF Coordinator, IInv, TypeOK
<1>2. env[w] <= G[w].count
  BY DEF HoldersInv
<1>3. \/ G[w].held /\ file.kind = "count" /\ file.n = G[w].raw
      \/ ~G[w].held /\ file = NoFile
  BY DEF Committable, Holding
<1>4. NoFile.kind = "absent"
  BY DEF NoFile
<1>5. file.kind = "count" => Fresh(G, file, w) /\ G[w].count \in {G[w].raw, env[w]}
  BY <1>3, <1>4 DEF Fresh, HoldersInv
<1>6. \A d \in Calls : Current(G, d) => Current(gen, d)
  BY <1>1 DEF Current
<1>7. ASSUME NEW d \in Calls, Current(G, d), Root[d] = w
      PROVE  G[w].count = G[w].raw /\ number[d] <= G[w].count
  <2>1. G[w].count = G[w].raw
    BY <1>7 DEF HoldersInv
  <2>2. number[d] <= gen[w].count /\ gen[w].bound
    BY <1>6, <1>7 DEF Current, IInv, CountCoversNumbers
  <2>3. number[d] # 0
    BY <1>7 DEF Current
  <2> QED
    BY <2>1, <2>2, <2>3
<1>8. ASSUME file.kind = "count", LineInv(G, file), NEW d \in Calls, Current(G, d)
      PROVE  number[d] <= G[w].count
  <2>1. CASE Root[d] = w
    BY <1>7, <1>8, <2>1
  <2>2. CASE Root[d] # w
    <3>1. G[w].held /\ G[w].raw = file.n
      BY <1>5, <1>8 DEF Fresh
    <3>2. number[d] <= env[w] \/ PastBut(G, file, Root[d], w)
      BY <1>8, <2>2, <3>1 DEF LineInv
    <3>3. ~PastBut(G, file, Root[d], w)
      BY <1>1, <3>1 DEF PastBut
    <3> QED
      BY <1>1, <1>2, <3>2, <3>3
  <2> QED
    BY <2>1, <2>2
<1>9. ASSUME NEW d \in FromRoots, pc[d] = "answered"
      PROVE  Current(G, d) /\ Root[d] = Parent[d]
  BY <1>1, <1>9 DEF Current, FromRoots, Numbered, RequestsOwn
<1>10. ASSUME file.kind = "count", OwnInv(G, file), NEW d \in FromRoots
       PROVE  number[d] <= G[w].count
  <2>1. G[w].held /\ G[w].raw = file.n
    BY <1>5, <1>10 DEF Fresh
  <2>2. \A q \in Roots : ~PastBut(G, file, q, w)
    BY <1>1, <2>1 DEF PastBut
  <2>3. d \in Calls /\ Parent[d] \in Roots
    BY DEF FromRoots, Numbered
  <2>4. number[d] <= env[w] \/ (pc[d] = "answered" /\ Parent[d] = w)
    BY <1>10, <2>1, <2>2, <2>3 DEF OwnInv, Past
  <2>5. CASE number[d] <= env[w]
    BY <1>1, <1>2, <2>3, <2>5
  <2>6. CASE pc[d] = "answered" /\ Parent[d] = w
    BY <1>7, <1>9, <2>3, <2>6
  <2> QED
    BY <2>4, <2>5, <2>6
<1>11. ASSUME file = NoFile, NEW d \in FromRoots PROVE number[d] <= G[w].count
  BY <1>1, <1>4, <1>11 DEF HoldersInv, FromRoots, Numbered
<1> QED
  BY <1>1, <1>2, <1>3, <1>5, <1>7, <1>8, <1>9, <1>10, <1>11

\* A number given out keeps every order: its coordinator is the fresh one now,
\* and what the file leaves behind may never be committed to again.
LEMMA GiveLine ==
    ASSUME IInv, RequestsOwn, NEW c \in Calls, pc[c] = "asking",
           NEW G \in [Roots -> Coordinator],
           \A r \in Roots : /\ G[r].id = gen[r].id /\ G[r].status = gen[r].status
                            /\ gen[r].bound => G[r].count = gen[r].count,
           HoldersInv(G, file), NEW w \in Roots, w = Root[c], G[w].bound,
           Committable(G[w]),
           file' = Holding(G[w].count + 1),
           gen' = [G EXCEPT ![w] = Advanced(G[w])],
           number' = [number EXCEPT ![c] = G[w].count + 1],
           pc' = [pc EXCEPT ![c] = "answered"],
           env' = env, stamp' = stamp
    PROVE  /\ HoldersInv(gen, file)'
           /\ file.kind = "count" => (LineInv(G, file) => LineInv(gen, file)')
           /\ file.kind = "count" => (LineInv(G, file) /\ OwnInv(G, file)
                                       => OwnInv(gen, file)')
           /\ file = NoFile => LineInv(gen, file)' /\ OwnInv(gen, file)'
<1> DEFINE n == G[w].count + 1
           F == Holding(n)
           K == [G EXCEPT ![w] = Advanced(G[w])]
<1>1. /\ \A r \in Roots : /\ gen[r].id \in Nat /\ env[r] \in Nat /\ r \notin Calls
                          /\ G[r].raw \in Nat /\ G[r].count \in Nat
      /\ \A d \in Calls : /\ number[d] \in Nat /\ Root[d] \in Roots
                          /\ Parent[d] \in Roots => Root[d] = Parent[d]
      /\ file.n \in Nat
  BY Values DEF Coordinator
<1>2. /\ number \in [Calls -> Nat] /\ pc \in [Calls -> PcStates]
  BY DEF IInv, TypeOK
<1>3. /\ G[w].count \in Nat /\ G[w].raw \in Nat
      /\ env[w] \in Nat /\ env[w] <= G[w].count
      /\ file.kind = "count" \/ file = NoFile
      /\ file.kind = "count" => /\ Fresh(G, file, w)
                                /\ G[w].count \in {G[w].raw, env[w]}
      /\ \A d \in Calls : /\ Current(G, d) /\ Root[d] = w
                          => G[w].count = G[w].raw /\ number[d] <= G[w].count
      /\ file.kind = "count" /\ LineInv(G, file)
           => \A d \in Calls : Current(G, d) => number[d] <= G[w].count
      /\ (file.kind = "count" /\ OwnInv(G, file)) \/ file = NoFile
           => \A d \in FromRoots : number[d] <= G[w].count
      /\ \A d \in FromRoots : pc[d] = "answered" => /\ Current(G, d)
                                                    /\ Root[d] = Parent[d]
  BY CommitBase
<1>4. n \in Nat /\ env[w] < n /\ F.n = n /\ F.kind = "count"
  BY <1>3 DEF Holding
<1>5. /\ K[w].held /\ K[w].raw = n /\ K[w].count = n /\ K[w].bound
      /\ K[w].status = G[w].status /\ K[w].id = G[w].id
      /\ \A r \in Roots \ {w} : K[r] = G[r]
      /\ file' = F /\ gen' = K
  BY DEF Advanced, Coordinator
<1>6. /\ \A d \in Calls \ {c} : number'[d] = number[d] /\ pc'[d] = pc[d]
      /\ number'[c] = n /\ pc'[c] = "answered" /\ number[c] = 0
  BY <1>2 DEF IInv, RequestsAreCurrent
<1>7. NoFile.kind = "absent"
  BY DEF NoFile
<1>8. G[w].status = "active" /\ stamp[c] = gen[w].id
  BY DEF IInv, RequestsAreCurrent
<1> HIDE DEF n, F, K
<1>9. \A d \in Calls \ {c} : Current(gen, d)' <=> Current(G, d)
  BY <1>1, <1>5, <1>6 DEF Current
<1>10. HoldersInv(gen, file)'
  <2>1. \A r \in Roots :
          /\ K[r].status = "none" => ~K[r].held /\ ~K[r].bound
          /\ K[r].held => env[r] <= K[r].raw
          /\ K[r].bound => env[r] <= K[r].count
          /\ K[r].bound /\ K[r].held => K[r].count \in {K[r].raw, env[r]}
    <3> TAKE r \in Roots
    <3>1. CASE r = w
      BY <1>3, <1>4, <1>5, <1>8, <3>1
    <3>2. CASE r # w
      BY <1>5, <3>2 DEF HoldersInv
    <3> QED
      BY <3>1, <3>2
  <2>2. ASSUME NEW d \in Calls, Current(gen, d)'
        PROVE  K[Root[d]].held /\ K[Root[d]].raw = K[Root[d]].count
    <3>1. CASE Root[d] = w
      BY <1>5, <3>1
    <3>2. CASE Root[d] # w
      <4>1. d # c /\ Root[d] \in Roots \ {w}
        BY <1>1, <3>2
      <4>2. Current(G, d)
        BY <1>9, <2>2, <4>1
      <4> QED
        BY <1>5, <4>1, <4>2 DEF HoldersInv
    <3> QED
      BY <3>1, <3>2
  <2>3. file'.kind # "absent"
    BY <1>4, <1>5
  <2>4. \A r \in Roots :
          /\ gen'[r].status = "none" => ~gen'[r].held /\ ~gen'[r].bound
          /\ gen'[r].held => env'[r] <= gen'[r].raw
          /\ gen'[r].bound => env'[r] <= gen'[r].count
          /\ gen'[r].bound /\ gen'[r].held => gen'[r].count \in {gen'[r].raw, env'[r]}
    BY <1>5, <2>1
  <2>5. \A d \in Calls : Current(gen, d)' => /\ gen'[Root[d]].held
                                             /\ gen'[Root[d]].raw = gen'[Root[d]].count
    BY <1>5, <2>2
  <2> QED
    BY <2>3, <2>4, <2>5 DEF HoldersInv
<1>11. ASSUME file.kind = "count", LineInv(G, file)
       PROVE  /\ LineInv(gen, file)'
              /\ OwnInv(G, file) => OwnInv(gen, file)'
  <2>1. \A r \in Roots \ {w} : G[r].held =>
          /\ Low(G, r) => Past(K, F, r) /\ ~Fresh(K, F, r)
          /\ n <= env[r] \/ PastBut(K, F, w, r)
          /\ \A q \in Roots :
               PastBut(G, file, q, r) /\ (q = w => G[w].count = G[w].raw)
                 => PastBut(K, F, q, r)
    <3>1. \A r \in Roots : /\ G[r].raw \in Nat /\ G[r].count \in Nat /\ env[r] \in Nat
                           /\ G[r].held => env[r] <= G[r].raw
      BY <1>1 DEF HoldersInv
    <3>2. F.n = G[w].count + 1
      BY <1>4 DEF n
    <3>3. Fresh(G, file, w) /\ env[w] <= G[w].count /\ G[w].count \in {G[w].raw, env[w]}
      BY <1>3, <1>11
    <3>4. \A r \in Roots \ {w} : K[r] = G[r]
      BY <1>5
    <3> QED
      BY <1>1, <1>4, <1>11, <3>1, <3>2, <3>3, <3>4, WriteLine
  <2>2. \A r \in Roots : /\ Fresh(gen, file, r)' <=> Fresh(K, F, r)
                         /\ Low(gen, r)' <=> Low(K, r)
    BY <1>5 DEF Fresh, Low
  <2>3. \A q, r \in Roots : /\ PastBut(gen, file, q, r)' <=> PastBut(K, F, q, r)
                            /\ Past(gen, file, r)' <=> Past(K, F, r)
    BY <1>5 DEF PastBut, Past, Fresh
  <2>4. Fresh(K, F, w)
    BY <1>4, <1>5 DEF Fresh
  <2>5. \A r \in Roots \ {w} : (Low(K, r) <=> Low(G, r)) /\ (Low(G, r) => G[r].held)
    BY <1>5 DEF Low
  <2>6. \A r \in Roots : Low(K, r) => Fresh(K, F, r) \/ Past(K, F, r)
    BY <2>1, <2>4, <2>5
  <2>7. \A r, t \in Roots : /\ Low(K, r) /\ Fresh(K, F, r)
                            /\ Low(K, t) /\ Fresh(K, F, t)
                            => r = t
    BY <2>1, <2>5
  <2>8. ASSUME NEW d \in Calls, Current(gen, d)' PROVE number'[d] <= n
    <3>1. CASE d = c
      BY <1>4, <1>6, <3>1
    <3>2. CASE d # c
      <4>1. number[d] <= G[w].count
        BY <1>3, <1>9, <1>11, <2>8, <3>2
      <4> QED
        BY <1>1, <1>3, <1>6, <3>2, <4>1 DEF n
    <3> QED
      BY <3>1, <3>2
  <2>9. ASSUME NEW d \in Calls, Current(gen, d)', NEW r \in Roots \ {Root[d]}, K[r].held
        PROVE  number'[d] <= env[r] \/ PastBut(K, F, Root[d], r)
    <3>1. CASE d = c
      <4>1. r \in Roots \ {w} /\ G[r].held
        BY <1>5, <2>9, <3>1
      <4> QED
        BY <1>6, <2>1, <3>1, <4>1
    <3>2. CASE d # c /\ r = w
      <4>1. Current(G, d) /\ Root[d] # w
        BY <1>9, <2>9, <3>2
      <4>2. G[w].held /\ G[w].raw = file.n
        BY <1>3, <1>11 DEF Fresh
      <4>3. number[d] <= env[w] \/ PastBut(G, file, Root[d], w)
        BY <1>11, <4>1, <4>2 DEF LineInv
      <4>4. ~PastBut(G, file, Root[d], w)
        BY <1>1, <4>2 DEF PastBut
      <4> QED
        BY <1>6, <3>2, <4>3, <4>4
    <3>3. CASE d # c /\ r # w
      <4>1. Current(G, d) /\ G[r].held /\ r \in Roots \ {w} /\ Root[d] \in Roots
        BY <1>1, <1>5, <1>9, <2>9, <3>3
      <4>2. number[d] <= env[r] \/ PastBut(G, file, Root[d], r)
        BY <1>11, <2>9, <4>1 DEF LineInv
      <4>3. Root[d] = w => G[w].count = G[w].raw
        BY <1>3, <4>1
      <4> QED
        BY <1>6, <2>1, <3>3, <4>1, <4>2, <4>3
    <3> QED
      BY <3>1, <3>2, <3>3
  <2>10. LineInv(gen, file)'
    <3>1. \A r \in Roots : Low(gen, r)' => Fresh(gen, file, r)' \/ Past(gen, file, r)'
      BY <2>2, <2>3, <2>6
    <3>2. \A r, t \in Roots : /\ Low(gen, r)' /\ Fresh(gen, file, r)'
                              /\ Low(gen, t)' /\ Fresh(gen, file, t)'
                              => r = t
      BY <2>2, <2>7
    <3>3. \A d \in Calls : Current(gen, d)' => number'[d] <= file'.n
      BY <1>4, <1>5, <2>8
    <3>4. ASSUME NEW d \in Calls, Current(gen, d)', NEW r \in Roots \ {Root[d]}, gen'[r].held
          PROVE  number'[d] <= env'[r] \/ PastBut(gen, file, Root[d], r)'
      BY <1>1, <1>5, <2>3, <2>9, <3>4
    <3> QED
      BY <3>1, <3>2, <3>3, <3>4 DEF LineInv
  <2>11. ASSUME OwnInv(G, file) PROVE OwnInv(gen, file)'
    <3>1. ASSUME NEW d \in FromRoots'
          PROVE  /\ d \in Calls /\ Parent[d] \in Roots /\ Root[d] = Parent[d]
                 /\ d # c => d \in FromRoots
      BY <1>1, <1>6 DEF FromRoots, Numbered
    <3>2. ASSUME NEW d \in FromRoots' PROVE number'[d] <= n
      <4>1. CASE d = c
        BY <1>4, <1>6, <4>1
      <4>2. CASE d # c
        <5>1. number[d] <= G[w].count /\ number[d] \in Nat
          BY <1>1, <1>3, <1>11, <2>11, <3>1, <4>2
        <5> QED
          BY <1>3, <1>6, <3>1, <4>2, <5>1 DEF n
      <4> QED
        BY <4>1, <4>2
    <3>3. ASSUME NEW d \in FromRoots', NEW r \in Roots, K[r].held
          PROVE  \/ number'[d] <= env[r]
                 \/ Past(K, F, r)
                 \/ /\ pc'[d] = "answered"
                    /\ Parent[d] = r \/ PastBut(K, F, Parent[d], r)
      <4>1. CASE d = c /\ r = w
        BY <1>6, <3>1, <4>1
      <4>2. CASE d = c /\ r # w
        <5>1. r \in Roots \ {w} /\ G[r].held
          BY <1>5, <3>3, <4>2
        <5> QED
          BY <1>6, <2>1, <3>1, <4>2, <5>1
      <4>3. CASE d # c /\ r = w
        <5>1. G[w].held /\ G[w].raw = file.n
          BY <1>3, <1>11 DEF Fresh
        <5>2. \A q \in Roots : ~PastBut(G, file, q, w)
          BY <1>1, <5>1 DEF PastBut
        <5>3. number[d] <= env[w] \/ (pc[d] = "answered" /\ Parent[d] = w)
          BY <2>11, <3>1, <4>3, <5>1, <5>2 DEF OwnInv, Past
        <5> QED
          BY <1>6, <3>1, <4>3, <5>3
      <4>4. CASE d # c /\ r # w
        <5>1. d \in FromRoots /\ r \in Roots \ {w} /\ G[r].held /\ Parent[d] \in Roots
          BY <1>5, <3>1, <3>3, <4>4
        <5>2. \/ number[d] <= env[r]
              \/ Past(G, file, r)
              \/ /\ pc[d] = "answered"
                 /\ Parent[d] = r \/ PastBut(G, file, Parent[d], r)
          BY <2>11, <5>1 DEF OwnInv
        <5>3. Past(G, file, r) => Past(K, F, r)
          BY <2>1, <5>1 DEF Past
        <5>4. pc[d] = "answered" /\ Parent[d] = w => G[w].count = G[w].raw
          BY <1>3, <3>1, <5>1
        <5>5. pc[d] = "answered" /\ PastBut(G, file, Parent[d], r)
                => PastBut(K, F, Parent[d], r)
          BY <2>1, <5>1, <5>4
        <5>6. number'[d] = number[d] /\ pc'[d] = pc[d]
          BY <1>6, <3>1, <4>4
        <5> QED
          BY <5>2, <5>3, <5>5, <5>6
      <4> QED
        BY <4>1, <4>2, <4>3, <4>4
    <3> QED
      <4>1. \A d \in FromRoots' : number'[d] <= file'.n
        BY <1>4, <1>5, <3>2
      <4>2. ASSUME NEW d \in FromRoots', NEW r \in Roots, gen'[r].held
            PROVE  \/ number'[d] <= env'[r]
                   \/ Past(gen, file, r)'
                   \/ /\ pc'[d] = "answered"
                      /\ Parent[d] = r \/ PastBut(gen, file, Parent[d], r)'
        BY <1>5, <2>3, <3>1, <3>3, <4>2
      <4> QED
        BY <4>1, <4>2 DEF OwnInv
  <2> QED
    BY <2>10, <2>11
<1>12. ASSUME file = NoFile PROVE LineInv(gen, file)' /\ OwnInv(gen, file)'
  <2>1. /\ \A r \in Roots : ~G[r].held
        /\ \A d \in Calls : number[d] = 0
    BY <1>7, <1>12 DEF HoldersInv
  <2>2. \A r \in Roots : gen'[r].held => r = w
    BY <1>5, <2>1
  <2>3. \A d \in Calls : number'[d] # 0 => d = c
    BY <1>6, <2>1
  <2>4. Fresh(gen, file, w)'
    BY <1>4, <1>5 DEF Fresh
  <2>5. LineInv(gen, file)'
    BY <1>4, <1>5, <1>6, <2>2, <2>3, <2>4 DEF LineInv, Low, Current
  <2>6. OwnInv(gen, file)'
    BY <1>1, <1>4, <1>5, <1>6, <2>2, <2>3 DEF OwnInv, FromRoots, Numbered
  <2> QED
    BY <2>5, <2>6
<1> QED
  BY <1>10, <1>11, <1>12

\* A root that dies with its number committed leaves the file ahead of it: no
\* one was told the number, and the order of the others is kept.
LEMMA LostLine ==
    ASSUME IInv, RequestsOwn, NEW G \in [Roots -> Coordinator],
           \A r \in Roots : /\ G[r].id = gen[r].id /\ G[r].status = gen[r].status
                            /\ gen[r].bound => G[r].count = gen[r].count,
           HoldersInv(G, file), NEW w \in Roots, G[w].bound, Committable(G[w]),
           file' = Holding(G[w].count + 1),
           gen' = [G EXCEPT ![w] = NoCoordinator],
           pc' = [c \in Calls |->
                    IF Root[c] = w /\ pc[c] \in {"asking", "answered"}
                    THEN "refused" ELSE pc[c]],
           number' = number, env' = env, stamp' = stamp
    PROVE  /\ file.kind = "count" => (LineInv(G, file) => LineInv(gen, file)')
           /\ file.kind = "count" => (LineInv(G, file) /\ OwnInv(G, file)
                                       => OwnInv(gen, file)')
           /\ file = NoFile => LineInv(gen, file)' /\ OwnInv(gen, file)'
<1> DEFINE n == G[w].count + 1
           F == Holding(n)
           K == [G EXCEPT ![w] = NoCoordinator]
<1>1. /\ \A r \in Roots : /\ env[r] \in Nat
                          /\ G[r].raw \in Nat /\ G[r].count \in Nat
      /\ \A d \in Calls : /\ number[d] \in Nat /\ Root[d] \in Roots
                          /\ Parent[d] \in Roots => Root[d] = Parent[d]
      /\ file.n \in Nat
  BY Values DEF Coordinator
<1>2. /\ G[w].count \in Nat /\ G[w].raw \in Nat
      /\ env[w] \in Nat /\ env[w] <= G[w].count
      /\ file.kind = "count" \/ file = NoFile
      /\ file.kind = "count" => /\ Fresh(G, file, w)
                                /\ G[w].count \in {G[w].raw, env[w]}
      /\ \A d \in Calls : /\ Current(G, d) /\ Root[d] = w
                          => G[w].count = G[w].raw /\ number[d] <= G[w].count
      /\ file.kind = "count" /\ LineInv(G, file)
           => \A d \in Calls : Current(G, d) => number[d] <= G[w].count
      /\ (file.kind = "count" /\ OwnInv(G, file)) \/ file = NoFile
           => \A d \in FromRoots : number[d] <= G[w].count
      /\ \A d \in FromRoots : pc[d] = "answered" => /\ Current(G, d)
                                                    /\ Root[d] = Parent[d]
  BY CommitBase
<1>3. n \in Nat /\ env[w] < n /\ F.n = n
  BY <1>2 DEF Holding
<1>4. /\ ~K[w].held /\ K[w].status = "none"
      /\ \A r \in Roots \ {w} : K[r] = G[r]
      /\ file' = F /\ gen' = K
  BY DEF NoCoordinator
<1>5. NoFile.kind = "absent"
  BY DEF NoFile
<1> HIDE DEF n, F, K
<1>6. \A d \in Calls : Current(gen, d)' => Current(G, d) /\ Root[d] # w
  BY <1>1, <1>4 DEF Current
<1>7. FromRoots' = FromRoots
  BY DEF FromRoots, Numbered
<1>8. ASSUME file.kind = "count", LineInv(G, file)
      PROVE  /\ LineInv(gen, file)'
             /\ OwnInv(G, file) => OwnInv(gen, file)'
  <2>1. \A r \in Roots \ {w} : G[r].held =>
          /\ Low(G, r) => Past(K, F, r) /\ ~Fresh(K, F, r)
          /\ n <= env[r] \/ PastBut(K, F, w, r)
          /\ \A q \in Roots :
               PastBut(G, file, q, r) /\ (q = w => G[w].count = G[w].raw)
                 => PastBut(K, F, q, r)
          /\ ~K[w].held /\ PastBut(K, F, w, r) => Past(K, F, r)
    <3>1. \A r \in Roots : /\ G[r].raw \in Nat /\ G[r].count \in Nat /\ env[r] \in Nat
                           /\ G[r].held => env[r] <= G[r].raw
      BY <1>1 DEF HoldersInv
    <3>2. F.n = G[w].count + 1
      BY <1>3 DEF n
    <3>3. Fresh(G, file, w) /\ env[w] <= G[w].count /\ G[w].count \in {G[w].raw, env[w]}
      BY <1>2, <1>8
    <3>4. \A r \in Roots \ {w} : K[r] = G[r]
      BY <1>4
    <3> QED
      BY <1>1, <1>3, <1>8, <3>1, <3>2, <3>3, <3>4, WriteLine
  <2>2. \A r \in Roots : /\ Fresh(gen, file, r)' <=> Fresh(K, F, r)
                         /\ Low(gen, r)' <=> Low(K, r)
    BY <1>4 DEF Fresh, Low
  <2>3. \A q, r \in Roots : /\ PastBut(gen, file, q, r)' <=> PastBut(K, F, q, r)
                            /\ Past(gen, file, r)' <=> Past(K, F, r)
    BY <1>4 DEF PastBut, Past, Fresh
  <2>4. \A r \in Roots : K[r].held => r \in Roots \ {w} /\ G[r].held
    BY <1>4
  <2>5. \A r \in Roots : Low(K, r) => Past(K, F, r) /\ ~Fresh(K, F, r)
    BY <1>4, <2>1, <2>4 DEF Low
  <2>6. ASSUME NEW d \in Calls, Current(gen, d)' PROVE number[d] <= n
    BY <1>1, <1>2, <1>6, <1>8, <2>6 DEF n
  <2>7. ASSUME NEW d \in Calls, Current(gen, d)', NEW r \in Roots \ {Root[d]}, K[r].held
        PROVE  number[d] <= env[r] \/ PastBut(K, F, Root[d], r)
    <3>1. /\ Current(G, d) /\ Root[d] # w /\ Root[d] \in Roots
          /\ r \in Roots \ {w} /\ G[r].held
      BY <1>1, <1>6, <2>4, <2>7
    <3>2. number[d] <= env[r] \/ PastBut(G, file, Root[d], r)
      BY <1>8, <2>7, <3>1 DEF LineInv
    <3> QED
      BY <2>1, <3>1, <3>2
  <2>8. LineInv(gen, file)'
    <3>1. \A r \in Roots : Low(gen, r)' => Fresh(gen, file, r)' \/ Past(gen, file, r)'
      BY <2>2, <2>3, <2>5
    <3>2. \A r, t \in Roots : /\ Low(gen, r)' /\ Fresh(gen, file, r)'
                              /\ Low(gen, t)' /\ Fresh(gen, file, t)'
                              => r = t
      BY <2>2, <2>5
    <3>3. \A d \in Calls : Current(gen, d)' => number'[d] <= file'.n
      BY <1>3, <1>4, <2>6
    <3>4. ASSUME NEW d \in Calls, Current(gen, d)', NEW r \in Roots \ {Root[d]}, gen'[r].held
          PROVE  number'[d] <= env'[r] \/ PastBut(gen, file, Root[d], r)'
      BY <1>1, <1>4, <2>3, <2>7, <3>4
    <3> QED
      BY <3>1, <3>2, <3>3, <3>4 DEF LineInv
  <2>9. ASSUME OwnInv(G, file) PROVE OwnInv(gen, file)'
    <3>1. ASSUME NEW d \in FromRoots
          PROVE  d \in Calls /\ Parent[d] \in Roots /\ Root[d] = Parent[d]
      BY <1>1 DEF FromRoots, Numbered
    <3>2. ASSUME NEW d \in FromRoots PROVE number[d] <= n
      BY <1>1, <1>2, <1>8, <2>9, <3>1, <3>2 DEF n
    <3>3. ASSUME NEW d \in FromRoots, NEW r \in Roots, K[r].held
          PROVE  \/ number[d] <= env[r]
                 \/ Past(K, F, r)
                 \/ /\ pc'[d] = "answered"
                    /\ Parent[d] = r \/ PastBut(K, F, Parent[d], r)
      <4>1. r \in Roots \ {w} /\ G[r].held /\ d \in Calls /\ Parent[d] \in Roots
        BY <2>4, <3>1, <3>3
      <4>2. \/ number[d] <= env[r]
            \/ Past(G, file, r)
            \/ /\ pc[d] = "answered"
               /\ Parent[d] = r \/ PastBut(G, file, Parent[d], r)
        BY <2>9, <4>1 DEF OwnInv
      <4>3. Past(G, file, r) => Past(K, F, r)
        BY <2>1, <4>1 DEF Past
      <4>4. CASE pc[d] = "answered" /\ Parent[d] = w
        <5>1. G[w].count = G[w].raw
          BY <1>2, <3>1, <4>4
        <5>2. PastBut(G, file, w, r) => Past(K, F, r)
          BY <1>4, <2>1, <4>1, <5>1
        <5> QED
          BY <4>1, <4>2, <4>3, <4>4, <5>2
      <4>5. CASE pc[d] = "answered" /\ Parent[d] # w
        <5>1. pc'[d] = pc[d]
          BY <3>1, <4>1, <4>5
        <5>2. PastBut(G, file, Parent[d], r) => PastBut(K, F, Parent[d], r)
          BY <2>1, <4>1, <4>5
        <5> QED
          BY <4>2, <4>3, <4>5, <5>1, <5>2
      <4> QED
        BY <4>2, <4>3, <4>4, <4>5
    <3>4. \A d \in FromRoots' : number'[d] <= file'.n
      BY <1>3, <1>4, <1>7, <3>2
    <3>5. ASSUME NEW d \in FromRoots', NEW r \in Roots, gen'[r].held
          PROVE  \/ number'[d] <= env'[r]
                 \/ Past(gen, file, r)'
                 \/ /\ pc'[d] = "answered"
                    /\ Parent[d] = r \/ PastBut(gen, file, Parent[d], r)'
      <4>1. Parent[d] \in Roots
        BY <1>7, <3>1
      <4> QED
        BY <1>4, <1>7, <2>3, <3>3, <3>5, <4>1
    <3> QED
      BY <3>4, <3>5 DEF OwnInv
  <2> QED
    BY <2>8, <2>9
<1>9. ASSUME file = NoFile PROVE LineInv(gen, file)' /\ OwnInv(gen, file)'
  <2>1. /\ \A r \in Roots : ~G[r].held
        /\ \A d \in Calls : number[d] = 0
    BY <1>5, <1>9 DEF HoldersInv
  <2>2. \A r \in Roots : ~gen'[r].held
    BY <1>4, <2>1
  <2>3. LineInv(gen, file)'
    BY <2>1, <2>2 DEF LineInv, Low, Current
  <2>4. OwnInv(gen, file)'
    BY <2>1 DEF OwnInv, FromRoots, Numbered
  <2> QED
    BY <2>3, <2>4
<1> QED
  BY <1>8, <1>9

\* The death of a root takes its memory of the file along, whatever it leaves in
\* the file; and a file that is there stays there.
LEMMA GoneHolders ==
    ASSUME IInv, HoldersInv(gen, file), NEW w \in Roots,
           gen' = [gen EXCEPT ![w] = NoCoordinator],
           file'.kind = "absent" => file.kind = "absent",
           number' = number, env' = env, stamp' = stamp
    PROVE  HoldersInv(gen, file)'
<1>1. \A r \in Roots : gen'[r] = IF r = w THEN NoCoordinator ELSE gen[r]
  BY DEF IInv, TypeOK
<1>2. NoCoordinator.status = "none" /\ ~NoCoordinator.held /\ ~NoCoordinator.bound
  BY DEF NoCoordinator
<1>3. \A r \in Roots :
        /\ gen'[r].status = "none" => ~gen'[r].held /\ ~gen'[r].bound
        /\ gen'[r].held => env'[r] <= gen'[r].raw
        /\ gen'[r].bound => env'[r] <= gen'[r].count
        /\ gen'[r].bound /\ gen'[r].held => gen'[r].count \in {gen'[r].raw, env'[r]}
  BY <1>1, <1>2 DEF HoldersInv
<1>4. ASSUME NEW d \in Calls, Current(gen, d)'
      PROVE  gen'[Root[d]].held /\ gen'[Root[d]].raw = gen'[Root[d]].count
  <2>1. Root[d] \in Roots
    BY RootsAssumption
  <2>2. Root[d] # w /\ Current(gen, d)
    BY <1>1, <1>2, <1>4, <2>1 DEF Current
  <2> QED
    BY <1>1, <2>1, <2>2 DEF HoldersInv
<1>5. file'.kind = "absent" => /\ \A r \in Roots : ~gen'[r].held
                               /\ \A c \in Calls : number'[c] = 0
                               /\ \A x \in Processes : env'[x] = 0
  BY <1>1, <1>2 DEF HoldersInv
<1> QED
  BY <1>3, <1>4, <1>5 DEF HoldersInv

\* The lineage after a step that writes nothing: what it must leave alone.
LEMMA QuietLineage ==
    ASSUME IInv, IInv', Lineage, NEW G,
           \A r \in Roots : G[r].raw \in Nat,
           InLine => LineInv(G, file),
           InLine /\ NoneAbandoned => OwnInv(G, file),
           file' = file, number' = number,
           WithinBudget', RequestsOwn', HoldersInv(gen, file)',
           NoneFailed' => NoneFailed,
           NoneAbandoned' => NoneAbandoned,
           Envelope => \A r \in Roots : gen'[r].held => /\ G[r].held
                                                        /\ gen'[r].raw = G[r].raw
                                                        /\ env[r] <= env'[r],
           \A c \in Calls : Current(gen, c)' => Current(G, c),
           NoneAbandoned' => \A c \in FromRoots :
             pc[c] = "answered" => \/ pc'[c] = "answered"
                                   \/ ~gen'[Parent[c]].held
                                   \/ env'[Parent[c]] = number[c]
    PROVE  Lineage'
<1>1. /\ \A r \in Roots : env[r] \in Nat /\ env'[r] \in Nat
      /\ \A c \in Calls : number[c] \in Nat /\ Root[c] \in Roots
      /\ file.n \in Nat
  BY Values, RootsAssumption DEF IInv, TypeOK, Processes
<1>2. InLine' => InLine
  BY DEF InLine
<1>3. ASSUME InLine' PROVE LineInv(gen, file)'
  <2>1. LineInv(G, file) /\ Envelope
    BY <1>2, <1>3 DEF InLine
  <2>2. \A r \in Roots : /\ G[r].raw \in Nat /\ env[r] \in Nat /\ env'[r] \in Nat
                         /\ gen'[r].held => /\ G[r].held
                                            /\ gen'[r].raw = G[r].raw
                                            /\ env[r] <= env'[r]
    BY <1>1, <2>1
  <2> QED
    BY <1>1, <2>1, <2>2, KeepLine
<1>4. ASSUME InLine', NoneAbandoned' PROVE OwnInv(gen, file)'
  <2>1. LineInv(G, file) /\ OwnInv(G, file) /\ Envelope
    BY <1>2, <1>4 DEF InLine
  <2>2. \A r \in Roots : /\ G[r].raw \in Nat /\ env[r] \in Nat /\ env'[r] \in Nat
                         /\ gen'[r].held => /\ G[r].held
                                            /\ gen'[r].raw = G[r].raw
                                            /\ env[r] <= env'[r]
    BY <1>1, <2>1
  <2>3. \A c \in FromRoots : pc[c] = "answered" => \/ pc'[c] = "answered"
                                                   \/ ~gen'[Parent[c]].held
                                                   \/ env'[Parent[c]] = number[c]
    BY <1>4
  <2> QED
    BY <1>1, <2>1, <2>2, <2>3, KeepOwn
<1>5. RootNumbersUnique'
  BY DEF Lineage, RootNumbersUnique, FromRoots, Numbered
<1> QED
  BY <1>3, <1>4, <1>5 DEF Lineage

\* What is left of the budget tells which faults have happened.
LEMMA SpendFault ==
    ASSUME IInv, WithinBudget, NEW f \in Faults, Spend(f)
    PROVE  /\ WithinBudget'
           /\ f = "io" => ~NoneFailed'
           /\ f # "io" => (NoneFailed' <=> NoneFailed)
           /\ f = "abandon" => ~NoneAbandoned'
           /\ f # "abandon" => (NoneAbandoned' <=> NoneAbandoned)
<1>1. /\ faults \in [Faults -> Nat] /\ FaultBudget \in [Faults -> Nat]
      /\ "io" \in Faults /\ "abandon" \in Faults
  BY BudgetAssumption DEF IInv, TypeOK, Faults
<1>2. \A h \in Faults : faults'[h] = IF h = f THEN faults[h] - 1 ELSE faults[h]
  BY <1>1 DEF Spend
<1>3. \A h \in Faults : faults[h] \in Nat /\ FaultBudget[h] \in Nat
  BY <1>1
<1> QED
  BY <1>1, <1>2, <1>3 DEF WithinBudget, NoneFailed, NoneAbandoned

\* A generation that starts: it keeps the memory of the one before, or has none.
LEMMA StartLineage ==
    ASSUME IInv, IInv', Lineage, NEW r \in Roots, NEW p, StartCoordinator(r, p),
           p = gen[r] \/ p = NoCoordinator,
           Settled(r) \/ gen[r].status = "none",
           file' = file, UNCHANGED <<seed, number, stamp, faults>>,
           \A x \in Processes : x # r => env'[x] = env[x],
           p.held => env'[r] <= env[r],
           p.held /\ Envelope => env'[r] = env[r],
           file.kind = "absent" => env'[r] = 0,
           \A c \in Calls : \/ pc'[c] = pc[c] /\ (Root[c] # r \/ pc[c] # "asking")
                            \/ pc'[c] = "refused" /\ pc[c] = "asking" /\ Root[c] = r
    PROVE  Lineage'
<1>1. /\ \A q \in Roots : /\ gen[q] \in Coordinator /\ gen[q].raw \in Nat
                          /\ gen[q].id \in Nat /\ env[q] \in Nat /\ q \in Processes
                          /\ env'[q] \in Nat
      /\ \A c \in Calls : /\ Root[c] \in Roots /\ number[c] \in Nat /\ stamp[c] \in Nat
                          /\ Parent[c] \in Roots => Root[c] = Parent[c]
                          /\ stamp[c] <= generations
      /\ generations \in Nat /\ gen \in [Roots -> Coordinator]
  BY Values DEF IInv, TypeOK, IdsFresh, Processes
<1>2. /\ \A q \in Roots \ {r} : gen'[q] = gen[q]
      /\ gen'[r].status = "active" /\ gen'[r].id = generations + 1
      /\ ~gen'[r].bound /\ gen'[r].held = p.held /\ gen'[r].raw = p.raw
  BY <1>1 DEF StartCoordinator
<1>3. p.held => gen[r].held /\ p.raw = gen[r].raw
  BY DEF NoCoordinator
<1>4. \A c \in Calls : Current(gen, c)' => Current(gen, c) /\ Root[c] # r
  BY <1>1, <1>2 DEF Current
<1>5. \A c \in Calls : Parent[c] = r => pc[c] \notin {"asking", "answered"}
  BY DEF Settled, Lineage, RequestsOwn
<1>6. RequestsOwn'
  <2> SUFFICES ASSUME NEW c \in Calls
               PROVE  /\ pc'[c] \in {"answered", "admitted"} => number[c] # 0
                      /\ number[c] # 0 => stamp[c] # 0
                      /\ Parent[c] \in Roots /\ pc'[c] \in {"asking", "answered"}
                           => /\ gen'[Parent[c]].status # "none"
                              /\ stamp[c] = gen'[Parent[c]].id
                      /\ pc'[c] = "asking" /\ ~gen'[Root[c]].bound
                           => Parent[c] = Root[c] /\ seed[c] = env'[Root[c]]
                      /\ pc'[c] = "answered" /\ Parent[c] \in Roots
                           => env'[Parent[c]] <= number[c]
    BY DEF RequestsOwn
  <2>1. /\ pc[c] \in {"answered", "admitted"} => number[c] # 0
        /\ number[c] # 0 => stamp[c] # 0
        /\ Parent[c] \in Roots /\ pc[c] \in {"asking", "answered"}
             => gen[Parent[c]].status # "none" /\ stamp[c] = gen[Parent[c]].id
        /\ pc[c] = "asking" /\ ~gen[Root[c]].bound
             => Parent[c] = Root[c] /\ seed[c] = env[Root[c]]
        /\ pc[c] = "answered" /\ Parent[c] \in Roots => env[Parent[c]] <= number[c]
    BY DEF Lineage, RequestsOwn
  <2>2. pc'[c] \in {"asking", "answered"} => Parent[c] # r /\ pc'[c] = pc[c]
    BY <1>5
  <2>3. pc'[c] = "asking" => Root[c] # r
    OBVIOUS
  <2>4. pc'[c] # "refused" => pc'[c] = pc[c]
    OBVIOUS
  <2> QED
    BY <1>1, <1>2, <2>1, <2>2, <2>3, <2>4
<1>7. HoldersInv(gen, file)'
  <2>1. \A q \in Roots :
          /\ gen'[q].status = "none" => ~gen'[q].held /\ ~gen'[q].bound
          /\ gen'[q].held => env'[q] <= gen'[q].raw
          /\ gen'[q].bound => env'[q] <= gen'[q].count
          /\ gen'[q].bound /\ gen'[q].held => gen'[q].count \in {gen'[q].raw, env'[q]}
    <3> TAKE q \in Roots
    <3>1. CASE q = r
      <4>1. p.held => env[r] <= p.raw
        BY <1>3 DEF Lineage, HoldersInv
      <4> QED
        BY <1>1, <1>2, <1>3, <3>1, <4>1
    <3>2. CASE q # r
      BY <1>1, <1>2, <3>2 DEF Lineage, HoldersInv
    <3> QED
      BY <3>1, <3>2
  <2>2. \A c \in Calls : Current(gen, c)' => /\ gen'[Root[c]].held
                                             /\ gen'[Root[c]].raw = gen'[Root[c]].count
    BY <1>1, <1>2, <1>4 DEF Lineage, HoldersInv
  <2>3. file.kind = "absent" => /\ \A q \in Roots : ~gen'[q].held
                                /\ \A c \in Calls : number'[c] = 0
                                /\ \A x \in Processes : env'[x] = 0
    BY <1>2, <1>3 DEF Lineage, HoldersInv
  <2> QED
    BY <2>1, <2>2, <2>3 DEF HoldersInv
<1>8. \A q \in Roots : Envelope /\ gen'[q].held => /\ gen[q].held
                                                   /\ gen'[q].raw = gen[q].raw
                                                   /\ env[q] <= env'[q]
  BY <1>1, <1>2, <1>3
<1>9. \A c \in FromRoots : pc[c] = "answered" => pc'[c] = "answered"
  BY DEF FromRoots, Numbered
<1>10. /\ WithinBudget' /\ (NoneFailed' <=> NoneFailed)
       /\ NoneAbandoned' <=> NoneAbandoned
  BY DEF Lineage, WithinBudget, NoneFailed, NoneAbandoned
<1>11. /\ InLine => LineInv(gen, file)
       /\ InLine /\ NoneAbandoned => OwnInv(gen, file)
  BY DEF Lineage
<1> QED
  BY <1>1, <1>4, <1>6, <1>7, <1>8, <1>9, <1>10, <1>11, QuietLineage

\* The requests a dead root leaves behind are refused.
LEMMA GoneRequests ==
    ASSUME IInv, RequestsOwn, NEW r \in Roots, RootGone(r),
           UNCHANGED <<env, seed, number, stamp>>
    PROVE  RequestsOwn'
<1>1. /\ \A q \in Roots : q # r => gen'[q] = gen[q]
      /\ \A c \in Calls : pc'[c] = IF Root[c] = r /\ pc[c] \in {"asking", "answered"}
                                   THEN "refused" ELSE pc[c]
      /\ \A c \in Calls : /\ Root[c] \in Roots
                          /\ Parent[c] \in Roots => Root[c] = Parent[c]
  BY Values DEF RootGone, IInv, TypeOK
<1> SUFFICES ASSUME NEW c \in Calls
             PROVE  /\ pc'[c] \in {"answered", "admitted"} => number[c] # 0
                    /\ number[c] # 0 => stamp[c] # 0
                    /\ Parent[c] \in Roots /\ pc'[c] \in {"asking", "answered"}
                         => /\ gen'[Parent[c]].status # "none"
                            /\ stamp[c] = gen'[Parent[c]].id
                    /\ pc'[c] = "asking" /\ ~gen'[Root[c]].bound
                         => Parent[c] = Root[c] /\ seed[c] = env[Root[c]]
                    /\ pc'[c] = "answered" /\ Parent[c] \in Roots
                         => env[Parent[c]] <= number[c]
  BY DEF RequestsOwn
<1>2. /\ pc[c] \in {"answered", "admitted"} => number[c] # 0
      /\ number[c] # 0 => stamp[c] # 0
      /\ Parent[c] \in Roots /\ pc[c] \in {"asking", "answered"}
           => gen[Parent[c]].status # "none" /\ stamp[c] = gen[Parent[c]].id
      /\ pc[c] = "asking" /\ ~gen[Root[c]].bound
           => Parent[c] = Root[c] /\ seed[c] = env[Root[c]]
      /\ pc[c] = "answered" /\ Parent[c] \in Roots => env[Parent[c]] <= number[c]
  BY DEF RequestsOwn
<1>3. CASE pc'[c] \in {"asking", "answered"}
  <2>1. pc'[c] = pc[c] /\ Root[c] # r
    BY <1>1, <1>3
  <2> QED
    BY <1>1, <1>2, <2>1
<1>4. CASE pc'[c] \notin {"asking", "answered"}
  <2>1. pc'[c] = "admitted" => pc[c] = "admitted"
    BY <1>1
  <2> QED
    BY <1>2, <1>4, <2>1
<1> QED
  BY <1>3, <1>4

\* A root that exits, or dies before it has written anything.
LEMMA GoneLineage ==
    ASSUME IInv, IInv', Lineage, NEW r \in Roots, RootGone(r),
           file' = file, UNCHANGED <<env, seed, number, stamp>>,
           WithinBudget', NoneFailed' => NoneFailed, NoneAbandoned' => NoneAbandoned
    PROVE  Lineage'
<1>1. /\ \A q \in Roots : /\ gen'[q] = IF q = r THEN NoCoordinator ELSE gen[q]
                          /\ gen[q].raw \in Nat /\ env[q] \in Nat
      /\ \A c \in Calls : /\ pc'[c] = IF Root[c] = r /\ pc[c] \in {"asking", "answered"}
                                      THEN "refused" ELSE pc[c]
                          /\ Root[c] \in Roots
                          /\ Parent[c] \in Roots => Root[c] = Parent[c]
  BY Values DEF RootGone, IInv, TypeOK
<1>2. NoCoordinator.status = "none" /\ ~NoCoordinator.held
  BY DEF NoCoordinator
<1>3. RequestsOwn'
  BY GoneRequests DEF Lineage
<1>4. HoldersInv(gen, file)'
  BY GoneHolders DEF Lineage, RootGone
<1>5. \A q \in Roots : gen'[q].held => /\ gen[q].held
                                       /\ gen'[q].raw = gen[q].raw
                                       /\ env[q] <= env'[q]
  BY <1>1, <1>2
<1>6. \A c \in Calls : Current(gen, c)' => Current(gen, c)
  BY <1>1, <1>2 DEF Current
<1>7. \A c \in FromRoots : pc[c] = "answered" => \/ pc'[c] = "answered"
                                                 \/ ~gen'[Parent[c]].held
  BY <1>1, <1>2 DEF FromRoots, Numbered
<1>8. /\ InLine => LineInv(gen, file)
      /\ InLine /\ NoneAbandoned => OwnInv(gen, file)
  BY DEF Lineage
<1> QED
  BY <1>1, <1>3, <1>4, <1>5, <1>6, <1>7, <1>8, QuietLineage

\* The end of a tree only closes its requests.
LEMMA EndLineage ==
    ASSUME IInv, IInv', Lineage, NEW r \in Roots, EndTree(r)
    PROVE  Lineage'
<1>1. /\ \A q \in Roots : /\ gen'[q].status = IF q = r THEN "terminal" ELSE gen[q].status
                          /\ gen'[q].id = gen[q].id /\ gen'[q].bound = gen[q].bound
                          /\ gen'[q].count = gen[q].count
                          /\ gen'[q].held = gen[q].held /\ gen'[q].raw = gen[q].raw
      /\ \A c \in Calls : pc'[c] = IF Root[c] = r /\ pc[c] = "asking"
                                   THEN "refused" ELSE pc[c]
      /\ gen[r].status = "active"
  BY DEF EndTree, FailPending, IInv, TypeOK, Coordinator
<1>2. /\ \A c \in Calls : Root[c] \in Roots
      /\ \A q \in Roots : gen[q].raw \in Nat /\ env[q] \in Nat
  BY Values
<1>3. UNCHANGED <<file, env, seed, number, stamp, faults>>
  BY DEF EndTree
<1>4. RequestsOwn'
  BY <1>1, <1>2, <1>3 DEF Lineage, RequestsOwn
<1>5. \A c \in Calls : Current(gen, c)' => Current(gen, c)
  BY <1>1, <1>2, <1>3 DEF Current
<1>6. HoldersInv(gen, file)'
  <2>1. \A q \in Roots :
          /\ gen'[q].status = "none" => ~gen'[q].held /\ ~gen'[q].bound
          /\ gen'[q].held => env'[q] <= gen'[q].raw
          /\ gen'[q].bound => env'[q] <= gen'[q].count
          /\ gen'[q].bound /\ gen'[q].held => gen'[q].count \in {gen'[q].raw, env'[q]}
    BY <1>1, <1>3 DEF Lineage, HoldersInv
  <2>2. \A c \in Calls : Current(gen, c)' => /\ gen'[Root[c]].held
                                             /\ gen'[Root[c]].raw = gen'[Root[c]].count
    BY <1>1, <1>2, <1>5 DEF Lineage, HoldersInv
  <2>3. file'.kind = "absent" => /\ \A q \in Roots : ~gen'[q].held
                                 /\ \A c \in Calls : number'[c] = 0
                                 /\ \A x \in Processes : env'[x] = 0
    BY <1>1, <1>3 DEF Lineage, HoldersInv
  <2> QED
    BY <2>1, <2>2, <2>3 DEF HoldersInv
<1>7. \A q \in Roots : gen'[q].held => /\ gen[q].held
                                       /\ gen'[q].raw = gen[q].raw
                                       /\ env[q] <= env'[q]
  BY <1>1, <1>2, <1>3
<1>8. \A c \in FromRoots : pc[c] = "answered" => pc'[c] = "answered"
  BY <1>1 DEF FromRoots, Numbered
<1>9. /\ WithinBudget' /\ (NoneFailed' <=> NoneFailed)
      /\ NoneAbandoned' <=> NoneAbandoned
  BY <1>3 DEF Lineage, WithinBudget, NoneFailed, NoneAbandoned
<1>10. /\ InLine => LineInv(gen, file)
       /\ InLine /\ NoneAbandoned => OwnInv(gen, file)
  BY DEF Lineage
<1> QED
  BY <1>2, <1>3, <1>4, <1>5, <1>6, <1>7, <1>8, <1>9, <1>10, QuietLineage

\* Nothing that the order of the numbers is about has changed.
LEMMA SameLineage ==
    ASSUME IInv, IInv', Lineage, RequestsOwn',
           file' = file, gen' = gen, env' = env, number' = number,
           \A c \in Calls : number[c] # 0 => stamp'[c] = stamp[c],
           WithinBudget', NoneFailed' => NoneFailed, NoneAbandoned' => NoneAbandoned,
           NoneAbandoned' => \A c \in Calls : pc[c] = "answered" => pc'[c] = "answered"
    PROVE  Lineage'
<1>1. \A q \in Roots : gen[q].raw \in Nat /\ env[q] \in Nat
  BY Values
<1>2. \A c \in Calls : Current(gen, c)' => Current(gen, c)
  BY DEF Current
<1>3. HoldersInv(gen, file)'
  BY <1>2 DEF Lineage, HoldersInv
<1>4. \A c \in FromRoots : c \in Calls
  BY DEF FromRoots, Numbered
<1>5. /\ InLine => LineInv(gen, file)
      /\ InLine /\ NoneAbandoned => OwnInv(gen, file)
  BY DEF Lineage
<1> QED
  BY <1>1, <1>2, <1>3, <1>4, <1>5, QuietLineage

\* A request knows what its process knows; of a coordinator that is not bound no
\* call has been numbered, so the process is the root.
LEMMA AskLineage ==
    ASSUME IInv, IInv', Lineage, NEW c \in Calls, Ask(c)
    PROVE  Lineage'
<1>1. /\ \A d \in Calls : /\ pc'[d] = IF d = c THEN "asking" ELSE pc[d]
                          /\ stamp'[d] = IF d = c THEN gen[Root[c]].id ELSE stamp[d]
                          /\ seed'[d] = IF d = c THEN env[Parent[c]] ELSE seed[d]
      /\ gen[Root[c]].status = "active" /\ number[c] = 0
      /\ UNCHANGED <<file, gen, env, number, faults>>
      /\ UnderAuthority(Parent[c], Root[c])
  BY DEF Ask, IInv, TypeOK, RequestsAreCurrent
<1>2. /\ \A d \in Calls : Root[d] \in Roots /\ (Parent[d] \in Roots => Root[d] = Parent[d])
      /\ Parent[c] \in Roots \cup Calls
  BY Values DEF Processes
<1>3. ~gen[Root[c]].bound => Parent[c] = Root[c]
  <2>1. CASE Parent[c] \in Roots
    BY <1>2, <2>1
  <2>2. CASE Parent[c] \notin Roots
    <3>1. /\ Parent[c] \in Calls /\ pc[Parent[c]] = "admitted"
          /\ stamp[Parent[c]] = gen[Root[c]].id
      BY <1>1, <1>2, <2>2 DEF UnderAuthority
    <3>2. number[Parent[c]] # 0
      BY <3>1 DEF Lineage, RequestsOwn
    <3> QED
      BY <1>1, <1>2, <3>1, <3>2 DEF IInv, CountCoversNumbers
  <2> QED
    BY <2>1, <2>2
<1>4. RequestsOwn'
  <2> SUFFICES ASSUME NEW d \in Calls
               PROVE  /\ pc'[d] \in {"answered", "admitted"} => number[d] # 0
                      /\ number[d] # 0 => stamp'[d] # 0
                      /\ Parent[d] \in Roots /\ pc'[d] \in {"asking", "answered"}
                           => /\ gen[Parent[d]].status # "none"
                              /\ stamp'[d] = gen[Parent[d]].id
                      /\ pc'[d] = "asking" /\ ~gen[Root[d]].bound
                           => Parent[d] = Root[d] /\ seed'[d] = env[Root[d]]
                      /\ pc'[d] = "answered" /\ Parent[d] \in Roots
                           => env[Parent[d]] <= number[d]
    BY <1>1 DEF RequestsOwn
  <2>1. CASE d = c
    BY <1>1, <1>2, <1>3, <2>1
  <2>2. CASE d # c
    BY <1>1, <2>2 DEF Lineage, RequestsOwn
  <2> QED
    BY <2>1, <2>2
<1>5. \A d \in Calls : pc[d] = "answered" => pc'[d] = "answered"
  <2>1. pc[c] = "idle"
    BY DEF Ask
  <2> QED
    BY <1>1, <2>1
<1>6. /\ WithinBudget' /\ (NoneFailed' <=> NoneFailed)
      /\ NoneAbandoned' <=> NoneAbandoned
  BY <1>1 DEF Lineage, WithinBudget, NoneFailed, NoneAbandoned
<1>7. \A d \in Calls : number[d] # 0 => stamp'[d] = stamp[d]
  BY <1>1
<1> QED
  BY <1>1, <1>4, <1>5, <1>6, <1>7, SameLineage

\* An answer that is not read ends the promise about the roots' own numbers.
LEMMA AbandonLineage ==
    ASSUME IInv, IInv', Lineage, NEW c \in Calls, Abandon(c)
    PROVE  Lineage'
<1>1. /\ \A d \in Calls : pc'[d] = IF d = c THEN "abandoned" ELSE pc[d]
      /\ UNCHANGED <<file, gen, env, seed, number, stamp>>
      /\ Spend("abandon")
  BY DEF Abandon, IInv, TypeOK
<1>2. /\ WithinBudget' /\ ~NoneAbandoned' /\ (NoneFailed' <=> NoneFailed)
  BY <1>1, SpendFault DEF Lineage, Faults
<1>3. RequestsOwn'
  BY <1>1 DEF Lineage, RequestsOwn
<1> QED
  BY <1>1, <1>2, <1>3, SameLineage

\* An answer that is read: the number becomes its root's own, if the call is.
LEMMA AnswerLineage ==
    ASSUME IInv, IInv', Lineage, NEW c \in Calls, Answered(c)
    PROVE  Lineage'
<1> DEFINE q == Parent[c]
<1>1. /\ \A d \in Calls : pc'[d] = IF d = c THEN "admitted" ELSE pc[d]
      /\ UNCHANGED <<file, gen, seed, number, stamp, faults>>
      /\ pc[c] = "answered"
      /\ \A d \in Calls : pc[d] = "answered" /\ Parent[d] = q /\ stamp[d] = stamp[c]
                            => number[c] <= number[d]
  BY DEF Answered, IInv, TypeOK
<1>2. /\ \A r \in Roots : /\ gen[r].raw \in Nat /\ gen[r].count \in Nat
                          /\ env[r] \in Nat /\ r \notin Calls
      /\ \A d \in Calls : /\ number[d] \in Nat /\ Root[d] \in Roots
                          /\ Parent[d] \in Roots => Root[d] = Parent[d]
  BY Values
<1>3. \A r \in Roots : env'[r] = IF r = q THEN number[c] ELSE env[r]
  BY <1>2 DEF Answered, IInv, TypeOK, Processes
<1>4. number[c] # 0
  BY <1>1 DEF Lineage, RequestsOwn
<1>5. q \in Roots => /\ Current(gen, c) /\ Root[c] = q /\ env[q] <= number[c]
                     /\ gen[q].bound /\ number[c] <= gen[q].count
                     /\ gen[q].held /\ gen[q].raw = gen[q].count
  <2> SUFFICES ASSUME q \in Roots
               PROVE  /\ Current(gen, c) /\ Root[c] = q /\ env[q] <= number[c]
                      /\ gen[q].bound /\ number[c] <= gen[q].count
                      /\ gen[q].held /\ gen[q].raw = gen[q].count
    OBVIOUS
  <2>1. Root[c] = q /\ gen[q].status # "none" /\ stamp[c] = gen[q].id /\ env[q] <= number[c]
    BY <1>1, <1>2 DEF Lineage, RequestsOwn
  <2>2. Current(gen, c)
    BY <1>4, <2>1 DEF Current
  <2>3. gen[q].bound /\ number[c] <= gen[q].count
    BY <1>4, <2>1 DEF IInv, CountCoversNumbers
  <2>4. gen[q].held /\ gen[q].raw = gen[q].count
    BY <2>1, <2>2 DEF Lineage, HoldersInv
  <2> QED
    BY <2>1, <2>2, <2>3, <2>4
<1>6. \A r \in Roots : env[r] <= env'[r]
  BY <1>2, <1>3, <1>5
<1> HIDE DEF q
<1>7. RequestsOwn'
  <2> SUFFICES ASSUME NEW d \in Calls
               PROVE  /\ pc'[d] \in {"answered", "admitted"} => number[d] # 0
                      /\ number[d] # 0 => stamp[d] # 0
                      /\ Parent[d] \in Roots /\ pc'[d] \in {"asking", "answered"}
                           => /\ gen[Parent[d]].status # "none"
                              /\ stamp[d] = gen[Parent[d]].id
                      /\ pc'[d] = "asking" /\ ~gen[Root[d]].bound
                           => Parent[d] = Root[d] /\ seed[d] = env'[Root[d]]
                      /\ pc'[d] = "answered" /\ Parent[d] \in Roots
                           => env'[Parent[d]] <= number[d]
    BY <1>1 DEF RequestsOwn
  <2>1. /\ pc[d] \in {"answered", "admitted"} => number[d] # 0
        /\ number[d] # 0 => stamp[d] # 0
        /\ Parent[d] \in Roots /\ pc[d] \in {"asking", "answered"}
             => gen[Parent[d]].status # "none" /\ stamp[d] = gen[Parent[d]].id
        /\ pc[d] = "asking" /\ ~gen[Root[d]].bound
             => Parent[d] = Root[d] /\ seed[d] = env[Root[d]]
        /\ pc[d] = "answered" /\ Parent[d] \in Roots => env[Parent[d]] <= number[d]
    BY DEF Lineage, RequestsOwn
  <2>2. pc'[d] = "admitted" => pc[d] = "admitted" \/ d = c
    BY <1>1
  <2>3. pc'[d] \in {"asking", "answered"} => pc'[d] = pc[d]
    BY <1>1
  <2>4. ~gen[Root[d]].bound => env'[Root[d]] = env[Root[d]]
    BY <1>2, <1>3, <1>5
  <2>5. pc[d] = "answered" /\ Parent[d] \in Roots => env'[Parent[d]] <= number[d]
    <3>1. CASE Parent[d] = q /\ pc[d] = "answered" /\ q \in Roots
      <4>1. stamp[c] = gen[q].id /\ stamp[d] = gen[q].id
        BY <1>5, <2>1, <3>1 DEF Current
      <4> QED
        BY <1>1, <1>3, <3>1, <4>1 DEF q
    <3>2. CASE Parent[d] # q
      BY <1>3, <2>1, <3>2
    <3> QED
      BY <3>1, <3>2
  <2> QED
    BY <1>4, <2>1, <2>2, <2>3, <2>4, <2>5
<1>8. \A d \in Calls : Current(gen, d)' <=> Current(gen, d)
  BY <1>1 DEF Current
<1>9. HoldersInv(gen, file)'
  <2>1. \A r \in Roots :
          /\ gen[r].status = "none" => ~gen[r].held /\ ~gen[r].bound
          /\ gen[r].held => env'[r] <= gen[r].raw
          /\ gen[r].bound => env'[r] <= gen[r].count
          /\ gen[r].bound /\ gen[r].held => gen[r].count \in {gen[r].raw, env'[r]}
    <3> TAKE r \in Roots
    <3>1. CASE r = q
      <4>1. gen[r].status # "none"
        BY <1>5, <3>1 DEF Current
      <4> QED
        BY <1>3, <1>5, <3>1, <4>1
    <3>2. CASE r # q
      BY <1>3, <3>2 DEF Lineage, HoldersInv
    <3> QED
      BY <3>1, <3>2
  <2>2. \A d \in Calls : Current(gen, d) => /\ gen[Root[d]].held
                                            /\ gen[Root[d]].raw = gen[Root[d]].count
    BY DEF Lineage, HoldersInv
  <2>3. file.kind # "absent"
    BY <1>4 DEF Lineage, HoldersInv
  <2> QED
    BY <1>1, <1>8, <2>1, <2>2, <2>3 DEF HoldersInv
<1>10. \A d \in FromRoots : pc[d] = "answered" => \/ pc'[d] = "answered"
                                                  \/ env'[Parent[d]] = number[d]
  BY <1>1, <1>3 DEF FromRoots, Numbered, q
<1>11. /\ WithinBudget' /\ (NoneFailed' <=> NoneFailed)
       /\ NoneAbandoned' <=> NoneAbandoned
  BY <1>1 DEF Lineage, WithinBudget, NoneFailed, NoneAbandoned
<1>12. /\ InLine => LineInv(gen, file)
       /\ InLine /\ NoneAbandoned => OwnInv(gen, file)
  BY DEF Lineage
<1>13. \A r \in Roots : gen'[r].held => /\ gen[r].held
                                        /\ gen'[r].raw = gen[r].raw
                                        /\ env[r] <= env'[r]
  BY <1>1, <1>6
<1> QED
  BY <1>1, <1>2, <1>7, <1>8, <1>9, <1>10, <1>11, <1>12, <1>13, QuietLineage

\* The coordinator that a request is about, and what binding it does.
LEMMA BoundLine ==
    ASSUME IInv, Lineage, NEW c \in Calls, pc[c] = "asking",
           CanBind(gen[Root[c]], seed[c]), NEW G,
           G = [gen EXCEPT ![Root[c]] = Bound(gen[Root[c]], seed[c])]
    PROVE  /\ G \in [Roots -> Coordinator]
           /\ G[Root[c]] = Bound(gen[Root[c]], seed[c]) /\ G[Root[c]].bound
           /\ \A r \in Roots : /\ G[r].id = gen[r].id /\ G[r].status = gen[r].status
                               /\ gen[r].bound => G[r].count = gen[r].count
                               /\ G[r].raw \in Nat
                               /\ gen[r].bound => G[r].bound
           /\ HoldersInv(G, file)
           /\ InLine => LineInv(G, file)
           /\ InLine /\ NoneAbandoned => OwnInv(G, file)
<1>1. Root[c] \in Roots /\ gen \in [Roots -> Coordinator]
  BY Values DEF IInv, TypeOK
<1>2. /\ HoldersInv(G, file)
      /\ file.kind = "count" /\ LineInv(gen, file) => LineInv(G, file)
      /\ LineInv(gen, file) /\ OwnInv(gen, file) /\ file.kind = "count"
           => OwnInv(G, file)
      /\ G \in [Roots -> Coordinator] /\ G[Root[c]].bound
      /\ \A r \in Roots : /\ G[r].id = gen[r].id /\ G[r].status = gen[r].status
                          /\ gen[r].bound => G[r].count = gen[r].count
  BY AdoptLine DEF Lineage
<1>3. G[Root[c]] = Bound(gen[Root[c]], seed[c])
  BY <1>1
<1>4. \A r \in Roots : G[r].raw \in Nat /\ (gen[r].bound => G[r].bound)
  BY <1>1, <1>2 DEF Coordinator
<1>5. /\ InLine => LineInv(G, file)
      /\ InLine /\ NoneAbandoned => OwnInv(G, file)
  BY <1>2 DEF Lineage, InLine
<1> QED
  BY <1>2, <1>3, <1>4, <1>5

\* A request that is refused may have bound its coordinator.
LEMMA RefuseRequests ==
    ASSUME IInv, RequestsOwn, NEW c \in Calls, pc[c] = "asking",
           NEW G, gen' = G,
           \A r \in Roots : /\ G[r].id = gen[r].id /\ G[r].status = gen[r].status
                            /\ gen[r].bound => G[r].bound,
           pc' = [pc EXCEPT ![c] = "refused"],
           UNCHANGED <<env, seed, number, stamp>>
    PROVE  RequestsOwn'
<1>1. \A d \in Calls : pc'[d] = IF d = c THEN "refused" ELSE pc[d]
  BY DEF IInv, TypeOK
<1>2. \A d \in Calls : Root[d] \in Roots
  BY Values
<1> SUFFICES ASSUME NEW d \in Calls
             PROVE  /\ pc'[d] \in {"answered", "admitted"} => number[d] # 0
                    /\ number[d] # 0 => stamp[d] # 0
                    /\ Parent[d] \in Roots /\ pc'[d] \in {"asking", "answered"}
                         => /\ gen'[Parent[d]].status # "none"
                            /\ stamp[d] = gen'[Parent[d]].id
                    /\ pc'[d] = "asking" /\ ~gen'[Root[d]].bound
                         => Parent[d] = Root[d] /\ seed[d] = env[Root[d]]
                    /\ pc'[d] = "answered" /\ Parent[d] \in Roots
                         => env[Parent[d]] <= number[d]
  BY DEF RequestsOwn
<1>3. CASE d = c
  BY <1>1, <1>3 DEF RequestsOwn
<1>4. CASE d # c
  BY <1>1, <1>2, <1>4 DEF RequestsOwn
<1> QED
  BY <1>3, <1>4

\* A refusal that leaves the file as it was.
LEMMA RefuseLineage ==
    ASSUME IInv, IInv', Lineage, NEW c \in Calls, Allocate(c), file' = file,
           number' = number
    PROVE  Lineage'
<1> DEFINE G == [gen EXCEPT ![Root[c]] = Bound(gen[Root[c]], seed[c])]
           K == IF CanBind(gen[Root[c]], seed[c]) THEN G ELSE gen
<1>1. /\ pc[c] = "asking" /\ UNCHANGED <<env, seed, stamp, faults>>
  BY DEF Allocate
<1>2. Root[c] \in Roots /\ number[c] = 0 /\ number \in [Calls -> Nat]
      /\ gen[Root[c]] \in Coordinator /\ seed[c] \in Nat
  BY <1>1, Values DEF IInv, TypeOK, RequestsAreCurrent
<1>3. gen' = K /\ pc' = [pc EXCEPT ![c] = "refused"]
  <2>1. Bound(gen[Root[c]], seed[c]).count \in Nat
    BY <1>2, BoundType DEF Coordinator
  <2>2. number' # [number EXCEPT ![c] = Bound(gen[Root[c]], seed[c]).count + 1]
    <3> DEFINE m == Bound(gen[Root[c]], seed[c]).count
    <3>1. [number EXCEPT ![c] = m + 1][c] = m + 1
      BY <1>2
    <3>2. m + 1 # 0
      BY <2>1
    <3> HIDE DEF m
    <3>3. number'[c] = 0
      BY <1>2
    <3>4. number' # [number EXCEPT ![c] = m + 1]
      BY <3>1, <3>2, <3>3
    <3> QED
      BY <3>4 DEF m
  <2> QED
    BY <2>2 DEF Allocate
<1>4. /\ \A r \in Roots : /\ K[r].id = gen[r].id /\ K[r].status = gen[r].status
                          /\ gen[r].bound => K[r].bound
                          /\ K[r].raw \in Nat
      /\ HoldersInv(K, file)
      /\ InLine => LineInv(K, file)
      /\ InLine /\ NoneAbandoned => OwnInv(K, file)
  <2>1. CASE CanBind(gen[Root[c]], seed[c])
    <3>1. K = G
      BY <2>1
    <3> HIDE DEF K
    <3> QED
      BY <1>1, <2>1, <3>1, BoundLine
  <2>2. CASE ~CanBind(gen[Root[c]], seed[c])
    <3>1. K = gen
      BY <2>2
    <3>2. \A r \in Roots : gen[r].raw \in Nat
      BY Values
    <3> HIDE DEF K
    <3> QED
      BY <3>1, <3>2 DEF Lineage
  <2> QED
    BY <2>1, <2>2
<1> HIDE DEF G, K
<1>5. RequestsOwn'
  BY <1>1, <1>3, <1>4, RefuseRequests DEF Lineage
<1>6. \A d \in Calls : Current(gen, d)' <=> Current(K, d)
  BY <1>1, <1>3 DEF Current
<1>7. HoldersInv(gen, file)'
  BY <1>1, <1>3, <1>4, <1>6 DEF HoldersInv
<1>8. \A d \in FromRoots : pc[d] = "answered" => pc'[d] = "answered"
  BY <1>1, <1>3 DEF FromRoots, Numbered, IInv, TypeOK
<1>9. /\ WithinBudget' /\ (NoneFailed' <=> NoneFailed)
      /\ NoneAbandoned' <=> NoneAbandoned
  BY <1>1 DEF Lineage, WithinBudget, NoneFailed, NoneAbandoned
<1>10. \A r \in Roots : gen'[r].held => /\ K[r].held
                                        /\ gen'[r].raw = K[r].raw
                                        /\ env[r] <= env'[r]
  <2>1. \A r \in Roots : env[r] \in Nat
    BY Values
  <2> QED
    BY <1>1, <1>3, <2>1
<1> QED
  BY <1>4, <1>5, <1>6, <1>7, <1>8, <1>9, <1>10, QuietLineage

\* A successful allocation.
LEMMA GiveLineage ==
    ASSUME IInv, IInv', Lineage, NEW c \in Calls, pc[c] = "asking", NEW g,
           g = Bound(gen[Root[c]], seed[c]), CanBind(gen[Root[c]], seed[c]),
           Committable(g),
           file' = Holding(g.count + 1),
           gen' = [gen EXCEPT ![Root[c]] = Advanced(g)],
           number' = [number EXCEPT ![c] = g.count + 1],
           pc' = [pc EXCEPT ![c] = "answered"],
           UNCHANGED <<env, seed, stamp, faults>>
    PROVE  Lineage'
<1> DEFINE w == Root[c]
           G == [gen EXCEPT ![w] = g]
<1>1. /\ \A r \in Roots : gen[r] \in Coordinator
      /\ gen \in [Roots -> Coordinator] /\ w \in Roots
      /\ number \in [Calls -> Nat] /\ pc \in [Calls -> PcStates]
      /\ \A d \in Calls : Root[d] \in Roots /\ (Parent[d] \in Roots => Root[d] = Parent[d])
  BY Values DEF IInv, TypeOK
<1>2. /\ G \in [Roots -> Coordinator] /\ G[w] = g /\ g.bound
      /\ \A r \in Roots : /\ G[r].id = gen[r].id /\ G[r].status = gen[r].status
                          /\ gen[r].bound => G[r].count = gen[r].count
                          /\ gen[r].bound => G[r].bound
      /\ HoldersInv(G, file)
      /\ InLine => LineInv(G, file)
      /\ InLine /\ NoneAbandoned => OwnInv(G, file)
  <2>1. G = [gen EXCEPT ![Root[c]] = Bound(gen[Root[c]], seed[c])]
    OBVIOUS
  <2> HIDE DEF G
  <2>2. /\ G \in [Roots -> Coordinator]
        /\ G[Root[c]] = Bound(gen[Root[c]], seed[c]) /\ G[Root[c]].bound
        /\ \A r \in Roots : /\ G[r].id = gen[r].id /\ G[r].status = gen[r].status
                            /\ gen[r].bound => G[r].count = gen[r].count
                            /\ G[r].raw \in Nat
                            /\ gen[r].bound => G[r].bound
        /\ HoldersInv(G, file)
        /\ InLine => LineInv(G, file)
        /\ InLine /\ NoneAbandoned => OwnInv(G, file)
    BY <2>1, BoundLine
  <2> QED
    BY <2>2
<1>3. gen' = [G EXCEPT ![w] = Advanced(g)]
  BY <1>1
<1> HIDE DEF G
<1>4. /\ g.count \in Nat /\ g.raw \in Nat /\ env[w] \in Nat /\ env[w] <= g.count
      /\ file.kind = "count" \/ file = NoFile
      /\ (file.kind = "count" /\ OwnInv(G, file)) \/ file = NoFile
           => \A d \in FromRoots : number[d] <= g.count
  BY <1>1, <1>2, CommitBase DEF Lineage
<1>5. /\ HoldersInv(gen, file)'
      /\ file.kind = "count" => (LineInv(G, file) => LineInv(gen, file)')
      /\ file.kind = "count" => (LineInv(G, file) /\ OwnInv(G, file)
                                  => OwnInv(gen, file)')
      /\ file = NoFile => LineInv(gen, file)' /\ OwnInv(gen, file)'
  <2>1. /\ file' = Holding(G[w].count + 1)
        /\ gen' = [G EXCEPT ![w] = Advanced(G[w])]
        /\ number' = [number EXCEPT ![c] = G[w].count + 1]
        /\ Committable(G[w]) /\ G[w].bound /\ w \in Roots /\ w = Root[c]
        /\ env' = env /\ stamp' = stamp
    BY <1>1, <1>2, <1>3
  <2>2. /\ G \in [Roots -> Coordinator] /\ HoldersInv(G, file) /\ RequestsOwn
        /\ \A r \in Roots : /\ G[r].id = gen[r].id /\ G[r].status = gen[r].status
                            /\ gen[r].bound => G[r].count = gen[r].count
    BY <1>2 DEF Lineage
  <2> HIDE DEF w
  <2> QED
    BY <2>1, <2>2, GiveLine
<1>6. /\ WithinBudget' /\ (NoneFailed' <=> NoneFailed)
      /\ NoneAbandoned' <=> NoneAbandoned
  BY DEF Lineage, WithinBudget, NoneFailed, NoneAbandoned
<1>7. /\ InLine' => LineInv(gen, file)'
      /\ InLine' /\ NoneAbandoned' => OwnInv(gen, file)'
  BY <1>2, <1>4, <1>5, <1>6 DEF InLine
<1>8. /\ \A d \in Calls \ {c} : number'[d] = number[d] /\ pc'[d] = pc[d]
      /\ number'[c] = g.count + 1 /\ pc'[c] = "answered"
      /\ stamp[c] = gen[w].id /\ gen[w].status = "active"
  BY <1>1 DEF IInv, RequestsAreCurrent
<1>9. \A r \in Roots : /\ gen'[r].id = gen[r].id /\ gen'[r].status = gen[r].status
                       /\ gen[r].bound => gen'[r].bound
  <2>1a. g \in Coordinator
    BY <1>1, <1>2
  <2>1. /\ Advanced(g).id = g.id /\ Advanced(g).status = g.status
        /\ Advanced(g).bound = g.bound
    BY <2>1a, AdvancedType
  <2>2. \A r \in Roots : gen'[r] = IF r = w THEN Advanced(g) ELSE G[r]
    BY <1>1, <1>2, <1>3
  <2> TAKE r \in Roots
  <2>3. CASE r = w
    BY <1>2, <2>1, <2>2, <2>3
  <2>4. CASE r # w
    BY <1>2, <2>2, <2>4
  <2> QED
    BY <2>3, <2>4
<1>10. RequestsOwn'
  <2> SUFFICES ASSUME NEW d \in Calls
               PROVE  /\ pc'[d] \in {"answered", "admitted"} => number'[d] # 0
                      /\ number'[d] # 0 => stamp[d] # 0
                      /\ Parent[d] \in Roots /\ pc'[d] \in {"asking", "answered"}
                           => /\ gen'[Parent[d]].status # "none"
                              /\ stamp[d] = gen'[Parent[d]].id
                      /\ pc'[d] = "asking" /\ ~gen'[Root[d]].bound
                           => Parent[d] = Root[d] /\ seed[d] = env[Root[d]]
                      /\ pc'[d] = "answered" /\ Parent[d] \in Roots
                           => env[Parent[d]] <= number'[d]
    BY DEF RequestsOwn
  <2>1. CASE d = c
    <3>1. stamp[c] # 0
      <4>1. gen[w].id > 0 /\ gen[w].id \in Nat
        BY <1>1, <1>8 DEF IInv, IdsFresh, Coordinator
      <4> QED
        BY <1>8, <4>1
    <3>2. number'[c] # 0 /\ env[w] <= number'[c]
      BY <1>4, <1>8
    <3>3. gen'[w].status # "none" /\ stamp[c] = gen'[w].id
      BY <1>1, <1>8, <1>9
    <3> QED
      BY <1>1, <1>8, <2>1, <3>1, <3>2, <3>3
  <2>2. CASE d # c
    BY <1>1, <1>8, <1>9, <2>2 DEF Lineage, RequestsOwn
  <2> QED
    BY <2>1, <2>2
<1>11. RootNumbersUnique'
  <2> SUFFICES ASSUME Envelope, NoneFailed, NoneAbandoned,
                      NEW a \in FromRoots', NEW d \in FromRoots', number'[a] = number'[d]
               PROVE  a = d
    BY <1>6 DEF RootNumbersUnique
  <2>1. \A x \in FromRoots : number[x] <= g.count /\ number[x] \in Nat
    BY <1>1, <1>2, <1>4 DEF InLine, FromRoots, Numbered
  <2>2. \A x \in FromRoots' : /\ x \in Calls
                              /\ x # c => x \in FromRoots
    BY <1>8 DEF FromRoots, Numbered
  <2>3. \A x \in FromRoots' : x # c => number'[x] # g.count + 1
    BY <1>4, <1>8, <2>1, <2>2
  <2>4. a \in FromRoots /\ d \in FromRoots /\ number[a] = number[d] => a = d
    BY DEF Lineage, RootNumbersUnique
  <2> QED
    BY <1>8, <2>2, <2>3, <2>4
<1> QED
  BY <1>5, <1>6, <1>7, <1>10, <1>11 DEF Lineage

\* A write that fails ends the promise while its root lives; one that its root
\* does not survive leaves nothing, a truncated file that no one may commit to
\* any more, or a number that no one was told.
LEMMA InterruptLineage ==
    ASSUME IInv, IInv', Lineage, NEW c \in Calls, InterruptedWrite(c)
    PROVE  Lineage'
<1> DEFINE w == Root[c]
           g == Bound(gen[w], seed[c])
           G == [gen EXCEPT ![w] = g]
<1>1. /\ pc[c] = "asking" /\ CanBind(gen[w], seed[c]) /\ Committable(g)
      /\ file' \in Interrupted(g)
      /\ UNCHANGED <<env, seed, number, stamp>>
      /\ \/ Spend("io") /\ gen' = G /\ pc' = [pc EXCEPT ![c] = "refused"]
         \/ Spend("crash") /\ RootGone(w)
  BY DEF InterruptedWrite
<1>2. /\ w \in Roots /\ gen \in [Roots -> Coordinator]
      /\ gen[w] \in Coordinator /\ seed[c] \in Nat
  BY Values DEF IInv, TypeOK
<1>3. /\ G \in [Roots -> Coordinator] /\ G[w] = g /\ g.bound
      /\ \A r \in Roots : /\ G[r].id = gen[r].id /\ G[r].status = gen[r].status
                          /\ gen[r].bound => G[r].count = gen[r].count
                          /\ gen[r].bound => G[r].bound
      /\ HoldersInv(G, file)
      /\ InLine => LineInv(G, file)
      /\ InLine /\ NoneAbandoned => OwnInv(G, file)
  <2>1. G = [gen EXCEPT ![Root[c]] = Bound(gen[Root[c]], seed[c])]
    OBVIOUS
  <2> HIDE DEF G
  <2>2. /\ G \in [Roots -> Coordinator]
        /\ G[Root[c]] = Bound(gen[Root[c]], seed[c]) /\ G[Root[c]].bound
        /\ \A r \in Roots : /\ G[r].id = gen[r].id /\ G[r].status = gen[r].status
                            /\ gen[r].bound => G[r].count = gen[r].count
                            /\ G[r].raw \in Nat
                            /\ gen[r].bound => G[r].bound
        /\ HoldersInv(G, file)
        /\ InLine => LineInv(G, file)
        /\ InLine /\ NoneAbandoned => OwnInv(G, file)
    BY <1>1, <2>1, BoundLine
  <2> QED
    BY <2>2
<1>4. /\ file' = file \/ file' = Holding(g.count + 1) \/ file' = Torn
      /\ Holding(g.count + 1).kind = "count" /\ Torn.kind = "torn"
  BY <1>1 DEF Interrupted, Holding, Torn
<1>5. file'.kind = "absent" => file.kind = "absent"
  BY <1>4
<1>6. [gen EXCEPT ![w] = NoCoordinator] = [G EXCEPT ![w] = NoCoordinator]
  BY <1>2
<1>7. RootNumbersUnique' <=>
        (Envelope /\ NoneFailed' /\ NoneAbandoned' =>
           \A a, d \in FromRoots : number[a] = number[d] => a = d)
  BY <1>1 DEF RootNumbersUnique, FromRoots, Numbered
<1> HIDE DEF G, g, w
<1>8. CASE Spend("io") /\ gen' = G /\ pc' = [pc EXCEPT ![c] = "refused"]
  <2>1. WithinBudget' /\ ~NoneFailed'
    BY <1>8, SpendFault DEF Lineage, Faults
  <2>2. RequestsOwn'
    <3>1. /\ RequestsOwn /\ UNCHANGED <<env, seed, number, stamp>>
          /\ \A r \in Roots : /\ G[r].id = gen[r].id /\ G[r].status = gen[r].status
                              /\ gen[r].bound => G[r].bound
      BY <1>1, <1>3 DEF Lineage
    <3> QED
      BY <1>1, <1>8, <3>1, RefuseRequests
  <2>3. \A d \in Calls : Current(gen, d)' <=> Current(G, d)
    BY <1>1, <1>8 DEF Current
  <2>4. HoldersInv(gen, file)'
    BY <1>1, <1>3, <1>5, <1>8, <2>3 DEF HoldersInv
  <2> QED
    BY <1>7, <2>1, <2>2, <2>4 DEF Lineage, InLine
<1>9. CASE Spend("crash") /\ RootGone(w)
  <2>1. /\ WithinBudget' /\ (NoneFailed' <=> NoneFailed)
        /\ NoneAbandoned' <=> NoneAbandoned
    BY <1>9, SpendFault DEF Lineage, Faults
  <2>2. CASE file' = file
    BY <1>1, <1>2, <1>9, <2>1, <2>2, GoneLineage
  <2>3. RequestsOwn'
    BY <1>1, <1>2, <1>9, GoneRequests DEF Lineage
  <2>4. HoldersInv(gen, file)'
    BY <1>1, <1>2, <1>5, <1>9, GoneHolders DEF Lineage, RootGone
  <2>5. RootNumbersUnique'
    BY <1>7, <2>1 DEF Lineage, RootNumbersUnique
  <2>6. CASE file' = Torn
    BY <1>4, <2>1, <2>3, <2>4, <2>5, <2>6 DEF Lineage, InLine
  <2>7. CASE file' = Holding(g.count + 1)
    <3>1. /\ G[w].bound /\ Committable(G[w]) /\ file' = Holding(G[w].count + 1)
          /\ gen' = [G EXCEPT ![w] = NoCoordinator]
          /\ pc' = [d \in Calls |->
                      IF Root[d] = w /\ pc[d] \in {"asking", "answered"}
                      THEN "refused" ELSE pc[d]]
          /\ number' = number /\ env' = env /\ stamp' = stamp
      BY <1>1, <1>3, <1>6, <1>9, <2>7 DEF RootGone
    <3>2. /\ G \in [Roots -> Coordinator] /\ HoldersInv(G, file) /\ RequestsOwn
          /\ \A r \in Roots : /\ G[r].id = gen[r].id /\ G[r].status = gen[r].status
                              /\ gen[r].bound => G[r].count = gen[r].count
      BY <1>3 DEF Lineage
    <3>3. /\ file.kind = "count" => (LineInv(G, file) => LineInv(gen, file)')
          /\ file.kind = "count" => (LineInv(G, file) /\ OwnInv(G, file)
                                      => OwnInv(gen, file)')
          /\ file = NoFile => LineInv(gen, file)' /\ OwnInv(gen, file)'
      BY <1>2, <3>1, <3>2, LostLine
    <3>4. file.kind = "count" \/ file = NoFile
      BY <1>2, <3>1, <3>2, CommitBase
    <3>5. /\ InLine' => LineInv(gen, file)'
          /\ InLine' /\ NoneAbandoned' => OwnInv(gen, file)'
      BY <1>3, <2>1, <3>3, <3>4 DEF InLine
    <3> QED
      BY <2>1, <2>3, <2>4, <2>5, <3>5 DEF Lineage
  <2> QED
    BY <1>4, <2>2, <2>6, <2>7
<1> QED
  BY <1>1, <1>8, <1>9

\* At the start nobody holds the file and no call has a number.
LEMMA LineageInit == Init => Lineage
<1> SUFFICES ASSUME Init PROVE Lineage
  OBVIOUS
<1>1. /\ \A r \in Roots : /\ gen[r].status = "none" /\ ~gen[r].held /\ ~gen[r].bound
      /\ \A c \in Calls : number[c] = 0 /\ pc[c] = "idle"
      /\ \A x \in Processes : env[x] = 0
      /\ faults = FaultBudget
  BY DEF Init, NoCoordinator
<1>2. WithinBudget
  BY <1>1, BudgetAssumption DEF WithinBudget
<1>3. RequestsOwn
  BY <1>1 DEF RequestsOwn
<1>4. HoldersInv(gen, file)
  BY <1>1 DEF HoldersInv, Current
<1>5. LineInv(gen, file)
  BY <1>1 DEF LineInv, Low, Current
<1>6. FromRoots = {}
  BY <1>1 DEF FromRoots, Numbered
<1>7. OwnInv(gen, file) /\ RootNumbersUnique
  BY <1>6 DEF OwnInv, RootNumbersUnique
<1> QED
  BY <1>2, <1>3, <1>4, <1>5, <1>7 DEF Lineage

\* Every step keeps the lineage.
LEMMA LineageStep == IInv /\ Lineage /\ [Next]_vars => Lineage'
<1> SUFFICES ASSUME IInv, Lineage, [Next]_vars PROVE Lineage'
  OBVIOUS
<1>1. IInv'
  BY StepInv
<1>2. /\ \A r \in Roots : r \in Processes /\ env[r] \in Nat
      /\ env \in [Processes -> Nat] /\ EnvelopeAssumption
      /\ file \in File
  BY Values, EnvelopeAssumption DEF Processes, IInv, TypeOK
<1>3. ASSUME NEW r \in Roots, StartRoot(r) PROVE Lineage'
  <2>1. /\ gen[r].status = "none" /\ StartCoordinator(r, NoCoordinator)
        /\ UNCHANGED <<file, pc, seed, number, stamp, faults>>
    BY <1>3 DEF StartRoot, callVars
  <2>2. PICK n \in Declared : env' = [env EXCEPT ![r] = n]
    BY <1>3 DEF StartRoot
  <2>3. \A x \in Processes : env'[x] = IF x = r THEN n ELSE env[x]
    BY <1>2, <2>2
  <2>4. file.kind = "absent" => env'[r] = 0
    <3>1. file.kind = "absent" => \A x \in Processes : env[x] = 0
      BY DEF Lineage, HoldersInv
    <3> QED
      BY <1>2, <2>3, <3>1 DEF Declared
  <2>5. ~NoCoordinator.held
    BY DEF NoCoordinator
  <2>6. \A c \in Calls : Root[c] # r \/ pc[c] # "asking"
    BY <2>1 DEF IInv, RequestsAreCurrent
  <2> QED
    BY <1>1, <2>1, <2>3, <2>4, <2>5, <2>6, StartLineage
<1>4. ASSUME NEW r \in Roots, EnsureGeneration(r) PROVE Lineage'
  <2>1. /\ gen[r].status = "terminal" /\ StartCoordinator(r, gen[r]) /\ Settled(r)
        /\ UNCHANGED <<file, env, pc, seed, number, stamp, faults>>
    BY <1>4 DEF EnsureGeneration, callVars
  <2>2. \A c \in Calls : Root[c] # r \/ pc[c] # "asking"
    BY <2>1 DEF IInv, RequestsAreCurrent
  <2>3. file.kind = "absent" => env'[r] = 0
    BY <1>2, <2>1 DEF Lineage, HoldersInv
  <2>4. env'[r] <= env[r] /\ env'[r] = env[r]
    BY <1>2, <2>1
  <2> QED
    BY <1>1, <2>1, <2>2, <2>3, <2>4, StartLineage
<1>5. ASSUME NEW r \in Roots, BeginTurn(r) PROVE Lineage'
  <2>1. /\ StartCoordinator(r, gen[r]) /\ Settled(r)
        /\ UNCHANGED <<file, seed, number, stamp, faults>>
        /\ env' = [env EXCEPT ![r] = TurnCount(r)]
        /\ \A c \in Calls : pc'[c] = IF Root[c] = r /\ pc[c] = "asking"
                                     THEN "refused" ELSE pc[c]
    BY <1>5 DEF BeginTurn, FailPending
  <2>2. /\ \A x \in Processes : x # r => env'[x] = env[x]
        /\ env'[r] = TurnCount(r)
    BY <1>2, <2>1
  <2>3. file.kind = "absent" => env'[r] = 0
    BY <1>2, <2>2 DEF Lineage, HoldersInv, TurnCount
  <2>4. env'[r] <= env[r] /\ (Envelope => env'[r] = env[r])
    BY <1>2, <2>2 DEF TurnCount
  <2> QED
    BY <1>1, <2>1, <2>2, <2>3, <2>4, StartLineage
<1>6. ASSUME NEW r \in Roots, RootExit(r) PROVE Lineage'
  <2>1. /\ RootGone(r) /\ UNCHANGED <<file, env, seed, number, stamp, faults>>
    BY <1>6 DEF RootExit
  <2>2. /\ WithinBudget' /\ (NoneFailed' <=> NoneFailed)
        /\ NoneAbandoned' <=> NoneAbandoned
    BY <2>1 DEF Lineage, WithinBudget, NoneFailed, NoneAbandoned
  <2> QED
    BY <1>1, <2>1, <2>2, GoneLineage
<1>7. ASSUME NEW c \in Calls, Allocate(c) PROVE Lineage'
  <2> DEFINE g == Bound(gen[Root[c]], seed[c])
  <2>1. CASE CanBind(gen[Root[c]], seed[c]) /\ ~Exhausted(g) /\ Committable(g)
    <3>1. /\ pc[c] = "asking" /\ file' = Holding(g.count + 1)
          /\ gen' = [gen EXCEPT ![Root[c]] = Advanced(g)]
          /\ number' = [number EXCEPT ![c] = g.count + 1]
          /\ pc' = [pc EXCEPT ![c] = "answered"]
          /\ UNCHANGED <<env, seed, stamp, faults>>
      BY <1>7, <2>1 DEF Allocate
    <3>2. g = Bound(gen[Root[c]], seed[c])
      OBVIOUS
    <3> HIDE DEF g
    <3> QED
      BY <1>1, <2>1, <3>1, <3>2, GiveLineage
  <2>2. CASE ~(CanBind(gen[Root[c]], seed[c]) /\ ~Exhausted(g) /\ Committable(g))
    <3>1. file' = file /\ number' = number
      BY <1>7, <2>2 DEF Allocate
    <3> QED
      BY <1>1, <1>7, <3>1, RefuseLineage
  <2> QED
    BY <2>1, <2>2
<1>8. CASE UNCHANGED vars
  BY <1>8 DEF vars, callVars, Lineage, WithinBudget, RequestsOwn, HoldersInv, Current,
              LineInv, OwnInv, Low, Fresh, Past, PastBut, InLine, NoneFailed,
              NoneAbandoned, RootNumbersUnique, FromRoots, Numbered
<1> QED
  BY <1>1, <1>3, <1>4, <1>5, <1>6, <1>7, <1>8, EndLineage, AskLineage, AnswerLineage,
     AbandonLineage, InterruptLineage DEF Next

\* So it holds in every behaviour.
LEMMA LineageInvariance == Spec => [](IInv /\ Lineage)
  BY InitInv, StepInv, LineageInit, LineageStep, PTL DEF Spec

\* In an envelope without failed writes the counter file never says less than a
\* number of a generation in place: for every number of roots that share it, and
\* however they are cut off, killed in mid-write and started again.
THEOREM FileCoverTheorem == Spec => []FileCoversNumbers
<1>1. IInv /\ Lineage => FileCoversNumbers
  <2> SUFFICES ASSUME IInv, Lineage, Envelope, NoneFailed, NEW c \in Numbered,
                      gen[Root[c]].id = stamp[c], file.kind = "count"
               PROVE  number[c] <= file.n
    BY DEF FileCoversNumbers
  <2>1. c \in Calls /\ number[c] # 0 /\ Root[c] \in Roots
    BY RootsAssumption DEF Numbered
  <2>2. stamp[c] # 0
    BY <2>1 DEF Lineage, RequestsOwn
  <2>3. gen[Root[c]].status # "none"
    BY <2>1, <2>2 DEF IInv, IdsFresh
  <2>4. Current(gen, c)
    BY <2>1, <2>3 DEF Current
  <2> QED
    BY <2>1, <2>4 DEF Lineage, InLine, LineInv
<1> QED
  BY <1>1, LineageInvariance, PTL

\* And the calls that the roots make themselves all get different numbers, as
\* long as every answer is read.
THEOREM RootNumbersTheorem == Spec => []RootNumbersUnique
<1>1. Lineage => RootNumbersUnique
  BY DEF Lineage
<1> QED
  BY <1>1, LineageInvariance, PTL
==============================================================================
