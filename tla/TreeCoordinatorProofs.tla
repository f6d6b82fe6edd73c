------------------------ MODULE TreeCoordinatorProofs ------------------------
(***************************************************************************)
(* Theorems about TreeCoordinator, for every tree of calls, every limit    *)
(* and every fault budget: its variables are typed, the slots that are     *)
(* active never exceed the limit, and an inductive invariant that relates  *)
(* the clients, their connections, the queue and the slot table, from      *)
(* which the other safety properties of the module follow.                 *)
(***************************************************************************)
EXTENDS TreeCoordinator, FiniteSetTheorems, TLAPS

Conns == [Kinds -> [Calls -> ConnStates]]
Tables == [Calls -> Slot]
Queues == Seq(SlotKinds \X Calls)

USE DEF Conns, Tables, Queues

------------------------------------------------------------------------------
(* Types *)

\* A granted slot is a slot, and it is active.
LEMMA GrantedSlotType ==
    \A k \in SlotKinds : GrantedSlot(k) \in Slot /\ GrantedSlot(k).at = "active"
BY DEF SlotKinds, GrantedSlot, Slot, Owners

\* SetConn stores a connection state.
LEMMA SetConnType ==
    ASSUME NEW k \in Kinds, NEW c \in Calls, NEW s \in ConnStates,
           conn \in Conns, SetConn(k, c, s)
    PROVE  conn' \in Conns
BY DEF SetConn

\* Spending a fault leaves a budget.
LEMMA SpendType ==
    ASSUME NEW f \in Faults, faults \in [Faults -> Nat], Spend(f)
    PROVE  faults' \in [Faults -> Nat]
BY DEF Spend

\* pruneDeadSlots keeps a table a table and activates nothing.
LEMMA PrunedType ==
    ASSUME NEW S \in Tables
    PROVE  /\ Pruned(S) \in Tables
           /\ ActiveIn(Pruned(S)) \subseteq ActiveIn(S)
BY DEF Pruned, NoSlot, Slot, Owners, ActiveIn

\* drainQueue stores tables, queues, owners and connections.
LEMMA DrainType ==
    ASSUME NEW S \in Tables, NEW Q \in Queues, NEW N \in Conns,
           captured \in [Calls -> Owners], DrainQueue(S, Q, N)
    PROVE  /\ slots' \in Tables
           /\ queue' \in Queues
           /\ captured' \in [Calls -> Owners]
           /\ conn' \in Conns
<1> DEFINE P == Pruned(S)
<1>1. P \in Tables
  BY PrunedType
<1>2. PICK n \in 0..Len(Q) :
        /\ queue' = SubSeq(Q, n + 1, Len(Q))
        /\ slots' = [c \in Calls |->
                       IF c \in Granted(P, Q, n, "resume") THEN GrantedSlot("resume")
                       ELSE IF c \in Granted(P, Q, n, "acquire")
                       THEN GrantedSlot("acquire") ELSE P[c]]
        /\ captured' = [c \in Calls |-> IF c \in Granted(P, Q, n, "resume")
                                        THEN P[c].owner ELSE captured[c]]
        /\ conn' = [k \in Kinds |-> [c \in Calls |->
                      IF \A i \in 1..n : Q[i] # <<k, c>> THEN N[k][c]
                      ELSE IF Grantable(P, k, Token(k, c))
                           THEN "granted" ELSE "refused"]]
  BY DEF DrainQueue
<1> HIDE DEF P
<1>3. slots' \in Tables
  BY <1>1, <1>2, GrantedSlotType DEF SlotKinds
<1>4. queue' \in Queues
  BY <1>2
<1>5. captured' \in [Calls -> Owners]
  BY <1>1, <1>2 DEF Slot
<1>6. conn' \in Conns
  BY <1>2 DEF ConnStates
<1> QED
  BY <1>3, <1>4, <1>5, <1>6

\* The partial updates of a slot keep it a slot; a suspension deactivates it.
LEMMA SlotUpdate ==
    \A s \in Slot : /\ [s EXCEPT !.at = "suspended"] \in Slot
                    /\ [s EXCEPT !.at = "suspended"].at = "suspended"
                    /\ [s EXCEPT !.bound = TRUE] \in Slot
                    /\ [s EXCEPT !.bound = TRUE].at = s.at
BY DEF Slot

\* A rolled back table is a table, and activates nothing.
LEMMA RolledBackType ==
    ASSUME slots \in Tables, captured \in [Calls -> Owners],
           NEW k \in Kinds, NEW c \in Calls
    PROVE  /\ RolledBack(k, c) \in Tables
           /\ ActiveIn(RolledBack(k, c)) \subseteq ActiveIn(slots)
<1>1. CASE k = "acquire"
  BY <1>1 DEF RolledBack, NoSlot, Slot, Owners, ActiveIn
<1>2. CASE k # "acquire" /\ Token(k, c) \in Calls
  BY <1>2 DEF RolledBack, Slot, ActiveIn
<1>3. CASE k # "acquire" /\ Token(k, c) \notin Calls
  BY <1>3 DEF RolledBack, ActiveIn
<1> QED
  BY <1>1, <1>2, <1>3

\* A rollback stores what drainQueue and the rolled back table allow.
LEMMA RollbackType ==
    ASSUME TypeOK, NEW k \in Kinds, NEW c \in Calls, NEW s \in ConnStates,
           Rollback(k, c, s)
    PROVE  /\ slots' \in Tables
           /\ queue' \in Queues
           /\ captured' \in [Calls -> Owners]
           /\ conn' \in Conns
<1> DEFINE N == [conn EXCEPT ![k][c] = s]
<1>1. N \in Conns /\ RolledBack(k, c) \in Tables
  BY RolledBackType DEF TypeOK, Kinds
<1>2. CASE authority = "active"
  <2>1. DrainQueue(RolledBack(k, c), queue, N)
    BY <1>2 DEF Rollback
  <2> QED
    BY <1>1, <2>1, DrainType DEF TypeOK
<1>3. CASE authority # "active"
  BY <1>1, <1>3 DEF Rollback, TypeOK
<1> QED
  BY <1>2, <1>3

\* The type invariant: every handler, client and fault keeps the variables in
\* the sets of values the code can store.
THEOREM TypeInvariant == Spec => []TypeOK
<1>1. Init => TypeOK
  BY BudgetAssumption DEF Init, TypeOK, Slot, NoSlot, Owners, ConnStates,
     PcStates, ProcStates
<1>2. TypeOK /\ [Next]_vars => TypeOK'
  <2> SUFFICES ASSUME TypeOK, [Next]_vars PROVE TypeOK'
    OBVIOUS
  <2> USE DEF TypeOK
  <2>1. ASSUME NEW c \in Calls, NEW k \in Kinds, Refuse(k, c)
        PROVE  TypeOK'
    BY <2>1, SetConnType DEF Refuse, ConnStates, serverVars, clientVars
  <2>2. ASSUME NEW c \in Calls, NEW k \in SlotKinds, ServeSlotRequest(k, c)
        PROVE  TypeOK'
    <3> DEFINE P == Pruned(slots)
               t == Token(k, c)
    <3>1. P \in Tables /\ GrantedSlot(k) \in Slot /\ k \in Kinds
      BY PrunedType, GrantedSlotType DEF Kinds
    <3> HIDE DEF P, t
    <3>2. /\ slots' \in {P, [P EXCEPT ![t] = GrantedSlot(k)]}
          /\ captured' \in {captured, [captured EXCEPT ![t] = P[t].owner]}
          /\ queue' \in {queue, Append(queue, <<k, c>>)}
          /\ \E s \in ConnStates : SetConn(k, c, s)
      BY <2>2 DEF ServeSlotRequest, P, t, ConnStates
    <3>3. captured' \in [Calls -> Owners]
      BY <3>1, <3>2 DEF Slot
    <3>4. slots' \in Tables
      BY <3>1, <3>2
    <3>5. queue' \in Queues
      <4>1. <<k, c>> \in SlotKinds \X Calls
        OBVIOUS
      <4>2. Append(queue, <<k, c>>) \in Queues
        BY <4>1
      <4> QED
        BY <3>2, <4>2
    <3>6. conn' \in Conns
      BY <3>1, <3>2, SetConnType
    <3> QED
      BY <2>2, <3>3, <3>4, <3>5, <3>6 DEF ServeSlotRequest, clientVars
  <2>3. ASSUME NEW c \in Calls, ServeRelease(c)
        PROVE  TypeOK'
    <3> DEFINE S == [slots EXCEPT ![c] = NoSlot]
               N == [conn EXCEPT !["release"][c] = "ok"]
    <3>1. S \in Tables /\ N \in Conns
      BY DEF NoSlot, Slot, Owners, ConnStates, Kinds
    <3>2. DrainQueue(S, queue, N)
      BY <2>3 DEF ServeRelease
    <3> QED
      BY <2>3, <3>1, <3>2, DrainType DEF ServeRelease, clientVars
  <2>4. ASSUME NEW c \in Calls, ServeSuspend(c)
        PROVE  TypeOK'
    <3> DEFINE S == [slots EXCEPT ![Parent[c]].at = "suspended"]
               N == [conn EXCEPT !["suspend"][c] = "ok"]
    <3>1. N \in Conns
      BY DEF ConnStates, Kinds
    <3>2. S \in Tables
      <4>1. CASE Parent[c] \in Calls
        BY <4>1, SlotUpdate
      <4>2. CASE Parent[c] \notin Calls
        BY <4>2
      <4> QED
        BY <4>1, <4>2
    <3>3. \/ DrainQueue(S, queue, N)
          \/ SetConn("suspend", c, "refused") /\ UNCHANGED serverVars
      BY <2>4 DEF ServeSuspend
    <3>4. CASE DrainQueue(S, queue, N)
      <4> HIDE DEF S, N
      <4>1. /\ slots' \in Tables
            /\ queue' \in Queues
            /\ captured' \in [Calls -> Owners]
            /\ conn' \in Conns
        BY <3>1, <3>2, <3>4, DrainType
      <4> QED
        BY <2>4, <4>1 DEF ServeSuspend, clientVars
    <3>5. CASE SetConn("suspend", c, "refused") /\ UNCHANGED serverVars
      BY <2>4, <3>5, SetConnType DEF ServeSuspend, clientVars, serverVars,
         ConnStates, Kinds
    <3> QED
      BY <3>3, <3>4, <3>5
  <2>5. ASSUME NEW c \in Calls, ServeRegister(c)
        PROVE  TypeOK'
    <3>1. slots' \in Tables
      BY <2>5, SlotUpdate DEF ServeRegister
    <3>2. conn' \in Conns
      BY <2>5, SetConnType DEF ServeRegister, ConnStates, Kinds
    <3> QED
      BY <2>5, <3>1, <3>2 DEF ServeRegister, clientVars
  <2>6. ASSUME NEW c \in Calls, NEW k \in SlotKinds, ServeAck(k, c)
        PROVE  TypeOK'
    BY <2>6, SetConnType DEF ServeAck, ConnStates, serverVars, clientVars, Kinds
  <2>7. ASSUME NEW c \in Calls, NEW k \in SlotKinds, AckTimeout(k, c)
        PROVE  TypeOK'
    <3>1. Rollback(k, c, "refused") /\ "refused" \in ConnStates /\ k \in Kinds
      BY <2>7 DEF AckTimeout, ConnStates, Kinds
    <3>2. faults' \in [Faults -> Nat]
      BY <2>7, SpendType DEF AckTimeout, Faults
    <3> QED
      BY <2>7, <3>1, <3>2, RollbackType DEF AckTimeout, clientVars
  <2>8. ASSUME NEW c \in Calls, NEW k \in Kinds, Close(k, c)
        PROVE  TypeOK'
    <3>1. CASE AckPending(k, c)
      <4>1. Rollback(k, c, "none")
        BY <2>8, <3>1 DEF Close
      <4> QED
        BY <2>8, <4>1, RollbackType DEF Close, ConnStates, clientVars
    <3>2. CASE ~AckPending(k, c)
      <4>1. queue' \in Queues
        <5>1. CASE queue' = queue
          BY <5>1
        <5>2. ASSUME NEW i \in 1..Len(queue),
                     queue' = SubSeq(queue, 1, i - 1)
                                \o SubSeq(queue, i + 1, Len(queue))
              PROVE  queue' \in Queues
          <6>1. SubSeq(queue, 1, i - 1) \in Queues
            OBVIOUS
          <6>2. SubSeq(queue, i + 1, Len(queue)) \in Queues
            OBVIOUS
          <6> QED
            BY <5>2, <6>1, <6>2
        <5> QED
          BY <2>8, <3>2, <5>1, <5>2 DEF Close, LeaveQueue
      <4>2. conn' \in Conns
        BY <2>8, <3>2, SetConnType DEF Close, ConnStates
      <4> QED
        BY <2>8, <3>2, <4>1, <4>2 DEF Close, clientVars
    <3> QED
      BY <3>1, <3>2
  <2>9. ASSUME NEW c \in Calls, Start(c)
        PROVE  TypeOK'
    <3>1. \E s \in PcStates : pc' = [pc EXCEPT ![c] = s]
      BY <2>9 DEF Start, PcStates
    <3>2. pc' \in [Calls -> PcStates]
      BY <3>1
    <3>3. \E j \in BOOLEAN : joined' = [joined EXCEPT ![c] = j] \/ joined' = joined
      BY <2>9 DEF Start
    <3>4. joined' \in [Calls -> BOOLEAN]
      BY <3>3
    <3>5. \E k \in Kinds : SetConn(k, c, "sent")
      BY <2>9 DEF Start, Kinds, SlotKinds
    <3>6. conn' \in Conns
      BY <3>5, SetConnType DEF ConnStates
    <3> QED
      BY <2>9, <3>2, <3>4, <3>6 DEF Start, serverVars
  <2>10. ASSUME NEW c \in Calls, OnSuspended(c)
         PROVE  TypeOK'
    BY <2>10 DEF OnSuspended, PcStates, ConnStates, Kinds, SlotKinds, serverVars
  <2>11. ASSUME NEW c \in Calls, NEW k \in SlotKinds, OnGrant(k, c)
         PROVE  TypeOK'
    BY <2>11, SetConnType DEF OnGrant, ConnStates, serverVars, clientVars, Kinds
  <2>12. ASSUME NEW c \in Calls, NEW k \in SlotKinds, OnConfirmed(k, c)
         PROVE  TypeOK'
    BY <2>12, SetConnType DEF OnConfirmed, ConnStates, PcStates, serverVars, Kinds
  <2>13. ASSUME NEW c \in Calls, NEW k \in Kinds, OnRefused(k, c)
         PROVE  TypeOK'
    BY <2>13, SetConnType DEF OnRefused, AfterSlot, ConnStates, PcStates, serverVars
  <2>14. ASSUME NEW c \in Calls, Cancel(c)
         PROVE  TypeOK'
    BY <2>14, SpendType DEF Cancel, AfterSlot, PcStates, Faults, serverVars
  <2>26. ASSUME NEW c \in Calls, DeadlinePasses(c)
         PROVE  TypeOK'
    BY <2>26, SpendType DEF DeadlinePasses, AfterSlot, PcStates, Faults, serverVars
  <2>15. ASSUME NEW c \in Calls, PassCheck(c) \/ Spawn(c)
         PROVE  TypeOK'
    BY <2>15 DEF PassCheck, Spawn, PcStates, ProcStates, serverVars
  <2>16. ASSUME NEW c \in Calls, Finish(c)
         PROVE  TypeOK'
    <3>1. pc' \in [Calls -> PcStates]
      BY <2>16 DEF Finish, PcStates
    <3>2. conn' \in Conns
      BY <2>16, SetConnType DEF Finish, ConnStates, Kinds
    <3> QED
      BY <2>16, <3>1, <3>2 DEF Finish, serverVars
  <2>17. ASSUME NEW c \in Calls, OnReleased(c)
         PROVE  TypeOK'
    BY <2>17 DEF OnReleased, AfterSlot, SetConn, PcStates, ConnStates, Kinds,
       serverVars
  <2>18. ASSUME NEW c \in Calls, Resume(c)
         PROVE  TypeOK'
    <3>1. pc' \in [Calls -> PcStates]
      BY <2>18 DEF Resume, PcStates
    <3>2. joined' \in [Calls -> BOOLEAN]
      BY <2>18 DEF Resume
    <3>3. conn' \in Conns
      BY <2>18, SetConnType DEF Resume, ConnStates, Kinds, SlotKinds
    <3> QED
      BY <2>18, <3>1, <3>2, <3>3 DEF Resume, serverVars
  <2>19. ASSUME NEW c \in Calls, GateRegister(c)
         PROVE  TypeOK'
    BY <2>19 DEF GateRegister, SetConn, ConnStates, Kinds, serverVars, clientVars
  <2>20. ASSUME NEW c \in Calls, GateExec(c)
         PROVE  TypeOK'
    BY <2>20 DEF GateExec, SetConn, ConnStates, ProcStates, Kinds, serverVars,
       clientVars
  <2>21. ASSUME NEW c \in Calls, GateExit(c) \/ Exit(c) \/ Killed(c)
         PROVE  TypeOK'
    BY <2>21 DEF GateExit, Exit, Killed, Gone, PcStates, ProcStates, serverVars
  <2>22. ASSUME NEW c \in Calls, Crash(c)
         PROVE  TypeOK'
    BY <2>22, SpendType DEF Crash, Gone, PcStates, ProcStates, Faults, serverVars
  <2>23. CASE Terminate
    <3>1. conn' \in Conns /\ queue' \in Queues /\ signalled' \subseteq Calls
      BY <2>23 DEF Terminate, ConnStates, Controlled
    <3> QED
      BY <2>23, <3>1, SpendType DEF Terminate, Faults, clientVars
  <2>24. CASE RootDies
    <3>1. conn' \in Conns /\ queue' \in Queues /\ slots' \in Tables
      BY <2>24 DEF RootDies, ConnStates, NoSlot, Slot, Owners
    <3> QED
      BY <2>24, <3>1, SpendType DEF RootDies, Faults, PcStates
  <2>25. CASE UNCHANGED vars
    BY <2>25 DEF vars
  <2> QED
    BY <2>1, <2>2, <2>3, <2>4, <2>5, <2>6, <2>7, <2>8, <2>9, <2>10, <2>11,
       <2>12, <2>13, <2>14, <2>15, <2>16, <2>17, <2>18, <2>19, <2>20, <2>21,
       <2>22, <2>23, <2>24, <2>25, <2>26
       DEF Next, ServerStep, ClientStep, ChildStep, FaultStep
<1> QED
  BY <1>1, <1>2, PTL DEF Spec

------------------------------------------------------------------------------
(* The limit on active slots *)

\* No more than MaxConcurrent tokens are active in the table S.
WithinCap(S) == Cardinality(ActiveIn(S)) <= MaxConcurrent

\* What Token may return: the root has no slot, so its token is never active.
Tokens == Calls \cup {Root}

\* Every set of tokens is finite.
LEMMA TokensFinite ==
    ASSUME NEW A \in SUBSET Tokens
    PROVE  IsFiniteSet(A) /\ Cardinality(A) \in Nat
<1>1. IsFiniteSet(Tokens)
  BY CallsAssumption, FS_AddElement DEF Tokens
<1> QED
  BY <1>1, FS_Subset, FS_CardinalityType

\* Active slots are those of tokens.
LEMMA ActiveTokens == \A S : ActiveIn(S) \in SUBSET Tokens
BY DEF ActiveIn, Tokens

\* Deactivating slots stays within the limit.
LEMMA FewerActive ==
    ASSUME NEW S, NEW T, ActiveIn(T) \subseteq ActiveIn(S), WithinCap(S)
    PROVE  WithinCap(T)
<1>1. ActiveIn(S) \in SUBSET Tokens /\ ActiveIn(T) \in SUBSET Tokens
  BY ActiveTokens
<1>2. Cardinality(ActiveIn(T)) <= Cardinality(ActiveIn(S))
  BY <1>1, TokensFinite, FS_Subset
<1> QED
  BY <1>1, <1>2, TokensFinite, MaximumAssumption DEF WithinCap

\* A token activated while there is room stays within the limit.
LEMMA OneMoreActive ==
    ASSUME NEW A \in SUBSET Tokens, HasRoom(A), NEW t,
           NEW T, ActiveIn(T) \subseteq A \cup {t}
    PROVE  WithinCap(T)
<1>1. ActiveIn(T) \in SUBSET Tokens
  BY ActiveTokens
<1>2. IsFiniteSet(A \cup {t}) /\ Cardinality(A \cup {t}) <= Cardinality(A) + 1
  BY TokensFinite, FS_AddElement
<1>3. Cardinality(ActiveIn(T)) <= Cardinality(A \cup {t})
  BY <1>2, FS_Subset
<1>4. Cardinality(A \cup {t}) \in Nat
  BY <1>2, FS_CardinalityType
<1> QED
  BY <1>1, <1>2, <1>3, <1>4, TokensFinite, MaximumAssumption DEF HasRoom, WithinCap

\* The queue entries name tokens.
LEMMA ServedTokens ==
    ASSUME NEW P, NEW Q \in Queues, NEW n \in 0..Len(Q)
    PROVE  ActiveAfter(P, Q, n) \in SUBSET Tokens
<1>1. \A i \in 1..n : TokenAt(Q, i) \in Tokens
  <2> SUFFICES ASSUME NEW i \in 1..n PROVE TokenAt(Q, i) \in Tokens
    OBVIOUS
  <2>1. Q[i] \in SlotKinds \X Calls
    OBVIOUS
  <2> QED
    BY <2>1, CallsAssumption DEF TokenAt, Token, Tokens
<1> QED
  BY <1>1, ActiveTokens DEF ActiveAfter, Granted

\* Serving one more queue entry activates at most its token.
LEMMA OneMoreServed ==
    ASSUME NEW P, NEW Q, NEW n \in Nat \ {0}
    PROVE  ActiveAfter(P, Q, n)
             \subseteq ActiveAfter(P, Q, n - 1) \cup {TokenAt(Q, n)}
<1>1. \A i \in 1..n : i \in 1..(n - 1) \/ i = n
  OBVIOUS
<1>2. \A k : Granted(P, Q, n, k)
               \subseteq Granted(P, Q, n - 1, k) \cup {TokenAt(Q, n)}
  BY <1>1 DEF Granted
<1> QED
  BY <1>2 DEF ActiveAfter

\* drainQueue stops granting at the limit: each grant found room for itself.
LEMMA DrainWithinCap ==
    ASSUME NEW S \in Tables, NEW Q \in Queues, NEW N,
           WithinCap(S), DrainQueue(S, Q, N)
    PROVE  WithinCap(slots')
<1> DEFINE P == Pruned(S)
<1>1. P \in Tables /\ WithinCap(P)
  BY PrunedType, FewerActive
<1>2. PICK n \in 0..Len(Q) :
        /\ \A m \in 0..(n - 1) : HasRoom(ActiveAfter(P, Q, m))
        /\ slots' = [c \in Calls |->
                       IF c \in Granted(P, Q, n, "resume") THEN GrantedSlot("resume")
                       ELSE IF c \in Granted(P, Q, n, "acquire")
                       THEN GrantedSlot("acquire") ELSE P[c]]
  BY DEF DrainQueue
<1> HIDE DEF P
<1>3. ActiveIn(slots') \subseteq ActiveAfter(P, Q, n)
  BY <1>2 DEF ActiveIn, ActiveAfter
<1>4. CASE n = 0
  <2>1. ActiveAfter(P, Q, n) = ActiveIn(P)
    BY <1>4 DEF ActiveAfter, Granted
  <2> QED
    BY <1>1, <1>3, <2>1, FewerActive
<1>5. CASE n # 0
  <2> DEFINE A == ActiveAfter(P, Q, n - 1)
  <2>1. n \in Nat \ {0} /\ n - 1 \in 0..(n - 1) /\ n - 1 \in 0..Len(Q)
    BY <1>5
  <2>2. HasRoom(A) /\ A \in SUBSET Tokens
    BY <1>2, <2>1, ServedTokens
  <2>3. ActiveIn(slots') \subseteq A \cup {TokenAt(Q, n)}
    BY <1>3, <2>1, OneMoreServed
  <2> QED
    BY <2>2, <2>3, OneMoreActive
<1> QED
  BY <1>4, <1>5

\* The limit on active slots: whatever requests, drains, rollbacks and faults
\* happen, no more than RLM_MAX_CONCURRENT_CALLS slots are active.
THEOREM CapTheorem == Spec => []SlotCapRespected
<1>1. Init => SlotCapRespected
  <2>1. Init => ActiveSlots = {}
    BY DEF Init, ActiveSlots, ActiveIn, NoSlot
  <2> QED
    BY <2>1, FS_EmptySet, MaximumAssumption DEF SlotCapRespected
<1>2. TypeOK /\ TypeOK' /\ SlotCapRespected /\ [Next]_vars => SlotCapRespected'
  <2> SUFFICES ASSUME TypeOK, WithinCap(slots), [Next]_vars
               PROVE  WithinCap(slots')
    BY DEF SlotCapRespected, WithinCap, ActiveSlots
  <2>1. ASSUME NEW c \in Calls, NEW k \in SlotKinds, ServeSlotRequest(k, c)
        PROVE  WithinCap(slots')
    <3> DEFINE P == Pruned(slots)
               t == Token(k, c)
    <3>1. P \in Tables /\ WithinCap(P)
      BY PrunedType, FewerActive DEF TypeOK
    <3>2. CASE slots' = P
      BY <3>1, <3>2
    <3>3. CASE slots' = [P EXCEPT ![t] = GrantedSlot(k)] /\ HasRoom(ActiveIn(P))
      <4> HIDE DEF P, t
      <4>1. ActiveIn(slots') \subseteq ActiveIn(P) \cup {t}
        BY <3>1, <3>3 DEF ActiveIn
      <4> QED
        BY <3>3, <4>1, ActiveTokens, OneMoreActive
    <3> QED
      BY <2>1, <3>2, <3>3 DEF ServeSlotRequest
  <2>2. ASSUME NEW c \in Calls, ServeRelease(c)
        PROVE  WithinCap(slots')
    <3> DEFINE S == [slots EXCEPT ![c] = NoSlot]
    <3>1. S \in Tables /\ ActiveIn(S) \subseteq ActiveIn(slots)
      BY DEF TypeOK, NoSlot, Slot, Owners, ActiveIn
    <3>2. DrainQueue(S, queue, [conn EXCEPT !["release"][c] = "ok"])
      BY <2>2 DEF ServeRelease
    <3> HIDE DEF S
    <3>3. WithinCap(S) /\ queue \in Queues
      BY <3>1, FewerActive DEF TypeOK
    <3> QED
      BY <3>1, <3>2, <3>3, DrainWithinCap
  <2>3. ASSUME NEW c \in Calls, ServeSuspend(c)
        PROVE  WithinCap(slots')
    <3> DEFINE S == [slots EXCEPT ![Parent[c]].at = "suspended"]
    <3>1. S \in Tables /\ ActiveIn(S) \subseteq ActiveIn(slots)
      <4>1. CASE Parent[c] \in Calls
        BY <4>1, SlotUpdate DEF TypeOK, ActiveIn
      <4>2. CASE Parent[c] \notin Calls
        BY <4>2 DEF TypeOK, ActiveIn
      <4> QED
        BY <4>1, <4>2
    <3>2. \/ DrainQueue(S, queue, [conn EXCEPT !["suspend"][c] = "ok"])
          \/ slots' = slots
      BY <2>3 DEF ServeSuspend, serverVars
    <3> HIDE DEF S
    <3>3. WithinCap(S) /\ queue \in Queues
      BY <3>1, FewerActive DEF TypeOK
    <3> QED
      BY <3>1, <3>2, <3>3, DrainWithinCap
  <2>4. ASSUME NEW c \in Calls, ServeRegister(c)
        PROVE  WithinCap(slots')
    <3>1. ActiveIn(slots') \subseteq ActiveIn(slots)
      BY <2>4, SlotUpdate DEF ServeRegister, TypeOK, ActiveIn
    <3> QED
      BY <3>1, FewerActive
  <2>5. ASSUME NEW c \in Calls, NEW k \in Kinds, NEW s \in ConnStates,
               Rollback(k, c, s)
        PROVE  WithinCap(slots')
    <3>1. RolledBack(k, c) \in Tables /\ WithinCap(RolledBack(k, c))
      BY RolledBackType, FewerActive DEF TypeOK
    <3>2. \/ DrainQueue(RolledBack(k, c), queue, [conn EXCEPT ![k][c] = s])
          \/ slots' = RolledBack(k, c)
      BY <2>5 DEF Rollback
    <3> QED
      BY <3>1, <3>2, DrainWithinCap DEF TypeOK
  <2>6. ASSUME NEW c \in Calls, NEW k \in Kinds, Close(k, c)
        PROVE  WithinCap(slots')
    <3>1. Rollback(k, c, "none") \/ slots' = slots
      BY <2>6 DEF Close
    <3> QED
      BY <3>1, <2>5 DEF ConnStates
  <2>7. ASSUME NEW c \in Calls, NEW k \in SlotKinds, AckTimeout(k, c)
        PROVE  WithinCap(slots')
    <3>1. Rollback(k, c, "refused")
      BY <2>7 DEF AckTimeout
    <3> QED
      BY <3>1, <2>5 DEF ConnStates, Kinds
  <2>8. CASE RootDies
    <3>1. ActiveIn(slots') \subseteq ActiveIn(slots)
      BY <2>8 DEF RootDies, NoSlot, ActiveIn
    <3> QED
      BY <3>1, FewerActive
  <2>9. CASE slots' = slots
    BY <2>9
  <2>10. CASE Terminate \/ UNCHANGED vars
    BY <2>9, <2>10 DEF Terminate, vars
  <2>11. ASSUME NEW c \in Calls, ClientStep(c) \/ ChildStep(c) \/ Start(c)
                                   \/ Cancel(c) \/ DeadlinePasses(c) \/ Crash(c)
         PROVE  slots' = slots
    BY <2>11 DEF Start, ClientStep, ChildStep, Cancel, DeadlinePasses, Crash, serverVars,
       OnSuspended, PassCheck, Spawn, Finish, OnReleased, Resume, OnGrant,
       OnConfirmed, OnRefused, GateRegister, GateExec, GateExit, Exit, Killed
  <2>12. ASSUME NEW c \in Calls, NEW k \in Kinds, Refuse(k, c) \/ ServeAck(k, c)
         PROVE  slots' = slots
    BY <2>12 DEF Refuse, ServeAck, serverVars
  <2> QED
    BY <2>1, <2>2, <2>3, <2>4, <2>6, <2>7, <2>8, <2>9, <2>10, <2>11, <2>12
       DEF Next, ServerStep, FaultStep, Kinds
<1> QED
  BY <1>1, <1>2, TypeInvariant, PTL DEF Spec

------------------------------------------------------------------------------
(* The inductive invariant *)

\* The stages of a call: before its child exists, while it counts in its
\* caller's nestedDelegations, and while it moves its caller's slot.
BeforeSpawn == {"idle", "suspending", "acquiring", "held", "cleared"}
Participating == {"acquiring", "held", "cleared", "spawned", "releasing", "leaving"}
InTransition == {"suspending", "resuming"}

\* A call participates in its caller's delegations from its suspension to its
\* resumption, unless the caller is the root.
JoinInv ==
    /\ \A c \in Calls : pc[c] \in InTransition \cup {"idle", "returned"} => ~joined[c]
    /\ \A c \in Calls : pc[c] \in Participating => (joined[c] <=> Parent[c] # Root)
    /\ \A c \in Calls : pc[c] \in InTransition \cup {"leaving"} \/ joined[c]
                          => Parent[c] # Root

\* A call has a child from its spawn on, and loses track of it only by dying.
ChildInv ==
    /\ \A c \in Calls : pc[c] \in BeforeSpawn => proc[c] = "none"
    /\ \A c \in Calls : pc[c] = "spawned" => proc[c] # "none"
    /\ \A c \in Calls : proc[c] \in {"gate", "live"} => pc[c] \in {"spawned", "lost"}

\* Only a generation that ran has made calls, and they are lost if it is gone.
CallerInv ==
    /\ \A c \in Calls : Parent[c] \in Calls /\ proc[Parent[c]] \in {"none", "gate"}
                          => pc[c] = "idle"
    /\ \A c \in Calls : pc[c] \notin {"idle", "returned"}
                          => (pc[c] = "lost" <=> ~Alive(Parent[c]))

\* A process runs one transition at a time, while no call of it participates.
TransitionInv ==
    \A c, d \in Calls : Parent[c] = Parent[d] /\ pc[c] \in InTransition
                          => (pc[d] \in InTransition => c = d) /\ ~joined[d]

\* What the faults so far say about the state.
FaultInv ==
    /\ \A f \in Faults : faults[f] <= FaultBudget[f]
    /\ authority = "active" => signalled = {}
    /\ authority = "active" /\ NoneYet("crash") => \A c \in Calls : pc[c] # "lost"

\* What holds of the clients, whatever the coordinator does.
ClientInv == JoinInv /\ ChildInv /\ CallerInv /\ TransitionInv /\ FaultInv

\* No call has stopped waiting for the coordinator of its own accord.
Patient == NoneYet("cancel") /\ NoneYet("deadline")

USE DEF Patient

\* Which connections N of a call may be open at each stage of it.
ConnInv(N) ==
    /\ \A c \in Calls, k \in Kinds : pc[c] = "idle" => N[k][c] = "none"
    /\ \A c \in Calls : proc[c] = "none" => N["register"][c] = "none"
    /\ \A c \in Calls : N["acquire"][c] # "none" =>
         proc[c] = "none" /\ pc[c] \in {"acquiring", "leaving", "resuming",
                                        "returned", "lost"}
    /\ \A c \in Calls : N["release"][c] # "none" =>
         proc[c] \in {"none", "dead"} /\ pc[c] \in {"releasing", "lost"}
    /\ \A c \in Calls : N["resume"][c] # "none" =>
         /\ Parent[c] # Root
         /\ pc[c] \in {"resuming", "lost"} \/ (pc[c] = "returned" /\ ~Patient)
    /\ \A c \in Calls : N["suspend"][c] # "none" =>
         Parent[c] # Root /\ (pc[c] \in {"suspending", "lost"} \/ ~Patient)

\* The queue Q holds waiting requests for slots, each once; only those wait.
QueueInv(Q, N) ==
    /\ \A i \in 1..Len(Q) : N[Q[i][1]][Q[i][2]] = "queued"
    /\ \A i, j \in 1..Len(Q) : Q[i] = Q[j] => i = j
    /\ \A k \in Kinds \ SlotKinds, c \in Calls :
         N[k][c] \in {"none", "sent", "ok", "refused"}

\* The child has passed the coordinator's check at the gate.
Registered(N, c) ==
    proc[c] = "live" \/ (proc[c] = "gate" /\ N["register"][c] = "ok")

\* The call has been granted its slot and its child has not ended.
Backed(N, c) ==
    /\ proc[c] # "dead"
    /\ \/ pc[c] \in {"held", "cleared", "spawned"}
       \/ pc[c] = "acquiring" /\ N["acquire"][c] \in {"granted", "acked", "confirmed"}

\* The caller has yielded its slot to the call, or has not got it back yet.
Yielded(N, c) == joined[c] \/ (pc[c] = "suspending" /\ N["suspend"][c] = "ok")
Reclaiming(N, c) == N["resume"][c] \in {"sent", "queued"}
Away(N, c) == Yielded(N, c) \/ (pc[c] = "resuming" /\ Reclaiming(N, c))

\* What the slot table S is worth to the processes, with the connections N.
SlotInv(S, N) ==
    /\ \A c \in Calls : proc[c] \in {"none", "gate"} /\ S[c].at # "none"
                          => S[c].at = "active" /\ S[c].owner = "caller"
    /\ \A c \in Calls : Registered(N, c) => S[c].at # "none" /\ S[c].bound
    /\ \A c \in Calls : Backed(N, c) => S[c].at # "none"
    /\ \A c \in Calls : Parent[c] \in Calls /\ proc[Parent[c]] = "live" /\ Yielded(N, c)
                          => S[Parent[c]].at = "suspended"

\* One request at a time, perhaps of a call that has given up, may reclaim the
\* slot of a running caller: the slot is suspended, and no call participates.
ReclaimInv(S, N) ==
    /\ \A c \in Calls :
         Parent[c] \in Calls /\ proc[Parent[c]] = "live" /\ Reclaiming(N, c) =>
           /\ S[Parent[c]].at = "suspended"
           /\ \A d \in Calls : Parent[d] = Parent[c] =>
                ~Yielded(N, d) /\ (Reclaiming(N, d) => d = c)
    /\ \A c, d \in Calls :
         Parent[c] = Parent[d] /\ c # d /\ N["resume"][c] = "queued" =>
           N["resume"][d] \notin {"queued", "granted", "acked"}

\* A request of a dead caller waits for a slot only while that caller's own
\* parent has still to release it.
Ending(N, p) ==
    pc[p] = "spawned" \/ (pc[p] = "releasing" /\ N["release"][p] = "sent")
EndInv(S, N) ==
    \A c \in Calls : /\ Parent[c] \in Calls /\ proc[Parent[c]] = "dead"
                      /\ N["resume"][c] = "queued"
                      /\ S[Parent[c]].at # "none"
                      => Ending(N, Parent[c])

\* A registered child is active unless it is away for a call of its own.
WorkInv(S, N) ==
    \A c \in Calls : Registered(N, c) =>
      S[c].at = "active" \/ \E d \in Calls : Parent[d] = c /\ Away(N, d)

\* A slot of the dead, or room beside a waiter, is on its way to be found.
ConserveInv ==
    /\ \A c \in Calls : slots[c].at # "none" /\ ~SlotAlive(slots, c) => DrainComing
    /\ queue # <<>> => ~HasRoom(ActiveSlots) \/ DrainComing

\* What is registered when the tree is cut off has been signalled.
CutInv ==
    authority = "terminal" =>
      \A c \in Calls : Registered(conn, c) => c \in signalled

\* What the slot table is for, as long as the generation is active.
ActiveInv ==
    authority = "active" =>
      /\ SlotInv(slots, conn)
      /\ ReclaimInv(slots, conn)
      /\ Patient /\ NoneYet("stall") => WorkInv(slots, conn)
      /\ NoneYet("crash") => ConserveInv /\ EndInv(slots, conn)

\* The inductive invariant.
IInv == /\ TypeOK
        /\ ClientInv
        /\ ConnInv(conn)
        /\ QueueInv(queue, conn)
        /\ ActiveInv
        /\ CutInv

------------------------------------------------------------------------------
(* What a drain may do *)

\* A slot is pruned or kept, or granted to a request that waits.
SlotMove(S, N, c) ==
    \/ slots'[c] = Pruned(S)[c]
    \/ /\ slots'[c] = GrantedSlot("acquire")
       /\ N["acquire"][c] = "queued"
       /\ conn'["acquire"][c] = "granted"
    \/ /\ slots'[c] = GrantedSlot("resume")
       /\ Pruned(S)[c].at = "suspended"
       /\ \E d \in Calls : /\ Parent[d] = c /\ N["resume"][d] = "queued"
                           /\ conn'["resume"][d] = "granted"

\* A waiting request waits on, is granted an active slot, or is refused, if it
\* is a resumption because nothing is suspended.
ConnMove(S, N, k, c) ==
    \/ conn'[k][c] = N[k][c]
    \/ /\ k \in SlotKinds
       /\ N[k][c] = "queued"
       /\ \/ conn'[k][c] = "granted" /\ slots'[Token(k, c)].at = "active"
          \/ conn'[k][c] = "refused" /\ (k = "resume" =>
                                           Pruned(S)[Parent[c]].at # "suspended")

\* The common effect of every handler that grants: drainQueue and the immediate
\* grant of acquire-slot and resume-slot.
Drained(S, N) ==
    /\ \A c \in Calls : SlotMove(S, N, c)
    /\ \A k \in Kinds, c \in Calls : ConnMove(S, N, k, c)

\* A resumption is asked for by a call of a child generation.
ResumesNested(N) ==
    \A c \in Calls : N["resume"][c] # "none" => Parent[c] \in Calls

\* An open resumption belongs to a call of a child generation.
LEMMA NestedResumes ==
    ASSUME NEW N, ConnInv(N)
    PROVE  ResumesNested(N)
BY CallsAssumption DEF ConnInv, ResumesNested

\* drainQueue moves slots and connections as above, and leaves a queue only
\* beside a full table.
LEMMA DrainMoves ==
    ASSUME NEW S \in Tables, NEW Q \in Queues, NEW N \in Conns,
           QueueInv(Q, N), ResumesNested(N), DrainQueue(S, Q, N)
    PROVE  /\ Drained(S, N)
           /\ QueueInv(queue', conn')
           /\ queue' # <<>> => ~HasRoom(ActiveIn(slots'))
<1> DEFINE P == Pruned(S)
<1>1. P \in Tables
  BY PrunedType
<1>2. PICK n \in 0..Len(Q) :
        /\ n < Len(Q) => ~HasRoom(ActiveAfter(P, Q, n))
        /\ queue' = SubSeq(Q, n + 1, Len(Q))
        /\ slots' = [c \in Calls |->
                       IF c \in Granted(P, Q, n, "resume") THEN GrantedSlot("resume")
                       ELSE IF c \in Granted(P, Q, n, "acquire")
                       THEN GrantedSlot("acquire") ELSE P[c]]
        /\ conn' = [k \in Kinds |-> [c \in Calls |->
                      IF \A i \in 1..n : Q[i] # <<k, c>> THEN N[k][c]
                      ELSE IF Grantable(P, k, Token(k, c))
                           THEN "granted" ELSE "refused"]]
  BY DEF DrainQueue
<1> HIDE DEF P
<1>3. \A i \in 1..Len(Q) : /\ Q[i] = <<Q[i][1], Q[i][2]>>
                           /\ Q[i][1] \in SlotKinds /\ Q[i][2] \in Calls
                           /\ N[Q[i][1]][Q[i][2]] = "queued"
  BY DEF QueueInv
<1>4. ASSUME NEW k \in SlotKinds, NEW t \in Granted(P, Q, n, k)
      PROVE  \E i \in 1..n, d \in Calls :
               /\ Q[i] = <<k, d>> /\ Token(k, d) = t /\ N[k][d] = "queued"
               /\ Grantable(P, k, Token(k, d))
               /\ conn'[k][d] = "granted"
  <2>1. PICK i \in 1..n : /\ Q[i][1] = k /\ TokenAt(Q, i) = t
                          /\ Grantable(P, k, TokenAt(Q, i))
    BY DEF Granted
  <2>2. i \in 1..Len(Q)
    OBVIOUS
  <2>3. Q[i] = <<k, Q[i][2]>> /\ Q[i][2] \in Calls /\ N[k][Q[i][2]] = "queued"
    BY <1>3, <2>1, <2>2
  <2>4. Token(k, Q[i][2]) = t /\ Grantable(P, k, Token(k, Q[i][2]))
    BY <2>1 DEF TokenAt
  <2>5. k \in Kinds
    BY DEF Kinds
  <2>6. conn'[k][Q[i][2]] = "granted"
    BY <1>2, <2>3, <2>4, <2>5
  <2> QED
    BY <2>1, <2>3, <2>4, <2>6
<1>5. ASSUME NEW c \in Calls, c \in Granted(P, Q, n, "acquire")
      PROVE  N["acquire"][c] = "queued" /\ conn'["acquire"][c] = "granted"
  BY <1>4, <1>5 DEF SlotKinds, Token
<1>6. ASSUME NEW t, t \in Granted(P, Q, n, "resume")
      PROVE  /\ t \in Calls
             /\ P[t].at = "suspended"
             /\ \E d \in Calls : /\ Parent[d] = t /\ N["resume"][d] = "queued"
                                 /\ conn'["resume"][d] = "granted"
  BY <1>4, <1>6 DEF SlotKinds, Token, ResumesNested, Grantable
<1>7. ActiveIn(slots') = ActiveAfter(P, Q, n)
  <2>1. Granted(P, Q, n, "acquire") \subseteq Calls
    BY <1>4 DEF SlotKinds, Token
  <2>2. Granted(P, Q, n, "resume") \subseteq Calls
    BY <1>6
  <2>3. GrantedSlot("acquire").at = "active" /\ GrantedSlot("resume").at = "active"
    BY GrantedSlotType DEF SlotKinds
  <2> HIDE DEF ActiveAfter
  <2> QED
    BY <1>2, <2>1, <2>2, <2>3 DEF ActiveIn, ActiveAfter
<1>8. ASSUME NEW c \in Calls
      PROVE  SlotMove(S, N, c)
  <2>1. CASE c \in Granted(P, Q, n, "resume")
    <3>1. slots'[c] = GrantedSlot("resume")
      BY <1>2, <2>1
    <3>2. /\ Pruned(S)[c].at = "suspended"
          /\ \E d \in Calls : /\ Parent[d] = c /\ N["resume"][d] = "queued"
                              /\ conn'["resume"][d] = "granted"
      BY <1>6, <2>1 DEF P
    <3> QED
      BY <3>1, <3>2 DEF SlotMove
  <2>2. CASE c \notin Granted(P, Q, n, "resume") /\ c \in Granted(P, Q, n, "acquire")
    <3>1. slots'[c] = GrantedSlot("acquire")
      BY <1>2, <2>2
    <3> QED
      BY <1>5, <2>2, <3>1 DEF SlotMove
  <2>3. CASE c \notin Granted(P, Q, n, "resume") /\ c \notin Granted(P, Q, n, "acquire")
    <3>1. slots'[c] = P[c]
      BY <1>2, <2>3
    <3> QED
      BY <3>1 DEF SlotMove, P
  <2> QED
    BY <2>1, <2>2, <2>3
<1>9. ASSUME NEW k \in Kinds, NEW c \in Calls
      PROVE  ConnMove(S, N, k, c)
  <2>1. CASE \A i \in 1..n : Q[i] # <<k, c>>
    BY <1>2, <2>1 DEF ConnMove
  <2>2. ASSUME NEW i \in 1..n, Q[i] = <<k, c>>
        PROVE  ConnMove(S, N, k, c)
    <3>1. i \in 1..Len(Q)
      OBVIOUS
    <3>2. Q[i][1] = k /\ Q[i][2] = c
      BY <2>2
    <3>3. k \in SlotKinds /\ N[k][c] = "queued"
      BY <1>3, <3>1, <3>2
    <3>4. CASE Grantable(P, k, Token(k, c))
      <4>1. conn'[k][c] = "granted"
        BY <1>2, <2>2, <3>4
      <4>2. TokenAt(Q, i) = Token(k, c)
        BY <3>2 DEF TokenAt
      <4>3. Token(k, c) \in Granted(P, Q, n, k)
        BY <3>2, <3>4, <4>2 DEF Granted
      <4>4. Token(k, c) \in ActiveAfter(P, Q, n)
        BY <3>3, <4>3 DEF ActiveAfter, SlotKinds
      <4> QED
        BY <3>3, <4>1, <4>4, <1>7 DEF ConnMove, ActiveIn
    <3>5. CASE ~Grantable(P, k, Token(k, c))
      <4>1. conn'[k][c] = "refused"
        BY <1>2, <2>2, <3>5
      <4>2. k = "resume" => P[Parent[c]].at # "suspended"
        BY <3>5 DEF Grantable, Token
      <4> QED
        BY <3>3, <4>1, <4>2 DEF ConnMove, P
    <3> QED
      BY <3>4, <3>5
  <2> QED
    BY <2>1, <2>2
<1>10. QueueInv(queue', conn')
  <2> DEFINE R == SubSeq(Q, n + 1, Len(Q))
  <2>1. Len(R) = Len(Q) - n /\ \A i \in 1..Len(R) : R[i] = Q[n + i] /\ n + i \in 1..Len(Q)
    OBVIOUS
  <2> HIDE DEF R
  <2>2. \A i \in 1..Len(R) : conn'[R[i][1]][R[i][2]] = "queued"
    <3> SUFFICES ASSUME NEW i \in 1..Len(R)
                 PROVE  conn'[R[i][1]][R[i][2]] = "queued"
      OBVIOUS
    <3>1. R[i] = Q[n + i] /\ n + i \in 1..Len(Q)
      BY <2>1
    <3>2. \A j \in 1..n : j \in 1..Len(Q) /\ j # n + i
      BY <2>1
    <3>3. \A j \in 1..n : Q[j] # Q[n + i]
      BY <3>1, <3>2 DEF QueueInv
    <3>4. /\ Q[n + i] = <<Q[n + i][1], Q[n + i][2]>>
          /\ Q[n + i][1] \in Kinds /\ Q[n + i][2] \in Calls
          /\ N[Q[n + i][1]][Q[n + i][2]] = "queued"
      BY <1>3, <3>1 DEF Kinds
    <3> QED
      BY <1>2, <3>1, <3>3, <3>4
  <2>3. \A i, j \in 1..Len(R) : R[i] = R[j] => i = j
    <3> SUFFICES ASSUME NEW i \in 1..Len(R), NEW j \in 1..Len(R), R[i] = R[j]
                 PROVE  i = j
      OBVIOUS
    <3>1. n + i = n + j
      BY <2>1 DEF QueueInv
    <3> QED
      BY <3>1
  <2>4. \A k \in Kinds \ SlotKinds, c \in Calls :
          conn'[k][c] \in {"none", "sent", "ok", "refused"}
    BY <1>9 DEF ConnMove, QueueInv
  <2> QED
    BY <1>2, <2>2, <2>3, <2>4 DEF QueueInv, R
<1>11. queue' # <<>> => n < Len(Q)
  BY <1>2
<1> QED
  BY <1>2, <1>7, <1>8, <1>9, <1>10, <1>11 DEF Drained


\* acquire-slot and resume-slot are a drain of a queue that holds only them.
LEMMA ServeMoves ==
    ASSUME TypeOK, NEW k \in SlotKinds, NEW c \in Calls,
           ConnInv(conn), QueueInv(queue, conn), ServeSlotRequest(k, c)
    PROVE  /\ Drained(slots, [conn EXCEPT ![k][c] = "queued"])
           /\ QueueInv(queue', conn')
<1> DEFINE P == Pruned(slots)
           t == Token(k, c)
           N == [conn EXCEPT ![k][c] = "queued"]
<1>1. conn \in Conns /\ queue \in Queues /\ P \in Tables /\ k \in Kinds
  BY PrunedType DEF TypeOK, Kinds
<1>2. conn[k][c] = "sent"
  BY DEF ServeSlotRequest, Received
<1>3. t \in Calls
  BY <1>1, <1>2, NestedResumes, CallsAssumption DEF Token, ResumesNested, SlotKinds
<1>4. PICK s \in {"queued", "granted", "refused"} : SetConn(k, c, s)
  BY DEF ServeSlotRequest
<1>5. conn' = [conn EXCEPT ![k][c] = s]
  BY <1>4 DEF SetConn
<1>6. \A l \in Kinds, d \in Calls : <<l, d>> # <<k, c>> =>
        conn'[l][d] = N[l][d] /\ conn'[l][d] = conn[l][d]
  BY <1>1, <1>5
<1>7. N[k][c] = "queued" /\ conn'[k][c] = s
  BY <1>1, <1>5
<1>8. QueueInv(queue', conn')
  <2>1. \A i \in 1..Len(queue) : queue[i] # <<k, c>>
    BY <1>2 DEF QueueInv
  <2>2. \A i \in 1..Len(queue) : conn'[queue[i][1]][queue[i][2]] = "queued"
    <3> SUFFICES ASSUME NEW i \in 1..Len(queue)
                 PROVE  conn'[queue[i][1]][queue[i][2]] = "queued"
      OBVIOUS
    <3>1. queue[i] \in SlotKinds \X Calls
      BY <1>1
    <3>2. queue[i] = <<queue[i][1], queue[i][2]>> /\ queue[i][1] \in Kinds
            /\ queue[i][2] \in Calls
      BY <3>1 DEF Kinds
    <3> QED
      BY <1>6, <2>1, <3>2 DEF QueueInv
  <2>3. \A l \in Kinds \ SlotKinds, d \in Calls :
          conn'[l][d] \in {"none", "sent", "ok", "refused"}
    BY <1>6 DEF QueueInv
  <2>4. CASE queue' = queue
    BY <2>2, <2>3, <2>4 DEF QueueInv
  <2>5. CASE queue' = Append(queue, <<k, c>>) /\ s = "queued"
    <3>1. /\ Len(queue') = Len(queue) + 1
          /\ \A i \in 1..Len(queue) : queue'[i] = queue[i]
          /\ queue'[Len(queue) + 1] = <<k, c>>
      BY <1>1, <2>5
    <3>2. \A i \in 1..Len(queue') : i \in 1..Len(queue) \/ i = Len(queue) + 1
      BY <3>1, <1>1
    <3>3. \A i \in 1..Len(queue') : conn'[queue'[i][1]][queue'[i][2]] = "queued"
      BY <1>7, <2>2, <2>5, <3>1, <3>2
    <3>4. \A i, j \in 1..Len(queue') : queue'[i] = queue'[j] => i = j
      <4> SUFFICES ASSUME NEW i \in 1..Len(queue'), NEW j \in 1..Len(queue'),
                          queue'[i] = queue'[j]
                   PROVE  i = j
        OBVIOUS
      <4>1. CASE i \in 1..Len(queue) /\ j \in 1..Len(queue)
        BY <3>1, <4>1 DEF QueueInv
      <4>2. CASE i = Len(queue) + 1 /\ j \in 1..Len(queue)
        BY <2>1, <3>1, <4>2
      <4>3. CASE i \in 1..Len(queue) /\ j = Len(queue) + 1
        BY <2>1, <3>1, <4>3
      <4>4. CASE i = Len(queue) + 1 /\ j = Len(queue) + 1
        BY <4>4
      <4> QED
        BY <3>2, <4>1, <4>2, <4>3, <4>4
    <3> QED
      BY <2>3, <3>3, <3>4 DEF QueueInv
  <2>6. \/ queue' = Append(queue, <<k, c>>) /\ SetConn(k, c, "queued")
        \/ queue' = queue
    BY DEF ServeSlotRequest
  <2>7. SetConn(k, c, "queued") => s = "queued"
    BY <1>1, <1>4 DEF SetConn
  <2> QED
    BY <2>4, <2>5, <2>6, <2>7
<1>9. \/ slots' = P /\ s \in {"queued", "refused"}
         /\ (s = "refused" => ~Grantable(P, k, t))
      \/ /\ slots' = [P EXCEPT ![t] = GrantedSlot(k)] /\ s = "granted"
         /\ Grantable(P, k, t)
  <2>1. \A r \in {"queued", "granted", "refused"} : SetConn(k, c, r) => s = r
    BY <1>1, <1>5 DEF SetConn
  <2> QED
    BY <2>1 DEF ServeSlotRequest
<1>10. \A d \in Calls : SlotMove(slots, N, d)
  <2> SUFFICES ASSUME NEW d \in Calls PROVE SlotMove(slots, N, d)
    OBVIOUS
  <2>1. CASE slots' = P
    BY <2>1 DEF SlotMove
  <2>2. CASE /\ slots' = [P EXCEPT ![t] = GrantedSlot(k)] /\ s = "granted"
             /\ Grantable(P, k, t) /\ d = t
    <3>1. slots'[d] = GrantedSlot(k)
      BY <1>1, <1>3, <2>2
    <3>2. CASE k = "acquire"
      <4>1. d = c
        BY <2>2, <3>2 DEF Token
      <4> QED
        BY <1>7, <2>2, <3>1, <3>2, <4>1 DEF SlotMove
    <3>3. CASE k = "resume"
      <4>1. d = Parent[c]
        BY <2>2, <3>3 DEF Token
      <4>2. P[d].at = "suspended"
        BY <2>2, <3>3 DEF Grantable
      <4>3. conn'["resume"][c] = "granted" /\ N["resume"][c] = "queued"
        BY <1>7, <2>2, <3>3
      <4> HIDE DEF N
      <4> QED
        BY <3>1, <3>3, <4>1, <4>2, <4>3 DEF SlotMove
    <3> QED
      BY <3>2, <3>3 DEF SlotKinds
  <2>3. CASE slots' = [P EXCEPT ![t] = GrantedSlot(k)] /\ d # t
    <3>1. slots'[d] = P[d]
      BY <1>1, <2>3
    <3> QED
      BY <3>1 DEF SlotMove
  <2> QED
    BY <1>9, <2>1, <2>2, <2>3
<1>11. \A l \in Kinds, d \in Calls : ConnMove(slots, N, l, d)
  <2> SUFFICES ASSUME NEW l \in Kinds, NEW d \in Calls PROVE ConnMove(slots, N, l, d)
    OBVIOUS
  <2>1. CASE <<l, d>> # <<k, c>>
    BY <1>6, <2>1 DEF ConnMove
  <2>2. CASE l = k /\ d = c /\ s = "queued"
    BY <1>7, <2>2 DEF ConnMove
  <2>3. CASE l = k /\ d = c /\ s = "granted"
    <3>1. slots' = [P EXCEPT ![t] = GrantedSlot(k)]
      BY <1>9, <2>3
    <3>2. slots'[t].at = "active"
      BY <1>1, <1>3, <3>1, GrantedSlotType
    <3> HIDE DEF N
    <3> QED
      BY <1>7, <2>3, <3>2 DEF ConnMove
  <2>4. CASE l = k /\ d = c /\ s = "refused"
    <3>1. ~Grantable(P, k, t)
      BY <1>9, <2>4
    <3>2. k = "resume" => P[Parent[c]].at # "suspended"
      BY <3>1 DEF Grantable, Token
    <3> HIDE DEF N
    <3> QED
      BY <1>7, <2>4, <3>2 DEF ConnMove
  <2> QED
    BY <2>1, <2>2, <2>3, <2>4
<1> QED
  BY <1>8, <1>10, <1>11 DEF Drained

------------------------------------------------------------------------------
(* What a drain preserves *)

\* A slot whose owner or registered child lives survives the pruning.
LEMMA PrunedKeeps ==
    ASSUME NEW S, NEW c \in Calls
    PROVE  /\ SlotAlive(S, c) => Pruned(S)[c] = S[c]
           /\ S[c].bound /\ Alive(c) => Pruned(S)[c] = S[c]
           /\ S[c].owner = "caller" /\ Alive(Parent[c]) => Pruned(S)[c] = S[c]
           /\ Pruned(S)[c] = S[c] \/ (~SlotAlive(S, c) /\ Pruned(S)[c].at = "none")
BY DEF Pruned, SlotAlive, NoSlot

\* The child of a call runs only if it is no root.
LEMMA AliveCall ==
    \A c \in Calls : Alive(c) <=> proc[c] \in {"gate", "live"}
BY CallsAssumption DEF Alive

\* A drain changes the answers of waiting requests for slots only.
LEMMA DrainedConns ==
    ASSUME NEW S, NEW N \in Conns, Drained(S, N), NEW c \in Calls
    PROVE  /\ \A k \in Kinds \ SlotKinds : conn'[k][c] = N[k][c]
           /\ \A k \in SlotKinds : /\ conn'[k][c] = N[k][c]
                                      \/ N[k][c] = "queued"
                                   /\ N[k][c] = "none" => conn'[k][c] = "none"
                                   /\ conn'[k][c] = "none" => N[k][c] = "none"
BY DEF Drained, ConnMove, Kinds

\* The slot table stays worth what it was to the processes.
LEMMA DrainedSlots ==
    ASSUME TypeOK, ClientInv, NEW S \in Tables, NEW N \in Conns, ConnInv(N),
           SlotInv(S, N), ReclaimInv(S, N), Drained(S, N)
    PROVE  SlotInv(slots', conn')
<1>1. \A c \in Calls : SlotMove(S, N, c)
  BY DEF Drained
<1>2. \A c \in Calls : Registered(conn', c) => Registered(N, c)
  BY DrainedConns DEF Registered, SlotKinds, Kinds
<1>3. \A c \in Calls : Yielded(conn', c) => Yielded(N, c)
  BY DrainedConns DEF Yielded, SlotKinds, Kinds
<1>4. \A s \in {"acquire", "resume"} :
        /\ GrantedSlot(s).at = "active"
        /\ GrantedSlot("acquire").owner = "caller" /\ GrantedSlot("resume").bound
  BY DEF GrantedSlot
<1>5. ASSUME NEW c \in Calls, Registered(N, c)
      PROVE  /\ N["acquire"][c] = "none"
             /\ Pruned(S)[c] = S[c] /\ S[c].at # "none" /\ S[c].bound
  <2>1. Alive(c) /\ proc[c] # "none"
    BY <1>5, AliveCall DEF Registered
  <2> QED
    BY <1>5, <2>1, PrunedKeeps DEF SlotInv, ConnInv
<1>6. ASSUME NEW c \in Calls, NEW d \in Calls, Parent[d] = c, N["resume"][d] = "queued"
      PROVE  proc[c] \notin {"none", "gate"}
  <2>1. pc[d] \in {"resuming", "lost", "returned"}
    BY <1>6 DEF ConnInv
  <2> QED
    BY <1>6, <2>1 DEF ClientInv, CallerInv
<1>7. ASSUME NEW c \in Calls, proc[c] \in {"none", "gate"}, slots'[c].at # "none"
      PROVE  slots'[c].at = "active" /\ slots'[c].owner = "caller"
  <2>1. slots'[c] # GrantedSlot("resume") \/ slots'[c] = Pruned(S)[c]
          \/ slots'[c] = GrantedSlot("acquire")
    BY <1>1, <1>6, <1>7 DEF SlotMove
  <2>2. CASE slots'[c] = Pruned(S)[c]
    BY <1>7, <2>2, PrunedKeeps DEF SlotInv
  <2>3. CASE slots'[c] = GrantedSlot("acquire")
    BY <1>4, <2>3
  <2> QED
    BY <1>1, <1>6, <1>7, <2>2, <2>3 DEF SlotMove
<1>8. ASSUME NEW c \in Calls, Registered(conn', c)
      PROVE  slots'[c].at # "none" /\ slots'[c].bound
  <2>1. Registered(N, c)
    BY <1>2, <1>8
  <2>2. slots'[c] = Pruned(S)[c] \/ slots'[c] = GrantedSlot("resume")
    BY <1>1, <1>5, <2>1 DEF SlotMove
  <2> QED
    BY <1>4, <1>5, <2>1, <2>2
<1>9. ASSUME NEW c \in Calls, Backed(conn', c)
      PROVE  slots'[c].at # "none"
  <2>1. CASE Backed(N, c)
    <3>1. S[c].at # "none"
      BY <2>1 DEF SlotInv
    <3>2. CASE proc[c] = "live"
      BY <1>1, <1>4, <1>5, <3>1, <3>2 DEF SlotMove, Registered
    <3>3. CASE proc[c] # "live" /\ proc[c] \in ProcStates
      <4>1. proc[c] \in {"none", "gate"}
        BY <2>1, <3>3 DEF Backed, ProcStates
      <4>2. S[c].owner = "caller"
        BY <3>1, <4>1 DEF SlotInv
      <4>3. Alive(Parent[c])
        BY <2>1 DEF Backed, ClientInv, CallerInv
      <4>4. Pruned(S)[c] = S[c]
        BY <4>2, <4>3, PrunedKeeps
      <4> QED
        BY <1>1, <1>4, <3>1, <4>4 DEF SlotMove
    <3> QED
      BY <3>2, <3>3 DEF TypeOK
  <2>2. CASE ~Backed(N, c)
    <3>1. pc[c] = "acquiring" /\ conn'["acquire"][c] \in {"granted", "acked", "confirmed"}
      BY <1>9, <2>2 DEF Backed
    <3>2. conn'["acquire"][c] # N["acquire"][c]
      BY <1>9, <2>2, <3>1 DEF Backed
    <3>3. ConnMove(S, N, "acquire", c)
      BY DEF Drained, Kinds, SlotKinds
    <3>4. slots'[Token("acquire", c)].at = "active"
      BY <3>1, <3>2, <3>3 DEF ConnMove
    <3> QED
      BY <3>4 DEF Token
  <2> QED
    BY <2>1, <2>2
<1>10. ASSUME NEW c \in Calls, Parent[c] \in Calls, proc[Parent[c]] = "live",
              Yielded(conn', c)
       PROVE  slots'[Parent[c]].at = "suspended"
  <2> DEFINE p == Parent[c]
  <2>1. Yielded(N, c) /\ S[p].at = "suspended"
    BY <1>3, <1>10 DEF SlotInv
  <2>2. Registered(N, p) /\ Alive(p)
    BY <1>10, AliveCall DEF Registered
  <2>3. \A d \in Calls : Parent[d] = p => N["resume"][d] # "queued"
    BY <1>10, <2>1 DEF ReclaimInv, Reclaiming
  <2>4. slots'[p] = Pruned(S)[p]
    BY <1>1, <1>5, <1>10, <2>2, <2>3 DEF SlotMove
  <2> QED
    BY <1>5, <1>10, <2>1, <2>2, <2>4
<1> QED
  BY <1>7, <1>8, <1>9, <1>10 DEF SlotInv

\* A registered child is active or away as before.
LEMMA DrainedWork ==
    ASSUME ClientInv, NEW S \in Tables, NEW N \in Conns, ConnInv(N),
           SlotInv(S, N), WorkInv(S, N), Drained(S, N)
    PROVE  WorkInv(slots', conn')
<1> SUFFICES ASSUME NEW c \in Calls, Registered(conn', c)
             PROVE  \/ slots'[c].at = "active"
                    \/ \E d \in Calls : Parent[d] = c /\ Away(conn', d)
  BY DEF WorkInv
<1>1. Registered(N, c)
  BY DrainedConns DEF Registered, SlotKinds, Kinds
<1>2. Alive(c) /\ S[c].at # "none" /\ S[c].bound
  BY <1>1, AliveCall DEF Registered, SlotInv
<1>3. Pruned(S)[c] = S[c]
  BY <1>2, PrunedKeeps
<1>4. S[c].at = "active" => slots'[c].at = "active"
  BY <1>3 DEF Drained, SlotMove, GrantedSlot
<1>5. ASSUME NEW d \in Calls, Parent[d] = c, Away(N, d)
      PROVE  Away(conn', d) \/ slots'[c].at = "active"
  <2>1. CASE Yielded(N, d)
    BY <2>1, DrainedConns DEF Away, Yielded, SlotKinds, Kinds
  <2>2. CASE pc[d] = "resuming" /\ Reclaiming(N, d)
    <3>1. ConnMove(S, N, "resume", d)
      BY DEF Drained, Kinds, SlotKinds
    <3>2. CASE conn'["resume"][d] = N["resume"][d]
      BY <2>2, <3>2 DEF Away, Reclaiming
    <3>3. CASE slots'[Token("resume", d)].at = "active"
      BY <1>5, <3>3 DEF Token
    <3>4. CASE Pruned(S)[c].at # "suspended"
      BY <1>2, <1>3, <1>4, <3>4 DEF Slot
    <3> QED
      BY <1>5, <3>1, <3>2, <3>3, <3>4 DEF ConnMove
  <2> QED
    BY <1>5, <2>1, <2>2 DEF Away
<1> QED
  BY <1>1, <1>4, <1>5 DEF WorkInv

\* A drain serves the only request that may reclaim a slot, or leaves it waiting.
LEMMA DrainedReclaims ==
    ASSUME NEW S \in Tables, NEW N \in Conns, ConnInv(N),
           SlotInv(S, N), ReclaimInv(S, N), Drained(S, N)
    PROVE  ReclaimInv(slots', conn')
<1>1. ASSUME NEW c \in Calls, Parent[c] \in Calls, proc[Parent[c]] = "live",
             Reclaiming(conn', c)
      PROVE  /\ slots'[Parent[c]].at = "suspended"
             /\ \A d \in Calls : Parent[d] = Parent[c] =>
                  ~Yielded(conn', d) /\ (Reclaiming(conn', d) => d = c)
  <2> DEFINE p == Parent[c]
  <2>1. \A d \in Calls : /\ Yielded(conn', d) => Yielded(N, d)
                         /\ Reclaiming(conn', d) => Reclaiming(N, d)
    BY DrainedConns DEF Yielded, Reclaiming, Drained, ConnMove, SlotKinds, Kinds
  <2>2. /\ S[p].at = "suspended"
        /\ \A d \in Calls : Parent[d] = p => ~Yielded(N, d) /\ (Reclaiming(N, d) => d = c)
    BY <1>1, <2>1 DEF ReclaimInv
  <2>3. Alive(p) /\ S[p].bound /\ N["acquire"][p] = "none"
    BY <1>1, AliveCall DEF SlotInv, Registered, ConnInv
  <2>4. Pruned(S)[p] = S[p]
    BY <1>1, <2>3, PrunedKeeps
  <2>5. slots'[p] # Pruned(S)[p] =>
          \E d \in Calls : /\ Parent[d] = p /\ N["resume"][d] = "queued"
                           /\ conn'["resume"][d] = "granted"
    BY <1>1, <2>3 DEF Drained, SlotMove
  <2>6. slots'[p] = Pruned(S)[p]
    BY <1>1, <2>2, <2>5 DEF Reclaiming
  <2> QED
    BY <2>1, <2>2, <2>4, <2>6
<1>2. ASSUME NEW c \in Calls, NEW d \in Calls, Parent[c] = Parent[d], c # d,
             conn'["resume"][c] = "queued"
      PROVE  conn'["resume"][d] \notin {"queued", "granted", "acked"}
  <2>1. N["resume"][c] = "queued"
    BY <1>2 DEF Drained, ConnMove, Kinds, SlotKinds
  <2>2. N["resume"][d] \notin {"queued", "granted", "acked"}
    BY <1>2, <2>1 DEF ReclaimInv
  <2>3. conn'["resume"][d] = N["resume"][d]
    BY <2>2 DEF Drained, ConnMove, Kinds, SlotKinds
  <2> QED
    BY <2>2, <2>3
<1> QED
  BY <1>1, <1>2 DEF ReclaimInv

\* A drain gives a slot to no dead caller that has none.
LEMMA DrainedEnds ==
    ASSUME ClientInv, NEW S \in Tables, NEW N \in Conns, ConnInv(N),
           EndInv(S, N), Drained(S, N)
    PROVE  EndInv(slots', conn')
<1> SUFFICES ASSUME NEW c \in Calls, Parent[c] \in Calls, proc[Parent[c]] = "dead",
                    conn'["resume"][c] = "queued", slots'[Parent[c]].at # "none"
             PROVE  Ending(conn', Parent[c])
  BY DEF EndInv
<1> DEFINE p == Parent[c]
<1>1. N["resume"][c] = "queued" /\ N["acquire"][p] = "none"
  BY DEF Drained, ConnMove, Kinds, SlotKinds, ConnInv
<1>2. S[p].at # "none"
  BY <1>1 DEF Drained, SlotMove, Pruned, NoSlot
<1>3. Ending(N, p)
  BY <1>1, <1>2 DEF EndInv
<1>4. conn'["release"][p] = N["release"][p]
  BY DrainedConns DEF Kinds, SlotKinds
<1> QED
  BY <1>3, <1>4 DEF Ending

\* A request in the queue has a caller that runs, or whose slot is due.
LEMMA QueuedCaller ==
    ASSUME ClientInv, NEW N, ConnInv(N), NEW d \in Calls, Parent[d] \in Calls,
           N["resume"][d] = "queued", NEW S \in Tables, EndInv(S, N),
           S[Parent[d]].at # "none", TypeOK
    PROVE  Alive(Parent[d]) \/ (proc[Parent[d]] = "dead" /\ Ending(N, Parent[d]))
<1>1. pc[d] # "idle"
  BY DEF ConnInv
<1>2. proc[Parent[d]] \notin {"none", "gate"} /\ proc[Parent[d]] \in ProcStates
  BY <1>1 DEF ClientInv, CallerInv, TypeOK
<1> QED
  BY <1>2, AliveCall DEF EndInv, ProcStates

\* After a drain, only a grant to a client that is gone may keep a dead slot,
\* and only a full table a queue.
LEMMA DrainConserves ==
    ASSUME TypeOK, ClientInv, authority = "active",
           NEW S \in Tables, NEW N \in Conns, ConnInv(N), EndInv(S, N), Drained(S, N),
           queue' # <<>> => ~HasRoom(ActiveIn(slots')),
           UNCHANGED <<authority, pc, proc>>
    PROVE  ConserveInv'
<1>1. \A x : Alive(x)' <=> Alive(x)
  BY DEF Alive
<1>2. ASSUME NEW c \in Calls, slots'[c].at # "none", ~SlotAlive(slots, c)'
      PROVE  DrainComing'
  <2>1. CASE slots'[c] = Pruned(S)[c]
    <3>1. SlotAlive(S, c) /\ slots'[c] = S[c]
      BY <1>2, <2>1, PrunedKeeps DEF Pruned, NoSlot
    <3> QED
      BY <1>1, <1>2, <3>1 DEF SlotAlive
  <2>2. CASE slots'[c] = GrantedSlot("acquire") /\ conn'["acquire"][c] = "granted"
    <3>1. ~Alive(Parent[c])
      BY <1>1, <1>2, <2>2 DEF SlotAlive, GrantedSlot
    <3>2. pc[c] # "acquiring"
      BY <3>1 DEF ClientInv, CallerInv
    <3> QED
      BY <2>2, <3>2 DEF DrainComing, Waiting
  <2>3. CASE /\ slots'[c] = GrantedSlot("resume") /\ Pruned(S)[c].at = "suspended"
             /\ \E d \in Calls : Parent[d] = c /\ N["resume"][d] = "queued"
    <3>1. PICK d \in Calls : Parent[d] = c /\ N["resume"][d] = "queued"
      BY <2>3
    <3>2. S[c].at # "none"
      BY <2>3 DEF Pruned, NoSlot
    <3>3. ~Alive(c)
      BY <1>1, <1>2, <2>3 DEF SlotAlive, GrantedSlot
    <3>4. Ending(N, c) /\ proc[c] = "dead"
      BY <3>1, <3>2, <3>3, QueuedCaller
    <3>5. conn'["release"][c] = N["release"][c]
      BY DrainedConns DEF Kinds, SlotKinds
    <3> QED
      BY <3>4, <3>5 DEF DrainComing, Ending
  <2> QED
    BY <2>1, <2>2, <2>3 DEF Drained, SlotMove
<1> QED
  BY <1>2 DEF ConserveInv, ActiveSlots, HasRoom

\* Connections that only close or are answered stay as they may be.
LEMMA FewerOpen ==
    ASSUME NEW M, NEW N, ConnInv(M),
           \A k \in Kinds, c \in Calls : N[k][c] # "none" => M[k][c] # "none"
    PROVE  ConnInv(N)
BY DEF ConnInv, Kinds, SlotKinds

\* ClientInv speaks of the clients and of the authority only.
LEMMA ClientFrame ==
    ASSUME ClientInv, UNCHANGED <<authority, pc, joined, proc, signalled>>,
           \A f \in Faults : faults'[f] <= FaultBudget[f],
           NoneYet("crash")' => NoneYet("crash")
    PROVE  ClientInv'
<1>1. \A x : Alive(x)' <=> Alive(x)
  BY DEF Alive
<1>2. JoinInv' /\ ChildInv' /\ TransitionInv'
  BY DEF ClientInv, JoinInv, ChildInv, TransitionInv
<1>3. CallerInv'
  BY <1>1 DEF ClientInv, CallerInv
<1>4. FaultInv'
  BY DEF ClientInv, FaultInv
<1> QED
  BY <1>2, <1>3, <1>4 DEF ClientInv

\* A handler that leaves the clients alone and drains a table keeps it all.
LEMMA DrainStep ==
    ASSUME IInv, TypeOK', authority = "active",
           NEW S \in Tables, NEW N \in Conns, Drained(S, N),
           QueueInv(queue', conn'),
           \A k \in Kinds, c \in Calls : N[k][c] # "none" => conn[k][c] # "none",
           SlotInv(S, N), ReclaimInv(S, N),
           Patient' /\ NoneYet("stall")' => WorkInv(S, N),
           NoneYet("crash")' =>
             /\ EndInv(S, N)
             /\ ConserveInv' \/ (queue' # <<>> => ~HasRoom(ActiveIn(slots'))),
           UNCHANGED <<authority, pc, joined, proc, signalled>>,
           \A f \in Faults : faults'[f] <= FaultBudget[f],
           NoneYet("crash")' => NoneYet("crash"),
           Patient' <=> Patient
    PROVE  IInv'
<1> USE DEF IInv
<1>1. ClientInv'
  BY ClientFrame
<1>2. ConnInv(N)
  BY FewerOpen
<1>3. ConnInv(conn')
  <2>1. \A k \in Kinds, c \in Calls : conn'[k][c] # "none" => N[k][c] # "none"
    BY DrainedConns DEF SlotKinds
  <2> QED
    BY <1>2, <2>1, FewerOpen
<1>4. ConnInv(conn)'
  BY <1>3 DEF ConnInv
<1>5. QueueInv(queue, conn)'
  BY DEF QueueInv
<1>6. SlotInv(slots', conn')
  BY <1>2, DrainedSlots
<1>7. SlotInv(slots, conn)'
  BY <1>6 DEF SlotInv, Registered, Backed, Yielded
<1>8. Patient' /\ NoneYet("stall")' => WorkInv(slots, conn)'
  <2> SUFFICES ASSUME Patient', NoneYet("stall")'
               PROVE  WorkInv(slots, conn)'
    OBVIOUS
  <2>1. WorkInv(slots', conn')
    BY <1>2, DrainedWork
  <2> QED
    BY <2>1 DEF WorkInv, Registered, Away, Yielded, Reclaiming
<1>9. NoneYet("crash")' => ConserveInv'
  BY <1>2, DrainConserves
<1>10. CutInv'
  BY DEF CutInv
<1>11. ReclaimInv(slots, conn)'
  <2>1. ReclaimInv(slots', conn')
    BY <1>2, DrainedReclaims
  <2> QED
    BY <2>1 DEF ReclaimInv, Reclaiming, Yielded
<1>12. NoneYet("crash")' => EndInv(slots, conn)'
  <2> SUFFICES ASSUME NoneYet("crash")' PROVE EndInv(slots, conn)'
    OBVIOUS
  <2>1. EndInv(slots', conn')
    BY <1>2, DrainedEnds
  <2> QED
    BY <2>1 DEF EndInv, Ending
<1> QED
  BY <1>1, <1>4, <1>5, <1>7, <1>8, <1>9, <1>10, <1>11, <1>12 DEF ActiveInv

------------------------------------------------------------------------------
(* The handlers of the coordinator *)

\* The requester of a resumption is a generation that runs.
LEMMA RequesterLive ==
    ASSUME IInv, NEW c \in Calls, conn["resume"][c] # "none", Alive(Requester("resume", c))
    PROVE  Parent[c] \in Calls /\ proc[Parent[c]] = "live"
<1>1. Parent[c] \in Calls /\ pc[c] # "idle"
  BY CallsAssumption DEF IInv, ConnInv
<1>2. Alive(Parent[c])
  BY DEF Requester
<1> QED
  BY <1>1, <1>2, AliveCall DEF IInv, ClientInv, CallerInv

\* acquire-slot and resume-slot
LEMMA ServeSlotStep ==
    ASSUME IInv, TypeOK', NEW k \in SlotKinds, NEW c \in Calls,
           ServeSlotRequest(k, c)
    PROVE  IInv'
<1> DEFINE N == [conn EXCEPT ![k][c] = "queued"]
<1>1. /\ conn[k][c] = "sent" /\ authority = "active" /\ Alive(Requester(k, c))
      /\ UNCHANGED <<authority, pc, joined, proc, signalled, faults>>
  BY DEF ServeSlotRequest, Received, clientVars
<1>2. conn \in Conns /\ slots \in Tables /\ k \in Kinds
  BY DEF IInv, TypeOK, Kinds
<1>3. N \in Conns /\ N[k][c] = "queued"
        /\ \A l \in Kinds, d \in Calls : <<l, d>> # <<k, c>> => N[l][d] = conn[l][d]
  BY <1>2 DEF ConnStates
<1>4. Drained(slots, N) /\ QueueInv(queue', conn')
  BY ServeMoves DEF IInv
<1> HIDE DEF N
<1>5. \A l \in Kinds, d \in Calls : N[l][d] # "none" => conn[l][d] # "none"
  BY <1>1, <1>3
<1>6. SlotInv(slots, conn) /\ (Patient /\ NoneYet("stall") => WorkInv(slots, conn))
        /\ (NoneYet("crash") => ConserveInv /\ EndInv(slots, conn))
        /\ ReclaimInv(slots, conn)
  BY <1>1 DEF IInv, ActiveInv
<1>7. \A d \in Calls : /\ Registered(N, d) <=> Registered(conn, d)
                       /\ Backed(N, d) => Backed(conn, d)
                       /\ Yielded(N, d) <=> Yielded(conn, d)
                       /\ Away(conn, d) => Away(N, d)
                       /\ Reclaiming(N, d) => Reclaiming(conn, d)
  BY <1>1, <1>3 DEF Registered, Backed, Yielded, Away, Reclaiming, SlotKinds, Kinds
<1>8. SlotInv(slots, N)
  BY <1>6, <1>7 DEF SlotInv
<1>9. Patient' /\ NoneYet("stall")' => WorkInv(slots, N)
  BY <1>1, <1>6, <1>7 DEF WorkInv, NoneYet
<1>10. ReclaimInv(slots, N)
  <2>1. ASSUME NEW d \in Calls, NEW e \in Calls, Parent[d] = Parent[e], d # e,
               N["resume"][d] = "queued"
        PROVE  N["resume"][e] \notin {"queued", "granted", "acked"}
    <3>1. CASE k = "acquire"
      <4>1. N["resume"][d] = conn["resume"][d] /\ N["resume"][e] = conn["resume"][e]
        BY <1>3, <3>1 DEF Kinds, SlotKinds
      <4> QED
        BY <1>6, <2>1, <4>1 DEF ReclaimInv
    <3>2. CASE k = "resume" /\ d # c
      <4>1. N["resume"][d] = conn["resume"][d]
        BY <1>3, <3>2 DEF Kinds, SlotKinds
      <4>2. e # c
        <5> SUFFICES ASSUME e = c PROVE FALSE
          OBVIOUS
        <5>1. Parent[c] \in Calls /\ proc[Parent[c]] = "live"
          BY <1>1, <3>2, RequesterLive
        <5> QED
          BY <1>1, <1>6, <2>1, <3>2, <4>1, <5>1 DEF ReclaimInv, Reclaiming
      <4>3. N["resume"][e] = conn["resume"][e]
        BY <1>3, <3>2, <4>2 DEF Kinds, SlotKinds
      <4> QED
        BY <1>6, <2>1, <4>1, <4>3 DEF ReclaimInv
    <3>3. CASE k = "resume" /\ d = c
      <4>1. N["resume"][e] = conn["resume"][e]
        BY <1>3, <2>1, <3>3 DEF Kinds, SlotKinds
      <4>2. conn["resume"][e] \notin {"granted", "acked"}
        BY <2>1, <3>3 DEF ServeSlotRequest, Noticed
      <4>3. Parent[c] \in Calls /\ proc[Parent[c]] = "live"
        BY <1>1, <3>3, RequesterLive
      <4>4. conn["resume"][e] # "queued"
        BY <1>1, <1>6, <2>1, <3>3, <4>3 DEF ReclaimInv, Reclaiming
      <4> QED
        BY <4>1, <4>2, <4>4
    <3> QED
      BY <3>1, <3>2, <3>3 DEF SlotKinds
  <2> QED
    BY <1>6, <1>7, <2>1 DEF ReclaimInv
<1>11. NoneYet("crash")' => EndInv(slots, N)
  <2> SUFFICES ASSUME NoneYet("crash"), NEW d \in Calls, Parent[d] \in Calls,
                      proc[Parent[d]] = "dead", N["resume"][d] = "queued",
                      slots[Parent[d]].at # "none"
               PROVE  Ending(N, Parent[d])
    BY <1>1 DEF EndInv, NoneYet
  <2>1. conn["resume"][d] = "queued"
    <3>1. k = "resume" => d # c
      BY <1>1, RequesterLive
    <3> QED
      BY <1>3, <3>1 DEF Kinds, SlotKinds
  <2>2. N["release"][Parent[d]] = conn["release"][Parent[d]]
    BY <1>3 DEF Kinds, SlotKinds
  <2> QED
    BY <1>6, <2>1, <2>2 DEF EndInv, Ending
<1>12. NoneYet("crash")' => ConserveInv'
  <2> SUFFICES ASSUME NoneYet("crash") PROVE ConserveInv'
    BY <1>1 DEF NoneYet
  <2> DEFINE P == Pruned(slots)
  <2>1. DrainComing => DrainComing'
    BY <1>1, <1>2 DEF DrainComing, ServeSlotRequest, SetConn, Waiting, Kinds, SlotKinds
  <2>2. \A x : Alive(x)' <=> Alive(x)
    BY <1>1 DEF Alive
  <2>3. ASSUME NEW d \in Calls, slots'[d].at # "none", ~SlotAlive(slots, d)'
        PROVE  DrainComing'
    <3>1. SlotMove(slots, N, d)
      BY <1>4 DEF Drained
    <3>2. CASE slots'[d] = P[d]
      <4>1. SlotAlive(slots, d) /\ slots'[d] = slots[d]
        BY <2>3, <3>2, PrunedKeeps DEF Pruned, NoSlot
      <4> QED
        BY <2>2, <2>3, <4>1 DEF SlotAlive
    <3>3. CASE slots'[d] = GrantedSlot("acquire") /\ conn'["acquire"][d] = "granted"
      <4>1. ~Alive(Parent[d])
        BY <2>2, <2>3, <3>3 DEF SlotAlive, GrantedSlot
      <4>2. pc[d] # "acquiring"
        BY <4>1 DEF IInv, ClientInv, CallerInv
      <4> QED
        BY <1>1, <3>3, <4>2 DEF DrainComing, Waiting
    <3>4. CASE /\ slots'[d] = GrantedSlot("resume") /\ P[d].at = "suspended"
               /\ \E e \in Calls : Parent[e] = d /\ N["resume"][e] = "queued"
      <4>1. PICK e \in Calls : Parent[e] = d /\ N["resume"][e] = "queued"
        BY <3>4
      <4>2. slots[d].at # "none"
        BY <3>4 DEF Pruned, NoSlot
      <4>3. ~Alive(d)
        BY <2>2, <2>3, <3>4 DEF SlotAlive, GrantedSlot
      <4>4. ConnInv(N)
        BY <1>5, FewerOpen DEF IInv
      <4>5. proc[d] = "dead" /\ Ending(N, d)
        BY <1>1, <1>2, <1>11, <4>1, <4>2, <4>3, <4>4, QueuedCaller DEF IInv, NoneYet
      <4>6. Ending(conn, d)
        BY <1>3, <4>5 DEF Ending, Kinds, SlotKinds
      <4>7. DrainComing
        BY <4>5, <4>6 DEF DrainComing, Ending
      <4> QED
        BY <2>1, <4>7
    <3> QED
      BY <3>1, <3>2, <3>3, <3>4 DEF SlotMove
  <2>4. ASSUME queue' # <<>>
        PROVE  ~HasRoom(ActiveIn(slots')) \/ DrainComing'
    <3>1. CASE ~HasRoom(ActiveIn(P)) /\ slots' = P
      BY <3>1
    <3>2. CASE HasRoom(ActiveIn(P)) /\ queue' = queue
      <4>1. CASE P = slots
        BY <1>6, <2>1, <2>4, <3>2, <4>1 DEF ConserveInv, ActiveSlots
      <4>2. CASE P # slots
        <5>1. \E d \in Calls : slots[d].at # "none" /\ ~SlotAlive(slots, d)
          BY <1>2, <4>2 DEF Pruned
        <5> QED
          BY <1>6, <2>1, <5>1 DEF ConserveInv
      <4> QED
        BY <4>1, <4>2
    <3> QED
      BY <3>1, <3>2 DEF ServeSlotRequest
  <2> QED
    BY <2>3, <2>4 DEF ConserveInv, ActiveSlots, HasRoom
<1> QED
  BY <1>1, <1>2, <1>3, <1>4, <1>5, <1>8, <1>9, <1>10, <1>11, <1>12, DrainStep
     DEF IInv, ClientInv, FaultInv, NoneYet

\* release-slot
LEMMA ServeReleaseStep ==
    ASSUME IInv, TypeOK', NEW c \in Calls, ServeRelease(c)
    PROVE  IInv'
<1> DEFINE S == [slots EXCEPT ![c] = NoSlot]
           N == [conn EXCEPT !["release"][c] = "ok"]
<1>1. /\ conn["release"][c] = "sent" /\ authority = "active"
      /\ UNCHANGED <<authority, pc, joined, proc, signalled, faults>>
      /\ DrainQueue(S, queue, N)
  BY DEF ServeRelease, Received, clientVars
<1>2. /\ conn \in Conns /\ slots \in Tables /\ queue \in Queues
      /\ "release" \in Kinds \ SlotKinds
  BY DEF IInv, TypeOK, Kinds, SlotKinds
<1>3. N \in Conns /\ N["release"][c] = "ok"
        /\ \A l \in Kinds, d \in Calls : <<l, d>> # <<"release", c>> => N[l][d] = conn[l][d]
  BY <1>2 DEF ConnStates
<1>4. S \in Tables /\ S[c] = NoSlot /\ \A d \in Calls : d # c => S[d] = slots[d]
  BY <1>2 DEF NoSlot, Slot, Owners
<1> HIDE DEF S, N
<1>5. \A l \in Kinds, d \in Calls : N[l][d] # "none" => conn[l][d] # "none"
  BY <1>1, <1>3
<1>6. ConnInv(N)
  BY <1>5, FewerOpen DEF IInv
<1>7. QueueInv(queue, N)
  <2>1. \A i \in 1..Len(queue) : N[queue[i][1]][queue[i][2]] = "queued"
    <3> SUFFICES ASSUME NEW i \in 1..Len(queue)
                 PROVE  N[queue[i][1]][queue[i][2]] = "queued"
      OBVIOUS
    <3>1. queue[i][1] \in SlotKinds /\ queue[i][2] \in Calls
      BY <1>2
    <3> QED
      BY <1>2, <1>3, <3>1 DEF IInv, QueueInv, Kinds
  <2> QED
    BY <1>1, <1>2, <1>3, <2>1 DEF IInv, QueueInv
<1>8. /\ Drained(S, N) /\ QueueInv(queue', conn')
      /\ queue' # <<>> => ~HasRoom(ActiveIn(slots'))
  BY <1>1, <1>2, <1>3, <1>4, <1>6, <1>7, NestedResumes, DrainMoves
<1>9. \A d \in Calls : /\ Registered(N, d) => Registered(conn, d) /\ d # c
                       /\ Backed(N, d) => Backed(conn, d) /\ d # c
                       /\ Yielded(N, d) <=> Yielded(conn, d)
                       /\ Away(conn, d) => Away(N, d)
                       /\ N["resume"][d] = conn["resume"][d]
  <2>1. /\ proc[c] \in {"none", "dead"} /\ pc[c] \in {"releasing", "lost"}
    BY <1>1 DEF IInv, ConnInv
  <2> QED
    BY <1>3, <2>1 DEF Registered, Backed, Yielded, Away, Reclaiming, SlotKinds, Kinds
<1>10. SlotInv(slots, conn) /\ (Patient /\ NoneYet("stall") => WorkInv(slots, conn))
         /\ ReclaimInv(slots, conn) /\ (NoneYet("crash") => EndInv(slots, conn))
  BY <1>1 DEF IInv, ActiveInv
<1>11. SlotInv(S, N)
  <2>1. proc[c] # "live"
    BY <1>1 DEF IInv, ConnInv
  <2> QED
    BY <1>4, <1>9, <1>10, <2>1 DEF SlotInv, NoSlot
<1>12. Patient' /\ NoneYet("stall")' => WorkInv(S, N)
  BY <1>1, <1>4, <1>9, <1>10 DEF WorkInv, NoneYet
<1>13. ReclaimInv(S, N)
  <2>1. \A d \in Calls : proc[d] = "live" => S[d] = slots[d]
    BY <1>1, <1>4 DEF IInv, ConnInv
  <2> QED
    BY <1>9, <1>10, <2>1 DEF ReclaimInv, Reclaiming
<1>14. NoneYet("crash")' => EndInv(S, N)
  <2>1. \A d \in Calls : S[d].at # "none" => d # c /\ S[d] = slots[d]
    BY <1>4 DEF NoSlot
  <2>2. \A d \in Calls \ {c} : Ending(conn, d) => Ending(N, d)
    BY <1>3 DEF Ending, Kinds
  <2> QED
    BY <1>1, <1>9, <1>10, <2>1, <2>2 DEF EndInv, NoneYet
<1> QED
  BY <1>1, <1>3, <1>4, <1>5, <1>8, <1>11, <1>12, <1>13, <1>14, DrainStep
     DEF IInv, ClientInv, FaultInv, NoneYet

\* Connections that do not wait leave the queue as it is.
LEMMA QueueFrame ==
    ASSUME TypeOK, QueueInv(queue, conn), queue' = queue,
           \A k \in SlotKinds, c \in Calls :
             conn[k][c] = "queued" => conn'[k][c] = "queued",
           \A k \in Kinds \ SlotKinds, c \in Calls :
             conn'[k][c] \in {"none", "sent", "ok", "refused"}
    PROVE  QueueInv(queue, conn)'
<1>1. \A i \in 1..Len(queue) : queue[i][1] \in SlotKinds /\ queue[i][2] \in Calls
  <2> SUFFICES ASSUME NEW i \in 1..Len(queue)
               PROVE  queue[i][1] \in SlotKinds /\ queue[i][2] \in Calls
    OBVIOUS
  <2>1. queue[i] \in SlotKinds \X Calls
    BY DEF TypeOK
  <2> QED
    BY <2>1
<1> QED
  BY <1>1 DEF QueueInv

\* The same for a step that answers or closes one connection.
LEMMA QueueFrameOne ==
    ASSUME TypeOK, QueueInv(queue, conn), queue' = queue,
           NEW k \in Kinds, NEW c \in Calls, NEW s \in ConnStates, SetConn(k, c, s),
           conn[k][c] # "queued",
           k \notin SlotKinds => s \in {"none", "sent", "ok", "refused"}
    PROVE  QueueInv(queue, conn)'
<1>1. conn \in Conns /\ SlotKinds \subseteq Kinds
  BY DEF TypeOK, Kinds
<1>2. conn'[k][c] = s /\ \A l \in Kinds, d \in Calls :
        <<l, d>> # <<k, c>> => conn'[l][d] = conn[l][d]
  BY <1>1 DEF SetConn
<1> QED
  BY <1>1, <1>2, QueueFrame DEF QueueInv

\* Who reclaims a slot stays as it was, if no request to reclaim one is made or
\* granted, no call begins to participate, and no caller of such a call starts.
LEMMA ReclaimFrame ==
    ASSUME ReclaimInv(slots, conn), slots' = slots,
           \A c \in Calls : Reclaiming(conn, c)' =>
             /\ Reclaiming(conn, c)
             /\ proc'[Parent[c]] = "live" => proc[Parent[c]] = "live",
           \A c \in Calls : Yielded(conn, c)' => Yielded(conn, c),
           \A c \in Calls :
             /\ conn'["resume"][c] = "queued" => conn["resume"][c] = "queued"
             /\ conn'["resume"][c] \in {"granted", "acked"} =>
                  conn["resume"][c] \in {"granted", "acked"}
    PROVE  ReclaimInv(slots, conn)'
BY DEF ReclaimInv

\* A dead caller's slot is due as before, if its parent still has to release it.
LEMMA EndFrame ==
    ASSUME EndInv(slots, conn), slots' = slots,
           \A c \in Calls : conn'["resume"][c] = "queued" => conn["resume"][c] = "queued",
           \A c \in Calls : proc'[c] = "dead" =>
             \/ pc'[c] = "spawned"
             \/ proc[c] = "dead" /\ (Ending(conn, c) => Ending(conn, c)')
    PROVE  EndInv(slots, conn)'
BY DEF EndInv, Ending

\* A step that leaves the slot table alone and takes nothing from what the
\* table is for.
LEMMA QuietStep ==
    ASSUME IInv, TypeOK', ClientInv', ConnInv(conn)', QueueInv(queue, conn)',
           UNCHANGED <<authority, slots, signalled>>,
           queue' # <<>> => queue # <<>>,
           \A c \in Calls : proc'[c] \in {"none", "gate"} => proc[c] \in {"none", "gate"},
           \A c \in Calls : Registered(conn, c)' => Registered(conn, c),
           \A c \in Calls : Backed(conn, c)' => Backed(conn, c),
           \A c \in Calls : Parent[c] \in Calls /\ proc'[Parent[c]] = "live"
                              /\ Yielded(conn, c)'
                            => slots[Parent[c]].at = "suspended" \/ authority # "active",
           authority = "active" => ReclaimInv(slots, conn)',
           Patient' /\ NoneYet("stall")' =>
             /\ Patient /\ NoneYet("stall")
             /\ \A c, d \in Calls :
                  Registered(conn, c)' /\ Parent[d] = c /\ Away(conn, d) =>
                    \/ authority # "active"
                    \/ \E e \in Calls : Parent[e] = c /\ Away(conn, e)',
           NoneYet("crash")' /\ authority = "active" =>
             /\ NoneYet("crash")
             /\ EndInv(slots, conn)'
             /\ DrainComing => DrainComing'
             /\ \A c \in Calls : SlotAlive(slots, c) => SlotAlive(slots, c)' \/ DrainComing'
    PROVE  IInv'
<1> USE DEF IInv
<1>1. CASE authority # "active"
  BY <1>1 DEF CutInv, ActiveInv
<1>2. CASE authority = "active"
  <2>1. SlotInv(slots, conn) /\ (Patient /\ NoneYet("stall") => WorkInv(slots, conn))
          /\ (NoneYet("crash") => ConserveInv)
    BY <1>2 DEF ActiveInv
  <2>2. SlotInv(slots, conn)'
    BY <1>2, <2>1 DEF SlotInv
  <2>3. Patient' /\ NoneYet("stall")' => WorkInv(slots, conn)'
    BY <1>2, <2>1 DEF WorkInv
  <2>4. NoneYet("crash")' => ConserveInv'
    <3> SUFFICES ASSUME NoneYet("crash")' PROVE ConserveInv'
      OBVIOUS
    <3>1. ConserveInv /\ (DrainComing => DrainComing')
      BY <1>2, <2>1
    <3>2. \A c \in Calls : slots'[c].at # "none" /\ ~SlotAlive(slots, c)' => DrainComing'
      BY <1>2, <3>1 DEF ConserveInv
    <3>3. HasRoom(ActiveSlots)' <=> HasRoom(ActiveSlots)
      BY DEF HasRoom, ActiveSlots, ActiveIn
    <3>4. queue' # <<>> => ~HasRoom(ActiveSlots)' \/ DrainComing'
      BY <3>1, <3>3 DEF ConserveInv
    <3> QED
      BY <3>2, <3>4 DEF ConserveInv
  <2>5. CutInv'
    BY <1>2 DEF CutInv
  <2> QED
    BY <1>2, <2>2, <2>3, <2>4, <2>5 DEF ActiveInv
<1> QED
  BY <1>1, <1>2

\* A step of the coordinator that only answers or closes one connection, which
\* did not wait in the queue, and in a way that starts nothing.
LEMMA AnswerStep ==
    ASSUME IInv, TypeOK', UNCHANGED <<authority, slots, pc, joined, proc, signalled, faults>>,
           NEW k \in Kinds, NEW c \in Calls, NEW s \in ConnStates, SetConn(k, c, s),
           QueueInv(queue, conn)', queue' # <<>> => queue # <<>>,
           conn[k][c] # "none",
           k \in {"register", "suspend"} => s # "ok",
           k = "acquire" /\ s \in {"granted", "acked", "confirmed"} =>
             conn[k][c] \in {"granted", "acked", "confirmed"},
           k = "resume" => s \in {"none", "confirmed", "refused"},
           authority = "active" => \/ ~Waiting(k, c) /\ conn[k][c] # "granted"
                                   \/ k = "suspend" /\ conn[k][c] = "sent"
                                   \/ conn[k][c] = "acked"
                                   \/ k = "register"
    PROVE  IInv'
<1>1. conn \in Conns
  BY DEF IInv, TypeOK
<1>2. conn'[k][c] = s /\ \A l \in Kinds, d \in Calls :
        <<l, d>> # <<k, c>> => conn'[l][d] = conn[l][d]
  BY <1>1 DEF SetConn
<1>3. ClientInv'
  BY ClientFrame DEF IInv, ClientInv, FaultInv, NoneYet
<1>4. ConnInv(conn')
  BY <1>2, FewerOpen DEF IInv
<1>5. ConnInv(conn)'
  BY <1>4 DEF ConnInv, NoneYet
<1>6. \A d \in Calls : Registered(conn, d)' => Registered(conn, d)
  BY <1>2 DEF Registered, Kinds, SlotKinds
<1>7. \A d \in Calls : Backed(conn, d)' => Backed(conn, d)
  BY <1>2 DEF Backed, Kinds, SlotKinds
<1>8. \A d \in Calls : Yielded(conn, d)' => Yielded(conn, d)
  BY <1>2 DEF Yielded, Kinds, SlotKinds
<1>9. authority = "active" => \A d \in Calls : Away(conn, d) => Away(conn, d)'
  BY <1>2 DEF Away, Yielded, Reclaiming, Kinds, SlotKinds, Waiting
<1>10. authority = "active" /\ DrainComing => DrainComing'
  <2> SUFFICES ASSUME authority = "active",
                      NEW d \in Calls,
                      \/ pc[d] = "spawned" /\ proc[d] = "dead"
                      \/ pc[d] = "releasing" /\ conn["release"][d] = "sent"
                      \/ conn["acquire"][d] = "granted" /\ pc[d] # "acquiring"
               PROVE  DrainComing'
    BY DEF DrainComing, Waiting
  <2>1. CASE pc[d] = "spawned" /\ proc[d] = "dead"
    BY <2>1 DEF DrainComing
  <2>2. CASE pc[d] = "releasing" /\ conn["release"][d] = "sent"
    <3>1. conn'["release"][d] = "sent"
      BY <1>2, <2>2 DEF Waiting, Kinds
    <3> QED
      BY <2>2, <3>1 DEF DrainComing
  <2>3. CASE conn["acquire"][d] = "granted" /\ pc[d] # "acquiring"
    <3>1. conn'["acquire"][d] = "granted"
      BY <1>2, <2>3 DEF Waiting, Kinds, SlotKinds
    <3> QED
      BY <2>3, <3>1 DEF DrainComing, Waiting
  <2> QED
    BY <2>1, <2>2, <2>3
<1>11. \A d \in Calls : SlotAlive(slots, d) => SlotAlive(slots, d)'
  BY DEF SlotAlive, Alive
<1>12. authority = "active" => SlotInv(slots, conn)
  BY DEF IInv, ActiveInv
<1>13. \A d \in Calls : Parent[d] \in Calls /\ proc'[Parent[d]] = "live"
                              /\ Yielded(conn, d)'
                            => slots[Parent[d]].at = "suspended" \/ authority # "active"
  BY <1>8, <1>12 DEF SlotInv
<1>14. \A d \in Calls : /\ Reclaiming(conn, d)' => Reclaiming(conn, d)
                        /\ conn'["resume"][d] # conn["resume"][d] =>
                             conn'["resume"][d] \in {"none", "confirmed", "refused"}
  BY <1>2 DEF Reclaiming, Kinds, SlotKinds
<1>15. authority = "active" => ReclaimInv(slots, conn)'
  BY <1>8, <1>14, ReclaimFrame DEF IInv, ActiveInv
<1>16. authority = "active" /\ NoneYet("crash") => EndInv(slots, conn)'
  <2>1. authority = "active" => \A d \in Calls : Ending(conn, d) => Ending(conn, d)'
    BY <1>2 DEF Ending, Waiting, Kinds
  <2>2. authority = "active" /\ NoneYet("crash") => EndInv(slots, conn)
    BY DEF IInv, ActiveInv
  <2>3. \A d \in Calls : conn'["resume"][d] = "queued" => conn["resume"][d] = "queued"
    BY <1>14
  <2> QED
    BY <2>1, <2>2, <2>3, EndFrame
<1> QED
  BY <1>3, <1>5, <1>6, <1>7, <1>9, <1>10, <1>11, <1>13, <1>15, <1>16, QuietStep DEF NoneYet

\* suspend-slot
LEMMA ServeSuspendStep ==
    ASSUME IInv, TypeOK', NEW c \in Calls, ServeSuspend(c)
    PROVE  IInv'
<1> DEFINE p == Parent[c]
           S == [slots EXCEPT ![p].at = "suspended"]
           N == [conn EXCEPT !["suspend"][c] = "ok"]
<1>1. /\ conn["suspend"][c] = "sent" /\ authority = "active" /\ Alive(p)
      /\ UNCHANGED <<authority, pc, joined, proc, signalled, faults>>
      /\ \/ slots[p].at = "active" /\ DrainQueue(S, queue, N)
         \/ SetConn("suspend", c, "refused") /\ UNCHANGED serverVars
  BY DEF ServeSuspend, Received, clientVars, Requester
<1>2. /\ conn \in Conns /\ slots \in Tables /\ queue \in Queues
      /\ "suspend" \in Kinds \ SlotKinds
  BY DEF IInv, TypeOK, Kinds, SlotKinds
<1>3. CASE SetConn("suspend", c, "refused") /\ UNCHANGED serverVars
  <2>1. "refused" \in ConnStates /\ queue' = queue /\ slots' = slots
    BY <1>3 DEF ConnStates, serverVars
  <2>2. QueueInv(queue, conn)'
    BY <1>1, <1>2, <1>3, <2>1, QueueFrameOne DEF IInv
  <2> QED
    BY <1>1, <1>2, <1>3, <2>1, <2>2, AnswerStep
<1>4. CASE slots[p].at = "active" /\ DrainQueue(S, queue, N)
  <2>1. N \in Conns /\ N["suspend"][c] = "ok"
          /\ \A l \in Kinds, d \in Calls : <<l, d>> # <<"suspend", c>> => N[l][d] = conn[l][d]
    BY <1>2 DEF ConnStates
  <2>2. p \in Calls /\ proc[p] \notin {"none", "gate"}
          /\ (Patient => pc[c] = "suspending")
    <3>1. p \in Calls /\ pc[c] # "idle"
            /\ (pc[c] \in {"suspending", "lost"} \/ ~Patient)
      BY <1>1, <1>2, CallsAssumption DEF IInv, ConnInv
    <3>2. proc[p] \notin {"none", "gate"}
      BY <3>1 DEF IInv, ClientInv, CallerInv
    <3>3. pc[c] # "lost"
      BY <1>1, <3>1 DEF IInv, ClientInv, CallerInv
    <3> QED
      BY <3>1, <3>2, <3>3
  <2>3. /\ S \in Tables /\ S[p].at = "suspended" /\ S[p].bound = slots[p].bound
        /\ \A d \in Calls : d # p => S[d] = slots[d]
    BY <1>2, <2>2 DEF Slot
  <2> HIDE DEF S, N
  <2>4. \A l \in Kinds, d \in Calls : N[l][d] # "none" => conn[l][d] # "none"
    BY <1>1, <2>1
  <2>5. ConnInv(N)
    BY <2>4, FewerOpen DEF IInv
  <2>6. QueueInv(queue, N)
    <3>1. \A i \in 1..Len(queue) : N[queue[i][1]][queue[i][2]] = "queued"
      <4> SUFFICES ASSUME NEW i \in 1..Len(queue)
                   PROVE  N[queue[i][1]][queue[i][2]] = "queued"
        OBVIOUS
      <4>1. queue[i][1] \in SlotKinds /\ queue[i][2] \in Calls
        BY <1>2
      <4> QED
        BY <1>2, <2>1, <4>1 DEF IInv, QueueInv, Kinds
    <3> QED
      BY <1>1, <1>2, <2>1, <3>1 DEF IInv, QueueInv
  <2>7. /\ Drained(S, N) /\ QueueInv(queue', conn')
        /\ queue' # <<>> => ~HasRoom(ActiveIn(slots'))
    BY <1>2, <1>4, <2>1, <2>3, <2>5, <2>6, NestedResumes, DrainMoves
  <2>8. \A d \in Calls : /\ Registered(N, d) <=> Registered(conn, d)
                         /\ Backed(N, d) => Backed(conn, d)
                         /\ Yielded(N, d) => Yielded(conn, d) \/ d = c
                         /\ Away(conn, d) => Away(N, d)
                         /\ N["resume"][d] = conn["resume"][d]
                         /\ Ending(conn, d) => Ending(N, d)
    BY <2>1 DEF Registered, Backed, Yielded, Away, Reclaiming, Ending, SlotKinds, Kinds
  <2>9. SlotInv(slots, conn) /\ (Patient /\ NoneYet("stall") => WorkInv(slots, conn))
          /\ ReclaimInv(slots, conn) /\ (NoneYet("crash") => EndInv(slots, conn))
    BY <1>1 DEF IInv, ActiveInv
  <2>10. SlotInv(S, N)
    <3>1. \A d \in Calls : S[d].bound = slots[d].bound
                           /\ (S[d].at = slots[d].at \/ S[d].at = "suspended")
      BY <2>3
    <3>2. \A d \in Calls : Parent[d] \in Calls /\ proc[Parent[d]] = "live" /\ Yielded(N, d)
                             => S[Parent[d]].at = "suspended"
      BY <2>3, <2>8, <2>9 DEF SlotInv
    <3> QED
      BY <2>2, <2>3, <2>8, <2>9, <3>1, <3>2 DEF SlotInv
  <2>11. Patient' /\ NoneYet("stall")' => WorkInv(S, N)
    <3> SUFFICES ASSUME Patient, NoneYet("stall") PROVE WorkInv(S, N)
      BY <1>1 DEF NoneYet
    <3>1. Away(N, c)
      BY <2>1, <2>2 DEF Away, Yielded
    <3> QED
      BY <2>3, <2>8, <2>9, <3>1 DEF WorkInv
  <2>12. ReclaimInv(S, N)
    <3>1. \A d \in Calls : /\ Reclaiming(N, d) <=> Reclaiming(conn, d)
                           /\ Parent[d] \in Calls /\ proc[Parent[d]] = "live"
                                /\ Reclaiming(conn, d) => Parent[d] # p
      BY <1>4, <2>8, <2>9 DEF ReclaimInv, Reclaiming
    <3> QED
      BY <2>3, <2>8, <2>9, <3>1 DEF ReclaimInv
  <2>13. NoneYet("crash")' => EndInv(S, N)
    <3>1. \A d \in Calls : S[d].at # "none" => slots[d].at # "none"
      BY <1>4, <2>3
    <3> QED
      BY <1>1, <2>8, <2>9, <3>1 DEF EndInv, NoneYet
  <2> QED
    BY <1>1, <2>1, <2>3, <2>4, <2>7, <2>10, <2>11, <2>12, <2>13, DrainStep
       DEF IInv, ClientInv, FaultInv, NoneYet
<1> QED
  BY <1>1, <1>3, <1>4

\* register-launch
LEMMA ServeRegisterStep ==
    ASSUME IInv, TypeOK', NEW c \in Calls, ServeRegister(c)
    PROVE  IInv'
<1>1. /\ conn["register"][c] = "sent" /\ authority = "active" /\ Alive(c)
      /\ UNCHANGED <<authority, pc, joined, proc, signalled, faults, queue>>
  BY DEF ServeRegister, Received, clientVars, Requester
<1>2. /\ conn \in Conns /\ slots \in Tables /\ "register" \in Kinds \ SlotKinds
  BY DEF IInv, TypeOK, Kinds, SlotKinds
<1>3. ASSUME NEW s \in {"ok", "refused"}, SetConn("register", c, s)
      PROVE  QueueInv(queue, conn)'
  BY <1>1, <1>2, <1>3, QueueFrameOne DEF IInv, ConnStates
<1>4. CASE SetConn("register", c, "refused") /\ slots' = slots
  BY <1>1, <1>2, <1>3, <1>4, AnswerStep DEF ConnStates
<1>5. CASE /\ slots[c].at = "active"
           /\ slots' = [slots EXCEPT ![c].bound = TRUE]
           /\ SetConn("register", c, "ok")
  <2>1. \A l \in Kinds, d \in Calls : <<l, d>> # <<"register", c>> => conn'[l][d] = conn[l][d]
    BY <1>2, <1>5 DEF SetConn
  <2>2. conn'["register"][c] = "ok"
    BY <1>2, <1>5 DEF SetConn
  <2>3. /\ \A d \in Calls : slots'[d].at = slots[d].at /\ slots'[d].owner = slots[d].owner
        /\ \A d \in Calls : d # c => slots'[d] = slots[d]
        /\ slots'[c].bound = TRUE
    BY <1>2, <1>5 DEF Slot
  <2>4. ClientInv'
    BY <1>1, ClientFrame DEF IInv, ClientInv, FaultInv, NoneYet
  <2>5. ConnInv(conn')
    <3>1. \A l \in Kinds, d \in Calls : conn'[l][d] # "none" => conn[l][d] # "none"
      BY <1>1, <2>1
    <3> QED
      BY <3>1, FewerOpen DEF IInv
  <2>6. ConnInv(conn)'
    BY <1>1, <2>5 DEF ConnInv, NoneYet
  <2>7. SlotInv(slots, conn) /\ (Patient /\ NoneYet("stall") => WorkInv(slots, conn))
          /\ ReclaimInv(slots, conn)
          /\ (NoneYet("crash") => ConserveInv /\ EndInv(slots, conn))
    BY <1>1 DEF IInv, ActiveInv
  <2>8. \A d \in Calls : /\ d # c => (Registered(conn, d)' <=> Registered(conn, d))
                         /\ Backed(conn, d)' <=> Backed(conn, d)
                         /\ Yielded(conn, d)' <=> Yielded(conn, d)
                         /\ Away(conn, d)' <=> Away(conn, d)
                         /\ conn'["resume"][d] = conn["resume"][d]
                         /\ Ending(conn, d)' <=> Ending(conn, d)
    BY <1>1, <2>1 DEF Registered, Backed, Yielded, Away, Reclaiming, Ending, Kinds, SlotKinds
  <2>9. SlotInv(slots, conn)'
    BY <1>1, <1>5, <2>3, <2>7, <2>8 DEF SlotInv
  <2>10. Patient' /\ NoneYet("stall")' => WorkInv(slots, conn)'
    BY <1>1, <1>5, <2>3, <2>7, <2>8 DEF WorkInv, NoneYet
  <2>11. NoneYet("crash")' => ConserveInv'
    <3>1. DrainComing => DrainComing'
      BY <1>1, <2>1 DEF DrainComing, Waiting, Kinds, SlotKinds
    <3>2. \A x : Alive(x)' <=> Alive(x)
      BY <1>1 DEF Alive
    <3>3. \A d \in Calls : SlotAlive(slots, d) => SlotAlive(slots, d)'
      BY <2>3, <3>2 DEF SlotAlive
    <3>4. ActiveSlots' = ActiveSlots
      BY <2>3 DEF ActiveSlots, ActiveIn
    <3> QED
      BY <1>1, <2>3, <2>7, <3>1, <3>3, <3>4 DEF ConserveInv, HasRoom, NoneYet
  <2>12. CutInv'
    BY <1>1 DEF CutInv
  <2>13. ReclaimInv(slots, conn)'
    <3>1. \A d \in Calls : Reclaiming(conn, d)' <=> Reclaiming(conn, d)
      BY <2>8 DEF Reclaiming
    <3> QED
      BY <1>1, <2>3, <2>7, <2>8, <3>1 DEF ReclaimInv
  <2>14. NoneYet("crash")' => EndInv(slots, conn)'
    BY <1>1, <2>3, <2>7, <2>8 DEF EndInv, NoneYet
  <2> QED
    BY <1>3, <1>5, <2>4, <2>6, <2>9, <2>10, <2>11, <2>12, <2>13, <2>14 DEF IInv, ActiveInv
<1> QED
  BY <1>4, <1>5 DEF ServeRegister

\* The acknowledgement of a grant, and a request that comes too late.
LEMMA ServeAckStep ==
    ASSUME IInv, TypeOK', NEW k \in SlotKinds, NEW c \in Calls, ServeAck(k, c)
    PROVE  IInv'
<1>1. /\ conn[k][c] = "acked" /\ SetConn(k, c, "confirmed") /\ "confirmed" \in ConnStates
      /\ UNCHANGED <<authority, slots, pc, joined, proc, signalled, faults, queue>>
      /\ k \in Kinds /\ k \notin {"register", "suspend"}
  BY DEF ServeAck, serverVars, clientVars, ConnStates, Kinds, SlotKinds
<1>2. QueueInv(queue, conn)'
  BY <1>1, QueueFrameOne DEF IInv
<1> QED
  BY <1>1, <1>2, AnswerStep

\* A refusal by a terminal generation or a dead root grants nothing.
LEMMA RefuseStep ==
    ASSUME IInv, TypeOK', NEW k \in Kinds, NEW c \in Calls, Refuse(k, c)
    PROVE  IInv'
<1>1. /\ conn[k][c] = "sent" /\ SetConn(k, c, "refused") /\ "refused" \in ConnStates
      /\ UNCHANGED <<authority, slots, pc, joined, proc, signalled, faults, queue>>
      /\ authority # "active"
  BY DEF Refuse, serverVars, clientVars, ConnStates
<1>2. QueueInv(queue, conn)'
  BY <1>1, QueueFrameOne DEF IInv
<1> QED
  BY <1>1, <1>2, AnswerStep

\* A grant that is taken back, for a client that is gone or, at the cost of a
\* stall, for one that was too slow.
LEMMA RollbackStep ==
    ASSUME IInv, TypeOK', NEW k \in Kinds, NEW c \in Calls,
           NEW s \in {"none", "refused"}, AckPending(k, c), Rollback(k, c, s),
           UNCHANGED <<authority, pc, joined, proc, signalled>>,
           \A f \in Faults : faults'[f] <= FaultBudget[f],
           NoneYet("crash")' <=> NoneYet("crash"),
           Patient' <=> Patient,
           NoneYet("stall")' => NoneYet("stall") /\ ~Waiting(k, c)
    PROVE  IInv'
<1> DEFINE S == RolledBack(k, c)
           N == [conn EXCEPT ![k][c] = s]
<1>1. /\ conn \in Conns /\ slots \in Tables /\ queue \in Queues
      /\ captured \in [Calls -> Owners]
  BY DEF IInv, TypeOK
<1>2. conn[k][c] \in {"granted", "acked"} /\ k \in SlotKinds
  BY DEF AckPending, IInv, QueueInv
<1>3. N \in Conns /\ N[k][c] = s
        /\ \A l \in Kinds, d \in Calls : <<l, d>> # <<k, c>> => N[l][d] = conn[l][d]
  BY <1>1 DEF ConnStates
<1>4. S \in Tables
  BY <1>1, RolledBackType
<1> HIDE DEF N
<1>5. \A l \in Kinds, d \in Calls : N[l][d] # "none" => conn[l][d] # "none"
  BY <1>2, <1>3
<1>6. ConnInv(N)
  BY <1>5, FewerOpen DEF IInv
<1>7. QueueInv(queue, N)
  <2>1. \A i \in 1..Len(queue) : N[queue[i][1]][queue[i][2]] = "queued"
    <3> SUFFICES ASSUME NEW i \in 1..Len(queue)
                 PROVE  N[queue[i][1]][queue[i][2]] = "queued"
      OBVIOUS
    <3>1. queue[i][1] \in SlotKinds /\ queue[i][2] \in Calls
      BY <1>1
    <3> QED
      BY <1>2, <1>3, <3>1 DEF IInv, QueueInv, Kinds
  <2> QED
    BY <1>2, <1>3, <2>1 DEF IInv, QueueInv
<1>8. CASE authority # "active"
  <2>1. conn' = N /\ queue' = queue
    BY <1>8 DEF Rollback, N
  <2>2. ClientInv'
    BY ClientFrame DEF IInv
  <2>3. ConnInv(conn)'
    BY <1>6, <2>1 DEF ConnInv
  <2>4. QueueInv(queue, conn)'
    BY <1>7, <2>1 DEF QueueInv
  <2>5. \A d \in Calls : Registered(conn, d)' => Registered(conn, d)
    BY <1>2, <1>3, <2>1 DEF Registered, Kinds, SlotKinds
  <2>6. ActiveInv' /\ CutInv'
    BY <1>8, <2>5 DEF IInv, ActiveInv, CutInv
  <2> QED
    BY <2>2, <2>3, <2>4, <2>6 DEF IInv
<1>9. CASE authority = "active"
  <2>1. DrainQueue(S, queue, N)
    BY <1>9 DEF Rollback, N
  <2>2. SlotInv(slots, conn) /\ (Patient /\ NoneYet("stall") => WorkInv(slots, conn))
          /\ ReclaimInv(slots, conn) /\ (NoneYet("crash") => EndInv(slots, conn))
    BY <1>9 DEF IInv, ActiveInv
  <2>3. /\ Drained(S, N) /\ QueueInv(queue', conn')
        /\ queue' # <<>> => ~HasRoom(ActiveIn(slots'))
    BY <1>1, <1>3, <1>4, <1>6, <1>7, <2>1, NestedResumes, DrainMoves
  <2>4. \A d \in Calls : /\ Registered(N, d) <=> Registered(conn, d)
                         /\ Backed(N, d) => Backed(conn, d) /\ (k = "acquire" => d # c)
                         /\ Yielded(N, d) <=> Yielded(conn, d)
                         /\ Away(conn, d) <=> Away(N, d)
                         /\ Reclaiming(N, d) <=> Reclaiming(conn, d)
                         /\ Ending(N, d) <=> Ending(conn, d)
                         /\ \A r \in {"queued", "granted", "acked"} :
                              N["resume"][d] = r => conn["resume"][d] = r
    <3>1. k = "acquire" => pc[c] \notin {"held", "cleared", "spawned"}
      BY <1>2 DEF IInv, ConnInv
    <3> QED
      BY <1>2, <1>3, <3>1
         DEF Registered, Backed, Yielded, Away, Reclaiming, Ending, SlotKinds, Kinds
  <2>5. CASE k = "acquire"
    <3>1. proc[c] = "none"
      BY <1>2, <2>5 DEF IInv, ConnInv
    <3>2. S = [slots EXCEPT ![c] = NoSlot]
      BY <2>5 DEF RolledBack, Token
    <3>3. S[c] = NoSlot /\ \A d \in Calls : d # c => S[d] = slots[d]
      BY <1>1, <3>2
    <3> HIDE DEF S
    <3>4. SlotInv(S, N)
      BY <2>2, <2>4, <2>5, <3>1, <3>3 DEF SlotInv, NoSlot, Registered
    <3>5. Patient' /\ NoneYet("stall")' => WorkInv(S, N)
      BY <2>2, <2>4, <3>1, <3>3 DEF WorkInv, Registered
    <3>6. ReclaimInv(S, N)
      BY <2>2, <2>4, <3>1, <3>3 DEF ReclaimInv
    <3>7. NoneYet("crash")' => EndInv(S, N)
      BY <2>2, <2>4, <3>1, <3>3 DEF EndInv
    <3> QED
      BY <1>3, <1>4, <1>5, <1>9, <2>3, <3>4, <3>5, <3>6, <3>7, DrainStep
  <2>6. CASE k = "resume"
    <3> DEFINE p == Parent[c]
    <3>1. /\ p \in Calls /\ pc[c] \in {"resuming", "lost", "returned"}
          /\ Patient => pc[c] # "returned"
      BY <1>2, <2>6, CallsAssumption DEF IInv, ConnInv
    <3>2. proc[p] \notin {"none", "gate"}
      BY <3>1 DEF IInv, ClientInv, CallerInv
    <3>3. /\ S[p].at = "suspended" /\ (S[p].bound = TRUE \/ S[p] = slots[p])
          /\ \A d \in Calls : d # p => S[d] = slots[d]
      <4>1. Token(k, c) = p /\ k # "acquire"
        BY <2>6 DEF Token
      <4>2. CASE slots[p].at = "suspended"
        BY <4>1, <4>2 DEF RolledBack
      <4>3. CASE slots[p].at # "suspended"
        <5>1. S = [slots EXCEPT ![p] = [at |-> "suspended", owner |-> captured[p],
                                        bound |-> TRUE]]
          BY <4>1, <4>3 DEF RolledBack
        <5> HIDE DEF S, p
        <5>2. S[p].at = "suspended" /\ S[p].bound = TRUE
          BY <1>1, <3>1, <5>1
        <5>3. \A d \in Calls : d # p => S[d] = slots[d]
          BY <1>1, <5>1
        <5> QED
          BY <5>2, <5>3
      <4> QED
        BY <4>2, <4>3
    <3> HIDE DEF S
    <3>4. SlotInv(S, N)
      <4>1. \A d \in Calls : Parent[d] \in Calls /\ proc[Parent[d]] = "live" /\ Yielded(N, d)
                               => S[Parent[d]].at = "suspended"
        BY <2>2, <2>4, <3>3 DEF SlotInv
      <4> QED
        BY <2>2, <2>4, <3>2, <3>3, <4>1 DEF SlotInv
    <3>5. Patient' /\ NoneYet("stall")' => WorkInv(S, N)
      <4> SUFFICES ASSUME Patient', NoneYet("stall")' PROVE WorkInv(S, N)
        OBVIOUS
      <4>1. pc[c] = "lost"
        BY <2>6, <3>1 DEF Waiting
      <4>2. ~Alive(p)
        BY <4>1 DEF IInv, ClientInv, CallerInv
      <4>3. ~Registered(N, p)
        BY <3>1, <4>2, AliveCall DEF Registered
      <4> QED
        BY <2>2, <2>4, <3>3, <4>3 DEF WorkInv
    <3>6. ReclaimInv(S, N)
      BY <2>2, <2>4, <3>3 DEF ReclaimInv
    <3>7. NoneYet("crash")' => EndInv(S, N)
      <4> SUFFICES ASSUME NoneYet("crash"), NEW d \in Calls, Parent[d] \in Calls,
                          proc[Parent[d]] = "dead", N["resume"][d] = "queued",
                          S[Parent[d]].at # "none"
                   PROVE  Ending(N, Parent[d])
        BY DEF EndInv
      <4>1. d # c /\ conn["resume"][d] = "queued"
        BY <1>3, <2>4, <2>6
      <4>2. Parent[d] # p
        BY <1>2, <2>2, <2>6, <4>1 DEF ReclaimInv
      <4> QED
        BY <2>2, <2>4, <3>3, <4>1, <4>2 DEF EndInv
    <3> QED
      BY <1>3, <1>4, <1>5, <1>9, <2>3, <3>4, <3>5, <3>6, <3>7, DrainStep
  <2> QED
    BY <1>2, <2>5, <2>6 DEF SlotKinds
<1> QED
  BY <1>8, <1>9

\* What spending a fault says about the budget.
LEMMA SpendFacts ==
    ASSUME TypeOK, NEW f \in Faults, Spend(f),
           \A g \in Faults : faults[g] <= FaultBudget[g]
    PROVE  /\ \A g \in Faults : faults'[g] <= FaultBudget[g]
           /\ ~NoneYet(f)'
           /\ \A g \in Faults \ {f} : NoneYet(g)' <=> NoneYet(g)
<1>1. \A g \in Faults : faults[g] \in Nat /\ FaultBudget[g] \in Nat
  BY BudgetAssumption DEF TypeOK
<1>2. faults' = [faults EXCEPT ![f] = faults[f] - 1] /\ faults[f] > 0
  BY DEF Spend
<1>3. faults'[f] = faults[f] - 1 /\ \A g \in Faults \ {f} : faults'[g] = faults[g]
  BY <1>2 DEF TypeOK
<1> QED
  BY <1>1, <1>2, <1>3 DEF NoneYet

\* ackTimer: the roll back of a stalled grant, on a spent fault.
LEMMA AckTimeoutStep ==
    ASSUME IInv, TypeOK', NEW k \in SlotKinds, NEW c \in Calls, AckTimeout(k, c)
    PROVE  IInv'
<1>1. /\ AckPending(k, c) /\ Rollback(k, c, "refused") /\ Spend("stall")
      /\ UNCHANGED <<authority, pc, joined, proc, signalled>>
      /\ k \in Kinds
  BY DEF AckTimeout, clientVars, Kinds
<1>2. /\ \A f \in Faults : faults'[f] <= FaultBudget[f]
      /\ ~NoneYet("stall")'
      /\ NoneYet("crash")' <=> NoneYet("crash")
      /\ Patient' <=> Patient
  BY <1>1, SpendFacts DEF Faults, IInv, ClientInv, FaultInv
<1> QED
  BY <1>1, <1>2, RollbackStep

\* A request that leaves the queue leaves the others in it.
LEMMA LeaveQueueStep ==
    ASSUME TypeOK, QueueInv(queue, conn), NEW k \in Kinds, NEW c \in Calls,
           LeaveQueue(k, c), SetConn(k, c, "none")
    PROVE  /\ QueueInv(queue, conn)'
           /\ queue' # <<>> => queue # <<>>
<1>1. conn \in Conns /\ queue \in Queues /\ SlotKinds \subseteq Kinds
  BY DEF TypeOK, Kinds
<1>2. conn'[k][c] = "none" /\ \A l \in Kinds, d \in Calls :
        <<l, d>> # <<k, c>> => conn'[l][d] = conn[l][d]
  BY <1>1 DEF SetConn
<1>3. \A l \in Kinds \ SlotKinds, d \in Calls :
        conn'[l][d] \in {"none", "sent", "ok", "refused"}
  BY <1>2 DEF QueueInv
<1>4. \A i \in 1..Len(queue) : /\ queue[i] = <<queue[i][1], queue[i][2]>>
                               /\ queue[i][1] \in Kinds /\ queue[i][2] \in Calls
  <2> SUFFICES ASSUME NEW i \in 1..Len(queue)
               PROVE  /\ queue[i] = <<queue[i][1], queue[i][2]>>
                      /\ queue[i][1] \in Kinds /\ queue[i][2] \in Calls
    OBVIOUS
  <2>1. queue[i] \in SlotKinds \X Calls
    BY <1>1
  <2> QED
    BY <1>1, <2>1
<1>5. \A i \in 1..Len(queue) : queue[i] # <<k, c>> =>
        conn'[queue[i][1]][queue[i][2]] = "queued"
  BY <1>2, <1>4 DEF QueueInv
<1>6. CASE \A i \in 1..Len(queue) : queue[i] # <<k, c>>
  <2>1. queue' = queue
    BY <1>6 DEF LeaveQueue
  <2> QED
    BY <1>3, <1>5, <1>6, <2>1 DEF QueueInv
<1>7. ASSUME NEW i \in 1..Len(queue), queue[i] = <<k, c>>,
             queue' = SubSeq(queue, 1, i - 1) \o SubSeq(queue, i + 1, Len(queue))
      PROVE  QueueInv(queue, conn)' /\ queue # <<>>
  <2>1. /\ Len(queue') = Len(queue) - 1
        /\ \A j \in 1..Len(queue') :
             queue'[j] = IF j < i THEN queue[j] ELSE queue[j + 1]
    <3> DEFINE A == SubSeq(queue, 1, i - 1)
               B == SubSeq(queue, i + 1, Len(queue))
    <3>1. A \in Queues /\ Len(A) = i - 1 /\ \A j \in 1..(i - 1) : A[j] = queue[j]
      BY <1>1
    <3>2. B \in Queues /\ Len(B) = Len(queue) - i
            /\ \A j \in 1..(Len(queue) - i) : B[j] = queue[i + j]
      BY <1>1
    <3>3. queue' = A \o B
      BY <1>7
    <3> HIDE DEF A, B
    <3>4. Len(queue') = Len(queue) - 1
      BY <1>1, <3>1, <3>2, <3>3
    <3>5. ASSUME NEW j \in 1..Len(queue')
          PROVE  queue'[j] = IF j < i THEN queue[j] ELSE queue[j + 1]
      <4>1. CASE j < i
        BY <3>1, <3>2, <3>3, <3>4, <4>1
      <4>2. CASE ~(j < i)
        <5>1. queue'[j] = B[j - (i - 1)]
          BY <3>1, <3>2, <3>3, <3>4, <4>2
        <5>2. j - (i - 1) \in 1..(Len(queue) - i) /\ i + (j - (i - 1)) = j + 1
          BY <3>4, <4>2
        <5> QED
          BY <3>2, <4>2, <5>1, <5>2
      <4> QED
        BY <4>1, <4>2
    <3> QED
      BY <3>4, <3>5
  <2>2. \A j \in 1..Len(queue') : /\ j < i => j \in 1..Len(queue) /\ j # i
                                  /\ ~(j < i) => j + 1 \in 1..Len(queue) /\ j + 1 # i
    BY <2>1
  <2>3. \A j \in 1..Len(queue) : j # i => queue[j] # <<k, c>>
    BY <1>7 DEF QueueInv
  <2>4. ASSUME NEW j \in 1..Len(queue')
        PROVE  conn'[queue'[j][1]][queue'[j][2]] = "queued"
    <3>1. CASE j < i
      BY <1>5, <2>1, <2>2, <2>3, <3>1
    <3>2. CASE ~(j < i)
      BY <1>5, <2>1, <2>2, <2>3, <3>2
    <3> QED
      BY <3>1, <3>2
  <2>5. ASSUME NEW j \in 1..Len(queue'), NEW m \in 1..Len(queue'), queue'[j] = queue'[m]
        PROVE  j = m
    <3> DEFINE Old(x) == IF x < i THEN x ELSE x + 1
    <3>1. Old(j) \in 1..Len(queue) /\ Old(m) \in 1..Len(queue)
      BY <2>2
    <3>2. queue[Old(j)] = queue[Old(m)]
      BY <2>1, <2>5
    <3>3. Old(j) = Old(m)
      BY <3>1, <3>2 DEF QueueInv
    <3> QED
      BY <3>3
  <2>6. queue # <<>>
    BY <1>7
  <2> QED
    BY <1>3, <2>4, <2>5, <2>6 DEF QueueInv
<1> QED
  BY <1>6, <1>7 DEF LeaveQueue

\* A closed connection rolls back its unacknowledged grant, or leaves the queue.
LEMMA CloseStep ==
    ASSUME IInv, TypeOK', NEW k \in Kinds, NEW c \in Calls, Close(k, c)
    PROVE  IInv'
<1>1. /\ conn[k][c] # "none" /\ ~Waiting(k, c)
      /\ UNCHANGED <<authority, pc, joined, proc, signalled, faults>>
  BY DEF Close, clientVars
<1>2. CASE AckPending(k, c)
  <2>1. Rollback(k, c, "none")
    BY <1>2 DEF Close
  <2>2. \A f \in Faults : faults'[f] <= FaultBudget[f]
    BY <1>1 DEF IInv, ClientInv, FaultInv
  <2> QED
    BY <1>1, <1>2, <2>1, <2>2, RollbackStep DEF NoneYet
<1>3. CASE ~AckPending(k, c)
  <2>1. LeaveQueue(k, c) /\ SetConn(k, c, "none") /\ slots' = slots
    BY <1>3 DEF Close
  <2>2. QueueInv(queue, conn)' /\ (queue' # <<>> => queue # <<>>)
    BY <2>1, LeaveQueueStep DEF IInv
  <2>3. authority = "active" => conn[k][c] # "granted"
    BY <1>3 DEF AckPending
  <2> QED
    BY <1>1, <2>1, <2>2, <2>3, AnswerStep DEF ConnStates
<1> QED
  BY <1>2, <1>3

------------------------------------------------------------------------------
(* The end of the tree *)

\* A cutoff refuses whoever waits and signals every child that has registered.
LEMMA TerminateStep ==
    ASSUME IInv, TypeOK', Terminate
    PROVE  IInv'
<1>1. /\ authority = "active" /\ authority' = "terminal" /\ queue' = <<>>
      /\ UNCHANGED <<pc, joined, proc>> /\ Spend("cutoff")
      /\ \A k \in Kinds, c \in Calls :
           conn'[k][c] = IF conn[k][c] = "queued" THEN "refused" ELSE conn[k][c]
      /\ signalled' = {c \in Controlled : slots[c].bound /\ Alive(c)}
  BY DEF Terminate, clientVars
<1>2. /\ \A f \in Faults : faults'[f] <= FaultBudget[f]
      /\ Patient' <=> Patient
  BY <1>1, SpendFacts DEF Faults, IInv, ClientInv, FaultInv
<1>3. \A x \in Calls \cup {Root} : Alive(x)' <=> Alive(x)
  BY <1>1 DEF Alive
<1>4. ClientInv'
  <2>1. JoinInv' /\ ChildInv' /\ TransitionInv'
    BY <1>1 DEF IInv, ClientInv, JoinInv, ChildInv, TransitionInv
  <2>2. CallerInv'
    BY <1>1, <1>3, CallsAssumption DEF IInv, ClientInv, CallerInv
  <2> QED
    BY <1>1, <1>2, <2>1, <2>2 DEF ClientInv, FaultInv
<1>5. ConnInv(conn')
  <2>1. \A k \in Kinds, c \in Calls : conn'[k][c] # "none" => conn[k][c] # "none"
    BY <1>1
  <2> QED
    BY <2>1, FewerOpen DEF IInv
<1>6. ConnInv(conn)'
  BY <1>1, <1>2, <1>5 DEF ConnInv
<1>7. QueueInv(queue, conn)'
  BY <1>1 DEF IInv, QueueInv
<1>8. CutInv'
  <2> SUFFICES ASSUME NEW c \in Calls, Registered(conn, c)'
               PROVE  c \in signalled'
    BY DEF CutInv
  <2>1. Registered(conn, c)
    BY <1>1 DEF Registered, Kinds
  <2>2. slots[c].at # "none" /\ slots[c].bound
    BY <1>1, <2>1 DEF IInv, ActiveInv, SlotInv
  <2>3. Alive(c)
    BY <2>1, AliveCall DEF Registered
  <2> QED
    BY <1>1, <2>2, <2>3 DEF Controlled
<1> QED
  BY <1>1, <1>4, <1>6, <1>7, <1>8 DEF IInv, ActiveInv

\* With the root its slots, its queue and the calls it made are gone.
LEMMA RootDiesStep ==
    ASSUME IInv, TypeOK', RootDies
    PROVE  IInv'
<1>1. /\ authority # "dead" /\ authority' = "dead" /\ queue' = <<>>
      /\ UNCHANGED <<joined, proc, signalled>> /\ Spend("rootdeath")
      /\ \A k \in Kinds, c \in Calls :
           conn'[k][c] = IF conn[k][c] \in {"sent", "queued", "granted", "acked"}
                         THEN "refused" ELSE conn[k][c]
      /\ \A c \in Calls : pc'[c] = IF Parent[c] = Root /\ pc[c] \notin {"idle", "returned"}
                                   THEN "lost" ELSE pc[c]
  BY DEF RootDies
<1>2. /\ \A f \in Faults : faults'[f] <= FaultBudget[f]
      /\ Patient' <=> Patient
  BY <1>1, SpendFacts DEF Faults, IInv, ClientInv, FaultInv
<1>3. ~Alive(Root)' /\ \A x \in Calls : Alive(x)' <=> Alive(x)
  BY <1>1, CallsAssumption DEF Alive
<1>4. ClientInv'
  <2>1. JoinInv'
    BY <1>1 DEF IInv, ClientInv, JoinInv, Participating, InTransition
  <2>2. ChildInv'
    BY <1>1 DEF IInv, ClientInv, ChildInv, BeforeSpawn
  <2>3. TransitionInv'
    BY <1>1 DEF IInv, ClientInv, TransitionInv, InTransition
  <2>4. CallerInv'
    BY <1>1, <1>3, CallsAssumption DEF IInv, ClientInv, CallerInv
  <2> QED
    BY <1>1, <1>2, <2>1, <2>2, <2>3, <2>4 DEF ClientInv, FaultInv
<1>5. ConnInv(conn)'
  <2>1. \A k \in Kinds, c \in Calls : conn'[k][c] # "none" => conn[k][c] # "none"
    BY <1>1
  <2> QED
    BY <1>1, <1>2, <2>1 DEF IInv, ConnInv, Kinds, SlotKinds
<1>6. QueueInv(queue, conn)'
  BY <1>1 DEF IInv, QueueInv
<1> QED
  BY <1>1, <1>4, <1>5, <1>6 DEF IInv, ActiveInv, CutInv

------------------------------------------------------------------------------
(* The clients *)

\* A count of zero leaves no delegation.
LEMMA NestedNone ==
    ASSUME NEW p, NestedDelegations(p) = 0, NEW c \in Calls, Parent[c] = p
    PROVE  ~joined[c]
<1> DEFINE J == {d \in Calls : Parent[d] = p /\ joined[d]}
<1>1. IsFiniteSet(J)
  BY CallsAssumption, FS_Subset
<1>2. J = {}
  BY <1>1, FS_EmptySet DEF NestedDelegations
<1> QED
  BY <1>2

\* A count other than zero has a delegation to show.
LEMMA NestedSome ==
    ASSUME NEW p, NestedDelegations(p) # 0
    PROVE  \E c \in Calls : Parent[c] = p /\ joined[c]
BY FS_EmptySet DEF NestedDelegations

\* A count of one leaves no second delegation.
LEMMA NestedOne ==
    ASSUME NEW p, NestedDelegations(p) = 1,
           NEW c \in Calls, NEW d \in Calls, Parent[c] = p, Parent[d] = p,
           joined[c], joined[d]
    PROVE  c = d
<1> DEFINE J == {e \in Calls : Parent[e] = p /\ joined[e]}
<1>1. IsFiniteSet(J) /\ Cardinality(J) = 1
  BY CallsAssumption, FS_Subset DEF NestedDelegations
<1>2. PICK x : J = {x}
  BY <1>1, FS_Singleton
<1> QED
  BY <1>2

\* Beside a delegation that is not the only one there is another.
LEMMA NestedMore ==
    ASSUME NEW p, NestedDelegations(p) # 1, NEW c \in Calls, Parent[c] = p, joined[c]
    PROVE  \E d \in Calls : d # c /\ Parent[d] = p /\ joined[d]
<1> DEFINE J == {e \in Calls : Parent[e] = p /\ joined[e]}
<1>1. J # {c}
  BY FS_Singleton DEF NestedDelegations
<1> QED
  BY <1>1

\* While the slot table is in force, a yielded slot of a running caller is
\* suspended.
LEMMA YieldedSuspended ==
    ASSUME IInv
    PROVE  \A d \in Calls : Parent[d] \in Calls /\ proc[Parent[d]] = "live" /\ Yielded(conn, d)
             => slots[Parent[d]].at = "suspended" \/ authority # "active"
BY DEF IInv, ActiveInv, SlotInv

\* A call that has begun and is neither over nor lost has a caller that runs.
LEMMA CallerRuns ==
    ASSUME IInv, NEW c \in Calls, pc[c] \notin {"idle", "returned", "lost"}
    PROVE  /\ Alive(Parent[c])
           /\ Parent[c] \in Calls => proc[Parent[c]] = "live"
<1>1. Alive(Parent[c])
  BY DEF IInv, ClientInv, CallerInv
<1>2. Parent[c] \in Calls => proc[Parent[c]] \notin {"none", "gate"}
  BY DEF IInv, ClientInv, CallerInv
<1> QED
  BY <1>1, <1>2, AliveCall

\* The client of the call c neither asks for its caller's slot nor begins to
\* participate.
LEMMA CallReclaims ==
    ASSUME IInv, NEW c \in Calls, UNCHANGED <<slots, proc>>,
           \A d \in Calls \ {c} : /\ pc'[d] = pc[d] /\ joined'[d] = joined[d]
                                  /\ \A k \in Kinds : conn'[k][d] = conn[k][d],
           \/ conn'["resume"][c] \in {conn["resume"][c], "none"}
           \/ conn["resume"][c] = "granted" /\ conn'["resume"][c] = "acked",
           Yielded(conn, c)' => Yielded(conn, c)
    PROVE  /\ authority = "active" => ReclaimInv(slots, conn)'
           /\ conn'["resume"][c] = "queued" => conn["resume"][c] = "queued"
<1>1. \A d \in Calls : /\ Reclaiming(conn, d)' => Reclaiming(conn, d)
                       /\ Yielded(conn, d)' => Yielded(conn, d)
                       /\ conn'["resume"][d] = "queued" => conn["resume"][d] = "queued"
                       /\ conn'["resume"][d] \in {"granted", "acked"} =>
                            conn["resume"][d] \in {"granted", "acked"}
  BY DEF Reclaiming, Yielded, Kinds, SlotKinds
<1>2. authority = "active" => ReclaimInv(slots, conn)
  BY DEF IInv, ActiveInv
<1> QED
  BY <1>1, <1>2, ReclaimFrame

\* A step of the client of the call c: it goes on, and with it its connections
\* and its participation, while its caller runs.
LEMMA CallStep ==
    ASSUME IInv, TypeOK', NEW c \in Calls,
           UNCHANGED <<authority, slots, queue, proc, signalled>>,
           \A d \in Calls \ {c} : /\ pc'[d] = pc[d] /\ joined'[d] = joined[d]
                                  /\ \A k \in Kinds : conn'[k][d] = conn[k][d],
           \A f \in Faults : faults'[f] <= FaultBudget[f],
           NoneYet("crash")' => NoneYet("crash"),
           Patient' => Patient,
           NoneYet("stall")' => NoneYet("stall"),
           \* the stage of the call
           pc'[c] \notin {"idle", "lost"},
           Alive(Parent[c]), Parent[c] \in Calls => proc[Parent[c]] = "live",
           pc'[c] \in InTransition \cup {"returned"} => ~joined'[c],
           pc'[c] \in Participating => (joined'[c] <=> Parent[c] # Root),
           pc'[c] \in InTransition \cup {"leaving"} \/ joined'[c] => Parent[c] # Root,
           pc'[c] \in BeforeSpawn => proc[c] = "none",
           pc'[c] = "spawned" => proc[c] # "none",
           proc[c] \notin {"gate", "live"} \/ pc'[c] = "spawned",
           \* the other calls of its caller
           \A d \in Calls \ {c} : Parent[d] = Parent[c] =>
             /\ pc'[c] \in InTransition => pc[d] \notin InTransition /\ ~joined[d]
             /\ joined'[c] => pc[d] \notin InTransition,
           \* its connections
           ConnInv(conn)',
           \A k \in SlotKinds : conn[k][c] = "queued" => conn'[k][c] = "queued",
           \A k \in Kinds \ SlotKinds : conn'[k][c] \in {"none", "sent", "ok", "refused"},
           conn'["register"][c] = "ok" => conn["register"][c] = "ok",
           conn'["resume"][c] = "queued" => conn["resume"][c] = "queued",
           \* what it takes from the slot table and gives to it
           Backed(conn, c)' => Backed(conn, c),
           Yielded(conn, c)' => \/ Yielded(conn, c)
                                \/ Parent[c] \in Calls => slots[Parent[c]].at = "suspended"
                                \/ authority # "active",
           authority = "active" => ReclaimInv(slots, conn)',
           Patient' /\ Away(conn, c) =>
                                \/ Away(conn, c)'
                                \/ authority # "active"
                                \/ \E e \in Calls \ {c} : Parent[e] = Parent[c] /\ Away(conn, e),
           authority = "active" /\ pc[c] = "spawned" /\ proc[c] = "dead" =>
             \/ pc'[c] = "spawned"
             \/ pc'[c] = "releasing" /\ conn'["release"][c] = "sent",
           pc[c] = "releasing" /\ conn["release"][c] = "sent" /\ authority = "active" =>
             pc'[c] = "releasing" /\ conn'["release"][c] = "sent",
           conn["acquire"][c] = "granted" /\ pc[c] # "acquiring" =>
             conn'["acquire"][c] = "granted" /\ pc'[c] # "acquiring"
    PROVE  IInv'
<1>1. \A x : Alive(x)' <=> Alive(x)
  BY DEF Alive
<1>2. ClientInv /\ TypeOK
  BY DEF IInv
<1>3. JoinInv'
  BY <1>2 DEF ClientInv, JoinInv
<1>4. ChildInv'
  BY <1>2 DEF ClientInv, ChildInv
<1>5. CallerInv'
  <2>1. \A d \in Calls : Parent[d] \in Calls /\ proc'[Parent[d]] \in {"none", "gate"}
                           => pc'[d] = "idle"
    BY <1>2 DEF ClientInv, CallerInv
  <2>2. \A d \in Calls : pc'[d] \notin {"idle", "returned"}
                           => (pc'[d] = "lost" <=> ~Alive(Parent[d])')
    BY <1>1, <1>2 DEF ClientInv, CallerInv
  <2> QED
    BY <2>1, <2>2 DEF CallerInv
<1>6. TransitionInv'
  BY <1>2 DEF ClientInv, TransitionInv
<1>7. FaultInv'
  BY <1>2 DEF ClientInv, FaultInv
<1>8. ClientInv'
  BY <1>3, <1>4, <1>5, <1>6, <1>7 DEF ClientInv
<1>9. QueueInv(queue, conn)'
  <2>1. \A k \in SlotKinds, d \in Calls : conn[k][d] = "queued" => conn'[k][d] = "queued"
    BY DEF Kinds
  <2>2. \A k \in Kinds \ SlotKinds, d \in Calls : conn'[k][d] \in {"none", "sent", "ok", "refused"}
    BY DEF IInv, QueueInv
  <2> QED
    BY <1>2, <2>1, <2>2, QueueFrame DEF IInv
<1>10. \A d \in Calls : Registered(conn, d)' => Registered(conn, d)
  BY DEF Registered, Kinds
<1>11. \A d \in Calls : Backed(conn, d)' => Backed(conn, d)
  BY DEF Backed, Kinds, SlotKinds
<1>12. \A d \in Calls : Parent[d] \in Calls /\ proc'[Parent[d]] = "live"
                              /\ Yielded(conn, d)'
                            => slots[Parent[d]].at = "suspended" \/ authority # "active"
  <2>1. authority = "active" => SlotInv(slots, conn)
    BY DEF IInv, ActiveInv
  <2>2. \A d \in Calls \ {c} : Yielded(conn, d)' <=> Yielded(conn, d)
    BY DEF Yielded, Kinds
  <2> QED
    BY <2>1, <2>2 DEF SlotInv
<1>13. Patient' => \A b, d \in Calls : Parent[d] = b /\ Away(conn, d) =>
         authority # "active" \/ \E e \in Calls : Parent[e] = b /\ Away(conn, e)'
  <2>1. \A d \in Calls \ {c} : Away(conn, d) => Away(conn, d)'
    BY DEF Away, Yielded, Reclaiming, Kinds, SlotKinds
  <2> QED
    BY <2>1
<1>14. authority = "active" /\ DrainComing => DrainComing'
  <2> SUFFICES ASSUME authority = "active", NEW d \in Calls,
                      \/ pc[d] = "spawned" /\ proc[d] = "dead"
                      \/ pc[d] = "releasing" /\ conn["release"][d] = "sent"
                      \/ conn["acquire"][d] = "granted" /\ pc[d] # "acquiring"
               PROVE  \/ pc'[d] = "spawned" /\ proc'[d] = "dead"
                      \/ pc'[d] = "releasing" /\ conn'["release"][d] = "sent"
                      \/ conn'["acquire"][d] = "granted" /\ pc'[d] # "acquiring"
    BY DEF DrainComing, Waiting
  <2>1. CASE d # c
    BY <2>1 DEF Kinds, SlotKinds
  <2>2. CASE d = c
    BY <2>2
  <2> QED
    BY <2>1, <2>2
<1>15. \A d \in Calls : SlotAlive(slots, d) => SlotAlive(slots, d)'
  BY <1>1 DEF SlotAlive
<1>16. authority = "active" /\ NoneYet("crash")' => EndInv(slots, conn)'
  <2> SUFFICES ASSUME authority = "active", NoneYet("crash")'
               PROVE  EndInv(slots, conn)'
    OBVIOUS
  <2>1. EndInv(slots, conn)
    BY DEF IInv, ActiveInv
  <2>2. \A d \in Calls : conn'["resume"][d] = "queued" => conn["resume"][d] = "queued"
    BY DEF Kinds, SlotKinds
  <2>3. \A d \in Calls : proc[d] = "dead" /\ Ending(conn, d) => Ending(conn, d)'
    BY DEF Ending, Kinds
  <2> QED
    BY <2>1, <2>2, <2>3, EndFrame
<1> QED
  BY <1>8, <1>9, <1>10, <1>11, <1>12, <1>13, <1>14, <1>15, <1>16, QuietStep

\* Start: the call has no connection and no child yet; the first delegation of
\* a generation asks for its suspension, a later one finds it suspended.
LEMMA StartStep ==
    ASSUME IInv, TypeOK', NEW c \in Calls, Start(c)
    PROVE  IInv'
<1> DEFINE p == Parent[c]
<1>1. /\ pc[c] = "idle" /\ authority = "active" /\ TransitionFree(p)
      /\ UNCHANGED <<authority, slots, queue, proc, signalled, faults>>
      /\ Alive(p) /\ (p \in Calls => proc[p] = "live")
  BY CallsAssumption, AliveCall DEF Start, serverVars, CanDelegate
<1>2. /\ proc[c] = "none" /\ ~joined[c]
      /\ \A k \in Kinds : conn[k][c] = "none"
  BY <1>1 DEF IInv, ClientInv, JoinInv, ChildInv, BeforeSpawn, ConnInv
<1>3. /\ pc \in [Calls -> PcStates] /\ joined \in [Calls -> BOOLEAN] /\ conn \in Conns
      /\ SlotKinds = {"acquire", "resume"}
      /\ Kinds = {"acquire", "resume", "suspend", "release", "register"}
  BY DEF IInv, TypeOK, Kinds, SlotKinds
<1>4. /\ \A f \in Faults : faults'[f] <= FaultBudget[f]
      /\ \A f \in Faults : NoneYet(f)' <=> NoneYet(f)
  BY <1>1 DEF IInv, ClientInv, FaultInv, NoneYet
<1>5. \A d \in Calls \ {c} : Parent[d] = p => pc[d] \notin InTransition
  BY <1>1 DEF TransitionFree, InTransition
<1>6. CASE MustYield(p)
  <2>1. /\ pc'[c] = "suspending" /\ p # Root
        /\ \A d \in Calls \ {c} : pc'[d] = pc[d]
        /\ joined' = joined
        /\ conn'["suspend"][c] = "sent"
        /\ \A k \in Kinds \ {"suspend"} : conn'[k][c] = "none"
        /\ \A d \in Calls \ {c}, k \in Kinds : conn'[k][d] = conn[k][d]
    BY <1>2, <1>3, <1>6 DEF Start, SetConn, MustYield
  <2>2. \A d \in Calls : Parent[d] = p => ~joined[d]
    BY <1>6, NestedNone DEF MustYield
  <2>3. ConnInv(conn)'
    BY <1>1, <1>2, <1>3, <1>4, <2>1 DEF IInv, ConnInv, Faults
  <2>4. ~Backed(conn, c)' /\ ~Yielded(conn, c)' /\ ~Away(conn, c)
    BY <1>1, <1>2, <2>1 DEF Backed, Yielded, Away
  <2> QED
    <3>1. \A d \in Calls \ {c} : joined'[d] = joined[d]
      BY <2>1
    <3>2. ~joined'[c]
      BY <1>2, <2>1
    <3> HIDE DEF p
    <3>3. \A k \in Kinds \ SlotKinds : conn'[k][c] \in {"none", "sent", "ok", "refused"}
      BY <1>3, <2>1
    <3> USE DEF p
    <3>4. ReclaimInv(slots, conn)' /\ conn'["resume"][c] # "queued"
      BY <1>1, <1>3, <2>1, <2>4, <3>1, CallReclaims
    <3> QED
      BY <1>1, <1>2, <1>3, <1>4, <1>5, <2>1, <2>2, <2>3, <2>4, <3>1, <3>2, <3>3, <3>4, CallStep
         DEF Participating, InTransition, BeforeSpawn, Faults
<1>7. CASE ~MustYield(p)
  <2>1. /\ pc'[c] = "acquiring"
        /\ \A d \in Calls \ {c} : pc'[d] = pc[d] /\ joined'[d] = joined[d]
        /\ joined'[c] = (p # Root)
        /\ conn'["acquire"][c] = "sent"
        /\ \A k \in Kinds \ {"acquire"} : conn'[k][c] = "none"
        /\ \A d \in Calls \ {c}, k \in Kinds : conn'[k][d] = conn[k][d]
    BY <1>2, <1>3, <1>7 DEF Start, SetConn
  <2>2. p \in Calls => slots[p].at = "suspended"
    <3> SUFFICES ASSUME p \in Calls PROVE slots[p].at = "suspended"
      OBVIOUS
    <3>1. PICK d \in Calls : Parent[d] = p /\ joined[d]
      BY <1>7, NestedSome, CallsAssumption DEF MustYield
    <3> QED
      BY <1>1, <3>1 DEF IInv, ActiveInv, SlotInv, Yielded
  <2>3. ConnInv(conn)'
    BY <1>1, <1>2, <1>3, <1>4, <2>1 DEF IInv, ConnInv, Faults
  <2>4. ~Backed(conn, c)' /\ ~Away(conn, c)
    BY <1>1, <1>2, <2>1 DEF Backed, Yielded, Away
  <2>5. joined'[c] <=> p # Root
    BY <2>1
  <2>6. \A k \in Kinds \ SlotKinds : conn'[k][c] = "none"
    BY <1>3, <2>1
  <2>7. ReclaimInv(slots, conn)' /\ conn'["resume"][c] # "queued"
    <3>1. \A d \in Calls : conn'["resume"][d] = conn["resume"][d]
      BY <1>2, <1>3, <2>1
    <3>2. \A d \in Calls : Parent[d] = p /\ p \in Calls => ~Reclaiming(conn, d)
      <4> SUFFICES ASSUME NEW d \in Calls, Parent[d] = p, p \in Calls
                   PROVE  ~Reclaiming(conn, d)
        OBVIOUS
      <4>1. PICK e \in Calls : Parent[e] = p /\ joined[e]
        BY <1>7, NestedSome, CallsAssumption DEF MustYield
      <4> QED
        BY <1>1, <4>1 DEF IInv, ActiveInv, ReclaimInv, Yielded
    <3>3. \A d \in Calls : Yielded(conn, d)' => Yielded(conn, d) \/ d = c
      BY <1>3, <2>1 DEF Yielded
    <3>4. \A d \in Calls : Reclaiming(conn, d)' <=> Reclaiming(conn, d)
      BY <3>1 DEF Reclaiming
    <3>5. ReclaimInv(slots, conn)
      BY <1>1 DEF IInv, ActiveInv
    <3> QED
      BY <1>1, <1>2, <1>3, <3>1, <3>2, <3>3, <3>4, <3>5 DEF ReclaimInv
  <2>8. ~(conn["acquire"][c] = "granted") /\ pc[c] # "spawned" /\ pc[c] # "releasing"
          /\ \A k \in SlotKinds : conn[k][c] # "queued"
    BY <1>1, <1>2, <1>3
  <2> QED
    <3>1. pc'[c] = "acquiring" /\ conn'["register"][c] = "none"
      BY <1>3, <2>1
    <3>2. \A d \in Calls \ {c} : /\ pc'[d] = pc[d] /\ joined'[d] = joined[d]
                                  /\ \A k \in Kinds : conn'[k][d] = conn[k][d]
      BY <2>1
    <3>3. /\ pc'[c] \notin {"idle", "lost"} /\ pc'[c] # "spawned"
          /\ pc'[c] \notin InTransition \cup {"returned", "leaving"}
          /\ pc'[c] \in Participating /\ pc'[c] \in BeforeSpawn
      BY <2>1 DEF Participating, InTransition, BeforeSpawn
    <3> QED
      BY <1>1, <1>2, <1>4, <1>5, <2>2, <2>3, <2>4, <2>5, <2>6, <2>7, <2>8, <3>1, <3>2, <3>3,
         CallStep
         DEF Faults
<1> QED
  BY <1>6, <1>7

\* OnSuspended: the call joins, and its caller's slot stays yielded.
LEMMA OnSuspendedStep ==
    ASSUME IInv, TypeOK', NEW c \in Calls, OnSuspended(c)
    PROVE  IInv'
<1>1. /\ pc[c] = "suspending" /\ conn["suspend"][c] = "ok"
      /\ UNCHANGED <<authority, slots, queue, proc, signalled, faults>>
  BY DEF OnSuspended, serverVars
<1>2. /\ pc \in [Calls -> PcStates] /\ joined \in [Calls -> BOOLEAN] /\ conn \in Conns
      /\ SlotKinds = {"acquire", "resume"}
      /\ Kinds = {"acquire", "resume", "suspend", "release", "register"}
  BY DEF IInv, TypeOK, Kinds, SlotKinds
<1>3. /\ \A f \in Faults : faults'[f] <= FaultBudget[f]
      /\ \A f \in Faults : NoneYet(f)' <=> NoneYet(f)
  BY <1>1 DEF IInv, ClientInv, FaultInv, NoneYet
<1>4. /\ proc[c] = "none" /\ Parent[c] # Root
      /\ conn["acquire"][c] = "none" /\ conn["release"][c] = "none"
      /\ conn["resume"][c] = "none" /\ conn["register"][c] = "none"
  BY <1>1 DEF IInv, ClientInv, JoinInv, ChildInv, BeforeSpawn, InTransition, ConnInv
<1>5. Alive(Parent[c]) /\ (Parent[c] \in Calls => proc[Parent[c]] = "live")
  BY <1>1, CallerRuns
<1>6. \A d \in Calls \ {c} : Parent[d] = Parent[c] => pc[d] \notin InTransition
  BY <1>1 DEF IInv, ClientInv, TransitionInv, InTransition
<1>7. /\ pc'[c] = "acquiring" /\ joined'[c]
      /\ \A d \in Calls \ {c} : pc'[d] = pc[d] /\ joined'[d] = joined[d]
      /\ conn'["acquire"][c] = "sent" /\ conn'["suspend"][c] = "none"
      /\ \A k \in Kinds \ {"acquire", "suspend"} : conn'[k][c] = conn[k][c]
      /\ \A d \in Calls \ {c}, k \in Kinds : conn'[k][d] = conn[k][d]
  BY <1>2 DEF OnSuspended
<1>8. ConnInv(conn)'
  BY <1>1, <1>2, <1>3, <1>4, <1>7 DEF IInv, ConnInv, Faults
<1>9. ~Backed(conn, c)' /\ Yielded(conn, c) /\ Away(conn, c)'
  BY <1>1, <1>7 DEF Backed, Yielded, Away
<1>10. /\ authority = "active" => ReclaimInv(slots, conn)'
       /\ conn'["resume"][c] = "queued" => conn["resume"][c] = "queued"
  BY <1>1, <1>2, <1>7, <1>9, CallReclaims
<1> QED
  BY <1>1, <1>2, <1>3, <1>4, <1>5, <1>6, <1>7, <1>8, <1>9, <1>10, CallStep
     DEF Participating, InTransition, BeforeSpawn, Faults

\* What every step of a client that spends no fault starts from.
LEMMA ClientFacts ==
    ASSUME IInv
    PROVE  /\ pc \in [Calls -> PcStates] /\ joined \in [Calls -> BOOLEAN] /\ conn \in Conns
           /\ SlotKinds = {"acquire", "resume"}
           /\ Kinds = {"acquire", "resume", "suspend", "release", "register"}
           /\ faults' = faults => /\ \A f \in Faults : faults'[f] <= FaultBudget[f]
                                  /\ \A f \in Faults : NoneYet(f)' <=> NoneYet(f)
BY DEF IInv, TypeOK, Kinds, SlotKinds, ClientInv, FaultInv, NoneYet

\* OnGrant: the acknowledged grant is still the call's.
LEMMA OnGrantStep ==
    ASSUME IInv, TypeOK', NEW k \in SlotKinds, NEW c \in Calls, OnGrant(k, c)
    PROVE  IInv'
<1>1. /\ conn[k][c] = "granted" /\ Waiting(k, c)
      /\ UNCHANGED <<authority, slots, queue, pc, joined, proc, signalled, faults>>
  BY DEF OnGrant, serverVars, clientVars
<1>2. pc[c] = IF k = "acquire" THEN "acquiring" ELSE "resuming"
  BY <1>1 DEF Waiting, SlotKinds
<1>3. /\ conn'[k][c] = "acked"
      /\ \A l \in Kinds \ {k} : conn'[l][c] = conn[l][c]
      /\ \A d \in Calls \ {c}, l \in Kinds : conn'[l][d] = conn[l][d]
  BY ClientFacts DEF OnGrant, SetConn
<1>4. ConnInv(conn)'
  <2>1. \A d \in Calls, l \in Kinds : conn'[l][d] # "none" => conn[l][d] # "none"
    BY <1>1, <1>3
  <2>2. ConnInv(conn')
    BY <2>1, FewerOpen DEF IInv
  <2> QED
    BY <1>1, <2>2 DEF ConnInv, NoneYet
<1>5. Backed(conn, c)' => Backed(conn, c)
  BY <1>1, <1>2, <1>3, ClientFacts DEF Backed
<1>6. /\ Yielded(conn, c)' => Yielded(conn, c)
      /\ Away(conn, c) => Away(conn, c)'
  BY <1>1, <1>2, <1>3, ClientFacts DEF Yielded, Away, Reclaiming
<1>7. \A d \in Calls \ {c} : Parent[d] = Parent[c] =>
             /\ pc'[c] \in InTransition => pc[d] \notin InTransition /\ ~joined[d]
             /\ joined'[c] => pc[d] \notin InTransition
  BY <1>1 DEF IInv, ClientInv, TransitionInv
<1>8. /\ Alive(Parent[c]) /\ (Parent[c] \in Calls => proc[Parent[c]] = "live")
      /\ pc[c] \in {"acquiring", "resuming"}
  BY <1>2, CallerRuns
<1>9. /\ pc[c] \in InTransition \cup {"idle", "returned"} => ~joined[c]
      /\ pc[c] \in Participating => (joined[c] <=> Parent[c] # Root)
      /\ pc[c] \in InTransition \cup {"leaving"} \/ joined[c] => Parent[c] # Root
      /\ pc[c] \in BeforeSpawn => proc[c] = "none"
      /\ proc[c] \notin {"gate", "live"}
  BY <1>8 DEF IInv, ClientInv, JoinInv, ChildInv
<1>10. /\ \A l \in SlotKinds : conn[l][c] = "queued" => conn'[l][c] = "queued"
       /\ \A l \in Kinds \ SlotKinds : conn'[l][c] \in {"none", "sent", "ok", "refused"}
       /\ conn'["register"][c] = conn["register"][c]
  BY <1>1, <1>3, ClientFacts DEF IInv, QueueInv
<1>11. conn["acquire"][c] = "granted" /\ pc[c] # "acquiring" =>
             conn'["acquire"][c] = "granted" /\ pc'[c] # "acquiring"
  BY <1>1, <1>2, <1>3, ClientFacts
<1>12. /\ authority = "active" => ReclaimInv(slots, conn)'
       /\ conn'["resume"][c] = "queued" => conn["resume"][c] = "queued"
  BY <1>1, <1>3, <1>6, ClientFacts, CallReclaims
<1> QED
  BY <1>12, <1>1, <1>3, <1>4, <1>5, <1>6, <1>7, <1>8, <1>9, <1>10, <1>11, ClientFacts, CallStep
     DEF Faults

\* A call that no longer waits for an answer to its request of kind k: what the
\* closed connection and the new stage s must satisfy.
LEMMA AnsweredStep ==
    ASSUME IInv, TypeOK', NEW k \in Kinds \ {"register"}, NEW c \in Calls, NEW s \in PcStates,
           Waiting(k, c), conn[k][c] \notin {"none", "queued"},
           pc' = [pc EXCEPT ![c] = s], SetConn(k, c, "none"),
           UNCHANGED <<authority, slots, queue, joined, proc, signalled, faults>>,
           s \notin {"idle", "lost", "spawned"} \cup InTransition,
           s = "returned" => ~joined[c],
           s \in Participating => (joined[c] <=> Parent[c] # Root),
           s = "leaving" => Parent[c] # Root,
           s \in BeforeSpawn => k = "acquire" /\ s = "held",
           s = "held" => conn[k][c] = "confirmed",
           k = "suspend" => conn[k][c] # "ok",
           k = "resume" => conn[k][c] # "sent",
           k = "release" => conn[k][c] # "sent" \/ authority # "active"
    PROVE  IInv'
<1>1. pc[c] = CASE k = "suspend"  -> "suspending"
                [] k = "acquire"  -> "acquiring"
                [] k = "release"  -> "releasing"
                [] k = "resume"   -> "resuming"
  BY ClientFacts DEF Waiting
<1>2. pc'[c] = s /\ \A d \in Calls \ {c} : pc'[d] = pc[d]
  BY ClientFacts
<1>3. /\ conn'[k][c] = "none"
      /\ \A l \in Kinds \ {k} : conn'[l][c] = conn[l][c]
      /\ \A d \in Calls \ {c}, l \in Kinds : conn'[l][d] = conn[l][d]
  BY ClientFacts DEF SetConn
<1>4. /\ pc[c] \in {"suspending", "acquiring", "releasing", "resuming"}
      /\ pc[c] \notin {"suspending", "acquiring"} => k \notin {"acquire", "suspend"}
  BY <1>1, ClientFacts
<1>5. /\ Alive(Parent[c]) /\ (Parent[c] \in Calls => proc[Parent[c]] = "live")
  BY <1>4, CallerRuns
<1>6. /\ proc[c] \notin {"gate", "live"}
      /\ k \in {"acquire", "suspend"} => proc[c] = "none"
      /\ joined[c] => Parent[c] # Root
  BY <1>1, <1>4, ClientFacts DEF IInv, ClientInv, ChildInv, JoinInv, BeforeSpawn
<1>7. conn["acquire"][c] # "none" => k = "acquire" \/ k = "resume"
  BY <1>1, ClientFacts DEF IInv, ConnInv
<1>8. ConnInv(conn)'
  <2>1. /\ conn'["release"][c] = "none" /\ conn'["resume"][c] = "none"
    BY <1>1, <1>3, ClientFacts DEF IInv, ConnInv
  <2>2. conn'["acquire"][c] # "none" => /\ proc[c] = "none"
                                         /\ s \in {"leaving", "returned"}
    <3> SUFFICES ASSUME conn'["acquire"][c] # "none"
                 PROVE  proc[c] = "none" /\ s \in {"leaving", "returned"}
      OBVIOUS
    <3>1. k # "acquire" /\ conn["acquire"][c] # "none"
      BY <1>3, ClientFacts
    <3>2. k = "resume" /\ proc[c] = "none"
      BY <1>7, <3>1, ClientFacts DEF IInv, ConnInv
    <3>3. pc[c] = "resuming"
      BY <1>1, <3>2
    <3>4. ~joined[c] /\ Parent[c] # Root
      BY <3>3 DEF IInv, ClientInv, JoinInv, InTransition
    <3> QED
      BY <3>2, <3>4 DEF PcStates, BeforeSpawn, Participating, InTransition
  <2>3. conn'["suspend"][c] # "none" => Parent[c] # Root /\ ~Patient
    BY <1>1, <1>3, ClientFacts DEF IInv, ConnInv
  <2>4. proc[c] = "none" => conn'["register"][c] = "none"
    BY <1>3, ClientFacts DEF IInv, ConnInv
  <2>5. Patient' <=> Patient
    BY ClientFacts DEF Faults
  <2> QED
    BY <1>2, <1>3, <2>1, <2>2, <2>3, <2>4, <2>5, ClientFacts DEF IInv, ConnInv
<1>9. Backed(conn, c)' => Backed(conn, c)
  BY <1>1, <1>2, <1>3, <1>6, ClientFacts DEF Backed, BeforeSpawn
<1>10. /\ Yielded(conn, c)' => Yielded(conn, c)
       /\ Away(conn, c) => Away(conn, c)' \/ (k = "resume" /\ conn[k][c] = "queued")
  BY <1>1, <1>2, <1>3, ClientFacts DEF Yielded, Away, Reclaiming, InTransition
<1>11. \A d \in Calls \ {c} : Parent[d] = Parent[c] =>
             (joined[c] => pc[d] \notin InTransition)
  BY DEF IInv, ClientInv, TransitionInv
<1>12. /\ \A l \in SlotKinds : conn[l][c] = "queued" => conn'[l][c] = "queued"
       /\ \A l \in Kinds \ SlotKinds : conn'[l][c] \in {"none", "sent", "ok", "refused"}
       /\ conn'["register"][c] = conn["register"][c]
  BY <1>3, ClientFacts DEF IInv, QueueInv
<1>13. conn["acquire"][c] = "granted" /\ pc[c] # "acquiring" =>
             conn'["acquire"][c] = "granted" /\ pc'[c] # "acquiring"
  BY <1>1, <1>2, <1>3, ClientFacts DEF PcStates, Participating, BeforeSpawn
<1>14. pc[c] = "releasing" => conn["release"][c] # "sent" \/ authority # "active"
  BY <1>1, ClientFacts
<1>15. /\ pc'[c] \notin {"idle", "lost", "spawned"} /\ pc'[c] \notin InTransition
       /\ pc'[c] \in Participating => (joined'[c] <=> Parent[c] # Root)
       /\ pc'[c] = "returned" => ~joined'[c]
       /\ pc'[c] = "leaving" => Parent[c] # Root
       /\ pc'[c] \in BeforeSpawn => proc[c] = "none"
  BY <1>2, <1>6
<1>16. pc[c] # "spawned" /\ joined' = joined
  BY <1>4
<1>17. /\ authority = "active" => ReclaimInv(slots, conn)'
       /\ conn'["resume"][c] = "queued" => conn["resume"][c] = "queued"
  BY <1>2, <1>3, <1>10, <1>16, ClientFacts, CallReclaims
<1> QED
  BY <1>17, <1>2, <1>3, <1>5, <1>6, <1>8, <1>9, <1>10, <1>11, <1>12, <1>13, <1>14, <1>15, <1>16,
     ClientFacts, CallStep DEF Faults

\* OnConfirmed: the confirmed lease is backed, the confirmed resumption is over.
LEMMA OnConfirmedStep ==
    ASSUME IInv, TypeOK', NEW k \in SlotKinds, NEW c \in Calls, OnConfirmed(k, c)
    PROVE  IInv'
<1> DEFINE s == IF k = "acquire" THEN "held" ELSE "returned"
<1>1. /\ conn[k][c] = "confirmed" /\ Waiting(k, c) /\ k \in Kinds \ {"register"}
      /\ UNCHANGED <<authority, slots, queue, joined, proc, signalled, faults>>
      /\ pc' = [pc EXCEPT ![c] = s] /\ SetConn(k, c, "none")
  BY ClientFacts DEF OnConfirmed, serverVars
<1>2. pc[c] = IF k = "acquire" THEN "acquiring" ELSE "resuming"
  BY <1>1, ClientFacts DEF Waiting
<1>3. /\ k = "acquire" => (joined[c] <=> Parent[c] # Root)
      /\ k # "acquire" => ~joined[c]
  BY <1>2 DEF IInv, ClientInv, JoinInv, Participating, InTransition
<1> QED
  BY <1>1, <1>2, <1>3, AnsweredStep, ClientFacts
     DEF PcStates, Participating, InTransition, BeforeSpawn

\* OnRefused: whatever was refused, the call holds nothing more than before.
LEMMA OnRefusedStep ==
    ASSUME IInv, TypeOK', NEW k \in Kinds, NEW c \in Calls, OnRefused(k, c)
    PROVE  IInv'
<1> DEFINE s == IF k \in {"acquire", "release"} THEN AfterSlot(c) ELSE "returned"
<1>1. /\ conn[k][c] = "refused" /\ Waiting(k, c) /\ k \in Kinds \ {"register"}
      /\ UNCHANGED <<authority, slots, queue, joined, proc, signalled, faults>>
      /\ pc' = [pc EXCEPT ![c] = s] /\ SetConn(k, c, "none")
  BY DEF OnRefused, serverVars
<1>2. k \in {"acquire", "release"} => pc[c] \in {"acquiring", "releasing"}
  BY <1>1 DEF Waiting
<1>3. k \notin {"acquire", "release"} => pc[c] \in {"suspending", "resuming"}
  BY <1>1, ClientFacts DEF Waiting
<1>4. /\ k \in {"acquire", "release"} => (joined[c] <=> Parent[c] # Root)
      /\ k \notin {"acquire", "release"} => ~joined[c]
  BY <1>2, <1>3 DEF IInv, ClientInv, JoinInv, Participating, InTransition
<1>5. /\ s \in {"leaving", "returned"}
      /\ s = "leaving" <=> k \in {"acquire", "release"} /\ joined[c]
  BY DEF AfterSlot
<1> HIDE DEF s
<1> QED
  BY <1>1, <1>4, <1>5, AnsweredStep
     DEF PcStates, Participating, InTransition, BeforeSpawn

\* OnReleased: the slot is free, a participant must still resume.
LEMMA OnReleasedStep ==
    ASSUME IInv, TypeOK', NEW c \in Calls, OnReleased(c)
    PROVE  IInv'
<1> DEFINE s == AfterSlot(c)
<1>1. /\ conn["release"][c] = "ok" /\ pc[c] = "releasing" /\ Waiting("release", c)
      /\ UNCHANGED <<authority, slots, queue, joined, proc, signalled, faults>>
      /\ pc' = [pc EXCEPT ![c] = s] /\ SetConn("release", c, "none")
      /\ "release" \in Kinds \ {"register"}
  BY ClientFacts DEF OnReleased, serverVars, Waiting
<1>2. joined[c] <=> Parent[c] # Root
  BY <1>1 DEF IInv, ClientInv, JoinInv, Participating
<1>3. s \in {"leaving", "returned"} /\ (s = "leaving" <=> joined[c])
  BY DEF AfterSlot
<1> HIDE DEF s
<1> QED
  BY <1>1, <1>2, <1>3, AnsweredStep
     DEF PcStates, Participating, InTransition, BeforeSpawn

\* PassCheck: the call is as far as before.
LEMMA PassCheckStep ==
    ASSUME IInv, TypeOK', NEW c \in Calls, PassCheck(c)
    PROVE  IInv'
<1>1. /\ pc[c] = "held" /\ pc' = [pc EXCEPT ![c] = "cleared"]
      /\ UNCHANGED <<authority, slots, queue, conn, joined, proc, signalled, faults>>
  BY DEF PassCheck, serverVars
<1>2. pc'[c] = "cleared" /\ \A d \in Calls \ {c} : pc'[d] = pc[d]
  BY <1>1, ClientFacts
<1>3. /\ Alive(Parent[c]) /\ (Parent[c] \in Calls => proc[Parent[c]] = "live")
      /\ proc[c] = "none" /\ (joined[c] <=> Parent[c] # Root)
  BY <1>1, CallerRuns DEF IInv, ClientInv, JoinInv, ChildInv, BeforeSpawn, Participating
<1>4. \A d \in Calls \ {c} : Parent[d] = Parent[c] =>
             (joined[c] => pc[d] \notin InTransition)
  BY DEF IInv, ClientInv, TransitionInv
<1>5. ConnInv(conn)'
  BY <1>1, <1>2, ClientFacts DEF IInv, ConnInv, Faults
<1>6. /\ Backed(conn, c)' => Backed(conn, c)
      /\ Yielded(conn, c)' => Yielded(conn, c)
      /\ Away(conn, c) => Away(conn, c)'
      /\ conn["acquire"][c] = "none"
  BY <1>1, <1>2 DEF Backed, Yielded, Away, IInv, ConnInv
<1>7. \A k \in Kinds \ SlotKinds : conn[k][c] \in {"none", "sent", "ok", "refused"}
  BY DEF IInv, QueueInv
<1>8. authority = "active" => ReclaimInv(slots, conn)'
  BY <1>1, <1>2, <1>6, CallReclaims
<1> QED
  BY <1>1, <1>2, <1>3, <1>4, <1>5, <1>6, <1>7, <1>8, ClientFacts, CallStep
     DEF PcStates, Participating, InTransition, BeforeSpawn, Faults

\* Cancel and DeadlinePasses: the connection stays open behind the call that has
\* given up, on a spent fault.
LEMMA GiveUpStep ==
    ASSUME IInv, TypeOK', NEW c \in Calls, Cancel(c) \/ DeadlinePasses(c)
    PROVE  IInv'
<1>1. /\ pc[c] \in {"suspending", "acquiring", "resuming"}
      /\ Spend("cancel") \/ Spend("deadline")
      /\ pc' = [pc EXCEPT ![c] = AfterSlot(c)]
      /\ UNCHANGED <<authority, slots, queue, conn, joined, proc, signalled>>
  BY DEF Cancel, DeadlinePasses, serverVars
<1>2. /\ \A f \in Faults : faults'[f] <= FaultBudget[f]
      /\ ~Patient'
      /\ \A f \in {"crash", "stall"} : NoneYet(f)' <=> NoneYet(f)
  <2>1. CASE Spend("cancel")
    BY <2>1, SpendFacts DEF Faults, IInv, ClientInv, FaultInv
  <2>2. CASE Spend("deadline")
    BY <2>2, SpendFacts DEF Faults, IInv, ClientInv, FaultInv
  <2> QED
    BY <1>1, <2>1, <2>2
<1>3. /\ Alive(Parent[c]) /\ (Parent[c] \in Calls => proc[Parent[c]] = "live")
      /\ pc[c] # "resuming" => proc[c] = "none"
      /\ proc[c] \notin {"gate", "live"}
      /\ joined[c] => pc[c] = "acquiring" /\ Parent[c] # Root
  BY <1>1, CallerRuns
     DEF IInv, ClientInv, JoinInv, ChildInv, BeforeSpawn, Participating, InTransition
<1>4. /\ pc'[c] = IF joined[c] THEN "leaving" ELSE "returned"
      /\ \A d \in Calls \ {c} : pc'[d] = pc[d]
  BY <1>1, ClientFacts DEF AfterSlot
<1>5. \A d \in Calls \ {c} : Parent[d] = Parent[c] =>
             (joined[c] => pc[d] \notin InTransition)
  BY DEF IInv, ClientInv, TransitionInv
<1>6. /\ conn["acquire"][c] # "none" => pc[c] \in {"acquiring", "resuming"}
      /\ conn["resume"][c] # "none" => pc[c] = "resuming"
  BY <1>1 DEF IInv, ConnInv
<1>7. ConnInv(conn)'
  <2>1. conn'["resume"][c] # "none" => Parent[c] # Root /\ pc'[c] = "returned"
    BY <1>1, <1>3, <1>4, <1>6 DEF IInv, ConnInv
  <2>2. conn'["acquire"][c] # "none" =>
          proc[c] = "none" /\ pc'[c] \in {"leaving", "returned"}
    BY <1>1, <1>4 DEF IInv, ConnInv
  <2>3. conn'["release"][c] = "none"
    BY <1>1 DEF IInv, ConnInv
  <2>4. \A d \in Calls \ {c} : conn["resume"][d] # "none" =>
          /\ Parent[d] # Root
          /\ pc'[d] \in {"resuming", "lost", "returned"}
    BY <1>4 DEF IInv, ConnInv
  <2>5. \A d \in Calls : conn["suspend"][d] # "none" => Parent[d] # Root
    BY DEF IInv, ConnInv
  <2> QED
    BY <1>1, <1>2, <1>4, <2>1, <2>2, <2>3, <2>4, <2>5, ClientFacts DEF IInv, ConnInv
<1>8. ~Backed(conn, c)' /\ (Yielded(conn, c)' => Yielded(conn, c))
  BY <1>1, <1>4 DEF Backed, Yielded
<1>9. \A k \in Kinds \ SlotKinds : conn[k][c] \in {"none", "sent", "ok", "refused"}
  BY DEF IInv, QueueInv
<1>10. /\ pc'[c] \in {"leaving", "returned"} /\ (pc'[c] = "leaving" <=> joined'[c])
       /\ pc'[c] \notin InTransition /\ pc'[c] \notin BeforeSpawn
       /\ pc'[c] \in Participating <=> joined'[c]
       /\ joined'[c] => Parent[c] # Root
       /\ pc'[c] \in Participating => Parent[c] # Root
  BY <1>1, <1>3, <1>4 DEF Participating, InTransition, BeforeSpawn
<1>11. \A d \in Calls \ {c} : /\ joined'[d] = joined[d]
                              /\ \A k \in Kinds : conn'[k][d] = conn[k][d]
  BY <1>1
<1>12. authority = "active" => ReclaimInv(slots, conn)'
  BY <1>1, <1>4, <1>8, <1>11, CallReclaims
<1>13. conn["acquire"][c] = "granted" /\ pc[c] # "acquiring" =>
         conn'["acquire"][c] = "granted" /\ pc'[c] # "acquiring"
  BY <1>1, <1>4
<1>14. pc'[c] \notin {"idle", "lost", "spawned"} /\ pc[c] \notin {"spawned", "releasing"}
  BY <1>1, <1>10
<1> QED
  BY <1>1, <1>2, <1>3, <1>4, <1>5, <1>7, <1>8, <1>9, <1>10, <1>11, <1>12, <1>13, <1>14,
     CallStep DEF Faults

\* A client's step disturbs the stage of its own connections only.
LEMMA ConnFrame ==
    ASSUME IInv, NEW c \in Calls, UNCHANGED <<proc, faults>>,
           \A d \in Calls \ {c} : pc'[d] = pc[d] /\ \A k \in Kinds : conn'[k][d] = conn[k][d],
           pc'[c] # "idle",
           conn'["register"][c] = conn["register"][c],
           conn'["acquire"][c] # "none" =>
             proc[c] = "none" /\ pc'[c] \in {"acquiring", "leaving", "resuming",
                                             "returned", "lost"},
           conn'["release"][c] # "none" =>
             proc[c] \in {"none", "dead"} /\ pc'[c] \in {"releasing", "lost"},
           conn'["resume"][c] # "none" =>
             /\ Parent[c] # Root
             /\ pc'[c] \in {"resuming", "lost"} \/ (pc'[c] = "returned" /\ ~Patient),
           conn'["suspend"][c] # "none" =>
             Parent[c] # Root /\ (pc'[c] \in {"suspending", "lost"} \/ ~Patient)
    PROVE  ConnInv(conn)'
<1>1. Patient' <=> Patient
  BY DEF NoneYet
<1>2. \A d \in Calls \ {c}, k \in Kinds : pc'[d] = "idle" => conn'[k][d] = "none"
  BY DEF IInv, ConnInv
<1>3. \A d \in Calls : proc[d] = "none" => conn'["register"][d] = "none"
  BY ClientFacts DEF IInv, ConnInv
<1>4. \A d \in Calls \ {c} : /\ conn'["acquire"][d] = conn["acquire"][d]
                             /\ conn'["release"][d] = conn["release"][d]
                             /\ conn'["resume"][d] = conn["resume"][d]
                             /\ conn'["suspend"][d] = conn["suspend"][d]
  BY ClientFacts
<1> QED
  BY <1>1, <1>2, <1>3, <1>4 DEF IInv, ConnInv

\* Finish: the release of a dead child's slot is on its way, or the tree is over.
LEMMA FinishStep ==
    ASSUME IInv, TypeOK', NEW c \in Calls, Finish(c)
    PROVE  IInv'
<1>1. /\ (pc[c] = "spawned" /\ proc[c] = "dead") \/ pc[c] = "held"
      /\ UNCHANGED <<authority, slots, queue, joined, proc, signalled, faults>>
  BY DEF Finish, serverVars
<1>2. /\ Alive(Parent[c]) /\ (Parent[c] \in Calls => proc[Parent[c]] = "live")
      /\ proc[c] \in {"none", "dead"} /\ (joined[c] <=> Parent[c] # Root)
  BY <1>1, CallerRuns DEF IInv, ClientInv, JoinInv, ChildInv, BeforeSpawn, Participating
<1>3. \A d \in Calls \ {c} : Parent[d] = Parent[c] =>
             (joined[c] => pc[d] \notin InTransition)
  BY DEF IInv, ClientInv, TransitionInv
<1>4. /\ conn["acquire"][c] = "none" /\ conn["release"][c] = "none"
      /\ conn["resume"][c] = "none"
      /\ conn["suspend"][c] # "none" => Parent[c] # Root /\ ~Patient
  BY <1>1 DEF IInv, ConnInv
<1>5. \A k \in Kinds \ SlotKinds : conn[k][c] \in {"none", "sent", "ok", "refused"}
  BY DEF IInv, QueueInv
<1>6. CASE Parent[c] = Root /\ authority = "terminal" /\ pc' = [pc EXCEPT ![c] = "returned"]
             /\ conn' = conn
  <2>1. pc'[c] = "returned" /\ \A d \in Calls \ {c} : pc'[d] = pc[d]
    BY <1>6, ClientFacts
  <2>2. ConnInv(conn)'
    BY <1>1, <1>4, <1>6, <2>1, ConnFrame
  <2>3. ~Backed(conn, c)' /\ (Yielded(conn, c)' => Yielded(conn, c))
    BY <1>1, <2>1 DEF Backed, Yielded
  <2>4. authority = "active" => ReclaimInv(slots, conn)'
    BY <1>1, <1>6, <2>1, <2>3, CallReclaims
  <2> QED
    BY <2>4, <1>1, <1>2, <1>3, <1>4, <1>5, <1>6, <2>1, <2>2, <2>3, ClientFacts, CallStep
       DEF Participating, InTransition, BeforeSpawn, Faults
<1>7. CASE pc' = [pc EXCEPT ![c] = "releasing"] /\ SetConn("release", c, "sent")
  <2>1. /\ pc'[c] = "releasing" /\ \A d \in Calls \ {c} : pc'[d] = pc[d]
        /\ conn'["release"][c] = "sent"
        /\ \A k \in Kinds \ {"release"} : conn'[k][c] = conn[k][c]
        /\ \A d \in Calls \ {c}, k \in Kinds : conn'[k][d] = conn[k][d]
    BY <1>7, ClientFacts DEF SetConn
  <2>2. ConnInv(conn)'
    BY <1>1, <1>2, <1>4, <2>1, ClientFacts, ConnFrame
  <2>3. /\ ~Backed(conn, c)' /\ (Yielded(conn, c)' => Yielded(conn, c))
        /\ (Away(conn, c) => Away(conn, c)')
    BY <1>1, <2>1 DEF Backed, Yielded, Away
  <2>4. /\ \A k \in Kinds \ SlotKinds : conn'[k][c] \in {"none", "sent", "ok", "refused"}
        /\ \A k \in SlotKinds : conn[k][c] # "queued"
        /\ conn'["register"][c] = conn["register"][c]
    BY <1>4, <1>5, <2>1, ClientFacts
  <2>5. /\ authority = "active" => ReclaimInv(slots, conn)'
        /\ conn'["resume"][c] = "queued" => conn["resume"][c] = "queued"
    BY <1>1, <2>1, <2>3, ClientFacts, CallReclaims
  <2> QED
    BY <2>5, <1>1, <1>2, <1>3, <1>4, <2>1, <2>2, <2>3, <2>4, ClientFacts, CallStep
       DEF Participating, InTransition, BeforeSpawn, Faults
<1> QED
  BY <1>6, <1>7 DEF Finish

\* Resume: the last of a caller's delegations asks for its slot, another leaves
\* it to those that go on.
LEMMA ResumeStep ==
    ASSUME IInv, TypeOK', NEW c \in Calls, Resume(c)
    PROVE  IInv'
<1> DEFINE p == Parent[c]
<1>1. /\ pc[c] = "leaving" /\ TransitionFree(p)
      /\ UNCHANGED <<authority, slots, queue, proc, signalled, faults>>
      /\ joined' = [joined EXCEPT ![c] = FALSE]
  BY DEF Resume, serverVars
<1>2. /\ Alive(p) /\ (p \in Calls => proc[p] = "live")
      /\ proc[c] \notin {"gate", "live"} /\ joined[c] /\ p # Root
  BY <1>1, CallerRuns DEF IInv, ClientInv, JoinInv, ChildInv, Participating
<1>3. ~joined'[c] /\ \A d \in Calls \ {c} : joined'[d] = joined[d]
  BY <1>1, ClientFacts
<1>4. \A d \in Calls : Parent[d] = p => pc[d] \notin InTransition
  BY <1>1 DEF TransitionFree, InTransition
<1>5. /\ conn["release"][c] = "none" /\ conn["resume"][c] = "none"
      /\ conn["suspend"][c] # "none" => Parent[c] # Root /\ ~Patient
      /\ conn["acquire"][c] # "none" => proc[c] = "none"
  BY <1>1 DEF IInv, ConnInv
<1>6. \A k \in Kinds \ SlotKinds : conn[k][c] \in {"none", "sent", "ok", "refused"}
  BY DEF IInv, QueueInv
<1>7. CASE MustReclaim(p)
  <2>1. /\ pc'[c] = "resuming" /\ \A d \in Calls \ {c} : pc'[d] = pc[d]
        /\ conn'["resume"][c] = "sent"
        /\ \A k \in Kinds \ {"resume"} : conn'[k][c] = conn[k][c]
        /\ \A d \in Calls \ {c}, k \in Kinds : conn'[k][d] = conn[k][d]
    BY <1>7, ClientFacts DEF Resume, SetConn
  <2>2. ConnInv(conn)'
    BY <1>1, <1>2, <1>5, <2>1, ClientFacts, ConnFrame
  <2>3. \A d \in Calls \ {c} : Parent[d] = p => ~joined[d]
    BY <1>2, <1>7, NestedOne DEF MustReclaim
  <2>4. ~Backed(conn, c)' /\ ~Yielded(conn, c)' /\ Away(conn, c)'
    BY <1>3, <2>1 DEF Backed, Yielded, Away, Reclaiming
  <2>5. /\ \A k \in Kinds \ SlotKinds : conn'[k][c] \in {"none", "sent", "ok", "refused"}
        /\ \A k \in SlotKinds : conn[k][c] = "queued" => conn'[k][c] = "queued"
        /\ conn'["register"][c] = conn["register"][c]
        /\ conn'["acquire"][c] = conn["acquire"][c]
    BY <1>5, <1>6, <2>1, ClientFacts
  <2>6. /\ pc'[c] \in InTransition
        /\ pc'[c] \notin {"idle", "lost", "spawned"} /\ pc'[c] \notin BeforeSpawn
        /\ pc'[c] \notin Participating
    BY <2>1 DEF Participating, InTransition, BeforeSpawn
  <2>7. \A d \in Calls \ {c} : /\ joined'[d] = joined[d] /\ pc'[d] = pc[d]
                                /\ \A k \in Kinds : conn'[k][d] = conn[k][d]
    BY <1>3, <2>1
  <2>8. pc[c] # "spawned" /\ pc[c] # "releasing" /\ pc'[c] # "acquiring"
    BY <1>1, <2>1
  <2>9. /\ \A f \in Faults : faults'[f] <= FaultBudget[f]
        /\ NoneYet("crash")' => NoneYet("crash")
        /\ Patient' => Patient
        /\ NoneYet("stall")' => NoneYet("stall")
    BY <1>1, ClientFacts DEF Faults
  <2>10. \A d \in Calls \ {c} : Parent[d] = Parent[c] =>
           pc[d] \notin InTransition /\ ~joined[d]
    BY <1>4, <2>3
  <2>11. /\ pc'[c] # "returned" /\ pc'[c] # "leaving" /\ Parent[c] # Root /\ ~joined'[c]
         /\ UNCHANGED <<authority, slots, queue, proc, signalled>>
    BY <1>1, <1>2, <1>3, <2>1
  <2>12. authority = "active" => ReclaimInv(slots, conn)'
    <3> SUFFICES ASSUME authority = "active" PROVE ReclaimInv(slots, conn)'
      OBVIOUS
    <3>1. ReclaimInv(slots, conn) /\ Yielded(conn, c)
      BY <1>2 DEF IInv, ActiveInv, Yielded
    <3>2. p \in Calls /\ slots[p].at = "suspended"
      BY <1>2, <3>1, CallsAssumption, YieldedSuspended
    <3>3. \A d \in Calls : Parent[d] = p => ~Reclaiming(conn, d) /\ ~Yielded(conn, d)'
      BY <1>2, <1>4, <2>3, <2>4, <2>7, <3>1, <3>2, ClientFacts
         DEF ReclaimInv, Yielded, InTransition
    <3>4. \A d \in Calls \ {c} : /\ Reclaiming(conn, d)' <=> Reclaiming(conn, d)
                                 /\ Yielded(conn, d)' <=> Yielded(conn, d)
                                 /\ conn'["resume"][d] = conn["resume"][d]
      BY <2>7, ClientFacts DEF Reclaiming, Yielded
    <3>5. slots' = slots /\ proc' = proc
      BY <1>1
    <3>6. ASSUME NEW d \in Calls, Parent[d] \in Calls, proc'[Parent[d]] = "live",
                 Reclaiming(conn, d)'
          PROVE  /\ slots'[Parent[d]].at = "suspended"
                 /\ \A e \in Calls : Parent[e] = Parent[d] =>
                      ~Yielded(conn, e)' /\ (Reclaiming(conn, e)' => e = d)
      <4>1. CASE Parent[d] = p
        <5>1. d = c
          BY <3>3, <3>4, <3>6, <4>1
        <5> QED
          BY <3>2, <3>3, <3>4, <3>5, <5>1
      <4>2. CASE Parent[d] # p
        BY <3>1, <3>4, <3>5, <3>6, <4>2 DEF ReclaimInv
      <4> QED
        BY <4>1, <4>2
    <3>7. ASSUME NEW d \in Calls, NEW e \in Calls, Parent[d] = Parent[e], d # e,
                 conn'["resume"][d] = "queued"
          PROVE  conn'["resume"][e] \notin {"queued", "granted", "acked"}
      <4>1. d # c
        BY <2>1, <3>7
      <4> QED
        BY <2>1, <3>1, <3>4, <3>7, <4>1 DEF ReclaimInv
    <3> QED
      BY <3>6, <3>7 DEF ReclaimInv
  <2>13. conn'["resume"][c] # "queued"
    BY <2>1
  <2> QED
    BY <1>2, <2>2, <2>4, <2>5, <2>6, <2>7, <2>8, <2>9, <2>10, <2>11, <2>12, <2>13, CallStep
<1>8. CASE ~MustReclaim(p)
  <2>1. /\ pc'[c] = "returned" /\ \A d \in Calls \ {c} : pc'[d] = pc[d]
        /\ conn' = conn
    BY <1>8, ClientFacts DEF Resume
  <2>2. ConnInv(conn)'
    BY <1>1, <1>5, <2>1, ClientFacts, ConnFrame
  <2>3. \E d \in Calls \ {c} : Parent[d] = p /\ Away(conn, d)
    BY <1>2, <1>8, NestedMore DEF MustReclaim, Away, Yielded
  <2>4. ~Backed(conn, c)' /\ ~Yielded(conn, c)'
    BY <1>3, <2>1 DEF Backed, Yielded
  <2>5. authority = "active" => ReclaimInv(slots, conn)'
    BY <1>1, <1>3, <2>1, <2>4, CallReclaims
  <2> QED
    BY <2>5, <1>1, <1>2, <1>3, <1>4, <1>6, <2>1, <2>2, <2>3, <2>4, ClientFacts, CallStep
       DEF Participating, InTransition, BeforeSpawn, Faults
<1> QED
  BY <1>7, <1>8

------------------------------------------------------------------------------
(* The children *)

\* A step of a process asks for no slot, and ends none whose release is not due.
LEMMA ProcessReclaims ==
    ASSUME IInv, slots' = slots,
           \A d \in Calls :
             /\ conn'["resume"][d] = conn["resume"][d]
             /\ Yielded(conn, d)' => Yielded(conn, d)
             /\ conn["resume"][d] # "none" /\ proc'[Parent[d]] = "live" =>
                  proc[Parent[d]] = "live",
           authority = "active" /\ NoneYet("crash")' =>
             /\ NoneYet("crash")
             /\ \A d \in Calls : proc'[d] = "dead" =>
                  \/ pc'[d] = "spawned"
                  \/ proc[d] = "dead" /\ (Ending(conn, d) => Ending(conn, d)')
    PROVE  /\ authority = "active" => ReclaimInv(slots, conn)'
           /\ authority = "active" /\ NoneYet("crash")' => EndInv(slots, conn)'
<1>1. \A d \in Calls : /\ Reclaiming(conn, d)' <=> Reclaiming(conn, d)
                       /\ Reclaiming(conn, d) => conn["resume"][d] # "none"
  BY DEF Reclaiming
<1>2. ASSUME authority = "active"
      PROVE  ReclaimInv(slots, conn)'
  BY <1>1, <1>2, ReclaimFrame DEF IInv, ActiveInv
<1>3. ASSUME authority = "active", NoneYet("crash")'
      PROVE  EndInv(slots, conn)'
  BY <1>3, EndFrame DEF IInv, ActiveInv
<1> QED
  BY <1>2, <1>3

\* Spawn: the new gate has asked for nothing, and has made no call.
LEMMA SpawnStep ==
    ASSUME IInv, TypeOK', NEW c \in Calls, Spawn(c)
    PROVE  IInv'
<1>1. /\ pc[c] = "cleared" /\ pc' = [pc EXCEPT ![c] = "spawned"]
      /\ proc' = [proc EXCEPT ![c] = "gate"]
      /\ UNCHANGED <<authority, slots, queue, conn, joined, signalled, faults>>
  BY DEF Spawn, serverVars
<1>2. /\ pc'[c] = "spawned" /\ \A d \in Calls \ {c} : pc'[d] = pc[d]
      /\ proc'[c] = "gate" /\ \A d \in Calls \ {c} : proc'[d] = proc[d]
  BY <1>1, ClientFacts DEF IInv, TypeOK
<1>3. /\ proc[c] = "none" /\ conn["acquire"][c] = "none" /\ conn["release"][c] = "none"
      /\ conn["register"][c] = "none"
      /\ \A d \in Calls : Parent[d] = c => pc[d] = "idle" /\ d # c
  BY <1>1 DEF IInv, ClientInv, ChildInv, CallerInv, BeforeSpawn, ConnInv
<1>4. \A x \in Calls \cup {Root} : x # c => (Alive(x)' <=> Alive(x))
  BY <1>1, <1>2 DEF Alive
<1>5. ClientInv'
  <2>1. JoinInv' /\ TransitionInv'
    BY <1>1, <1>2 DEF IInv, ClientInv, JoinInv, TransitionInv, Participating, InTransition
  <2>2. ChildInv'
    BY <1>1, <1>2 DEF IInv, ClientInv, ChildInv, BeforeSpawn
  <2>3. \A d \in Calls : Parent[d] \in Calls /\ proc'[Parent[d]] \in {"none", "gate"}
                           => pc'[d] = "idle"
    BY <1>1, <1>2, <1>3 DEF IInv, ClientInv, CallerInv
  <2>4. \A d \in Calls : pc'[d] \notin {"idle", "returned"}
                           => (pc'[d] = "lost" <=> ~Alive(Parent[d])')
    BY <1>1, <1>2, <1>3, <1>4, CallsAssumption DEF IInv, ClientInv, CallerInv
  <2>5. FaultInv'
    BY <1>1, <1>2 DEF IInv, ClientInv, FaultInv, NoneYet
  <2> QED
    BY <2>1, <2>2, <2>3, <2>4, <2>5 DEF ClientInv, CallerInv
<1>6. ConnInv(conn)'
  <2>1. Patient' <=> Patient
    BY <1>1 DEF NoneYet
  <2> QED
    BY <1>1, <1>2, <1>3, <2>1 DEF IInv, ConnInv
<1>7. QueueInv(queue, conn)'
  BY <1>1 DEF IInv, QueueInv
<1>8. \A d \in Calls : Registered(conn, d)' => Registered(conn, d)
  BY <1>1, <1>2, <1>3 DEF Registered
<1>9. \A d \in Calls : Backed(conn, d)' => Backed(conn, d)
  BY <1>1, <1>2, <1>3 DEF Backed
<1>10. \A d \in Calls : /\ Yielded(conn, d)' => Yielded(conn, d)
                        /\ Away(conn, d) => Away(conn, d)'
  BY <1>1, <1>2 DEF Yielded, Away, Reclaiming
<1>11. \A d \in Calls : Parent[d] \in Calls /\ proc'[Parent[d]] = "live" /\ Yielded(conn, d)'
             => slots[Parent[d]].at = "suspended" \/ authority # "active"
  BY <1>2, <1>10, YieldedSuspended
<1>12. DrainComing => DrainComing'
  <2> SUFFICES ASSUME NEW d \in Calls,
                      \/ pc[d] = "spawned" /\ proc[d] = "dead"
                      \/ pc[d] = "releasing" /\ conn["release"][d] = "sent"
                      \/ conn["acquire"][d] = "granted" /\ pc[d] # "acquiring"
               PROVE  \/ pc'[d] = "spawned" /\ proc'[d] = "dead"
                      \/ pc'[d] = "releasing" /\ conn'["release"][d] = "sent"
                      \/ conn'["acquire"][d] = "granted" /\ pc'[d] # "acquiring"
    BY DEF DrainComing, Waiting
  <2> QED
    BY <1>1, <1>2, <1>3
<1>13. \A d \in Calls : SlotAlive(slots, d) => SlotAlive(slots, d)'
  <2>1. Alive(c)'
    BY <1>2, CallsAssumption DEF Alive
  <2> QED
    BY <1>1, <1>4, <2>1, CallsAssumption DEF SlotAlive
<1>14. \A f \in Faults : NoneYet(f)' <=> NoneYet(f)
  BY <1>1 DEF NoneYet
<1>15. /\ authority = "active" => ReclaimInv(slots, conn)'
       /\ authority = "active" /\ NoneYet("crash")' => EndInv(slots, conn)'
  <2>1. \A d \in Calls : conn["resume"][d] # "none" /\ proc'[Parent[d]] = "live" =>
          proc[Parent[d]] = "live"
    BY <1>2, <1>3, CallsAssumption DEF IInv, ConnInv
  <2>2. \A d \in Calls : proc'[d] = "dead" =>
          proc[d] = "dead" /\ (Ending(conn, d) => Ending(conn, d)')
    BY <1>1, <1>2 DEF Ending
  <2> QED
    BY <1>1, <1>10, <1>14, <2>1, <2>2, ProcessReclaims DEF Faults
<1> QED
  BY <1>1, <1>2, <1>3, <1>5, <1>6, <1>7, <1>8, <1>9, <1>10, <1>11, <1>12, <1>13, <1>14,
     <1>15, QuietStep DEF Faults

\* GateRegister: only a connection is opened.
LEMMA GateRegisterStep ==
    ASSUME IInv, TypeOK', NEW c \in Calls, GateRegister(c)
    PROVE  IInv'
<1>1. /\ proc[c] = "gate" /\ conn["register"][c] = "none" /\ SetConn("register", c, "sent")
      /\ UNCHANGED <<authority, slots, queue, pc, joined, proc, signalled, faults>>
  BY DEF GateRegister, serverVars, clientVars
<1>2. /\ conn'["register"][c] = "sent"
      /\ \A k \in Kinds \ {"register"}, d \in Calls : conn'[k][d] = conn[k][d]
      /\ \A k \in Kinds, d \in Calls \ {c} : conn'[k][d] = conn[k][d]
  BY <1>1, ClientFacts DEF SetConn
<1>3. \A f \in Faults : NoneYet(f)' <=> NoneYet(f)
  BY <1>1 DEF NoneYet
<1>4. ClientInv'
  BY <1>1, ClientFrame, ClientFacts DEF Faults, IInv
<1>5. ConnInv(conn)'
  <2>1. pc[c] # "idle"
    BY <1>1 DEF IInv, ClientInv, ChildInv
  <2>2. Patient' <=> Patient
    BY <1>3 DEF Faults
  <2>3. \A d \in Calls : /\ conn'["acquire"][d] = conn["acquire"][d]
                         /\ conn'["release"][d] = conn["release"][d]
                         /\ conn'["resume"][d] = conn["resume"][d]
                         /\ conn'["suspend"][d] = conn["suspend"][d]
                         /\ proc[d] = "none" => conn'["register"][d] = conn["register"][d]
    BY <1>1, <1>2, ClientFacts
  <2>4. \A d \in Calls, k \in Kinds : pc[d] = "idle" => conn'[k][d] = conn[k][d]
    BY <1>2, <2>1
  <2> QED
    BY <1>1, <2>2, <2>3, <2>4 DEF IInv, ConnInv
<1>6. QueueInv(queue, conn)'
  BY <1>1, QueueFrameOne, ClientFacts DEF IInv, ConnStates
<1>7. \A d \in Calls : Registered(conn, d)' => Registered(conn, d)
  BY <1>1, <1>2, ClientFacts DEF Registered
<1>8. \A d \in Calls : /\ Backed(conn, d)' => Backed(conn, d)
                       /\ Yielded(conn, d)' => Yielded(conn, d)
                       /\ Away(conn, d) => Away(conn, d)'
  BY <1>1, <1>2, ClientFacts DEF Backed, Yielded, Away, Reclaiming
<1>9. \A d \in Calls : Parent[d] \in Calls /\ proc'[Parent[d]] = "live" /\ Yielded(conn, d)'
             => slots[Parent[d]].at = "suspended" \/ authority # "active"
  BY <1>1, <1>8, YieldedSuspended
<1>10. DrainComing => DrainComing'
  BY <1>1, <1>2, ClientFacts DEF DrainComing, Waiting
<1>11. \A d \in Calls : SlotAlive(slots, d)' <=> SlotAlive(slots, d)
  BY <1>1 DEF SlotAlive, Alive
<1>12. /\ authority = "active" => ReclaimInv(slots, conn)'
       /\ authority = "active" /\ NoneYet("crash")' => EndInv(slots, conn)'
  <2>1. \A d \in Calls : conn'["resume"][d] = conn["resume"][d]
    BY <1>2, ClientFacts
  <2>2. \A d \in Calls : Ending(conn, d) => Ending(conn, d)'
    BY <1>1, <1>2, ClientFacts DEF Ending
  <2> QED
    BY <1>1, <1>3, <1>8, <2>1, <2>2, ProcessReclaims DEF Faults
<1> QED
  BY <1>1, <1>3, <1>4, <1>5, <1>6, <1>7, <1>8, <1>9, <1>10, <1>11, <1>12, QuietStep
     DEF Faults

\* GateExec: the generation runs on the slot its gate has registered for.
LEMMA GateExecStep ==
    ASSUME IInv, TypeOK', NEW c \in Calls, GateExec(c)
    PROVE  IInv'
<1>1. /\ proc[c] = "gate" /\ conn["register"][c] = "ok"
      /\ proc' = [proc EXCEPT ![c] = "live"] /\ SetConn("register", c, "none")
      /\ UNCHANGED <<authority, slots, queue, pc, joined, signalled, faults>>
  BY DEF GateExec, serverVars, clientVars
<1>2. /\ conn'["register"][c] = "none"
      /\ \A k \in Kinds \ {"register"}, d \in Calls : conn'[k][d] = conn[k][d]
      /\ \A k \in Kinds, d \in Calls \ {c} : conn'[k][d] = conn[k][d]
      /\ proc'[c] = "live" /\ \A d \in Calls \ {c} : proc'[d] = proc[d]
  BY <1>1, ClientFacts DEF SetConn, IInv, TypeOK
<1>3. \A f \in Faults : NoneYet(f)' <=> NoneYet(f)
  BY <1>1 DEF NoneYet
<1>4. /\ \A d \in Calls : Parent[d] = c => pc[d] = "idle" /\ ~joined[d]
      /\ conn["acquire"][c] = "none" /\ conn["release"][c] = "none"
  BY <1>1 DEF IInv, ClientInv, JoinInv, CallerInv, ConnInv
<1>5. \A x \in Calls \cup {Root} : Alive(x)' <=> Alive(x)
  BY <1>1, <1>2 DEF Alive
<1>6. ClientInv'
  <2>1. JoinInv' /\ TransitionInv'
    BY <1>1 DEF IInv, ClientInv, JoinInv, TransitionInv
  <2>2. ChildInv'
    BY <1>1, <1>2 DEF IInv, ClientInv, ChildInv
  <2>3. CallerInv'
    BY <1>1, <1>2, <1>5, CallsAssumption DEF IInv, ClientInv, CallerInv
  <2>4. FaultInv'
    BY <1>1 DEF IInv, ClientInv, FaultInv, NoneYet
  <2> QED
    BY <2>1, <2>2, <2>3, <2>4 DEF ClientInv
<1>7. ConnInv(conn)'
  <2>1. Patient' <=> Patient
    BY <1>3 DEF Faults
  <2>2. \A d \in Calls, k \in Kinds : conn'[k][d] # "none" => conn[k][d] # "none"
    BY <1>1, <1>2
  <2> QED
    BY <1>1, <1>2, <1>4, <2>1, <2>2, ClientFacts DEF IInv, ConnInv
<1>8. QueueInv(queue, conn)'
  BY <1>1, QueueFrameOne, ClientFacts DEF IInv, ConnStates
<1>9. \A d \in Calls : Registered(conn, d)' => Registered(conn, d)
  BY <1>1, <1>2, ClientFacts DEF Registered
<1>10. \A d \in Calls : /\ Backed(conn, d)' => Backed(conn, d)
                        /\ Yielded(conn, d)' <=> Yielded(conn, d)
                        /\ Away(conn, d) => Away(conn, d)'
  BY <1>1, <1>2, ClientFacts DEF Backed, Yielded, Away, Reclaiming
<1>11. \A d \in Calls : Parent[d] \in Calls /\ proc'[Parent[d]] = "live" /\ Yielded(conn, d)'
             => slots[Parent[d]].at = "suspended" \/ authority # "active"
  <2>1. \A d \in Calls : Parent[d] = c => ~Yielded(conn, d)
    BY <1>4 DEF Yielded
  <2> QED
    BY <1>2, <1>10, <2>1, YieldedSuspended
<1>12. DrainComing => DrainComing'
  BY <1>1, <1>2, ClientFacts DEF DrainComing, Waiting
<1>13. \A d \in Calls : SlotAlive(slots, d) => SlotAlive(slots, d)'
  BY <1>1, <1>5, CallsAssumption DEF SlotAlive
<1>14. /\ authority = "active" => ReclaimInv(slots, conn)'
       /\ authority = "active" /\ NoneYet("crash")' => EndInv(slots, conn)'
  <2>1. \A d \in Calls : conn'["resume"][d] = conn["resume"][d]
    BY <1>2, ClientFacts
  <2>2. \A d \in Calls : conn["resume"][d] # "none" => Parent[d] \in Calls /\ Parent[d] # c
    BY <1>4, CallsAssumption DEF IInv, ConnInv
  <2>3. \A d \in Calls : proc'[d] = "dead" =>
          proc[d] = "dead" /\ (Ending(conn, d) => Ending(conn, d)')
    BY <1>1, <1>2, ClientFacts DEF Ending
  <2> QED
    BY <1>1, <1>2, <1>3, <1>10, <2>1, <2>2, <2>3, ProcessReclaims DEF Faults
<1> QED
  BY <1>1, <1>2, <1>3, <1>6, <1>7, <1>8, <1>9, <1>10, <1>11, <1>12, <1>13, <1>14, QuietStep
     DEF Faults

\* The process of a call ends.  Unless it is killed, or the tree is over, no
\* call of it is under way and the release of its slot is due.
LEMMA GoneStep ==
    ASSUME IInv, TypeOK', NEW x \in Calls, Alive(x), Gone(x),
           UNCHANGED <<authority, slots, queue, conn, joined, signalled>>,
           \A f \in Faults : faults'[f] <= FaultBudget[f],
           \A f \in Faults : NoneYet(f)' => NoneYet(f),
           Patient' <=> Patient,
           authority = "active" /\ NoneYet("crash")' => Idle(x)
    PROVE  IInv'
<1>1. /\ proc[x] \in {"gate", "live"} /\ pc[x] \in {"spawned", "lost"}
      /\ conn["acquire"][x] = "none"
  BY AliveCall DEF IInv, ClientInv, ChildInv, ConnInv
<1>2. /\ proc'[x] = "dead" /\ \A d \in Calls \ {x} : proc'[d] = proc[d]
      /\ \A d \in Calls : pc'[d] = IF Parent[d] = x /\ pc[d] \notin {"idle", "returned"}
                                   THEN "lost" ELSE pc[d]
  BY DEF Gone, IInv, TypeOK
<1>3. ~Alive(x)' /\ \A y \in Calls \cup {Root} : y # x => (Alive(y)' <=> Alive(y))
  BY <1>2, CallsAssumption DEF Alive
<1>4. authority = "active" /\ NoneYet("crash")' => \A d \in Calls : pc'[d] = pc[d]
  BY <1>2 DEF Idle
<1>5. NoneYet("crash")' => NoneYet("crash")
  BY DEF Faults
<1>6. ClientInv'
  <2>1. JoinInv'
    BY <1>2 DEF IInv, ClientInv, JoinInv, Participating, InTransition
  <2>2. TransitionInv'
    BY <1>2 DEF IInv, ClientInv, TransitionInv, InTransition
  <2>3. ChildInv'
    BY <1>1, <1>2 DEF IInv, ClientInv, ChildInv, BeforeSpawn
  <2>4. CallerInv'
    BY <1>1, <1>2, <1>3, CallsAssumption DEF IInv, ClientInv, CallerInv
  <2>5. FaultInv'
    BY <1>4, <1>5 DEF IInv, ClientInv, FaultInv
  <2> QED
    BY <2>1, <2>2, <2>3, <2>4, <2>5 DEF ClientInv
<1>7. ConnInv(conn)'
  <2>1. \A d \in Calls : /\ pc'[d] = pc[d] \/ (pc'[d] = "lost" /\ pc[d] # "idle")
                         /\ proc'[d] = proc[d] \/ d = x
    BY <1>2
  <2> QED
    BY <1>1, <1>2, <2>1 DEF IInv, ConnInv
<1>8. QueueInv(queue, conn)'
  BY DEF IInv, QueueInv
<1>9. \A d \in Calls : /\ Registered(conn, d)' => Registered(conn, d)
                       /\ Backed(conn, d)' => Backed(conn, d)
                       /\ Yielded(conn, d)' => Yielded(conn, d)
  BY <1>1, <1>2 DEF Registered, Backed, Yielded
<1>10. \A d \in Calls : Parent[d] \in Calls /\ proc'[Parent[d]] = "live" /\ Yielded(conn, d)'
             => slots[Parent[d]].at = "suspended" \/ authority # "active"
  BY <1>2, <1>9, YieldedSuspended
<1>11. \A c, d \in Calls : Registered(conn, c)' /\ Parent[d] = c /\ Away(conn, d)
                             => Away(conn, d)'
  <2>1. \A c \in Calls : Registered(conn, c)' => c # x
    BY <1>2 DEF Registered
  <2> QED
    BY <1>2, <2>1 DEF Away, Yielded, Reclaiming
<1>12. authority = "active" /\ NoneYet("crash")' => DrainComing'
  BY <1>1, <1>2, <1>4, <1>5 DEF IInv, ClientInv, FaultInv, DrainComing
<1>13. \A d \in Calls : proc'[d] \in {"none", "gate"} => proc[d] \in {"none", "gate"}
  BY <1>2
<1>14. Patient' /\ NoneYet("stall")' => Patient /\ NoneYet("stall")
  BY DEF Faults
<1>15. /\ authority = "active" => ReclaimInv(slots, conn)'
       /\ authority = "active" /\ NoneYet("crash")' => EndInv(slots, conn)'
  <2>1. \A d \in Calls : conn["resume"][d] # "none" => Parent[d] \in Calls
    BY CallsAssumption DEF IInv, ConnInv
  <2>2. \A d \in Calls : proc'[d] = "live" => proc[d] = "live"
    BY <1>2
  <2>3. ASSUME authority = "active", NoneYet("crash")', NEW d \in Calls, proc'[d] = "dead"
        PROVE  \/ pc'[d] = "spawned"
               \/ proc[d] = "dead" /\ (Ending(conn, d) => Ending(conn, d)')
    <3>1. pc'[d] = pc[d] /\ (d = x => pc[d] = "spawned")
      BY <1>1, <1>4, <1>5, <2>3 DEF IInv, ClientInv, FaultInv
    <3> QED
      BY <1>2, <2>3, <3>1 DEF Ending
  <2> QED
    BY <1>5, <1>9, <2>1, <2>2, <2>3, ProcessReclaims
<1> QED
  BY <1>5, <1>6, <1>7, <1>8, <1>9, <1>10, <1>11, <1>12, <1>13, <1>14, <1>15, QuietStep

\* A gate exits, a generation ends, is killed or crashes.
LEMMA EndStep ==
    ASSUME IInv, TypeOK', NEW c \in Calls,
           GateExit(c) \/ Exit(c) \/ Killed(c) \/ Crash(c)
    PROVE  IInv'
<1>1. /\ UNCHANGED <<authority, slots, queue, conn, joined, signalled>>
      /\ Gone(c) /\ Alive(c)
  BY AliveCall DEF GateExit, Exit, Killed, Crash, serverVars
<1>2. CASE Crash(c)
  <2>1. Spend("crash")
    BY <1>2 DEF Crash
  <2>2. /\ \A f \in Faults : faults'[f] <= FaultBudget[f]
        /\ ~NoneYet("crash")'
        /\ \A f \in Faults \ {"crash"} : NoneYet(f)' <=> NoneYet(f)
    BY <2>1, SpendFacts DEF Faults, IInv, ClientInv, FaultInv
  <2> QED
    BY <1>1, <2>2, GoneStep DEF Faults
<1>3. CASE GateExit(c) \/ Exit(c) \/ Killed(c)
  <2>1. faults' = faults
    BY <1>3 DEF GateExit, Exit, Killed
  <2>2. authority = "active" => Idle(c)
    <3>1. CASE GateExit(c)
      BY <3>1 DEF GateExit, Idle, IInv, ClientInv, CallerInv
    <3>2. CASE Exit(c)
      BY <3>2 DEF Exit
    <3>3. CASE Killed(c)
      BY <3>3 DEF Killed, IInv, ClientInv, FaultInv
    <3> QED
      BY <1>3, <3>1, <3>2, <3>3
  <2> QED
    BY <1>1, <2>1, <2>2, ClientFacts, GoneStep DEF Faults
<1> QED
  BY <1>2, <1>3

------------------------------------------------------------------------------
(* The invariant of every execution *)

\* The faults are within their budgets when the tree starts, and nothing has
\* begun.
LEMMA InitIInv == Init => IInv
<1> SUFFICES ASSUME Init PROVE IInv
  OBVIOUS
<1>1. TypeOK
  BY BudgetAssumption DEF Init, TypeOK, Slot, NoSlot, Owners, ConnStates,
     PcStates, ProcStates
<1>2. ClientInv
  BY BudgetAssumption, CallsAssumption
     DEF Init, ClientInv, JoinInv, ChildInv, CallerInv, TransitionInv, FaultInv,
         Participating, InTransition
<1>3. ConnInv(conn) /\ QueueInv(queue, conn)
  BY DEF Init, ConnInv, QueueInv, Kinds, SlotKinds
<1>4. \A c \in Calls : ~Registered(conn, c) /\ ~Backed(conn, c) /\ ~Yielded(conn, c)
  BY DEF Init, Registered, Backed, Yielded
<1>5. SlotInv(slots, conn)
  BY <1>4 DEF SlotInv, Init, NoSlot
<1>6. WorkInv(slots, conn)
  BY <1>4 DEF WorkInv
<1>7. ConserveInv
  BY DEF ConserveInv, Init, NoSlot
<1>8. CutInv
  BY DEF CutInv, Init
<1>9. ReclaimInv(slots, conn) /\ EndInv(slots, conn)
  BY DEF Init, ReclaimInv, EndInv, Reclaiming, Kinds, SlotKinds
<1> QED
  BY <1>1, <1>2, <1>3, <1>5, <1>6, <1>7, <1>8, <1>9 DEF IInv, ActiveInv

\* Every handler, client, child and fault keeps the invariant.
LEMMA NextIInv ==
    ASSUME IInv, TypeOK', [Next]_vars
    PROVE  IInv'
<1>1. ASSUME NEW c \in Calls, Start(c)
      PROVE  IInv'
  BY <1>1, StartStep
<1>2. ASSUME NEW c \in Calls, ServerStep(c)
      PROVE  IInv'
  <2>1. CASE ServeRelease(c) \/ ServeSuspend(c) \/ ServeRegister(c)
    BY <2>1, ServeReleaseStep, ServeSuspendStep, ServeRegisterStep
  <2>2. ASSUME NEW k \in SlotKinds, ServeSlotRequest(k, c) \/ ServeAck(k, c)
        PROVE  IInv'
    BY <2>2, ServeSlotStep, ServeAckStep
  <2>3. ASSUME NEW k \in Kinds, Refuse(k, c) \/ Close(k, c)
        PROVE  IInv'
    BY <2>3, RefuseStep, CloseStep
  <2> QED
    BY <1>2, <2>1, <2>2, <2>3 DEF ServerStep
<1>3. ASSUME NEW c \in Calls, ClientStep(c)
      PROVE  IInv'
  <2>1. CASE OnSuspended(c) \/ PassCheck(c) \/ Spawn(c)
    BY <2>1, OnSuspendedStep, PassCheckStep, SpawnStep
  <2>2. CASE Finish(c) \/ OnReleased(c) \/ Resume(c)
    BY <2>2, FinishStep, OnReleasedStep, ResumeStep
  <2>3. ASSUME NEW k \in SlotKinds, OnGrant(k, c) \/ OnConfirmed(k, c)
        PROVE  IInv'
    BY <2>3, OnGrantStep, OnConfirmedStep
  <2>4. ASSUME NEW k \in Kinds, OnRefused(k, c)
        PROVE  IInv'
    BY <2>4, OnRefusedStep
  <2> QED
    BY <1>3, <2>1, <2>2, <2>3, <2>4 DEF ClientStep
<1>4. ASSUME NEW c \in Calls, ChildStep(c)
      PROVE  IInv'
  BY <1>4, GateRegisterStep, GateExecStep, EndStep DEF ChildStep
<1>5. ASSUME NEW c \in Calls, FaultStep(c)
      PROVE  IInv'
  <2>1. CASE Cancel(c) \/ DeadlinePasses(c) \/ Crash(c)
    BY <2>1, GiveUpStep, EndStep
  <2>2. ASSUME NEW k \in SlotKinds, AckTimeout(k, c)
        PROVE  IInv'
    BY <2>2, AckTimeoutStep
  <2> QED
    BY <1>5, <2>1, <2>2 DEF FaultStep
<1>6. CASE Terminate \/ RootDies
  BY <1>6, TerminateStep, RootDiesStep
<1>7. CASE UNCHANGED vars
  BY <1>7 DEF vars, IInv, TypeOK, ClientInv, JoinInv, ChildInv, CallerInv,
     TransitionInv, FaultInv, ConnInv, QueueInv, ActiveInv, SlotInv, WorkInv,
     ReclaimInv, ConserveInv, EndInv, Ending, CutInv, Alive, Registered, Backed,
     Yielded, Reclaiming, Away, SlotAlive, DrainComing, Waiting, NoneYet, HasRoom, ActiveSlots, ActiveIn
<1> QED
  BY <1>1, <1>2, <1>3, <1>4, <1>5, <1>6, <1>7 DEF Next

\* The inductive invariant of the coordinator, its clients and its children.
THEOREM InductiveInvariant == Spec => []IInv
<1>1. IInv /\ TypeOK' /\ [Next]_vars => IInv'
  BY NextIInv
<1> QED
  BY InitIInv, TypeInvariant, <1>1, PTL DEF Spec

------------------------------------------------------------------------------
(* What the invariant says *)

\* Whatever runs while the tree is active holds a slot with its own identity
\* bound, so a cutoff finds it: it was registered, and a registered child's
\* slot is never pruned, released or rolled back.
THEOREM LiveTheorem == Spec => []LiveIsControlled
<1>1. IInv => LiveIsControlled
  BY DEF IInv, ActiveInv, SlotInv, Registered, LiveIsControlled
<1> QED
  BY InductiveInvariant, <1>1, PTL

\* A cutoff has signalled whatever runs after it: nothing that had not
\* registered before crosses the launch gate behind it.
THEOREM CutoffTheorem == Spec => []CutoffReachesAll
<1>1. IInv => CutoffReachesAll
  BY DEF IInv, CutInv, Registered, CutoffReachesAll
<1> QED
  BY InductiveInvariant, <1>1, PTL

\* A lease is backed by a slot from the grant until the child is dead.
THEOREM LeaseTheorem == Spec => []LeaseIsBacked
<1>1. IInv => LeaseIsBacked
  BY DEF IInv, ActiveInv, SlotInv, Backed, LeaseIsBacked
<1> QED
  BY InductiveInvariant, <1>1, PTL

\* A running caller whose delegations are under way has yielded its slot.
THEOREM WaitingTheorem == Spec => []WaitingYieldsSlot
<1>1. IInv => WaitingYieldsSlot
  <2> SUFFICES ASSUME IInv, authority = "active", NEW p \in Calls,
                      proc[p] = "live", NestedDelegations(p) > 0
               PROVE  slots[p].at = "suspended"
    BY DEF WaitingYieldsSlot
  <2>1. PICK c \in Calls : Parent[c] = p /\ joined[c]
    BY NestedSome
  <2> QED
    BY <2>1, YieldedSuspended DEF Yielded
<1> QED
  BY InductiveInvariant, <1>1, PTL

\* A generation that works is an active slot, unless a suspension was cancelled
\* in flight, a call ran into its deadline while it waited for the coordinator,
\* or a resumption was given up for a late acknowledgement.
THEOREM WorkingTheorem == Spec => []WorkingHoldsSlot
<1>1. IInv => WorkingHoldsSlot
  <2> SUFFICES ASSUME IInv, authority = "active", NoneYet("cancel"), NoneYet("deadline"),
                      NoneYet("stall"), NEW c \in Calls, proc[c] = "live", Idle(c)
               PROVE  slots[c].at = "active"
    BY DEF WorkingHoldsSlot
  <2>1. ASSUME NEW d \in Calls, Parent[d] = c, Away(conn, d)
        PROVE  FALSE
    <3>1. pc[d] \in {"idle", "returned"}
      BY <2>1 DEF Idle
    <3>2. ~joined[d]
      BY <3>1 DEF IInv, ClientInv, JoinInv
    <3> QED
      BY <2>1, <3>1, <3>2 DEF Away, Yielded
  <2> QED
    BY <2>1 DEF IInv, ActiveInv, WorkInv, Registered
<1> QED
  BY InductiveInvariant, <1>1, PTL

\* Capacity is idle beside a waiter only until a release or a rollback that is
\* already due, as long as no process is killed.
THEOREM ConserveTheorem == Spec => []WorkConserving
<1>1. IInv /\ SlotCapRespected => WorkConserving
  <2> SUFFICES ASSUME IInv, SlotCapRespected, authority = "active", NoneYet("crash"),
                      queue # <<>>, ~DrainComing
               PROVE  Cardinality(ActiveSlots) = MaxConcurrent
    BY DEF WorkConserving
  <2>1. ~HasRoom(ActiveSlots)
    BY DEF IInv, ActiveInv, ConserveInv
  <2>2. Cardinality(ActiveSlots) \in Nat
    BY ActiveTokens, TokensFinite DEF ActiveSlots
  <2> QED
    BY <2>1, <2>2, MaximumAssumption DEF HasRoom, SlotCapRespected
<1> QED
  BY InductiveInvariant, CapTheorem, <1>1, PTL
==============================================================================
