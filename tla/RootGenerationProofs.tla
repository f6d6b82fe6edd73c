------------------------ MODULE RootGenerationProofs ------------------------
(***************************************************************************)
(* Theorems about RootGeneration, for any number of calls, generations and *)
(* faults.  A generation that has ended is never written again, so that no *)
(* child can register under it any more; what was registered when it ended *)
(* was signalled, if the manifest and the server had not failed, and a     *)
(* signalled child that the timer finds in the table does not survive it.  *)
(***************************************************************************)
EXTENDS RootGeneration, TLAPS

BudgetInv == \A f \in Faults : faults[f] <= FaultBudget[f]

\* The generations up to the current one were started, and all but that one have
\* ended; a manifest is terminal only if its coordinator is.
StatusInv ==
    \A g \in Generations :
      /\ g > current => gens[g] = Unstarted
      /\ g <= current => gens[g].status # "none"
      /\ gens[g].status \in {"starting", "active"} => g = current
      /\ gens[g].manifest = "terminal" => Terminal(g)

NoFailures == NoneYet("manifest") /\ NoneYet("server")

\* Only failures leave a manifest that the coordinator does not recognize.
WriteInv == NoFailures => \A g \in Generations : CanWrite(gens[g])

\* A child that runs belongs to a call that waits for its end; one that is
\* registered was born under the generation that has its slot.
ChildInv ==
    /\ signalled \subseteq bound
    /\ \A c \in Calls :
         /\ proc[c] # "none" => pc[c] \in {"spawned", "releasing", "done"}
         /\ Running(c) => pc[c] = "spawned"
         /\ c \in bound => proc[c] # "none"
         /\ c \in bound /\ Running(c) => slot[c] = born[c]
         /\ proc[c] = "live" => c \in bound

\* How far a termination is says what is left of those registered.
CutoffInv ==
    \A g \in Generations :
      /\ grace[g] # "none" => Terminal(g)
      /\ grace[g] = "running" => Registered(g) \subseteq signalled
      /\ grace[g] = "done" => Registered(g) = {}
      /\ NoFailures /\ Terminal(g) => Registered(g) \subseteq signalled

IInv == TypeOK /\ BudgetInv /\ StatusInv /\ WriteInv /\ ChildInv /\ CutoffInv

\* What has ended is not written again.
Lasting ==
    \A g \in Generations :
      Terminal(g) => gens'[g].status = "terminal" /\ gens'[g].manifest = gens[g].manifest

GensTypeOK == gens \in [Generations -> Generation] /\ current \in 0 .. MaxGenerations

------------------------------------------------------------------------------
(* Faults and writes *)

\* A fault leaves less of the budget, so that it can no longer be unspent.
LEMMA SpendFacts ==
    ASSUME TypeOK, BudgetInv, NEW f \in Faults, Spend(f)
    PROVE  /\ faults' \in [Faults -> Nat] /\ BudgetInv' /\ ~NoneYet(f)'
           /\ \A h \in Faults : NoneYet(h)' => NoneYet(h)
<1>1. /\ faults \in [Faults -> Nat] /\ FaultBudget \in [Faults -> Nat]
      /\ faults[f] > 0 /\ faults' = [faults EXCEPT ![f] = @ - 1]
      /\ \A h \in Faults : faults[h] <= FaultBudget[h]
  BY FaultsAssumption DEF TypeOK, Spend, BudgetInv
<1>2. faults' \in [Faults -> Nat] /\ faults'[f] = faults[f] - 1
  BY <1>1
<1>3. \A h \in Faults : h # f => faults'[h] = faults[h]
  BY <1>1
<1>4. \A h \in Faults : faults'[h] <= FaultBudget[h]
  BY <1>1, <1>2, <1>3
<1>5. faults'[f] # FaultBudget[f]
  BY <1>1, <1>2
<1> QED
  BY <1>2, <1>3, <1>4, <1>5 DEF BudgetInv, NoneYet

LEMMA SameFaults ==
    ASSUME TypeOK, BudgetInv, UNCHANGED faults
    PROVE  /\ faults' \in [Faults -> Nat] /\ BudgetInv'
           /\ \A h \in Faults : NoneYet(h)' => NoneYet(h)
  BY DEF TypeOK, BudgetInv, NoneYet

\* An update of the manifest, successful or not, changes nothing else; only a
\* failure can part the file from what the coordinator remembers.
LEMMA UpdateFacts ==
    ASSUME NEW r \in Generation, NEW s \in Statuses
    PROVE  /\ Written(r, s) \in Generation
           /\ Written(r, s).status = r.status /\ Written(r, s).ready = r.ready
           /\ Written(r, s).manifest = s /\ Written(r, s).memo = s
           /\ Reached(r, s) \in Generation
           /\ Reached(r, s).status = s /\ Reached(r, s).ready = r.ready
           /\ Reached(r, s).manifest = s /\ Reached(r, s).memo = s
           /\ \A q \in Unwritten(r, s) :
                /\ q \in Generation /\ q.status = r.status /\ q.ready = r.ready
                /\ q.memo = r.memo /\ q.manifest \in {r.manifest, s, "torn"}
           /\ \A q \in Attempted(r, s) :
                /\ q \in Generation /\ q.status = r.status /\ q.ready = r.ready
                /\ q.manifest \in {r.manifest, s, "torn"}
  BY DEF Generation, Statuses, Written, Reached, Unwritten, Attempted, CanWrite

------------------------------------------------------------------------------
(* Generations *)

\* A generation that is under way goes on or ends.
LEMMA OneMoves ==
    ASSUME GensTypeOK, StatusInv, NEW g \in Generations,
           gens[g].status \in {"starting", "active"}, NEW q \in Generation,
           q.status \in {"active", "terminal"},
           q.status = "active" => q.manifest # "terminal",
           gens' = [gens EXCEPT ![g] = q], current' = current
    PROVE  GensTypeOK' /\ StatusInv' /\ Lasting
<1>1. g = current
  BY DEF StatusInv
<1>2. gens'[g] = q /\ \A h \in Generations : h # g => gens'[h] = gens[h]
  BY DEF GensTypeOK
<1>3. GensTypeOK'
  BY DEF GensTypeOK
<1>4. StatusInv'
  BY <1>1, <1>2 DEF StatusInv, Terminal, Generations, GensTypeOK
<1>5. Lasting
  BY <1>2 DEF Lasting, Terminal
<1> QED
  BY <1>3, <1>4, <1>5

\* The next one is started when the one before has ended.
LEMMA NextStarts ==
    ASSUME GensTypeOK, StatusInv, NEW G \in [Generations -> Generation],
           \A h \in Generations : h # current => G[h] = gens[h],
           current # 0 => G[current].status = "terminal",
           NoneRuns => G = gens,
           StartGeneration(G)
    PROVE  GensTypeOK' /\ StatusInv' /\ Lasting
<1> DEFINE s == Reached(Unstarted, "starting")
<1>a. Unstarted \in Generation
  BY DEF Unstarted, Generation, Statuses
<1>b. s \in Generation /\ s.status = "starting" /\ s.manifest = "starting"
  BY <1>a, UpdateFacts DEF Statuses
<1> HIDE DEF s
<1>1. MaxGenerations \in Nat /\ current \in 0 .. MaxGenerations
  BY GenerationsAssumption DEF GensTypeOK
<1>2. \A h \in Generations : Terminal(h) => G[h] = gens[h]
  BY DEF NoneRuns
<1>3. CASE current < MaxGenerations /\ current' = current + 1
           /\ gens' = [G EXCEPT ![current + 1] = s]
  <2>1. current + 1 \in Generations /\ current' \in 0 .. MaxGenerations
    BY <1>1, <1>3 DEF Generations
  <2>2. s \in Generation /\ s.status = "starting" /\ s.manifest = "starting"
    BY <1>b
  <2>3. gens' \in [Generations -> Generation]
    BY <1>3, <2>2
  <2>4. /\ gens'[current + 1] = s
        /\ \A h \in Generations : h # current + 1 => gens'[h] = G[h]
    BY <1>3, <2>1
  <2>5. gens[current + 1] = Unstarted
    BY <1>1, <2>1 DEF StatusInv
  <2>6. Lasting
    BY <1>2, <2>4, <2>5 DEF Lasting, Terminal, Unstarted
  <2>7. ASSUME NEW h \in Generations
        PROVE  /\ h > current' => gens'[h] = Unstarted
               /\ h <= current' => gens'[h].status # "none"
               /\ gens'[h].status \in {"starting", "active"} => h = current'
               /\ gens'[h].manifest = "terminal" => gens'[h].status = "terminal"
    <3>1. CASE h = current + 1
      BY <1>1, <1>3, <2>2, <2>4, <3>1
    <3>2. CASE h = current
      <4>1. current # 0 /\ h # current + 1
        BY <1>1, <3>2 DEF Generations
      <4> QED
        BY <1>1, <1>3, <2>4, <3>2, <4>1
    <3>3. CASE h # current /\ h # current + 1
      <4>1. gens'[h] = gens[h]
        BY <2>4, <3>3
      <4>2. h \in Nat
        BY DEF Generations
      <4> QED
        BY <1>1, <1>3, <3>3, <4>1, <4>2 DEF StatusInv, Terminal
    <3> QED
      BY <3>1, <3>2, <3>3
  <2>8. StatusInv'
    BY <2>7 DEF StatusInv, Terminal
  <2> QED
    BY <2>1, <2>3, <2>6, <2>8 DEF GensTypeOK
<1>4. CASE gens' = G /\ UNCHANGED current
  <2>1. StatusInv'
    <3>1. ASSUME NEW h \in Generations
          PROVE  /\ h > current => G[h] = Unstarted
                 /\ h <= current => G[h].status # "none"
                 /\ G[h].status \in {"starting", "active"} => h = current
                 /\ G[h].manifest = "terminal" => G[h].status = "terminal"
      <4>1. h \in 1 .. MaxGenerations
        BY DEF Generations
      <4> QED
        BY <1>1, <4>1 DEF StatusInv, Terminal
    <3> QED
      BY <1>4, <3>1 DEF StatusInv, Terminal
  <2>2. Lasting
    BY <1>2, <1>4 DEF Lasting, Terminal
  <2> QED
    BY <1>4, <2>1, <2>2 DEF GensTypeOK
<1> QED
  BY <1>3, <1>4 DEF StartGeneration, s

\* The listen callback of a generation that ended only rejects its promise.
LEMMA LateCallback ==
    ASSUME GensTypeOK, StatusInv, NEW g \in Generations, Terminal(g),
           gens' = [gens EXCEPT ![g].ready = "no"], current' = current
    PROVE  /\ GensTypeOK' /\ StatusInv' /\ Lasting
           /\ \A h \in Generations : Terminal(h)' => Terminal(h)
           /\ \A h \in Generations : CanWrite(gens[h]) => CanWrite(gens'[h])
<1>1. /\ gens'[g] = [gens[g] EXCEPT !.ready = "no"]
      /\ \A h \in Generations : h # g => gens'[h] = gens[h]
  BY DEF GensTypeOK
<1>2. gens[g] \in Generation
  BY DEF GensTypeOK
<1>3. /\ gens'[g] \in Generation /\ gens'[g].status = gens[g].status
      /\ gens'[g].manifest = gens[g].manifest /\ gens'[g].memo = gens[g].memo
  BY <1>1, <1>2 DEF Generation
<1>4. GensTypeOK'
  BY <1>3 DEF GensTypeOK
<1>5. gens[g] # Unstarted
  BY DEF Terminal, Unstarted
<1>6. StatusInv'
  BY <1>1, <1>3, <1>5 DEF StatusInv, Terminal
<1> QED
  BY <1>1, <1>3, <1>4, <1>6 DEF Lasting, Terminal, CanWrite

\* A write that fails is a failure, now or before.
LEMMA WriteFailsFacts ==
    ASSUME TypeOK, BudgetInv, WriteInv, NEW g \in Generations, WriteFails(gens[g])
    PROVE  faults' \in [Faults -> Nat] /\ BudgetInv' /\ ~NoFailures'
<1>1. CASE CanWrite(gens[g])
  BY <1>1, SpendFacts DEF WriteFails, Faults, NoFailures
<1>2. CASE ~CanWrite(gens[g])
  BY <1>2, SameFaults DEF WriteFails, Faults, NoFailures, WriteInv
<1> QED
  BY <1>1, <1>2

\* What the steps of a generation do, seen from the calls: those in line may be
\* answered, and whatever is registered when a generation ends is signalled,
\* if nothing has failed.
GenerationMoves ==
    /\ GensTypeOK' /\ StatusInv' /\ WriteInv' /\ Lasting
    /\ faults' \in [Faults -> Nat] /\ BudgetInv' /\ (NoFailures' => NoFailures)
    /\ pc' \in [Calls -> PcStates]
    /\ \A c \in Calls : pc'[c] = pc[c] \/ (pc[c] = "queued" /\ pc'[c] = "done")
    /\ UNCHANGED <<asked, slot, bound, born, proc>>
    /\ signalled \subseteq signalled' /\ signalled' \subseteq signalled \cup bound
    /\ \A g \in Generations :
         NoFailures' /\ Terminal(g)' /\ ~Terminal(g) => Registered(g) \subseteq signalled'

\* The generation that is under way, if one is.
LEMMA CurrentOne ==
    ASSUME GensTypeOK, StatusInv, current # 0
    PROVE  /\ current \in Generations /\ gens[current] \in Generation
           /\ ~Terminal(current) => gens[current].status \in {"starting", "active"}
<1>1. current \in Generations
  BY GenerationsAssumption DEF GensTypeOK, Generations
<1>2. gens[current] \in Generation
  BY <1>1 DEF GensTypeOK
<1>3. gens[current].status # "none"
  BY <1>1 DEF StatusInv, Generations
<1> QED
  BY <1>1, <1>2, <1>3 DEF Generation, Statuses, Terminal

LEMMA AnsweredFacts ==
    ASSUME TypeOK, NEW g, pc' = Answered(g)
    PROVE  /\ pc' \in [Calls -> PcStates]
           /\ \A c \in Calls : pc'[c] = pc[c] \/ (pc[c] = "queued" /\ pc'[c] = "done")
  BY DEF TypeOK, Answered, PcStates

\* Starting a generation: G is what the one before left.
LEMMA StartMoves ==
    ASSUME TypeOK, BudgetInv, StatusInv, NEW G \in [Generations -> Generation],
           \A h \in Generations : h # current => G[h] = gens[h],
           current # 0 => G[current].status = "terminal",
           NoneRuns => G = gens,
           NoFailures => \A h \in Generations : CanWrite(G[h]),
           StartGeneration(G)
    PROVE  /\ GensTypeOK' /\ StatusInv' /\ WriteInv' /\ Lasting
           /\ faults' \in [Faults -> Nat] /\ BudgetInv' /\ (NoFailures' => NoFailures)
           /\ \A h \in Generations : Terminal(h)' /\ ~Terminal(h) => h = current
<1>1. GensTypeOK
  BY DEF TypeOK, GensTypeOK
<1>2. GensTypeOK' /\ StatusInv' /\ Lasting
  BY <1>1, NextStarts
<1>3. /\ faults' \in [Faults -> Nat] /\ BudgetInv' /\ (NoFailures' => NoFailures)
      /\ faults' = faults \/ ~NoFailures'
  BY SpendFacts, SameFaults DEF StartGeneration, NoFailures, Faults
<1>4. Reached(Unstarted, "starting").status = "starting"
      /\ CanWrite(Reached(Unstarted, "starting"))
  <2>1. Unstarted \in Generation /\ "starting" \in Statuses
    BY DEF Unstarted, Generation, Statuses
  <2> QED
    BY <2>1, UpdateFacts DEF CanWrite
<1> DEFINE s == Reached(Unstarted, "starting")
<1> HIDE DEF s
<1>5. \A h \in Generations :
        gens'[h] = G[h] \/ gens'[h] = s
  BY DEF StartGeneration, s
<1>6. s.status = "starting" /\ CanWrite(s)
  BY <1>4 DEF s
<1>7. WriteInv'
  BY <1>3, <1>5, <1>6 DEF WriteInv, CanWrite
<1>8. \A h \in Generations : Terminal(h)' /\ ~Terminal(h) => h = current
  BY <1>5, <1>6 DEF Terminal
<1> QED
  BY <1>2, <1>3, <1>7, <1>8

\* A generation that is marked terminal, its manifest included.
LEMMA MarkedFacts ==
    ASSUME GensTypeOK, StatusInv, current # 0, ~Terminal(current)
    PROVE  /\ Marked \in [Generations -> Generation]
           /\ Marked[current].status = "terminal" /\ Marked[current].manifest = "terminal"
           /\ CanWrite(Marked[current])
           /\ \A h \in Generations : h # current => Marked[h] = gens[h]
<1>1. current \in Generations /\ gens[current] \in Generation /\ "terminal" \in Statuses
  BY CurrentOne DEF Statuses
<1> DEFINE r == Reached(gens[current], "terminal")
<1>2. r \in Generation /\ r.status = "terminal" /\ r.manifest = "terminal" /\ r.memo = "terminal"
  BY <1>1, UpdateFacts
<1> HIDE DEF r
<1>3. Marked = [gens EXCEPT ![current] = r]
  BY DEF Marked, r
<1> QED
  BY <1>1, <1>2, <1>3 DEF GensTypeOK, CanWrite

\* The manifest update of a mark throws.
LEMMA ThrowsMoves ==
    ASSUME TypeOK, BudgetInv, StatusInv, WriteInv, current # 0, ~Terminal(current),
           MarkThrows, current' = current
    PROVE  /\ GensTypeOK' /\ StatusInv' /\ WriteInv' /\ Lasting
           /\ faults' \in [Faults -> Nat] /\ BudgetInv' /\ ~NoFailures'
<1>1. /\ GensTypeOK /\ current \in Generations /\ gens[current] \in Generation
      /\ gens[current].status \in {"starting", "active"}
  BY CurrentOne DEF TypeOK, GensTypeOK
<1>2. faults' \in [Faults -> Nat] /\ BudgetInv' /\ ~NoFailures'
  BY <1>1, WriteFailsFacts DEF MarkThrows
<1>3. PICK r \in Unwritten(gens[current], "terminal") :
        gens' = [gens EXCEPT ![current] = [r EXCEPT !.status = "terminal"]]
  BY DEF MarkThrows
<1>4. r \in Generation
  BY <1>1, UpdateFacts DEF Statuses
<1> DEFINE q == [r EXCEPT !.status = "terminal"]
<1>5. q \in Generation /\ q.status = "terminal"
  BY <1>4 DEF Generation, Statuses
<1>6. gens' = [gens EXCEPT ![current] = q]
  BY <1>3
<1> HIDE DEF q
<1>7. GensTypeOK' /\ StatusInv' /\ Lasting
  BY <1>1, <1>5, <1>6, OneMoves
<1> QED
  BY <1>2, <1>7 DEF WriteInv

\* Every step of a generation but the sweep moves like that.
LEMMA GenerationSteps ==
    ASSUME TypeOK, BudgetInv, StatusInv, WriteInv,
           \/ Begin \/ Ensure \/ Terminate
           \/ \E g \in Generations : ListenCallback(g) \/ ServerError(g)
    PROVE  GenerationMoves
<1> USE DEF GenerationMoves
<1>1. GensTypeOK
  BY DEF TypeOK, GensTypeOK
<1>2. \A g \in Generations : gens[g] \in Generation
  BY <1>1 DEF GensTypeOK
<1>3. Registered(current) \subseteq bound
  BY DEF Registered
<1>4. ASSUME NoneRuns, StartGeneration(gens), UNCHANGED <<pc, signalled>>,
             UNCHANGED <<asked, slot, bound, born, proc>>
      PROVE  GenerationMoves
  <2>1. current # 0 => gens[current].status = "terminal"
    BY <1>4 DEF NoneRuns, Terminal
  <2>2. NoFailures => \A h \in Generations : CanWrite(gens[h])
    BY DEF WriteInv
  <2>3. /\ GensTypeOK' /\ StatusInv' /\ WriteInv' /\ Lasting
        /\ faults' \in [Faults -> Nat] /\ BudgetInv' /\ (NoFailures' => NoFailures)
        /\ \A h \in Generations : Terminal(h)' /\ ~Terminal(h) => h = current
    BY <1>1, <1>4, <2>1, <2>2, StartMoves DEF GensTypeOK
  <2>4. \A h \in Generations : Terminal(h)' => Terminal(h)
    <3>1. current \in Generations => Terminal(current)
      BY <2>1, GenerationsAssumption DEF Terminal, Generations
    <3> QED
      BY <2>3, <3>1
  <2> QED
    BY <1>4, <2>3, <2>4 DEF TypeOK
<1>5. ASSUME current # 0, ~Terminal(current), MarkThrows, UNCHANGED current,
             UNCHANGED <<asked, slot, bound, born, proc>>
      PROVE  GenerationMoves
  <2>1. /\ GensTypeOK' /\ StatusInv' /\ WriteInv' /\ Lasting
        /\ faults' \in [Faults -> Nat] /\ BudgetInv' /\ ~NoFailures'
    BY <1>5, ThrowsMoves
  <2>2. UNCHANGED <<pc, signalled>>
    BY <1>5 DEF MarkThrows
  <2> QED
    BY <1>5, <2>1, <2>2 DEF TypeOK
<1>6. CASE Begin
  <2>1. CASE NoneRuns
    BY <1>4, <1>6, <2>1 DEF Begin
  <2>2. CASE ~NoneRuns /\ MarkTerminal /\ StartGeneration(Marked)
    <3>1. current # 0 /\ ~Terminal(current)
      BY <2>2 DEF NoneRuns
    <3>2. /\ Marked \in [Generations -> Generation]
          /\ Marked[current].status = "terminal" /\ CanWrite(Marked[current])
          /\ \A h \in Generations : h # current => Marked[h] = gens[h]
      BY <1>1, <3>1, MarkedFacts
    <3>3. NoFailures => \A h \in Generations : CanWrite(Marked[h])
      BY <3>2 DEF WriteInv
    <3>4. /\ GensTypeOK' /\ StatusInv' /\ WriteInv' /\ Lasting
          /\ faults' \in [Faults -> Nat] /\ BudgetInv' /\ (NoFailures' => NoFailures)
          /\ \A h \in Generations : Terminal(h)' /\ ~Terminal(h) => h = current
      BY <2>2, <3>2, <3>3, StartMoves
    <3>5. pc' = Answered(current) /\ signalled' = signalled \cup Registered(current)
      BY <2>2 DEF MarkTerminal
    <3>6. /\ pc' \in [Calls -> PcStates]
          /\ \A c \in Calls : pc'[c] = pc[c] \/ (pc[c] = "queued" /\ pc'[c] = "done")
      BY <3>5, AnsweredFacts
    <3> QED
      BY <1>3, <1>6, <3>4, <3>5, <3>6 DEF Begin
  <2>3. CASE ~NoneRuns /\ MarkThrows /\ UNCHANGED current
    BY <1>5, <1>6, <2>3 DEF Begin, NoneRuns
  <2> QED
    BY <1>6, <2>1, <2>2, <2>3 DEF Begin
<1>7. CASE Ensure
  BY <1>4, <1>7 DEF Ensure, callVars, cutoffVars
<1>8. CASE Terminate
  <2>1. current # 0 /\ UNCHANGED <<current, asked, slot, bound, born, proc>>
    BY <1>8 DEF Terminate
  <2>2. CASE Terminal(current) /\ UNCHANGED <<gens, pc, signalled, grace, faults>>
    <3>1. faults' \in [Faults -> Nat] /\ BudgetInv' /\ (NoFailures' => NoFailures)
      BY <2>2, SameFaults DEF NoFailures, Faults
    <3>2. GensTypeOK' /\ StatusInv' /\ WriteInv' /\ Lasting
      BY <1>1, <2>1, <2>2, <3>1
         DEF GensTypeOK, StatusInv, WriteInv, Lasting, Terminal
    <3> QED
      BY <2>1, <2>2, <3>1, <3>2 DEF TypeOK, Terminal
  <2>3. CASE ~Terminal(current) /\ MarkTerminal /\ gens' = Marked /\ UNCHANGED faults
    <3>1. /\ current \in Generations /\ gens[current].status \in {"starting", "active"}
      BY <1>1, <2>1, <2>3, CurrentOne
    <3> DEFINE q == Reached(gens[current], "terminal")
    <3>2. q \in Generation /\ q.status = "terminal" /\ CanWrite(q)
      BY <1>2, <3>1, UpdateFacts DEF Statuses, CanWrite
    <3>3. gens' = [gens EXCEPT ![current] = q]
      BY <2>3 DEF Marked
    <3> HIDE DEF q
    <3>4. GensTypeOK' /\ StatusInv' /\ Lasting
      BY <1>1, <2>1, <3>1, <3>2, <3>3, OneMoves
    <3>5. faults' \in [Faults -> Nat] /\ BudgetInv' /\ (NoFailures' => NoFailures)
      BY <2>3, SameFaults DEF NoFailures, Faults
    <3>6. WriteInv'
      BY <1>1, <3>2, <3>3, <3>5 DEF WriteInv, GensTypeOK, CanWrite
    <3>7. pc' = Answered(current) /\ signalled' = signalled \cup Registered(current)
      BY <2>3 DEF MarkTerminal
    <3>8. /\ pc' \in [Calls -> PcStates]
          /\ \A c \in Calls : pc'[c] = pc[c] \/ (pc[c] = "queued" /\ pc'[c] = "done")
      BY <3>7, AnsweredFacts
    <3>9. \A h \in Generations : Terminal(h)' /\ ~Terminal(h) => h = current
      BY <1>1, <3>3 DEF GensTypeOK, Terminal
    <3> QED
      BY <1>3, <2>1, <3>4, <3>5, <3>6, <3>7, <3>8, <3>9
  <2>4. CASE ~Terminal(current) /\ MarkThrows
    BY <1>5, <2>1, <2>4
  <2> QED
    BY <1>8, <2>2, <2>3, <2>4 DEF Terminate
<1>9. ASSUME NEW g \in Generations, ListenCallback(g)
      PROVE  GenerationMoves
  <2>1. /\ current' = current /\ UNCHANGED <<pc, signalled>>
        /\ UNCHANGED <<asked, slot, bound, born, proc>>
        /\ gens[g].status # "none" /\ pc' \in [Calls -> PcStates]
    BY <1>9 DEF ListenCallback, callVars, cutoffVars, TypeOK
  <2>2. CASE Terminal(g) /\ UNCHANGED faults /\ gens' = [gens EXCEPT ![g].ready = "no"]
    <3>1. faults' \in [Faults -> Nat] /\ BudgetInv' /\ (NoFailures' => NoFailures)
      BY <2>2, SameFaults DEF NoFailures, Faults
    <3>2. /\ GensTypeOK' /\ StatusInv' /\ Lasting
          /\ \A h \in Generations : Terminal(h)' => Terminal(h)
          /\ \A h \in Generations : CanWrite(gens[h]) => CanWrite(gens'[h])
      BY <1>1, <2>1, <2>2, LateCallback
    <3>3. WriteInv'
      BY <3>1, <3>2 DEF WriteInv, CanWrite
    <3> QED
      BY <2>1, <3>1, <3>2, <3>3
  <2>3. CASE ~Terminal(g)
    <3>1. gens[g].status \in {"starting", "active"}
      BY <1>2, <2>1, <2>3 DEF Generation, Statuses, Terminal
    <3>2. CASE /\ UNCHANGED faults
               /\ gens' = [gens EXCEPT ![g] = [Reached(@, "active") EXCEPT !.ready = "yes"]]
      <4> DEFINE r == Reached(gens[g], "active")
      <4>1. /\ r \in Generation /\ r.status = "active" /\ r.manifest = "active"
            /\ r.memo = "active"
        BY <1>2, UpdateFacts DEF Statuses
      <4>2. gens' = [gens EXCEPT ![g] = [r EXCEPT !.ready = "yes"]]
        BY <3>2
      <4> HIDE DEF r
      <4> DEFINE q == [r EXCEPT !.ready = "yes"]
      <4>3. /\ q \in Generation /\ q.status = "active" /\ q.manifest = "active"
            /\ CanWrite(q)
        BY <4>1 DEF Generation, CanWrite
      <4>4. gens' = [gens EXCEPT ![g] = q]
        BY <4>2
      <4> HIDE DEF q
      <4>5. GensTypeOK' /\ StatusInv' /\ Lasting
        BY <1>1, <2>1, <3>1, <4>3, <4>4, OneMoves
      <4>6. faults' \in [Faults -> Nat] /\ BudgetInv' /\ (NoFailures' => NoFailures)
        BY <3>2, SameFaults DEF NoFailures, Faults
      <4>7. WriteInv'
        BY <1>1, <4>3, <4>4, <4>6 DEF WriteInv, GensTypeOK, CanWrite
      <4>8. \A h \in Generations : Terminal(h)' => Terminal(h)
        BY <1>1, <4>3, <4>4 DEF GensTypeOK, Terminal
      <4> QED
        BY <2>1, <4>5, <4>6, <4>7, <4>8
    <3>3. CASE WriteFails(gens[g])
               /\ \E r \in Unwritten(gens[g], "active") : \E q \in Attempted(r, "terminal") :
                    gens' = [gens EXCEPT ![g] = [q EXCEPT !.status = "terminal", !.ready = "no"]]
      <4>1. faults' \in [Faults -> Nat] /\ BudgetInv' /\ ~NoFailures'
        BY <3>3, WriteFailsFacts
      <4>2. PICK r \in Unwritten(gens[g], "active") : \E q \in Attempted(r, "terminal") :
              gens' = [gens EXCEPT ![g] = [q EXCEPT !.status = "terminal", !.ready = "no"]]
        BY <3>3
      <4>3. r \in Generation
        BY <1>2, UpdateFacts DEF Statuses
      <4>4. PICK s \in Attempted(r, "terminal") :
              gens' = [gens EXCEPT ![g] = [s EXCEPT !.status = "terminal", !.ready = "no"]]
        BY <4>2
      <4>5. s \in Generation
        BY <4>3, UpdateFacts DEF Statuses
      <4> DEFINE q == [s EXCEPT !.status = "terminal", !.ready = "no"]
      <4>6. q \in Generation /\ q.status = "terminal"
        BY <4>5 DEF Generation, Statuses
      <4>7. gens' = [gens EXCEPT ![g] = q]
        BY <4>4
      <4> HIDE DEF q
      <4>8. GensTypeOK' /\ StatusInv' /\ Lasting
        BY <1>1, <2>1, <3>1, <4>6, <4>7, OneMoves
      <4> QED
        BY <2>1, <4>1, <4>8 DEF WriteInv
    <3> QED
      BY <1>9, <2>3, <3>2, <3>3 DEF ListenCallback
  <2> QED
    BY <1>9, <2>2, <2>3 DEF ListenCallback
<1>10. ASSUME NEW g \in Generations, ServerError(g)
       PROVE  GenerationMoves
  <2>1. /\ gens[g].status \in {"starting", "active"} /\ Spend("server")
        /\ pc' = Answered(g) /\ current' = current
        /\ UNCHANGED <<asked, slot, bound, born, proc, signalled>>
    BY <1>10 DEF ServerError, cutoffVars
  <2>2. faults' \in [Faults -> Nat] /\ BudgetInv' /\ ~NoFailures'
    BY <2>1, SpendFacts DEF Faults, NoFailures
  <2>3. PICK r \in Attempted(gens[g], "terminal") :
          gens' = [gens EXCEPT ![g] = [r EXCEPT !.status = "terminal",
                                                !.ready = IF @ = "pending" THEN "no" ELSE @]]
    BY <1>10 DEF ServerError
  <2>4. r \in Generation
    BY <1>2, UpdateFacts DEF Statuses
  <2> DEFINE q == [r EXCEPT !.status = "terminal",
                            !.ready = IF @ = "pending" THEN "no" ELSE @]
  <2>5. q \in Generation /\ q.status = "terminal"
    BY <2>4 DEF Generation, Statuses
  <2>6. gens' = [gens EXCEPT ![g] = q]
    BY <2>3
  <2> HIDE DEF q
  <2>7. GensTypeOK' /\ StatusInv' /\ Lasting
    BY <1>1, <2>1, <2>5, <2>6, OneMoves
  <2>8. /\ pc' \in [Calls -> PcStates]
        /\ \A c \in Calls : pc'[c] = pc[c] \/ (pc[c] = "queued" /\ pc'[c] = "done")
    BY <2>1, AnsweredFacts
  <2> QED
    BY <2>1, <2>2, <2>7, <2>8 DEF WriteInv
<1> QED
  BY <1>6, <1>7, <1>8, <1>9, <1>10

------------------------------------------------------------------------------
(* Calls *)

CallsTypeOK ==
    /\ pc \in [Calls -> PcStates] /\ asked \in [Calls -> 0 .. MaxGenerations]
    /\ slot \in [Calls -> 0 .. MaxGenerations] /\ bound \in SUBSET Calls
    /\ born \in [Calls -> 0 .. MaxGenerations]
    /\ proc \in [Calls -> {"none", "gate", "live", "dead"}]

\* What a step of a call does, seen from the generations: nothing registers under
\* one that has ended.
CallMoves ==
    /\ CallsTypeOK' /\ ChildInv'
    /\ \A g \in Generations : Terminal(g) => Registered(g)' \subseteq Registered(g)

\* A call that goes on towards its launch, or is refused, has no child yet.
LEMMA BeforeLaunch ==
    ASSUME TypeOK, ChildInv, NEW c \in Calls, NEW s \in PcStates,
           pc[c] \in {"idle", "waiting", "sent", "queued", "granted", "held"},
           s # "spawned",
           Goto(c, s), UNCHANGED <<bound, proc, signalled>>,
           \A d \in Calls : d # c => slot'[d] = slot[d] /\ born'[d] = born[d],
           slot' \in [Calls -> 0 .. MaxGenerations],
           born' \in [Calls -> 0 .. MaxGenerations],
           asked' \in [Calls -> 0 .. MaxGenerations]
    PROVE  CallMoves
<1>1. /\ pc' \in [Calls -> PcStates] /\ pc'[c] = s
      /\ \A d \in Calls : d # c => pc'[d] = pc[d]
  BY DEF Goto, TypeOK
<1>2. proc[c] = "none" /\ c \notin bound /\ ~Running(c)
  BY DEF ChildInv, Running
<1>3. CallsTypeOK'
  BY <1>1 DEF TypeOK, CallsTypeOK
<1>4. ChildInv'
  BY <1>1, <1>2 DEF ChildInv, Running
<1>5. \A g : Registered(g)' \subseteq Registered(g)
  BY <1>2 DEF Registered, Running
<1> QED
  BY <1>3, <1>4, <1>5 DEF CallMoves

\* Every step of a call.
LEMMA CallSteps ==
    ASSUME TypeOK, BudgetInv, ChildInv, NEW c \in Calls, CallStep(c)
    PROVE  /\ CallMoves
           /\ UNCHANGED <<gens, current, signalled, grace>>
           /\ faults' \in [Faults -> Nat] /\ BudgetInv' /\ (NoFailures' => NoFailures)
<1>0. /\ current \in 0 .. MaxGenerations /\ 0 \in 0 .. MaxGenerations
      /\ asked[c] \in 0 .. MaxGenerations
  BY GenerationsAssumption DEF TypeOK
<1>1. CASE Ask(c)
  <2>1. PICK s \in PcStates : s # "spawned" /\ Goto(c, s)
    BY <1>1 DEF Ask, Send, PcStates
  <2>2. /\ asked' \in [Calls -> 0 .. MaxGenerations] /\ pc[c] = "idle"
        /\ UNCHANGED <<slot, born, bound, proc, signalled>>
    BY <1>0, <1>1 DEF Ask, Send, TypeOK, cutoffVars
  <2>3. CallMoves
    BY <2>1, <2>2, BeforeLaunch DEF TypeOK
  <2> QED
    BY <1>1, <2>3, SameFaults DEF Ask, cutoffVars, NoFailures, Faults
<1>2. CASE OnReady(c)
  <2>1. PICK s \in PcStates : s # "spawned" /\ Goto(c, s)
    BY <1>2 DEF OnReady, Send, PcStates
  <2>2. /\ asked' \in [Calls -> 0 .. MaxGenerations] /\ pc[c] = "waiting"
        /\ UNCHANGED <<slot, born, bound, proc, signalled>>
    BY <1>0, <1>2 DEF OnReady, Send, TypeOK, cutoffVars
  <2>3. CallMoves
    BY <2>1, <2>2, BeforeLaunch DEF TypeOK
  <2> QED
    BY <1>2, <2>3, SameFaults DEF OnReady, cutoffVars, NoFailures, Faults
<1>3. CASE Enqueue(c)
  <2>1. PICK s \in PcStates : s # "spawned" /\ Goto(c, s)
    BY <1>3 DEF Enqueue, PcStates
  <2>2. pc[c] = "sent" /\ UNCHANGED <<asked, slot, born, bound, proc, signalled>>
    BY <1>3 DEF Enqueue, cutoffVars
  <2>3. CallMoves
    BY <2>1, <2>2, BeforeLaunch DEF TypeOK
  <2> QED
    BY <1>3, <2>3, SameFaults DEF Enqueue, cutoffVars, NoFailures, Faults
<1>4. CASE Grant(c)
  <2>1. /\ Goto(c, "granted") /\ "granted" \in PcStates /\ pc[c] \in {"sent", "queued"}
        /\ UNCHANGED <<asked, born, bound, proc, signalled>>
    BY <1>4 DEF Grant, PcStates, cutoffVars
  <2>2. /\ slot' \in [Calls -> 0 .. MaxGenerations]
        /\ \A d \in Calls : d # c => slot'[d] = slot[d]
    BY <1>0, <1>4 DEF Grant, TypeOK
  <2>3. CallMoves
    BY <2>1, <2>2, BeforeLaunch DEF TypeOK
  <2> QED
    BY <1>4, <2>3, SameFaults DEF Grant, cutoffVars, NoFailures, Faults
<1>5. CASE GiveUp(c)
  <2>1. /\ Goto(c, "done") /\ "done" \in PcStates
        /\ pc[c] \in {"waiting", "sent", "queued", "granted"}
        /\ UNCHANGED <<asked, born, bound, proc, signalled>>
    BY <1>5 DEF GiveUp, PcStates, cutoffVars
  <2>2. /\ slot' \in [Calls -> 0 .. MaxGenerations]
        /\ \A d \in Calls : d # c => slot'[d] = slot[d]
    BY <1>0, <1>5 DEF GiveUp, TypeOK
  <2>3. CallMoves
    BY <2>1, <2>2, BeforeLaunch DEF TypeOK
  <2> QED
    BY <1>5, <2>3, SpendFacts DEF GiveUp, cutoffVars, NoFailures, Faults
<1>6. CASE OnConfirmed(c)
  <2>1. /\ Goto(c, "held") /\ "held" \in PcStates /\ pc[c] = "granted"
        /\ UNCHANGED <<asked, slot, bound, proc, signalled>>
    BY <1>6 DEF OnConfirmed, PcStates, cutoffVars
  <2>2. /\ born' \in [Calls -> 0 .. MaxGenerations]
        /\ \A d \in Calls : d # c => born'[d] = born[d]
    BY <1>0, <1>6 DEF OnConfirmed, TypeOK
  <2>3. CallMoves
    BY <2>1, <2>2, BeforeLaunch DEF TypeOK
  <2> QED
    BY <1>6, <2>3, SameFaults DEF OnConfirmed, cutoffVars, NoFailures, Faults
<1>7. CASE CheckAuthority(c)
  <2>1. PICK s \in PcStates : s # "spawned" /\ Goto(c, s)
    BY <1>7 DEF CheckAuthority, PcStates
  <2>2. pc[c] = "held" /\ UNCHANGED <<asked, slot, born, bound, proc, signalled>>
    BY <1>7 DEF CheckAuthority, cutoffVars
  <2>3. CallMoves
    BY <2>1, <2>2, BeforeLaunch DEF TypeOK
  <2> QED
    BY <1>7, <2>3, SameFaults DEF CheckAuthority, cutoffVars, NoFailures, Faults
<1>8. CASE Spawn(c)
  <2>1. /\ pc[c] = "cleared" /\ pc' = [pc EXCEPT ![c] = "spawned"]
        /\ proc' = [proc EXCEPT ![c] = "gate"]
        /\ UNCHANGED <<asked, slot, bound, born, signalled>>
    BY <1>8 DEF Spawn, Goto, cutoffVars
  <2>2. CallsTypeOK'
    BY <2>1 DEF TypeOK, CallsTypeOK, PcStates
  <2>3. c \notin bound
    BY <2>1 DEF ChildInv
  <2>4. ChildInv'
    BY <2>1, <2>3 DEF TypeOK, ChildInv, Running
  <2>5. \A g : Registered(g)' \subseteq Registered(g)
    BY <2>1, <2>3 DEF TypeOK, Registered, Running
  <2> QED
    BY <1>8, <2>2, <2>4, <2>5, SameFaults
       DEF CallMoves, Spawn, cutoffVars, NoFailures, Faults
<1>9. CASE GateRegister(c)
  <2>1. proc[c] = "gate" /\ pc[c] = "spawned" /\ c \notin bound
    BY <1>9 DEF GateRegister, ChildInv, Running
  <2>2. UNCHANGED <<pc, asked, slot, born, signalled, gens>>
    BY <1>9 DEF GateRegister, cutoffVars
  <2>3. ASSUME Registers(c), bound' = bound \cup {c}, UNCHANGED proc
        PROVE  CallMoves
    <3>1. slot[c] = born[c] /\ \A g : Terminal(g) => slot[c] # g
      BY <2>3 DEF Registers, Open, Terminal
    <3>2. CallsTypeOK'
      BY <2>2, <2>3 DEF TypeOK, CallsTypeOK
    <3>3. ChildInv'
      BY <2>1, <2>2, <2>3, <3>1 DEF TypeOK, ChildInv, Running
    <3>4. \A g : Terminal(g) => Registered(g)' \subseteq Registered(g)
      BY <2>2, <2>3, <3>1 DEF Registered, Running
    <3> QED
      BY <3>2, <3>3, <3>4 DEF CallMoves
  <2>4. ASSUME proc' = [proc EXCEPT ![c] = "dead"], UNCHANGED bound
        PROVE  CallMoves
    <3>1. CallsTypeOK'
      BY <2>2, <2>4 DEF TypeOK, CallsTypeOK
    <3>2. ChildInv'
      BY <2>1, <2>2, <2>4 DEF TypeOK, ChildInv, Running
    <3>3. \A g : Registered(g)' \subseteq Registered(g)
      BY <2>2, <2>4 DEF TypeOK, Registered, Running
    <3> QED
      BY <3>1, <3>2, <3>3 DEF CallMoves
  <2>5. CallMoves
    BY <1>9, <2>3, <2>4 DEF GateRegister
  <2> QED
    BY <1>9, <2>5, SameFaults DEF GateRegister, cutoffVars, NoFailures, Faults
<1>10. CASE GateExec(c)
  <2>1. /\ proc[c] = "gate" /\ c \in bound /\ proc' = [proc EXCEPT ![c] = "live"]
        /\ UNCHANGED <<pc, asked, slot, bound, born, signalled>>
    BY <1>10 DEF GateExec, cutoffVars
  <2>2. CallsTypeOK'
    BY <2>1 DEF TypeOK, CallsTypeOK
  <2>3. ChildInv'
    BY <2>1 DEF TypeOK, ChildInv, Running
  <2>4. \A g : Registered(g)' \subseteq Registered(g)
    BY <2>1 DEF TypeOK, Registered, Running
  <2> QED
    BY <1>10, <2>2, <2>3, <2>4, SameFaults
       DEF CallMoves, GateExec, cutoffVars, NoFailures, Faults
<1>11. CASE ChildEnds(c)
  <2>1. /\ Running(c) /\ proc' = [proc EXCEPT ![c] = "dead"]
        /\ UNCHANGED <<pc, asked, slot, bound, born, signalled>>
    BY <1>11 DEF ChildEnds, cutoffVars
  <2>2. CallsTypeOK'
    BY <2>1 DEF TypeOK, CallsTypeOK
  <2>3. ChildInv'
    BY <2>1 DEF TypeOK, ChildInv, Running
  <2>4. \A g : Registered(g)' \subseteq Registered(g)
    BY <2>1 DEF TypeOK, Registered, Running
  <2> QED
    BY <1>11, <2>2, <2>3, <2>4, SameFaults
       DEF CallMoves, ChildEnds, cutoffVars, NoFailures, Faults
<1>12. CASE Finish(c)
  <2>1. /\ proc[c] = "dead" /\ pc' = [pc EXCEPT ![c] = "releasing"]
        /\ UNCHANGED <<asked, slot, bound, born, proc, signalled>>
    BY <1>12 DEF Finish, Goto, cutoffVars
  <2>2. CallsTypeOK'
    BY <2>1 DEF TypeOK, CallsTypeOK, PcStates
  <2>3. ChildInv'
    BY <2>1 DEF TypeOK, ChildInv, Running
  <2>4. \A g : Registered(g)' \subseteq Registered(g)
    BY <2>1 DEF Registered, Running
  <2> QED
    BY <1>12, <2>2, <2>3, <2>4, SameFaults
       DEF CallMoves, Finish, cutoffVars, NoFailures, Faults
<1>13. CASE Release(c)
  <2>1. /\ pc[c] = "releasing" /\ pc' = [pc EXCEPT ![c] = "done"]
        /\ UNCHANGED <<asked, bound, born, proc, signalled>>
        /\ slot' = [slot EXCEPT ![c] = 0] \/ slot' = slot
    BY <1>13 DEF Release, Goto, cutoffVars
  <2>2. CallsTypeOK'
    BY <1>0, <2>1 DEF TypeOK, CallsTypeOK, PcStates
  <2>3. ~Running(c)
    BY <2>1 DEF ChildInv
  <2>4. ChildInv'
    BY <2>1, <2>3 DEF TypeOK, ChildInv, Running
  <2>5. \A g : Registered(g)' \subseteq Registered(g)
    BY <2>1, <2>3 DEF TypeOK, Registered, Running
  <2> QED
    BY <1>13, <2>2, <2>4, <2>5, SameFaults
       DEF CallMoves, Release, cutoffVars, NoFailures, Faults
<1> QED
  BY <1>1, <1>2, <1>3, <1>4, <1>5, <1>6, <1>7, <1>8, <1>9, <1>10, <1>11, <1>12, <1>13
     DEF CallStep

------------------------------------------------------------------------------
(* The inductive invariant *)

\* The sweep kills every registered child of a generation whose termination it
\* completes: all of them were signalled, and none can have been added.
LEMMA SweepSteps ==
    ASSUME IInv, NEW g \in Generations, Sweep(g)
    PROVE  IInv'
<1> USE DEF IInv
<1>1. /\ grace[g] = "running" /\ grace' = [grace EXCEPT ![g] = "done"]
      /\ proc' = [c \in Calls |-> IF c \in signalled /\ slot[c] = g THEN "dead" ELSE proc[c]]
      /\ UNCHANGED <<gens, current, pc, asked, slot, bound, born, signalled, faults>>
  BY DEF Sweep
<1>2. TypeOK'
  BY <1>1 DEF TypeOK
<1>3. BudgetInv' /\ StatusInv' /\ WriteInv'
  BY <1>1 DEF BudgetInv, StatusInv, WriteInv, NoFailures, NoneYet, Terminal, CanWrite
<1>4. ChildInv'
  BY <1>1 DEF ChildInv, Running
<1>5. \A h \in Generations : Registered(h)' \subseteq Registered(h)
  BY <1>1 DEF Registered, Running
<1>6. Registered(g)' = {}
  <2>1. Registered(g) \subseteq signalled
    BY <1>1 DEF CutoffInv
  <2> QED
    BY <1>1, <2>1 DEF Registered, Running
<1>7. grace'[g] = "done" /\ \A h \in Generations : h # g => grace'[h] = grace[h]
  BY <1>1 DEF TypeOK
<1>8. Terminal(g)
  BY <1>1 DEF CutoffInv
<1>9. CutoffInv'
  <2> SUFFICES ASSUME NEW h \in Generations
               PROVE  /\ grace'[h] # "none" => Terminal(h)
                      /\ grace'[h] = "running" => Registered(h)' \subseteq signalled
                      /\ grace'[h] = "done" => Registered(h)' = {}
                      /\ NoFailures /\ Terminal(h) => Registered(h)' \subseteq signalled
    BY <1>1 DEF CutoffInv, NoFailures, NoneYet, Terminal
  <2>1. CASE h = g
    BY <1>6, <1>7, <1>8, <2>1
  <2>2. CASE h # g
    BY <1>5, <1>7, <2>2 DEF CutoffInv
  <2> QED
    BY <2>1, <2>2
<1> QED
  BY <1>2, <1>3, <1>4, <1>9

\* The timer is only set for a generation that ends in this step, and only if
\* something is registered there.
LEMMA GraceMoves ==
    ASSUME TypeOK, StatusInv,
           \/ Begin \/ Ensure \/ Terminate
           \/ \E g \in Generations : ListenCallback(g) \/ ServerError(g)
    PROVE  /\ grace' \in [Generations -> {"none", "running", "done"}]
           /\ \A g \in Generations :
                \/ grace'[g] = grace[g]
                \/ Terminal(g)' /\ grace'[g] = "done" /\ Registered(g) = {}
                \/ /\ Terminal(g)' /\ grace'[g] = "running"
                   /\ Registered(g) \subseteq signalled'
<1>1. CASE UNCHANGED grace
  BY <1>1 DEF TypeOK
<1>2. CASE /\ current # 0 /\ ~Terminal(current) /\ MarkTerminal /\ gens' = Marked
           /\ grace' = [grace EXCEPT ![current] =
                           IF Registered(current) = {} THEN "done" ELSE "running"]
  <2>1. GensTypeOK
    BY DEF TypeOK, GensTypeOK
  <2>2. current \in Generations /\ gens'[current].status = "terminal"
    BY <1>2, <2>1, MarkedFacts, CurrentOne
  <2>3. Registered(current) \subseteq signalled'
    BY <1>2 DEF MarkTerminal
  <2>4. /\ grace' \in [Generations -> {"none", "running", "done"}]
        /\ \A g \in Generations : g # current => grace'[g] = grace[g]
        /\ grace'[current] = IF Registered(current) = {} THEN "done" ELSE "running"
    BY <1>2, <2>2 DEF TypeOK
  <2> QED
    BY <2>2, <2>3, <2>4 DEF Terminal
<1>3. CASE Terminate
  BY <1>1, <1>2, <1>3 DEF Terminate
<1> QED
  BY <1>1, <1>3 DEF Begin, Ensure, ListenCallback, ServerError, cutoffVars

\* The steps of a generation that ends, is replaced or listens keep the invariant.
LEMMA GenerationKeeps ==
    ASSUME IInv,
           \/ Begin \/ Ensure \/ Terminate
           \/ \E g \in Generations : ListenCallback(g) \/ ServerError(g)
    PROVE  IInv'
<1> USE DEF IInv
<1>1. GenerationMoves
  BY GenerationSteps
<1>2. /\ grace' \in [Generations -> {"none", "running", "done"}]
      /\ \A g \in Generations :
           \/ grace'[g] = grace[g]
           \/ Terminal(g)' /\ grace'[g] = "done" /\ Registered(g) = {}
           \/ /\ Terminal(g)' /\ grace'[g] = "running"
              /\ Registered(g) \subseteq signalled'
  BY GraceMoves
<1>3. TypeOK'
  <2>1. signalled' \subseteq Calls
    BY <1>1 DEF GenerationMoves, TypeOK
  <2> QED
    BY <1>1, <1>2, <2>1 DEF GenerationMoves, GensTypeOK, TypeOK
<1>4. BudgetInv' /\ StatusInv' /\ WriteInv'
  BY <1>1 DEF GenerationMoves
<1>5. ChildInv'
  <2>1. /\ UNCHANGED <<slot, bound, born, proc>>
        /\ \A c \in Calls : pc'[c] = pc[c] \/ (pc[c] = "queued" /\ pc'[c] = "done")
        /\ signalled' \subseteq signalled \cup bound
    BY <1>1 DEF GenerationMoves
  <2> QED
    BY <2>1 DEF ChildInv, Running
<1>6. \A g \in Generations : Registered(g)' = Registered(g)
  BY <1>1 DEF GenerationMoves, Registered, Running
<1>7. CutoffInv'
  <2> SUFFICES ASSUME NEW g \in Generations
               PROVE  /\ grace'[g] # "none" => Terminal(g)'
                      /\ grace'[g] = "running" => Registered(g)' \subseteq signalled'
                      /\ grace'[g] = "done" => Registered(g)' = {}
                      /\ NoFailures' /\ Terminal(g)' => Registered(g)' \subseteq signalled'
    BY DEF CutoffInv
  <2>1. Terminal(g) => Terminal(g)'
    BY <1>1 DEF GenerationMoves, Lasting, Terminal
  <2>2. /\ signalled \subseteq signalled' /\ (NoFailures' => NoFailures)
        /\ (NoFailures' /\ Terminal(g)' /\ ~Terminal(g) => Registered(g) \subseteq signalled')
    BY <1>1 DEF GenerationMoves
  <2>3. /\ grace[g] # "none" => Terminal(g)
        /\ grace[g] = "running" => Registered(g) \subseteq signalled
        /\ grace[g] = "done" => Registered(g) = {}
        /\ NoFailures /\ Terminal(g) => Registered(g) \subseteq signalled
    BY DEF CutoffInv
  <2> QED
    BY <1>2, <1>6, <2>1, <2>2, <2>3
<1> QED
  BY <1>3, <1>4, <1>5, <1>7

\* So do the steps of a call.
LEMMA CallKeeps ==
    ASSUME IInv, NEW c \in Calls, CallStep(c)
    PROVE  IInv'
<1> USE DEF IInv
<1>1. /\ CallMoves
      /\ UNCHANGED <<gens, current, signalled, grace>>
      /\ faults' \in [Faults -> Nat] /\ BudgetInv' /\ (NoFailures' => NoFailures)
  BY CallSteps
<1>2. TypeOK'
  BY <1>1 DEF CallMoves, CallsTypeOK, TypeOK
<1>3. StatusInv'
  BY <1>1 DEF StatusInv, Terminal
<1>4. WriteInv'
  BY <1>1 DEF WriteInv, CanWrite
<1>5. CutoffInv'
  <2>1. \A g \in Generations : Terminal(g) => Registered(g)' \subseteq Registered(g)
    BY <1>1 DEF CallMoves
  <2>2. \A g \in Generations : Terminal(g)' = Terminal(g)
    BY <1>1 DEF Terminal
  <2> SUFFICES ASSUME NEW g \in Generations
               PROVE  /\ grace[g] # "none" => Terminal(g)
                      /\ grace[g] = "running" => Registered(g)' \subseteq signalled
                      /\ grace[g] = "done" => Registered(g)' = {}
                      /\ NoFailures /\ Terminal(g) => Registered(g)' \subseteq signalled
    BY <1>1, <2>2 DEF CutoffInv
  <2> QED
    BY <2>1 DEF CutoffInv
<1> QED
  BY <1>1, <1>2, <1>3, <1>4, <1>5 DEF CallMoves

LEMMA InitInv == Init => IInv
<1> SUFFICES ASSUME Init PROVE IInv
  OBVIOUS
<1>1. Unstarted \in Generation
  BY DEF Unstarted, Generation, Statuses
<1>2. TypeOK
  BY <1>1, GenerationsAssumption, FaultsAssumption DEF Init, TypeOK, PcStates
<1>3. BudgetInv
  BY FaultsAssumption DEF Init, BudgetInv
<1>4. \A g \in Generations : gens[g] = Unstarted /\ g > current
  BY DEF Init, Generations
<1>5. Unstarted.status = "none" /\ Unstarted.manifest = "none" /\ CanWrite(Unstarted)
  BY DEF Unstarted, CanWrite
<1>6. StatusInv /\ WriteInv
  <2>1. \A g \in Generations : ~(g <= current)
    BY <1>4, GenerationsAssumption DEF Init, Generations
  <2> QED
    BY <1>4, <1>5, <2>1 DEF StatusInv, WriteInv, CanWrite
<1>7. ChildInv
  BY DEF Init, ChildInv, Running
<1>8. CutoffInv
  BY <1>4, <1>5 DEF Init, CutoffInv, Terminal
<1> QED
  BY <1>2, <1>3, <1>6, <1>7, <1>8 DEF IInv

LEMMA StepInv == IInv /\ [Next]_vars => IInv'
<1> SUFFICES ASSUME IInv, [Next]_vars PROVE IInv'
  OBVIOUS
<1>1. CASE \/ Begin \/ Ensure \/ Terminate
           \/ \E g \in Generations : ListenCallback(g) \/ ServerError(g)
  BY <1>1, GenerationKeeps
<1>2. ASSUME NEW g \in Generations, Sweep(g) PROVE IInv'
  BY <1>2, SweepSteps
<1>3. ASSUME NEW c \in Calls, CallStep(c) PROVE IInv'
  BY <1>3, CallKeeps
<1>4. CASE UNCHANGED vars
  <2>1. \A g : Registered(g)' = Registered(g)
    BY <1>4 DEF vars, Registered, Running
  <2> QED
    BY <1>4, <2>1
       DEF vars, IInv, TypeOK, BudgetInv, StatusInv, WriteInv, ChildInv, CutoffInv,
           NoFailures, NoneYet, Terminal, CanWrite, Running
<1> QED
  BY <1>1, <1>2, <1>3, <1>4 DEF Next

\* What has ended stays as it is in every step.
LEMMA StepLasts == IInv /\ [Next]_vars => Lasting
<1> SUFFICES ASSUME IInv, [Next]_vars PROVE Lasting
  OBVIOUS
<1>1. CASE \/ Begin \/ Ensure \/ Terminate
           \/ \E g \in Generations : ListenCallback(g) \/ ServerError(g)
  BY <1>1, GenerationSteps DEF IInv, GenerationMoves
<1>2. ASSUME NEW g \in Generations, Sweep(g) PROVE Lasting
  BY <1>2 DEF Sweep, Lasting, Terminal
<1>3. ASSUME NEW c \in Calls, CallStep(c) PROVE Lasting
  BY <1>3, CallSteps DEF IInv, Lasting, Terminal
<1>4. CASE UNCHANGED vars
  BY <1>4 DEF vars, Lasting, Terminal
<1> QED
  BY <1>1, <1>2, <1>3, <1>4 DEF Next

LEMMA InvariantHolds == Spec => []IInv
<1> QED
  BY InitInv, StepInv, PTL DEF Spec

------------------------------------------------------------------------------
(* Theorems *)

\* Every variable always holds a value of its kind.
THEOREM TypeInvariant == Spec => []TypeOK
<1>1. IInv => TypeOK
  BY DEF IInv
<1> QED
  BY <1>1, InvariantHolds, PTL

\* startLocalCoordinator leaves no two generations to serve: all but the last one
\* that a root process started have ended.
THEOREM AuthorityTheorem == Spec => []OneAuthority
<1>1. IInv => OneAuthority
  BY DEF IInv, StatusInv, OneAuthority
<1> QED
  BY <1>1, InvariantHolds, PTL

\* A generation that ended is not brought back by a late listen callback, an error
\* of its server or anything else, in memory or in its manifest.
THEOREM IrrevocableTheorem == Spec => Irrevocable
<1>1. IInv /\ Lasting =>
        \A g \in Generations :
          /\ gens[g].status = "terminal" => gens'[g].status = "terminal"
          /\ gens[g].manifest = "terminal" => gens'[g].manifest = "terminal"
  BY DEF IInv, StatusInv, Lasting, Terminal
<1> QED
  BY <1>1, InvariantHolds, StepLasts, PTL DEF Spec, Irrevocable

\* A child that executes has the slot of the generation in its environment, although
\* the root may have gone on between its admission and its registration.
THEOREM LaunchTheorem == Spec => []LaunchedWhereAdmitted
<1>1. IInv => LaunchedWhereAdmitted
  BY DEF IInv, ChildInv, LaunchedWhereAdmitted, Running
<1> QED
  BY <1>1, InvariantHolds, PTL

\* A generation that ended has signalled whatever executes under it, if its
\* manifest and its server had not failed.
THEOREM CutoffTheorem == Spec => []CutoffComplete
<1>1. ASSUME IInv PROVE CutoffComplete
  <2> SUFFICES ASSUME NoFailures, NEW g \in Generations, Terminal(g),
                      NEW c \in Calls, born[c] = g, proc[c] = "live"
               PROVE  c \in signalled
    BY DEF CutoffComplete, NoFailures
  <2>1. c \in Registered(g)
    BY <1>1 DEF IInv, ChildInv, Registered, Running
  <2> QED
    BY <1>1, <2>1 DEF IInv, CutoffInv
<1> QED
  BY <1>1, InvariantHolds, PTL

\* When terminateRootTreeCoordinator is done with a generation, nothing executes
\* under it any more.
THEOREM TerminationTheorem == Spec => []TerminationComplete
<1>1. ASSUME IInv PROVE TerminationComplete
  <2> SUFFICES ASSUME NEW g \in Generations, grace[g] = "done",
                      NEW c \in Calls, born[c] = g, proc[c] = "live"
               PROVE  FALSE
    BY DEF TerminationComplete
  <2>1. c \in Registered(g)
    BY <1>1 DEF IInv, ChildInv, Registered, Running
  <2> QED
    BY <1>1, <2>1 DEF IInv, CutoffInv
<1> QED
  BY <1>1, InvariantHolds, PTL
=============================================================================
