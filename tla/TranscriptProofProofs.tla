------------------------ MODULE TranscriptProofProofs ------------------------
(***************************************************************************)
(* Theorems about TranscriptProof, for any number of calls, events and     *)
(* faults.  While files only grow, what was read of one stays true of its  *)
(* beginning, so that a receipt can be put together from several reads;    *)
(* and the validator, which reads everything again, can be misled only by  *)
(* two rewritings.                                                         *)
(***************************************************************************)
EXTENDS TranscriptProof, FiniteSetTheorems, TLAPS

------------------------------------------------------------------------------
(* Sequences *)

\* The beginning of a sequence.
LEMMA PrefixFacts ==
    ASSUME NEW s \in Seq(Event), NEW n \in 0 .. Len(s)
    PROVE  /\ Prefix(s, n) \in Seq(Event) /\ Len(Prefix(s, n)) = n
           /\ \A i \in 1 .. n : Prefix(s, n)[i] = s[i]
  BY DEF Prefix

LEMMA BehindFacts ==
    ASSUME NEW s \in Seq(Event), NEW n \in 0 .. Len(s)
    PROVE  Behind(s, n) \in Seq(Event) /\ Len(Behind(s, n)) = Len(s) - n
  BY DEF Behind

\* Sequences are told apart by their lengths and elements.
LEMMA SameSequence ==
    ASSUME NEW s \in Seq(Event), NEW t \in Seq(Event), Len(s) = Len(t),
           \A i \in 1 .. Len(s) : s[i] = t[i]
    PROVE  s = t
  OBVIOUS

LEMMA WholePrefix ==
    ASSUME NEW s \in Seq(Event)
    PROVE  Prefix(s, Len(s)) = s /\ StartsWith(s, s)
<1>1. Len(s) \in 0 .. Len(s) /\ Len(s) \in Nat
  OBVIOUS
<1>2. Prefix(s, Len(s)) = s
  BY <1>1, PrefixFacts, SameSequence
<1> QED
  BY <1>1, <1>2 DEF StartsWith

\* What is appended leaves the beginning alone.
LEMMA GrownPrefix ==
    ASSUME NEW s \in Seq(Event), NEW e \in Event, NEW n \in 0 .. Len(s)
    PROVE  /\ Append(s, e) \in Seq(Event) /\ Len(Append(s, e)) = Len(s) + 1
           /\ Prefix(Append(s, e), n) = Prefix(s, n)
<1> DEFINE r == Append(s, e)
<1>1. /\ r \in Seq(Event) /\ Len(r) = Len(s) + 1 /\ Len(s) \in Nat
      /\ \A i \in 1 .. Len(s) : r[i] = s[i]
  OBVIOUS
<1> HIDE DEF r
<1>2. /\ Prefix(r, n) \in Seq(Event) /\ Len(Prefix(r, n)) = n
      /\ \A i \in 1 .. n : Prefix(r, n)[i] = r[i]
  BY <1>1, PrefixFacts
<1>3. /\ Prefix(s, n) \in Seq(Event) /\ Len(Prefix(s, n)) = n
      /\ \A i \in 1 .. n : Prefix(s, n)[i] = s[i]
  BY PrefixFacts
<1>4. \A i \in 1 .. n : Prefix(r, n)[i] = Prefix(s, n)[i]
  BY <1>1, <1>2, <1>3
<1>5. Prefix(r, n) = Prefix(s, n)
  BY <1>2, <1>3, <1>4, SameSequence
<1> QED
  BY <1>1, <1>5 DEF r

LEMMA GrownStart ==
    ASSUME NEW s \in Seq(Event), NEW e \in Event, NEW t \in Seq(Event), StartsWith(s, t)
    PROVE  StartsWith(Append(s, e), t)
<1>1. Len(t) \in 0 .. Len(s)
  BY DEF StartsWith
<1> QED
  BY <1>1, GrownPrefix DEF StartsWith

\* Two beginnings of one sequence.
LEMMA StartOfPrefix ==
    ASSUME NEW s \in Seq(Event), NEW n \in 0 .. Len(s)
    PROVE  /\ StartsWith(s, Prefix(s, n))
           /\ \A t \in Seq(Event) : StartsWith(s, t) /\ Len(t) <= n => StartsWith(Prefix(s, n), t)
<1>1. /\ Prefix(s, n) \in Seq(Event) /\ Len(Prefix(s, n)) = n /\ Len(s) \in Nat
      /\ \A i \in 1 .. n : Prefix(s, n)[i] = s[i]
  BY PrefixFacts
<1>2. StartsWith(s, Prefix(s, n))
  BY <1>1 DEF StartsWith
<1>3. ASSUME NEW t \in Seq(Event), StartsWith(s, t), Len(t) <= n
      PROVE  StartsWith(Prefix(s, n), t)
  <2>1. Len(t) \in 0 .. Len(s) /\ Len(t) \in 0 .. Len(Prefix(s, n)) /\ Prefix(s, Len(t)) = t
    BY <1>1, <1>3 DEF StartsWith
  <2>2. \A i \in 1 .. Len(t) : Prefix(Prefix(s, n), Len(t))[i] = t[i]
    <3>1. \A i \in 1 .. Len(t) : t[i] = s[i]
      BY <2>1, PrefixFacts
    <3> QED
      BY <1>1, <2>1, <3>1, PrefixFacts
  <2>3. Prefix(Prefix(s, n), Len(t)) \in Seq(Event) /\ Len(Prefix(Prefix(s, n), Len(t))) = Len(t)
    BY <1>1, <2>1, PrefixFacts
  <2> QED
    BY <1>1, <2>1, <2>2, <2>3, SameSequence DEF StartsWith
<1> QED
  BY <1>2, <1>3

LEMMA TwoStarts ==
    ASSUME NEW s \in Seq(Event), NEW t \in Seq(Event), NEW u \in Seq(Event),
           StartsWith(s, t), StartsWith(s, u), Len(t) <= Len(u)
    PROVE  StartsWith(u, t)
<1>1. Len(u) \in 0 .. Len(s) /\ Prefix(s, Len(u)) = u
  BY DEF StartsWith
<1> QED
  BY <1>1, StartOfPrefix

\* How many messages a sequence has.
LEMMA MessagesType ==
    ASSUME NEW s \in Seq(Event)
    PROVE  Messages(s) \in Nat /\ (s = <<>> => Messages(s) = 0)
<1> DEFINE M == {i \in DOMAIN s : s[i] \in {"message", "tail"}}
<1>1. M \subseteq 1 .. Len(s) /\ Len(s) \in Nat
  OBVIOUS
<1>2. IsFiniteSet(1 .. Len(s))
  BY <1>1, FS_Interval
<1>3. IsFiniteSet(M)
  BY <1>1, <1>2, FS_Subset
<1>4. Cardinality(M) \in Nat
  BY <1>3, FS_CardinalityType
<1>5. s = <<>> => M = {}
  OBVIOUS
<1>6. M = {} => Cardinality(M) = 0
  BY FS_EmptySet
<1> QED
  BY <1>4, <1>5, <1>6 DEF Messages

------------------------------------------------------------------------------
(* The inductive invariant *)

\* Files have only grown; nothing has failed.
Grown == "rewrite" \notin faults
Fine == faults = {}

\* The process is between the end of the child and the receipt.
Reading == {"measured", "based", "validated", "digested"}

\* Where the setup is determines what is on the disk.
SetupInv(c) ==
    /\ stage[c] = "idle" => base[c] = <<>> /\ held[c] = <<>>
    /\ stage[c] \in {"idle", "opened", "copied", "temporary"} => at[c] = "nothing"
    /\ stage[c] \in {"temporary", "linked", "prepared"} => held[c] = base[c]
    /\ stage[c] \in {"linked", "prepared"} => at[c] = "held"
    /\ Started(c) => at[c] # "nothing"
    /\ stage[c] \in Setup \cup Reading \cup {"refused", "running", "closed"} =>
         receipt[c] = NoReceipt

\* A receipt is about something that the child has added.
SizeInv(c) ==
    /\ stage[c] \in Reading => size[c] > Len(base[c])
    /\ stage[c] = "digested" => Len(digest[c]) = size[c]
    /\ receipt[c] # NoReceipt =>
         receipt[c].base = base[c] /\ Len(receipt[c].final) > Len(base[c])

\* What was read of a file that only grows is a beginning of it.
GrowthInv(c) == Grown =>
    /\ at[c] # "nothing" => StartsWith(held[c], base[c])
    /\ stage[c] \in Reading => size[c] <= Len(held[c])
    /\ stage[c] \in {"validated", "digested"} => ValidRegion(Appended(c))
    /\ stage[c] = "digested" => digest[c] = Prefix(held[c], size[c])
    /\ receipt[c] # NoReceipt => at[c] # "nothing"
    /\ receipt[c] # NoReceipt => Proves(receipt[c]) /\ StartsWith(held[c], receipt[c].final)

\* What the child has left, and a receipt for all of it.
Gained(c) == Behind(held[c], Len(base[c]))
Vouched(c) ==
    /\ receipt[c] # NoReceipt /\ receipt[c].base = base[c] /\ receipt[c].final = held[c]
    /\ receipt[c].messages = Messages(Gained(c))
Recorded(c) ==
    /\ {"start", "completed"} \subseteq trace[c] /\ "cleanup failed" \notin trace[c]
    /\ \/ Vouched(c) /\ "verified" \in trace[c]
       \/ ~ValidRegion(Gained(c))

\* As long as nothing fails, the trace and the receipt follow the files.
FineInv(c) == Fine =>
    /\ stage[c] \notin {"dead", "killed", "incomplete"}
    /\ stage[c] \in Setup \cup {"refused"} => trace[c] = {}
    /\ stage[c] = "refused" => at[c] = "nothing"
    /\ Started(c) => at[c] = "held" /\ "start" \in trace[c] /\ "cleanup failed" \notin trace[c]
    /\ stage[c] \in Reading => size[c] = Len(held[c])
    /\ stage[c] \in {"validated", "digested"} => messages[c] = Messages(Gained(c))
    /\ stage[c] = "unproved" => ~ValidRegion(Gained(c))
    /\ stage[c] = "proved" => Vouched(c)
    /\ stage[c] \in {"completed", "over"} => Recorded(c)
    /\ stage[c] = "over" => "terminal" \in trace[c]

CallInv(c) ==
    /\ SetupInv(c) /\ SizeInv(c) /\ GrowthInv(c) /\ FineInv(c)
    /\ "terminal" \in trace[c] => stage[c] = "over"

\* The next call has a receipt that proves it, or somebody has rewritten a file,
\* so that nobody will, and what was verified of it stays true.
NextInv ==
    /\ receipt[Chosen] # NoReceipt
    /\ validator = "based" =>
         \/ Proves(receipt[Chosen])
         \/ ~Grown /\ StartsWith(held[Chosen], receipt[Chosen].base)
    /\ validator = "digested" =>
         \/ Proves(receipt[Chosen])
         \/ /\ ~Grown /\ StartsWith(held[Chosen], receipt[Chosen].base)
            /\ StartsWith(held[Chosen], receipt[Chosen].final)

\* A call whose setup is over, one way or the other.
Known(c) == Started(c) \/ stage[c] \in {"refused", "dead"}

ValidatorInv ==
    /\ \A c \in ran : Known(c) /\ at[c] # "nothing"
    /\ \A c \in seen : stage[c] = "over"
    /\ \A c \in seen \ left : Proves(receipt[c])
    /\ validator \in {"sized", "based", "digested"} => left # {} /\ NextInv
    /\ validator \in {"listed", "pass"} => left = {}
    /\ validator = "pass" => ran \subseteq seen

\* A trace in good order is not rejected.
AlarmInv == calm /\ Fine =>
    /\ \A c \in Calls : InGoodOrder(c)
    /\ validator \notin {"idle", "fail"} /\ seen = {c \in Calls : stage[c] = "over"}

IInv ==
    /\ TypeOK /\ (\A c \in Calls : CallInv(c)) /\ (Fine => traced)
    /\ ValidatorInv /\ AlarmInv

\* What does not concern the validator, and what does.
FilesTypeOK ==
    /\ session \in Seq(Event) /\ {base, held, digest} \subseteq [Calls -> Seq(Event)]
    /\ stage \in [Calls -> Stages]
    /\ at \in [Calls -> {"nothing", "held", "other"}]
    /\ {size, messages} \subseteq [Calls -> Nat]
    /\ receipt \in [Calls -> Receipt]
    /\ trace \in [Calls -> SUBSET Lines] /\ traced \in BOOLEAN
    /\ writes \in Nat /\ faults \subseteq Faults
ListsTypeOK ==
    /\ validator \in {"idle", "choosing", "sized", "based", "digested", "listed", "pass", "fail"}
    /\ left \subseteq seen /\ seen \subseteq Calls /\ ran \subseteq Calls /\ calm \in BOOLEAN

LEMMA TypeParts == TypeOK <=> FilesTypeOK /\ ListsTypeOK
  BY DEF TypeOK, FilesTypeOK, ListsTypeOK

LEMMA CallTypes ==
    ASSUME FilesTypeOK, NEW c \in Calls
    PROVE  /\ base[c] \in Seq(Event) /\ held[c] \in Seq(Event) /\ digest[c] \in Seq(Event)
           /\ stage[c] \in Stages /\ at[c] \in {"nothing", "held", "other"}
           /\ size[c] \in Nat /\ messages[c] \in Nat /\ receipt[c] \in Receipt
           /\ trace[c] \subseteq Lines
           /\ Len(base[c]) \in Nat /\ Len(held[c]) \in Nat /\ Len(digest[c]) \in Nat
  BY DEF FilesTypeOK

\* A step that another call or writer takes.
Same(c) ==
    /\ stage'[c] = stage[c] /\ base'[c] = base[c] /\ held'[c] = held[c] /\ at'[c] = at[c]
    /\ size'[c] = size[c] /\ messages'[c] = messages[c] /\ digest'[c] = digest[c]
    /\ receipt'[c] = receipt[c] /\ trace'[c] = trace[c]

\* What a step may do to a call that the validator is looking at.
Moved(c) ==
    /\ stage[c] \in {"refused", "over"} =>
         /\ stage'[c] = stage[c] /\ base'[c] = base[c] /\ receipt'[c] = receipt[c]
         /\ Fine' => held'[c] = held[c]
         /\ ~Grown => held'[c] = held[c] \/ \E e \in Event : held'[c] = Append(held[c], e)
    /\ Known(c) /\ at[c] # "nothing" => Known(c)' /\ at'[c] # "nothing"

StepMoves ==
    /\ FilesTypeOK' /\ (\A c \in Calls : CallInv(c)' /\ Moved(c))
    /\ (Fine' => traced') /\ faults \subseteq faults'

LEMMA CallFrame ==
    ASSUME NEW c \in Calls, CallInv(c), Same(c), faults \subseteq faults'
    PROVE  CallInv(c)' /\ Moved(c)
<1>1. SetupInv(c)' /\ SizeInv(c)'
  BY DEF CallInv, Same, SetupInv, SizeInv, Started
<1>2. GrowthInv(c)'
  BY DEF CallInv, Same, GrowthInv, Grown, Appended
<1>3. FineInv(c)'
  BY DEF CallInv, Same, FineInv, Fine, Started, Gained, Vouched, Recorded
<1>4. Moved(c)
  BY DEF Same, Moved, Known, Started
<1> QED
  BY <1>1, <1>2, <1>3, <1>4 DEF CallInv, Same

LEMMA OneCall ==
    ASSUME \A d \in Calls : CallInv(d), NEW c \in Calls,
           \A d \in Calls \ {c} : Same(d), faults \subseteq faults',
           FilesTypeOK', Fine' => traced', CallInv(c)', Moved(c)
    PROVE  StepMoves
<1>1. \A d \in Calls \ {c} : CallInv(d)' /\ Moved(d)
  BY CallFrame
<1> QED
  BY <1>1 DEF StepMoves

\* A step that only moves a call on.
LEMMA GoesOn ==
    ASSUME FilesTypeOK, NEW c \in Calls, NEW s \in Stages, Goto(c, s),
           UNCHANGED <<session, base, held, at, size, messages, digest, receipt, trace, traced,
                       writes>>,
           faults' \subseteq Faults
    PROVE  /\ FilesTypeOK' /\ (\A d \in Calls \ {c} : Same(d)) /\ stage'[c] = s
           /\ base'[c] = base[c] /\ held'[c] = held[c] /\ at'[c] = at[c]
           /\ size'[c] = size[c] /\ messages'[c] = messages[c] /\ digest'[c] = digest[c]
           /\ receipt'[c] = receipt[c] /\ trace'[c] = trace[c]
  BY DEF FilesTypeOK, Goto, Same

LEMMA SpendFacts ==
    ASSUME FilesTypeOK, NEW f \in Faults, Spend(f)
    PROVE  faults' \subseteq Faults /\ faults \subseteq faults' /\ ~Fine'
  BY DEF FilesTypeOK, Spend, Fine

------------------------------------------------------------------------------
(* Steps of a call *)

LEMMA SetupSteps ==
    ASSUME FilesTypeOK, Fine => traced, \A d \in Calls : CallInv(d), NEW c \in Calls,
           UNCHANGED <<session, writes>>,
           \/ /\ OpenSource(c) \/ CopySource(c) \/ CheckCopy(c) \/ RetireTemporary(c)
              /\ UNCHANGED <<at, receipt, faults>>
           \/ (LinkTranscript(c) \/ AbandonUnstarted(c)) /\ UNCHANGED <<held, receipt, faults>>
    PROVE  StepMoves
<1> USE DEF Stages, Setup, Finalizing
<1>0. CallInv(c) /\ faults' \subseteq Faults
  BY DEF FilesTypeOK
<1>a. SetupInv(c) /\ SizeInv(c) /\ GrowthInv(c) /\ FineInv(c)
      /\ ("terminal" \in trace[c] => stage[c] = "over")
  BY <1>0 DEF CallInv
<1>b. UNCHANGED <<size, messages, digest, receipt, trace, traced, faults>>
  BY DEF OpenSource, CopySource, CheckCopy, RetireTemporary, LinkTranscript, AbandonUnstarted
<1>c. /\ size'[c] = size[c] /\ messages'[c] = messages[c] /\ digest'[c] = digest[c]
      /\ receipt'[c] = receipt[c] /\ trace'[c] = trace[c]
  BY <1>b
<1>1. CASE OpenSource(c) /\ UNCHANGED at
  <2>1. /\ stage[c] = "idle" /\ UNCHANGED <<held, at>>
        /\ \/ Goto(c, "opened") /\ base' = [base EXCEPT ![c] = session]
           \/ \E s \in {"refused", "temporary"} : Goto(c, s) /\ UNCHANGED base
    BY <1>1 DEF OpenSource
  <2>a. base' \in [Calls -> Seq(Event)] /\ \A d \in Calls \ {c} : base'[d] = base[d]
    BY <2>1 DEF FilesTypeOK
  <2>b. stage' \in [Calls -> Stages] /\ \A d \in Calls \ {c} : stage'[d] = stage[d]
    BY <2>1 DEF FilesTypeOK, Goto
  <2>2. FilesTypeOK' /\ \A d \in Calls \ {c} : Same(d)
    BY <1>b, <2>1, <2>a, <2>b DEF FilesTypeOK, Same
  <2>3. /\ held'[c] = held[c] /\ at'[c] = at[c]
        /\ \/ stage'[c] = "opened"
           \/ stage'[c] \in {"refused", "temporary"} /\ base'[c] = base[c]
    BY <2>1 DEF FilesTypeOK, Goto
  <2>4. SetupInv(c)' /\ SizeInv(c)' /\ GrowthInv(c)'
    BY <1>a, <1>c, <2>1, <2>3
       DEF SetupInv, SizeInv, GrowthInv, Started, Reading, Grown
  <2>5. FineInv(c)'
    BY <1>a, <1>b, <1>c, <2>1, <2>3 DEF SetupInv, FineInv, Started, Reading, Fine
  <2>6. Moved(c) /\ CallInv(c)'
    BY <1>a, <1>c, <2>1, <2>4, <2>5 DEF CallInv, Moved, Known, Started
  <2> QED
    BY <1>b, <2>2, <2>6, OneCall DEF Fine
<1>2. CASE CopySource(c) /\ UNCHANGED at
  <2>1. /\ stage[c] = "opened" /\ UNCHANGED <<base, at>>
        /\ \/ /\ Len(session) >= Len(base[c]) /\ Goto(c, "copied")
              /\ held' = [held EXCEPT ![c] = Prefix(session, Len(base[c]))]
           \/ Goto(c, "refused") /\ UNCHANGED held
    BY <1>2 DEF CopySource
  <2>2. Len(session) >= Len(base[c]) => Prefix(session, Len(base[c])) \in Seq(Event)
    BY CallTypes, PrefixFacts DEF FilesTypeOK
  <2>a. held' \in [Calls -> Seq(Event)] /\ \A d \in Calls \ {c} : held'[d] = held[d]
    BY <2>1, <2>2 DEF FilesTypeOK
  <2>b. stage' \in [Calls -> Stages] /\ \A d \in Calls \ {c} : stage'[d] = stage[d]
    BY <2>1 DEF FilesTypeOK, Goto
  <2>3. FilesTypeOK' /\ \A d \in Calls \ {c} : Same(d)
    BY <1>b, <2>1, <2>a, <2>b DEF FilesTypeOK, Same
  <2>4. base'[c] = base[c] /\ at'[c] = at[c] /\ stage'[c] \in {"copied", "refused"}
    BY <2>1 DEF FilesTypeOK, Goto
  <2>5. SetupInv(c)' /\ SizeInv(c)' /\ GrowthInv(c)'
    BY <1>a, <1>c, <2>1, <2>4
       DEF SetupInv, SizeInv, GrowthInv, Started, Reading, Grown
  <2>6. FineInv(c)'
    BY <1>a, <1>b, <1>c, <2>1, <2>4 DEF SetupInv, FineInv, Started, Reading, Fine
  <2>7. Moved(c) /\ CallInv(c)'
    BY <1>a, <1>c, <2>1, <2>5, <2>6 DEF CallInv, Moved, Known, Started
  <2> QED
    BY <1>b, <2>3, <2>7, OneCall DEF Fine
<1>3. CASE CheckCopy(c) /\ UNCHANGED at
  <2>1. /\ stage[c] = "copied" /\ UNCHANGED <<base, held, at>>
        /\ \E s \in {"temporary", "refused"} :
             Goto(c, s) /\ (s = "temporary" => held[c] = base[c])
    BY <1>3 DEF CheckCopy, CopyVerified
  <2>2. PICK s \in {"temporary", "refused"} :
          Goto(c, s) /\ (s = "temporary" => held[c] = base[c])
    BY <2>1
  <2>3. /\ FilesTypeOK' /\ (\A d \in Calls \ {c} : Same(d)) /\ stage'[c] = s
        /\ base'[c] = base[c] /\ held'[c] = held[c] /\ at'[c] = at[c]
    BY <1>0, <1>b, <2>1, <2>2, GoesOn
  <2>5. SetupInv(c)' /\ SizeInv(c)' /\ GrowthInv(c)'
    BY <1>a, <1>c, <2>1, <2>2, <2>3
       DEF SetupInv, SizeInv, GrowthInv, Started, Reading, Grown
  <2>6. FineInv(c)'
    BY <1>a, <1>b, <1>c, <2>1, <2>3 DEF SetupInv, FineInv, Started, Reading, Fine
  <2>7. Moved(c) /\ CallInv(c)'
    BY <1>a, <1>c, <2>1, <2>5, <2>6 DEF CallInv, Moved, Known, Started
  <2> QED
    BY <1>b, <2>3, <2>7, OneCall DEF Fine
<1>4. CASE RetireTemporary(c) /\ UNCHANGED at
  <2>1. stage[c] = "linked" /\ UNCHANGED <<base, held, at>> /\ Goto(c, "prepared")
    BY <1>4 DEF RetireTemporary
  <2>3. /\ FilesTypeOK' /\ (\A d \in Calls \ {c} : Same(d)) /\ stage'[c] = "prepared"
        /\ base'[c] = base[c] /\ held'[c] = held[c] /\ at'[c] = at[c]
    BY <1>0, <1>b, <2>1, GoesOn
  <2>5. SetupInv(c)' /\ SizeInv(c)' /\ GrowthInv(c)'
    BY <1>a, <1>b, <1>c, <2>1, <2>3
       DEF SetupInv, SizeInv, GrowthInv, Started, Reading, Grown
  <2>6. FineInv(c)'
    BY <1>a, <1>b, <1>c, <2>1, <2>3 DEF SetupInv, FineInv, Started, Reading, Fine
  <2>7. Moved(c) /\ CallInv(c)'
    BY <1>a, <1>c, <2>1, <2>5, <2>6 DEF CallInv, Moved, Known, Started
  <2> QED
    BY <1>b, <2>3, <2>7, OneCall DEF Fine
<1>5. CASE LinkTranscript(c) /\ UNCHANGED held
  <2>1. /\ stage[c] = "temporary" /\ Goto(c, "linked") /\ at' = [at EXCEPT ![c] = "held"]
        /\ UNCHANGED <<base, held>>
    BY <1>5 DEF LinkTranscript
  <2>2. FilesTypeOK' /\ \A d \in Calls \ {c} : Same(d)
    BY <1>b, <2>1 DEF FilesTypeOK, Goto, Same
  <2>3. base'[c] = base[c] /\ held'[c] = held[c] /\ at'[c] = "held" /\ stage'[c] = "linked"
    BY <2>1 DEF FilesTypeOK, Goto
  <2>4. StartsWith(base[c], base[c])
    BY CallTypes, WholePrefix
  <2>5. SetupInv(c)' /\ SizeInv(c)' /\ GrowthInv(c)'
    BY <1>a, <1>c, <2>1, <2>3, <2>4
       DEF SetupInv, SizeInv, GrowthInv, Started, Reading, Grown
  <2>6. FineInv(c)'
    BY <1>a, <1>b, <1>c, <2>1, <2>3 DEF SetupInv, FineInv, Started, Reading, Fine
  <2>7. Moved(c) /\ CallInv(c)'
    BY <1>a, <1>c, <2>1, <2>5, <2>6 DEF CallInv, Moved, Known, Started
  <2> QED
    BY <1>b, <2>2, <2>7, OneCall DEF Fine
<1>6. CASE AbandonUnstarted(c) /\ UNCHANGED held
  <2>1. /\ stage[c] = "prepared" /\ Goto(c, "refused") /\ at' = [at EXCEPT ![c] = "nothing"]
        /\ UNCHANGED <<base, held>>
    BY <1>6, <1>a DEF AbandonUnstarted, SetupInv
  <2>2. FilesTypeOK' /\ \A d \in Calls \ {c} : Same(d)
    BY <1>b, <2>1 DEF FilesTypeOK, Goto, Same
  <2>3. base'[c] = base[c] /\ held'[c] = held[c] /\ at'[c] = "nothing" /\ stage'[c] = "refused"
    BY <2>1 DEF FilesTypeOK, Goto
  <2>5. SetupInv(c)' /\ SizeInv(c)' /\ GrowthInv(c)'
    BY <1>a, <1>c, <2>1, <2>3
       DEF SetupInv, SizeInv, GrowthInv, Started, Reading, Grown
  <2>6. FineInv(c)'
    BY <1>a, <1>b, <1>c, <2>1, <2>3 DEF SetupInv, FineInv, Started, Reading, Fine
  <2>7. Moved(c) /\ CallInv(c)'
    BY <1>a, <1>c, <2>1, <2>5, <2>6 DEF CallInv, Moved, Known, Started
  <2> QED
    BY <1>b, <2>2, <2>7, OneCall DEF Fine
<1> QED
  BY <1>1, <1>2, <1>3, <1>4, <1>5, <1>6

LEMMA ReportFacts ==
    ASSUME FilesTypeOK, NEW c \in Calls, NEW lines \in SUBSET Lines, Report(c, lines)
    PROVE  /\ trace' \in [Calls -> SUBSET Lines]
           /\ \A d \in Calls \ {c} : trace'[d] = trace[d]
           /\ trace'[c] = IF traced THEN trace[c] \cup lines ELSE trace[c]
<1>1. trace \in [Calls -> SUBSET Lines]
  BY DEF FilesTypeOK
<1>2. CASE traced
  BY <1>1, <1>2 DEF Report
<1>3. CASE ~traced
  BY <1>1, <1>3 DEF Report
<1> QED
  BY <1>2, <1>3

\* A step that moves a call on and reports it.
LEMMA GoesOnReporting ==
    ASSUME FilesTypeOK, NEW c \in Calls, NEW s \in Stages, Goto(c, s),
           NEW lines \in SUBSET Lines, Report(c, lines),
           UNCHANGED <<session, base, held, at, size, messages, digest, receipt, traced, writes>>,
           faults' \subseteq Faults
    PROVE  /\ FilesTypeOK' /\ (\A d \in Calls \ {c} : Same(d)) /\ stage'[c] = s
           /\ base'[c] = base[c] /\ held'[c] = held[c] /\ at'[c] = at[c]
           /\ size'[c] = size[c] /\ messages'[c] = messages[c] /\ digest'[c] = digest[c]
           /\ receipt'[c] = receipt[c]
           /\ trace'[c] = IF traced THEN trace[c] \cup lines ELSE trace[c]
<1>1. /\ trace' \in [Calls -> SUBSET Lines]
      /\ \A d \in Calls \ {c} : trace'[d] = trace[d]
      /\ trace'[c] = IF traced THEN trace[c] \cup lines ELSE trace[c]
  BY ReportFacts
<1> QED
  BY <1>1 DEF FilesTypeOK, Goto, Same

\* What is behind the whole of a sequence holds no message.
LEMMA NothingBehind ==
    ASSUME NEW s \in Seq(Event)
    PROVE  ~ValidRegion(Behind(s, Len(s)))
<1>1. Len(s) \in 0 .. Len(s) /\ Len(s) - Len(s) = 0 /\ <<>> \in Seq(Event) /\ Len(<<>>) = 0
  OBVIOUS
<1>2. Behind(s, Len(s)) \in Seq(Event) /\ Len(Behind(s, Len(s))) = 0
  BY <1>1, BehindFacts
<1>3. Behind(s, Len(s)) = <<>>
  BY <1>2
<1>4. Messages(Behind(s, Len(s))) = 0
  BY <1>2, <1>3, MessagesType
<1> QED
  BY <1>4 DEF ValidRegion

LEMMA FineGrown == Fine => Grown
  BY DEF Fine, Grown

\* The region that is validated.
LEMMA AppendedFacts ==
    ASSUME FilesTypeOK, NEW c \in Calls, SizeInv(c), stage[c] \in Reading,
           size[c] <= Len(held[c])
    PROVE  /\ Appended(c) \in Seq(Event)
           /\ size[c] = Len(held[c]) => Appended(c) = Gained(c)
<1>1. /\ held[c] \in Seq(Event) /\ size[c] \in 0 .. Len(held[c]) /\ Len(base[c]) \in Nat
      /\ Len(held[c]) \in Nat /\ size[c] \in Nat
  BY CallTypes
<1>2. Len(base[c]) \in 0 .. size[c]
  BY <1>1 DEF SizeInv
<1>3. Prefix(held[c], size[c]) \in Seq(Event) /\ Len(Prefix(held[c], size[c])) = size[c]
  BY <1>1, PrefixFacts
<1>4. Appended(c) \in Seq(Event)
  BY <1>2, <1>3, BehindFacts DEF Appended
<1>5. Prefix(held[c], Len(held[c])) = held[c]
  BY <1>1, WholePrefix
<1> QED
  BY <1>4, <1>5 DEF Appended, Gained

\* The receipt of what was read and digested.
LEMMA ReceiptFacts ==
    ASSUME FilesTypeOK, NEW c \in Calls, CallInv(c), stage[c] = "digested"
    PROVE  /\ PublishedReceipt(c) \in Receipt /\ PublishedReceipt(c) # NoReceipt
           /\ PublishedReceipt(c).base = base[c] /\ PublishedReceipt(c).final = digest[c]
           /\ PublishedReceipt(c).messages = messages[c]
           /\ Len(digest[c]) > Len(base[c])
           /\ Grown => /\ Proves(PublishedReceipt(c))
                       /\ StartsWith(held[c], PublishedReceipt(c).final)
           /\ Fine => digest[c] = held[c] /\ messages[c] = Messages(Gained(c))
<1>0. /\ held[c] \in Seq(Event) /\ base[c] \in Seq(Event) /\ digest[c] \in Seq(Event)
      /\ messages[c] \in Nat /\ Len(base[c]) \in Nat /\ Len(held[c]) \in Nat
      /\ Len(digest[c]) \in Nat /\ size[c] \in Nat
  BY CallTypes
<1>1. Len(digest[c]) = size[c] /\ size[c] > Len(base[c])
  BY DEF CallInv, SizeInv, Reading
<1>2. /\ PublishedReceipt(c) \in Receipt
      /\ PublishedReceipt(c).base = base[c] /\ PublishedReceipt(c).final = digest[c]
      /\ PublishedReceipt(c).messages = messages[c]
  BY <1>0 DEF PublishedReceipt, Receipt
<1>3. PublishedReceipt(c) # NoReceipt
  <2>1. NoReceipt.final = <<>> /\ Len(<<>>) = 0
    BY DEF NoReceipt
  <2> QED
    BY <1>0, <1>1, <1>2, <2>1
<1>4. ASSUME Grown
      PROVE  Proves(PublishedReceipt(c)) /\ StartsWith(held[c], PublishedReceipt(c).final)
  <2>1. /\ StartsWith(held[c], base[c]) /\ size[c] <= Len(held[c])
        /\ ValidRegion(Behind(Prefix(held[c], size[c]), Len(base[c])))
        /\ digest[c] = Prefix(held[c], size[c])
    BY <1>4 DEF CallInv, GrowthInv, SetupInv, Started, Finalizing, Reading, Appended
  <2>2. size[c] \in 0 .. Len(held[c]) /\ Len(base[c]) <= size[c]
    BY <1>0, <1>1, <2>1
  <2>3. StartsWith(held[c], digest[c]) /\ StartsWith(digest[c], base[c])
    BY <1>0, <2>1, <2>2, StartOfPrefix
  <2> QED
    BY <1>2, <2>1, <2>3 DEF Proves
<1>5. ASSUME Fine
      PROVE  digest[c] = held[c] /\ messages[c] = Messages(Gained(c))
  <2>1. digest[c] = Prefix(held[c], size[c]) /\ size[c] = Len(held[c])
        /\ messages[c] = Messages(Gained(c))
    BY <1>5, FineGrown DEF CallInv, GrowthInv, FineInv, Reading
  <2> QED
    BY <1>0, <2>1, WholePrefix
<1> QED
  BY <1>1, <1>2, <1>3, <1>4, <1>5

\* The child runs and ends; its session is measured and read.
LEMMA ReadingSteps ==
    ASSUME FilesTypeOK, Fine => traced, \A d \in Calls : CallInv(d), NEW c \in Calls,
           UNCHANGED <<session, writes, at, receipt, faults>>,
           \/ Start(c) \/ ChildEnds(c) \/ MeasureFinal(c) \/ CheckBaseline(c)
           \/ ValidateAppend(c) \/ DigestFinal(c)
    PROVE  StepMoves
<1> USE DEF Stages, Setup, Finalizing, Reading
<1>0. CallInv(c) /\ faults' \subseteq Faults /\ faults \subseteq faults' /\ (Fine' <=> Fine)
      /\ (Grown' <=> Grown)
  BY DEF FilesTypeOK, Fine, Grown
<1>a. SetupInv(c) /\ SizeInv(c) /\ GrowthInv(c) /\ FineInv(c)
      /\ ("terminal" \in trace[c] => stage[c] = "over")
  BY <1>0 DEF CallInv
<1>b. UNCHANGED <<base, held, traced>>
  BY DEF Start, ChildEnds, MeasureFinal, CheckBaseline, ValidateAppend, DigestFinal
<1>t. /\ held[c] \in Seq(Event) /\ base[c] \in Seq(Event)
      /\ Len(base[c]) \in Nat /\ Len(held[c]) \in Nat /\ size[c] \in Nat
  BY CallTypes
<1>1. CASE Start(c)
  <2>1. /\ stage[c] = "prepared" /\ Goto(c, "running") /\ Report(c, {"start"})
        /\ UNCHANGED <<size, messages, digest>> /\ {"start"} \subseteq Lines
    BY <1>1 DEF Start, Lines
  <2>2. /\ FilesTypeOK' /\ (\A d \in Calls \ {c} : Same(d)) /\ stage'[c] = "running"
        /\ base'[c] = base[c] /\ held'[c] = held[c] /\ at'[c] = at[c]
        /\ size'[c] = size[c] /\ messages'[c] = messages[c] /\ digest'[c] = digest[c]
        /\ receipt'[c] = receipt[c]
        /\ trace'[c] = IF traced THEN trace[c] \cup {"start"} ELSE trace[c]
    BY <1>0, <1>b, <2>1, GoesOnReporting
  <2>3. SetupInv(c)' /\ SizeInv(c)'
    BY <1>a, <2>1, <2>2 DEF SetupInv, SizeInv, Started
  <2>4. GrowthInv(c)'
    BY <1>0, <1>a, <2>1, <2>2 DEF SetupInv, GrowthInv
  <2>a. Fine => trace'[c] = {"start"}
    BY <1>a, <2>1, <2>2 DEF FineInv
  <2>b. "start" \in {"start"} /\ "cleanup failed" \notin {"start"} /\ at'[c] = "held"
    BY <1>a, <2>1, <2>2 DEF SetupInv
  <2>5. FineInv(c)'
    BY <1>0, <2>2, <2>a, <2>b DEF FineInv, Started
  <2>6. Moved(c) /\ CallInv(c)'
    BY <1>a, <2>1, <2>2, <2>3, <2>4, <2>5 DEF CallInv, Moved, Known, Started
  <2> QED
    BY <1>0, <1>b, <2>2, <2>6, OneCall
<1>2. CASE ChildEnds(c)
  <2>1. /\ stage[c] = "running" /\ Goto(c, "closed")
        /\ UNCHANGED <<size, messages, digest, trace>>
    BY <1>2 DEF ChildEnds
  <2>2. /\ FilesTypeOK' /\ (\A d \in Calls \ {c} : Same(d)) /\ stage'[c] = "closed"
        /\ base'[c] = base[c] /\ held'[c] = held[c] /\ at'[c] = at[c]
        /\ size'[c] = size[c] /\ messages'[c] = messages[c] /\ digest'[c] = digest[c]
        /\ receipt'[c] = receipt[c] /\ trace'[c] = trace[c]
    BY <1>0, <1>b, <2>1, GoesOn
  <2>3. SetupInv(c)' /\ SizeInv(c)'
    BY <1>a, <2>1, <2>2 DEF SetupInv, SizeInv, Started
  <2>4. GrowthInv(c)'
    BY <1>0, <1>a, <2>1, <2>2 DEF SetupInv, GrowthInv
  <2>5. FineInv(c)'
    BY <1>0, <1>a, <2>1, <2>2 DEF SetupInv, FineInv, Started
  <2>6. Moved(c) /\ CallInv(c)'
    BY <1>a, <2>1, <2>2, <2>3, <2>4, <2>5 DEF CallInv, Moved, Known, Started
  <2> QED
    BY <1>0, <1>b, <2>2, <2>6, OneCall
<1>3. CASE MeasureFinal(c)
  <2>1. stage[c] = "closed" /\ UNCHANGED <<messages, digest, trace>>
    BY <1>3 DEF MeasureFinal
  <2>a. /\ held'[c] = held[c] /\ base'[c] = base[c] /\ at'[c] = at[c]
        /\ receipt'[c] = receipt[c] /\ trace'[c] = trace[c] /\ messages'[c] = messages[c]
    BY <1>b, <2>1
  <2>2. CASE /\ at[c] = "held" /\ Len(held[c]) > Len(base[c])
             /\ Goto(c, "measured") /\ size' = [size EXCEPT ![c] = Len(held[c])]
    <3>1. /\ size' \in [Calls -> Nat] /\ size'[c] = Len(held[c])
          /\ \A d \in Calls \ {c} : size'[d] = size[d]
      BY <1>t, <2>2 DEF FilesTypeOK
    <3>2. FilesTypeOK' /\ (\A d \in Calls \ {c} : Same(d)) /\ stage'[c] = "measured"
      BY <1>0, <1>b, <2>1, <2>2, <3>1 DEF FilesTypeOK, Goto, Same
    <3>3. SetupInv(c)' /\ SizeInv(c)'
      BY <1>a, <2>1, <2>2, <2>a, <3>1, <3>2 DEF SetupInv, SizeInv, Started
    <3>4. GrowthInv(c)'
      BY <1>0, <1>a, <1>t, <2>1, <2>a, <3>1, <3>2 DEF SetupInv, GrowthInv
    <3>5. FineInv(c)'
      BY <1>0, <1>a, <2>1, <2>a, <3>1, <3>2 DEF SetupInv, FineInv, Started
    <3>6. Moved(c) /\ CallInv(c)'
      BY <1>a, <2>1, <2>a, <3>2, <3>3, <3>4, <3>5 DEF CallInv, Moved, Known, Started
    <3> QED
      BY <1>0, <1>b, <3>2, <3>6, OneCall
  <2>3. CASE /\ ~(at[c] = "held" /\ Len(held[c]) > Len(base[c]))
             /\ Goto(c, "unproved") /\ UNCHANGED size
    <3>1. /\ FilesTypeOK' /\ (\A d \in Calls \ {c} : Same(d)) /\ stage'[c] = "unproved"
          /\ size'[c] = size[c] /\ digest'[c] = digest[c]
      BY <1>0, <1>b, <2>1, <2>3, GoesOn
    <3>2. Fine => ~ValidRegion(Gained(c))
      <4>1. Fine => at[c] = "held" /\ StartsWith(held[c], base[c])
        BY <1>a, <2>1, FineGrown DEF SetupInv, GrowthInv, FineInv, Started
      <4>2. Fine => Len(held[c]) = Len(base[c])
        BY <1>t, <2>3, <4>1 DEF StartsWith
      <4> QED
        BY <1>t, <4>2, NothingBehind DEF Gained
    <3>3. SetupInv(c)' /\ SizeInv(c)'
      BY <1>a, <2>1, <2>a, <3>1 DEF SetupInv, SizeInv, Started
    <3>4. GrowthInv(c)'
      BY <1>0, <1>a, <2>1, <2>a, <3>1 DEF SetupInv, GrowthInv
    <3>5. FineInv(c)'
      BY <1>0, <1>a, <2>1, <2>a, <3>1, <3>2 DEF SetupInv, FineInv, Started, Gained
    <3>6. Moved(c) /\ CallInv(c)'
      BY <1>a, <2>1, <2>a, <3>1, <3>3, <3>4, <3>5 DEF CallInv, Moved, Known, Started
    <3> QED
      BY <1>0, <1>b, <3>1, <3>6, OneCall
  <2> QED
    BY <1>3, <2>2, <2>3 DEF MeasureFinal
<1>4. CASE CheckBaseline(c)
  <2>1. stage[c] = "measured" /\ UNCHANGED <<size, messages, digest, trace>>
    BY <1>4 DEF CheckBaseline
  <2>2. PICK s \in {"based", "unproved"} :
          Goto(c, s) /\ (s = "unproved" => ~StartsWith(held[c], base[c]))
    BY <1>4 DEF CheckBaseline, StartsWith
  <2>3. /\ FilesTypeOK' /\ (\A d \in Calls \ {c} : Same(d)) /\ stage'[c] = s
        /\ base'[c] = base[c] /\ held'[c] = held[c] /\ at'[c] = at[c]
        /\ size'[c] = size[c] /\ messages'[c] = messages[c] /\ digest'[c] = digest[c]
        /\ receipt'[c] = receipt[c] /\ trace'[c] = trace[c]
    BY <1>0, <1>b, <2>1, <2>2, GoesOn
  <2>4. Fine => s = "based"
    BY <1>a, <2>1, <2>2, FineGrown DEF SetupInv, GrowthInv, Started
  <2>5. SetupInv(c)' /\ SizeInv(c)'
    BY <1>a, <2>1, <2>3 DEF SetupInv, SizeInv, Started
  <2>6. GrowthInv(c)'
    BY <1>0, <1>a, <2>1, <2>3 DEF SetupInv, GrowthInv
  <2>7. FineInv(c)'
    BY <1>0, <1>a, <2>1, <2>3, <2>4 DEF SetupInv, FineInv, Started
  <2>8. Moved(c) /\ CallInv(c)'
    BY <1>a, <2>1, <2>3, <2>5, <2>6, <2>7 DEF CallInv, Moved, Known, Started
  <2> QED
    BY <1>0, <1>b, <2>3, <2>8, OneCall
<1>5. CASE ValidateAppend(c)
  <2>1. stage[c] = "based" /\ UNCHANGED <<size, digest, trace>>
    BY <1>5 DEF ValidateAppend
  <2>a. /\ held'[c] = held[c] /\ base'[c] = base[c] /\ at'[c] = at[c] /\ size'[c] = size[c]
        /\ receipt'[c] = receipt[c] /\ trace'[c] = trace[c] /\ digest'[c] = digest[c]
    BY <1>b, <2>1
  <2>b. Fine => size[c] = Len(held[c])
    BY <1>a, <2>1 DEF FineInv
  <2>2. CASE /\ Len(held[c]) >= size[c] /\ ValidRegion(Appended(c)) /\ Goto(c, "validated")
             /\ messages' = [messages EXCEPT ![c] = Messages(Appended(c))]
    <3>0. size[c] <= Len(held[c])
      BY <1>t, <2>2
    <3>1. Messages(Appended(c)) \in Nat
      BY <1>a, <2>1, <3>0, AppendedFacts, MessagesType
    <3>2. /\ messages' \in [Calls -> Nat] /\ messages'[c] = Messages(Appended(c))
          /\ \A d \in Calls \ {c} : messages'[d] = messages[d]
      BY <2>2, <3>1 DEF FilesTypeOK
    <3>3. FilesTypeOK' /\ (\A d \in Calls \ {c} : Same(d)) /\ stage'[c] = "validated"
      BY <1>0, <1>b, <2>1, <2>2, <3>2 DEF FilesTypeOK, Goto, Same
    <3>4. Fine => Messages(Appended(c)) = Messages(Gained(c))
      BY <1>a, <2>1, <2>b, <3>0, AppendedFacts
    <3>5. SetupInv(c)' /\ SizeInv(c)'
      BY <1>a, <2>1, <2>a, <3>3 DEF SetupInv, SizeInv, Started
    <3>6. GrowthInv(c)'
      BY <1>0, <1>a, <2>1, <2>2, <2>a, <3>3 DEF SetupInv, GrowthInv, Appended
    <3>7. FineInv(c)'
      BY <1>0, <1>a, <2>1, <2>a, <3>2, <3>3, <3>4 DEF SetupInv, FineInv, Started, Gained
    <3>8. Moved(c) /\ CallInv(c)'
      BY <1>a, <2>1, <2>a, <3>3, <3>5, <3>6, <3>7 DEF CallInv, Moved, Known, Started
    <3> QED
      BY <1>0, <1>b, <3>3, <3>8, OneCall
  <2>3. CASE /\ ~(Len(held[c]) >= size[c] /\ ValidRegion(Appended(c)))
             /\ Goto(c, "unproved") /\ UNCHANGED messages
    <3>1. /\ FilesTypeOK' /\ (\A d \in Calls \ {c} : Same(d)) /\ stage'[c] = "unproved"
          /\ messages'[c] = messages[c]
      BY <1>0, <1>b, <2>1, <2>3, GoesOn
    <3>2. Fine => ~ValidRegion(Gained(c))
      BY <1>a, <1>t, <2>1, <2>3, <2>b, AppendedFacts
    <3>3. SetupInv(c)' /\ SizeInv(c)'
      BY <1>a, <2>1, <2>a, <3>1 DEF SetupInv, SizeInv, Started
    <3>4. GrowthInv(c)'
      BY <1>0, <1>a, <2>1, <2>a, <3>1 DEF SetupInv, GrowthInv
    <3>5. FineInv(c)'
      BY <1>0, <1>a, <2>1, <2>a, <3>1, <3>2 DEF SetupInv, FineInv, Started, Gained
    <3>6. Moved(c) /\ CallInv(c)'
      BY <1>a, <2>1, <2>a, <3>1, <3>3, <3>4, <3>5 DEF CallInv, Moved, Known, Started
    <3> QED
      BY <1>0, <1>b, <3>1, <3>6, OneCall
  <2> QED
    BY <1>5, <2>2, <2>3 DEF ValidateAppend
<1>6. CASE DigestFinal(c)
  <2>1. stage[c] = "validated" /\ UNCHANGED <<size, messages, trace>>
    BY <1>6 DEF DigestFinal
  <2>a. /\ held'[c] = held[c] /\ base'[c] = base[c] /\ at'[c] = at[c] /\ size'[c] = size[c]
        /\ receipt'[c] = receipt[c] /\ trace'[c] = trace[c] /\ messages'[c] = messages[c]
    BY <1>b, <2>1
  <2>2. CASE /\ Len(held[c]) >= size[c] /\ Goto(c, "digested")
             /\ digest' = [digest EXCEPT ![c] = Prefix(held[c], size[c])]
    <3>1. Prefix(held[c], size[c]) \in Seq(Event) /\ Len(Prefix(held[c], size[c])) = size[c]
      BY <1>t, <2>2, PrefixFacts
    <3>2. /\ digest' \in [Calls -> Seq(Event)] /\ digest'[c] = Prefix(held[c], size[c])
          /\ \A d \in Calls \ {c} : digest'[d] = digest[d]
      BY <2>2, <3>1 DEF FilesTypeOK
    <3>3. FilesTypeOK' /\ (\A d \in Calls \ {c} : Same(d)) /\ stage'[c] = "digested"
      BY <1>0, <1>b, <2>1, <2>2, <3>2 DEF FilesTypeOK, Goto, Same
    <3>5. SetupInv(c)' /\ SizeInv(c)'
      BY <1>a, <2>1, <2>a, <3>1, <3>2, <3>3 DEF SetupInv, SizeInv, Started
    <3>6. GrowthInv(c)'
      BY <1>0, <1>a, <2>1, <2>2, <2>a, <3>2, <3>3 DEF SetupInv, GrowthInv, Appended
    <3>7. FineInv(c)'
      BY <1>0, <1>a, <2>1, <2>a, <3>3 DEF SetupInv, FineInv, Started, Gained
    <3>8. Moved(c) /\ CallInv(c)'
      BY <1>a, <2>1, <2>a, <3>3, <3>5, <3>6, <3>7 DEF CallInv, Moved, Known, Started
    <3> QED
      BY <1>0, <1>b, <3>3, <3>8, OneCall
  <2>3. CASE ~(Len(held[c]) >= size[c]) /\ Goto(c, "unproved") /\ UNCHANGED digest
    <3>1. /\ FilesTypeOK' /\ (\A d \in Calls \ {c} : Same(d)) /\ stage'[c] = "unproved"
          /\ digest'[c] = digest[c]
      BY <1>0, <1>b, <2>1, <2>3, GoesOn
    <3>2. ~Fine
      <4>1. Fine => size[c] = Len(held[c])
        BY <1>a, <2>1 DEF FineInv
      <4> QED
        BY <1>t, <2>3, <4>1
    <3>3. SetupInv(c)' /\ SizeInv(c)'
      BY <1>a, <2>1, <2>a, <3>1 DEF SetupInv, SizeInv, Started
    <3>4. GrowthInv(c)' /\ FineInv(c)'
      BY <1>0, <1>a, <2>1, <2>a, <3>1, <3>2 DEF SetupInv, GrowthInv, FineInv
    <3>6. Moved(c) /\ CallInv(c)'
      BY <1>a, <2>1, <2>a, <3>1, <3>3, <3>4 DEF CallInv, Moved, Known, Started
    <3> QED
      BY <1>0, <1>b, <3>1, <3>6, OneCall
  <2> QED
    BY <1>6, <2>2, <2>3 DEF DigestFinal
<1> QED
  BY <1>1, <1>2, <1>3, <1>4, <1>5, <1>6

\* The receipt appears, and the call may hear of it or not.
LEMMA PublishSteps ==
    ASSUME FilesTypeOK, Fine => traced, \A d \in Calls : CallInv(d), NEW c \in Calls,
           UNCHANGED <<session, writes, held, at>>,
           \/ PublishReceipt(c) /\ UNCHANGED faults
           \/ ReceiptThrows(c)
    PROVE  StepMoves
<1> USE DEF Stages, Setup, Finalizing, Reading
<1>0. CallInv(c)
  OBVIOUS
<1>a. SetupInv(c) /\ SizeInv(c) /\ GrowthInv(c) /\ FineInv(c)
      /\ ("terminal" \in trace[c] => stage[c] = "over")
  BY <1>0 DEF CallInv
<1>1. /\ stage[c] = "digested" /\ receipt' = [receipt EXCEPT ![c] = PublishedReceipt(c)]
      /\ UNCHANGED <<base, size, messages, digest, trace, traced>>
  BY DEF PublishReceipt, ReceiptThrows
<1>2. PICK s \in {"proved", "unproved"} :
        /\ Goto(c, s) /\ faults \subseteq faults' /\ faults' \subseteq Faults
        /\ (s = "proved" => faults' = faults) /\ (s = "unproved" => ~Fine')
  <2>1. CASE PublishReceipt(c) /\ UNCHANGED faults
    BY <2>1 DEF PublishReceipt, FilesTypeOK
  <2>2. CASE ReceiptThrows(c)
    BY <2>2, SpendFacts DEF ReceiptThrows, Faults
  <2> QED
    BY <2>1, <2>2
<1>3. /\ PublishedReceipt(c) \in Receipt /\ PublishedReceipt(c) # NoReceipt
      /\ PublishedReceipt(c).base = base[c] /\ PublishedReceipt(c).final = digest[c]
      /\ PublishedReceipt(c).messages = messages[c]
      /\ Len(digest[c]) > Len(base[c])
      /\ Grown => /\ Proves(PublishedReceipt(c))
                  /\ StartsWith(held[c], PublishedReceipt(c).final)
      /\ Fine => digest[c] = held[c] /\ messages[c] = Messages(Gained(c))
  BY <1>0, <1>1, ReceiptFacts
<1>4. /\ FilesTypeOK' /\ (\A d \in Calls \ {c} : Same(d)) /\ stage'[c] = s
      /\ receipt'[c] = PublishedReceipt(c)
  BY <1>1, <1>2, <1>3 DEF FilesTypeOK, Goto, Same
<1>5. /\ held'[c] = held[c] /\ base'[c] = base[c] /\ at'[c] = at[c] /\ size'[c] = size[c]
      /\ messages'[c] = messages[c] /\ digest'[c] = digest[c] /\ trace'[c] = trace[c]
  BY <1>1
<1>6. SetupInv(c)'
  BY <1>a, <1>1, <1>2, <1>4, <1>5 DEF SetupInv, Started
<1>7. SizeInv(c)'
  BY <1>2, <1>3, <1>4, <1>5 DEF SizeInv
<1>8. GrowthInv(c)'
  <2>1. Grown' => Grown
    BY <1>2 DEF Grown
  <2>2. at[c] # "nothing" /\ (Grown => StartsWith(held[c], base[c]))
    BY <1>a, <1>1 DEF SetupInv, GrowthInv, Started
  <2> QED
    BY <1>2, <1>3, <1>4, <1>5, <2>1, <2>2 DEF GrowthInv
<1>9. FineInv(c)'
  <2>1. CASE s = "unproved"
    BY <1>2, <2>1 DEF FineInv
  <2>2. CASE s = "proved"
    <3>1. Fine' => Fine
      BY <1>2, <2>2 DEF Fine
    <3>2. Fine => /\ at[c] = "held" /\ "start" \in trace[c] /\ "cleanup failed" \notin trace[c]
      BY <1>a, <1>1 DEF FineInv, Started
    <3>3. Gained(c)' = Gained(c)
      BY <1>5 DEF Gained
    <3>4. Fine => Vouched(c)'
      BY <1>3, <1>4, <1>5, <3>3 DEF Vouched
    <3> QED
      BY <1>2, <1>4, <1>5, <2>2, <3>1, <3>2, <3>4 DEF FineInv, Started
  <2> QED
    BY <1>2, <2>1, <2>2
<1>10. Moved(c) /\ CallInv(c)'
  BY <1>a, <1>1, <1>2, <1>4, <1>5, <1>6, <1>7, <1>8, <1>9 DEF CallInv, Moved, Known, Started
<1>11. Fine' => traced'
  BY <1>1, <1>2 DEF Fine
<1> QED
  BY <1>2, <1>4, <1>10, <1>11, OneCall

\* Completion, cleanup and their reports.
LEMMA EndingSteps ==
    ASSUME FilesTypeOK, Fine => traced, \A d \in Calls : CallInv(d), NEW c \in Calls,
           UNCHANGED <<session, writes, held, at, receipt>>,
           \/ (CompleteCall(c) \/ CleanUp(c)) /\ UNCHANGED faults
           \/ CleanUpFails(c)
    PROVE  StepMoves
<1> USE DEF Stages, Setup, Finalizing, Reading
<1>0. CallInv(c)
  OBVIOUS
<1>a. SetupInv(c) /\ SizeInv(c) /\ GrowthInv(c) /\ FineInv(c)
      /\ ("terminal" \in trace[c] => stage[c] = "over")
  BY <1>0 DEF CallInv
<1>b. UNCHANGED <<base, size, messages, digest, traced>>
  BY DEF CompleteCall, CleanUp, CleanUpFails
<1>1. CASE CompleteCall(c) /\ UNCHANGED faults
  <2>1. PICK lines \in {{"completed", "verified"}, {"completed"}} :
          /\ stage[c] \in {"proved", "unproved"} /\ Goto(c, "completed") /\ Report(c, lines)
          /\ (stage[c] = "proved" <=> "verified" \in lines)
    BY <1>1 DEF CompleteCall
  <2>2. lines \subseteq Lines /\ "terminal" \notin lines /\ "completed" \in lines
        /\ "cleanup failed" \notin lines
    BY <2>1 DEF Lines
  <2>3. faults' \subseteq Faults /\ faults \subseteq faults' /\ (Fine' <=> Fine)
        /\ (Grown' <=> Grown)
    BY <1>1 DEF FilesTypeOK, Fine, Grown
  <2>4. /\ FilesTypeOK' /\ (\A d \in Calls \ {c} : Same(d)) /\ stage'[c] = "completed"
        /\ base'[c] = base[c] /\ held'[c] = held[c] /\ at'[c] = at[c]
        /\ size'[c] = size[c] /\ messages'[c] = messages[c] /\ digest'[c] = digest[c]
        /\ receipt'[c] = receipt[c]
        /\ trace'[c] = IF traced THEN trace[c] \cup lines ELSE trace[c]
    BY <1>b, <2>1, <2>2, <2>3, GoesOnReporting
  <2>5. SetupInv(c)' /\ SizeInv(c)'
    BY <1>a, <2>1, <2>4 DEF SetupInv, SizeInv, Started
  <2>6. GrowthInv(c)'
    BY <1>a, <2>1, <2>3, <2>4 DEF GrowthInv
  <2>7. FineInv(c)'
    <3>1. Gained(c)' = Gained(c) /\ Vouched(c)' = Vouched(c)
      BY <2>4 DEF Gained, Vouched
    <3>2. Fine => /\ at[c] = "held" /\ "start" \in trace[c] /\ "cleanup failed" \notin trace[c]
                  /\ IF stage[c] = "proved" THEN Vouched(c) ELSE ~ValidRegion(Gained(c))
      BY <1>a, <2>1 DEF FineInv, Started
    <3>3. Fine => /\ {"start", "completed"} \subseteq trace'[c]
                  /\ "cleanup failed" \notin trace'[c]
                  /\ (stage[c] = "proved" => "verified" \in trace'[c])
      BY <2>1, <2>2, <2>4, <3>2
    <3>4. Fine => Recorded(c)'
      BY <3>1, <3>2, <3>3 DEF Recorded
    <3> QED
      BY <2>3, <2>4, <3>2, <3>3, <3>4 DEF FineInv, Started
  <2>8. Moved(c) /\ CallInv(c)'
    BY <1>a, <2>1, <2>2, <2>4, <2>5, <2>6, <2>7 DEF CallInv, Moved, Known, Started
  <2> QED
    BY <1>b, <2>3, <2>4, <2>8, OneCall
<1>2. CASE CleanUp(c) /\ UNCHANGED faults
  <2>1. PICK lines \in {{"terminal"}, {}} :
          /\ stage[c] \in {"completed", "incomplete"} /\ Goto(c, "over") /\ Report(c, lines)
          /\ (stage[c] = "completed" => "terminal" \in lines)
    BY <1>2 DEF CleanUp
  <2>2. lines \subseteq Lines /\ "cleanup failed" \notin lines
    BY <2>1 DEF Lines
  <2>3. faults' \subseteq Faults /\ faults \subseteq faults' /\ (Fine' <=> Fine)
        /\ (Grown' <=> Grown)
    BY <1>2 DEF FilesTypeOK, Fine, Grown
  <2>4. /\ FilesTypeOK' /\ (\A d \in Calls \ {c} : Same(d)) /\ stage'[c] = "over"
        /\ base'[c] = base[c] /\ held'[c] = held[c] /\ at'[c] = at[c]
        /\ size'[c] = size[c] /\ messages'[c] = messages[c] /\ digest'[c] = digest[c]
        /\ receipt'[c] = receipt[c]
        /\ trace'[c] = IF traced THEN trace[c] \cup lines ELSE trace[c]
    BY <1>b, <2>1, <2>2, <2>3, GoesOnReporting
  <2>5. SetupInv(c)' /\ SizeInv(c)'
    BY <1>a, <2>1, <2>4 DEF SetupInv, SizeInv, Started
  <2>6. GrowthInv(c)'
    BY <1>a, <2>1, <2>3, <2>4 DEF GrowthInv
  <2>7. FineInv(c)'
    <3>1. Gained(c)' = Gained(c) /\ Vouched(c)' = Vouched(c)
      BY <2>4 DEF Gained, Vouched
    <3>2. Fine => /\ stage[c] = "completed" /\ at[c] = "held" /\ "start" \in trace[c]
                  /\ Recorded(c)
      BY <1>a, <2>1 DEF FineInv, Started
    <3>3. Fine => /\ trace[c] \subseteq trace'[c] /\ "terminal" \in trace'[c]
                  /\ ("cleanup failed" \notin trace[c] => "cleanup failed" \notin trace'[c])
      BY <2>1, <2>2, <2>4, <3>2
    <3>4. Fine => Recorded(c)' /\ "cleanup failed" \notin trace'[c] /\ "start" \in trace'[c]
      BY <3>1, <3>2, <3>3 DEF Recorded
    <3> QED
      BY <2>3, <2>4, <3>2, <3>3, <3>4 DEF FineInv, Started
  <2>8. Moved(c) /\ CallInv(c)'
    BY <1>a, <2>1, <2>4, <2>5, <2>6, <2>7 DEF CallInv, Moved, Known, Started
  <2> QED
    BY <1>b, <2>3, <2>4, <2>8, OneCall
<1>3. CASE CleanUpFails(c)
  <2>1. /\ stage[c] \in {"completed", "incomplete"} /\ Goto(c, "over") /\ Spend("io")
        /\ Report(c, {"cleanup failed"}) /\ {"cleanup failed"} \subseteq Lines /\ "io" \in Faults
    BY <1>3 DEF CleanUpFails, Lines, Faults
  <2>3. faults' \subseteq Faults /\ faults \subseteq faults' /\ ~Fine' /\ (Grown' => Grown)
    BY <2>1, SpendFacts DEF Grown
  <2>4. /\ FilesTypeOK' /\ (\A d \in Calls \ {c} : Same(d)) /\ stage'[c] = "over"
        /\ base'[c] = base[c] /\ held'[c] = held[c] /\ at'[c] = at[c]
        /\ size'[c] = size[c] /\ messages'[c] = messages[c] /\ digest'[c] = digest[c]
        /\ receipt'[c] = receipt[c]
        /\ trace'[c] = IF traced THEN trace[c] \cup {"cleanup failed"} ELSE trace[c]
    BY <1>b, <2>1, <2>3, GoesOnReporting
  <2>5. SetupInv(c)' /\ SizeInv(c)'
    BY <1>a, <2>1, <2>4 DEF SetupInv, SizeInv, Started
  <2>6. GrowthInv(c)' /\ FineInv(c)'
    BY <1>a, <2>1, <2>3, <2>4 DEF GrowthInv, FineInv
  <2>8. Moved(c) /\ CallInv(c)'
    BY <1>a, <2>1, <2>4, <2>5, <2>6 DEF CallInv, Moved, Known, Started
  <2> QED
    BY <2>3, <2>4, <2>8, OneCall
<1> QED
  BY <1>1, <1>2, <1>3

\* The start is refused, or a call of the system throws.
LEMMA FailingSteps ==
    ASSUME FilesTypeOK, \A d \in Calls : CallInv(d), NEW c \in Calls,
           UNCHANGED <<session, writes, held, at, receipt>>,
           RefuseStart(c) \/ Throws(c)
    PROVE  StepMoves
<1> USE DEF Stages, Setup, Finalizing, Reading
<1>0. CallInv(c)
  OBVIOUS
<1>a. SetupInv(c) /\ SizeInv(c) /\ GrowthInv(c) /\ ("terminal" \in trace[c] => stage[c] = "over")
  BY <1>0 DEF CallInv
<1>b. UNCHANGED <<base, size, messages, digest, trace, traced>> /\ Spend("io") /\ "io" \in Faults
  BY DEF RefuseStart, Throws, Faults
<1>1. PICK s \in {"refused", "unproved", "incomplete"} :
        /\ Goto(c, s)
        /\ (s = "refused" => stage[c] \in Setup)
        /\ (s = "unproved" => stage[c] \in Reading \cup {"closed"})
        /\ (s = "incomplete" => stage[c] \in {"running", "proved", "unproved"})
  <2>1. CASE RefuseStart(c)
    BY <2>1 DEF RefuseStart
  <2>2. CASE Throws(c)
    <3>1. stage \in [Calls -> Stages]
      BY DEF FilesTypeOK
    <3> QED
      BY <2>2, <3>1 DEF Throws, Goto
  <2> QED
    BY <2>1, <2>2
<1>2. faults' \subseteq Faults /\ faults \subseteq faults' /\ ~Fine' /\ (Grown' => Grown)
  BY <1>b, SpendFacts DEF Grown
<1>3. /\ FilesTypeOK' /\ (\A d \in Calls \ {c} : Same(d)) /\ stage'[c] = s
      /\ base'[c] = base[c] /\ held'[c] = held[c] /\ at'[c] = at[c]
      /\ size'[c] = size[c] /\ messages'[c] = messages[c] /\ digest'[c] = digest[c]
      /\ receipt'[c] = receipt[c] /\ trace'[c] = trace[c]
  BY <1>b, <1>1, <1>2, GoesOn
<1>4. SetupInv(c)'
  BY <1>a, <1>1, <1>3 DEF SetupInv, Started
<1>5. SizeInv(c)'
  BY <1>a, <1>1, <1>3 DEF SizeInv
<1>6. GrowthInv(c)' /\ FineInv(c)'
  BY <1>a, <1>1, <1>2, <1>3 DEF GrowthInv, FineInv
<1>7. Moved(c) /\ CallInv(c)'
  BY <1>a, <1>1, <1>3, <1>4, <1>5, <1>6 DEF CallInv, Moved, Known, Started
<1> QED
  BY <1>2, <1>3, <1>7, OneCall

LEMMA TraceStep ==
    ASSUME FilesTypeOK, \A d \in Calls : CallInv(d), TraceFails,
           UNCHANGED <<session, writes, held, at, receipt>>
    PROVE  StepMoves
<1>1. faults' \subseteq Faults /\ faults \subseteq faults' /\ ~Fine'
  BY SpendFacts DEF TraceFails, Faults
<1>2. FilesTypeOK' /\ \A d \in Calls : Same(d)
  BY <1>1 DEF TraceFails, FilesTypeOK, Same
<1> QED
  BY <1>1, <1>2, CallFrame DEF StepMoves

LEMMA DeathStep ==
    ASSUME FilesTypeOK, \A d \in Calls : CallInv(d), Dies,
           UNCHANGED <<session, writes, held, at, receipt>>
    PROVE  StepMoves
<1> USE DEF Stages, Setup, Finalizing, Reading
<1>1. faults' \subseteq Faults /\ faults \subseteq faults' /\ ~Fine' /\ (Grown' => Grown)
  BY SpendFacts DEF Dies, Faults, Grown
<1>2. FilesTypeOK'
  BY <1>1 DEF Dies, FilesTypeOK
<1>3. ASSUME NEW c \in Calls
      PROVE  CallInv(c)' /\ Moved(c)
  <2>1. SetupInv(c) /\ SizeInv(c) /\ GrowthInv(c) /\ ("terminal" \in trace[c] => stage[c] = "over")
    BY DEF CallInv
  <2>a. \/ stage[c] \in {"refused", "over"} /\ stage'[c] = stage[c]
        \/ stage[c] \notin {"refused", "over"} /\ stage'[c] = IF Started(c) THEN "killed" ELSE "dead"
    BY <1>3 DEF Dies
  <2>b. \/ stage[c] \in {"refused", "over"} /\ stage'[c] = stage[c]
        \/ stage[c] \notin {"refused", "over"} /\ Started(c) /\ stage'[c] = "killed"
        \/ stage[c] \notin {"refused", "over"} /\ ~Started(c) /\ stage'[c] = "dead"
    BY <2>a
  <2>2. /\ base'[c] = base[c] /\ held'[c] = held[c] /\ at'[c] = at[c]
        /\ size'[c] = size[c] /\ messages'[c] = messages[c] /\ digest'[c] = digest[c]
        /\ receipt'[c] = receipt[c] /\ trace'[c] = trace[c]
    BY <1>3 DEF Dies
  <2>3. SetupInv(c)' /\ SizeInv(c)'
    BY <2>1, <2>2, <2>b DEF SetupInv, SizeInv, Started
  <2>4. GrowthInv(c)' /\ FineInv(c)'
    BY <1>1, <2>1, <2>2, <2>b DEF GrowthInv, FineInv, Appended
  <2>5. Moved(c)
    BY <2>2, <2>b DEF Moved, Known, Started
  <2> QED
    BY <2>1, <2>2, <2>3, <2>4, <2>5, <2>b DEF CallInv
<1> QED
  BY <1>1, <1>2, <1>3 DEF StepMoves

------------------------------------------------------------------------------
(* Steps of those who write the files *)

LEMMA ExtensionFacts ==
    ASSUME NEW s \in Seq(Event), NEW events \in SUBSET Event, NEW t \in Extensions(s, events)
    PROVE  \E e \in Event : t = Append(s, e)
  BY DEF Extensions, Event

LEMMA RewrittenFacts ==
    ASSUME NEW s \in Seq(Event), s # <<>>, NEW t \in Rewritten(s)
    PROVE  t \in Seq(Event)
<1>1. Len(s) \in Nat /\ Len(s) - 1 \in 0 .. Len(s) /\ "tail" \in Event
  BY DEF Event
<1>2. Prefix(s, Len(s) - 1) \in Seq(Event)
  BY <1>1, PrefixFacts
<1>3. [s EXCEPT ![Len(s)] = "tail"] \in Seq(Event) /\ [s EXCEPT ![1] = "tail"] \in Seq(Event)
  BY <1>1
<1> QED
  BY <1>2, <1>3 DEF Rewritten


LEMMA SessionSteps ==
    ASSUME FilesTypeOK, Fine => traced, \A d \in Calls : CallInv(d),
           SessionGrows \/ SessionRewritten, UNCHANGED <<callVars, receipt>>
    PROVE  StepMoves
<1>1. session' \in Seq(Event)
  <2>1. session \in Seq(Event) /\ {"message", "head"} \in SUBSET Event
    BY DEF FilesTypeOK, Event
  <2>2. CASE SessionGrows
    <3>1. PICK e \in Event : session' = Append(session, e)
      BY <2>1, <2>2, ExtensionFacts DEF SessionGrows
    <3> QED
      BY <2>1, <3>1
  <2>3. CASE SessionRewritten
    BY <2>1, <2>3, RewrittenFacts DEF SessionRewritten
  <2> QED
    BY <2>2, <2>3
<1>2. /\ UNCHANGED <<held, at, writes>> /\ faults' \subseteq Faults /\ faults \subseteq faults'
      /\ (Fine' => Fine)
  <2>1. CASE SessionGrows
    BY <2>1 DEF SessionGrows, FilesTypeOK, Fine
  <2>2. CASE SessionRewritten
    BY <2>2, SpendFacts DEF SessionRewritten, Faults
  <2> QED
    BY <2>1, <2>2
<1>3. FilesTypeOK' /\ (\A d \in Calls : Same(d)) /\ (Fine' => traced')
  BY <1>1, <1>2 DEF callVars, FilesTypeOK, Same
<1> QED
  BY <1>2, <1>3, CallFrame DEF StepMoves

\* An event is appended to the file of a call.
LEMMA GrowthSteps ==
    ASSUME FilesTypeOK, Fine => traced, \A d \in Calls : CallInv(d), NEW c \in Calls,
           ChildWrites(c) \/ LateWrite(c), UNCHANGED <<callVars, receipt>>
    PROVE  StepMoves
<1> USE DEF Setup, Finalizing, Reading
<1>0. CallInv(c)
  OBVIOUS
<1>a. SetupInv(c) /\ SizeInv(c) /\ GrowthInv(c) /\ FineInv(c)
      /\ ("terminal" \in trace[c] => stage[c] = "over")
  BY <1>0 DEF CallInv
<1>t. /\ held[c] \in Seq(Event) /\ base[c] \in Seq(Event) /\ digest[c] \in Seq(Event)
      /\ Len(base[c]) \in Nat /\ Len(held[c]) \in Nat /\ size[c] \in Nat /\ receipt[c] \in Receipt
  BY CallTypes
<1>1. PICK e \in Event : held' = [held EXCEPT ![c] = Append(held[c], e)]
  <2>1. {"message", "head"} \in SUBSET Event /\ {"message", "other", "head"} \in SUBSET Event
    BY DEF Event
  <2>2. PICK events \in SUBSET Event : \E t \in Extensions(held[c], events) :
          held' = [held EXCEPT ![c] = t]
    BY <2>1 DEF ChildWrites, LateWrite, Writes
  <2>3. PICK t \in Extensions(held[c], events) : held' = [held EXCEPT ![c] = t]
    BY <2>2
  <2>4. \E e \in Event : t = Append(held[c], e)
    BY <1>t, ExtensionFacts
  <2> QED
    BY <2>3, <2>4
<1>2. UNCHANGED <<session, at, stage, base, size, messages, digest, trace, traced, receipt>>
  BY DEF callVars, ChildWrites, LateWrite, Writes
<1>3. /\ at[c] = "held" /\ writes' \in Nat /\ faults' \subseteq Faults /\ faults \subseteq faults'
      /\ (stage[c] = "running" \/ (Started(c) /\ ~Fine'))
      /\ (Fine' => Fine) /\ (Grown' => Grown)
  <2>1. CASE ChildWrites(c)
    <3>1. /\ stage[c] = "running" /\ at[c] = "held" /\ UNCHANGED faults /\ faults \subseteq Faults
          /\ writes' = writes + 1 /\ writes \in Nat
      BY <2>1 DEF ChildWrites, Writes, FilesTypeOK
    <3> QED
      BY <3>1 DEF Fine, Grown
  <2>2. CASE LateWrite(c)
    <3>1. /\ Started(c) /\ Spend("late") /\ "late" \in Faults /\ at[c] = "held" /\ UNCHANGED writes
          /\ writes \in Nat
      BY <2>2 DEF LateWrite, Writes, FilesTypeOK, Faults
    <3>2. faults' \subseteq Faults /\ faults \subseteq faults' /\ ~Fine'
      BY <3>1, SpendFacts
    <3> QED
      BY <3>1, <3>2 DEF Grown
  <2> QED
    BY <2>1, <2>2
<1>4. /\ Append(held[c], e) \in Seq(Event) /\ Len(Append(held[c], e)) = Len(held[c]) + 1
      /\ \A n \in 0 .. Len(held[c]) : Prefix(Append(held[c], e), n) = Prefix(held[c], n)
      /\ \A t \in Seq(Event) : StartsWith(held[c], t) => StartsWith(Append(held[c], e), t)
  BY <1>t, GrownPrefix, GrownStart
<1>5. /\ held' \in [Calls -> Seq(Event)] /\ held'[c] = Append(held[c], e)
      /\ \A d \in Calls \ {c} : held'[d] = held[d]
  BY <1>1, <1>4 DEF FilesTypeOK
<1>6. FilesTypeOK' /\ \A d \in Calls \ {c} : Same(d)
  BY <1>2, <1>3, <1>5 DEF FilesTypeOK, Same
<1>7. SetupInv(c)' /\ SizeInv(c)'
  BY <1>a, <1>2, <1>3 DEF SetupInv, SizeInv, Started, Known
<1>8. GrowthInv(c)'
  <2>1. ASSUME Grown
        PROVE  /\ StartsWith(held'[c], base[c])
               /\ stage[c] \in Reading => size[c] <= Len(held'[c])
               /\ stage[c] \in {"validated", "digested"} => ValidRegion(Appended(c)')
               /\ stage[c] = "digested" => digest[c] = Prefix(held'[c], size[c])
               /\ receipt[c] # NoReceipt =>
                    Proves(receipt[c]) /\ StartsWith(held'[c], receipt[c].final)
    <3>1. /\ StartsWith(held[c], base[c])
          /\ stage[c] \in Reading => size[c] <= Len(held[c])
          /\ stage[c] \in {"validated", "digested"} => ValidRegion(Appended(c))
          /\ stage[c] = "digested" => digest[c] = Prefix(held[c], size[c])
          /\ receipt[c] # NoReceipt =>
               Proves(receipt[c]) /\ StartsWith(held[c], receipt[c].final)
      BY <1>a, <1>3, <2>1 DEF GrowthInv
    <3>2. stage[c] \in Reading => size[c] \in 0 .. Len(held[c])
      BY <1>t, <3>1
    <3>3. stage[c] \in Reading => Prefix(held'[c], size[c]) = Prefix(held[c], size[c])
      BY <1>4, <1>5, <3>2
    <3>4. stage[c] \in Reading => Appended(c)' = Appended(c)
      BY <1>2, <3>3 DEF Appended
    <3>5. receipt[c].final \in Seq(Event)
      BY <1>t DEF Receipt
    <3> QED
      BY <1>t, <1>4, <1>5, <3>1, <3>3, <3>4, <3>5
  <2> QED
    BY <1>2, <1>3, <2>1 DEF GrowthInv
<1>9. FineInv(c)'
  <2>1. CASE stage[c] = "running"
    BY <1>a, <1>2, <1>3, <2>1 DEF FineInv, Started
  <2>2. CASE ~Fine'
    BY <2>2 DEF FineInv
  <2> QED
    BY <1>3, <2>1, <2>2
<1>10. Moved(c) /\ CallInv(c)'
  BY <1>a, <1>2, <1>3, <1>5, <1>7, <1>8, <1>9 DEF CallInv, Moved, Known, Started
<1>11. Fine' => traced'
  BY <1>2, <1>3
<1> QED
  BY <1>3, <1>6, <1>10, <1>11, OneCall

\* Somebody rewrites the file of a call, or puts another one in its place.
LEMMA TamperingSteps ==
    ASSUME FilesTypeOK, \A d \in Calls : CallInv(d), NEW c \in Calls,
           Rewrite(c) \/ Replace(c), UNCHANGED <<callVars, receipt>>
    PROVE  StepMoves
<1> USE DEF Setup, Finalizing, Reading
<1>0. CallInv(c)
  OBVIOUS
<1>a. SetupInv(c) /\ SizeInv(c) /\ GrowthInv(c) /\ ("terminal" \in trace[c] => stage[c] = "over")
  BY <1>0 DEF CallInv
<1>1. /\ UNCHANGED <<session, writes, stage, base, size, messages, digest, trace, traced, receipt>>
      /\ Started(c) /\ at[c] = "held"
  BY DEF callVars, Rewrite, Replace, Writes
<1>2. CASE Rewrite(c)
  <2>1. PICK t \in Seq(Event) : held' = [held EXCEPT ![c] = t]
    <3>1. held[c] \in Seq(Event) /\ held[c] # <<>>
      BY <1>2, CallTypes DEF Rewrite
    <3> QED
      BY <1>2, <3>1, RewrittenFacts DEF Rewrite, Writes
  <2>2. UNCHANGED at
    BY <1>2 DEF Rewrite, Writes
  <2>3. faults' \subseteq Faults /\ faults \subseteq faults' /\ ~Fine' /\ ~Grown' /\ Grown
    BY <1>2, SpendFacts DEF Rewrite, Spend, Faults, Grown
  <2>4. FilesTypeOK' /\ \A d \in Calls \ {c} : Same(d)
    BY <1>1, <2>1, <2>2, <2>3 DEF FilesTypeOK, Same
  <2>5. SetupInv(c)' /\ SizeInv(c)'
    BY <1>a, <1>1, <2>2 DEF SetupInv, SizeInv, Started, Known
  <2>6. GrowthInv(c)' /\ FineInv(c)'
    BY <2>3 DEF GrowthInv, FineInv
  <2>7. Moved(c) /\ CallInv(c)'
    BY <1>a, <1>1, <2>2, <2>3, <2>5, <2>6 DEF CallInv, Moved, Known, Started
  <2> QED
    BY <2>3, <2>4, <2>7, OneCall
<1>3. CASE Replace(c)
  <2>1. at' = [at EXCEPT ![c] = "other"] /\ UNCHANGED held
    BY <1>3 DEF Replace
  <2>3. faults' \subseteq Faults /\ faults \subseteq faults' /\ ~Fine' /\ (Grown' => Grown)
    BY <1>3, SpendFacts DEF Replace, Faults, Grown
  <2>4. FilesTypeOK' /\ (\A d \in Calls \ {c} : Same(d)) /\ at'[c] = "other"
    BY <1>1, <2>1, <2>3 DEF FilesTypeOK, Same
  <2>5. SetupInv(c)' /\ SizeInv(c)'
    BY <1>a, <1>1, <2>1, <2>4 DEF SetupInv, SizeInv, Started, Known
  <2>6. FineInv(c)'
    BY <2>3 DEF FineInv
  <2>7. GrowthInv(c)'
    BY <1>a, <1>1, <2>1, <2>3 DEF GrowthInv, Appended
  <2>8. Moved(c) /\ CallInv(c)'
    BY <1>a, <1>1, <2>1, <2>3, <2>4, <2>5, <2>6, <2>7 DEF CallInv, Moved, Known, Started
  <2> QED
    BY <2>3, <2>4, <2>8, OneCall
<1> QED
  BY <1>2, <1>3

------------------------------------------------------------------------------
(* The validator *)

LEMMA ChosenFacts == left # {} => Chosen \in left
  BY DEF Chosen

\* A step of the calls and the writers leaves what the validator knows true.
LEMMA ValidatorFrame ==
    ASSUME IInv, StepMoves, UNCHANGED validatorVars
    PROVE  IInv'
<1>0. /\ FilesTypeOK /\ ListsTypeOK /\ FilesTypeOK' /\ faults \subseteq faults'
      /\ \A c \in Calls : CallInv(c)' /\ Moved(c)
      /\ UNCHANGED <<validator, seen, left, ran, calm>>
  BY TypeParts DEF IInv, StepMoves, validatorVars
<1>1. TypeOK'
  <2>1. ListsTypeOK'
    BY <1>0 DEF ListsTypeOK
  <2> QED
    BY <1>0, <2>1 DEF TypeOK, FilesTypeOK, ListsTypeOK
<1>2. \A c \in Calls : stage[c] = "over" =>
        stage'[c] = "over" /\ base'[c] = base[c] /\ receipt'[c] = receipt[c]
  BY <1>0 DEF Moved
<1>3. ValidatorInv'
  <2>0. ValidatorInv /\ ran \subseteq Calls /\ seen \subseteq Calls /\ left \subseteq seen
    BY <1>0 DEF IInv, ListsTypeOK
  <2>1. (\A c \in ran : Known(c) /\ at[c] # "nothing")'
    BY <1>0, <2>0 DEF ValidatorInv, Moved
  <2>2. (\A c \in seen : stage[c] = "over")' /\ (\A c \in seen \ left : Proves(receipt[c]))'
    BY <1>0, <1>2, <2>0 DEF ValidatorInv
  <2>3. ASSUME validator \in {"sized", "based", "digested"}
        PROVE  left # {} /\ NextInv'
    <3>1. left # {} /\ NextInv /\ Chosen \in left /\ Chosen' = Chosen
      BY <1>0, <2>0, <2>3, ChosenFacts DEF ValidatorInv, Chosen
    <3>2. PICK c \in Calls : c = Chosen /\ stage[c] = "over"
      BY <2>0, <3>1 DEF ValidatorInv
    <3>3. receipt'[c] = receipt[c]
      BY <1>2, <3>2
    <3>4. receipt[c].base \in Seq(Event) /\ receipt[c].final \in Seq(Event) /\ held[c] \in Seq(Event)
      <4>1. receipt[c] \in Receipt /\ held[c] \in Seq(Event)
        BY <1>0, CallTypes
      <4> QED
        BY <4>1 DEF Receipt
    <3>5. ASSUME ~Grown
          PROVE  /\ ~Grown'
                 /\ \A t \in Seq(Event) : StartsWith(held[c], t) => StartsWith(held'[c], t)
      <4>1. held'[c] = held[c] \/ \E e \in Event : held'[c] = Append(held[c], e)
        BY <1>0, <3>2, <3>5 DEF Moved
      <4> QED
        BY <1>0, <3>4, <3>5, <4>1, GrownStart DEF Grown
    <3>6. (validator = "based" =>
            \/ Proves(receipt[Chosen])
            \/ ~Grown /\ StartsWith(held[Chosen], receipt[Chosen].base))'
      BY <1>0, <3>1, <3>2, <3>3, <3>4, <3>5 DEF NextInv
    <3>7. (validator = "digested" =>
            \/ Proves(receipt[Chosen])
            \/ /\ ~Grown /\ StartsWith(held[Chosen], receipt[Chosen].base)
               /\ StartsWith(held[Chosen], receipt[Chosen].final))'
      BY <1>0, <3>1, <3>2, <3>3, <3>4, <3>5 DEF NextInv
    <3>8. (receipt[Chosen] # NoReceipt)'
      BY <3>1, <3>2, <3>3 DEF NextInv
    <3> QED
      BY <3>1, <3>6, <3>7, <3>8 DEF NextInv
  <2> QED
    BY <1>0, <2>0, <2>1, <2>2, <2>3 DEF ValidatorInv
<1>4. AlarmInv'
  <2>1. ASSUME calm, Fine'
        PROVE  /\ \A c \in Calls : InGoodOrder(c)' /\ stage'[c] = stage[c]
               /\ validator \notin {"idle", "fail"} /\ seen = {c \in Calls : stage[c] = "over"}
    <3>1. Fine
      BY <1>0, <2>1 DEF Fine
    <3>2. AlarmInv
      BY DEF IInv
    <3>3. ASSUME NEW c \in Calls
          PROVE  InGoodOrder(c)' /\ stage'[c] = stage[c]
      <4>1. InGoodOrder(c) /\ stage[c] \in {"refused", "over"}
        BY <2>1, <3>1, <3>2 DEF AlarmInv, InGoodOrder
      <4>2. stage'[c] = stage[c] /\ base'[c] = base[c] /\ held'[c] = held[c]
        BY <1>0, <2>1, <4>1 DEF Moved
      <4> QED
        BY <4>1, <4>2 DEF InGoodOrder
    <3> QED
      BY <2>1, <3>1, <3>2, <3>3 DEF AlarmInv
  <2>2. (calm /\ Fine)' =>
          {c \in Calls : stage'[c] = "over"} = {c \in Calls : stage[c] = "over"}
    BY <1>0, <2>1
  <2> QED
    BY <1>0, <2>1, <2>2 DEF AlarmInv
<1> QED
  BY <1>0, <1>1, <1>3, <1>4 DEF IInv, StepMoves

\* A step of the validator leaves the files alone.
LEMMA FilesFrame ==
    ASSUME IInv, UNCHANGED <<session, callVars, held, at, receipt, writes, faults>>
    PROVE  /\ FilesTypeOK /\ FilesTypeOK' /\ ListsTypeOK
           /\ (\A c \in Calls : CallInv(c) /\ CallInv(c)') /\ (Fine' => traced')
           /\ \A c \in Calls : /\ Known(c)' <=> Known(c)
                               /\ InGoodOrder(c)' <=> InGoodOrder(c)
           /\ (Fine' <=> Fine) /\ (Grown' <=> Grown)
<1>1. /\ FilesTypeOK /\ ListsTypeOK /\ (\A c \in Calls : CallInv(c)) /\ (Fine => traced)
  BY TypeParts DEF IInv
<1>2. /\ UNCHANGED <<session, held, at, receipt, writes, faults>>
      /\ UNCHANGED <<stage, base, size, messages, digest, trace, traced>>
  BY DEF callVars
<1>3. FilesTypeOK' /\ (\A c \in Calls : Same(c)) /\ (Fine' <=> Fine) /\ (Grown' <=> Grown)
  BY <1>1, <1>2 DEF FilesTypeOK, Same, Fine, Grown
<1>4. \A c \in Calls : CallInv(c)'
  BY <1>1, <1>2, <1>3, CallFrame
<1>5. \A c \in Calls : (Known(c)' <=> Known(c)) /\ (InGoodOrder(c)' <=> InGoodOrder(c))
  BY <1>2 DEF Known, Started, InGoodOrder
<1> QED
  BY <1>1, <1>2, <1>3, <1>4, <1>5

\* What nothing has gone wrong with is in the state the validator wants.
LEMMA GoodOrder ==
    ASSUME FilesTypeOK, NEW c \in Calls, CallInv(c), Fine, InGoodOrder(c)
    PROVE  \/ /\ stage[c] = "refused" /\ trace[c] = {} /\ at[c] = "nothing"
              /\ receipt[c] = NoReceipt
           \/ /\ stage[c] = "over" /\ at[c] = "held" /\ "start" \in trace[c] /\ Terminated(c)
              /\ Vouched(c) /\ ValidRegion(Gained(c)) /\ StartsWith(held[c], base[c])
<1>1. SetupInv(c) /\ FineInv(c) /\ GrowthInv(c) /\ Grown
  BY FineGrown DEF CallInv
<1>2. CASE stage[c] = "refused"
  BY <1>1, <1>2 DEF SetupInv, FineInv
<1>3. CASE stage[c] = "over" /\ ValidRegion(Behind(held[c], Len(base[c])))
  <2>1. Started(c) /\ ValidRegion(Gained(c))
    BY <1>3 DEF Started, Gained
  <2>2. /\ at[c] = "held" /\ "start" \in trace[c] /\ "cleanup failed" \notin trace[c]
        /\ Recorded(c) /\ "terminal" \in trace[c]
    BY <1>1, <1>3, <2>1 DEF FineInv
  <2>3. Vouched(c) /\ Terminated(c)
    BY <2>1, <2>2 DEF Recorded, Terminated
  <2>4. StartsWith(held[c], base[c])
    BY <1>1, <2>2 DEF GrowthInv
  <2> QED
    BY <1>3, <2>1, <2>2, <2>3, <2>4
<1> QED
  BY <1>2, <1>3 DEF InGoodOrder

\* A trace that calm and flawless calls have left is accepted, and what is
\* accepted has ended.
LEMMA TraceRead ==
    ASSUME IInv, ReadTrace, UNCHANGED <<session, callVars, held, at, receipt, writes, faults>>
    PROVE  IInv'
<1> DEFINE starts == {c \in Calls : "start" \in trace[c]}
<1>0. /\ FilesTypeOK /\ FilesTypeOK' /\ ListsTypeOK
      /\ (\A c \in Calls : CallInv(c) /\ CallInv(c)') /\ (Fine' => traced')
      /\ \A c \in Calls : (Known(c)' <=> Known(c)) /\ (InGoodOrder(c)' <=> InGoodOrder(c))
      /\ (Fine' <=> Fine)
  BY FilesFrame
<1>a. stage' = stage /\ at' = at /\ receipt' = receipt
  BY DEF callVars
<1>1. CASE /\ starts # {} /\ \A c \in starts : Terminated(c)
           /\ \A c \in Calls \ starts : trace[c] = {}
  <2>1. /\ validator' = "choosing" /\ seen' = starts /\ left' = starts
        /\ ran' = {c \in Calls : Accountable(c)} /\ calm' = Calm
    BY <1>1 DEF ReadTrace
  <2>2. TypeOK'
    <3>1. ListsTypeOK'
      BY <2>1 DEF ListsTypeOK, Calm
    <3> QED
      BY <1>0, <3>1 DEF TypeOK, FilesTypeOK, ListsTypeOK
  <2>3. ValidatorInv'
    <3>1. \A c \in ran' : Known(c)' /\ at'[c] # "nothing"
      BY <1>0, <1>a, <2>1 DEF CallInv, SetupInv, Known, Accountable
    <3>2. \A c \in seen' : stage'[c] = "over"
      BY <1>0, <1>1, <1>a, <2>1 DEF CallInv, Terminated
    <3> QED
      BY <2>1, <3>1, <3>2 DEF ValidatorInv
  <2>4. AlarmInv'
    <3>1. ASSUME calm', Fine'
          PROVE  /\ \A c \in Calls : InGoodOrder(c)'
                 /\ starts = {c \in Calls : stage[c] = "over"}
      <4>1. Fine /\ \A c \in Calls : InGoodOrder(c)
        BY <1>0, <2>1, <3>1 DEF Calm
      <4>2. \A c \in Calls : c \in starts <=> stage[c] = "over"
        BY <1>0, <4>1, GoodOrder
      <4> QED
        BY <1>0, <4>1, <4>2
    <3> QED
      BY <1>a, <2>1, <3>1 DEF AlarmInv
  <2> QED
    BY <1>0, <2>2, <2>3, <2>4 DEF IInv
<1>2. CASE ~(/\ starts # {} /\ \A c \in starts : Terminated(c)
             /\ \A c \in Calls \ starts : trace[c] = {})
  <2>1. Rejects /\ calm' = Calm
    BY <1>2 DEF ReadTrace
  <2>2. TypeOK'
    <3>1. ListsTypeOK'
      BY <2>1 DEF ListsTypeOK, Calm, Rejects
    <3> QED
      BY <1>0, <3>1 DEF TypeOK, FilesTypeOK, ListsTypeOK
  <2>3. ~(calm' /\ Fine')
    <3>1. SUFFICES ASSUME Calm, Fine
                   PROVE  FALSE
      BY <1>0, <2>1
    <3>2. PICK d \in Calls : Started(d)
      BY <3>1 DEF Calm
    <3>3. \A c \in Calls : InGoodOrder(c)
      BY <3>1 DEF Calm
    <3>4. \A c \in Calls : \/ stage[c] = "refused" /\ trace[c] = {}
                           \/ stage[c] = "over" /\ "start" \in trace[c] /\ Terminated(c)
      BY <1>0, <3>1, <3>3, GoodOrder
    <3>5. d \in starts
      BY <3>2, <3>4 DEF Started, Finalizing
    <3> QED
      BY <1>2, <3>4, <3>5
  <2> QED
    BY <1>0, <2>1, <2>2, <2>3 DEF IInv, ValidatorInv, AlarmInv, Rejects
<1> QED
  BY <1>1, <1>2

\* What the validator requires of a call or of the directories.
LEMMA Required ==
    ASSUME IInv, UNCHANGED <<session, callVars, held, at, receipt, writes, faults>>,
           NEW condition \in BOOLEAN,
           NEW step \in {"sized", "based", "digested", "listed", "pass"},
           Requires(condition, step),
           calm /\ Fine => condition,
           condition /\ step \in {"sized", "based", "digested"} =>
             /\ left # {} /\ receipt[Chosen] # NoReceipt
             /\ step = "based" =>
                  \/ Proves(receipt[Chosen])
                  \/ ~Grown /\ StartsWith(held[Chosen], receipt[Chosen].base)
             /\ step = "digested" =>
                  \/ Proves(receipt[Chosen])
                  \/ /\ ~Grown /\ StartsWith(held[Chosen], receipt[Chosen].base)
                     /\ StartsWith(held[Chosen], receipt[Chosen].final),
           condition /\ step \in {"listed", "pass"} => left = {},
           condition /\ step = "pass" => ran \subseteq seen
    PROVE  IInv'
<1>0. /\ FilesTypeOK /\ FilesTypeOK' /\ ListsTypeOK
      /\ (\A c \in Calls : CallInv(c) /\ CallInv(c)') /\ (Fine' => traced')
      /\ \A c \in Calls : (Known(c)' <=> Known(c)) /\ (InGoodOrder(c)' <=> InGoodOrder(c))
      /\ (Fine' <=> Fine) /\ (Grown' <=> Grown)
  BY FilesFrame
<1>a. stage' = stage /\ at' = at /\ receipt' = receipt /\ held' = held
  BY DEF callVars
<1>b. ValidatorInv /\ AlarmInv
  BY DEF IInv
<1>1. CASE condition
  <2>1. validator' = step /\ UNCHANGED <<seen, left, ran, calm>>
    BY <1>1 DEF Requires, ValidatorGoes
  <2>2. TypeOK'
    <3>1. ListsTypeOK'
      BY <1>0, <2>1 DEF ListsTypeOK
    <3> QED
      BY <1>0, <3>1 DEF TypeOK, FilesTypeOK, ListsTypeOK
  <2>3. ValidatorInv'
    <3>1. ran \subseteq Calls /\ seen \subseteq Calls
      BY <1>0 DEF ListsTypeOK
    <3>2. Chosen' = Chosen
      BY <2>1 DEF Chosen
    <3>3. step \in {"sized", "based", "digested"} => left # {} /\ NextInv'
      BY <1>0, <1>1, <1>a, <2>1, <3>2 DEF NextInv
    <3>4. (\A c \in ran : Known(c) /\ at[c] # "nothing")'
      BY <1>0, <1>a, <1>b, <2>1, <3>1 DEF ValidatorInv
    <3>5. /\ (\A c \in seen : stage[c] = "over")'
          /\ (\A c \in seen \ left : Proves(receipt[c]))'
      BY <1>a, <1>b, <2>1 DEF ValidatorInv
    <3> QED
      BY <1>1, <2>1, <3>3, <3>4, <3>5 DEF ValidatorInv
  <2>4. AlarmInv'
    BY <1>0, <1>a, <1>b, <2>1 DEF AlarmInv
  <2> QED
    BY <1>0, <2>2, <2>3, <2>4 DEF IInv
<1>2. CASE ~condition
  <2>1. Rejects /\ UNCHANGED calm
    BY <1>2 DEF Requires
  <2>2. TypeOK'
    <3>1. ListsTypeOK'
      BY <1>0, <2>1 DEF ListsTypeOK, Rejects
    <3> QED
      BY <1>0, <3>1 DEF TypeOK, FilesTypeOK, ListsTypeOK
  <2>3. ~(calm' /\ Fine')
    BY <1>0, <1>2, <2>1
  <2> QED
    BY <1>0, <2>1, <2>2, <2>3 DEF IInv, ValidatorInv, AlarmInv, Rejects
<1> QED
  BY <1>1, <1>2

\* The call that the validator is looking at.
LEMMA ChosenCall ==
    ASSUME IInv, left # {}
    PROVE  /\ Chosen \in left /\ Chosen \in Calls /\ stage[Chosen] = "over" /\ CallInv(Chosen)
           /\ held[Chosen] \in Seq(Event) /\ base[Chosen] \in Seq(Event)
           /\ receipt[Chosen].base \in Seq(Event) /\ receipt[Chosen].final \in Seq(Event)
           /\ receipt[Chosen].messages \in Nat
           /\ calm /\ Fine =>
                /\ receipt[Chosen] # NoReceipt /\ at[Chosen] = "held"
                /\ receipt[Chosen].base = base[Chosen] /\ receipt[Chosen].final = held[Chosen]
                /\ receipt[Chosen].messages = Messages(Gained(Chosen))
                /\ ValidRegion(Gained(Chosen)) /\ StartsWith(held[Chosen], base[Chosen])
<1>1. Chosen \in left /\ FilesTypeOK /\ ListsTypeOK
  BY ChosenFacts, TypeParts DEF IInv
<1>2. PICK c \in Calls : c = Chosen /\ stage[c] = "over" /\ CallInv(c)
  BY <1>1 DEF ListsTypeOK, IInv, ValidatorInv
<1>3. held[c] \in Seq(Event) /\ base[c] \in Seq(Event) /\ receipt[c] \in Receipt
  BY <1>1, CallTypes
<1>4. receipt[c].base \in Seq(Event) /\ receipt[c].final \in Seq(Event)
      /\ receipt[c].messages \in Nat
  BY <1>3 DEF Receipt
<1>5. ASSUME calm, Fine
      PROVE  /\ at[c] = "held" /\ Vouched(c) /\ ValidRegion(Gained(c))
             /\ StartsWith(held[c], base[c])
  <2>1. InGoodOrder(c)
    BY <1>5 DEF IInv, AlarmInv
  <2> QED
    BY <1>1, <1>2, <1>5, <2>1, GoodOrder
<1> QED
  BY <1>1, <1>2, <1>3, <1>4, <1>5 DEF Vouched

\* The comparisons of the files with a receipt, each with a new read.
LEMMA ComparisonSteps ==
    ASSUME IInv, VerifySize \/ VerifyBaseline \/ VerifyDigest,
           UNCHANGED <<session, callVars, held, at, receipt, writes, faults>>
    PROVE  IInv'
<1>1. CASE VerifySize
  <2> DEFINE condition == /\ receipt[Chosen] # NoReceipt /\ at[Chosen] = "held"
                          /\ Len(held[Chosen]) = Len(receipt[Chosen].final)
  <2>1. left # {} /\ Requires(condition, "sized")
    BY <1>1 DEF VerifySize
  <2>2. calm /\ Fine => condition
    BY <2>1, ChosenCall
  <2>3. condition => receipt[Chosen] # NoReceipt
    OBVIOUS
  <2>4. condition \in BOOLEAN
    OBVIOUS
  <2> HIDE DEF condition
  <2> QED
    BY <2>1, <2>2, <2>3, <2>4, Required
<1>2. CASE VerifyBaseline
  <2> DEFINE condition == StartsWith(held[Chosen], receipt[Chosen].base)
  <2>1. /\ left # {} /\ receipt[Chosen] # NoReceipt /\ Requires(condition, "based")
        /\ condition \in BOOLEAN
    BY <1>2 DEF VerifyBaseline, IInv, ValidatorInv, NextInv, StartsWith
  <2>2. calm /\ Fine => condition
    BY <2>1, ChosenCall
  <2>3. condition => \/ Proves(receipt[Chosen])
                     \/ ~Grown /\ StartsWith(held[Chosen], receipt[Chosen].base)
    BY <2>1, ChosenCall DEF CallInv, GrowthInv
  <2> HIDE DEF condition
  <2> QED
    BY <2>1, <2>2, <2>3, Required
<1>3. CASE VerifyDigest
  <2> DEFINE condition == StartsWith(held[Chosen], receipt[Chosen].final)
  <2>1. /\ left # {} /\ receipt[Chosen] # NoReceipt /\ Requires(condition, "digested")
        /\ condition \in BOOLEAN
        /\ \/ Proves(receipt[Chosen])
           \/ ~Grown /\ StartsWith(held[Chosen], receipt[Chosen].base)
    BY <1>3 DEF VerifyDigest, IInv, ValidatorInv, NextInv, StartsWith
  <2>2. calm /\ Fine => condition
    BY <2>1, ChosenCall, WholePrefix
  <2>3. condition => \/ Proves(receipt[Chosen])
                     \/ /\ ~Grown /\ StartsWith(held[Chosen], receipt[Chosen].base)
                        /\ StartsWith(held[Chosen], receipt[Chosen].final)
    BY <2>1
  <2> HIDE DEF condition
  <2> QED
    BY <2>1, <2>2, <2>3, Required
<1> QED
  BY <1>1, <1>2, <1>3

\* The receipts and the transcripts that the directories hold.
LEMMA ListingSteps ==
    ASSUME IInv, ListReceipts \/ ListTranscripts,
           UNCHANGED <<session, callVars, held, at, receipt, writes, faults>>
    PROVE  IInv'
<1>0. /\ FilesTypeOK /\ ListsTypeOK /\ (\A c \in Calls : CallInv(c))
      /\ ValidatorInv /\ AlarmInv
  BY TypeParts DEF IInv
<1>1. ASSUME calm, Fine
      PROVE  /\ seen = {c \in Calls : receipt[c] # NoReceipt}
             /\ seen = Present
  <2>1. seen = {c \in Calls : stage[c] = "over"} /\ \A c \in Calls : InGoodOrder(c)
    BY <1>0, <1>1 DEF AlarmInv
  <2>2. \A c \in Calls : /\ stage[c] = "over" <=> receipt[c] # NoReceipt
                         /\ stage[c] = "over" <=> at[c] # "nothing"
    <3> TAKE c \in Calls
    <3>1. \/ stage[c] = "refused" /\ at[c] = "nothing" /\ receipt[c] = NoReceipt
          \/ stage[c] = "over" /\ at[c] = "held" /\ Vouched(c)
      BY <1>0, <1>1, <2>1, GoodOrder
    <3> QED
      BY <3>1 DEF Vouched
  <2> QED
    BY <2>1, <2>2 DEF Present
<1>2. CASE ListReceipts
  <2> DEFINE condition == {c \in Calls : receipt[c] # NoReceipt} = seen
  <2>1. left = {} /\ Requires(condition, "listed") /\ condition \in BOOLEAN
    BY <1>2 DEF ListReceipts
  <2>2. calm /\ Fine => condition
    BY <1>1
  <2> HIDE DEF condition
  <2> QED
    BY <2>1, <2>2, Required
<1>3. CASE ListTranscripts
  <2> DEFINE condition == Present = seen
  <2>1. left = {} /\ Requires(condition, "pass") /\ condition \in BOOLEAN
    BY <1>0, <1>3 DEF ListTranscripts, ValidatorInv
  <2>2. calm /\ Fine => condition
    BY <1>1
  <2>3. condition => ran \subseteq seen
    BY <1>0 DEF ValidatorInv, ListsTypeOK, Present
  <2> HIDE DEF condition
  <2> QED
    BY <2>1, <2>2, <2>3, Required
<1> QED
  BY <1>2, <1>3

\* A receipt that was compared with the file twice, and whose region of the file
\* is valid, is valid itself.
LEMMA EventsStep ==
    ASSUME IInv, VerifyEvents, UNCHANGED <<session, callVars, held, at, receipt, writes, faults>>
    PROVE  IInv'
<1> DEFINE r == receipt[Chosen]
           appended == Behind(Prefix(held[Chosen], Len(r.final)), Len(r.base))
           condition == /\ Len(held[Chosen]) >= Len(r.final) /\ ValidRegion(appended)
                        /\ Messages(appended) = r.messages
<1>0. /\ FilesTypeOK /\ FilesTypeOK' /\ ListsTypeOK
      /\ (\A c \in Calls : CallInv(c) /\ CallInv(c)') /\ (Fine' => traced')
      /\ \A c \in Calls : (Known(c)' <=> Known(c)) /\ (InGoodOrder(c)' <=> InGoodOrder(c))
      /\ (Fine' <=> Fine) /\ (Grown' <=> Grown)
  BY FilesFrame
<1>a. stage' = stage /\ at' = at /\ receipt' = receipt /\ held' = held
  BY DEF callVars
<1>b. ValidatorInv /\ AlarmInv
  BY DEF IInv
<1>c. validator = "digested" /\ left # {} /\ NextInv /\ UNCHANGED calm
  BY <1>b DEF VerifyEvents, ValidatorInv
<1>d. /\ Chosen \in left /\ Chosen \in Calls /\ CallInv(Chosen)
      /\ held[Chosen] \in Seq(Event) /\ r.base \in Seq(Event) /\ r.final \in Seq(Event)
  BY <1>c, ChosenCall
<1>1. CASE condition
  <2>1. /\ validator' = "choosing" /\ left' = left \ {Chosen} /\ UNCHANGED <<seen, ran>>
    BY <1>1 DEF VerifyEvents
  <2>2. Proves(r)
    <3>1. CASE Proves(r)
      BY <3>1
    <3>2. CASE StartsWith(held[Chosen], r.base) /\ StartsWith(held[Chosen], r.final)
      <4>1. Len(r.base) <= Len(r.final)
        <5>1. r # NoReceipt => r.base = base[Chosen] /\ Len(r.final) > Len(base[Chosen])
          BY <1>d DEF CallInv, SizeInv
        <5>2. r # NoReceipt
          BY <1>c DEF NextInv
        <5>3. Len(r.base) \in Nat /\ Len(r.final) \in Nat
          BY <1>d
        <5> HIDE DEF r
        <5> QED
          BY <5>1, <5>2, <5>3
      <4>2. StartsWith(r.final, r.base)
        BY <1>d, <3>2, <4>1, TwoStarts
      <4>3. Prefix(held[Chosen], Len(r.final)) = r.final
        BY <3>2 DEF StartsWith
      <4> QED
        BY <1>1, <4>2, <4>3 DEF Proves
    <3> QED
      BY <1>c, <3>1, <3>2 DEF NextInv
  <2>3. TypeOK'
    <3>1. ListsTypeOK'
      BY <1>0, <1>c, <2>1 DEF ListsTypeOK
    <3> QED
      BY <1>0, <3>1 DEF TypeOK, FilesTypeOK, ListsTypeOK
  <2>4. ValidatorInv'
    <3>1. ran \subseteq Calls
      BY <1>0 DEF ListsTypeOK
    <3>2. (\A c \in ran : Known(c) /\ at[c] # "nothing")'
      BY <1>0, <1>a, <1>b, <2>1, <3>1 DEF ValidatorInv
    <3>3. /\ (\A c \in seen : stage[c] = "over")'
          /\ (\A c \in seen \ left : Proves(receipt[c]))'
      BY <1>a, <1>b, <2>1, <2>2 DEF ValidatorInv
    <3> QED
      BY <2>1, <3>2, <3>3 DEF ValidatorInv
  <2>5. AlarmInv'
    BY <1>0, <1>a, <1>b, <1>c, <2>1 DEF AlarmInv
  <2> QED
    BY <1>0, <2>3, <2>4, <2>5 DEF IInv
<1>2. CASE ~condition
  <2>1. Rejects
    BY <1>2 DEF VerifyEvents
  <2>2. TypeOK'
    <3>1. ListsTypeOK'
      BY <1>0, <1>c, <2>1 DEF ListsTypeOK, Rejects
    <3> QED
      BY <1>0, <3>1 DEF TypeOK, FilesTypeOK, ListsTypeOK
  <2>3. calm /\ Fine => condition
    <3>1. ASSUME calm, Fine
          PROVE  /\ r.final = held[Chosen] /\ r.base = base[Chosen]
                 /\ r.messages = Messages(Gained(Chosen)) /\ ValidRegion(Gained(Chosen))
      BY <1>c, <3>1, ChosenCall
    <3>2. Prefix(held[Chosen], Len(held[Chosen])) = held[Chosen] /\ Len(held[Chosen]) \in Nat
      BY <1>d, WholePrefix
    <3> QED
      BY <3>1, <3>2 DEF Gained
  <2>4. ~(calm' /\ Fine')
    BY <1>0, <1>2, <1>c, <2>3
  <2> QED
    BY <1>0, <2>1, <2>2, <2>4 DEF IInv, ValidatorInv, AlarmInv, Rejects
<1> QED
  BY <1>1, <1>2

------------------------------------------------------------------------------
(* The theorems *)

LEMMA InitInv == Init => IInv
<1> SUFFICES ASSUME Init
             PROVE  IInv
  OBVIOUS
<1>1. TypeOK
  <2>1. <<"message">> \in Seq(Event) /\ <<>> \in Seq(Event)
    BY DEF Event
  <2>2. NoReceipt \in Receipt
    BY <2>1 DEF NoReceipt, Receipt
  <2>3. session \in Seq(Event) /\ receipt \in [Calls -> Receipt]
    BY <2>1, <2>2 DEF Init
  <2>4. [c \in Calls |-> <<>>] \in [Calls -> Seq(Event)]
    BY <2>1
  <2>5. {base, held, digest} \subseteq [Calls -> Seq(Event)]
    BY <2>4 DEF Init
  <2>6. {size, messages} \subseteq [Calls -> Nat] /\ stage \in [Calls -> Stages]
    BY DEF Init, Stages, Setup
  <2>7. /\ at \in [Calls -> {"nothing", "held", "other"}]
        /\ trace \in [Calls -> SUBSET Lines] /\ traced \in BOOLEAN
    BY DEF Init
  <2>8. /\ validator = "idle" /\ seen = {} /\ left = {} /\ ran = {} /\ calm = FALSE
        /\ writes = 0 /\ faults = {}
    BY DEF Init
  <2> QED
    BY <2>3, <2>5, <2>6, <2>7, <2>8 DEF TypeOK
<1>2. ASSUME NEW c \in Calls
      PROVE  CallInv(c) /\ ~Started(c)
  <2>1. /\ stage[c] = "idle" /\ base[c] = <<>> /\ held[c] = <<>> /\ at[c] = "nothing"
        /\ receipt[c] = NoReceipt /\ trace[c] = {}
    BY DEF Init
  <2> QED
    BY <2>1 DEF CallInv, SetupInv, SizeInv, GrowthInv, FineInv, Started, Setup, Finalizing, Reading
<1>3. ValidatorInv /\ AlarmInv /\ traced
  BY DEF Init, ValidatorInv, AlarmInv
<1> QED
  BY <1>1, <1>2, <1>3 DEF IInv

LEMMA CallSteps ==
    ASSUME IInv, NEW c \in Calls, CallStep(c), UNCHANGED <<session, writes>>
    PROVE  StepMoves
<1>0. FilesTypeOK /\ (Fine => traced) /\ \A d \in Calls : CallInv(d)
  BY TypeParts DEF IInv
<1>1. CASE \/ /\ OpenSource(c) \/ CopySource(c) \/ CheckCopy(c) \/ RetireTemporary(c)
              /\ UNCHANGED <<at, receipt, faults>>
           \/ (LinkTranscript(c) \/ AbandonUnstarted(c)) /\ UNCHANGED <<held, receipt, faults>>
  BY <1>0, <1>1, SetupSteps
<1>2. CASE /\ Start(c) \/ ChildEnds(c) \/ MeasureFinal(c) \/ CheckBaseline(c)
              \/ ValidateAppend(c) \/ DigestFinal(c)
           /\ UNCHANGED <<at, receipt, faults>>
  <2>1. UNCHANGED <<session, writes, at, receipt, faults>>
    BY <1>2
  <2> QED
    BY <1>0, <1>2, <2>1, ReadingSteps
<1>3. CASE \/ PublishReceipt(c) /\ UNCHANGED <<held, at, faults>>
           \/ ReceiptThrows(c) /\ UNCHANGED <<held, at>>
  <2>1. UNCHANGED <<session, writes, held, at>>
    BY <1>3
  <2> QED
    BY <1>0, <1>3, <2>1, PublishSteps
<1>4. CASE \/ (CompleteCall(c) \/ CleanUp(c)) /\ UNCHANGED <<at, receipt, faults>>
           \/ CleanUpFails(c) /\ UNCHANGED <<held, at, receipt>>
  <2>1. UNCHANGED <<session, writes, held, at, receipt>>
    BY <1>4 DEF CompleteCall, CleanUp
  <2> QED
    BY <1>0, <1>4, <2>1, EndingSteps
<1>5. CASE (RefuseStart(c) \/ Throws(c)) /\ UNCHANGED <<held, at, receipt>>
  <2>1. UNCHANGED <<session, writes, held, at, receipt>>
    BY <1>5
  <2> QED
    BY <1>0, <1>5, <2>1, FailingSteps
<1> QED
  BY <1>1, <1>2, <1>3, <1>4, <1>5 DEF CallStep

LEMMA StepInv ==
    ASSUME IInv, [Next]_vars
    PROVE  IInv'
<1>0. FilesTypeOK /\ (Fine => traced) /\ \A d \in Calls : CallInv(d)
  BY TypeParts DEF IInv
<1>1. CASE ProcessStep /\ UNCHANGED <<session, validatorVars, writes>>
  <2>1. UNCHANGED <<session, writes>> /\ UNCHANGED validatorVars
    BY <1>1
  <2>2. CASE \E c \in Calls : CallStep(c)
    BY <2>1, <2>2, CallSteps, ValidatorFrame
  <2>3. CASE (TraceFails \/ Dies) /\ UNCHANGED <<held, at, receipt>>
    <3>1. UNCHANGED <<session, writes, held, at, receipt>>
      BY <2>1, <2>3
    <3> QED
      BY <1>0, <2>1, <2>3, <3>1, TraceStep, DeathStep, ValidatorFrame
  <2> QED
    BY <1>1, <2>2, <2>3 DEF ProcessStep
<1>2. CASE WriterStep /\ UNCHANGED <<callVars, receipt, validatorVars>>
  <2>1. UNCHANGED <<callVars, receipt>> /\ UNCHANGED validatorVars
    BY <1>2
  <2>2. CASE SessionGrows \/ SessionRewritten
    BY <1>0, <2>1, <2>2, SessionSteps, ValidatorFrame
  <2>3. CASE \E c \in Calls : ChildWrites(c) \/ LateWrite(c)
    BY <1>0, <2>1, <2>3, GrowthSteps, ValidatorFrame
  <2>4. CASE \E c \in Calls : Rewrite(c) \/ Replace(c)
    BY <1>0, <2>1, <2>4, TamperingSteps, ValidatorFrame
  <2> QED
    BY <1>2, <2>2, <2>3, <2>4 DEF WriterStep
<1>3. CASE ValidatorStep /\ UNCHANGED <<session, callVars, held, at, receipt, writes, faults>>
  BY <1>3, TraceRead, ComparisonSteps, EventsStep, ListingSteps DEF ValidatorStep
<1>4. CASE UNCHANGED vars
  <2>1. /\ UNCHANGED <<session, callVars, held, at, receipt, writes, faults>>
        /\ UNCHANGED validatorVars
    BY <1>4 DEF vars
  <2>2. StepMoves
    <3>1. \A c \in Calls : Same(c)
      BY <2>1 DEF callVars, Same
    <3>2. FilesTypeOK' /\ (Fine' => traced') /\ faults \subseteq faults'
      BY <2>1, FilesFrame
    <3> QED
      BY <1>0, <3>1, <3>2, CallFrame DEF StepMoves
  <2> QED
    BY <2>1, <2>2, ValidatorFrame
<1> QED
  BY <1>1, <1>2, <1>3, <1>4 DEF Next

LEMMA Invariance == Spec => []IInv
<1>1. Init => IInv
  BY InitInv
<1>2. IInv /\ [Next]_vars => IInv'
  BY StepInv
<1> QED
  BY <1>1, <1>2, PTL DEF Spec

\* Every variable keeps a value of its kind.
THEOREM TypeInvariant == Spec => []TypeOK
<1>1. IInv => TypeOK
  BY DEF IInv
<1> QED
  BY <1>1, Invariance, PTL

\* finalizeTranscriptProof reads a file that others append to four times and
\* publishes one receipt: it says what was in the file at one moment, all of it
\* validated, and the file still begins with it.
THEOREM ReceiptTheorem == Spec => []ReceiptProves
<1>1. IInv => ReceiptProves
  BY DEF IInv, CallInv, GrowthInv, Grown, ReceiptProves
<1> QED
  BY <1>1, Invariance, PTL

\* A trace that validate-recursion-transcripts.ts passes has a valid receipt for
\* every child that was started and every session that was left before it began,
\* those of a process that has been killed included, though each is compared with
\* its file by separate reads.
THEOREM PassTheorem == Spec => []PassIsProof
<1>1. IInv => PassIsProof
  BY DEF IInv, ValidatorInv, PassIsProof
<1> QED
  BY <1>1, Invariance, PTL

\* And it rejects no trace of calls that all ended well before it began.
THEOREM AlarmTheorem == Spec => []NoFalseAlarm
<1>1. IInv => NoFalseAlarm
  BY DEF IInv, AlarmInv, Fine, NoFalseAlarm
<1> QED
  BY <1>1, Invariance, PTL
=============================================================================
