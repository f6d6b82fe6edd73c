-------------------------- MODULE TranscriptProof --------------------------
(***************************************************************************)
(* RLM_REQUIRE_TRANSCRIPTS=1: the evidence that recursive calls leave.     *)
(* Their process reserves a session file for each child, for a fork with a *)
(* copy of the parent's session, holds it open while the child runs, and   *)
(* publishes a receipt for what it finds in it afterwards; it reports      *)
(* start, completion and cleanup in the trace file.  The validator reads   *)
(* the trace, the files and the directory, at any time.                    *)
(*                                                                         *)
(* Every read of a file is a step.  A child appends events; a descendant   *)
(* it left behind may append after its end; somebody may rewrite a file in *)
(* place or put another one at its path.  One process makes all the calls, *)
(* side by side; each has a name (trace, generation, depth and number) of  *)
(* its own.                                                                *)
(***************************************************************************)
EXTENDS Naturals, Sequences, FiniteSets

CONSTANTS
    Calls,       \* the calls of one trace
    Forks,       \* those that start from the parent's session
    MaxWrites,   \* bound: how many events the children write
    MaxSession,  \* bound: length of the parent's session
    MaxFaults    \* bound: how many kinds of fault happen, each once

Faults == {"io", "kill", "late", "rewrite", "replace"}

ASSUME CallsAssumption == IsFiniteSet(Calls) /\ Forks \subseteq Calls
ASSUME BoundAssumption == {MaxWrites, MaxSession, MaxFaults} \subseteq Nat

VARIABLES
    session,   \* events of the parent's session file
    stage,     \* progress of the process of each call
    base,      \* contents of the fork source when it was digested
    held,      \* contents of the leased inode
    at,        \* what the path names: nothing, the leased inode or another
    size,      \* final_bytes
    messages,  \* message_events_appended
    digest,    \* what final_sha256 is the digest of
    receipt,   \* the published receipt
    trace,     \* the lines of each call in the trace file
    traced,    \* the process still writes the trace
    validator, \* progress of the validator
    seen,      \* the calls that the trace it read has started
    left,      \* those it has not verified yet
    ran,       \* the calls that it has to account for, as they were when it began
    calm,      \* and whether all calls were over, each in good order
    writes,    \* how many events children have written
    faults     \* the kinds of fault that have happened

callVars == <<stage, base, size, messages, digest, trace, traced>>
validatorVars == <<validator, seen, left, ran, calm>>
vars == <<session, callVars, held, at, receipt, validatorVars, writes, faults>>

\* A line is written at once, or in two parts; only messages are evidence.
Event == {"message", "other", "head", "tail"}
Receipt == [base : Seq(Event), final : Seq(Event), messages : Nat]
NoReceipt == [base |-> <<>>, final |-> <<>>, messages |-> 0]
Lines == {"start", "completed", "verified", "cleanup failed", "terminal"}

Setup == {"idle", "opened", "copied", "temporary", "linked", "prepared"}
Finalizing == {"closed", "measured", "based", "validated", "digested", "proved", "unproved",
               "completed"}
\* Between these two calls of one process do not interleave.
Synchronous == {"opened", "copied", "temporary", "linked", "closed", "measured", "based",
                "validated", "digested", "proved", "unproved"}
Stages == Setup \cup Finalizing \cup {"running", "incomplete", "refused", "over", "dead", "killed"}

------------------------------------------------------------------------------
(* Contents *)

Prefix(s, n) == SubSeq(s, 1, n)
Behind(s, n) == SubSeq(s, n + 1, Len(s))
Complete(s) ==
    /\ \A i \in DOMAIN s : s[i] = "head" => i < Len(s) /\ s[i + 1] = "tail"
    /\ \A i \in DOMAIN s : s[i] = "tail" => i > 1 /\ s[i - 1] = "head"
Messages(s) == Cardinality({i \in DOMAIN s : s[i] \in {"message", "tail"}})

\* validateJsonlRegion
ValidRegion(s) == Complete(s) /\ Messages(s) > 0

Spend(f) == f \notin faults /\ Cardinality(faults) < MaxFaults /\ faults' = faults \cup {f}
Goto(c, s) == stage' = [stage EXCEPT ![c] = s]
Report(c, lines) ==
    trace' = IF traced THEN [trace EXCEPT ![c] = @ \cup lines] ELSE trace

Init ==
    /\ session = <<"message">>
    /\ stage = [c \in Calls |-> "idle"]
    /\ base = [c \in Calls |-> <<>>] /\ held = base /\ digest = base
    /\ at = [c \in Calls |-> "nothing"]
    /\ size = [c \in Calls |-> 0] /\ messages = size
    /\ receipt = [c \in Calls |-> NoReceipt]
    /\ trace = [c \in Calls |-> {}] /\ traced = TRUE
    /\ validator = "idle" /\ seen = {} /\ left = {} /\ ran = {} /\ calm = FALSE
    /\ writes = 0 /\ faults = {}

------------------------------------------------------------------------------
(* prepareTranscriptProof *)

\* openSecureForkSource: size, lines and digest of the source.
OpenSource(c) ==
    /\ stage[c] = "idle"
    /\ IF c \in Forks
       THEN IF session # <<>> /\ Complete(session)
            THEN Goto(c, "opened") /\ base' = [base EXCEPT ![c] = session]
            ELSE Goto(c, "refused") /\ UNCHANGED base
       ELSE Goto(c, "temporary") /\ UNCHANGED base
    /\ UNCHANGED <<held, size, messages, digest, trace, traced>>

\* copyForkBaseline: the copy, then the digests of both files.
CopySource(c) ==
    /\ stage[c] = "opened"
    /\ IF Len(session) >= Len(base[c])
       THEN Goto(c, "copied") /\ held' = [held EXCEPT ![c] = Prefix(session, Len(base[c]))]
       ELSE Goto(c, "refused") /\ UNCHANGED held
    /\ UNCHANGED <<base, size, messages, digest, trace, traced>>

CopyVerified(c) ==
    /\ Len(session) >= Len(base[c]) /\ Prefix(session, Len(base[c])) = base[c]
    /\ held[c] = base[c]
CheckCopy(c) ==
    /\ stage[c] = "copied"
    /\ Goto(c, IF CopyVerified(c) THEN "temporary" ELSE "refused")
    /\ UNCHANGED <<base, held, size, messages, digest, trace, traced>>

\* createHeldTranscript: the link and the end of the temporary name.
LinkTranscript(c) ==
    /\ stage[c] = "temporary" /\ Goto(c, "linked") /\ at' = [at EXCEPT ![c] = "held"]
    /\ UNCHANGED <<base, size, messages, digest, trace, traced>>
RetireTemporary(c) ==
    /\ stage[c] = "linked" /\ Goto(c, "prepared")
    /\ UNCHANGED <<base, held, size, messages, digest, trace, traced>>

\* acquireWorkspace throws, or the deadline has passed: the reserved file is
\* taken away, if it is still the one that was reserved.
AbandonUnstarted(c) ==
    /\ stage[c] = "prepared" /\ Goto(c, "refused")
    /\ at' = [at EXCEPT ![c] = IF @ = "held" /\ held[c] = base[c] THEN "nothing" ELSE @]
    /\ UNCHANGED <<base, size, messages, digest, trace, traced>>

------------------------------------------------------------------------------
(* runRecursiveChild *)

\* Cancelled, timed out or cut off after the setup: nothing is taken away.
RefuseStart(c) ==
    /\ stage[c] = "prepared" /\ Spend("io") /\ Goto(c, "refused")
    /\ UNCHANGED <<base, size, messages, digest, trace, traced>>

Start(c) ==
    /\ stage[c] = "prepared" /\ Goto(c, "running") /\ Report(c, {"start"})
    /\ UNCHANGED <<base, held, size, messages, digest, traced>>

ChildEnds(c) ==
    /\ stage[c] = "running" /\ Goto(c, "closed")
    /\ UNCHANGED <<base, held, size, messages, digest, trace, traced>>

\* finalizeTranscriptProof

MeasureFinal(c) ==
    /\ stage[c] = "closed"
    /\ IF at[c] = "held" /\ Len(held[c]) > Len(base[c])
       THEN Goto(c, "measured") /\ size' = [size EXCEPT ![c] = Len(held[c])]
       ELSE Goto(c, "unproved") /\ UNCHANGED size
    /\ UNCHANGED <<base, held, messages, digest, trace, traced>>

CheckBaseline(c) ==
    /\ stage[c] = "measured"
    /\ Goto(c, IF Len(held[c]) >= Len(base[c]) /\ Prefix(held[c], Len(base[c])) = base[c]
               THEN "based" ELSE "unproved")
    /\ UNCHANGED <<base, held, size, messages, digest, trace, traced>>

\* The lines of the bytes that were measured.
AppendedMutant(c) == Behind(held[c], Len(base[c]))
Appended(c) == Behind(Prefix(held[c], size[c]), Len(base[c]))
ValidateAppend(c) ==
    /\ stage[c] = "based"
    /\ IF Len(held[c]) >= size[c] /\ ValidRegion(Appended(c))
       THEN Goto(c, "validated") /\ messages' = [messages EXCEPT ![c] = Messages(Appended(c))]
       ELSE Goto(c, "unproved") /\ UNCHANGED messages
    /\ UNCHANGED <<base, held, size, digest, trace, traced>>

DigestFinal(c) ==
    /\ stage[c] = "validated"
    /\ IF Len(held[c]) >= size[c]
       THEN Goto(c, "digested") /\ digest' = [digest EXCEPT ![c] = Prefix(held[c], size[c])]
       ELSE Goto(c, "unproved") /\ UNCHANGED digest
    /\ UNCHANGED <<base, held, size, messages, trace, traced>>

PublishedReceipt(c) == [base |-> base[c], final |-> digest[c], messages |-> messages[c]]
PublishReceipt(c) ==
    /\ stage[c] = "digested" /\ Goto(c, "proved")
    /\ receipt' = [receipt EXCEPT ![c] = PublishedReceipt(c)]
    /\ UNCHANGED <<base, size, messages, digest, trace, traced>>

CompleteCallMutant(c) ==
    /\ stage[c] \in {"proved", "unproved"} /\ Goto(c, "completed")
    /\ Report(c, {"completed"} \cup IF stage[c] = "proved" THEN {} ELSE {"verified"})
    /\ UNCHANGED <<base, held, size, messages, digest, traced>>

\* The workspace is finalized; then the completion line.
CompleteCall(c) ==
    /\ stage[c] \in {"proved", "unproved"} /\ Goto(c, "completed")
    /\ Report(c, {"completed"} \cup IF stage[c] = "proved" THEN {"verified"} ELSE {})
    /\ UNCHANGED <<base, held, size, messages, digest, traced>>

\* resources.cleanup, the release of the slot and the resumption of the parent.
CleanUp(c) ==
    /\ stage[c] \in {"completed", "incomplete"} /\ Goto(c, "over")
    /\ Report(c, IF stage[c] = "completed" THEN {"terminal"} ELSE {})
    /\ UNCHANGED <<base, held, size, messages, digest, traced>>

CleanUpFails(c) ==
    /\ stage[c] \in {"completed", "incomplete"} /\ Spend("io") /\ Goto(c, "over")
    /\ Report(c, {"cleanup failed"})
    /\ UNCHANGED <<base, size, messages, digest, traced>>

\* A call of the system throws: what is on the disk stays.
Throws(c) ==
    /\ Spend("io")
    /\ Goto(c, CASE stage[c] \in Setup \ {"idle", "prepared"} -> "refused"
                 [] stage[c] \in {"closed", "measured", "based", "validated", "digested"} -> "unproved"
                 [] stage[c] \in {"running", "proved", "unproved"} -> "incomplete"
                 [] OTHER -> "none")
    /\ stage'[c] # "none"
    /\ UNCHANGED <<base, size, messages, digest, trace, traced>>

\* atomicCreateFile may also throw once the receipt is there.
ReceiptThrows(c) ==
    /\ stage[c] = "digested" /\ Spend("io") /\ Goto(c, "unproved")
    /\ receipt' = [receipt EXCEPT ![c] = PublishedReceipt(c)]
    /\ UNCHANGED <<base, size, messages, digest, trace, traced>>

\* A failed append ends the trace of its process.
TraceFails ==
    /\ traced /\ Spend("io") /\ traced' = FALSE
    /\ UNCHANGED <<stage, base, size, messages, digest, trace>>

\* The child has been started, also if the process that called it is dead.
Started(c) == stage[c] \in Finalizing \cup {"running", "incomplete", "over", "killed"}
Dies ==
    /\ Spend("kill")
    /\ stage' = [c \in Calls |-> IF stage[c] \in {"refused", "over"} THEN stage[c]
                                ELSE IF Started(c) THEN "killed" ELSE "dead"]
    /\ UNCHANGED <<base, size, messages, digest, trace, traced>>

CallStep(c) ==
    \/ /\ \/ OpenSource(c) \/ CopySource(c) \/ CheckCopy(c) \/ RetireTemporary(c)
          \/ Start(c) \/ ChildEnds(c) \/ MeasureFinal(c) \/ CheckBaseline(c)
          \/ ValidateAppend(c) \/ DigestFinal(c) \/ CompleteCall(c) \/ CleanUp(c)
       /\ UNCHANGED <<at, receipt, faults>>
    \/ (LinkTranscript(c) \/ AbandonUnstarted(c)) /\ UNCHANGED <<held, receipt, faults>>
    \/ PublishReceipt(c) /\ UNCHANGED <<held, at, faults>>
    \/ (RefuseStart(c) \/ CleanUpFails(c) \/ Throws(c)) /\ UNCHANGED <<held, at, receipt>>
    \/ ReceiptThrows(c) /\ UNCHANGED <<held, at>>

ProcessStep ==
    \/ \E c \in Calls :
         (\A d \in Calls \ {c} : stage[d] \notin Synchronous) /\ CallStep(c)
    \/ (TraceFails \/ Dies) /\ UNCHANGED <<held, at, receipt>>

------------------------------------------------------------------------------
(* Those who write the files *)

Extensions(s, events) ==
    IF s # <<>> /\ s[Len(s)] = "head" THEN {Append(s, "tail")}
    ELSE {Append(s, e) : e \in events}

\* What a change in place leaves: an event that is none, or fewer events.
Rewritten(s) == {[s EXCEPT ![Len(s)] = "tail"], [s EXCEPT ![1] = "tail"], Prefix(s, Len(s) - 1)}

SessionGrows ==
    /\ Len(session) < MaxSession /\ session' \in Extensions(session, {"message", "head"})
    /\ UNCHANGED <<held, at, writes, faults>>
SessionRewritten ==
    /\ session # <<>> /\ Spend("rewrite") /\ session' \in Rewritten(session)
    /\ UNCHANGED <<held, at, writes>>

\* Writers open the path; what lands in a file that was put there matters to
\* nobody.
Writes(c, contents) ==
    /\ at[c] = "held"
    /\ \E s \in contents : held' = [held EXCEPT ![c] = s]
    /\ UNCHANGED <<session, at>>
ChildWrites(c) ==
    /\ stage[c] = "running" /\ writes < MaxWrites
    /\ writes' = writes + 1 /\ UNCHANGED faults
    /\ Writes(c, Extensions(held[c], {"message", "other", "head"}))

\* Others may know the session of a child that has been started.
LateWrite(c) ==
    /\ Started(c) /\ stage[c] # "running" /\ Spend("late") /\ UNCHANGED writes
    /\ Writes(c, Extensions(held[c], {"message", "head"}))
Rewrite(c) ==
    /\ Started(c) /\ held[c] # <<>> /\ Spend("rewrite") /\ UNCHANGED writes
    /\ Writes(c, Rewritten(held[c]))
Replace(c) ==
    /\ Started(c) /\ at[c] = "held" /\ Spend("replace")
    /\ at' = [at EXCEPT ![c] = "other"]
    /\ UNCHANGED <<session, held, writes>>

WriterStep ==
    \/ SessionGrows \/ SessionRewritten
    \/ \E c \in Calls : ChildWrites(c) \/ LateWrite(c) \/ Rewrite(c) \/ Replace(c)

------------------------------------------------------------------------------
(* validate-recursion-transcripts.ts *)

ValidatorGoes(step) == validator' = step /\ UNCHANGED <<seen, left, ran, calm>>
Rejects == validator' = "fail" /\ seen' = {} /\ left' = {} /\ ran' = {}
Requires(condition, step) ==
    IF condition THEN ValidatorGoes(step) ELSE Rejects /\ UNCHANGED calm

\* expectedTranscripts: each call that started has ended, verified and cleaned up.
Terminated(c) ==
    /\ {"completed", "verified", "terminal"} \subseteq trace[c]
    /\ "cleanup failed" \notin trace[c]
InGoodOrder(c) ==
    \/ stage[c] = "refused"
    \/ stage[c] = "over" /\ ValidRegion(Behind(held[c], Len(base[c])))
\* What a validator that begins now may not pass over: every child that has been
\* started, and every session file that a call that is not to start one has left.
Accountable(c) ==
    \/ Started(c)
    \/ stage[c] \in {"refused", "dead"} /\ at[c] # "nothing"
Calm == (\E c \in Calls : Started(c)) /\ \A c \in Calls : InGoodOrder(c)
ReadTrace ==
    LET starts == {c \in Calls : "start" \in trace[c]}
    IN  /\ validator = "idle" /\ calm' = Calm
        /\ IF /\ starts # {} /\ \A c \in starts : Terminated(c)
              /\ \A c \in Calls \ starts : trace[c] = {}
           THEN /\ validator' = "choosing" /\ seen' = starts /\ left' = starts
                /\ ran' = {c \in Calls : Accountable(c)}
           ELSE Rejects

\* verifyTranscriptReceipt of the next call, through one descriptor.
Chosen == CHOOSE c \in left : TRUE
VerifySize ==
    /\ validator = "choosing" /\ left # {}
    /\ Requires(/\ receipt[Chosen] # NoReceipt /\ at[Chosen] = "held"
                /\ Len(held[Chosen]) = Len(receipt[Chosen].final), "sized")

StartsWith(s, t) == Len(s) >= Len(t) /\ Prefix(s, Len(t)) = t
VerifyBaseline ==
    /\ validator = "sized"
    /\ Requires(StartsWith(held[Chosen], receipt[Chosen].base), "based")
VerifyDigest ==
    /\ validator = "based"
    /\ Requires(StartsWith(held[Chosen], receipt[Chosen].final), "digested")
VerifyEvents ==
    LET r == receipt[Chosen]
        appended == Behind(Prefix(held[Chosen], Len(r.final)), Len(r.base))
    IN  /\ validator = "digested" /\ UNCHANGED calm
        /\ IF /\ Len(held[Chosen]) >= Len(r.final) /\ ValidRegion(appended)
              /\ Messages(appended) = r.messages
           THEN validator' = "choosing" /\ left' = left \ {Chosen} /\ UNCHANGED <<seen, ran>>
           ELSE Rejects

\* No receipt and no transcript in the directory is unaccounted for.
ListReceipts ==
    /\ validator = "choosing" /\ left = {}
    /\ Requires({c \in Calls : receipt[c] # NoReceipt} = seen, "listed")
Present == {c \in Calls : at[c] # "nothing"}
ListTranscriptsMutant == validator = "listed" /\ Requires(seen \subseteq Present, "pass")
ListTranscripts == validator = "listed" /\ Requires(Present = seen, "pass")

ValidatorStep ==
    \/ ReadTrace \/ VerifySize \/ VerifyBaseline \/ VerifyDigest \/ VerifyEvents
    \/ ListReceipts \/ ListTranscripts

Next ==
    \/ ProcessStep /\ UNCHANGED <<session, validatorVars, writes>>
    \/ WriterStep /\ UNCHANGED <<callVars, receipt, validatorVars>>
    \/ ValidatorStep
       /\ UNCHANGED <<session, callVars, held, at, receipt, writes, faults>>

Spec == Init /\ [][Next]_vars

------------------------------------------------------------------------------
(* Properties *)

\* Every variable holds a value of its kind.
TypeOK ==
    /\ session \in Seq(Event) /\ {base, held, digest} \subseteq [Calls -> Seq(Event)]
    /\ stage \in [Calls -> Stages]
    /\ at \in [Calls -> {"nothing", "held", "other"}]
    /\ {size, messages} \subseteq [Calls -> Nat]
    /\ receipt \in [Calls -> Receipt]
    /\ trace \in [Calls -> SUBSET Lines] /\ traced \in BOOLEAN
    /\ validator \in {"idle", "choosing", "sized", "based", "digested", "listed", "pass", "fail"}
    /\ left \subseteq seen /\ seen \subseteq Calls /\ ran \subseteq Calls /\ calm \in BOOLEAN
    /\ writes \in Nat /\ faults \subseteq Faults

\* A receipt that proves what docs/recursion-runtime-contract.md:176-179 says.
Proves(r) == StartsWith(r.final, r.base) /\ ValidRegion(Behind(r.final, Len(r.base)))

\* As long as files only grow, a receipt describes bytes that were all read and
\* that stay: a writer between any two reads cannot make it vouch for less or
\* more than what was validated.
ReceiptProves ==
    "rewrite" \notin faults =>
      \A c \in Calls : receipt[c] # NoReceipt =>
        Proves(receipt[c]) /\ StartsWith(held[c], receipt[c].final)

\* If the validator passes a trace, every child that had been started when it
\* began has ended and was cleaned up, and has a receipt that proves it, whoever
\* wrote late, rewrote once or replaced: none was started by a process that was
\* killed, before or after its child had ended, whether or not the trace says
\* so, and no call that was refused or killed in its setup had left a session.
PassIsProof ==
    validator = "pass" => \A c \in ran : stage[c] = "over" /\ Proves(receipt[c])

\* And it passes a trace of which every call was refused in setup or ended with
\* a message of its child, as long as nothing failed, though the parent's
\* session has grown meanwhile.
NoFalseAlarm == calm /\ faults = {} => validator # "fail"
=============================================================================
