----------------------------- MODULE DurableLog -----------------------------
(***************************************************************************)
(* What the journal of a lease promises to its owner and to recoveries: a  *)
(* log of records, each made from the one before it, of which an outage of *)
(* the machine may cost the end, but nothing that a writer was told is     *)
(* written.                                                                *)
(***************************************************************************)
EXTENDS Naturals, Sequences

VARIABLES
    log,     \* the committed records, what every reader sees
    acked,   \* how many of them a writer was told are written
    outages  \* how often the machine went down

Record == [revision : Nat, content : Nat, base : Nat]

Init == log = <<>> /\ acked = 0 /\ outages = 0

\* base is the content the writer of the record had read.
Follows(r) ==
    IF log = <<>> THEN r.revision = 0 /\ r.base = 0
    ELSE r.revision = Len(log) /\ r.base = log[Len(log)].content

Commit ==
    /\ log' \in Seq(Record) /\ Len(log') = Len(log) + 1
    /\ SubSeq(log', 1, Len(log)) = log
    /\ Follows(log'[Len(log')])
    /\ UNCHANGED <<acked, outages>>

Acknowledge == acked' \in acked .. Len(log) /\ UNCHANGED <<log, outages>>

Outage ==
    /\ outages' = outages + 1
    /\ \E n \in acked .. Len(log) : log' = SubSeq(log, 1, n)
    /\ UNCHANGED acked

Next == Commit \/ Acknowledge \/ Outage

Spec == Init /\ [][Next]_<<log, acked, outages>>
=============================================================================
