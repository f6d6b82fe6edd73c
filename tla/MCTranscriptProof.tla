-------------------------- MODULE MCTranscriptProof --------------------------
(***************************************************************************)
(* Instances of TranscriptProof for TLC: a fork and a call with a session  *)
(* of its own.                                                             *)
(***************************************************************************)
EXTENDS TranscriptProof, TLC

CONSTANTS fork, plain

Pair == {fork, plain}
Forked == {fork}
=============================================================================
