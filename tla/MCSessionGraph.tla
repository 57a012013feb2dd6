--------------------------- MODULE MCSessionGraph ---------------------------
(***************************************************************************)
(* Small instances of SessionGraph for TLC.                                *)
(***************************************************************************)
EXTENDS SessionGraph, TLC

CONSTANTS p1, p2

TwoObjects == {<<p1, p2>>}

\* A ProviderCall with one attempt, and one whose collector is empty.
MCAttempts == {<<[attempt_number |-> 1, started_at |-> 0]>>, <<>>}

MCClock == {[sec |-> 0, nanos |-> 0]}
=============================================================================
