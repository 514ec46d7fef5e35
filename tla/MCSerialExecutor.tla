-------------------------- MODULE MCSerialExecutor --------------------------
(* Three submitters, two of them calling submit() and one call(), against a     *)
(* short queue: it is full, empty and contended.                                *)
EXTENDS SerialExecutor, TLC

CONSTANTS p1, p2, p3, s1, s2

MCProducers == {p1, p2, p3}
OneStopper == {s1}
TwoStoppers == {s1, s2}
SomeCalls == {p1} \X (1..PerProducer)
=============================================================================
