------------------------------ MODULE MCAiRuns ------------------------------
(* Instances of AiRuns for TLC: every frame has size 1, so that the count   *)
(* limits a journal.                                                        *)
EXTENDS AiRuns
CONSTANTS r1, o1, o2, c1, c2
UnitSize(event) == 1
=============================================================================
