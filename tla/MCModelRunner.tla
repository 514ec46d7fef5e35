---------------------------- MODULE MCModelRunner ----------------------------
(* Instances of ModelRunner for TLC.                                       *)
EXTENDS ModelRunner, TLC
CONSTANTS w1, w2, m1, m2, s1
=============================================================================
