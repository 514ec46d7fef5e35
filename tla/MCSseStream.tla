---------------------------- MODULE MCSseStream ----------------------------
(* The first event has two bytes, the second and a keep-alive one; with a    *)
(* limit of two bytes either event can be the one that does not fit.         *)
EXTENDS SseStream

MCSize(f) == IF f = 1 THEN 2 ELSE 1
=============================================================================
