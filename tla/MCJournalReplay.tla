-------------------------- MODULE MCJournalReplay --------------------------
(* Three events or four bytes: one "big" frame pushes out up to two small   *)
(* ones and a "huge" one also evicts itself, so both limits evict, singly   *)
(* and several at a time.  Readers do not interact: one stands for all.     *)
EXTENDS JournalReplay

CONSTANTS small, big, huge, r1

MCEvents == {small, big, huge}
MCReaders == {r1}
MCFrameSize(e) == CASE e = small -> 1 [] e = big -> 3 [] e = huge -> 5
=============================================================================
