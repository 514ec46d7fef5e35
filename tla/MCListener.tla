----------------------------- MODULE MCListener -----------------------------
(* One worker of each kind, or two writers, of which a client that does not read *)
(* holds one.  With two connections and queues of one place, the second finds   *)
(* the first in its way.                                                       *)
EXTENDS Listener

CONSTANTS c1, c2, in1, save1, gen1, out1, out2

TwoConns == {c1, c2}
OneConn == {c1}
OtherConn == {c2}
MCIngress == {in1}
MCSavers == {save1}
MCGenerals == {gen1}
MCWriters == {out1}
TwoWriters == {out1, out2}
OneSlow == {[c \in OneConn |-> "background"]}
SaveMeetsOther == {[c \in TwoConns |-> IF c = c1 THEN "save" ELSE "background"]}
None == {}
OnlyMain == {"main"}
MainAndMonitor == {"main", "monitor"}
=============================================================================
