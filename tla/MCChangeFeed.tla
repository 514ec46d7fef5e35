---------------------------- MODULE MCChangeFeed ----------------------------
(* One project with its row and head, and one more entity.  Clients do not    *)
(* interact, so one stands for all: it subscribes to the project.             *)
(* Look gives the visible state of each write.                                *)
EXTENDS ChangeFeed

CONSTANTS proj, cardRow, projRow, kProject, kCard, c1

MCRows == {cardRow, projRow}
MCProjects == {proj}
MCKeys == {kProject, kCard}
MCKeyOf == [x \in {cardRow, projRow, proj} |-> IF x = cardRow THEN kCard ELSE kProject]
MCProjectRow == [p \in {proj} |-> projRow]
MCProjectOf == [k \in MCKeys |-> proj]
MCClients == {c1}
FilterProject == [c \in MCClients |-> proj]

(* An SSE frame of a card is larger than one of a project or a resync mark.   *)
MCFrameSize(e) == IF e.key = kCard THEN 2 ELSE 1

(* The card is edited, then hard-deleted; the project edited; heads move on.  *)
Fresh(x, n) == IF x = cardRow /\ n = MaxStage THEN Absent ELSE n + 1

ASSUME FreshAssumption == NoStateReturns
=============================================================================
