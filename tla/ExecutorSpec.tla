---------------------------- MODULE ExecutorSpec ----------------------------
(* What a serial executor promises: tasks are accepted while it is open, and    *)
(* every accepted task runs exactly once, one at a time, in the order of        *)
(* acceptance, also after it has been closed.                                   *)
EXTENDS Naturals, Sequences

CONSTANT Tasks

VARIABLES accepted,   \* the tasks accepted so far, in order
          ran,        \* the tasks that have run, in order
          open

abstract == <<accepted, ran, open>>

Init == accepted = <<>> /\ ran = <<>> /\ open = TRUE

Accept(t) ==
  /\ open
  /\ \A i \in DOMAIN accepted : accepted[i] # t
  /\ accepted' = Append(accepted, t)
  /\ UNCHANGED <<ran, open>>

Run ==
  /\ Len(ran) < Len(accepted)
  /\ ran' = Append(ran, accepted[Len(ran) + 1])
  /\ UNCHANGED <<accepted, open>>

Close ==
  /\ open
  /\ open' = FALSE
  /\ UNCHANGED <<accepted, ran>>

Next == (\E t \in Tasks : Accept(t)) \/ Run \/ Close

Safety == Init /\ [][Next]_abstract
Spec == Safety /\ WF_abstract(Run)
=============================================================================
