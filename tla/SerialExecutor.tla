--------------------------- MODULE SerialExecutor ---------------------------
(***************************************************************************)
(* core/SerialExecutor: one worker thread, a bounded FIFO of tasks, one     *)
(* mutex and two condition variables.  The daemon runs all request-side Git  *)
(* operations through one instance and all local-model runtime calls through *)
(* another, both with 16 pending tasks.                                     *)
(*                                                                         *)
(* A critical section is one action; what happens between two critical      *)
(* sections of a thread (an unlock before a notify, the task itself) is a    *)
(* point where the other threads run.  A thread in a condition variable's    *)
(* wait set is "waiting"; a notification or a spurious wake-up makes it      *)
(* "woken", and it re-evaluates its predicate under the mutex.              *)
(***************************************************************************)
EXTENDS Naturals, Sequences

CONSTANTS Producers,    \* threads that call submit() and call()
          Stoppers,     \* threads that call stop(), the destructor included
          MaxPending,   \* max_pending_tasks_; 0 is unbounded
          PerProducer,  \* bound: tasks each producer hands over
          Calls         \* which of its tasks a producer hands over with call()

Tasks == Producers \X (1..PerProducer)

ASSUME ExecutorAssumption ==
  /\ MaxPending \in Nat /\ PerProducer \in Nat
  /\ Calls \subseteq Tasks
  /\ Producers \cap Stoppers = {}

VARIABLES tasks,      \* tasks_
          stop,       \* stop_requested_
          producer,   \* per producer: where it is, and the number of its task
          worker,     \* where the worker is
          current,    \* the task it has popped
          stopper,    \* per stopper: where it is
          accepted,   \* history: the tasks ever pushed, in order
          ran         \* history: the tasks run to the end, in order

vars == <<tasks, stop, producer, worker, current, stopper, accepted, ran>>

NoTask == <<>>
Task(p) == <<p, producer[p].n>>

Init ==
  /\ tasks = <<>> /\ stop = FALSE
  /\ producer = [p \in Producers |-> [pc |-> "ready", n |-> 1]]
  /\ worker = "loop" /\ current = NoTask
  /\ stopper = [s \in Stoppers |-> "ready"]
  /\ accepted = <<>> /\ ran = <<>>

(* The caller goes on to its next task, or to future.get() in call().        *)
Handed(p) ==
  IF Task(p) \in Calls THEN [producer[p] EXCEPT !.pc = "get"]
  ELSE [pc |-> "ready", n |-> producer[p].n + 1]

WakeProducers(prod) ==
  [p \in Producers |-> IF prod[p].pc = "waiting" THEN [prod[p] EXCEPT !.pc = "woken"]
                       ELSE prod[p]]
WakeWorker == IF worker = "waiting" THEN "woken" ELSE worker

Full == MaxPending > 0 /\ Len(tasks) >= MaxPending

-----------------------------------------------------------------------------
(* submit() and call() *)

AtSubmit(p) ==
  \/ producer[p].pc = "ready" /\ producer[p].n <= PerProducer
  \/ producer[p].pc = "woken"

(* The wait on space_cv_ while the queue is full.                            *)
SubmitWait(p) ==
  /\ AtSubmit(p) /\ Full /\ ~stop
  /\ producer' = [producer EXCEPT ![p].pc = "waiting"]
  /\ UNCHANGED <<tasks, stop, worker, current, stopper, accepted, ran>>

(* After stop() a submission is dropped without a word.                      *)
SubmitRejected(p) ==
  /\ AtSubmit(p) /\ stop
  /\ producer' = [producer EXCEPT ![p] = Handed(p)]
  /\ UNCHANGED <<tasks, stop, worker, current, stopper, accepted, ran>>

PushFront(p) ==
  /\ AtSubmit(p) /\ ~stop /\ ~Full
  /\ tasks' = <<Task(p)>> \o tasks
  /\ accepted' = Append(accepted, Task(p))
  /\ producer' = [producer EXCEPT ![p].pc = "notify"]
  /\ UNCHANGED <<stop, worker, current, stopper, ran>>

SubmitPush(p) ==
  /\ AtSubmit(p) /\ ~stop /\ ~Full
  /\ tasks' = Append(tasks, Task(p))
  /\ accepted' = Append(accepted, Task(p))
  /\ producer' = [producer EXCEPT ![p].pc = "notify"]
  /\ UNCHANGED <<stop, worker, current, stopper, ran>>

NotifyForgotten(p) ==
  /\ producer[p].pc = "notify"
  /\ producer' = [producer EXCEPT ![p] = Handed(p)]
  /\ UNCHANGED <<tasks, stop, worker, current, stopper, accepted, ran>>

(* cv_.notify_one() after the unlock: only the worker ever waits on cv_.      *)
SubmitNotify(p) ==
  /\ producer[p].pc = "notify"
  /\ worker' = WakeWorker
  /\ producer' = [producer EXCEPT ![p] = Handed(p)]
  /\ UNCHANGED <<tasks, stop, current, stopper, accepted, ran>>

Done(t) == \E i \in DOMAIN ran : ran[i] = t

(* future.get() returns once the packaged task has run.  call() itself keeps  *)
(* the packaged task alive, so a dropped submission never breaks the promise. *)
GetReturns(p) ==
  /\ producer[p].pc = "get" /\ Done(Task(p))
  /\ producer' = [producer EXCEPT ![p] = [pc |-> "ready", n |-> @.n + 1]]
  /\ UNCHANGED <<tasks, stop, worker, current, stopper, accepted, ran>>

-----------------------------------------------------------------------------
(* run() *)

AtLoop == worker \in {"loop", "woken"}

WorkerWait ==
  /\ AtLoop /\ ~stop /\ tasks = <<>>
  /\ worker' = "waiting"
  /\ UNCHANGED <<tasks, stop, producer, current, stopper, accepted, ran>>

ExitWithoutDraining ==
  /\ AtLoop /\ stop
  /\ worker' = "exited"
  /\ UNCHANGED <<tasks, stop, producer, current, stopper, accepted, ran>>

WorkerExit ==
  /\ AtLoop /\ stop /\ tasks = <<>>
  /\ worker' = "exited"
  /\ UNCHANGED <<tasks, stop, producer, current, stopper, accepted, ran>>

WorkerPop ==
  /\ AtLoop /\ tasks # <<>>
  /\ tasks' = Tail(tasks)
  /\ current' = Head(tasks)
  /\ worker' = "popped"
  /\ UNCHANGED <<stop, producer, stopper, accepted, ran>>

PopWithoutNotify ==
  /\ worker = "popped"
  /\ worker' = "running"
  /\ UNCHANGED <<tasks, stop, producer, current, stopper, accepted, ran>>

(* space_cv_.notify_all() after the unlock, before the task.                  *)
WorkerNotify ==
  /\ worker = "popped"
  /\ worker' = "running"
  /\ producer' = WakeProducers(producer)
  /\ UNCHANGED <<tasks, stop, current, stopper, accepted, ran>>

WorkerRun ==
  /\ worker = "running"
  /\ ran' = Append(ran, current)
  /\ current' = NoTask
  /\ worker' = "loop"
  /\ UNCHANGED <<tasks, stop, producer, stopper, accepted>>

-----------------------------------------------------------------------------
(* stop() *)

(* The flag is set under the mutex; a second caller returns at once.          *)
StopEnter(s) ==
  /\ stopper[s] = "ready"
  /\ stop' = TRUE
  /\ stopper' = [stopper EXCEPT ![s] = IF stop THEN "returned" ELSE "notifyWorker"]
  /\ UNCHANGED <<tasks, producer, worker, current, accepted, ran>>

StopNotifyWorker(s) ==
  /\ stopper[s] = "notifyWorker"
  /\ worker' = WakeWorker
  /\ stopper' = [stopper EXCEPT ![s] = "notifySpace"]
  /\ UNCHANGED <<tasks, stop, producer, current, accepted, ran>>

StopNotifySpace(s) ==
  /\ stopper[s] = "notifySpace"
  /\ producer' = WakeProducers(producer)
  /\ stopper' = [stopper EXCEPT ![s] = "join"]
  /\ UNCHANGED <<tasks, stop, worker, current, accepted, ran>>

StopDetaches(s) ==
  /\ stopper[s] = "join"
  /\ stopper' = [stopper EXCEPT ![s] = "returned"]
  /\ UNCHANGED <<tasks, stop, producer, worker, current, accepted, ran>>

StopJoin(s) ==
  /\ stopper[s] = "join" /\ worker = "exited"
  /\ stopper' = [stopper EXCEPT ![s] = "returned"]
  /\ UNCHANGED <<tasks, stop, producer, worker, current, accepted, ran>>

-----------------------------------------------------------------------------
(* A condition variable may wake a waiter for no reason.                      *)
SpuriousWake ==
  \/ /\ worker = "waiting" /\ worker' = "woken"
     /\ UNCHANGED <<tasks, stop, producer, current, stopper, accepted, ran>>
  \/ \E p \in Producers :
       /\ producer[p].pc = "waiting"
       /\ producer' = [producer EXCEPT ![p].pc = "woken"]
       /\ UNCHANGED <<tasks, stop, worker, current, stopper, accepted, ran>>

Producer(p) ==
  SubmitWait(p) \/ SubmitRejected(p) \/ SubmitPush(p) \/ SubmitNotify(p) \/ GetReturns(p)
Worker == WorkerWait \/ WorkerExit \/ WorkerPop \/ WorkerNotify \/ WorkerRun
Stopper(s) ==
  StopEnter(s) \/ StopNotifyWorker(s) \/ StopNotifySpace(s) \/ StopJoin(s)

Next ==
  \/ \E p \in Producers : Producer(p)
  \/ Worker
  \/ \E s \in Stoppers : Stopper(s)
  \/ SpuriousWake

Spec == Init /\ [][Next]_vars

(* Every thread that can take a step eventually takes one; nobody is obliged  *)
(* to call stop(), and no wake-up is ever spurious by obligation.             *)
Fairness ==
  /\ WF_vars(Worker)
  /\ \A p \in Producers : WF_vars(Producer(p))
  /\ \A s \in Stoppers :
       WF_vars(StopNotifyWorker(s) \/ StopNotifySpace(s) \/ StopJoin(s))

FairSpec == Spec /\ Fairness

-----------------------------------------------------------------------------
(* Properties *)

TypeOK ==
  /\ tasks \in Seq(Tasks) /\ accepted \in Seq(Tasks) /\ ran \in Seq(Tasks)
  /\ current \in Tasks \cup {NoTask}
  /\ stop \in BOOLEAN
  /\ producer \in [Producers -> [pc : {"ready", "waiting", "woken", "notify", "get"},
                                 n : Nat]]
  /\ worker \in {"loop", "waiting", "woken", "popped", "running", "exited"}
  /\ stopper \in [Stoppers -> {"ready", "notifyWorker", "notifySpace", "join", "returned"}]

(* The queue never exceeds its limit, although a woken submitter has given     *)
(* up the mutex and others may have taken the space it was woken for.          *)
Bounded == MaxPending > 0 => Len(tasks) <= MaxPending

(* Between a state change and its notification the mutex is free; still no      *)
(* thread sleeps on a condition that holds unless a thread that will wake it    *)
(* is on its way.                                                              *)
NoLostWakeup ==
  /\ worker = "waiting" /\ (stop \/ tasks # <<>>) =>
       \/ \E p \in Producers : producer[p].pc = "notify"
       \/ \E s \in Stoppers : stopper[s] = "notifyWorker"
  /\ (\E p \in Producers : producer[p].pc = "waiting") /\ (stop \/ ~Full) =>
       \/ worker = "popped"
       \/ \E s \in Stoppers : stopper[s] \in {"notifyWorker", "notifySpace"}

(* The worker leaves only with everything accepted done, and nothing is         *)
(* accepted after it has left: no task is stranded by stop().                  *)
DrainedAtExit == worker = "exited" => tasks = <<>> /\ ran = accepted

(* The first stop() returns only after the worker has ended.  (A concurrent     *)
(* second one returns at once: it must not be taken for "stopped".)            *)
FirstStopJoins ==
  (\E s \in Stoppers : stopper[s] = "returned")
    /\ (\A s \in Stoppers : stopper[s] \in {"ready", "returned"})
  => worker = "exited"

(* The executor is a serial executor: see ExecutorSpec.                        *)
Abstract == INSTANCE ExecutorSpec WITH open <- ~stop
RunsEachOnceInOrder == Abstract!Spec

(* A full queue delays submitters and a stopped one rejects them: nobody stays   *)
(* on the condition variable for ever.                                         *)
SubmitReturns ==
  \A p \in Producers : producer[p].pc \in {"waiting", "woken", "notify"}
                         ~> producer[p].pc \in {"ready", "get"}

(* Every stop() ends.                                                          *)
StopReturns ==
  \A s \in Stoppers : stopper[s] # "ready" ~> stopper[s] = "returned"

(* No thread that submits or stops is held for ever, however full the queue    *)
(* is and whoever else stops the executor meanwhile.                           *)
SubmittersAndStoppersReturn == SubmitReturns /\ StopReturns

(* stop() "wakes blocked submit and rejects new work"                           *)
(* (tests/SerialExecutor_test.cpp:59): a call() that is rejected comes back.    *)
CallReturns ==
  \A p \in Producers : producer[p].pc = "get" ~> producer[p].pc # "get"
=============================================================================
