------------------------------ MODULE GitProofs ------------------------------
(* The Git executor and the requests that wait for it.  SerialExecutor is a       *)
(* bounded serial executor for every number of threads, every limit and every    *)
(* number of tasks; what was removed of the projects stays removed, and what     *)
(* was kept can be found, for every number of projects, roots and workers, and   *)
(* of requests, failed calls and crashes.                                        *)
EXTENDS SerialExecutor, Projects, TLAPS

(*****************************************************************************)
(* The executor                                                              *)
(*****************************************************************************)

Working == worker \in {"popped", "running"}
InHand == IF Working THEN 1 ELSE 0

(* Accepted tasks are, in order, those run, the one in hand, those queued.       *)
Fifo ==
  /\ Len(accepted) = Len(ran) + InHand + Len(tasks)
  /\ \A i \in 1..Len(ran) : accepted[i] = ran[i]
  /\ Working => accepted[Len(ran) + 1] = current
  /\ \A i \in 1..Len(tasks) : accepted[Len(ran) + InHand + i] = tasks[i]

(* A producer's task is accepted once: only its earlier tasks, and its           *)
(* present one after the push, are in the history.                              *)
Fresh ==
  \A i \in 1..Len(accepted) :
    LET p == accepted[i][1]
        n == accepted[i][2]
    IN  n < producer[p].n \/ (n = producer[p].n /\ producer[p].pc \in {"notify", "get"})

(* A producer inside submit() or call() has a task to hand over.                 *)
HasTask ==
  \A p \in Producers :
    /\ producer[p].n \in Nat \ {0}
    /\ producer[p].pc \in {"waiting", "woken", "notify", "get"} => producer[p].n <= PerProducer

IInv ==
  /\ TypeOK
  /\ Bounded
  /\ NoLostWakeup
  /\ Fifo
  /\ Fresh
  /\ HasTask
  /\ Working => current \in Tasks
  /\ worker = "exited" => stop /\ tasks = <<>>

LEMMA InitInv == Init => IInv
<1> SUFFICES ASSUME Init PROVE IInv
  OBVIOUS
<1>1. TypeOK
  <2>1. tasks \in Seq(Tasks) /\ accepted \in Seq(Tasks) /\ ran \in Seq(Tasks)
    BY DEF Init
  <2>4. current \in Tasks \cup {NoTask}
    BY DEF Init
  <2>5. stop \in BOOLEAN
    BY DEF Init
  <2>2. producer \in [Producers -> [pc : {"ready", "waiting", "woken", "notify", "get"},
                                    n : Nat]]
    BY DEF Init
  <2>3. stopper \in [Stoppers -> {"ready", "notifyWorker", "notifySpace", "join", "returned"}]
    BY DEF Init
  <2> QED
    BY <2>1, <2>2, <2>3, <2>4, <2>5 DEF Init, TypeOK
<1>2. Bounded /\ NoLostWakeup
  BY ExecutorAssumption DEF Init, Bounded, NoLostWakeup
<1>3. Fifo /\ Fresh
  BY DEF Init, Fifo, Fresh, Working, InHand
<1>4. HasTask
  <2>1. \A p \in Producers : producer[p].pc = "ready" /\ producer[p].n = 1
    BY DEF Init
  <2>2. ASSUME NEW p \in Producers PROVE producer[p].n \in Nat \ {0}
    <3>1. producer[p].n = 1
      BY <2>1
    <3> QED
      BY <3>1, SMT
  <2>3. \A p \in Producers : producer[p].pc \notin {"waiting", "woken", "notify", "get"}
    BY <2>1
  <2> QED
    BY <2>2, <2>3 DEF HasTask
<1> QED
  BY <1>1, <1>2, <1>3, <1>4 DEF Init, IInv, Working

(* What most steps leave alone.                                                *)
LEMMA FifoKept ==
  ASSUME Fifo, UNCHANGED <<accepted, ran, tasks>>, Working' = Working, Working => current' = current
  PROVE  Fifo'
BY DEF Fifo, InHand

LEMMA FreshKept ==
  ASSUME TypeOK, Fresh, TypeOK', UNCHANGED accepted,
         \A q \in Producers :
           \/ producer'[q].n > producer[q].n
           \/ /\ producer'[q].n = producer[q].n
              /\ producer[q].pc \in {"notify", "get"} => producer'[q].pc \in {"notify", "get"}
  PROVE  Fresh'
<1> SUFFICES ASSUME NEW i \in 1..Len(accepted)
             PROVE  LET q == accepted[i][1]
                        n == accepted[i][2]
                    IN  \/ n < producer'[q].n
                        \/ n = producer'[q].n /\ producer'[q].pc \in {"notify", "get"}
  BY DEF Fresh
<1> DEFINE q == accepted[i][1]
           n == accepted[i][2]
<1>1. q \in Producers /\ n \in Nat
  <2>1. accepted[i] \in Tasks
    BY DEF TypeOK
  <2> QED
    BY <2>1, ExecutorAssumption DEF Tasks
<1>2. producer[q].n \in Nat /\ producer'[q].n \in Nat
  BY <1>1 DEF TypeOK
<1>3. n < producer[q].n \/ (n = producer[q].n /\ producer[q].pc \in {"notify", "get"})
  BY DEF Fresh
<1> HIDE DEF q, n
<1>4. n < producer'[q].n \/ (n = producer'[q].n /\ producer'[q].pc \in {"notify", "get"})
  BY <1>1, <1>2, <1>3
<1> QED
  BY <1>4 DEF q, n

(* Waking the submitters changes nobody's task.                                  *)
LEMMA WakeFacts ==
  ASSUME TypeOK, producer' = WakeProducers(producer)
  PROVE  /\ producer' \in [Producers -> [pc : {"ready", "woken", "notify", "get"}, n : Nat]]
         /\ \A q \in Producers :
              /\ producer'[q].n = producer[q].n
              /\ producer'[q].pc = IF producer[q].pc = "waiting" THEN "woken" ELSE producer[q].pc
<1>1. ASSUME NEW q \in Producers
      PROVE  /\ producer'[q] \in [pc : {"ready", "woken", "notify", "get"}, n : Nat]
             /\ producer'[q].n = producer[q].n
             /\ producer'[q].pc = IF producer[q].pc = "waiting" THEN "woken" ELSE producer[q].pc
  <2>1. producer[q] \in [pc : {"ready", "waiting", "woken", "notify", "get"}, n : Nat]
    BY DEF TypeOK
  <2>2. producer'[q] = IF producer[q].pc = "waiting" THEN [producer[q] EXCEPT !.pc = "woken"]
                       ELSE producer[q]
    BY DEF WakeProducers
  <2> QED
    BY <2>1, <2>2
<1>2. producer' = [q \in Producers |-> producer'[q]]
  BY DEF WakeProducers
<1> QED
  BY <1>1, <1>2

(* What a submitter at the head of submit() is about to hand over.                *)
LEMMA SubmitFacts ==
  ASSUME IInv, NEW p \in Producers, AtSubmit(p)
  PROVE  /\ producer[p].pc \in {"ready", "woken"}
         /\ Task(p) \in Tasks
         /\ \A i \in 1..Len(accepted) : accepted[i] # Task(p)
<1>1. producer[p].pc \in {"ready", "woken"}
  BY DEF AtSubmit
<1>2. Task(p) \in Tasks
  <2>1. producer[p].n \in Nat \ {0} /\ producer[p].n <= PerProducer
    BY DEF IInv, HasTask, AtSubmit
  <2>2. producer[p].n \in 1..PerProducer
    BY <2>1, ExecutorAssumption
  <2> QED
    BY <2>2 DEF Task, Tasks
<1>3. ASSUME NEW i \in 1..Len(accepted), accepted[i] = Task(p) PROVE FALSE
  <2>1. accepted[i][1] = p /\ accepted[i][2] = producer[p].n
    BY <1>3 DEF Task
  <2>2. producer[p].n < producer[p].n \/ producer[p].pc \in {"notify", "get"}
    BY <2>1 DEF IInv, Fresh
  <2>3. producer[p].n \in Nat
    BY DEF IInv, TypeOK
  <2> QED
    BY <1>1, <2>2, <2>3
<1> QED
  BY <1>1, <1>2, <1>3

(* The steps of submit() and call() that leave the queue alone.                  *)
LEMMA WaitInv == ASSUME IInv, NEW p \in Producers, SubmitWait(p) PROVE IInv'
<1> USE ExecutorAssumption
<1>1. /\ producer' = [producer EXCEPT ![p].pc = "waiting"] /\ Full /\ ~stop /\ AtSubmit(p)
      /\ UNCHANGED <<tasks, stop, worker, current, stopper, accepted, ran>>
  BY DEF SubmitWait
<1>2. TypeOK'
  BY <1>1 DEF IInv, TypeOK
<1>3. Bounded' /\ Fifo'
  BY <1>1 DEF IInv, Bounded, Fifo, Working, InHand
<1>4. NoLostWakeup'
  <2>1. \A q \in Producers : producer[q].pc = "notify" => producer'[q].pc = "notify"
    BY <1>1 DEF IInv, TypeOK, AtSubmit
  <2>2. Full' /\ ~stop'
    BY <1>1 DEF Full
  <2> QED
    BY <1>1, <2>1, <2>2 DEF IInv, NoLostWakeup
<1>5. Fresh'
  <2>1. \A q \in Producers : /\ producer'[q].n = producer[q].n
                             /\ producer[q].pc \in {"notify", "get"} => producer'[q].pc = producer[q].pc
    BY <1>1 DEF IInv, TypeOK, AtSubmit
  <2>2. \A i \in 1..Len(accepted) : accepted[i][1] \in Producers
    BY SMTT(30) DEF IInv, TypeOK, Tasks
  <2> QED
    BY <1>1, <2>1, <2>2 DEF IInv, Fresh
<1>6. HasTask'
  BY <1>1 DEF IInv, TypeOK, HasTask, AtSubmit
<1> QED
  BY <1>1, <1>2, <1>3, <1>4, <1>5, <1>6 DEF IInv, Working

(* Handing over, and coming back from future.get().                              *)
LEMMA HandedFacts ==
  ASSUME IInv, NEW p \in Producers, producer[p].n <= PerProducer,
         producer' = [producer EXCEPT ![p] = Handed(p)]
  PROVE  /\ producer' \in [Producers -> [pc : {"ready", "waiting", "woken", "notify", "get"},
                                         n : Nat]]
         /\ producer'[p].pc \in {"ready", "get"}
         /\ \A q \in Producers : q # p => producer'[q] = producer[q]
         /\ \/ producer'[p].n > producer[p].n
            \/ producer'[p].n = producer[p].n /\ producer'[p].pc = "get"
         /\ HasTask'
<1> DEFINE pr == producer[p]
<1>1. pr \in [pc : {"ready", "waiting", "woken", "notify", "get"}, n : Nat]
  BY DEF IInv, TypeOK
<1>2. producer'[p] = Handed(p) /\ \A q \in Producers : q # p => producer'[q] = producer[q]
  BY DEF IInv, TypeOK
<1>3. \/ Handed(p) = [pr EXCEPT !.pc = "get"]
      \/ Handed(p) = [pc |-> "ready", n |-> pr.n + 1]
  BY DEF Handed
<1> HIDE DEF pr
<1>4. Handed(p) \in [pc : {"ready", "get"}, n : Nat]
  BY <1>1, <1>3
<1>5. \/ Handed(p).n = pr.n + 1 /\ Handed(p).pc = "ready"
      \/ Handed(p).n = pr.n /\ Handed(p).pc = "get"
  BY <1>1, <1>3
<1>6. Handed(p).n > pr.n \/ (Handed(p).n = pr.n /\ Handed(p).pc = "get")
  BY <1>1, <1>5
<1>7. producer' \in [Producers -> [pc : {"ready", "waiting", "woken", "notify", "get"}, n : Nat]]
  BY <1>4 DEF IInv, TypeOK
<1>8. HasTask'
  <2> SUFFICES ASSUME NEW q \in Producers
               PROVE  /\ producer'[q].n \in Nat \ {0}
                      /\ producer'[q].pc \in {"waiting", "woken", "notify", "get"}
                           => producer'[q].n <= PerProducer
    BY DEF HasTask
  <2>1. CASE q # p
    BY <2>1, <1>2 DEF IInv, HasTask
  <2>2. CASE q = p
    <3>1. pr.n \in Nat \ {0} /\ pr.n <= PerProducer
      BY DEF IInv, HasTask, pr
    <3>2. Handed(p).n \in Nat \ {0}
      BY <1>5, <3>1
    <3>3. Handed(p).pc = "get" => Handed(p).n = pr.n
      BY <1>5
    <3>4. producer'[q] = Handed(p)
      BY <2>2, <1>2
    <3>5. Handed(p).pc \in {"ready", "get"}
      BY <1>5
    <3> QED
      BY <3>1, <3>2, <3>3, <3>4, <3>5
  <2> QED
    BY <2>1, <2>2
<1> QED
  BY <1>2, <1>4, <1>6, <1>7, <1>8 DEF pr

LEMMA RejectedInv == ASSUME IInv, NEW p \in Producers, SubmitRejected(p) PROVE IInv'
<1> USE ExecutorAssumption
<1>1. /\ producer' = [producer EXCEPT ![p] = Handed(p)] /\ stop /\ AtSubmit(p)
      /\ UNCHANGED <<tasks, stop, worker, current, stopper, accepted, ran>>
  BY DEF SubmitRejected
<1>2. producer[p].pc \in {"ready", "woken"} /\ producer[p].n <= PerProducer
  BY <1>1 DEF IInv, HasTask, AtSubmit
<1>3. /\ producer' \in [Producers -> [pc : {"ready", "waiting", "woken", "notify", "get"}, n : Nat]]
      /\ producer'[p].pc \in {"ready", "get"}
      /\ \A q \in Producers : q # p => producer'[q] = producer[q]
      /\ \/ producer'[p].n > producer[p].n
         \/ producer'[p].n = producer[p].n /\ producer'[p].pc = "get"
      /\ HasTask'
  BY <1>1, <1>2, HandedFacts
<1>4. TypeOK'
  BY <1>1, <1>3 DEF IInv, TypeOK
<1>5. Bounded' /\ Fifo'
  BY <1>1, FifoKept DEF IInv, Bounded, Working
<1>6. NoLostWakeup'
  <2>1. \A q \in Producers : producer[q].pc = "notify" <=> producer'[q].pc = "notify"
    BY <1>2, <1>3
  <2>2. \A q \in Producers : producer'[q].pc = "waiting" => producer[q].pc = "waiting"
    BY <1>2, <1>3
  <2> QED
    BY <1>1, <2>1, <2>2 DEF IInv, NoLostWakeup, Full
<1>7. Fresh'
  BY <1>1, <1>2, <1>3, <1>4, FreshKept DEF IInv
<1> QED
  BY <1>1, <1>3, <1>4, <1>5, <1>6, <1>7 DEF IInv, Working

LEMMA NotifyInv == ASSUME IInv, NEW p \in Producers, SubmitNotify(p) PROVE IInv'
<1> USE ExecutorAssumption
<1>1. /\ producer' = [producer EXCEPT ![p] = Handed(p)] /\ producer[p].pc = "notify"
      /\ worker' = WakeWorker
      /\ UNCHANGED <<tasks, stop, current, stopper, accepted, ran>>
  BY DEF SubmitNotify
<1>2. producer[p].n <= PerProducer
  BY <1>1 DEF IInv, HasTask
<1>3. /\ producer' \in [Producers -> [pc : {"ready", "waiting", "woken", "notify", "get"}, n : Nat]]
      /\ producer'[p].pc \in {"ready", "get"}
      /\ \A q \in Producers : q # p => producer'[q] = producer[q]
      /\ \/ producer'[p].n > producer[p].n
         \/ producer'[p].n = producer[p].n /\ producer'[p].pc = "get"
      /\ HasTask'
  BY <1>1, <1>2, HandedFacts
<1>4. /\ worker' \in {"loop", "woken", "popped", "running", "exited"}
      /\ worker' \in {"popped", "running", "exited"} => worker' = worker
      /\ worker \in {"popped", "running", "exited"} => worker' = worker
  BY <1>1 DEF WakeWorker, IInv, TypeOK
<1>5. TypeOK'
  BY <1>1, <1>3, <1>4 DEF IInv, TypeOK
<1>6. Bounded' /\ Fifo'
  <2>1. Working' = Working
    BY <1>4 DEF Working
  <2> QED
    BY <1>1, <2>1, FifoKept DEF IInv, Bounded
<1>7. NoLostWakeup'
  <2>1. \A q \in Producers : producer'[q].pc = "waiting" => producer[q].pc = "waiting"
    BY <1>1, <1>3
  <2>2. worker' # "waiting" /\ (worker = "popped" => worker' = "popped")
    BY <1>4
  <2> QED
    BY <1>1, <2>1, <2>2 DEF IInv, NoLostWakeup, Full
<1>8. Fresh'
  BY <1>1, <1>2, <1>3, <1>5, FreshKept DEF IInv
<1> QED
  BY <1>1, <1>3, <1>4, <1>5, <1>6, <1>7, <1>8 DEF IInv, Working

LEMMA GetInv == ASSUME IInv, NEW p \in Producers, GetReturns(p) PROVE IInv'
<1> USE ExecutorAssumption
<1> DEFINE pr == producer[p]
<1>1. /\ producer' = [producer EXCEPT ![p] = [pc |-> "ready", n |-> pr.n + 1]]
      /\ pr.pc = "get"
      /\ UNCHANGED <<tasks, stop, worker, current, stopper, accepted, ran>>
  BY DEF GetReturns
<1>2. /\ producer'[p] = [pc |-> "ready", n |-> pr.n + 1]
      /\ \A q \in Producers : q # p => producer'[q] = producer[q]
  BY <1>1 DEF IInv, TypeOK
<1>3. pr.n \in Nat
  BY DEF IInv, TypeOK
<1>4. producer'[p].pc = "ready" /\ producer'[p].n = pr.n + 1 /\ producer'[p].n > pr.n
  BY <1>2, <1>3
<1>5. producer' \in [Producers -> [pc : {"ready", "waiting", "woken", "notify", "get"}, n : Nat]]
  BY <1>1, <1>3 DEF IInv, TypeOK
<1>6. TypeOK'
  BY <1>1, <1>5 DEF IInv, TypeOK
<1>7. Bounded' /\ Fifo'
  BY <1>1, FifoKept DEF IInv, Bounded, Working
<1>8. NoLostWakeup'
  <2>1. \A q \in Producers : producer[q].pc = "notify" <=> producer'[q].pc = "notify"
    BY <1>1, <1>2, <1>4
  <2>2. \A q \in Producers : producer'[q].pc = "waiting" => producer[q].pc = "waiting"
    BY <1>2, <1>4
  <2> QED
    BY <1>1, <2>1, <2>2 DEF IInv, NoLostWakeup, Full
<1>9. Fresh'
  <2>1. \A q \in Producers :
          \/ producer'[q].n > producer[q].n
          \/ /\ producer'[q].n = producer[q].n
             /\ producer[q].pc \in {"notify", "get"} => producer'[q].pc \in {"notify", "get"}
    BY <1>2, <1>4
  <2> QED
    BY <1>1, <1>6, <2>1, FreshKept DEF IInv
<1>10. HasTask'
  <2> SUFFICES ASSUME NEW q \in Producers
               PROVE  /\ producer'[q].n \in Nat \ {0}
                      /\ producer'[q].pc \in {"waiting", "woken", "notify", "get"}
                           => producer'[q].n <= PerProducer
    BY DEF HasTask
  <2>1. CASE q # p
    BY <2>1, <1>2 DEF IInv, HasTask
  <2>2. CASE q = p
    <3> HIDE DEF pr
    <3>1. producer'[q].n = pr.n + 1 /\ producer'[q].pc = "ready"
      BY <2>2, <1>4
    <3> QED
      BY <3>1, <1>3
  <2> QED
    BY <2>1, <2>2
<1> QED
  BY <1>1, <1>6, <1>7, <1>8, <1>9, <1>10 DEF IInv, Working

LEMMA PushInv == ASSUME IInv, NEW p \in Producers, SubmitPush(p) PROVE IInv'
<1> USE ExecutorAssumption
<1> DEFINE t == Task(p)
<1>1. /\ producer' = [producer EXCEPT ![p].pc = "notify"] /\ ~Full /\ ~stop /\ AtSubmit(p)
      /\ tasks' = Append(tasks, t) /\ accepted' = Append(accepted, t)
      /\ UNCHANGED <<stop, worker, current, stopper, ran>>
  BY DEF SubmitPush
<1>2. t \in Tasks /\ producer[p].pc \in {"ready", "woken"}
  BY <1>1, SubmitFacts
<1>3. /\ tasks \in Seq(Tasks) /\ accepted \in Seq(Tasks) /\ ran \in Seq(Tasks)
      /\ producer \in [Producers -> [pc : {"ready", "waiting", "woken", "notify", "get"}, n : Nat]]
  BY DEF IInv, TypeOK
<1>4. /\ producer' \in [Producers -> [pc : {"ready", "waiting", "woken", "notify", "get"}, n : Nat]]
      /\ \A q \in Producers : producer'[q].n = producer[q].n
      /\ producer'[p].pc = "notify"
      /\ \A q \in Producers : q # p => producer'[q] = producer[q]
  BY <1>1, <1>3
<1>5. t[1] = p /\ t[2] = producer[p].n
  BY DEF Task
<1> HIDE DEF t
<1>6. /\ tasks' \in Seq(Tasks) /\ Len(tasks') = Len(tasks) + 1
      /\ accepted' \in Seq(Tasks) /\ Len(accepted') = Len(accepted) + 1
      /\ tasks'[Len(tasks) + 1] = t /\ accepted'[Len(accepted) + 1] = t
      /\ \A i \in 1..Len(tasks) : tasks'[i] = tasks[i]
      /\ \A i \in 1..Len(accepted) : accepted'[i] = accepted[i]
      /\ Len(tasks) \in Nat /\ Len(accepted) \in Nat /\ Len(ran) \in Nat
  BY <1>1, <1>2, <1>3
<1>7. TypeOK'
  BY <1>1, <1>4, <1>6 DEF IInv, TypeOK
<1>8. Bounded'
  BY <1>1, <1>6 DEF Bounded, Full
<1>9. NoLostWakeup'
  <2>1. \A q \in Producers : producer'[q].pc = "waiting" => producer[q].pc = "waiting"
    BY <1>4
  <2>2. \E q \in Producers : producer'[q].pc = "notify"
    BY <1>4
  <2> QED
    BY <1>1, <2>1, <2>2 DEF IInv, NoLostWakeup
<1>10. Fifo'
  <2> DEFINE h == InHand
  <2>1. h \in 0..1 /\ InHand' = h /\ Working' = Working
    BY <1>1 DEF InHand, Working
  <2>2. /\ Len(accepted) = Len(ran) + h + Len(tasks)
        /\ \A i \in 1..Len(ran) : accepted[i] = ran[i]
        /\ Working => accepted[Len(ran) + 1] = current
        /\ \A i \in 1..Len(tasks) : accepted[Len(ran) + h + i] = tasks[i]
        /\ Working => h = 1
    BY DEF IInv, Fifo, InHand
  <2> HIDE DEF h
  <2>3. Len(accepted') = Len(ran) + h + Len(tasks')
    BY <1>6, <2>1, <2>2
  <2>4. \A i \in 1..Len(ran) : accepted'[i] = ran[i]
    BY <1>6, <2>1, <2>2
  <2>5. Working => accepted'[Len(ran) + 1] = current
    BY <1>6, <2>1, <2>2
  <2>6. ASSUME NEW i \in 1..Len(tasks') PROVE accepted'[Len(ran) + h + i] = tasks'[i]
    <3>1. CASE i \in 1..Len(tasks)
      BY <3>1, <1>6, <2>1, <2>2
    <3>2. CASE i = Len(tasks) + 1
      BY <3>2, <1>6, <2>1, <2>2
    <3> QED
      BY <3>1, <3>2, <1>6
  <2> QED
    BY <1>1, <2>1, <2>3, <2>4, <2>5, <2>6 DEF Fifo
<1>11. Fresh'
  <2> SUFFICES ASSUME NEW i \in 1..Len(accepted')
               PROVE  LET q == accepted'[i][1]
                          n == accepted'[i][2]
                      IN  \/ n < producer'[q].n
                          \/ n = producer'[q].n /\ producer'[q].pc \in {"notify", "get"}
    BY DEF Fresh
  <2>1. CASE i = Len(accepted) + 1
    BY <2>1, <1>4, <1>5, <1>6
  <2>2. CASE i \in 1..Len(accepted)
    <3>0. accepted'[i] = accepted[i] /\ accepted[i] \in Tasks
      BY <2>2, <1>3, <1>6
    <3>1. accepted'[i] = accepted[i] /\ accepted[i][1] \in Producers
      BY <3>0 DEF Tasks
    <3> QED
      BY SMTT(30), <2>2, <3>1, <1>4 DEF IInv, Fresh
  <2> QED
    BY <2>1, <2>2, <1>6
<1>12. HasTask'
  <2>1. producer[p].n <= PerProducer
    BY <1>1 DEF IInv, HasTask, AtSubmit
  <2> QED
    BY <1>4, <2>1 DEF IInv, HasTask
<1> QED
  BY <1>1, <1>7, <1>8, <1>9, <1>10, <1>11, <1>12 DEF IInv, Working

(* The steps of the worker.                                                     *)
LEMMA SleepInv == ASSUME IInv, WorkerWait \/ WorkerExit PROVE IInv'
<1> USE ExecutorAssumption
<1>1. /\ worker \in {"loop", "woken"} /\ tasks = <<>>
      /\ (worker' = "waiting" /\ ~stop) \/ (worker' = "exited" /\ stop)
      /\ UNCHANGED <<tasks, stop, producer, current, stopper, accepted, ran>>
  BY DEF WorkerWait, WorkerExit, AtLoop
<1>2. TypeOK'
  BY <1>1 DEF IInv, TypeOK
<1>3. ~Working /\ ~Working'
  BY <1>1 DEF Working
<1>4. Fifo'
  BY <1>1, <1>3 DEF IInv, Fifo, InHand
<1>5. NoLostWakeup'
  BY <1>1 DEF IInv, NoLostWakeup, Full
<1>6. Fresh' /\ HasTask' /\ Bounded'
  BY <1>1 DEF IInv, Fresh, HasTask, Bounded
<1> QED
  BY <1>1, <1>2, <1>3, <1>4, <1>5, <1>6 DEF IInv

LEMMA PopInv == ASSUME IInv, WorkerPop PROVE IInv'
<1> USE ExecutorAssumption
<1>1. /\ worker \in {"loop", "woken"} /\ tasks # <<>>
      /\ tasks' = Tail(tasks) /\ current' = Head(tasks) /\ worker' = "popped"
      /\ UNCHANGED <<stop, producer, stopper, accepted, ran>>
  BY DEF WorkerPop, AtLoop
<1>2. tasks \in Seq(Tasks) /\ accepted \in Seq(Tasks) /\ ran \in Seq(Tasks)
  BY DEF IInv, TypeOK
<1>3. /\ tasks' \in Seq(Tasks) /\ Len(tasks') = Len(tasks) - 1
      /\ \A i \in 1..Len(tasks') : tasks'[i] = tasks[i + 1]
      /\ current' = tasks[1] /\ current' \in Tasks
      /\ Len(tasks) \in Nat \ {0} /\ Len(accepted) \in Nat /\ Len(ran) \in Nat
  BY <1>1, <1>2
<1>4. TypeOK'
  BY <1>1, <1>3 DEF IInv, TypeOK
<1>5. Bounded'
  BY <1>3 DEF IInv, Bounded
<1>6. NoLostWakeup'
  BY <1>1 DEF IInv, NoLostWakeup
<1>7. ~Working /\ Working' /\ InHand = 0 /\ InHand' = 1
  BY <1>1 DEF Working, InHand
<1>8. Fifo'
  <2>1. /\ Len(accepted) = Len(ran) + Len(tasks)
        /\ \A i \in 1..Len(ran) : accepted[i] = ran[i]
        /\ \A i \in 1..Len(tasks) : accepted[Len(ran) + 0 + i] = tasks[i]
    BY <1>7, <1>3 DEF IInv, Fifo
  <2>2. \A i \in 1..Len(tasks) : accepted[Len(ran) + i] = tasks[i]
    BY <2>1, <1>3
  <2>3. Len(accepted) = Len(ran) + 1 + Len(tasks')
    BY <1>3, <2>1
  <2>4. accepted[Len(ran) + 1] = current'
    BY <1>3, <2>2
  <2>5. ASSUME NEW i \in 1..Len(tasks') PROVE accepted[Len(ran) + 1 + i] = tasks'[i]
    <3>1. i + 1 \in 1..Len(tasks) /\ Len(ran) + 1 + i = Len(ran) + (i + 1)
      BY <1>3
    <3> QED
      BY <3>1, <2>2, <1>3
  <2> QED
    BY <1>1, <1>7, <2>1, <2>3, <2>4, <2>5 DEF Fifo
<1>9. Fresh' /\ HasTask'
  BY <1>1 DEF IInv, Fresh, HasTask
<1> QED
  BY <1>1, <1>3, <1>4, <1>5, <1>6, <1>8, <1>9 DEF IInv

LEMMA WorkerNotifyInv == ASSUME IInv, WorkerNotify PROVE IInv'
<1> USE ExecutorAssumption
<1>1. /\ worker = "popped" /\ worker' = "running" /\ producer' = WakeProducers(producer)
      /\ UNCHANGED <<tasks, stop, current, stopper, accepted, ran>>
  BY DEF WorkerNotify
<1>2. /\ producer' \in [Producers -> [pc : {"ready", "woken", "notify", "get"}, n : Nat]]
      /\ \A q \in Producers :
           /\ producer'[q].n = producer[q].n
           /\ producer'[q].pc = IF producer[q].pc = "waiting" THEN "woken" ELSE producer[q].pc
  BY <1>1, WakeFacts DEF IInv
<1>3. TypeOK'
  BY <1>1, <1>2 DEF IInv, TypeOK
<1>4. Working /\ Working'
  BY <1>1 DEF Working
<1>5. Bounded' /\ Fifo'
  BY <1>1, <1>4, FifoKept DEF IInv, Bounded
<1>6. NoLostWakeup'
  <2>1. \A q \in Producers : producer'[q].pc # "waiting"
    BY <1>2
  <2> QED
    BY <1>1, <2>1 DEF NoLostWakeup
<1>7. Fresh'
  BY <1>1, <1>2, <1>3, FreshKept DEF IInv
<1>8. HasTask'
  BY <1>2 DEF IInv, HasTask
<1> QED
  BY <1>1, <1>3, <1>4, <1>5, <1>6, <1>7, <1>8 DEF IInv

LEMMA RunInv == ASSUME IInv, WorkerRun PROVE IInv'
<1> USE ExecutorAssumption
<1>1. /\ worker = "running" /\ worker' = "loop" /\ ran' = Append(ran, current)
      /\ current' = NoTask
      /\ UNCHANGED <<tasks, stop, producer, stopper, accepted>>
  BY DEF WorkerRun
<1>2. tasks \in Seq(Tasks) /\ accepted \in Seq(Tasks) /\ ran \in Seq(Tasks)
  BY DEF IInv, TypeOK
<1>3. Working /\ ~Working' /\ InHand = 1 /\ InHand' = 0
  BY <1>1 DEF Working, InHand
<1>4. current \in Tasks
  BY <1>3 DEF IInv
<1>5. /\ ran' \in Seq(Tasks) /\ Len(ran') = Len(ran) + 1 /\ ran'[Len(ran) + 1] = current
      /\ \A i \in 1..Len(ran) : ran'[i] = ran[i]
      /\ Len(tasks) \in Nat /\ Len(accepted) \in Nat /\ Len(ran) \in Nat
  BY <1>1, <1>2, <1>4
<1>6. TypeOK'
  BY <1>1, <1>5 DEF IInv, TypeOK
<1>7. NoLostWakeup'
  BY <1>1 DEF IInv, NoLostWakeup, Full
<1>8. Fifo'
  <2>1. /\ Len(accepted) = Len(ran) + 1 + Len(tasks)
        /\ \A i \in 1..Len(ran) : accepted[i] = ran[i]
        /\ accepted[Len(ran) + 1] = current
        /\ \A i \in 1..Len(tasks) : accepted[Len(ran) + 1 + i] = tasks[i]
    BY <1>3 DEF IInv, Fifo
  <2>2. Len(accepted) = Len(ran') + 0 + Len(tasks)
    BY <1>5, <2>1
  <2>3. ASSUME NEW i \in 1..Len(ran') PROVE accepted[i] = ran'[i]
    BY <1>5, <2>1
  <2>4. ASSUME NEW i \in 1..Len(tasks) PROVE accepted[Len(ran') + 0 + i] = tasks[i]
    BY <1>5, <2>1
  <2> QED
    BY <1>1, <1>3, <2>2, <2>3, <2>4 DEF Fifo
<1>9. Fresh' /\ HasTask' /\ Bounded'
  BY <1>1 DEF IInv, Fresh, HasTask, Bounded
<1> QED
  BY <1>1, <1>3, <1>6, <1>7, <1>8, <1>9 DEF IInv

(* The steps of stop().                                                         *)
LEMMA StopEnterInv == ASSUME IInv, NEW s \in Stoppers, StopEnter(s) PROVE IInv'
<1> USE ExecutorAssumption
<1>1. /\ stopper[s] = "ready" /\ stop' = TRUE
      /\ stopper' = [stopper EXCEPT ![s] = IF stop THEN "returned" ELSE "notifyWorker"]
      /\ UNCHANGED <<tasks, producer, worker, current, accepted, ran>>
  BY DEF StopEnter
<1>2. TypeOK'
  BY <1>1 DEF IInv, TypeOK
<1>3. Fifo'
  BY <1>1, FifoKept DEF IInv, Working
<1>4. NoLostWakeup'
  <2>1. CASE stop
    <3>1. \A r \in Stoppers : /\ stopper[r] = "notifyWorker" => stopper'[r] = "notifyWorker"
                              /\ stopper[r] = "notifySpace" => stopper'[r] = "notifySpace"
      BY <1>1, <2>1 DEF IInv, TypeOK
    <3> QED
      BY <1>1, <2>1, <3>1 DEF IInv, NoLostWakeup, Full
  <2>2. CASE ~stop
    <3>1. stopper'[s] = "notifyWorker"
      BY <1>1, <2>2 DEF IInv, TypeOK
    <3> QED
      BY <1>1, <3>1 DEF NoLostWakeup
  <2> QED
    BY <2>1, <2>2
<1>5. Fresh' /\ HasTask' /\ Bounded'
  BY <1>1 DEF IInv, Fresh, HasTask, Bounded
<1> QED
  BY <1>1, <1>2, <1>3, <1>4, <1>5 DEF IInv, Working

LEMMA StopNotifyWorkerInv ==
  ASSUME IInv, NEW s \in Stoppers, StopNotifyWorker(s) PROVE IInv'
<1> USE ExecutorAssumption
<1>1. /\ stopper[s] = "notifyWorker" /\ worker' = WakeWorker
      /\ stopper' = [stopper EXCEPT ![s] = "notifySpace"]
      /\ UNCHANGED <<tasks, stop, producer, current, accepted, ran>>
  BY DEF StopNotifyWorker
<1>2. /\ worker' \in {"loop", "woken", "popped", "running", "exited"}
      /\ worker' \in {"popped", "running", "exited"} => worker' = worker
      /\ worker \in {"popped", "running", "exited"} => worker' = worker
  BY <1>1 DEF WakeWorker, IInv, TypeOK
<1>3. TypeOK'
  BY <1>1, <1>2 DEF IInv, TypeOK
<1>4. Bounded' /\ Fifo'
  <2>1. Working' = Working
    BY <1>2 DEF Working
  <2> QED
    BY <1>1, <2>1, FifoKept DEF IInv, Bounded
<1>5. NoLostWakeup'
  <2>1. worker' # "waiting"
    BY <1>2
  <2>2. stopper'[s] = "notifySpace"
    BY <1>1 DEF IInv, TypeOK
  <2> QED
    BY <1>1, <2>1, <2>2 DEF NoLostWakeup
<1>6. Fresh' /\ HasTask'
  BY <1>1 DEF IInv, Fresh, HasTask
<1> QED
  BY <1>1, <1>2, <1>3, <1>4, <1>5, <1>6 DEF IInv, Working

LEMMA StopNotifySpaceInv ==
  ASSUME IInv, NEW s \in Stoppers, StopNotifySpace(s) PROVE IInv'
<1> USE ExecutorAssumption
<1>1. /\ stopper[s] = "notifySpace" /\ producer' = WakeProducers(producer)
      /\ stopper' = [stopper EXCEPT ![s] = "join"]
      /\ UNCHANGED <<tasks, stop, worker, current, accepted, ran>>
  BY DEF StopNotifySpace
<1>2. /\ producer' \in [Producers -> [pc : {"ready", "woken", "notify", "get"}, n : Nat]]
      /\ \A q \in Producers :
           /\ producer'[q].n = producer[q].n
           /\ producer'[q].pc = IF producer[q].pc = "waiting" THEN "woken" ELSE producer[q].pc
  BY <1>1, WakeFacts DEF IInv
<1>3. TypeOK'
  BY <1>1, <1>2 DEF IInv, TypeOK
<1>4. Bounded' /\ Fifo'
  BY <1>1, FifoKept DEF IInv, Bounded, Working
<1>5. NoLostWakeup'
  <2>1. \A q \in Producers : /\ producer'[q].pc # "waiting"
                             /\ producer[q].pc = "notify" => producer'[q].pc = "notify"
    BY <1>2
  <2>2. \A r \in Stoppers : stopper[r] = "notifyWorker" => stopper'[r] = "notifyWorker"
    BY <1>1 DEF IInv, TypeOK
  <2> QED
    BY <1>1, <2>1, <2>2 DEF IInv, NoLostWakeup
<1>6. Fresh'
  BY <1>1, <1>2, <1>3, FreshKept DEF IInv
<1>7. HasTask'
  BY <1>2 DEF IInv, HasTask
<1> QED
  BY <1>1, <1>3, <1>4, <1>5, <1>6, <1>7 DEF IInv, Working

LEMMA StopJoinInv == ASSUME IInv, NEW s \in Stoppers, StopJoin(s) PROVE IInv'
<1> USE ExecutorAssumption
<1>1. /\ stopper[s] = "join" /\ stopper' = [stopper EXCEPT ![s] = "returned"]
      /\ UNCHANGED <<tasks, stop, producer, worker, current, accepted, ran>>
  BY DEF StopJoin
<1>2. TypeOK'
  BY <1>1 DEF IInv, TypeOK
<1>3. NoLostWakeup'
  <2>1. \A r \in Stoppers : /\ stopper[r] = "notifyWorker" => stopper'[r] = "notifyWorker"
                            /\ stopper[r] = "notifySpace" => stopper'[r] = "notifySpace"
    BY <1>1 DEF IInv, TypeOK
  <2> QED
    BY <1>1, <2>1 DEF IInv, NoLostWakeup, Full
<1>4. Fifo' /\ Fresh' /\ HasTask' /\ Bounded'
  BY <1>1, FifoKept DEF IInv, Fresh, HasTask, Bounded, Working
<1> QED
  BY <1>1, <1>2, <1>3, <1>4 DEF IInv, Working

LEMMA SpuriousInv == ASSUME IInv, SpuriousWake PROVE IInv'
<1> USE ExecutorAssumption
<1>1. CASE /\ worker = "waiting" /\ worker' = "woken"
           /\ UNCHANGED <<tasks, stop, producer, current, stopper, accepted, ran>>
  <2>1. TypeOK'
    BY <1>1 DEF IInv, TypeOK
  <2>2. Working' = Working /\ ~Working'
    BY <1>1 DEF Working
  <2>3. Fifo'
    BY <1>1, <2>2, FifoKept DEF IInv
  <2>4. NoLostWakeup'
    BY <1>1 DEF IInv, NoLostWakeup, Full
  <2>5. Fresh' /\ HasTask' /\ Bounded'
    BY <1>1 DEF IInv, Fresh, HasTask, Bounded
  <2> QED
    BY <1>1, <2>1, <2>2, <2>3, <2>4, <2>5 DEF IInv
<1>2. ASSUME NEW p \in Producers, producer[p].pc = "waiting",
             producer' = [producer EXCEPT ![p].pc = "woken"],
             UNCHANGED <<tasks, stop, worker, current, stopper, accepted, ran>>
      PROVE  IInv'
  <2>1. /\ producer' \in [Producers -> [pc : {"ready", "waiting", "woken", "notify", "get"}, n : Nat]]
        /\ \A q \in Producers : producer'[q].n = producer[q].n
        /\ producer'[p].pc = "woken"
        /\ \A q \in Producers : q # p => producer'[q] = producer[q]
    BY <1>2 DEF IInv, TypeOK
  <2>2. TypeOK'
    BY <1>2, <2>1 DEF IInv, TypeOK
  <2>3. Bounded' /\ Fifo'
    BY <1>2, FifoKept DEF IInv, Bounded, Working
  <2>4. NoLostWakeup'
    <3>1. \A q \in Producers : producer[q].pc = "notify" <=> producer'[q].pc = "notify"
      BY <1>2, <2>1
    <3>2. \A q \in Producers : producer'[q].pc = "waiting" => producer[q].pc = "waiting"
      BY <1>2, <2>1
    <3> QED
      BY <1>2, <3>1, <3>2 DEF IInv, NoLostWakeup, Full
  <2>5. Fresh'
    BY <1>2, <2>1, <2>2, FreshKept DEF IInv
  <2>6. HasTask'
    BY <1>2, <2>1 DEF IInv, HasTask
  <2> QED
    BY <1>2, <2>2, <2>3, <2>4, <2>5, <2>6 DEF IInv, Working
<1> QED
  BY <1>1, <1>2 DEF SpuriousWake

LEMMA NextInv == IInv /\ [Next]_vars => IInv'
<1> SUFFICES ASSUME IInv, [Next]_vars PROVE IInv'
  OBVIOUS
<1>1. ASSUME NEW p \in Producers, Producer(p) PROVE IInv'
  BY <1>1, WaitInv, RejectedInv, PushInv, NotifyInv, GetInv DEF Producer
<1>2. CASE Worker
  BY <1>2, SleepInv, PopInv, WorkerNotifyInv, RunInv DEF Worker
<1>3. ASSUME NEW s \in Stoppers, Stopper(s) PROVE IInv'
  BY <1>3, StopEnterInv, StopNotifyWorkerInv, StopNotifySpaceInv, StopJoinInv DEF Stopper
<1>4. CASE SpuriousWake
  BY <1>4, SpuriousInv
<1>5. CASE UNCHANGED vars
  BY <1>5 DEF vars, IInv, TypeOK, Bounded, NoLostWakeup, Full, Fifo, InHand, Working, Fresh, HasTask
<1> QED
  BY <1>1, <1>2, <1>3, <1>4, <1>5 DEF Next

LEMMA Invariant == Spec => []IInv
<1>1. Init => IInv
  BY InitInv
<1>2. IInv /\ [Next]_vars => IInv'
  BY NextInv
<1> QED
  BY <1>1, <1>2, PTL DEF Spec

(* The states of the threads and of the queue stay in their types whatever the   *)
(* number of threads: in particular run() never executes a moved-from task.      *)
THEOREM ExecutorTypeSafe == Spec => []TypeOK
<1>1. IInv => TypeOK
  BY DEF IInv
<1> QED
  BY <1>1, Invariant, PTL

(* The predicate of the wait in submit() keeps the queue within                  *)
(* max_pending_tasks_ for every number of submitters.                           *)
THEOREM QueueIsBounded == Spec => []Bounded
<1>1. IInv => Bounded
  BY DEF IInv
<1> QED
  BY <1>1, Invariant, PTL

(* Notifying after the unlock loses no wake-up, neither of the worker nor of a   *)
(* submitter, in submit(), run() and stop().                                    *)
THEOREM WakeupsAreNotLost == Spec => []NoLostWakeup
<1>1. IInv => NoLostWakeup
  BY DEF IInv
<1> QED
  BY <1>1, Invariant, PTL

(* run() returns with the queue empty and every accepted task run, and           *)
(* submit() accepts nothing afterwards.                                         *)
THEOREM ExitDrains == Spec => []DrainedAtExit
<1>1. ASSUME IInv, worker = "exited" PROVE tasks = <<>> /\ ran = accepted
  <2>1. tasks = <<>> /\ InHand = 0
    BY <1>1 DEF IInv, InHand, Working
  <2>2. accepted \in Seq(Tasks) /\ ran \in Seq(Tasks)
    BY <1>1 DEF IInv, TypeOK
  <2>3. Len(accepted) = Len(ran) + InHand + Len(tasks)
    BY <1>1 DEF IInv, Fifo
  <2>4. Len(accepted) = Len(ran)
    BY <2>1, <2>2, <2>3
  <2>5. \A i \in 1..Len(ran) : accepted[i] = ran[i]
    BY <1>1 DEF IInv, Fifo
  <2> QED
    BY <2>1, <2>2, <2>4, <2>5
<1>2. IInv => DrainedAtExit
  BY <1>1 DEF DrainedAtExit
<1> QED
  BY <1>2, Invariant, PTL

(* Once stop_requested_ is set, a stop() is on its way to the end of join()       *)
(* until the worker has left.                                                   *)
StopUnderWay ==
  /\ \A s \in Stoppers : stopper[s] # "ready" => stop
  /\ stop /\ worker # "exited" =>
       \E s \in Stoppers : stopper[s] \in {"notifyWorker", "notifySpace", "join"}

LEMMA StopUnderWayInv == TypeOK /\ StopUnderWay /\ [Next]_vars => StopUnderWay'
<1> SUFFICES ASSUME TypeOK, StopUnderWay, [Next]_vars PROVE StopUnderWay'
  OBVIOUS
<1>1. CASE UNCHANGED <<stop, stopper>> /\ (worker = "exited" => worker' = "exited")
  BY <1>1 DEF StopUnderWay
<1>2. ASSUME NEW p \in Producers, Producer(p)
      PROVE  UNCHANGED <<stop, stopper>> /\ (worker = "exited" => worker' = "exited")
  BY <1>2 DEF Producer, SubmitWait, SubmitRejected, SubmitPush, SubmitNotify, GetReturns, WakeWorker
<1>3. CASE Worker
  <2>1. UNCHANGED <<stop, stopper>> /\ worker # "exited"
    BY <1>3 DEF Worker, WorkerWait, WorkerExit, WorkerPop, WorkerNotify, WorkerRun, AtLoop
  <2> QED
    BY <1>1, <2>1
<1>4. CASE SpuriousWake
  <2>1. UNCHANGED <<stop, stopper>> /\ (worker = "exited" => worker' = "exited")
    BY <1>4 DEF SpuriousWake
  <2> QED
    BY <1>1, <2>1
<1>5. CASE UNCHANGED vars
  BY <1>1, <1>5 DEF vars
<1>6. ASSUME NEW s \in Stoppers, StopEnter(s) PROVE StopUnderWay'
  <2>1. /\ stopper[s] = "ready" /\ stop' = TRUE /\ worker' = worker
        /\ stopper' = [stopper EXCEPT ![s] = IF stop THEN "returned" ELSE "notifyWorker"]
    BY <1>6 DEF StopEnter
  <2>2. CASE ~stop
    <3>1. stopper'[s] = "notifyWorker"
      BY <2>1, <2>2 DEF TypeOK
    <3> QED
      BY <2>1, <3>1 DEF StopUnderWay
  <2>3. CASE stop
    <3>1. \A r \in Stoppers : r # s => stopper'[r] = stopper[r]
      BY <2>1 DEF TypeOK
    <3> QED
      BY <2>1, <2>3, <3>1 DEF StopUnderWay
  <2> QED
    BY <2>2, <2>3
<1>7. ASSUME NEW s \in Stoppers, StopNotifyWorker(s) \/ StopNotifySpace(s) PROVE StopUnderWay'
  <2>1. /\ stopper[s] # "ready" /\ stop' = stop
        /\ \/ stopper' = [stopper EXCEPT ![s] = "notifySpace"]
           \/ stopper' = [stopper EXCEPT ![s] = "join"]
    BY <1>7 DEF StopNotifyWorker, StopNotifySpace
  <2>2. stopper'[s] \in {"notifySpace", "join"}
    BY <2>1 DEF TypeOK
  <2>3. stop
    BY <2>1 DEF StopUnderWay
  <2> QED
    BY <2>1, <2>2, <2>3 DEF StopUnderWay
<1>8. ASSUME NEW s \in Stoppers, StopJoin(s) PROVE StopUnderWay'
  <2>1. stopper[s] # "ready" /\ stop' = stop /\ worker' = "exited"
    BY <1>8 DEF StopJoin
  <2>2. stop
    BY <2>1 DEF StopUnderWay
  <2> QED
    BY <2>1, <2>2 DEF StopUnderWay
<1> QED
  BY <1>1, <1>2, <1>3, <1>4, <1>5, <1>6, <1>7, <1>8 DEF Next, Stopper

(* When a stop() has returned and none is inside, the worker thread has ended:    *)
(* what the executor's owner does next no longer races with a task.             *)
THEOREM StopJoinsTheWorker == Spec => []FirstStopJoins
<1>1. Init => StopUnderWay
  BY DEF Init, StopUnderWay
<1>2. StopUnderWay => FirstStopJoins
  BY DEF StopUnderWay, FirstStopJoins
<1> QED
  BY <1>1, <1>2, StopUnderWayInv, ExecutorTypeSafe, PTL DEF Spec

(* SerialExecutor implements ExecutorSpec: what it accepts runs once, one at a    *)
(* time, in the order of acceptance.                                            *)
LEMMA InitRefines == Init => Abstract!Init
BY DEF Init, Abstract!Init

LEMMA StepRefines == IInv /\ [Next]_vars => [Abstract!Next]_<<accepted, ran, ~stop>>
<1> SUFFICES ASSUME IInv, [Next]_vars
             PROVE  Abstract!Next \/ UNCHANGED <<accepted, ran, ~stop>>
  OBVIOUS
<1>1. ASSUME NEW p \in Producers, SubmitPush(p) PROVE Abstract!Next
  <2>1. /\ Task(p) \in Tasks /\ \A i \in 1..Len(accepted) : accepted[i] # Task(p)
    BY <1>1, SubmitFacts DEF SubmitPush
  <2>2. DOMAIN accepted = 1..Len(accepted)
    BY DEF IInv, TypeOK
  <2>3. Abstract!Accept(Task(p))
    BY <1>1, <2>1, <2>2 DEF SubmitPush, Abstract!Accept
  <2> QED
    BY <2>1, <2>3 DEF Abstract!Next
<1>2. CASE WorkerRun
  <2>1. Working /\ InHand = 1
    BY <1>2 DEF WorkerRun, Working, InHand
  <2>2. Len(accepted) = Len(ran) + 1 + Len(tasks) /\ accepted[Len(ran) + 1] = current
    BY <2>1 DEF IInv, Fifo
  <2>3. Len(accepted) \in Nat /\ Len(ran) \in Nat /\ Len(tasks) \in Nat
    BY DEF IInv, TypeOK
  <2>4. Len(ran) < Len(accepted)
    BY <2>2, <2>3
  <2>5. Abstract!Run
    BY <1>2, <2>2, <2>4 DEF WorkerRun, Abstract!Run
  <2> QED
    BY <2>5 DEF Abstract!Next
<1>3. ASSUME NEW s \in Stoppers, StopEnter(s)
      PROVE  Abstract!Next \/ UNCHANGED <<accepted, ran, ~stop>>
  <2>1. stop' = TRUE /\ UNCHANGED <<accepted, ran>>
    BY <1>3 DEF StopEnter
  <2>2. CASE stop
    BY <2>1, <2>2
  <2>3. CASE ~stop
    BY <2>1, <2>3 DEF Abstract!Close, Abstract!Next
  <2> QED
    BY <2>2, <2>3
<1>4. ASSUME NEW p \in Producers, SubmitWait(p) \/ SubmitRejected(p) \/ SubmitNotify(p) \/ GetReturns(p)
      PROVE  UNCHANGED <<accepted, ran, ~stop>>
  BY <1>4 DEF SubmitWait, SubmitRejected, SubmitNotify, GetReturns
<1>5. CASE WorkerWait \/ WorkerExit \/ WorkerPop \/ WorkerNotify
  BY <1>5 DEF WorkerWait, WorkerExit, WorkerPop, WorkerNotify
<1>6. ASSUME NEW s \in Stoppers, StopNotifyWorker(s) \/ StopNotifySpace(s) \/ StopJoin(s)
      PROVE  UNCHANGED <<accepted, ran, ~stop>>
  BY <1>6 DEF StopNotifyWorker, StopNotifySpace, StopJoin
<1>7. CASE SpuriousWake
  BY <1>7 DEF SpuriousWake
<1>8. CASE UNCHANGED vars
  BY <1>8 DEF vars
<1> QED
  BY <1>1, <1>2, <1>3, <1>4, <1>5, <1>6, <1>7, <1>8 DEF Next, Producer, Worker, Stopper

(* Each step of submitters, worker and stoppers is a step of a serial executor *)
(* that takes tasks while it is open and runs each once, in order, or changes  *)
(* nothing that can be seen of one.                                            *)
THEOREM ImplementsExecutor == Spec => Abstract!Safety
<1>1. Init => Abstract!Init
  BY InitRefines
<1>2. IInv /\ [Next]_vars => [Abstract!Next]_<<accepted, ran, ~stop>>
  BY StepRefines
<1> QED
  BY <1>1, <1>2, Invariant, PTL DEF Spec, Abstract!Safety, Abstract!abstract

(*****************************************************************************)
(* The projects                                                              *)
(*****************************************************************************)

(* What a request has with it at each of its steps.                            *)
JobOK(j) ==
  /\ j.pc = "idle" => j = Idle
  /\ j.pc # "idle" => j.p \in Projects
  /\ j.pc \in {"store", "lock", "create", "restore", "forget", "commit", "undo", "git"} =>
       j.seen \in Row
  /\ (j.pc = "lock" /\ j.op = "IMPORT") \/ j.pc \in {"create", "hint", "remote", "persist"} =>
       j.remote # Absent
  /\ (j.pc = "create" \/ (j.pc = "lock" /\ j.op = "IMPORT")) /\ j.root # Absent =>
       j.seen.root = j.root
  /\ j.pc = "store" => j.op = "POST" /\ j.root = Absent
  /\ j.pc \in {"create", "hint", "reread"} => j.op = "IMPORT"
  /\ j.pc = "restore" => j.op \in {"POST", "IMPORT"}
  /\ j.pc \in {"forget", "commit", "undo"} => j.op = "DELETE"
  /\ j.pc \in {"locked", "update", "remote", "persist"} => j.held \in Roots
JobsOK ==
  /\ \A h \in Handlers : JobOK(job[h])
  /\ phase # "up" => \A h \in Handlers : job[h].pc = "idle"

(* The sync worker holds the root of the row it is at.                         *)
SyncOK == sync.at # None => sync.rows[sync.at] \in Row /\ sync.held \in Roots

(* A project that is gone has no place in the registry, which remembers its    *)
(* removal, nobody is about to restore it, and its row goes with the commit.   *)
GoneOK ==
  \A p \in gone :
    /\ registry.active[p] = None /\ registry.removed[p] # {}
    /\ ~ RestorePending(p)
    /\ db[p] = None \/ \E h \in Handlers : job[h].p = p /\ job[h].pc = "commit"

(* Rows have roots of their own, and a manifest there is of no other project.  *)
RootsOK ==
  /\ \A p, q \in Projects :
       db[p] # None /\ db[q] # None /\ db[p].root = db[q].root => p = q
  /\ \A p \in Projects : db[p] # None => manifest[db[p].root] \in {None, p}

(* A root that a request is going to give its project is no other project's,   *)
(* and no other project is going to get it.                                    *)
Wanted(h, r) == job[h].pc # "idle" /\ Wants(job[h]) = r /\ r # Absent
WantsOK ==
  \A h \in Handlers, r \in Roots : Wanted(h, r) =>
    /\ manifest[r] \in {None, job[h].p}
    /\ \A p \in Projects \ {job[h].p} : db[p] # None => db[p].root # r
    /\ \A k \in Handlers : Wanted(k, r) => job[k].p = job[h].p

(* Of a project with a row that the registry has forgotten, or whose manifest  *)
(* is not at the row's root, a request is under way or was cut.                *)
Doing(p, pcs) == \E h \in Handlers : job[h].p = p /\ job[h].pc \in pcs
TornOK ==
  \A p \in Projects \ torn : db[p] # None =>
    /\ \/ registry.active[p] # None \/ registry.removed[p] = {}
       \/ Doing(p, {"commit", "undo", "hint", "reread", "restore"})
    /\ \/ manifest[db[p].root] = p
       \/ Doing(p, {"hint", "reread", "remote", "persist", "manifest"})

(* What a request that nobody overlaps has read and written is so.             *)
AloneOK ==
  \A h \in Handlers : job[h].alone =>
    LET j == job[h]
    IN  /\ \A k \in Handlers \ {h} : job[k].pc = "idle"
        /\ j.pc \in {"list", "remember"} => db[j.p] # None /\ manifest[db[j.p].root] = j.p
        /\ j.pc = "remember" => j.rows = db
        /\ j.pc = "restore" => db[j.p] = j.seen /\ manifest[j.seen.root] = j.p
        /\ j.pc \in {"forget", "commit", "undo"} => db[j.p] = j.seen

(* The requests of a project that is kept neither remove nor move it, and what *)
(* they have read of it is so.                                                 *)
KeptJobsOK ==
  \A p \in kept, h \in Handlers :
    /\ job[h].p = p /\ job[h].pc # "idle" => job[h].root = Absent /\ job[h].op # "DELETE"
    /\ job[h].p = p /\ job[h].pc = "restore" =>
         db[p] # None /\ job[h].seen.root = db[p].root
    /\ job[h].pc = "remember" =>
         db[p] # None /\ job[h].rows[p] # None /\ job[h].rows[p].root = db[p].root

(* The registry and the row of a project that is kept name a root of its.      *)
KeptOK ==
  \A p \in kept :
    /\ registry.active[p] # None /\ manifest[registry.active[p]] = p
    /\ phase # "lost" => db[p] # None
    /\ db[p] # None => manifest[db[p].root] = p

ProjectIInv == /\ ProjectTypeOK /\ JobsOK /\ SyncOK /\ GoneOK
        /\ RootsOK /\ WantsOK /\ TornOK /\ AloneOK /\ KeptJobsOK /\ KeptOK

-----------------------------------------------------------------------------
(* Requests                                                                    *)

Pcs == {"idle", "store", "lock", "create", "hint", "remote", "reread", "restore", "locked",
        "update", "persist", "manifest", "list", "remember", "forget", "commit",
        "undo", "git"}

LEMMA IdleFacts ==
  /\ Idle \in Job /\ JobOK(Idle)
  /\ Idle.pc = "idle" /\ Idle.op = "none" /\ Idle.p = None /\ Idle.root = Absent
  /\ ~ Idle.alone
BY ProjectsAssumption DEF Idle, Job, JobOK, NoRows

LEMMA JobFields ==
  ASSUME NEW j \in Job
  PROVE  /\ j = [op |-> j.op, pc |-> j.pc, p |-> j.p, root |-> j.root, remote |-> j.remote,
                 seen |-> j.seen, held |-> j.held, rows |-> j.rows, alone |-> j.alone,
                 moving |-> j.moving]
         /\ j.pc \in Pcs /\ j.p \in Projects \cup {None} /\ j.root \in Roots \cup {Absent}
         /\ j.remote \in Urls \cup {None, Absent} /\ j.seen \in Row \cup {None}
         /\ j.held \in Roots \cup {None} /\ j.rows \in [Projects -> Row \cup {None}]
         /\ j.op \in {"none", "POST", "IMPORT", "PATCH", "DELETE", "PUSH"}
         /\ j.alone \in BOOLEAN /\ j.moving \in BOOLEAN
BY DEF Job, Pcs

(* A request with another value in one field.                                  *)
LEMMA SetField ==
  ASSUME NEW j \in Job
  PROVE  /\ \A x \in {"none", "POST", "IMPORT", "PATCH", "DELETE", "PUSH"} : [j EXCEPT !.op = x] \in Job
         /\ \A x \in Pcs : [j EXCEPT !.pc = x] \in Job
         /\ \A x \in Projects : [j EXCEPT !.p = x] \in Job
         /\ \A x \in Roots \cup {Absent} : [j EXCEPT !.root = x] \in Job
         /\ \A x \in Urls \cup {None, Absent} : [j EXCEPT !.remote = x] \in Job
         /\ \A x \in Row \cup {None} : [j EXCEPT !.seen = x] \in Job
         /\ \A x \in Roots \cup {None} : [j EXCEPT !.held = x] \in Job
         /\ \A x \in [Projects -> Row \cup {None}] : [j EXCEPT !.rows = x] \in Job
         /\ \A x \in BOOLEAN : [j EXCEPT !.alone = x] \in Job
         /\ \A x \in BOOLEAN : [j EXCEPT !.moving = x] \in Job
<1>1. ASSUME NEW x \in {"none", "POST", "IMPORT", "PATCH", "DELETE", "PUSH"} PROVE [j EXCEPT !.op = x] \in Job
  BY DEF Job, Pcs
<1>2. ASSUME NEW x \in Pcs PROVE [j EXCEPT !.pc = x] \in Job
  BY DEF Job, Pcs
<1>3. ASSUME NEW x \in Projects PROVE [j EXCEPT !.p = x] \in Job
  BY DEF Job, Pcs
<1>4. ASSUME NEW x \in Roots \cup {Absent} PROVE [j EXCEPT !.root = x] \in Job
  BY DEF Job, Pcs
<1>5. ASSUME NEW x \in Urls \cup {None, Absent} PROVE [j EXCEPT !.remote = x] \in Job
  BY DEF Job, Pcs
<1>6. ASSUME NEW x \in Row \cup {None} PROVE [j EXCEPT !.seen = x] \in Job
  BY DEF Job, Pcs
<1>7. ASSUME NEW x \in BOOLEAN PROVE [j EXCEPT !.alone = x] \in Job
  BY DEF Job, Pcs
<1>8. ASSUME NEW x \in BOOLEAN PROVE [j EXCEPT !.moving = x] \in Job
  BY DEF Job, Pcs
<1>9. ASSUME NEW x \in Roots \cup {None} PROVE [j EXCEPT !.held = x] \in Job
  BY DEF Job, Pcs
<1>10. ASSUME NEW x \in [Projects -> Row \cup {None}] PROVE [j EXCEPT !.rows = x] \in Job
  BY DEF Job, Pcs
<1> QED BY <1>1, <1>2, <1>3, <1>4, <1>5, <1>6, <1>7, <1>8, <1>9, <1>10

(* What a step of a request leaves of it.                                      *)
Goes(h, new) ==
  /\ job[h].pc # "idle" /\ job' = [job EXCEPT ![h] = new]
  /\ new \in Job /\ JobOK(new)
  /\ \/ new = Idle
     \/ /\ new.pc \notin {"idle", "store"} /\ new.p = job[h].p /\ new.op = job[h].op /\ new.alone = job[h].alone
        /\ new.root \in {job[h].root, Absent}

LEMMA EndGoes ==
  ASSUME NEW h \in Handlers, job[h].pc # "idle", End(h)
  PROVE  Goes(h, Idle)
BY IdleFacts DEF End, Goes

LEMMA GotoGoes ==
  ASSUME NEW h \in Handlers, ProjectTypeOK, JobsOK, NEW pc \in Pcs \ {"idle", "store"}, Goto(h, pc),
         job[h].pc # "idle", JobOK([job[h] EXCEPT !.pc = pc])
  PROVE  Goes(h, [job[h] EXCEPT !.pc = pc])
<1>1. job[h] \in Job
  BY DEF ProjectTypeOK
<1>2. [job[h] EXCEPT !.pc = pc] \in Job
  BY <1>1, SetField
<1> QED BY <1>1, <1>2, JobFields DEF Goto, Goes

LEMMA StepGoes ==
  ASSUME ProjectTypeOK, JobsOK, NEW h \in Handlers, AcquireLock(h) \/ Step(h)
  PROVE  \E new : Goes(h, new)
<1> DEFINE j == job[h]
<1>1. j \in Job /\ JobOK(j) /\ job \in [Handlers -> Job] /\ db \in [Projects -> Row \cup {None}]
  BY DEF ProjectTypeOK, JobsOK
<1>2. /\ j.pc \in Pcs /\ j.p \in Projects \cup {None} /\ j.root \in Roots \cup {Absent}
      /\ j.remote \in Urls \cup {None, Absent} /\ j.seen \in Row \cup {None}
      /\ j.held \in Roots \cup {None}
  BY <1>1, JobFields
<1>3. CASE End(h) /\ j.pc # "idle"
  BY <1>3, EndGoes
<1>4. ASSUME NEW pc \in Pcs \ {"idle", "store"}, Goto(h, pc), j.pc # "idle",
             JobOK([j EXCEPT !.pc = pc])
      PROVE  \E new : Goes(h, new)
  BY <1>4, GotoGoes
<1>5. ASSUME j.pc # "idle",
             NEW new \in Job, job' = [job EXCEPT ![h] = new], JobOK(new), new.pc \notin {"idle", "store"},
             new.p = j.p, new.op = j.op, new.alone = j.alone, new.root \in {j.root, Absent}
      PROVE  \E n : Goes(h, n)
  BY <1>5 DEF Goes
<1>6. CASE PostStore(h)
  <2>1. JobOK([j EXCEPT !.pc = "restore"])
    BY <1>1, <1>2, <1>6 DEF JobOK, PostStore, Job
  <2> QED BY <1>3, <1>4, <1>6, <2>1 DEF PostStore, Pcs
<1>7. CASE RestoreProject(h) \/ PatchRemember(h) \/ DeleteCommit(h) \/ DeleteUndo(h) \/ PushGit(h)
           \/ Fails(h)
  BY <1>3, <1>7 DEF RestoreProject, PatchRemember, DeleteCommit, DeleteUndo, PushGit, Fails, Throw
<1>8. CASE ImportCreate(h)
  <2>1. JobOK([j EXCEPT !.pc = "reread"]) /\ JobOK([j EXCEPT !.pc = "hint"])
    BY <1>1, <1>2, <1>8 DEF JobOK, ImportCreate, Job
  <2> QED BY <1>3, <1>4, <1>8, <2>1 DEF ImportCreate, Pcs
<1>9. CASE ImportRemote(h)
  <2>1. JobOK([j EXCEPT !.pc = "reread"])
    BY <1>1, <1>2, <1>9 DEF JobOK, ImportRemote, Job
  <2> QED BY <1>4, <1>9, <2>1 DEF ImportRemote, Pcs
<1>10. CASE PatchRemote(h)
  <2>1. JobOK([j EXCEPT !.pc = "persist"])
    BY <1>1, <1>2, <1>10 DEF JobOK, PatchRemote, Job
  <2> QED BY <1>4, <1>10, <2>1 DEF PatchRemote, Pcs
<1>11. CASE PatchManifest(h)
  <2>1. JobOK([j EXCEPT !.pc = "list"])
    BY <1>1, <1>2, <1>11 DEF JobOK, PatchManifest, Job
  <2> QED BY <1>3, <1>4, <1>11, <2>1 DEF PatchManifest, Pcs
<1>12. CASE DeleteForget(h)
  <2>1. JobOK([j EXCEPT !.pc = "commit"])
    BY <1>1, <1>2, <1>12 DEF JobOK, DeleteForget, Job
  <2> QED BY <1>4, <1>12, <2>1 DEF DeleteForget, Pcs
<1>13. CASE DeleteCommitFails(h)
  <2>1. JobOK([j EXCEPT !.pc = "undo"])
    BY <1>1, <1>2, <1>13 DEF JobOK, DeleteCommitFails, Job
  <2> QED BY <1>4, <1>13, <2>1 DEF DeleteCommitFails, Pcs
<1>14. CASE ImportReread(h)
  <2>1. CASE db[j.p] # None
    <3> DEFINE new == [j EXCEPT !.pc = "restore", !.seen = db[j.p], !.root = Absent, !.remote = Absent]
    <3>1. job' = [job EXCEPT ![h] = new]
      BY <1>1, <1>14, <2>1 DEF ImportReread
    <3>2. db[j.p] \in Row /\ j.pc = "reread" /\ j.p \in Projects
      BY <1>1, <1>2, <1>14, <2>1 DEF ImportReread, JobOK
    <3>3. new \in Job /\ JobOK(new)
      <4> HIDE DEF j
      <4>8. new \in Job
        BY <1>1, <1>2, <3>2 DEF Job
      <4>9. JobOK(new)
        BY <1>1, <1>2, <3>2 DEF JobOK, Job
      <4> QED BY <4>8, <4>9
    <3>4. /\ new.pc \notin {"idle", "store"} /\ new.p = j.p /\ new.op = j.op /\ new.alone = j.alone
          /\ new.root = Absent
      BY <1>1, <3>2 DEF Job
    <3> HIDE DEF new
    <3> QED BY <1>5, <3>1, <3>2, <3>3, <3>4
  <2> QED BY <1>3, <1>14, <2>1 DEF ImportReread
<1>15. CASE AcquireLock(h)
  <2> DEFINE pc == IF j.op = "IMPORT" THEN "create" ELSE "locked"
             new == [j EXCEPT !.held = LockRoot(j), !.pc = pc]
  <2>1. job' = [job EXCEPT ![h] = new] /\ j.pc = "lock"
    BY <1>1, <1>15 DEF AcquireLock
  <2>2. LockRoot(j) \in Roots
    BY <1>1, <1>2, <2>1 DEF LockRoot, JobOK, Row
  <2>3. new \in Job /\ JobOK(new)
    <3> HIDE DEF j
    <3>8. new \in Job
      <4> DEFINE a == [j EXCEPT !.held = LockRoot(j)]
      <4>1. a \in Job
        BY <1>1, <2>2, SetField
      <4> HIDE DEF a
      <4>2. pc \in Pcs
        BY DEF Pcs
      <4> HIDE DEF pc
      <4>3. [a EXCEPT !.pc = pc] \in Job
        BY <4>1, <4>2, SetField
      <4> QED BY <4>3 DEF a
    <3>9. /\ new.pc = pc /\ new.held = LockRoot(j) /\ new.op = j.op /\ new.p = j.p
          /\ new.root = j.root /\ new.remote = j.remote /\ new.seen = j.seen
      BY <1>1 DEF Job
    <3> HIDE DEF new
    <3>10. JobOK(new)
      BY <1>1, <2>1, <2>2, <3>9 DEF JobOK
    <3> QED BY <3>8, <3>10
  <2>4. new.pc \notin {"idle", "store"} /\ new.p = j.p /\ new.op = j.op /\ new.alone = j.alone /\ new.root = j.root
    BY <1>1 DEF Job
  <2> HIDE DEF new
  <2> QED BY <1>5, <2>1, <2>3, <2>4
<1>16. CASE RereadLocked(h)
  <2> DEFINE pc == IF j.op = "PUSH" THEN "git" ELSE "update"
             new == [j EXCEPT !.pc = pc, !.seen = db[j.p]]
  <2>1. CASE ~ End(h)
    <3>1. job' = [job EXCEPT ![h] = new] /\ j.pc = "locked" /\ db[j.p] # None
      BY <1>1, <1>16, <2>1 DEF RereadLocked
    <3>2. db[j.p] \in Row /\ j.p \in Projects
      BY <1>1, <1>2, <3>1 DEF JobOK
    <3>3. new \in Job /\ JobOK(new)
      <4> HIDE DEF j
      <4>8. new \in Job
        BY <1>1, <1>2, <3>1, <3>2 DEF Job
      <4>9. JobOK(new)
        BY <1>1, <1>2, <3>1, <3>2 DEF JobOK, Job
      <4> QED BY <4>8, <4>9
    <3>4. /\ new.pc \notin {"idle", "store"} /\ new.p = j.p /\ new.op = j.op /\ new.alone = j.alone
          /\ new.root = j.root
      BY <1>1 DEF Job
    <3> HIDE DEF new
    <3> QED BY <1>5, <3>1, <3>3, <3>4
  <2> QED BY <1>3, <1>16, <2>1 DEF RereadLocked
<1>17. ASSUME Applied(h), j.pc \in {"update", "persist"} PROVE \E new : Goes(h, new)
  <2> DEFINE new == [j EXCEPT !.pc = "manifest", !.root = Absent, !.remote = Absent, !.seen = None]
  <2>1. job' = [job EXCEPT ![h] = new]
    BY <1>1, <1>17 DEF Applied
  <2>2. new \in Job /\ JobOK(new)
    <3>1. j.p \in Projects
      BY <1>1, <1>17 DEF JobOK
    <3> HIDE DEF j
    <3>8. new \in Job
      BY <1>1, <1>2, <1>17, <3>1 DEF Job
    <3>9. JobOK(new)
      BY <1>1, <1>2, <1>17, <3>1 DEF JobOK, Job
    <3> QED BY <3>8, <3>9
  <2>3. new.pc \notin {"idle", "store"} /\ new.p = j.p /\ new.op = j.op /\ new.alone = j.alone /\ new.root = Absent
    BY <1>1 DEF Job
  <2> HIDE DEF new
  <2> QED BY <1>5, <1>17, <2>1, <2>2, <2>3
<1>18. CASE PatchUpdate(h)
  <2>1. ASSUME j.remote # Absent PROVE JobOK([j EXCEPT !.pc = "remote"])
    BY <1>1, <1>2, <1>18, <2>1 DEF JobOK, PatchUpdate, Job
  <2> QED BY <1>3, <1>4, <1>17, <1>18, <2>1 DEF PatchUpdate, Pcs
<1>19. CASE PatchPersist(h)
  BY <1>17, <1>19 DEF PatchPersist
<1>20. CASE PatchList(h)
  <2> DEFINE new == [j EXCEPT !.pc = "remember", !.rows = db]
  <2>1. job' = [job EXCEPT ![h] = new] /\ j.pc = "list"
    BY <1>1, <1>20 DEF PatchList
  <2>2. new \in Job /\ JobOK(new)
    <3>1. j.p \in Projects
      BY <1>1, <2>1 DEF JobOK
    <3> HIDE DEF j
    <3>8. new \in Job
      BY <1>1, <1>2, <2>1, <3>1 DEF Job
    <3>9. JobOK(new)
      BY <1>1, <1>2, <2>1, <3>1 DEF JobOK, Job
    <3> QED BY <3>8, <3>9
  <2>3. /\ new.pc \notin {"idle", "store"} /\ new.p = j.p /\ new.op = j.op /\ new.alone = j.alone
        /\ new.root = j.root
    BY <1>1 DEF Job
  <2> HIDE DEF new
  <2> QED BY <1>5, <2>1, <2>2, <2>3
<1> QED
  BY <1>6, <1>7, <1>8, <1>9, <1>10, <1>11, <1>12, <1>13, <1>14, <1>15, <1>16, <1>18, <1>19, <1>20
     DEF Step

LEMMA StepFrame ==
  ASSUME NEW h \in Handlers, AcquireLock(h) \/ Step(h)
  PROVE  UNCHANGED <<sync, phase, crashes, requests>>
BY DEF AcquireLock, Step, PostStore, RestoreProject, ImportCreate, ImportRemote, ImportReread,
       RereadLocked, PatchUpdate, PatchRemote, PatchPersist, PatchManifest, PatchList,
       PatchRemember, DeleteForget, DeleteCommit, DeleteCommitFails, DeleteUndo, PushGit,
       Fails, Throw, Daemon

(* These are the last steps of a request.                                      *)
LEMMA StepEnds ==
  ASSUME NEW h \in Handlers, RestoreProject(h) \/ PatchRemember(h) \/ DeleteCommit(h) \/ DeleteUndo(h)
                             \/ PushGit(h) \/ Fails(h)
  PROVE  End(h)
BY DEF RestoreProject, PatchRemember, DeleteCommit, DeleteUndo, PushGit, Fails, Throw

(* A request that comes in.                                                    *)
Received(h, new) ==
  /\ new \in Job /\ JobOK(new) /\ new.pc \in {"store", "lock", "forget"} /\ Receive(h, new)
  /\ new.p \in Projects
  /\ Wants(new) # Absent => Wants(new) \in Roots /\ Vacant(new.p, Wants(new))
  /\ new.op = "DELETE" \/ new.pc = "forget" => new.seen = db[new.p] /\ new.p \notin kept'
  /\ new.root # Absent => (new.op = "IMPORT" /\ db[new.p] = None) \/ new.p \notin kept'
  /\ kept' \subseteq kept /\ gone' \subseteq gone
  /\ new.op \in {"POST", "IMPORT"} => new.p \notin gone'

LEMMA ReceivedFacts ==
  ASSUME ProjectTypeOK, NEW h \in Handlers, ReceiveAny(h)
  PROVE  \E new : Received(h, new)
<1>1. db \in [Projects -> Row \cup {None}] /\ Managed \subseteq Roots
  BY ProjectsAssumption DEF ProjectTypeOK
<1>2. CASE ReceivePost(h)
  <2>1. PICK p \in Projects, r \in Roots, u \in Urls \cup {None} :
          /\ Vacant(p, r)
          /\ Receive(h, [Idle EXCEPT !.op = "POST", !.pc = "store", !.p = p,
                                     !.seen = [root |-> r, remote |-> u]])
          /\ gone' = gone \ {p} /\ UNCHANGED kept
    BY <1>2 DEF ReceivePost
  <2> DEFINE row == [root |-> r, remote |-> u]
             new == [Idle EXCEPT !.op = "POST", !.pc = "store", !.p = p, !.seen = row]
  <2>2. row \in Row /\ row.root = r
    BY DEF Row
  <2> HIDE DEF row
  <2>3. new \in Job
    <3> DEFINE a1 == [Idle EXCEPT !.op = "POST"]
               a2 == [a1 EXCEPT !.pc = "store"]
               a3 == [a2 EXCEPT !.p = p]
               a4 == [a3 EXCEPT !.seen = row]
    <3>1. a1 \in Job /\ "store" \in Pcs
      BY IdleFacts, SetField DEF Pcs
    <3> HIDE DEF a1
    <3>2. a2 \in Job
      BY <2>2, <3>1, <3>1, SetField
    <3> HIDE DEF a2
    <3>3. a3 \in Job
      BY <2>2, <3>1, <3>2, SetField
    <3> HIDE DEF a3
    <3>4. a4 \in Job
      BY <2>2, <3>1, <3>3, SetField
    <3> HIDE DEF a4
    <3> QED BY <3>4 DEF a1, a2, a3, a4
  <2>4. /\ new.op = "POST" /\ new.pc = "store" /\ new.p = p /\ new.seen = row
        /\ new.root = Absent /\ new.remote = Absent
    BY DEF Idle
  <2>5. Receive(h, new)
    BY <2>1 DEF row
  <2> HIDE DEF new
  <2>6. JobOK(new)
    BY <2>2, <2>4 DEF JobOK
  <2>7. Wants(new) = r
    BY <2>2, <2>4 DEF Wants
  <2> QED BY <2>1, <2>3, <2>4, <2>5, <2>6, <2>7 DEF Received
<1>3. CASE ReceiveImport(h)
  <2>1. PICK p \in Projects, u \in Urls \cup {None}, r \in Managed :
          /\ db[p] = None => Vacant(p, r)
          /\ Receive(h, [Idle EXCEPT !.op = "IMPORT", !.pc = "lock", !.p = p, !.remote = u,
               !.root = IF db[p] = None THEN r ELSE Absent,
               !.seen = IF db[p] = None THEN [root |-> r, remote |-> None] ELSE db[p]])
          /\ gone' = gone \ {p} /\ UNCHANGED kept
    BY <1>3 DEF ReceiveImport
  <2> DEFINE row == IF db[p] = None THEN [root |-> r, remote |-> None] ELSE db[p]
             root == IF db[p] = None THEN r ELSE Absent
             new == [Idle EXCEPT !.op = "IMPORT", !.pc = "lock", !.p = p, !.remote = u,
                                 !.root = root, !.seen = row]
  <2>2. row \in Row /\ root \in Roots \cup {Absent} /\ (root # Absent => row.root = root)
    BY <1>1 DEF Row
  <2>3. root # Absent => Vacant(p, root) /\ db[p] = None
    BY <2>1
  <2>4. Receive(h, new)
    BY <2>1 DEF row, root
  <2> HIDE DEF row, root
  <2>5. new \in Job
    <3> DEFINE a1 == [Idle EXCEPT !.op = "IMPORT"]
               a2 == [a1 EXCEPT !.pc = "lock"]
               a3 == [a2 EXCEPT !.p = p]
               a4 == [a3 EXCEPT !.remote = u]
               a5 == [a4 EXCEPT !.root = root]
               a6 == [a5 EXCEPT !.seen = row]
    <3>1. a1 \in Job /\ "lock" \in Pcs
      BY IdleFacts, SetField DEF Pcs
    <3> HIDE DEF a1
    <3>2. a2 \in Job
      BY <2>2, <3>1, <3>1, SetField
    <3> HIDE DEF a2
    <3>3. a3 \in Job
      BY <2>2, <3>1, <3>2, SetField
    <3> HIDE DEF a3
    <3>4. a4 \in Job
      BY <2>2, <3>1, <3>3, SetField
    <3> HIDE DEF a4
    <3>5. a5 \in Job
      BY <2>2, <3>1, <3>4, SetField
    <3> HIDE DEF a5
    <3>6. a6 \in Job
      BY <2>2, <3>1, <3>5, SetField
    <3> HIDE DEF a6
    <3> QED BY <3>6 DEF a1, a2, a3, a4, a5, a6
  <2>6. /\ new.op = "IMPORT" /\ new.pc = "lock" /\ new.p = p /\ new.seen = row
        /\ new.root = root /\ new.remote = u
    BY DEF Idle
  <2> HIDE DEF new
  <2>7. JobOK(new)
    BY <2>2, <2>6, ProjectsAssumption DEF JobOK
  <2>8. Wants(new) = root
    BY <2>6 DEF Wants
  <2> QED BY <2>1, <2>2, <2>3, <2>4, <2>5, <2>6, <2>7, <2>8 DEF Received
<1>4. CASE ReceivePatch(h)
  <2>1. PICK p \in Projects, r \in Roots \cup {Absent}, u \in Urls \cup {None, Absent} :
          /\ db[p] # None
          /\ r # Absent => Vacant(p, r)
          /\ Receive(h, [Idle EXCEPT !.op = "PATCH", !.pc = "lock", !.p = p, !.root = r,
                                     !.remote = u, !.seen = db[p]])
          /\ kept' = IF r = Absent THEN kept ELSE kept \ {p}
          /\ UNCHANGED gone
    BY <1>4 DEF ReceivePatch
  <2> DEFINE new == [Idle EXCEPT !.op = "PATCH", !.pc = "lock", !.p = p, !.root = r,
                                 !.remote = u, !.seen = db[p]]
  <2>2. db[p] \in Row
    BY <1>1, <2>1
  <2>3. new \in Job
    <3> DEFINE a1 == [Idle EXCEPT !.op = "PATCH"]
               a2 == [a1 EXCEPT !.pc = "lock"]
               a3 == [a2 EXCEPT !.p = p]
               a4 == [a3 EXCEPT !.root = r]
               a5 == [a4 EXCEPT !.remote = u]
               a6 == [a5 EXCEPT !.seen = db[p]]
    <3>1. a1 \in Job /\ "lock" \in Pcs
      BY IdleFacts, SetField DEF Pcs
    <3> HIDE DEF a1
    <3>2. a2 \in Job
      BY <2>2, <3>1, <3>1, SetField
    <3> HIDE DEF a2
    <3>3. a3 \in Job
      BY <2>2, <3>1, <3>2, SetField
    <3> HIDE DEF a3
    <3>4. a4 \in Job
      BY <2>2, <3>1, <3>3, SetField
    <3> HIDE DEF a4
    <3>5. a5 \in Job
      BY <2>2, <3>1, <3>4, SetField
    <3> HIDE DEF a5
    <3>6. a6 \in Job
      BY <2>2, <3>1, <3>5, SetField
    <3> HIDE DEF a6
    <3> QED BY <3>6 DEF a1, a2, a3, a4, a5, a6
  <2>4. /\ new.op = "PATCH" /\ new.pc = "lock" /\ new.p = p /\ new.seen = db[p]
        /\ new.root = r /\ new.remote = u
    BY DEF Idle
  <2>5. Receive(h, new)
    BY <2>1
  <2> HIDE DEF new
  <2>6. JobOK(new) /\ Wants(new) = r
    BY <2>2, <2>4 DEF JobOK, Wants
  <2> QED BY <2>1, <2>3, <2>4, <2>5, <2>6 DEF Received
<1>5. CASE ReceiveDelete(h)
  <2>1. PICK p \in Projects :
          /\ db[p] # None
          /\ Receive(h, [Idle EXCEPT !.op = "DELETE", !.pc = "forget", !.p = p, !.seen = db[p]])
          /\ kept' = kept \ {p} /\ UNCHANGED gone
    BY <1>5 DEF ReceiveDelete
  <2> DEFINE new == [Idle EXCEPT !.op = "DELETE", !.pc = "forget", !.p = p, !.seen = db[p]]
  <2>2. db[p] \in Row
    BY <1>1, <2>1
  <2>3. new \in Job
    <3> DEFINE a1 == [Idle EXCEPT !.op = "DELETE"]
               a2 == [a1 EXCEPT !.pc = "forget"]
               a3 == [a2 EXCEPT !.p = p]
               a4 == [a3 EXCEPT !.seen = db[p]]
    <3>1. a1 \in Job /\ "forget" \in Pcs
      BY IdleFacts, SetField DEF Pcs
    <3> HIDE DEF a1
    <3>2. a2 \in Job
      BY <2>2, <3>1, <3>1, SetField
    <3> HIDE DEF a2
    <3>3. a3 \in Job
      BY <2>2, <3>1, <3>2, SetField
    <3> HIDE DEF a3
    <3>4. a4 \in Job
      BY <2>2, <3>1, <3>3, SetField
    <3> HIDE DEF a4
    <3> QED BY <3>4 DEF a1, a2, a3, a4
  <2>4. /\ new.op = "DELETE" /\ new.pc = "forget" /\ new.p = p /\ new.seen = db[p]
        /\ new.root = Absent /\ new.remote = Absent
    BY DEF Idle
  <2>5. Receive(h, new)
    BY <2>1
  <2> HIDE DEF new
  <2>6. JobOK(new) /\ Wants(new) = Absent
    BY <2>2, <2>4 DEF JobOK, Wants
  <2> QED BY <2>1, <2>3, <2>4, <2>5, <2>6 DEF Received
<1>6. CASE ReceivePush(h)
  <2>1. PICK p \in Projects :
          /\ db[p] # None
          /\ Receive(h, [Idle EXCEPT !.op = "PUSH", !.pc = "lock", !.p = p, !.seen = db[p]])
          /\ UNCHANGED <<gone, kept>>
    BY <1>6 DEF ReceivePush
  <2> DEFINE new == [Idle EXCEPT !.op = "PUSH", !.pc = "lock", !.p = p, !.seen = db[p]]
  <2>2. db[p] \in Row
    BY <1>1, <2>1
  <2>3. new \in Job
    <3> DEFINE a1 == [Idle EXCEPT !.op = "PUSH"]
               a2 == [a1 EXCEPT !.pc = "lock"]
               a3 == [a2 EXCEPT !.p = p]
               a4 == [a3 EXCEPT !.seen = db[p]]
    <3>1. a1 \in Job /\ "lock" \in Pcs
      BY IdleFacts, SetField DEF Pcs
    <3> HIDE DEF a1
    <3>2. a2 \in Job
      BY <2>2, <3>1, <3>1, SetField
    <3> HIDE DEF a2
    <3>3. a3 \in Job
      BY <2>2, <3>1, <3>2, SetField
    <3> HIDE DEF a3
    <3>4. a4 \in Job
      BY <2>2, <3>1, <3>3, SetField
    <3> HIDE DEF a4
    <3> QED BY <3>4 DEF a1, a2, a3, a4
  <2>4. /\ new.op = "PUSH" /\ new.pc = "lock" /\ new.p = p /\ new.seen = db[p]
        /\ new.root = Absent /\ new.remote = Absent
    BY DEF Idle
  <2>5. Receive(h, new)
    BY <2>1
  <2> HIDE DEF new
  <2>6. JobOK(new) /\ Wants(new) = Absent
    BY <2>2, <2>4 DEF JobOK, Wants
  <2> QED BY <2>1, <2>3, <2>4, <2>5, <2>6 DEF Received
<1> QED BY <1>2, <1>3, <1>4, <1>5, <1>6 DEF ReceiveAny

(* The requests after one came in.                                             *)
LEMMA ReceivedJobs ==
  ASSUME ProjectTypeOK, JobsOK, NEW h \in Handlers, NEW new, Received(h, new)
  PROVE  /\ job' \in [Handlers -> Job]
         /\ \A k \in Handlers : LET o == IF k = h THEN new ELSE job[k]
                                IN  /\ job'[k].op = o.op /\ job'[k].pc = o.pc /\ job'[k].p = o.p
                                    /\ job'[k].root = o.root /\ job'[k].remote = o.remote
                                    /\ job'[k].seen = o.seen /\ job'[k].held = o.held
                                    /\ job'[k].rows = o.rows
         /\ \A k \in Handlers : JobOK(job[k])'
         /\ \A k \in Handlers : job'[k].alone => k = h /\ Busy = {}
         /\ \A k \in Handlers : k # h /\ job[k].pc = "idle" => job'[k] = job[k]
<1> DEFINE moves == new.op = "DELETE" \/ (new.op = "PATCH" /\ new.root # Absent)
           mine == [new EXCEPT !.alone = (Busy = {}),
                               !.moving = moves \/ \E b \in Busy : job[b].moving]
           other(k) == [job[k] EXCEPT !.alone = FALSE, !.moving = @ \/ moves]
<1>1. /\ job' = [k \in Handlers |-> IF k = h THEN mine
                                    ELSE IF k \in Busy THEN other(k) ELSE job[k]]
      /\ job[h].pc = "idle"
  BY DEF Received, Receive
<1>2. new \in Job /\ \A k \in Handlers : job[k] \in Job
  BY DEF Received, ProjectTypeOK
<1>3. mine \in Job /\ \A k \in Handlers : other(k) \in Job
  <2> DEFINE free == Busy = {}
             moved == moves \/ \E b \in Busy : job[b].moving
             also(k) == job[k].moving \/ moves
             a == [new EXCEPT !.alone = free]
             c(k) == [job[k] EXCEPT !.alone = FALSE]
  <2>1. free \in BOOLEAN /\ moved \in BOOLEAN /\ \A k \in Handlers : also(k) \in BOOLEAN
    OBVIOUS
  <2> HIDE DEF free, moved, also
  <2>2. a \in Job /\ \A k \in Handlers : c(k) \in Job
    BY <1>2, <2>1, SetField
  <2>3. \A k \in Handlers : c(k).moving = job[k].moving
    BY <1>2 DEF Job
  <2> HIDE DEF a, c
  <2>4. [a EXCEPT !.moving = moved] \in Job
    BY <2>1, <2>2, SetField
  <2>5. ASSUME NEW k \in Handlers PROVE [c(k) EXCEPT !.moving = also(k)] \in Job
    BY <2>1, <2>2, SetField
  <2>6. mine = [a EXCEPT !.moving = moved]
    BY DEF a, moved, free
  <2>7. ASSUME NEW k \in Handlers PROVE other(k) = [c(k) EXCEPT !.moving = also(k)]
    BY <2>3 DEF c, also
  <2> QED BY <2>4, <2>5, <2>6, <2>7
<1>4. /\ mine.op = new.op /\ mine.pc = new.pc /\ mine.p = new.p /\ mine.root = new.root
      /\ mine.remote = new.remote /\ mine.seen = new.seen /\ mine.held = new.held
      /\ mine.rows = new.rows /\ (mine.alone => Busy = {})
  <2> HIDE DEF moves
  <2> QED BY <1>2 DEF Job
<1>5. ASSUME NEW k \in Handlers
      PROVE  /\ other(k).op = job[k].op /\ other(k).pc = job[k].pc /\ other(k).p = job[k].p
             /\ other(k).root = job[k].root /\ other(k).remote = job[k].remote
             /\ other(k).seen = job[k].seen /\ other(k).held = job[k].held
             /\ other(k).rows = job[k].rows /\ ~ other(k).alone
  <2> HIDE DEF moves
  <2> QED BY <1>2 DEF Job
<1> HIDE DEF mine, other, moves
<1>6. ASSUME NEW k \in Handlers, k # h, job[k].pc = "idle" PROVE job'[k] = job[k] /\ ~ job[k].alone
  BY <1>1, <1>6, IdleFacts DEF Busy, JobsOK, JobOK
<1>7. ASSUME NEW k \in Handlers PROVE JobOK(job[k])'
  <2>1. JobOK(new) /\ new.pc # "idle" /\ JobOK(job[k])
    BY DEF Received, JobsOK
  <2>2. CASE k = h
    <3>1. JobOK(mine)
      BY <1>4, <2>1 DEF JobOK
    <3> QED BY <1>1, <2>2, <3>1 DEF JobOK
  <2>3. CASE k # h /\ k \in Busy
    <3>1. JobOK(other(k))
      BY <1>5, <2>1, <2>3 DEF JobOK, Busy
    <3> QED BY <1>1, <2>3, <3>1 DEF JobOK
  <2>4. CASE k # h /\ k \notin Busy
    BY <1>1, <2>1, <2>4 DEF JobOK
  <2> QED BY <2>2, <2>3, <2>4
<1>8. ASSUME NEW k \in Handlers, job'[k].alone PROVE k = h /\ Busy = {}
  BY <1>1, <1>4, <1>5, <1>6, <1>8 DEF Busy
<1>9. job' \in [Handlers -> Job]
  BY <1>1, <1>2, <1>3
<1>10. ASSUME NEW k \in Handlers
       PROVE  LET o == IF k = h THEN new ELSE job[k]
              IN  /\ job'[k].op = o.op /\ job'[k].pc = o.pc /\ job'[k].p = o.p
                  /\ job'[k].root = o.root /\ job'[k].remote = o.remote
                  /\ job'[k].seen = o.seen /\ job'[k].held = o.held
                  /\ job'[k].rows = o.rows
  <2>1. CASE k = h
    BY <1>1, <1>4, <2>1
  <2>2. CASE k # h /\ k \in Busy
    BY <1>1, <1>5, <2>2
  <2>3. CASE k # h /\ k \notin Busy
    BY <1>1, <2>3
  <2> QED BY <2>1, <2>2, <2>3
<1> QED BY <1>6, <1>7, <1>8, <1>9, <1>10

LEMMA NextJobs ==
  ProjectTypeOK /\ JobsOK /\ [ProjectNext]_projectVars => job' \in [Handlers -> Job] /\ JobsOK'
<1>1. SUFFICES ASSUME ProjectTypeOK, JobsOK, [ProjectNext]_projectVars
               PROVE  job' \in [Handlers -> Job] /\ JobsOK'
  OBVIOUS
<1>2. job \in [Handlers -> Job]
  BY <1>1 DEF ProjectTypeOK
<1>3. ASSUME NEW h \in Handlers, ReceiveAny(h) PROVE job' \in [Handlers -> Job] /\ JobsOK'
  <2>1. PICK new : Received(h, new)
    BY <1>1, <1>3, ReceivedFacts
  <2>2. phase' = "up"
    BY <2>1 DEF Received, Receive, Daemon
  <2>3. job' \in [Handlers -> Job] /\ \A k \in Handlers : JobOK(job[k])'
    BY <1>1, <2>1, ReceivedJobs
  <2> QED BY <2>2, <2>3 DEF JobsOK
<1>4. ASSUME NEW h \in Handlers, AcquireLock(h) \/ Step(h)
      PROVE  job' \in [Handlers -> Job] /\ JobsOK'
  <2>1. PICK new : Goes(h, new)
    BY <1>1, <1>4, StepGoes
  <2>2. phase' = phase /\ phase = "up"
    BY <1>1, <1>4, <2>1, StepFrame DEF Goes, JobsOK
  <2>3. job' \in [Handlers -> Job]
    BY <1>2, <2>1 DEF Goes
  <2>4. ASSUME NEW k \in Handlers PROVE JobOK(job[k])'
    <3>1. job'[k] = IF k = h THEN new ELSE job[k]
      BY <1>2, <2>1 DEF Goes
    <3>2. JobOK(job'[k])
      BY <1>1, <2>1, <3>1 DEF Goes, JobsOK
    <3> QED BY <3>2 DEF JobOK
  <2> QED BY <2>2, <2>3, <2>4 DEF JobsOK
<1>5. CASE SyncNext \/ UNCHANGED projectVars
  <2>1. UNCHANGED <<job, phase>>
    BY <1>5 DEF SyncNext, SyncList, SyncLock, SyncRefresh, SyncStep, projectVars
  <2> QED BY <1>1, <1>2, <2>1 DEF JobsOK, JobOK
<1>6. CASE Startup
  <2>1. UNCHANGED job /\ phase # "up"
    BY <1>6 DEF Startup, RebuildDatabase, RecoverExistingProjects, BootstrapHome,
                BackfillManifests, RememberAtStartup, Booting
  <2> QED BY <1>1, <1>2, <2>1 DEF JobsOK, JobOK
<1>7. CASE Crash
  <2>1. job' = [h \in Handlers |-> Idle]
    BY <1>7 DEF Crash
  <2>2. \A h \in Handlers : job'[h] = Idle
    BY <2>1
  <2> QED BY <2>1, <2>2, IdleFacts DEF JobsOK, JobOK
<1> QED BY <1>1, <1>3, <1>4, <1>5, <1>6, <1>7 DEF ProjectNext

-----------------------------------------------------------------------------
(* Types                                                                       *)

Rows == [Projects -> Row \cup {None}]
Manifest == [Roots -> Projects \cup {None}]
Origin == [Roots -> Urls \cup {None}]
Registry == [active : [Projects -> Roots \cup {None}], removed : [Projects -> SUBSET Roots]]
Answer == [said : BOOLEAN, is : BOOLEAN, moving : BOOLEAN]
DataOK ==
  /\ db \in Rows /\ manifest \in Manifest /\ origin \in Origin /\ registry \in Registry
  /\ answer \in Answer /\ faults \in 0..MaxFaults
GhostsOK == gone \subseteq Projects /\ kept \subseteq Projects /\ torn \subseteq Projects

LEMMA TypeParts ==
  ProjectTypeOK <=>
    /\ DataOK /\ GhostsOK /\ job \in [Handlers -> Job]
    /\ sync \in [rows : Rows, held : Roots \cup {None}, at : Projects \cup {None}]
    /\ phase \in {"down", "lost", "recovered", "home", "backfilled", "up"}
    /\ requests \in 0..MaxRequests /\ crashes \in 0..MaxCrashes
BY DEF ProjectTypeOK, DataOK, GhostsOK, Rows, Manifest, Origin, Registry, Answer

LEMMA RegistryTypes ==
  ASSUME NEW reg \in Registry
  PROVE  /\ \A rows \in Rows : Remember(reg, rows) \in Registry
         /\ \A p \in Projects, row \in Row : Forget(reg, p, row) \in Registry
         /\ \A p \in Projects, row \in Row : Restore(reg, p, row) \in Registry
<1>1. ASSUME NEW rows \in Rows PROVE Remember(reg, rows) \in Registry
  <2> DEFINE new == [p \in Projects |->
        IF rows[p] = None \/ (reg.removed[p] # {} /\ reg.active[p] = None)
          THEN reg.active[p] ELSE rows[p].root]
  <2>1. new \in [Projects -> Roots \cup {None}]
    BY DEF Rows, Row, Registry
  <2> HIDE DEF new
  <2>2. [reg EXCEPT !.active = new] \in Registry
    BY <2>1 DEF Registry
  <2> QED BY <2>2 DEF Remember, new
<1>2. ASSUME NEW p \in Projects, NEW row \in Row PROVE Forget(reg, p, row) \in Registry
  <2> DEFINE more == {row.root} \cup ({reg.active[p]} \ {None})
             cut == [reg EXCEPT !.removed[p] = @ \cup more]
  <2>1. more \subseteq Roots
    BY DEF Row, Registry
  <2> HIDE DEF more
  <2>2. cut \in Registry
    BY <2>1 DEF Registry
  <2>3. Forget(reg, p, row) = [cut EXCEPT !.active[p] = None]
    <3>1. Forget(reg, p, row) = [reg EXCEPT !.removed[p] = @ \cup more, !.active[p] = None]
      BY DEF Forget, more, Registry
    <3> QED BY <3>1
  <2> HIDE DEF cut
  <2> QED BY <2>2, <2>3 DEF Registry
<1>3. ASSUME NEW p \in Projects, NEW row \in Row PROVE Restore(reg, p, row) \in Registry
  BY DEF Restore, Row, Registry
<1> QED BY <1>1, <1>2, <1>3

LEMMA CutFacts ==
  ASSUME JobsOK, NEW hs \in SUBSET Handlers
  PROVE  HalfDone(hs) \subseteq Projects /\ Moved(hs) \subseteq Projects
BY DEF HalfDone, Moved, JobsOK, JobOK

LEMMA StepData ==
  ASSUME ProjectTypeOK, JobsOK, NEW h \in Handlers, AcquireLock(h) \/ Step(h)
  PROVE  DataOK' /\ GhostsOK'
<1> DEFINE j == job[h]
<1>1. DataOK /\ GhostsOK /\ j \in Job /\ JobOK(j) /\ j.pc \in Pcs /\ j.remote \in Urls \cup {None, Absent}
      /\ j.rows \in Rows /\ MaxFaults \in Nat /\ j.root \in Roots \cup {Absent} /\ j.p \in Projects \cup {None}
      /\ j.held \in Roots \cup {None} /\ j.seen \in Row \cup {None}
  BY TypeParts, JobFields, ProjectsAssumption DEF ProjectTypeOK, JobsOK, Rows
<1>2. j.pc # "idle" => j.p \in Projects
  BY <1>1 DEF JobOK
<1>3. faults < MaxFaults => faults + 1 \in 0..MaxFaults
  BY <1>1 DEF DataOK
<1>4. ASSUME NEW r \in Row PROVE r.root \in Roots /\ r.remote \in Urls \cup {None}
  BY DEF Row
<1>5. CASE PostStore(h)
  <2>1. UNCHANGED <<origin, registry, answer, faults, gone, kept, torn>> /\ j.pc = "store"
        /\ \/ UNCHANGED <<db, manifest>>
           \/ db' = [db EXCEPT ![j.p] = j.seen] /\ manifest' = [manifest EXCEPT ![j.seen.root] = j.p]
    BY <1>5 DEF PostStore, Ghosts
  <2>2. j.seen \in Row /\ j.p \in Projects
    BY <1>1, <2>1 DEF JobOK
  <2> QED BY <1>1, <1>4, <2>1, <2>2 DEF DataOK, GhostsOK, Rows, Manifest
<1>6. CASE RestoreProject(h) \/ DeleteUndo(h)
  <2>1. /\ UNCHANGED <<db, manifest, origin, answer, faults, gone>> /\ j.pc \in {"restore", "undo"}
        /\ registry' = Restore(registry, j.p, j.seen)
        /\ kept' \subseteq kept \cup {j.p} /\ torn' \subseteq torn
    BY <1>6 DEF RestoreProject, DeleteUndo
  <2>2. j.seen \in Row /\ j.p \in Projects
    BY <1>1, <2>1 DEF JobOK
  <2>3. registry' \in Registry
    BY <1>1, <2>1, <2>2, RegistryTypes DEF DataOK
  <2> QED BY <1>1, <2>1, <2>2, <2>3 DEF DataOK, GhostsOK
<1>7. CASE ImportCreate(h)
  <2>1. UNCHANGED <<manifest, origin, registry, answer, faults, gone, kept, torn>> /\ j.pc = "create"
        /\ \/ UNCHANGED db
           \/ db' = [db EXCEPT ![j.p] = j.seen]
    BY <1>7 DEF ImportCreate, Ghosts
  <2>2. j.seen \in Row /\ j.p \in Projects
    BY <1>1, <2>1 DEF JobOK
  <2> QED BY <1>1, <2>1, <2>2 DEF DataOK, GhostsOK, Rows
<1>8. CASE ImportRemote(h)
  <2>1. /\ UNCHANGED <<db, manifest, registry, answer, gone, kept, torn>> /\ j.pc = "hint"
        /\ \/ db[j.p] # None /\ origin' = [origin EXCEPT ![db[j.p].root] = j.remote]
           \/ UNCHANGED origin
        /\ UNCHANGED faults \/ (faults < MaxFaults /\ faults' = faults + 1)
    BY <1>8 DEF ImportRemote, Ghosts
  <2>2. j.remote \in Urls \cup {None} /\ j.p \in Projects
    BY <1>1, <2>1 DEF JobOK
  <2>3. db[j.p] # None => db[j.p].root \in Roots
    BY <1>1, <1>4, <2>2 DEF DataOK, Rows
  <2>4. origin' \in Origin
    BY <1>1, <2>1, <2>2, <2>3 DEF DataOK, Origin
  <2>5. faults' \in 0..MaxFaults
    BY <1>1, <1>3, <2>1 DEF DataOK
  <2> QED BY <1>1, <2>1, <2>4, <2>5 DEF DataOK, GhostsOK
<1>9. CASE ImportReread(h) \/ PatchManifest(h)
  <2>1. UNCHANGED <<db, origin, registry, answer, faults, gone, kept, torn>>
        /\ \/ UNCHANGED manifest
           \/ db[j.p] # None /\ manifest' = [manifest EXCEPT ![db[j.p].root] = j.p]
    BY <1>9 DEF ImportReread, PatchManifest, Ghosts
  <2>2. j.p \in Projects
    BY <1>2, <1>9 DEF ImportReread, PatchManifest
  <2> QED BY <1>1, <1>4, <2>1, <2>2 DEF DataOK, GhostsOK, Rows, Manifest
<1>10. CASE AcquireLock(h) \/ RereadLocked(h) \/ PatchList(h)
  <2>1. UNCHANGED <<db, manifest, origin, registry, answer, faults, gone, kept, torn>>
    BY <1>10 DEF AcquireLock, RereadLocked, PatchList, Ghosts
  <2> QED BY <1>1, <2>1 DEF DataOK, GhostsOK
<1>11. CASE PatchUpdate(h)
  <2>1. /\ UNCHANGED <<manifest, origin, registry, answer, gone, kept>> /\ j.pc = "update"
        /\ db' = db \/ (j.root # Absent /\ db[j.p] # None /\ db' = [db EXCEPT ![j.p].root = j.root])
        /\ UNCHANGED faults \/ (faults < MaxFaults /\ faults' = faults + 1)
        /\ torn' \subseteq torn \cup {j.p}
    BY <1>11 DEF PatchUpdate
  <2>2. db' \in Rows
    BY <1>1, <1>2, <2>1 DEF DataOK, Rows, Row
  <2>3. faults' \in 0..MaxFaults
    BY <1>1, <1>3, <2>1 DEF DataOK
  <2> QED BY <1>1, <1>2, <2>1, <2>2, <2>3 DEF DataOK, GhostsOK
<1>12. CASE PatchRemote(h)
  <2>1. UNCHANGED <<db, manifest, registry, answer, faults, gone, kept, torn>> /\ j.pc = "remote"
        /\ origin' = [origin EXCEPT ![j.held] = j.remote]
    BY <1>12 DEF PatchRemote, Ghosts
  <2>2. j.remote \in Urls \cup {None} /\ j.held \in Roots
    BY <1>1, <2>1 DEF JobOK
  <2> QED BY <1>1, <2>1, <2>2 DEF DataOK, GhostsOK, Origin
<1>13. CASE PatchPersist(h)
  <2>1. UNCHANGED <<manifest, origin, registry, faults, gone, kept, torn>> /\ j.pc = "persist"
        /\ \/ UNCHANGED <<db, answer>>
           \/ /\ db[j.p] # None /\ db' = [db EXCEPT ![j.p].remote = j.remote]
              /\ answer' = [said |-> j.seen.remote # j.remote, is |-> db[j.p].remote # j.remote,
                            moving |-> j.moving]
    BY <1>13 DEF PatchPersist
  <2>2. j.remote \in Urls \cup {None} /\ j.p \in Projects
    BY <1>1, <2>1 DEF JobOK
  <2>3. db' \in Rows
    BY <1>1, <2>1, <2>2 DEF DataOK, Rows, Row
  <2>4. answer' \in Answer
    <3> DEFINE said == j.seen.remote # j.remote
               is == db[j.p].remote # j.remote
    <3>1. said \in BOOLEAN /\ is \in BOOLEAN
      OBVIOUS
    <3>2. answer' = answer \/ answer' = [said |-> said, is |-> is, moving |-> j.moving]
      BY <2>1
    <3> HIDE DEF said, is
    <3>3. j.moving \in BOOLEAN
      BY <1>1 DEF Job
    <3> QED BY <1>1, <3>1, <3>2, <3>3 DEF DataOK, Answer
  <2> QED BY <1>1, <2>1, <2>3, <2>4 DEF DataOK, GhostsOK
<1>14. CASE PatchRemember(h)
  <2>1. /\ UNCHANGED <<db, manifest, origin, answer, faults, gone, torn>> /\ j.pc = "remember"
        /\ registry' = Remember(registry, j.rows) /\ kept' \subseteq kept \cup {j.p}
    BY <1>14 DEF PatchRemember
  <2>2. registry' \in Registry
    BY <1>1, <2>1, RegistryTypes DEF DataOK
  <2> QED BY <1>1, <1>2, <2>1, <2>2 DEF DataOK, GhostsOK
<1>15. CASE DeleteForget(h)
  <2>1. /\ UNCHANGED <<db, manifest, origin, answer, faults, kept, torn>> /\ j.pc = "forget"
        /\ registry' = Forget(registry, j.p, j.seen) /\ gone' \subseteq gone \cup {j.p}
    BY <1>15 DEF DeleteForget
  <2>2. j.seen \in Row /\ j.p \in Projects
    BY <1>1, <2>1 DEF JobOK
  <2>3. registry' \in Registry
    BY <1>1, <2>1, <2>2, RegistryTypes DEF DataOK
  <2> QED BY <1>1, <2>1, <2>2, <2>3 DEF DataOK, GhostsOK
<1>16. CASE DeleteCommit(h)
  <2>1. UNCHANGED <<manifest, origin, registry, answer, faults, gone, kept, torn>>
        /\ db' = [db EXCEPT ![j.p] = None]
    BY <1>16 DEF DeleteCommit, Ghosts
  <2> QED BY <1>1, <2>1 DEF DataOK, GhostsOK, Rows
<1>17. CASE DeleteCommitFails(h)
  BY <1>1, <1>3, <1>17 DEF DeleteCommitFails, DataOK, GhostsOK
<1>18. CASE PushGit(h)
  <2>1. UNCHANGED <<db, manifest, registry, answer, faults, gone, kept, torn>> /\ j.pc = "git"
        /\ origin' = [origin EXCEPT ![j.seen.root] = j.seen.remote]
    BY <1>18 DEF PushGit, Ghosts
  <2>2. j.seen \in Row
    BY <1>1, <2>1 DEF JobOK
  <2> QED BY <1>1, <1>4, <2>1, <2>2 DEF DataOK, GhostsOK, Origin
<1>19. CASE Fails(h)
  <2>1. HalfDone({h}) \subseteq Projects /\ Moved({h}) \subseteq Projects
    BY CutFacts
  <2> QED BY <1>1, <1>3, <1>19, <2>1 DEF Fails, Throw, DataOK, GhostsOK
<1> QED
  BY <1>5, <1>6, <1>7, <1>8, <1>9, <1>10, <1>11, <1>12, <1>13, <1>14, <1>15, <1>16, <1>17, <1>18,
     <1>19 DEF Step

LEMMA BootData ==
  ASSUME ProjectTypeOK, JobsOK, Startup \/ Crash
  PROVE  DataOK' /\ GhostsOK'
<1>1. DataOK /\ GhostsOK
  BY TypeParts
<1>2. CASE RebuildDatabase \/ RecoverExistingProjects
  <2>1. UNCHANGED <<manifest, registry, origin, gone, kept, torn, answer, faults>>
        /\ db' \in Discovered \cup {db}
    BY <1>2 DEF RebuildDatabase, RecoverExistingProjects, Booting
  <2>2. Discovered \subseteq Rows
    BY DEF Discovered, Rows
  <2> QED BY <1>1, <2>1, <2>2 DEF DataOK, GhostsOK
<1>3. CASE BootstrapHome
  <2>1. UNCHANGED <<registry, origin, gone, kept, torn, answer, faults>>
    BY <1>3 DEF BootstrapHome, Booting
  <2>2. db' \in Rows /\ manifest' \in Manifest
    <3>1. CASE UNCHANGED <<db, manifest>>
      BY <1>1, <3>1 DEF DataOK
    <3>2. ASSUME NEW p \in Projects, NEW r \in Managed,
                 db' = [db EXCEPT ![p] = [root |-> r, remote |-> None]],
                 manifest' = [manifest EXCEPT ![r] = p]
          PROVE  db' \in Rows /\ manifest' \in Manifest
      BY <1>1, <3>2, ProjectsAssumption DEF DataOK, Rows, Row, Manifest
    <3> QED BY <1>3, <3>1, <3>2 DEF BootstrapHome
  <2> QED BY <1>1, <2>1, <2>2 DEF DataOK, GhostsOK
<1>4. CASE BackfillManifests
  <2>1. UNCHANGED <<db, registry, origin, gone, kept, torn, answer, faults>>
        /\ manifest' = [r \in Roots |->
             IF manifest[r] = None /\ \E p \in Projects : db[p] # None /\ db[p].root = r
               THEN CHOOSE p \in Projects : db[p] # None /\ db[p].root = r
               ELSE manifest[r]]
    BY <1>4 DEF BackfillManifests, Booting
  <2>2. ASSUME NEW r \in Roots, \E p \in Projects : db[p] # None /\ db[p].root = r
        PROVE  (CHOOSE p \in Projects : db[p] # None /\ db[p].root = r) \in Projects
    BY <2>2
  <2>3. manifest' \in Manifest
    BY <1>1, <2>1, <2>2 DEF DataOK, Manifest
  <2> QED BY <1>1, <2>1, <2>3 DEF DataOK, GhostsOK
<1>5. CASE RememberAtStartup
  BY <1>1, <1>5, RegistryTypes DEF RememberAtStartup, Booting, DataOK, GhostsOK
<1>6. CASE Crash
  <2>1. HalfDone(Handlers) \subseteq Projects /\ Moved(Handlers) \subseteq Projects
    BY CutFacts
  <2>2. NoRows \in Rows
    BY DEF NoRows, Rows
  <2> QED BY <1>1, <1>6, <2>1, <2>2 DEF Crash, DataOK, GhostsOK
<1> QED BY <1>2, <1>3, <1>4, <1>5, <1>6 DEF Startup

LEMMA NextTypes ==
  ProjectTypeOK /\ JobsOK /\ SyncOK /\ [ProjectNext]_projectVars => ProjectTypeOK' /\ SyncOK'
<1>1. SUFFICES ASSUME ProjectTypeOK, JobsOK, SyncOK, [ProjectNext]_projectVars
               PROVE  ProjectTypeOK' /\ SyncOK'
  OBVIOUS
<1> DEFINE Sync == [rows : Rows, held : Roots \cup {None}, at : Projects \cup {None}]
           Phase == {"down", "lost", "recovered", "home", "backfilled", "up"}
<1>2. /\ DataOK /\ GhostsOK /\ sync \in Sync /\ phase \in Phase
      /\ requests \in 0..MaxRequests /\ crashes \in 0..MaxCrashes
  BY <1>1, TypeParts
<1>3. MaxRequests \in Nat /\ MaxFaults \in Nat /\ MaxCrashes \in Nat
  BY ProjectsAssumption
<1>4. job' \in [Handlers -> Job]
  BY <1>1, NextJobs
<1>5. ASSUME DataOK', GhostsOK', sync' \in Sync, SyncOK', phase' \in Phase,
             requests' \in 0..MaxRequests, crashes' \in 0..MaxCrashes
      PROVE  ProjectTypeOK' /\ SyncOK'
  <2>1. ProjectTypeOK' <=>
          /\ DataOK' /\ GhostsOK' /\ job' \in [Handlers -> Job] /\ sync' \in Sync
          /\ phase' \in Phase /\ requests' \in 0..MaxRequests /\ crashes' \in 0..MaxCrashes
    BY DEF ProjectTypeOK, DataOK, GhostsOK, Rows, Manifest, Origin, Registry, Answer
  <2> QED BY <1>4, <1>5, <2>1
<1>6. ASSUME NEW h \in Handlers, ReceiveAny(h) PROVE ProjectTypeOK' /\ SyncOK'
  <2>1. PICK new : Received(h, new)
    BY <1>1, <1>6, ReceivedFacts
  <2>2. /\ UNCHANGED <<db, manifest, origin, registry, answer, torn, faults, sync, phase, crashes>>
        /\ gone' \subseteq gone /\ kept' \subseteq kept
        /\ requests < MaxRequests /\ requests' = requests + 1
    BY <2>1 DEF Received, Receive, Daemon
  <2>3. DataOK' /\ GhostsOK' /\ SyncOK'
    BY <1>1, <1>2, <2>2 DEF DataOK, GhostsOK, SyncOK
  <2>4. requests' \in 0..MaxRequests
    BY <1>2, <1>3, <2>2
  <2> QED BY <1>2, <1>5, <2>2, <2>3, <2>4
<1>7. ASSUME NEW h \in Handlers, AcquireLock(h) \/ Step(h) PROVE ProjectTypeOK' /\ SyncOK'
  <2>1. UNCHANGED <<sync, phase, crashes, requests>> /\ DataOK' /\ GhostsOK'
    BY <1>1, <1>7, StepFrame, StepData
  <2> QED BY <1>1, <1>2, <1>5, <2>1 DEF SyncOK
<1>8. CASE SyncNext
  <2>1. /\ UNCHANGED <<db, manifest, registry, job, phase, requests, crashes, answer, gone, kept, torn>>
        /\ faults' = faults \/ (faults < MaxFaults /\ faults' = faults + 1)
    BY <1>8 DEF SyncNext, SyncList, SyncLock, SyncRefresh, SyncStep, Ghosts
  <2>2. faults' \in 0..MaxFaults
    BY <1>2, <1>3, <2>1 DEF DataOK
  <2>3. sync' \in Sync /\ SyncOK' /\ origin' \in Origin
    <3>1. CASE SyncList
      <4> DEFINE rows == [p \in Projects |-> IF db[p] # None /\ db[p].remote # None THEN db[p] ELSE None]
      <4>1. sync = Resting /\ sync' = [sync EXCEPT !.rows = rows] /\ UNCHANGED origin
        BY <3>1 DEF SyncList
      <4>2. rows \in Rows
        BY <1>2 DEF DataOK, Rows
      <4> HIDE DEF rows
      <4> QED BY <1>2, <4>1, <4>2 DEF Resting, SyncOK, DataOK
    <3>2. CASE SyncLock
      <4>1. PICK p \in Projects :
              /\ sync.rows[p] # None
              /\ sync' = [sync EXCEPT !.held = sync.rows[p].root, !.at = p]
        BY <3>2 DEF SyncLock
      <4>2. sync.rows[p] \in Row /\ UNCHANGED origin
        BY <1>2, <3>2, <4>1 DEF Rows, SyncLock
      <4>3. sync.rows[p].root \in Roots
        BY <4>2 DEF Row
      <4> QED BY <1>2, <4>1, <4>2, <4>3 DEF SyncOK, DataOK
    <3>3. CASE SyncRefresh
      <4>1. /\ sync.at # None /\ sync.rows[sync.at] \in Row /\ sync.held \in Roots
            /\ sync' = [sync EXCEPT !.held = None, !.at = None, !.rows[sync.at] = None]
            /\ origin' = origin \/ origin' = [origin EXCEPT ![sync.held] = sync.rows[sync.at].remote]
        BY <1>1, <3>3 DEF SyncRefresh, SyncOK, SyncDone
      <4>2. sync.rows[sync.at].remote \in Urls \cup {None}
        BY <4>1 DEF Row
      <4>3. origin' \in Origin
        BY <1>2, <4>1, <4>2 DEF DataOK, Origin
      <4>4. sync' \in Sync /\ sync'.at = None
        BY <1>2, <4>1 DEF Rows
      <4> QED BY <4>3, <4>4 DEF SyncOK
    <3> QED BY <1>8, <3>1, <3>2, <3>3 DEF SyncNext
  <2>4. DataOK' /\ GhostsOK'
    BY <1>2, <2>1, <2>2, <2>3 DEF DataOK, GhostsOK
  <2> QED BY <1>2, <1>5, <2>1, <2>3, <2>4
<1>9. CASE Startup
  <2>1. UNCHANGED <<sync, requests, crashes>> /\ phase' \in Phase
    BY <1>9 DEF Startup, RebuildDatabase, RecoverExistingProjects, BootstrapHome,
                BackfillManifests, RememberAtStartup, Booting
  <2>2. DataOK' /\ GhostsOK'
    BY <1>1, <1>9, BootData
  <2> QED BY <1>1, <1>2, <1>5, <2>1, <2>2 DEF SyncOK
<1>10. CASE Crash
  <2>1. sync' = Resting /\ phase' \in Phase /\ crashes < MaxCrashes /\ crashes' = crashes + 1
        /\ UNCHANGED requests
    BY <1>10 DEF Crash
  <2>2. DataOK' /\ GhostsOK'
    BY <1>1, <1>10, BootData
  <2>3. sync' \in Sync /\ SyncOK'
    BY <2>1 DEF Resting, SyncOK, NoRows, Rows
  <2>4. crashes' \in 0..MaxCrashes
    BY <1>2, <1>3, <2>1
  <2> QED BY <1>2, <1>5, <2>1, <2>2, <2>3, <2>4
<1>11. CASE UNCHANGED projectVars
  BY <1>1, <1>2, <1>5, <1>11 DEF projectVars, DataOK, GhostsOK, SyncOK
<1> QED BY <1>1, <1>6, <1>7, <1>8, <1>9, <1>10, <1>11 DEF ProjectNext

-----------------------------------------------------------------------------
(* What is gone stays gone                                                     *)

LEMMA StillNotPending ==
  ASSUME job \in [Handlers -> Job], NEW h \in Handlers, NEW new, Goes(h, new), NEW p \in Projects,
         ~ RestorePending(p), new.pc = "undo" => job[h].p # p
  PROVE  ~ RestorePending(p)'
<1>1. \A k \in Handlers : job'[k] = IF k = h THEN new ELSE job[k]
  BY DEF Goes
<1>2. new = Idle \/ (new.p = job[h].p /\ new.op = job[h].op /\ h \in Busy)
  BY DEF Goes, Busy
<1>3. ASSUME NEW k \in Handlers, k \in Busy',
             job'[k].p = p, job'[k].op \in {"POST", "IMPORT"} \/ job'[k].pc = "undo"
      PROVE  FALSE
  <2>1. CASE k = h
    BY <1>1, <1>2, <1>3, <2>1, IdleFacts DEF RestorePending, Busy
  <2>2. CASE k # h
    BY <1>1, <1>3, <2>2 DEF RestorePending, Busy
  <2> QED BY <2>1, <2>2
<1> QED BY <1>3 DEF RestorePending, Busy

LEMMA RegistryFacts ==
  ASSUME NEW reg \in Registry, NEW p \in Projects
  PROVE  /\ \A rows \in Rows :
              /\ Remember(reg, rows).removed = reg.removed
              /\ Remember(reg, rows).active[p] =
                   IF rows[p] = None \/ (reg.removed[p] # {} /\ reg.active[p] = None)
                     THEN reg.active[p] ELSE rows[p].root
         /\ \A q \in Projects, row \in Row :
              /\ Restore(reg, q, row).removed = reg.removed
              /\ Restore(reg, q, row).active[p] = IF p = q THEN row.root ELSE reg.active[p]
              /\ Forget(reg, q, row).active[p] = IF p = q THEN None ELSE reg.active[p]
              /\ p # q => Forget(reg, q, row).removed[p] = reg.removed[p]
              /\ p = q => Forget(reg, q, row).removed[p] # {}
<1>1. ASSUME NEW rows \in Rows
      PROVE  /\ Remember(reg, rows).removed = reg.removed
             /\ Remember(reg, rows).active[p] =
                   IF rows[p] = None \/ (reg.removed[p] # {} /\ reg.active[p] = None)
                     THEN reg.active[p] ELSE rows[p].root
  BY DEF Remember, Registry
<1>2. ASSUME NEW q \in Projects, NEW row \in Row
      PROVE  /\ Restore(reg, q, row).removed = reg.removed
             /\ Restore(reg, q, row).active[p] = IF p = q THEN row.root ELSE reg.active[p]
             /\ Forget(reg, q, row).active[p] = IF p = q THEN None ELSE reg.active[p]
             /\ p # q => Forget(reg, q, row).removed[p] = reg.removed[p]
             /\ p = q => Forget(reg, q, row).removed[p] # {}
  BY DEF Restore, Forget, Registry, Row
<1> QED BY <1>1, <1>2

LEMMA StepGone ==
  ASSUME ProjectTypeOK, JobsOK, GoneOK, NEW h \in Handlers, AcquireLock(h) \/ Step(h)
  PROVE  GoneOK'
<1> DEFINE j == job[h]
<1>1. PICK new : Goes(h, new)
  BY StepGoes
<1>2. /\ DataOK /\ GhostsOK /\ JobOK(j) /\ j.pc \in Pcs /\ j.rows \in Rows /\ j.seen \in Row \cup {None}
      /\ job \in [Handlers -> Job] /\ (j.pc # "idle" => j.p \in Projects)
  BY TypeParts, JobFields DEF ProjectTypeOK, JobsOK, Rows, JobOK
<1>3. \A k \in Handlers : job'[k] = IF k = h THEN new ELSE job[k]
  BY <1>1, <1>2 DEF Goes
(* What is left to show of each project: the registry, and the row unless the  *)
(* request just committed or failed to.                                        *)
<1>4. ASSUME NEW p \in gone, p \in Projects,
             registry'.active[p] = None, registry'.removed[p] # {},
             db[p] = None => db'[p] = None,
             j.pc = "commit" /\ j.p = p => db'[p] = None, new.pc = "undo" => j.p # p
      PROVE  /\ registry'.active[p] = None /\ registry'.removed[p] # {}
             /\ ~ RestorePending(p)'
             /\ db'[p] = None \/ \E k \in Handlers : job'[k].p = p /\ job'[k].pc = "commit"
  <2>1. ~ RestorePending(p)'
    BY <1>1, <1>2, <1>4, StillNotPending DEF GoneOK
  <2>2. ASSUME NEW k \in Handlers, job[k].p = p, job[k].pc = "commit"
        PROVE  db'[p] = None \/ (job'[k].p = p /\ job'[k].pc = "commit")
    BY <1>3, <1>4, <2>2
  <2> QED BY <1>4, <2>1, <2>2 DEF GoneOK
<1>5. ASSUME gone' \subseteq gone,
             \A p \in gone' : /\ registry'.active[p] = None /\ registry'.removed[p] # {}
                              /\ db[p] = None => db'[p] = None
                              /\ j.pc = "commit" /\ j.p = p => db'[p] = None
                              /\ new.pc = "undo" => j.p # p
      PROVE  GoneOK'
  <2>1. ASSUME NEW p \in gone'
        PROVE  /\ registry'.active[p] = None /\ registry'.removed[p] # {}
               /\ ~ RestorePending(p)'
               /\ db'[p] = None \/ \E k \in Handlers : job'[k].p = p /\ job'[k].pc = "commit"
    BY <1>2, <1>4, <1>5, <2>1 DEF GhostsOK
  <2> QED BY <2>1 DEF GoneOK, RestorePending, Busy
<1>6. \A p \in gone : registry.active[p] = None /\ registry.removed[p] # {} /\ ~ RestorePending(p)
  BY DEF GoneOK
<1>7. \A p \in gone : j.p = p /\ j.pc # "idle" => j.op \notin {"POST", "IMPORT"} /\ j.pc # "undo"
  BY <1>6 DEF RestorePending, Busy
<1>8. CASE PostStore(h) \/ ImportCreate(h)
  <2>1. /\ UNCHANGED <<registry, gone>> /\ j.pc \in {"store", "create"}
        /\ db' = db \/ db' = [db EXCEPT ![j.p] = j.seen]
        /\ job' = [job EXCEPT ![h] = Idle] \/ \E pc \in {"restore", "hint", "reread"} : Goto(h, pc)
    BY <1>8 DEF PostStore, ImportCreate, Ghosts, End
  <2>2. j.p \notin gone /\ new.pc # "undo"
    <3>1. j.p \notin gone
      BY <1>2, <1>7, <2>1 DEF JobOK
    <3>2. job'[h].pc \in {"idle", "restore", "hint", "reread"}
      BY <1>2, <2>1, IdleFacts DEF Goto, Job
    <3> QED BY <1>3, <3>1, <3>2
  <2>3. \A p \in gone : db'[p] = db[p]
    BY <1>2, <2>1, <2>2 DEF DataOK, GhostsOK, Rows
  <2> QED BY <1>5, <1>6, <2>1, <2>2, <2>3
<1>9. CASE RestoreProject(h) \/ DeleteUndo(h)
  <2>1. /\ UNCHANGED <<db, gone>> /\ j.pc \in {"restore", "undo"} /\ job' = [job EXCEPT ![h] = Idle]
        /\ registry' = Restore(registry, j.p, j.seen)
    BY <1>9 DEF RestoreProject, DeleteUndo, End
  <2>2. j.p \notin gone /\ j.seen \in Row /\ j.p \in Projects
    BY <1>2, <1>7, <2>1 DEF JobOK
  <2>3. \A p \in gone : registry'.active[p] = registry.active[p] /\ registry'.removed[p] = registry.removed[p]
    BY <1>2, <2>1, <2>2, RegistryFacts DEF DataOK, GhostsOK
  <2>4. new.pc # "undo"
    BY <1>2, <1>3, <2>1, IdleFacts
  <2> QED BY <1>5, <1>6, <2>1, <2>2, <2>3, <2>4
<1>10. ASSUME UNCHANGED <<registry, gone>>, j.pc # "commit", new.pc # "undo",
              \A p \in Projects : db[p] = None => db'[p] = None
       PROVE  GoneOK'
  BY <1>2, <1>5, <1>6, <1>10 DEF GhostsOK
<1>11. CASE \/ ImportRemote(h) \/ ImportReread(h) \/ PatchManifest(h) \/ AcquireLock(h)
            \/ RereadLocked(h) \/ PatchList(h) \/ PatchRemote(h) \/ PushGit(h) \/ Fails(h)
  <2>1. UNCHANGED <<registry, gone, db>> /\ j.pc # "commit"
    BY <1>11 DEF ImportRemote, ImportReread, PatchManifest, AcquireLock, RereadLocked, PatchList,
                 PatchRemote, PushGit, Fails, Throw, Ghosts
  <2>2. job'[h].pc # "undo"
    BY <1>2, <1>11, IdleFacts
       DEF ImportRemote, ImportReread, PatchManifest, AcquireLock, RereadLocked, PatchList,
           PatchRemote, PushGit, Fails, Throw, Goto, End, Job
  <2> QED BY <1>3, <1>10, <2>1, <2>2
<1>12. CASE PatchUpdate(h) \/ PatchPersist(h)
  <2>1. /\ UNCHANGED <<registry, gone>> /\ j.pc \in {"update", "persist"}
        /\ \/ db' = db
           \/ db[j.p] # None /\ \E v : db' = [db EXCEPT ![j.p] = v]
    BY <1>12 DEF PatchUpdate, PatchPersist
  <2>2. job'[h].pc # "undo"
    BY <1>2, <1>12, IdleFacts DEF PatchUpdate, PatchPersist, Applied, Goto, End, Job
  <2>3. \A p \in Projects : db[p] = None => db'[p] = None
    BY <1>2, <2>1 DEF DataOK, Rows
  <2> QED BY <1>3, <1>10, <2>1, <2>2, <2>3
<1>13. CASE PatchRemember(h)
  <2>1. /\ UNCHANGED <<db, gone>> /\ j.pc = "remember" /\ job' = [job EXCEPT ![h] = Idle]
        /\ registry' = Remember(registry, j.rows)
    BY <1>13 DEF PatchRemember, End
  <2>2. \A p \in gone : registry'.active[p] = None /\ registry'.removed[p] # {}
    BY <1>2, <1>6, <2>1, RegistryFacts DEF DataOK, GhostsOK
  <2>3. new.pc # "undo"
    BY <1>2, <1>3, <2>1, IdleFacts
  <2> QED BY <1>5, <1>6, <2>1, <2>2, <2>3
<1>14. CASE DeleteForget(h)
  <2>1. /\ UNCHANGED db /\ j.pc = "forget" /\ Goto(h, "commit")
        /\ registry' = Forget(registry, j.p, j.seen)
        /\ gone' = IF RestorePending(j.p) THEN gone ELSE gone \cup {j.p}
    BY <1>14 DEF DeleteForget
  <2>2. j.seen \in Row /\ j.p \in Projects
    BY <1>2, <2>1 DEF JobOK
  <2>3. job'[h].pc = "commit" /\ job'[h].p = j.p
    BY <1>2, <2>1 DEF Goto, Job
  <2>4. new.pc = "commit"
    BY <1>3, <2>3
  <2>5. \A p \in gone \cup {j.p} : registry'.active[p] = None /\ registry'.removed[p] # {}
    BY <1>2, <1>6, <2>1, <2>2, RegistryFacts DEF DataOK, GhostsOK
  <2>6. ASSUME NEW p \in gone'
        PROVE  /\ registry'.active[p] = None /\ registry'.removed[p] # {}
               /\ ~ RestorePending(p)'
               /\ db'[p] = None \/ \E k \in Handlers : job'[k].p = p /\ job'[k].pc = "commit"
    <3>1. p \in Projects /\ registry'.active[p] = None /\ registry'.removed[p] # {}
      BY <1>2, <2>1, <2>2, <2>5, <2>6 DEF GhostsOK
    <3>2. CASE p = j.p /\ ~ RestorePending(p)
      <4>1. ~ RestorePending(p)'
        BY <1>1, <1>2, <2>4, <3>1, <3>2, StillNotPending
      <4> QED BY <2>3, <3>1, <3>2, <4>1
    <3>3. CASE p \in gone
      BY <1>4, <2>1, <2>4, <3>1, <3>3
    <3> QED BY <2>1, <2>6, <3>2, <3>3
  <2> QED BY <2>6 DEF GoneOK, RestorePending, Busy
<1>15. CASE DeleteCommit(h)
  <2>1. /\ UNCHANGED <<registry, gone>> /\ db' = [db EXCEPT ![j.p] = None]
        /\ job' = [job EXCEPT ![h] = Idle]
    BY <1>15 DEF DeleteCommit, Ghosts, End
  <2>2. \A p \in Projects : (db[p] = None => db'[p] = None) /\ (j.p = p => db'[p] = None)
    BY <1>2, <2>1 DEF DataOK, Rows
  <2>3. new.pc # "undo"
    BY <1>2, <1>3, <2>1, IdleFacts
  <2> QED BY <1>2, <1>5, <1>6, <2>1, <2>2, <2>3 DEF GhostsOK
<1>16. CASE DeleteCommitFails(h)
  <2>1. UNCHANGED <<registry, db>> /\ gone' = gone \ {j.p}
    BY <1>16 DEF DeleteCommitFails
  <2> QED BY <1>5, <1>6, <2>1
<1> QED
  BY <1>8, <1>9, <1>11, <1>12, <1>13, <1>14, <1>15, <1>16 DEF Step

(* A root whose project was removed and has no place is not discovered.        *)
LEMMA RemovedHasNoRoot ==
  ASSUME ProjectTypeOK, NEW p \in Projects, registry.active[p] = None, registry.removed[p] # {}
  PROVE  RootsOf(p) = {}
BY ProjectsAssumption DEF RootsOf, DiscoverRoots, RemovedRoot, ProjectTypeOK

LEMMA RegisteredRoot ==
  ASSUME NEW p \in Projects, registry.active[p] # None, manifest[registry.active[p]] = p
  PROVE  registry.active[p] \in RootsOf(p)
BY ProjectsAssumption DEF RootsOf, DiscoverRoots, RemovedRoot

LEMMA NextGone ==
  ProjectTypeOK /\ JobsOK /\ GoneOK /\ [ProjectNext]_projectVars => GoneOK'
<1>1. SUFFICES ASSUME ProjectTypeOK, JobsOK, GoneOK, [ProjectNext]_projectVars
               PROVE  GoneOK'
  OBVIOUS
<1>2. DataOK /\ GhostsOK /\ job \in [Handlers -> Job]
  BY <1>1, TypeParts
<1>3. ASSUME NEW h \in Handlers, ReceiveAny(h) PROVE GoneOK'
  <2>1. PICK new : Received(h, new)
    BY <1>1, <1>3, ReceivedFacts
  <2>2. UNCHANGED <<db, registry>> /\ gone' \subseteq gone /\ job[h].pc = "idle"
        /\ new.pc \in {"store", "lock", "forget"} /\ (new.op \in {"POST", "IMPORT"} => new.p \notin gone')
    BY <2>1 DEF Received, Receive
  <2>3. \A k \in Handlers : LET o == IF k = h THEN new ELSE job[k]
                            IN  job'[k].op = o.op /\ job'[k].pc = o.pc /\ job'[k].p = o.p
    BY <1>1, <2>1, ReceivedJobs
  <2>4. ASSUME NEW p \in gone', RestorePending(p)' PROVE FALSE
    <3>1. PICK k \in Handlers : /\ job'[k].pc # "idle" /\ job'[k].p = p
                                /\ job'[k].op \in {"POST", "IMPORT"} \/ job'[k].pc = "undo"
      BY <2>4 DEF RestorePending, Busy
    <3>2. CASE k = h
      BY <2>2, <2>3, <2>4, <3>1, <3>2
    <3>3. CASE k # h
      BY <1>1, <2>2, <2>3, <2>4, <3>1, <3>3 DEF GoneOK, RestorePending, Busy
    <3> QED BY <3>2, <3>3
  <2>5. ASSUME NEW p \in gone', NEW k \in Handlers, job[k].p = p, job[k].pc = "commit"
        PROVE  job'[k].p = p /\ job'[k].pc = "commit"
    BY <2>2, <2>3, <2>5
  <2>6. ASSUME NEW p \in gone'
        PROVE  /\ registry'.active[p] = None /\ registry'.removed[p] # {}
               /\ db'[p] = None \/ \E k \in Handlers : job'[k].p = p /\ job'[k].pc = "commit"
    BY <1>1, <2>2, <2>5, <2>6 DEF GoneOK
  <2> QED BY <2>4, <2>6 DEF GoneOK, RestorePending, Busy
<1>4. ASSUME NEW h \in Handlers, AcquireLock(h) \/ Step(h) PROVE GoneOK'
  BY <1>1, <1>4, StepGone
<1>5. CASE SyncNext \/ UNCHANGED projectVars
  <2>1. UNCHANGED <<db, registry, job, gone>>
    BY <1>5 DEF SyncNext, SyncList, SyncLock, SyncRefresh, SyncStep, Ghosts, projectVars
  <2> QED BY <1>1, <2>1 DEF GoneOK, RestorePending, Busy
<1>6. ASSUME UNCHANGED <<job, gone>>,
             \A p \in gone : /\ registry'.active[p] = None /\ registry'.removed[p] # {}
                             /\ db[p] = None => db'[p] = None
      PROVE  GoneOK'
  BY <1>1, <1>6 DEF GoneOK, RestorePending, Busy
<1>7. CASE RebuildDatabase \/ RecoverExistingProjects
  <2>1. UNCHANGED <<job, gone, registry>> /\ db' \in Discovered \cup {db}
    BY <1>7 DEF RebuildDatabase, RecoverExistingProjects, Booting
  <2>2. \A p \in gone : RootsOf(p) = {}
    BY <1>1, <1>2, RemovedHasNoRoot DEF GoneOK, GhostsOK
  <2>3. \A p \in gone : db' # db => db'[p] = None
    BY <1>2, <2>1, <2>2 DEF Discovered, GhostsOK
  <2> QED BY <1>1, <1>6, <2>1, <2>3 DEF GoneOK
<1>8. CASE BootstrapHome
  <2>1. UNCHANGED <<job, gone, registry>>
    BY <1>8 DEF BootstrapHome, Booting
  <2>2. \/ db' = db
        \/ \E q \in Projects : registry.removed[q] = {} /\ \E v : db' = [db EXCEPT ![q] = v]
    BY <1>8 DEF BootstrapHome
  <2>3. \A p \in gone : db'[p] = db[p]
    BY <1>1, <1>2, <2>2 DEF GoneOK, DataOK, GhostsOK, Rows
  <2> QED BY <1>1, <1>6, <2>1, <2>3 DEF GoneOK
<1>9. CASE BackfillManifests
  BY <1>1, <1>6, <1>9 DEF BackfillManifests, Booting, GoneOK
<1>10. CASE RememberAtStartup
  <2>1. UNCHANGED <<job, gone, db>> /\ registry' = Remember(registry, db)
    BY <1>10 DEF RememberAtStartup, Booting
  <2>2. \A p \in gone : registry'.active[p] = None /\ registry'.removed[p] # {}
    BY <1>1, <1>2, <2>1, RegistryFacts DEF GoneOK, DataOK, GhostsOK
  <2> QED BY <1>6, <2>1, <2>2
<1>11. CASE Crash
  <2>1. /\ UNCHANGED registry /\ db' \in {db, NoRows} /\ gone' = gone \ HalfDone(Handlers)
        /\ job' = [h \in Handlers |-> Idle]
    BY <1>11 DEF Crash
  <2>2. \A h \in Handlers : job'[h] = Idle
    BY <2>1
  <2>3. \A p \in gone' : ~ RestorePending(p)'
    BY <2>2, IdleFacts DEF RestorePending, Busy
  <2>4. ASSUME NEW p \in gone' PROVE db'[p] = None
    <3>1. db[p] = None
      BY <1>1, <2>1, <2>4 DEF GoneOK, HalfDone
    <3>2. NoRows[p] = None
      BY <1>2, <2>1, <2>4 DEF NoRows, GhostsOK
    <3> QED BY <2>1, <3>1, <3>2
  <2>5. ASSUME NEW p \in gone' PROVE registry'.active[p] = None /\ registry'.removed[p] # {}
    BY <1>1, <2>1, <2>5 DEF GoneOK
  <2> QED BY <2>3, <2>4, <2>5 DEF GoneOK, RestorePending, Busy
<1> QED
  BY <1>1, <1>3, <1>4, <1>5, <1>7, <1>8, <1>9, <1>10, <1>11 DEF ProjectNext, Startup

-----------------------------------------------------------------------------
(* Roots                                                                       *)

(* What a step of a request does to rows and manifests.                        *)
LEMMA StepWrites ==
  ASSUME ProjectTypeOK, JobsOK, NEW h \in Handlers, AcquireLock(h) \/ Step(h)
  PROVE  /\ \A p \in Projects : db'[p] # None =>
              \/ db[p] # None /\ db'[p].root = db[p].root
              \/ p = job[h].p /\ Wants(job[h]) \in Roots /\ db'[p].root = Wants(job[h])
         /\ \A r \in Roots : manifest'[r] # manifest[r] =>
              /\ manifest'[r] = job[h].p
              /\ r = Wants(job[h]) \/ (db[job[h].p] # None /\ r = db[job[h].p].root)
<1> DEFINE j == job[h]
<1>1. /\ DataOK /\ JobOK(j) /\ j.pc \in Pcs /\ j.seen \in Row \cup {None}
      /\ j.root \in Roots \cup {Absent} /\ (j.pc # "idle" => j.p \in Projects)
  BY TypeParts, JobFields DEF ProjectTypeOK, JobsOK, JobOK
<1>2. CASE PostStore(h)
  <2>1. /\ j.pc = "store"
        /\ \/ UNCHANGED <<db, manifest>>
           \/ db' = [db EXCEPT ![j.p] = j.seen] /\ manifest' = [manifest EXCEPT ![j.seen.root] = j.p]
    BY <1>2 DEF PostStore
  <2>2. j.seen \in Row /\ Wants(j) = j.seen.root /\ j.p \in Projects
    BY <1>1, <2>1 DEF JobOK, Wants
  <2>3. j.seen.root \in Roots
    BY <2>2 DEF Row
  <2> HIDE DEF j
  <2> QED BY <1>1, <2>1, <2>2, <2>3 DEF j, DataOK, Rows, Manifest
<1>3. CASE ImportCreate(h)
  <2>1. /\ j.pc = "create" /\ UNCHANGED manifest
        /\ db' = db \/ (j.root # Absent /\ db' = [db EXCEPT ![j.p] = j.seen])
    BY <1>3 DEF ImportCreate
  <2>2. j.root # Absent => j.seen.root = j.root /\ Wants(j) = j.root
    BY <1>1, <2>1 DEF JobOK, Wants
  <2> QED BY <1>1, <2>1, <2>2 DEF DataOK, Rows
<1>4. CASE PatchUpdate(h)
  <2>1. /\ j.pc = "update" /\ UNCHANGED manifest
        /\ db' = db \/ (j.root # Absent /\ db[j.p] # None /\ db' = [db EXCEPT ![j.p].root = j.root])
    BY <1>4 DEF PatchUpdate
  <2>2. Wants(j) = j.root /\ j.p \in Projects
    BY <1>1, <2>1 DEF Wants
  <2>3. db' # db => db[j.p] \in Row /\ j.root \in Roots
    BY <1>1, <2>1, <2>2 DEF DataOK, Rows
  <2>4. ASSUME NEW p \in Projects, db'[p] # None
        PROVE  \/ db[p] # None /\ db'[p].root = db[p].root
               \/ p = j.p /\ j.root \in Roots /\ db'[p].root = j.root
    BY <1>1, <2>1, <2>3, <2>4 DEF DataOK, Rows, Row
  <2> QED BY <2>1, <2>2, <2>4
<1>5. CASE PatchPersist(h)
  <2>1. /\ UNCHANGED manifest
        /\ db' = db \/ (db[j.p] # None /\ db' = [db EXCEPT ![j.p].remote = j.remote])
    BY <1>5 DEF PatchPersist
  <2>2. ASSUME NEW p \in Projects, db'[p] # None PROVE db[p] # None /\ db'[p].root = db[p].root
    BY <1>1, <2>1, <2>2 DEF DataOK, Rows, Row
  <2> QED BY <2>1, <2>2
<1>6. CASE DeleteCommit(h)
  <2>1. UNCHANGED manifest /\ db' = [db EXCEPT ![j.p] = None]
    BY <1>6 DEF DeleteCommit
  <2> QED BY <1>1, <2>1 DEF DataOK, Rows
<1>7. CASE ImportReread(h) \/ PatchManifest(h)
  <2>1. /\ UNCHANGED db
        /\ \/ UNCHANGED manifest
           \/ db[j.p] # None /\ manifest' = [manifest EXCEPT ![db[j.p].root] = j.p]
    BY <1>7 DEF ImportReread, PatchManifest
  <2> QED BY <1>1, <2>1 DEF DataOK, Manifest
<1>8. CASE \/ RestoreProject(h) \/ DeleteUndo(h) \/ ImportRemote(h) \/ AcquireLock(h)
           \/ RereadLocked(h) \/ PatchList(h) \/ PatchRemote(h) \/ PatchRemember(h) \/ DeleteForget(h)
           \/ DeleteCommitFails(h) \/ PushGit(h) \/ Fails(h)
  BY <1>8 DEF RestoreProject, DeleteUndo, ImportRemote, AcquireLock, RereadLocked, PatchList, PatchRemote,
              PatchRemember, DeleteForget, DeleteCommitFails, PushGit, Fails, Throw
<1> QED BY <1>2, <1>3, <1>4, <1>5, <1>6, <1>7, <1>8 DEF Step

LEMMA StepRoots ==
  ASSUME ProjectTypeOK, JobsOK, RootsOK, WantsOK, NEW h \in Handlers, AcquireLock(h) \/ Step(h)
  PROVE  RootsOK' /\ WantsOK'
<1> DEFINE j == job[h]
<1>1. PICK new : Goes(h, new)
  BY StepGoes
<1>2. /\ DataOK /\ DataOK' /\ job \in [Handlers -> Job] /\ JobOK(j) /\ j.pc # "idle" /\ j.p \in Projects
  BY <1>1, TypeParts, StepData DEF JobsOK, JobOK, Goes
<1>3. /\ \A p \in Projects : db[p] # None => db[p].root \in Roots
      /\ \A p \in Projects : db'[p] # None => db'[p].root \in Roots
  BY <1>2 DEF DataOK, Rows, Row
<1>4. /\ \A p \in Projects : db'[p] # None =>
           \/ db[p] # None /\ db'[p].root = db[p].root
           \/ p = j.p /\ Wants(j) \in Roots /\ db'[p].root = Wants(j)
      /\ \A r \in Roots : manifest'[r] # manifest[r] =>
           manifest'[r] = j.p /\ (r = Wants(j) \/ (db[j.p] # None /\ r = db[j.p].root))
  BY StepWrites
<1>5. \A r \in Roots : r = Wants(j) => Wanted(h, r)
  BY <1>2, ProjectsAssumption DEF Wanted
<1>6. ASSUME NEW k \in Handlers, NEW r \in Roots, Wanted(k, r)'
      PROVE  Wanted(k, r) /\ job'[k].p = job[k].p
  <2>1. job'[k] = IF k = h THEN new ELSE job[k]
    BY <1>1, <1>2 DEF Goes
  <2>2. CASE k = h
    <3>1. new.pc # "idle" /\ Wants(new) = r /\ r # Absent
      BY <1>6, <2>1, <2>2 DEF Wanted, Wants
    <3>2. new # Idle
      BY <3>1, IdleFacts
    <3>3. new.pc \notin {"idle", "store"} /\ new.p = j.p /\ new.root \in {j.root, Absent}
      BY <1>1, <3>2 DEF Goes
    <3>4. Wants(new) = new.root /\ new.root = j.root /\ j.root # Absent
      BY <3>1, <3>3 DEF Wants
    <3>5. Wants(j) = j.root
      BY <1>2, <3>4 DEF Wants, JobOK
    <3> QED BY <1>2, <2>1, <2>2, <3>1, <3>3, <3>4, <3>5 DEF Wanted
  <2>3. CASE k # h
    BY <1>6, <2>1, <2>3 DEF Wanted, Wants
  <2> QED BY <2>2, <2>3
<1> HIDE DEF j
<1>7. ASSUME NEW p \in Projects, NEW q \in Projects, db'[p] # None, db'[q] # None,
             db'[p].root = db'[q].root
      PROVE  p = q
  BY <1>2, <1>3, <1>4, <1>5, <1>7 DEF RootsOK, WantsOK, j
<1>8. ASSUME NEW p \in Projects, db'[p] # None PROVE manifest'[db'[p].root] \in {None, p}
  <2> DEFINE r == db'[p].root
  <2>1. r \in Roots
    BY <1>3, <1>8
  <2>2. CASE manifest'[r] = manifest[r]
    BY <1>2, <1>4, <1>5, <1>8, <2>1, <2>2 DEF RootsOK, WantsOK, j
  <2>3. CASE manifest'[r] # manifest[r]
    <3>1. manifest'[r] = j.p /\ (r = Wants(j) \/ (db[j.p] # None /\ r = db[j.p].root))
      BY <1>4, <2>1, <2>3
    <3>2. p = j.p
      BY <1>2, <1>4, <1>5, <1>8, <2>1, <3>1 DEF RootsOK, WantsOK, j
    <3> QED BY <3>1, <3>2
  <2> QED BY <2>2, <2>3
<1>9. ASSUME NEW k \in Handlers, NEW r \in Roots, Wanted(k, r)'
      PROVE  /\ manifest'[r] \in {None, job'[k].p}
             /\ \A p \in Projects \ {job'[k].p} : db'[p] # None => db'[p].root # r
             /\ \A l \in Handlers : Wanted(l, r)' => job'[l].p = job'[k].p
  <2>1. Wanted(k, r) /\ job'[k].p = job[k].p
    BY <1>6, <1>9
  <2>2. ASSUME NEW l \in Handlers, Wanted(l, r)' PROVE job'[l].p = job'[k].p
    BY <1>6, <1>9, <2>1, <2>2 DEF WantsOK
  <2>3. ASSUME NEW p \in Projects \ {job[k].p}, db'[p] # None PROVE db'[p].root # r
    BY <1>2, <1>4, <1>5, <2>1, <2>3 DEF WantsOK, j
  <2>4. manifest'[r] \in {None, job[k].p}
    <3>1. CASE manifest'[r] = manifest[r]
      BY <2>1, <3>1 DEF WantsOK
    <3>2. CASE manifest'[r] # manifest[r]
      <4>1. manifest'[r] = j.p /\ (r = Wants(j) \/ (db[j.p] # None /\ r = db[j.p].root))
        BY <1>4, <3>2
      <4>2. j.p = job[k].p
        BY <1>2, <1>5, <2>1, <4>1 DEF WantsOK, j
      <4> QED BY <4>1, <4>2
    <3> QED BY <3>1, <3>2
  <2> QED BY <2>1, <2>2, <2>3, <2>4
<1>10. RootsOK'
  BY <1>7, <1>8 DEF RootsOK
<1>11. WantsOK'
  BY <1>9 DEF WantsOK
<1> QED BY <1>10, <1>11

LEMMA ReceivedRoots ==
  ASSUME ProjectTypeOK, JobsOK, RootsOK, WantsOK, NEW h \in Handlers, ReceiveAny(h)
  PROVE  RootsOK' /\ WantsOK'
<1>1. PICK new : Received(h, new)
  BY ReceivedFacts
<1>2. /\ UNCHANGED <<db, manifest>> /\ job[h].pc = "idle" /\ new.p \in Projects
      /\ Wants(new) # Absent => Wants(new) \in Roots /\ Vacant(new.p, Wants(new))
  BY <1>1 DEF Received, Receive
<1>3. \A k \in Handlers : LET o == IF k = h THEN new ELSE job[k]
                          IN  /\ job'[k].pc = o.pc /\ job'[k].p = o.p /\ job'[k].root = o.root
                              /\ job'[k].seen = o.seen
  BY <1>1, ReceivedJobs
<1>4. \A k \in Handlers, r \in Roots : k # h =>
        (Wanted(k, r)' <=> Wanted(k, r)) /\ job'[k].p = job[k].p
  BY <1>3 DEF Wanted, Wants
<1>5. \A r \in Roots : Wanted(h, r)' => Vacant(new.p, r) /\ job'[h].p = new.p
  BY <1>2, <1>3 DEF Wanted, Wants
<1>6. RootsOK'
  BY <1>2 DEF RootsOK
<1>7. ASSUME NEW k \in Handlers, NEW r \in Roots, Wanted(k, r)'
      PROVE  /\ manifest'[r] \in {None, job'[k].p}
             /\ \A p \in Projects \ {job'[k].p} : db'[p] # None => db'[p].root # r
             /\ \A l \in Handlers : Wanted(l, r)' => job'[l].p = job'[k].p
  <2>1. CASE k = h
    <3>1. Vacant(new.p, r) /\ job'[k].p = new.p
      BY <1>5, <1>7, <2>1
    <3>2. ASSUME NEW l \in Handlers \ {h}, Wanted(l, r)' PROVE job'[l].p = new.p
      BY <1>4, <3>1, <3>2 DEF Vacant, Wanted
    <3> QED BY <1>2, <2>1, <3>1, <3>2 DEF Vacant
  <2>2. CASE k # h
    <3>1. Wanted(k, r) /\ job'[k].p = job[k].p
      BY <1>4, <1>7, <2>2
    <3>2. Wanted(h, r)' => job'[h].p = job[k].p
      BY <1>5, <3>1 DEF Vacant, Wanted
    <3>3. \A l \in Handlers \ {h} : Wanted(l, r)' => job'[l].p = job[k].p
      BY <1>4, <3>1 DEF WantsOK
    <3> QED BY <1>2, <3>1, <3>2, <3>3 DEF WantsOK
  <2> QED BY <2>1, <2>2
<1>8. WantsOK'
  BY <1>7 DEF WantsOK
<1> QED BY <1>6, <1>8

(* A row that is rebuilt is at a root whose manifest is of its project.        *)
LEMMA DiscoveredFacts ==
  ASSUME ProjectTypeOK, NEW rows \in Discovered, NEW p \in Projects
  PROVE  /\ rows[p] # None <=> RootsOf(p) # {}
         /\ rows[p] # None => /\ rows[p].root \in RootsOf(p) /\ rows[p].root \in Roots
                              /\ manifest[rows[p].root] = p
                              /\ registry.active[p] # None \/ registry.removed[p] = {}
<1>1. rows[p] # None <=> RootsOf(p) # {}
  BY DEF Discovered
<1>2. ASSUME rows[p] # None
      PROVE  /\ rows[p].root \in RootsOf(p) /\ rows[p].root \in Roots /\ manifest[rows[p].root] = p
             /\ registry.active[p] # None \/ registry.removed[p] = {}
  <2>1. rows[p].root \in RootsOf(p) /\ rows[p] \in Row
    BY <1>1, <1>2 DEF Discovered
  <2>2. rows[p].root \in Roots /\ manifest[rows[p].root] = p
    BY <2>1 DEF RootsOf, Row
  <2>3. registry.active[p] # None \/ registry.removed[p] = {}
    BY <1>1, <1>2, RemovedHasNoRoot
  <2> QED BY <2>1, <2>2, <2>3
<1> QED BY <1>1, <1>2

LEMMA BootRoots ==
  ASSUME ProjectTypeOK, JobsOK, RootsOK, Startup \/ Crash
  PROVE  RootsOK' /\ WantsOK'
<1>1. DataOK /\ job \in [Handlers -> Job]
  BY TypeParts
<1>2. WantsOK'
  <2>1. CASE Startup
    <3>1. UNCHANGED job /\ phase # "up"
      BY <2>1 DEF Startup, RebuildDatabase, RecoverExistingProjects, BootstrapHome,
                  BackfillManifests, RememberAtStartup, Booting
    <3> QED BY <3>1 DEF WantsOK, Wanted, JobsOK
  <2>2. CASE Crash
    <3>1. job' = [h \in Handlers |-> Idle]
      BY <2>2 DEF Crash
    <3>2. \A h \in Handlers : job'[h].pc = "idle"
      BY <3>1, IdleFacts
    <3> QED BY <3>2 DEF WantsOK, Wanted
  <2> QED BY <2>1, <2>2
<1>3. ASSUME RebuildDatabase \/ RecoverExistingProjects PROVE RootsOK'
  <2>1. UNCHANGED manifest /\ db' \in Discovered \cup {db}
    BY <1>3 DEF RebuildDatabase, RecoverExistingProjects
  <2>2. CASE db' \in Discovered
    <3>1. \A p \in Projects : db'[p] # None => manifest[db'[p].root] = p
      BY <2>2, DiscoveredFacts
    <3> QED BY <2>1, <3>1 DEF RootsOK
  <2> QED BY <2>1, <2>2 DEF RootsOK
<1>4. ASSUME BootstrapHome PROVE RootsOK'
  <2>1. CASE UNCHANGED <<db, manifest>>
    BY <2>1 DEF RootsOK
  <2>2. ASSUME db = NoRows, NEW p \in Projects, NEW r \in Managed,
               db' = [db EXCEPT ![p] = [root |-> r, remote |-> None]],
               manifest' = [manifest EXCEPT ![r] = p]
        PROVE  RootsOK'
    <3>1. \A q \in Projects : db'[q] # None => q = p /\ db'[q].root = r
      BY <2>2 DEF NoRows
    <3>2. manifest'[r] = p
      BY <1>1, <2>2, ProjectsAssumption DEF DataOK, Manifest
    <3> QED BY <3>1, <3>2 DEF RootsOK
  <2> QED BY <1>4, <2>1, <2>2 DEF BootstrapHome
<1>5. ASSUME BackfillManifests PROVE RootsOK'
  <2>1. /\ UNCHANGED db
        /\ manifest' = [r \in Roots |->
             IF manifest[r] = None /\ \E p \in Projects : db[p] # None /\ db[p].root = r
               THEN CHOOSE p \in Projects : db[p] # None /\ db[p].root = r
               ELSE manifest[r]]
    BY <1>5 DEF BackfillManifests
  <2>2. ASSUME NEW p \in Projects, db[p] # None PROVE manifest'[db[p].root] \in {None, p}
    <3>1. db[p].root \in Roots
      BY <1>1, <2>2 DEF DataOK, Rows, Row
    <3> DEFINE r == db[p].root
    <3>2. (CHOOSE q \in Projects : db[q] # None /\ db[q].root = r) = p
      <4>1. \A q \in Projects : db[q] # None /\ db[q].root = r => q = p
        BY <2>2 DEF RootsOK
      <4> QED BY <2>2, <4>1
    <3> QED BY <2>1, <2>2, <3>1, <3>2 DEF RootsOK
  <2> QED BY <2>1, <2>2 DEF RootsOK
<1>6. ASSUME RememberAtStartup PROVE RootsOK'
  BY <1>6 DEF RememberAtStartup, RootsOK
<1>7. ASSUME Crash PROVE RootsOK'
  <2>1. UNCHANGED manifest /\ db' \in {db, NoRows}
    BY <1>7 DEF Crash
  <2> QED BY <2>1 DEF RootsOK, NoRows
<1> QED BY <1>2, <1>3, <1>4, <1>5, <1>6, <1>7 DEF Startup

LEMMA NextRoots ==
  ProjectTypeOK /\ JobsOK /\ RootsOK /\ WantsOK /\ [ProjectNext]_projectVars => RootsOK' /\ WantsOK'
<1>1. SUFFICES ASSUME ProjectTypeOK, JobsOK, RootsOK, WantsOK, [ProjectNext]_projectVars
               PROVE  RootsOK' /\ WantsOK'
  OBVIOUS
<1>2. CASE SyncNext \/ UNCHANGED projectVars
  <2>1. UNCHANGED <<db, manifest, job>>
    BY <1>2 DEF SyncNext, SyncList, SyncLock, SyncRefresh, SyncStep, projectVars
  <2> QED BY <1>1, <2>1 DEF RootsOK, WantsOK, Wanted, Wants
<1> QED BY <1>1, <1>2, StepRoots, ReceivedRoots, BootRoots DEF ProjectNext
-----------------------------------------------------------------------------
(* Projects on which nothing was cut                                           *)

(* A request writes no manifest over one that is there.                        *)
LEMMA ManifestStays ==
  ASSUME ProjectTypeOK, JobsOK, RootsOK, WantsOK, NEW h \in Handlers, AcquireLock(h) \/ Step(h),
         NEW r \in Roots, manifest[r] # None
  PROVE  manifest'[r] = manifest[r]
<1>1. SUFFICES ASSUME manifest'[r] # manifest[r] PROVE FALSE
  OBVIOUS
<1>2. /\ manifest'[r] = job[h].p
      /\ r = Wants(job[h]) \/ (db[job[h].p] # None /\ r = db[job[h].p].root)
  BY <1>1, StepWrites
<1>3. PICK new : Goes(h, new)
  BY StepGoes
<1>4. job[h].pc # "idle" /\ job[h].p \in Projects
  BY <1>3 DEF Goes, JobsOK, JobOK
<1>5. CASE r = Wants(job[h])
  BY <1>1, <1>2, <1>4, <1>5, ProjectsAssumption DEF WantsOK, Wanted
<1>6. CASE db[job[h].p] # None /\ r = db[job[h].p].root
  BY <1>1, <1>2, <1>4, <1>6 DEF RootsOK
<1> QED BY <1>2, <1>5, <1>6

Halves == {"commit", "undo", "hint", "reread", "restore"}
Moves == {"hint", "reread", "remote", "persist", "manifest"}
Listed(p) == registry.active[p] # None \/ registry.removed[p] = {} \/ Doing(p, Halves)
Placed(p) == manifest[db[p].root] = p \/ Doing(p, Moves)

LEMMA TornParts ==
  TornOK <=> \A p \in Projects \ torn : db[p] # None => Listed(p) /\ Placed(p)
BY DEF TornOK, Listed, Placed, Halves, Moves

LEMMA StepTorn ==
  ASSUME ProjectTypeOK, JobsOK, RootsOK, WantsOK, TornOK, AloneOK,
         NEW h \in Handlers, AcquireLock(h) \/ Step(h),
         NEW p \in Projects, p \notin torn', db'[p] # None
  PROVE  Listed(p)' /\ Placed(p)'
<1> DEFINE j == job[h]
<1>1. PICK new : Goes(h, new)
  BY StepGoes
<1>2. /\ DataOK /\ JobOK(j) /\ j.pc \in Pcs /\ j.rows \in Rows /\ j.seen \in Row \cup {None}
      /\ job \in [Handlers -> Job] /\ j.pc # "idle" /\ j.p \in Projects
  BY <1>1, TypeParts, JobFields DEF ProjectTypeOK, JobsOK, Rows, JobOK, Goes
<1>3. \A k \in Handlers : job'[k] = IF k = h THEN new ELSE job[k]
  BY <1>1, <1>2 DEF Goes
<1>4. new.pc # "idle" => new.p = j.p
  BY <1>1, IdleFacts DEF Goes
<1>5. db[p] # None => db[p].root \in Roots
  BY <1>2 DEF DataOK, Rows, Row
<1>6. ASSUME NEW pcs, "idle" \notin pcs, Doing(p, pcs), j.p = p => j.pc \notin pcs \/ new.pc \in pcs
      PROVE  Doing(p, pcs)'
  BY <1>3, <1>4, <1>6 DEF Doing
<1>7. ASSUME NEW pcs, "idle" \notin pcs, j.p = p, new.pc \in pcs PROVE Doing(p, pcs)'
  BY <1>3, <1>4, <1>7 DEF Doing
<1>8. "idle" \notin Halves /\ "idle" \notin Moves
  BY DEF Halves, Moves
<1>9. ASSUME p \notin torn, db[p] # None, j.p = p => j.pc \notin Halves \/ new.pc \in Halves,
             registry.active[p] # None => registry'.active[p] # None,
             registry.removed[p] = {} => registry'.removed[p] = {}
      PROVE  Listed(p)'
  <2>1. Listed(p)
    BY <1>9, TornParts
  <2> QED BY <1>6, <1>8, <1>9, <2>1 DEF Listed
<1>10. ASSUME p \notin torn, db[p] # None, db'[p].root = db[p].root,
              j.p = p => j.pc \notin Moves \/ new.pc \in Moves
       PROVE  Placed(p)'
  <2>1. Placed(p)
    BY <1>10, TornParts
  <2>2. manifest[db[p].root] = p => manifest'[db'[p].root] = p
    BY <1>5, <1>10, ManifestStays, ProjectsAssumption
  <2> QED BY <1>6, <1>8, <1>10, <2>1, <2>2 DEF Placed
<1>11. ASSUME j.p = p, new.pc \in Halves PROVE Listed(p)'
  BY <1>7, <1>8, <1>11 DEF Listed
<1>12. ASSUME j.p = p, new.pc \in Moves PROVE Placed(p)'
  BY <1>7, <1>8, <1>12 DEF Placed
<1>13. new = job'[h]
  BY <1>3
<1>14. ASSUME NEW pc \in Pcs, Goto(h, pc) PROVE new.pc = pc
  BY <1>2, <1>13, <1>14 DEF Goto, Job
<1>15. End(h) => new.pc = "idle"
  BY <1>2, <1>13, IdleFacts DEF End
<1> HIDE DEF j
<1>16. CASE PostStore(h)
  <2>1. j.pc = "store" /\ UNCHANGED <<registry, torn>>
    BY <1>16 DEF PostStore, Ghosts, j
  <2>2. CASE UNCHANGED <<db, manifest>>
    BY <1>9, <1>10, <2>1, <2>2 DEF Halves, Moves
  <2>3. CASE /\ db' = [db EXCEPT ![j.p] = j.seen] /\ Goto(h, "restore")
             /\ manifest' = [manifest EXCEPT ![j.seen.root] = j.p]
    <3>1. new.pc = "restore" /\ j.seen \in Row
      BY <1>2, <1>14, <2>1, <2>3 DEF Pcs, JobOK
    <3>2. CASE p = j.p
      <4>1. j.seen.root \in Roots /\ db'[p] = j.seen
        BY <1>2, <2>3, <3>1, <3>2 DEF Row, DataOK, Rows
      <4>2. manifest'[db'[p].root] = p
        BY <1>2, <2>3, <3>2, <4>1 DEF DataOK, Manifest
      <4> QED BY <1>11, <3>1, <3>2, <4>2 DEF Placed, Halves
    <3>3. CASE p # j.p
      <4>1. db'[p] = db[p]
        BY <1>2, <2>3, <3>3 DEF DataOK, Rows
      <4> QED BY <1>9, <1>10, <2>1, <3>3, <4>1
    <3> QED BY <3>2, <3>3
  <2> QED BY <1>16, <2>2, <2>3 DEF PostStore, j
<1>17. CASE RestoreProject(h)
  <2>1. /\ j.pc = "restore" /\ UNCHANGED <<db, manifest>>
        /\ registry' = Restore(registry, j.p, j.seen)
        /\ torn' = IF j.alone THEN torn \ {j.p} ELSE torn
    BY <1>17 DEF RestoreProject, j
  <2>2. j.seen \in Row /\ j.seen.root \in Roots
    BY <1>2, <2>1 DEF JobOK, Row
  <2>3. registry'.removed = registry.removed
        /\ registry'.active[p] = IF p = j.p THEN j.seen.root ELSE registry.active[p]
    BY <1>2, <2>1, <2>2, RegistryFacts DEF DataOK
  <2>4. CASE p = j.p
    <3>1. Listed(p)'
      BY <2>2, <2>3, <2>4, ProjectsAssumption DEF Listed
    <3>2. CASE p \in torn
      <4>1. j.alone
        BY <2>1, <2>4, <3>2
      <4>2. db[p] = j.seen /\ manifest[j.seen.root] = p
        BY <2>1, <2>4, <4>1 DEF AloneOK, j
      <4> QED BY <2>1, <3>1, <4>2 DEF Placed
    <3>3. CASE p \notin torn
      BY <1>10, <2>1, <3>1, <3>3 DEF Moves
    <3> QED BY <3>2, <3>3
  <2>5. CASE p # j.p
    BY <1>9, <1>10, <2>1, <2>3, <2>5
  <2> QED BY <2>4, <2>5
<1>18. CASE ImportCreate(h)
  <2>1. /\ j.pc = "create" /\ UNCHANGED <<registry, torn>>
    BY <1>18 DEF ImportCreate, Ghosts, j
  <2>2. CASE UNCHANGED db /\ End(h)
    BY <1>9, <1>10, <2>1, <2>2 DEF Halves, Moves
  <2>3. CASE /\ db' = db \/ db' = [db EXCEPT ![j.p] = j.seen]
             /\ Goto(h, "hint") \/ Goto(h, "reread")
    <3>1. new.pc \in {"hint", "reread"}
      BY <1>14, <2>3 DEF Pcs
    <3>2. CASE p = j.p
      BY <1>11, <1>12, <3>1, <3>2 DEF Halves, Moves
    <3>3. CASE p # j.p
      <4>1. db'[p] = db[p]
        BY <1>2, <2>3, <3>3 DEF DataOK, Rows
      <4> QED BY <1>9, <1>10, <2>1, <3>3, <4>1
    <3> QED BY <3>2, <3>3
  <2> QED BY <1>18, <2>2, <2>3 DEF ImportCreate, j
<1>19. CASE ImportRemote(h)
  <2>1. UNCHANGED <<db, manifest, registry, torn>> /\ Goto(h, "reread")
    BY <1>19 DEF ImportRemote, Ghosts
  <2>2. new.pc = "reread"
    BY <1>14, <2>1 DEF Pcs
  <2> QED BY <1>9, <1>10, <2>1, <2>2 DEF Halves, Moves
<1>20. CASE ImportReread(h)
  <2>1. /\ j.pc = "reread" /\ UNCHANGED <<db, registry, torn>>
        /\ \/ db[j.p] = None /\ UNCHANGED manifest
           \/ /\ db[j.p] # None /\ manifest' = [manifest EXCEPT ![db[j.p].root] = j.p]
              /\ job'[h].pc = "restore"
    BY <1>2, <1>20 DEF ImportReread, Ghosts, j, Job
  <2>2. CASE p = j.p
    <3>1. new.pc = "restore" /\ manifest'[db'[p].root] = p
      BY <1>2, <1>5, <1>13, <2>1, <2>2 DEF DataOK, Manifest
    <3> QED BY <1>11, <2>2, <3>1 DEF Halves, Placed
  <2>3. CASE p # j.p
    BY <1>9, <1>10, <2>1, <2>3
  <2> QED BY <2>2, <2>3
<1>21. CASE AcquireLock(h) \/ RereadLocked(h) \/ PatchList(h) \/ PushGit(h)
  <2>1. UNCHANGED <<db, manifest, registry, torn>> /\ j.pc \in {"lock", "locked", "list", "git"}
    BY <1>21 DEF AcquireLock, RereadLocked, PatchList, PushGit, Ghosts, j
  <2> QED BY <1>9, <1>10, <2>1 DEF Halves, Moves
<1>22. CASE PatchUpdate(h)
  <2>1. /\ j.pc = "update" /\ UNCHANGED <<manifest, registry>>
        /\ db' = db \/ (j.root # Absent /\ db[j.p] # None /\ db' = [db EXCEPT ![j.p].root = j.root])
        /\ \/ job'[h].pc \in {"manifest", "remote"} /\ UNCHANGED torn
           \/ torn' = IF j.root = Absent THEN torn ELSE torn \cup {j.p}
    BY <1>2, <1>22 DEF PatchUpdate, Applied, Goto, j, Job
  <2>2. db[p] # None /\ (p # j.p \/ j.root = Absent => db'[p] = db[p]) /\ p \notin torn
    BY <1>2, <2>1 DEF DataOK, Rows
  <2>3. Listed(p)'
    BY <1>9, <2>1, <2>2 DEF Halves
  <2>4. CASE p # j.p \/ j.root = Absent
    BY <1>10, <2>1, <2>2, <2>3, <2>4 DEF Moves
  <2>5. CASE p = j.p /\ j.root # Absent
    <3>1. new.pc \in {"manifest", "remote"}
      BY <1>13, <2>1, <2>5
    <3> QED BY <1>12, <2>3, <2>5, <3>1 DEF Moves
  <2> QED BY <2>4, <2>5
<1>23. CASE PatchRemote(h)
  <2>1. UNCHANGED <<db, manifest, registry, torn>> /\ Goto(h, "persist") /\ j.pc = "remote"
    BY <1>23 DEF PatchRemote, Ghosts, j
  <2>2. new.pc = "persist"
    BY <1>14, <2>1 DEF Pcs
  <2> QED BY <1>9, <1>10, <2>1, <2>2 DEF Halves, Moves
<1>24. CASE PatchPersist(h)
  <2>1. /\ UNCHANGED <<manifest, registry, torn>> /\ job'[h].pc = "manifest" /\ j.pc = "persist"
        /\ db' = db \/ (db[j.p] # None /\ db' = [db EXCEPT ![j.p].remote = j.remote])
    BY <1>2, <1>24 DEF PatchPersist, Applied, j, Job
  <2>2. db[p] # None /\ db'[p].root = db[p].root
    BY <1>2, <2>1 DEF DataOK, Rows, Row
  <2> QED BY <1>9, <1>10, <1>13, <2>1, <2>2 DEF Halves, Moves
<1>25. CASE PatchManifest(h)
  <2>1. /\ UNCHANGED <<db, registry, torn>> /\ j.pc = "manifest"
        /\ \/ db[j.p] = None /\ UNCHANGED manifest
           \/ db[j.p] # None /\ manifest' = [manifest EXCEPT ![db[j.p].root] = j.p]
    BY <1>25 DEF PatchManifest, Ghosts, j
  <2>2. Listed(p)'
    BY <1>9, <2>1 DEF Halves
  <2>3. CASE p = j.p
    <3>1. manifest'[db'[p].root] = p
      BY <1>2, <1>5, <2>1, <2>3 DEF DataOK, Manifest
    <3> QED BY <2>2, <3>1 DEF Placed
  <2>4. CASE p # j.p
    BY <1>10, <2>1, <2>2, <2>4
  <2> QED BY <2>3, <2>4
<1>26. CASE PatchRemember(h)
  <2>1. /\ UNCHANGED <<db, manifest, torn>> /\ j.pc = "remember"
        /\ registry' = Remember(registry, j.rows)
    BY <1>26 DEF PatchRemember, j
  <2>2. registry'.removed = registry.removed
        /\ registry'.active[p] = IF j.rows[p] = None \/ (registry.removed[p] # {} /\ registry.active[p] = None)
                                   THEN registry.active[p] ELSE j.rows[p].root
    BY <1>2, <2>1, RegistryFacts DEF DataOK
  <2>3. j.rows[p] # None => j.rows[p].root # None
    BY <1>2, ProjectsAssumption DEF Rows, Row
  <2> QED BY <1>9, <1>10, <2>1, <2>2, <2>3 DEF Halves, Moves
<1>27. CASE DeleteForget(h)
  <2>1. /\ UNCHANGED <<db, manifest, torn>> /\ j.pc = "forget" /\ Goto(h, "commit")
        /\ registry' = Forget(registry, j.p, j.seen)
    BY <1>27 DEF DeleteForget, j
  <2>2. j.seen \in Row /\ new.pc = "commit"
    BY <1>2, <1>14, <2>1 DEF JobOK, Pcs
  <2>3. Placed(p)'
    BY <1>10, <2>1 DEF Moves
  <2>4. CASE p = j.p
    BY <1>11, <2>2, <2>3, <2>4 DEF Halves
  <2>5. CASE p # j.p
    <3>1. registry'.active[p] = registry.active[p] /\ registry'.removed[p] = registry.removed[p]
      BY <1>2, <2>1, <2>2, <2>5, RegistryFacts DEF DataOK
    <3> QED BY <1>9, <2>1, <2>3, <2>5, <3>1
  <2> QED BY <2>4, <2>5
<1>28. CASE DeleteCommit(h)
  <2>1. /\ UNCHANGED <<manifest, registry, torn>> /\ db' = [db EXCEPT ![j.p] = None]
    BY <1>28 DEF DeleteCommit, Ghosts, j
  <2>2. p # j.p /\ db'[p] = db[p]
    BY <1>2, <2>1 DEF DataOK, Rows
  <2> QED BY <1>9, <1>10, <2>1, <2>2
<1>29. CASE DeleteCommitFails(h)
  <2>1. UNCHANGED <<db, manifest, registry, torn>> /\ Goto(h, "undo") /\ j.pc = "commit"
    BY <1>29 DEF DeleteCommitFails, j
  <2>2. new.pc = "undo"
    BY <1>14, <2>1 DEF Pcs
  <2> QED BY <1>9, <1>10, <2>1, <2>2 DEF Halves, Moves
<1>30. CASE DeleteUndo(h)
  <2>1. /\ j.pc = "undo" /\ UNCHANGED <<db, manifest, torn>>
        /\ registry' = Restore(registry, j.p, j.seen)
    BY <1>30 DEF DeleteUndo, j
  <2>2. j.seen \in Row /\ j.seen.root \in Roots
    BY <1>2, <2>1 DEF JobOK, Row
  <2>3. registry'.removed = registry.removed
        /\ registry'.active[p] = IF p = j.p THEN j.seen.root ELSE registry.active[p]
    BY <1>2, <2>1, <2>2, RegistryFacts DEF DataOK
  <2>4. Placed(p)'
    BY <1>10, <2>1 DEF Moves
  <2>5. CASE p = j.p
    BY <2>2, <2>3, <2>4, <2>5, ProjectsAssumption DEF Listed
  <2>6. CASE p # j.p
    BY <1>9, <2>1, <2>3, <2>4, <2>6
  <2> QED BY <2>5, <2>6
<1>31. CASE Fails(h)
  <2>1. UNCHANGED <<db, manifest, registry>> /\ torn' = torn \cup HalfDone({h}) \cup Moved({h})
    BY <1>31 DEF Fails, Throw
  <2>2. p \notin torn /\ p \notin HalfDone({h}) /\ p \notin Moved({h})
    BY <2>1
  <2>3. p = j.p => j.pc \notin Halves /\ j.pc \notin Moves
    BY <2>2 DEF HalfDone, Moved, Halves, Moves, j
  <2> QED BY <1>9, <1>10, <2>1, <2>2, <2>3
<1> QED
  BY <1>16, <1>17, <1>18, <1>19, <1>20, <1>21, <1>22, <1>23, <1>24, <1>25, <1>26, <1>27, <1>28,
     <1>29, <1>30, <1>31 DEF Step

LEMMA NextTorn ==
  ProjectIInv /\ [ProjectNext]_projectVars => TornOK'
<1>1. SUFFICES ASSUME ProjectIInv, [ProjectNext]_projectVars
               PROVE  TornOK'
  OBVIOUS
<1>2. /\ ProjectTypeOK /\ JobsOK /\ RootsOK /\ WantsOK /\ TornOK /\ AloneOK
      /\ DataOK /\ GhostsOK /\ job \in [Handlers -> Job]
  BY <1>1, TypeParts DEF ProjectIInv
<1>3. \A p \in Projects \ torn : db[p] # None => Listed(p) /\ Placed(p)
  BY <1>2, TornParts
<1>4. ASSUME NEW h \in Handlers, ReceiveAny(h) PROVE TornOK'
  <2>1. PICK new : Received(h, new)
    BY <1>2, <1>4, ReceivedFacts
  <2>2. UNCHANGED <<db, manifest, registry, torn>> /\ job[h].pc = "idle"
    BY <2>1 DEF Received, Receive
  <2>3. \A k \in Handlers \ {h} : job'[k].pc = job[k].pc /\ job'[k].p = job[k].p
    BY <1>2, <2>1, ReceivedJobs
  <2>4. ASSUME NEW p \in Projects, NEW pcs, "idle" \notin pcs, Doing(p, pcs) PROVE Doing(p, pcs)'
    BY <2>2, <2>3, <2>4 DEF Doing
  <2>5. ASSUME NEW p \in Projects \ torn', db'[p] # None PROVE Listed(p)' /\ Placed(p)'
    <3>1. Doing(p, Halves) => Doing(p, Halves)'
      BY <2>4 DEF Halves
    <3>2. Doing(p, Moves) => Doing(p, Moves)'
      BY <2>4 DEF Moves
    <3> QED BY <1>3, <2>2, <2>5, <3>1, <3>2 DEF Listed, Placed
  <2> QED BY <2>5 DEF TornOK, Listed, Placed, Halves, Moves, Doing
<1>5. ASSUME NEW h \in Handlers, AcquireLock(h) \/ Step(h) PROVE TornOK'
  <2>1. ASSUME NEW p \in Projects \ torn', db'[p] # None PROVE Listed(p)' /\ Placed(p)'
    BY <1>2, <1>5, <2>1, StepTorn
  <2> QED BY <2>1 DEF TornOK, Listed, Placed, Halves, Moves, Doing
<1>6. CASE SyncNext \/ UNCHANGED projectVars
  <2>1. UNCHANGED <<db, manifest, registry, torn, job>>
    BY <1>6 DEF SyncNext, SyncList, SyncLock, SyncRefresh, SyncStep, Ghosts, projectVars
  <2> QED BY <1>2, <2>1 DEF TornOK, Doing
<1>9. ASSUME \A p \in Projects \ torn' : db'[p] # None =>
               /\ registry'.active[p] # None \/ registry'.removed[p] = {}
               /\ manifest'[db'[p].root] = p
      PROVE  TornOK'
  BY <1>9 DEF TornOK
<1>10. ASSUME Startup, NEW p \in Projects \ torn, db[p] # None
       PROVE  (registry.active[p] # None \/ registry.removed[p] = {}) /\ manifest[db[p].root] = p
  <2>1. phase # "up"
    BY <1>10 DEF Startup, RebuildDatabase, RecoverExistingProjects, BootstrapHome,
                 BackfillManifests, RememberAtStartup
  <2>2. \A h \in Handlers : job[h].pc = "idle"
    BY <1>2, <2>1 DEF JobsOK
  <2> QED BY <1>3, <1>10, <2>2 DEF Listed, Placed, Doing, Halves, Moves
<1>11. ASSUME RebuildDatabase \/ RecoverExistingProjects PROVE TornOK'
  <2>1. UNCHANGED <<manifest, registry, torn>> /\ db' \in Discovered \cup {db} /\ Startup
    BY <1>11 DEF RebuildDatabase, RecoverExistingProjects, Booting, Startup
  <2>2. CASE db' = db
    BY <1>9, <1>10, <2>1, <2>2
  <2>3. CASE db' \in Discovered
    <3>1. \A p \in Projects : db'[p] # None =>
            manifest[db'[p].root] = p /\ (registry.active[p] # None \/ registry.removed[p] = {})
      BY <1>2, <2>3, DiscoveredFacts
    <3> QED BY <1>9, <2>1, <3>1
  <2> QED BY <2>1, <2>2, <2>3
<1>12. ASSUME BootstrapHome PROVE TornOK'
  <2>1. UNCHANGED <<registry, torn>> /\ Startup
    BY <1>12 DEF BootstrapHome, Booting, Startup
  <2>2. CASE UNCHANGED <<db, manifest>>
    BY <1>9, <1>10, <2>1, <2>2
  <2>3. ASSUME db = NoRows, NEW p \in Projects, NEW r \in Managed, registry.removed[p] = {},
               db' = [db EXCEPT ![p] = [root |-> r, remote |-> None]],
               manifest' = [manifest EXCEPT ![r] = p]
        PROVE  TornOK'
    <3>1. \A q \in Projects : db'[q] # None => q = p /\ db'[q].root = r
      BY <2>3 DEF NoRows
    <3>2. manifest'[r] = p
      BY <1>2, <2>3, ProjectsAssumption DEF DataOK, Manifest
    <3> QED BY <1>9, <2>1, <2>3, <3>1, <3>2
  <2> QED BY <1>12, <2>2, <2>3 DEF BootstrapHome
<1>13. ASSUME BackfillManifests PROVE TornOK'
  <2>1. UNCHANGED <<db, registry, torn>> /\ Startup
        /\ \A r \in Roots : manifest[r] # None => manifest'[r] = manifest[r]
    BY <1>13 DEF BackfillManifests, Booting, Startup
  <2>2. \A p \in Projects : db[p] # None => db[p].root \in Roots
    BY <1>2 DEF DataOK, Rows, Row
  <2> QED BY <1>9, <1>10, <2>1, <2>2, ProjectsAssumption
<1>14. ASSUME RememberAtStartup PROVE TornOK'
  <2>1. UNCHANGED <<db, manifest, torn>> /\ Startup /\ registry' = Remember(registry, db)
    BY <1>14 DEF RememberAtStartup, Booting, Startup
  <2>2. ASSUME NEW p \in Projects
        PROVE  /\ registry'.removed[p] = registry.removed[p]
               /\ registry.active[p] # None => registry'.active[p] # None
    <3>1. registry'.removed = registry.removed
          /\ registry'.active[p] = IF db[p] = None \/ (registry.removed[p] # {} /\ registry.active[p] = None)
                                     THEN registry.active[p] ELSE db[p].root
      BY <1>2, <2>1, RegistryFacts DEF DataOK
    <3>2. db[p] # None => db[p].root # None
      BY <1>2, ProjectsAssumption DEF DataOK, Rows, Row
    <3> QED BY <3>1, <3>2
  <2> QED BY <1>9, <1>10, <2>1, <2>2
<1>15. ASSUME Crash PROVE TornOK'
  <2>1. /\ UNCHANGED <<manifest, registry>> /\ db' \in {db, NoRows}
        /\ torn' = torn \cup HalfDone(Handlers) \cup Moved(Handlers)
    BY <1>15 DEF Crash
  <2>2. ASSUME NEW p \in Projects \ torn', db'[p] # None
        PROVE  (registry.active[p] # None \/ registry.removed[p] = {}) /\ manifest[db[p].root] = p
               /\ db' = db
    <3>1. db' = db /\ p \notin torn
      BY <2>1, <2>2 DEF NoRows
    <3>2. \A h \in Handlers : job[h].p = p => job[h].pc \notin Halves /\ job[h].pc \notin Moves
      BY <2>1, <2>2 DEF HalfDone, Moved, Halves, Moves
    <3> QED BY <1>3, <2>2, <3>1, <3>2 DEF Listed, Placed, Doing
  <2> QED BY <1>9, <2>1, <2>2
<1> QED
  BY <1>1, <1>4, <1>5, <1>6, <1>11, <1>12, <1>13, <1>14, <1>15 DEF ProjectNext, Startup

-----------------------------------------------------------------------------
(* Requests that nobody overlaps                                               *)

LEMMA StepAlone ==
  ASSUME ProjectTypeOK, JobsOK, AloneOK, NEW h \in Handlers, AcquireLock(h) \/ Step(h)
  PROVE  AloneOK'
<1> DEFINE j == job[h]
<1>1. PICK new : Goes(h, new)
  BY StepGoes
<1>2. /\ DataOK /\ JobOK(j) /\ j.pc \in Pcs /\ j \in Job
      /\ job \in [Handlers -> Job] /\ j.pc # "idle" /\ j.p \in Projects
  BY <1>1, TypeParts, JobFields DEF ProjectTypeOK, JobsOK, JobOK, Goes
<1>3. \A k \in Handlers : job'[k] = IF k = h THEN new ELSE job[k]
  BY <1>1, <1>2 DEF Goes
<1>4. ASSUME NEW k \in Handlers, job'[k].alone
      PROVE  k = h /\ j.alone /\ new # Idle /\ \A l \in Handlers \ {h} : job'[l].pc = "idle"
  <2>1. k = h
    BY <1>2, <1>3, <1>4 DEF AloneOK
  <2>2. new # Idle
    BY <1>3, <1>4, <2>1, IdleFacts
  <2>3. j.alone
    BY <1>1, <1>3, <1>4, <2>1, <2>2 DEF Goes
  <2> QED BY <1>3, <2>1, <2>2, <2>3 DEF AloneOK
<1>5. j.alone =>
        /\ j.pc \in {"list", "remember"} => db[j.p] # None /\ manifest[db[j.p].root] = j.p
        /\ j.pc = "remember" => j.rows = db
        /\ j.pc = "restore" => db[j.p] = j.seen /\ manifest[j.seen.root] = j.p
        /\ j.pc \in {"forget", "commit", "undo"} => db[j.p] = j.seen
  BY DEF AloneOK
<1>6. ASSUME j.alone =>
               /\ new.pc \in {"list", "remember"} => db'[j.p] # None /\ manifest'[db'[j.p].root] = j.p
               /\ new.pc = "remember" => new.rows = db'
               /\ new.pc = "restore" => db'[j.p] = new.seen /\ manifest'[new.seen.root] = j.p
               /\ new.pc \in {"forget", "commit", "undo"} => db'[j.p] = new.seen
      PROVE  AloneOK'
  <2>1. new # Idle => new.p = j.p
    BY <1>1 DEF Goes
  <2>2. ASSUME NEW k \in Handlers, job'[k].alone
        PROVE  /\ \A l \in Handlers \ {k} : job'[l].pc = "idle"
               /\ job'[k].pc \in {"list", "remember"} =>
                    db'[job'[k].p] # None /\ manifest'[db'[job'[k].p].root] = job'[k].p
               /\ job'[k].pc = "remember" => job'[k].rows = db'
               /\ job'[k].pc = "restore" =>
                    db'[job'[k].p] = job'[k].seen /\ manifest'[job'[k].seen.root] = job'[k].p
               /\ job'[k].pc \in {"forget", "commit", "undo"} => db'[job'[k].p] = job'[k].seen
    BY <1>3, <1>4, <1>6, <2>1, <2>2
  <2> QED BY <2>2 DEF AloneOK
<1>7. ASSUME new.pc \notin {"list", "remember", "restore", "forget", "commit", "undo"}
      PROVE  AloneOK'
  BY <1>6, <1>7
<1>8. new = job'[h]
  BY <1>3
<1>9. ASSUME NEW pc \in Pcs, Goto(h, pc)
      PROVE  new.pc = pc /\ new.seen = j.seen /\ new.rows = j.rows
  BY <1>2, <1>8, <1>9 DEF Goto, Job
<1>10. End(h) => new.pc = "idle"
  BY <1>2, <1>8, IdleFacts DEF End
<1>11. CASE End(h)
  BY <1>7, <1>10, <1>11
<1> HIDE DEF j
<1>12. CASE PostStore(h) /\ ~ End(h)
  <2>1. /\ j.pc = "store" /\ db' = [db EXCEPT ![j.p] = j.seen] /\ Goto(h, "restore")
        /\ manifest' = [manifest EXCEPT ![j.seen.root] = j.p]
    BY <1>12 DEF PostStore, j
  <2>2. j.seen \in Row /\ new.pc = "restore" /\ new.seen = j.seen
    BY <1>2, <1>9, <2>1 DEF JobOK, Pcs
  <2>3. j.seen.root \in Roots
    BY <2>2 DEF Row
  <2>4. db'[j.p] = j.seen /\ manifest'[j.seen.root] = j.p
    BY <1>2, <2>1, <2>3 DEF DataOK, Rows, Manifest
  <2> QED BY <1>6, <2>2, <2>4
<1>13. CASE ImportCreate(h) /\ ~ End(h)
  <2>1. Goto(h, "reread") \/ Goto(h, "hint")
    BY <1>13 DEF ImportCreate
  <2> QED BY <1>7, <1>9, <2>1 DEF Pcs
<1>14. CASE ImportRemote(h)
  <2>1. Goto(h, "reread")
    BY <1>14 DEF ImportRemote
  <2> QED BY <1>7, <1>9, <2>1 DEF Pcs
<1>15. CASE ImportReread(h) /\ ~ End(h)
  <2>1. /\ db[j.p] # None /\ UNCHANGED db /\ manifest' = [manifest EXCEPT ![db[j.p].root] = j.p]
        /\ new.pc = "restore" /\ new.seen = db[j.p]
    BY <1>2, <1>8, <1>15 DEF ImportReread, j, Job
  <2>2. db[j.p].root \in Roots
    BY <1>2, <2>1 DEF DataOK, Rows, Row
  <2>3. manifest'[db[j.p].root] = j.p
    BY <1>2, <2>1, <2>2 DEF DataOK, Manifest
  <2> QED BY <1>6, <2>1, <2>3
<1>16. CASE AcquireLock(h) \/ (RereadLocked(h) /\ ~ End(h)) \/ PatchPersist(h)
  <2>1. job'[h].pc \in {"create", "locked", "git", "update", "manifest"}
    BY <1>2, <1>16 DEF AcquireLock, RereadLocked, PatchPersist, Applied, j, Job
  <2> QED BY <1>7, <1>8, <2>1
<1>17. CASE PatchUpdate(h) /\ ~ End(h)
  <2>1. job'[h].pc \in {"manifest", "remote"}
    BY <1>2, <1>17 DEF PatchUpdate, Applied, Goto, j, Job
  <2> QED BY <1>7, <1>8, <2>1
<1>18. CASE PatchRemote(h)
  <2>1. Goto(h, "persist")
    BY <1>18 DEF PatchRemote
  <2> QED BY <1>7, <1>9, <2>1 DEF Pcs
<1>19. CASE PatchManifest(h) /\ ~ End(h)
  <2>1. /\ db[j.p] # None /\ UNCHANGED db /\ manifest' = [manifest EXCEPT ![db[j.p].root] = j.p]
        /\ Goto(h, "list")
    BY <1>19 DEF PatchManifest, j
  <2>2. db[j.p].root \in Roots
    BY <1>2, <2>1 DEF DataOK, Rows, Row
  <2>3. manifest'[db[j.p].root] = j.p /\ new.pc = "list"
    BY <1>2, <1>9, <2>1, <2>2 DEF DataOK, Manifest, Pcs
  <2> QED BY <1>6, <2>1, <2>3
<1>20. CASE PatchList(h)
  <2>1. /\ UNCHANGED <<db, manifest>> /\ j.pc = "list" /\ new.pc = "remember" /\ new.rows = db
    BY <1>2, <1>8, <1>20 DEF PatchList, Ghosts, j, Job
  <2> QED BY <1>5, <1>6, <2>1
<1>21. CASE DeleteForget(h)
  <2>1. UNCHANGED <<db, manifest>> /\ j.pc = "forget" /\ Goto(h, "commit")
    BY <1>21 DEF DeleteForget, j
  <2>2. new.pc = "commit" /\ new.seen = j.seen
    BY <1>9, <2>1 DEF Pcs
  <2> QED BY <1>5, <1>6, <2>1, <2>2
<1>22. CASE DeleteCommitFails(h)
  <2>1. UNCHANGED <<db, manifest>> /\ j.pc = "commit" /\ Goto(h, "undo")
    BY <1>22 DEF DeleteCommitFails, j
  <2>2. new.pc = "undo" /\ new.seen = j.seen
    BY <1>9, <2>1 DEF Pcs
  <2> QED BY <1>5, <1>6, <2>1, <2>2
<1> QED
  BY <1>11, <1>12, <1>13, <1>14, <1>15, <1>16, <1>17, <1>18, <1>19, <1>20, <1>21, <1>22, StepEnds
     DEF Step

LEMMA NextAlone ==
  ProjectTypeOK /\ JobsOK /\ AloneOK /\ [ProjectNext]_projectVars => AloneOK'
<1>1. SUFFICES ASSUME ProjectTypeOK, JobsOK, AloneOK, [ProjectNext]_projectVars
               PROVE  AloneOK'
  OBVIOUS
<1>2. ASSUME NEW h \in Handlers, ReceiveAny(h) PROVE AloneOK'
  <2>1. PICK new : Received(h, new)
    BY <1>1, <1>2, ReceivedFacts
  <2>2. /\ UNCHANGED <<db, manifest>> /\ new.pc \in {"store", "lock", "forget"}
        /\ new.pc = "forget" => new.seen = db[new.p]
    BY <2>1 DEF Received, Receive
  <2>3. /\ \A k \in Handlers : LET o == IF k = h THEN new ELSE job[k]
                               IN  job'[k].pc = o.pc /\ job'[k].p = o.p /\ job'[k].seen = o.seen
        /\ \A k \in Handlers : job'[k].alone => k = h /\ Busy = {}
    BY <1>1, <2>1, ReceivedJobs
  <2>4. ASSUME NEW k \in Handlers, job'[k].alone
        PROVE  /\ \A l \in Handlers \ {k} : job'[l].pc = "idle"
               /\ job'[k].pc \in {"store", "lock", "forget"}
               /\ job'[k].pc = "forget" => db'[job'[k].p] = job'[k].seen
    BY <2>2, <2>3, <2>4 DEF Busy
  <2> QED BY <2>4 DEF AloneOK
<1>3. ASSUME NEW h \in Handlers, AcquireLock(h) \/ Step(h) PROVE AloneOK'
  BY <1>1, <1>3, StepAlone
<1>4. CASE SyncNext \/ UNCHANGED projectVars
  <2>1. UNCHANGED <<db, manifest, job>>
    BY <1>4 DEF SyncNext, SyncList, SyncLock, SyncRefresh, SyncStep, projectVars
  <2> QED BY <1>1, <2>1 DEF AloneOK
<1>5. CASE Startup
  <2>1. UNCHANGED job /\ phase # "up"
    BY <1>5 DEF Startup, RebuildDatabase, RecoverExistingProjects, BootstrapHome,
                BackfillManifests, RememberAtStartup, Booting
  <2>2. \A h \in Handlers : ~ job'[h].alone
    BY <1>1, <2>1, IdleFacts DEF JobsOK, JobOK
  <2> QED BY <2>2 DEF AloneOK
<1>6. CASE Crash
  <2>1. job' = [h \in Handlers |-> Idle]
    BY <1>6 DEF Crash
  <2>2. \A h \in Handlers : ~ job'[h].alone
    BY <2>1, IdleFacts
  <2> QED BY <2>2 DEF AloneOK
<1> QED BY <1>1, <1>2, <1>3, <1>4, <1>5, <1>6 DEF ProjectNext

-----------------------------------------------------------------------------
(* What is kept survives                                                       *)

LEMMA StepKept ==
  ASSUME ProjectIInv, NEW h \in Handlers, AcquireLock(h) \/ Step(h)
  PROVE  KeptJobsOK' /\ KeptOK'
<1> DEFINE j == job[h]
<1>1. PICK new : Goes(h, new)
  BY StepGoes DEF ProjectIInv
<1>2. /\ ProjectTypeOK /\ JobsOK /\ RootsOK /\ WantsOK /\ TornOK /\ AloneOK /\ KeptJobsOK /\ KeptOK
      /\ DataOK /\ GhostsOK /\ JobOK(j) /\ j.pc \in Pcs /\ j \in Job /\ j.rows \in Rows
      /\ job \in [Handlers -> Job] /\ j.pc # "idle" /\ j.p \in Projects
  BY <1>1, TypeParts, JobFields DEF ProjectIInv, JobsOK, JobOK, Goes, ProjectTypeOK, Rows
<1>3. \A k \in Handlers : job'[k] = IF k = h THEN new ELSE job[k]
  BY <1>1, <1>2 DEF Goes
<1>4. phase = "up" /\ phase' = "up"
  BY <1>2, StepFrame DEF JobsOK
<1>5. \A p \in kept : /\ p \in Projects /\ db[p] # None /\ manifest[db[p].root] = p
                      /\ registry.active[p] # None /\ manifest[registry.active[p]] = p
  BY <1>2, <1>4 DEF KeptOK, GhostsOK
<1>6. \A p \in kept : j.p = p => j.root = Absent /\ j.op # "DELETE"
  BY <1>2 DEF KeptJobsOK
<1>7. /\ \A p \in Projects : db[p] # None => db[p].root \in Roots
      /\ \A p \in Projects : registry.active[p] # None => registry.active[p] \in Roots
  BY <1>2 DEF DataOK, Rows, Row, Registry
<1>8. new # Idle => new.p = j.p /\ new.op = j.op /\ new.root \in {j.root, Absent}
  BY <1>1 DEF Goes
<1>9. \A r \in Roots : manifest[r] # None => manifest'[r] = manifest[r]
  BY <1>2, ManifestStays
<1> HIDE DEF j
(* A row that is kept stays, with its root.                                    *)
<1>10. ASSUME NEW p \in kept PROVE db'[p] # None /\ db'[p].root = db[p].root
  <2>1. CASE PostStore(h)
    BY <1>2, <1>5, <2>1 DEF PostStore, DataOK, Rows, j
  <2>2. CASE ImportCreate(h)
    BY <1>2, <1>5, <1>6, <2>2 DEF ImportCreate, DataOK, Rows, j
  <2>3. CASE PatchUpdate(h)
    <3>1. db' = db \/ (j.root # Absent /\ db' = [db EXCEPT ![j.p].root = j.root])
      BY <2>3 DEF PatchUpdate, j
    <3> QED BY <1>2, <1>5, <1>6, <3>1 DEF DataOK, Rows
  <2>4. CASE PatchPersist(h)
    <3>1. db' = db \/ db' = [db EXCEPT ![j.p].remote = j.remote]
      BY <2>4 DEF PatchPersist, j
    <3>2. db[p] \in Row
      BY <1>2, <1>5 DEF DataOK, Rows
    <3>3. db'[p] = db[p] \/ (db'[p] = [db[p] EXCEPT !.remote = j.remote])
      BY <1>2, <1>5, <3>1 DEF DataOK, Rows
    <3>4. db'[p].root = db[p].root
      BY <3>2, <3>3 DEF Row
    <3>5. db'[p] # None
      <4>1. j.remote \in Urls \cup {None}
        BY <1>2, <2>4, JobFields DEF PatchPersist, JobOK, j
      <4>2. [db[p] EXCEPT !.remote = j.remote] \in Row
        BY <3>2, <4>1 DEF Row
      <4> QED BY <1>5, <3>3, <4>2, ProjectsAssumption
    <3> QED BY <3>4, <3>5
  <2>5. CASE DeleteCommit(h)
    <3>1. j.op = "DELETE" /\ db' = [db EXCEPT ![j.p] = None]
      BY <1>2, <2>5 DEF DeleteCommit, JobOK, j
    <3> QED BY <1>2, <1>5, <1>6, <3>1 DEF DataOK, Rows
  <2>6. CASE ImportRemote(h) \/ ImportReread(h) \/ AcquireLock(h) \/ RereadLocked(h)
    BY <1>5, <2>6 DEF ImportRemote, ImportReread, AcquireLock, RereadLocked
  <2>7. CASE PatchRemote(h) \/ PatchManifest(h) \/ PatchList(h) \/ PatchRemember(h) \/ PushGit(h)
    BY <1>5, <2>7 DEF PatchRemote, PatchManifest, PatchList, PatchRemember, PushGit
  <2>8. CASE \/ RestoreProject(h) \/ DeleteForget(h) \/ DeleteCommitFails(h) \/ DeleteUndo(h)
             \/ Fails(h)
    BY <1>5, <2>8 DEF RestoreProject, DeleteForget, DeleteCommitFails, DeleteUndo, Fails, Throw
  <2> QED BY <2>1, <2>2, <2>3, <2>4, <2>5, <2>6, <2>7, <2>8 DEF Step
(* And so does a place of it in the registry.                                  *)
<1>11. ASSUME NEW p \in kept
       PROVE  registry'.active[p] # None /\ manifest[registry'.active[p]] = p
  <2>1. CASE RestoreProject(h) \/ DeleteUndo(h)
    <3>1. /\ registry' = Restore(registry, j.p, j.seen) /\ j.seen \in Row
          /\ j.pc = "restore" \/ (j.pc = "undo" /\ j.op = "DELETE")
      BY <1>2, <2>1 DEF RestoreProject, DeleteUndo, JobOK, j
    <3>2. registry'.active[p] = IF p = j.p THEN j.seen.root ELSE registry.active[p]
      BY <1>2, <1>5, <3>1, RegistryFacts DEF DataOK
    <3>3. p = j.p => j.seen.root = db[p].root
      BY <1>2, <1>6, <3>1 DEF KeptJobsOK, j
    <3> QED BY <1>5, <1>7, <3>2, <3>3, ProjectsAssumption
  <2>2. CASE PatchRemember(h)
    <3>1. j.pc = "remember" /\ registry' = Remember(registry, j.rows)
      BY <2>2 DEF PatchRemember, j
    <3>2. j.rows[p] # None /\ j.rows[p].root = db[p].root
      BY <1>2, <3>1 DEF KeptJobsOK, j
    <3>3. registry'.active[p] = j.rows[p].root
      BY <1>2, <1>5, <3>1, <3>2, RegistryFacts DEF DataOK
    <3> QED BY <1>5, <1>7, <3>2, <3>3, ProjectsAssumption
  <2>3. CASE DeleteForget(h)
    <3>1. /\ registry' = Forget(registry, j.p, j.seen) /\ j.seen \in Row /\ j.op = "DELETE"
      BY <1>2, <2>3 DEF DeleteForget, JobOK, j
    <3>2. registry'.active[p] = registry.active[p]
      BY <1>2, <1>5, <1>6, <3>1, RegistryFacts DEF DataOK
    <3> QED BY <1>5, <3>2
  <2>4. CASE PostStore(h) \/ ImportCreate(h) \/ ImportRemote(h) \/ ImportReread(h)
    BY <1>5, <2>4 DEF PostStore, ImportCreate, ImportRemote, ImportReread
  <2>5. CASE AcquireLock(h) \/ RereadLocked(h) \/ PatchUpdate(h) \/ PatchRemote(h) \/ PatchPersist(h)
    BY <1>5, <2>5 DEF AcquireLock, RereadLocked, PatchUpdate, PatchRemote, PatchPersist
  <2>6. CASE PatchManifest(h) \/ PatchList(h)
    BY <1>5, <2>6 DEF PatchManifest, PatchList
  <2>7. CASE DeleteCommit(h) \/ DeleteCommitFails(h) \/ PushGit(h) \/ Fails(h)
    BY <1>5, <2>7 DEF DeleteCommit, DeleteCommitFails, PushGit, Fails, Throw
  <2> QED BY <2>1, <2>2, <2>3, <2>4, <2>5, <2>6, <2>7 DEF Step
<1>12. ASSUME NEW p \in kept
       PROVE  /\ registry'.active[p] # None /\ manifest'[registry'.active[p]] = p
              /\ db'[p] # None /\ manifest'[db'[p].root] = p
  <2>1. registry'.active[p] \in Roots
    BY <1>2, <1>5, <1>11, StepData DEF DataOK, Registry
  <2> QED BY <1>5, <1>7, <1>9, <1>10, <1>11, <2>1, ProjectsAssumption
(* The requests of what is kept.                                               *)
<1>13. ASSUME NEW p \in kept, NEW k \in Handlers
       PROVE  /\ job'[k].p = p /\ job'[k].pc # "idle" =>
                   job'[k].root = Absent /\ job'[k].op # "DELETE"
              /\ job'[k].p = p /\ job'[k].pc = "restore" =>
                   db'[p] # None /\ job'[k].seen.root = db'[p].root
              /\ job'[k].pc = "remember" =>
                   db'[p] # None /\ job'[k].rows[p] # None /\ job'[k].rows[p].root = db'[p].root
  <2>1. CASE k # h
    BY <1>2, <1>3, <1>10, <2>1 DEF KeptJobsOK
  <2>2. CASE k = h
    <3>1. job'[k] = new
      BY <1>3, <2>2
    <3>2. new.p = p /\ new.pc # "idle" => new.root = Absent /\ new.op # "DELETE"
      BY <1>6, <1>8, IdleFacts
    <3>3. ASSUME new.p = p, new.pc = "restore" PROVE new.seen.root = db'[p].root
      <4>1. p = j.p
        BY <1>8, <3>3, IdleFacts
      <4>2. CASE PostStore(h)
        BY <1>2, <1>3, <1>5, <3>3, <4>1, <4>2, IdleFacts DEF PostStore, End, j
      <4>3. CASE ImportReread(h)
        <5>1. new.seen = db[p] /\ db' = db
          BY <1>2, <1>3, <1>5, <4>1, <4>3 DEF ImportReread, j, Job
        <5> QED BY <5>1
      <4>4. CASE End(h)
        BY <1>2, <1>3, <3>3, <4>4, IdleFacts DEF End, j
      <4>5. CASE ImportCreate(h) \/ ImportRemote(h) \/ AcquireLock(h) \/ RereadLocked(h)
        <5>1. job'[h].pc # "restore"
          BY <1>2, <4>5, IdleFacts
             DEF ImportCreate, ImportRemote, AcquireLock, RereadLocked, Goto, End, Job
        <5> QED BY <1>3, <3>3, <5>1
      <4>6. CASE PatchUpdate(h) \/ PatchRemote(h) \/ PatchPersist(h) \/ PatchManifest(h) \/ PatchList(h)
        <5>1. job'[h].pc # "restore"
          BY <1>2, <4>6, IdleFacts
             DEF PatchUpdate, PatchRemote, PatchPersist, PatchManifest, PatchList, Applied, Goto, End, Job
        <5> QED BY <1>3, <3>3, <5>1
      <4>7. CASE DeleteForget(h) \/ DeleteCommitFails(h)
        <5>1. job'[h].pc # "restore"
          BY <1>2, <4>7 DEF DeleteForget, DeleteCommitFails, Goto, Job
        <5> QED BY <1>3, <3>3, <5>1
      <4> QED BY <4>2, <4>3, <4>4, <4>5, <4>6, <4>7, StepEnds DEF Step
    <3>4. ASSUME new.pc = "remember" PROVE new.rows = db
      <4>1. CASE PatchList(h)
        BY <1>2, <1>3, <4>1 DEF PatchList, j, Job
      <4>2. CASE End(h)
        BY <1>2, <1>3, <3>4, <4>2, IdleFacts DEF End, j
      <4>3. CASE PostStore(h) \/ ImportCreate(h) \/ ImportRemote(h) \/ ImportReread(h) \/ AcquireLock(h)
        <5>1. job'[h].pc # "remember"
          BY <1>2, <4>3, IdleFacts
             DEF PostStore, ImportCreate, ImportRemote, ImportReread, AcquireLock, Goto, End, Job
        <5> QED BY <1>3, <3>4, <5>1
      <4>4. CASE RereadLocked(h) \/ PatchUpdate(h) \/ PatchRemote(h) \/ PatchPersist(h) \/ PatchManifest(h)
        <5>1. job'[h].pc # "remember"
          BY <1>2, <4>4, IdleFacts
             DEF RereadLocked, PatchUpdate, PatchRemote, PatchPersist, PatchManifest, Applied, Goto, End, Job
        <5> QED BY <1>3, <3>4, <5>1
      <4>5. CASE DeleteForget(h) \/ DeleteCommitFails(h)
        <5>1. job'[h].pc # "remember"
          BY <1>2, <4>5 DEF DeleteForget, DeleteCommitFails, Goto, Job
        <5> QED BY <1>3, <3>4, <5>1
      <4> QED BY <4>1, <4>2, <4>3, <4>4, <4>5, StepEnds DEF Step
    <3> QED BY <1>5, <1>10, <3>1, <3>2, <3>3, <3>4
  <2> QED BY <2>1, <2>2
(* A project gets into the set when the only request there is ends.            *)
<1>14. CASE kept' \subseteq kept
  <2>1. KeptOK'
    BY <1>12, <1>14 DEF KeptOK
  <2>2. KeptJobsOK'
    BY <1>13, <1>14 DEF KeptJobsOK
  <2> QED BY <2>1, <2>2
<1>15. ASSUME kept' \subseteq kept \cup {j.p}, j.alone, End(h), db' = db, manifest' = manifest,
              /\ db[j.p] # None /\ manifest[db[j.p].root] = j.p
              /\ registry'.active[j.p] # None /\ manifest[registry'.active[j.p]] = j.p
       PROVE  KeptJobsOK' /\ KeptOK'
  <2>1. \A k \in Handlers : job'[k].pc = "idle"
    BY <1>2, <1>3, <1>15, IdleFacts DEF AloneOK, End, j
  <2>2. KeptJobsOK'
    BY <2>1 DEF KeptJobsOK
  <2>3. KeptOK'
    BY <1>12, <1>15 DEF KeptOK
  <2> QED BY <2>2, <2>3
<1>16. CASE RestoreProject(h)
  <2>1. /\ j.pc = "restore" /\ UNCHANGED <<db, manifest>> /\ End(h)
        /\ registry' = Restore(registry, j.p, j.seen)
        /\ kept' = IF j.alone /\ db[j.p] # None THEN kept \cup {j.p} ELSE kept
    BY <1>16 DEF RestoreProject, j
  <2>2. CASE j.alone /\ db[j.p] # None
    <3>1. db[j.p] = j.seen /\ manifest[j.seen.root] = j.p
      BY <1>2, <2>1, <2>2 DEF AloneOK, j
    <3>2. registry'.active[j.p] = j.seen.root /\ j.seen.root \in Roots
      BY <1>2, <1>7, <2>1, <2>2, <3>1, RegistryFacts DEF JobOK, DataOK
    <3> QED BY <1>15, <2>1, <2>2, <3>1, <3>2, ProjectsAssumption
  <2> QED BY <1>14, <2>1, <2>2
<1>17. CASE PatchRemember(h)
  <2>1. /\ j.pc = "remember" /\ UNCHANGED <<db, manifest>> /\ End(h)
        /\ registry' = Remember(registry, j.rows)
        /\ kept' = IF j.alone /\ db[j.p] # None /\ j.p \notin torn THEN kept \cup {j.p} ELSE kept
    BY <1>17 DEF PatchRemember, j
  <2>2. CASE j.alone /\ db[j.p] # None /\ j.p \notin torn
    <3>1. j.rows = db /\ manifest[db[j.p].root] = j.p /\ \A k \in Handlers \ {h} : job[k].pc = "idle"
      BY <1>2, <2>1, <2>2 DEF AloneOK, j
    <3>2. registry.active[j.p] # None \/ registry.removed[j.p] = {}
      BY <1>2, <2>1, <2>2, <3>1 DEF TornOK, Doing, j
    <3>3. registry'.active[j.p] = db[j.p].root /\ db[j.p].root \in Roots
      BY <1>2, <1>7, <2>1, <2>2, <3>1, <3>2, RegistryFacts DEF DataOK
    <3> QED BY <1>15, <2>1, <2>2, <3>1, <3>3, ProjectsAssumption
  <2> QED BY <1>14, <2>1, <2>2
<1>18. CASE DeleteUndo(h)
  <2>1. /\ j.pc = "undo" /\ UNCHANGED <<db, manifest>> /\ End(h)
        /\ registry' = Restore(registry, j.p, j.seen)
        /\ kept' = IF j.alone /\ db[j.p] # None /\ j.p \notin torn THEN kept \cup {j.p} ELSE kept
    BY <1>18 DEF DeleteUndo, j
  <2>2. CASE j.alone /\ db[j.p] # None /\ j.p \notin torn
    <3>1. db[j.p] = j.seen /\ \A k \in Handlers \ {h} : job[k].pc = "idle"
      BY <1>2, <2>1, <2>2 DEF AloneOK, j
    <3>2. manifest[db[j.p].root] = j.p
      BY <1>2, <2>1, <2>2, <3>1 DEF TornOK, Doing, j
    <3>3. registry'.active[j.p] = j.seen.root /\ j.seen.root \in Roots
      BY <1>2, <1>7, <2>1, <2>2, <3>1, RegistryFacts DEF JobOK, DataOK
    <3> QED BY <1>15, <2>1, <2>2, <3>1, <3>2, <3>3, ProjectsAssumption
  <2> QED BY <1>14, <2>1, <2>2
<1>19. CASE ~ RestoreProject(h) /\ ~ PatchRemember(h) /\ ~ DeleteUndo(h)
  <2>1. CASE PostStore(h) \/ ImportCreate(h) \/ ImportRemote(h) \/ ImportReread(h) \/ AcquireLock(h)
             \/ RereadLocked(h)
    BY <1>14, <2>1
       DEF PostStore, ImportCreate, ImportRemote, ImportReread, AcquireLock, RereadLocked, Ghosts
  <2>2. CASE PatchUpdate(h) \/ PatchRemote(h) \/ PatchPersist(h) \/ PatchManifest(h) \/ PatchList(h)
    BY <1>14, <2>2 DEF PatchUpdate, PatchRemote, PatchPersist, PatchManifest, PatchList, Ghosts
  <2>3. CASE \/ DeleteForget(h) \/ DeleteCommit(h) \/ DeleteCommitFails(h) \/ PushGit(h) \/ Fails(h)
    BY <1>14, <2>3 DEF DeleteForget, DeleteCommit, DeleteCommitFails, PushGit, Fails, Throw, Ghosts
  <2> QED BY <1>19, <2>1, <2>2, <2>3 DEF Step
<1> QED BY <1>16, <1>17, <1>18, <1>19

LEMMA BootKept ==
  ASSUME ProjectIInv, Startup \/ Crash
  PROVE  KeptJobsOK' /\ KeptOK'
<1>1. /\ ProjectTypeOK /\ JobsOK /\ KeptJobsOK /\ KeptOK /\ DataOK /\ GhostsOK
  BY TypeParts DEF ProjectIInv
<1>2. UNCHANGED kept
  BY DEF Startup, RebuildDatabase, RecoverExistingProjects, BootstrapHome, BackfillManifests,
         RememberAtStartup, Booting, Crash
<1>3. \A h \in Handlers : job'[h].pc = "idle"
  <2>1. CASE Startup
    <3>1. UNCHANGED job /\ phase # "up"
      BY <2>1 DEF Startup, RebuildDatabase, RecoverExistingProjects, BootstrapHome,
                  BackfillManifests, RememberAtStartup, Booting
    <3> QED BY <1>1, <3>1 DEF JobsOK
  <2>2. CASE Crash
    BY <2>2, IdleFacts DEF Crash
  <2> QED BY <2>1, <2>2
<1>4. KeptJobsOK'
  BY <1>3 DEF KeptJobsOK
<1>5. /\ \A p \in kept : p \in Projects /\ registry.active[p] # None /\ manifest[registry.active[p]] = p
      /\ \A p \in kept : phase # "lost" => db[p] # None
      /\ \A p \in kept : db[p] # None => manifest[db[p].root] = p
      /\ \A p \in Projects : db[p] # None => db[p].root \in Roots
      /\ \A p \in Projects : registry.active[p] # None => registry.active[p] \in Roots
  BY <1>1 DEF KeptOK, GhostsOK, DataOK, Rows, Row, Registry
<1>6. ASSUME RebuildDatabase \/ RecoverExistingProjects PROVE KeptOK'
  <2>1. UNCHANGED <<manifest, registry>>
    BY <1>6 DEF RebuildDatabase, RecoverExistingProjects
  <2>2. CASE db' \in Discovered
    <3>1. ASSUME NEW p \in kept PROVE db'[p] # None /\ manifest[db'[p].root] = p
      <4>1. registry.active[p] \in RootsOf(p)
        BY <1>5, RegisteredRoot
      <4> QED BY <1>1, <1>5, <2>2, <4>1, DiscoveredFacts
    <3> QED BY <1>2, <1>5, <2>1, <3>1 DEF KeptOK
  <2>3. CASE phase = "down" /\ UNCHANGED db
    BY <1>2, <1>5, <2>1, <2>3 DEF KeptOK
  <2> QED BY <1>6, <2>2, <2>3 DEF RebuildDatabase, RecoverExistingProjects
<1>7. ASSUME BootstrapHome PROVE KeptOK'
  <2>1. UNCHANGED registry /\ phase = "recovered"
    BY <1>7 DEF BootstrapHome
  <2>2. CASE UNCHANGED <<db, manifest>>
    BY <1>2, <1>5, <2>1, <2>2 DEF KeptOK
  <2>3. CASE db = NoRows
    <3>1. kept = {}
      BY <1>5, <2>1, <2>3 DEF NoRows
    <3> QED BY <1>2, <3>1 DEF KeptOK
  <2> QED BY <1>7, <2>2, <2>3 DEF BootstrapHome
<1>8. ASSUME BackfillManifests PROVE KeptOK'
  <2>1. UNCHANGED <<db, registry>> /\ phase = "home"
        /\ \A r \in Roots : manifest[r] # None => manifest'[r] = manifest[r]
    BY <1>8 DEF BackfillManifests
  <2> QED BY <1>2, <1>5, <2>1, ProjectsAssumption DEF KeptOK
<1>9. ASSUME RememberAtStartup PROVE KeptOK'
  <2>1. UNCHANGED <<db, manifest>> /\ phase = "backfilled" /\ registry' = Remember(registry, db)
    BY <1>9 DEF RememberAtStartup
  <2>2. ASSUME NEW p \in kept PROVE registry'.active[p] \in {registry.active[p], db[p].root}
                                    /\ db[p] # None
    BY <1>1, <1>5, <2>1, RegistryFacts DEF DataOK
  <2> QED BY <1>2, <1>5, <2>1, <2>2, ProjectsAssumption DEF KeptOK
<1>10. ASSUME Crash PROVE KeptOK'
  <2>1. UNCHANGED <<manifest, registry>> /\ phase # "lost"
        /\ \/ phase' = "down" /\ UNCHANGED db
           \/ phase' = "lost" /\ db' = NoRows
    BY <1>10 DEF Crash
  <2>2. \A p \in Projects : NoRows[p] = None
    BY DEF NoRows
  <2> QED BY <1>2, <1>5, <2>1, <2>2 DEF KeptOK
<1> QED BY <1>4, <1>6, <1>7, <1>8, <1>9, <1>10 DEF Startup

LEMMA NextKept ==
  ProjectIInv /\ [ProjectNext]_projectVars => KeptJobsOK' /\ KeptOK'
<1>1. SUFFICES ASSUME ProjectIInv, [ProjectNext]_projectVars
               PROVE  KeptJobsOK' /\ KeptOK'
  OBVIOUS
<1>2. ProjectTypeOK /\ JobsOK /\ KeptJobsOK /\ KeptOK
  BY <1>1 DEF ProjectIInv
<1>3. ASSUME NEW h \in Handlers, ReceiveAny(h) PROVE KeptJobsOK' /\ KeptOK'
  <2>1. PICK new : Received(h, new)
    BY <1>2, <1>3, ReceivedFacts
  <2>2. /\ UNCHANGED <<db, manifest, registry, phase>> /\ phase = "up" /\ kept' \subseteq kept
        /\ new.pc \in {"store", "lock", "forget"}
        /\ new.op = "DELETE" => new.p \notin kept'
        /\ new.root # Absent => db[new.p] = None \/ new.p \notin kept'
    BY <2>1 DEF Received, Receive, Daemon
  <2>3. \A k \in Handlers : LET o == IF k = h THEN new ELSE job[k]
                            IN  /\ job'[k].op = o.op /\ job'[k].pc = o.pc /\ job'[k].p = o.p
                                /\ job'[k].root = o.root /\ job'[k].seen = o.seen
                                /\ job'[k].rows = o.rows
    BY <1>2, <2>1, ReceivedJobs
  <2>4. KeptOK'
    BY <1>2, <2>2 DEF KeptOK
  <2>5. ASSUME NEW p \in kept', NEW k \in Handlers
        PROVE  /\ job'[k].p = p /\ job'[k].pc # "idle" =>
                    job'[k].root = Absent /\ job'[k].op # "DELETE"
               /\ job'[k].p = p /\ job'[k].pc = "restore" =>
                    db'[p] # None /\ job'[k].seen.root = db'[p].root
               /\ job'[k].pc = "remember" =>
                    db'[p] # None /\ job'[k].rows[p] # None /\ job'[k].rows[p].root = db'[p].root
    <3>1. CASE k = h
      <4>1. db[p] # None
        BY <1>2, <2>2, <2>5 DEF KeptOK
      <4> QED BY <2>2, <2>3, <2>5, <3>1, <4>1
    <3>2. CASE k # h
      BY <1>2, <2>2, <2>3, <2>5, <3>2 DEF KeptJobsOK
    <3> QED BY <3>1, <3>2
  <2>6. KeptJobsOK'
    BY <2>5 DEF KeptJobsOK
  <2> QED BY <2>4, <2>6
<1>4. CASE SyncNext \/ UNCHANGED projectVars
  <2>1. UNCHANGED <<db, manifest, registry, job, kept, phase>>
    BY <1>4 DEF SyncNext, SyncList, SyncLock, SyncRefresh, SyncStep, Ghosts, projectVars
  <2> QED BY <1>2, <2>1 DEF KeptOK, KeptJobsOK
<1> QED BY <1>1, <1>3, <1>4, StepKept, BootKept DEF ProjectNext

-----------------------------------------------------------------------------
(* The invariant                                                               *)

LEMMA ProjectInitInv == ProjectInit => ProjectIInv
<1>1. SUFFICES ASSUME ProjectInit PROVE ProjectIInv
  OBVIOUS
<1>2. /\ DataOK /\ GhostsOK /\ job = [h \in Handlers |-> Idle] /\ job \in [Handlers -> Job]
      /\ \A h \in Handlers : job[h] = Idle
      /\ \A p \in Projects : db[p] = None
  <2>1. job = [h \in Handlers |-> Idle] /\ job \in [Handlers -> Job] /\ \A h \in Handlers : job[h] = Idle
    BY <1>1, IdleFacts DEF ProjectInit
  <2>2. db \in Rows /\ \A p \in Projects : db[p] = None
    BY <1>1 DEF ProjectInit, NoRows, Rows
  <2>3. manifest \in Manifest /\ origin \in Origin
    BY <1>1 DEF ProjectInit, Manifest, Origin
  <2>4. registry \in Registry
    BY <1>1 DEF ProjectInit, NewRegistry, Registry
  <2>5. answer \in Answer /\ faults \in 0..MaxFaults
    BY <1>1, ProjectsAssumption DEF ProjectInit, Answer
  <2> QED BY <1>1, <2>1, <2>2, <2>3, <2>4, <2>5 DEF ProjectInit, DataOK, GhostsOK
<1>3. ProjectTypeOK
  <2>1. sync \in [rows : Rows, held : Roots \cup {None}, at : Projects \cup {None}]
    BY <1>1 DEF ProjectInit, Resting, NoRows, Rows
  <2>2. /\ phase \in {"down", "lost", "recovered", "home", "backfilled", "up"}
        /\ requests \in 0..MaxRequests /\ crashes \in 0..MaxCrashes
    BY <1>1, ProjectsAssumption DEF ProjectInit
  <2> QED BY <1>2, <2>1, <2>2, TypeParts
<1>4. JobsOK /\ WantsOK /\ AloneOK
  BY <1>2, IdleFacts DEF JobsOK, WantsOK, Wanted, AloneOK
<1>5. SyncOK
  BY <1>1 DEF ProjectInit, Resting, SyncOK
<1>6. GoneOK /\ KeptJobsOK /\ KeptOK
  BY <1>1 DEF ProjectInit, GoneOK, KeptJobsOK, KeptOK
<1>7. RootsOK /\ TornOK
  BY <1>2 DEF RootsOK, TornOK
<1> QED BY <1>3, <1>4, <1>5, <1>6, <1>7 DEF ProjectIInv

LEMMA ProjectNextInv == ProjectIInv /\ [ProjectNext]_projectVars => ProjectIInv'
<1>1. SUFFICES ASSUME ProjectIInv, [ProjectNext]_projectVars PROVE ProjectIInv'
  OBVIOUS
<1>2. /\ ProjectTypeOK /\ JobsOK /\ SyncOK /\ GoneOK /\ RootsOK /\ WantsOK /\ TornOK /\ AloneOK
  BY <1>1 DEF ProjectIInv
<1>3. ProjectTypeOK' /\ SyncOK' /\ JobsOK'
  BY <1>1, <1>2, NextTypes, NextJobs
<1>4. GoneOK' /\ RootsOK' /\ WantsOK'
  BY <1>1, <1>2, NextGone, NextRoots
<1>5. TornOK' /\ AloneOK' /\ KeptJobsOK' /\ KeptOK'
  BY <1>1, <1>2, NextTorn, NextAlone, NextKept
<1> QED BY <1>3, <1>4, <1>5 DEF ProjectIInv

LEMMA ProjectInvariant == ProjectSpec => []ProjectIInv
BY ProjectInitInv, ProjectNextInv, PTL DEF ProjectSpec

(* The device's state always has the shape the code gives it.                  *)
THEOREM ProjectTypeSafe == ProjectSpec => []ProjectTypeOK
<1>1. ProjectIInv => ProjectTypeOK
  BY DEF ProjectIInv
<1> QED BY <1>1, ProjectInvariant, PTL

(* A removed project stays removed: the registry has no place for it, no root  *)
(* is discovered of it, and its row is gone with the commit of the DELETE,     *)
(* through requests with older lists, failed calls, crashes and rebuilds.      *)
THEOREM RemovedStaysRemoved == ProjectSpec => []GoneStaysGone
<1>1. ASSUME ProjectIInv PROVE GoneStaysGone
  <2>1. ASSUME NEW p \in gone PROVE RootsOf(p) = {}
    BY <1>1, <2>1, RemovedHasNoRoot DEF ProjectIInv, GoneOK, ProjectTypeOK
  <2> QED BY <1>1, <2>1 DEF ProjectIInv, GoneOK, GoneStaysGone
<1> QED BY <1>1, ProjectInvariant, PTL

(* A project that was created, imported, moved or spared undisturbed can be    *)
(* rebuilt from the files from then on, and is there when the daemon is up:    *)
(* the registry names a root of its, with its manifest.                        *)
THEOREM KeptIsFound == ProjectSpec => []KeptSurvives
<1>1. ASSUME ProjectIInv PROVE KeptSurvives
  <2>1. ASSUME NEW p \in kept PROVE registry.active[p] \in RootsOf(p)
    BY <1>1, <2>1, RegisteredRoot DEF ProjectIInv, KeptOK, ProjectTypeOK
  <2> QED BY <1>1, <2>1 DEF ProjectIInv, KeptOK, KeptSurvives
<1> QED BY <1>1, ProjectInvariant, PTL
=============================================================================
