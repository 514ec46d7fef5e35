-------------------------- MODULE ModelRunnerProofs --------------------------
(* Runners, pulls and streams, for any number of workers, models, streams,    *)
(* jobs, runners and edits.                                                   *)
EXTENDS ModelRunner, FiniteSetTheorems, FunctionTheorems, TLAPS

Working == {"new", "reading", "probing"}

(* What pulls_ says of a job, and the state of an event source.                *)
Entry == [owner : Object \cup {None}, model : Models \cup {None},
          status : Live \cup Verdict \cup {"none"},
          thread : Working \cup {"none", "ended"}]
Source == [at : {"closed", "open", "over"}, job : Nat, obj : Object \cup {None},
           cursor : BOOLEAN, ending : Verdict \cup {"none", "resync"}]

Type ==
  /\ client \in [Workers -> Object \cup {None}]
  /\ leaving \in [Workers -> Object \cup {None}]
  /\ loading \subseteq Workers
  /\ alive \subseteq Object /\ made \subseteq Object /\ AutoLocal \in made
  /\ jobs \in [Job -> Entry]
  /\ stream \in [Streams -> Source]

(* A thread that has not seen the end of its answer has a live job, and only  *)
(* an entry of pulls_ has a thread.                                           *)
JobsAgree ==
  \A j \in Job : /\ jobs[j].thread \in {"new", "reading"} => jobs[j].status \in Live
                 /\ jobs[j].thread = "none" => jobs[j].owner = None
                 /\ jobs[j].owner = None => jobs[j] = NoJob

(* At most one live thread for a runner and a model.                          *)
OnePull ==
  \A i, j \in Job :
    /\ jobs[i].owner = jobs[j].owner /\ jobs[i].model = jobs[j].model
    /\ jobs[i].thread \in {"new", "reading"} /\ jobs[j].thread \in {"new", "reading"}
    => i = j

(* Whoever can reach a runner keeps it alive: a registry, a stream until it    *)
(* has let go, and a pull thread.  The auto-local runner is never given up.   *)
Reachable ==
  /\ AutoLocal \in alive
  /\ \A w \in Workers : /\ client[w] # None => client[w] \in alive \ {AutoLocal}
                        /\ leaving[w] # AutoLocal
  /\ \A s \in Streams : IF stream[s].at = "closed" THEN stream[s].obj = None
                                                   ELSE stream[s].obj \in alive
  /\ \A j \in Job : jobs[j].thread \in Working => jobs[j].owner \in alive

(* The verdict e of a stream on runner o is the status of job j, or it is     *)
(* failed and the runner does not have the job.                               *)
Told(e, j, o) == jobs[j].status = e \/ (e = "failed" /\ jobs[j].owner # o)

(* A stream follows a job that was started, and what it told holds.           *)
EndingTold ==
  \A s \in Streams :
    /\ stream[s].at # "closed" \/ stream[s].ending \in Verdict =>
         stream[s].job \in Job /\ jobs[stream[s].job] # NoJob
    /\ stream[s].ending \in Verdict =>
         Told(stream[s].ending, stream[s].job, stream[s].obj)

IInv == Type /\ JobsAgree /\ OnePull /\ Reachable /\ EndingTold

USE DEF None, AutoLocal

(* Each worker starts with a runner of its own: there are enough of them.     *)
LEMMA InitClients ==
  ASSUME Init
  PROVE  client \in [Workers -> made \ {AutoLocal}] /\ made \subseteq Object /\ AutoLocal \in made
<1> DEFINE n == Cardinality(Workers)
           Distinct(f) == \A v, w \in Workers : v # w => f[v] # f[w]
<1>1. n \in Nat /\ n <= MaxRunners /\ ExistsBijection(1..n, Workers)
  BY ModelRunnerAssumption, FS_CardinalityType
<1>2. ExistsBijection(Workers, 1..n)
  BY <1>1, Fun_ExistsBijSymmetric
<1>3. PICK g \in [Workers -> 1..n] : Distinct(g)
  BY <1>2 DEF ExistsBijection, Bijection, Injection, IsInjective
<1>4. made = 0..n
  BY DEF Init
<1>5. made \ {AutoLocal} = 1..n /\ made \subseteq Object /\ AutoLocal \in made
  <2> HIDE DEF n
  <2> QED BY <1>1, <1>4, ModelRunnerAssumption DEF Object
<1>6. \E f \in [Workers -> made \ {AutoLocal}] : \A v, w \in Workers : v # w => f[v] # f[w]
  BY <1>3, <1>5
<1>7. client \in [Workers -> made \ {AutoLocal}]
  BY <1>6 DEF Init
<1> QED
  BY <1>5, <1>7

LEMMA InitInv ==
  ASSUME Init
  PROVE  IInv
<1>1. Type
  BY InitClients DEF Init, Type, Working, NoJob, Closed, Entry, Source
<1>2. JobsAgree /\ OnePull
  BY DEF Init, JobsAgree, OnePull, NoJob
<1>3. Reachable
  BY InitClients DEF Init, Reachable, Working, NoJob, Closed
<1>4. EndingTold
  BY DEF Init, EndingTold, Closed, Verdict
<1> QED
  BY <1>1, <1>2, <1>3, <1>4 DEF IInv

(* What every step of a pull thread has in common: it moves its own job on,   *)
(* from a live job or leaving the verdict as it is.                           *)
LEMMA JobStep ==
  ASSUME IInv, NEW j \in Job, NEW st \in Live \cup Verdict \cup {"none"},
         NEW th \in {"reading", "probing", "ended"},
         SetJob(j, st, th), UNCHANGED <<registry, stream>>,
         jobs[j].thread \in Working,
         th = "reading" => st \in Live /\ jobs[j].thread \in {"new", "reading"},
         jobs[j].status \in Verdict => st = jobs[j].status
  PROVE  IInv'
<1> USE DEF IInv
<1>1. /\ jobs' = [jobs EXCEPT ![j].status = st, ![j].thread = th]
      /\ jobs'[j] = [jobs[j] EXCEPT !.status = st, !.thread = th]
      /\ \A i \in Job \ {j} : jobs'[i] = jobs[i]
      /\ \A i \in Job : jobs'[i].owner = jobs[i].owner /\ jobs'[i].model = jobs[i].model
  BY DEF SetJob, Type, Entry, Source
<1>2. Type'
  <2>1. jobs[j].thread \in Working \cup {"none", "ended"} /\ th \in Working \cup {"none", "ended"}
    BY DEF Working
  <2>2. jobs \in [Job -> Entry]
    BY DEF Type, Entry, Source
  <2>3. [jobs[j] EXCEPT !.status = st, !.thread = th] \in Entry
    BY <2>1, <2>2 DEF Entry
  <2> QED BY <1>1, <2>2, <2>3 DEF Type, registry
<1>3. JobsAgree'
  BY <1>1 DEF JobsAgree, Type, Working, NoJob, Entry, Source
<1>4. OnePull'
  BY <1>1 DEF OnePull, Type, Entry, Source
<1>5. Reachable'
  BY <1>1 DEF Reachable, Type, registry, Working, Entry, Source
<1>6. EndingTold'
  <2>1. jobs'[j] # NoJob
    BY <1>1 DEF NoJob, Type, Entry
  <2>2. ASSUME NEW e \in Verdict, NEW i \in Job, NEW o, Told(e, i, o)
        PROVE  Told(e, i, o)'
    BY <1>1, <2>2 DEF Told, Type, Entry
  <2> QED BY <1>1, <2>1, <2>2 DEF EndingTold, Type, Source
<1> QED
  BY <1>2, <1>3, <1>4, <1>5, <1>6

LEMMA PullThreadInv ==
  ASSUME IInv, NEW j \in Job, PullThread(j)
  PROVE  IInv'
<1> USE DEF Live, Verdict, Working
<1>1. /\ jobs[j].status \in Live \cup Verdict \cup {"none"}
      /\ jobs[j].thread \in {"new", "reading"} => jobs[j].status \in Live
  BY DEF IInv, Type, JobsAgree, Entry, Source
<1>2. CASE Begin(j)
  BY <1>1, <1>2, JobStep DEF Begin
<1>3. CASE PullBreaks(j)
  BY <1>1, <1>3, JobStep DEF PullBreaks
<1>4. CASE AnswerEnds(j)
  BY <1>1, <1>4, JobStep DEF AnswerEnds
<1>5. CASE Probe(j)
  BY <1>1, <1>5, JobStep DEF Probe
<1>6. ASSUME NEW s \in Verdict \cup {"downloading", "verifying"}, Line(j, s)
      PROVE  IInv'
  <2> DEFINE th == CASE s = "completed" -> "probing"
                     [] s = "failed" -> "ended"
                     [] OTHER -> "reading"
  <2>1. /\ th \in {"reading", "probing", "ended"}
        /\ th = "reading" => s \in Live
    OBVIOUS
  <2>2. jobs[j].thread = "reading" /\ SetJob(j, s, th) /\ UNCHANGED <<registry, stream>>
    BY <1>6 DEF Line
  <2> HIDE DEF th
  <2> QED BY <1>1, <2>1, <2>2, JobStep
<1> QED
  BY <1>2, <1>3, <1>4, <1>5, <1>6 DEF PullThread

LEMMA StartPullInv ==
  ASSUME IInv, NEW w \in Workers, NEW r \in Runner, NEW m \in Models, StartPull(w, r, m)
  PROVE  IInv'
<1> DEFINE o == Client(w, r)
           new == [owner |-> o, model |-> m, status |-> "queued", thread |-> "new"]
<1> USE DEF IInv
<1>1. o \in Object /\ o \in alive
  BY DEF StartPull, Client, Reachable, Type, Object, Entry, Source
<1>2. Pulling(o, m) = {} /\ UNCHANGED <<registry, stream>>
  BY DEF StartPull
<1>3. PICK j \in Job : jobs[j] = NoJob /\ jobs' = [jobs EXCEPT ![j] = new]
  BY DEF StartPull
<1> HIDE DEF o
<1>4. jobs'[j] = new /\ \A i \in Job \ {j} : jobs'[i] = jobs[i]
  BY <1>3 DEF Type, Entry, Source
<1>5. Type'
  BY <1>1, <1>2, <1>3 DEF Type, registry, Working, Live, Entry, Source
<1>6. JobsAgree'
  BY <1>1, <1>4 DEF JobsAgree, Live, Object
<1>7. \A i \in Job : ~(jobs[i].owner = o /\ jobs[i].model = m
                       /\ jobs[i].thread \in {"new", "reading"})
  BY <1>2 DEF Pulling, JobsAgree
<1>8. OnePull'
  BY <1>4, <1>7 DEF OnePull
<1>9. Reachable'
  BY <1>1, <1>2, <1>4 DEF Reachable, registry, Working
<1>10. EndingTold'
  <2>1. new # NoJob
    BY DEF NoJob
  <2> HIDE DEF new
  <2> QED BY <2>1, <1>2, <1>3, <1>4 DEF EndingTold, Told
<1> QED
  BY <1>5, <1>6, <1>8, <1>9, <1>10

LEMMA OpenStreamInv ==
  ASSUME IInv, NEW w \in Workers, NEW s \in Streams, NEW r \in Runner, NEW j \in Job,
         NEW c \in BOOLEAN, OpenStream(s, w, r, j, c)
  PROVE  IInv'
<1> DEFINE o == Client(w, r)
           new == [Closed EXCEPT !.at = "open", !.job = j, !.obj = o, !.cursor = c]
<1> USE DEF IInv
<1>1. o \in Object /\ o \in alive
  BY DEF OpenStream, Client, Reachable, Type, Object, Entry, Source
<1>2. UNCHANGED <<registry, jobs>> /\ stream' = [stream EXCEPT ![s] = new]
  BY DEF OpenStream
<1> HIDE DEF o
<1>3. /\ new.at = "open" /\ new.job = j /\ new.obj = o /\ new.cursor = c
      /\ new.ending = "none"
  BY DEF Closed
<1> HIDE DEF new
<1>4. stream'[s] = new /\ \A t \in Streams \ {s} : stream'[t] = stream[t]
  BY <1>2 DEF Type, Entry, Source
<1>5. Type'
  <2>1. j \in Nat
    BY ModelRunnerAssumption DEF Job
  <2>2. new \in Source
    BY <1>1, <2>1 DEF new, Closed, Source
  <2> QED BY <1>2, <2>2 DEF Type, registry
<1>6. JobsAgree' /\ OnePull'
  BY <1>2 DEF JobsAgree, OnePull
<1>7. Reachable'
  BY <1>1, <1>2, <1>3, <1>4 DEF Reachable, registry
<1>8. EndingTold'
  <2>1. jobs[j] # NoJob
    BY DEF OpenStream
  <2> QED BY <2>1, <1>2, <1>3, <1>4 DEF EndingTold, Verdict, Told
<1> QED
  BY <1>5, <1>6, <1>7, <1>8

LEMMA PollInv ==
  ASSUME IInv, NEW s \in Streams, Poll(s) \/ Disconnect(s)
  PROVE  IInv'
<1> USE DEF IInv
<1>1. UNCHANGED <<registry, jobs>> /\ stream[s].at = "open"
  BY DEF Poll, Disconnect
<1>2. PICK e \in Verdict \cup {"none", "resync"} :
        /\ stream' = [stream EXCEPT ![s] = [@ EXCEPT !.at = "over", !.ending = e]]
        /\ e \in Verdict => e = stream[s].ending \/ e = Ending(s)
  <2>1. CASE Poll(s)
    <3>1. Ending(s) \in Verdict \cup {"none", "resync"}
      BY DEF Ending, Verdict
    <3> HIDE DEF IInv
    <3> QED BY <2>1, <3>1 DEF Poll
  <2>2. CASE Disconnect(s)
    <3>1. stream[s].ending \in Verdict \cup {"none", "resync"}
      BY DEF Type, Entry, Source
    <3>2. stream' = [stream EXCEPT ![s] = [@ EXCEPT !.at = "over", !.ending = stream[s].ending]]
      BY <2>2 DEF Disconnect, Type, Entry, Source
    <3> QED BY <3>1, <3>2
  <2> QED BY <2>1, <2>2
<1>3. /\ \A t \in Streams \ {s} : stream'[t] = stream[t]
      /\ stream'[s] = [stream[s] EXCEPT !.at = "over", !.ending = e]
      /\ stream'[s].job = stream[s].job /\ stream'[s].obj = stream[s].obj
      /\ stream'[s].ending = e /\ stream'[s].at = "over"
  BY <1>2 DEF Type, Entry, Source
<1>4. Type'
  <2>1. [stream[s] EXCEPT !.at = "over", !.ending = e] \in Source
    BY DEF Type, Source
  <2> QED BY <1>1, <1>2, <2>1 DEF Type, registry
<1>5. JobsAgree' /\ OnePull'
  BY <1>1 DEF JobsAgree, OnePull
<1>6. Reachable'
  BY <1>1, <1>3 DEF Reachable, registry
<1>7. EndingTold'
  <2>1. Ending(s) \in Verdict => Told(Ending(s), stream[s].job, stream[s].obj)
    BY DEF Ending, Told, Verdict
  <2>2. e \in Verdict => Told(e, stream[s].job, stream[s].obj)
    BY <1>2, <2>1 DEF EndingTold
  <2>3. stream[s].job \in Job /\ jobs[stream[s].job] # NoJob
    BY <1>1 DEF EndingTold
  <2>4. \A d, j, o : Told(d, j, o)' <=> Told(d, j, o)
    BY <1>1 DEF Told
  <2>5. SUFFICES ASSUME NEW t \in Streams
                 PROVE  /\ stream'[t].at # "closed" \/ stream'[t].ending \in Verdict =>
                             stream'[t].job \in Job /\ jobs[stream'[t].job] # NoJob
                        /\ stream'[t].ending \in Verdict =>
                             Told(stream'[t].ending, stream'[t].job, stream'[t].obj)
    BY <1>1, <2>4 DEF EndingTold
  <2>6. CASE t = s
    BY <2>6, <1>3, <2>2, <2>3
  <2>7. CASE t # s
    BY <2>7, <1>3 DEF EndingTold
  <2> QED BY <2>6, <2>7
<1> QED
  BY <1>4, <1>5, <1>6, <1>7

(* The last stream of a given-up runner closes: the destructor has joined its *)
(* pull threads.                                                              *)
LEMMA CloseStreamInv ==
  ASSUME IInv, NEW s \in Streams, CloseStream(s)
  PROVE  IInv'
<1> DEFINE o == stream[s].obj
<1> USE DEF IInv
<1>1. UNCHANGED <<enabled, client, leaving, loading, jobs, edits, made>>
  BY DEF CloseStream
<1>2. stream' = [stream EXCEPT ![s] = Closed]
  BY DEF CloseStream
<1>3. \/ alive' = alive
      \/ /\ alive' = alive \ {o} /\ o # AutoLocal /\ Running(o) = {}
         /\ \A w \in Workers : client[w] # o
         /\ \A t \in Streams \ {s} : stream[t].obj # o
  BY DEF CloseStream
<1>4. stream'[s] = Closed /\ \A t \in Streams \ {s} : stream'[t] = stream[t]
  BY <1>2 DEF Type, Entry, Source
<1>5. Type'
  BY <1>1, <1>2, <1>3 DEF Type, Closed, Entry, Source
<1>6. JobsAgree' /\ OnePull'
  BY <1>1 DEF JobsAgree, OnePull
<1>7. Reachable'
  BY <1>1, <1>3, <1>4 DEF Reachable, Closed, Running, Working
<1>8. EndingTold'
  BY <1>1, <1>4 DEF EndingTold, Closed, Verdict, Told
<1> QED
  BY <1>5, <1>6, <1>7, <1>8

LEMMA EditInv ==
  ASSUME IInv, NEW w \in Workers, NEW on \in BOOLEAN, EditRunner(w, on) \/ EditUnsaved(w, on)
  PROVE  IInv'
<1> USE DEF IInv
<1>1. UNCHANGED <<alive, jobs, stream, made>>
  BY DEF EditRunner, EditUnsaved
<1>2. JobsAgree' /\ OnePull' /\ EndingTold'
  BY <1>1 DEF JobsAgree, OnePull, EndingTold, Told
<1>3. Type' /\ Reachable'
  <2>1. CASE EditRunner(w, on)
    BY <2>1, <1>1 DEF EditRunner, Type, Reachable, Object, Entry, Source
  <2>2. CASE EditUnsaved(w, on)
    BY <2>2, <1>1 DEF EditUnsaved, Type, Reachable, Entry, Source
  <2> QED BY <2>1, <2>2
<1> QED
  BY <1>2, <1>3

(* The refresh lets go of its old runner: another owner keeps it alive, or    *)
(* its pull threads are joined.                                               *)
LEMMA DestroyInv ==
  ASSUME IInv, NEW w \in Workers, Destroy(w)
  PROVE  IInv'
<1> DEFINE o == leaving[w]
<1> USE DEF IInv
<1>1. UNCHANGED <<enabled, client, loading, jobs, stream, edits, made>>
  BY DEF Destroy
<1>2. leaving' = [leaving EXCEPT ![w] = None]
  BY DEF Destroy
<1>3. \/ alive' = alive
      \/ alive' = alive \ {o} /\ ~Held(o) /\ Running(o) = {}
  BY DEF Destroy
<1>4. JobsAgree' /\ OnePull' /\ EndingTold'
  BY <1>1 DEF JobsAgree, OnePull, EndingTold, Told
<1>5. Type'
  BY <1>1, <1>2, <1>3 DEF Type, Entry, Source
<1>6. Reachable'
  BY <1>1, <1>2, <1>3 DEF Reachable, Held, Running, Working, Type, Entry, Source
<1> QED
  BY <1>4, <1>5, <1>6

LEMMA LoadInv ==
  ASSUME IInv, NEW w \in Workers, Load(w)
  PROVE  IInv'
<1> USE DEF IInv
<1>1. UNCHANGED <<enabled, leaving, jobs, stream, edits>> /\ loading' = loading \ {w}
  BY DEF Load
<1>2. JobsAgree' /\ OnePull' /\ EndingTold'
  BY <1>1 DEF JobsAgree, OnePull, EndingTold, Told
<1>3. CASE UNCHANGED <<client, alive, made>>
  BY <1>1, <1>2, <1>3 DEF Type, Reachable, Entry, Source
<1>4. ASSUME NEW o \in Object \ made,
             client' = [client EXCEPT ![w] = o],
             alive' = alive \cup {o}, made' = made \cup {o}
      PROVE  IInv'
  BY <1>1, <1>2, <1>4 DEF Type, Reachable, Entry, Source
<1> QED
  BY <1>3, <1>4 DEF Load

LEMMA StutterInv ==
  ASSUME IInv, UNCHANGED vars
  PROVE  IInv'
BY DEF vars, IInv, Type, JobsAgree, OnePull, Reachable, EndingTold, Told, Entry, Source

LEMMA NextInv ==
  ASSUME IInv, [Next]_vars
  PROVE  IInv'
BY StutterInv, StartPullInv, OpenStreamInv, EditInv, DestroyInv, LoadInv,
   PullThreadInv, PollInv, CloseStreamInv DEF Next

LEMMA Invariant == Spec => []IInv
BY InitInv, NextInv, PTL DEF Spec

(* For every number of workers, streams, jobs and edits: a runner has at most *)
(* one thread pulling a model (start_pull looks for a live job first).        *)
THEOREM OnePullAtATime == Spec => []OnePullPerModel
<1>1. IInv => OnePullPerModel
  <2> SUFFICES ASSUME IInv, NEW i \in Job, NEW j \in Job, i # j,
                      jobs[i].owner = jobs[j].owner, jobs[i].model = jobs[j].model,
                      jobs[i].owner # None
               PROVE  {jobs[i].thread, jobs[j].thread} \cap {"ended", "probing"} # {}
    BY DEF OnePullPerModel
  <2> QED BY DEF IInv, OnePull, JobsAgree, Type, Entry, Working
<1> QED
  BY <1>1, Invariant, PTL

(* For every number of workers, streams, jobs and edits: no pull thread and   *)
(* no open stream ever uses a LocalModelRunner that is destroyed, whatever    *)
(* refreshes of the registries and ends of streams give the runner up.        *)
THEOREM RunnersOutliveTheirUsers == Spec => []RunnerOutlivesUsers
<1>1. IInv => RunnerOutlivesUsers
  BY DEF IInv, Reachable, RunnerOutlivesUsers, Running, Working
<1> QED
  BY <1>1, Invariant, PTL

(* A verdict once written stays: only a thread that is still reading writes   *)
(* a job's status, and such a job has no verdict.                             *)
LEMMA VerdictKept ==
  ASSUME IInv, [Next]_vars, NEW j \in Job, jobs[j].status \in Verdict
  PROVE  jobs'[j].status = jobs[j].status
<1> USE DEF IInv, Verdict, Live
<1>1. ASSUME NEW i \in Job, PullThread(i)
      PROVE  jobs'[j].status = jobs[j].status
  <2>1. jobs[i].thread \in {"new", "reading"} => i # j
    BY DEF JobsAgree
  <2>2. PICK st, th : /\ jobs' = [jobs EXCEPT ![i].status = st, ![i].thread = th]
                      /\ i = j => st = jobs[i].status
    BY <1>1, <2>1 DEF PullThread, Begin, PullBreaks, AnswerEnds, Probe, Line, SetJob
  <2> QED BY <2>2 DEF Type
<1>2. ASSUME NEW w \in Workers, NEW r \in Runner, NEW m \in Models, StartPull(w, r, m)
      PROVE  jobs'[j].status = jobs[j].status
  <2>1. PICK i, new : i \in Job /\ jobs[i] = NoJob /\ jobs' = [jobs EXCEPT ![i] = new]
    BY <1>2 DEF StartPull
  <2>2. i # j
    BY <2>1 DEF NoJob
  <2> QED BY <2>1, <2>2 DEF Type
<1>3. CASE UNCHANGED vars
  BY <1>3 DEF vars
<1> QED
  BY <1>1, <1>2, <1>3 DEF Next, OpenStream, EditRunner, EditUnsaved, Destroy, Load,
     Poll, Disconnect, CloseStream

(* For every number of streams, jobs and refreshes: a verdict is final, a      *)
(* stream that ended with completed told it, and one that ended with failed   *)
(* told it or was opened on a runner that does not have the job.              *)
THEOREM VerdictsStand == Spec => VerdictStands
<1>1. IInv /\ IInv' /\ [Next]_vars =>
        [/\ \A j \in Job : jobs[j].status \in Verdict
                             => jobs'[j].status = jobs[j].status
         /\ \A s \in Streams : stream'[s].ending \in Verdict
              => \/ jobs'[stream'[s].job].status = stream'[s].ending
                 \/ /\ stream'[s].ending = "failed"
                    /\ jobs'[stream'[s].job].owner # stream'[s].obj
        ]_vars
  BY VerdictKept DEF IInv, EndingTold, Told
<1> QED
  BY <1>1, Invariant, PTL DEF Spec, VerdictStands
=============================================================================
