----------------------------- MODULE ModelRunner -----------------------------
(***************************************************************************)
(* Local model runners: the pull jobs a LocalModelRunner keeps, the thread *)
(* of each job, the streams that follow one, and the RunnerRegistry each   *)
(* worker holds.  All registries share the auto-local runner; a manual     *)
(* runner is an object of its own in every registry, replaced whenever     *)
(* that registry refreshes and destroyed, its pull threads joined, when    *)
(* its last owner lets go.                                                 *)
(*                                                                         *)
(* Sources: src/src/llm/LocalModelRunner.cpp, RunnerRegistry.cpp,          *)
(* ExecutorRunnerClient.cpp, src/src/api/routes/ai/AiRunnerRoutes.cpp,     *)
(* src/src/api/routes/ai/runner/AiRunnerPullRoutes.cpp and                 *)
(* AiRunnerPullEventRoutes.cpp.                                            *)
(*                                                                         *)
(* Workers and stream sources reach a runner through ExecutorRunnerClient, *)
(* one task of the shared executor per call (module SerialExecutor), so a  *)
(* call is one step here.  The model has one manual runner.  Left out: the *)
(* probe's contents, spawning, generation, fake mode and progress figures. *)
(***************************************************************************)
EXTENDS Integers, FiniteSets

CONSTANTS
  Workers,      \* general workers, each with a registry
  Models,       \* model names
  Streams,      \* event streams of pull jobs
  MaxJobs,      \* bound on pull jobs
  MaxRunners,   \* bound on manual LocalModelRunner objects
  MaxEdits      \* bound on edits and retries of the manual runner

\* There are finitely many workers, and room for the runner each starts with.
ASSUME ModelRunnerAssumption ==
  /\ MaxJobs \in Nat /\ MaxRunners \in Nat /\ MaxEdits \in Nat
  /\ IsFiniteSet(Workers) /\ Cardinality(Workers) <= MaxRunners

VARIABLES
  enabled,   \* the ai_runners row of the manual runner exists and is enabled
  client,    \* worker -> manual_clients_ of its registry: an object or None
  alive,     \* LocalModelRunner objects not destroyed
  leaving,   \* worker -> object whose destructor it is in, or None
  loading,   \* workers between the clear and the load of a refresh
  jobs,      \* job -> its entry in pulls_ and its thread
  stream,    \* stream -> the state of its source
  edits,
  made       \* objects made so far

vars == <<enabled, client, alive, leaving, loading, jobs, stream,
          edits, made>>

None == -1
AutoLocal == 0
Object == 0..MaxRunners
Job == 1..MaxJobs
Verdict == {"completed", "failed"}
Live == {"queued", "downloading", "verifying"}

NoJob == [owner |-> None, model |-> None, status |-> "none", thread |-> "none"]
Closed == [at |-> "closed", job |-> 1, obj |-> None, cursor |-> FALSE,
           ending |-> "none"]

Init ==
  /\ enabled = TRUE
  /\ made = 0..Cardinality(Workers)
  /\ alive = made
  /\ client = CHOOSE f \in [Workers -> made \ {AutoLocal}] :
                \A v, w \in Workers : v # w => f[v] # f[w]
  /\ leaving = [w \in Workers |-> None]
  /\ loading = {}
  /\ jobs = [j \in Job |-> NoJob]
  /\ stream = [s \in Streams |-> Closed]
  /\ edits = 0

registry == <<enabled, client, alive, leaving, loading, edits, made>>

\* A worker serves a request when it is not in the middle of a refresh.
Free(w) == leaving[w] = None /\ w \notin loading

\* get_client and share_client.
Client(w, runner) == IF runner = "auto" THEN AutoLocal ELSE client[w]
Runner == {"auto", "manual"}

----------------------------------------------------------------------------
(* Pull jobs.                                                              *)

Pulling(o, m) == {j \in Job : jobs[j].owner = o /\ jobs[j].model = m
                              /\ jobs[j].status \in Live}

StartPullUnlessDownloading(w, runner, m) ==
  LET o == Client(w, runner) IN
  /\ Free(w) /\ o # None
  /\ \A j \in Pulling(o, m) : jobs[j].status # "downloading"
  /\ \E j \in Job :
       /\ jobs[j] = NoJob
       /\ \A i \in 1..(j - 1) : jobs[i] # NoJob
       /\ jobs' = [jobs EXCEPT ![j] = [owner |-> o, model |-> m,
                                      status |-> "queued", thread |-> "new"]]
  /\ UNCHANGED <<registry, stream>>

\* start_pull: a live job of the model is the answer and nothing changes;
\* else a new job and its thread.
StartPull(w, runner, m) ==
  LET o == Client(w, runner) IN
  /\ Free(w) /\ o # None
  /\ Pulling(o, m) = {}
  /\ \E j \in Job :
       /\ jobs[j] = NoJob
       /\ \A i \in 1..(j - 1) : jobs[i] # NoJob
       /\ jobs' = [jobs EXCEPT ![j] = [owner |-> o, model |-> m,
                                      status |-> "queued", thread |-> "new"]]
  /\ UNCHANGED <<registry, stream>>

SetJob(j, status, thread) ==
  jobs' = [jobs EXCEPT ![j].status = status, ![j].thread = thread]

\* run_pull up to the answer's header.
Begin(j) ==
  /\ jobs[j].thread = "new"
  /\ SetJob(j, "downloading", "reading")
  /\ UNCHANGED <<registry, stream>>

LineReadsOn(j, status) ==
  /\ jobs[j].thread = "reading"
  /\ SetJob(j, status, "reading")
  /\ UNCHANGED <<registry, stream>>

\* A well-formed line of the runner's answer: an error or "success" ends the
\* reading, "success" goes on to probe(false), anything else is progress.
Line(j, status) ==
  /\ jobs[j].thread = "reading"
  /\ SetJob(j, status, CASE status = "completed" -> "probing"
                         [] status = "failed" -> "ended"
                         [] OTHER -> "reading")
  /\ UNCHANGED <<registry, stream>>

\* A header that is not 200, or an exception on the connection.
PullBreaks(j) ==
  /\ jobs[j].thread = "reading"
  /\ SetJob(j, "failed", "ended")
  /\ UNCHANGED <<registry, stream>>

\* The answer ends without a verdict, or its last line came in two pieces and
\* neither parsed: the loop is over and nothing is written.
AnswerEnds(j) ==
  /\ jobs[j].thread = "reading"
  /\ SetJob(j, jobs[j].status, "ended")
  /\ UNCHANGED <<registry, stream>>

Probe(j) ==
  /\ jobs[j].thread = "probing"
  /\ SetJob(j, jobs[j].status, "ended")
  /\ UNCHANGED <<registry, stream>>

PullThread(j) ==
  \/ Begin(j) \/ PullBreaks(j) \/ AnswerEnds(j) \/ Probe(j)
  \/ \E s \in Verdict \cup {"downloading", "verifying"} : Line(j, s)

\* GET /ai/runner/pull/{job_id} for the runner the job was started on: what
\* get_pull finds if this worker serves the request.  It changes nothing.
GetPull(w, j) ==
  Client(w, IF jobs[j].owner = AutoLocal THEN "auto" ELSE "manual") = jobs[j].owner

----------------------------------------------------------------------------
(* GET /ai/runner/pull/{job_id}/events.                                    *)

\* The stream shares the client it was opened on.
OpenStream(s, w, runner, j, cursor) ==
  LET o == Client(w, runner) IN
  /\ Free(w) /\ stream[s].at = "closed" /\ o # None
  /\ jobs[j] # NoJob
  /\ stream' = [stream EXCEPT ![s] =
                  [Closed EXCEPT !.at = "open", !.job = j, !.obj = o,
                                 !.cursor = cursor]]
  /\ UNCHANGED <<registry, jobs>>

\* What the source makes of get_pull: the terminal event, or none.  A runner
\* that does not have the job ends the stream with failed, as a failed job does.
Ending(s) ==
  LET j == stream[s].job IN
  IF stream[s].cursor THEN "resync"
  ELSE IF jobs[j].owner # stream[s].obj THEN "failed"
  ELSE IF jobs[j].status \in Verdict THEN jobs[j].status
  ELSE "none"

\* The poll that ends the stream; the others send a snapshot of progress and
\* change nothing.  A cursor is of another connection's journal, which the
\* journal of this one answers with resync_required (module EventJournal).
Poll(s) ==
  /\ stream[s].at = "open"
  /\ Ending(s) # "none"
  /\ stream' = [stream EXCEPT ![s].at = "over", ![s].ending = Ending(s)]
  /\ UNCHANGED <<registry, jobs>>

Disconnect(s) ==
  /\ stream[s].at = "open"
  /\ stream' = [stream EXCEPT ![s].at = "over"]
  /\ UNCHANGED <<registry, jobs>>

Held(o) == \/ \E w \in Workers : client[w] = o
           \/ \E s \in Streams : stream[s].at \in {"open", "over"}
                                 /\ stream[s].obj = o

Running(o) == {j \in Job : jobs[j].owner = o
                           /\ jobs[j].thread \in {"new", "reading", "probing"}}

\* The stream lets go of its client; the last owner runs the destructor,
\* which joins the pull threads first.
CloseStream(s) ==
  LET o == stream[s].obj
      last == /\ o # AutoLocal
              /\ \A w \in Workers : client[w] # o
              /\ \A t \in Streams \ {s} : stream[t].obj # o
  IN /\ stream[s].at = "over"
     /\ last => Running(o) = {}
     /\ alive' = IF last THEN alive \ {o} ELSE alive
     /\ stream' = [stream EXCEPT ![s] = Closed]
     /\ UNCHANGED <<enabled, client, leaving, loading, jobs, edits, made>>

----------------------------------------------------------------------------
(* POST, PATCH, DELETE /ai/runners and POST .../retry: the row, then       *)
(* RunnerRegistry::refresh of the worker that served the request.          *)

\* Retry keeps the row and, after its probe, refreshes all the same.
EditRunner(w, on) ==
  /\ Free(w) /\ edits < MaxEdits
  /\ edits' = edits + 1
  /\ enabled' = on
  /\ leaving' = [leaving EXCEPT ![w] = client[w]]
  /\ client' = [client EXCEPT ![w] = None]
  /\ loading' = loading \cup {w}
  /\ UNCHANGED <<alive, jobs, stream, made>>

\* persist_device_config throws after the row is written: the request fails
\* and the registry keeps its clients.
EditUnsaved(w, on) ==
  /\ Free(w) /\ edits < MaxEdits /\ on # enabled
  /\ edits' = edits + 1
  /\ enabled' = on
  /\ UNCHANGED <<client, alive, leaving, loading, jobs, stream, made>>

DestroyWithoutJoin(w) ==
  /\ leaving[w] # None
  /\ alive' = IF Held(leaving[w]) THEN alive ELSE alive \ {leaving[w]}
  /\ leaving' = [leaving EXCEPT ![w] = None]
  /\ UNCHANGED <<enabled, client, loading, jobs, stream, edits, made>>

DestroyWaitsForStreams(w) ==
  /\ leaving[w] # None
  /\ ~Held(leaving[w]) /\ Running(leaving[w]) = {}
  /\ alive' = alive \ {leaving[w]}
  /\ leaving' = [leaving EXCEPT ![w] = None]
  /\ UNCHANGED <<enabled, client, loading, jobs, stream, edits, made>>

\* manual_clients_.clear(): without another owner, ~LocalModelRunner joins
\* the pull threads and only then is the object gone.
Destroy(w) ==
  /\ leaving[w] # None
  /\ Held(leaving[w]) \/ Running(leaving[w]) = {}
  /\ alive' = IF Held(leaving[w]) THEN alive ELSE alive \ {leaving[w]}
  /\ leaving' = [leaving EXCEPT ![w] = None]
  /\ UNCHANGED <<enabled, client, loading, jobs, stream, edits, made>>

\* load_manual_clients reads the rows again.  The probe that each new client
\* queues on the shared executor is left out.
Load(w) ==
  /\ w \in loading /\ leaving[w] = None
  /\ loading' = loading \ {w}
  /\ \/ /\ ~enabled
        /\ UNCHANGED <<client, alive, made>>
     \/ \E o \in Object \ made :
          /\ enabled
          /\ \A i \in 0..(o - 1) : i \in made
          /\ client' = [client EXCEPT ![w] = o]
          /\ alive' = alive \cup {o}
          /\ made' = made \cup {o}
  /\ UNCHANGED <<enabled, leaving, jobs, stream, edits>>

----------------------------------------------------------------------------
Next ==
  \/ \E w \in Workers :
       \/ \E r \in Runner, m \in Models : StartPull(w, r, m)
       \/ \E s \in Streams, r \in Runner, j \in Job, c \in BOOLEAN :
            OpenStream(s, w, r, j, c)
       \/ \E on \in BOOLEAN : EditRunner(w, on) \/ EditUnsaved(w, on)
       \/ Destroy(w) \/ Load(w)
  \/ \E j \in Job : PullThread(j)
  \/ \E s \in Streams : Poll(s) \/ Disconnect(s) \/ CloseStream(s)

\* A thread that can run runs; the runner answers a pull in the end, with a
\* verdict or without one.
Fairness ==
  /\ \A j \in Job :
       /\ WF_vars(Begin(j))
       /\ WF_vars(Probe(j))
       /\ WF_vars(\/ PullBreaks(j) \/ AnswerEnds(j)
                  \/ \E s \in Verdict : Line(j, s))
  /\ \A s \in Streams : WF_vars(Poll(s)) /\ WF_vars(CloseStream(s))
  /\ \A w \in Workers : WF_vars(Destroy(w)) /\ WF_vars(Load(w))

Spec == Init /\ [][Next]_vars /\ Fairness

----------------------------------------------------------------------------
(* Properties.                                                             *)

TypeOK ==
  /\ enabled \in BOOLEAN /\ client \in [Workers -> Object \cup {None}]
  /\ alive \subseteq Object /\ leaving \in [Workers -> Object \cup {None}]
  /\ loading \subseteq Workers
  /\ \A j \in Job : jobs[j].status \in Live \cup Verdict \cup {"none"}

\* A runner has at most one thread pulling a model, whichever workers and
\* streams use the runner and whatever became of earlier jobs (start_pull
\* looks for a live job before it adds one).
OnePullPerModel ==
  \A i, j \in Job :
    /\ i # j /\ jobs[i].owner = jobs[j].owner /\ jobs[i].model = jobs[j].model
    /\ jobs[i].owner # None
    => "ended" \in {jobs[i].thread, jobs[j].thread}
       \/ "probing" \in {jobs[i].thread, jobs[j].thread}

\* A runner outlives its pull threads and the event streams that share it.  A
\* pull thread uses the runner that started it: a refresh on a worker, or the
\* end of the last stream that shared the runner, waits in ~LocalModelRunner
\* until the thread is joined.  The source of an open stream uses the runner it
\* was opened on, also after the worker that opened it replaced its clients
\* (share_client).  Tasks of ExecutorRunnerClient are not users here.
RunnerOutlivesUsers ==
  /\ \A o \in Object : Running(o) # {} => o \in alive
  /\ \A s \in Streams : stream[s].at = "open" => stream[s].obj \in alive

\* A job's verdict is final, since run_pull stops reading at it, and a stream
\* that ended with completed told it.  One that ended with failed told it or was
\* opened on a runner that never had the job ("Pull job not found."), whatever
\* refreshes gave the workers since.
VerdictStands ==
  [][/\ \A j \in Job : jobs[j].status \in Verdict
                         => jobs'[j].status = jobs[j].status
     /\ \A s \in Streams : stream'[s].ending \in Verdict
          => \/ jobs'[stream'[s].job].status = stream'[s].ending
             \/ /\ stream'[s].ending = "failed"
                /\ jobs'[stream'[s].job].owner # stream'[s].obj
    ]_vars

\* The stream of a job with a verdict ends, and a worker in a refresh returns
\* to its queue: no stream and no destructor waits for the other.
StreamsAndRefreshesEnd ==
  /\ \A s \in Streams :
       (stream[s].at = "open" /\ jobs[stream[s].job].status \in Verdict)
         ~> (stream[s].at = "closed")
  /\ \A w \in Workers : (w \in loading) ~> (w \notin loading)

\* docs/event-streams.md: "Fetching the pull job is also available through its
\* ordinary JSON endpoint."  A job is found by every worker that serves the
\* request as long as its runner exists.
PullCanBeFetched ==
  \A w \in Workers, j \in Job :
    Free(w) /\ enabled /\ jobs[j] # NoJob => GetPull(w, j)

\* docs/event-streams.md: a pull's stream "finishes on `completed` or
\* `failed`".  What it finishes on is the state of the job.
StreamTellsJob ==
  \A s \in Streams : stream[s].ending \in Verdict
                        => jobs[stream[s].job].status = stream[s].ending

\* The same sentence: every job that started reaches a verdict.
PullSettles ==
  \A j \in Job : (jobs[j].status \in Live) ~> (jobs[j].status \in Verdict)

=============================================================================
