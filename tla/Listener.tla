------------------------------ MODULE Listener ------------------------------
(***************************************************************************)
(* api/Listener with the socket operations of api/Session: the pipeline      *)
(* accept -> ingress -> lane -> response -> writer, and its shutdown.        *)
(*                                                                         *)
(* Three queue families have a mutex and a condition variable each.  The     *)
(* wait predicates also read stop_requested_, which stop() sets without any   *)
(* of the mutexes.  Ingress and writer threads hand a socket to the I/O       *)
(* threads and block on a future; stop() cancels the operations it finds      *)
(* registered.  The I/O threads leave ioc_.run() when they run out of work.   *)
(*                                                                         *)
(* A worker evaluates its predicate ("checked", the mutex held) and then      *)
(* sleeps ("waiting", the mutex free): the flag may change in between.        *)
(***************************************************************************)
EXTENDS Naturals, Sequences, FiniteSets

CONSTANTS Conns,          \* client connections, one request each
          Requests,       \* what the clients may ask for: a lane per connection
          Streaming,      \* requests that may be answered by an event stream
          Importing,      \* requests that may start an asset import
          Leavers,        \* clients that may leave before they are answered
          SlowReaders,    \* clients that do not take their response
          Ingress, Savers, Generals, Writers,   \* the worker threads
          Threads,        \* callers of stop(): run() itself, the health monitor
          Signals,        \* a termination signal may arrive
          Failures,       \* opening a database or a handler may throw
          MaxPending,     \* kMaxPendingAcceptedSockets
          MaxLane         \* kMaxPreparedRequestsPerLane

Lane == {"save", "foreground", "background"}
NoConn == "none"
Lanes == Savers \cup Generals
Workers == Ingress \cup Lanes \cup Writers

ASSUME ListenerAssumption ==
  /\ Requests \subseteq [Conns -> Lane]
  /\ Streaming \cup Importing \cup Leavers \cup SlowReaders \subseteq Conns
  /\ MaxPending \in Nat \ {0} /\ MaxLane \in Nat \ {0}
  /\ Ingress \cap Lanes = {} /\ Writers \cap (Ingress \cup Lanes) = {}
  /\ Savers \cap Generals = {} /\ "main" \in Threads /\ NoConn \notin Conns
  /\ Signals \in BOOLEAN /\ Failures \in BOOLEAN

VARIABLES laneOf,      \* per connection: classify_request_lane of its request
          client,      \* per connection: what the client has done
          socket,      \* per connection: the daemon's end
          accept,      \* the accept operation or its handler
          pending, lanes, responses,      \* the queues
          worker,      \* per worker: where it is and the connection it owns
          op,          \* per connection: the read or write in the I/O threads' hands
          streams,     \* connections owned by an event stream
          imports,     \* import threads that run, named by their request
          polls,       \* event streams whose source is read by a poll worker
          eventsStopped,
          io,          \* the I/O threads are in ioc_.run()
          stop,        \* stop_requested_
          failed,      \* worker_failed
          thread       \* per thread: where it is in run() and stop()

vars == <<laneOf, client, socket, accept, pending, lanes, responses, worker, op,
          streams, imports, polls, eventsStopped, io, stop, failed, thread>>
queues == <<pending, lanes, responses>>

NoOp == [st |-> "none", cancel |-> FALSE, late |-> FALSE]
Idle == [pc |-> "loop", conn |-> NoConn]

Init ==
  /\ laneOf \in Requests
  /\ client = [c \in Conns |-> "away"]
  /\ socket = [c \in Conns |-> "none"]
  /\ accept = [pc |-> "armed", conn |-> NoConn]
  /\ pending = <<>> /\ lanes = [l \in Lane |-> <<>>] /\ responses = <<>>
  /\ worker = [w \in Workers |-> IF w \in Lanes THEN [Idle EXCEPT !.pc = "init"] ELSE Idle]
  /\ op = [c \in Conns |-> NoOp]
  /\ streams = {} /\ imports = {} /\ polls = {} /\ eventsStopped = FALSE
  /\ io = TRUE /\ stop = FALSE /\ failed = FALSE
  /\ thread = [t \in Threads |-> "run"]

-----------------------------------------------------------------------------
(* Sockets, mutexes and condition variables *)

Close(cs) == [c \in Conns |-> IF c \in cs THEN "closed" ELSE socket[c]]
Elements(q) == {q[i] : i \in DOMAIN q}
Queued == Elements(pending) \cup Elements(responses)
            \cup UNION {Elements(lanes[l]) : l \in Lane}

Become(w, pc, c) == [worker EXCEPT ![w] = [pc |-> pc, conn |-> c]]
Step(w, pc) == [worker EXCEPT ![w].pc = pc]
Loop(w) == [worker EXCEPT ![w] = Idle]

(* The workers that share a mutex and condition variable with w.             *)
Peers(w) == IF w \in Ingress THEN Ingress ELSE IF w \in Writers THEN Writers ELSE Lanes
Free(group) == \A w \in group : worker[w].pc # "checked"
Wake(group) ==
  [w \in Workers |-> IF w \in group /\ worker[w].pc = "waiting"
                     THEN Idle ELSE worker[w]]

(* What a worker takes next; a general worker prefers the foreground.         *)
Inbox(w) ==
  IF w \in Ingress THEN pending
  ELSE IF w \in Writers THEN responses
  ELSE IF w \in Savers THEN lanes["save"]
  ELSE IF lanes["foreground"] # <<>> THEN lanes["foreground"] ELSE lanes["background"]

-----------------------------------------------------------------------------
(* Clients *)

Send(c) ==
  /\ client[c] = "idle"
  /\ client' = [client EXCEPT ![c] = "sent"]
  /\ UNCHANGED <<laneOf, imports, polls, socket, accept, queues, worker, op, streams, eventsStopped, io,
                 stop, failed, thread>>

(* A client that leaves after its request can still be read and executed.       *)
Leave(c) ==
  /\ c \in Leavers /\ client[c] \in {"idle", "sent"}
  /\ client' = [client EXCEPT ![c] = IF @ = "idle" THEN "gone" ELSE "left"]
  /\ UNCHANGED <<laneOf, imports, polls, socket, accept, queues, worker, op, streams, eventsStopped, io,
                 stop, failed, thread>>

-----------------------------------------------------------------------------
(* start_accept_loop(), on the I/O threads *)

(* A connection is established and the handler has looked at the flag.        *)
Accept(c) ==
  /\ io /\ accept.pc = "armed" /\ socket[c] = "none"
  /\ IF stop
     THEN /\ socket' = [socket EXCEPT ![c] = "closed"]
          /\ accept' = [pc |-> "off", conn |-> NoConn]
     ELSE /\ socket' = [socket EXCEPT ![c] = "open"]
          /\ accept' = [pc |-> "accepted", conn |-> c]
  /\ client' = [client EXCEPT ![c] = "idle"]
  /\ UNCHANGED <<laneOf, imports, polls, queues, worker, op, streams, eventsStopped, io, stop, failed,
                 thread>>

(* A full ingress queue drops the socket; the loop goes on unless stopped.     *)
AcceptEnqueue ==
  /\ accept.pc = "accepted" /\ Free(Ingress)
  /\ IF Len(pending) >= MaxPending
     THEN socket' = Close({accept.conn}) /\ UNCHANGED <<pending, worker>>
     ELSE /\ pending' = Append(pending, accept.conn)
          /\ \/ \E w \in Ingress : worker[w].pc = "waiting" /\ worker' = Wake({w})
             \/ (\A w \in Ingress : worker[w].pc # "waiting") /\ UNCHANGED worker
          /\ UNCHANGED socket
  /\ accept' = [pc |-> IF stop THEN "off" ELSE "armed", conn |-> NoConn]
  /\ UNCHANGED <<laneOf, imports, polls, client, lanes, responses, op, streams, eventsStopped, io,
                 stop, failed, thread>>

-----------------------------------------------------------------------------
(* The wait loops of the workers *)

AtLoop(w) == worker[w].pc = "loop" /\ Free(Peers(w))

(* The predicate is false: the worker is about to sleep.                      *)
Check(w) ==
  /\ AtLoop(w) /\ Inbox(w) = <<>> /\ ~stop
  /\ worker' = Step(w, "checked")
  /\ UNCHANGED <<laneOf, imports, polls, client, socket, accept, queues, op, streams, eventsStopped, io,
                 stop, failed, thread>>

Sleep(w) ==
  /\ worker[w].pc = "checked"
  /\ worker' = Step(w, "waiting")
  /\ UNCHANGED <<laneOf, imports, polls, client, socket, accept, queues, op, streams, eventsStopped, io,
                 stop, failed, thread>>

Exit(w) ==
  /\ AtLoop(w) /\ Inbox(w) = <<>> /\ stop
  /\ worker' = Step(w, "exited")
  /\ UNCHANGED <<laneOf, imports, polls, client, socket, accept, queues, op, streams, eventsStopped, io,
                 stop, failed, thread>>

(* The front of a queue is taken, and judged before anything else happens to   *)
(* it: an ingress worker looks at the flag again, a general worker drops a      *)
(* background request whose client has left.                                  *)
Pop(w) ==
  LET c == Head(Inbox(w))
      drop == \/ w \in Ingress /\ stop
              \/ w \in Generals /\ laneOf[c] = "background" /\ client[c] = "left"
  IN  /\ AtLoop(w) /\ Inbox(w) # <<>>
      /\ \/ drop /\ socket' = Close({c}) /\ worker' = Loop(w)
         \/ ~drop /\ worker' = Become(w, IF w \in Lanes THEN "execute" ELSE "begin", c)
                  /\ UNCHANGED socket
      /\ \/ w \in Ingress /\ pending' = Tail(pending) /\ UNCHANGED <<lanes, responses>>
         \/ w \in Writers /\ responses' = Tail(responses) /\ UNCHANGED <<pending, lanes>>
         \/ w \in Lanes /\ lanes' = [lanes EXCEPT ![laneOf[c]] = Tail(@)]
                        /\ UNCHANGED <<pending, responses>>
      /\ UNCHANGED <<laneOf, imports, polls, client, accept, op, streams, eventsStopped, io, stop,
                     failed, thread>>

-----------------------------------------------------------------------------
(* Session::async_read_request() and async_write_response() *)

(* stop() has taken its list of registered operations.                        *)
BeforeCancel == {"events", "pending", "lanes", "responses", "cancel"}
Cancelled == stop /\ \A t \in Threads : thread[t] \notin BeforeCancel

(* on_io_start registers the operation; `late' records that stop() will not     *)
(* find it.  Then it is posted to the I/O threads and the worker blocks on the   *)
(* future.                                                                    *)
Register(w) ==
  /\ worker[w].pc = "begin"
  /\ op' = [op EXCEPT ![worker[w].conn] =
              [NoOp EXCEPT !.st = "registered", !.late = Cancelled]]
  /\ worker' = Step(w, "io")
  /\ UNCHANGED <<laneOf, imports, polls, client, socket, accept, queues, streams, eventsStopped, io,
                 stop, failed, thread>>

Post(w) ==
  LET c == worker[w].conn
  IN  /\ worker[w].pc = "io" /\ op[c].st = "registered"
      /\ op' = [op EXCEPT ![c].st = "posted"]
      /\ UNCHANGED <<laneOf, imports, polls, client, socket, accept, queues, worker, streams,
                     eventsStopped, io,
                     stop, failed, thread>>

(* The completion handler: the peer acted, or the socket was closed under it.   *)
FinishIo(w) ==
  LET c == worker[w].conn
  IN  /\ io /\ worker[w].pc = "io" /\ op[c].st = "posted"
      /\ \/ socket[c] = "closed" \/ client[c] \in {"gone", "left"}
         \/ w \in Ingress /\ client[c] = "sent"
         \/ w \in Writers /\ c \notin SlowReaders
      /\ op' = [op EXCEPT ![c].st = "done"]
      /\ UNCHANGED <<laneOf, imports, polls, client, socket, accept, queues, worker, streams,
                     eventsStopped, io,
                     stop, failed, thread>>

(* A cancel() posted by stop(): without effect once the operation is done.      *)
CancelIo(c) ==
  /\ io /\ op[c].cancel
  /\ socket' = IF op[c].st \in {"registered", "posted"} THEN Close({c}) ELSE socket
  /\ op' = [op EXCEPT ![c].cancel = FALSE]
  /\ UNCHANGED <<laneOf, imports, polls, client, accept, queues, worker, streams, eventsStopped, io,
                 stop, failed, thread>>

-----------------------------------------------------------------------------
(* run_ingress_worker() and Session::prepare_request() *)

(* future.get() returns in the ingress worker: a failed read ends the           *)
(* connection, and so does a stop request.                                     *)
IngressRead(w) ==
  LET c == worker[w].conn
  IN  /\ w \in Ingress /\ worker[w].pc = "io" /\ op[c].st = "done"
      /\ op' = [op EXCEPT ![c].st = "none"]
      /\ IF socket[c] = "closed" \/ client[c] = "gone" \/ stop
         THEN socket' = Close({c}) /\ worker' = Loop(w)
         ELSE worker' = Step(w, "enqueue") /\ UNCHANGED socket
      /\ UNCHANGED <<laneOf, imports, polls, client, accept, queues, streams, eventsStopped, io, stop,
                     failed, thread>>

(* A full lane is answered with 503 by the ingress worker itself.              *)
IngressEnqueue(w) ==
  LET c == worker[w].conn
      l == laneOf[c]
  IN  /\ w \in Ingress /\ worker[w].pc = "enqueue" /\ Free(Lanes)
      /\ \/ /\ Len(lanes[l]) < MaxLane
            /\ lanes' = [lanes EXCEPT ![l] = Append(@, c)]
            /\ worker' = Become(w, "notify", NoConn)
            /\ UNCHANGED socket
         \/ /\ Len(lanes[l]) >= MaxLane
            /\ socket' = [socket EXCEPT ![c] = "answered"]
            /\ worker' = Loop(w)
            /\ UNCHANGED lanes
      /\ UNCHANGED <<laneOf, imports, polls, client, accept, pending, responses, op, streams,
                     eventsStopped, io,
                     stop, failed, thread>>

IngressNotifyOne(w) ==
  /\ w \in Ingress /\ worker[w].pc = "notify"
  /\ LET asleep == {v \in Lanes : worker[v].pc = "waiting"}
     IN  IF asleep = {} THEN worker' = Loop(w)
         ELSE \E v \in asleep : worker' = [Wake({v}) EXCEPT ![w] = Idle]
  /\ UNCHANGED <<laneOf, imports, polls, client, socket, accept, queues, op, streams, eventsStopped, io,
                 stop, failed, thread>>

(* lane_queue_cv_.notify_all(): savers and general workers share it.           *)
IngressNotify(w) ==
  /\ w \in Ingress /\ worker[w].pc = "notify"
  /\ worker' = [Wake(Lanes) EXCEPT ![w] = Idle]
  /\ UNCHANGED <<laneOf, imports, polls, client, socket, accept, queues, op, streams, eventsStopped, io,
                 stop, failed, thread>>

-----------------------------------------------------------------------------
(* run_save_worker() and run_general_worker() *)

(* make_worker_context() opens the worker's own database connection.           *)
Prepare(w) ==
  /\ worker[w].pc = "init"
  /\ worker' = Loop(w)
  /\ UNCHANGED <<laneOf, imports, polls, client, socket, accept, queues, op, streams, eventsStopped, io,
                 stop, failed, thread>>

ExecuteIgnoringStop(w) ==
  LET c == worker[w].conn
  IN  /\ worker[w].pc = "execute"
      /\ \/ /\ c \in Streaming
            /\ streams' = streams \cup {c} /\ worker' = Loop(w) /\ UNCHANGED <<socket, imports>>
         \/ /\ \/ stop /\ socket' = Close({c}) /\ worker' = Loop(w)
               \/ ~stop /\ worker' = Step(w, "push") /\ UNCHANGED socket
            /\ imports' \in {imports, imports \cup ({c} \cap Importing)}
            /\ UNCHANGED streams
      /\ UNCHANGED <<laneOf, polls, client, accept, queues, op, eventsStopped, io, stop,
                     failed, thread>>

(* The handler returns.  A streaming route has given the socket to an event      *)
(* stream, unless it found fault with the request or the event service has been   *)
(* stopped; any other response is dropped when the flag is set by now.  POST     *)
(* /imports leaves a thread behind that outlives the request.                   *)
Execute(w) ==
  LET c == worker[w].conn
  IN  /\ worker[w].pc = "execute"
      /\ \/ /\ c \in Streaming /\ ~eventsStopped
            /\ streams' = streams \cup {c} /\ worker' = Loop(w) /\ UNCHANGED <<socket, imports>>
         \/ /\ \/ stop /\ socket' = Close({c}) /\ worker' = Loop(w)
               \/ ~stop /\ worker' = Step(w, "push") /\ UNCHANGED socket
            /\ imports' \in {imports, imports \cup ({c} \cap Importing)}
            /\ UNCHANGED streams
      /\ UNCHANGED <<laneOf, polls, client, accept, queues, op, eventsStopped, io, stop,
                     failed, thread>>

Push(w) ==
  /\ worker[w].pc = "push" /\ Free(Writers)
  /\ responses' = Append(responses, worker[w].conn)
  /\ worker' = Become(w, "notify", NoConn)
  /\ UNCHANGED <<laneOf, imports, polls, client, socket, accept, pending, lanes, op, streams,
                 eventsStopped, io,
                 stop, failed, thread>>

(* response_queue_cv_.notify_one().                                            *)
PushNotify(w) ==
  /\ w \in Lanes /\ worker[w].pc = "notify"
  /\ LET asleep == {v \in Writers : worker[v].pc = "waiting"}
     IN  IF asleep = {} THEN worker' = Loop(w)
         ELSE \E v \in asleep : worker' = [Wake({v}) EXCEPT ![w] = Idle]
  /\ UNCHANGED <<laneOf, imports, polls, client, socket, accept, queues, op, streams, eventsStopped, io,
                 stop, failed, thread>>

(* An exception leaves the worker function: its socket is destroyed, and        *)
(* run() will stop the listener and rethrow.                                   *)
Fail(w) ==
  /\ Failures /\ worker[w].pc \in {"init", "execute"}
  /\ socket' = Close({worker[w].conn})
  /\ worker' = Become(w, "exited", NoConn)
  /\ failed' = TRUE
  /\ UNCHANGED <<laneOf, imports, polls, client, accept, queues, op, streams, eventsStopped, io, stop,
                 thread>>

(* The import is committed or has failed, the job says which, and its thread ends. *)
ImportEnds(c) ==
  /\ c \in imports
  /\ imports' = imports \ {c}
  /\ UNCHANGED <<laneOf, polls, client, socket, accept, queues, worker, op, streams,
                 eventsStopped, io, stop, failed, thread>>

(* schedule_poll() of an open stream, on the I/O threads: its source is read by a   *)
(* poll worker, which ends with the result or because the stream was closed.  A    *)
(* poll that begins between StopEvents and the close() it posts is taken to have   *)
(* begun before StopEvents, which it does not depend on.                          *)
PollStart(c) ==
  /\ io /\ c \in streams \ polls
  /\ polls' = polls \cup {c}
  /\ UNCHANGED <<laneOf, imports, client, socket, accept, queues, worker, op, streams,
                 eventsStopped, io, stop, failed, thread>>

PollEnds(c) ==
  /\ c \in polls
  /\ polls' = polls \ {c}
  /\ UNCHANGED <<laneOf, imports, client, socket, accept, queues, worker, op, streams,
                 eventsStopped, io, stop, failed, thread>>

Poll(c) == PollStart(c) \/ PollEnds(c)

(* The end of run_writer_worker()'s iteration: the connection is done.          *)
Written(w) ==
  LET c == worker[w].conn
  IN  /\ w \in Writers /\ worker[w].pc = "io" /\ op[c].st = "done"
      /\ socket' = [socket EXCEPT ![c] =
           IF @ = "closed" \/ client[c] = "left" THEN "closed" ELSE "answered"]
      /\ op' = [op EXCEPT ![c].st = "none"]
      /\ worker' = Loop(w)
      /\ UNCHANGED <<laneOf, imports, polls, client, accept, queues, streams, eventsStopped, io, stop,
                     failed, thread>>

-----------------------------------------------------------------------------
(* run() and stop().  The main thread leaves its polling loop for stop() on a    *)
(* signal, a failed worker or a stop request; the health monitor calls stop()    *)
(* itself.                                                                    *)

(* compare_exchange: the second caller returns at once, run() to its joins, the    *)
(* monitor without having changed anything.                                     *)
StopEnter(t) ==
  /\ thread[t] = "run"
  /\ IF t = "main" THEN Signals \/ stop \/ failed ELSE ~stop
  /\ stop' = TRUE
  /\ thread' = [thread EXCEPT ![t] = IF stop THEN "join" ELSE "events"]
  /\ UNCHANGED <<laneOf, imports, polls, client, socket, accept, queues, worker, op, streams,
                 eventsStopped, io, failed>>

(* events_->stop(): close() is posted to every stream; it runs on the I/O threads *)
(* or, when these have left, with the destruction of the io_context.              *)
StopEvents(t) ==
  /\ thread[t] = "events"
  /\ eventsStopped' = TRUE
  /\ socket' = Close(streams)
  /\ streams' = {}
  /\ thread' = [thread EXCEPT ![t] = "pending"]
  /\ UNCHANGED <<laneOf, imports, polls, client, accept, queues, worker, op, io, stop, failed>>

(* shutdown_queued_work(), one mutex after the other.                          *)
StopPending(t) ==
  /\ thread[t] = "pending" /\ Free(Ingress)
  /\ socket' = Close(Elements(pending))
  /\ pending' = <<>>
  /\ thread' = [thread EXCEPT ![t] = "lanes"]
  /\ UNCHANGED <<laneOf, imports, polls, client, accept, lanes, responses, worker, op, streams,
                 eventsStopped, io,
                 stop, failed>>

StopLanesKeepsQueue(t) ==
  /\ thread[t] = "lanes" /\ Free(Lanes)
  /\ socket' = Close(UNION {Elements(lanes[l]) : l \in Lane})
  /\ thread' = [thread EXCEPT ![t] = "responses"]
  /\ UNCHANGED <<laneOf, imports, polls, client, accept, queues, worker, op, streams, eventsStopped,
                 io, stop, failed>>

StopLanesUnlocked(t) ==
  /\ thread[t] = "lanes"
  /\ socket' = Close(UNION {Elements(lanes[l]) : l \in Lane})
  /\ lanes' = [l \in Lane |-> <<>>]
  /\ thread' = [thread EXCEPT ![t] = "responses"]
  /\ UNCHANGED <<laneOf, imports, polls, client, accept, pending, responses, worker, op, streams, eventsStopped,
                 io, stop, failed>>

StopLanes(t) ==
  /\ thread[t] = "lanes" /\ Free(Lanes)
  /\ socket' = Close(UNION {Elements(lanes[l]) : l \in Lane})
  /\ lanes' = [l \in Lane |-> <<>>]
  /\ thread' = [thread EXCEPT ![t] = "responses"]
  /\ UNCHANGED <<laneOf, imports, polls, client, accept, pending, responses, worker, op, streams,
                 eventsStopped, io,
                 stop, failed>>

StopResponses(t) ==
  /\ thread[t] = "responses" /\ Free(Writers)
  /\ socket' = Close(Elements(responses))
  /\ responses' = <<>>
  /\ thread' = [thread EXCEPT ![t] = "cancel"]
  /\ UNCHANGED <<laneOf, imports, polls, client, accept, pending, lanes, worker, op, streams,
                 eventsStopped, io,
                 stop, failed>>

StopCancelForgotten(t) ==
  /\ thread[t] = "cancel"
  /\ thread' = [thread EXCEPT ![t] = "notify"]
  /\ UNCHANGED <<laneOf, imports, polls, client, socket, accept, queues, worker, op, streams,
                 eventsStopped, io,
                 stop, failed>>

(* shutdown_active_sockets(): every operation registered now is cancelled.      *)
StopCancel(t) ==
  /\ thread[t] = "cancel"
  /\ op' = [c \in Conns |->
              [op[c] EXCEPT !.cancel = @ \/ op[c].st \in {"registered", "posted"}]]
  /\ thread' = [thread EXCEPT ![t] = "notify"]
  /\ UNCHANGED <<laneOf, imports, polls, client, socket, accept, queues, worker, streams,
                 eventsStopped, io, stop, failed>>

(* The three notify_all() and acceptor_.close(), which aborts the outstanding    *)
(* accept.                                                                    *)
StopNotify(t) ==
  /\ thread[t] = "notify"
  /\ worker' = Wake(Workers)
  /\ accept' = IF accept.pc = "armed" THEN [accept EXCEPT !.pc = "off"] ELSE accept
  /\ thread' = [thread EXCEPT ![t] = "join"]
  /\ UNCHANGED <<laneOf, imports, polls, client, socket, queues, op, streams, eventsStopped, io, stop,
                 failed>>

(* The joins of the workers in run(): only then can no import begin any more.    *)
JoinWorkers ==
  /\ thread["main"] = "join" /\ \A w \in Workers : worker[w].pc = "exited"
  /\ thread' = [thread EXCEPT !["main"] = "imports"]
  /\ UNCHANGED <<laneOf, imports, polls, client, socket, accept, queues, worker, op, streams,
                 eventsStopped, io, stop, failed>>

ReturnBeforePolls ==
  /\ thread["main"] = "imports" /\ imports = {}
  /\ accept.pc # "accepted"
  /\ io' = FALSE
  /\ thread' = [thread EXCEPT !["main"] = "returned"]
  /\ UNCHANGED <<laneOf, imports, polls, client, socket, accept, queues, worker, op, streams,
                 eventsStopped, stop, failed>>

(* wait_for_asset_import_jobs(), which joins the import threads it finds, the join *)
(* of the poll workers, then ioc_.stop() and the joins of the I/O threads.  A poll  *)
(* that is posted behind that join is never run.                                *)
Return ==
  /\ thread["main"] = "imports" /\ imports = {} /\ polls = {}
  /\ accept.pc # "accepted"
  /\ io' = FALSE
  /\ thread' = [thread EXCEPT !["main"] = "returned"]
  /\ UNCHANGED <<laneOf, imports, polls, client, socket, accept, queues, worker, op, streams,
                 eventsStopped,
                 stop, failed>>

(* ioc_.run() returns in every I/O thread once nothing is outstanding; a poll      *)
(* holds a work guard.                                                          *)
OutOfWork ==
  /\ io /\ accept.pc = "off" /\ streams = {} /\ polls = {}
  /\ \A c \in Conns : op[c].st # "posted" /\ ~op[c].cancel
  /\ io' = FALSE
  /\ UNCHANGED <<laneOf, imports, polls, client, socket, accept, queues, worker, op, streams,
                 eventsStopped,
                 stop, failed, thread>>

-----------------------------------------------------------------------------
WaitLoop(w) == Check(w) \/ Sleep(w) \/ Exit(w) \/ Pop(w)
IngressWork(w) == IngressRead(w) \/ IngressEnqueue(w) \/ IngressNotify(w)
LaneWork(w) == Prepare(w) \/ Execute(w) \/ Push(w) \/ PushNotify(w)
Work(w) ==
  \/ WaitLoop(w) \/ Register(w) \/ Post(w)
  \/ w \in Ingress /\ IngressWork(w)
  \/ w \in Lanes /\ LaneWork(w)
  \/ w \in Writers /\ Written(w)

Stop(t) ==
  \/ StopEvents(t) \/ StopPending(t) \/ StopLanes(t) \/ StopResponses(t)
  \/ StopCancel(t) \/ StopNotify(t)

IoThreads ==
  \/ AcceptEnqueue \/ OutOfWork
  \/ \E c \in Conns : CancelIo(c)
  \/ \E w \in Workers : FinishIo(w)

Next ==
  \/ \E c \in Conns : Send(c) \/ Leave(c) \/ Accept(c) \/ ImportEnds(c)
  \/ \E c \in Conns : Poll(c)
  \/ \E w \in Workers : Work(w)
  \/ \E w \in Lanes : Fail(w)
  \/ IoThreads
  \/ \E t \in Threads : StopEnter(t) \/ Stop(t)
  \/ JoinWorkers \/ Return

Spec == Init /\ [][Next]_vars

(* The thread of run(), once it has been told to stop: its polling loop ends.      *)
MainThread ==
  \/ StopEnter("main") /\ (stop \/ failed)
  \/ Stop("main") \/ JoinWorkers \/ Return

(* Threads are scheduled and the I/O threads complete what can complete.  Signals, *)
(* the monitor, failures and what clients do are never forced.                  *)
Scheduling ==
  /\ WF_vars(IoThreads) /\ WF_vars(MainThread)
  /\ \A t \in Threads \ {"main"} : WF_vars(Stop(t))

(* Handlers return, imports end and sources give their batch: run() joins all.   *)
StopSpec ==
  /\ Spec /\ Scheduling
  /\ \A w \in Workers : WF_vars(Work(w))
  /\ \A c \in Conns : WF_vars(ImportEnds(c)) /\ WF_vars(PollEnds(c))

(* Only the handlers of card writes are known to return.                        *)
SaveSpec ==
  /\ Spec /\ Scheduling
  /\ \A w \in Workers :
       WF_vars(Work(w) /\ (worker[w].pc = "execute" => laneOf[worker[w].conn] = "save"))

-----------------------------------------------------------------------------
(* Properties *)

TypeOK ==
  /\ laneOf \in [Conns -> Lane]
  /\ client \in [Conns -> {"away", "idle", "sent", "gone", "left"}]
  /\ socket \in [Conns -> {"none", "open", "answered", "closed"}]
  /\ accept \in [pc : {"armed", "accepted", "off"}, conn : Conns \cup {NoConn}]
  /\ pending \in Seq(Conns) /\ lanes \in [Lane -> Seq(Conns)] /\ responses \in Seq(Conns)
  /\ worker \in [Workers -> [pc : {"init", "loop", "checked", "waiting",
                                   "begin", "io", "enqueue", "notify", "execute",
                                   "push", "exited"},
                             conn : Conns \cup {NoConn}]]
  /\ op \in [Conns -> [st : {"none", "registered", "posted", "done"},
                       cancel : BOOLEAN, late : BOOLEAN]]
  /\ streams \subseteq Conns /\ imports \subseteq Conns /\ polls \subseteq Conns
  /\ eventsStopped \in BOOLEAN /\ io \in BOOLEAN /\ stop \in BOOLEAN /\ failed \in BOOLEAN
  /\ thread \in [Threads -> {"run", "events", "pending", "lanes", "responses",
                             "cancel", "notify", "join", "imports", "returned"}]

(* A socket has one owner at a time, from the accept handler through the queues,  *)
(* the workers and the event streams to its end, and no closed socket waits in    *)
(* a queue: moves between stages neither lose nor duplicate a request, also      *)
(* while stop() empties the queues and cancels operations.                      *)
PlacesOf(c) ==
  {<<"pending", i>> : i \in {i \in DOMAIN pending : pending[i] = c}}
    \cup {<<"responses", i>> : i \in {i \in DOMAIN responses : responses[i] = c}}
    \cup (UNION {{<<l, i>> : i \in {i \in DOMAIN lanes[l] : lanes[l][i] = c}} : l \in Lane})
    \cup {<<"worker", w>> : w \in {w \in Workers : worker[w].conn = c}}
    \cup (IF accept.conn = c THEN {<<"accept">>} ELSE {})
    \cup (IF c \in streams THEN {<<"stream">>} ELSE {})

OneOwner ==
  \A c \in Conns :
    /\ Cardinality(PlacesOf(c)) <= 1
    /\ socket[c] = "open" => PlacesOf(c) # {}
    /\ c \in Queued \cup streams => socket[c] = "open"

(* No worker sleeps on a condition that holds unless its notification is on its   *)
(* way.  stop() sets the flag outside the mutexes: only its pass through the      *)
(* queues, before it notifies, keeps the flag from slipping between a worker's    *)
(* look at the predicate and its sleep.  Savers and general workers share a       *)
(* condition variable: a single wake-up could reach the wrong kind.              *)
NoLostWakeup ==
  \A w \in Workers : worker[w].pc = "waiting" =>
    LET stopping == \E t \in Threads : thread[t] \in BeforeCancel \cup {"notify"}
    IN  /\ stop => stopping
        /\ Inbox(w) # <<>> =>
             \/ stopping
             \/ w \in Lanes /\ \E v \in Ingress : worker[v].pc = "notify"
             \/ w \in Writers /\ \E v \in Lanes : worker[v].pc = "notify"
             \/ w \notin Lanes /\ \E v \in Peers(w) : worker[v].pc = "loop"

(* When run() returns, no operation is in the I/O threads' hands; no import       *)
(* thread uses the Git adapter that is destroyed next, not even one whose request *)
(* was executed while stop() was under way; no source of an event stream is read   *)
(* any more; and no event stream is left that was not told to close: none slips   *)
(* in behind the stopped event service.  Only when                              *)
(* the health monitor is still inside stop() can run() be ahead of it; the daemon *)
(* joins the monitor before it destroys anything.                                 *)
NothingLeftRunning ==
  thread["main"] = "returned" =>
    /\ \A c \in Conns : op[c].st = "none"
    /\ imports = {} /\ polls = {}
    /\ streams # {} => \E t \in Threads \ {"main"} : thread[t] = "events"

(* A read or write that stop() did not find, or that was posted when the I/O     *)
(* threads had run out of work.                                               *)
Stranded == \E w \in Workers :
  /\ worker[w].pc = "io" /\ op[worker[w].conn].st = "posted"
  /\ op[worker[w].conn].late \/ ~io

(* Once stop is requested, by whichever thread, run() returns, whatever clients   *)
(* do or fail to do; unless an operation slipped past the cancellation.          *)
StopEnds == stop ~> (thread["main"] = "returned" \/ Stranded)

(* A response write has no time limit: as many clients that do not read as there  *)
(* are writers hold up every other response until the listener stops.            *)
WritersHeld ==
  \A v \in Writers : worker[v].pc = "io" /\ worker[v].conn \in SlowReaders

(* A card write that has been queued is answered, to its own client, although every *)
(* general worker may be stuck in a slow route (tests/HttpListener_test.cpp:194)   *)
(* and another client does not read its response, unless the client leaves, the   *)
(* daemon stops, or the clients that do not read have taken every writer.         *)
SaveAnswered ==
  \A c \in Conns \ SlowReaders :
    c \in Elements(lanes["save"]) ~>
      socket[c] = "answered" \/ client[c] = "left" \/ stop \/ failed \/ WritersHeld

(* "Listener stop cancels in-flight ingress read and returns promptly"           *)
(* (tests/HttpListener_test.cpp:429).                                           *)
RunReturns == stop ~> thread["main"] = "returned"
=============================================================================
