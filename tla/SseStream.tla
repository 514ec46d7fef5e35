----------------------------- MODULE SseStream -----------------------------
(***************************************************************************)
(* One server-sent event stream and its place in the registry              *)
(* (api/support/SseStream).                                                *)
(*                                                                         *)
(* Everything private to the stream runs on its strand, a first-in         *)
(* first-out list of handlers that I/O threads execute one at a time.      *)
(* Other threads only touch the atomics open_ and pending_bytes_ and post  *)
(* handlers: the request worker that runs an AI run (kind "run": reserve,  *)
(* activate or release, send..., finish), the poll workers that call the   *)
(* source of a subscription (kind "feed"), and the thread in               *)
(* SseRegistry::stop.                                                      *)
(*                                                                         *)
(* Timers expire at any moment; the daemon does not know how fast a client *)
(* reads.  A stream is refused when the registry is stopped or full; the   *)
(* other streams that fill it are not modelled, so full is a free choice.  *)
(***************************************************************************)
EXTENDS Integers, Sequences, FiniteSets
LOCAL INSTANCE Functions

CONSTANTS Kinds,            \* subset of {"run", "feed"}
          Size(_),          \* bytes of a frame
          MaxPendingBytes,  \* kMaxPendingBytes
          MaxFrames,        \* bound: events handed to send()
          MaxBatch,         \* bound: events of one batch
          MaxBeats,         \* bound: keep-alive frames
          MaxPolls          \* bound: calls of the source

Frames == 1..MaxFrames
KeepAlive == 0              \* the frame ": keepalive"
Header == -1                \* the response header, written before any frame

ASSUME StreamAssumption ==
  /\ Kinds \subseteq {"run", "feed"}
  /\ MaxFrames \in Nat /\ MaxBatch \in Nat /\ MaxBeats \in Nat /\ MaxPolls \in Nat
  /\ MaxPendingBytes \in Nat
  /\ \A f \in Frames \cup {KeepAlive} : Size(f) \in Nat

VARIABLES kind,
          s,          \* the SseStream object, its strand and its timers
          route,      \* where the thread that opened the stream is
          stopped,    \* SseRegistry::stopped_
          client,     \* "reading" or "gone"
          offered,    \* events handed to send() so far: 1, ..., offered
          delivered,  \* frames written to the socket
          broken,     \* somebody cancelled, timed out or went away
          polls, beats

vars == <<kind, s, route, stopped, client, offered, delivered, broken, polls, beats>>

-----------------------------------------------------------------------------
(* The object.  `writes' are the socket writes under way, `reading' the     *)
(* read that detects a disconnect, `timers' the timers that wait, `tasks'   *)
(* and `sourcing' the polls queued for and running on the poll workers,     *)
(* `batch' what is left of the batch its strand handler is sending.         *)

NoBatch == [left |-> 0, end |-> "none"]
Batch == [left : 0..MaxBatch, end : {"more", "finished", "resync"}]
Timers == {"write", "poll", "heartbeat"}

Handler(op, frame, ok, batch) == [op |-> op, frame |-> frame, ok |-> ok, batch |-> batch]
Plain(op) == Handler(op, Header, TRUE, NoBatch)
HandlerType ==       \* the header is never pushed
  {h \in [op : {"begin", "close", "finish", "eof", "push", "written", "batch"} \cup Timers,
          frame : Frames \cup {KeepAlive, Header}, ok : BOOLEAN, batch : Batch \cup {NoBatch}] :
     h.op = "push" => h.frame # Header}

NewStream ==
  [open |-> TRUE, headerDone |-> FALSE, writing |-> FALSE, finished |-> FALSE,
   queue |-> <<>>, pendingBytes |-> 0, socket |-> "route", strand |-> <<>>,
   writes |-> <<>>, reading |-> FALSE, timers |-> {}, tasks |-> 0, sourcing |-> 0,
   batch |-> NoBatch]

Post(x, h) == [x EXCEPT !.strand = Append(@, h)]

Cancel(x) == Post([x EXCEPT !.open = FALSE], Plain("close"))

(* The socket of a released stream has been moved away.                      *)
Close(x) ==
  [x EXCEPT !.open = FALSE, !.timers = {},
            !.socket = IF @ = "open" THEN "closed" ELSE @]

StartWrite(x, f) ==
  [x EXCEPT !.timers = @ \cup {"write"}, !.writes = Append(@, f)]

(* A completed run closes although frames are waiting.                       *)
WriteNextClosesFirst(x) ==
  IF ~x.open \/ ~x.headerDone \/ x.writing THEN x
  ELSE IF x.finished THEN Close(x)
  ELSE IF x.queue # <<>> THEN StartWrite([x EXCEPT !.writing = TRUE], Head(x.queue)) ELSE x

(* write_next: the front of the queue stays there until it is written.       *)
WriteNext(x) ==
  IF ~x.open \/ ~x.headerDone \/ x.writing THEN x
  ELSE IF x.queue # <<>> THEN StartWrite([x EXCEPT !.writing = TRUE], Head(x.queue))
  ELSE IF x.finished THEN Close(x) ELSE x

SchedulePoll(x) ==
  IF kind = "feed" /\ x.open /\ ~x.finished THEN [x EXCEPT !.tasks = @ + 1] ELSE x

Heartbeat(x) ==
  IF x.open /\ ~x.finished THEN [x EXCEPT !.timers = @ \cup {"heartbeat"}] ELSE x

(* enqueue as the strand's own handlers call it.                             *)
Enqueue(x, f) ==
  IF ~x.open THEN x
  ELSE IF x.pendingBytes + Size(f) > MaxPendingBytes THEN Cancel(x)
  ELSE Post([x EXCEPT !.pendingBytes = @ + Size(f)],
            Handler("push", f, TRUE, NoBatch))

-----------------------------------------------------------------------------
(* The handlers.                                                            *)

(* The header is written without a deadline.                                 *)
BeginWithoutDeadline(x) ==
  IF ~x.open THEN Close(x)
  ELSE [x EXCEPT !.writes = Append(@, Header), !.reading = TRUE]

Begin(x) ==
  IF ~x.open THEN Close(x)
  ELSE [StartWrite(x, Header) EXCEPT !.reading = TRUE]

HeaderWritten(x, ok) ==
  LET y == [x EXCEPT !.timers = @ \ {"write"}]
  IN IF ~ok \/ ~y.open THEN Close(y)
     ELSE Heartbeat(SchedulePoll(WriteNext([y EXCEPT !.headerDone = TRUE])))

FrameWritten(x, f, ok) ==
  LET y == [x EXCEPT !.timers = @ \ {"write"}, !.writing = FALSE,
                     !.pendingBytes = @ - Size(f), !.queue = Tail(@)]
  IN IF ~ok THEN Close(y) ELSE WriteNext(y)

Push(x, f) ==
  IF ~x.open THEN [x EXCEPT !.pendingBytes = @ - Size(f)]
  ELSE WriteNext([x EXCEPT !.queue = Append(@, f)])

Finish(x) == WriteNext([x EXCEPT !.finished = TRUE])

(* The batch handler starts; SendBatch continues it.                         *)
TakeBatch(x, batch) == IF x.open THEN [x EXCEPT !.batch = batch] ELSE x

(* The heartbeat polls as well.                                              *)
BeatPolls(x) ==
  IF x.open THEN SchedulePoll(Heartbeat(Enqueue(x, KeepAlive))) ELSE x

Beat(x) == IF x.open THEN Heartbeat(Enqueue(x, KeepAlive)) ELSE x

Handle(x, h) ==
  CASE h.op = "begin" -> Begin(x)
    [] h.op = "written" /\ h.frame = Header -> HeaderWritten(x, h.ok)
    [] h.op = "written" /\ h.frame # Header -> FrameWritten(x, h.frame, h.ok)
    [] h.op = "push" -> Push(x, h.frame)
    [] h.op = "finish" -> Finish(x)
    [] h.op = "batch" -> TakeBatch(x, h.batch)
    [] h.op = "poll" -> SchedulePoll(x)
    [] h.op = "heartbeat" -> Beat(x)
    [] h.op \in {"close", "eof", "write"} -> Close(x)

-----------------------------------------------------------------------------
Init ==
  /\ kind \in Kinds
  /\ s = NewStream
  /\ route = "start"
  /\ stopped = FALSE
  /\ client = "reading"
  /\ offered = 0
  /\ delivered = <<>>
  /\ broken = FALSE
  /\ polls = 0
  /\ beats = 0

(* The thread that opens the stream.                                         *)

Reserve ==
  /\ route = "start"
  /\ \/ /\ ~stopped
        /\ route' = "reserved"
        /\ s' = [s EXCEPT !.socket = "open"]
     \/ /\ route' = "refused"
        /\ UNCHANGED s
  /\ UNCHANGED <<kind, stopped, client, offered, delivered, broken, polls, beats>>

Activate ==
  /\ route = "reserved"
  /\ route' = IF kind = "run" THEN "sending" ELSE "done"
  /\ s' = Post(s, Plain("begin"))
  /\ UNCHANGED <<kind, stopped, client, offered, delivered, broken, polls, beats>>

(* The run could not be stored: the socket goes back to the route.           *)
Release ==
  /\ route = "reserved" /\ kind = "run"
  /\ route' = "released"
  /\ s' = [s EXCEPT !.open = FALSE, !.socket = "route"]
  /\ UNCHANGED <<kind, stopped, client, offered, delivered, broken, polls, beats>>

(* send() outside the strand: the look at open_ and fetch_add, ...           *)
SendAdd ==
  /\ route = "sending" /\ offered < MaxFrames
  /\ offered' = offered + 1
  /\ IF ~s.open
     THEN UNCHANGED <<s, route>>
     ELSE /\ s' = [s EXCEPT !.pendingBytes = @ + Size(offered')]
          /\ route' = IF s'.pendingBytes > MaxPendingBytes THEN "overflow" ELSE "added"
  /\ UNCHANGED <<kind, stopped, client, delivered, broken, polls, beats>>

(* ... then the frame is posted, ...                                         *)
SendPost ==
  /\ route = "added"
  /\ route' = "sending"
  /\ s' = Post(s, Handler("push", offered, TRUE, NoBatch))
  /\ UNCHANGED <<kind, stopped, client, offered, delivered, broken, polls, beats>>

(* ... or the bytes are given back, and the stream is cancelled.             *)
SendUndo ==
  /\ route = "overflow"
  /\ route' = "cancel"
  /\ s' = [s EXCEPT !.pendingBytes = @ - Size(offered)]
  /\ UNCHANGED <<kind, stopped, client, offered, delivered, broken, polls, beats>>

(* The frame that does not fit is dropped, the stream goes on.               *)
SendDropped ==
  /\ route = "cancel"
  /\ route' = "sending"
  /\ broken' = TRUE
  /\ UNCHANGED <<kind, s, stopped, client, offered, delivered, polls, beats>>

SendCancel ==
  /\ route = "cancel"
  /\ route' = "sending"
  /\ s' = Cancel(s)
  /\ broken' = TRUE
  /\ UNCHANGED <<kind, stopped, client, offered, delivered, polls, beats>>

(* RunStreamCompletion: the run is over, whatever became of the stream.      *)
PostFinish ==
  /\ route = "sending"
  /\ route' = "done"
  /\ s' = Post(s, Plain("finish"))
  /\ UNCHANGED <<kind, stopped, client, offered, delivered, broken, polls, beats>>

(* SseRegistry::stop; the registry does not own the streams, and a released  *)
(* one ends with the handler of its route.                                   *)
Stop ==
  /\ ~stopped
  /\ stopped' = TRUE
  /\ s' = IF route \in {"start", "refused", "released"} THEN s ELSE Cancel(s)
  /\ broken' = TRUE
  /\ UNCHANGED <<kind, route, client, offered, delivered, polls, beats>>

-----------------------------------------------------------------------------
(* The strand.                                                              *)

RunHandler ==
  /\ s.strand # <<>> /\ s.batch = NoBatch
  /\ LET h == Head(s.strand)
         x == [s EXCEPT !.strand = Tail(@)]
     IN /\ s' = Handle(x, h)
        /\ broken' = (broken \/ (h.op = "heartbeat" /\ x.open /\ ~s'.open))
        /\ beats' = IF h.op = "heartbeat" THEN beats + 1 ELSE beats
  /\ UNCHANGED <<kind, route, stopped, client, offered, delivered, polls>>

(* The loop over the events of a batch ...                                   *)
SendBatch ==
  /\ s.batch.left > 0 /\ offered < MaxFrames
  /\ offered' = offered + 1
  /\ LET y == Enqueue(s, offered')
     IN /\ s' = IF y.open THEN [y EXCEPT !.batch.left = @ - 1]
                ELSE [y EXCEPT !.batch = NoBatch]
        /\ broken' = (broken \/ ~y.open)
  /\ UNCHANGED <<kind, route, stopped, client, delivered, polls, beats>>

(* ... and what follows it.                                                  *)
EndBatch ==
  /\ s.batch # NoBatch /\ s.batch.left = 0
  /\ s' = LET y == [s EXCEPT !.batch = NoBatch]
          IN IF s.batch.end = "more" THEN [y EXCEPT !.timers = @ \cup {"poll"}]
             ELSE Post(y, Plain("finish"))
  /\ UNCHANGED <<kind, route, stopped, client, offered, delivered, broken, polls, beats>>

(* A poll worker takes the task and looks at open_ before it calls the       *)
(* source, ...                                                               *)
PollStart ==
  /\ s.tasks > 0
  /\ s' = [s EXCEPT !.tasks = @ - 1, !.sourcing = @ + (IF s.open THEN 1 ELSE 0)]
  /\ UNCHANGED <<kind, route, stopped, client, offered, delivered, broken, polls, beats>>

(* ... which returns up to MaxBatch events, and whether they are the last.   *)
(* A resync is one event and the end.  At the bound the source is empty.     *)
PollResult(batch) ==
  /\ s.sourcing > 0
  /\ batch.end = "resync" => batch.left = 1
  /\ offered + batch.left <= MaxFrames
  /\ IF polls < MaxPolls THEN polls' = polls + 1
     ELSE /\ batch = [left |-> 0, end |-> "finished"]
          /\ UNCHANGED polls
  /\ s' = Post([s EXCEPT !.sourcing = @ - 1], Handler("batch", Header, TRUE, batch))
  /\ UNCHANGED <<kind, route, stopped, client, offered, delivered, broken, beats>>

PollThrows ==
  /\ s.sourcing > 0
  /\ s' = Cancel([s EXCEPT !.sourcing = @ - 1])
  /\ broken' = TRUE
  /\ UNCHANGED <<kind, route, stopped, client, offered, delivered, polls, beats>>

-----------------------------------------------------------------------------
(* The reactor: operations complete, timers expire.                         *)

WriteSucceeds ==
  /\ s.writes # <<>> /\ s.socket = "open" /\ client = "reading"
  /\ LET f == Head(s.writes)
     IN /\ s' = Post([s EXCEPT !.writes = Tail(@)], Handler("written", f, TRUE, NoBatch))
        /\ delivered' = IF f = Header THEN delivered ELSE Append(delivered, f)
  /\ UNCHANGED <<kind, route, stopped, client, offered, broken, polls, beats>>

WriteFails ==
  /\ s.writes # <<>> /\ (s.socket = "closed" \/ client = "gone")
  /\ s' = Post([s EXCEPT !.writes = Tail(@)],
               Handler("written", Head(s.writes), FALSE, NoBatch))
  /\ UNCHANGED <<kind, route, stopped, client, offered, delivered, broken, polls, beats>>

ReadEnds ==
  /\ s.reading /\ (s.socket = "closed" \/ client = "gone")
  /\ s' = Post([s EXCEPT !.reading = FALSE], Plain("eof"))
  /\ UNCHANGED <<kind, route, stopped, client, offered, delivered, broken, polls, beats>>

Expire(t) ==
  /\ t \in s.timers
  /\ t = "heartbeat" => beats < MaxBeats
  /\ s' = Post([s EXCEPT !.timers = @ \ {t}], Plain(t))
  /\ broken' = (broken \/ t = "write")
  /\ UNCHANGED <<kind, route, stopped, client, offered, delivered, polls, beats>>

Disconnect ==
  /\ client = "reading" /\ route # "start"
  /\ client' = "gone"
  /\ broken' = TRUE
  /\ UNCHANGED <<kind, s, route, stopped, offered, delivered, polls, beats>>

Opening == Reserve \/ Activate \/ Release
Sending == SendAdd \/ SendPost \/ SendUndo \/ SendCancel \/ PostFinish
Strand == RunHandler \/ SendBatch \/ EndBatch
Polling == PollStart \/ (\E b \in Batch : PollResult(b)) \/ PollThrows
Reactor == WriteFails \/ ReadEnds

Next ==
  \/ Opening \/ Sending \/ Stop \/ Strand \/ Polling \/ Reactor
  \/ WriteSucceeds \/ Disconnect
  \/ \E t \in Timers : Expire(t)

Spec == Init /\ [][Next]_vars

(* Threads go on, a source returns, cancelled operations complete and the    *)
(* ten seconds of a write pass.  Nothing is assumed of the client.           *)
FairSpec ==
  /\ Spec
  /\ WF_vars(Opening) /\ WF_vars(Sending)
  /\ WF_vars(Strand) /\ WF_vars(Polling) /\ WF_vars(Reactor)
  /\ \A t \in {"write", "poll"} : WF_vars(Expire(t))

-----------------------------------------------------------------------------
(* Properties *)

Count(op) == Cardinality({i \in 1..Len(s.strand) : s.strand[i].op = op})
Bytes(frames) == SumFunction([i \in 1..Len(frames) |-> Size(frames[i])])
IsPush(h) == h.op = "push"
Posted == LET p == SelectSeq(s.strand, IsPush) IN [i \in 1..Len(p) |-> p[i].frame]
Held == Bytes(s.queue) + Bytes(Posted)
Received(n) == {delivered[i] : i \in 1..n} \ {KeepAlive}

(* The stream, its handlers and the threads around it stay in their types;   *)
(* pending_bytes_, an unsigned counter, never goes below zero.               *)
TypeOK ==
  /\ kind \in Kinds
  /\ s \in [open : BOOLEAN, headerDone : BOOLEAN, writing : BOOLEAN, finished : BOOLEAN,
             queue : Seq(Frames \cup {KeepAlive}), pendingBytes : Nat,
             socket : {"route", "open", "closed"}, strand : Seq(HandlerType),
             writes : Seq(Frames \cup {KeepAlive, Header}), reading : BOOLEAN,
             timers : SUBSET Timers, tasks : Nat, sourcing : Nat,
             batch : Batch \cup {NoBatch}]
  /\ route \in {"start", "reserved", "refused", "released", "sending", "added",
                "overflow", "cancel", "done"}
  /\ stopped \in BOOLEAN /\ broken \in BOOLEAN
  /\ client \in {"reading", "gone"}
  /\ offered \in 0..MaxFrames
  /\ delivered \in Seq(Frames \cup {KeepAlive})
  /\ polls \in 0..MaxPolls
  /\ beats \in Nat

(* What a client receives is the beginning of what send() was given, in that *)
(* order, without gaps and each event once, even when a frame was refused,   *)
(* the stream was cancelled between two sends or keep-alives went out between *)
(* them: what it has when an event arrives is exactly the events before it.  *)
DeliveredInOrder ==
  \A i \in DOMAIN delivered :
    delivered[i] # KeepAlive => Received(i - 1) = 1..(delivered[i] - 1)

(* A stream that nobody cancelled, timed out or left closes only after       *)
(* finish() and with every event written.                                    *)
CompleteUnlessBroken ==
  (s.socket = "closed" /\ ~broken) => s.finished /\ Received(Len(delivered)) = 1..offered

(* pending_bytes_ counts exactly the frames queued, posted or being posted,  *)
(* so that a healthy stream is not cancelled for bytes it no longer holds;   *)
(* and the frames a slow client can make the daemon hold stay in the limit.  *)
PendingAccounted ==
  /\ s.pendingBytes =
       Held + (IF route \in {"added", "overflow"} THEN Size(offered) ELSE 0)
  /\ Held <= MaxPendingBytes

(* At most one write of the socket is under way: asio forbids composed       *)
(* writes to overlap, and frames would mix.                                  *)
OneWriter == Len(s.writes) + Count("written") <= 1

(* A subscription's source is polled by one chain of tasks, never by two     *)
(* poll workers at once: the closure carries its cursor between the polls.   *)
OnePollChain ==
  s.tasks + s.sourcing + Count("batch") + Count("poll")
  + (IF s.batch # NoBatch THEN 1 ELSE 0) + (IF "poll" \in s.timers THEN 1 ELSE 0) <= 1

(* Nothing of the stream is left for the I/O context or the poll workers.    *)
Quiet ==
  /\ s.strand = <<>> /\ s.batch = NoBatch /\ s.timers = {}
  /\ s.writes = <<>> /\ ~s.reading /\ s.tasks = 0 /\ s.sourcing = 0
  /\ s.socket # "open"

(* A run that is over, a feed that finished and a stopped registry leave     *)
(* nothing behind, whatever the client does: run() can join its I/O threads. *)
EndsQuiet ==
  (stopped \/ s.finished \/ (kind = "run" /\ route = "done")) ~> []Quiet

(* "Only valid before activate: no asynchronous operation owns the socket    *)
(* yet" (SseStream::release).                                                *)
ReleaseUnshared == route = "released" => s.strand = <<>>
=============================================================================
