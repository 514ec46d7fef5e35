------------------------------- MODULE AiRuns -------------------------------
(***************************************************************************)
(* AI runs: POST /ai/runs (AiRunPostRoute), the event histories of runs     *)
(* (RunEventStore) and GET /ai/runs/{id}/events (AiRunQueryRoutes).         *)
(*                                                                         *)
(* A request thread executes a run, call by call; every database call may   *)
(* throw.  Its events go into the run's journal, one of at most MaxRetained *)
(* the process keeps.  Clients subscribe, are cut off, and come back with   *)
(* the id of the last event they received.  The process may end and start   *)
(* again: rows stay, journals and request threads do not.                   *)
(*                                                                         *)
(* An event is its name and `n', its place among all the events of the run  *)
(* (history only, the code does not number them across journals); the       *)
(* terminal event that a subscription makes up from the row has n = 0.      *)
(***************************************************************************)
EXTENDS EventJournal

CONSTANTS Runs,         \* the runs followed from request to end
          Others,       \* runs of which only the events are seen
          Clients,      \* the subscribers
          MaxRetained,  \* kMaxRetainedRuns
          MaxTries,     \* candidate models of a run
          MaxOther,     \* bound: events of the other runs
          MaxClock,     \* bound: seconds that pass
          MaxFaults,    \* bound: calls that throw
          MaxRestarts   \* bound: ends of the process

ASSUME RunBounds == /\ Runs \cap Others = {} /\ "none" \notin Runs
                    /\ {MaxRetained, MaxTries} \subseteq Nat \ {0}
                    /\ {MaxOther, MaxClock, MaxFaults, MaxRestarts} \subseteq Nat

VARIABLES row,       \* ai_runs.status per run, "none" before the insert
          message,   \* the assistant message stored: the n's of its pieces
          store,     \* g_run_events
          clock,     \* the system clock in seconds, all updated_at knows
          run,       \* the request thread of each run
          full,      \* history: every event name the request thread appended
          client,    \* the subscribers
          epochs,    \* journals constructed so far
          others, faults, restarts   \* how often each of these happened

vars == <<row, message, store, clock, run, full, client, epochs, others, faults, restarts>>

Terminal == {"completed", "failed"}
TerminalEvent(status) == IF status = "completed" THEN "done" ELSE "failed"
NoMessage == <<0>>

(* Where a request thread is.  "over" it has returned; `lost' that the      *)
(* process ended first or not even the failure could be stored.             *)
Idle == [pc |-> "request", path |-> "local", tries |-> 0, got |-> FALSE,
         text |-> <<>>, lost |-> FALSE]
Over(lost) == [Idle EXCEPT !.pc = "over", !.lost = lost]

(* Whether the run takes the cloud path: the request names a provider or no *)
(* local runner is ready.                                                   *)
Cloud(r) == run[r].path = "cloud"

Away == [state |-> "away", run |-> "none", status |-> "none",
         id |-> NoCursor, source |-> NoCursor, got |-> <<>>]

Init ==
  /\ row = [r \in Runs |-> "none"]
  /\ message = [r \in Runs |-> NoMessage]
  /\ store = <<>>
  /\ clock = 0
  /\ run = [r \in Runs |-> Idle]
  /\ full = [r \in Runs |-> <<>>]
  /\ client = [c \in Clients |-> Away]
  /\ epochs = 0
  /\ others = 0
  /\ faults = 0
  /\ restarts = 0

(***************************************************************************)
(* RunEventStore.  The store maps retained runs to their journal and the    *)
(* second of its last event.                                                *)
(***************************************************************************)
Retained == DOMAIN store

(* Which run makes room: one with the smallest updated_at, any of them when *)
(* several share the second (the map is unordered).                         *)
Oldest == {r \in Retained : \A q \in Retained : store[r].updated_at =< store[q].updated_at}

(* append_run_event(run_id, name, data, finished).                          *)
AppendRunEvent(r, name, n) ==
  \E out \in IF r \notin Retained /\ Cardinality(Retained) >= MaxRetained
             THEN {{o} : o \in Oldest} ELSE {{}} :
    LET fresh == r \notin Retained \/ name = "run_started"
        old == IF fresh THEN NewJournal(epochs + 1) ELSE store[r].journal
        new == [journal |-> AppendTo(old, [name |-> name, n |-> n], name \in {"done", "failed"}),
                updated_at |-> clock']
    IN  /\ store' = [q \in (Retained \ out) \cup {r} |-> IF q = r THEN new ELSE store[q]]
        /\ epochs' = IF fresh THEN epochs + 1 ELSE epochs

(* send_event(name, data) of the request thread.                            *)
SendEvent(r, name) ==
  /\ UNCHANGED clock
  /\ AppendRunEvent(r, name, Len(full[r]) + 1)
  /\ full' = [full EXCEPT ![r] = Append(@, name)]

Silent == UNCHANGED <<clock, store, epochs, full>>

(***************************************************************************)
(* The request thread.  Step(r, from, to) is its place before and after.    *)
(***************************************************************************)
Step(r, from, to) ==
  /\ run[r].pc = from
  /\ run' = [run EXCEPT ![r].pc = to]

Elsewhere == UNCHANGED <<client, others, restarts>>

(* A database call throws: RunStreamCompletion takes over.                  *)
Throws(r, from) ==
  /\ faults < MaxFaults
  /\ faults' = faults + 1
  /\ Step(r, from, "unwind")
  /\ Silent /\ Elsewhere /\ UNCHANGED <<row, message>>

(* Parsing, thread, choice of path and the reservation of a stream have no  *)
(* effect on what is modelled; every refusal among them (bad input, unknown *)
(* runner or model, cloud not configured, too many streams) ends the        *)
(* request.  So does run_repo.create when it throws: the socket is released *)
(* and answered.                                                            *)
Refuse(r) ==
  /\ run[r].pc = "request" /\ run' = [run EXCEPT ![r] = Over(FALSE)]
  /\ Silent /\ Elsewhere /\ UNCHANGED <<row, message, faults>>

Create(r, path) ==
  /\ run[r].pc = "request"
  /\ run' = [run EXCEPT ![r].pc = "begin", ![r].path = path, ![r].tries = MaxTries]
  /\ row' = [row EXCEPT ![r] = "started"]
  /\ Silent /\ Elsewhere /\ UNCHANGED <<message, faults>>

Begin(r) ==
  /\ Step(r, "begin", "user")
  /\ SendEvent(r, "run_started")
  /\ Elsewhere /\ UNCHANGED <<row, message, faults>>

(* The user's message is appended to the thread: after a first event in the *)
(* cloud path, before one in the local path, where it is that of the        *)
(* routing (forced or single model, or a ranking whose own failure only     *)
(* leaves the candidates as they are).                                      *)
Route(r) ==
  \/ /\ Step(r, "user", "try")
     /\ SendEvent(r, IF Cloud(r) THEN "progress" ELSE "router")
     /\ Elsewhere /\ UNCHANGED <<row, message, faults>>
  \/ ~Cloud(r) /\ Throws(r, "user")

Try(r) ==
  \/ /\ run[r].pc = "try" /\ run[r].tries > 0
     /\ run' = [run EXCEPT ![r].pc = "call", ![r].tries = @ - 1, ![r].got = FALSE]
     /\ SendEvent(r, "progress")
     /\ Elsewhere /\ UNCHANGED <<row, message, faults>>
  \/ Cloud(r) /\ Throws(r, "try")

(* A cloud model on cooldown or over quota is passed over without an event. *)
PassOver(r) ==
  /\ run[r].pc = "try" /\ run[r].tries > 0 /\ Cloud(r)
  /\ run' = [run EXCEPT ![r].tries = @ - 1]
  /\ Silent /\ Elsewhere /\ UNCHANGED <<row, message, faults>>

(* One piece of a local model's output; at most one per model here.         *)
Chunk(r) ==
  /\ run[r].pc = "call" /\ ~Cloud(r) /\ ~run[r].got
  /\ run' = [run EXCEPT ![r].got = TRUE, ![r].text = Append(@, Len(full[r]) + 1)]
  /\ SendEvent(r, "chunk")
  /\ Elsewhere /\ UNCHANGED <<row, message, faults>>

(* A cloud model returns: compaction and usage are stored, then the output  *)
(* is sent as one chunk.                                                    *)
CloudReturns(r) ==
  /\ Cloud(r)
  /\ \/ /\ run[r].pc = "call"
        /\ run' = [run EXCEPT ![r].pc = "answer", ![r].text = Append(@, Len(full[r]) + 1)]
        /\ SendEvent(r, "chunk")
        /\ Elsewhere /\ UNCHANGED <<row, message, faults>>
     \/ Throws(r, "call")

CallFailsForgetsText(r) ==
  /\ run[r].pc = "call"
  /\ run' = [run EXCEPT ![r].pc = "try", ![r].text = <<>>]
  /\ SendEvent(r, "fallback")
  /\ Elsewhere /\ UNCHANGED <<row, message, faults>>

(* The model fails, possibly after some output, which stays in the text; a  *)
(* local one also when it returns without any.                              *)
CallFails(r) ==
  /\ Step(r, "call", "try")
  /\ SendEvent(r, "fallback")
  /\ Elsewhere /\ UNCHANGED <<row, message, faults>>

(* The assistant's message, of a run that belongs to a thread; a local model *)
(* has to have produced something.                                          *)
Answer(r) ==
  LET at == IF Cloud(r) THEN "answer" ELSE "call"
  IN  /\ Cloud(r) \/ run[r].got
      /\ \/ /\ Step(r, at, "complete")
            /\ message' = [message EXCEPT ![r] = run[r].text]
            /\ Silent /\ Elsewhere /\ UNCHANGED <<row, faults>>
         \/ Throws(r, at)

CompleteAnnouncesFirst(r) ==
  \/ /\ Step(r, "complete", "done")
     /\ SendEvent(r, "done")
     /\ Elsewhere /\ UNCHANGED <<row, message, faults>>
  \/ Throws(r, "complete")

(* The thread's title, then run_repo.update_status("completed").            *)
Complete(r) ==
  \/ /\ Step(r, "complete", "done")
     /\ row' = [row EXCEPT ![r] = "completed"]
     /\ Silent /\ Elsewhere /\ UNCHANGED <<message, faults>>
  \/ Throws(r, "complete")

(* No candidate is left: run_repo.update_status("failed").                  *)
Fail(r) ==
  /\ run[r].tries = 0
  /\ \/ /\ Step(r, "try", "failed")
        /\ row' = [row EXCEPT ![r] = "failed"]
        /\ Silent /\ Elsewhere /\ UNCHANGED <<message, faults>>
     \/ Throws(r, "try")

UnwindSilently(r) ==
  /\ run[r].pc = "unwind"
  /\ run' = [run EXCEPT ![r] = Over(FALSE)]
  /\ row' = [row EXCEPT ![r] = "failed"]
  /\ Silent /\ Elsewhere /\ UNCHANGED <<message, faults>>

(* ~RunStreamCompletion after an exception: store the failure, or log that  *)
(* it could not be stored; the stream is finished in both cases.            *)
Unwind(r) ==
  /\ \/ /\ Step(r, "unwind", "failed")
        /\ row' = [row EXCEPT ![r] = "failed"]
        /\ UNCHANGED faults
     \/ /\ faults < MaxFaults
        /\ faults' = faults + 1
        /\ run[r].pc = "unwind"
        /\ run' = [run EXCEPT ![r] = Over(TRUE)]
        /\ UNCHANGED row
  /\ Silent /\ Elsewhere /\ UNCHANGED message

Done(r) ==
  /\ run[r].pc = "done" /\ run' = [run EXCEPT ![r] = Over(FALSE)]
  /\ SendEvent(r, "done")
  /\ Elsewhere /\ UNCHANGED <<row, message, faults>>

Failed(r) ==
  /\ run[r].pc = "failed" /\ run' = [run EXCEPT ![r] = Over(FALSE)]
  /\ SendEvent(r, "failed")
  /\ Elsewhere /\ UNCHANGED <<row, message, faults>>

RunStep(r) ==
  \/ \E path \in {"local", "cloud"} : Create(r, path)
  \/ Refuse(r) \/ Begin(r) \/ Route(r) \/ Try(r) \/ PassOver(r) \/ Chunk(r)
  \/ CloudReturns(r) \/ CallFails(r) \/ Answer(r) \/ Complete(r) \/ Fail(r) \/ Unwind(r)
  \/ Done(r) \/ Failed(r)

(***************************************************************************)
(* Subscriptions: the row, the look at the store and the terminal event of  *)
(* a run without history are three steps of a request thread; then the      *)
(* stream polls the source closure.                                         *)
(***************************************************************************)
Apart == UNCHANGED <<row, message, clock, run, full, others, faults, restarts>>

(* A client asks for a run it knows of, with the last id it received.       *)
Ask(c, r) ==
  /\ client[c].state = "away"
  /\ client[c].run \in {"none", r}
  /\ row[r] # "none"
  /\ client' = [client EXCEPT ![c].state = "asked", ![c].run = r, ![c].status = row[r]]
  /\ Apart /\ UNCHANGED <<store, epochs>>

(* SseStream::start, refused when the registry is full.                     *)
Start(c) ==
  \E state \in {"open", "away"} :
    client' = [client EXCEPT ![c].state = state, ![c].status = "none",
                             ![c].source = IF state = "open" THEN client[c].id ELSE NoCursor]

(* The look at the store: nothing there although the row is terminal means  *)
(* that the ending has to be restored first.                                *)
Look(c) ==
  /\ client[c].state = "asked"
  /\ IF client[c].run \notin Retained /\ client[c].status \in Terminal
     THEN client' = [client EXCEPT ![c].state = "restore"]
     ELSE Start(c)
  /\ Apart /\ UNCHANGED <<store, epochs>>

Restore(c) ==
  /\ client[c].state = "restore"
  /\ Apart
  /\ AppendRunEvent(client[c].run, TerminalEvent(client[c].status), 0)
  /\ Start(c)

SourceNeverExpires(r, cursor) ==
  IF r \notin Retained
  THEN [cursor |-> cursor, finished |-> FALSE, resync |-> FALSE, events |-> <<>>]
  ELSE LET batch == Read(store[r].journal, cursor)
       IN  [cursor |-> batch.cursor, finished |-> batch.finished, resync |-> FALSE,
            events |-> IF batch.resync THEN Read(store[r].journal, NoCursor).events
                       ELSE batch.events]

(* The closure given to the stream: what one poll returns.                  *)
Source(r, cursor) ==
  IF r \notin Retained
  THEN [cursor |-> cursor, finished |-> FALSE, resync |-> cursor # NoCursor, events |-> <<>>]
  ELSE LET batch == Read(store[r].journal, cursor)
       IN  [cursor |-> batch.cursor, finished |-> batch.finished,
            resync |-> batch.resync \/ (cursor = NoCursor /\ batch.truncated),
            events |-> batch.events]

Places(events) == [i \in DOMAIN events |-> events[i].n]

(* A poll whose batch arrives: the stream ends after resync_required or     *)
(* after a finished history, and is polled again otherwise.                 *)
Poll(c) ==
  /\ client[c].state = "open"
  /\ LET batch == Source(client[c].run, client[c].source)
     IN  client' = [client EXCEPT
           ![c].state = IF batch.resync THEN "told" ELSE IF batch.finished THEN "ended" ELSE "open",
           ![c].source = batch.cursor,
           ![c].id = IF batch.resync \/ batch.events = <<>> THEN @ ELSE batch.cursor,
           ![c].got = IF batch.resync THEN @ ELSE @ \o Places(batch.events)]
  /\ Apart /\ UNCHANGED <<store, epochs>>

(* The connection breaks, after some of a batch's events have arrived.      *)
Break(c) ==
  /\ client[c].state = "open"
  /\ LET batch == Source(client[c].run, client[c].source)
         sent == IF batch.resync THEN <<>> ELSE batch.events
     IN  \E k \in 0..Len(sent) :
           client' = [client EXCEPT
             ![c].state = "away", ![c].source = NoCursor,
             ![c].id = IF k = 0 THEN @
                       ELSE [batch.cursor EXCEPT !.sequence = @ - (Len(sent) - k)],
             ![c].got = @ \o Places(SubSeq(sent, 1, k))]
  /\ Apart /\ UNCHANGED <<store, epochs>>

ClientStep(c) == Look(c) \/ Restore(c) \/ Poll(c)

(***************************************************************************)
(* Other runs, and the end of the process: journals, request threads and   *)
(* connections go, rows and messages stay.                                  *)
(***************************************************************************)
(* An event of another run, in this second or a later one.  That time        *)
(* passes here is enough: it decides which run is older, and runs of the     *)
(* same second are chosen among freely.                                     *)
OtherRun(o) ==
  /\ others < MaxOther
  /\ others' = others + 1
  /\ \E now \in clock..MaxClock :
       /\ clock' = now
       /\ AppendRunEvent(o, "progress", 0)
  /\ UNCHANGED <<row, message, run, full, client, faults, restarts>>

Restart ==
  /\ restarts < MaxRestarts
  /\ restarts' = restarts + 1
  /\ store' = <<>>
  /\ run' = [r \in Runs |-> IF run[r].pc \in {"request", "over"} THEN run[r]
                            ELSE Over(TRUE)]
  /\ client' = [c \in Clients |-> IF client[c].state \in {"told", "ended"} THEN client[c]
                                  ELSE [client[c] EXCEPT !.state = "away", !.status = "none",
                                                         !.source = NoCursor]]
  /\ UNCHANGED <<row, message, clock, full, epochs, others, faults>>

Next ==
  \/ \E r \in Runs : RunStep(r)
  \/ \E c \in Clients : ClientStep(c) \/ Break(c) \/ \E r \in Runs : Ask(c, r)
  \/ \E o \in Others : OtherRun(o)
  \/ Restart

(* Request threads and polls go on; model calls return (the code has no     *)
(* time limit for them); nobody has to subscribe, and connections, calls    *)
(* and the process need not fail.                                           *)
Spec ==
  /\ Init /\ [][Next]_vars
  /\ \A r \in Runs : WF_vars(RunStep(r))
  /\ \A c \in Clients : WF_vars(ClientStep(c))

(***************************************************************************)
(* Properties.                                                             *)
(***************************************************************************)
TypeOK ==
  /\ row \in [Runs -> {"none", "started"} \cup Terminal]
  /\ \A r \in Runs : message[r] \in Seq(Nat)
  /\ Retained \subseteq Runs \cup Others /\ Cardinality(Retained) =< MaxRetained
  /\ \A r \in Retained : store[r].updated_at \in 0..clock /\ store[r].journal.epoch \in 1..epochs
  /\ \A r \in Runs : run[r].tries \in 0..MaxTries /\ run[r].lost \in BOOLEAN
  /\ \A c \in Clients : {client[c].id, client[c].source} \subseteq Cursor

(* What a run's subscribers are told at the end is what the database says   *)
(* from then on: the status is stored before the terminal event is          *)
(* appended, by the request thread, its completion guard and subscriptions  *)
(* that restore an ending alike.                                            *)
EndAgreesWithRow ==
  \A r \in Runs :
    /\ \A i \in DOMAIN full[r] : full[r][i] \in {"done", "failed"} =>
         i = Len(full[r]) /\ full[r][i] = TerminalEvent(row[r]) /\ row[r] \in Terminal
    /\ r \in Retained /\ store[r].journal.finished =>
         row[r] \in Terminal /\ \A e \in {store[r].journal.events[i] : i \in DOMAIN store[r].journal.events} :
            e.name \in {"done", "failed"} => e.name = TerminalEvent(row[r])

(* A client never misses an event between two it has received, whatever     *)
(* evictions, reconnections and restarts lie between them, unless it was    *)
(* told to resync: docs/event-streams.md promises replay by Last-Event-ID.  *)
NoSilentGap ==
  \A c \in Clients : \A i \in 1..(Len(client[c].got) - 1) :
    client[c].got[i] # 0 /\ client[c].got[i + 1] # 0 => client[c].got[i + 1] = client[c].got[i] + 1

(* The pieces are the places of all the chunks among the events, in order.  *)
Collected(pieces, names) ==
  /\ \A k, l \in DOMAIN pieces : k < l => pieces[k] < pieces[l]
  /\ {pieces[k] : k \in DOMAIN pieces} = {i \in DOMAIN names : names[i] = "chunk"}

(* The stored answer is exactly what was streamed: all the chunks of the    *)
(* run, each once and in order, also those of a model that failed after     *)
(* some output.                                                             *)
StoredIsStreamed ==
  \A r \in Runs : message[r] # NoMessage => Collected(message[r], full[r])

(* A fresh subscription starts with the run's first event, with the ending  *)
(* restored from the row, or is told that the history is truncated          *)
(* (docs/event-streams.md: "truncated initial history emits                 *)
(* resync_required").                                                       *)
TruncationIsTold ==
  \A c \in Clients : client[c].got # <<>> => client[c].got[1] \in {0, 1}

(* Every run ends and its subscribers are let go: with the end of the       *)
(* history or with resync_required.  Two kinds of clients wait: one whose   *)
(* run was cut off, by the end of the process or because not even its       *)
(* failure could be stored, and one that has received nothing of a run      *)
(* whose history is gone.                                                   *)
SubscriberLetGo ==
  \A c \in Clients :
    client[c].state = "open"
      ~> \/ client[c].state # "open"
         \/ run[client[c].run].lost
         \/ client[c].source = NoCursor /\ client[c].run \notin Retained
=============================================================================
