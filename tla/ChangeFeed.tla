----------------------------- MODULE ChangeFeed -----------------------------
(***************************************************************************)
(* The change feed: GET /events and GET /events/cursor.                    *)
(*                                                                         *)
(* An observer thread (EventService) holds the service mutex while it      *)
(* compares the database and the projects' Git heads with what it saw last  *)
(* (ChangeFeed::poll) and appends one invalidation per changed entity to    *)
(* the journal.  Every subscription polls the journal through a source      *)
(* closure that also takes the mutex.  Request workers and Git write the    *)
(* database and the heads at any moment, mutex or not.                      *)
(*                                                                         *)
(* A cell is one observed datum: a database row, or the head of a project's *)
(* repository (written as the project itself).  The state of a cell is how  *)
(* many times it has been written; Look(x, n) is what the n-th state of x  *)
(* looks like to the observer: a digest for a row, a commit id for a head,  *)
(* Absent for a row that is not there.                                      *)
(*                                                                         *)
(* The clients are not part of the daemon: they follow the documented       *)
(* procedure (docs/event-streams.md).                                       *)
(***************************************************************************)
EXTENDS EventJournal

CONSTANTS Rows, Projects,     \* the cells
          Keys,               \* (kind, entity id, project id)
          KeyOf,              \* the key a cell contributes to
          ProjectRow,         \* the row of the projects table, per project
          ProjectOf,          \* the project of a key (NoProject: an AI run without one)
          Look(_, _),        \* what a state of a cell looks like
          Clients,
          Filter,             \* the project_id parameter of a client's requests
          MaxStage,           \* bound: writes per cell
          MaxMoves,           \* bound: moves per head, at most MaxStage
          MaxCommits,         \* bound: database commits
          MaxFaults           \* bound: observer failures, lost connections, restarts

AllProjects == "all"
NoProject == ""
Absent == 0
Unlisted == -1
Unread == -1
NoKey == "none"
Cells == Rows \cup Projects

ASSUME CellAssumption ==
  /\ Rows \cap Projects = {}
  /\ KeyOf \in [Cells -> Keys]
  /\ ProjectRow \in [Projects -> Rows]
  /\ ProjectOf \in [Keys -> Projects \cup {NoProject}]
  /\ Filter \in [Clients -> Projects \cup {AllProjects}]
  /\ NoKey \notin Keys
  /\ MaxStage \in Nat /\ MaxMoves \in 0..MaxStage /\ MaxCommits \in Nat /\ MaxFaults \in Nat

VARIABLES live,         \* the committed state of every cell
          dataVersion,  \* PRAGMA data_version as the observer's connection sees it
          feed,         \* the ChangeFeed object: what was observed last
          obs,          \* the observation under way (holds the mutex unless idle)
          changes,      \* state->changes, the journal
          available,    \* state->available
          stream,       \* per client: its subscription
          cursor,       \* per client: the cursor it would reconnect with
          held,         \* per client: the state it read each cell in, or Unread
          faults

daemon == <<feed, obs, changes, available>>
clients == <<stream, cursor, held>>
vars == <<live, dataVersion, feed, obs, changes, available,
          stream, cursor, held, faults>>

-----------------------------------------------------------------------------
(* Values *)

Present(r, n) == Look(r, n) # Absent

Changed(k, deleted) == [name |-> "changed", key |-> k, deleted |-> deleted]
ResyncRequired == [name |-> "resync_required", key |-> NoKey, deleted |-> FALSE]
Event == [name : {"changed"}, key : Keys, deleted : BOOLEAN] \cup {ResyncRequired}

(* A frame on the wire: `id' is the SSE id, `next' the cursor of the        *)
(* checkpoint in the payload of ready and resync_required.                  *)
Frame(id, event, next) ==
  [id |-> id, name |-> event.name, key |-> event.key, next |-> next]
FrameType == [id : Cursor, name : {"ready", "changed", "resync_required"},
              key : Keys \cup {NoKey}, next : Cursor]

NoFeed == [built |-> FALSE, version |-> 0,
           previous |-> [r \in Rows |-> 0], revisions |-> [p \in Projects |-> Unlisted]]
IdleObserver == [pc |-> "idle", version |-> 0, left |-> {}, changed |-> {},
                 rows |-> [r \in Rows |-> 0], revisions |-> [p \in Projects |-> Unlisted]]
Closed == [open |-> FALSE, cursor |-> NoCursor, first |-> FALSE,
           finished |-> FALSE, queue |-> <<>>]

Nothing == [x \in Cells |-> Unread]

Selected(c, k) == Filter[c] = AllProjects \/ ProjectOf[k] = Filter[c]
Scope(c) == {x \in Cells : Selected(c, KeyOf[x])}

Init ==
  /\ live = [x \in Cells |-> 0]
  /\ dataVersion = 0
  /\ feed = NoFeed
  /\ obs = IdleObserver
  /\ changes = NewJournal(1)
  /\ available = FALSE
  /\ stream = [c \in Clients |-> Closed]
  /\ cursor = [c \in Clients |-> NoCursor]
  /\ held = [c \in Clients |-> Nothing]
  /\ faults = 0

-----------------------------------------------------------------------------
(* The environment of the observer: other connections commit, Git moves.    *)

Commit(rows) ==
  /\ rows # {} /\ dataVersion < MaxCommits
  /\ \A r \in rows : live[r] < MaxStage
  /\ live' = [x \in Cells |-> IF x \in rows THEN live[x] + 1 ELSE live[x]]
  /\ dataVersion' = dataVersion + 1
  /\ UNCHANGED <<daemon, clients, faults>>

MoveHead(p) ==
  /\ live[p] < MaxMoves
  /\ Present(ProjectRow[p], live[ProjectRow[p]])
  /\ live' = [live EXCEPT ![p] = @ + 1]
  /\ UNCHANGED <<dataVersion, daemon, clients, faults>>

-----------------------------------------------------------------------------
(* The observer: one observe() from taking the mutex to releasing it.       *)

(* data_version() comes first, in the constructor and in poll().            *)
ReadVersion ==
  /\ obs.pc = "idle"
  /\ obs' = [IdleObserver EXCEPT !.pc = IF feed.built THEN "list" ELSE "snapshot",
                                 !.version = dataVersion]
  /\ UNCHANGED <<live, dataVersion, feed, changes, available, clients, faults>>

(* read_revisions(): one statement lists the projects, then each repository  *)
(* is opened and its head read; a project without a row gets no entry.      *)
ListProjects ==
  /\ obs.pc = "list"
  /\ obs' = [obs EXCEPT !.pc = "heads",
       !.left = {p \in Projects : Present(ProjectRow[p], live[ProjectRow[p]])}]
  /\ UNCHANGED <<live, dataVersion, feed, changes, available, clients, faults>>

ReadHead(p) ==
  /\ obs.pc = "heads" /\ p \in obs.left
  /\ obs' = [obs EXCEPT !.left = @ \ {p}, !.revisions[p] = live[p]]
  /\ UNCHANGED <<live, dataVersion, feed, changes, available, clients, faults>>

Revision(p, n) == IF n = Unlisted THEN Unlisted ELSE Look(p, n)
SameRevisions(a, b) == \A p \in Projects : Revision(p, a[p]) = Revision(p, b[p])

(* The keys poll() inserts into `changed': fingerprints added, removed or    *)
(* different, and projects whose listed revision is new or different.       *)
Differ(rows, revisions) ==
  {KeyOf[r] : r \in {r \in Rows : Look(r, rows[r]) # Look(r, feed.previous[r])}}
  \cup
  {KeyOf[p] : p \in {p \in Projects : /\ revisions[p] # Unlisted
                                      /\ Revision(p, revisions[p]) # Revision(p, feed.revisions[p])}}

(* The end of the constructor: the first observation is the baseline.       *)
Construct ==
  /\ obs.pc = "heads" /\ obs.left = {} /\ ~feed.built
  /\ feed' = [built |-> TRUE, version |-> obs.version,
              previous |-> obs.rows, revisions |-> obs.revisions]
  /\ available' = TRUE
  /\ obs' = IdleObserver
  /\ UNCHANGED <<live, dataVersion, changes, clients, faults>>

(* poll() once the revisions are read: nothing moved; or only heads did and  *)
(* the old snapshot is reused; or the database is read again.               *)
Compare ==
  /\ obs.pc = "heads" /\ obs.left = {} /\ feed.built
  /\ \/ /\ obs.version = feed.version /\ SameRevisions(obs.revisions, feed.revisions)
        /\ available' = TRUE
        /\ obs' = IdleObserver
     \/ /\ obs.version = feed.version /\ ~SameRevisions(obs.revisions, feed.revisions)
        /\ obs' = [obs EXCEPT !.pc = "publish", !.rows = feed.previous,
                              !.changed = Differ(feed.previous, obs.revisions)]
        /\ UNCHANGED available
     \/ /\ obs.version # feed.version
        /\ obs' = [obs EXCEPT !.pc = "snapshot"]
        /\ UNCHANGED available
  /\ UNCHANGED <<live, dataVersion, feed, changes, clients, faults>>

(* snapshot(): all tables in one read transaction.                          *)
Snapshot ==
  /\ obs.pc = "snapshot"
  /\ LET rows == [r \in Rows |-> live[r]]
     IN  obs' = [obs EXCEPT !.rows = rows,
                   !.pc = IF feed.built THEN "publish" ELSE "list",
                   !.changed = IF feed.built THEN Differ(rows, obs.revisions) ELSE {}]
  /\ UNCHANGED <<live, dataVersion, feed, changes, available, clients, faults>>

HasKey(rows, k) == \E r \in Rows : KeyOf[r] = k /\ Present(r, rows[r])

Publish(k) ==
  /\ obs.pc = "publish" /\ k \in obs.changed
  /\ changes' = AppendTo(changes, Changed(k, ~HasKey(obs.rows, k)), FALSE)
  /\ obs' = [obs EXCEPT !.changed = @ \ {k}]
  /\ UNCHANGED <<live, dataVersion, feed, available, clients, faults>>

FinishWithLateVersion ==
  /\ obs.pc = "publish" /\ obs.changed = {}
  /\ feed' = [feed EXCEPT !.version = dataVersion, !.previous = obs.rows,
                          !.revisions = obs.revisions]
  /\ available' = TRUE
  /\ obs' = IdleObserver
  /\ UNCHANGED <<live, dataVersion, changes, clients, faults>>

FinishBeforePublishing ==
  /\ obs.pc = "publish"
  /\ feed' = [feed EXCEPT !.version = obs.version, !.previous = obs.rows,
                          !.revisions = obs.revisions]
  /\ available' = TRUE
  /\ obs' = IdleObserver
  /\ UNCHANGED <<live, dataVersion, changes, clients, faults>>

(* poll() adopts the new baseline after its last append.                    *)
Finish ==
  /\ obs.pc = "publish" /\ obs.changed = {}
  /\ feed' = [feed EXCEPT !.version = obs.version, !.previous = obs.rows,
                          !.revisions = obs.revisions]
  /\ available' = TRUE
  /\ obs' = IdleObserver
  /\ UNCHANGED <<live, dataVersion, changes, clients, faults>>

(* A read throws: the first failure after a success leaves a mark in the     *)
(* journal, and the observed baseline stays as it was.                      *)
Fail ==
  /\ faults < MaxFaults /\ faults' = faults + 1
  /\ obs.pc \in {"list", "heads", "snapshot"}
  /\ changes' = IF available THEN AppendTo(changes, ResyncRequired, FALSE) ELSE changes
  /\ available' = FALSE
  /\ obs' = IdleObserver
  /\ UNCHANGED <<live, dataVersion, feed, clients>>

(* The process ends, at any point of an observation, and starts again.       *)
Restart ==
  /\ faults < MaxFaults /\ faults' = faults + 1
  /\ feed' = NoFeed
  /\ obs' = IdleObserver
  /\ changes' = NewJournal(changes.epoch + 1)
  /\ available' = FALSE
  /\ stream' = [c \in Clients |-> Closed]
  /\ UNCHANGED <<live, dataVersion, cursor, held>>

-----------------------------------------------------------------------------
(* Requests and subscriptions.  dispatch() and the source closure take the   *)
(* service mutex, so they wait for the observation under way.               *)

Admitted(c) ==
  /\ obs.pc = "idle" /\ available
  /\ Filter[c] # AllProjects =>
       LET row == ProjectRow[Filter[c]] IN Present(row, live[row])

(* GET /events/cursor: the client starts its snapshot over.                 *)
Checkpoint(c) ==
  /\ Admitted(c)
  /\ ~stream[c].open /\ (cursor[c] = NoCursor \/ held[c] = Nothing)
  /\ cursor' = [cursor EXCEPT ![c] = TailOf(changes)]
  /\ held' = [held EXCEPT ![c] = Nothing]
  /\ UNCHANGED <<live, dataVersion, daemon, stream, faults>>

(* GET /events, with the client's cursor as Last-Event-ID if it has one.     *)
(* Without cursor and without last_revision the subscription starts at the   *)
(* tail, and what the client read before is worthless to it.                *)
Subscribe(c, revision) ==
  /\ Admitted(c)
  /\ ~stream[c].open
  /\ revision => Filter[c] # AllProjects
  /\ stream' = [stream EXCEPT ![c] =
       [Closed EXCEPT !.open = TRUE, !.first = TRUE,
                      !.cursor = IF cursor[c] = NoCursor /\ ~revision
                                 THEN TailOf(changes) ELSE cursor[c]]]
  /\ held' = [held EXCEPT ![c] = IF cursor[c] = NoCursor THEN Nothing ELSE @]
  /\ UNCHANGED <<live, dataVersion, daemon, cursor, faults>>

KeepsDroppingResync(c, event) == event.name # "resync_required" /\ Selected(c, event.key)

(* The frames of one batch: the events a filter keeps, each with its own id; *)
(* resync_required passes every filter and carries the batch's cursor.      *)
Keeps(c, event) == event.name = "resync_required" \/ Selected(c, event.key)

Position(j, i) == [epoch |-> j.epoch, sequence |-> j.oldest - 1 + i]

Replay(c, j, from) ==
  LET first == from.sequence - (j.oldest - 1) + 1
      kept  == {i \in first..Len(j.events) : Keeps(c, j.events[i])}
      nth(n) == CHOOSE i \in kept : Cardinality({m \in kept : m <= i}) = n
  IN  [n \in 1..Cardinality(kept) |->
         Frame(Position(j, nth(n)), j.events[nth(n)], TailOf(j))]

(* The handshake keeps the requested position as its id.                     *)
ReadyFrame(id, next) == [id |-> id, name |-> "ready", key |-> NoKey, next |-> next]

Invalidates(frame, k) == frame.name = "resync_required" \/ frame.key = k

HasResync(frames) == \E i \in DOMAIN frames : frames[i].name = "resync_required"

(* One call of the source closure by SseStream, its batch queued.           *)
PollSource(c) ==
  /\ obs.pc = "idle"
  /\ stream[c].open /\ ~stream[c].finished
  /\ LET s == stream[c]
         batch == Read(changes, s.cursor)
         ready == IF s.first THEN <<ReadyFrame(s.cursor, batch.cursor)>> ELSE <<>>
         frames == ready \o Replay(c, changes, s.cursor)
     IN  \/ /\ batch.resync \/ ~available \/ s.cursor = NoCursor
            /\ stream' = [stream EXCEPT ![c].finished = TRUE,
                 ![c].queue = Append(@, Frame(batch.cursor, ResyncRequired, batch.cursor))]
         \/ /\ ~batch.resync /\ available /\ s.cursor # NoCursor
            /\ stream' = [stream EXCEPT ![c].queue = @ \o frames,
                                        ![c].first = FALSE,
                                        ![c].finished = HasResync(frames),
                                        ![c].cursor = batch.cursor]
  /\ UNCHANGED <<live, dataVersion, daemon, cursor, held, faults>>

DeliverKeepsFinishedOpen(c) ==
  /\ stream[c].open /\ stream[c].queue # <<>>
  /\ LET frame == Head(stream[c].queue)
         rest == SubSeq(stream[c].queue, 2, Len(stream[c].queue))
     IN  /\ stream' = [stream EXCEPT ![c].queue = rest]
         /\ cursor' = [cursor EXCEPT ![c] =
              IF frame.name = "resync_required" THEN frame.next ELSE frame.id]
         /\ held' = [held EXCEPT ![c] =
              [x \in Cells |-> IF Invalidates(frame, KeyOf[x]) THEN Unread ELSE @[x]]]
  /\ UNCHANGED <<live, dataVersion, daemon, faults>>

(* The client processes the next frame; a finished stream closes after its   *)
(* last one.  An invalidated cell has to be read again.                      *)
Deliver(c) ==
  /\ stream[c].open /\ stream[c].queue # <<>>
  /\ LET frame == Head(stream[c].queue)
         rest == SubSeq(stream[c].queue, 2, Len(stream[c].queue))
     IN  /\ stream' = [stream EXCEPT ![c] =
              IF rest = <<>> /\ @.finished THEN Closed ELSE [@ EXCEPT !.queue = rest]]
         /\ cursor' = [cursor EXCEPT ![c] =
              IF frame.name = "resync_required" THEN frame.next ELSE frame.id]
         /\ held' = [held EXCEPT ![c] =
              [x \in Cells |-> IF Invalidates(frame, KeyOf[x]) THEN Unread ELSE @[x]]]
  /\ UNCHANGED <<live, dataVersion, daemon, faults>>

(* The connection is lost with everything that was queued on it.             *)
Drop(c) ==
  /\ faults < MaxFaults /\ faults' = faults + 1
  /\ stream[c].open
  /\ stream' = [stream EXCEPT ![c] = Closed]
  /\ UNCHANGED <<live, dataVersion, daemon, cursor, held>>

(* An ordinary GET of an entity, at any moment.                              *)
Fetch(c, k) ==
  LET cells == {x \in Scope(c) : KeyOf[x] = k}
  IN  /\ cursor[c] # NoCursor \/ stream[c].open
      /\ \E x \in cells : held[c][x] = Unread
      /\ held' = [held EXCEPT ![c] =
           [x \in Cells |-> IF x \in cells THEN live[x] ELSE @[x]]]
      /\ UNCHANGED <<live, dataVersion, daemon, stream, cursor, faults>>

-----------------------------------------------------------------------------
Observer ==
  \/ ReadVersion \/ ListProjects \/ (\E p \in Projects : ReadHead(p))
  \/ Construct \/ Compare \/ Snapshot \/ (\E k \in Keys : Publish(k)) \/ Finish

Client(c) ==
  \/ Checkpoint(c) \/ (\E revision \in BOOLEAN : Subscribe(c, revision))
  \/ PollSource(c) \/ Deliver(c) \/ (\E k \in Keys : Fetch(c, k))

Next ==
  \/ \E rows \in SUBSET Rows : Commit(rows)
  \/ \E p \in Projects : MoveHead(p)
  \/ Observer
  \/ Fail \/ Restart
  \/ \E c \in Clients : Client(c) \/ Drop(c)

Spec == Init /\ [][Next]_vars

(* The observer thread polls on a 250 ms timer for as long as the process    *)
(* lives, SseStream polls its source every 200 ms and writes what is queued; *)
(* a client keeps reading, refetching and reconnecting.  Requests and        *)
(* sources wait for the mutex, which the observer releases between any two   *)
(* observations: strong fairness.  Commits, head moves and faults are never  *)
(* forced.                                                                   *)
Fairness ==
  /\ WF_vars(Observer)
  /\ \A c \in Clients :
       /\ SF_vars(\/ Checkpoint(c) \/ PollSource(c)
                  \/ \E revision \in BOOLEAN : Subscribe(c, revision))
       /\ WF_vars(Deliver(c) \/ \E k \in Keys : Fetch(c, k))

FairSpec == Spec /\ Fairness

-----------------------------------------------------------------------------
(* Properties *)

Stage == 0..MaxStage
TypeOK ==
  /\ live \in [Cells -> Stage]
  /\ dataVersion \in Nat
  /\ feed \in [built : BOOLEAN, version : Nat, previous : [Rows -> Stage],
               revisions : [Projects -> Stage \cup {Unlisted}]]
  /\ obs \in [pc : {"idle", "list", "heads", "snapshot", "publish"}, version : Nat,
              left : SUBSET Projects, changed : SUBSET Keys,
              rows : [Rows -> Stage], revisions : [Projects -> Stage \cup {Unlisted}]]
  /\ changes \in [epoch : Nat \ {0}, sequence : Nat, oldest : Nat \ {0},
                  events : Seq(Event), finished : BOOLEAN]
  /\ available \in BOOLEAN
  /\ stream \in [Clients -> [open : BOOLEAN, cursor : Cursor, first : BOOLEAN,
                             finished : BOOLEAN, queue : Seq(FrameType)]]
  /\ cursor \in [Clients -> Cursor]
  /\ held \in [Clients -> [Cells -> Stage \cup {Unread}]]
  /\ faults \in Nat

(* A cell never looks again as it did before, and no head looks like one that  *)
(* is not listed.  A row or a head that changes and changes back between two   *)
(* observations is not announced: the promise below is about cells that do     *)
(* not.                                                                       *)
NoStateReturns ==
  \A x \in Cells : \A n \in Stage :
    /\ Look(x, n) # Unlisted
    /\ \A m \in Stage : Look(x, m) = Look(x, n) => m = n

Observed(x) == IF x \in Rows THEN feed.previous[x] ELSE feed.revisions[x]

(* Reading from `at' will invalidate k: it reports a resync, or the events    *)
(* still to be read include one for k or a resync mark.                      *)
Pending(at, k) ==
  \/ Unreadable(changes, at)
  \/ \E i \in (at.sequence - changes.oldest + 2)..Len(changes.events) :
       changes.events[i].key = k \/ changes.events[i].name = "resync_required"

(* The cursor the client holds once it has processed i of the queued frames. *)
CursorAfter(c, i) ==
  IF i = 0 THEN cursor[c]
  ELSE LET frame == stream[c].queue[i]
       IN  IF frame.name = "resync_required" THEN frame.next ELSE frame.id

SparedBy(c, i, k) == \A m \in 1..i : ~Invalidates(stream[c].queue[m], k)

(* The feed's promise.  If the observer has seen a newer state of a cell than *)
(* the one a client holds, the client is going to be told, wherever its       *)
(* connection breaks: at every frame of its queue, either an earlier frame    *)
(* has told it, or resuming from its cursor there will; and if no queued      *)
(* frame does, the live subscription will.  This is what the order of         *)
(* append and baseline update in poll(), the resync conditions of read(),     *)
(* the id kept on `ready' and the filter's exception are for.                 *)
NoMissedChange ==
  feed.built =>
    \A c \in Clients : \A x \in Cells :
      held[c][x] # Unread /\ held[c][x] < Observed(x) =>
        LET s == stream[c]
            k == KeyOf[x]
        IN  /\ \A i \in 0..Len(s.queue) :
                 SparedBy(c, i, k) => Pending(CursorAfter(c, i), k)
            /\ s.open /\ ~s.finished /\ SparedBy(c, Len(s.queue), k)
                 => Pending(s.cursor, k)

(* An observer failure reaches every subscriber: a mark in the journal that a  *)
(* subscription has read past and its client has not is a resync_required     *)
(* among the frames still to be delivered, project filter or not.             *)
ObserverFailureReported ==
  \A c \in Clients : \A i \in DOMAIN changes.events :
    LET mark == changes.oldest - 1 + i
    IN  /\ changes.events[i].name = "resync_required"
        /\ stream[c].open /\ cursor[c].epoch = changes.epoch
        /\ cursor[c].sequence < mark /\ mark <= stream[c].cursor.sequence
        => HasResync(stream[c].queue)

(* poll() returns without a snapshot when the data version is the one it      *)
(* kept: then its baseline is the committed state, although commits land      *)
(* between reading the version and taking the snapshot.                      *)
SkippedSnapshotIsCurrent ==
  feed.built /\ feed.version = dataVersion =>
    \A r \in Rows : feed.previous[r] = live[r]

(* Once writes and faults are over, every client ends up holding the current  *)
(* state of every entity in its scope, and keeps it.                          *)
Converges == <>[](\A c \in Clients : \A x \in Scope(c) : held[c][x] = live[x])
=============================================================================
