--------------------------- MODULE JournalReplay ---------------------------
(***************************************************************************)
(* What a journal promises its readers.  A writer appends; readers poll     *)
(* with the cursor of their last batch; the process may restart with a      *)
(* fresh journal while readers keep their old cursors.  `log' is the        *)
(* unbounded history the journal is a bounded window of: it is not part of  *)
(* the program and says what an exact replay is.                            *)
(***************************************************************************)
EXTENDS EventJournal

CONSTANTS Events,     \* the events a writer appends
          Readers,    \* the clients of the stream
          MaxLog,     \* bound: events appended per epoch
          MaxEpoch    \* bound: journals ever constructed

ASSUME ReplayBounds == MaxLog \in Nat /\ MaxEpoch \in Nat
ASSUME FrameSizes == \A e \in Events : FrameSize(e) \in Nat

VARIABLES journal,    \* the EventJournal object
          log,        \* history: every event appended to it
          reader      \* per reader: where it started, its cursor, what it got

replayVars == <<journal, log, reader>>

Unread == [cursor |-> NoCursor, from |-> 0, got |-> <<>>]

ReplayInit ==
  /\ journal = NewJournal(1)
  /\ log = <<>>
  /\ reader = [r \in Readers |-> Unread]

Write(e) ==
  /\ journal.sequence < MaxLog
  /\ journal' = AppendTo(journal, e, FALSE)
  /\ log' = Append(log, e)
  /\ UNCHANGED reader

(* A reader polls with its cursor and appends the batch to what it has; on  *)
(* resync_required it discards its state and continues from the new cursor. *)
PollJournal(r) ==
  LET batch == Read(journal, reader[r].cursor)
      first == reader[r].cursor = NoCursor
  IN  /\ reader' = [reader EXCEPT ![r] =
           [cursor |-> batch.cursor,
            from   |-> IF batch.resync THEN batch.cursor.sequence
                       ELSE IF first THEN journal.oldest - 1 ELSE @.from,
            got    |-> IF batch.resync THEN <<>>
                       ELSE IF first THEN batch.events ELSE @.got \o batch.events]]
      /\ UNCHANGED <<journal, log>>

(* A new process constructs a new journal; its random epoch is fresh.       *)
NewProcess ==
  /\ journal.epoch < MaxEpoch
  /\ journal' = NewJournal(journal.epoch + 1)
  /\ log' = <<>>
  /\ UNCHANGED reader

ReplayNext ==
  \/ \E e \in Events : Write(e)
  \/ \E r \in Readers : PollJournal(r)
  \/ NewProcess

ReplaySpec == ReplayInit /\ [][ReplayNext]_replayVars

-----------------------------------------------------------------------------
ReplayTypeOK ==
  /\ journal \in [epoch : Nat \ {0}, sequence : Nat, oldest : Nat \ {0},
                  events : Seq(Events), finished : BOOLEAN]
  /\ log \in Seq(Events)
  /\ reader \in [Readers -> [cursor : Cursor, from : Nat, got : Seq(Events)]]

(* The retained window is exactly the end of the history: the arithmetic    *)
(* between sequence_, oldest_sequence_ and events_.size() that read() uses  *)
(* for its offset never drifts, whichever limit forced the evictions.       *)
WindowIsSuffix ==
  /\ Len(log) = journal.sequence
  /\ Len(journal.events) = journal.sequence - (journal.oldest - 1)
  /\ \A i \in 1..Len(journal.events) :
       journal.events[i] = log[i + journal.oldest - 1]

(* The window respects both limits of the constructor after every append,   *)
(* and evicts no more than it must: with one more event it would exceed.    *)
WindowIsMaximal ==
  LET start == journal.oldest - 1
  IN  /\ ~Exceeds(journal.events) \/ journal.events = <<>>
      /\ start > 0 => \E n \in start..Len(log) : Exceeds(SubSeq(log, start, n))

(* read() neither skips nor repeats: what a reader of this epoch holds is    *)
(* the history from where it started up to its cursor, across any number    *)
(* of evictions between its polls.                                          *)
ReplayExact ==
  \A r \in Readers :
    reader[r].cursor.epoch = journal.epoch =>
      /\ reader[r].from <= reader[r].cursor.sequence
      /\ reader[r].cursor.sequence <= Len(log)
      /\ reader[r].got = SubSeq(log, reader[r].from + 1, reader[r].cursor.sequence)

(* A cursor of an earlier process never reads events: a reader that polls   *)
(* across a restart is told to resync and holds none of the old epoch.      *)
NoForeignReplay ==
  [][\A r \in Readers :
       (reader[r].cursor # NoCursor /\ reader[r].cursor.epoch # journal.epoch
          /\ reader'[r] # reader[r])
         => reader'[r].got = <<>>]_replayVars
=============================================================================
