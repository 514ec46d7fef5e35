--------------------------- MODULE EventJournal ---------------------------
(***************************************************************************)
(* api/support/EventJournal: the bounded, in-memory history of one event   *)
(* stream.  A journal has an epoch (a fresh UUID per object), numbers its   *)
(* events 1, 2, 3, ... and keeps the longest suffix that respects a count  *)
(* and a byte limit.  A cursor "<epoch>:<sequence>" names the position      *)
(* after an event; reading from a cursor either replays exactly what        *)
(* followed it or reports that a resync is required.                        *)
(*                                                                         *)
(* Operators named after a slip (AppendKeepsOldest, ReadSkipsOne, ...) are   *)
(* faulty variants of the definition that follows them: the properties are   *)
(* checked to fail with each of them in its place.                          *)
(*                                                                         *)
(* This module holds the data type only: every method runs under the       *)
(* journal's own mutex, so each is one operator.  JournalReplay, ChangeFeed *)
(* and the other users make it part of their state.                        *)
(***************************************************************************)
EXTENDS Integers, Sequences, FiniteSets

CONSTANTS Capacity,     \* capacity_: how many events are kept
          ByteLimit,    \* byte_limit_: how many bytes of encoded frames are kept
          FrameSize(_)  \* encode_sse(event).size()

(* The constructor throws on an empty capacity (EventJournal.cpp:37).      *)
ASSUME JournalLimits == Capacity \in Nat \ {0} /\ ByteLimit \in Nat \ {0}

(***************************************************************************)
(* Cursors.  NoCursor is the empty string: no position is known.           *)
(***************************************************************************)
Cursor == [epoch : Nat, sequence : Nat]
NoCursor == [epoch |-> 0, sequence |-> 0]

NewJournal(epoch) ==
  [epoch |-> epoch, sequence |-> 0, oldest |-> 1, events |-> <<>>, finished |-> FALSE]

(* cursor(): the position after the newest event.                          *)
TailOf(j) == [epoch |-> j.epoch, sequence |-> j.sequence]

Bytes(events) ==
  LET sum[i \in 0..Len(events)] ==
        IF i = 0 THEN 0 ELSE sum[i - 1] + FrameSize(events[i])
  IN  sum[Len(events)]

Exceeds(events) == Len(events) > Capacity \/ Bytes(events) > ByteLimit

(* How often the eviction loop of append() pops the front: once for every   *)
(* suffix, from the whole deque down, that is still over a limit.           *)
EvictCount(events) ==
  Cardinality({n \in 0..(Len(events) - 1) : Exceeds(SubSeq(events, n + 1, Len(events)))})

AppendKeepsOldest(j, event, finished) ==
  LET all == Append(j.events, event)
      n == EvictCount(all)
  IN  [j EXCEPT !.sequence = @ + 1,
                !.events = SubSeq(all, n + 1, Len(all)),
                !.finished = @ \/ finished]

AppendEvictsOneAtMost(j, event, finished) ==
  LET all == Append(j.events, event)
      n == IF Exceeds(all) THEN 1 ELSE 0
  IN  [j EXCEPT !.sequence = @ + 1,
                !.oldest = @ + n,
                !.events = SubSeq(all, n + 1, Len(all)),
                !.finished = @ \/ finished]

(* append(name, data, finished).                                           *)
AppendTo(j, event, finished) ==
  LET all == Append(j.events, event)
      n == EvictCount(all)
  IN  [j EXCEPT !.sequence = @ + 1,
                !.oldest = @ + n,
                !.events = SubSeq(all, n + 1, Len(all)),
                !.finished = @ \/ finished]

UnreadableIgnoresEpoch(j, after) ==
  \/ after.sequence > j.sequence
  \/ after.sequence < j.oldest - 1

(* The cursor is of another epoch, beyond the tail, or its continuation     *)
(* has been evicted.                                                        *)
Unreadable(j, after) ==
  \/ after.epoch # j.epoch
  \/ after.sequence > j.sequence
  \/ after.sequence < j.oldest - 1

ReadSkipsOne(j, after) ==
  LET from == IF after = NoCursor THEN j.oldest - 1 ELSE after.sequence
      resync == after # NoCursor /\ Unreadable(j, after)
  IN  [cursor |-> TailOf(j), finished |-> j.finished, truncated |-> j.oldest > 1,
       resync |-> resync,
       events |-> IF resync THEN <<>>
                  ELSE SubSeq(j.events, from - (j.oldest - 1) + 2, Len(j.events))]

(* read(after): the empty cursor reads from the oldest retained event.      *)
Read(j, after) ==
  LET from == IF after = NoCursor THEN j.oldest - 1 ELSE after.sequence
      resync == after # NoCursor /\ Unreadable(j, after)
  IN  [cursor    |-> TailOf(j),
       finished  |-> j.finished,
       truncated |-> j.oldest > 1,
       resync    |-> resync,
       events    |-> IF resync THEN <<>>
                     ELSE SubSeq(j.events, from - (j.oldest - 1) + 1, Len(j.events))]
===========================================================================
