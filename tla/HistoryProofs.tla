---------------------------- MODULE HistoryProofs ----------------------------
(* Histories of events and those who read them.  First one journal: it replays *)
(* exactly, for every capacity, byte limit, frame size, set of events, set of  *)
(* readers, and however long it runs.  Then the runs with a journal each: the  *)
(* row, the answer and what subscribers receive agree, for any number of runs, *)
(* clients, retained histories, candidates, failing calls and restarts.        *)
EXTENDS JournalReplay, AiRuns, EventJournalProofs

-----------------------------------------------------------------------------
(* One journal and its readers                                                *)

(* ReplayExact event by event, for the readers of the current epoch, and no    *)
(* reader holds a cursor of an epoch that is still to come.                    *)
ReaderExact(r) ==
  reader[r].cursor.epoch = journal.epoch =>
    /\ reader[r].from <= reader[r].cursor.sequence
    /\ reader[r].cursor.sequence <= journal.sequence
    /\ Len(reader[r].got) = reader[r].cursor.sequence - reader[r].from
    /\ \A i \in 1..Len(reader[r].got) : reader[r].got[i] = log[i + reader[r].from]

ReplayInv ==
  /\ ReplayTypeOK
  /\ WindowIsSuffix
  /\ \A r \in Readers : reader[r].cursor.epoch <= journal.epoch
  /\ \A r \in Readers : ReaderExact(r)

LEMMA ReplayInitInv == ReplayInit => ReplayInv
<1> SUFFICES ASSUME ReplayInit PROVE ReplayInv
  OBVIOUS
<1>1. ReplayTypeOK
  BY DEF ReplayInit, ReplayTypeOK, NewJournal, Unread, NoCursor, Cursor
<1>2. WindowIsSuffix
  BY DEF ReplayInit, WindowIsSuffix, NewJournal
<1>3. \A r \in Readers : reader[r].cursor.epoch = 0 /\ journal.epoch = 1
  BY DEF ReplayInit, NewJournal, Unread, NoCursor
<1> QED
  BY <1>1, <1>2, <1>3 DEF ReplayInv, ReaderExact

LEMMA WriteInv == ASSUME ReplayInv, NEW e \in Events, Write(e) PROVE ReplayInv'
<1>1. journal \in JournalOf(Events) /\ Aligned(journal)
  BY DEF ReplayInv, ReplayTypeOK, WindowIsSuffix, JournalOf, Aligned
<1>2. /\ journal' \in JournalOf(Events)
      /\ Aligned(journal')
      /\ journal'.epoch = journal.epoch
      /\ journal'.sequence = journal.sequence + 1
      /\ journal'.oldest \in journal.oldest..(journal.sequence + 2)
      /\ \A i \in 1..Len(journal'.events) :
           journal'.events[i] = IF i + (journal'.oldest - 1) = journal'.sequence THEN e
                                ELSE journal.events[i + (journal'.oldest - journal.oldest)]
  <2> DEFINE a == journal'
             was == journal
             unfinished == FALSE
  <2>1. unfinished \in BOOLEAN /\ was \in JournalOf(Events) /\ Aligned(was)
    BY <1>1
  <2>2. a = AppendTo(was, e, unfinished)
    BY DEF Write
  <2> HIDE DEF a, was, unfinished
  <2>3. /\ a \in JournalOf(Events)
        /\ Aligned(a)
        /\ a.epoch = was.epoch
        /\ a.sequence = was.sequence + 1
        /\ a.oldest \in was.oldest..(was.sequence + 2)
        /\ \A i \in 1..Len(a.events) :
             a.events[i] = IF i + (a.oldest - 1) = a.sequence THEN e
                           ELSE was.events[i + (a.oldest - was.oldest)]
    BY SMTT(60), <2>1, <2>2, AppendFacts
  <2> QED
    BY <2>3 DEF a, was
<1>3. /\ log \in Seq(Events) /\ Len(log) = journal.sequence
      /\ log' \in Seq(Events) /\ Len(log') = Len(log) + 1
      /\ log'[Len(log) + 1] = e /\ \A i \in 1..Len(log) : log'[i] = log[i]
  BY DEF ReplayInv, ReplayTypeOK, WindowIsSuffix, Write
<1>4. reader' = reader
  BY DEF Write
<1>5. ReplayTypeOK'
  BY <1>2, <1>3, <1>4 DEF ReplayInv, ReplayTypeOK, JournalOf
<1> DEFINE old == journal.oldest
           new == journal'.oldest
           seq == journal.sequence
           was == journal.events
           now == journal'.events
<1>6. /\ old \in Nat \ {0} /\ new \in Nat \ {0} /\ seq \in Nat
      /\ new >= old /\ new <= seq + 2
      /\ Len(was) = seq - (old - 1) /\ Len(now) = seq + 1 - (new - 1) /\ Len(now) \in Nat
      /\ journal'.sequence = seq + 1
      /\ \A i \in 1..Len(was) : was[i] = log[i + old - 1]
      /\ \A i \in 1..Len(now) : now[i] = IF i + (new - 1) = seq + 1 THEN e ELSE was[i + (new - old)]
  <2>1. /\ old \in Nat \ {0} /\ new \in Nat \ {0} /\ seq \in Nat
        /\ journal'.sequence = seq + 1 /\ now \in Seq(Events) /\ Len(now) \in Nat
    BY <1>1, <1>2 DEF JournalOf
  <2>2. new >= old /\ new <= seq + 2
    BY <1>2, <2>1
  <2>3. Len(was) = seq - (old - 1) /\ Len(now) = seq + 1 - (new - 1)
    <3>1. Len(was) = seq - (old - 1)
      BY <1>1 DEF Aligned
    <3>2. Aligned(journal')
      BY <1>2
    <3>3. Len(now) = journal'.sequence - (new - 1)
      BY <3>2 DEF Aligned
    <3> HIDE DEF was, now, seq, old, new
    <3> QED
      BY <2>1, <3>1, <3>3
  <2>4. \A i \in 1..Len(was) : was[i] = log[i + old - 1]
    BY DEF ReplayInv, WindowIsSuffix
  <2>5. \A i \in 1..Len(now) : now[i] = IF i + (new - 1) = seq + 1 THEN e
                                         ELSE was[i + (new - old)]
    BY <1>2
  <2> QED
    BY <2>1, <2>2, <2>3, <2>4, <2>5
<1>7. WindowIsSuffix'
  <2>1. Len(log') = journal'.sequence /\ Len(now) = journal'.sequence - (new - 1)
    <3> HIDE DEF new, now, seq
    <3>1. Len(log) = seq
      BY <1>3 DEF seq
    <3> QED
      BY <1>3, <1>6, <3>1
  <2>2. ASSUME NEW i \in 1..Len(now)
        PROVE  now[i] = log'[i + new - 1]
    <3> HIDE DEF old, new, seq, was, now
    <3>0. Len(log) = seq /\ i \in Nat \ {0} /\ i + new - 1 \in Nat /\ i + (new - 1) = i + new - 1
      BY <1>3, <1>6 DEF seq
    <3>1. CASE i + new - 1 = seq + 1
      BY <1>3, <1>6, <3>0, <3>1
    <3>2. CASE i + new - 1 # seq + 1
      <4>0. /\ old \in Nat \ {0} /\ new \in Nat \ {0} /\ seq \in Nat /\ new >= old
            /\ Len(was) = seq - (old - 1) /\ i <= seq + 1 - (new - 1)
        BY <1>6
      <4>1. i + (new - old) \in 1..Len(was) /\ i + new - 1 \in 1..Len(log)
            /\ (i + (new - old)) + old - 1 = i + new - 1
        BY <4>0, <3>0, <3>2
      <4>2. now[i] = was[i + (new - old)]
        BY <1>6, <3>0, <3>2
      <4>3. was[i + (new - old)] = log[i + new - 1]
        BY <1>6, <4>1
      <4> QED
        BY <1>3, <4>1, <4>2, <4>3
    <3> QED
      BY <3>1, <3>2
  <2> QED
    BY <2>1, <2>2 DEF WindowIsSuffix
<1>8. \A r \in Readers : reader'[r].cursor.epoch <= journal'.epoch
  BY <1>2, <1>4 DEF ReplayInv
<1>9. ASSUME NEW r \in Readers PROVE ReaderExact(r)'
  <2> SUFFICES ASSUME reader[r].cursor.epoch = journal.epoch
               PROVE  /\ reader[r].from <= reader[r].cursor.sequence
                      /\ reader[r].cursor.sequence <= journal'.sequence
                      /\ Len(reader[r].got) = reader[r].cursor.sequence - reader[r].from
                      /\ \A i \in 1..Len(reader[r].got) : reader[r].got[i] = log'[i + reader[r].from]
    BY <1>2, <1>4 DEF ReaderExact
  <2> DEFINE from == reader[r].from
             cs == reader[r].cursor.sequence
             got == reader[r].got
  <2>1. from \in Nat /\ cs \in Nat /\ got \in Seq(Events) /\ Len(got) \in Nat
    BY DEF ReplayInv, ReplayTypeOK, Cursor
  <2>2. from <= cs /\ cs <= seq /\ Len(got) = cs - from
        /\ \A i \in 1..Len(got) : got[i] = log[i + from]
    BY DEF ReplayInv, ReaderExact
  <2> HIDE DEF from, cs, got, seq
  <2>3. ASSUME NEW i \in 1..Len(got) PROVE got[i] = log'[i + from]
    <3>1. i + from \in 1..Len(log)
      BY <1>3, <2>1, <2>2 DEF seq
    <3> QED
      BY <1>3, <2>2, <3>1
  <2>4. cs <= journal'.sequence
    BY <1>6, <2>1, <2>2
  <2> QED
    BY <2>2, <2>3, <2>4 DEF from, cs, got
<1> QED
  BY <1>5, <1>7, <1>8, <1>9 DEF ReplayInv

LEMMA PollJournalInv == ASSUME ReplayInv, NEW r \in Readers, PollJournal(r) PROVE ReplayInv'
<1> DEFINE old == journal.oldest
           seq == journal.sequence
           cur == reader[r].cursor
           batch == Read(journal, cur)
           first == cur = NoCursor
           start == IF first THEN old - 1 ELSE cur.sequence
           evs == batch.events
           was == reader[r].got
           new == reader'[r]
<1>1. journal \in JournalOf(Events) /\ Aligned(journal) /\ cur \in Cursor
  BY DEF ReplayInv, ReplayTypeOK, WindowIsSuffix, JournalOf, Aligned
<1>2. /\ batch.cursor = TailOf(journal)
      /\ TailOf(journal) \in Cursor
      /\ batch.resync <=> (cur # NoCursor /\ Unreadable(journal, cur))
      /\ ~batch.resync =>
           /\ start \in (old - 1)..seq
           /\ evs \in Seq(Events)
           /\ Len(evs) = seq - start
           /\ \A i \in 1..(seq - start) : evs[i] = journal.events[i + (start - (old - 1))]
  BY <1>1, ReadFacts
<1>3. /\ journal' = journal /\ log' = log
      /\ \A q \in Readers \ {r} : reader'[q] = reader[q]
      /\ new = [cursor |-> batch.cursor,
                from   |-> IF batch.resync THEN batch.cursor.sequence
                           ELSE IF first THEN old - 1 ELSE reader[r].from,
                got    |-> IF batch.resync THEN <<>>
                           ELSE IF first THEN evs ELSE was \o evs]
      /\ reader' = [reader EXCEPT ![r] = new]
  BY DEF PollJournal, ReplayInv, ReplayTypeOK
<1>4. /\ old \in Nat \ {0} /\ seq \in Nat /\ was \in Seq(Events) /\ reader[r].from \in Nat
      /\ log \in Seq(Events) /\ Len(log) = seq
      /\ Len(journal.events) = seq - (old - 1)
      /\ \A i \in 1..Len(journal.events) : journal.events[i] = log[i + old - 1]
      /\ cur.sequence \in Nat
  BY DEF ReplayInv, ReplayTypeOK, WindowIsSuffix, Cursor
<1>5. new.cursor = TailOf(journal) /\ TailOf(journal).sequence = seq
      /\ TailOf(journal).epoch = journal.epoch
  BY <1>2, <1>3 DEF TailOf
<1>6. /\ new.from \in Nat /\ new.got \in Seq(Events)
      /\ new.from <= seq /\ Len(new.got) = seq - new.from
      /\ \A i \in 1..Len(new.got) : new.got[i] = log[i + new.from]
  <2> HIDE DEF batch, new
  <2>1. CASE batch.resync
    <3>1. new.from = seq /\ new.got = <<>>
      BY <1>2, <1>3, <1>5, <2>1
    <3> QED
      BY <1>4, <3>1
  <2>2. CASE ~batch.resync
    <3>1. /\ start \in (old - 1)..seq /\ evs \in Seq(Events) /\ Len(evs) = seq - start
          /\ \A i \in 1..(seq - start) : evs[i] = journal.events[i + (start - (old - 1))]
      BY <1>2, <2>2
    <3>2. ASSUME NEW i \in 1..(seq - start) PROVE evs[i] = log[i + start]
      <4> HIDE DEF start, evs, old, seq
      <4>1. i + (start - (old - 1)) \in 1..Len(journal.events)
            /\ i + (start - (old - 1)) + old - 1 = i + start
        BY <1>4, <3>1
      <4> QED
        BY <1>4, <3>1, <4>1
    <3>3. CASE first
      <4>1. new.from = old - 1 /\ new.got = evs /\ start = old - 1
        BY <1>3, <2>2, <3>3
      <4>2. Len(evs) = seq - new.from
        BY <3>1, <4>1
      <4>3. \A i \in 1..(seq - new.from) : evs[i] = log[i + new.from]
        BY <3>2, <4>1
      <4>4. new.from \in Nat /\ new.from <= seq
        BY <1>4, <3>1, <4>1
      <4> QED
        BY <3>1, <4>1, <4>2, <4>3, <4>4
    <3>4. CASE ~first
      <4>1. new.from = reader[r].from /\ new.got = was \o evs /\ start = cur.sequence
        BY <1>3, <2>2, <3>4
      <4>2. cur.epoch = journal.epoch
        BY <1>2, <2>2, <3>4 DEF Unreadable
      <4>3. /\ reader[r].from <= cur.sequence /\ Len(was) = cur.sequence - reader[r].from
            /\ \A i \in 1..Len(was) : was[i] = log[i + reader[r].from]
        BY <4>2 DEF ReplayInv, ReaderExact
      <4> DEFINE from == reader[r].from
                 both == was \o evs
      <4>4. /\ both \in Seq(Events) /\ Len(both) = Len(was) + Len(evs)
            /\ \A i \in 1..Len(was) : both[i] = was[i]
            /\ \A i \in (Len(was) + 1)..(Len(was) + Len(evs)) : both[i] = evs[i - Len(was)]
        <5>1. was \in Seq(Events) /\ evs \in Seq(Events)
          BY <1>4, <3>1
        <5> HIDE DEF was, evs
        <5> QED
          BY <5>1
      <4>5. /\ from \in Nat /\ start \in Nat /\ from <= start /\ start <= seq
            /\ Len(was) = start - from /\ Len(evs) = seq - start
            /\ Len(was) \in Nat /\ Len(evs) \in Nat
        BY SMTT(30), <1>4, <3>1, <4>1, <4>3
      <4> HIDE DEF from, both, was, evs, start, seq
      <4>6. ASSUME NEW i \in 1..(seq - from) PROVE both[i] = log[i + from]
        <5>1. CASE i <= Len(was)
          <6>1. i \in 1..Len(was)
            BY <4>5, <5>1
          <6> QED
            BY <4>3, <4>4, <6>1 DEF from, was
        <5>2. CASE i > Len(was)
          <6>1. /\ i \in (Len(was) + 1)..(Len(was) + Len(evs))
                /\ i - Len(was) \in 1..(seq - start)
                /\ (i - Len(was)) + start = i + from
            BY <1>4, <4>5, <5>2
          <6> QED
            BY <3>2, <4>4, <6>1
        <5> QED
          BY <4>5, <5>1, <5>2
      <4>7. Len(both) = seq - from
        BY <1>4, <4>4, <4>5
      <4>8. new.from = from /\ new.got = both /\ from <= seq
        BY SMTT(30), <1>4, <4>1, <4>5 DEF from, both, was, evs, seq
      <4> QED
        BY <4>4, <4>5, <4>6, <4>7, <4>8
    <3> QED
      BY <3>3, <3>4
  <2> QED
    BY <2>1, <2>2
<1>7. new \in [cursor : Cursor, from : Nat, got : Seq(Events)]
  <2> DEFINE f == new.from
             g == new.got
  <2>1. new = [cursor |-> TailOf(journal), from |-> f, got |-> g]
    BY <1>2, <1>3
  <2>2. f \in Nat /\ g \in Seq(Events)
    BY <1>6
  <2> HIDE DEF f, g, new
  <2> QED
    BY <1>2, <2>1, <2>2
<1>8. ReplayTypeOK'
  <2> HIDE DEF new
  <2> QED
    BY <1>3, <1>7 DEF ReplayInv, ReplayTypeOK
<1>9. WindowIsSuffix'
  BY <1>3 DEF ReplayInv, WindowIsSuffix
<1>10. ASSUME NEW q \in Readers
       PROVE  reader'[q].cursor.epoch <= journal'.epoch /\ ReaderExact(q)'
  <2>1. CASE q = r
    <3> HIDE DEF new
    <3>1. new.cursor.epoch = journal.epoch /\ new.cursor.sequence = seq
      BY <1>5
    <3>2. journal.epoch \in Nat /\ reader'[q] = new
      BY <1>1, <2>1 DEF JournalOf, new
    <3>3. journal' = journal /\ log' = log
      BY <1>3
    <3>4. /\ new.from <= new.cursor.sequence /\ new.cursor.sequence <= journal.sequence
          /\ Len(new.got) = new.cursor.sequence - new.from
          /\ \A i \in 1..Len(new.got) : new.got[i] = log[i + new.from]
      BY <1>4, <1>6, <3>1
    <3> QED
      BY <3>1, <3>2, <3>3, <3>4 DEF ReaderExact
  <2>2. CASE q # r
    <3>1. reader'[q] = reader[q] /\ journal' = journal /\ log' = log
      BY <1>3, <2>2
    <3> QED
      BY <3>1 DEF ReplayInv, ReaderExact
  <2> QED
    BY <2>1, <2>2
<1> QED
  BY <1>8, <1>9, <1>10 DEF ReplayInv

LEMMA NewProcessInv == ASSUME ReplayInv, NewProcess PROVE ReplayInv'
<1>1. /\ journal' = [epoch |-> journal.epoch + 1, sequence |-> 0, oldest |-> 1,
                     events |-> <<>>, finished |-> FALSE]
      /\ log' = <<>> /\ reader' = reader /\ journal.epoch \in Nat \ {0}
  BY DEF NewProcess, NewJournal, ReplayInv, ReplayTypeOK
<1>2. ReplayTypeOK'
  BY <1>1 DEF ReplayInv, ReplayTypeOK
<1>3. WindowIsSuffix'
  BY <1>1 DEF WindowIsSuffix
<1>4. ASSUME NEW r \in Readers
      PROVE  reader'[r].cursor.epoch <= journal'.epoch /\ ReaderExact(r)'
  <2>1. reader[r].cursor.epoch \in Nat /\ reader[r].cursor.epoch <= journal.epoch
    BY DEF ReplayInv, ReplayTypeOK, Cursor
  <2>2. reader'[r].cursor.epoch < journal'.epoch /\ reader'[r].cursor.epoch # journal'.epoch
        /\ reader'[r].cursor.epoch <= journal'.epoch
    BY <1>1, <2>1
  <2> QED
    BY <2>2 DEF ReaderExact
<1> QED
  BY <1>2, <1>3, <1>4 DEF ReplayInv

LEMMA ReplayNextInv == ReplayInv /\ [ReplayNext]_replayVars => ReplayInv'
<1> SUFFICES ASSUME ReplayInv, [ReplayNext]_replayVars PROVE ReplayInv'
  OBVIOUS
<1>1. CASE UNCHANGED replayVars
  BY <1>1 DEF replayVars, ReplayInv, ReplayTypeOK, WindowIsSuffix, ReaderExact
<1>2. ASSUME NEW e \in Events, Write(e) PROVE ReplayInv'
  BY <1>2, WriteInv
<1>3. ASSUME NEW r \in Readers, PollJournal(r) PROVE ReplayInv'
  BY <1>3, PollJournalInv
<1>4. CASE NewProcess
  BY <1>4, NewProcessInv
<1> QED
  BY <1>1, <1>2, <1>3, <1>4 DEF ReplayNext

LEMMA InvImpliesExact == ReplayInv => ReplayExact
<1> SUFFICES ASSUME ReplayInv, NEW r \in Readers, reader[r].cursor.epoch = journal.epoch
             PROVE  /\ reader[r].from <= reader[r].cursor.sequence
                    /\ reader[r].cursor.sequence <= Len(log)
                    /\ reader[r].got = SubSeq(log, reader[r].from + 1, reader[r].cursor.sequence)
  BY DEF ReplayExact
<1> DEFINE from == reader[r].from
           cs == reader[r].cursor.sequence
           got == reader[r].got
<1>1. /\ from \in Nat /\ cs \in Nat /\ got \in Seq(Events) /\ log \in Seq(Events)
      /\ from <= cs /\ cs <= Len(log) /\ Len(got) = cs - from
      /\ \A i \in 1..Len(got) : got[i] = log[i + from]
  BY DEF ReplayInv, ReplayTypeOK, Cursor, ReaderExact, WindowIsSuffix
<1> HIDE DEF from, cs, got
<1> DEFINE sub == SubSeq(log, from + 1, cs)
<1>2. \A k \in (from + 1)..cs : log[k] \in Events
  BY <1>1
<1>3. /\ sub \in Seq(Events) /\ Len(sub) = cs - from
      /\ \A i \in 1..(cs - from) : sub[i] = log[i + from]
  BY <1>1, <1>2
<1> HIDE DEF sub
<1>4. got = sub
  BY <1>1, <1>3
<1> QED
  BY <1>1, <1>4 DEF from, cs, got, sub

(* Every reachable state of the journal and its readers is well typed.         *)
THEOREM ReplayTypeSafe == ReplaySpec => []ReplayTypeOK
<1>1. ReplayInv => ReplayTypeOK
  BY DEF ReplayInv
<1> QED
  BY <1>1, ReplayInitInv, ReplayNextInv, PTL DEF ReplaySpec

(* The arithmetic of append()'s eviction and read()'s offset never drifts: the  *)
(* deque is the end of the history.                                           *)
THEOREM WindowIsAlwaysSuffix == ReplaySpec => []WindowIsSuffix
<1>1. ReplayInv => WindowIsSuffix
  BY DEF ReplayInv
<1> QED
  BY <1>1, ReplayInitInv, ReplayNextInv, PTL DEF ReplaySpec

(* No reader ever skips or repeats an event, whatever was evicted between its   *)
(* polls and however often the daemon restarted.                              *)
THEOREM ReplayIsExact == ReplaySpec => []ReplayExact
<1> QED
  BY InvImpliesExact, ReplayInitInv, ReplayNextInv, PTL DEF ReplaySpec

(* A poll with a cursor of an earlier epoch ends in a resync, and nothing of the *)
(* earlier epoch is kept: read() compares epochs before it computes an offset.   *)
LEMMA ForeignPoll ==
  ASSUME ReplayInv, [ReplayNext]_replayVars, NEW r \in Readers,
         reader[r].cursor # NoCursor, reader[r].cursor.epoch # journal.epoch,
         reader'[r] # reader[r]
  PROVE  reader'[r].got = <<>>
<1>1. reader \in [Readers -> [cursor : Cursor, from : Nat, got : Seq(Events)]]
  BY DEF ReplayInv, ReplayTypeOK
<1>2. PICK q \in Readers : PollJournal(q)
  BY DEF ReplayNext, replayVars, Write, NewProcess
<1>3. q = r
  BY <1>1, <1>2 DEF PollJournal
<1>4. Read(journal, reader[r].cursor).resync
  BY DEF Read, Unreadable
<1> QED
  BY <1>1, <1>2, <1>3, <1>4 DEF PollJournal

(* A cursor of an earlier process never reads events, however many restarts and  *)
(* writes lie between, although its sequence number may be one that exists.      *)
THEOREM NoOldEpochReplayed == ReplaySpec => NoForeignReplay
<1>1. ReplayInv /\ [ReplayNext]_replayVars =>
        [\A r \in Readers :
           (reader[r].cursor # NoCursor /\ reader[r].cursor.epoch # journal.epoch
              /\ reader'[r] # reader[r])
             => reader'[r].got = <<>>]_replayVars
  BY ForeignPoll
<1> QED
  BY <1>1, ReplayInitInv, ReplayNextInv, PTL DEF ReplaySpec, NoForeignReplay

-----------------------------------------------------------------------------
(* Nothing is evicted that would have fitted.                                  *)

MInv == ReplayInv /\ WindowIsMaximal

(* The history goes on: what was retained of it is unchanged.                  *)
LEMMA EarlierEvents ==
  ASSUME NEW E, NEW q \in Seq(E), NEW e \in E, NEW m \in Nat \ {0}, NEW n \in m..Len(q)
  PROVE  SubSeq(Append(q, e), m, n) = SubSeq(q, m, n)
OBVIOUS

LEMMA WriteMaximal == ASSUME MInv, NEW e \in Events, Write(e) PROVE WindowIsMaximal'
<1> DEFINE all == Append(journal.events, e)
           c == EvictCount(all)
           L == Len(all)
           start == journal.oldest - 1
           seq == journal.sequence
<1>1. /\ journal \in JournalOf(Events) /\ log \in Seq(Events)
      /\ Len(log) = seq /\ Len(journal.events) = seq - start
      /\ \A i \in 1..Len(journal.events) : journal.events[i] = log[i + journal.oldest - 1]
      /\ WindowIsMaximal
  BY DEF MInv, ReplayInv, ReplayTypeOK, WindowIsSuffix, JournalOf
<1>2. /\ log' = Append(log, e) /\ journal'.oldest = journal.oldest + c
      /\ journal'.events = SubSeq(all, c + 1, L)
  BY <1>1 DEF Write, AppendTo, JournalOf
<1>3. /\ start \in Nat /\ seq \in Nat /\ journal.oldest \in Nat \ {0}
      /\ journal.events \in Seq(Events) /\ all \in Seq(Events)
      /\ Len(journal.events) \in Nat /\ L = Len(journal.events) + 1
      /\ \A i \in 1..Len(journal.events) : all[i] = journal.events[i]
      /\ all[L] = e
  <2>1. journal.oldest \in Nat \ {0} /\ seq \in Nat /\ journal.events \in Seq(Events)
    BY <1>1 DEF JournalOf
  <2>2. start \in Nat
    BY <2>1
  <2> DEFINE was == journal.events
  <2>3. was \in Seq(Events)
    BY <2>1
  <2> HIDE DEF was
  <2>4. /\ Append(was, e) \in Seq(Events) /\ Len(was) \in Nat
        /\ Len(Append(was, e)) = Len(was) + 1
        /\ \A i \in 1..Len(was) : Append(was, e)[i] = was[i]
        /\ Append(was, e)[Len(was) + 1] = e
    BY <2>3
  <2>5. all = Append(was, e)
    BY DEF was
  <2> HIDE DEF all, start, seq
  <2>6. /\ all \in Seq(Events) /\ Len(was) \in Nat /\ L = Len(was) + 1
        /\ \A i \in 1..Len(was) : all[i] = was[i]
        /\ all[L] = e
    BY <2>4, <2>5
  <2> QED BY <2>1, <2>2, <2>6 DEF was
<1>4. c \in 0..L
  BY <1>3, EvictCountBound
<1>5. /\ c = L \/ ~Exceeds(SubSeq(all, c + 1, L))
      /\ c > 0 => Exceeds(SubSeq(all, c, L))
  BY <1>3, EvictsLeast, FrameSizes
<1> HIDE DEF all, c
<1>6. log' \in Seq(Events) /\ Len(log') = seq + 1 /\ log'[seq + 1] = e
      /\ \A i \in 1..seq : log'[i] = log[i]
  BY <1>1, <1>2
<1> HIDE DEF L, seq
<1>7. L = seq - start + 1 /\ L \in Nat /\ L <= seq + 1
  BY <1>1, <1>3
<1> HIDE DEF start
<1>8. ~Exceeds(journal'.events) \/ journal'.events = <<>>
  <2>1. CASE c = L
    <3>1. c + 1 \in 1..(L + 1)
      BY <1>4, <1>7
    <3>2. Len(SubSeq(all, c + 1, L)) = L - (c + 1) + 1 /\ SubSeq(all, c + 1, L) \in Seq(Events)
      BY <1>3, <3>1, SuffixFacts DEF L
    <3>3. Len(SubSeq(all, c + 1, L)) = 0
      BY <1>7, <2>1, <3>2
    <3>4. SubSeq(all, c + 1, L) = <<>>
      BY <3>2, <3>3
    <3> QED BY <1>2, <3>4
  <2>2. CASE ~Exceeds(SubSeq(all, c + 1, L))
    BY <1>2, <2>2
  <2> QED BY <1>5, <2>1, <2>2
<1>9. journal'.oldest - 1 = start + c /\ journal.oldest = start + 1
  <2>1. journal.oldest \in Nat /\ c \in Nat /\ start = journal.oldest - 1
    <3>1. journal.oldest \in Nat /\ start = journal.oldest - 1
      BY <1>3 DEF start
    <3>2. c \in Nat
      BY <1>4, <1>7
    <3> QED BY <3>1, <3>2
  <2>2. journal'.oldest = journal.oldest + c
    BY <1>2
  <2> QED BY <2>1, <2>2
<1>10. ASSUME start + c > 0
       PROVE  \E n \in (start + c)..Len(log') : Exceeds(SubSeq(log', start + c, n))
  <2>1. CASE c = 0
    <3>1. start > 0 /\ start + c = start
      BY <1>3, <1>10, <2>1
    <3>2. PICK n \in start..Len(log) : Exceeds(SubSeq(log, start, n))
      BY <1>1, <3>1 DEF WindowIsMaximal, start
    <3>3. n \in start..Len(log') /\ start \in Nat \ {0}
      BY <1>1, <1>3, <1>6, <3>1, <3>2
    <3>4. SubSeq(log', start, n) = SubSeq(log, start, n)
      BY <1>1, <1>2, <3>2, <3>3, EarlierEvents
    <3> QED BY <3>1, <3>2, <3>3, <3>4
  <2>2. CASE c > 0
    <3> DEFINE p == SubSeq(all, c, L)
               r == SubSeq(log', start + c, Len(log'))
               k == L - c + 1
    <3>1. c \in 1..(L + 1) /\ k \in Nat
      BY <1>4, <1>7, <2>2
    <3>2. p \in Seq(Events) /\ Len(p) = k /\ \A i \in 1..k : p[i] = all[i + c - 1]
      BY <1>3, <3>1, SuffixFacts DEF L
    <3>3. start + c \in 1..(Len(log') + 1) /\ Len(log') - (start + c) + 1 = k
      <4>1. start \in Nat /\ seq \in Nat
        BY <1>3
      <4>2. c \in Nat /\ c <= L
        BY <1>4, <1>7
      <4>3. Len(log') = seq + 1
        BY <1>6
      <4> QED BY <1>7, <2>2, <4>1, <4>2, <4>3
    <3> DEFINE d == start + c
    <3>4. r \in Seq(Events) /\ Len(r) = k /\ \A i \in 1..k : r[i] = log'[i + (start + c) - 1]
      <4>1. d \in 1..(Len(log') + 1) /\ Len(log') - d + 1 = k
        BY <3>3
      <4> HIDE DEF d
      <4>2. /\ SubSeq(log', d, Len(log')) \in Seq(Events)
            /\ Len(SubSeq(log', d, Len(log'))) = Len(log') - d + 1
            /\ \A i \in 1..(Len(log') - d + 1) : SubSeq(log', d, Len(log'))[i] = log'[i + d - 1]
        BY <1>6, <4>1, SuffixFacts
      <4> QED BY <4>1, <4>2 DEF d
    <3>5. ASSUME NEW i \in 1..L PROVE all[i] = log'[i + start]
      <4>1. CASE i = L
        <5>1. i + start = seq + 1
          BY <1>3, <1>7, <4>1
        <5> QED BY <1>3, <1>6, <4>1, <5>1
      <4>2. CASE i # L
        <5>1. i \in 1..Len(journal.events) /\ i + start \in 1..seq
              /\ i + journal.oldest - 1 = i + start
          <6> DEFINE held == Len(journal.events)
          <6>1. held \in Nat /\ L = held + 1 /\ journal.oldest = start + 1
            BY <1>3, <1>9
          <6>2. start \in Nat /\ seq \in Nat /\ L = seq - start + 1
            BY <1>3, <1>7
          <6> HIDE DEF held
          <6>3. i \in 1..held /\ i + start \in 1..seq /\ i + journal.oldest - 1 = i + start
            BY <4>2, <6>1, <6>2
          <6> QED BY <6>3 DEF held
        <5>2. all[i] = journal.events[i]
          BY <1>3, <5>1
        <5>3. journal.events[i] = log[i + start]
          <6>1. journal.events[i] = log[i + journal.oldest - 1]
            BY <1>1, <5>1
          <6> QED BY <5>1, <6>1
        <5>4. log'[i + start] = log[i + start]
          BY <1>6, <5>1
        <5> QED BY <5>2, <5>3, <5>4
      <4> QED BY <4>1, <4>2
    <3> HIDE DEF p, r, k
    <3>6. \A i \in 1..k : p[i] = r[i]
      <4> SUFFICES ASSUME NEW i \in 1..k PROVE p[i] = r[i]
        OBVIOUS
      <4>1. i + c - 1 \in 1..L /\ (i + c - 1) + start = i + (start + c) - 1
        BY <1>3, <1>4, <1>7, <2>2, <3>1 DEF k
      <4> QED BY <3>2, <3>4, <3>5, <4>1
    <3>7. p = r
      BY <3>1, <3>2, <3>4, <3>6
    <3>8. Exceeds(r)
      BY <1>5, <2>2, <3>7 DEF p
    <3>9. Len(log') \in (start + c)..Len(log')
      BY <1>3, <1>4, <1>6, <1>7
    <3> QED BY <3>8, <3>9 DEF r
  <2> QED BY <1>4, <2>1, <2>2
<1> QED BY <1>8, <1>9, <1>10 DEF WindowIsMaximal

LEMMA MaximalKept == MInv /\ [ReplayNext]_replayVars => MInv'
<1> SUFFICES ASSUME MInv, [ReplayNext]_replayVars PROVE WindowIsMaximal'
  BY ReplayNextInv DEF MInv
<1>1. ASSUME NEW e \in Events, Write(e) PROVE WindowIsMaximal'
  BY <1>1, WriteMaximal
<1>2. CASE NewProcess
  <2>1. journal'.events = <<>> /\ journal'.oldest = 1
    BY <1>2 DEF NewProcess, NewJournal
  <2> QED BY <2>1 DEF WindowIsMaximal
<1>3. CASE journal' = journal /\ log' = log
  BY <1>3 DEF MInv, WindowIsMaximal
<1> QED BY <1>1, <1>2, <1>3 DEF ReplayNext, PollJournal, replayVars

(* The eviction loop of append() keeps the longest end of the history that     *)
(* respects both limits, and an event that has been evicted would not have      *)
(* fitted with those retained at the time.                                     *)
THEOREM WindowIsLongest == ReplaySpec => []WindowIsMaximal
<1>1. ReplayInit => MInv
  <2> SUFFICES ASSUME ReplayInit PROVE WindowIsMaximal
    BY ReplayInitInv DEF MInv
  <2>1. journal.events = <<>> /\ journal.oldest = 1
    BY DEF ReplayInit, NewJournal
  <2> QED BY <2>1 DEF WindowIsMaximal
<1>2. MInv => WindowIsMaximal
  BY DEF MInv
<1> QED BY <1>1, <1>2, MaximalKept, PTL DEF ReplaySpec

-----------------------------------------------------------------------------
(* The runs                                                                   *)

(* What a run's events are and where its thread and its subscribers can be.    *)
Names == {"run_started", "progress", "router", "chunk", "fallback", "done", "failed"}
Ending == {"done", "failed"}
RunEvent == [name : Names, n : Nat]

Writing == {"begin", "user", "try", "call", "answer"}
Thread == [pc : Writing \cup {"request", "complete", "unwind", "done", "failed", "over"},
           path : {"local", "cloud"}, tries : 0..MaxTries, got : BOOLEAN,
           text : Seq(Nat), lost : BOOLEAN]
Subscriber == [state : {"away", "asked", "restore", "open", "told", "ended"},
               run : Runs \cup {"none"}, status : {"none", "started"} \cup Terminal,
               id : Cursor, source : Cursor, got : Seq(Nat)]

Kept(q) ==
  /\ store[q].updated_at \in 0..clock
  /\ store[q].journal \in JournalOf(RunEvent) /\ Aligned(store[q].journal)
  /\ store[q].journal.sequence >= 1
  /\ store[q].journal.epoch \in 1..epochs

ThreadTypes ==
  /\ row \in [Runs -> {"none", "started"} \cup Terminal]
  /\ message \in [Runs -> Seq(Nat)]
  /\ run \in [Runs -> Thread]
  /\ full \in [Runs -> Seq(Names)]

StoreTypes ==
  /\ clock \in Nat /\ epochs \in Nat
  /\ Retained \subseteq Runs \cup Others
  /\ IsFiniteSet(Retained) /\ Cardinality(Retained) =< MaxRetained
  /\ \A q \in Retained : Kept(q)

ClientTypes == client \in [Clients -> Subscriber]

(* The row follows the thread, and the answer is collected until it is stored. *)
ThreadAt(t, names, status, answer) ==
  /\ t.pc = "request" => t = Idle /\ names = <<>> /\ status = "none"
  /\ t.pc \in Writing \cup {"complete", "unwind"} => status = "started"
  /\ t.pc = "done" => status = "completed"
  /\ t.pc = "failed" => status = "failed"
  /\ t.pc # "over" => \A i \in DOMAIN names : names[i] \notin Ending
  /\ \A i \in DOMAIN names : names[i] \in Ending =>
       i = Len(names) /\ names[i] = TerminalEvent(status) /\ status \in Terminal
  /\ t.pc \in Writing \cup {"request"} => answer = NoMessage /\ Collected(t.text, names)
  /\ answer # NoMessage => Collected(answer, names)

ThreadOK(r) == ThreadAt(run[r], full[r], row[r], message[r])

(* b follows a: no event of the run lies between them.                         *)
Follows(a, b) == a # 0 /\ b # 0 => b = a + 1

(* A journal of a run with the given status and number of events so far.       *)
History(j, status, count) ==
  /\ j.finished => status \in Terminal
  /\ \A i \in 1..Len(j.events) : j.events[i].name \in Ending =>
       status \in Terminal /\ j.events[i].name = TerminalEvent(status)
  /\ \A i \in 1..(Len(j.events) - 1) : Follows(j.events[i].n, j.events[i + 1].n)
  /\ Len(j.events) > 0 => j.events[Len(j.events)].n \in {0, count}

HistoryOK(r) == r \in Retained => History(store[r].journal, row[r], Len(full[r]))

(* What a client has is followed by what its id makes it receive next.         *)
Link(cl, j, count) ==
  cl.id.epoch = j.epoch =>
    LET at == cl.id.sequence
        last == cl.got[Len(cl.got)]
    IN  /\ at =< j.sequence
        /\ at = j.sequence => last \in {0, count}
        /\ at \in (j.oldest - 1)..(j.sequence - 1) =>
             Follows(last, j.events[at - (j.oldest - 1) + 1].n)

Linked(cl) ==
  cl.run \in Runs \cap Retained => Link(cl, store[cl.run].journal, Len(full[cl.run]))

ClientAt(cl) ==
  /\ cl.state # "away" => cl.run \in Runs
  /\ cl.run = "none" => cl.id = NoCursor
  /\ cl.id = NoCursor <=> cl.got = <<>>
  /\ cl.id = NoCursor \/ cl.id.epoch \in 1..epochs
  /\ cl.state = "open" => cl.source = cl.id
  /\ cl.state = "restore" => cl.status \in Terminal
  /\ cl.state \in {"asked", "restore"} /\ cl.status \in Terminal => cl.status = row[cl.run]
  /\ \A i \in 1..(Len(cl.got) - 1) : Follows(cl.got[i], cl.got[i + 1])
  /\ Linked(cl)

ClientOK(c) == ClientAt(client[c])

RunsInv ==
  /\ ThreadTypes /\ StoreTypes /\ ClientTypes
  /\ \A r \in Runs : ThreadOK(r) /\ HistoryOK(r)
  /\ \A c \in Clients : ClientOK(c)

-----------------------------------------------------------------------------
(* What is collected grows with the chunks and with nothing else.              *)
LEMMA CollectedKept ==
  ASSUME NEW s \in Seq(Nat), NEW f \in Seq(Names), NEW x \in Names, x # "chunk", Collected(s, f)
  PROVE  Collected(s, Append(f, x))
<1> DEFINE g == Append(f, x)
<1>1. /\ DOMAIN g = 1..(Len(f) + 1) /\ DOMAIN f = 1..Len(f) /\ Len(f) \in Nat
      /\ \A i \in 1..Len(f) : g[i] = f[i]
      /\ g[Len(f) + 1] = x
  OBVIOUS
<1> HIDE DEF g
<1>2. {i \in DOMAIN g : g[i] = "chunk"} = {i \in DOMAIN f : f[i] = "chunk"}
  BY <1>1
<1> QED
  BY <1>2 DEF Collected, g

LEMMA CollectedGrows ==
  ASSUME NEW s \in Seq(Nat), NEW f \in Seq(Names), Collected(s, f)
  PROVE  Collected(Append(s, Len(f) + 1), Append(f, "chunk"))
<1> DEFINE g == Append(f, "chunk")
           t == Append(s, Len(f) + 1)
<1>1. /\ DOMAIN g = 1..(Len(f) + 1) /\ DOMAIN f = 1..Len(f) /\ Len(f) \in Nat
      /\ \A i \in 1..Len(f) : g[i] = f[i]
      /\ g[Len(f) + 1] = "chunk"
  OBVIOUS
<1>2. /\ DOMAIN t = 1..(Len(s) + 1) /\ DOMAIN s = 1..Len(s) /\ Len(s) \in Nat
      /\ \A k \in 1..Len(s) : t[k] = s[k]
      /\ t[Len(s) + 1] = Len(f) + 1
  OBVIOUS
<1> HIDE DEF g, t
<1>3. \A k \in DOMAIN s : s[k] \in 1..Len(f) /\ f[s[k]] = "chunk"
  <2> SUFFICES ASSUME NEW k \in DOMAIN s PROVE s[k] \in 1..Len(f) /\ f[s[k]] = "chunk"
    OBVIOUS
  <2>1. s[k] \in {s[l] : l \in DOMAIN s}
    OBVIOUS
  <2>2. s[k] \in {i \in DOMAIN f : f[i] = "chunk"}
    BY <2>1 DEF Collected
  <2> QED
    BY <1>1, <2>2
<1>4. \A k, l \in DOMAIN t : k < l => t[k] < t[l]
  <2> SUFFICES ASSUME NEW k \in DOMAIN t, NEW l \in DOMAIN t, k < l PROVE t[k] < t[l]
    OBVIOUS
  <2>1. k \in 1..Len(s)
    BY <1>2
  <2>2. CASE l \in 1..Len(s)
    BY <1>2, <2>1, <2>2 DEF Collected
  <2>3. CASE l = Len(s) + 1
    BY <1>1, <1>2, <1>3, <2>1, <2>3
  <2> QED
    BY <1>2, <2>2, <2>3
<1>5. ASSUME NEW i \in {t[k] : k \in DOMAIN t} PROVE i \in DOMAIN g /\ g[i] = "chunk"
  <2> PICK k \in DOMAIN t : i = t[k]
    OBVIOUS
  <2>1. CASE k \in 1..Len(s)
    BY <1>1, <1>2, <1>3, <2>1
  <2>2. CASE k = Len(s) + 1
    BY <1>1, <1>2, <2>2
  <2> QED
    BY <1>2, <2>1, <2>2
<1>6. ASSUME NEW i \in DOMAIN g, g[i] = "chunk" PROVE i \in {t[k] : k \in DOMAIN t}
  <2>1. CASE i \in 1..Len(f)
    <3>1. i \in {s[k] : k \in DOMAIN s}
      BY <1>1, <1>6, <2>1 DEF Collected
    <3> PICK k \in DOMAIN s : i = s[k]
      BY <3>1
    <3> QED
      BY <1>2
  <2>2. CASE i = Len(f) + 1
    <3>1. Len(s) + 1 \in DOMAIN t /\ t[Len(s) + 1] = i
      BY <1>2, <2>2
    <3> QED
      BY <3>1
  <2> QED
    BY <1>1, <2>1, <2>2
<1>7. {t[k] : k \in DOMAIN t} = {i \in DOMAIN g : g[i] = "chunk"}
  BY <1>5, <1>6
<1> QED
  BY <1>4, <1>7 DEF Collected, g, t

(* What appending an event to a run's history does to the store.               *)
Grown(j, old, e, finished) ==
  /\ old \in JournalOf(RunEvent) /\ Aligned(old)
  /\ j \in JournalOf(RunEvent) /\ Aligned(j)
  /\ j.epoch = old.epoch
  /\ j.sequence = old.sequence + 1
  /\ j.oldest \in old.oldest..(old.sequence + 2)
  /\ j.finished = (old.finished \/ finished)
  /\ \A i \in 1..Len(j.events) :
       j.events[i] = IF i + (j.oldest - 1) = j.sequence THEN e
                     ELSE old.events[i + (j.oldest - old.oldest)]

Grows(q, e) ==
  /\ \/ /\ q \in Retained
        /\ epochs' = epochs
        /\ Grown(store'[q].journal, store[q].journal, e, e.name \in Ending)
     \/ /\ epochs' = epochs + 1
        /\ Grown(store'[q].journal, NewJournal(epochs + 1), e, e.name \in Ending)
  /\ q \in Retained'
  /\ \A p \in Retained' \ {q} : p \in Retained /\ store'[p] = store[p]

LEMMA NewJournalFacts ==
  ASSUME NEW k \in Nat \ {0}
  PROVE  /\ NewJournal(k) \in JournalOf(RunEvent) /\ Aligned(NewJournal(k))
         /\ NewJournal(k).events = <<>> /\ NewJournal(k).sequence = 0
         /\ NewJournal(k).oldest = 1 /\ NewJournal(k).epoch = k
         /\ NewJournal(k).finished = FALSE
BY DEF NewJournal, JournalOf, Aligned

LEMMA AppendGrown ==
  ASSUME NEW old \in JournalOf(RunEvent), Aligned(old), NEW e \in RunEvent, NEW fin \in BOOLEAN
  PROVE  Grown(AppendTo(old, e, fin), old, e, fin)
<1> DEFINE a == AppendTo(old, e, fin)
<1>1. a.finished = (old.finished \/ fin)
  BY DEF AppendTo, JournalOf
<1>2. a = AppendTo(old, e, fin)
  OBVIOUS
<1> HIDE DEF a
<1>3. /\ a \in JournalOf(RunEvent)
      /\ Aligned(a)
      /\ a.epoch = old.epoch
      /\ a.sequence = old.sequence + 1
      /\ a.oldest \in old.oldest..(old.sequence + 2)
      /\ \A i \in 1..Len(a.events) :
           a.events[i] = IF i + (a.oldest - 1) = a.sequence THEN e
                         ELSE old.events[i + (a.oldest - old.oldest)]
  BY SMTT(60), <1>2, AppendFacts
<1> QED
  BY <1>1, <1>2, <1>3 DEF Grown

LEMMA StoreGrows ==
  ASSUME StoreTypes, NEW q \in Runs \cup Others, NEW name \in Names, NEW n \in Nat,
         clock' \in Nat, clock =< clock', AppendRunEvent(q, name, n)
  PROVE  /\ Grows(q, [name |-> name, n |-> n])
         /\ StoreTypes' /\ epochs =< epochs'
<1> DEFINE e == [name |-> name, n |-> n]
           fin == e.name \in Ending
           fresh == q \notin Retained \/ name = "run_started"
           old == IF fresh THEN NewJournal(epochs + 1) ELSE store[q].journal
           new == [journal |-> AppendTo(old, e, fin), updated_at |-> clock']
<1> DEFINE Outs == IF q \notin Retained /\ Cardinality(Retained) >= MaxRetained
                   THEN {{o} : o \in Oldest} ELSE {{}}
<1>1. PICK out \in Outs :
        /\ store' = [p \in (Retained \ out) \cup {q} |-> IF p = q THEN new ELSE store[p]]
        /\ epochs' = IF fresh THEN epochs + 1 ELSE epochs
  BY DEF AppendRunEvent, Ending
<1> HIDE DEF Outs
<1>2. e \in RunEvent /\ fin \in BOOLEAN /\ e.name = name
  BY DEF RunEvent
<1>3. epochs \in Nat /\ MaxRetained \in Nat \ {0}
  BY RunBounds DEF StoreTypes
<1> DEFINE first == NewJournal(epochs + 1)
<1>12. /\ first \in JournalOf(RunEvent) /\ Aligned(first)
       /\ first.sequence = 0 /\ first.epoch = epochs + 1
  <2>1. epochs + 1 \in Nat \ {0}
    BY <1>3
  <2> QED
    BY <2>1, NewJournalFacts
<1> HIDE DEF first
<1>13. fresh => old = first
  BY DEF first
<1>14. ~fresh => q \in Retained /\ old = store[q].journal
  OBVIOUS
<1> HIDE DEF old
<1>4. old \in JournalOf(RunEvent) /\ Aligned(old)
  <2>1. CASE fresh
    BY <1>12, <1>13, <2>1
  <2>2. CASE ~fresh
    BY <1>14, <2>2 DEF StoreTypes, Kept
  <2> QED
    BY <2>1, <2>2
<1> HIDE DEF e, fin
<1>5. Grown(new.journal, old, e, fin)
  <2>1. Grown(AppendTo(old, e, fin), old, e, fin)
    BY <1>2, <1>4, AppendGrown
  <2> QED
    BY <2>1
<1>6. /\ Retained' = (Retained \ out) \cup {q}
      /\ store'[q] = new
      /\ \A p \in Retained' \ {q} : p \in Retained /\ store'[p] = store[p]
  BY <1>1 DEF Retained
<1> HIDE DEF new
<1>7. epochs' \in Nat /\ epochs =< epochs'
  BY <1>1, <1>3
<1>8. Grows(q, e)
  <2>1. CASE fresh
    BY <1>1, <1>13, <1>5, <1>6, <2>1 DEF Grows, fin, first
  <2>2. CASE ~fresh
    BY <1>1, <1>14, <1>5, <1>6, <2>2 DEF Grows, fin
  <2> QED
    BY <2>1, <2>2
<1>9. Retained' \subseteq Runs \cup Others
  BY <1>6 DEF StoreTypes
<1>10. IsFiniteSet(Retained') /\ Cardinality(Retained') =< MaxRetained
  <2> DEFINE R == Retained
             S == Retained \ out
  <2>1. IsFiniteSet(R) /\ Cardinality(R) \in Nat /\ Cardinality(R) =< MaxRetained
    BY FS_CardinalityType DEF StoreTypes
  <2>2. IsFiniteSet(S) /\ Cardinality(S) \in Nat /\ Cardinality(S) =< Cardinality(R)
    <3>1. S \subseteq R
      OBVIOUS
    <3> HIDE DEF R, S
    <3> QED
      BY <2>1, <3>1, FS_Subset, FS_CardinalityType
  <2>3. IsFiniteSet(S \cup {q})
        /\ Cardinality(S \cup {q}) = IF q \in S THEN Cardinality(S) ELSE Cardinality(S) + 1
    <3> HIDE DEF S
    <3> QED
      BY <2>2, FS_AddElement
  <2>4. q \in S \/ Cardinality(S) < MaxRetained
    <3>1. CASE q \in Retained
      <4>1. out = {}
        BY <3>1 DEF Outs
      <4> QED
        BY <3>1, <4>1
    <3>2. CASE q \notin Retained /\ Cardinality(R) < MaxRetained
      BY <1>3, <2>1, <2>2, <3>2
    <3>3. CASE q \notin Retained /\ Cardinality(R) >= MaxRetained
      <4>1. PICK o \in Oldest : out = {o}
        BY <3>3 DEF Outs
      <4>2. o \in R /\ S = R \ {o}
        BY <4>1 DEF Oldest
      <4>3. Cardinality(R \ {o}) = Cardinality(R) - 1
        <5> HIDE DEF R
        <5> QED
          BY <2>1, <4>2, FS_RemoveElement
      <4>4. Cardinality(S) = Cardinality(R) - 1
        BY <4>2, <4>3
      <4> HIDE DEF R, S
      <4> QED
        BY <1>3, <2>1, <2>2, <4>4
    <3> QED
      BY <1>3, <2>1, <3>1, <3>2, <3>3
  <2> QED
    BY <1>3, <1>6, <2>1, <2>2, <2>3, <2>4
<1>11. ASSUME NEW p \in Retained' PROVE Kept(p)'
  <2>1. CASE p = q
    <3>1. store'[q].updated_at = clock' /\ store'[q].journal = new.journal
      BY <1>6 DEF new
    <3>2. /\ new.journal \in JournalOf(RunEvent) /\ Aligned(new.journal)
          /\ new.journal.sequence = old.sequence + 1 /\ new.journal.epoch = old.epoch
      BY <1>5 DEF Grown
    <3>3. old.sequence \in Nat /\ old.epoch \in 1..epochs'
      <4>1. CASE fresh
        BY <1>1, <1>3, <1>12, <1>13, <4>1
      <4>2. CASE ~fresh
        BY <1>1, <1>14, <4>2 DEF StoreTypes, Kept, JournalOf
      <4> QED
        BY <4>1, <4>2
    <3> QED
      BY <2>1, <3>1, <3>2, <3>3 DEF Kept
  <2>2. CASE p # q
    <3>1. p \in Retained /\ store'[p] = store[p] /\ Kept(p)
      BY <1>6, <2>2 DEF StoreTypes
    <3>2. clock \in Nat
      BY DEF StoreTypes
    <3> QED
      BY <1>3, <1>7, <3>1, <3>2 DEF Kept
  <2> QED
    BY <2>1, <2>2
<1> QED
  BY <1>7, <1>8, <1>9, <1>10, <1>11 DEF e, StoreTypes

(* Where an event is added that comes next among the run's events, or one that *)
(* is made up.                                                                *)
NextEvent(e, status, count, now) ==
  /\ e \in RunEvent
  /\ count \in Nat
  /\ (e.n = count + 1 /\ now = count + 1) \/ (e.n = 0 /\ now = count)
  /\ e.name \in Ending => status \in Terminal /\ e.name = TerminalEvent(status)

LEMMA NewHistory ==
  ASSUME NEW k \in Nat \ {0}, NEW status, NEW count
  PROVE  History(NewJournal(k), status, count)
<1>1. NewJournal(k).events = <<>> /\ NewJournal(k).finished = FALSE
  BY NewJournalFacts
<1>2. Len(<<>>) = 0
  OBVIOUS
<1> QED
  BY <1>1, <1>2 DEF History

LEMMA GrownFacts ==
  ASSUME NEW j, NEW old, NEW e, NEW fin, Grown(j, old, e, fin)
  PROVE  /\ j.sequence \in Nat /\ j.oldest \in Nat \ {0} /\ j.events \in Seq(RunEvent)
         /\ old.sequence \in Nat /\ old.oldest \in Nat \ {0} /\ old.events \in Seq(RunEvent)
         /\ j.sequence = old.sequence + 1 /\ old.oldest =< j.oldest
         /\ Len(j.events) = j.sequence - (j.oldest - 1) /\ Len(j.events) \in Nat
         /\ Len(old.events) = old.sequence - (old.oldest - 1) /\ Len(old.events) \in Nat
         /\ Len(j.events) > 0 => j.events[Len(j.events)] = e
         /\ \A i \in 1..(Len(j.events) - 1) :
              /\ i + (j.oldest - old.oldest) \in 1..Len(old.events)
              /\ j.events[i] = old.events[i + (j.oldest - old.oldest)]
<1>1. /\ j.sequence \in Nat /\ j.oldest \in Nat \ {0} /\ j.events \in Seq(RunEvent)
      /\ old.sequence \in Nat /\ old.oldest \in Nat \ {0} /\ old.events \in Seq(RunEvent)
      /\ j.sequence = old.sequence + 1 /\ old.oldest =< j.oldest
      /\ Len(j.events) = j.sequence - (j.oldest - 1)
      /\ Len(old.events) = old.sequence - (old.oldest - 1)
  BY DEF Grown, JournalOf, Aligned
<1>2. Len(j.events) \in Nat /\ Len(old.events) \in Nat
  BY <1>1
<1>3. \A i \in 1..Len(j.events) :
        j.events[i] = IF i + (j.oldest - 1) = j.sequence THEN e
                      ELSE old.events[i + (j.oldest - old.oldest)]
  BY DEF Grown
<1>4. ASSUME Len(j.events) > 0 PROVE j.events[Len(j.events)] = e
  <2>1. Len(j.events) \in 1..Len(j.events) /\ Len(j.events) + (j.oldest - 1) = j.sequence
    BY <1>1, <1>2, <1>4
  <2> QED
    BY <1>3, <2>1
<1>5. ASSUME NEW i \in 1..(Len(j.events) - 1)
      PROVE  /\ i + (j.oldest - old.oldest) \in 1..Len(old.events)
             /\ j.events[i] = old.events[i + (j.oldest - old.oldest)]
  <2>1. i \in 1..Len(j.events) /\ i + (j.oldest - 1) # j.sequence
    BY <1>1, <1>2
  <2>2. j.events[i] = old.events[i + (j.oldest - old.oldest)]
    BY <1>3, <2>1
  <2>3. i + (j.oldest - old.oldest) \in 1..Len(old.events)
    <3> DEFINE a == j.oldest
               b == old.oldest
               x == j.sequence
               y == old.sequence
               m == Len(j.events)
               k == Len(old.events)
    <3>1. /\ a \in Nat /\ b \in Nat /\ x \in Nat /\ y \in Nat /\ b =< a /\ x = y + 1
          /\ m = x - (a - 1) /\ k = y - (b - 1) /\ m \in Nat /\ i \in 1..(m - 1)
      BY <1>1, <1>2
    <3> HIDE DEF a, b, x, y, m, k
    <3>2. i + (a - b) \in 1..k
      BY <3>1
    <3> QED
      BY <3>2 DEF a, b, k
  <2> QED
    BY <2>2, <2>3
<1> QED
  BY <1>1, <1>2, <1>4, <1>5

LEMMA HistoryGrows ==
  ASSUME NEW j, NEW old, NEW e, NEW status, NEW count, NEW now,
         Grown(j, old, e, e.name \in Ending), NextEvent(e, status, count, now),
         History(old, status, count)
  PROVE  History(j, status, now)
<1> DEFINE new == j.events
           was == old.events
           d == j.oldest - old.oldest
           len == Len(new)
           fin == e.name \in Ending
<1>1. /\ len \in Nat /\ Len(was) \in Nat /\ d \in Nat
      /\ len > 0 => new[len] = e
      /\ \A i \in 1..(len - 1) : i + d \in 1..Len(was) /\ new[i] = was[i + d]
      /\ len - 1 + d = Len(was)
      /\ new \in Seq(RunEvent) /\ was \in Seq(RunEvent)
  <2> HIDE DEF fin
  <2>1. Grown(j, old, e, fin)
    BY DEF fin
  <2> DEFINE a == j.oldest
             b == old.oldest
             x == j.sequence
             y == old.sequence
  <2>2. /\ len > 0 => new[len] = e
        /\ \A i \in 1..(len - 1) : i + d \in 1..Len(was) /\ new[i] = was[i + d]
        /\ new \in Seq(RunEvent) /\ was \in Seq(RunEvent)
    BY <2>1, GrownFacts
  <2>3. /\ a \in Nat /\ b \in Nat /\ x \in Nat /\ y \in Nat /\ b =< a /\ x = y + 1
        /\ len = x - (a - 1) /\ Len(was) = y - (b - 1) /\ len \in Nat /\ Len(was) \in Nat
        /\ d = a - b
    BY <2>1, GrownFacts
  <2> HIDE DEF a, b, x, y, d, len, new, was
  <2>4. len - 1 + d = Len(was) /\ d \in Nat
    BY <2>3
  <2> QED
    BY <2>2, <2>3, <2>4
<1>2. /\ j.finished = (old.finished \/ e.name \in Ending)
  BY DEF Grown
<1>3. /\ old.finished => status \in Terminal
      /\ \A i \in 1..Len(was) : was[i].name \in Ending =>
           status \in Terminal /\ was[i].name = TerminalEvent(status)
      /\ \A i \in 1..(Len(was) - 1) : Follows(was[i].n, was[i + 1].n)
      /\ Len(was) > 0 => was[Len(was)].n \in {0, count}
  BY DEF History
<1> HIDE DEF new, was, d, len
<1>4. j.finished => status \in Terminal
  BY <1>2, <1>3 DEF NextEvent
<1>5. ASSUME NEW i \in 1..len, new[i].name \in Ending
      PROVE  status \in Terminal /\ new[i].name = TerminalEvent(status)
  <2>1. CASE i = len
    BY <1>1, <1>5, <2>1 DEF NextEvent
  <2>2. CASE i # len
    <3>1. i \in 1..(len - 1)
      BY <1>1, <2>2
    <3>2. i + d \in 1..Len(was) /\ new[i] = was[i + d]
      BY <1>1, <3>1
    <3> QED
      BY <1>3, <1>5, <3>2
  <2> QED
    BY <2>1, <2>2
<1>6. ASSUME NEW i \in 1..(len - 1) PROVE Follows(new[i].n, new[i + 1].n)
  <2>1. i + d \in 1..Len(was) /\ new[i] = was[i + d]
    BY <1>1
  <2>2. CASE i = len - 1
    <3>1. i + d = Len(was) /\ len > 0 /\ i + 1 = len
      BY <1>1, <2>2
    <3>2. new[i + 1] = e
      BY <1>1, <3>1
    <3>3. new[i].n \in {0, count}
      BY <1>1, <1>3, <2>1, <3>1
    <3> QED
      BY <3>2, <3>3 DEF Follows, NextEvent
  <2>3. CASE i # len - 1
    <3>1. i + 1 \in 1..(len - 1) /\ (i + 1) + d = (i + d) + 1
      BY <1>1, <2>3
    <3>2. (i + d) + 1 \in 1..Len(was) /\ new[i + 1] = was[(i + d) + 1]
      BY <1>1, <3>1
    <3>3. i + d \in 1..(Len(was) - 1)
      BY <1>1, <2>1, <3>2
    <3> QED
      BY <1>3, <2>1, <3>2, <3>3
  <2> QED
    BY <2>2, <2>3
<1>7. len > 0 => new[len].n \in {0, now}
  BY <1>1 DEF NextEvent
<1> QED
  BY <1>4, <1>5, <1>6, <1>7 DEF History, new, len

LEMMA LinkGrows ==
  ASSUME NEW cl \in Subscriber, NEW j, NEW old, NEW e, NEW status, NEW count, NEW now,
         Grown(j, old, e, e.name \in Ending), NextEvent(e, status, count, now),
         Link(cl, old, count)
  PROVE  Link(cl, j, now)
<1> DEFINE new == j.events
           was == old.events
           len == Len(new)
           fin == e.name \in Ending
           at == cl.id.sequence
           x == j.sequence
           y == old.sequence
           a == j.oldest
           b == old.oldest
           last == cl.got[Len(cl.got)]
<1> SUFFICES ASSUME cl.id.epoch = j.epoch
             PROVE  /\ at =< x
                    /\ at = x => last \in {0, now}
                    /\ at \in (a - 1)..(x - 1) => Follows(last, new[at - (a - 1) + 1].n)
  BY DEF Link
<1>1. /\ len \in Nat
      /\ len > 0 => new[len] = e
      /\ \A i \in 1..(len - 1) : new[i] = was[i + (a - b)]
      /\ x \in Nat /\ y \in Nat /\ a \in Nat /\ b \in Nat
      /\ x = y + 1 /\ len = x - (a - 1) /\ b =< a
  <2> HIDE DEF fin
  <2>1. Grown(j, old, e, fin)
    BY DEF fin
  <2> QED
    BY <2>1, GrownFacts
<1>2. at \in Nat
  BY DEF Subscriber, Cursor
<1>3. cl.id.epoch = old.epoch
  BY DEF Grown
<1>4. /\ at =< y
      /\ at = y => last \in {0, count}
      /\ at \in (b - 1)..(y - 1) => Follows(last, was[at - (b - 1) + 1].n)
  BY <1>3 DEF Link
<1> HIDE DEF new, was, len, at, last, x, y, a, b
<1>5. ASSUME at \in (a - 1)..(x - 1)
      PROVE  Follows(last, new[at - (a - 1) + 1].n)
  <2> DEFINE i == at - (a - 1) + 1
  <2>1. CASE at = y
    <3>1. i = len /\ len > 0
      BY <1>1, <1>2, <1>5, <2>1
    <3>2. new[i] = e
      BY <1>1, <3>1
    <3>3. last \in {0, count}
      BY <1>4, <2>1
    <3> QED
      BY <3>2, <3>3 DEF Follows, NextEvent
  <2>2. CASE at # y
    <3>1. at \in (b - 1)..(y - 1)
      BY <1>1, <1>2, <1>4, <1>5, <2>2
    <3>2. i \in 1..(len - 1) /\ i + (a - b) = at - (b - 1) + 1
      BY <1>1, <1>2, <1>5, <3>1
    <3>3. new[i] = was[at - (b - 1) + 1]
      BY <1>1, <3>2
    <3> QED
      BY <1>4, <3>1, <3>3
  <2> QED
    BY <2>1, <2>2
<1> QED
  BY <1>1, <1>2, <1>4, <1>5

LEMMA HistoriesGrow ==
  ASSUME \A r \in Runs : HistoryOK(r), NEW q, NEW e, Grows(q, e), row' = row, epochs \in Nat,
         q \in Runs => NextEvent(e, row[q], Len(full[q]), Len(full'[q])),
         \A r \in Runs \ {q} : full'[r] = full[r]
  PROVE  \A r \in Runs : HistoryOK(r)'
<1> SUFFICES ASSUME NEW r \in Runs, r \in Retained'
             PROVE  History(store'[r].journal, row[r], Len(full'[r]))
  BY DEF HistoryOK
<1>1. CASE r # q
  <2>1. r \in Retained /\ store'[r] = store[r] /\ full'[r] = full[r]
    BY <1>1 DEF Grows
  <2> QED
    BY <2>1 DEF HistoryOK
<1>2. CASE r = q
  <2>1. NextEvent(e, row[q], Len(full[q]), Len(full'[q]))
    BY <1>2
  <2>2. PICK old : /\ Grown(store'[q].journal, old, e, e.name \in Ending)
                   /\ History(old, row[q], Len(full[q]))
    <3>1. CASE q \in Retained /\ Grown(store'[q].journal, store[q].journal, e, e.name \in Ending)
      BY <1>2, <3>1 DEF HistoryOK
    <3>2. CASE Grown(store'[q].journal, NewJournal(epochs + 1), e, e.name \in Ending)
      <4>1. epochs + 1 \in Nat \ {0}
        OBVIOUS
      <4>2. History(NewJournal(epochs + 1), row[q], Len(full[q]))
        BY <4>1, NewHistory
      <4> QED
        BY <3>2, <4>2
    <3> QED
      BY <3>1, <3>2 DEF Grows
  <2>3. History(store'[q].journal, row[q], Len(full'[q]))
    BY <2>1, <2>2, HistoryGrows
  <2> QED
    BY <1>2, <2>3
<1> QED
  BY <1>1, <1>2

LEMMA LinksGrow ==
  ASSUME ClientTypes, NEW c \in Clients, Linked(client[c]), client[c].id = NoCursor \/ client[c].id.epoch \in 1..epochs,
         NEW q, NEW e, Grows(q, e), epochs \in Nat,
         client'[c].run = client[c].run, client'[c].id = client[c].id, client'[c].got = client[c].got,
         q \in Runs => NextEvent(e, row[q], Len(full[q]), Len(full'[q])),
         \A r \in Runs \ {q} : full'[r] = full[r]
  PROVE  Linked(client[c])'
<1> DEFINE r == client[c].run
<1> SUFFICES ASSUME r \in Runs, r \in Retained'
             PROVE  Link(client'[c], store'[r].journal, Len(full'[r]))
  BY DEF Linked
<1>1. ASSUME NEW j, NEW k, Link(client[c], j, k) PROVE Link(client'[c], j, k)
  BY <1>1 DEF Link
<1>2. CASE r # q
  <2>1. r \in Retained /\ store'[r] = store[r] /\ full'[r] = full[r]
    BY <1>2 DEF Grows
  <2>2. Link(client[c], store[r].journal, Len(full[r]))
    BY <2>1 DEF Linked
  <2> QED
    BY <1>1, <2>1, <2>2
<1>3. CASE r = q
  <2>1. NextEvent(e, row[q], Len(full[q]), Len(full'[q])) /\ client[c] \in Subscriber
    BY <1>3 DEF ClientTypes
  <2>2. PICK old : /\ Grown(store'[q].journal, old, e, e.name \in Ending)
                   /\ Link(client[c], old, Len(full[q]))
    <3>1. CASE q \in Retained /\ Grown(store'[q].journal, store[q].journal, e, e.name \in Ending)
      BY <1>3, <3>1 DEF Linked
    <3>2. CASE Grown(store'[q].journal, NewJournal(epochs + 1), e, e.name \in Ending)
      <4>1. NewJournal(epochs + 1).epoch = epochs + 1
        BY DEF NewJournal
      <4>2. client[c].id.epoch # epochs + 1
        BY DEF NoCursor
      <4>3. Link(client[c], NewJournal(epochs + 1), Len(full[q]))
        BY <4>1, <4>2 DEF Link
      <4> QED
        BY <3>2, <4>3
    <3> QED
      BY <3>1, <3>2 DEF Grows
  <2>3. Link(client[c], store'[q].journal, Len(full'[q]))
    BY <2>1, <2>2, LinkGrows
  <2> QED
    BY <1>1, <1>3, <2>3
<1> QED
  BY <1>2, <1>3

-----------------------------------------------------------------------------
(* What a step of a thread leaves alone.                                      *)

(* With an event.                                                            *)
LEMMA Sent ==
  ASSUME RunsInv, NEW r \in Runs, NEW name \in Names, SendEvent(r, name),
         UNCHANGED <<row, client>>,
         name \in Ending => row[r] \in Terminal /\ name = TerminalEvent(row[r])
  PROVE  /\ StoreTypes' /\ ClientTypes'
         /\ full' \in [Runs -> Seq(Names)]
         /\ full'[r] = Append(full[r], name)
         /\ \A q \in Runs \ {r} : full'[q] = full[q]
         /\ \A q \in Runs : HistoryOK(q)'
         /\ \A c \in Clients : ClientOK(c)'
<1> DEFINE n == Len(full[r]) + 1
           e == [name |-> name, n |-> n]
<1>1. full[r] \in Seq(Names) /\ n \in Nat /\ Len(full[r]) \in Nat
      /\ Append(full[r], name) \in Seq(Names) /\ Len(Append(full[r], name)) = n
  BY DEF RunsInv, ThreadTypes
<1>2. /\ full' = [full EXCEPT ![r] = Append(full[r], name)]
      /\ AppendRunEvent(r, name, n) /\ clock' = clock
  BY DEF SendEvent
<1>3. /\ full' \in [Runs -> Seq(Names)]
      /\ full'[r] = Append(full[r], name)
      /\ \A q \in Runs \ {r} : full'[q] = full[q]
  BY <1>1, <1>2 DEF RunsInv, ThreadTypes
<1>4. StoreTypes /\ clock \in Nat /\ clock' \in Nat /\ clock =< clock'
  BY <1>2 DEF RunsInv, StoreTypes
<1> HIDE DEF n
<1>5. Grows(r, e) /\ StoreTypes' /\ epochs =< epochs'
  BY <1>1, <1>2, <1>4, StoreGrows
<1>6. NextEvent(e, row[r], Len(full[r]), Len(full'[r]))
  BY <1>1, <1>3 DEF NextEvent, RunEvent, n
<1>7. epochs \in Nat /\ epochs' \in Nat
  BY <1>4, <1>5 DEF StoreTypes
<1> HIDE DEF e
<1>8. \A q \in Runs : HistoryOK(q)'
  BY <1>3, <1>5, <1>6, <1>7, HistoriesGrow DEF RunsInv
<1>9. ASSUME NEW c \in Clients PROVE ClientOK(c)'
  <2>1. ClientTypes /\ ClientOK(c) /\ client'[c] = client[c]
    BY DEF RunsInv
  <2>2. Linked(client[c])'
    BY <1>3, <1>5, <1>6, <1>7, <2>1, LinksGrow DEF ClientOK, ClientAt
  <2>3. client[c].id = NoCursor \/ client[c].id.epoch \in 1..epochs'
    BY <1>5, <1>7, <2>1 DEF ClientOK, ClientAt
  <2>4. row' = row
    OBVIOUS
  <2> QED
    BY <2>1, <2>2, <2>3, <2>4 DEF ClientOK, ClientAt
<1> QED
  BY <1>3, <1>5, <1>8, <1>9 DEF RunsInv, ClientTypes

(* Without an event, though the row may change.                               *)
LEMMA Unsent ==
  ASSUME RunsInv, NEW r \in Runs, Silent, UNCHANGED client,
         NEW status \in {"none", "started"} \cup Terminal, row' = [row EXCEPT ![r] = status],
         row[r] \in Terminal => status = row[r]
  PROVE  /\ StoreTypes' /\ ClientTypes'
         /\ \A q \in Runs : HistoryOK(q)'
         /\ \A c \in Clients : ClientOK(c)'
<1>1. /\ row'[r] = status
      /\ \A q \in Runs \ {r} : row'[q] = row[q]
  BY DEF RunsInv, ThreadTypes
<1>2. /\ full' = full /\ store' = store /\ epochs' = epochs /\ clock' = clock
      /\ Retained' = Retained
  BY DEF Silent, Retained
<1>3. ASSUME NEW q \in Runs PROVE HistoryOK(q)'
  <2>1. HistoryOK(q)
    BY DEF RunsInv
  <2>2. CASE row'[q] = row[q]
    BY <1>2, <2>1, <2>2 DEF HistoryOK
  <2>3. CASE row[q] \notin Terminal
    BY <1>2, <2>1, <2>3 DEF HistoryOK, History
  <2> QED
    BY <1>1, <2>2, <2>3
<1>4. ASSUME NEW c \in Clients PROVE ClientOK(c)'
  <2>1. ClientOK(c) /\ client'[c] = client[c]
    BY DEF RunsInv
  <2>2. ASSUME client[c].state \in {"asked", "restore"}, client[c].status \in Terminal
        PROVE  client[c].status = row'[client[c].run]
    BY <1>1, <2>1, <2>2 DEF ClientOK, ClientAt
  <2>3. Linked(client[c])'
    BY <1>2, <2>1 DEF ClientOK, ClientAt, Linked
  <2> QED
    BY <1>2, <2>1, <2>2, <2>3 DEF ClientOK, ClientAt
<1>5. StoreTypes'
  BY <1>2 DEF RunsInv, StoreTypes, Kept
<1> QED
  BY <1>3, <1>4, <1>5 DEF RunsInv, ClientTypes

Statuses == {"none", "started"} \cup Terminal

LEMMA EventStep ==
  ASSUME RunsInv, NEW r \in Runs, NEW name \in Names, SendEvent(r, name),
         UNCHANGED <<row, message, client>>,
         NEW t \in Thread, run' = [run EXCEPT ![r] = t],
         name \in Ending => row[r] \in Terminal /\ name = TerminalEvent(row[r]),
         ThreadAt(t, Append(full[r], name), row[r], message[r])
  PROVE  RunsInv'
<1>1. /\ StoreTypes' /\ ClientTypes'
      /\ full' \in [Runs -> Seq(Names)]
      /\ full'[r] = Append(full[r], name)
      /\ \A q \in Runs \ {r} : full'[q] = full[q]
      /\ \A q \in Runs : HistoryOK(q)'
      /\ \A c \in Clients : ClientOK(c)'
  BY Sent
<1>2. /\ run' \in [Runs -> Thread] /\ run'[r] = t
      /\ \A q \in Runs \ {r} : run'[q] = run[q]
  BY DEF RunsInv, ThreadTypes
<1>3. ThreadTypes'
  BY <1>1, <1>2 DEF RunsInv, ThreadTypes
<1>4. ASSUME NEW q \in Runs PROVE ThreadOK(q)'
  <2>1. CASE q = r
    BY <1>1, <1>2, <2>1 DEF ThreadOK
  <2>2. CASE q # r
    BY <1>1, <1>2, <2>2 DEF ThreadOK, RunsInv
  <2> QED
    BY <2>1, <2>2
<1> QED
  BY <1>1, <1>3, <1>4 DEF RunsInv

LEMMA QuietStep ==
  ASSUME RunsInv, NEW r \in Runs, Silent, UNCHANGED client,
         NEW status \in Statuses, row' = [row EXCEPT ![r] = status],
         row[r] \in Terminal => status = row[r],
         NEW answer \in Seq(Nat), message' = [message EXCEPT ![r] = answer],
         NEW t \in Thread, run' = [run EXCEPT ![r] = t],
         ThreadAt(t, full[r], status, answer)
  PROVE  RunsInv'
<1>1. /\ StoreTypes' /\ ClientTypes'
      /\ \A q \in Runs : HistoryOK(q)'
      /\ \A c \in Clients : ClientOK(c)'
  BY Unsent DEF Statuses
<1>2. /\ run' \in [Runs -> Thread] /\ run'[r] = t
      /\ \A q \in Runs \ {r} : run'[q] = run[q]
  BY DEF RunsInv, ThreadTypes
<1>3. /\ row' \in [Runs -> Statuses] /\ row'[r] = status
      /\ \A q \in Runs \ {r} : row'[q] = row[q]
  BY DEF RunsInv, ThreadTypes, Statuses
<1>4. /\ message' \in [Runs -> Seq(Nat)] /\ message'[r] = answer
      /\ \A q \in Runs \ {r} : message'[q] = message[q]
  BY DEF RunsInv, ThreadTypes
<1>5. full' = full
  BY DEF Silent
<1>6. ThreadTypes'
  BY <1>2, <1>3, <1>4, <1>5 DEF RunsInv, ThreadTypes, Statuses
<1>7. ASSUME NEW q \in Runs PROVE ThreadOK(q)'
  <2>1. CASE q = r
    BY <1>2, <1>3, <1>4, <1>5, <2>1 DEF ThreadOK
  <2>2. CASE q # r
    BY <1>2, <1>3, <1>4, <1>5, <2>2 DEF ThreadOK, RunsInv
  <2> QED
    BY <2>1, <2>2
<1> QED
  BY <1>1, <1>6, <1>7 DEF RunsInv

(* Where only the thread's own place changes.                                 *)
LEMMA PlaceStep ==
  ASSUME RunsInv, NEW r \in Runs, Silent, UNCHANGED <<row, message, client>>,
         NEW t \in Thread, run' = [run EXCEPT ![r] = t],
         ThreadAt(t, full[r], row[r], message[r])
  PROVE  RunsInv'
<1>1. /\ row[r] \in Statuses /\ row' = [row EXCEPT ![r] = row[r]]
      /\ message[r] \in Seq(Nat) /\ message' = [message EXCEPT ![r] = message[r]]
  BY DEF RunsInv, ThreadTypes, Statuses
<1> QED
  BY <1>1, QuietStep

(* A thread that is still writing sends an event that is no chunk.            *)
LEMMA WritingSends ==
  ASSUME NEW t0 \in Thread, NEW names \in Seq(Names), NEW status, NEW answer,
         ThreadAt(t0, names, status, answer), t0.pc \in Writing,
         NEW t, t.pc \in Writing, t.text = t0.text, NEW x \in Names \ (Ending \cup {"chunk"})
  PROVE  ThreadAt(t, Append(names, x), status, answer)
<1> DEFINE g == Append(names, x)
<1>1. /\ DOMAIN g = 1..(Len(names) + 1) /\ DOMAIN names = 1..Len(names) /\ Len(names) \in Nat
      /\ \A i \in 1..Len(names) : g[i] = names[i]
      /\ g[Len(names) + 1] = x
  OBVIOUS
<1>2. Collected(t.text, g)
  <2>1. Collected(t0.text, names) /\ t0.text \in Seq(Nat)
    BY DEF ThreadAt, Thread
  <2> QED
    BY <2>1, CollectedKept
<1> HIDE DEF g
<1>3. \A i \in DOMAIN g : g[i] \notin Ending
  BY <1>1 DEF ThreadAt, Writing
<1> QED
  BY <1>2, <1>3 DEF ThreadAt, Writing, g

LEMMA WritingPieces ==
  ASSUME NEW t0 \in Thread, NEW names \in Seq(Names), NEW status, NEW answer,
         ThreadAt(t0, names, status, answer), t0.pc \in Writing,
         NEW t, t.pc \in Writing, t.text = Append(t0.text, Len(names) + 1)
  PROVE  ThreadAt(t, Append(names, "chunk"), status, answer)
<1> DEFINE g == Append(names, "chunk")
<1>1. /\ DOMAIN g = 1..(Len(names) + 1) /\ DOMAIN names = 1..Len(names) /\ Len(names) \in Nat
      /\ \A i \in 1..Len(names) : g[i] = names[i]
      /\ g[Len(names) + 1] = "chunk"
  OBVIOUS
<1>2. Collected(t.text, g)
  <2>1. Collected(t0.text, names) /\ t0.text \in Seq(Nat)
    BY DEF ThreadAt, Thread
  <2> QED
    BY <2>1, CollectedGrows
<1> HIDE DEF g
<1>3. \A i \in DOMAIN g : g[i] \notin Ending
  BY <1>1 DEF ThreadAt, Writing, Ending
<1> QED
  BY <1>2, <1>3 DEF ThreadAt, Writing, g

-----------------------------------------------------------------------------
(* The steps of a thread.                                                     *)
LEMMA ThreadFacts ==
  ASSUME RunsInv, NEW r \in Runs
  PROVE  /\ run[r] \in Thread /\ run[r].text \in Seq(Nat)
         /\ full[r] \in Seq(Names) /\ Len(full[r]) \in Nat
         /\ message[r] \in Seq(Nat) /\ row[r] \in Statuses
         /\ ThreadAt(run[r], full[r], row[r], message[r])
BY DEF RunsInv, ThreadTypes, Thread, Statuses, ThreadOK

LEMMA TriesBound == MaxTries \in Nat /\ 0 \in 0..MaxTries /\ MaxTries \in 0..MaxTries
<1>1. MaxTries \in Nat
  BY RunBounds
<1> QED
  BY <1>1

LEMMA IdleFacts == Idle \in Thread /\ Idle.pc = "request" /\ Idle.text = <<>>
<1>1. <<>> \in Seq(Nat)
  OBVIOUS
<1> QED
  BY <1>1, TriesBound DEF Idle, Thread

LEMMA OverFacts ==
  ASSUME NEW lost \in BOOLEAN
  PROVE  Over(lost) \in Thread /\ Over(lost).pc = "over"
BY IdleFacts DEF Over, Thread

LEMMA ThrowsInv ==
  ASSUME RunsInv, NEW r \in Runs, NEW from \in Writing \cup {"complete"}, Throws(r, from)
  PROVE  RunsInv'
<1> DEFINE t == [run[r] EXCEPT !.pc = "unwind"]
<1>1. t \in Thread /\ run' = [run EXCEPT ![r] = t] /\ run[r].pc = from
  BY ThreadFacts DEF Throws, Step, Thread
<1>2. ThreadAt(t, full[r], row[r], message[r])
  BY <1>1, ThreadFacts DEF ThreadAt, Writing, Thread
<1>3. Silent /\ UNCHANGED <<row, message, client>>
  BY DEF Throws, Elsewhere
<1> HIDE DEF t
<1> QED
  BY <1>1, <1>2, <1>3, PlaceStep

LEMMA RefuseInv == ASSUME RunsInv, NEW r \in Runs, Refuse(r) PROVE RunsInv'
<1> DEFINE t == Over(FALSE)
<1>1. t \in Thread /\ run' = [run EXCEPT ![r] = t] /\ t.pc = "over"
  BY OverFacts DEF Refuse
<1>2. ThreadAt(t, full[r], row[r], message[r])
  BY <1>1, ThreadFacts DEF ThreadAt, Writing
<1>3. Silent /\ UNCHANGED <<row, message, client>>
  BY DEF Refuse, Elsewhere
<1> HIDE DEF t
<1> QED
  BY <1>1, <1>2, <1>3, PlaceStep

LEMMA CreateInv ==
  ASSUME RunsInv, NEW r \in Runs, NEW path \in {"local", "cloud"}, Create(r, path)
  PROVE  RunsInv'
<1> DEFINE t == [run[r] EXCEPT !.pc = "begin", !.path = path, !.tries = MaxTries]
<1>1. t \in Thread /\ run' = [run EXCEPT ![r] = t] /\ t.pc = "begin" /\ t.text = run[r].text
  BY TriesBound, ThreadFacts DEF Create, Thread, Writing
<1>2. run[r].pc = "request" /\ row[r] = "none"
  BY ThreadFacts DEF Create, ThreadAt
<1>3. ThreadAt(t, full[r], "started", message[r])
  <2> HIDE DEF t
  <2>1. full[r] = <<>> /\ message[r] = NoMessage /\ Collected(run[r].text, full[r])
    BY <1>2, ThreadFacts DEF ThreadAt
  <2>2. DOMAIN full[r] = {}
    BY <2>1
  <2> QED
    BY <1>1, <2>1, <2>2 DEF ThreadAt, Writing
<1>4. Silent /\ client' = client /\ row' = [row EXCEPT ![r] = "started"]
      /\ message' = [message EXCEPT ![r] = message[r]]
  BY ThreadFacts DEF Create, Elsewhere, RunsInv, ThreadTypes
<1>5. "started" \in Statuses /\ row[r] \notin Terminal /\ message[r] \in Seq(Nat)
  BY <1>2, ThreadFacts DEF Statuses, Terminal
<1> HIDE DEF t
<1> QED
  BY <1>1, <1>3, <1>4, <1>5, QuietStep

(* A writing thread goes on with an event that is no chunk.                   *)
LEMMA WritesOn ==
  ASSUME RunsInv, NEW r \in Runs, run[r].pc \in Writing,
         NEW t \in Thread, run' = [run EXCEPT ![r] = t], t.pc \in Writing, t.text = run[r].text,
         NEW x \in Names \ (Ending \cup {"chunk"}), SendEvent(r, x),
         UNCHANGED <<row, message, client>>
  PROVE  RunsInv'
<1>1. ThreadAt(t, Append(full[r], x), row[r], message[r])
  BY ThreadFacts, WritingSends
<1>2. x \in Names /\ x \notin Ending
  OBVIOUS
<1> QED
  BY <1>1, <1>2, EventStep

LEMMA BeginInv == ASSUME RunsInv, NEW r \in Runs, Begin(r) PROVE RunsInv'
<1> DEFINE t == [run[r] EXCEPT !.pc = "user"]
<1>1. /\ t \in Thread /\ run' = [run EXCEPT ![r] = t] /\ run[r].pc = "begin"
      /\ t.pc = "user" /\ t.text = run[r].text
  BY ThreadFacts DEF Begin, Step, Thread, Writing
<1>2. /\ SendEvent(r, "run_started") /\ UNCHANGED <<row, message, client>>
      /\ "run_started" \in Names \ (Ending \cup {"chunk"})
      /\ {"begin", "user"} \subseteq Writing
  BY DEF Begin, Elsewhere, Names, Ending, Writing
<1> HIDE DEF t
<1> QED
  BY <1>1, <1>2, WritesOn

LEMMA RouteInv == ASSUME RunsInv, NEW r \in Runs, Route(r) PROVE RunsInv'
<1>1. CASE /\ Step(r, "user", "try")
           /\ SendEvent(r, IF Cloud(r) THEN "progress" ELSE "router")
           /\ Elsewhere /\ UNCHANGED <<row, message, faults>>
  <2> DEFINE t == [run[r] EXCEPT !.pc = "try"]
             x == IF Cloud(r) THEN "progress" ELSE "router"
  <2>1. /\ t \in Thread /\ run' = [run EXCEPT ![r] = t] /\ run[r].pc = "user"
        /\ t.pc = "try" /\ t.text = run[r].text
    BY <1>1, ThreadFacts DEF Step, Thread, Writing
  <2>2. /\ SendEvent(r, x) /\ UNCHANGED <<row, message, client>>
        /\ {"user", "try"} \subseteq Writing
    BY <1>1 DEF Elsewhere, Writing
  <2>3. x \in Names \ (Ending \cup {"chunk"})
    BY DEF Names, Ending
  <2> HIDE DEF t, x
  <2> QED
    BY <2>1, <2>2, <2>3, WritesOn
<1>2. CASE Throws(r, "user")
  BY <1>2, ThrowsInv DEF Writing
<1> QED
  BY <1>1, <1>2 DEF Route

LEMMA TryInv == ASSUME RunsInv, NEW r \in Runs, Try(r) PROVE RunsInv'
<1>1. CASE /\ run[r].pc = "try" /\ run[r].tries > 0
           /\ run' = [run EXCEPT ![r].pc = "call", ![r].tries = @ - 1, ![r].got = FALSE]
           /\ SendEvent(r, "progress")
           /\ Elsewhere /\ UNCHANGED <<row, message, faults>>
  <2> DEFINE t == [run[r] EXCEPT !.pc = "call", !.tries = @ - 1, !.got = FALSE]
  <2>1. run[r].tries - 1 \in 0..MaxTries
    BY <1>1, RunBounds, ThreadFacts DEF Thread
  <2>2. /\ t \in Thread /\ run' = [run EXCEPT ![r] = t]
        /\ t.pc = "call" /\ t.text = run[r].text
    BY <1>1, <2>1, ThreadFacts DEF Thread, Writing
  <2>3. /\ SendEvent(r, "progress") /\ UNCHANGED <<row, message, client>>
        /\ {"try", "call"} \subseteq Writing
        /\ "progress" \in Names \ (Ending \cup {"chunk"})
    BY <1>1 DEF Elsewhere, Writing, Names, Ending
  <2> HIDE DEF t
  <2> QED
    BY <1>1, <2>2, <2>3, WritesOn
<1>2. CASE Throws(r, "try")
  BY <1>2, ThrowsInv DEF Writing
<1> QED
  BY <1>1, <1>2 DEF Try

LEMMA PassOverInv == ASSUME RunsInv, NEW r \in Runs, PassOver(r) PROVE RunsInv'
<1> DEFINE t == [run[r] EXCEPT !.tries = @ - 1]
<1>1. run[r].tries - 1 \in 0..MaxTries
  BY RunBounds, ThreadFacts DEF Thread, PassOver
<1>2. /\ t \in Thread /\ run' = [run EXCEPT ![r] = t]
      /\ t.pc = "try" /\ run[r].pc = "try" /\ t.text = run[r].text
  BY <1>1, ThreadFacts DEF PassOver, Thread, Writing
<1>3. Silent /\ UNCHANGED <<row, message, client>>
  BY DEF PassOver, Elsewhere
<1> HIDE DEF t
<1>4. ThreadAt(t, full[r], row[r], message[r])
  BY <1>2, ThreadFacts DEF ThreadAt
<1> QED
  BY <1>2, <1>3, <1>4, PlaceStep

(* One more piece of the answer.                                              *)
LEMMA Pieces ==
  ASSUME RunsInv, NEW r \in Runs, run[r].pc \in Writing,
         NEW t \in Thread, run' = [run EXCEPT ![r] = t], t.pc \in Writing,
         t.text = Append(run[r].text, Len(full[r]) + 1), SendEvent(r, "chunk"),
         UNCHANGED <<row, message, client>>
  PROVE  RunsInv'
<1>1. ThreadAt(t, Append(full[r], "chunk"), row[r], message[r])
  BY ThreadFacts, WritingPieces
<1>2. "chunk" \in Names /\ "chunk" \notin Ending
  BY DEF Names, Ending
<1> QED
  BY <1>1, <1>2, EventStep

LEMMA ChunkInv == ASSUME RunsInv, NEW r \in Runs, Chunk(r) PROVE RunsInv'
<1> DEFINE t == [run[r] EXCEPT !.got = TRUE, !.text = Append(@, Len(full[r]) + 1)]
<1>1. Append(run[r].text, Len(full[r]) + 1) \in Seq(Nat)
  BY ThreadFacts
<1>2. /\ t \in Thread /\ run' = [run EXCEPT ![r] = t]
      /\ t.pc = "call" /\ run[r].pc = "call"
      /\ t.text = Append(run[r].text, Len(full[r]) + 1)
  BY <1>1, ThreadFacts DEF Chunk, Thread
<1>3. /\ SendEvent(r, "chunk") /\ UNCHANGED <<row, message, client>> /\ "call" \in Writing
  BY DEF Chunk, Elsewhere, Writing
<1> HIDE DEF t
<1> QED
  BY <1>2, <1>3, Pieces

LEMMA CloudReturnsInv == ASSUME RunsInv, NEW r \in Runs, CloudReturns(r) PROVE RunsInv'
<1>1. CASE /\ run[r].pc = "call"
           /\ run' = [run EXCEPT ![r].pc = "answer", ![r].text = Append(@, Len(full[r]) + 1)]
           /\ SendEvent(r, "chunk")
           /\ Elsewhere /\ UNCHANGED <<row, message, faults>>
  <2> DEFINE t == [run[r] EXCEPT !.pc = "answer", !.text = Append(@, Len(full[r]) + 1)]
  <2>1. Append(run[r].text, Len(full[r]) + 1) \in Seq(Nat)
    BY ThreadFacts
  <2>2. /\ t \in Thread /\ run' = [run EXCEPT ![r] = t]
        /\ t.pc = "answer" /\ t.text = Append(run[r].text, Len(full[r]) + 1)
    BY <1>1, <2>1, ThreadFacts DEF Thread, Writing
  <2>3. /\ SendEvent(r, "chunk") /\ UNCHANGED <<row, message, client>>
        /\ {"call", "answer"} \subseteq Writing
    BY <1>1 DEF Elsewhere, Writing
  <2> HIDE DEF t
  <2> QED
    BY <1>1, <2>2, <2>3, Pieces
<1>2. CASE Throws(r, "call")
  BY <1>2, ThrowsInv DEF Writing
<1> QED
  BY <1>1, <1>2 DEF CloudReturns

LEMMA CallFailsInv == ASSUME RunsInv, NEW r \in Runs, CallFails(r) PROVE RunsInv'
<1> DEFINE t == [run[r] EXCEPT !.pc = "try"]
<1>1. /\ t \in Thread /\ run' = [run EXCEPT ![r] = t] /\ run[r].pc = "call"
      /\ t.pc = "try" /\ t.text = run[r].text
  BY ThreadFacts DEF CallFails, Step, Thread, Writing
<1>2. /\ SendEvent(r, "fallback") /\ UNCHANGED <<row, message, client>>
      /\ "fallback" \in Names \ (Ending \cup {"chunk"})
      /\ {"call", "try"} \subseteq Writing
  BY DEF CallFails, Elsewhere, Names, Ending, Writing
<1> HIDE DEF t
<1> QED
  BY <1>1, <1>2, WritesOn

(* The answer is what has been streamed up to here.                           *)
LEMMA AnswerInv == ASSUME RunsInv, NEW r \in Runs, Answer(r) PROVE RunsInv'
<1> DEFINE at == IF Cloud(r) THEN "answer" ELSE "call"
<1>1. at \in {"answer", "call"} /\ at \in Writing
  BY DEF Writing
<1> HIDE DEF at
<1>2. CASE /\ Step(r, at, "complete")
           /\ message' = [message EXCEPT ![r] = run[r].text]
           /\ Silent /\ Elsewhere /\ UNCHANGED <<row, faults>>
  <2> DEFINE t == [run[r] EXCEPT !.pc = "complete"]
             answer == run[r].text
  <2>1. /\ t \in Thread /\ run' = [run EXCEPT ![r] = t] /\ t.pc = "complete" /\ run[r].pc = at
    BY <1>2, ThreadFacts DEF Step, Thread
  <2>2. answer \in Seq(Nat) /\ message' = [message EXCEPT ![r] = answer]
    BY <1>2, ThreadFacts
  <2>3. Silent /\ UNCHANGED client /\ row[r] \in Statuses /\ row' = [row EXCEPT ![r] = row[r]]
    BY <1>2, ThreadFacts DEF Elsewhere, RunsInv, ThreadTypes
  <2>4. Collected(answer, full[r])
    BY <1>1, <2>1, ThreadFacts DEF ThreadAt
  <2> HIDE DEF t, answer
  <2>5. ThreadAt(t, full[r], row[r], answer)
    BY <1>1, <2>1, <2>4, ThreadFacts DEF ThreadAt, Writing
  <2> QED
    BY <2>1, <2>2, <2>3, <2>5, QuietStep
<1>3. CASE Throws(r, at)
  BY <1>1, <1>3, ThrowsInv
<1> QED
  BY <1>2, <1>3 DEF Answer, at

(* The row gets its final status; nothing else of the run changes.            *)
LEMMA Settles ==
  ASSUME RunsInv, NEW r \in Runs, run[r].pc \in Writing \cup {"complete", "unwind"},
         NEW to, NEW status,
         (to = "done" /\ status = "completed") \/ (to = "failed" /\ status = "failed"),
         run' = [run EXCEPT ![r].pc = to], row' = [row EXCEPT ![r] = status],
         Silent, UNCHANGED <<message, client>>
  PROVE  RunsInv'
<1> DEFINE t == [run[r] EXCEPT !.pc = to]
<1>1. t \in Thread /\ run' = [run EXCEPT ![r] = t] /\ t.pc = to
  BY ThreadFacts DEF Thread
<1>2. /\ status \in Statuses /\ row[r] = "started" /\ row[r] \notin Terminal
      /\ message[r] \in Seq(Nat) /\ message' = [message EXCEPT ![r] = message[r]]
  BY ThreadFacts DEF Statuses, Terminal, ThreadAt, RunsInv, ThreadTypes
<1>3. ThreadAt(t, full[r], status, message[r])
  BY <1>1, <1>2, ThreadFacts DEF ThreadAt, Writing
<1> HIDE DEF t
<1> QED
  BY <1>1, <1>2, <1>3, QuietStep

LEMMA CompleteInv == ASSUME RunsInv, NEW r \in Runs, Complete(r) PROVE RunsInv'
<1>1. CASE /\ Step(r, "complete", "done")
           /\ row' = [row EXCEPT ![r] = "completed"]
           /\ Silent /\ Elsewhere /\ UNCHANGED <<message, faults>>
  BY <1>1, Settles DEF Step, Elsewhere
<1>2. CASE Throws(r, "complete")
  BY <1>2, ThrowsInv
<1> QED
  BY <1>1, <1>2 DEF Complete

LEMMA FailInv == ASSUME RunsInv, NEW r \in Runs, Fail(r) PROVE RunsInv'
<1>1. CASE /\ Step(r, "try", "failed")
           /\ row' = [row EXCEPT ![r] = "failed"]
           /\ Silent /\ Elsewhere /\ UNCHANGED <<message, faults>>
  BY <1>1, Settles DEF Step, Elsewhere, Writing
<1>2. CASE Throws(r, "try")
  BY <1>2, ThrowsInv DEF Writing
<1> QED
  BY <1>1, <1>2 DEF Fail

LEMMA UnwindInv == ASSUME RunsInv, NEW r \in Runs, Unwind(r) PROVE RunsInv'
<1>1. CASE Step(r, "unwind", "failed") /\ row' = [row EXCEPT ![r] = "failed"]
  BY <1>1, Settles DEF Step, Elsewhere, Unwind
<1>2. CASE run[r].pc = "unwind" /\ run' = [run EXCEPT ![r] = Over(TRUE)] /\ UNCHANGED row
  <2> DEFINE t == Over(TRUE)
  <2>1. t \in Thread /\ t.pc = "over" /\ run' = [run EXCEPT ![r] = t]
    BY <1>2, OverFacts
  <2> HIDE DEF t
  <2>2. ThreadAt(t, full[r], row[r], message[r])
    BY <2>1, ThreadFacts DEF ThreadAt, Writing
  <2>3. Silent /\ UNCHANGED <<row, message, client>>
    BY <1>2 DEF Unwind, Elsewhere
  <2> QED
    BY <2>1, <2>2, <2>3, PlaceStep
<1> QED
  BY <1>1, <1>2 DEF Unwind

(* The terminal event, after the row.                                         *)
LEMMA EndsWith ==
  ASSUME RunsInv, NEW r \in Runs, NEW x, run[r].pc = x, x \in Ending,
         run' = [run EXCEPT ![r] = Over(FALSE)], SendEvent(r, x),
         UNCHANGED <<row, message, client>>
  PROVE  RunsInv'
<1> DEFINE t == Over(FALSE)
           g == Append(full[r], x)
<1>1. t \in Thread /\ t.pc = "over" /\ run' = [run EXCEPT ![r] = t]
  BY OverFacts
<1>2. x \in Names /\ x # "chunk" /\ x \in {"done", "failed"}
  BY DEF Names, Ending
<1>3. row[r] \in Terminal /\ x = TerminalEvent(row[r])
  BY <1>2, ThreadFacts DEF ThreadAt, Terminal, TerminalEvent
<1>4. /\ DOMAIN g = 1..(Len(full[r]) + 1) /\ DOMAIN full[r] = 1..Len(full[r])
      /\ Len(g) = Len(full[r]) + 1 /\ Len(full[r]) \in Nat
      /\ \A i \in 1..Len(full[r]) : g[i] = full[r][i]
      /\ g[Len(full[r]) + 1] = x
  BY <1>2, ThreadFacts
<1>5. message[r] # NoMessage => Collected(message[r], g)
  BY <1>2, ThreadFacts, CollectedKept DEF ThreadAt
<1> HIDE DEF t, g
<1>6. \A i \in DOMAIN full[r] : full[r][i] \notin Ending
  BY <1>2, ThreadFacts DEF ThreadAt
<1>7. ThreadAt(t, g, row[r], message[r])
  BY <1>1, <1>3, <1>4, <1>5, <1>6 DEF ThreadAt, Writing
<1> QED
  BY <1>1, <1>2, <1>3, <1>7, EventStep DEF g

LEMMA DoneInv == ASSUME RunsInv, NEW r \in Runs, Done(r) PROVE RunsInv'
BY EndsWith DEF Done, Elsewhere, Ending

LEMMA FailedInv == ASSUME RunsInv, NEW r \in Runs, Failed(r) PROVE RunsInv'
BY EndsWith DEF Failed, Elsewhere, Ending

LEMMA RunStepInv == ASSUME RunsInv, NEW r \in Runs, RunStep(r) PROVE RunsInv'
BY CreateInv, RefuseInv, BeginInv, RouteInv, TryInv, PassOverInv, ChunkInv, CloudReturnsInv,
   CallFailsInv, AnswerInv, CompleteInv, FailInv, UnwindInv, DoneInv, FailedInv DEF RunStep

-----------------------------------------------------------------------------
(* Subscriptions.                                                             *)

(* How far a client is after the first k events of a batch.                   *)
IdAfter(cl, batch, k) ==
  IF k = 0 THEN cl.id
  ELSE [batch.cursor EXCEPT !.sequence = @ - (Len(batch.events) - k)]
GotAfter(cl, batch, k) == cl.got \o Places(SubSeq(batch.events, 1, k))

LEMMA PrefixPlaces ==
  ASSUME NEW s \in Seq(RunEvent), NEW k \in 0..Len(s)
  PROVE  /\ Places(SubSeq(s, 1, k)) \in Seq(Nat) /\ Len(Places(SubSeq(s, 1, k))) = k
         /\ \A i \in 1..k : Places(SubSeq(s, 1, k))[i] = s[i].n
<1> DEFINE t == SubSeq(s, 1, k)
<1>1. t \in Seq(RunEvent) /\ Len(t) = k /\ DOMAIN t = 1..k /\ k \in Nat
      /\ \A i \in 1..k : t[i] = s[i] /\ s[i] \in RunEvent
  OBVIOUS
<1> HIDE DEF t
<1>2. Places(t) = [i \in 1..k |-> t[i].n]
  BY <1>1 DEF Places
<1>3. \A i \in 1..k : t[i].n \in Nat
  BY <1>1 DEF RunEvent
<1>4. Places(t) \in Seq(Nat) /\ Len(Places(t)) = k
  BY <1>1, <1>2, <1>3
<1>5. \A i \in 1..k : Places(t)[i] = s[i].n
  BY <1>1, <1>2
<1> QED
  BY <1>4, <1>5 DEF t

(* What one poll delivers, or the part of it that arrives, follows what the    *)
(* client has.                                                                *)
LEMMA ReadsOn ==
  ASSUME NEW cl \in Subscriber, NEW j \in JournalOf(RunEvent), Aligned(j), j.sequence >= 1,
         NEW status, NEW count \in Nat, History(j, status, count), Link(cl, j, count),
         cl.id = NoCursor <=> cl.got = <<>>,
         \A i \in 1..(Len(cl.got) - 1) : Follows(cl.got[i], cl.got[i + 1]),
         NEW batch, batch = Read(j, cl.id), ~batch.resync, ~(cl.id = NoCursor /\ batch.truncated),
         NEW k \in 0..Len(batch.events), NEW id, NEW got,
         id = IdAfter(cl, batch, k), got = GotAfter(cl, batch, k)
  PROVE  /\ id \in Cursor /\ got \in Seq(Nat)
         /\ id = NoCursor <=> got = <<>>
         /\ id = cl.id \/ id.epoch = j.epoch
         /\ \A i \in 1..(Len(got) - 1) : Follows(got[i], got[i + 1])
         /\ \A dl : dl.id = id /\ dl.got = got => Link(dl, j, count)
         /\ batch.events = <<>> => batch.cursor = cl.id
<1> DEFINE top == j.sequence
           low == j.oldest - 1
           from == IF cl.id = NoCursor THEN low ELSE cl.id.sequence
           s == j.events
           ev == batch.events
           had == Len(cl.got)
<1>1. /\ top \in Nat \ {0} /\ low \in Nat /\ s \in Seq(RunEvent) /\ Len(s) = top - low
      /\ Len(s) \in Nat /\ j.epoch \in Nat \ {0}
  BY DEF JournalOf, Aligned
<1>2. /\ cl.id \in Cursor /\ cl.got \in Seq(Nat) /\ had \in Nat
  BY DEF Subscriber
<1>3. /\ batch.cursor = TailOf(j) /\ TailOf(j) \in Cursor
      /\ from \in low..top /\ ev \in Seq(RunEvent) /\ Len(ev) = top - from
      /\ \A i \in 1..(top - from) : ev[i] = s[i + (from - low)]
  BY <1>2, SMTT(30), ReadFacts
<1>4. /\ cl.id = NoCursor => low = 0 /\ from = 0
      /\ cl.id # NoCursor => cl.id.epoch = j.epoch /\ cl.id.sequence = from
      /\ cl.id = NoCursor <=> had = 0
  <2>1. batch.truncated <=> j.oldest > 1
    BY DEF Read
  <2>2. cl.id = NoCursor => low = 0 /\ from = 0
    <3>1. j.oldest \in Nat \ {0}
      BY DEF JournalOf
    <3> QED
      BY <2>1, <3>1
  <2>3. cl.id # NoCursor => ~Unreadable(j, cl.id)
    BY DEF Read
  <2>4. cl.got = <<>> <=> had = 0
    BY <1>2
  <2> QED
    BY <2>2, <2>3, <2>4 DEF Unreadable
<1>5. /\ TailOf(j).epoch = j.epoch /\ TailOf(j).sequence = top
      /\ TailOf(j) = [epoch |-> j.epoch, sequence |-> top]
  BY DEF TailOf
<1>6. /\ \A i \in 1..(Len(s) - 1) : Follows(s[i].n, s[i + 1].n)
      /\ Len(s) > 0 => s[Len(s)].n \in {0, count}
  BY DEF History
<1>7. cl.id # NoCursor /\ from < top => Follows(cl.got[had], s[from - low + 1].n)
  <2> SUFFICES ASSUME cl.id # NoCursor, from < top PROVE Follows(cl.got[had], s[from - low + 1].n)
    OBVIOUS
  <2>1. from \in low..(top - 1)
    BY <1>1, <1>3
  <2> QED
    BY <1>4, <2>1 DEF Link
<1>8. PICK p : /\ p = Places(SubSeq(ev, 1, k)) /\ p \in Seq(Nat) /\ Len(p) = k
               /\ \A i \in 1..k : p[i] = ev[i].n
  BY <1>3, PrefixPlaces
<1>9. got = cl.got \o p
  BY <1>8 DEF GotAfter
<1>10. /\ got \in Seq(Nat) /\ Len(got) = had + k /\ k \in Nat
       /\ \A i \in 1..had : got[i] = cl.got[i]
       /\ \A i \in 1..k : got[had + i] = p[i]
  <2>1. k \in Nat
    BY <1>3
  <2> DEFINE c == cl.got
  <2>2. c \in Seq(Nat) /\ p \in Seq(Nat) /\ got = c \o p
    BY <1>2, <1>8, <1>9
  <2> HIDE DEF c
  <2>3. /\ got \in Seq(Nat) /\ Len(got) = Len(c) + Len(p)
        /\ \A i \in 1..Len(c) : got[i] = c[i]
        /\ \A i \in 1..Len(p) : got[Len(c) + i] = p[i]
    BY <2>2, ConcatFacts
  <2> QED
    BY <1>8, <2>1, <2>3 DEF c
<1>11. k =< top - from
  BY <1>1, <1>3
<1> HIDE DEF top, low, from, s, ev, had
<1>12. /\ k = 0 => id = cl.id
       /\ k > 0 => id = [epoch |-> j.epoch, sequence |-> from + k]
  <2>1. k = 0 => id = cl.id
    BY DEF IdAfter
  <2>2. ASSUME k > 0 PROVE id = [epoch |-> j.epoch, sequence |-> from + k]
    <3>1. id = [epoch |-> j.epoch, sequence |-> top - (Len(ev) - k)]
      BY <1>3, <1>5, <2>2 DEF IdAfter, ev, top
    <3>2. top - (Len(ev) - k) = from + k
      BY <1>1, <1>3, <1>10
    <3> QED
      BY <3>1, <3>2
  <2> QED
    BY <2>1, <2>2
<1>13. ASSUME NEW i \in 1..k PROVE got[had + i] = s[i + (from - low)].n
  <2>1. i \in 1..(top - from)
    BY <1>1, <1>3, <1>10, <1>11
  <2> QED
    BY <1>3, <1>8, <1>10, <2>1
<1>14. id \in Cursor /\ (id = cl.id \/ id.epoch = j.epoch)
  <2>1. CASE k = 0
    BY <1>2, <1>12, <2>1
  <2>2. CASE k > 0
    <3>1. from + k \in Nat
      BY <1>1, <1>3, <1>10
    <3> QED
      BY <1>1, <1>12, <2>2, <3>1 DEF Cursor
  <2> QED
    BY <1>10, <2>1, <2>2
<1>15. id = NoCursor <=> got = <<>>
  <2>1. CASE k = 0
    <3>1. Len(got) = had
      BY <1>2, <1>10, <2>1
    <3> QED
      BY <1>4, <1>10, <1>12, <2>1, <3>1
  <2>2. CASE k > 0
    <3>1. id # NoCursor
      BY <1>1, <1>12, <2>2 DEF NoCursor
    <3>2. Len(got) > 0
      BY <1>2, <1>10, <2>2
    <3> QED
      BY <1>10, <3>1, <3>2
  <2> QED
    BY <1>10, <2>1, <2>2
<1>16. ASSUME NEW i \in 1..(Len(got) - 1) PROVE Follows(got[i], got[i + 1])
  <2>1. i \in Nat /\ i >= 1 /\ i + 1 =< had + k
    BY <1>2, <1>10
  <2>2. CASE i + 1 =< had
    <3>1. i \in 1..(had - 1) /\ i \in 1..had /\ i + 1 \in 1..had
      BY <1>2, <2>1, <2>2
    <3>2. Follows(cl.got[i], cl.got[i + 1])
      BY <3>1 DEF had
    <3> QED
      BY <1>10, <3>1, <3>2
  <2>3. CASE i = had
    <3>1. k >= 1 /\ had >= 1 /\ 1 \in 1..k /\ had \in 1..had
      BY <1>2, <1>10, <2>1, <2>3
    <3>2. cl.id # NoCursor
      BY <1>4, <3>1
    <3>3. from < top
      BY <1>1, <1>3, <1>10, <1>11, <3>1
    <3>4. got[i] = cl.got[had] /\ got[i + 1] = s[1 + (from - low)].n
      <4>1. got[had] = cl.got[had]
        BY <1>10, <3>1
      <4>2. got[had + 1] = s[1 + (from - low)].n
        BY <1>13, <3>1
      <4> QED
        BY <2>3, <4>1, <4>2
    <3>5. 1 + (from - low) = from - low + 1
      BY <1>1, <1>3
    <3> QED
      BY <1>7, <3>2, <3>3, <3>4, <3>5
  <2>4. CASE i > had
    <3> DEFINE m == (i - had) + (from - low)
    <3>1. /\ i - had \in 1..k /\ i + 1 - had \in 1..k
          /\ had + (i - had) = i /\ had + (i + 1 - had) = i + 1
          /\ (i + 1 - had) + (from - low) = m + 1 /\ m \in 1..(Len(s) - 1)
      BY <1>1, <1>2, <1>3, <1>10, <1>11, <2>1, <2>4
    <3>2. got[i] = s[m].n /\ got[i + 1] = s[m + 1].n
      BY <1>13, <3>1
    <3> QED
      BY <1>6, <3>1, <3>2
  <2> QED
    BY <1>2, <2>1, <2>2, <2>3, <2>4
<1>17. ASSUME NEW dl, dl.id = id, dl.got = got PROVE Link(dl, j, count)
  <2>1. CASE k = 0
    <3>1. Len(got) = had
      BY <1>2, <1>10, <2>1
    <3>2. had > 0 => got[had] = cl.got[had]
      BY <1>2, <1>10
    <3>3. had = 0 => dl.id.epoch # j.epoch
      BY <1>1, <1>4, <1>12, <1>17, <2>1 DEF NoCursor
    <3>4. CASE had = 0
      BY <3>3, <3>4 DEF Link
    <3>5. CASE had > 0
      BY <1>12, <1>17, <2>1, <3>1, <3>2, <3>5 DEF Link, had
    <3> QED
      BY <1>2, <3>4, <3>5
  <2>2. CASE k > 0
    <3> DEFINE at == from + k
               m == k + (from - low)
    <3>1. dl.id.sequence = at /\ at \in Nat /\ at =< top
      BY <1>1, <1>3, <1>10, <1>11, <1>12, <1>17, <2>2
    <3>2. got[Len(got)] = s[m].n
      <4>1. k \in 1..k
        BY <1>10, <2>2
      <4> QED
        BY <1>10, <1>13, <4>1
    <3>3. at = top => got[Len(got)] \in {0, count}
      <4>1. at = top => m = Len(s) /\ Len(s) > 0
        BY <1>1, <1>3, <1>10, <2>2
      <4> QED
        BY <1>6, <3>2, <4>1
    <3>4. at \in low..(top - 1) => Follows(got[Len(got)], s[at - low + 1].n)
      <4>1. at \in low..(top - 1) => m \in 1..(Len(s) - 1) /\ at - low + 1 = m + 1
        BY <1>1, <1>3, <1>10, <2>2
      <4> QED
        BY <1>6, <3>2, <4>1
    <3> HIDE DEF at, m
    <3> QED
      BY <1>17, <3>1, <3>3, <3>4 DEF Link, top, low, s
  <2> QED
    BY <1>10, <2>1, <2>2
<1>18. ASSUME ev = <<>> PROVE batch.cursor = cl.id
  <2>1. from = top
    BY <1>1, <1>3, <1>18
  <2>2. cl.id # NoCursor
    BY <1>1, <1>4, <2>1
  <2> QED
    BY <1>2, <1>3, <1>4, <1>5, <2>1, <2>2 DEF Cursor
<1> QED
  BY <1>10, <1>14, <1>15, <1>16, <1>17, <1>18 DEF ev

(* A step of a client that touches nothing else.                              *)
LEMMA ClientMoves ==
  ASSUME RunsInv, NEW c \in Clients, NEW cl \in Subscriber, client' = [client EXCEPT ![c] = cl],
         Apart, UNCHANGED <<store, epochs>>, ClientAt(cl)
  PROVE  RunsInv'
<1>1. /\ client' \in [Clients -> Subscriber] /\ client'[c] = cl
      /\ \A d \in Clients \ {c} : client'[d] = client[d]
  BY DEF RunsInv, ClientTypes
<1>2. /\ row' = row /\ message' = message /\ run' = run /\ full' = full /\ clock' = clock
      /\ store' = store /\ epochs' = epochs /\ Retained' = Retained
  BY DEF Apart, Retained
<1>3. ThreadTypes' /\ StoreTypes' /\ ClientTypes'
  BY <1>1, <1>2 DEF RunsInv, ThreadTypes, StoreTypes, ClientTypes, Kept
<1>4. \A r \in Runs : ThreadOK(r)' /\ HistoryOK(r)'
  BY <1>2 DEF RunsInv, ThreadOK, HistoryOK
<1>5. ASSUME NEW dl, ClientAt(dl) PROVE ClientAt(dl)'
  BY <1>2, <1>5 DEF ClientAt, Linked
<1>6. ASSUME NEW d \in Clients PROVE ClientOK(d)'
  <2>1. CASE d = c
    <3>1. ClientAt(cl)'
      BY <1>5
    <3> QED
      BY <1>1, <2>1, <3>1 DEF ClientOK, ClientAt, Linked
  <2>2. CASE d # c
    <3>1. client'[d] = client[d] /\ ClientAt(client[d])
      BY <1>1, <2>2 DEF RunsInv, ClientOK
    <3> QED
      BY <1>2, <3>1 DEF ClientOK, ClientAt, Linked
  <2> QED
    BY <2>1, <2>2
<1> QED
  BY <1>3, <1>4, <1>6 DEF RunsInv

LEMMA ClientFacts ==
  ASSUME RunsInv, NEW c \in Clients
  PROVE  client[c] \in Subscriber /\ ClientAt(client[c]) /\ NoCursor \in Cursor
BY DEF RunsInv, ClientTypes, ClientOK, NoCursor, Cursor

LEMMA AskInv == ASSUME RunsInv, NEW c \in Clients, NEW r \in Runs, Ask(c, r) PROVE RunsInv'
<1> DEFINE cl == [client[c] EXCEPT !.state = "asked", !.run = r, !.status = row[r]]
<1>1. row[r] \in {"started"} \cup Terminal
  BY ThreadFacts DEF Ask, Statuses
<1>2. /\ cl \in Subscriber /\ client' = [client EXCEPT ![c] = cl]
      /\ cl.state = "asked" /\ cl.run = r /\ cl.status = row[r]
      /\ cl.id = client[c].id /\ cl.got = client[c].got
  BY <1>1, ClientFacts DEF Ask, Subscriber
<1>3. Apart /\ UNCHANGED <<store, epochs>>
  BY DEF Ask
<1> HIDE DEF cl
<1>4. ASSUME r \in Retained PROVE Link(cl, store[r].journal, Len(full[r]))
  <2>1. CASE client[c].run = r
    <3>1. Link(client[c], store[r].journal, Len(full[r]))
      BY <1>4, <2>1, ClientFacts DEF ClientAt, Linked
    <3> QED
      BY <1>2, <3>1 DEF Link
  <2>2. CASE client[c].run = "none"
    <3>1. cl.id = NoCursor
      BY <1>2, <2>2, ClientFacts DEF ClientAt
    <3>2. store[r].journal.epoch \in 1..epochs
      BY <1>4 DEF RunsInv, StoreTypes, Kept
    <3>3. cl.id.epoch # store[r].journal.epoch
      BY <3>1, <3>2 DEF NoCursor, RunsInv, StoreTypes
    <3> QED
      BY <3>3 DEF Link
  <2> QED
    BY <2>1, <2>2 DEF Ask
<1>5. ClientAt(cl)
  <2>1. ClientAt(client[c]) /\ r # "none"
    BY RunBounds, ClientFacts
  <2> QED
    BY <1>2, <1>4, <2>1 DEF ClientAt, Linked
<1> QED
  BY <1>2, <1>3, <1>5, ClientMoves

(* The stream is started, or refused.                                         *)
LEMMA Started ==
  ASSUME RunsInv, NEW c \in Clients, client[c].state # "away", Start(c)
  PROVE  \E cl \in Subscriber :
           /\ client' = [client EXCEPT ![c] = cl]
           /\ cl.id = client[c].id /\ cl.got = client[c].got /\ cl.run = client[c].run
           /\ cl.state \in {"open", "away"} /\ (cl.state = "open" => cl.source = cl.id)
           /\ ClientAt(cl)
<1> PICK state \in {"open", "away"} :
      client' = [client EXCEPT ![c].state = state, ![c].status = "none",
                               ![c].source = IF state = "open" THEN client[c].id ELSE NoCursor]
  BY DEF Start
<1> DEFINE source == IF state = "open" THEN client[c].id ELSE NoCursor
           cl == [client[c] EXCEPT !.state = state, !.status = "none", !.source = source]
<1>1. source \in Cursor
  BY ClientFacts DEF Subscriber
<1>2. client' = [client EXCEPT ![c] = cl]
  OBVIOUS
<1>3. (state = "open" => source = client[c].id)
  OBVIOUS
<1> HIDE DEF source
<1>4. /\ cl \in Subscriber
      /\ cl.id = client[c].id /\ cl.got = client[c].got /\ cl.run = client[c].run
      /\ cl.state = state /\ cl.source = source
  BY <1>1, ClientFacts DEF Subscriber
<1> HIDE DEF cl
<1>5. ClientAt(cl)
  <2>1. Linked(cl)
    BY <1>4, ClientFacts DEF ClientAt, Linked, Link
  <2> QED
    BY <1>3, <1>4, <2>1, ClientFacts DEF ClientAt
<1> QED
  BY <1>2, <1>3, <1>4, <1>5

LEMMA LookInv == ASSUME RunsInv, NEW c \in Clients, Look(c) PROVE RunsInv'
<1>1. Apart /\ UNCHANGED <<store, epochs>> /\ client[c].state = "asked"
  BY DEF Look
<1>2. CASE client[c].status \in Terminal /\ client' = [client EXCEPT ![c].state = "restore"]
  <2> DEFINE cl == [client[c] EXCEPT !.state = "restore"]
  <2>1. /\ cl \in Subscriber /\ client' = [client EXCEPT ![c] = cl]
        /\ cl.state = "restore" /\ cl.run = client[c].run /\ cl.status = client[c].status
        /\ cl.id = client[c].id /\ cl.got = client[c].got
    BY <1>2, ClientFacts DEF Subscriber
  <2> HIDE DEF cl
  <2>2. Linked(cl)
    BY <2>1, ClientFacts DEF ClientAt, Linked, Link
  <2>3. ClientAt(cl)
    BY <1>1, <1>2, <2>1, <2>2, ClientFacts DEF ClientAt
  <2> QED
    BY <1>1, <2>1, <2>3, ClientMoves
<1>3. CASE Start(c)
  <2> PICK cl \in Subscriber : client' = [client EXCEPT ![c] = cl] /\ ClientAt(cl)
    BY <1>1, <1>3, Started
  <2> QED
    BY <1>1, ClientMoves
<1> QED
  BY <1>2, <1>3 DEF Look

(* The ending of a run without history is made up from the row.               *)
LEMMA RestoreInv == ASSUME RunsInv, NEW c \in Clients, Restore(c) PROVE RunsInv'
<1> DEFINE r == client[c].run
           status == client[c].status
           name == TerminalEvent(status)
           e == [name |-> name, n |-> 0]
<1>1. /\ Apart /\ AppendRunEvent(r, name, 0) /\ Start(c) /\ client[c].state = "restore"
  BY DEF Restore
<1>2. /\ r \in Runs /\ status \in Terminal /\ status = row[r]
  BY <1>1, ClientFacts DEF ClientAt
<1>3. name \in Names /\ name = TerminalEvent(row[r])
  BY <1>2 DEF Names, TerminalEvent
<1>4. /\ row' = row /\ message' = message /\ run' = run /\ full' = full /\ clock' = clock
  BY <1>1 DEF Apart
<1>5. StoreTypes /\ clock \in Nat /\ clock' \in Nat /\ clock =< clock'
  BY <1>4 DEF RunsInv, StoreTypes
<1> HIDE DEF name, status, r
<1>6. Grows(r, e) /\ StoreTypes' /\ epochs =< epochs'
  BY <1>1, <1>2, <1>3, <1>5, StoreGrows
<1>7. NextEvent(e, row[r], Len(full[r]), Len(full'[r]))
  BY <1>2, <1>3, <1>4, ThreadFacts DEF NextEvent, RunEvent
<1>8. epochs \in Nat /\ epochs' \in Nat
  BY <1>5, <1>6 DEF StoreTypes
<1> HIDE DEF e
<1>9. \A q \in Runs : HistoryOK(q)'
  BY <1>4, <1>6, <1>7, <1>8, HistoriesGrow DEF RunsInv
<1>10. PICK cl \in Subscriber :
         /\ client' = [client EXCEPT ![c] = cl]
         /\ cl.id = client[c].id /\ cl.got = client[c].got /\ cl.run = client[c].run
         /\ cl.state \in {"open", "away"} /\ (cl.state = "open" => cl.source = cl.id)
         /\ ClientAt(cl)
  BY <1>1, Started
<1>11. /\ ClientTypes' /\ client'[c] = cl
       /\ \A d \in Clients \ {c} : client'[d] = client[d]
  BY <1>10 DEF RunsInv, ClientTypes
<1>12. ASSUME NEW d \in Clients PROVE ClientOK(d)'
  <2>1. /\ client'[d].id = client[d].id /\ client'[d].got = client[d].got
        /\ client'[d].run = client[d].run
    BY <1>10, <1>11
  <2>2. ClientTypes /\ Linked(client[d])
        /\ (client[d].id = NoCursor \/ client[d].id.epoch \in 1..epochs)
    BY DEF RunsInv, ClientOK, ClientAt
  <2>3. Linked(client[d])'
    BY <1>4, <1>6, <1>7, <1>8, <2>1, <2>2, LinksGrow
  <2>4. client'[d].id = NoCursor \/ client'[d].id.epoch \in 1..epochs'
    BY <1>6, <1>8, <2>1, <2>2
  <2>5. /\ client'[d].state # "away" => client'[d].run \in Runs
        /\ client'[d].run = "none" => client'[d].id = NoCursor
        /\ client'[d].id = NoCursor <=> client'[d].got = <<>>
        /\ client'[d].state = "open" => client'[d].source = client'[d].id
        /\ client'[d].state = "restore" => client'[d].status \in Terminal
        /\ client'[d].state \in {"asked", "restore"} /\ client'[d].status \in Terminal =>
             client'[d].status = row[client'[d].run]
        /\ \A i \in 1..(Len(client'[d].got) - 1) : Follows(client'[d].got[i], client'[d].got[i + 1])
    <3>1. CASE d = c
      <4>1. client'[d] = cl /\ ClientAt(cl)
        BY <1>10, <1>11, <3>1
      <4> QED
        BY <4>1 DEF ClientAt
    <3>2. CASE d # c
      <4>1. client'[d] = client[d] /\ ClientAt(client[d])
        BY <1>11, <3>2, ClientFacts
      <4> QED
        BY <4>1 DEF ClientAt
    <3> QED
      BY <3>1, <3>2
  <2> QED
    BY <1>4, <2>3, <2>4, <2>5 DEF ClientOK, ClientAt
<1>13. ThreadTypes' /\ \A q \in Runs : ThreadOK(q)'
  BY <1>4 DEF RunsInv, ThreadTypes, ThreadOK
<1> QED
  BY <1>6, <1>9, <1>11, <1>12, <1>13 DEF RunsInv

(* What a client is after k events of a batch that can be read.               *)
LEMMA Received ==
  ASSUME RunsInv, NEW c \in Clients, client[c].state = "open", client[c].run \in Retained,
         NEW batch, batch = Read(store[client[c].run].journal, client[c].id),
         ~batch.resync, ~(client[c].id = NoCursor /\ batch.truncated),
         NEW k \in 0..Len(batch.events)
  PROVE  /\ IdAfter(client[c], batch, k) \in Cursor
         /\ GotAfter(client[c], batch, k) \in Seq(Nat)
         /\ batch.events \in Seq(RunEvent)
         /\ batch.cursor \in Cursor
         /\ batch.events = <<>> => batch.cursor = client[c].id
         /\ \A cl : /\ cl.id = IdAfter(client[c], batch, k)
                    /\ cl.got = GotAfter(client[c], batch, k)
                    /\ cl.run = client[c].run
                    /\ cl.state \in {"open", "away", "ended"}
                    /\ cl.state = "open" => cl.source = cl.id
                    => ClientAt(cl)
<1> DEFINE cl0 == client[c]
           r == cl0.run
           j == store[r].journal
           status == row[r]
           count == Len(full[r])
           id == IdAfter(cl0, batch, k)
           got == GotAfter(cl0, batch, k)
<1>1. cl0 \in Subscriber /\ ClientAt(cl0) /\ r \in Runs
  BY ClientFacts DEF ClientAt
<1>2. /\ j \in JournalOf(RunEvent) /\ Aligned(j) /\ j.sequence >= 1 /\ j.epoch \in 1..epochs
  BY DEF RunsInv, StoreTypes, Kept
<1>3. History(j, status, count) /\ Link(cl0, j, count) /\ count \in Nat
  BY <1>1, ThreadFacts DEF RunsInv, HistoryOK, ClientAt, Linked
<1>4. /\ cl0.id = NoCursor <=> cl0.got = <<>>
      /\ \A i \in 1..(Len(cl0.got) - 1) : Follows(cl0.got[i], cl0.got[i + 1])
      /\ cl0.id = NoCursor \/ cl0.id.epoch \in 1..epochs
      /\ cl0.run = "none" => cl0.id = NoCursor
  BY <1>1 DEF ClientAt
<1>5. /\ batch = Read(j, cl0.id) /\ ~batch.resync /\ ~(cl0.id = NoCursor /\ batch.truncated)
  OBVIOUS
<1>6. id = IdAfter(cl0, batch, k) /\ got = GotAfter(cl0, batch, k)
  OBVIOUS
<1>7. batch.events \in Seq(RunEvent) /\ batch.cursor \in Cursor
  <2>1. cl0.id \in Cursor
    BY <1>1 DEF Subscriber
  <2> HIDE DEF cl0, j
  <2> QED
    BY <1>2, <1>5, <2>1, SMTT(30), ReadFacts
<1> HIDE DEF j, status, count, id, got, cl0
<1>8. /\ id \in Cursor /\ got \in Seq(Nat)
      /\ id = NoCursor <=> got = <<>>
      /\ id = cl0.id \/ id.epoch = j.epoch
      /\ \A i \in 1..(Len(got) - 1) : Follows(got[i], got[i + 1])
      /\ \A dl : dl.id = id /\ dl.got = got => Link(dl, j, count)
      /\ batch.events = <<>> => batch.cursor = cl0.id
  BY <1>1, <1>2, <1>3, <1>4, <1>5, <1>6, ReadsOn
<1>9. id = NoCursor \/ id.epoch \in 1..epochs
  BY <1>2, <1>4, <1>8
<1>10. r # "none"
  BY <1>1, RunBounds
<1>11. ASSUME NEW cl, cl.id = id, cl.got = got, cl.run = r, cl.state \in {"open", "away", "ended"},
              cl.state = "open" => cl.source = cl.id
       PROVE  ClientAt(cl)
  <2>1. Linked(cl)
    BY <1>8, <1>11 DEF Linked, j, count
  <2> QED
    BY <1>1, <1>8, <1>9, <1>10, <1>11, <2>1 DEF ClientAt
<1> QED
  BY <1>7, <1>8, <1>11 DEF id, got, cl0

LEMMA NothingPlaced ==
  ASSUME NEW s \in Seq(Nat)
  PROVE  s \o Places(<<>>) = s /\ s \o Places(SubSeq(<<>>, 1, 0)) = s
<1>1. <<>> \in Seq(RunEvent) /\ Len(<<>>) = 0 /\ SubSeq(<<>>, 1, 0) = <<>>
  OBVIOUS
<1>2. Places(<<>>) = <<>>
  <2> DEFINE e == <<>>
             p == Places(SubSeq(e, 1, 0))
  <2>1. e \in Seq(RunEvent) /\ 0 \in 0..Len(e)
    BY <1>1
  <2> HIDE DEF e
  <2>2. p \in Seq(Nat) /\ Len(p) = 0
    BY <2>1, PrefixPlaces
  <2> HIDE DEF p
  <2>3. p = <<>>
    BY <2>2
  <2> QED
    BY <1>1, <2>3 DEF e, p
<1>3. s \o <<>> = s
  OBVIOUS
<1> QED
  BY <1>1, <1>2, <1>3

LEMMA PollInv == ASSUME RunsInv, NEW c \in Clients, Poll(c) PROVE RunsInv'
<1> DEFINE r == client[c].run
           batch == Source(r, client[c].source)
           state == IF batch.resync THEN "told" ELSE IF batch.finished THEN "ended" ELSE "open"
           id == IF batch.resync \/ batch.events = <<>> THEN client[c].id ELSE batch.cursor
           got == IF batch.resync THEN client[c].got ELSE client[c].got \o Places(batch.events)
           cl == [client[c] EXCEPT !.state = state, !.source = batch.cursor, !.id = id, !.got = got]
<1>1. /\ Apart /\ UNCHANGED <<store, epochs>> /\ client[c].state = "open"
      /\ client' = [client EXCEPT ![c] = cl]
  BY DEF Poll
<1>2. /\ r \in Runs /\ client[c].source = client[c].id /\ ClientAt(client[c])
      /\ client[c] \in Subscriber /\ client[c].id \in Cursor /\ client[c].got \in Seq(Nat)
  BY <1>1, ClientFacts DEF ClientAt, Subscriber
<1>3. state \in {"told", "ended", "open"} /\ (state = "told" <=> batch.resync)
  OBVIOUS
<1> SUFFICES /\ batch.cursor \in Cursor /\ id \in Cursor /\ got \in Seq(Nat)
             /\ \A dl : /\ dl.state = state /\ dl.source = batch.cursor /\ dl.id = id
                        /\ dl.got = got /\ dl.run = r
                        => ClientAt(dl)
  <2> HIDE DEF batch, state, id, got
  <2>1. /\ cl \in Subscriber /\ cl.state = state /\ cl.source = batch.cursor /\ cl.id = id
        /\ cl.got = got /\ cl.run = r
    BY <1>2, <1>3 DEF Subscriber
  <2>2. ClientAt(cl)
    BY <2>1
  <2> HIDE DEF cl
  <2> QED
    BY <1>1, <2>1, <2>2, ClientMoves
<1>4. CASE r \notin Retained
  <2>1. /\ batch.cursor = client[c].source /\ batch.events = <<>> /\ batch.finished = FALSE
    BY <1>4 DEF Source
  <2>2. id = client[c].id
    BY <2>1
  <2>3. got = client[c].got
    BY <1>2, <2>1, NothingPlaced
  <2> HIDE DEF batch, id, got, state
  <2>4. ASSUME NEW dl, dl.state = state, dl.source = batch.cursor, dl.id = id, dl.got = got, dl.run = r
        PROVE  ClientAt(dl)
    <3>1. Linked(dl)
      BY <1>4, <2>4 DEF Linked
    <3> QED
      BY <1>2, <1>3, <2>1, <2>2, <2>3, <2>4, <3>1 DEF ClientAt
  <2> QED
    BY <1>2, <2>1, <2>2, <2>3, <2>4
<1>5. CASE r \in Retained /\ batch.resync
  <2>1. id = client[c].id /\ got = client[c].got /\ state = "told"
    BY <1>5
  <2>2. batch.cursor \in Cursor
    <3>1. batch.cursor = TailOf(store[r].journal)
      BY <1>5 DEF Source, Read
    <3>2. store[r].journal.sequence \in Nat /\ store[r].journal.epoch \in Nat
      BY <1>5 DEF RunsInv, StoreTypes, Kept, JournalOf
    <3> QED
      BY <3>1, <3>2 DEF TailOf, Cursor
  <2> HIDE DEF batch, id, got, state
  <2>3. ASSUME NEW dl, dl.state = state, dl.source = batch.cursor, dl.id = id, dl.got = got, dl.run = r
        PROVE  ClientAt(dl)
    <3>1. Linked(dl)
      BY <1>2, <2>1, <2>3 DEF ClientAt, Linked, Link
    <3> QED
      BY <1>2, <2>1, <2>3, <3>1 DEF ClientAt
  <2> QED
    BY <1>2, <2>1, <2>2, <2>3
<1>6. CASE r \in Retained /\ ~batch.resync
  <2> DEFINE read == Read(store[r].journal, client[c].id)
             k == Len(read.events)
  <2>1. /\ ~read.resync /\ ~(client[c].id = NoCursor /\ read.truncated)
        /\ batch.cursor = read.cursor /\ batch.events = read.events
    BY <1>2, <1>6 DEF Source
  <2>2. /\ read.events \in Seq(RunEvent) /\ read.cursor \in Cursor
    <3>1. store[r].journal \in JournalOf(RunEvent) /\ Aligned(store[r].journal)
      BY <1>6 DEF RunsInv, StoreTypes, Kept
    <3> HIDE DEF r
    <3> QED
      BY <1>2, <2>1, <3>1, SMTT(30), ReadFacts
  <2> HIDE DEF read
  <2>3. k \in 0..Len(read.events) /\ SubSeq(read.events, 1, k) = read.events
        /\ (k = 0 <=> read.events = <<>>)
    BY <2>2
  <2>4. /\ IdAfter(client[c], read, k) \in Cursor
        /\ GotAfter(client[c], read, k) \in Seq(Nat)
        /\ read.events = <<>> => read.cursor = client[c].id
        /\ \A dl : /\ dl.id = IdAfter(client[c], read, k)
                   /\ dl.got = GotAfter(client[c], read, k)
                   /\ dl.run = client[c].run
                   /\ dl.state \in {"open", "away", "ended"}
                   /\ dl.state = "open" => dl.source = dl.id
                   => ClientAt(dl)
    <3> HIDE DEF k
    <3> QED
      BY <1>1, <1>6, <2>1, <2>3, Received DEF read
  <2>5. IdAfter(client[c], read, k) = id
    <3>1. CASE k = 0
      BY <1>6, <2>1, <2>3, <3>1 DEF IdAfter
    <3>2. CASE k # 0
      <4>1. [read.cursor EXCEPT !.sequence = @ - (Len(read.events) - k)] = read.cursor
        BY <2>2 DEF Cursor
      <4> QED
        BY <1>6, <2>1, <2>3, <3>2, <4>1 DEF IdAfter
    <3> QED
      BY <3>1, <3>2
  <2>6. GotAfter(client[c], read, k) = got
    BY <1>6, <2>1, <2>3 DEF GotAfter
  <2>7. batch.cursor = id
    BY <1>6, <2>1, <2>4
  <2> HIDE DEF batch, id, got, state, k
  <2>8. state \in {"open", "ended"}
    BY <1>3, <1>6
  <2> QED
    BY <2>1, <2>2, <2>4, <2>5, <2>6, <2>7, <2>8
<1> QED
  BY <1>4, <1>5, <1>6

LEMMA BreakInv == ASSUME RunsInv, NEW c \in Clients, Break(c) PROVE RunsInv'
<1> DEFINE r == client[c].run
           batch == Source(r, client[c].source)
           sent == IF batch.resync THEN <<>> ELSE batch.events
<1>1. Apart /\ UNCHANGED <<store, epochs>> /\ client[c].state = "open"
  BY DEF Break
<1>2. PICK k \in 0..Len(sent) :
        client' = [client EXCEPT
          ![c].state = "away", ![c].source = NoCursor,
          ![c].id = IF k = 0 THEN @ ELSE [batch.cursor EXCEPT !.sequence = @ - (Len(sent) - k)],
          ![c].got = @ \o Places(SubSeq(sent, 1, k))]
  BY DEF Break
<1> DEFINE id == IF k = 0 THEN client[c].id
                 ELSE [batch.cursor EXCEPT !.sequence = @ - (Len(sent) - k)]
           got == client[c].got \o Places(SubSeq(sent, 1, k))
           cl == [client[c] EXCEPT !.state = "away", !.source = NoCursor, !.id = id, !.got = got]
<1>3. client' = [client EXCEPT ![c] = cl]
  BY <1>2
<1>4. /\ r \in Runs /\ client[c].source = client[c].id /\ ClientAt(client[c])
      /\ client[c] \in Subscriber /\ client[c].id \in Cursor /\ client[c].got \in Seq(Nat)
      /\ NoCursor \in Cursor
  BY <1>1, ClientFacts DEF ClientAt, Subscriber
<1> SUFFICES /\ id \in Cursor /\ got \in Seq(Nat)
             /\ \A dl : dl.state = "away" /\ dl.id = id /\ dl.got = got /\ dl.run = r => ClientAt(dl)
  <2> HIDE DEF id, got
  <2>1. /\ cl \in Subscriber /\ cl.state = "away" /\ cl.id = id /\ cl.got = got /\ cl.run = r
    BY <1>4 DEF Subscriber
  <2>2. ClientAt(cl)
    BY <2>1
  <2> HIDE DEF cl
  <2> QED
    BY <1>1, <1>3, <2>1, <2>2, ClientMoves
<1>5. CASE sent = <<>>
  <2>1. k = 0
    BY <1>5
  <2>2. id = client[c].id /\ got = client[c].got
    BY <1>4, <1>5, <2>1, NothingPlaced
  <2> HIDE DEF id, got
  <2>3. ASSUME NEW dl, dl.state = "away", dl.id = id, dl.got = got, dl.run = r PROVE ClientAt(dl)
    <3>1. Linked(dl)
      BY <1>4, <2>2, <2>3 DEF ClientAt, Linked, Link
    <3> QED
      BY <1>4, <2>2, <2>3, <3>1 DEF ClientAt
  <2> QED
    BY <1>4, <2>2, <2>3
<1>6. CASE sent # <<>>
  <2> DEFINE read == Read(store[r].journal, client[c].id)
  <2>1. r \in Retained /\ ~batch.resync
    BY <1>6 DEF Source
  <2>2. /\ ~read.resync /\ ~(client[c].id = NoCursor /\ read.truncated)
        /\ batch.cursor = read.cursor /\ sent = read.events
    BY <1>4, <2>1 DEF Source
  <2>3. k \in 0..Len(read.events)
    BY <1>2, <2>2
  <2> HIDE DEF read, sent, batch
  <2>4. /\ id = IdAfter(client[c], read, k) /\ got = GotAfter(client[c], read, k)
    BY <2>2 DEF IdAfter, GotAfter
  <2> HIDE DEF id, got
  <2>5. /\ IdAfter(client[c], read, k) \in Cursor
        /\ GotAfter(client[c], read, k) \in Seq(Nat)
        /\ \A dl : /\ dl.id = IdAfter(client[c], read, k)
                   /\ dl.got = GotAfter(client[c], read, k)
                   /\ dl.run = client[c].run
                   /\ dl.state \in {"open", "away", "ended"}
                   /\ dl.state = "open" => dl.source = dl.id
                   => ClientAt(dl)
    BY <1>1, <2>1, <2>2, <2>3, Received DEF read
  <2> QED
    BY <2>4, <2>5
<1> QED
  BY <1>5, <1>6

-----------------------------------------------------------------------------
(* The other runs and the end of the process.                                 *)
LEMMA OtherRunInv == ASSUME RunsInv, NEW o \in Others, OtherRun(o) PROVE RunsInv'
<1> DEFINE name == "progress"
           e == [name |-> name, n |-> 0]
<1>1. /\ row' = row /\ message' = message /\ run' = run /\ full' = full /\ client' = client
      /\ AppendRunEvent(o, name, 0)
  BY DEF OtherRun
<1>2. /\ StoreTypes /\ clock \in Nat /\ clock' \in Nat /\ clock =< clock'
  <2>1. PICK now \in clock..MaxClock : clock' = now
    BY DEF OtherRun
  <2>2. clock \in Nat /\ MaxClock \in Nat
    BY RunBounds DEF RunsInv, StoreTypes
  <2> QED
    BY <2>1, <2>2 DEF RunsInv
<1>3. name \in Names /\ o \notin Runs
  BY RunBounds DEF Names
<1> HIDE DEF name
<1>4. Grows(o, e) /\ StoreTypes' /\ epochs =< epochs'
  BY <1>1, <1>2, <1>3, StoreGrows
<1>5. epochs \in Nat /\ epochs' \in Nat
  BY <1>2, <1>4 DEF StoreTypes
<1> HIDE DEF e
<1>6. \A r \in Runs : HistoryOK(r)'
  BY <1>1, <1>3, <1>4, <1>5, HistoriesGrow DEF RunsInv
<1>7. ASSUME NEW c \in Clients PROVE ClientOK(c)'
  <2>1. ClientTypes /\ ClientAt(client[c]) /\ Linked(client[c]) /\ client'[c] = client[c]
    BY <1>1 DEF RunsInv, ClientOK, ClientAt
  <2>2. Linked(client[c])'
    BY <1>1, <1>3, <1>4, <1>5, <2>1, LinksGrow DEF ClientAt
  <2>3. client[c].id = NoCursor \/ client[c].id.epoch \in 1..epochs'
    BY <1>4, <1>5, <2>1 DEF ClientAt
  <2> QED
    BY <1>1, <2>1, <2>2, <2>3 DEF ClientOK, ClientAt
<1>8. /\ ThreadTypes' /\ ClientTypes'
      /\ \A r \in Runs : ThreadOK(r)'
  BY <1>1 DEF RunsInv, ThreadTypes, ClientTypes, ThreadOK
<1> QED
  BY <1>4, <1>6, <1>7, <1>8 DEF RunsInv

LEMMA NothingRetained == DOMAIN <<>> = {} /\ IsFiniteSet({}) /\ Cardinality({}) = 0
BY FS_EmptySet

LEMMA RestartInv == ASSUME RunsInv, Restart PROVE RunsInv'
<1>1. /\ row' = row /\ message' = message /\ full' = full /\ clock' = clock /\ epochs' = epochs
      /\ store' = <<>> /\ Retained' = {}
  BY NothingRetained DEF Restart, Retained
<1>2. StoreTypes'
  <2>1. MaxRetained \in Nat
    BY RunBounds
  <2> QED
    BY <1>1, <2>1, NothingRetained DEF RunsInv, StoreTypes
<1>3. ASSUME NEW r \in Runs
      PROVE  run'[r] \in Thread /\ ThreadOK(r)' /\ HistoryOK(r)'
  <2>1. run'[r] = IF run[r].pc \in {"request", "over"} THEN run[r] ELSE Over(TRUE)
    BY DEF Restart
  <2>2. Over(TRUE) \in Thread /\ Over(TRUE).pc = "over"
    BY OverFacts
  <2>3. HistoryOK(r)'
    BY <1>1 DEF HistoryOK
  <2>4. CASE run'[r] = run[r]
    BY <1>1, <2>3, <2>4, ThreadFacts DEF ThreadOK
  <2>5. CASE run'[r] = Over(TRUE)
    <3>1. ThreadAt(Over(TRUE), full[r], row[r], message[r])
      BY <2>2, ThreadFacts DEF ThreadAt, Writing
    <3> QED
      BY <1>1, <2>2, <2>3, <2>5, <3>1 DEF ThreadOK
  <2> QED
    BY <2>1, <2>4, <2>5
<1>4. ThreadTypes'
  <2>1. run' \in [Runs -> Thread]
    BY <1>3 DEF Restart
  <2> QED
    BY <1>1, <2>1 DEF RunsInv, ThreadTypes
<1>5. ASSUME NEW c \in Clients PROVE client'[c] \in Subscriber /\ ClientOK(c)'
  <2> DEFINE cl == [client[c] EXCEPT !.state = "away", !.status = "none", !.source = NoCursor]
  <2>1. (client'[c] = client[c] /\ client[c].state \in {"told", "ended"}) \/ client'[c] = cl
    BY DEF Restart
  <2>2. /\ cl \in Subscriber /\ cl.state = "away" /\ cl.id = client[c].id
        /\ cl.got = client[c].got /\ cl.run = client[c].run
    BY ClientFacts DEF Subscriber
  <2> HIDE DEF cl
  <2>3. Linked(client[c])'
    BY <1>1 DEF Linked
  <2>4. CASE client'[c] = client[c] /\ client[c].state \in {"told", "ended"}
    BY <1>1, <2>3, <2>4, ClientFacts DEF ClientOK, ClientAt
  <2>5. CASE client'[c] = cl
    BY <1>1, <2>2, <2>3, <2>5, ClientFacts DEF ClientOK, ClientAt
  <2> QED
    BY <2>1, <2>4, <2>5
<1>6. ClientTypes'
  BY <1>5 DEF ClientTypes, Restart
<1> QED
  BY <1>2, <1>3, <1>4, <1>5, <1>6 DEF RunsInv

LEMMA RunsInit == Init => RunsInv
<1> SUFFICES ASSUME Init PROVE RunsInv
  OBVIOUS
<1>1. <<>> \in Seq(Names) /\ <<>> \in Seq(Nat) /\ NoMessage \in Seq(Nat) /\ Len(<<>>) = 0
      /\ DOMAIN <<>> = {}
  BY DEF NoMessage
<1>2. ThreadTypes
  BY <1>1, IdleFacts DEF Init, ThreadTypes
<1>3. StoreTypes /\ Retained = {}
  <2>1. MaxRetained \in Nat
    BY RunBounds
  <2> QED
    BY <2>1, NothingRetained DEF Init, StoreTypes, Retained
<1>4. ClientTypes
  BY <1>1 DEF Init, ClientTypes, Subscriber, Away, NoCursor, Cursor
<1>5. Collected(<<>>, <<>>)
  BY DEF Collected
<1>6. ASSUME NEW r \in Runs PROVE ThreadOK(r) /\ HistoryOK(r)
  <2>1. run[r] = Idle /\ full[r] = <<>> /\ row[r] = "none" /\ message[r] = NoMessage
    BY DEF Init
  <2>2. ThreadAt(Idle, <<>>, "none", NoMessage)
    BY <1>1, <1>5, IdleFacts DEF ThreadAt, Writing
  <2> QED
    BY <1>3, <2>1, <2>2 DEF ThreadOK, HistoryOK
<1>7. ASSUME NEW c \in Clients PROVE ClientOK(c)
  BY <1>1, <1>3 DEF Init, ClientOK, ClientAt, Linked, Away
<1> QED
  BY <1>2, <1>3, <1>4, <1>6, <1>7 DEF RunsInv

LEMMA RunsNext == RunsInv /\ [Next]_vars => RunsInv'
<1> SUFFICES ASSUME RunsInv, [Next]_vars PROVE RunsInv'
  OBVIOUS
<1>1. CASE UNCHANGED vars
  BY <1>1 DEF vars, RunsInv, ThreadTypes, StoreTypes, ClientTypes, Kept, ThreadOK, HistoryOK,
              ClientOK, ClientAt, Linked, Retained
<1>2. CASE \E r \in Runs : RunStep(r)
  BY <1>2, RunStepInv
<1>3. CASE \E c \in Clients : ClientStep(c) \/ Break(c) \/ \E r \in Runs : Ask(c, r)
  BY <1>3, LookInv, RestoreInv, PollInv, BreakInv, AskInv DEF ClientStep
<1>4. CASE \E o \in Others : OtherRun(o)
  BY <1>4, OtherRunInv
<1>5. CASE Restart
  BY <1>5, RestartInv
<1> QED
  BY <1>1, <1>2, <1>3, <1>4, <1>5 DEF Next

LEMMA RunsHold == Spec => []RunsInv
BY RunsInit, RunsNext, PTL DEF Spec

(* Rows, journals, cursors and threads keep their types, and the store never   *)
(* holds more than MaxRetained histories.                                      *)
THEOREM RunsTypeSafe == Spec => []TypeOK
<1>1. RunsInv => TypeOK
  <2> SUFFICES ASSUME RunsInv PROVE TypeOK
    OBVIOUS
  <2>1. \A q \in Retained : store[q].updated_at \in 0..clock /\ store[q].journal.epoch \in 1..epochs
    BY DEF RunsInv, StoreTypes, Kept
  <2>2. \A r \in Runs : run[r].tries \in 0..MaxTries /\ run[r].lost \in BOOLEAN
    BY ThreadFacts DEF Thread
  <2>3. \A c \in Clients : {client[c].id, client[c].source} \subseteq Cursor
    BY ClientFacts DEF Subscriber
  <2> QED
    BY <2>1, <2>2, <2>3 DEF TypeOK, RunsInv, ThreadTypes, StoreTypes
<1> QED
  BY <1>1, RunsHold, PTL

(* Whatever a request thread, its completion guard or a restoring subscription *)
(* says about the end of a run, the row of the run says it too.                *)
THEOREM EndIsTrue == Spec => []EndAgreesWithRow
<1>1. RunsInv => EndAgreesWithRow
  <2> SUFFICES ASSUME RunsInv, NEW r \in Runs
               PROVE  /\ \A i \in DOMAIN full[r] : full[r][i] \in Ending =>
                           i = Len(full[r]) /\ full[r][i] = TerminalEvent(row[r]) /\ row[r] \in Terminal
                      /\ r \in Retained /\ store[r].journal.finished =>
                           /\ row[r] \in Terminal
                           /\ \A e \in {store[r].journal.events[i] : i \in DOMAIN store[r].journal.events} :
                                e.name \in Ending => e.name = TerminalEvent(row[r])
    BY DEF EndAgreesWithRow, Ending
  <2>1. \A i \in DOMAIN full[r] : full[r][i] \in Ending =>
          i = Len(full[r]) /\ full[r][i] = TerminalEvent(row[r]) /\ row[r] \in Terminal
    BY ThreadFacts DEF ThreadAt
  <2>2. ASSUME r \in Retained, store[r].journal.finished
        PROVE  /\ row[r] \in Terminal
               /\ \A e \in {store[r].journal.events[i] : i \in DOMAIN store[r].journal.events} :
                    e.name \in Ending => e.name = TerminalEvent(row[r])
    <3>1. History(store[r].journal, row[r], Len(full[r]))
      BY <2>2 DEF RunsInv, HistoryOK
    <3>2. DOMAIN store[r].journal.events = 1..Len(store[r].journal.events)
      BY <2>2 DEF RunsInv, StoreTypes, Kept, JournalOf
    <3> QED
      BY <2>2, <3>1, <3>2 DEF History
  <2> QED
    BY <2>1, <2>2
<1> QED
  BY <1>1, RunsHold, PTL

(* However often a history is dropped, a client is cut off or the process ends, *)
(* a client that was not told to resync has every event between two it has.    *)
THEOREM NothingIsSkipped == Spec => []NoSilentGap
<1>1. RunsInv => NoSilentGap
  BY DEF RunsInv, ClientOK, ClientAt, NoSilentGap, Follows
<1> QED
  BY <1>1, RunsHold, PTL

(* The answer in the database has every chunk of the run, once and in order.   *)
THEOREM AnswerIsTheStream == Spec => []StoredIsStreamed
<1>1. RunsInv => StoredIsStreamed
  BY ThreadFacts DEF StoredIsStreamed, ThreadAt
<1> QED
  BY <1>1, RunsHold, PTL
=============================================================================
