-------------------------- MODULE ChangeFeedProofs --------------------------
(* The feed's promise, for every set of cells, keys, clients and filters,     *)
(* every limit of the journal, and any number of writes and faults.           *)
EXTENDS ChangeFeed, EventJournalProofs

-----------------------------------------------------------------------------
(* Order of numbers: the frames of a batch are the kept events, in order.     *)

Below(K, i) == {m \in K : m <= i}
Nth(K, n) == CHOOSE i \in K : Cardinality({m \in K : m <= i}) = n

LEMMA BelowFacts ==
  ASSUME NEW L \in Nat, NEW K, K \subseteq 1..L
  PROVE  /\ IsFiniteSet(K) /\ Cardinality(K) \in Nat
         /\ \A i \in Nat : /\ IsFiniteSet(Below(K, i)) /\ Cardinality(Below(K, i)) \in Nat
                           /\ Cardinality(Below(K, i)) <= Cardinality(K)
         /\ Cardinality(Below(K, 0)) = 0
         /\ Cardinality(Below(K, L)) = Cardinality(K)
<1>1. IsFiniteSet(K) /\ Cardinality(K) \in Nat
  <2>1. IsFiniteSet(1..L)
    BY FS_Interval
  <2> QED BY <2>1, FS_Subset, FS_CardinalityType
<1>2. ASSUME NEW i \in Nat
      PROVE  /\ IsFiniteSet(Below(K, i)) /\ Cardinality(Below(K, i)) \in Nat
             /\ Cardinality(Below(K, i)) <= Cardinality(K)
  <2>1. Below(K, i) \in SUBSET K
    BY DEF Below
  <2> QED BY <1>1, <2>1, FS_Subset, FS_CardinalityType
<1> \A m \in K : m \in Nat /\ 1 <= m /\ m <= L
  OBVIOUS
<1> /\ \A i, m : m \in Below(K, i) => m \in K
    /\ \A i \in Nat, m \in K : m \in Below(K, i) <=> m <= i
  BY DEF Below
<1>3. Below(K, 0) = {} /\ Below(K, L) = K
  <2>1. ASSUME NEW m \in Below(K, 0)
        PROVE  FALSE
    <3>1. m \in K /\ m <= 0
      BY <2>1 DEF Below
    <3> QED BY <3>1
  <2>2. \A m : m \in Below(K, L) <=> m \in K
    OBVIOUS
  <2> QED BY <2>1, <2>2, Zenon
<1> QED
  BY <1>1, <1>2, <1>3, FS_EmptySet

LEMMA BelowNext ==
  ASSUME NEW L \in Nat, NEW K, K \subseteq 1..L, NEW i \in Nat
  PROVE  Cardinality(Below(K, i + 1)) =
           IF i + 1 \in K THEN Cardinality(Below(K, i)) + 1 ELSE Cardinality(Below(K, i))
<1> \A m \in K : m \in Nat /\ 1 <= m /\ m <= L
  OBVIOUS
<1> /\ \A n, m : m \in Below(K, n) => m \in K
    /\ \A n \in Nat, m \in K : m \in Below(K, n) <=> m <= n
  BY DEF Below
<1> i + 1 \in Nat
  OBVIOUS
<1>1. CASE i + 1 \in K
  <2>0. \A m \in K : m <= i + 1 <=> m <= i \/ m = i + 1
    OBVIOUS
  <2>1. \A m : m \in Below(K, i + 1) <=> m \in Below(K, i) \/ m = i + 1
    BY <1>1, <2>0
  <2>2. Below(K, i + 1) = Below(K, i) \cup {i + 1}
    BY <2>1, Zenon
  <2>3. i + 1 \notin Below(K, i)
    OBVIOUS
  <2>4. IsFiniteSet(Below(K, i))
    BY BelowFacts, Zenon
  <2>5. Cardinality(Below(K, i) \cup {i + 1}) = Cardinality(Below(K, i)) + 1
    BY <2>3, <2>4, FS_AddElement
  <2> QED BY <1>1, <2>2, <2>5, Zenon
<1>2. CASE i + 1 \notin K
  <2>0. \A m \in K : m <= i + 1 <=> m <= i
    BY <1>2
  <2>1. \A m : m \in Below(K, i + 1) <=> m \in Below(K, i)
    BY <1>2, <2>0
  <2>2. Below(K, i + 1) = Below(K, i)
    BY <2>1, Zenon
  <2> QED BY <1>2, <2>2
<1> QED BY <1>1, <1>2

LEMMA BelowGrows ==
  ASSUME NEW L \in Nat, NEW K, K \subseteq 1..L, NEW i \in K, NEW j \in K, i < j
  PROVE  Cardinality(Below(K, i)) < Cardinality(Below(K, j))
<1>1. i \in Nat /\ j \in Nat
  OBVIOUS
<1>2. /\ IsFiniteSet(Below(K, i)) /\ IsFiniteSet(Below(K, j))
      /\ Cardinality(Below(K, i)) \in Nat /\ Cardinality(Below(K, j)) \in Nat
  BY <1>1, BelowFacts
<1>3. Below(K, i) \in SUBSET Below(K, j) /\ j \in Below(K, j) /\ j \notin Below(K, i)
  <2>1. \A m \in K : m \in Nat
    OBVIOUS
  <2>2. \A m : m \in K /\ m <= i => m \in K /\ m <= j
    BY <1>1, <2>1
  <2>3. j <= j /\ ~(j <= i)
    BY <1>1
  <2> QED BY <2>2, <2>3, Zenon DEF Below
<1>4. /\ Cardinality(Below(K, i)) <= Cardinality(Below(K, j))
      /\ Cardinality(Below(K, j)) = Cardinality(Below(K, i)) => Below(K, j) = Below(K, i)
  BY <1>2, <1>3, FS_Subset
<1> QED
  BY <1>2, <1>3, <1>4

(* For every number up to the size of K there is the element of that rank.    *)
LEMMA RankExists ==
  ASSUME NEW L \in Nat, NEW K, K \subseteq 1..L, NEW n \in 1..Cardinality(K)
  PROVE  \E i \in K : Cardinality(Below(K, i)) = n
<1> DEFINE rank(i) == Cardinality(Below(K, i))
           T == {i \in Nat : rank(i) >= n}
<1>1. /\ \A i \in Nat : rank(i) \in Nat
      /\ rank(0) = 0 /\ rank(L) = Cardinality(K) /\ Cardinality(K) \in Nat
      /\ \A i \in Nat : rank(i + 1) = IF i + 1 \in K THEN rank(i) + 1 ELSE rank(i)
  <2>1. /\ Cardinality(K) \in Nat
        /\ \A i \in Nat : Cardinality(Below(K, i)) \in Nat
        /\ Cardinality(Below(K, 0)) = 0
        /\ Cardinality(Below(K, L)) = Cardinality(K)
    BY BelowFacts, Zenon
  <2>2. ASSUME NEW i \in Nat
        PROVE  rank(i + 1) = IF i + 1 \in K THEN rank(i) + 1 ELSE rank(i)
    <3> HIDE DEF T
    <3> QED BY BelowNext, Zenon
  <2> QED BY <2>1, <2>2
<1> HIDE DEF rank
<1>2. L \in T
  BY <1>1
<1>3. PICK i \in T : \A k \in T : i <= k
  BY <1>2, LeastOf
<1>4. i \in Nat /\ rank(i) >= n /\ i # 0
  BY <1>1, <1>3
<1>5. i - 1 \in Nat /\ i - 1 \notin T
  BY <1>3, <1>4
<1>6. rank(i - 1) < n /\ rank(i - 1) \in Nat
  BY <1>1, <1>5
<1>7. rank(i) = IF i \in K THEN rank(i - 1) + 1 ELSE rank(i - 1)
  BY <1>1, <1>4, <1>5
<1>8. i \in K /\ rank(i) = n
  BY <1>4, <1>6, <1>7
<1> QED
  BY <1>8 DEF rank

LEMMA NthFacts ==
  ASSUME NEW L \in Nat, NEW K, K \subseteq 1..L
  PROVE  /\ Cardinality(K) \in Nat
         /\ \A n \in 1..Cardinality(K) : Nth(K, n) \in K
         /\ \A m, n \in 1..Cardinality(K) : m < n => Nth(K, m) < Nth(K, n)
         /\ \A e \in K : \E n \in 1..Cardinality(K) : Nth(K, n) = e
<1> DEFINE rank(i) == Cardinality(Below(K, i))
<1>1. Cardinality(K) \in Nat
  BY BelowFacts
<1>2. ASSUME NEW n \in 1..Cardinality(K)
      PROVE  Nth(K, n) \in K /\ rank(Nth(K, n)) = n
  <2>1. \E i \in K : Cardinality({m \in K : m <= i}) = n
    <3>1. \E i \in K : Cardinality(Below(K, i)) = n
      BY RankExists
    <3> QED BY <3>1, Zenon DEF Below
  <2>2. Nth(K, n) \in K /\ Cardinality({m \in K : m <= Nth(K, n)}) = n
    BY <2>1 DEF Nth
  <2> QED BY <2>2 DEF Below
<1>3. ASSUME NEW i \in K, NEW j \in K
      PROVE  /\ i < j => rank(i) < rank(j)
             /\ rank(i) \in Nat /\ i \in Nat
             /\ rank(i) \in 1..Cardinality(K)
  <2>0. i \in Nat
    OBVIOUS
  <2>1. i \in Nat /\ rank(i) \in Nat /\ rank(i) <= Cardinality(K) /\ IsFiniteSet(Below(K, i))
    BY <2>0, BelowFacts, Zenon
  <2>2. i \in Below(K, i)
    BY <2>1 DEF Below
  <2>3. rank(i) # 0
    BY <2>1, <2>2, FS_EmptySet
  <2>4. i < j => rank(i) < rank(j)
    BY BelowGrows
  <2> HIDE DEF rank
  <2> QED BY <1>1, <2>1, <2>3, <2>4
<1> HIDE DEF rank
<1>4. ASSUME NEW m \in 1..Cardinality(K), NEW n \in 1..Cardinality(K), m < n
      PROVE  Nth(K, m) < Nth(K, n)
  <2> DEFINE a == Nth(K, m)
             b == Nth(K, n)
  <2>1. a \in K /\ b \in K /\ rank(a) = m /\ rank(b) = n
    BY <1>2
  <2> HIDE DEF a, b
  <2>2. ~(b < a) /\ a # b /\ a \in Nat /\ b \in Nat
    BY <1>1, <1>3, <1>4, <2>1
  <2>3. a < b
    BY <2>2
  <2> QED BY <2>3 DEF a, b
<1>5. ASSUME NEW e \in K
      PROVE  \E n \in 1..Cardinality(K) : Nth(K, n) = e
  <2>1. rank(e) \in 1..Cardinality(K)
    BY <1>3
  <2> DEFINE a == Nth(K, rank(e))
  <2>2. a \in K /\ rank(a) = rank(e)
    BY <1>2, <2>1
  <2> HIDE DEF a
  <2>3. ~(a < e) /\ ~(e < a) /\ a \in Nat /\ e \in Nat
    BY <1>3, <2>2
  <2>4. a = e
    BY <2>3
  <2> QED BY <2>1, <2>4 DEF a
<1> QED
  BY <1>1, <1>2, <1>4, <1>5

-----------------------------------------------------------------------------
(* The promise in terms of a journal j, a client's cursor and its stream.      *)

StreamType == [open : BOOLEAN, cursor : Cursor, first : BOOLEAN,
               finished : BOOLEAN, queue : Seq(FrameType)]

Behind(j, at) ==
  at.epoch < j.epoch \/ (at.epoch = j.epoch /\ at.sequence <= j.sequence)

Announces(event, k) == event.key = k \/ event.name = "resync_required"

PendingIn(j, at, k) ==
  \/ Unreadable(j, at)
  \/ \E i \in (at.sequence - j.oldest + 2)..Len(j.events) : Announces(j.events[i], k)

After(cur, queue, i) ==
  IF i = 0 THEN cur
  ELSE IF queue[i].name = "resync_required" THEN queue[i].next ELSE queue[i].id

Spared(queue, i, k) == \A m \in 1..i : ~Invalidates(queue[m], k)

Told(j, cur, s, k) ==
  /\ \A i \in 0..Len(s.queue) :
       Spared(s.queue, i, k) => PendingIn(j, After(cur, s.queue, i), k)
  /\ s.open /\ ~s.finished /\ Spared(s.queue, Len(s.queue), k) => PendingIn(j, s.cursor, k)

(* A mark between a position the client may be left at and the stream's own    *)
(* is a resync_required further on in the queue.                              *)
Reported(j, cur, s) ==
  s.open /\ s.cursor.epoch = j.epoch =>
    \A i \in 0..Len(s.queue) : \A m \in 1..Len(j.events) :
      /\ j.events[m].name = "resync_required"
      /\ After(cur, s.queue, i).epoch = j.epoch
      /\ After(cur, s.queue, i).sequence < j.oldest - 1 + m
      /\ j.oldest - 1 + m <= s.cursor.sequence
      => \E p \in (i + 1)..Len(s.queue) : s.queue[p].name = "resync_required"

(* A stream whose cursor is of another epoch ends with its first frame.        *)
Outdated(j, cur, s) ==
  s.open /\ s.cursor.epoch # j.epoch =>
    /\ cur.epoch # j.epoch
    /\ s.queue = <<>> \/ (Len(s.queue) = 1 /\ s.finished)

Cursors(j, cur, s) ==
  /\ cur \in Cursor /\ s \in StreamType
  /\ Behind(j, cur) /\ Behind(j, s.cursor)
  /\ \A i \in 1..Len(s.queue) : Behind(j, s.queue[i].id) /\ Behind(j, s.queue[i].next)
  /\ ~s.open => s = Closed

ClientOK(j, cur, s) == Cursors(j, cur, s) /\ Outdated(j, cur, s) /\ Reported(j, cur, s)

-----------------------------------------------------------------------------
(* Reading the journal.                                                       *)

(* append() announces its event to every cursor behind it, and leaves what was *)
(* announced before announced, though it may now be as a resync.              *)
LEMMA AppendPending ==
  ASSUME NEW j \in JournalOf(Event), Aligned(j), NEW e \in Event, NEW fin \in BOOLEAN,
         NEW a, a = AppendTo(j, e, fin),
         NEW at \in Cursor, Behind(j, at), NEW k
  PROVE  /\ Behind(a, at)
         /\ PendingIn(j, at, k) => PendingIn(a, at, k)
         /\ Announces(e, k) => PendingIn(a, at, k)
<1>2. /\ a \in JournalOf(Event) /\ Aligned(a) /\ a.epoch = j.epoch
      /\ a.sequence = j.sequence + 1 /\ a.oldest \in j.oldest..(j.sequence + 2)
  BY AppendFacts, SMTT(60)
<1>3. \A i \in 1..Len(a.events) :
        a.events[i] = IF i + (a.oldest - 1) = a.sequence THEN e
                      ELSE j.events[i + (a.oldest - j.oldest)]
  BY AppendFacts, SMTT(60)
<1> DEFINE old == j.oldest
           seq == j.sequence
           n == a.oldest
           J == j.events
           A == a.events
           es == at.sequence
<1>4. /\ old \in Nat \ {0} /\ seq \in Nat /\ n \in old..(seq + 2) /\ n \in Nat
      /\ Len(J) = seq - (old - 1) /\ Len(A) = seq + 1 - (n - 1)
      /\ Len(J) \in Nat /\ Len(A) \in Nat
      /\ j.epoch \in Nat /\ at.epoch \in Nat /\ es \in Nat
      /\ a.sequence = seq + 1 /\ a.epoch = j.epoch
  BY <1>2 DEF JournalOf, Aligned, Cursor
<1>5. \A i \in 1..Len(A) : A[i] = IF i + (n - 1) = seq + 1 THEN e ELSE J[i + (n - old)]
  BY <1>2, <1>3
<1>6. /\ at.epoch < j.epoch \/ (at.epoch = j.epoch /\ es <= seq)
      /\ Behind(a, at) <=> at.epoch < j.epoch \/ (at.epoch = j.epoch /\ es <= seq + 1)
      /\ Unreadable(a, at) <=> at.epoch # j.epoch \/ es > seq + 1 \/ es < n - 1
      /\ Unreadable(j, at) <=> at.epoch # j.epoch \/ es > seq \/ es < old - 1
  BY <1>2, Zenon DEF Behind, Unreadable
<1>0. /\ PendingIn(a, at, k) <=>
           Unreadable(a, at) \/ \E i \in (es - n + 2)..Len(A) : Announces(A[i], k)
      /\ PendingIn(j, at, k) <=>
           Unreadable(j, at) \/ \E i \in (es - old + 2)..Len(J) : Announces(J[i], k)
  BY Zenon DEF PendingIn
<1> HIDE DEF old, seq, n, J, A, es
<1>7. Behind(a, at)
  BY <1>4, <1>6
<1>8. CASE Unreadable(a, at)
  BY <1>0, <1>7, <1>8, Zenon
<1>9. CASE ~Unreadable(a, at)
  <2>1. at.epoch = j.epoch /\ es <= seq /\ es >= n - 1 /\ ~Unreadable(j, at)
    BY <1>4, <1>6, <1>9
  <2>2. ASSUME Announces(e, k)
        PROVE  PendingIn(a, at, k)
    <3>1. Len(A) \in (es - n + 2)..Len(A) /\ Len(A) \in 1..Len(A)
          /\ Len(A) + (n - 1) = seq + 1
      BY <1>4, <2>1
    <3>2. A[Len(A)] = e
      BY <1>5, <3>1, Zenon
    <3> QED BY <1>0, <2>2, <3>1, <3>2, Zenon
  <2>3. ASSUME PendingIn(j, at, k)
        PROVE  PendingIn(a, at, k)
    <3>1. PICK i \in (es - old + 2)..Len(J) : Announces(J[i], k)
      BY <1>0, <2>1, <2>3, Zenon
    <3> DEFINE m == i - (n - old)
    <3>2. m \in (es - n + 2)..Len(A) /\ m \in 1..Len(A)
          /\ m + (n - old) = i /\ m + (n - 1) # seq + 1
      BY <1>4, <2>1
    <3> HIDE DEF m
    <3>3. A[m] = J[i]
      BY <1>5, <3>2, Zenon
    <3> QED BY <1>0, <3>1, <3>2, <3>3, Zenon
  <2> QED BY <1>7, <2>2, <2>3
<1> QED
  BY <1>8, <1>9

LEMMA AfterIn ==
  ASSUME NEW j, NEW cur, NEW s, Cursors(j, cur, s), NEW i \in 0..Len(s.queue)
  PROVE  After(cur, s.queue, i) \in Cursor /\ Behind(j, After(cur, s.queue, i))
<1>1. cur \in Cursor /\ Behind(j, cur) /\ s.queue \in Seq(FrameType)
  BY DEF Cursors, StreamType
<1>2. CASE i = 0
  BY <1>1, <1>2, Zenon DEF After
<1>3. CASE i # 0
  <2>1. i \in 1..Len(s.queue)
    BY <1>1, <1>3
  <2>2. s.queue[i] \in FrameType
    BY <1>1, <2>1
  <2>3. s.queue[i].id \in Cursor /\ s.queue[i].next \in Cursor
    BY <2>2 DEF FrameType
  <2>4. Behind(j, s.queue[i].id) /\ Behind(j, s.queue[i].next)
    BY <2>1 DEF Cursors
  <2> QED BY <1>3, <2>3, <2>4, Zenon DEF After
<1> QED BY <1>2, <1>3

(* An append leaves a client's position and frames as good as they were, and   *)
(* tells it about the appended event wherever it is.                          *)
LEMMA ToldAppend ==
  ASSUME NEW j \in JournalOf(Event), Aligned(j), NEW e \in Event, NEW fin \in BOOLEAN,
         NEW a, a = AppendTo(j, e, fin),
         NEW cur, NEW s, Cursors(j, cur, s)
  PROVE  /\ Cursors(a, cur, s)
         /\ \A k : Told(j, cur, s, k) \/ Announces(e, k) => Told(a, cur, s, k)
<1>1. ASSUME NEW at \in Cursor, Behind(j, at)
      PROVE  Behind(a, at) /\ \A k : PendingIn(j, at, k) \/ Announces(e, k) => PendingIn(a, at, k)
  BY <1>1, AppendPending
<1>2. /\ cur \in Cursor /\ s.cursor \in Cursor /\ s.queue \in Seq(FrameType)
      /\ Behind(j, cur) /\ Behind(j, s.cursor)
  BY DEF Cursors, StreamType
<1>3. ASSUME NEW i \in 1..Len(s.queue)
      PROVE  Behind(a, s.queue[i].id) /\ Behind(a, s.queue[i].next)
  <2>1. s.queue[i] \in FrameType
    BY <1>2
  <2>2. s.queue[i].id \in Cursor /\ s.queue[i].next \in Cursor
    BY <2>1 DEF FrameType
  <2>3. Behind(j, s.queue[i].id) /\ Behind(j, s.queue[i].next)
    BY DEF Cursors
  <2> QED BY <1>1, <2>2, <2>3
<1>4. Cursors(a, cur, s)
  BY <1>1, <1>2, <1>3, Zenon DEF Cursors
<1>5. ASSUME NEW k, Told(j, cur, s, k) \/ Announces(e, k)
      PROVE  Told(a, cur, s, k)
  <2>1. ASSUME NEW i \in 0..Len(s.queue), Spared(s.queue, i, k)
        PROVE  PendingIn(a, After(cur, s.queue, i), k)
    <3>1. After(cur, s.queue, i) \in Cursor /\ Behind(j, After(cur, s.queue, i))
      BY AfterIn
    <3>2. PendingIn(j, After(cur, s.queue, i), k) \/ Announces(e, k)
      BY <1>5, <2>1, Zenon DEF Told
    <3> QED BY <1>1, <3>1, <3>2, Zenon
  <2>2. ASSUME s.open, ~s.finished, Spared(s.queue, Len(s.queue), k)
        PROVE  PendingIn(a, s.cursor, k)
    <3>1. PendingIn(j, s.cursor, k) \/ Announces(e, k)
      BY <1>5, <2>2, Zenon DEF Told
    <3> QED BY <1>1, <1>2, <3>1, Zenon
  <2> QED BY <2>1, <2>2, Zenon DEF Told
<1> QED BY <1>4, <1>5, Zenon

LEMMA ReportedAppend ==
  ASSUME NEW j \in JournalOf(Event), Aligned(j), NEW e \in Event, NEW fin \in BOOLEAN,
         NEW a, a = AppendTo(j, e, fin),
         NEW cur, NEW s, ClientOK(j, cur, s)
  PROVE  ClientOK(a, cur, s)
<1>1. /\ a \in JournalOf(Event) /\ Aligned(a) /\ a.epoch = j.epoch
      /\ a.sequence = j.sequence + 1 /\ a.oldest \in j.oldest..(j.sequence + 2)
  BY AppendFacts, SMTT(60)
<1>2. \A i \in 1..Len(a.events) :
        a.events[i] = IF i + (a.oldest - 1) = a.sequence THEN e
                      ELSE j.events[i + (a.oldest - j.oldest)]
  BY AppendFacts, SMTT(60)
<1>3. Cursors(j, cur, s) /\ Outdated(j, cur, s) /\ Reported(j, cur, s)
  BY DEF ClientOK
<1>4. Cursors(a, cur, s)
  BY <1>3, ToldAppend
<1>5. Outdated(a, cur, s)
  BY <1>1, <1>3, Zenon DEF Outdated
<1>6. ASSUME s.open, s.cursor.epoch = a.epoch, NEW i \in 0..Len(s.queue),
             NEW m \in 1..Len(a.events),
             a.events[m].name = "resync_required",
             After(cur, s.queue, i).epoch = a.epoch,
             After(cur, s.queue, i).sequence < a.oldest - 1 + m,
             a.oldest - 1 + m <= s.cursor.sequence
      PROVE  \E p \in (i + 1)..Len(s.queue) : s.queue[p].name = "resync_required"
  <2> DEFINE n == m + (a.oldest - j.oldest)
  <2>1. /\ j.oldest \in Nat \ {0} /\ j.sequence \in Nat /\ a.oldest \in Nat
        /\ Len(j.events) = j.sequence - (j.oldest - 1)
        /\ Len(a.events) = j.sequence + 1 - (a.oldest - 1)
    BY <1>1 DEF JournalOf, Aligned
  <2>2. s.cursor \in Cursor /\ Behind(j, s.cursor)
    BY <1>3 DEF Cursors, StreamType
  <2>3. s.cursor.sequence \in Nat /\ s.cursor.sequence <= j.sequence
    BY <1>1, <1>6, <2>2 DEF Behind, Cursor, JournalOf
  <2>4. m + (a.oldest - 1) # a.sequence /\ n \in 1..Len(j.events)
        /\ j.oldest - 1 + n = a.oldest - 1 + m
    <3> DEFINE ao == a.oldest
               jo == j.oldest
               js == j.sequence
               cs == s.cursor.sequence
    <3>1. /\ jo \in Nat \ {0} /\ js \in Nat /\ ao \in Nat /\ ao >= jo /\ cs \in Nat /\ cs <= js
          /\ Len(j.events) = js - (jo - 1) /\ m \in Nat /\ m >= 1
          /\ ao - 1 + m <= cs /\ a.sequence = js + 1 /\ n = m + (ao - jo)
      <4>1. m \in Nat /\ m >= 1 /\ ao >= jo
        BY <1>1, <2>1
      <4> QED BY <1>1, <1>6, <2>1, <2>3, <4>1, Zenon
    <3> HIDE DEF n, ao, jo, js, cs
    <3>2. m + (ao - 1) # js + 1 /\ n \in 1..(js - (jo - 1)) /\ jo - 1 + n = ao - 1 + m
      BY <3>1
    <3> QED BY <3>1, <3>2, Zenon DEF ao, jo, js
  <2>5. j.events[n] = a.events[m]
    BY <1>2, <2>4, Zenon
  <2> HIDE DEF n
  <2> DEFINE mark == a.oldest - 1 + m
             at == After(cur, s.queue, i)
  <2> HIDE DEF mark, at
  <2>6. j.events[n].name = "resync_required" /\ at.epoch = j.epoch /\ s.cursor.epoch = j.epoch
    BY <1>1, <1>6, <2>5, Zenon DEF at
  <2>7. at.sequence < mark /\ mark <= s.cursor.sequence /\ j.oldest - 1 + n = mark
    BY <1>6, <2>4, Zenon DEF mark, at
  <2>8. at.sequence < j.oldest - 1 + n /\ j.oldest - 1 + n <= s.cursor.sequence
    BY <2>7, Zenon
  <2> QED BY <1>3, <1>6, <2>4, <2>6, <2>8, Zenon DEF Reported, at
<1>7. Reported(a, cur, s)
  BY <1>6, Zenon DEF Reported
<1> QED BY <1>4, <1>5, <1>7 DEF ClientOK

-----------------------------------------------------------------------------
(* A batch.  The frames f of one read from `from' have positions in the        *)
(* journal: ix gives, in order, the index of the event each one stands for     *)
(* (of the event before the first one, for the handshake), and no event that   *)
(* passes the client's filter is left out.                                    *)

Batch(c, j, from, f, ix) ==
  /\ f \in Seq(FrameType)
  /\ \A n \in 1..Len(f) :
       /\ ix[n] \in Nat /\ ix[n] <= Len(j.events) /\ from.sequence <= j.oldest - 1 + ix[n]
       /\ f[n].id = Position(j, ix[n]) /\ f[n].next = TailOf(j)
  /\ \A m, n \in 1..Len(f) : m < n => ix[m] < ix[n]
  /\ \A e \in (from.sequence - j.oldest + 2)..Len(j.events) :
       Keeps(c, j.events[e]) =>
         \E n \in 1..Len(f) :
           /\ ix[n] = e
           /\ f[n].name = j.events[e].name /\ f[n].key = j.events[e].key

LEMMA FrameFacts ==
  ASSUME NEW j \in JournalOf(Event), Aligned(j), NEW i \in 1..Len(j.events)
  PROVE  /\ Frame(Position(j, i), j.events[i], TailOf(j)) \in FrameType
         /\ Frame(Position(j, i), j.events[i], TailOf(j)).id = Position(j, i)
         /\ Frame(Position(j, i), j.events[i], TailOf(j)).next = TailOf(j)
         /\ Frame(Position(j, i), j.events[i], TailOf(j)).name = j.events[i].name
         /\ Frame(Position(j, i), j.events[i], TailOf(j)).key = j.events[i].key
<1>1. /\ j.epoch \in Nat /\ j.sequence \in Nat /\ j.oldest \in Nat /\ j.oldest >= 1
      /\ j.events \in Seq(Event) /\ i \in Nat
  BY DEF JournalOf
<1>2. j.oldest - 1 + i \in Nat
  BY <1>1
<1>3. Position(j, i) \in Cursor /\ TailOf(j) \in Cursor
  BY <1>1, <1>2 DEF Position, TailOf, Cursor
<1>4. j.events[i] \in Event
  BY <1>1
<1>5. j.events[i].name \in {"changed", "resync_required"} /\ j.events[i].key \in Keys \cup {NoKey}
  BY <1>4 DEF Event, ResyncRequired
<1> QED BY <1>3, <1>5 DEF Frame, FrameType

LEMMA ReplayFacts ==
  ASSUME NEW c, NEW j \in JournalOf(Event), Aligned(j), NEW from \in Cursor,
         ~Unreadable(j, from)
  PROVE  \E ix : /\ Batch(c, j, from, Replay(c, j, from), ix)
                 /\ \A n \in 1..Len(Replay(c, j, from)) :
                      from.sequence - j.oldest + 2 <= ix[n]
<1> DEFINE L == Len(j.events)
           first == from.sequence - (j.oldest - 1) + 1
           K == {i \in first..L : Keeps(c, j.events[i])}
           N == Cardinality(K)
           frame(i) == Frame(Position(j, i), j.events[i], TailOf(j))
           ix == [n \in 1..N |-> Nth(K, n)]
           f == [n \in 1..N |-> frame(Nth(K, n))]
<1>1. /\ j.sequence \in Nat /\ j.oldest \in Nat /\ j.oldest >= 1 /\ from.sequence \in Nat
      /\ L \in Nat /\ L = j.sequence - (j.oldest - 1)
  BY DEF JournalOf, Aligned, Cursor
<1>2. from.sequence >= j.oldest - 1 /\ from.sequence <= j.sequence
  BY <1>1 DEF Unreadable
<1>3. first \in Nat /\ first >= 1 /\ first = from.sequence - j.oldest + 2
  BY <1>1, <1>2
<1>4. Replay(c, j, from) = f
  BY Zenon DEF Replay, Nth
<1>5. ASSUME NEW i \in K
      PROVE  /\ i \in 1..L /\ i \in Nat /\ from.sequence <= j.oldest - 1 + i
             /\ Keeps(c, j.events[i]) /\ first <= i
  <2>1. i \in first..L /\ Keeps(c, j.events[i])
    BY Zenon
  <2> HIDE DEF K, f, ix, N
  <2> QED BY <1>1, <1>3, <2>1
<1>6. K \subseteq 1..L
  BY <1>5, Zenon
<1>7. \A e \in first..L : Keeps(c, j.events[e]) => e \in K
  BY Zenon
<1> HIDE DEF K
<1>8. /\ N \in Nat
      /\ \A n \in 1..N : Nth(K, n) \in K
      /\ \A m, n \in 1..N : m < n => Nth(K, m) < Nth(K, n)
      /\ \A e \in K : \E n \in 1..N : Nth(K, n) = e
  BY <1>1, <1>6, NthFacts, Zenon
<1> HIDE DEF N
<1>9. ASSUME NEW i \in K
      PROVE  /\ frame(i) \in FrameType /\ frame(i).id = Position(j, i)
             /\ frame(i).next = TailOf(j)
             /\ frame(i).name = j.events[i].name /\ frame(i).key = j.events[i].key
  BY <1>5, FrameFacts
<1> HIDE DEF frame, L, first
<1>10. f \in Seq(FrameType) /\ Len(f) = N /\ \A n \in 1..N : f[n] = frame(Nth(K, n)) /\ ix[n] = Nth(K, n)
  BY <1>8, <1>9
<1> HIDE DEF f, ix
<1>11. ASSUME NEW n \in 1..Len(f)
       PROVE  /\ ix[n] \in Nat /\ ix[n] <= L /\ from.sequence <= j.oldest - 1 + ix[n]
              /\ f[n].id = Position(j, ix[n]) /\ f[n].next = TailOf(j)
  <2>1. Nth(K, n) \in K /\ f[n] = frame(Nth(K, n)) /\ ix[n] = Nth(K, n)
    BY <1>8, <1>10
  <2>2. ix[n] \in 1..L
    BY <1>5, <2>1
  <2>3. ix[n] <= L
    BY <1>1, <2>2 DEF L
  <2> QED BY <1>5, <1>9, <2>1, <2>3, Zenon
<1>12. \A m, n \in 1..Len(f) : m < n => ix[m] < ix[n]
  BY <1>8, <1>10
<1>13. ASSUME NEW e \in first..L, Keeps(c, j.events[e])
       PROVE  \E n \in 1..Len(f) :
                /\ ix[n] = e
                /\ f[n].name = j.events[e].name /\ f[n].key = j.events[e].key
  <2>1. e \in K
    BY <1>7, <1>13 DEF first, L
  <2>2. PICK n \in 1..N : Nth(K, n) = e
    BY <1>8, <2>1
  <2>3. n \in 1..Len(f) /\ ix[n] = e /\ f[n] = frame(e)
    BY <1>10, <2>2
  <2> QED BY <1>9, <2>1, <2>3, Zenon
<1>14. Batch(c, j, from, f, ix)
  BY <1>3, <1>10, <1>11, <1>12, <1>13, Zenon DEF Batch, L
<1>15. ASSUME NEW n \in 1..Len(f)
       PROVE  from.sequence - j.oldest + 2 <= ix[n]
  <2>1. Nth(K, n) \in K /\ ix[n] = Nth(K, n)
    BY <1>8, <1>10
  <2> QED BY <1>3, <1>5, <2>1, Zenon
<1> QED BY <1>4, <1>14, <1>15, Zenon

LEMMA BatchExists ==
  ASSUME NEW c, NEW j \in JournalOf(Event), Aligned(j), NEW from \in Cursor,
         ~Unreadable(j, from),
         NEW ready, ready = <<>> \/ ready = <<ReadyFrame(from, TailOf(j))>>
  PROVE  \E ix : Batch(c, j, from, ready \o Replay(c, j, from), ix)
<1> DEFINE g == Replay(c, j, from)
           frame == ReadyFrame(from, TailOf(j))
           f == ready \o g
<1>1. PICK ig : /\ Batch(c, j, from, g, ig)
               /\ \A n \in 1..Len(g) : from.sequence - j.oldest + 2 <= ig[n]
  BY ReplayFacts
<1>2. g \in Seq(FrameType)
  BY <1>1 DEF Batch
<1> HIDE DEF g
<1>3. CASE ready = <<>>
  <2>1. f = g
    BY <1>2, <1>3
  <2> QED BY <1>1, <2>1, Zenon DEF g
<1>4. CASE ready = <<frame>>
  <2>1. /\ j.sequence \in Nat /\ j.oldest \in Nat /\ j.oldest >= 1 /\ j.epoch \in Nat
        /\ from.sequence \in Nat /\ from.epoch \in Nat
        /\ from = [epoch |-> from.epoch, sequence |-> from.sequence]
        /\ Len(j.events) \in Nat /\ Len(j.events) = j.sequence - (j.oldest - 1)
    BY DEF JournalOf, Aligned, Cursor
  <2>2. from.epoch = j.epoch /\ from.sequence >= j.oldest - 1 /\ from.sequence <= j.sequence
    BY <2>1 DEF Unreadable
  <2> DEFINE p == from.sequence - (j.oldest - 1)
             ix == [n \in 1..Len(f) |-> IF n = 1 THEN p ELSE ig[n - 1]]
  <2>3. /\ p \in Nat /\ p <= Len(j.events) /\ from.sequence <= j.oldest - 1 + p
        /\ j.oldest - 1 + p = from.sequence /\ p < from.sequence - j.oldest + 2
    BY SMTT(30), <2>1, <2>2
  <2>4. /\ frame \in FrameType /\ frame.id = from /\ frame.next = TailOf(j)
    BY <2>1 DEF ReadyFrame, FrameType, TailOf, Cursor
  <2>5. from = Position(j, p)
    BY <2>1, <2>2, <2>3 DEF Position
  <2> HIDE DEF frame
  <2>6. /\ f \in Seq(FrameType) /\ Len(f) = 1 + Len(g) /\ Len(g) \in Nat
        /\ f[1] = frame /\ \A n \in 1..Len(g) : f[1 + n] = g[n]
    BY <1>2, <1>4, <2>4
  <2> HIDE DEF f, p
  <2>7. ix[1] = p /\ \A n \in 1..Len(g) : ix[n + 1] = ig[n] /\ f[n + 1] = g[n] /\ n + 1 \in 1..Len(f)
    BY <2>6
  <2>8. \A n \in 1..Len(f) : n = 1 \/ (n - 1 \in 1..Len(g) /\ n = (n - 1) + 1)
    BY <2>6
  <2> HIDE DEF ix
  <2>9. ASSUME NEW n \in 1..Len(f)
        PROVE  /\ ix[n] \in Nat /\ ix[n] <= Len(j.events) /\ from.sequence <= j.oldest - 1 + ix[n]
               /\ f[n].id = Position(j, ix[n]) /\ f[n].next = TailOf(j)
    <3>1. CASE n = 1
      BY <2>3, <2>4, <2>5, <2>6, <2>7, <3>1, Zenon
    <3>2. CASE n # 1
      <4> DEFINE m == n - 1
      <4>1. m \in 1..Len(g) /\ n = m + 1
        BY <2>8, <3>2, Zenon
      <4> HIDE DEF m
      <4>2. ix[n] = ig[m] /\ f[n] = g[m]
        BY <2>7, <4>1, Zenon
      <4> QED BY <1>1, <4>1, <4>2, Zenon DEF Batch
    <3> QED BY <3>1, <3>2
  <2>10. ASSUME NEW m \in 1..Len(f), NEW n \in 1..Len(f), m < n
         PROVE  ix[m] < ix[n]
    <3> DEFINE n1 == n - 1
    <3>1. n1 \in 1..Len(g) /\ n = n1 + 1 /\ (m = 1 \/ (m - 1 \in 1..Len(g) /\ m = (m - 1) + 1))
      BY <2>6, <2>10
    <3> HIDE DEF n1
    <3>2. ix[n] = ig[n1]
      BY <2>7, <3>1, Zenon
    <3>3. CASE m = 1
      <4>1. ig[n1] \in Nat /\ from.sequence - j.oldest + 2 <= ig[n1]
        BY <1>1, <3>1, Zenon DEF Batch
      <4>2. p < ig[n1]
        BY SMTT(30), <2>1, <2>3, <4>1
      <4> QED BY <2>7, <3>2, <3>3, <4>2, Zenon
    <3>4. CASE m # 1
      <4> DEFINE m1 == m - 1
      <4>1. m1 \in 1..Len(g) /\ m = m1 + 1
        BY <3>1, <3>4, Zenon
      <4>2. m1 < n1
        BY <2>10, <3>1
      <4> HIDE DEF m1
      <4>3. ix[m] = ig[m1]
        BY <2>7, <4>1, Zenon
      <4> QED BY <1>1, <3>1, <3>2, <4>1, <4>2, <4>3, Zenon DEF Batch
    <3> QED BY <3>3, <3>4
  <2>11. ASSUME NEW e \in (from.sequence - j.oldest + 2)..Len(j.events), Keeps(c, j.events[e])
         PROVE  \E n \in 1..Len(f) :
                  /\ ix[n] = e
                  /\ f[n].name = j.events[e].name /\ f[n].key = j.events[e].key
    <3>1. PICK n \in 1..Len(g) :
            ig[n] = e /\ g[n].name = j.events[e].name /\ g[n].key = j.events[e].key
      BY <1>1, <2>11, Zenon DEF Batch
    <3>2. ix[n + 1] = ig[n] /\ f[n + 1] = g[n] /\ n + 1 \in 1..Len(f)
      BY <2>7, Zenon
    <3> DEFINE n1 == n + 1
    <3> HIDE DEF n1
    <3>3. ix[n1] = e /\ f[n1] = g[n] /\ n1 \in 1..Len(f)
      BY <3>1, <3>2, Zenon DEF n1
    <3> QED BY <3>1, <3>3, Zenon
  <2>12. Batch(c, j, from, f, ix)
    BY <2>6, <2>9, <2>10, <2>11, Zenon DEF Batch
  <2> QED BY <2>12, Zenon DEF f, g
<1> QED BY <1>3, <1>4

-----------------------------------------------------------------------------
(* What the source's reads do to a client's promise.                          *)

LEMMA PollTold ==
  ASSUME NEW c, NEW j \in JournalOf(Event), Aligned(j), NEW cur, NEW s,
         Cursors(j, cur, s), s.open, ~s.finished, ~Unreadable(j, s.cursor),
         NEW f, NEW ix, Batch(c, j, s.cursor, f, ix),
         NEW t, t.queue = s.queue \o f, t.cursor = TailOf(j),
         NEW k, Selected(c, k), Told(j, cur, s, k)
  PROVE  Told(j, cur, t, k)
<1> DEFINE q == s.queue
           Q == t.queue
           old == j.oldest
           es == s.cursor.sequence
<1>1. q \in Seq(FrameType) /\ f \in Seq(FrameType) /\ s.cursor \in Cursor
  BY DEF Cursors, StreamType, Batch
<1>2. /\ Q \in Seq(FrameType) /\ Len(q) \in Nat /\ Len(f) \in Nat /\ Len(Q) = Len(q) + Len(f)
      /\ \A i \in 1..Len(q) : Q[i] = q[i]
      /\ \A i \in 1..Len(f) : Q[Len(q) + i] = f[i]
      /\ \A i \in 1..Len(Q) :
           i \notin 1..Len(q) => i - Len(q) \in 1..Len(f) /\ Q[i] = f[i - Len(q)]
  BY <1>1, ConcatFacts
<1>3. old \in Nat /\ old >= 1 /\ es \in Nat /\ Len(j.events) \in Nat
  BY <1>1 DEF JournalOf, Cursor
<1>4. ASSUME Spared(q, Len(q), k)
      PROVE  \E n \in 1..Len(f) : \E e \in 1..Len(j.events) :
               /\ Announces(j.events[e], k)
               /\ ix[n] = e /\ Invalidates(f[n], k)
  <2>1. PendingIn(j, s.cursor, k)
    BY <1>4, Zenon DEF Told
  <2>2. PICK e \in (es - old + 2)..Len(j.events) : Announces(j.events[e], k)
    BY <2>1, Zenon DEF PendingIn
  <2>3. Keeps(c, j.events[e])
    BY <2>2, Zenon DEF Announces, Keeps
  <2>4. PICK n \in 1..Len(f) :
          ix[n] = e /\ f[n].name = j.events[e].name /\ f[n].key = j.events[e].key
    BY <2>2, <2>3, Zenon DEF Batch
  <2>5. Invalidates(f[n], k)
    BY <2>2, <2>4, Zenon DEF Announces, Invalidates
  <2>6. es >= old - 1
    BY <1>1, <1>3 DEF Unreadable
  <2>7. e \in 1..Len(j.events)
    BY <1>3, <2>2, <2>6
  <2> QED BY <2>2, <2>4, <2>5, <2>7, Zenon
<1>5. ASSUME NEW i \in 0..Len(Q), Spared(Q, i, k)
      PROVE  PendingIn(j, After(cur, Q, i), k)
  <2>1. CASE i \in 0..Len(q)
    <3>1. \A m \in 1..i : m \in 1..Len(q)
      BY <1>2, <2>1
    <3>2. Spared(q, i, k)
      BY <1>2, <1>5, <3>1, Zenon DEF Spared
    <3>3. PendingIn(j, After(cur, q, i), k)
      BY <2>1, <3>2, Zenon DEF Told
    <3>4. i = 0 \/ i \in 1..Len(q)
      BY <1>2, <2>1
    <3>5. After(cur, Q, i) = After(cur, q, i)
      BY <1>2, <3>4, Zenon DEF After
    <3> QED BY <3>3, <3>5, Zenon
  <2>2. CASE i \notin 0..Len(q)
    <3> DEFINE n == i - Len(q)
    <3>1. i \in 1..Len(Q) /\ i \notin 1..Len(q) /\ i # 0 /\ Len(q) + n = i
          /\ \A m \in 1..Len(q) : m \in 1..i
      BY <1>2, <2>2
    <3>2. n \in 1..Len(f) /\ Q[i] = f[n]
      BY <1>2, <3>1, Zenon
    <3>3. Spared(q, Len(q), k)
      BY <1>2, <1>5, <3>1, Zenon DEF Spared
    <3>4. PICK m \in 1..Len(f) : \E e \in 1..Len(j.events) :
            Announces(j.events[e], k) /\ ix[m] = e /\ Invalidates(f[m], k)
      BY <1>4, <3>3, Zenon
    <3> DEFINE e == ix[m]
    <3>5. e \in 1..Len(j.events) /\ Announces(j.events[e], k) /\ Invalidates(f[m], k)
      BY <3>4, Zenon
    <3> HIDE DEF n
    <3>6. n < m
      <4>1. SUFFICES ASSUME m <= n PROVE FALSE
        BY <1>2, <3>2
      <4>2. Len(q) + m \in 1..i
        BY <1>2, <3>1, <3>2, <4>1
      <4>3. Q[Len(q) + m] = f[m]
        BY <1>2, Zenon
      <4> QED BY <1>5, <3>5, <4>2, <4>3, Zenon DEF Spared
    <3>7. /\ ix[n] < e /\ ix[n] \in Nat /\ f[n].id = Position(j, ix[n])
      BY <3>2, <3>4, <3>6, Zenon DEF Batch
    <3>8. i \in 1..i
      BY <1>2, <3>1
    <3>9. f[n].name # "resync_required"
      BY <1>5, <3>2, <3>8, Zenon DEF Spared, Invalidates
    <3>10. After(cur, Q, i) = Position(j, ix[n])
      BY <3>1, <3>2, <3>7, <3>9, Zenon DEF After
    <3>11. Position(j, ix[n]).sequence = old - 1 + ix[n]
      BY DEF Position
    <3> HIDE DEF e
    <3>12. e \in ((old - 1 + ix[n]) - old + 2)..Len(j.events)
      BY <1>3, <3>5, <3>7
    <3>13. e \in (Position(j, ix[n]).sequence - old + 2)..Len(j.events)
      BY <3>11, <3>12, Zenon
    <3> QED BY <3>5, <3>10, <3>13, Zenon DEF PendingIn
  <2> QED BY <2>1, <2>2
<1>6. ASSUME Spared(Q, Len(Q), k)
      PROVE  FALSE
  <2>1. \A m \in 1..Len(q) : m \in 1..Len(Q)
    BY <1>2
  <2>2. Spared(q, Len(q), k)
    BY <1>2, <1>6, <2>1, Zenon DEF Spared
  <2>3. PICK n \in 1..Len(f) : Invalidates(f[n], k)
    BY <1>4, <2>2, Zenon
  <2>4. Len(q) + n \in 1..Len(Q)
    BY <1>2
  <2>5. Q[Len(q) + n] = f[n]
    BY <1>2, Zenon
  <2> QED BY <1>6, <2>3, <2>4, <2>5, Zenon DEF Spared
<1> QED BY <1>5, <1>6, Zenon DEF Told

(* The same read leaves every mark it passes as a frame still to be delivered. *)
LEMMA PollClient ==
  ASSUME NEW c, NEW j \in JournalOf(Event), Aligned(j), NEW cur, NEW s,
         ClientOK(j, cur, s), s.open, ~Unreadable(j, s.cursor),
         NEW f, NEW ix, Batch(c, j, s.cursor, f, ix),
         NEW t \in StreamType, t.open, t.queue = s.queue \o f, t.cursor = TailOf(j)
  PROVE  ClientOK(j, cur, t)
<1> DEFINE q == s.queue
           Q == t.queue
           old == j.oldest
           top == j.sequence
           es == s.cursor.sequence
<1>1. q \in Seq(FrameType) /\ f \in Seq(FrameType) /\ s.cursor \in Cursor
  BY DEF ClientOK, Cursors, StreamType, Batch
<1>2. /\ Q \in Seq(FrameType) /\ Len(q) \in Nat /\ Len(f) \in Nat /\ Len(Q) = Len(q) + Len(f)
      /\ \A i \in 1..Len(q) : Q[i] = q[i]
      /\ \A i \in 1..Len(f) : Q[Len(q) + i] = f[i]
      /\ \A i \in 1..Len(Q) :
           i \notin 1..Len(q) => i - Len(q) \in 1..Len(f) /\ Q[i] = f[i - Len(q)]
  BY <1>1, ConcatFacts
<1>3. /\ old \in Nat /\ old >= 1 /\ es \in Nat /\ top \in Nat
      /\ Len(j.events) \in Nat /\ Len(j.events) = top - (old - 1)
  BY <1>1 DEF JournalOf, Cursor, Aligned
<1>4. s.cursor.epoch = j.epoch
  BY DEF Unreadable
<1>5. TailOf(j).epoch = j.epoch /\ TailOf(j).sequence = top
  BY DEF TailOf
<1>6. Behind(j, TailOf(j))
  BY <1>3, <1>5 DEF Behind
<1>7. ASSUME NEW n \in 1..Len(f)
      PROVE  /\ f[n].next = TailOf(j) /\ f[n].id = Position(j, ix[n]) /\ ix[n] \in Nat
             /\ f[n].id.epoch = j.epoch /\ f[n].id.sequence = old - 1 + ix[n]
             /\ Behind(j, f[n].id)
  <2>1. f[n].next = TailOf(j) /\ f[n].id = Position(j, ix[n]) /\ ix[n] \in Nat
        /\ ix[n] <= Len(j.events)
    BY Zenon DEF Batch
  <2>2. Position(j, ix[n]).epoch = j.epoch /\ Position(j, ix[n]).sequence = old - 1 + ix[n]
    BY DEF Position
  <2>3. old - 1 + ix[n] <= top
    BY <1>3, <2>1
  <2>4. Behind(j, Position(j, ix[n]))
    BY <2>2, <2>3, Zenon DEF Behind
  <2> QED BY <2>1, <2>2, <2>4, Zenon
<1>8. Cursors(j, cur, t)
  <2>1. ASSUME NEW i \in 1..Len(Q)
        PROVE  Behind(j, Q[i].id) /\ Behind(j, Q[i].next)
    <3>1. CASE i \in 1..Len(q)
      BY <1>2, <3>1, Zenon DEF ClientOK, Cursors
    <3>2. CASE i \notin 1..Len(q)
      <4>1. PICK n \in 1..Len(f) : Q[i] = f[n]
        BY <1>2, <3>2, Zenon
      <4> QED BY <1>6, <1>7, <4>1, Zenon
    <3> QED BY <3>1, <3>2
  <2> QED BY <1>6, <2>1, Zenon DEF ClientOK, Cursors
<1>9. Outdated(j, cur, t)
  BY <1>5, Zenon DEF Outdated
<1>10. ASSUME NEW i \in 0..Len(Q), NEW m \in 1..Len(j.events),
              j.events[m].name = "resync_required",
              After(cur, Q, i).epoch = j.epoch,
              After(cur, Q, i).sequence < old - 1 + m,
              old - 1 + m <= top
       PROVE  \E p \in (i + 1)..Len(Q) : Q[p].name = "resync_required"
  <2>1. ASSUME m \in (es - old + 2)..Len(j.events)
        PROVE  \E n \in 1..Len(f) : ix[n] = m /\ f[n].name = "resync_required"
    <3>1. Keeps(c, j.events[m])
      BY <1>10, Zenon DEF Keeps
    <3>2. \A e \in (es - old + 2)..Len(j.events) :
            Keeps(c, j.events[e]) => \E n \in 1..Len(f) : ix[n] = e /\ f[n].name = j.events[e].name
      BY Zenon DEF Batch
    <3>3. PICK n \in 1..Len(f) : ix[n] = m /\ f[n].name = j.events[m].name
      BY <2>1, <3>1, <3>2, Zenon
    <3> QED BY <1>10, <3>3, Zenon
  <2>2. CASE i \in 0..Len(q)
    <3>1. i = 0 \/ i \in 1..Len(q)
      BY <1>2, <2>2
    <3>2. After(cur, Q, i) = After(cur, q, i)
      BY <1>2, <3>1, Zenon DEF After
    <3>3. CASE old - 1 + m <= es
      <4>1. /\ After(cur, q, i).epoch = j.epoch
            /\ After(cur, q, i).sequence < old - 1 + m
        BY <1>10, <3>2, Zenon
      <4>2. Reported(j, cur, s)
        BY DEF ClientOK
      <4>3. PICK p \in (i + 1)..Len(q) : q[p].name = "resync_required"
        BY <1>4, <1>10, <2>2, <3>3, <4>1, <4>2, Zenon DEF Reported
      <4>4. p \in 1..Len(q) /\ p \in (i + 1)..Len(Q)
        BY <1>2, <2>2
      <4> QED BY <1>2, <4>3, <4>4, Zenon
    <3>4. CASE ~(old - 1 + m <= es)
      <4>1. m \in (es - old + 2)..Len(j.events)
        BY <1>3, <3>4
      <4>2. PICK n \in 1..Len(f) : f[n].name = "resync_required"
        BY <2>1, <4>1, Zenon
      <4>3. Len(q) + n \in (i + 1)..Len(Q)
        BY <1>2, <2>2
      <4> QED BY <1>2, <4>2, <4>3, Zenon
    <3> QED BY <3>3, <3>4
  <2>3. CASE i \notin 0..Len(q)
    <3> DEFINE n == i - Len(q)
    <3>1. i \in 1..Len(Q) /\ i \notin 1..Len(q) /\ i # 0 /\ Len(q) + n = i
      BY <1>2, <2>3
    <3>2. n \in 1..Len(f) /\ Q[i] = f[n]
      BY <1>2, <3>1, Zenon
    <3> HIDE DEF n
    <3>3. f[n].name # "resync_required"
      <4>1. SUFFICES ASSUME f[n].name = "resync_required" PROVE FALSE
        OBVIOUS
      <4>2. After(cur, Q, i) = TailOf(j)
        BY <1>7, <3>1, <3>2, <4>1, Zenon DEF After
      <4>3. After(cur, Q, i).sequence = top
        BY <1>5, <4>2, Zenon
      <4>4. top < old - 1 + m
        BY <1>10, <4>3, Zenon
      <4> QED BY <1>3, <1>10, <4>4
    <3>4. After(cur, Q, i).sequence = old - 1 + ix[n]
      BY <1>7, <3>1, <3>2, <3>3, Zenon DEF After
    <3>5. old - 1 + ix[n] < old - 1 + m
      BY <1>10, <3>4, Zenon
    <3>6. ix[n] < m /\ ix[n] \in Nat /\ es <= old - 1 + ix[n]
      <4>1. ix[n] \in Nat /\ es <= old - 1 + ix[n]
        BY <3>2, Zenon DEF Batch
      <4> QED BY <1>3, <3>5, <4>1
    <3>7. m \in (es - old + 2)..Len(j.events)
      BY <1>3, <3>6
    <3>8. PICK p \in 1..Len(f) : ix[p] = m /\ f[p].name = "resync_required"
      BY <2>1, <3>7, Zenon
    <3>9. ~(p < n) /\ p # n
      <4>1. p < n => ix[p] < ix[n]
        BY <3>2, Zenon DEF Batch
      <4> QED BY <3>6, <3>8, <4>1
    <3>10. Len(q) + p \in (i + 1)..Len(Q)
      BY <1>2, <3>1, <3>2, <3>9
    <3> QED BY <1>2, <3>8, <3>10, Zenon
  <2> QED BY <2>2, <2>3
<1>11. Reported(j, cur, t)
  BY <1>5, <1>10, Zenon DEF Reported
<1> QED BY <1>8, <1>9, <1>11, Zenon DEF ClientOK

(* A read that fails ends the stream with one resync_required.                 *)
LEMMA ResyncEnds ==
  ASSUME NEW j \in JournalOf(Event), NEW cur, NEW s, ClientOK(j, cur, s), s.open, ~s.finished,
         NEW f \in FrameType, f.name = "resync_required", f.id = TailOf(j), f.next = TailOf(j),
         NEW t \in StreamType, t.open, t.finished, t.queue = Append(s.queue, f),
         t.cursor = s.cursor
  PROVE  /\ ClientOK(j, cur, t)
         /\ \A k : Told(j, cur, s, k) => Told(j, cur, t, k)
<1> DEFINE q == s.queue
           Q == t.queue
           N == Len(q)
<1>1. q \in Seq(FrameType) /\ s.cursor \in Cursor /\ N \in Nat
  BY DEF ClientOK, Cursors, StreamType
<1>2. /\ Len(Q) = N + 1 /\ Q[N + 1] = f /\ \A i \in 1..N : Q[i] = q[i]
  BY <1>1
<1> HIDE DEF Q
<1>3. \A i \in 0..N : After(cur, Q, i) = After(cur, q, i)
  <2>1. ASSUME NEW i \in 0..N
        PROVE  i = 0 \/ i \in 1..N
    BY <1>1
  <2> QED BY <1>2, <2>1, Zenon DEF After
<1>4. TailOf(j).epoch = j.epoch /\ TailOf(j).sequence = j.sequence /\ j.epoch \in Nat
      /\ j.sequence \in Nat /\ j.oldest \in Nat
  BY DEF TailOf, JournalOf
<1>5. Behind(j, TailOf(j))
  BY <1>4 DEF Behind
<1>6. \A i \in 1..Len(Q) : i \in 1..N \/ i = N + 1
  BY <1>1, <1>2
<1>7. Cursors(j, cur, t)
  <2>1. \A i \in 1..N : Behind(j, q[i].id) /\ Behind(j, q[i].next)
    BY Zenon DEF ClientOK, Cursors
  <2>2. ASSUME NEW i \in 1..Len(Q)
        PROVE  Behind(j, Q[i].id) /\ Behind(j, Q[i].next)
    BY <1>2, <1>5, <1>6, <2>1, Zenon
  <2> QED BY <2>2, Zenon DEF ClientOK, Cursors, Q
<1>8. Outdated(j, cur, t)
  <2>1. ASSUME t.cursor.epoch # j.epoch
        PROVE  cur.epoch # j.epoch /\ Len(Q) = 1
    <3>1. cur.epoch # j.epoch /\ q = <<>>
      BY <2>1, Zenon DEF ClientOK, Outdated
    <3> QED BY <1>2, <3>1
  <2> QED BY <2>1, Zenon DEF Outdated, Q
<1>9. ASSUME t.cursor.epoch = j.epoch, NEW i \in 0..Len(Q), NEW m \in 1..Len(j.events),
             After(cur, Q, i).sequence < j.oldest - 1 + m,
             j.oldest - 1 + m <= t.cursor.sequence
      PROVE  \E p \in (i + 1)..Len(Q) : Q[p].name = "resync_required"
  <2>1. CASE i \in 0..N
    <3>1. N + 1 \in (i + 1)..Len(Q)
      BY <1>1, <1>2, <2>1
    <3> QED BY <1>2, <3>1, Zenon
  <2>2. CASE i \notin 0..N
    <3>1. i = N + 1 /\ i # 0
      BY <1>1, <1>2, <2>2
    <3>2. After(cur, Q, i) = TailOf(j)
      BY <1>2, <3>1, Zenon DEF After
    <3>3. Behind(j, s.cursor)
      BY DEF ClientOK, Cursors
    <3>4. s.cursor.sequence <= j.sequence /\ s.cursor.sequence \in Nat
      BY <1>1, <1>4, <1>9, <3>3 DEF Behind, Cursor
    <3>5. j.sequence < j.oldest - 1 + m /\ j.oldest - 1 + m <= s.cursor.sequence
      BY <1>4, <1>9, <3>2, Zenon
    <3> QED BY <1>4, <3>4, <3>5
  <2> QED BY <2>1, <2>2
<1>10. Reported(j, cur, t)
  BY <1>9, Zenon DEF Reported, Q
<1>11. ASSUME NEW k, Told(j, cur, s, k)
       PROVE  Told(j, cur, t, k)
  <2>1. ASSUME NEW i \in 0..Len(Q), Spared(Q, i, k)
        PROVE  PendingIn(j, After(cur, Q, i), k)
    <3>1. CASE i \in 0..N
      <4>1. \A m \in 1..i : m \in 1..N
        BY <1>1, <3>1
      <4>2. Spared(q, i, k)
        BY <1>2, <2>1, <4>1, Zenon DEF Spared
      <4> QED BY <1>3, <1>11, <3>1, <4>2, Zenon DEF Told
    <3>2. CASE i \notin 0..N
      <4>1. i = N + 1 /\ i \in 1..i
        BY <1>1, <1>2, <3>2
      <4> QED BY <1>2, <2>1, <4>1, Zenon DEF Spared, Invalidates
    <3> QED BY <3>1, <3>2
  <2> QED BY <2>1, Zenon DEF Told, Q
<1> QED BY <1>7, <1>8, <1>10, <1>11, Zenon DEF ClientOK

(* A client without a stream resumes from its cursor.                          *)
LEMMA ClosedFacts ==
  ASSUME NEW j \in JournalOf(Event), NEW cur \in Cursor, Behind(j, cur)
  PROVE  /\ Closed \in StreamType /\ ClientOK(j, cur, Closed)
         /\ \A k : PendingIn(j, cur, k) => Told(j, cur, Closed, k)
<1>1. Closed \in StreamType /\ ~Closed.open /\ Closed.queue = <<>> /\ Closed.cursor = NoCursor
  BY DEF Closed, StreamType, NoCursor, Cursor
<1>2. Behind(j, NoCursor)
  BY DEF Behind, NoCursor, JournalOf
<1>3. 1..Len(Closed.queue) = {} /\ \A i \in 0..Len(Closed.queue) : i = 0
  BY <1>1
<1>4. Cursors(j, cur, Closed)
  BY <1>1, <1>2, <1>3, Zenon DEF Cursors
<1>5. Outdated(j, cur, Closed) /\ Reported(j, cur, Closed)
  BY <1>1, Zenon DEF Outdated, Reported
<1>6. ASSUME NEW k, PendingIn(j, cur, k)
      PROVE  Told(j, cur, Closed, k)
  <2>1. \A i \in 0..Len(Closed.queue) : After(cur, Closed.queue, i) = cur
    BY <1>3, Zenon DEF After
  <2> QED BY <1>1, <1>6, <2>1, Zenon DEF Told
<1> QED BY <1>1, <1>4, <1>5, <1>6, Zenon DEF ClientOK

LEMMA ToldAtOnce ==
  ASSUME NEW j, NEW cur, NEW s, s.queue \in Seq(FrameType), NEW k, Told(j, cur, s, k)
  PROVE  PendingIn(j, cur, k)
<1>1. 0 \in 0..Len(s.queue) /\ 1..0 = {}
  OBVIOUS
<1>2. Spared(s.queue, 0, k) /\ After(cur, s.queue, 0) = cur
  BY <1>1, Zenon DEF Spared, After
<1> QED BY <1>1, <1>2, Zenon DEF Told

(* A subscription starts at the client's cursor, or at the tail if it has none. *)
LEMMA OpenFacts ==
  ASSUME NEW j \in JournalOf(Event), NEW cur \in Cursor, Behind(j, cur),
         NEW at, at = cur \/ (cur = NoCursor /\ at = TailOf(j)),
         NEW t \in StreamType, t.open, ~t.finished, t.queue = <<>>, t.cursor = at
  PROVE  /\ ClientOK(j, cur, t)
         /\ \A k : at = cur /\ PendingIn(j, cur, k) => Told(j, cur, t, k)
<1>1. /\ j.epoch \in Nat /\ j.epoch # 0 /\ j.sequence \in Nat /\ j.oldest \in Nat
  BY DEF JournalOf
<1>2. TailOf(j) \in Cursor /\ Behind(j, TailOf(j)) /\ TailOf(j).epoch = j.epoch
  BY <1>1 DEF TailOf, Cursor, Behind
<1>3. at \in Cursor /\ Behind(j, at)
  BY <1>2
<1>4. t \in StreamType /\ t.open /\ t.queue = <<>> /\ t.cursor = at /\ ~t.finished
  OBVIOUS
<1>5. 1..Len(t.queue) = {} /\ \A i \in 0..Len(t.queue) : i = 0
  BY <1>4
<1>6. \A i \in 0..Len(t.queue) : After(cur, t.queue, i) = cur
  BY <1>5, Zenon DEF After
<1>7. Cursors(j, cur, t)
  BY <1>3, <1>4, <1>5, Zenon DEF Cursors
<1>8. Outdated(j, cur, t)
  BY <1>2, <1>4, Zenon DEF Outdated
<1>9. ASSUME at.epoch = j.epoch, NEW i \in 0..Len(t.queue), NEW m \in 1..Len(j.events),
             After(cur, t.queue, i).epoch = j.epoch,
             After(cur, t.queue, i).sequence < j.oldest - 1 + m,
             j.oldest - 1 + m <= at.sequence
      PROVE  FALSE
  <2>1. cur.epoch = j.epoch /\ cur.sequence < j.oldest - 1 + m /\ cur.sequence \in Nat
    BY <1>6, <1>9 DEF Cursor
  <2>2. cur # NoCursor
    BY <1>1, <2>1 DEF NoCursor
  <2> QED BY <1>1, <1>9, <2>1, <2>2
<1>10. Reported(j, cur, t)
  BY <1>4, <1>9, Zenon DEF Reported
<1>11. ASSUME NEW k, at = cur, PendingIn(j, cur, k)
       PROVE  Told(j, cur, t, k)
  BY <1>4, <1>6, <1>11, Zenon DEF Told
<1> QED BY <1>4, <1>7, <1>8, <1>10, <1>11, Zenon DEF ClientOK

(* The client takes the first frame: t is the stream afterwards, next its      *)
(* cursor.                                                                    *)
Delivered(s, rest, t, next) ==
  /\ rest = SubSeq(s.queue, 2, Len(s.queue))
  /\ t = IF rest = <<>> /\ s.finished THEN Closed ELSE [s EXCEPT !.queue = rest]
  /\ next = IF Head(s.queue).name = "resync_required"
            THEN Head(s.queue).next ELSE Head(s.queue).id

LEMMA DeliverFacts ==
  ASSUME NEW j \in JournalOf(Event), NEW cur, NEW s, ClientOK(j, cur, s), s.open,
         s.queue # <<>>, NEW rest, NEW t, NEW next, Delivered(s, rest, t, next)
  PROVE  /\ next \in Cursor /\ t \in StreamType /\ ClientOK(j, next, t)
         /\ \A k : Told(j, cur, s, k) /\ ~Invalidates(Head(s.queue), k)
                    => Told(j, next, t, k)
<1> DEFINE q == s.queue
           frame == Head(q)
           N == Len(q)
<1>0. /\ rest = SubSeq(s.queue, 2, Len(s.queue))
      /\ t = IF rest = <<>> /\ s.finished THEN Closed ELSE [s EXCEPT !.queue = rest]
      /\ next = IF Head(s.queue).name = "resync_required"
                THEN Head(s.queue).next ELSE Head(s.queue).id
  BY Zenon DEF Delivered
<1>1. q \in Seq(FrameType) /\ s \in StreamType /\ Cursors(j, cur, s)
  BY DEF ClientOK, Cursors, StreamType
<1>2. N \in Nat /\ N >= 1 /\ frame = q[1] /\ frame \in FrameType
  BY <1>1
<1>3. /\ rest \in Seq(FrameType) /\ Len(rest) = N - 1
      /\ \A i \in 1..(N - 1) : rest[i] = q[i + 1]
  BY <1>0, <1>1, <1>2
<1>4. \A i \in 0..(N - 1) : i + 1 \in 0..N /\ i + 1 \in 1..N /\ i + 1 # 0
                          /\ (i = 0 \/ i \in 1..(N - 1)) /\ 0 + 1 = 1
  BY <1>2
<1>5. \A i \in 0..Len(rest) : After(next, rest, i) = After(cur, q, i + 1)
  <2> SUFFICES ASSUME NEW i \in 0..Len(rest)
               PROVE  After(next, rest, i) = After(cur, q, i + 1)
    OBVIOUS
  <2> HIDE DEF q, frame
  <2>0. i \in 0..(N - 1)
    BY <1>3
  <2>1. CASE i = 0
    BY <1>0, <1>2, <1>4, <2>0, <2>1, Zenon DEF After, q, frame
  <2>2. CASE i \in 1..(N - 1)
    <3>1. rest[i] = q[i + 1] /\ i # 0 /\ i + 1 # 0
      BY <1>2, <1>3, <2>2
    <3> QED BY <3>1, Zenon DEF After
  <2> QED BY <1>4, <2>0, <2>1, <2>2, Zenon
<1>6. 1 \in 0..N /\ 0 \in 0..Len(rest) /\ 0 + 1 = 1
  BY <1>2, <1>3
<1>7. next = After(cur, q, 1)
  <2>1. 1 # 0
    OBVIOUS
  <2> QED BY <1>0, <1>2, <2>1, Zenon DEF After
<1>8. next \in Cursor /\ Behind(j, next)
  BY <1>1, <1>6, <1>7, AfterIn, Zenon
<1>9. CASE rest = <<>> /\ s.finished
  <2>1. t = Closed
    BY <1>0, <1>9, Zenon
  <2>2. ASSUME NEW k, Told(j, cur, s, k), ~Invalidates(frame, k)
        PROVE  PendingIn(j, next, k)
    <3>1. \A m \in 1..1 : m = 1
      OBVIOUS
    <3>2. Spared(q, 1, k)
      BY <1>2, <2>2, <3>1, Zenon DEF Spared
    <3> QED BY <1>6, <1>7, <2>2, <3>2, Zenon DEF Told
  <2> QED BY <1>8, <2>1, <2>2, ClosedFacts, Zenon
<1>10. CASE ~(rest = <<>> /\ s.finished)
  <2>1. t = [s EXCEPT !.queue = rest]
    BY <1>0, <1>10, Zenon
  <2>2. /\ t \in StreamType /\ t.open = s.open /\ t.cursor = s.cursor
        /\ t.finished = s.finished /\ t.queue = rest
    BY <1>1, <1>3, <2>1 DEF StreamType
  <2> HIDE DEF q, frame
  <2>3. Cursors(j, next, t)
    <3>1. \A i \in 1..Len(rest) : i + 1 \in 1..N /\ rest[i] = q[i + 1]
      BY <1>2, <1>3
    <3>2. \A i \in 1..N : Behind(j, q[i].id) /\ Behind(j, q[i].next)
      BY <1>1, Zenon DEF Cursors, q
    <3>3. \A i \in 1..Len(rest) : Behind(j, rest[i].id) /\ Behind(j, rest[i].next)
      BY <3>1, <3>2, Zenon
    <3> QED BY <1>1, <1>8, <2>2, <3>3, Zenon DEF Cursors
  <2>4. Outdated(j, next, t)
    <3>1. SUFFICES ASSUME t.open, t.cursor.epoch # j.epoch PROVE FALSE
      BY Zenon DEF Outdated
    <3>2. N = 1 /\ s.finished
      BY <2>2, <3>1, Zenon DEF ClientOK, Outdated, q
    <3>3. rest = <<>>
      BY <1>3, <3>2
    <3> QED BY <1>10, <3>2, <3>3, Zenon
  <2>5. ASSUME t.open, t.cursor.epoch = j.epoch, NEW i \in 0..Len(rest),
               NEW m \in 1..Len(j.events),
               j.events[m].name = "resync_required",
               After(next, rest, i).epoch = j.epoch,
               After(next, rest, i).sequence < j.oldest - 1 + m,
               j.oldest - 1 + m <= t.cursor.sequence
        PROVE  \E p \in (i + 1)..Len(rest) : rest[p].name = "resync_required"
    <3>1. i + 1 \in 0..N
      BY <1>2, <1>3
    <3>2. /\ After(cur, q, i + 1).epoch = j.epoch
          /\ After(cur, q, i + 1).sequence < j.oldest - 1 + m
      BY <1>5, <2>5, Zenon
    <3>3. Reported(j, cur, s)
      BY DEF ClientOK
    <3>4. PICK p \in ((i + 1) + 1)..N : q[p].name = "resync_required"
      BY <2>2, <2>5, <3>1, <3>2, <3>3, Zenon DEF Reported, q
    <3> DEFINE p1 == p - 1
    <3>5. p1 \in (i + 1)..Len(rest) /\ p1 \in 1..(N - 1) /\ p1 + 1 = p
      <4>1. Len(rest) = N - 1 /\ N \in Nat /\ N >= 1 /\ i \in 0..(N - 1) /\ p \in ((i + 1) + 1)..N
        BY <1>2, <1>3, <3>4, Zenon
      <4> DEFINE R == Len(rest)
      <4>2. R = N - 1 /\ N \in Nat /\ N >= 1 /\ i \in 0..(N - 1) /\ p \in ((i + 1) + 1)..N
        BY <4>1
      <4> HIDE DEF N, R
      <4>3. i \in Int /\ p \in Int /\ i >= 0 /\ p >= i + 2 /\ p <= N
        BY <4>2
      <4>4. p - 1 \in (i + 1)..R /\ p - 1 \in 1..(N - 1) /\ (p - 1) + 1 = p
        BY SMTT(30), <4>2, <4>3
      <4> QED BY <4>4 DEF R
    <3> HIDE DEF p1
    <3> QED BY <1>3, <3>4, <3>5, Zenon
  <2>6. Reported(j, next, t)
    <3> DEFINE T == t.queue
    <3>1. T = rest
      BY <2>2
    <3> HIDE DEF T
    <3>2. ASSUME t.open, t.cursor.epoch = j.epoch, NEW i \in 0..Len(T), NEW m \in 1..Len(j.events),
                 j.events[m].name = "resync_required",
                 After(next, T, i).epoch = j.epoch,
                 After(next, T, i).sequence < j.oldest - 1 + m,
                 j.oldest - 1 + m <= t.cursor.sequence
          PROVE  \E p \in (i + 1)..Len(T) : T[p].name = "resync_required"
      BY <2>5, <3>1, <3>2, Zenon
    <3> QED BY <3>2, Zenon DEF Reported, T
  <2>7. ASSUME NEW k, Told(j, cur, s, k), ~Invalidates(frame, k)
        PROVE  Told(j, next, t, k)
    <3>1. ASSUME NEW i \in 0..Len(rest), Spared(rest, i, k)
          PROVE  i + 1 \in 0..N /\ Spared(q, i + 1, k)
      <4>1. ASSUME NEW m \in 1..(i + 1)
            PROVE  ~Invalidates(q[m], k)
        <5>1. CASE m = 1
          BY <1>2, <2>7, <5>1, Zenon
        <5>2. CASE m # 1
          <6> DEFINE m1 == m - 1
          <6>1. m1 \in 1..i /\ m1 \in 1..(N - 1) /\ m1 + 1 = m
            BY <1>2, <1>3, <5>2
          <6> HIDE DEF m1
          <6>2. rest[m1] = q[m]
            BY <1>3, <6>1, Zenon
          <6> QED BY <3>1, <6>1, <6>2, Zenon DEF Spared
        <5> QED BY <5>1, <5>2
      <4>2. i + 1 \in 0..N
        BY <1>2, <1>3
      <4> QED BY <4>1, <4>2, Zenon DEF Spared
    <3>2. ASSUME NEW i \in 0..Len(rest), Spared(rest, i, k)
          PROVE  PendingIn(j, After(next, rest, i), k)
      BY <1>5, <2>7, <3>1, <3>2, Zenon DEF Told, q
    <3>3. ASSUME s.open, ~s.finished, Spared(rest, Len(rest), k)
          PROVE  PendingIn(j, s.cursor, k)
      <4>1. Len(rest) \in 0..Len(rest) /\ Len(rest) + 1 = N
        BY <1>2, <1>3
      <4>2. Spared(q, N, k)
        BY <3>1, <3>3, <4>1, Zenon
      <4> QED BY <2>7, <3>3, <4>2, Zenon DEF Told, q
    <3> QED BY <2>2, <3>2, <3>3, Zenon DEF Told
  <2> QED BY <1>8, <2>2, <2>3, <2>4, <2>6, <2>7, Zenon DEF ClientOK, q, frame
<1> QED BY <1>9, <1>10

-----------------------------------------------------------------------------
(* The inductive invariant.                                                   *)

Revisions == [Projects -> Stage \cup {Unlisted}]

FeedType == [built : BOOLEAN, version : Nat, previous : [Rows -> Stage], revisions : Revisions]
ObsType == [pc : {"idle", "list", "heads", "snapshot", "publish"}, version : Nat,
            left : SUBSET Projects, changed : SUBSET Keys,
            rows : [Rows -> Stage], revisions : Revisions]

DaemonType ==
  /\ live \in [Cells -> Stage]
  /\ dataVersion \in Nat
  /\ feed \in FeedType
  /\ obs \in ObsType
  /\ available \in BOOLEAN
  /\ faults \in Nat

JournalOK == changes \in JournalOf(Event) /\ Aligned(changes)

ClientType ==
  /\ stream \in [Clients -> StreamType]
  /\ cursor \in [Clients -> Cursor]
  /\ held \in [Clients -> [Cells -> Stage \cup {Unread}]]

(* The version is read before the rows: a baseline that claims the current     *)
(* version holds the current rows.                                            *)
Versions ==
  /\ feed.version <= dataVersion /\ obs.version <= dataVersion
  /\ feed.built /\ feed.version = dataVersion => \A r \in Rows : feed.previous[r] = live[r]
  /\ (obs.pc = "publish" \/ (obs.pc \in {"list", "heads"} /\ ~feed.built))
       /\ obs.version = dataVersion => \A r \in Rows : obs.rows[r] = live[r]

(* Nothing is observed before it is written, and requests are served only once *)
(* there is a baseline.                                                       *)
Stages ==
  /\ available \/ obs.pc = "publish" => feed.built
  /\ \A r \in Rows : feed.previous[r] <= live[r] /\ obs.rows[r] <= live[r]
  /\ \A p \in Projects : feed.revisions[p] <= live[p] /\ obs.revisions[p] <= live[p]

(* A client of this epoch has been admitted, so there was a baseline.          *)
ClientsOK ==
  \A c \in Clients :
    /\ ClientOK(changes, cursor[c], stream[c])
    /\ ~feed.built => ~stream[c].open /\ cursor[c].epoch < changes.epoch
    /\ \A x \in Cells : held[c][x] # Unread => x \in Scope(c)

Core == DaemonType /\ JournalOK /\ ClientType /\ Versions /\ Stages /\ ClientsOK

LEMMA InitFeed ==
  /\ NoFeed \in FeedType /\ IdleObserver \in ObsType
  /\ ~NoFeed.built /\ NoFeed.version = 0 /\ IdleObserver.version = 0
  /\ IdleObserver.pc = "idle"
  /\ \A r \in Rows : NoFeed.previous[r] = 0 /\ IdleObserver.rows[r] = 0
  /\ \A p \in Projects : NoFeed.revisions[p] = Unlisted /\ IdleObserver.revisions[p] = Unlisted
<1>1. 0 \in Stage /\ 0 \in Nat
  BY CellAssumption DEF Stage
<1>2. [r \in Rows |-> 0] \in [Rows -> Stage] /\ [p \in Projects |-> Unlisted] \in Revisions
  BY <1>1 DEF Revisions
<1> QED BY <1>1, <1>2 DEF NoFeed, IdleObserver, FeedType, ObsType

LEMMA InitJournal ==
  ASSUME NEW n \in Nat \ {0}
  PROVE  NewJournal(n) \in JournalOf(Event) /\ Aligned(NewJournal(n)) /\ NewJournal(n).epoch = n
  BY DEF NewJournal, JournalOf, Aligned

LEMMA NoCursorFacts ==
  ASSUME NEW j \in JournalOf(Event)
  PROVE  NoCursor \in Cursor /\ Behind(j, NoCursor) /\ NoCursor.epoch < j.epoch
  BY DEF NoCursor, Cursor, Behind, JournalOf

LEMMA CoreInit == Init => Core
<1> SUFFICES ASSUME Init PROVE Core
  OBVIOUS
<1> USE DEF Init
<1>1. JournalOK
  BY InitJournal DEF JournalOK
<1>2. DaemonType
  <2>1. 0 \in Stage
    BY CellAssumption DEF Stage
  <2>2. live \in [Cells -> Stage]
    BY <2>1
  <2> QED BY <2>2, InitFeed DEF DaemonType
<1>3. Closed \in StreamType /\ ClientOK(changes, NoCursor, Closed) /\ NoCursor \in Cursor
      /\ NoCursor.epoch < changes.epoch
  <2>1. changes \in JournalOf(Event)
    BY <1>1 DEF JournalOK
  <2> HIDE DEF Init
  <2>2. NoCursor \in Cursor /\ Behind(changes, NoCursor) /\ NoCursor.epoch < changes.epoch
    BY <2>1, NoCursorFacts
  <2> QED BY <2>1, <2>2, ClosedFacts
<1>4. ClientType
  BY <1>3 DEF ClientType, Nothing
<1>5. Versions
  BY InitFeed DEF Versions
<1>6. Stages
  <2>1. \A x \in Cells : live[x] = 0
    OBVIOUS
  <2>2. (\A r \in Rows : live[r] = 0) /\ (\A p \in Projects : live[p] = 0)
    BY <2>1 DEF Cells
  <2> QED BY <2>2, InitFeed DEF Stages, Unlisted
<1>7. ClientsOK
  <2>1. ASSUME NEW c \in Clients
        PROVE  cursor[c] = NoCursor /\ stream[c] = Closed /\ \A x \in Cells : held[c][x] = Unread
    BY DEF Nothing
  <2>2. ~Closed.open
    BY DEF Closed
  <2> QED BY <1>3, <2>1, <2>2, Zenon DEF ClientsOK
<1> QED BY <1>1, <1>2, <1>4, <1>5, <1>6, <1>7 DEF Core

(* Actions that leave the journal and the clients alone.                       *)
LEMMA SameClients ==
  ASSUME ClientsOK, UNCHANGED <<changes, stream, cursor, held>>,
         feed'.built \/ feed'.built = feed.built
  PROVE  ClientsOK'
  BY DEF ClientsOK, Scope

LEMMA CoreEnvironment ==
  ASSUME Core,
         (\E rows \in SUBSET Rows : Commit(rows)) \/ (\E p \in Projects : MoveHead(p))
  PROVE  Core'
<1> USE DEF Core
<1>1. /\ UNCHANGED <<feed, obs, changes, available, stream, cursor, held, faults>>
      /\ live' \in [Cells -> Stage] /\ \A x \in Cells : live[x] <= live'[x]
      /\ dataVersion' \in Nat
      /\ \/ dataVersion' = dataVersion + 1
         \/ dataVersion' = dataVersion /\ \A r \in Rows : live'[r] = live[r]
  <2>1. live \in [Cells -> Stage] /\ dataVersion \in Nat /\ MaxStage \in Nat /\ MaxMoves \in 0..MaxStage
    BY CellAssumption DEF DaemonType
  <2>2. ASSUME NEW rows \in SUBSET Rows, Commit(rows)
        PROVE  /\ live' \in [Cells -> Stage] /\ \A x \in Cells : live[x] <= live'[x]
               /\ dataVersion' = dataVersion + 1
    BY <2>1, <2>2 DEF Commit, Stage
  <2>3. ASSUME NEW p \in Projects, MoveHead(p)
        PROVE  /\ live' \in [Cells -> Stage] /\ \A x \in Cells : live[x] <= live'[x]
               /\ dataVersion' = dataVersion
               /\ \A r \in Rows : live'[r] = live[r]
    <3>1. p \in Cells /\ p \notin Rows /\ Rows \subseteq Cells
      BY CellAssumption DEF Cells
    <3>2. live' = [live EXCEPT ![p] = live[p] + 1] /\ live[p] < MaxMoves /\ dataVersion' = dataVersion
      BY <2>3 DEF MoveHead
    <3>3. live[p] \in Stage /\ live[p] + 1 \in Stage /\ live[p] <= live[p] + 1
      BY <2>1, <3>1, <3>2 DEF Stage
    <3>4. \A x \in Cells : live[x] <= live[x]
      BY <2>1 DEF Stage
    <3> QED BY <2>1, <3>1, <3>2, <3>3, <3>4
  <2>4. UNCHANGED <<feed, obs, changes, available, stream, cursor, held, faults>>
    BY DEF Commit, MoveHead, daemon, clients
  <2> QED BY <2>1, <2>2, <2>3, <2>4
<1>2. DaemonType' /\ JournalOK' /\ ClientType'
  BY <1>1 DEF DaemonType, JournalOK, ClientType
<1>3. Versions'
  BY <1>1 DEF Versions, DaemonType, FeedType, ObsType
<1>4. Stages'
  <2>1. Rows \subseteq Cells /\ Projects \subseteq Cells
    BY DEF Cells
  <2>2. /\ \A x \in Cells : live[x] \in Int /\ live'[x] \in Int
        /\ \A r \in Rows : feed.previous[r] \in Int /\ obs.rows[r] \in Int
        /\ \A p \in Projects : feed.revisions[p] \in Int /\ obs.revisions[p] \in Int
    BY <1>1, CellAssumption DEF DaemonType, FeedType, ObsType, Revisions, Stage, Unlisted
  <2>3. \A r \in Rows : feed.previous[r] <= live'[r] /\ obs.rows[r] <= live'[r]
    BY <1>1, <2>1, <2>2 DEF Stages
  <2>4. \A p \in Projects : feed.revisions[p] <= live'[p] /\ obs.revisions[p] <= live'[p]
    BY <1>1, <2>1, <2>2 DEF Stages
  <2> QED BY <1>1, <2>3, <2>4 DEF Stages
<1>5. ClientsOK'
  BY <1>1, SameClients
<1> QED BY <1>2, <1>3, <1>4, <1>5

(* Actions of the observer.                                                   *)
LEMMA DifferType ==
  ASSUME NEW rows, NEW revisions
  PROVE  Differ(rows, revisions) \in SUBSET Keys
<1>1. KeyOf \in [Cells -> Keys] /\ Rows \subseteq Cells /\ Projects \subseteq Cells
  BY CellAssumption DEF Cells
<1> QED BY <1>1 DEF Differ

LEMMA CoreReads ==
  ASSUME Core, ReadVersion \/ ListProjects \/ (\E p \in Projects : ReadHead(p))
  PROVE  Core'
<1> USE DEF Core
<1>1. UNCHANGED <<live, dataVersion, feed, changes, available, stream, cursor, held, faults>>
  BY DEF ReadVersion, ListProjects, ReadHead, clients
<1>2. /\ obs' \in ObsType /\ obs'.pc # "publish" /\ obs'.version <= dataVersion
      /\ \A r \in Rows : obs'.rows[r] <= live[r]
      /\ \A p \in Projects : obs'.revisions[p] <= live[p]
      /\ obs'.pc \in {"list", "heads"} /\ ~feed.built =>
           /\ obs.pc \in {"list", "heads"} /\ obs'.version = obs.version
           /\ \A r \in Rows : obs'.rows[r] = obs.rows[r]
  <2>1. /\ obs \in ObsType /\ live \in [Cells -> Stage] /\ dataVersion \in Nat
        /\ obs.version <= dataVersion
        /\ \A r \in Rows : obs.rows[r] <= live[r]
        /\ \A p \in Projects : obs.revisions[p] <= live[p]
    BY DEF DaemonType, Versions, Stages
  <2>2. /\ \A r \in Rows : live[r] \in Nat /\ live[r] \in Stage
        /\ \A p \in Projects : live[p] \in Nat /\ live[p] \in Stage
    BY <2>1, CellAssumption DEF Cells, Stage
  <2>3. CASE ReadVersion
    <3> DEFINE pc == IF feed.built THEN "list" ELSE "snapshot"
    <3>1. obs' = [IdleObserver EXCEPT !.pc = pc, !.version = dataVersion]
      BY <2>3 DEF ReadVersion
    <3>2. pc \in {"list", "snapshot"} /\ (~feed.built => pc = "snapshot")
      OBVIOUS
    <3> HIDE DEF pc
    <3>3. /\ obs' \in ObsType /\ obs'.pc = pc /\ obs'.version = dataVersion
          /\ obs'.rows = IdleObserver.rows /\ obs'.revisions = IdleObserver.revisions
      BY <2>1, <3>1, <3>2, InitFeed DEF ObsType
    <3>4. /\ \A r \in Rows : obs'.rows[r] <= live[r]
          /\ \A p \in Projects : obs'.revisions[p] <= live[p]
      BY <2>2, <3>3, InitFeed DEF Unlisted
    <3> QED BY <2>1, <3>2, <3>3, <3>4
  <2>4. CASE ListProjects
    <3>1. PICK left \in SUBSET Projects : obs' = [obs EXCEPT !.pc = "heads", !.left = left]
      BY <2>4 DEF ListProjects
    <3>2. obs.pc = "list"
      BY <2>4 DEF ListProjects
    <3>3. /\ obs' \in ObsType /\ obs'.pc = "heads" /\ obs'.version = obs.version
          /\ obs'.rows = obs.rows /\ obs'.revisions = obs.revisions
      BY <2>1, <3>1 DEF ObsType
    <3> QED BY <2>1, <3>2, <3>3
  <2>5. ASSUME NEW p \in Projects, ReadHead(p)
        PROVE  /\ obs' \in ObsType /\ obs'.pc = "heads" /\ obs'.version = obs.version
               /\ obs.pc = "heads" /\ obs'.rows = obs.rows
               /\ \A o \in Projects : obs'.revisions[o] <= live[o]
    <3> DEFINE new == [obs.revisions EXCEPT ![p] = live[p]]
    <3>1. obs' = [obs EXCEPT !.left = obs.left \ {p}, !.revisions = new] /\ obs.pc = "heads"
      BY <2>5 DEF ReadHead
    <3>2. obs.revisions \in Revisions /\ obs.left \ {p} \in SUBSET Projects
      BY <2>1 DEF ObsType
    <3>3. /\ new \in Revisions
          /\ \A o \in Projects : new[o] = IF o = p THEN live[p] ELSE obs.revisions[o]
      BY <2>2, <3>2 DEF Revisions
    <3>4. live[p] <= live[p]
      BY <2>2
    <3> HIDE DEF new
    <3>5. /\ obs' \in ObsType /\ obs'.pc = obs.pc /\ obs'.version = obs.version
          /\ obs'.rows = obs.rows /\ obs'.revisions = new
      BY <2>1, <3>1, <3>2, <3>3 DEF ObsType
    <3> QED BY <2>1, <3>1, <3>3, <3>4, <3>5
  <2> QED BY <2>1, <2>3, <2>4, <2>5
<1>3. DaemonType' /\ JournalOK' /\ ClientType'
  BY <1>1, <1>2 DEF DaemonType, JournalOK, ClientType
<1>4. Versions'
  BY <1>1, <1>2 DEF Versions
<1>5. Stages'
  BY <1>1, <1>2 DEF Stages
<1>6. ClientsOK'
  BY <1>1, SameClients
<1> QED BY <1>3, <1>4, <1>5, <1>6

LEMMA CoreCompares ==
  ASSUME Core, Compare \/ Snapshot
  PROVE  Core'
<1> USE DEF Core
<1>1. /\ UNCHANGED <<live, dataVersion, feed, changes, stream, cursor, held, faults>>
      /\ available' \in BOOLEAN /\ (available' => available \/ feed.built)
  <2>1. UNCHANGED <<live, dataVersion, feed, changes, stream, cursor, held, faults>>
    BY DEF Compare, Snapshot, clients
  <2>2. available \in BOOLEAN
    BY DEF DaemonType
  <2>3. CASE available' = available
    BY <2>1, <2>2, <2>3
  <2>4. CASE feed.built /\ available' = TRUE
    BY <2>1, <2>4
  <2> QED BY <2>3, <2>4 DEF Compare, Snapshot
<1>2. /\ obs \in ObsType /\ feed \in FeedType /\ live \in [Cells -> Stage] /\ dataVersion \in Nat
      /\ obs.version <= dataVersion
      /\ \A r \in Rows : obs.rows[r] <= live[r] /\ feed.previous[r] <= live[r]
      /\ \A p \in Projects : obs.revisions[p] <= live[p]
      /\ feed.built /\ feed.version = dataVersion => \A r \in Rows : feed.previous[r] = live[r]
  BY DEF DaemonType, Versions, Stages
<1>3. /\ obs' \in ObsType /\ (obs'.pc = "publish" => feed.built) /\ obs'.version <= dataVersion
      /\ \A r \in Rows : obs'.rows[r] <= live[r]
      /\ \A p \in Projects : obs'.revisions[p] <= live[p]
      /\ (obs'.pc = "publish" \/ (obs'.pc \in {"list", "heads"} /\ ~feed.built))
           /\ obs'.version = dataVersion => \A r \in Rows : obs'.rows[r] = live[r]
  <2>1. CASE Compare
    <3>1. feed.built
      BY <2>1 DEF Compare
    <3>2. CASE obs' = IdleObserver
      <4>1. /\ \A r \in Rows : live[r] \in Nat
            /\ \A p \in Projects : live[p] \in Nat
        BY <1>2, CellAssumption DEF Cells, Stage
      <4> QED BY <1>2, <3>1, <3>2, <4>1, InitFeed DEF Unlisted
    <3>3. CASE /\ obs.version = feed.version
               /\ obs' = [obs EXCEPT !.pc = "publish", !.rows = feed.previous,
                                     !.changed = Differ(feed.previous, obs.revisions)]
      <4>1. feed.previous \in [Rows -> Stage] /\ Differ(feed.previous, obs.revisions) \in SUBSET Keys
        BY <1>2, DifferType DEF FeedType
      <4>2. /\ obs' \in ObsType /\ obs'.pc = "publish" /\ obs'.version = obs.version
            /\ obs'.rows = feed.previous /\ obs'.revisions = obs.revisions
        BY <1>2, <3>3, <4>1 DEF ObsType
      <4> QED BY <1>2, <3>1, <3>3, <4>2
    <3>4. CASE obs' = [obs EXCEPT !.pc = "snapshot"]
      <4>1. /\ obs' \in ObsType /\ obs'.pc = "snapshot" /\ obs'.version = obs.version
            /\ obs'.rows = obs.rows /\ obs'.revisions = obs.revisions
        BY <1>2, <3>4 DEF ObsType
      <4> QED BY <1>2, <3>1, <4>1
    <3> QED BY <2>1, <3>2, <3>3, <3>4 DEF Compare
  <2>2. CASE Snapshot
    <3> DEFINE rows == [r \in Rows |-> live[r]]
               pc == IF feed.built THEN "publish" ELSE "list"
               changed == IF feed.built THEN Differ(rows, obs.revisions) ELSE {}
    <3>1. obs' = [obs EXCEPT !.rows = rows, !.pc = pc, !.changed = changed]
      BY <2>2 DEF Snapshot
    <3>2. /\ rows \in [Rows -> Stage] /\ \A r \in Rows : rows[r] = live[r] /\ rows[r] <= live[r]
      BY <1>2, CellAssumption DEF Cells, Stage
    <3>3. pc \in {"publish", "list"} /\ (pc = "publish" => feed.built) /\ changed \in SUBSET Keys
      BY DifferType
    <3> HIDE DEF rows, pc, changed
    <3>4. /\ obs' \in ObsType /\ obs'.pc = pc /\ obs'.version = obs.version
          /\ obs'.rows = rows /\ obs'.revisions = obs.revisions
      BY <1>2, <3>1, <3>2, <3>3 DEF ObsType
    <3> QED BY <1>2, <3>2, <3>3, <3>4
  <2> QED BY <2>1, <2>2
<1>4. DaemonType' /\ JournalOK' /\ ClientType'
  BY <1>1, <1>3 DEF DaemonType, JournalOK, ClientType
<1>5. Versions'
  BY <1>1, <1>3 DEF Versions
<1>6. Stages'
  BY <1>1, <1>3 DEF Stages
<1>7. ClientsOK'
  BY <1>1, SameClients
<1> QED BY <1>4, <1>5, <1>6, <1>7

LEMMA CoreAdopts ==
  ASSUME Core, Construct \/ Finish
  PROVE  Core'
<1> USE DEF Core
<1>1. /\ UNCHANGED <<live, dataVersion, changes, stream, cursor, held, faults>>
      /\ available' = TRUE /\ obs' = IdleObserver
  BY DEF Construct, Finish, clients
<1>2. /\ obs \in ObsType /\ feed \in FeedType /\ live \in [Cells -> Stage] /\ dataVersion \in Nat
      /\ obs.version <= dataVersion /\ obs.version \in Nat
      /\ \A r \in Rows : obs.rows[r] <= live[r]
      /\ \A p \in Projects : obs.revisions[p] <= live[p]
      /\ (obs.pc = "publish" \/ (obs.pc \in {"list", "heads"} /\ ~feed.built))
           /\ obs.version = dataVersion => \A r \in Rows : obs.rows[r] = live[r]
  BY DEF DaemonType, Versions, Stages, ObsType
<1>3. /\ feed' \in FeedType /\ feed'.built /\ feed'.version = obs.version
      /\ feed'.previous = obs.rows /\ feed'.revisions = obs.revisions
      /\ obs.pc = "publish" \/ (obs.pc \in {"list", "heads"} /\ ~feed.built)
  <2>1. obs.rows \in [Rows -> Stage] /\ obs.revisions \in Revisions
    BY <1>2 DEF ObsType
  <2>2. CASE Construct
    <3>1. /\ obs.pc = "heads" /\ ~feed.built
          /\ feed' = [built |-> TRUE, version |-> obs.version,
                      previous |-> obs.rows, revisions |-> obs.revisions]
      BY <2>2 DEF Construct
    <3> QED BY <1>2, <2>1, <3>1 DEF FeedType
  <2>3. CASE Finish
    <3>1. /\ obs.pc = "publish"
          /\ feed' = [feed EXCEPT !.version = obs.version, !.previous = obs.rows,
                                  !.revisions = obs.revisions]
      BY <2>3 DEF Finish
    <3>2. feed.built
      BY <3>1 DEF Stages
    <3> QED BY <1>2, <2>1, <3>1, <3>2 DEF FeedType
  <2> QED BY <2>2, <2>3
<1>4. /\ \A r \in Rows : 0 <= live[r]
      /\ \A p \in Projects : Unlisted <= live[p]
  BY <1>2, CellAssumption DEF Cells, Stage, Unlisted
<1>5. DaemonType' /\ JournalOK' /\ ClientType'
  BY <1>1, <1>3, InitFeed DEF DaemonType, JournalOK, ClientType
<1>6. Versions'
  BY <1>1, <1>2, <1>3, InitFeed DEF Versions
<1>7. Stages'
  BY <1>1, <1>2, <1>3, <1>4, InitFeed DEF Stages
<1>8. ClientsOK'
  BY <1>1, <1>3, SameClients
<1> QED BY <1>5, <1>6, <1>7, <1>8

LEMMA EventFacts ==
  /\ ResyncRequired \in Event /\ \A k : Announces(ResyncRequired, k)
  /\ \A k \in Keys, deleted \in BOOLEAN :
       Changed(k, deleted) \in Event /\ Announces(Changed(k, deleted), k)
  BY DEF Event, ResyncRequired, Changed, Announces

(* The journal grows by an event, or stays as it is.                           *)
LEMMA GrownClients ==
  ASSUME ClientsOK, JournalOK, NEW e \in Event,
         changes' = changes \/ changes' = AppendTo(changes, e, FALSE),
         UNCHANGED <<feed, stream, cursor, held>>
  PROVE  ClientsOK' /\ JournalOK'
<1> DEFINE j == changes
           a == changes'
           fin == FALSE
<1>1. fin \in BOOLEAN /\ j \in JournalOf(Event) /\ Aligned(j)
  BY DEF JournalOK
<1>2. CASE a = j
  BY <1>2 DEF ClientsOK, JournalOK, Scope
<1>3. CASE a = AppendTo(j, e, fin)
  <2> HIDE DEF fin, a, j
  <2>1. a \in JournalOf(Event) /\ Aligned(a) /\ a.epoch = j.epoch
    BY <1>1, <1>3, AppendFacts, SMTT(60)
  <2>2. ASSUME NEW c \in Clients
        PROVE  ClientOK(a, cursor[c], stream[c])
    <3>1. ClientOK(j, cursor[c], stream[c])
      BY DEF ClientsOK, j
    <3> QED BY <1>1, <1>3, <3>1, ReportedAppend, Zenon
  <2>3. ClientsOK'
    BY <2>1, <2>2, Zenon DEF ClientsOK, Scope, a, j
  <2> QED BY <2>1, <2>3 DEF JournalOK, a
<1> QED BY <1>2, <1>3

LEMMA CorePublishes ==
  ASSUME Core, (\E k \in Keys : Publish(k)) \/ Fail
  PROVE  Core'
<1> USE DEF Core
<1>1. /\ UNCHANGED <<live, dataVersion, feed, stream, cursor, held>>
      /\ faults' \in Nat /\ available' \in BOOLEAN /\ (available' => available)
  <2>1. faults \in Nat /\ available \in BOOLEAN
    BY DEF DaemonType
  <2>2. CASE \E k \in Keys : Publish(k)
    <3>1. UNCHANGED <<live, dataVersion, feed, stream, cursor, held, faults, available>>
      BY <2>2 DEF Publish, clients
    <3> QED BY <2>1, <3>1
  <2>3. CASE Fail
    <3>1. /\ UNCHANGED <<live, dataVersion, feed, stream, cursor, held>>
          /\ faults' = faults + 1 /\ available' = FALSE
      BY <2>3 DEF Fail, clients
    <3>2. faults' \in Nat
      BY <2>1, <3>1
    <3> QED BY <3>1, <3>2, Zenon
  <2> QED BY <2>2, <2>3
<1>2. /\ obs \in ObsType /\ live \in [Cells -> Stage] /\ dataVersion \in Nat
  BY DEF DaemonType
<1>3. obs' = IdleObserver \/ \E k \in Keys : obs' = [obs EXCEPT !.changed = @ \ {k}]
  BY DEF Publish, Fail
<1>4. \/ obs' = IdleObserver
      \/ /\ obs' \in ObsType /\ obs'.pc = obs.pc /\ obs'.version = obs.version
         /\ obs'.rows = obs.rows /\ obs'.revisions = obs.revisions
  BY <1>2, <1>3 DEF ObsType
<1>5. /\ \A r \in Rows : 0 <= live[r]
      /\ \A p \in Projects : Unlisted <= live[p]
  BY <1>2, CellAssumption DEF Cells, Stage, Unlisted
<1>6. DaemonType' /\ ClientType'
  BY <1>1, <1>4, InitFeed DEF DaemonType, ClientType
<1>7. Versions'
  BY <1>1, <1>2, <1>4, InitFeed DEF Versions
<1>8. Stages'
  BY <1>1, <1>4, <1>5, InitFeed DEF Stages
<1>9. ClientsOK' /\ JournalOK'
  <2>1. ASSUME NEW k \in Keys, Publish(k)
        PROVE  \E e \in Event : changes' = AppendTo(changes, e, FALSE)
    <3> DEFINE deleted == ~HasKey(obs.rows, k)
    <3>1. deleted \in BOOLEAN /\ changes' = AppendTo(changes, Changed(k, deleted), FALSE)
      BY <2>1 DEF Publish
    <3> HIDE DEF deleted
    <3> QED BY <3>1, EventFacts, Zenon
  <2>2. \E e \in Event : changes' = changes \/ changes' = AppendTo(changes, e, FALSE)
    BY <2>1, EventFacts DEF Fail
  <2> QED BY <1>1, <2>2, GrownClients
<1> QED BY <1>6, <1>7, <1>8, <1>9

LEMMA CoreRestart ==
  ASSUME Core, Restart
  PROVE  Core'
<1> USE DEF Core
<1>1. /\ UNCHANGED <<live, dataVersion, cursor, held>> /\ faults' \in Nat /\ available' = FALSE
      /\ feed' = NoFeed /\ obs' = IdleObserver
      /\ stream' = [c \in Clients |-> Closed]
  BY DEF Restart, DaemonType
<1>2. changes' = NewJournal(changes.epoch + 1) /\ changes.epoch \in Nat
  BY DEF Restart, JournalOK, JournalOf
<1>3. changes' \in JournalOf(Event) /\ Aligned(changes') /\ changes'.epoch = changes.epoch + 1
  <2>1. changes.epoch + 1 \in Nat \ {0}
    BY <1>2
  <2> QED BY <1>2, <2>1, InitJournal
<1>4. ASSUME NEW c \in Clients
      PROVE  /\ cursor[c] \in Cursor /\ cursor[c].epoch < changes'.epoch /\ Behind(changes', cursor[c])
             /\ Closed \in StreamType /\ ClientOK(changes', cursor[c], Closed)
  <2>1. cursor[c] \in Cursor /\ Behind(changes, cursor[c])
    BY Zenon DEF ClientType, ClientsOK, ClientOK, Cursors
  <2>2. cursor[c].epoch < changes'.epoch
    BY <1>2, <1>3, <2>1 DEF Behind, Cursor
  <2>3. Behind(changes', cursor[c])
    BY <2>2, Zenon DEF Behind
  <2> QED BY <1>3, <2>1, <2>2, <2>3, ClosedFacts, Zenon
<1>5. /\ \A r \in Rows : 0 <= live[r]
      /\ \A p \in Projects : Unlisted <= live[p]
  BY CellAssumption DEF DaemonType, Cells, Stage, Unlisted
<1>6. DaemonType' /\ JournalOK'
  BY <1>1, <1>3, InitFeed DEF DaemonType, JournalOK
<1>7. ClientType'
  BY <1>1, <1>4 DEF ClientType
<1>8. Versions'
  BY <1>1, InitFeed DEF Versions, DaemonType
<1>9. Stages'
  BY <1>1, <1>5, InitFeed DEF Stages
<1>10. ClientsOK'
  <2>1. ~Closed.open
    BY DEF Closed
  <2>2. \A c \in Clients : stream'[c] = Closed
    BY <1>1
  <2> QED BY <1>1, <1>4, <2>1, <2>2, Zenon DEF ClientsOK, Scope
<1> QED BY <1>6, <1>7, <1>8, <1>9, <1>10

(* Actions of a client.                                                       *)
OnlyClient(c, s, cur, h) ==
  /\ UNCHANGED <<live, dataVersion, feed, obs, changes, available>> /\ faults' \in Nat
  /\ feed.built \/ (stream' = stream /\ cursor' = cursor)
  /\ stream' = [stream EXCEPT ![c] = s] \/ (stream' = stream /\ s = stream[c])
  /\ cursor' = [cursor EXCEPT ![c] = cur] \/ (cursor' = cursor /\ cur = cursor[c])
  /\ held' = [held EXCEPT ![c] = h] \/ (held' = held /\ h = held[c])

LEMMA OneClient ==
  ASSUME Core, NEW c \in Clients,
         NEW s \in StreamType, NEW cur \in Cursor, NEW h \in [Cells -> Stage \cup {Unread}],
         OnlyClient(c, s, cur, h), ClientOK(changes, cur, s),
         \A x \in Cells : h[x] # Unread => x \in Scope(c)
  PROVE  /\ Core'
         /\ stream'[c] = s /\ cursor'[c] = cur /\ held'[c] = h
         /\ \A d \in Clients \ {c} :
              stream'[d] = stream[d] /\ cursor'[d] = cursor[d] /\ held'[d] = held[d]
<1> USE DEF Core, OnlyClient
<1>1. /\ stream \in [Clients -> StreamType] /\ cursor \in [Clients -> Cursor]
      /\ held \in [Clients -> [Cells -> Stage \cup {Unread}]]
  BY DEF ClientType
<1>2. /\ stream' \in [Clients -> StreamType] /\ stream'[c] = s
      /\ \A d \in Clients \ {c} : stream'[d] = stream[d]
  BY <1>1
<1>3. /\ cursor' \in [Clients -> Cursor] /\ cursor'[c] = cur
      /\ \A d \in Clients \ {c} : cursor'[d] = cursor[d]
  BY <1>1
<1>4. /\ held' \in [Clients -> [Cells -> Stage \cup {Unread}]] /\ held'[c] = h
      /\ \A d \in Clients \ {c} : held'[d] = held[d]
  BY <1>1
<1>5. ASSUME NEW d \in Clients
      PROVE  /\ ClientOK(changes, cursor'[d], stream'[d])
             /\ ~feed.built => ~stream'[d].open /\ cursor'[d].epoch < changes.epoch
             /\ \A x \in Cells : held'[d][x] # Unread => x \in Scope(d)
  <2>1. CASE d = c
    <3>1. ~feed.built => ~stream'[d].open /\ cursor'[d].epoch < changes.epoch
      BY Zenon DEF ClientsOK
    <3> QED BY <1>2, <1>3, <1>4, <2>1, <3>1, Zenon
  <2>2. CASE d # c
    BY <1>2, <1>3, <1>4, <2>2, Zenon DEF ClientsOK
  <2> QED BY <2>1, <2>2
<1>6. ClientsOK'
  BY <1>5, Zenon DEF ClientsOK, Scope
<1>7. DaemonType' /\ JournalOK' /\ ClientType' /\ Versions' /\ Stages'
  BY <1>2, <1>3, <1>4 DEF DaemonType, JournalOK, ClientType, Versions, Stages
<1> QED BY <1>2, <1>3, <1>4, <1>6, <1>7

(* What a step of client c does: a cell it holds afterwards was just read, or   *)
(* was held before and is as sure to be announced as it was.                   *)
ClientMoves(c) ==
  /\ Core'
  /\ UNCHANGED <<live, feed, obs, changes>>
  /\ \A d \in Clients \ {c} :
       stream'[d] = stream[d] /\ cursor'[d] = cursor[d] /\ held'[d] = held[d]
  /\ \A x \in Cells : held'[c][x] # Unread =>
       \/ held'[c][x] = live[x]
       \/ /\ held'[c][x] = held[c][x]
          /\ Told(changes, cursor[c], stream[c], KeyOf[x]) =>
               Told(changes, cursor'[c], stream'[c], KeyOf[x])

LEMMA ClientFacts ==
  ASSUME Core, NEW c \in Clients
  PROVE  /\ stream[c] \in StreamType /\ cursor[c] \in Cursor
         /\ held[c] \in [Cells -> Stage \cup {Unread}]
         /\ ClientOK(changes, cursor[c], stream[c])
         /\ Cursors(changes, cursor[c], stream[c])
         /\ Behind(changes, cursor[c]) /\ stream[c].queue \in Seq(FrameType)
         /\ (stream[c].open \/ available => feed.built)
         /\ (~stream[c].open => stream[c] = Closed)
         /\ \A x \in Cells : held[c][x] # Unread => x \in Scope(c)
         /\ changes \in JournalOf(Event) /\ Aligned(changes) /\ faults \in Nat
         /\ Nothing \in [Cells -> Stage \cup {Unread}]
         /\ \A x \in Cells : Nothing[x] = Unread
<1>1. /\ stream[c] \in StreamType /\ cursor[c] \in Cursor
      /\ held[c] \in [Cells -> Stage \cup {Unread}]
  BY DEF Core, ClientType
<1>2. /\ ClientOK(changes, cursor[c], stream[c])
      /\ (stream[c].open => feed.built)
      /\ \A x \in Cells : held[c][x] # Unread => x \in Scope(c)
  BY Zenon DEF Core, ClientsOK
<1>3. Cursors(changes, cursor[c], stream[c])
  BY <1>2 DEF ClientOK
<1>4. Behind(changes, cursor[c]) /\ (~stream[c].open => stream[c] = Closed)
  BY <1>3, Zenon DEF Cursors
<1>5. stream[c].queue \in Seq(FrameType)
  BY <1>1 DEF StreamType
<1>6. /\ changes \in JournalOf(Event) /\ Aligned(changes) /\ faults \in Nat
      /\ (available => feed.built)
  BY DEF Core, JournalOK, DaemonType, Stages
<1>7. /\ Nothing \in [Cells -> Stage \cup {Unread}]
      /\ \A x \in Cells : Nothing[x] = Unread
  BY DEF Nothing
<1> QED BY <1>1, <1>2, <1>3, <1>4, <1>5, <1>6, <1>7, Zenon

LEMMA CheckpointMoves ==
  ASSUME Core, NEW c \in Clients, Checkpoint(c)
  PROVE  ClientMoves(c)
<1>1. /\ UNCHANGED <<live, dataVersion, feed, obs, changes, available, stream, faults>>
      /\ available /\ ~stream[c].open
      /\ cursor' = [cursor EXCEPT ![c] = TailOf(changes)]
      /\ held' = [held EXCEPT ![c] = Nothing]
  BY DEF Checkpoint, Admitted, daemon
<1>2. /\ stream[c] = Closed /\ feed.built /\ changes \in JournalOf(Event) /\ faults \in Nat
      /\ Nothing \in [Cells -> Stage \cup {Unread}] /\ \A x \in Cells : Nothing[x] = Unread
  BY <1>1, ClientFacts, Zenon
<1>3. TailOf(changes) \in Cursor /\ Behind(changes, TailOf(changes))
  BY <1>2 DEF TailOf, Cursor, Behind, JournalOf
<1>4. Closed \in StreamType /\ ClientOK(changes, TailOf(changes), Closed)
  BY <1>2, <1>3, ClosedFacts, Zenon
<1>5. \A x \in Cells : Nothing[x] # Unread => x \in Scope(c)
  BY <1>2, Zenon
<1>6. /\ Core' /\ held'[c] = Nothing
      /\ \A d \in Clients \ {c} :
           stream'[d] = stream[d] /\ cursor'[d] = cursor[d] /\ held'[d] = held[d]
  <2>1. OnlyClient(c, Closed, TailOf(changes), Nothing)
    BY <1>1, <1>2 DEF OnlyClient
  <2> QED BY <1>2, <1>3, <1>4, <1>5, <2>1, OneClient
<1> QED BY <1>1, <1>2, <1>6, Zenon DEF ClientMoves

LEMMA SubscribeMoves ==
  ASSUME Core, NEW c \in Clients, NEW revision \in BOOLEAN, Subscribe(c, revision)
  PROVE  ClientMoves(c)
<1> DEFINE at == IF cursor[c] = NoCursor /\ ~revision THEN TailOf(changes) ELSE cursor[c]
           s == [Closed EXCEPT !.open = TRUE, !.first = TRUE, !.cursor = at]
           h == IF cursor[c] = NoCursor THEN Nothing ELSE held[c]
<1>1. /\ UNCHANGED <<live, dataVersion, feed, obs, changes, available, cursor, faults>>
      /\ available /\ ~stream[c].open
      /\ held' = [held EXCEPT ![c] = h]
  BY DEF Subscribe, Admitted, daemon
<1>2. stream' = [stream EXCEPT ![c] = s]
  BY Zenon DEF Subscribe
<1>3. /\ stream[c] = Closed /\ feed.built /\ changes \in JournalOf(Event) /\ faults \in Nat
      /\ cursor[c] \in Cursor /\ Behind(changes, cursor[c])
      /\ held[c] \in [Cells -> Stage \cup {Unread}]
      /\ \A x \in Cells : held[c][x] # Unread => x \in Scope(c)
      /\ Nothing \in [Cells -> Stage \cup {Unread}] /\ \A x \in Cells : Nothing[x] = Unread
      /\ stream[c].queue \in Seq(FrameType)
  BY <1>1, ClientFacts, Zenon
<1>4. at = cursor[c] \/ (cursor[c] = NoCursor /\ at = TailOf(changes))
  BY Zenon
<1>5. /\ h \in [Cells -> Stage \cup {Unread}]
      /\ \A x \in Cells : h[x] # Unread => x \in Scope(c) /\ h[x] = held[c][x] /\ at = cursor[c]
  BY <1>3, Zenon
<1>6. s \in StreamType /\ s.open /\ ~s.finished /\ s.queue = <<>> /\ s.cursor = at
  <2>1. Closed \in StreamType /\ Closed.queue = <<>> /\ ~Closed.finished
    BY DEF Closed, StreamType, NoCursor, Cursor
  <2>2. at \in Cursor
    BY <1>3, <1>4 DEF TailOf, Cursor, JournalOf
  <2> HIDE DEF at
  <2> QED BY <2>1, <2>2 DEF StreamType
<1> HIDE DEF at, s, h
<1>7. /\ ClientOK(changes, cursor[c], s)
      /\ \A k : at = cursor[c] /\ PendingIn(changes, cursor[c], k) => Told(changes, cursor[c], s, k)
  BY <1>3, <1>4, <1>6, OpenFacts, Zenon
<1>8. /\ Core' /\ held'[c] = h /\ stream'[c] = s /\ cursor'[c] = cursor[c]
      /\ \A d \in Clients \ {c} :
           stream'[d] = stream[d] /\ cursor'[d] = cursor[d] /\ held'[d] = held[d]
  <2>1. OnlyClient(c, s, cursor[c], h)
    BY <1>1, <1>2, <1>3 DEF OnlyClient
  <2>2. \A x \in Cells : h[x] # Unread => x \in Scope(c)
    BY <1>5, Zenon
  <2> QED BY <1>3, <1>5, <1>6, <1>7, <2>1, <2>2, OneClient
<1>9. ASSUME NEW x \in Cells, h[x] # Unread
      PROVE  /\ h[x] = held[c][x]
             /\ Told(changes, cursor[c], stream[c], KeyOf[x]) => Told(changes, cursor[c], s, KeyOf[x])
  BY <1>3, <1>5, <1>7, <1>9, ToldAtOnce, Zenon
<1> QED BY <1>1, <1>8, <1>9, Zenon DEF ClientMoves

LEMMA DropMoves ==
  ASSUME Core, NEW c \in Clients, Drop(c)
  PROVE  ClientMoves(c)
<1>1. /\ UNCHANGED <<live, dataVersion, feed, obs, changes, available, cursor, held>>
      /\ faults' = faults + 1 /\ stream[c].open /\ stream' = [stream EXCEPT ![c] = Closed]
  BY DEF Drop, daemon
<1>2. /\ feed.built /\ changes \in JournalOf(Event) /\ faults \in Nat
      /\ cursor[c] \in Cursor /\ Behind(changes, cursor[c])
      /\ held[c] \in [Cells -> Stage \cup {Unread}]
      /\ \A x \in Cells : held[c][x] # Unread => x \in Scope(c)
      /\ stream[c].queue \in Seq(FrameType)
  BY <1>1, ClientFacts, Zenon
<1>3. /\ Closed \in StreamType /\ ClientOK(changes, cursor[c], Closed)
      /\ \A k : PendingIn(changes, cursor[c], k) => Told(changes, cursor[c], Closed, k)
  BY <1>2, ClosedFacts, Zenon
<1>4. faults' \in Nat
  BY <1>1, <1>2
<1>5. /\ Core' /\ held'[c] = held[c] /\ stream'[c] = Closed /\ cursor'[c] = cursor[c]
      /\ \A d \in Clients \ {c} :
           stream'[d] = stream[d] /\ cursor'[d] = cursor[d] /\ held'[d] = held[d]
  <2>1. OnlyClient(c, Closed, cursor[c], held[c])
    BY <1>1, <1>2, <1>4 DEF OnlyClient
  <2> QED BY <1>2, <1>3, <2>1, OneClient
<1>6. \A k : Told(changes, cursor[c], stream[c], k) => Told(changes, cursor[c], Closed, k)
  BY <1>2, <1>3, ToldAtOnce, Zenon
<1> QED BY <1>1, <1>5, <1>6, Zenon DEF ClientMoves

LEMMA FetchMoves ==
  ASSUME Core, NEW c \in Clients, NEW k \in Keys, Fetch(c, k)
  PROVE  ClientMoves(c)
<1> DEFINE cells == {x \in Scope(c) : KeyOf[x] = k}
           h == [x \in Cells |-> IF x \in cells THEN live[x] ELSE held[c][x]]
<1>1. /\ UNCHANGED <<live, dataVersion, feed, obs, changes, available, cursor, stream, faults>>
      /\ held' = [held EXCEPT ![c] = h]
  BY DEF Fetch, daemon
<1>2. /\ changes \in JournalOf(Event) /\ faults \in Nat
      /\ cursor[c] \in Cursor /\ stream[c] \in StreamType
      /\ held[c] \in [Cells -> Stage \cup {Unread}]
      /\ \A x \in Cells : held[c][x] # Unread => x \in Scope(c)
      /\ ClientOK(changes, cursor[c], stream[c])
  BY ClientFacts, Zenon
<1>3. live \in [Cells -> Stage]
  BY DEF Core, DaemonType
<1>4. cells \subseteq Scope(c)
  OBVIOUS
<1> HIDE DEF cells
<1>5. /\ h \in [Cells -> Stage \cup {Unread}]
      /\ \A x \in Cells : h[x] = live[x] \/ h[x] = held[c][x]
      /\ \A x \in Cells : h[x] # Unread => x \in Scope(c)
  BY <1>2, <1>3, <1>4
<1> HIDE DEF h
<1>6. /\ Core' /\ held'[c] = h /\ stream'[c] = stream[c] /\ cursor'[c] = cursor[c]
      /\ \A d \in Clients \ {c} :
           stream'[d] = stream[d] /\ cursor'[d] = cursor[d] /\ held'[d] = held[d]
  <2>1. OnlyClient(c, stream[c], cursor[c], h)
    BY <1>1, <1>2 DEF OnlyClient
  <2> QED BY <1>2, <1>5, <2>1, OneClient
<1> QED BY <1>1, <1>5, <1>6, Zenon DEF ClientMoves

LEMMA PollMoves ==
  ASSUME Core, NEW c \in Clients, PollSource(c)
  PROVE  ClientMoves(c)
<1> DEFINE s == stream[c]
           tail == TailOf(changes)
           resync == Read(changes, s.cursor).resync
           ready == IF s.first THEN <<ReadyFrame(s.cursor, tail)>> ELSE <<>>
           frames == ready \o Replay(c, changes, s.cursor)
           mark == Frame(tail, ResyncRequired, tail)
<1>1. /\ stream \in [Clients -> StreamType] /\ s \in StreamType /\ cursor[c] \in Cursor
      /\ held[c] \in [Cells -> Stage \cup {Unread}] /\ s.queue \in Seq(FrameType)
      /\ ClientOK(changes, cursor[c], s) /\ Cursors(changes, cursor[c], s)
      /\ (s.open => feed.built) /\ s.cursor \in Cursor
      /\ \A x \in Cells : held[c][x] # Unread => x \in Scope(c)
      /\ changes \in JournalOf(Event) /\ Aligned(changes) /\ faults \in Nat
  <2>1. stream \in [Clients -> StreamType]
    BY DEF Core, ClientType
  <2>2. s \in StreamType
    BY <2>1
  <2>3. s.cursor \in Cursor
    BY <2>2 DEF StreamType
  <2> QED BY <2>1, <2>3, ClientFacts, Zenon
<1>2. /\ UNCHANGED <<live, dataVersion, feed, obs, changes, available, cursor, held, faults>>
      /\ s.open /\ ~s.finished
  BY DEF PollSource, daemon
<1>3. Read(changes, s.cursor).cursor = tail /\ (~resync => s.cursor = NoCursor \/ ~Unreadable(changes, s.cursor))
  BY DEF Read
<1>4. \/ stream' = [stream EXCEPT ![c].finished = TRUE, ![c].queue = Append(@, mark)]
      \/ /\ ~resync /\ s.cursor # NoCursor
         /\ stream' = [stream EXCEPT ![c].queue = @ \o frames, ![c].first = FALSE,
                                     ![c].finished = HasResync(frames), ![c].cursor = tail]
  <2>1. Read(changes, s.cursor).cursor = tail
    BY <1>3
  <2> QED BY <2>1 DEF PollSource
<1>5. tail \in Cursor
  BY <1>1 DEF TailOf, Cursor, JournalOf
<1> HIDE DEF tail
<1>6. CASE stream' = [stream EXCEPT ![c].finished = TRUE, ![c].queue = Append(@, mark)]
  <2> DEFINE t == [s EXCEPT !.finished = TRUE, !.queue = Append(s.queue, mark)]
  <2>1. mark \in FrameType /\ mark.name = "resync_required" /\ mark.id = tail /\ mark.next = tail
    BY <1>5 DEF Frame, FrameType, ResyncRequired
  <2> HIDE DEF mark
  <2>2. Append(s.queue, mark) \in Seq(FrameType)
    BY <1>1, <2>1
  <2>3. /\ t \in StreamType /\ t.open = s.open /\ t.finished /\ t.cursor = s.cursor
        /\ t.queue = Append(s.queue, mark)
    BY <1>1, <2>2 DEF StreamType
  <2>4. stream' = [stream EXCEPT ![c] = t]
    BY <1>1, <1>6
  <2> HIDE DEF t
  <2>5. /\ ClientOK(changes, cursor[c], t)
        /\ \A k : Told(changes, cursor[c], s, k) => Told(changes, cursor[c], t, k)
    <3>1. t.open /\ t.finished /\ mark.id = TailOf(changes) /\ mark.next = TailOf(changes)
      BY <1>2, <2>1, <2>3 DEF tail
    <3> QED BY <1>1, <1>2, <2>1, <2>3, <3>1, ResyncEnds
  <2>6. OnlyClient(c, t, cursor[c], held[c])
    BY <1>1, <1>2, <2>4 DEF OnlyClient
  <2>7. /\ Core' /\ stream'[c] = t /\ cursor'[c] = cursor[c] /\ held'[c] = held[c]
        /\ \A d \in Clients \ {c} :
             stream'[d] = stream[d] /\ cursor'[d] = cursor[d] /\ held'[d] = held[d]
    BY <1>1, <2>3, <2>5, <2>6, OneClient
  <2> QED BY <1>2, <2>5, <2>7, Zenon DEF ClientMoves
<1>7. CASE /\ ~resync /\ s.cursor # NoCursor
           /\ stream' = [stream EXCEPT ![c].queue = @ \o frames, ![c].first = FALSE,
                                       ![c].finished = HasResync(frames), ![c].cursor = tail]
  <2>1. ~Unreadable(changes, s.cursor)
    BY <1>3, <1>7
  <2>2. PICK ix : Batch(c, changes, s.cursor, frames, ix)
    <3>1. ready = <<>> \/ ready = <<ReadyFrame(s.cursor, TailOf(changes))>>
      BY DEF tail
    <3> HIDE DEF ready, s
    <3> QED BY <1>1, <2>1, <3>1, BatchExists
  <2> HIDE DEF frames
  <2> DEFINE ends == HasResync(frames)
             t == [s EXCEPT !.queue = s.queue \o frames, !.first = FALSE,
                            !.finished = ends, !.cursor = tail]
  <2>3. s.queue \o frames \in Seq(FrameType) /\ ends \in BOOLEAN
    <3>1. frames \in Seq(FrameType)
      BY <2>2 DEF Batch
    <3> QED BY <1>1, <3>1 DEF HasResync
  <2>4. stream' = [stream EXCEPT ![c] = t]
    BY <1>1, <1>7
  <2> HIDE DEF ends
  <2>5. t \in StreamType /\ t.open = s.open /\ t.cursor = tail /\ t.queue = s.queue \o frames
    BY <1>1, <1>5, <2>3 DEF StreamType
  <2> HIDE DEF t
  <2>6. ClientOK(changes, cursor[c], t)
    <3>1. t.open /\ t.cursor = TailOf(changes)
      BY <1>2, <2>5 DEF tail
    <3> QED BY <1>1, <1>2, <2>1, <2>2, <2>5, <3>1, PollClient
  <2>7. ASSUME NEW x \in Cells, held[c][x] # Unread, Told(changes, cursor[c], s, KeyOf[x])
        PROVE  Told(changes, cursor[c], t, KeyOf[x])
    <3>1. Selected(c, KeyOf[x])
      BY <1>1, <2>7 DEF Scope
    <3>2. t.cursor = TailOf(changes)
      BY <2>5 DEF tail
    <3> QED BY <1>1, <1>2, <2>1, <2>2, <2>5, <2>7, <3>1, <3>2, PollTold
  <2>8. OnlyClient(c, t, cursor[c], held[c])
    BY <1>1, <1>2, <2>4 DEF OnlyClient
  <2>9. /\ Core' /\ stream'[c] = t /\ cursor'[c] = cursor[c] /\ held'[c] = held[c]
        /\ \A d \in Clients \ {c} :
             stream'[d] = stream[d] /\ cursor'[d] = cursor[d] /\ held'[d] = held[d]
    BY <1>1, <2>5, <2>6, <2>8, OneClient
  <2> QED BY <1>2, <2>7, <2>9, Zenon DEF ClientMoves
<1> QED BY <1>4, <1>6, <1>7

LEMMA DeliverMoves ==
  ASSUME Core, NEW c \in Clients, Deliver(c)
  PROVE  ClientMoves(c)
<1> DEFINE s == stream[c]
           frame == Head(s.queue)
           rest == SubSeq(s.queue, 2, Len(s.queue))
           t == IF rest = <<>> /\ s.finished THEN Closed ELSE [s EXCEPT !.queue = rest]
           next == IF frame.name = "resync_required" THEN frame.next ELSE frame.id
           h == [x \in Cells |-> IF Invalidates(frame, KeyOf[x]) THEN Unread ELSE held[c][x]]
<1>1. /\ s \in StreamType /\ cursor[c] \in Cursor
      /\ held[c] \in [Cells -> Stage \cup {Unread}]
      /\ ClientOK(changes, cursor[c], s)
      /\ (s.open => feed.built)
      /\ \A x \in Cells : held[c][x] # Unread => x \in Scope(c)
      /\ changes \in JournalOf(Event) /\ faults \in Nat
  BY ClientFacts, Zenon
<1>2. /\ UNCHANGED <<live, dataVersion, feed, obs, changes, available, faults>>
      /\ s.open /\ s.queue # <<>>
  BY DEF Deliver, daemon
<1>3. /\ stream' = [stream EXCEPT ![c] = t]
      /\ cursor' = [cursor EXCEPT ![c] = next]
      /\ held' = [held EXCEPT ![c] = h]
  BY Zenon DEF Deliver
<1>4. /\ h \in [Cells -> Stage \cup {Unread}]
      /\ \A x \in Cells : h[x] # Unread => h[x] = held[c][x] /\ ~Invalidates(frame, KeyOf[x])
  <2> HIDE DEF frame
  <2> QED BY <1>1
<1>5. /\ next \in Cursor /\ t \in StreamType /\ ClientOK(changes, next, t)
      /\ \A k : Told(changes, cursor[c], s, k) /\ ~Invalidates(frame, k)
                 => Told(changes, next, t, k)
  <2>1. Delivered(s, rest, t, next)
    BY Zenon DEF Delivered
  <2>2. /\ changes \in JournalOf(Event) /\ ClientOK(changes, cursor[c], s) /\ s.open
        /\ s.queue # <<>>
    BY <1>1, <1>2
  <2> HIDE DEF s, rest, t, next
  <2> QED BY <2>1, <2>2, DeliverFacts, Zenon
<1> HIDE DEF frame, rest, t, next, h
<1>6. OnlyClient(c, t, next, h)
  BY <1>1, <1>2, <1>3 DEF OnlyClient
<1>7. /\ Core' /\ stream'[c] = t /\ cursor'[c] = next /\ held'[c] = h
      /\ \A d \in Clients \ {c} :
           stream'[d] = stream[d] /\ cursor'[d] = cursor[d] /\ held'[d] = held[d]
  <2>1. \A x \in Cells : h[x] # Unread => x \in Scope(c)
    BY <1>1, <1>4, Zenon
  <2> QED BY <1>4, <1>5, <1>6, <2>1, OneClient
<1> QED BY <1>2, <1>4, <1>5, <1>7, Zenon DEF ClientMoves

LEMMA ClientSteps ==
  ASSUME Core, NEW c \in Clients, Client(c) \/ Drop(c)
  PROVE  ClientMoves(c)
  BY CheckpointMoves, SubscribeMoves, PollMoves, DeliverMoves, FetchMoves, DropMoves DEF Client

LEMMA CoreNext ==
  ASSUME Core, [Next]_vars
  PROVE  Core'
<1>1. CASE UNCHANGED vars
  BY <1>1 DEF vars, Core, DaemonType, JournalOK, ClientType, Versions, Stages, ClientsOK, Scope
<1>2. ASSUME NEW c \in Clients, Client(c) \/ Drop(c)
      PROVE  Core'
  BY <1>2, ClientSteps, Zenon DEF ClientMoves
<1> QED
  BY <1>1, <1>2, CoreEnvironment, CoreReads, CoreCompares, CoreAdopts, CorePublishes, CoreRestart
     DEF Next, Observer

(* What the observer, the journal and the subscriptions of /events keep to at   *)
(* every step: types, the order in which poll() reads the version and the rows, *)
(* and for every client that the frames queued for it and the cursor it would   *)
(* reconnect with agree with the journal.                                      *)
THEOREM CoreHolds == Spec => []Core
<1> QED
  BY CoreInit, CoreNext, PTL DEF Spec

(* Type correctness of the change feed: the baseline, the observation under     *)
(* way, the journal and every subscription stay well formed.                   *)
THEOREM TypesAreKept == Spec => []TypeOK
<1>1. Core => TypeOK
  BY DEF Core, DaemonType, FeedType, ObsType, Revisions, JournalOK, JournalOf,
         ClientType, StreamType, TypeOK
<1> QED
  BY <1>1, CoreHolds, PTL

(* poll() may skip its snapshot when the data version has not moved: the       *)
(* baseline it keeps is then the committed state of every row, however commits  *)
(* fall between reading the version, taking the snapshot and adopting it.      *)
THEOREM BaselineIsCurrent == Spec => []SkippedSnapshotIsCurrent
<1>1. Core => SkippedSnapshotIsCurrent
  BY DEF Core, Versions, SkippedSnapshotIsCurrent
<1> QED
  BY <1>1, CoreHolds, PTL

(* A failed observation reaches every subscriber: a mark that a subscription   *)
(* has read past and its client has not is still to be delivered, whatever the  *)
(* project filter, the limits of the journal and the number of reconnects.     *)
THEOREM FailuresAreReported == Spec => []ObserverFailureReported
<1>1. ASSUME Core PROVE ObserverFailureReported
  <2> SUFFICES ASSUME NEW c \in Clients, NEW i \in DOMAIN changes.events,
                      changes.events[i].name = "resync_required",
                      stream[c].open, cursor[c].epoch = changes.epoch,
                      cursor[c].sequence < changes.oldest - 1 + i,
                      changes.oldest - 1 + i <= stream[c].cursor.sequence
               PROVE  HasResync(stream[c].queue)
    BY DEF ObserverFailureReported
  <2> DEFINE q == stream[c].queue
  <2>1. /\ Outdated(changes, cursor[c], stream[c]) /\ Reported(changes, cursor[c], stream[c])
        /\ changes \in JournalOf(Event) /\ q \in Seq(FrameType)
    BY <1>1, ClientFacts DEF ClientOK
  <2>2. stream[c].cursor.epoch = changes.epoch
    BY <2>1, Zenon DEF Outdated
  <2>3. i \in 1..Len(changes.events) /\ 0 \in 0..Len(q) /\ DOMAIN q = 1..Len(q)
        /\ \A p \in (0 + 1)..Len(q) : p \in 1..Len(q)
    BY <2>1 DEF JournalOf
  <2>4. After(cursor[c], q, 0) = cursor[c]
    BY DEF After
  <2>5. PICK p \in (0 + 1)..Len(q) : q[p].name = "resync_required"
    BY <2>1, <2>2, <2>3, <2>4, Zenon DEF Reported
  <2> QED BY <2>3, <2>5, Zenon DEF HasResync
<1> QED
  BY <1>1, CoreHolds, PTL

-----------------------------------------------------------------------------
(* The promise.                                                               *)

(* What the observation under way saw of a cell.                               *)
Seen(x) == IF x \in Rows THEN obs.rows[x] ELSE obs.revisions[x]

(* State n of a cell is out of date to the feed: by its baseline, or by the     *)
(* observation under way once the cell's key is published.                     *)
Due(x, n) ==
  \/ n < Observed(x)
  \/ obs.pc = "publish" /\ KeyOf[x] \notin obs.changed /\ n < Seen(x)

Promise ==
  \A c \in Clients : \A x \in Cells :
    held[c][x] # Unread /\ Due(x, held[c][x]) =>
      Told(changes, cursor[c], stream[c], KeyOf[x])

LEMMA CellFacts ==
  ASSUME Core, NEW x \in Cells
  PROVE  /\ live[x] \in Stage /\ Observed(x) \in Stage \cup {Unlisted}
         /\ Seen(x) \in Stage \cup {Unlisted}
         /\ Observed(x) <= live[x] /\ Seen(x) <= live[x]
         /\ KeyOf[x] \in Keys
         /\ x \in Projects \/ x \in Rows
         /\ \A n \in Stage : n \in Nat /\ n # Unlisted
<1>1. /\ live \in [Cells -> Stage] /\ feed \in FeedType /\ obs \in ObsType
  BY DEF Core, DaemonType
<1>2. KeyOf[x] \in Keys /\ (x \in Projects \/ x \in Rows)
  BY CellAssumption DEF Cells
<1>3. \A n \in Stage : n \in Nat /\ n # Unlisted
  BY CellAssumption DEF Stage, Unlisted
<1>4. CASE x \in Rows
  BY <1>1, <1>2, <1>3, <1>4 DEF Observed, Seen, FeedType, ObsType, Core, Stages
<1>5. CASE x \notin Rows
  BY <1>1, <1>2, <1>3, <1>5 DEF Observed, Seen, FeedType, ObsType, Revisions, Core, Stages
<1> QED BY <1>4, <1>5

(* A cell that was just read is not out of date.                               *)
LEMMA ReadIsNotDue ==
  ASSUME Core, NEW x \in Cells
  PROVE  ~Due(x, live[x])
<1>1. /\ live[x] \in Int /\ Observed(x) \in Int /\ Seen(x) \in Int
      /\ Observed(x) <= live[x] /\ Seen(x) <= live[x]
  BY CellFacts, CellAssumption DEF Unlisted, Stage
<1> QED BY <1>1 DEF Due

LEMMA PromiseInit == Init => Promise
<1> SUFFICES ASSUME Init PROVE Promise
  OBVIOUS
<1>1. \A c \in Clients : \A x \in Cells : held[c][x] = Unread
  BY DEF Init, Nothing
<1> QED BY <1>1, Zenon DEF Promise

(* Nothing becomes due, and what clients and journal hold stays.                *)
LEMMA PromiseKept ==
  ASSUME Core, Promise, UNCHANGED <<changes, stream, cursor, held>>,
         \A x \in Cells : \A n \in Stage : Due(x, n)' => Due(x, n)
  PROVE  Promise'
<1>1. \A c \in Clients : \A x \in Cells : held[c][x] # Unread => held[c][x] \in Stage
  BY DEF Core, ClientType
<1> QED BY <1>1, Zenon DEF Promise

LEMMA PromiseQuiet ==
  ASSUME Core, Promise,
         \/ \E rows \in SUBSET Rows : Commit(rows)
         \/ \E p \in Projects : MoveHead(p)
         \/ ReadVersion \/ ListProjects \/ (\E p \in Projects : ReadHead(p))
  PROVE  Promise'
<1>1. UNCHANGED <<feed, changes, stream, cursor, held>>
  BY DEF Commit, MoveHead, ReadVersion, ListProjects, ReadHead, daemon, clients
<1>2. obs' = obs \/ obs'.pc # "publish"
  <2>1. obs \in ObsType
    BY DEF Core, DaemonType
  <2>2. CASE ReadVersion
    <3>1. PICK pc \in {"list", "snapshot"} :
            obs' = [IdleObserver EXCEPT !.pc = pc, !.version = dataVersion]
      BY <2>2 DEF ReadVersion
    <3> QED BY <3>1, InitFeed DEF ObsType
  <2>3. CASE ListProjects
    <3>1. PICK left : obs' = [obs EXCEPT !.pc = "heads", !.left = left]
      BY <2>3 DEF ListProjects
    <3> QED BY <2>1, <3>1 DEF ObsType
  <2>4. ASSUME NEW p \in Projects, ReadHead(p)
        PROVE  obs'.pc # "publish"
    <3>1. PICK left, new : obs' = [obs EXCEPT !.left = left, !.revisions = new]
      BY <2>4 DEF ReadHead
    <3>2. obs.pc = "heads"
      BY <2>4 DEF ReadHead
    <3> QED BY <2>1, <3>1, <3>2 DEF ObsType
  <2> QED BY <2>2, <2>3, <2>4 DEF Commit, MoveHead, daemon
<1>3. \A x \in Cells : \A n \in Stage : Due(x, n)' => Due(x, n)
  BY <1>1, <1>2, Zenon DEF Due, Observed, Seen
<1> QED BY <1>1, <1>3, PromiseKept

(* A key poll() does not put into `changed' is of cells it saw as they were.    *)
LEMMA DifferTells ==
  ASSUME NoStateReturns, Core, NEW rows \in [Rows -> Stage], NEW revisions \in Revisions,
         NEW x \in Cells, KeyOf[x] \notin Differ(rows, revisions),
         NEW n \in Stage, n < (IF x \in Rows THEN rows[x] ELSE revisions[x])
  PROVE  n < Observed(x)
<1>1. feed.previous \in [Rows -> Stage] /\ feed.revisions \in Revisions
  BY DEF Core, DaemonType, FeedType
<1>2. n \in Nat /\ n # Unlisted /\ (x \in Projects \/ x \in Rows)
  BY CellFacts
<1>3. ASSUME NEW a \in Stage, NEW b \in Stage, Look(x, a) = Look(x, b)
      PROVE  a = b
  BY <1>3, Zenon DEF NoStateReturns
<1>4. CASE x \in Rows
  <2>1. Look(x, rows[x]) = Look(x, feed.previous[x])
    BY <1>4 DEF Differ
  <2>2. rows[x] \in Stage /\ feed.previous[x] \in Stage
    BY <1>1, <1>4
  <2>3. rows[x] = feed.previous[x]
    BY <1>3, <2>1, <2>2
  <2> QED BY <1>4, <2>3 DEF Observed
<1>5. CASE x \notin Rows
  <2>1. x \in Projects /\ n < revisions[x]
    BY <1>2, <1>5
  <2>2. /\ revisions[x] \in Stage \cup {Unlisted}
        /\ feed.revisions[x] \in Stage \cup {Unlisted}
    BY <1>1, <2>1 DEF Revisions
  <2>3. revisions[x] # Unlisted
    BY <1>2, <2>1 DEF Unlisted
  <2>4. Revision(x, revisions[x]) = Revision(x, feed.revisions[x])
    BY <2>1, <2>3, Zenon DEF Differ
  <2>5. Look(x, revisions[x]) # Unlisted
    BY <2>2, <2>3, Zenon DEF NoStateReturns
  <2>6. feed.revisions[x] # Unlisted
    BY <2>3, <2>4, <2>5, Zenon DEF Revision
  <2>7. Look(x, revisions[x]) = Look(x, feed.revisions[x])
    BY <2>3, <2>4, <2>6, Zenon DEF Revision
  <2>8. revisions[x] = feed.revisions[x]
    BY <1>3, <2>2, <2>3, <2>6, <2>7
  <2> QED BY <1>5, <2>1, <2>8 DEF Observed
<1> QED BY <1>4, <1>5

LEMMA PromiseCompares ==
  ASSUME NoStateReturns, Core, Promise, Compare \/ Snapshot
  PROVE  Promise'
<1>1. UNCHANGED <<feed, changes, stream, cursor, held>>
  BY DEF Compare, Snapshot, clients
<1>2. obs \in ObsType /\ feed \in FeedType /\ live \in [Cells -> Stage]
  BY DEF Core, DaemonType
<1>3. \/ obs'.pc # "publish"
      \/ /\ obs'.rows \in [Rows -> Stage] /\ obs'.revisions \in Revisions
         /\ obs'.changed = Differ(obs'.rows, obs'.revisions)
  <2>1. CASE obs' = IdleObserver
    BY <2>1, InitFeed
  <2>2. CASE obs' = [obs EXCEPT !.pc = "snapshot"]
    BY <1>2, <2>2 DEF ObsType
  <2>3. ASSUME NEW rows \in [Rows -> Stage], NEW pc, NEW changed,
               obs' = [obs EXCEPT !.pc = pc, !.rows = rows, !.changed = changed],
               pc = "publish" => changed = Differ(rows, obs.revisions)
        PROVE  \/ obs'.pc # "publish"
               \/ /\ obs'.rows \in [Rows -> Stage] /\ obs'.revisions \in Revisions
                  /\ obs'.changed = Differ(obs'.rows, obs'.revisions)
    <3>1. /\ obs'.pc = pc /\ obs'.rows = rows /\ obs'.changed = changed
          /\ obs'.revisions = obs.revisions /\ obs.revisions \in Revisions
      BY <1>2, <2>3 DEF ObsType
    <3> QED BY <2>3, <3>1, Zenon
  <2>4. CASE obs' = [obs EXCEPT !.pc = "publish", !.rows = feed.previous,
                                !.changed = Differ(feed.previous, obs.revisions)]
    <3>1. feed.previous \in [Rows -> Stage]
      BY <1>2 DEF FeedType
    <3> QED BY <2>3, <2>4, <3>1, Zenon
  <2>5. CASE Snapshot
    <3> DEFINE rows == [r \in Rows |-> live[r]]
               pc == IF feed.built THEN "publish" ELSE "list"
               changed == IF feed.built THEN Differ(rows, obs.revisions) ELSE {}
    <3>1. obs' = [obs EXCEPT !.pc = pc, !.rows = rows, !.changed = changed]
      BY <2>5 DEF Snapshot
    <3>2. rows \in [Rows -> Stage] /\ (pc = "publish" => changed = Differ(rows, obs.revisions))
      BY <1>2 DEF Cells
    <3> HIDE DEF rows, pc, changed
    <3> QED BY <2>3, <3>1, <3>2, Zenon
  <2> QED BY <2>1, <2>2, <2>4, <2>5 DEF Compare
<1>4. ASSUME NEW x \in Cells, NEW n \in Stage, Due(x, n)'
      PROVE  Due(x, n)
  <2>1. CASE n < Observed(x)'
    BY <1>1, <2>1 DEF Due, Observed
  <2>2. CASE obs'.pc = "publish" /\ KeyOf[x] \notin obs'.changed /\ n < Seen(x)'
    <3>1. n < (IF x \in Rows THEN obs'.rows[x] ELSE obs'.revisions[x])
      BY <2>2 DEF Seen
    <3>2. n < Observed(x)
      BY <1>3, <2>2, <3>1, DifferTells
    <3> QED BY <3>2 DEF Due
  <2> QED BY <1>4, <2>1, <2>2 DEF Due
<1> QED BY <1>1, <1>4, PromiseKept

(* The first baseline of a process makes nothing due to a client that resumes   *)
(* from its own epoch, because there is none.                                  *)
LEMMA PromiseConstruct ==
  ASSUME Core, Construct
  PROVE  Promise'
<1>1. UNCHANGED <<changes, stream, cursor, held>> /\ ~feed.built
  BY DEF Construct, clients
<1>2. ASSUME NEW c \in Clients, NEW k
      PROVE  Told(changes, cursor[c], stream[c], k)
  <2>1. /\ cursor[c] \in Cursor /\ changes \in JournalOf(Event) /\ Behind(changes, cursor[c])
        /\ (~stream[c].open => stream[c] = Closed)
    BY ClientFacts, Zenon
  <2>2. ~stream[c].open /\ cursor[c].epoch < changes.epoch
    BY <1>1, Zenon DEF Core, ClientsOK
  <2>3. cursor[c].epoch # changes.epoch
    BY <2>1, <2>2 DEF Cursor, JournalOf
  <2>4. PendingIn(changes, cursor[c], k)
    BY <2>3 DEF PendingIn, Unreadable
  <2> QED BY <2>1, <2>2, <2>4, ClosedFacts, Zenon
<1> QED BY <1>1, <1>2, Zenon DEF Promise

(* poll() adopts what it saw once every changed key is published.               *)
LEMMA PromiseFinish ==
  ASSUME Core, Promise, Finish
  PROVE  Promise'
<1>1. /\ UNCHANGED <<changes, stream, cursor, held>>
      /\ obs.pc = "publish" /\ obs.changed = {} /\ obs' = IdleObserver
      /\ feed' = [feed EXCEPT !.version = obs.version, !.previous = obs.rows,
                              !.revisions = obs.revisions]
  BY DEF Finish, clients
<1>2. feed'.previous = obs.rows /\ feed'.revisions = obs.revisions
  BY <1>1 DEF Core, DaemonType, FeedType
<1>3. obs'.pc # "publish"
  BY <1>1, InitFeed
<1>4. \A x \in Cells : Observed(x)' = Seen(x)
  BY <1>2, Zenon DEF Observed, Seen
<1>5. \A x \in Cells : \A n \in Stage : Due(x, n)' => Due(x, n)
  BY <1>1, <1>3, <1>4 DEF Due
<1> QED BY <1>1, <1>5, PromiseKept

(* An event in the journal, or none: what is due afterwards was due before or   *)
(* is what the event announces.                                                *)
LEMMA PromiseGrows ==
  ASSUME Core, Promise, NEW e \in Event,
         UNCHANGED <<stream, cursor, held>>,
         changes' = AppendTo(changes, e, FALSE),
         \A x \in Cells : \A n \in Stage :
           Due(x, n)' => Due(x, n) \/ Announces(e, KeyOf[x])
  PROVE  Promise'
<1> DEFINE fin == FALSE
           j == changes
           a == changes'
<1>1. fin \in BOOLEAN /\ j \in JournalOf(Event) /\ Aligned(j) /\ a = AppendTo(j, e, fin)
  BY DEF Core, JournalOK
<1> HIDE DEF fin, a, j
<1>2. ASSUME NEW c \in Clients, NEW k,
             Told(j, cursor[c], stream[c], k) \/ Announces(e, k)
      PROVE  Told(a, cursor[c], stream[c], k)
  <2>1. Cursors(j, cursor[c], stream[c])
    BY ClientFacts, Zenon DEF j
  <2> QED BY <1>1, <1>2, <2>1, ToldAppend, Zenon
<1>3. \A c \in Clients : \A x \in Cells : held[c][x] # Unread => held[c][x] \in Stage
  BY DEF Core, ClientType
<1>4. ASSUME NEW c \in Clients, NEW x \in Cells, held[c][x] # Unread, Due(x, held[c][x])'
      PROVE  Told(a, cursor[c], stream[c], KeyOf[x])
  <2>1. held' = held
    OBVIOUS
  <2>2. held[c][x] \in Stage /\ Due(x, held[c][x])'
    BY <1>3, <1>4, Zenon
  <2>3. Due(x, held[c][x]) \/ Announces(e, KeyOf[x])
    BY <2>1, <2>2, Zenon DEF Due, Observed, Seen
  <2> QED BY <1>2, <1>4, <2>3, Zenon DEF Promise, j
<1> QED BY <1>4, Zenon DEF Promise, a

LEMMA PromisePublishes ==
  ASSUME Core, Promise, (\E k \in Keys : Publish(k)) \/ Fail
  PROVE  Promise'
<1>1. UNCHANGED <<feed, stream, cursor, held>>
  BY DEF Publish, Fail, clients
<1>2. ASSUME NEW k \in Keys, Publish(k)
      PROVE  Promise'
  <2> DEFINE deleted == ~HasKey(obs.rows, k)
             e == Changed(k, deleted)
  <2>1. deleted \in BOOLEAN /\ changes' = AppendTo(changes, e, FALSE)
        /\ obs' = [obs EXCEPT !.changed = @ \ {k}]
    BY <1>2 DEF Publish
  <2> HIDE DEF deleted
  <2>2. e \in Event /\ Announces(e, k)
    BY <2>1, EventFacts, Zenon
  <2> HIDE DEF e
  <2>3. /\ obs'.pc = obs.pc /\ obs'.changed = obs.changed \ {k}
        /\ obs'.rows = obs.rows /\ obs'.revisions = obs.revisions
    BY <2>1 DEF Core, DaemonType, ObsType
  <2>4. \A x \in Cells : \A n \in Stage : Due(x, n)' => Due(x, n) \/ KeyOf[x] = k
    BY <1>1, <2>3, Zenon DEF Due, Observed, Seen
  <2>5. \A x \in Cells : \A n \in Stage :
          Due(x, n)' => Due(x, n) \/ Announces(e, KeyOf[x])
    BY <2>2, <2>4, Zenon
  <2> QED BY <1>1, <2>1, <2>2, <2>5, PromiseGrows
<1>3. CASE Fail
  <2>1. obs'.pc # "publish"
    BY <1>3, InitFeed DEF Fail
  <2>2. \A x \in Cells : \A n \in Stage : Due(x, n)' => Due(x, n)
    BY <1>1, <2>1, Zenon DEF Due, Observed
  <2>3. CASE changes' = changes
    BY <1>1, <2>2, <2>3, PromiseKept
  <2>4. CASE changes' = AppendTo(changes, ResyncRequired, FALSE)
    BY <1>1, <2>2, <2>4, EventFacts, PromiseGrows
  <2> QED BY <1>3, <2>3, <2>4 DEF Fail
<1> QED BY <1>2, <1>3

(* A new process has observed nothing.                                         *)
LEMMA PromiseRestart ==
  ASSUME Core, Restart
  PROVE  Promise'
<1>1. feed' = NoFeed /\ obs' = IdleObserver /\ held' = held
  BY DEF Restart
<1>2. \A c \in Clients : \A x \in Cells : held[c][x] # Unread => held[c][x] \in Nat
  BY CellAssumption DEF Core, ClientType, Stage, Unread
<1>3. ASSUME NEW x \in Cells
      PROVE  Observed(x)' = 0 \/ Observed(x)' = -1
  <2>1. x \in Rows \/ x \in Projects
    BY DEF Cells
  <2> QED BY <1>1, <2>1, InitFeed DEF Observed, Unlisted
<1>4. obs'.pc # "publish"
  BY <1>1, InitFeed
<1>5. ASSUME NEW c \in Clients, NEW x \in Cells, held'[c][x] # Unread
      PROVE  ~Due(x, held[c][x])'
  <2>1. held'[c][x] \in Nat
    BY <1>1, <1>2, <1>5
  <2>2. ~(held'[c][x] < Observed(x)')
    BY <1>3, <2>1
  <2> QED BY <1>4, <2>2, Zenon DEF Due
<1> QED BY <1>5, Zenon DEF Promise

LEMMA PromiseClients ==
  ASSUME Core, Promise, NEW c \in Clients, ClientMoves(c)
  PROVE  Promise'
<1>1. UNCHANGED <<live, feed, obs, changes>>
  BY DEF ClientMoves
<1>2. ASSUME NEW x, NEW n
      PROVE  Due(x, n)' = Due(x, n)
  BY <1>1 DEF Due, Observed, Seen
<1>3. ASSUME NEW d \in Clients, NEW x \in Cells, held'[d][x] # Unread, Due(x, held[d][x])'
      PROVE  Told(changes, cursor'[d], stream'[d], KeyOf[x])
  <2>1. Due(x, held'[d][x])
    BY <1>1, <1>3, Zenon DEF Due, Observed, Seen
  <2>2. CASE d # c
    BY <1>3, <2>1, <2>2, Zenon DEF ClientMoves, Promise
  <2>3. CASE d = c
    <3>1. held'[c][x] # live[x]
      BY <2>1, <2>3, ReadIsNotDue, Zenon
    <3>2. /\ held'[c][x] = held[c][x]
          /\ Told(changes, cursor[c], stream[c], KeyOf[x]) =>
               Told(changes, cursor'[c], stream'[c], KeyOf[x])
      BY <1>3, <2>3, <3>1, Zenon DEF ClientMoves
    <3>3. Told(changes, cursor[c], stream[c], KeyOf[x])
      BY <1>3, <2>1, <2>3, <3>2, Zenon DEF Promise
    <3> QED BY <2>3, <3>2, <3>3, Zenon
  <2> QED BY <2>2, <2>3
<1> QED BY <1>1, <1>3, Zenon DEF Promise

LEMMA PromiseNext ==
  ASSUME NoStateReturns, Core, Promise, [Next]_vars
  PROVE  Promise'
<1>1. CASE UNCHANGED vars
  <2>1. UNCHANGED <<feed, obs, changes, stream, cursor, held>>
    BY <1>1 DEF vars
  <2>2. \A x \in Cells : \A n \in Stage : Due(x, n)' => Due(x, n)
    BY <2>1, Zenon DEF Due, Observed, Seen
  <2> QED BY <2>1, <2>2, PromiseKept
<1>2. ASSUME NEW c \in Clients, Client(c) \/ Drop(c)
      PROVE  Promise'
  BY <1>2, ClientSteps, PromiseClients, Zenon
<1> QED
  BY <1>1, <1>2, PromiseQuiet, PromiseCompares, PromiseConstruct, PromiseFinish,
     PromisePublishes, PromiseRestart
     DEF Next, Observer

(* No change is missed, for any number of cells, clients, reconnects, observer  *)
(* failures and restarts and any limits of the journal: if the observer's       *)
(* baseline is newer than what a client holds of a cell, then at every frame    *)
(* of its queue an earlier frame has told it or resuming from its cursor will,   *)
(* and the live subscription will if no queued frame does.  The hypothesis is   *)
(* that no cell takes on again a look it had before, which poll() could not     *)
(* tell from no change at all.                                                 *)
THEOREM NoChangeIsMissed == NoStateReturns => (Spec => []NoMissedChange)
<1> SUFFICES ASSUME NoStateReturns
             PROVE  Spec => []NoMissedChange
  OBVIOUS
<1>1. Init => Core /\ Promise
  BY CoreInit, PromiseInit
<1>2. Core /\ Promise /\ [Next]_vars => Core' /\ Promise'
  BY CoreNext, PromiseNext
<1>3. ASSUME Core, Promise PROVE NoMissedChange
  <2> SUFFICES ASSUME NEW c \in Clients, NEW x \in Cells,
                      held[c][x] # Unread, held[c][x] < Observed(x)
               PROVE  /\ \A i \in 0..Len(stream[c].queue) :
                           SparedBy(c, i, KeyOf[x]) => Pending(CursorAfter(c, i), KeyOf[x])
                      /\ stream[c].open /\ ~stream[c].finished
                           /\ SparedBy(c, Len(stream[c].queue), KeyOf[x])
                           => Pending(stream[c].cursor, KeyOf[x])
    BY Zenon DEF NoMissedChange
  <2>1. Told(changes, cursor[c], stream[c], KeyOf[x])
    BY <1>3, Zenon DEF Promise, Due
  <2>2. \A at, k : Pending(at, k) = PendingIn(changes, at, k)
    BY Zenon DEF Pending, PendingIn, Announces
  <2>3. \A i, k : SparedBy(c, i, k) = Spared(stream[c].queue, i, k)
    BY Zenon DEF SparedBy, Spared
  <2>4. \A i : CursorAfter(c, i) = After(cursor[c], stream[c].queue, i)
    BY Zenon DEF CursorAfter, After
  <2> QED BY <2>1, <2>2, <2>3, <2>4, Zenon DEF Told
<1> QED
  BY <1>1, <1>2, <1>3, PTL DEF Spec

=============================================================================
