------------------------- MODULE EventJournalProofs -------------------------
(* What append() and read() do to a journal, for every capacity, byte limit    *)
(* and frame size.  The facts every proof about a user of the journal needs.   *)
EXTENDS EventJournal, FiniteSetTheorems, WellFoundedInduction, TLAPS

(* The shape of a journal of events from E: the deque holds the events        *)
(* numbered oldest .. sequence.                                              *)
JournalOf(E) == [epoch : Nat \ {0}, sequence : Nat, oldest : Nat \ {0},
                 events : Seq(E), finished : BOOLEAN]
Aligned(j) == Len(j.events) = j.sequence - (j.oldest - 1)

LEMMA SuffixFacts ==
  ASSUME NEW E, NEW s \in Seq(E), NEW m \in 1..(Len(s) + 1)
  PROVE  /\ SubSeq(s, m, Len(s)) \in Seq(E)
         /\ Len(SubSeq(s, m, Len(s))) = Len(s) - m + 1
         /\ \A i \in 1..(Len(s) - m + 1) : SubSeq(s, m, Len(s))[i] = s[i + m - 1]
<1>1. \A k \in m..Len(s) : s[k] \in E
  OBVIOUS
<1> QED
  BY <1>1

LEMMA ConcatFacts ==
  ASSUME NEW S, NEW q \in Seq(S), NEW f \in Seq(S)
  PROVE  /\ q \o f \in Seq(S) /\ Len(q) \in Nat /\ Len(f) \in Nat
         /\ Len(q \o f) = Len(q) + Len(f)
         /\ \A i \in 1..Len(q) : (q \o f)[i] = q[i]
         /\ \A i \in 1..Len(f) : (q \o f)[Len(q) + i] = f[i]
         /\ \A i \in 1..Len(q \o f) :
              i \notin 1..Len(q) => i - Len(q) \in 1..Len(f) /\ (q \o f)[i] = f[i - Len(q)]
  OBVIOUS

(* The eviction loop of append() ends at the latest with an empty deque.       *)
LEMMA EvictCountBound ==
  ASSUME NEW E, NEW s \in Seq(E)
  PROVE  EvictCount(s) \in 0..Len(s)
<1> DEFINE S == {n \in 0..(Len(s) - 1) : Exceeds(SubSeq(s, n + 1, Len(s)))}
<1>1. Len(s) \in Nat
  OBVIOUS
<1>2. /\ IsFiniteSet(0..(Len(s) - 1))
      /\ Cardinality(0..(Len(s) - 1)) = Len(s)
  <2>1. 0 \in Int /\ Len(s) - 1 \in Int
    BY <1>1
  <2>2. Cardinality(0..(Len(s) - 1)) = IF 0 > Len(s) - 1 THEN 0 ELSE (Len(s) - 1) - 0 + 1
    BY <2>1, FS_Interval
  <2>3. IsFiniteSet(0..(Len(s) - 1))
    BY <2>1, FS_Interval
  <2>4. (IF 0 > Len(s) - 1 THEN 0 ELSE (Len(s) - 1) - 0 + 1) = Len(s)
    BY <1>1
  <2> QED
    BY <2>2, <2>3, <2>4
<1>3. S \subseteq 0..(Len(s) - 1)
  OBVIOUS
<1>4. Cardinality(S) \in Nat /\ Cardinality(S) <= Len(s)
  BY <1>2, <1>3, FS_Subset, FS_CardinalityType
<1> QED
  BY <1>1, <1>4 DEF EvictCount

LEMMA AppendSuffix ==
  ASSUME NEW E, NEW s \in Seq(E), NEW e \in E, NEW n \in 0..(Len(s) + 1),
         NEW t, t = SubSeq(Append(s, e), n + 1, Len(Append(s, e)))
  PROVE  /\ t \in Seq(E)
         /\ Len(t) = Len(s) + 1 - n
         /\ \A i \in 1..(Len(s) + 1 - n) :
              t[i] = IF i + n = Len(s) + 1 THEN e ELSE s[i + n]
<1> DEFINE all == Append(s, e)
<1>1. /\ all \in Seq(E) /\ Len(all) = Len(s) + 1 /\ Len(s) \in Nat
      /\ \A i \in 1..Len(s) : all[i] = s[i]
      /\ all[Len(s) + 1] = e
  OBVIOUS
<1>2. t = SubSeq(all, n + 1, Len(all))
  OBVIOUS
<1> HIDE DEF all
<1>3. n + 1 \in 1..(Len(all) + 1)
  BY <1>1
<1>4. /\ t \in Seq(E)
      /\ Len(t) = Len(all) - (n + 1) + 1
      /\ \A i \in 1..(Len(all) - (n + 1) + 1) : t[i] = all[i + (n + 1) - 1]
  BY SMTT(30), <1>1, <1>2, <1>3, SuffixFacts
<1>5. Len(all) - (n + 1) + 1 = Len(s) + 1 - n
  BY <1>1
<1>6. ASSUME NEW i \in 1..(Len(s) + 1 - n)
      PROVE  t[i] = IF i + n = Len(s) + 1 THEN e ELSE s[i + n]
  <2>1. i + (n + 1) - 1 = i + n /\ i + n \in 1..(Len(s) + 1)
    BY <1>1
  <2>2. t[i] = all[i + n]
    BY <1>4, <1>5, <2>1
  <2>3. CASE i + n = Len(s) + 1
    BY <1>1, <2>2, <2>3
  <2>4. CASE i + n # Len(s) + 1
    <3>1. i + n \in 1..Len(s)
      BY <1>1, <2>1, <2>4
    <3> QED
      BY <1>1, <2>2, <2>4, <3>1
  <2> QED
    BY <2>3, <2>4
<1> QED
  BY <1>4, <1>5, <1>6

(* append() numbers the new event, keeps the window contiguous and moves       *)
(* every retained event with its number.                                      *)
LEMMA AppendFacts ==
  ASSUME NEW E, NEW j \in JournalOf(E), NEW e \in E, NEW fin \in BOOLEAN, Aligned(j),
         NEW a, a = AppendTo(j, e, fin)
  PROVE  /\ a \in JournalOf(E)
         /\ Aligned(a)
         /\ a.epoch = j.epoch
         /\ a.sequence = j.sequence + 1
         /\ a.oldest \in j.oldest..(j.sequence + 2)
         /\ \A i \in 1..Len(a.events) :
              a.events[i] = IF i + (a.oldest - 1) = a.sequence THEN e
                            ELSE j.events[i + (a.oldest - j.oldest)]
<1> DEFINE s == j.events
           n == EvictCount(Append(s, e))
           t == SubSeq(Append(s, e), n + 1, Len(Append(s, e)))
           seq == j.sequence
           old == j.oldest
           done == j.finished \/ fin
<1>1. s \in Seq(E) /\ seq \in Nat /\ old \in Nat \ {0} /\ done \in BOOLEAN
      /\ Len(s) = seq - (old - 1) /\ Len(s) \in Nat
  BY DEF JournalOf, Aligned
<1>2. a = [j EXCEPT !.sequence = seq + 1, !.oldest = old + n, !.events = t, !.finished = done]
  BY DEF AppendTo
<1>3. n \in 0..(Len(s) + 1)
  <2>1. Append(s, e) \in Seq(E) /\ Len(Append(s, e)) = Len(s) + 1
    BY <1>1
  <2> QED
    BY <2>1, EvictCountBound
<1> HIDE DEF n
<1> HIDE DEF s, t, seq, old, done
<1>4. /\ t \in Seq(E)
      /\ Len(t) = Len(s) + 1 - n
      /\ \A i \in 1..(Len(s) + 1 - n) : t[i] = IF i + n = Len(s) + 1 THEN e ELSE s[i + n]
  <2>1. t = SubSeq(Append(s, e), n + 1, Len(Append(s, e)))
    BY DEF t
  <2>2. s \in Seq(E) /\ n \in 0..(Len(s) + 1)
    BY <1>1, <1>3
  <2> QED
    BY SMTT(30), <2>1, <2>2, AppendSuffix
<1>5. seq + 1 \in Nat /\ old + n \in Nat \ {0} /\ old + n \in old..(seq + 2)
  BY <1>1, <1>3
<1>6. /\ a \in JournalOf(E) /\ a.epoch = j.epoch /\ a.sequence = seq + 1
      /\ a.oldest = old + n /\ a.events = t
  BY <1>1, <1>2, <1>4, <1>5 DEF JournalOf
<1>7. Len(t) = seq + 1 - (old + n - 1)
  BY <1>1, <1>3, <1>4
<1>8. ASSUME NEW i \in 1..Len(t)
      PROVE  t[i] = IF i + (old + n - 1) = seq + 1 THEN e ELSE s[i + ((old + n) - old)]
  <2>1. i \in 1..(Len(s) + 1 - n) /\ i + ((old + n) - old) = i + n
        /\ (i + n = Len(s) + 1 <=> i + (old + n - 1) = seq + 1)
    BY <1>1, <1>3, <1>4
  <2> QED
    BY <1>4, <2>1
<1>9. Aligned(a)
  BY <1>1, <1>3, <1>6, <1>7 DEF Aligned
<1>10. /\ a.sequence = j.sequence + 1 /\ a.oldest \in j.oldest..(j.sequence + 2)
  BY <1>5, <1>6 DEF seq, old
<1>11. ASSUME NEW i \in 1..Len(a.events)
       PROVE  a.events[i] = IF i + (a.oldest - 1) = a.sequence THEN e
                            ELSE j.events[i + (a.oldest - j.oldest)]
  <2>1. t[i] = IF i + (old + n - 1) = seq + 1 THEN e ELSE s[i + ((old + n) - old)]
    BY <1>6, <1>8
  <2>2. a.oldest = old + n /\ a.sequence = seq + 1 /\ j.oldest = old /\ j.events = s
    BY <1>6 DEF old, s
  <2> QED
    BY <1>1, <1>3, <1>6, <2>1, <2>2
<1> QED
  BY <1>6, <1>9, <1>10, <1>11

(* read() of a readable cursor returns the events numbered from the cursor's   *)
(* successor to the tail.                                                     *)
LEMMA ReadFacts ==
  ASSUME NEW E, NEW j \in JournalOf(E), Aligned(j), NEW after \in Cursor
  PROVE  LET batch == Read(j, after)
             from == IF after = NoCursor THEN j.oldest - 1 ELSE after.sequence
         IN  /\ batch.cursor = TailOf(j)
             /\ TailOf(j) \in Cursor
             /\ batch.resync <=> (after # NoCursor /\ Unreadable(j, after))
             /\ batch.resync => batch.events = <<>>
             /\ ~batch.resync =>
                  /\ from \in (j.oldest - 1)..j.sequence
                  /\ batch.events \in Seq(E)
                  /\ Len(batch.events) = j.sequence - from
                  /\ \A i \in 1..(j.sequence - from) :
                       batch.events[i] = j.events[i + (from - (j.oldest - 1))]
<1> DEFINE batch == Read(j, after)
           from == IF after = NoCursor THEN j.oldest - 1 ELSE after.sequence
           first == from - (j.oldest - 1) + 1
<1>1. /\ j.events \in Seq(E) /\ j.sequence \in Nat /\ j.oldest \in Nat \ {0} /\ j.epoch \in Nat
      /\ after.sequence \in Nat
      /\ Len(j.events) = j.sequence - (j.oldest - 1) /\ Len(j.events) \in Nat
  BY DEF JournalOf, Cursor, Aligned
<1>2. /\ batch.cursor = TailOf(j)
      /\ batch.resync <=> (after # NoCursor /\ Unreadable(j, after))
      /\ batch.resync => batch.events = <<>>
      /\ ~batch.resync => batch.events = SubSeq(j.events, first, Len(j.events))
  BY DEF Read
<1>3. TailOf(j) \in Cursor
  BY <1>1 DEF TailOf, Cursor
<1>4. ASSUME ~batch.resync
      PROVE  /\ from \in (j.oldest - 1)..j.sequence
             /\ batch.events \in Seq(E)
             /\ Len(batch.events) = j.sequence - from
             /\ \A i \in 1..(j.sequence - from) :
                  batch.events[i] = j.events[i + (from - (j.oldest - 1))]
  <2>1. from \in (j.oldest - 1)..j.sequence
    <3>1. CASE after = NoCursor
      BY <1>1, <3>1
    <3>2. CASE after # NoCursor
      <4>1. ~Unreadable(j, after)
        BY <1>2, <1>4, <3>2
      <4> QED
        BY <1>1, <3>2, <4>1 DEF Unreadable
    <3> QED
      BY <3>1, <3>2
  <2> DEFINE s == j.events
             old == j.oldest - 1
             top == j.sequence
  <2>2. batch.events = SubSeq(s, first, Len(s))
    BY <1>2, <1>4
  <2>3. s \in Seq(E) /\ old \in Nat /\ top \in Nat /\ from \in old..top
        /\ Len(s) = top - old /\ Len(s) \in Nat /\ first = from - old + 1
    BY <1>1, <2>1
  <2> HIDE DEF from, batch, s, old, top, first
  <2>4. first \in 1..(Len(s) + 1) /\ Len(s) - first + 1 = top - from
        /\ \A i \in Int : i + first - 1 = i + (from - old)
    BY <2>3
  <2>5. /\ batch.events \in Seq(E)
        /\ Len(batch.events) = Len(s) - first + 1
        /\ \A i \in 1..(Len(s) - first + 1) : batch.events[i] = s[i + first - 1]
    BY <2>2, <2>3, <2>4, SuffixFacts
  <2>6. Len(batch.events) = top - from
    BY <2>4, <2>5
  <2>7. ASSUME NEW i \in 1..(top - from)
        PROVE  batch.events[i] = s[i + (from - old)]
    <3>1. i \in 1..(Len(s) - first + 1) /\ i + first - 1 = i + (from - old)
      BY <2>4
    <3> QED
      BY <2>5, <3>1
  <2> QED
    BY <2>1, <2>5, <2>6, <2>7 DEF s, old, top
<1> QED
  BY <1>2, <1>3, <1>4

-----------------------------------------------------------------------------
(* The eviction loop stops where it must.  Facts about the sum of bytes, which  *)
(* the journal forms event by event, come from a least counterexample.        *)

LEMMA LeastOf ==
  ASSUME NEW S, S \subseteq Nat, S # {}
  PROVE  \E m \in S : \A k \in S : m <= k
<1> DEFINE R == OpToRel(<, Nat)
<1>1. \A x, y \in Nat : <<y, x>> \in R <=> y < x
  BY DEF OpToRel
<1>2. IsWellFoundedOn(R, Nat)
  BY NatLessThanWellFounded
<1> HIDE DEF R
<1>3. PICK m \in S : \A y \in S : ~(<<y, m>> \in R)
  BY <1>2, WFMin
<1>4. ASSUME NEW k \in S
      PROVE  m <= k
  <2>1. m \in Nat /\ k \in Nat /\ ~(<<k, m>> \in R)
    BY <1>3
  <2>2. ~(k < m)
    BY <1>1, <2>1
  <2> QED BY <2>1, <2>2
<1> QED
  BY <1>4

(* f sums the first n frames of q.                                             *)
IsSum(f, q, n) == f = [i \in 0..n |-> IF i = 0 THEN 0 ELSE f[i - 1] + FrameSize(q[i])]

LEMMA SumExists ==
  ASSUME NEW q, NEW n \in Nat
  PROVE  \E f : IsSum(f, q, n)
<1> DEFINE S == {k \in Nat : ~ \E f : IsSum(f, q, k)}
<1> SUFFICES S = {}
  OBVIOUS
<1> SUFFICES ASSUME S # {} PROVE FALSE
  OBVIOUS
<1>1. PICK m \in S : \A k \in S : m <= k
  <2> S \subseteq Nat
    OBVIOUS
  <2> HIDE DEF S
  <2> QED BY LeastOf
<1>2. CASE m = 0
  <2> DEFINE f == [i \in 0..0 |-> 0]
  <2>1. IsSum(f, q, 0)
    BY DEF IsSum
  <2> QED BY <1>1, <1>2, <2>1
<1>3. CASE m # 0
  <2>1. m - 1 \in Nat /\ ~(m <= m - 1) /\ m \in Nat
    BY <1>1, <1>3
  <2>2. PICK g : IsSum(g, q, m - 1)
    BY <1>1, <2>1
  <2> DEFINE f == [i \in 0..m |-> IF i = m THEN g[m - 1] + FrameSize(q[m]) ELSE g[i]]
  <2>3. \A i \in 0..(m - 1) : g[i] = IF i = 0 THEN 0 ELSE g[i - 1] + FrameSize(q[i])
    <3> DEFINE G == [i \in 0..(m - 1) |-> IF i = 0 THEN 0 ELSE g[i - 1] + FrameSize(q[i])]
    <3>1. \A i \in 0..(m - 1) : G[i] = IF i = 0 THEN 0 ELSE g[i - 1] + FrameSize(q[i])
      OBVIOUS
    <3>2. g = G
      BY <2>2 DEF IsSum
    <3> HIDE DEF G
    <3> QED BY <3>1, <3>2
  <2>4. /\ \A i \in 0..m : f[i] = IF i = m THEN g[m - 1] + FrameSize(q[m]) ELSE g[i]
        /\ f = [i \in 0..m |-> f[i]]
    OBVIOUS
  <2> HIDE DEF f
  <2>5. ASSUME NEW i \in 0..m
        PROVE  f[i] = IF i = 0 THEN 0 ELSE f[i - 1] + FrameSize(q[i])
    <3>1. CASE i = m
      <4>1. m - 1 \in 0..m /\ m - 1 # m
        BY <2>1
      <4>2. f[m - 1] = g[m - 1]
        BY <2>4, <4>1
      <4> QED BY <1>3, <2>4, <3>1, <4>2
    <3>2. CASE i # m /\ i # 0
      <4>1. i \in 0..(m - 1) /\ i - 1 \in 0..m /\ i - 1 # m
        BY <2>1, <3>2
      <4>2. f[i] = g[i] /\ f[i - 1] = g[i - 1]
        BY <2>4, <3>2, <4>1
      <4>3. g[i] = g[i - 1] + FrameSize(q[i])
        BY <2>3, <3>2, <4>1
      <4> QED BY <3>2, <4>2, <4>3
    <3>3. CASE i # m /\ i = 0
      <4>1. f[0] = g[0] /\ 0 \in 0..(m - 1)
        BY <2>1, <2>4, <3>3
      <4>2. g[0] = 0
        BY <2>3, <4>1
      <4> QED BY <3>3, <4>1, <4>2
    <3> QED BY <3>1, <3>2, <3>3
  <2>6. f = [i \in 0..m |-> IF i = 0 THEN 0 ELSE f[i - 1] + FrameSize(q[i])]
    BY <2>4, <2>5
  <2>7. IsSum(f, q, m)
    BY <2>6 DEF IsSum
  <2> QED BY <1>1, <2>7
<1> QED BY <1>2, <1>3

LEMMA SumFacts ==
  ASSUME NEW f, NEW q, NEW n \in Nat, IsSum(f, q, n),
         \A i \in 1..n : FrameSize(q[i]) \in Nat
  PROVE  /\ f[0] = 0
         /\ \A i \in 1..n : f[i] = f[i - 1] + FrameSize(q[i])
         /\ \A i \in 0..n : f[i] \in Nat
<1>1. \A i \in 0..n : f[i] = IF i = 0 THEN 0 ELSE f[i - 1] + FrameSize(q[i])
  <2> DEFINE F == [i \in 0..n |-> IF i = 0 THEN 0 ELSE f[i - 1] + FrameSize(q[i])]
  <2>1. \A i \in 0..n : F[i] = IF i = 0 THEN 0 ELSE f[i - 1] + FrameSize(q[i])
    OBVIOUS
  <2>2. f = F
    BY DEF IsSum
  <2> HIDE DEF F
  <2> QED BY <2>1, <2>2
<1>2. f[0] = 0
  BY <1>1
<1>3. \A i \in 1..n : f[i] = f[i - 1] + FrameSize(q[i])
  BY <1>1
<1> DEFINE S == {i \in 0..n : f[i] \notin Nat}
<1>4. S = {}
  <2> SUFFICES ASSUME S # {} PROVE FALSE
    OBVIOUS
  <2>1. PICK m \in S : \A k \in S : m <= k
    <3> S \subseteq Nat
      OBVIOUS
    <3> HIDE DEF S
    <3> QED BY LeastOf
  <2>2. m # 0
    BY <1>2, <2>1
  <2>3. m \in 1..n /\ m - 1 \in 0..n /\ ~(m <= m - 1)
    BY <2>1, <2>2
  <2>4. f[m - 1] \in Nat
    BY <2>1, <2>3
  <2>5. f[m] \in Nat
    BY <1>3, <2>3, <2>4
  <2> QED BY <2>1, <2>5
<1> QED BY <1>2, <1>3, <1>4

LEMMA BytesSum ==
  ASSUME NEW E, \A e \in E : FrameSize(e) \in Nat, NEW q \in Seq(E)
  PROVE  /\ \E f : IsSum(f, q, Len(q)) /\ Bytes(q) = f[Len(q)]
         /\ Bytes(q) \in Nat
<1> DEFINE f == CHOOSE g : IsSum(g, q, Len(q))
<1>1. Len(q) \in Nat /\ \A i \in 1..Len(q) : FrameSize(q[i]) \in Nat
  OBVIOUS
<1>2. IsSum(f, q, Len(q))
  BY <1>1, SumExists
<1>3. Bytes(q) = f[Len(q)]
  BY DEF Bytes, IsSum
<1> HIDE DEF f
<1>4. f[Len(q)] \in Nat
  BY <1>1, <1>2, SumFacts
<1> QED BY <1>2, <1>3, <1>4

(* Without its first event a sequence holds less.                              *)
LEMMA ShorterFits ==
  ASSUME NEW E, \A e \in E : FrameSize(e) \in Nat, NEW q \in Seq(E), NEW t \in Seq(E),
         Len(q) = Len(t) + 1, \A i \in 1..Len(t) : t[i] = q[i + 1], Exceeds(t)
  PROVE  Exceeds(q)
<1>1. PICK f : IsSum(f, q, Len(q)) /\ Bytes(q) = f[Len(q)]
  BY BytesSum
<1>2. PICK g : IsSum(g, t, Len(t)) /\ Bytes(t) = g[Len(t)]
  BY BytesSum
<1> DEFINE n == Len(t)
<1>3. /\ n \in Nat /\ Len(q) = n + 1
      /\ \A i \in 1..n : FrameSize(t[i]) \in Nat
      /\ \A i \in 1..(n + 1) : FrameSize(q[i]) \in Nat
  OBVIOUS
<1>4. /\ f[0] = 0 /\ \A i \in 1..(n + 1) : f[i] = f[i - 1] + FrameSize(q[i])
      /\ \A i \in 0..(n + 1) : f[i] \in Nat
  <2> DEFINE k == n + 1
  <2>1. k \in Nat /\ IsSum(f, q, k) /\ \A i \in 1..k : FrameSize(q[i]) \in Nat
    BY <1>1, <1>3
  <2> HIDE DEF k
  <2>2. /\ f[0] = 0 /\ \A i \in 1..k : f[i] = f[i - 1] + FrameSize(q[i])
        /\ \A i \in 0..k : f[i] \in Nat
    BY <2>1, SumFacts
  <2> QED BY <2>2 DEF k
<1>5. /\ g[0] = 0 /\ \A i \in 1..n : g[i] = g[i - 1] + FrameSize(t[i])
      /\ \A i \in 0..n : g[i] \in Nat
  BY <1>2, <1>3, SumFacts
<1>6. \A i \in 1..n : t[i] = q[i + 1]
  OBVIOUS
<1> HIDE DEF n
<1> DEFINE S == {i \in 0..n : ~(g[i] <= f[i + 1])}
<1>7. S = {}
  <2> SUFFICES ASSUME S # {} PROVE FALSE
    OBVIOUS
  <2>1. PICK m \in S : \A k \in S : m <= k
    <3> S \subseteq Nat
      OBVIOUS
    <3> HIDE DEF S
    <3> QED BY LeastOf
  <2>2. m # 0
    <3>1. 1 \in 0..(n + 1) /\ f[1] \in Nat
      BY <1>3, <1>4
    <3> QED BY <1>5, <2>1, <3>1
  <2>3. m \in 1..n /\ m - 1 \in 0..n /\ ~(m <= m - 1) /\ m + 1 \in 1..(n + 1) /\ m \in 1..(n + 1)
        /\ (m - 1) + 1 = m /\ (m + 1) - 1 = m
    BY <1>3, <2>1, <2>2
  <2>4. g[m - 1] <= f[m]
    BY <2>1, <2>3
  <2>5. g[m] = g[m - 1] + FrameSize(t[m]) /\ f[m + 1] = f[m] + FrameSize(q[m + 1])
    BY <1>4, <1>5, <2>3
  <2>6. FrameSize(t[m]) = FrameSize(q[m + 1]) /\ FrameSize(t[m]) \in Nat
    BY <1>3, <1>6, <2>3
  <2>7. g[m - 1] \in Nat /\ f[m] \in Nat
    BY <1>4, <1>5, <2>3
  <2>8. g[m] <= f[m + 1]
    BY <2>4, <2>5, <2>6, <2>7
  <2> QED BY <2>1, <2>8
<1>8. n \in 0..n
  BY <1>3
<1>9. g[n] <= f[n + 1] /\ g[n] \in Nat /\ f[n + 1] \in Nat
  <2>1. n + 1 \in 0..(n + 1)
    BY <1>3
  <2>2. n \notin S
    BY <1>7
  <2>3. g[n] <= f[n + 1]
    BY <1>8, <2>2
  <2> QED BY <1>4, <1>5, <1>8, <2>1, <2>3
<1>10. Bytes(t) <= Bytes(q) /\ Bytes(t) \in Nat /\ Bytes(q) \in Nat
  BY <1>1, <1>2, <1>3, <1>9 DEF n
<1> QED BY <1>3, <1>10, JournalLimits DEF Exceeds, n

(* The loop evicts until what is left fits, and not one event more.             *)
LEMMA EvictsLeast ==
  ASSUME NEW E, \A e \in E : FrameSize(e) \in Nat, NEW q \in Seq(E),
         NEW c, c = EvictCount(q)
  PROVE  /\ c = Len(q) \/ ~Exceeds(SubSeq(q, c + 1, Len(q)))
         /\ c > 0 => Exceeds(SubSeq(q, c, Len(q)))
<1> DEFINE L == Len(q)
           Rest(n) == SubSeq(q, n + 1, L)
           D == {n \in 0..(L - 1) : Exceeds(Rest(n))}
           S == {n \in 0..L : n \notin D}
<1>1. L \in Nat
  OBVIOUS
<1>2. ASSUME NEW n \in 0..(L - 1), Exceeds(Rest(n + 1)) PROVE Exceeds(Rest(n))
  <2>1. n + 1 \in 1..(L + 1) /\ (n + 1) + 1 \in 1..(L + 1)
    BY <1>1
  <2>2. /\ Rest(n) \in Seq(E) /\ Len(Rest(n)) = L - (n + 1) + 1
        /\ \A i \in 1..(L - (n + 1) + 1) : Rest(n)[i] = q[i + (n + 1) - 1]
    BY <2>1, SuffixFacts
  <2>3. /\ Rest(n + 1) \in Seq(E) /\ Len(Rest(n + 1)) = L - ((n + 1) + 1) + 1
        /\ \A i \in 1..(L - ((n + 1) + 1) + 1) : Rest(n + 1)[i] = q[i + ((n + 1) + 1) - 1]
    BY <2>1, SuffixFacts
  <2> HIDE DEF Rest, L
  <2>4. Len(Rest(n)) = Len(Rest(n + 1)) + 1
    BY <1>1, <2>2, <2>3
  <2>5. \A i \in 1..Len(Rest(n + 1)) : Rest(n + 1)[i] = Rest(n)[i + 1]
    <3> SUFFICES ASSUME NEW i \in 1..Len(Rest(n + 1)) PROVE Rest(n + 1)[i] = Rest(n)[i + 1]
      OBVIOUS
    <3>1. i \in 1..(L - ((n + 1) + 1) + 1) /\ i + 1 \in 1..(L - (n + 1) + 1)
          /\ i + ((n + 1) + 1) - 1 = (i + 1) + (n + 1) - 1
      BY <1>1, <2>3
    <3> QED BY <2>2, <2>3, <3>1
  <2> DEFINE a == Rest(n)
             b == Rest(n + 1)
  <2>6. a \in Seq(E) /\ b \in Seq(E) /\ Len(a) = Len(b) + 1
        /\ (\A i \in 1..Len(b) : b[i] = a[i + 1]) /\ Exceeds(b)
    BY <1>2, <2>2, <2>3, <2>4, <2>5
  <2> HIDE DEF a, b
  <2>7. Exceeds(a)
    BY <2>6, ShorterFits
  <2> QED BY <2>7 DEF a
<1> HIDE DEF L, Rest
<1>3. PICK m \in S : \A k \in S : m <= k
  <2>1. S \subseteq Nat /\ L \in S
    BY <1>1
  <2> HIDE DEF S
  <2> QED BY <2>1, LeastOf
<1>4. \A n \in 0..(m - 1) : n \in D
  BY <1>1, <1>3
<1> DEFINE T == {n \in D : n > m}
<1>5. T = {}
  <2> SUFFICES ASSUME T # {} PROVE FALSE
    OBVIOUS
  <2>1. PICK k \in T : \A j \in T : k <= j
    <3> T \subseteq Nat
      OBVIOUS
    <3> HIDE DEF T
    <3> QED BY LeastOf
  <2>2. k - 1 \in 0..(L - 1) /\ (k - 1) + 1 = k /\ ~(k <= k - 1) /\ k - 1 >= m /\ m \in Nat
    BY <1>1, <1>3, <2>1
  <2>3. Exceeds(Rest(k - 1))
    BY <1>2, <2>1, <2>2
  <2>4. k - 1 \in D
    BY <2>2, <2>3
  <2>5. k - 1 # m
    BY <1>3, <2>4
  <2> QED BY <2>1, <2>2, <2>4, <2>5
<1>6. D = 0..(m - 1)
  <2>1. \A n \in D : n \in 0..(m - 1)
    BY <1>1, <1>3, <1>5
  <2> QED BY <1>4, <2>1
<1>7. c = m
  <2>1. c = Cardinality(D)
    BY DEF EvictCount, L, Rest
  <2>2. m \in Nat
    BY <1>1, <1>3
  <2>3. Cardinality(0..(m - 1)) = IF 0 > m - 1 THEN 0 ELSE (m - 1) - 0 + 1
    BY <2>2, FS_Interval
  <2>4. (IF 0 > m - 1 THEN 0 ELSE (m - 1) - 0 + 1) = m
    BY <2>2
  <2> QED BY <1>6, <2>1, <2>3, <2>4
<1>8. m = L \/ ~Exceeds(Rest(m))
  BY <1>1, <1>3
<1>9. m > 0 => Exceeds(Rest(m - 1))
  <2> SUFFICES ASSUME m > 0 PROVE Exceeds(Rest(m - 1))
    OBVIOUS
  <2>1. m - 1 \in 0..(m - 1)
    BY <1>1, <1>3
  <2> QED BY <1>4, <2>1
<1>10. Rest(m) = SubSeq(q, m + 1, Len(q)) /\ Rest(m - 1) = SubSeq(q, m, Len(q))
  <2>1. m \in Nat /\ (m - 1) + 1 = m
    BY <1>1, <1>3
  <2> QED BY <2>1 DEF Rest, L
<1> QED BY <1>7, <1>8, <1>9, <1>10 DEF L
=============================================================================
