--------------------------- MODULE SseStreamProofs ---------------------------
(* One event stream, for any frames, limits, batches, keep-alives and polls.   *)
EXTENDS SseStream, FiniteSetTheorems, FunctionTheorems, TLAPS

(* The counter pending_bytes_ may be any integer here.                         *)
Wire == Frames \cup {KeepAlive}
Shape == [open : BOOLEAN, headerDone : BOOLEAN, writing : BOOLEAN, finished : BOOLEAN,
          queue : Seq(Wire), pendingBytes : Int,
          socket : {"route", "open", "closed"}, strand : Seq(HandlerType),
          writes : Seq(Wire \cup {Header}), reading : BOOLEAN,
          timers : SUBSET Timers, tasks : Nat, sourcing : Nat,
          batch : Batch \cup {NoBatch}]

Routes == {"start", "reserved", "refused", "released", "sending", "added",
           "overflow", "cancel", "done"}

Type ==
  /\ kind \in {"run", "feed"}
  /\ s \in Shape
  /\ route \in Routes
  /\ broken \in BOOLEAN /\ client \in {"reading", "gone"}
  /\ offered \in 0..MaxFrames
  /\ delivered \in Seq(Wire)

(* What waits on a strand q: the handlers, how many of a kind, and the events   *)
(* that are still to be queued.                                               *)
Waiting(q) == {q[i] : i \in 1..Len(q)}
Cnt(q, op) == Cardinality({i \in 1..Len(q) : q[i].op = op})
Val(h) == IF h.op = "push" THEN h.frame ELSE KeepAlive
Vals(q) == [i \in 1..Len(q) |-> Val(q[i])]

(* The events of q are a+1, ..., b, in this order, keep-alives between them.    *)
Run(q, a, b) ==
  /\ a <= b
  /\ \A i \in 1..Len(q) : q[i] # KeepAlive => q[i] \in (a + 1)..b
  /\ \A i, j \in 1..Len(q) : i < j /\ q[i] # KeepAlive /\ q[j] # KeepAlive => q[i] < q[j]
  /\ \A m \in (a + 1)..b : \E i \in 1..Len(q) : q[i] = m

(* One chain of polls, begun by the header and only for a subscription.         *)
Polls(x) == x.tasks + x.sourcing + (IF x.batch # NoBatch THEN 1 ELSE 0)
            + (IF "poll" \in x.timers THEN 1 ELSE 0)
Chain(x) == Polls(x) + Cnt(x.strand, "batch") + Cnt(x.strand, "poll")
PollOK(k, x) == Chain(x) <= 1 /\ (k = "run" \/ ~x.headerDone => Chain(x) = 0)

(* One write: first the header, then always the front of the queue.            *)
InFlight(x) == Len(x.writes) + Cnt(x.strand, "written")
Writes(x, f) == IF x.headerDone THEN x.queue # <<>> /\ f = Head(x.queue) ELSE f = Header
WriteOK(x, r) ==
  /\ Cnt(x.strand, "begin") + InFlight(x) <= 1
  /\ r \in {"start", "reserved", "refused", "released"} =>
       Cnt(x.strand, "begin") + InFlight(x) = 0 /\ ~x.headerDone
  /\ x.headerDone => /\ Cnt(x.strand, "begin") = 0
                     /\ InFlight(x) = IF x.writing THEN 1 ELSE 0
  /\ x.writing => x.headerDone
  /\ \A i \in 1..Len(x.writes) : Writes(x, x.writes[i])
  /\ \A h \in Waiting(x.strand) : h.op = "written" => Writes(x, h.frame)

(* The events handed to send() are, in order: delivered, waiting for the socket *)
(* and, while the stream is open, waiting on the strand.                      *)
Acked(x) == \E h \in Waiting(x.strand) : h.op = "written" /\ h.ok /\ h.frame # Header
Rest(x) == IF Acked(x) THEN Tail(x.queue) ELSE x.queue
Sent(r, off) == IF r \in {"added", "overflow", "cancel"} THEN off - 1 ELSE off
Flow(x, r, off, del, a, b) ==
  /\ Run(del, 0, a)
  /\ x.open \/ x.writes # <<>> => Run(Rest(x), a, b)
  /\ x.open => Run(Vals(x.strand), b, Sent(r, off))
OrderOK(x, r, off, del) == \E a, b \in 0..MaxFrames : Flow(x, r, off, del, a, b)

(* Nothing is sent after finish(), and a stream that closes was broken,         *)
(* released or is complete.                                                   *)
Over(x) == x.finished \/ \E h \in Waiting(x.strand) : h.op = "finish"
Settled(q) == \A i, j \in 1..Len(q) : i < j /\ q[i].op = "finish" => Val(q[j]) = KeepAlive
Closes(h) == h.op \in {"close", "eof", "write"} \/ (h.op = "written" /\ ~h.ok)
EndOK(k, x, r, off, del, br) ==
  /\ Over(x) => IF k = "run" THEN r = "done" ELSE Chain(x) = 0 /\ x.headerDone
  /\ k = "feed" => r \in {"start", "reserved", "refused", "done"}
  /\ Settled(x.strand)
  /\ x.finished => \A h \in Waiting(x.strand) : Val(h) = KeepAlive
  /\ ~x.open => \/ br
                \/ r = "released"
                \/ x.finished /\ x.socket = "closed" /\ Run(del, 0, off)
  /\ x.socket = "closed" => ~x.open
  /\ r = "released" => x.socket = "route"
  /\ r \notin {"start", "refused", "released"} => x.socket # "route"
  /\ \A h \in Waiting(x.strand) : Closes(h) => br \/ ~x.open
  /\ r \in {"added", "overflow", "cancel"} => off > 0

Good(k, x, r, off, del, br) ==
  PollOK(k, x) /\ WriteOK(x, r) /\ OrderOK(x, r, off, del) /\ EndOK(k, x, r, off, del, br)

IInv ==
  /\ Type
  /\ Good(kind, s, route, offered, delivered, broken)
  /\ client = "gone" => broken

-----------------------------------------------------------------------------
(* Handlers that are posted and taken.                                        *)

LEMMA CntFacts ==
  ASSUME NEW q \in Seq(HandlerType), NEW op
  PROVE  /\ Cnt(q, op) \in Nat
         /\ Cnt(q, op) = 0 <=> \A h \in Waiting(q) : h.op # op
<1> DEFINE C == {i \in 1..Len(q) : q[i].op = op}
<1>1. Len(q) \in Nat /\ IsFiniteSet(1..Len(q))
  BY FS_Interval
<1>2. C \subseteq 1..Len(q)
  OBVIOUS
<1>3. IsFiniteSet(C)
  BY <1>1, <1>2, FS_Subset
<1>4. Cardinality(C) \in Nat
  BY <1>3, FS_CardinalityType
<1>5. Cardinality(C) = 0 <=> C = {}
  BY <1>3, FS_EmptySet
<1>6. C = {} <=> \A h \in Waiting(q) : h.op # op
  BY DEF Waiting
<1> QED BY <1>4, <1>5, <1>6 DEF Cnt

LEMMA CntAppend ==
  ASSUME NEW q \in Seq(HandlerType), NEW h \in HandlerType, NEW op
  PROVE  Cnt(Append(q, h), op) = Cnt(q, op) + (IF h.op = op THEN 1 ELSE 0)
<1> DEFINE C == {i \in 1..Len(q) : q[i].op = op}
           r == Append(q, h)
           D == {i \in 1..Len(r) : r[i].op = op}
           n == Len(q) + 1
<1>1. /\ Len(q) \in Nat /\ Len(r) = n /\ r[n] = h
      /\ \A i \in 1..Len(q) : r[i] = q[i]
      /\ IsFiniteSet(1..Len(q))
  BY FS_Interval
<1>2. 1..Len(r) = (1..Len(q)) \cup {n} /\ n \notin 1..Len(q)
  BY <1>1
<1>3. IsFiniteSet(C) /\ n \notin C
  <2>1. C \subseteq 1..Len(q)
    OBVIOUS
  <2> QED BY <1>1, <1>2, <2>1, FS_Subset
<1>4. Cardinality(C) \in Nat
  BY <1>3, FS_CardinalityType
<1>5. Cnt(q, op) = Cardinality(C) /\ Cnt(r, op) = Cardinality(D)
  BY DEF Cnt
<1>6. CASE h.op = op
  <2>1. D = C \cup {n}
    BY <1>1, <1>2, <1>6
  <2> HIDE DEF C, D, r, n
  <2>2. Cardinality(D) = Cardinality(C) + 1
    BY <1>3, <2>1, FS_AddElement
  <2> QED BY <1>5, <1>6, <2>2 DEF r
<1>7. CASE h.op # op
  <2>1. D = C
    BY <1>1, <1>2, <1>7
  <2> HIDE DEF C, D, r, n
  <2> QED BY <1>4, <1>5, <1>7, <2>1 DEF r
<1> QED BY <1>6, <1>7

LEMMA TailFacts ==
  ASSUME NEW S, NEW q \in Seq(S), q # <<>>
  PROVE  /\ Tail(q) \in Seq(S) /\ Head(q) \in S /\ Head(q) = q[1]
         /\ Len(Tail(q)) = Len(q) - 1 /\ Len(q) \in Nat \ {0}
         /\ \A i \in 1..(Len(q) - 1) : Tail(q)[i] = q[i + 1]
  OBVIOUS

LEMMA CntTail ==
  ASSUME NEW q \in Seq(HandlerType), q # <<>>, NEW op
  PROVE  Cnt(q, op) = Cnt(Tail(q), op) + (IF Head(q).op = op THEN 1 ELSE 0)
<1> DEFINE t == Tail(q)
           C == {i \in 1..Len(t) : t[i].op = op}
           D == {i \in 2..Len(q) : q[i].op = op}
           E == {i \in 1..Len(q) : q[i].op = op}
           f == [i \in C |-> i + 1]
<1>1. /\ t \in Seq(HandlerType) /\ Head(q) = q[1] /\ Len(t) = Len(q) - 1 /\ Len(q) \in Nat \ {0}
      /\ \A i \in 1..(Len(q) - 1) : t[i] = q[i + 1]
  BY TailFacts
<1>2. IsFiniteSet(C) /\ IsFiniteSet(D) /\ 1 \notin D
  <2>1. C \subseteq 1..Len(t) /\ D \subseteq 2..Len(q)
    OBVIOUS
  <2>2. IsFiniteSet(1..Len(t)) /\ IsFiniteSet(2..Len(q))
    BY <1>1, FS_Interval
  <2>3. 1 \notin D
    OBVIOUS
  <2> QED BY <2>1, <2>2, <2>3, FS_Subset
<1>3. f \in Bijection(C, D)
  <2> HIDE DEF t
  <2>1. \A i \in C : i \in Int /\ f[i] = i + 1 /\ f[i] \in D
    BY <1>1
  <2>2. f \in [C -> D]
    BY <2>1
  <2>3. \A a, b \in C : f[a] = f[b] => a = b
    BY <2>1
  <2>4. \A d \in D : \E c \in C : f[c] = d
    <3> TAKE d \in D
    <3>1. d - 1 \in C
      BY <1>1
    <3>2. f[d - 1] = d
      BY <2>1, <3>1
    <3> QED BY <3>1, <3>2
  <2> HIDE DEF f, C, D
  <2> QED BY <2>2, <2>3, <2>4, Fun_IsBij
<1>4. Cardinality(C) = Cardinality(D)
  <2>1. ExistsBijection(C, D)
    BY <1>3 DEF ExistsBijection
  <2> HIDE DEF C, D
  <2> QED BY <1>2, <2>1, FS_Bijection, FS_SameCardinalityBij, Zenon
<1>5. Cardinality(D) \in Nat
  BY <1>2, FS_CardinalityType
<1>6. 1..Len(q) = (2..Len(q)) \cup {1} /\ 1 \notin 2..Len(q)
  BY <1>1
<1>7. Cnt(q, op) = Cardinality(E) /\ Cnt(t, op) = Cardinality(C)
  BY DEF Cnt
<1>8. CASE q[1].op = op
  <2>1. E = D \cup {1}
    BY <1>6, <1>8
  <2> HIDE DEF C, D, E, t
  <2>2. Cardinality(E) = Cardinality(D) + 1
    BY <1>2, <2>1, FS_AddElement
  <2> QED BY <1>1, <1>4, <1>7, <1>8, <2>2 DEF t
<1>9. CASE q[1].op # op
  <2>1. E = D
    BY <1>6, <1>9
  <2> HIDE DEF C, D, E, t
  <2> QED BY <1>1, <1>4, <1>5, <1>7, <1>9, <2>1 DEF t
<1> QED BY <1>8, <1>9

LEMMA Given ==
  ASSUME NEW q \in Seq(HandlerType), NEW h \in HandlerType
  PROVE  /\ Append(q, h) \in Seq(HandlerType)
         /\ Waiting(Append(q, h)) = Waiting(q) \cup {h}
         /\ Vals(Append(q, h)) = Append(Vals(q), Val(h))
<1> DEFINE r == Append(q, h)
<1>1. /\ Len(q) \in Nat /\ r \in Seq(HandlerType)
      /\ Len(r) = Len(q) + 1 /\ r[Len(q) + 1] = h
      /\ \A i \in 1..Len(q) : r[i] = q[i]
  OBVIOUS
<1> HIDE DEF r
<1>2. 1..Len(r) = (1..Len(q)) \cup {Len(q) + 1}
  BY <1>1
<1>3. Waiting(r) = Waiting(q) \cup {h}
  BY <1>1, <1>2 DEF Waiting
<1>4. Vals(r) = Append(Vals(q), Val(h))
  BY <1>1 DEF Vals
<1> QED BY <1>1, <1>3, <1>4 DEF r

LEMMA Taken ==
  ASSUME NEW q \in Seq(HandlerType), q # <<>>
  PROVE  /\ Tail(q) \in Seq(HandlerType) /\ Head(q) \in HandlerType
         /\ Waiting(q) = Waiting(Tail(q)) \cup {Head(q)}
         /\ Vals(Tail(q)) = Tail(Vals(q))
         /\ Vals(q) # <<>> /\ Head(Vals(q)) = Val(Head(q))
<1> DEFINE r == Tail(q)
<1>1. /\ r \in Seq(HandlerType) /\ Head(q) \in HandlerType /\ Head(q) = q[1]
      /\ Len(r) = Len(q) - 1 /\ Len(q) \in Nat \ {0}
      /\ \A i \in 1..(Len(q) - 1) : r[i] = q[i + 1]
  BY TailFacts
<1> HIDE DEF r
<1>2. Waiting(q) = Waiting(r) \cup {Head(q)}
  <2>1. \A i \in 1..Len(q) : i = 1 \/ (i - 1 \in 1..Len(r) /\ r[i - 1] = q[i])
    BY <1>1
  <2>2. \A i \in 1..Len(r) : i + 1 \in 1..Len(q) /\ r[i] = q[i + 1]
    BY <1>1
  <2>3. 1 \in 1..Len(q)
    BY <1>1
  <2> QED BY <1>1, <2>1, <2>2, <2>3 DEF Waiting
<1>3. /\ Vals(q) # <<>> /\ Head(Vals(q)) = Val(Head(q)) /\ Vals(r) = Tail(Vals(q))
  BY <1>1 DEF Vals
<1> QED BY <1>1, <1>2, <1>3 DEF r

LEMMA SettledGiven ==
  ASSUME NEW q \in Seq(HandlerType), NEW h \in HandlerType, Settled(q),
         Val(h) = KeepAlive \/ \A g \in Waiting(q) : g.op # "finish"
  PROVE  Settled(Append(q, h))
<1> DEFINE r == Append(q, h)
<1>1. /\ Len(q) \in Nat /\ Len(r) = Len(q) + 1 /\ r[Len(q) + 1] = h
      /\ \A i \in 1..Len(q) : r[i] = q[i]
  OBVIOUS
<1> HIDE DEF r
<1>2. \A i \in 1..Len(q) : q[i] \in Waiting(q)
  BY DEF Waiting
<1>3. \A i \in 1..Len(r) : i \in 1..Len(q) \/ i = Len(q) + 1
  BY <1>1
<1>4. ASSUME NEW i \in 1..Len(r), NEW j \in 1..Len(r), i < j, r[i].op = "finish"
      PROVE  Val(r[j]) = KeepAlive
  <2>1. i \in 1..Len(q) /\ r[i] = q[i]
    BY <1>1, <1>4
  <2>2. CASE j \in 1..Len(q)
    BY <1>1, <1>4, <2>1, <2>2, Zenon DEF Settled
  <2>3. CASE j = Len(q) + 1
    BY <1>1, <1>2, <1>4, <2>1, <2>3, Zenon
  <2> QED BY <1>3, <2>2, <2>3
<1> QED BY <1>4 DEF Settled, r

LEMMA SettledTaken ==
  ASSUME NEW q \in Seq(HandlerType), q # <<>>, Settled(q)
  PROVE  /\ Settled(Tail(q))
         /\ Head(q).op = "finish" => \A h \in Waiting(Tail(q)) : Val(h) = KeepAlive
<1> DEFINE r == Tail(q)
<1>1. /\ Head(q) = q[1] /\ Len(r) = Len(q) - 1 /\ Len(q) \in Nat \ {0}
      /\ \A i \in 1..(Len(q) - 1) : r[i] = q[i + 1]
  BY TailFacts
<1> HIDE DEF r
<1>2. \A i \in 1..Len(r) : i + 1 \in 1..Len(q) /\ r[i] = q[i + 1] /\ 1 < i + 1 /\ 1 \in 1..Len(q)
  BY <1>1
<1>3. \A i, j \in 1..Len(r) : i < j => i + 1 < j + 1
  OBVIOUS
<1>4. Settled(r)
  BY <1>2, <1>3, Zenon DEF Settled
<1>5. ASSUME Head(q).op = "finish", NEW h \in Waiting(r)
      PROVE  Val(h) = KeepAlive
  <2>1. PICK i \in 1..Len(r) : h = r[i]
    BY DEF Waiting
  <2>2. i + 1 \in 1..Len(q) /\ h = q[i + 1] /\ 1 < i + 1 /\ 1 \in 1..Len(q) /\ q[1].op = "finish"
    BY <1>1, <1>2, <1>5, <2>1
  <2> QED BY <2>2, Zenon DEF Settled
<1> QED BY <1>4, <1>5 DEF r

-----------------------------------------------------------------------------
(* Runs of events.                                                            *)

LEMMA NoneLeft ==
  ASSUME NEW S, NEW q \in Seq(S), Len(q) = 0
  PROVE  q = <<>>
OBVIOUS

LEMMA SeqInt ==
  ASSUME NEW S, S \subseteq Int, NEW q \in Seq(S)
  PROVE  q \in Seq(Int)
<1>1. Len(q) \in Nat /\ \A i \in 1..Len(q) : q[i] \in S
  OBVIOUS
<1>2. \A i \in 1..Len(q) : q[i] \in Int
  BY <1>1
<1>3. q = [i \in 1..Len(q) |-> q[i]]
  OBVIOUS
<1> QED BY <1>1, <1>2, <1>3

LEMMA RunGrows ==
  ASSUME NEW q \in Seq(Int), NEW a \in Nat, NEW b \in Nat, NEW f \in Int, Run(q, a, b)
  PROVE  /\ f = KeepAlive => Run(Append(q, f), a, b)
         /\ f = b + 1 => Run(Append(q, f), a, b + 1)
<1> DEFINE r == Append(q, f)
           n == Len(q)
<1>1. /\ n \in Nat /\ Len(r) = n + 1 /\ r[n + 1] = f
      /\ \A i \in 1..n : r[i] = q[i] /\ q[i] \in Int
  OBVIOUS
<1> HIDE DEF r, n
<1>2. /\ a <= b
      /\ \A i \in 1..n : q[i] # KeepAlive => q[i] \in (a + 1)..b
      /\ \A i, j \in 1..n : i < j /\ q[i] # KeepAlive /\ q[j] # KeepAlive => q[i] < q[j]
      /\ \A m \in (a + 1)..b : \E i \in 1..n : q[i] = m
  BY DEF Run, n
<1>3. \A i \in 1..(n + 1) : i \in 1..n \/ i = n + 1
  BY <1>1
<1>4. n + 1 \in 1..(n + 1) /\ \A i \in 1..n : i \in 1..(n + 1)
  BY <1>1
<1>5. ASSUME f = KeepAlive \/ f = b + 1,
             NEW i \in 1..(n + 1), NEW j \in 1..(n + 1),
             i < j, r[i] # KeepAlive, r[j] # KeepAlive
      PROVE  r[i] < r[j]
  <2>1. i \in 1..n /\ r[i] = q[i]
    BY <1>1, <1>5
  <2>2. CASE j \in 1..n
    <3>1. r[j] = q[j]
      BY <1>1, <2>2
    <3>2. q[i] < q[j]
      BY <1>2, <1>5, <2>1, <2>2, <3>1, Zenon
    <3> QED BY <2>1, <3>1, <3>2
  <2>3. CASE j = n + 1
    <3>1. r[j] = b + 1
      BY <1>1, <1>5, <2>3
    <3>2. q[i] \in (a + 1)..b
      BY <1>2, <1>5, <2>1, Zenon
    <3> QED BY <2>1, <3>1, <3>2
  <2> QED BY <1>3, <2>2, <2>3
<1>6. CASE f = KeepAlive
  <2>1. \A i \in 1..(n + 1) : r[i] # KeepAlive => r[i] \in (a + 1)..b
    BY <1>1, <1>2, <1>3, <1>6
  <2>2. \A m \in (a + 1)..b : \E i \in 1..(n + 1) : r[i] = m
    BY <1>1, <1>2, <1>4
  <2>3. Run(r, a, b)
    BY <1>1, <1>2, <1>6, <1>5, <2>1, <2>2 DEF Run
  <2> QED BY <1>6, <2>3 DEF r, KeepAlive
<1>7. CASE f = b + 1
  <2>1. a <= b + 1
    BY <1>2
  <2>2. \A i \in 1..(n + 1) : r[i] # KeepAlive => r[i] \in (a + 1)..(b + 1)
    BY <1>1, <1>2, <1>3, <1>7
  <2>3. \A i, j \in 1..(n + 1) : i < j /\ r[i] # KeepAlive /\ r[j] # KeepAlive => r[i] < r[j]
    BY <1>7, <1>5
  <2>4. ASSUME NEW m \in (a + 1)..(b + 1) PROVE \E i \in 1..(n + 1) : r[i] = m
    <3>1. m \in (a + 1)..b \/ m = b + 1
      OBVIOUS
    <3> QED BY <1>1, <1>2, <1>4, <1>7, <3>1
  <2>5. Run(r, a, b + 1)
    BY <1>1, <2>1, <2>2, <2>3, <2>4 DEF Run
  <2> QED BY <1>7, <2>5 DEF r, KeepAlive
<1> QED BY <1>6, <1>7

LEMMA RunShrinks ==
  ASSUME NEW q \in Seq(Int), q # <<>>, NEW a \in Nat, NEW b \in Nat, Run(q, a, b)
  PROVE  /\ Head(q) = KeepAlive => Run(Tail(q), a, b)
         /\ Head(q) # KeepAlive => Head(q) = a + 1 /\ a + 1 <= b /\ Run(Tail(q), a + 1, b)
<1> DEFINE r == Tail(q)
           n == Len(q)
<1>1. /\ n \in Nat \ {0} /\ Len(r) = n - 1 /\ Head(q) = q[1]
      /\ \A i \in 1..(n - 1) : r[i] = q[i + 1]
      /\ \A i \in 1..n : q[i] \in Int
  BY TailFacts
<1> HIDE DEF r, n
<1>2. /\ a <= b
      /\ \A i \in 1..n : q[i] # KeepAlive => q[i] \in (a + 1)..b
      /\ \A i, j \in 1..n : i < j /\ q[i] # KeepAlive /\ q[j] # KeepAlive => q[i] < q[j]
      /\ \A m \in (a + 1)..b : \E i \in 1..n : q[i] = m
  BY DEF Run, n
<1>3. /\ 1 \in 1..n
      /\ \A i \in 1..(n - 1) : i + 1 \in 1..n /\ 1 < i + 1
      /\ \A i \in 1..n : i = 1 \/ (i - 1 \in 1..(n - 1) /\ r[i - 1] = q[i] /\ 1 < i)
      /\ \A i, j \in 1..(n - 1) : i < j => i + 1 < j + 1
  BY <1>1
<1>4. \A i, j \in 1..(n - 1) : i < j /\ r[i] # KeepAlive /\ r[j] # KeepAlive => r[i] < r[j]
  <2> SUFFICES ASSUME NEW i \in 1..(n - 1), NEW j \in 1..(n - 1),
                      i < j, r[i] # KeepAlive, r[j] # KeepAlive
               PROVE  r[i] < r[j]
    OBVIOUS
  <2>1. /\ i + 1 \in 1..n /\ j + 1 \in 1..n /\ i + 1 < j + 1
        /\ r[i] = q[i + 1] /\ r[j] = q[j + 1]
    BY <1>1, <1>3
  <2>2. q[i + 1] < q[j + 1]
    BY <1>2, <2>1, Zenon
  <2> QED BY <2>1, <2>2
<1>5. CASE q[1] = KeepAlive
  <2>1. \A i \in 1..(n - 1) : r[i] # KeepAlive => r[i] \in (a + 1)..b
    BY <1>1, <1>2, <1>3
  <2>2. \A m \in (a + 1)..b : m # KeepAlive
    BY DEF KeepAlive
  <2>3. \A m \in (a + 1)..b : \E i \in 1..(n - 1) : r[i] = m
    BY <1>2, <1>3, <1>5, <2>2
  <2>4. Run(r, a, b)
    BY <1>1, <1>2, <1>4, <2>1, <2>3 DEF Run
  <2> QED BY <1>1, <1>5, <2>4 DEF r
<1>6. CASE q[1] # KeepAlive
  <2>1. q[1] \in (a + 1)..b
    BY <1>2, <1>3, <1>6
  <2>2. PICK i \in 1..n : q[i] = a + 1
    <3>1. a + 1 \in (a + 1)..b
      BY <2>1
    <3> QED BY <1>2, <3>1
  <2>3. q[1] = a + 1
    <3>1. q[i] # KeepAlive
      BY <2>2 DEF KeepAlive
    <3>2. CASE i # 1
      <4>1. 1 < i
        BY <1>1, <3>2
      <4>2. q[1] < q[i]
        BY <1>2, <1>3, <1>6, <3>1, <4>1
      <4> QED BY <2>1, <2>2, <4>2
    <3> QED BY <2>2, <3>2
  <2>4. ASSUME NEW j \in 1..(n - 1), r[j] # KeepAlive PROVE r[j] \in (a + 2)..b
    <3>1. q[j + 1] = r[j] /\ j + 1 \in 1..n /\ 1 < j + 1
      BY <1>1, <1>3
    <3>2. q[1] < q[j + 1] /\ q[j + 1] \in (a + 1)..b
      BY <1>2, <1>3, <1>6, <2>4, <3>1
    <3> QED BY <2>3, <3>1, <3>2
  <2>5. ASSUME NEW m \in (a + 2)..b PROVE \E j \in 1..(n - 1) : r[j] = m
    <3>1. m \in (a + 1)..b /\ m # a + 1
      OBVIOUS
    <3>2. PICK j \in 1..n : q[j] = m
      BY <1>2, <3>1
    <3>3. j # 1
      BY <2>3, <3>1, <3>2
    <3> QED BY <1>3, <3>2, <3>3
  <2>6. Run(r, a + 1, b)
    <3>1. a + 1 + 1 = a + 2 /\ a + 1 <= b
      BY <2>1
    <3> QED BY <1>1, <1>4, <2>4, <2>5, <3>1 DEF Run
  <2>7. a + 1 <= b
    BY <2>1
  <2> QED BY <1>1, <1>6, <2>3, <2>6, <2>7 DEF r
<1> QED BY <1>5, <1>6

LEMMA RunQuiet ==
  ASSUME NEW q, NEW a \in Nat, NEW b \in Nat, Run(q, a, b),
         \A i \in 1..Len(q) : q[i] = KeepAlive
  PROVE  a = b
<1>1. ASSUME a < b PROVE FALSE
  <2>1. a + 1 \in (a + 1)..b
    BY <1>1
  <2>2. PICK i \in 1..Len(q) : q[i] = a + 1
    BY <2>1 DEF Run
  <2> QED BY <2>2 DEF KeepAlive
<1> QED BY <1>1 DEF Run

-----------------------------------------------------------------------------
(* What a changed strand keeps.                                               *)

(* The same header and writes wait on p as on q.                               *)
Kin(q, p) ==
  /\ Cnt(p, "begin") = Cnt(q, "begin") /\ Cnt(p, "written") = Cnt(q, "written")
  /\ \A h : h.op = "written" => (h \in Waiting(p) <=> h \in Waiting(q))

LEMMA ChainFacts ==
  ASSUME NEW x \in Shape
  PROVE  Polls(x) \in Nat /\ Chain(x) \in Nat /\ Chain(x) >= Polls(x)
<1>1. x.tasks \in Nat /\ x.sourcing \in Nat /\ x.strand \in Seq(HandlerType)
  BY DEF Shape
<1>2. Cnt(x.strand, "batch") \in Nat /\ Cnt(x.strand, "poll") \in Nat
  BY <1>1, CntFacts
<1>3. Polls(x) \in Nat
  BY <1>1 DEF Polls
<1> QED BY <1>2, <1>3 DEF Chain

LEMMA GivenFacts ==
  ASSUME NEW x \in Shape, NEW y \in Shape, NEW h \in HandlerType,
         y.strand = Append(x.strand, h)
  PROVE  /\ Chain(y) = Chain(x) - Polls(x) + Polls(y)
                       + (IF h.op \in {"batch", "poll"} THEN 1 ELSE 0)
         /\ Waiting(y.strand) = Waiting(x.strand) \cup {h}
         /\ Vals(y.strand) = Append(Vals(x.strand), Val(h))
         /\ h.op \notin {"begin", "written"} => Kin(x.strand, y.strand)
         /\ Settled(x.strand) /\ (Val(h) = KeepAlive
                                  \/ \A g \in Waiting(x.strand) : g.op # "finish")
              => Settled(y.strand)
<1>1. x.strand \in Seq(HandlerType)
  BY DEF Shape
<1>2. /\ Waiting(y.strand) = Waiting(x.strand) \cup {h}
      /\ Vals(y.strand) = Append(Vals(x.strand), Val(h))
  BY <1>1, Given
<1>3. \A op : /\ Cnt(y.strand, op) = Cnt(x.strand, op) + (IF h.op = op THEN 1 ELSE 0)
              /\ Cnt(x.strand, op) \in Nat
  BY <1>1, CntAppend, CntFacts
<1>4. Polls(x) \in Nat /\ Polls(y) \in Nat
  BY ChainFacts
<1>5. Chain(y) = Chain(x) - Polls(x) + Polls(y)
                 + (IF h.op \in {"batch", "poll"} THEN 1 ELSE 0)
  <2> DEFINE b == Cnt(x.strand, "batch")
             p == Cnt(x.strand, "poll")
             X == Polls(x)
             Y == Polls(y)
  <2>1. /\ b \in Nat /\ p \in Nat /\ X \in Nat /\ Y \in Nat
        /\ Chain(x) = X + b + p
        /\ Chain(y) = Y + (b + (IF h.op = "batch" THEN 1 ELSE 0))
                        + (p + (IF h.op = "poll" THEN 1 ELSE 0))
    <3>1. /\ Cnt(y.strand, "batch") = b + (IF h.op = "batch" THEN 1 ELSE 0)
          /\ Cnt(y.strand, "poll") = p + (IF h.op = "poll" THEN 1 ELSE 0)
          /\ b \in Nat /\ p \in Nat
      BY <1>3, Zenon
    <3>2. /\ Chain(x) = X + b + p
          /\ Chain(y) = Y + Cnt(y.strand, "batch") + Cnt(y.strand, "poll")
      BY Zenon DEF Chain
    <3> QED BY <1>4, <3>1, <3>2, Zenon
  <2> DEFINE u == IF h.op = "batch" THEN 1 ELSE 0
             v == IF h.op = "poll" THEN 1 ELSE 0
             w == IF h.op \in {"batch", "poll"} THEN 1 ELSE 0
  <2>2. w = u + v /\ u \in Nat /\ v \in Nat
    OBVIOUS
  <2>3. Chain(y) = Y + (b + u) + (p + v)
    BY <2>1, Zenon
  <2> HIDE DEF b, p, X, Y, u, v, w
  <2>4. Chain(y) = Chain(x) - X + Y + w
    BY <2>1, <2>2, <2>3
  <2> QED BY <2>4 DEF X, Y, w
<1>6. ASSUME h.op \notin {"begin", "written"}
      PROVE  Kin(x.strand, y.strand)
  <2>1. h.op # "begin" /\ h.op # "written"
    BY <1>6
  <2>2. Cnt(y.strand, "begin") = Cnt(x.strand, "begin")
    BY <1>3, <2>1
  <2>3. Cnt(y.strand, "written") = Cnt(x.strand, "written")
    BY <1>3, <2>1
  <2>4. \A g : g.op = "written" => (g \in Waiting(y.strand) <=> g \in Waiting(x.strand))
    BY <1>2, <2>1
  <2> QED BY <2>2, <2>3, <2>4 DEF Kin
<1>7. ASSUME Settled(x.strand),
             Val(h) = KeepAlive \/ \A g \in Waiting(x.strand) : g.op # "finish"
      PROVE  Settled(y.strand)
  BY <1>1, <1>7, SettledGiven
<1> QED BY <1>2, <1>5, <1>6, <1>7

Took(x, y, h) ==
  /\ h \in HandlerType
  /\ Chain(y) = Chain(x) - Polls(x) + Polls(y)
                - (IF h.op \in {"batch", "poll"} THEN 1 ELSE 0)
  /\ Waiting(x.strand) = Waiting(y.strand) \cup {h}
  /\ Vals(y.strand) = Tail(Vals(x.strand))
  /\ Vals(x.strand) # <<>> /\ Head(Vals(x.strand)) = Val(h)
  /\ h.op \notin {"begin", "written"} => Kin(x.strand, y.strand)
  /\ \A op : /\ Cnt(x.strand, op) = Cnt(y.strand, op) + (IF h.op = op THEN 1 ELSE 0)
             /\ Cnt(x.strand, op) \in Nat /\ Cnt(y.strand, op) \in Nat
  /\ Settled(x.strand) =>
       /\ Settled(y.strand)
       /\ h.op = "finish" => \A g \in Waiting(y.strand) : Val(g) = KeepAlive

LEMMA TakenFacts ==
  ASSUME NEW x \in Shape, NEW y \in Shape, x.strand # <<>>, NEW h, h = Head(x.strand),
         y.strand = Tail(x.strand)
  PROVE  Took(x, y, h)
<1>1. x.strand \in Seq(HandlerType) /\ y.strand \in Seq(HandlerType)
  BY DEF Shape
<1>2. /\ h \in HandlerType
      /\ Waiting(x.strand) = Waiting(y.strand) \cup {h}
      /\ Vals(y.strand) = Tail(Vals(x.strand))
      /\ Vals(x.strand) # <<>> /\ Head(Vals(x.strand)) = Val(h)
  BY <1>1, Taken
<1>3. \A op : /\ Cnt(x.strand, op) = Cnt(y.strand, op) + (IF h.op = op THEN 1 ELSE 0)
              /\ Cnt(x.strand, op) \in Nat /\ Cnt(y.strand, op) \in Nat
  BY <1>1, CntTail, CntFacts
<1>4. Polls(x) \in Nat /\ Polls(y) \in Nat
  BY ChainFacts
<1>5. Chain(y) = Chain(x) - Polls(x) + Polls(y)
                 - (IF h.op \in {"batch", "poll"} THEN 1 ELSE 0)
  <2> DEFINE b == Cnt(y.strand, "batch")
             p == Cnt(y.strand, "poll")
             X == Polls(x)
             Y == Polls(y)
  <2>1. /\ b \in Nat /\ p \in Nat /\ X \in Nat /\ Y \in Nat
        /\ Chain(y) = Y + b + p
        /\ Chain(x) = X + (b + (IF h.op = "batch" THEN 1 ELSE 0))
                        + (p + (IF h.op = "poll" THEN 1 ELSE 0))
    <3>1. /\ Cnt(x.strand, "batch") = b + (IF h.op = "batch" THEN 1 ELSE 0)
          /\ Cnt(x.strand, "poll") = p + (IF h.op = "poll" THEN 1 ELSE 0)
          /\ b \in Nat /\ p \in Nat
      BY <1>3, Zenon
    <3>2. /\ Chain(y) = Y + b + p
          /\ Chain(x) = X + Cnt(x.strand, "batch") + Cnt(x.strand, "poll")
      BY Zenon DEF Chain
    <3> QED BY <1>4, <3>1, <3>2, Zenon
  <2> DEFINE u == IF h.op = "batch" THEN 1 ELSE 0
             v == IF h.op = "poll" THEN 1 ELSE 0
             w == IF h.op \in {"batch", "poll"} THEN 1 ELSE 0
  <2>2. w = u + v /\ u \in Nat /\ v \in Nat
    OBVIOUS
  <2>3. Chain(x) = X + (b + u) + (p + v)
    BY <2>1, Zenon
  <2> HIDE DEF b, p, X, Y, u, v, w
  <2>4. Chain(y) = Chain(x) - X + Y - w
    BY <2>1, <2>2, <2>3
  <2> QED BY <2>4 DEF X, Y, w
<1>6. ASSUME h.op \notin {"begin", "written"}
      PROVE  Kin(x.strand, y.strand)
  <2>1. h.op # "begin" /\ h.op # "written"
    BY <1>6
  <2>2. Cnt(y.strand, "begin") = Cnt(x.strand, "begin")
    BY <1>3, <2>1
  <2>3. Cnt(y.strand, "written") = Cnt(x.strand, "written")
    BY <1>3, <2>1
  <2>4. \A g : g.op = "written" => (g \in Waiting(y.strand) <=> g \in Waiting(x.strand))
    BY <1>2, <2>1
  <2> QED BY <2>2, <2>3, <2>4 DEF Kin
<1>7. Settled(x.strand) =>
        /\ Settled(y.strand)
        /\ h.op = "finish" => \A g \in Waiting(y.strand) : Val(g) = KeepAlive
  BY <1>1, SettledTaken
<1> QED BY <1>2, <1>3, <1>5, <1>6, <1>7, Zenon DEF Took

LEMMA WriteKept ==
  ASSUME NEW x \in Shape, NEW y \in Shape, NEW r, NEW t, WriteOK(x, r), Kin(x.strand, y.strand),
         y.headerDone = x.headerDone, y.writing = x.writing, y.queue = x.queue,
         y.writes = x.writes,
         t \in {"start", "reserved", "refused", "released"} =>
           r \in {"start", "reserved", "refused", "released"}
  PROVE  WriteOK(y, t)
<1>1. InFlight(y) = InFlight(x) /\ Cnt(y.strand, "begin") = Cnt(x.strand, "begin")
  BY DEF InFlight, Kin
<1>2. \A f : Writes(y, f) = Writes(x, f)
  BY Zenon DEF Writes
<1>3. \A h \in Waiting(y.strand) : h.op = "written" => Writes(y, h.frame)
  BY <1>2, Zenon DEF WriteOK, Kin
<1>4. \A i \in 1..Len(y.writes) : Writes(y, y.writes[i])
  BY <1>2, Zenon DEF WriteOK
<1> QED BY <1>1, <1>3, <1>4, Zenon DEF WriteOK

LEMMA OrderKept ==
  ASSUME NEW x \in Shape, NEW y \in Shape, NEW r, NEW off, NEW del, NEW t, NEW end,
         OrderOK(x, r, off, del), Kin(x.strand, y.strand),
         y.queue = x.queue, y.writes = x.writes, y.open => x.open,
         y.open => \A b \in 0..MaxFrames :
           Run(Vals(x.strand), b, Sent(r, off)) => Run(Vals(y.strand), b, Sent(t, end))
  PROVE  OrderOK(y, t, end, del)
<1>1. Acked(y) <=> Acked(x)
  BY Zenon DEF Acked, Kin
<1>2. Rest(y) = Rest(x)
  BY <1>1, Zenon DEF Rest
<1>3. PICK a, b \in 0..MaxFrames : Flow(x, r, off, del, a, b)
  BY DEF OrderOK
<1>4. Flow(y, t, end, del, a, b)
  BY <1>2, <1>3, Zenon DEF Flow
<1> QED BY <1>4 DEF OrderOK

LEMMA SameStrand ==
  ASSUME NEW x \in Shape, NEW y \in Shape, y.strand = x.strand
  PROVE  /\ Chain(y) = Chain(x) - Polls(x) + Polls(y)
         /\ Kin(x.strand, y.strand)
<1>1. x.strand \in Seq(HandlerType)
  BY DEF Shape
<1> DEFINE b == Cnt(x.strand, "batch")
           p == Cnt(x.strand, "poll")
<1>2. b \in Nat /\ p \in Nat /\ Polls(x) \in Nat /\ Polls(y) \in Nat
  BY <1>1, CntFacts, ChainFacts
<1>3. Chain(x) = Polls(x) + b + p /\ Chain(y) = Polls(y) + b + p
  BY Zenon DEF Chain
<1>4. Kin(x.strand, y.strand)
  BY Zenon DEF Kin
<1> HIDE DEF b, p
<1> QED BY <1>2, <1>3, <1>4

LEMMA EndKept ==
  ASSUME NEW k, NEW x \in Shape, NEW y \in Shape, NEW r, NEW off, NEW del, NEW br,
         EndOK(k, x, r, off, del, br), y.strand = x.strand, y.open = x.open,
         y.finished = x.finished, y.socket = x.socket, y.headerDone = x.headerDone,
         Chain(y) <= Chain(x)
  PROVE  EndOK(k, y, r, off, del, br)
<1>1. Chain(x) = 0 => Chain(y) = 0
  BY ChainFacts
<1>2. Over(y) <=> Over(x)
  BY Zenon DEF Over
<1> QED BY <1>1, <1>2, Zenon DEF EndOK

(* A change of timers, reads, bytes and polls.                                *)
LEMMA SameGood ==
  ASSUME NEW k, NEW x \in Shape, NEW y \in Shape, NEW r, NEW off, NEW del, NEW br,
         Good(k, x, r, off, del, br), y.strand = x.strand, y.open = x.open,
         y.finished = x.finished, y.socket = x.socket, y.headerDone = x.headerDone,
         y.writing = x.writing, y.queue = x.queue, y.writes = x.writes,
         Polls(y) <= Polls(x)
  PROVE  Good(k, y, r, off, del, br)
<1>1. Chain(y) <= Chain(x) /\ Chain(y) \in Nat /\ Chain(x) \in Nat /\ Kin(x.strand, y.strand)
  <2>1. Chain(y) = Chain(x) - Polls(x) + Polls(y) /\ Kin(x.strand, y.strand)
    BY SameStrand
  <2> QED BY <2>1, ChainFacts
<1>2. PollOK(k, y)
  BY <1>1 DEF Good, PollOK
<1>3. WriteOK(y, r)
  BY <1>1, WriteKept, Zenon DEF Good
<1>4. OrderOK(y, r, off, del)
  BY <1>1, OrderKept, Zenon DEF Good
<1>5. EndOK(k, y, r, off, del, br)
  BY <1>1, EndKept, Zenon DEF Good
<1> QED BY <1>2, <1>3, <1>4, <1>5 DEF Good

LEMMA BrokenGood ==
  ASSUME NEW k, NEW x, NEW r, NEW off, NEW del, NEW br, NEW more,
         Good(k, x, r, off, del, br), br => more
  PROVE  Good(k, x, r, off, del, more)
<1>1. EndOK(k, x, r, off, del, br)
  BY DEF Good
<1>2. EndOK(k, x, r, off, del, more)
  BY <1>1, Zenon DEF EndOK
<1> QED BY <1>2, Zenon DEF Good

LEMMA CloseFields ==
  ASSUME NEW x \in Shape
  PROVE  LET y == Close(x)
         IN  /\ y \in Shape /\ ~y.open /\ y.timers = {}
             /\ y.socket = IF x.socket = "open" THEN "closed" ELSE x.socket
             /\ y.strand = x.strand /\ y.finished = x.finished /\ y.headerDone = x.headerDone
             /\ y.writing = x.writing /\ y.queue = x.queue /\ y.writes = x.writes
             /\ Polls(y) <= Polls(x)
<1> DEFINE y == Close(x)
           w == IF x.socket = "open" THEN "closed" ELSE x.socket
<1>1. y = [x EXCEPT !.open = FALSE, !.timers = {}, !.socket = w]
  BY DEF Close
<1>2. w \in {"route", "open", "closed"} /\ {} \in SUBSET Timers
  BY DEF Shape
<1> HIDE DEF y, w
<1>3. /\ y \in Shape /\ ~y.open /\ y.timers = {} /\ y.socket = w
      /\ y.strand = x.strand /\ y.finished = x.finished /\ y.headerDone = x.headerDone
      /\ y.writing = x.writing /\ y.queue = x.queue /\ y.writes = x.writes
      /\ y.tasks = x.tasks /\ y.sourcing = x.sourcing /\ y.batch = x.batch
  BY <1>1, <1>2 DEF Shape
<1>4. Polls(y) <= Polls(x)
  <2>1. x.tasks \in Nat /\ x.sourcing \in Nat
    BY DEF Shape
  <2>2. "poll" \notin y.timers
    BY <1>3
  <2> QED BY <1>3, <2>1, <2>2 DEF Polls
<1> QED BY <1>3, <1>4 DEF y, w

(* A stream may close when it is broken.                                       *)
LEMMA CloseGood ==
  ASSUME NEW k, NEW x \in Shape, NEW r, NEW off, NEW del, NEW br,
         Good(k, x, r, off, del, br), br \/ ~x.open
  PROVE  Good(k, Close(x), r, off, del, br)
<1> DEFINE y == Close(x)
<1>1. /\ y \in Shape /\ ~y.open
      /\ y.socket = IF x.socket = "open" THEN "closed" ELSE x.socket
      /\ y.strand = x.strand /\ y.finished = x.finished /\ y.headerDone = x.headerDone
      /\ y.writing = x.writing /\ y.queue = x.queue /\ y.writes = x.writes
      /\ Polls(y) <= Polls(x)
  BY CloseFields
<1> HIDE DEF y
<1>2. Chain(y) <= Chain(x) /\ Chain(y) \in Nat /\ Chain(x) \in Nat /\ Kin(x.strand, y.strand)
  <2>1. Chain(y) = Chain(x) - Polls(x) + Polls(y) /\ Kin(x.strand, y.strand)
    BY <1>1, SameStrand
  <2> QED BY <1>1, <2>1, ChainFacts
<1>3. PollOK(k, y)
  BY <1>1, <1>2 DEF Good, PollOK
<1>4. WriteOK(y, r)
  BY <1>1, <1>2, WriteKept, Zenon DEF Good
<1>5. OrderOK(y, r, off, del)
  BY <1>1, <1>2, OrderKept, Zenon DEF Good
<1>6. EndOK(k, y, r, off, del, br)
  <2>1. EndOK(k, x, r, off, del, br)
    BY DEF Good
  <2>2. Over(y) <=> Over(x)
    BY <1>1, Zenon DEF Over
  <2>3. Chain(x) = 0 => Chain(y) = 0
    BY <1>2
  <2>4. x.socket = "closed" => y.socket = "closed"
    BY <1>1
  <2>5. r = "released" => y.socket = "route"
    BY <1>1, <2>1 DEF EndOK
  <2>6. r \notin {"start", "refused", "released"} => y.socket # "route"
    BY <1>1, <2>1 DEF EndOK
  <2>7. br \/ r = "released" \/ (y.finished /\ y.socket = "closed" /\ Run(del, 0, off))
    BY <1>1, <2>1, <2>4, Zenon DEF EndOK
  <2> QED BY <1>1, <2>1, <2>2, <2>3, <2>5, <2>6, <2>7, Zenon DEF EndOK
<1> QED BY <1>3, <1>4, <1>5, <1>6 DEF Good, y

-----------------------------------------------------------------------------
(* The steps of a handler.                                                    *)

(* Between two writes nothing is acknowledged.                                 *)
LEMMA NoWrite ==
  ASSUME NEW x \in Shape, InFlight(x) = 0
  PROVE  /\ x.writes = <<>> /\ ~Acked(x) /\ Rest(x) = x.queue
         /\ \A h \in Waiting(x.strand) : h.op # "written"
<1>1. x.writes \in Seq(Wire \cup {Header}) /\ x.strand \in Seq(HandlerType)
  BY DEF Shape
<1>2. Cnt(x.strand, "written") \in Nat /\ Len(x.writes) \in Nat
  BY <1>1, CntFacts
<1>3. Cnt(x.strand, "written") = 0 /\ Len(x.writes) = 0
  BY <1>2 DEF InFlight
<1>4. x.writes = <<>>
  BY <1>1, <1>3
<1>5. \A h \in Waiting(x.strand) : h.op # "written"
  BY <1>1, <1>3, CntFacts
<1>6. ~Acked(x)
  BY <1>5 DEF Acked
<1> QED BY <1>4, <1>5, <1>6 DEF Rest

LEMMA WriteNextFields ==
  ASSUME NEW x \in Shape
  PROVE  LET y == WriteNext(x)
         IN  /\ y \in Shape /\ Polls(y) <= Polls(x) /\ (y.open => x.open)
             /\ y.strand = x.strand /\ y.finished = x.finished /\ y.headerDone = x.headerDone
<1> DEFINE y == WriteNext(x)
<1>1. CASE y = x
  BY <1>1, ChainFacts
<1>2. CASE y = Close(x)
  BY <1>2, CloseFields
<1>3. CASE x.queue # <<>> /\ y = StartWrite([x EXCEPT !.writing = TRUE], Head(x.queue))
  <2>1. x.queue \in Seq(Wire) /\ Head(x.queue) \in Wire
    BY <1>3 DEF Shape
  <2>2. /\ y = [x EXCEPT !.writing = TRUE, !.timers = @ \cup {"write"},
                         !.writes = Append(@, Head(x.queue))]
    BY <1>3 DEF StartWrite, Shape
  <2>3. /\ x.timers \cup {"write"} \in SUBSET Timers
        /\ Append(x.writes, Head(x.queue)) \in Seq(Wire \cup {Header})
    BY <2>1 DEF Shape, Timers
  <2> HIDE DEF y
  <2>4. /\ y \in Shape /\ y.open = x.open /\ y.strand = x.strand /\ y.finished = x.finished
        /\ y.headerDone = x.headerDone /\ y.timers = x.timers \cup {"write"}
        /\ y.tasks = x.tasks /\ y.sourcing = x.sourcing /\ y.batch = x.batch
    BY <2>2, <2>3 DEF Shape
  <2>5. "poll" \in y.timers <=> "poll" \in x.timers
    BY <2>4
  <2>6. Polls(y) = Polls(x)
    BY <2>4, <2>5, Zenon DEF Polls
  <2>7. Polls(x) \in Nat
    BY ChainFacts
  <2> QED BY <2>4, <2>6, <2>7 DEF y
<1> QED BY <1>1, <1>2, <1>3 DEF WriteNext

LEMMA StartGood ==
  ASSUME NEW k, NEW x \in Shape, NEW r \in Routes, NEW off, NEW del, NEW br,
         Good(k, x, r, off, del, br),
         x.open, x.headerDone, ~x.writing, x.queue # <<>>
  PROVE  Good(k, StartWrite([x EXCEPT !.writing = TRUE], Head(x.queue)), r, off, del, br)
<1> DEFINE f == Head(x.queue)
           y == StartWrite([x EXCEPT !.writing = TRUE], f)
<1>1. x.queue \in Seq(Wire) /\ f \in Wire
  BY DEF Shape
<1>2. InFlight(x) = 0
  BY DEF Good, WriteOK
<1>3. /\ x.writes = <<>> /\ ~Acked(x) /\ Rest(x) = x.queue
      /\ \A h \in Waiting(x.strand) : h.op # "written"
  BY <1>2, NoWrite
<1>4. y = [x EXCEPT !.writing = TRUE, !.timers = @ \cup {"write"}, !.writes = <<f>>]
  <2>1. Append(x.writes, f) = <<f>>
    BY <1>3
  <2>2. y = [x EXCEPT !.writing = TRUE, !.timers = @ \cup {"write"},
                      !.writes = Append(@, f)]
    BY DEF StartWrite, Shape
  <2> HIDE DEF y, f
  <2>3. [x EXCEPT !.writing = TRUE, !.timers = @ \cup {"write"}, !.writes = Append(@, f)]
        = [x EXCEPT !.writing = TRUE, !.timers = @ \cup {"write"}, !.writes = <<f>>]
    BY <2>1, Zenon
  <2> QED BY <2>2, <2>3
<1>5. x.timers \cup {"write"} \in SUBSET Timers /\ <<f>> \in Seq(Wire \cup {Header})
  BY <1>1 DEF Shape, Timers
<1>6. Len(<<f>>) = 1 /\ <<f>>[1] = f
  OBVIOUS
<1> HIDE DEF y, f
<1>7. /\ y \in Shape /\ y.open = x.open /\ y.strand = x.strand /\ y.finished = x.finished
      /\ y.headerDone = x.headerDone /\ y.queue = x.queue /\ y.socket = x.socket
      /\ y.timers = x.timers \cup {"write"} /\ y.writing /\ y.writes = <<f>>
      /\ y.tasks = x.tasks /\ y.sourcing = x.sourcing /\ y.batch = x.batch
  BY <1>4, <1>5 DEF Shape
<1>8. Polls(y) = Polls(x)
  <2>1. "poll" \in y.timers <=> "poll" \in x.timers
    BY <1>7
  <2> QED BY <1>7, <2>1, Zenon DEF Polls
<1>9. Chain(y) = Chain(x) /\ Chain(x) \in Nat /\ Kin(x.strand, y.strand)
  <2>1. Chain(y) = Chain(x) - Polls(x) + Polls(y) /\ Kin(x.strand, y.strand)
    BY <1>7, SameStrand
  <2> QED BY <1>8, <2>1, ChainFacts
<1>10. PollOK(k, y)
  BY <1>7, <1>9, Zenon DEF Good, PollOK
<1>11. WriteOK(y, r)
  <2>1. Cnt(x.strand, "written") \in Nat /\ Cnt(x.strand, "begin") = 0
    BY CntFacts DEF Good, WriteOK, Shape
  <2>2. Cnt(y.strand, "written") = Cnt(x.strand, "written") /\ Cnt(y.strand, "begin") = 0
    BY <1>7, <2>1
  <2>3. Cnt(x.strand, "written") = 0
    BY <1>2, <1>3, <2>1 DEF InFlight
  <2>4. InFlight(y) = 1 /\ Cnt(y.strand, "begin") + InFlight(y) <= 1
    BY <1>6, <1>7, <2>2, <2>3 DEF InFlight
  <2>5. \A i \in 1..Len(y.writes) : Writes(y, y.writes[i])
    <3>1. \A i \in 1..Len(y.writes) : i = 1
      BY <1>6, <1>7
    <3>2. Writes(y, f)
      BY <1>7 DEF Writes, f
    <3> QED BY <1>6, <1>7, <3>1, <3>2
  <2>6. \A h \in Waiting(y.strand) : h.op = "written" => Writes(y, h.frame)
    BY <1>3, <1>7
  <2>7. r \notin {"start", "reserved", "refused", "released"}
    BY DEF Good, WriteOK
  <2> QED BY <1>7, <2>2, <2>4, <2>5, <2>6, <2>7 DEF WriteOK
<1>12. OrderOK(y, r, off, del)
  <2>1. Rest(y) = Rest(x)
    <3>1. ~Acked(y)
      BY <1>3, <1>7 DEF Acked
    <3> QED BY <1>3, <1>7, <3>1 DEF Rest
  <2>2. PICK a, b \in 0..MaxFrames : Flow(x, r, off, del, a, b)
    BY DEF Good, OrderOK
  <2>3. Flow(y, r, off, del, a, b)
    BY <1>7, <2>1, <2>2, Zenon DEF Flow
  <2> QED BY <2>3 DEF OrderOK
<1>13. EndOK(k, y, r, off, del, br)
  <2>1. Chain(y) <= Chain(x)
    BY <1>9
  <2> QED BY <1>7, <2>1, EndKept, Zenon DEF Good
<1> QED BY <1>10, <1>11, <1>12, <1>13 DEF Good, y, f

(* The stream closes by itself only when every event was delivered.            *)
LEMMA CompleteGood ==
  ASSUME NEW k \in {"run", "feed"}, NEW x \in Shape, NEW r \in Routes,
         NEW off \in 0..MaxFrames, NEW del, NEW br,
         Good(k, x, r, off, del, br),
         x.open, x.headerDone, ~x.writing, x.queue = <<>>, x.finished
  PROVE  Good(k, Close(x), r, off, del, br)
<1> DEFINE y == Close(x)
<1>1. /\ y \in Shape /\ ~y.open
      /\ y.socket = IF x.socket = "open" THEN "closed" ELSE x.socket
      /\ y.strand = x.strand /\ y.finished = x.finished /\ y.headerDone = x.headerDone
      /\ y.writing = x.writing /\ y.queue = x.queue /\ y.writes = x.writes
      /\ Polls(y) <= Polls(x)
  BY CloseFields
<1>2. EndOK(k, x, r, off, del, br) /\ WriteOK(x, r)
  BY DEF Good
<1> HIDE DEF y
<1>3. Chain(y) <= Chain(x) /\ Chain(y) \in Nat /\ Chain(x) \in Nat /\ Kin(x.strand, y.strand)
  <2>1. Chain(y) = Chain(x) - Polls(x) + Polls(y) /\ Kin(x.strand, y.strand)
    BY <1>1, SameStrand
  <2> QED BY <1>1, <2>1, ChainFacts
<1>4. PollOK(k, y)
  BY <1>1, <1>3 DEF Good, PollOK
<1>5. WriteOK(y, r)
  BY <1>1, <1>2, <1>3, WriteKept, Zenon
<1>6. OrderOK(y, r, off, del)
  BY <1>1, <1>3, OrderKept, Zenon DEF Good
<1>7. y.socket = "closed"
  <2>1. r \notin {"start", "reserved", "refused", "released"}
    BY <1>2 DEF WriteOK
  <2>2. x.socket # "route"
    BY <1>2, <2>1 DEF EndOK
  <2> QED BY <1>1, <2>2 DEF Shape
<1>8. Run(del, 0, off)
  <2>1. Sent(r, off) = off
    BY <1>2 DEF EndOK, Over, Sent
  <2>2. PICK a, b \in 0..MaxFrames : Flow(x, r, off, del, a, b)
    BY DEF Good, OrderOK
  <2>3. InFlight(x) = 0
    BY <1>2 DEF WriteOK
  <2>4. Run(del, 0, a) /\ Run(<<>>, a, b) /\ Run(Vals(x.strand), b, off)
    BY <2>1, <2>2, <2>3, NoWrite, Zenon DEF Flow
  <2>5. a = b
    BY <2>4, RunQuiet
  <2>6. b = off
    <3>1. \A i \in 1..Len(Vals(x.strand)) : Vals(x.strand)[i] = KeepAlive
      <4>1. \A h \in Waiting(x.strand) : Val(h) = KeepAlive
        BY <1>2 DEF EndOK
      <4>2. Len(x.strand) \in Nat
        BY DEF Shape
      <4>3. Len(Vals(x.strand)) = Len(x.strand)
        BY <4>2 DEF Vals
      <4> QED BY <4>1, <4>3 DEF Vals, Waiting
    <3> QED BY <2>4, <3>1, RunQuiet
  <2> QED BY <2>4, <2>5, <2>6
<1>9. EndOK(k, y, r, off, del, br)
  <2>1. Over(y) <=> Over(x)
    BY <1>1, Zenon DEF Over
  <2>2. Chain(x) = 0 => Chain(y) = 0
    BY <1>3
  <2>3. r # "released"
    BY <1>2 DEF EndOK, Over
  <2>4. y.socket # "route"
    BY <1>7
  <2> QED BY <1>1, <1>2, <1>7, <1>8, <2>1, <2>2, <2>3, <2>4, Zenon DEF EndOK
<1> QED BY <1>4, <1>5, <1>6, <1>9 DEF Good, y

LEMMA WriteNextGood ==
  ASSUME NEW k \in {"run", "feed"}, NEW x \in Shape, NEW r \in Routes,
         NEW off \in 0..MaxFrames, NEW del, NEW br,
         Good(k, x, r, off, del, br)
  PROVE  Good(k, WriteNext(x), r, off, del, br)
<1>1. CASE WriteNext(x) = x
  BY <1>1
<1>2. CASE /\ x.open /\ x.headerDone /\ ~x.writing /\ x.queue # <<>>
           /\ WriteNext(x) = StartWrite([x EXCEPT !.writing = TRUE], Head(x.queue))
  BY <1>2, StartGood
<1>3. CASE /\ x.open /\ x.headerDone /\ ~x.writing /\ x.queue = <<>> /\ x.finished
           /\ WriteNext(x) = Close(x)
  BY <1>3, CompleteGood
<1> QED BY <1>1, <1>2, <1>3 DEF WriteNext

(* A subscription that goes on may have one poll, wherever it is.               *)
LEMMA PolledGood ==
  ASSUME NEW x \in Shape, NEW y \in Shape, NEW r, NEW off, NEW del, NEW br,
         Good("feed", x, r, off, del, br), y.strand = x.strand, y.open = x.open,
         y.finished = x.finished, y.socket = x.socket, y.headerDone = x.headerDone,
         y.writing = x.writing, y.queue = x.queue, y.writes = x.writes,
         x.headerDone, ~Over(x), Chain(y) <= 1
  PROVE  Good("feed", y, r, off, del, br)
<1>1. Kin(x.strand, y.strand)
  BY SameStrand
<1>2. PollOK("feed", y)
  BY DEF PollOK
<1>3. WriteOK(y, r)
  BY <1>1, WriteKept, Zenon DEF Good
<1>4. OrderOK(y, r, off, del)
  BY <1>1, OrderKept, Zenon DEF Good
<1>5. EndOK("feed", y, r, off, del, br)
  <2>1. ~Over(y)
    BY Zenon DEF Over
  <2> QED BY <2>1, Zenon DEF Good, EndOK
<1> QED BY <1>2, <1>3, <1>4, <1>5 DEF Good

(* A handler is posted, by the stream or by another thread.                     *)
Posts(k, x, y, h, r, t, off, end, br, more) ==
  /\ y.strand = Append(x.strand, h) /\ y.finished = x.finished
  /\ y.headerDone = x.headerDone /\ y.writing = x.writing /\ y.queue = x.queue
  /\ y.writes = x.writes /\ y.socket = x.socket
  /\ h.op \notin {"begin", "written"}
  /\ Val(h) = KeepAlive \/ ~Over(x)
  /\ y.open => x.open
  /\ br => more
  /\ x.open /\ ~y.open => more
  /\ Closes(h) => more \/ ~y.open
  /\ Chain(y) <= Chain(x)
  /\ h.op = "finish" => IF k = "run" THEN t = "done" ELSE Chain(y) = 0 /\ y.headerDone
  /\ r # t => r \in {"sending", "cancel", "added"} /\ t \in {"sending", "done"}
  /\ off <= end
  /\ off = end \/ ~Over(x)
  /\ y.open => \A b \in 0..MaxFrames :
       Run(Vals(x.strand), b, Sent(r, off)) => Run(Vals(y.strand), b, Sent(t, end))

LEMMA PostGood ==
  ASSUME NEW k \in {"run", "feed"}, NEW x \in Shape, NEW y \in Shape, NEW h \in HandlerType,
         NEW r \in Routes, NEW t \in Routes, NEW off \in Nat, NEW end \in Nat, NEW del,
         NEW br, NEW more,
         Good(k, x, r, off, del, br), Posts(k, x, y, h, r, t, off, end, br, more)
  PROVE  Good(k, y, t, end, del, more)
<1> USE DEF Posts
<1>1. EndOK(k, x, r, off, del, br)
  BY DEF Good
<1>2. /\ Waiting(y.strand) = Waiting(x.strand) \cup {h} /\ Kin(x.strand, y.strand)
      /\ Settled(x.strand) /\ (Val(h) = KeepAlive
                               \/ \A g \in Waiting(x.strand) : g.op # "finish")
           => Settled(y.strand)
  BY GivenFacts, Zenon
<1>3. /\ Chain(x) \in Nat /\ Chain(y) \in Nat /\ (Chain(x) = 0 => Chain(y) = 0)
  BY ChainFacts
<1>4. PollOK(k, y)
  BY <1>3 DEF Good, PollOK
<1>5. WriteOK(y, t)
  <2>1. t \in {"start", "reserved", "refused", "released"} =>
          r \in {"start", "reserved", "refused", "released"}
    OBVIOUS
  <2> QED BY <1>2, <2>1, WriteKept, Zenon DEF Good
<1>6. OrderOK(y, t, end, del)
  BY <1>2, OrderKept, Zenon DEF Good
<1>7. r # t => k = "run" /\ ~Over(x)
  BY <1>1 DEF EndOK
<1>8. EndOK(k, y, t, end, del, more)
  <2>1. Over(y) => Over(x) \/ h.op = "finish"
    BY <1>2 DEF Over
  <2>2. Over(y) => IF k = "run" THEN t = "done" ELSE Chain(y) = 0 /\ y.headerDone
    <3>1. CASE Over(x)
      <4>1. r = t /\ IF k = "run" THEN r = "done" ELSE Chain(x) = 0 /\ x.headerDone
        BY <1>1, <1>7, <3>1 DEF EndOK
      <4> QED BY <1>3, <4>1
    <3>2. CASE h.op = "finish"
      BY <3>2
    <3> QED BY <2>1, <3>1, <3>2
  <2>3. k = "feed" => t \in {"start", "reserved", "refused", "done"}
    BY <1>1, <1>7 DEF EndOK
  <2>4. Settled(y.strand)
    <3>1. Settled(x.strand)
      BY <1>1 DEF EndOK
    <3>2. ~Over(x) => \A g \in Waiting(x.strand) : g.op # "finish"
      BY DEF Over
    <3> QED BY <1>2, <3>1, <3>2
  <2>5. y.finished => \A g \in Waiting(y.strand) : Val(g) = KeepAlive
    <3>1. y.finished => Over(x) /\ Val(h) = KeepAlive
      BY DEF Over
    <3> QED BY <1>1, <1>2, <3>1 DEF EndOK
  <2>6. ~y.open => more \/ t = "released"
                   \/ (y.finished /\ y.socket = "closed" /\ Run(del, 0, end))
    <3>1. CASE x.open
      BY <3>1
    <3>2. CASE ~x.open
      <4>1. br \/ r = "released" \/ (x.finished /\ x.socket = "closed" /\ Run(del, 0, off))
        BY <1>1, <3>2, Zenon DEF EndOK
      <4>2. r = "released" => t = "released"
        OBVIOUS
      <4>3. x.finished => off = end
        BY DEF Over
      <4> QED BY <4>1, <4>2, <4>3, Zenon
    <3> QED BY <3>1, <3>2
  <2>7. y.socket = "closed" => ~y.open
    BY <1>1, Zenon DEF EndOK
  <2>8. /\ t = "released" => y.socket = "route"
        /\ t \notin {"start", "refused", "released"} => y.socket # "route"
    <3>1. t = "released" => r = "released"
      OBVIOUS
    <3>2. t \notin {"start", "refused", "released"} => r \notin {"start", "refused", "released"}
      OBVIOUS
    <3> QED BY <1>1, <3>1, <3>2, Zenon DEF EndOK
  <2>9. ASSUME NEW g \in Waiting(y.strand), Closes(g) PROVE more \/ ~y.open
    BY <1>1, <1>2, <2>9, Zenon DEF EndOK
  <2>10. t \in {"added", "overflow", "cancel"} => end > 0
    <3>1. t \in {"added", "overflow", "cancel"} => r = t
      OBVIOUS
    <3>2. r \in {"added", "overflow", "cancel"} => off > 0
      BY <1>1 DEF EndOK
    <3> QED BY <3>1, <3>2
  <2> QED BY <2>2, <2>3, <2>4, <2>5, <2>6, <2>7, <2>8, <2>9, <2>10, Zenon DEF EndOK
<1> QED BY <1>4, <1>5, <1>6, <1>8 DEF Good

LEMMA PlainFacts ==
  ASSUME NEW op, op \in {"begin", "close", "finish", "eof"} \cup Timers
  PROVE  /\ Plain(op) \in HandlerType /\ Plain(op).op = op /\ Plain(op).ok
         /\ Val(Plain(op)) = KeepAlive
<1>1. Plain(op) = [op |-> op, frame |-> Header, ok |-> TRUE, batch |-> NoBatch]
  BY DEF Plain, Handler
<1>2. op # "push"
  BY DEF Timers
<1>3. /\ NoBatch \in Batch \cup {NoBatch} /\ Header \in Frames \cup {KeepAlive, Header}
      /\ op \in {"begin", "close", "finish", "eof", "push", "written", "batch"} \cup Timers
  OBVIOUS
<1>4. Plain(op).op = op /\ Plain(op).frame = Header /\ Plain(op).ok
  BY <1>1
<1>5. Plain(op) \in HandlerType
  BY <1>1, <1>2, <1>3, <1>4 DEF HandlerType
<1> QED BY <1>2, <1>4, <1>5 DEF Val

LEMMA PushFacts ==
  ASSUME NEW f \in Wire
  PROVE  LET h == Handler("push", f, TRUE, NoBatch)
         IN  h \in HandlerType /\ h.op = "push" /\ h.ok /\ h.frame = f /\ Val(h) = f
<1> DEFINE h == Handler("push", f, TRUE, NoBatch)
<1>1. h = [op |-> "push", frame |-> f, ok |-> TRUE, batch |-> NoBatch]
  BY DEF Handler
<1>2. /\ NoBatch \in Batch \cup {NoBatch} /\ f \in Frames \cup {KeepAlive, Header}
      /\ f # Header
  BY StreamAssumption DEF Wire, Frames, KeepAlive, Header
<1> HIDE DEF h
<1>3. h.op = "push" /\ h.ok /\ h.frame = f
  BY <1>1
<1>4. h \in HandlerType
  BY <1>1, <1>2, <1>3 DEF HandlerType
<1> QED BY <1>3, <1>4 DEF Val, h

LEMMA ValsType ==
  ASSUME NEW q \in Seq(HandlerType)
  PROVE  Vals(q) \in Seq(Int)
<1>1. Len(q) \in Nat /\ \A i \in 1..Len(q) : q[i] \in HandlerType
  OBVIOUS
<1>2. \A g \in HandlerType : g.op = "push" => g.frame \in Int
  BY StreamAssumption DEF HandlerType, Frames, KeepAlive, Header
<1>3. \A i \in 1..Len(q) : Val(q[i]) \in Int
  BY <1>1, <1>2 DEF Val, KeepAlive
<1> QED BY <1>1, <1>3 DEF Vals

LEMMA BeatKept ==
  ASSUME NEW q \in Seq(HandlerType), NEW p, NEW h, Vals(p) = Append(Vals(q), Val(h)),
         Val(h) = KeepAlive, NEW b \in Nat, NEW c \in Nat, Run(Vals(q), b, c)
  PROVE  Run(Vals(p), b, c)
<1>1. Vals(q) \in Seq(Int)
  BY ValsType
<1>2. KeepAlive \in Int
  BY DEF KeepAlive
<1>3. Run(Append(Vals(q), KeepAlive), b, c)
  BY <1>1, <1>2, RunGrows
<1> QED BY <1>3

LEMMA CancelGood ==
  ASSUME NEW k \in {"run", "feed"}, NEW x \in Shape,
         NEW r \in Routes, NEW t \in Routes, NEW off \in Nat, NEW del, NEW br \in BOOLEAN,
         Good(k, x, r, off, del, br), r = t \/ (r = "cancel" /\ t = "sending")
  PROVE  /\ Cancel(x) \in Shape /\ ~Cancel(x).open
         /\ Good(k, Cancel(x), t, off, del, TRUE)
         /\ Cancel(x).batch = x.batch
<1> DEFINE h == Plain("close")
           y == Cancel(x)
<1>1. h \in HandlerType /\ h.op = "close" /\ Val(h) = KeepAlive
  BY PlainFacts
<1>2. y = [x EXCEPT !.open = FALSE, !.strand = Append(@, h)]
  BY DEF Cancel, Post, Shape
<1>3. Append(x.strand, h) \in Seq(HandlerType)
  BY <1>1 DEF Shape
<1> HIDE DEF h, y
<1>4. /\ y \in Shape /\ ~y.open /\ y.strand = Append(x.strand, h) /\ y.finished = x.finished
      /\ y.headerDone = x.headerDone /\ y.writing = x.writing /\ y.queue = x.queue
      /\ y.writes = x.writes /\ y.socket = x.socket /\ y.timers = x.timers
      /\ y.tasks = x.tasks /\ y.sourcing = x.sourcing /\ y.batch = x.batch
  BY <1>2, <1>3 DEF Shape
<1>5. Polls(y) = Polls(x)
  BY <1>4, Zenon DEF Polls
<1>6. Chain(y) <= Chain(x)
  <2>1. Chain(y) = Chain(x) - Polls(x) + Polls(y)
                   + (IF h.op \in {"batch", "poll"} THEN 1 ELSE 0)
    BY <1>1, <1>4, GivenFacts, Zenon
  <2>2. h.op \notin {"batch", "poll"}
    BY <1>1
  <2> QED BY <1>4, <1>5, <2>1, <2>2, ChainFacts
<1>7. Good(k, y, t, off, del, TRUE)
  <2>1. h.op \notin {"begin", "written"} /\ h.op # "finish"
    BY <1>1
  <2>2. r # t => r \in {"sending", "cancel", "added"} /\ t \in {"sending", "done"}
    OBVIOUS
  <2>3. Posts(k, x, y, h, r, t, off, off, br, TRUE)
    BY <1>1, <1>4, <1>6, <2>1, <2>2 DEF Posts
  <2> QED BY <1>1, <1>4, <2>3, PostGood, Zenon
<1> QED BY <1>4, <1>7 DEF y

(* A keep-alive is posted, or the stream is cancelled for it.                   *)
LEMMA EnqueueGood ==
  ASSUME NEW k \in {"run", "feed"}, NEW x \in Shape,
         NEW r \in Routes, NEW off \in Nat, NEW del, NEW br \in BOOLEAN,
         Good(k, x, r, off, del, br)
  PROVE  LET y == Enqueue(x, KeepAlive)
         IN  /\ y \in Shape
             /\ Good(k, y, r, off, del, br \/ (x.open /\ ~y.open))
<1> DEFINE y == Enqueue(x, KeepAlive)
<1>1. CASE ~x.open
  <2>1. y = x
    BY <1>1 DEF Enqueue
  <2>2. (br \/ (x.open /\ ~y.open)) = br
    BY <1>1
  <2> HIDE DEF y
  <2>3. y \in Shape /\ Good(k, y, r, off, del, br \/ (x.open /\ ~y.open))
    BY <2>1, <2>2, Zenon
  <2> QED BY <2>3 DEF y
<1>2. CASE x.open /\ y = Cancel(x)
  <2>1. y \in Shape /\ ~y.open /\ Good(k, y, r, off, del, TRUE)
    BY <1>2, CancelGood
  <2> HIDE DEF y
  <2>2. (br \/ (x.open /\ ~y.open)) = TRUE
    BY <1>2, <2>1
  <2>3. y \in Shape /\ Good(k, y, r, off, del, br \/ (x.open /\ ~y.open))
    BY <2>1, <2>2, Zenon
  <2> QED BY <2>3 DEF y
<1>3. CASE x.open /\ y = Post([x EXCEPT !.pendingBytes = @ + Size(KeepAlive)],
                              Handler("push", KeepAlive, TRUE, NoBatch))
  <2> DEFINE h == Handler("push", KeepAlive, TRUE, NoBatch)
  <2>1. h \in HandlerType /\ h.op = "push" /\ h.ok /\ Val(h) = KeepAlive
    <3>1. KeepAlive \in Wire
      BY DEF Wire
    <3> QED BY <3>1, PushFacts
  <2>2. y = [x EXCEPT !.pendingBytes = @ + Size(KeepAlive), !.strand = Append(@, h)]
    BY <1>3 DEF Post, Shape
  <2> HIDE DEF h
  <2>3. Append(x.strand, h) \in Seq(HandlerType) /\ x.pendingBytes + Size(KeepAlive) \in Int
    <3>1. Size(KeepAlive) \in Nat
      BY StreamAssumption
    <3>2. x.strand \in Seq(HandlerType) /\ x.pendingBytes \in Int
      BY DEF Shape
    <3> QED BY <2>1, <3>1, <3>2
  <2> HIDE DEF y
  <2>4. /\ y \in Shape /\ y.open = x.open /\ y.strand = Append(x.strand, h)
        /\ y.finished = x.finished /\ y.headerDone = x.headerDone /\ y.writing = x.writing
        /\ y.queue = x.queue /\ y.writes = x.writes /\ y.socket = x.socket
        /\ y.timers = x.timers /\ y.tasks = x.tasks /\ y.sourcing = x.sourcing
        /\ y.batch = x.batch
    BY <2>2, <2>3 DEF Shape
  <2>5. Polls(y) = Polls(x)
    BY <2>4, Zenon DEF Polls
  <2>6. Chain(y) <= Chain(x) /\ Vals(y.strand) = Append(Vals(x.strand), Val(h))
    <3>1. /\ Chain(y) = Chain(x) - Polls(x) + Polls(y)
                        + (IF h.op \in {"batch", "poll"} THEN 1 ELSE 0)
          /\ Vals(y.strand) = Append(Vals(x.strand), Val(h))
      BY <2>1, <2>4, GivenFacts, Zenon
    <3>2. h.op \notin {"batch", "poll"}
      BY <2>1
    <3> QED BY <2>4, <2>5, <3>1, <3>2, ChainFacts
  <2>7. \A b \in 0..MaxFrames :
          Run(Vals(x.strand), b, Sent(r, off)) => Run(Vals(y.strand), b, Sent(r, off))
    <3>1. Sent(r, off) \in Nat
      BY DEF Good, EndOK, Sent
    <3>2. x.strand \in Seq(HandlerType) /\ \A b \in 0..MaxFrames : b \in Nat
      BY StreamAssumption DEF Shape
    <3> QED BY <2>1, <2>6, <3>1, <3>2, BeatKept
  <2>8. Good(k, y, r, off, del, br)
    <3>1. h.op \notin {"begin", "written"} /\ h.op # "finish" /\ ~Closes(h)
      BY <2>1 DEF Closes
    <3>2. Posts(k, x, y, h, r, r, off, off, br, br)
      BY <2>1, <2>4, <2>6, <2>7, <3>1 DEF Posts
    <3> QED BY <2>1, <2>4, <3>2, PostGood, Zenon
  <2>9. (br \/ (x.open /\ ~y.open)) = br
    BY <1>3, <2>4
  <2>10. y \in Shape /\ Good(k, y, r, off, del, br \/ (x.open /\ ~y.open))
    BY <2>4, <2>8, <2>9, Zenon
  <2> QED BY <2>10 DEF y
<1> QED BY <1>1, <1>2, <1>3 DEF Enqueue

LEMMA SchedulePollGood ==
  ASSUME NEW x \in Shape, NEW r, NEW off, NEW del, NEW br,
         Good(kind, x, r, off, del, br),
         kind = "feed" => Chain(x) = 0 /\ x.headerDone /\ ~Over(x)
  PROVE  SchedulePoll(x) \in Shape /\ Good(kind, SchedulePoll(x), r, off, del, br)
<1> DEFINE y == SchedulePoll(x)
<1>1. CASE y = x
  BY <1>1
<1>2. CASE kind = "feed" /\ y = [x EXCEPT !.tasks = @ + 1]
  <2>1. x.tasks \in Nat /\ x.tasks + 1 \in Nat /\ x.sourcing \in Nat
    BY DEF Shape
  <2> HIDE DEF y
  <2>2. /\ y \in Shape /\ y.strand = x.strand /\ y.open = x.open
        /\ y.finished = x.finished /\ y.socket = x.socket /\ y.headerDone = x.headerDone
        /\ y.writing = x.writing /\ y.queue = x.queue /\ y.writes = x.writes
        /\ y.tasks = x.tasks + 1 /\ y.sourcing = x.sourcing /\ y.timers = x.timers
        /\ y.batch = x.batch
    BY <1>2, <2>1 DEF Shape
  <2>3. Polls(y) = Polls(x) + 1
    BY <2>1, <2>2 DEF Polls
  <2>4. Chain(y) <= 1
    <3>1. Chain(y) = Chain(x) - Polls(x) + Polls(y)
      BY <2>2, SameStrand
    <3>2. Polls(x) \in Nat
      BY ChainFacts
    <3> QED BY <1>2, <2>3, <3>1, <3>2
  <2>5. Good("feed", x, r, off, del, br) /\ x.headerDone /\ ~Over(x)
    BY <1>2
  <2>6. Good("feed", y, r, off, del, br)
    BY <2>2, <2>4, <2>5, PolledGood, Zenon
  <2> QED BY <1>2, <2>2, <2>6 DEF y
<1> QED BY <1>1, <1>2 DEF SchedulePoll

LEMMA HeartbeatGood ==
  ASSUME NEW k, NEW x \in Shape, NEW r, NEW off, NEW del, NEW br,
         Good(k, x, r, off, del, br)
  PROVE  LET y == Heartbeat(x)
         IN  /\ y \in Shape /\ Good(k, y, r, off, del, br) /\ y.open = x.open
<1> DEFINE y == Heartbeat(x)
<1>1. CASE y = x
  BY <1>1
<1>2. CASE y = [x EXCEPT !.timers = @ \cup {"heartbeat"}]
  <2>1. x.timers \cup {"heartbeat"} \in SUBSET Timers
    BY DEF Shape, Timers
  <2> HIDE DEF y
  <2>2. /\ y \in Shape /\ y.strand = x.strand /\ y.open = x.open
        /\ y.finished = x.finished /\ y.socket = x.socket /\ y.headerDone = x.headerDone
        /\ y.writing = x.writing /\ y.queue = x.queue /\ y.writes = x.writes
        /\ y.tasks = x.tasks /\ y.sourcing = x.sourcing /\ y.batch = x.batch
        /\ y.timers = x.timers \cup {"heartbeat"}
    BY <1>2, <2>1 DEF Shape
  <2>3. Polls(y) <= Polls(x)
    <3>1. "poll" \in y.timers <=> "poll" \in x.timers
      BY <2>2
    <3>2. Polls(y) = Polls(x)
      BY <2>2, <3>1, Zenon DEF Polls
    <3> QED BY <3>2, ChainFacts
  <2>4. Good(k, y, r, off, del, br)
    BY <2>2, <2>3, SameGood
  <2> QED BY <2>2, <2>4 DEF y
<1> QED BY <1>1, <1>2 DEF Heartbeat

(* A handler leaves the strand; writes and events are handled further down.     *)
Ready(k, x, h, r, br) ==
  /\ h.op \in {"batch", "poll"} =>
       k = "feed" /\ Chain(x) = 0 /\ x.headerDone /\ ~Over(x)
  /\ h.op = "begin" =>
       /\ Cnt(x.strand, "begin") + InFlight(x) = 0 /\ ~x.headerDone
       /\ r \notin {"start", "reserved", "refused", "released"}
  /\ h.op = "finish" =>
       /\ IF k = "run" THEN r = "done" ELSE Chain(x) = 0 /\ x.headerDone
       /\ \A g \in Waiting(x.strand) : Val(g) = KeepAlive
  /\ Closes(h) => br \/ ~x.open

LEMMA TakenGood ==
  ASSUME NEW k \in {"run", "feed"}, NEW x \in Shape, NEW y \in Shape, NEW h,
         NEW r \in Routes, NEW off \in Nat, NEW del, NEW br,
         Good(k, x, r, off, del, br), x.strand # <<>>, h = Head(x.strand),
         y.strand = Tail(x.strand), y.open = x.open,
         y.finished = x.finished, y.socket = x.socket, y.headerDone = x.headerDone,
         y.writing = x.writing, y.queue = x.queue, y.writes = x.writes,
         y.tasks = x.tasks, y.sourcing = x.sourcing, y.batch = x.batch, y.timers = x.timers,
         h.op # "written", h.op = "push" => ~x.open
  PROVE  Good(k, y, r, off, del, br) /\ Ready(k, y, h, r, br)
<1>1. /\ y.strand = Tail(x.strand) /\ y.open = x.open
      /\ y.finished = x.finished /\ y.socket = x.socket /\ y.headerDone = x.headerDone
      /\ y.writing = x.writing /\ y.queue = x.queue /\ y.writes = x.writes
      /\ y.tasks = x.tasks /\ y.sourcing = x.sourcing /\ y.batch = x.batch
      /\ y.timers = x.timers
  OBVIOUS
<1>2. /\ h \in HandlerType
      /\ Chain(y) = Chain(x) - Polls(x) + Polls(y)
                    - (IF h.op \in {"batch", "poll"} THEN 1 ELSE 0)
      /\ Waiting(x.strand) = Waiting(y.strand) \cup {h}
      /\ Vals(y.strand) = Tail(Vals(x.strand))
      /\ Vals(x.strand) # <<>> /\ Head(Vals(x.strand)) = Val(h)
      /\ h.op \notin {"begin", "written"} => Kin(x.strand, y.strand)
      /\ \A op : /\ Cnt(x.strand, op) = Cnt(y.strand, op) + (IF h.op = op THEN 1 ELSE 0)
                 /\ Cnt(x.strand, op) \in Nat /\ Cnt(y.strand, op) \in Nat
      /\ Settled(x.strand) =>
           /\ Settled(y.strand)
           /\ h.op = "finish" => \A g \in Waiting(y.strand) : Val(g) = KeepAlive
  <2>1. Took(x, y, h)
    BY TakenFacts
  <2> QED BY <2>1, Zenon DEF Took
<1>3. EndOK(k, x, r, off, del, br) /\ WriteOK(x, r) /\ PollOK(k, x)
  BY DEF Good
<1>4. Polls(y) = Polls(x) /\ Polls(x) \in Nat /\ Chain(x) \in Nat /\ Chain(y) \in Nat
  <2>1. Polls(y) = Polls(x)
    BY <1>1, Zenon DEF Polls
  <2> QED BY <2>1, ChainFacts
<1>5. Chain(y) = Chain(x) - (IF h.op \in {"batch", "poll"} THEN 1 ELSE 0)
  BY <1>2, <1>4
<1>6. Chain(y) <= Chain(x) /\ (Chain(x) = 0 => Chain(y) = 0)
  BY <1>4, <1>5
<1>7. Over(y) => Over(x)
  BY <1>1, <1>2 DEF Over
<1>8. PollOK(k, y)
  BY <1>1, <1>3, <1>4, <1>6 DEF PollOK
<1>9. InFlight(y) = InFlight(x) /\ InFlight(x) \in Nat
      /\ Cnt(x.strand, "begin") = Cnt(y.strand, "begin") + (IF h.op = "begin" THEN 1 ELSE 0)
      /\ Cnt(y.strand, "begin") \in Nat
  <2>1. Cnt(x.strand, "written") = Cnt(y.strand, "written") /\ Cnt(x.strand, "written") \in Nat
    BY <1>2
  <2>2. Len(x.writes) \in Nat
    BY DEF Shape
  <2>3. Cnt(x.strand, "begin") = Cnt(y.strand, "begin") + (IF h.op = "begin" THEN 1 ELSE 0)
        /\ Cnt(y.strand, "begin") \in Nat
    BY <1>2, Zenon
  <2> QED BY <1>1, <2>1, <2>2, <2>3 DEF InFlight
<1>10. WriteOK(y, r)
  <2>1. \A f : Writes(y, f) = Writes(x, f)
    BY <1>1, Zenon DEF Writes
  <2>2. \A g \in Waiting(y.strand) : g.op = "written" => Writes(y, g.frame)
    BY <1>2, <1>3, <2>1, Zenon DEF WriteOK
  <2>3. \A i \in 1..Len(y.writes) : Writes(y, y.writes[i])
    BY <1>1, <1>3, <2>1, Zenon DEF WriteOK
  <2>4. /\ Cnt(y.strand, "begin") + InFlight(y) <= 1
        /\ r \in {"start", "reserved", "refused", "released"} =>
             Cnt(y.strand, "begin") + InFlight(y) = 0 /\ ~y.headerDone
    BY <1>1, <1>3, <1>9 DEF WriteOK
  <2>5. y.headerDone => /\ Cnt(y.strand, "begin") = 0
                        /\ InFlight(y) = IF y.writing THEN 1 ELSE 0
    BY <1>1, <1>3, <1>9 DEF WriteOK
  <2>6. y.writing => y.headerDone
    BY <1>1, <1>3, Zenon DEF WriteOK
  <2> QED BY <2>2, <2>3, <2>4, <2>5, <2>6 DEF WriteOK
<1>11. OrderOK(y, r, off, del)
  <2>1. Acked(y) <=> Acked(x)
    <3>1. Waiting(x.strand) = Waiting(y.strand) \cup {h}
      BY <1>2
    <3> QED BY <3>1 DEF Acked
  <2>2. Rest(y) = Rest(x)
    BY <1>1, <2>1, Zenon DEF Rest
  <2>3. PICK a, b \in 0..MaxFrames : Flow(x, r, off, del, a, b)
    BY DEF Good, OrderOK
  <2>4. y.open => Run(Vals(y.strand), b, Sent(r, off))
    <3>1. SUFFICES ASSUME x.open PROVE Run(Vals(y.strand), b, Sent(r, off))
      BY <1>1
    <3>2. Val(h) = KeepAlive
      BY <3>1 DEF Val
    <3>3. Run(Vals(x.strand), b, Sent(r, off))
      BY <2>3, <3>1 DEF Flow
    <3>4. Vals(x.strand) \in Seq(Int)
      BY ValsType DEF Shape
    <3>5. Sent(r, off) \in Nat /\ b \in Nat
      BY <1>3, StreamAssumption DEF EndOK, Sent
    <3> QED BY <1>2, <3>2, <3>3, <3>4, <3>5, RunShrinks
  <2>5. Flow(y, r, off, del, a, b)
    BY <1>1, <2>2, <2>3, <2>4, Zenon DEF Flow
  <2> QED BY <2>5 DEF OrderOK
<1>12. EndOK(k, y, r, off, del, br)
  <2>1. Over(y) => IF k = "run" THEN r = "done" ELSE Chain(y) = 0 /\ y.headerDone
    BY <1>1, <1>3, <1>6, <1>7, Zenon DEF EndOK
  <2>2. Settled(y.strand)
    BY <1>2, <1>3 DEF EndOK
  <2>3. /\ y.finished => \A g \in Waiting(y.strand) : Val(g) = KeepAlive
        /\ \A g \in Waiting(y.strand) : Closes(g) => br \/ ~y.open
    BY <1>1, <1>2, <1>3 DEF EndOK
  <2> QED BY <1>1, <1>3, <2>1, <2>2, <2>3, Zenon DEF EndOK
<1>13. Good(k, y, r, off, del, br)
  BY <1>8, <1>10, <1>11, <1>12 DEF Good
<1>14. h \in Waiting(x.strand)
  BY <1>2
<1>15. ASSUME h.op \in {"batch", "poll"}
       PROVE  k = "feed" /\ Chain(y) = 0 /\ y.headerDone /\ ~Over(y)
  <2>1. Chain(x) = 1 /\ Chain(y) = 0
    BY <1>3, <1>4, <1>5, <1>15 DEF PollOK
  <2>2. k = "feed" /\ x.headerDone
    BY <1>3, <2>1 DEF PollOK
  <2>3. ~Over(x)
    BY <1>3, <2>1, <2>2 DEF EndOK
  <2> QED BY <1>1, <1>7, <2>1, <2>2, <2>3
<1>16. ASSUME h.op = "begin"
       PROVE  /\ Cnt(y.strand, "begin") + InFlight(y) = 0 /\ ~y.headerDone
              /\ r \notin {"start", "reserved", "refused", "released"}
  BY <1>1, <1>3, <1>9, <1>16 DEF WriteOK
<1>17. ASSUME h.op = "finish"
       PROVE  /\ IF k = "run" THEN r = "done" ELSE Chain(y) = 0 /\ y.headerDone
              /\ \A g \in Waiting(y.strand) : Val(g) = KeepAlive
  <2>1. Over(x)
    BY <1>14, <1>17 DEF Over
  <2> QED BY <1>1, <1>2, <1>3, <1>6, <1>17, <2>1 DEF EndOK
<1>18. Closes(h) => br \/ ~y.open
  BY <1>1, <1>3, <1>14 DEF EndOK
<1> QED BY <1>13, <1>15, <1>16, <1>17, <1>18 DEF Ready

(* The header is on its way.                                                   *)
LEMMA BeginGood ==
  ASSUME NEW k, NEW x \in Shape, NEW r, NEW off, NEW del, NEW br,
         Good(k, x, r, off, del, br),
         Cnt(x.strand, "begin") + InFlight(x) = 0, ~x.headerDone,
         r \notin {"start", "reserved", "refused", "released"}
  PROVE  Begin(x) \in Shape /\ Good(k, Begin(x), r, off, del, br)
<1>1. CASE ~x.open
  BY <1>1, CloseGood, CloseFields DEF Begin
<1>2. CASE x.open
  <2> DEFINE y == [StartWrite(x, Header) EXCEPT !.reading = TRUE]
  <2>1. /\ Cnt(x.strand, "begin") \in Nat /\ Cnt(x.strand, "written") \in Nat
        /\ Len(x.writes) \in Nat
    BY CntFacts DEF Shape
  <2>2. Cnt(x.strand, "begin") = 0 /\ InFlight(x) = 0 /\ Cnt(x.strand, "written") = 0
    BY <2>1 DEF InFlight
  <2>3. /\ x.writes = <<>> /\ ~Acked(x) /\ Rest(x) = x.queue
        /\ \A h \in Waiting(x.strand) : h.op # "written"
    BY <2>2, NoWrite
  <2>4. <<Header>> \in Seq(Wire \cup {Header}) /\ Len(<<Header>>) = 1 /\ <<Header>>[1] = Header
        /\ Append(<<>>, Header) = <<Header>> /\ x.timers \cup {"write"} \in SUBSET Timers
    BY DEF Shape, Timers
  <2>5. y = [x EXCEPT !.timers = @ \cup {"write"}, !.writes = Append(@, Header),
                      !.reading = TRUE]
    BY DEF StartWrite, Shape
  <2> HIDE DEF y
  <2>6. /\ y \in Shape /\ y.open = x.open /\ y.strand = x.strand /\ y.finished = x.finished
        /\ y.headerDone = x.headerDone /\ y.queue = x.queue /\ y.socket = x.socket
        /\ y.timers = x.timers \cup {"write"} /\ y.writing = x.writing
        /\ y.writes = Append(x.writes, Header)
        /\ y.tasks = x.tasks /\ y.sourcing = x.sourcing /\ y.batch = x.batch
    BY <2>3, <2>4, <2>5 DEF Shape
  <2>7. y.writes = <<Header>>
    BY <2>3, <2>4, <2>6
  <2>8. Polls(y) = Polls(x)
    <3>1. "poll" \in y.timers <=> "poll" \in x.timers
      BY <2>6
    <3> QED BY <2>6, <3>1, Zenon DEF Polls
  <2>9. Chain(y) = Chain(x) /\ Chain(x) \in Nat
    <3>1. Chain(y) = Chain(x) - Polls(x) + Polls(y)
      BY <2>6, SameStrand
    <3> QED BY <2>8, <3>1, ChainFacts
  <2>10. PollOK(k, y)
    BY <2>6, <2>9 DEF Good, PollOK
  <2>11. WriteOK(y, r)
    <3>1. Cnt(y.strand, "written") = 0 /\ Cnt(y.strand, "begin") = 0
      BY <2>2, <2>6
    <3>2. InFlight(y) = 1 /\ Cnt(y.strand, "begin") + InFlight(y) <= 1
      BY <2>4, <2>7, <3>1 DEF InFlight
    <3>3. \A i \in 1..Len(y.writes) : Writes(y, y.writes[i])
      <4>1. \A i \in 1..Len(y.writes) : i = 1
        BY <2>4, <2>7
      <4>2. Writes(y, Header)
        BY <2>6 DEF Writes
      <4> QED BY <2>4, <2>7, <4>1, <4>2
    <3>4. \A h \in Waiting(y.strand) : h.op = "written" => Writes(y, h.frame)
      BY <2>3, <2>6
    <3>5. ~y.writing /\ ~y.headerDone
      BY <2>6 DEF Good, WriteOK
    <3> QED BY <3>2, <3>3, <3>4, <3>5 DEF WriteOK
  <2>12. OrderOK(y, r, off, del)
    <3>1. Rest(y) = Rest(x)
      <4>1. ~Acked(y)
        BY <2>3, <2>6 DEF Acked
      <4> QED BY <2>3, <2>6, <4>1 DEF Rest
    <3>2. PICK a, b \in 0..MaxFrames : Flow(x, r, off, del, a, b)
      BY DEF Good, OrderOK
    <3>3. Flow(y, r, off, del, a, b)
      BY <1>2, <2>6, <3>1, <3>2, Zenon DEF Flow
    <3> QED BY <3>3 DEF OrderOK
  <2>13. EndOK(k, y, r, off, del, br)
    <3>1. Chain(y) <= Chain(x)
      BY <2>9
    <3> QED BY <2>6, <3>1, EndKept, Zenon DEF Good
  <2>14. Good(k, y, r, off, del, br)
    BY <2>10, <2>11, <2>12, <2>13 DEF Good
  <2> QED BY <1>2, <2>6, <2>14 DEF Begin, y
<1> QED BY <1>1, <1>2

LEMMA FinishGood ==
  ASSUME NEW k \in {"run", "feed"}, NEW x \in Shape, NEW r \in Routes,
         NEW off \in 0..MaxFrames, NEW del, NEW br,
         Good(k, x, r, off, del, br),
         IF k = "run" THEN r = "done" ELSE Chain(x) = 0 /\ x.headerDone,
         \A g \in Waiting(x.strand) : Val(g) = KeepAlive
  PROVE  Finish(x) \in Shape /\ Good(k, Finish(x), r, off, del, br)
<1> DEFINE y == [x EXCEPT !.finished = TRUE]
<1>1. /\ y \in Shape /\ y.open = x.open /\ y.strand = x.strand /\ y.finished
      /\ y.headerDone = x.headerDone /\ y.queue = x.queue /\ y.socket = x.socket
      /\ y.timers = x.timers /\ y.writing = x.writing /\ y.writes = x.writes
      /\ y.tasks = x.tasks /\ y.sourcing = x.sourcing /\ y.batch = x.batch
  BY DEF Shape
<1> HIDE DEF y
<1>2. Polls(y) = Polls(x)
  BY <1>1, Zenon DEF Polls
<1>3. Chain(y) = Chain(x) /\ Chain(x) \in Nat /\ Kin(x.strand, y.strand)
  <2>1. Chain(y) = Chain(x) - Polls(x) + Polls(y) /\ Kin(x.strand, y.strand)
    BY <1>1, SameStrand
  <2> QED BY <1>2, <2>1, ChainFacts
<1>4. PollOK(k, y)
  BY <1>1, <1>3 DEF Good, PollOK
<1>5. WriteOK(y, r)
  BY <1>1, <1>3, WriteKept, Zenon DEF Good
<1>6. OrderOK(y, r, off, del)
  BY <1>1, <1>3, OrderKept, Zenon DEF Good
<1>7. EndOK(k, y, r, off, del, br)
  BY <1>1, <1>3, Zenon DEF Good, EndOK
<1>8. Good(k, y, r, off, del, br)
  BY <1>4, <1>5, <1>6, <1>7 DEF Good
<1> QED BY <1>1, <1>8, WriteNextGood, WriteNextFields DEF Finish, y

(* A frame moves from the strand to the queue.                                 *)
LEMMA PushGood ==
  ASSUME NEW k \in {"run", "feed"}, NEW x \in Shape, NEW y \in Shape, NEW h,
         NEW r \in Routes, NEW off \in 0..MaxFrames, NEW del, NEW br,
         Good(k, x, r, off, del, br), x.strand # <<>>, h = Head(x.strand),
         h.op = "push", x.open, h.frame \in Wire,
         y.strand = Tail(x.strand), y.queue = Append(x.queue, h.frame), y.open = x.open,
         y.finished = x.finished, y.socket = x.socket, y.headerDone = x.headerDone,
         y.writing = x.writing, y.writes = x.writes, Polls(y) = Polls(x)
  PROVE  Good(k, y, r, off, del, br)
<1>1. Took(x, y, h)
  BY TakenFacts
<1>2. /\ Waiting(x.strand) = Waiting(y.strand) \cup {h}
      /\ Vals(y.strand) = Tail(Vals(x.strand))
      /\ Vals(x.strand) # <<>> /\ Head(Vals(x.strand)) = Val(h)
      /\ Settled(x.strand) => Settled(y.strand)
  BY <1>1 DEF Took
<1>3. Kin(x.strand, y.strand)
  <2>1. h.op \notin {"begin", "written"}
    OBVIOUS
  <2> QED BY <1>1, <2>1, Zenon DEF Took
<1>4. Chain(y) = Chain(x) /\ Chain(x) \in Nat
  <2>1. Chain(y) = Chain(x) - Polls(x) + Polls(y) - 0
    <3>1. (IF h.op \in {"batch", "poll"} THEN 1 ELSE 0) = 0
      OBVIOUS
    <3> QED BY <1>1, <3>1, Zenon DEF Took
  <2>2. Polls(x) \in Nat /\ Chain(x) \in Nat
    BY ChainFacts
  <2> QED BY <2>1, <2>2
<1>5. EndOK(k, x, r, off, del, br) /\ WriteOK(x, r) /\ PollOK(k, x)
  BY DEF Good
<1>6. PollOK(k, y)
  BY <1>4, <1>5 DEF PollOK
<1>7. x.queue \in Seq(Wire) /\ y.queue \in Seq(Wire) /\ Val(h) = h.frame
  BY DEF Shape, Val
<1>8. x.queue # <<>> => Head(y.queue) = Head(x.queue) /\ y.queue # <<>>
                        /\ Tail(y.queue) = Append(Tail(x.queue), h.frame)
  BY <1>7
<1>9. WriteOK(y, r)
  <2>1. \A f : Writes(x, f) => Writes(y, f)
    BY <1>8 DEF Writes
  <2>2. InFlight(y) = InFlight(x) /\ Cnt(y.strand, "begin") = Cnt(x.strand, "begin")
    BY <1>3, Zenon DEF InFlight, Kin
  <2>3. \A i \in 1..Len(y.writes) : Writes(y, y.writes[i])
    BY <1>5, <2>1, Zenon DEF WriteOK
  <2>4. \A g \in Waiting(y.strand) : g.op = "written" => Writes(y, g.frame)
    BY <1>3, <1>5, <2>1, Zenon DEF WriteOK, Kin
  <2> QED BY <1>5, <2>2, <2>3, <2>4, Zenon DEF WriteOK
<1>10. Acked(y) <=> Acked(x)
  BY <1>3, Zenon DEF Acked, Kin
<1>11. Rest(y) = Append(Rest(x), h.frame) /\ Rest(x) \in Seq(Int)
  <2>1. Wire \subseteq Int
    BY StreamAssumption DEF Wire, Frames, KeepAlive
  <2>2. x.queue \in Seq(Int)
    BY <1>7, <2>1, SeqInt
  <2>3. CASE Acked(x)
    <3>1. PICK g \in Waiting(x.strand) : g.op = "written" /\ g.frame # Header
      BY <2>3 DEF Acked
    <3>2. x.queue # <<>>
      BY <1>5, <3>1 DEF WriteOK, Writes
    <3>3. Tail(x.queue) \in Seq(Int)
      BY <2>2, <3>2
    <3> QED BY <1>8, <1>10, <2>3, <3>2, <3>3 DEF Rest
  <2>4. CASE ~Acked(x)
    BY <1>10, <2>2, <2>4 DEF Rest
  <2> QED BY <2>3, <2>4
<1>12. OrderOK(y, r, off, del)
  <2>1. PICK a, b \in 0..MaxFrames : Flow(x, r, off, del, a, b)
    BY DEF Good, OrderOK
  <2>2. Run(del, 0, a) /\ Run(Rest(x), a, b) /\ Run(Vals(x.strand), b, Sent(r, off))
    BY <2>1, Zenon DEF Flow
  <2>3. Vals(x.strand) \in Seq(Int)
    BY ValsType DEF Shape
  <2>4. Sent(r, off) \in Nat /\ Sent(r, off) <= MaxFrames /\ a \in Nat /\ b \in Nat
        /\ MaxFrames \in Nat
    BY <1>5, StreamAssumption DEF EndOK, Sent
  <2>5. h.frame \in Int
    BY StreamAssumption DEF Wire, Frames, KeepAlive
  <2>6. /\ Vals(x.strand) \in Seq(Int) /\ Vals(x.strand) # <<>>
        /\ Head(Vals(x.strand)) = h.frame /\ Vals(y.strand) = Tail(Vals(x.strand))
    BY <1>2, <1>7, <2>3
  <2>7. CASE h.frame = KeepAlive
    <3>1. Run(Rest(y), a, b)
      BY <1>11, <2>2, <2>4, <2>5, <2>7, RunGrows
    <3>2. Run(Vals(y.strand), b, Sent(r, off))
      BY <2>2, <2>4, <2>6, <2>7, RunShrinks
    <3>3. Flow(y, r, off, del, a, b)
      BY <2>2, <3>1, <3>2, Zenon DEF Flow
    <3> QED BY <3>3 DEF OrderOK
  <2>8. CASE h.frame # KeepAlive
    <3>1. /\ h.frame = b + 1 /\ b + 1 <= Sent(r, off)
          /\ Run(Vals(y.strand), b + 1, Sent(r, off))
      BY <2>2, <2>4, <2>6, <2>8, RunShrinks
    <3>2. Run(Rest(y), a, b + 1)
      BY <1>11, <2>2, <2>4, <2>5, <3>1, RunGrows
    <3>3. Flow(y, r, off, del, a, b + 1)
      BY <2>2, <3>1, <3>2, Zenon DEF Flow
    <3>4. b + 1 \in 0..MaxFrames
      BY <2>4, <3>1
    <3> QED BY <3>3, <3>4 DEF OrderOK
  <2> QED BY <2>7, <2>8
<1>13. EndOK(k, y, r, off, del, br)
  <2>1. Over(y) => Over(x)
    BY <1>2 DEF Over
  <2>2. Over(y) => IF k = "run" THEN r = "done" ELSE Chain(y) = 0 /\ y.headerDone
    BY <1>4, <1>5, <2>1, Zenon DEF EndOK
  <2>3. Settled(y.strand)
    BY <1>2, <1>5 DEF EndOK
  <2>4. y.finished => \A g \in Waiting(y.strand) : Val(g) = KeepAlive
    BY <1>2, <1>5 DEF EndOK
  <2>5. ASSUME NEW g \in Waiting(y.strand), Closes(g) PROVE br \/ ~y.open
    BY <1>2, <1>5, <2>5, Zenon DEF EndOK
  <2> QED BY <1>5, <2>2, <2>3, <2>4, <2>5, Zenon DEF EndOK
<1> QED BY <1>6, <1>9, <1>12, <1>13 DEF Good

(* The strand learns that the front of the queue was written, or was not.       *)
LEMMA WrittenGood ==
  ASSUME NEW k \in {"run", "feed"}, NEW x \in Shape, NEW y \in Shape, NEW h,
         NEW r \in Routes, NEW off \in Nat, NEW del, NEW br,
         Good(k, x, r, off, del, br), x.strand # <<>>, h = Head(x.strand),
         h.op = "written", h.frame # Header,
         y.strand = Tail(x.strand), y.queue = Tail(x.queue), ~y.writing,
         y.finished = x.finished, y.headerDone = x.headerDone, y.writes = x.writes,
         Polls(y) <= Polls(x),
         y.open => x.open /\ h.ok,
         y.socket = IF x.socket = "open" /\ ~h.ok THEN "closed" ELSE x.socket,
         ~h.ok => ~y.open, x.open /\ h.ok => y.open
  PROVE  Good(k, y, r, off, del, br)
<1>1. Took(x, y, h)
  BY TakenFacts
<1>2. EndOK(k, x, r, off, del, br) /\ WriteOK(x, r) /\ PollOK(k, x)
  BY DEF Good
<1>3. /\ Waiting(x.strand) = Waiting(y.strand) \cup {h}
      /\ Vals(y.strand) = Tail(Vals(x.strand))
      /\ Vals(x.strand) # <<>> /\ Head(Vals(x.strand)) = Val(h)
      /\ Settled(x.strand) => Settled(y.strand)
  BY <1>1 DEF Took
<1>4. Chain(y) <= Chain(x) /\ Chain(x) \in Nat /\ Chain(y) \in Nat
  <2>1. Chain(y) = Chain(x) - Polls(x) + Polls(y) - 0
    <3>1. (IF h.op \in {"batch", "poll"} THEN 1 ELSE 0) = 0
      OBVIOUS
    <3> QED BY <1>1, <3>1, Zenon DEF Took
  <2>2. Polls(x) \in Nat /\ Polls(y) \in Nat /\ Chain(x) \in Nat /\ Chain(y) \in Nat
    BY ChainFacts
  <2> QED BY <2>1, <2>2
<1>5. h \in Waiting(x.strand)
  BY <1>3
<1>6. x.headerDone /\ x.queue # <<>> /\ h.frame = Head(x.queue)
  BY <1>2, <1>5 DEF WriteOK, Writes
<1>7. /\ Cnt(x.strand, "written") = Cnt(y.strand, "written") + 1
      /\ Cnt(x.strand, "begin") = Cnt(y.strand, "begin")
      /\ Cnt(y.strand, "written") \in Nat /\ Cnt(y.strand, "begin") \in Nat
      /\ Len(x.writes) \in Nat
  <2>1. Cnt(x.strand, "written") = Cnt(y.strand, "written") + (IF h.op = "written" THEN 1 ELSE 0)
        /\ Cnt(y.strand, "written") \in Nat
    BY <1>1, Zenon DEF Took
  <2>2. Cnt(x.strand, "begin") = Cnt(y.strand, "begin") + (IF h.op = "begin" THEN 1 ELSE 0)
        /\ Cnt(y.strand, "begin") \in Nat
    BY <1>1, Zenon DEF Took
  <2>3. Len(x.writes) \in Nat
    BY DEF Shape
  <2> QED BY <2>1, <2>2, <2>3
<1>8. InFlight(y) = 0 /\ Cnt(y.strand, "begin") = 0
  BY <1>2, <1>6, <1>7 DEF WriteOK, InFlight
<1>9. /\ y.writes = <<>> /\ ~Acked(y) /\ Rest(y) = y.queue
      /\ \A g \in Waiting(y.strand) : g.op # "written"
  BY <1>8, NoWrite
<1>10. PollOK(k, y)
  BY <1>2, <1>4, <1>6 DEF PollOK
<1>11. WriteOK(y, r)
  <2>1. r \notin {"start", "reserved", "refused", "released"}
    BY <1>2, <1>6 DEF WriteOK
  <2>2. Len(y.writes) = 0
    BY <1>9
  <2> QED BY <1>6, <1>8, <1>9, <2>1, <2>2 DEF WriteOK
<1>12. OrderOK(y, r, off, del)
  <2>1. PICK a, b \in 0..MaxFrames : Flow(x, r, off, del, a, b)
    BY DEF Good, OrderOK
  <2>2. y.open => Rest(y) = Rest(x)
    <3>1. SUFFICES ASSUME y.open PROVE Rest(x) = Tail(x.queue)
      BY <1>9
    <3>2. Acked(x)
      BY <1>5, <3>1 DEF Acked
    <3> QED BY <3>2 DEF Rest
  <2>3. y.open => Run(Vals(y.strand), b, Sent(r, off))
    <3>1. SUFFICES ASSUME x.open PROVE Run(Vals(y.strand), b, Sent(r, off))
      OBVIOUS
    <3>2. Val(h) = KeepAlive
      BY DEF Val
    <3>3. Run(Vals(x.strand), b, Sent(r, off))
      BY <2>1, <3>1 DEF Flow
    <3>4. Vals(x.strand) \in Seq(Int)
      BY ValsType DEF Shape
    <3>5. Sent(r, off) \in Nat /\ b \in Nat
      BY <1>2, StreamAssumption DEF EndOK, Sent
    <3> QED BY <1>3, <3>2, <3>3, <3>4, <3>5, RunShrinks
  <2>4. Flow(y, r, off, del, a, b)
    BY <1>9, <2>1, <2>2, <2>3, Zenon DEF Flow
  <2> QED BY <2>4 DEF OrderOK
<1>13. EndOK(k, y, r, off, del, br)
  <2>1. Over(y) => Over(x)
    BY <1>3 DEF Over
  <2>2. Over(y) => IF k = "run" THEN r = "done" ELSE Chain(y) = 0 /\ y.headerDone
    <3>1. Chain(x) = 0 => Chain(y) = 0
      BY <1>4
    <3> QED BY <1>2, <1>6, <2>1, <3>1, Zenon DEF EndOK
  <2>3. Settled(y.strand)
    BY <1>2, <1>3 DEF EndOK
  <2>4. y.finished => \A g \in Waiting(y.strand) : Val(g) = KeepAlive
    BY <1>2, <1>3 DEF EndOK
  <2>5. ASSUME NEW g \in Waiting(y.strand), Closes(g) PROVE br \/ ~y.open
    BY <1>2, <1>3, <2>5, Zenon DEF EndOK
  <2>6. ~h.ok => br \/ ~x.open
    BY <1>2, <1>5 DEF EndOK, Closes
  <2>7. ~y.open => br \/ ~x.open
    BY <2>6
  <2>8. x.socket = "closed" => y.socket = "closed"
    OBVIOUS
  <2>9. ~y.open => \/ br
                   \/ r = "released"
                   \/ y.finished /\ y.socket = "closed" /\ Run(del, 0, off)
    BY <1>2, <2>7, <2>8, Zenon DEF EndOK
  <2>10. /\ y.socket = "closed" => ~y.open
         /\ r = "released" => y.socket = "route"
         /\ r \notin {"start", "refused", "released"} => y.socket # "route"
    BY <1>2 DEF EndOK
  <2> QED BY <1>2, <2>2, <2>3, <2>4, <2>5, <2>9, <2>10, Zenon DEF EndOK
<1> QED BY <1>10, <1>11, <1>12, <1>13 DEF Good

(* The strand learns what became of the header.                                *)
AfterHeader(k, x, r) ==
  /\ InFlight(x) = 0 /\ Cnt(x.strand, "begin") = 0 /\ ~x.headerDone /\ Chain(x) = 0
  /\ r \notin {"start", "reserved", "refused", "released"}
  /\ k = "feed" => ~Over(x)

LEMMA HeaderTaken ==
  ASSUME NEW k \in {"run", "feed"}, NEW x \in Shape, NEW y \in Shape, NEW h,
         NEW r \in Routes, NEW off \in Nat, NEW del, NEW br,
         Good(k, x, r, off, del, br), x.strand # <<>>, h = Head(x.strand),
         h.op = "written", h.frame = Header,
         y.strand = Tail(x.strand), y.queue = x.queue, y.writing = x.writing,
         y.finished = x.finished, y.headerDone = x.headerDone, y.writes = x.writes,
         y.open = x.open, y.socket = x.socket, Polls(y) <= Polls(x)
  PROVE  /\ Good(k, y, r, off, del, br)
         /\ AfterHeader(k, y, r)
         /\ ~h.ok => br \/ ~y.open
<1>1. Took(x, y, h)
  BY TakenFacts
<1>2. EndOK(k, x, r, off, del, br) /\ WriteOK(x, r) /\ PollOK(k, x)
  BY DEF Good
<1>3. /\ Waiting(x.strand) = Waiting(y.strand) \cup {h}
      /\ Vals(y.strand) = Tail(Vals(x.strand))
      /\ Vals(x.strand) # <<>> /\ Head(Vals(x.strand)) = Val(h)
      /\ Settled(x.strand) => Settled(y.strand)
  BY <1>1 DEF Took
<1>4. Chain(y) <= Chain(x) /\ Chain(x) \in Nat /\ Chain(y) \in Nat
  <2>1. Chain(y) = Chain(x) - Polls(x) + Polls(y) - 0
    <3>1. (IF h.op \in {"batch", "poll"} THEN 1 ELSE 0) = 0
      OBVIOUS
    <3> QED BY <1>1, <3>1, Zenon DEF Took
  <2>2. Polls(x) \in Nat /\ Polls(y) \in Nat /\ Chain(x) \in Nat /\ Chain(y) \in Nat
    BY ChainFacts
  <2> QED BY <2>1, <2>2
<1>5. h \in Waiting(x.strand)
  BY <1>3
<1>6. ~x.headerDone /\ ~x.writing
  <2>1. x.headerDone => x.queue # <<>> /\ Header = Head(x.queue)
    BY <1>2, <1>5 DEF WriteOK, Writes
  <2>2. Header \notin Wire
    BY StreamAssumption DEF Wire, Frames, KeepAlive, Header
  <2>3. x.queue # <<>> => Head(x.queue) \in Wire
    BY DEF Shape
  <2> QED BY <1>2, <2>1, <2>2, <2>3 DEF WriteOK
<1>7. /\ Cnt(x.strand, "written") = Cnt(y.strand, "written") + 1
      /\ Cnt(x.strand, "begin") = Cnt(y.strand, "begin")
      /\ Cnt(y.strand, "written") \in Nat /\ Cnt(y.strand, "begin") \in Nat
      /\ Len(x.writes) \in Nat
  <2>1. Cnt(x.strand, "written") = Cnt(y.strand, "written") + (IF h.op = "written" THEN 1 ELSE 0)
        /\ Cnt(y.strand, "written") \in Nat
    BY <1>1, Zenon DEF Took
  <2>2. Cnt(x.strand, "begin") = Cnt(y.strand, "begin") + (IF h.op = "begin" THEN 1 ELSE 0)
        /\ Cnt(y.strand, "begin") \in Nat
    BY <1>1, Zenon DEF Took
  <2>3. Len(x.writes) \in Nat
    BY DEF Shape
  <2> QED BY <2>1, <2>2, <2>3
<1>8. /\ InFlight(y) = 0 /\ Cnt(y.strand, "begin") = 0
      /\ r \notin {"start", "reserved", "refused", "released"}
  <2>1. Cnt(x.strand, "begin") + InFlight(x) <= 1
    BY <1>2 DEF WriteOK
  <2>2. r \in {"start", "reserved", "refused", "released"} =>
          Cnt(x.strand, "begin") + InFlight(x) = 0
    BY <1>2 DEF WriteOK
  <2> QED BY <1>7, <2>1, <2>2 DEF InFlight
<1>9. /\ y.writes = <<>> /\ ~Acked(y) /\ Rest(y) = y.queue
      /\ \A g \in Waiting(y.strand) : g.op # "written"
  BY <1>8, NoWrite
<1>10. Chain(y) = 0 /\ PollOK(k, y)
  BY <1>2, <1>4, <1>6 DEF PollOK
<1>11. WriteOK(y, r)
  <2>1. Len(y.writes) = 0
    BY <1>9
  <2> QED BY <1>6, <1>8, <1>9, <2>1 DEF WriteOK
<1>12. OrderOK(y, r, off, del)
  <2>1. PICK a, b \in 0..MaxFrames : Flow(x, r, off, del, a, b)
    BY DEF Good, OrderOK
  <2>2. Rest(y) = Rest(x)
    <3>1. ~Acked(x)
      BY <1>3, <1>9 DEF Acked
    <3> QED BY <1>9, <3>1 DEF Rest
  <2>3. y.open => Run(Vals(y.strand), b, Sent(r, off))
    <3>1. SUFFICES ASSUME x.open PROVE Run(Vals(y.strand), b, Sent(r, off))
      OBVIOUS
    <3>2. Val(h) = KeepAlive
      BY DEF Val
    <3>3. Run(Vals(x.strand), b, Sent(r, off))
      BY <2>1, <3>1 DEF Flow
    <3>4. Vals(x.strand) \in Seq(Int)
      BY ValsType DEF Shape
    <3>5. Sent(r, off) \in Nat /\ b \in Nat
      BY <1>2, StreamAssumption DEF EndOK, Sent
    <3> QED BY <1>3, <3>2, <3>3, <3>4, <3>5, RunShrinks
  <2>4. Flow(y, r, off, del, a, b)
    BY <2>1, <2>2, <2>3, Zenon DEF Flow
  <2> QED BY <2>4 DEF OrderOK
<1>13. Over(y) => Over(x)
  BY <1>3 DEF Over
<1>14. k = "feed" => ~Over(x)
  BY <1>2, <1>6 DEF EndOK
<1>15. EndOK(k, y, r, off, del, br)
  <2>1. Over(y) => IF k = "run" THEN r = "done" ELSE Chain(y) = 0 /\ y.headerDone
    BY <1>2, <1>13, <1>14 DEF EndOK
  <2>2. Settled(y.strand)
    BY <1>2, <1>3 DEF EndOK
  <2>3. y.finished => \A g \in Waiting(y.strand) : Val(g) = KeepAlive
    BY <1>2, <1>3 DEF EndOK
  <2>4. ASSUME NEW g \in Waiting(y.strand), Closes(g) PROVE br \/ ~y.open
    BY <1>2, <1>3, <2>4, Zenon DEF EndOK
  <2> QED BY <1>2, <2>1, <2>2, <2>3, <2>4, Zenon DEF EndOK
<1>16. ~h.ok => br \/ ~y.open
  BY <1>2, <1>5 DEF EndOK, Closes
<1>17. Good(k, y, r, off, del, br)
  BY <1>10, <1>11, <1>12, <1>15 DEF Good
<1>18. AfterHeader(k, y, r)
  BY <1>6, <1>8, <1>10, <1>13, <1>14 DEF AfterHeader
<1> QED BY <1>16, <1>17, <1>18

LEMMA HeaderGood ==
  ASSUME NEW k, NEW x \in Shape, NEW y \in Shape, NEW r, NEW off, NEW del, NEW br,
         Good(k, x, r, off, del, br),
         AfterHeader(k, x, r),
         y.strand = x.strand, y.queue = x.queue, y.writing = x.writing,
         y.finished = x.finished, y.headerDone, y.writes = x.writes,
         y.open = x.open, y.socket = x.socket, Polls(y) = Polls(x)
  PROVE  Good(k, y, r, off, del, br) /\ Chain(y) = 0 /\ (k = "feed" => ~Over(y))
<1> USE DEF AfterHeader
<1>1. Chain(y) = 0 /\ Kin(x.strand, y.strand)
  <2>1. Chain(y) = Chain(x) - Polls(x) + Polls(y) /\ Kin(x.strand, y.strand)
    BY SameStrand
  <2> QED BY <2>1, ChainFacts
<1>2. Over(y) <=> Over(x)
  BY Zenon DEF Over
<1>3. PollOK(k, y)
  BY <1>1 DEF PollOK
<1>4. /\ x.writes = <<>> /\ ~Acked(x) /\ Rest(x) = x.queue
      /\ \A h \in Waiting(x.strand) : h.op # "written"
  BY NoWrite
<1>5. WriteOK(y, r)
  <2>1. InFlight(y) = 0 /\ Cnt(y.strand, "begin") = 0 /\ ~y.writing /\ Len(y.writes) = 0
    BY <1>1, <1>4 DEF InFlight, Kin, Good, WriteOK
  <2>2. \A h \in Waiting(y.strand) : h.op # "written"
    BY <1>4
  <2> QED BY <2>1, <2>2 DEF WriteOK
<1>6. OrderOK(y, r, off, del)
  BY <1>1, OrderKept, Zenon DEF Good
<1>7. EndOK(k, y, r, off, del, br)
  <2>1. EndOK(k, x, r, off, del, br)
    BY DEF Good
  <2> QED BY <1>1, <1>2, <2>1, Zenon DEF EndOK
<1> QED BY <1>1, <1>2, <1>3, <1>5, <1>6, <1>7 DEF Good

(* The socket took the frame it was given, or did not.                         *)
LEMMA WriteEnds ==
  ASSUME NEW k \in {"run", "feed"}, NEW x \in Shape, NEW y \in Shape, NEW h \in HandlerType,
         NEW r \in Routes, NEW off \in 0..MaxFrames, NEW del \in Seq(Wire), NEW end, NEW br,
         Good(k, x, r, off, del, br), x.writes # <<>>,
         h.op = "written", h.frame = Head(x.writes),
         y.strand = Append(x.strand, h), y.writes = Tail(x.writes), y.queue = x.queue,
         y.writing = x.writing, y.finished = x.finished, y.headerDone = x.headerDone,
         y.open = x.open, y.socket = x.socket, Polls(y) = Polls(x),
         IF h.ok THEN x.socket = "open" ELSE br \/ x.socket = "closed",
         end = IF h.ok /\ h.frame # Header THEN Append(del, h.frame) ELSE del
  PROVE  Good(k, y, r, off, end, br)
<1>1. EndOK(k, x, r, off, del, br) /\ WriteOK(x, r) /\ PollOK(k, x)
  BY DEF Good
<1>2. /\ Waiting(y.strand) = Waiting(x.strand) \cup {h}
      /\ Vals(y.strand) = Append(Vals(x.strand), Val(h))
      /\ Settled(x.strand) /\ (Val(h) = KeepAlive
                               \/ \A g \in Waiting(x.strand) : g.op # "finish")
           => Settled(y.strand)
  BY GivenFacts, Zenon
<1>3. Val(h) = KeepAlive
  BY DEF Val
<1>4. Chain(y) = Chain(x) /\ Chain(x) \in Nat
  <2>1. Chain(y) = Chain(x) - Polls(x) + Polls(y)
                   + (IF h.op \in {"batch", "poll"} THEN 1 ELSE 0)
    BY GivenFacts, Zenon
  <2>2. (IF h.op \in {"batch", "poll"} THEN 1 ELSE 0) = 0
    OBVIOUS
  <2>3. Polls(x) \in Nat /\ Chain(x) \in Nat
    BY ChainFacts
  <2> QED BY <2>1, <2>2, <2>3
<1>5. /\ Cnt(y.strand, "written") = Cnt(x.strand, "written") + 1
      /\ Cnt(y.strand, "begin") = Cnt(x.strand, "begin")
      /\ Cnt(x.strand, "written") \in Nat /\ Cnt(x.strand, "begin") \in Nat
  <2>1. x.strand \in Seq(HandlerType)
    BY DEF Shape
  <2>2. /\ Cnt(y.strand, "written") = Cnt(x.strand, "written")
                                      + (IF h.op = "written" THEN 1 ELSE 0)
        /\ Cnt(x.strand, "written") \in Nat
    BY <2>1, CntAppend, CntFacts
  <2>3. /\ Cnt(y.strand, "begin") = Cnt(x.strand, "begin")
                                    + (IF h.op = "begin" THEN 1 ELSE 0)
        /\ Cnt(x.strand, "begin") \in Nat
    BY <2>1, CntAppend, CntFacts
  <2> QED BY <2>2, <2>3
<1>6. /\ Len(x.writes) \in Nat \ {0} /\ Len(y.writes) = Len(x.writes) - 1
      /\ h.frame = x.writes[1] /\ y.writes \in Seq(Wire \cup {Header})
  BY DEF Shape
<1>7. Len(x.writes) = 1 /\ Cnt(x.strand, "written") = 0 /\ Cnt(x.strand, "begin") = 0
  <2> DEFINE l == Len(x.writes)
             c == Cnt(x.strand, "written")
             n == Cnt(x.strand, "begin")
  <2>1. n + (l + c) <= 1
    BY <1>1 DEF WriteOK, InFlight
  <2>2. l \in Nat \ {0} /\ c \in Nat /\ n \in Nat
    BY <1>5, <1>6
  <2> HIDE DEF l, c, n
  <2>3. l = 1 /\ c = 0 /\ n = 0
    BY <2>1, <2>2
  <2> QED BY <2>3 DEF l, c, n
<1>8. InFlight(y) = 1 /\ InFlight(x) = 1 /\ Cnt(y.strand, "begin") = 0 /\ y.writes = <<>>
  <2>1. Len(y.writes) = 0
    <3>1. Len(y.writes) = 1 - 1
      BY <1>6, <1>7, Zenon
    <3> QED BY <3>1
  <2>2. y.writes = <<>>
    <3>1. y.writes \in Seq(Wire \cup {Header})
      BY <1>6
    <3> QED BY <2>1, <3>1, NoneLeft, Zenon
  <2>3. Cnt(y.strand, "written") = 1 /\ Cnt(y.strand, "begin") = 0
    <3>1. Cnt(y.strand, "written") = 0 + 1
      BY <1>5, <1>7, Zenon
    <3> QED BY <1>5, <1>7, <3>1
  <2>4. 0 + 1 = 1 /\ 1 + 0 = 1
    OBVIOUS
  <2>5. InFlight(y) = 0 + 1 /\ InFlight(x) = 1 + 0
    BY <1>7, <2>1, <2>3, Zenon DEF InFlight
  <2> QED BY <2>2, <2>3, <2>4, <2>5, Zenon
<1>9. \A g \in Waiting(x.strand) : g.op # "written"
  BY <1>7, CntFacts DEF Shape
<1>10. Writes(x, h.frame)
  <2>1. 1 \in 1..Len(x.writes)
    BY <1>6
  <2> QED BY <1>1, <1>6, <2>1, Zenon DEF WriteOK
<1>11. Writes(y, h.frame)
  BY <1>10, Zenon DEF Writes
<1>12. PollOK(k, y)
  BY <1>1, <1>4 DEF PollOK
<1>13. WriteOK(y, r)
  <2>1. \A g \in Waiting(y.strand) : g.op = "written" => Writes(y, g.frame)
    BY <1>2, <1>9, <1>11
  <2>2. Len(y.writes) = 0
    BY <1>8
  <2>3. r \notin {"start", "reserved", "refused", "released"}
    BY <1>1, <1>7, <1>8 DEF WriteOK
  <2>4. y.headerDone => y.writing
    BY <1>1, <1>8 DEF WriteOK
  <2>5. y.writing => y.headerDone
    BY <1>1 DEF WriteOK
  <2> QED BY <1>8, <2>1, <2>2, <2>3, <2>4, <2>5 DEF WriteOK
<1>14. ~Acked(x) /\ Rest(x) = x.queue
  <2>1. ~Acked(x)
    BY <1>9 DEF Acked
  <2> QED BY <2>1 DEF Rest
<1>15. PICK a, b \in 0..MaxFrames : Flow(x, r, off, del, a, b)
  BY DEF Good, OrderOK
<1>16. Run(del, 0, a) /\ Run(x.queue, a, b) /\ (x.open => Run(Vals(x.strand), b, Sent(r, off)))
  <2>1. Run(del, 0, a) /\ Run(Rest(x), a, b) /\ (x.open => Run(Vals(x.strand), b, Sent(r, off)))
    BY <1>15, Zenon DEF Flow
  <2> QED BY <1>14, <2>1
<1>17. y.open => Run(Vals(y.strand), b, Sent(r, off))
  <2>1. SUFFICES ASSUME x.open PROVE Run(Vals(y.strand), b, Sent(r, off))
    OBVIOUS
  <2>2. Sent(r, off) \in Nat /\ b \in Nat
    BY <1>1, StreamAssumption DEF EndOK, Sent
  <2>3. x.strand \in Seq(HandlerType) /\ Run(Vals(x.strand), b, Sent(r, off))
    BY <1>16, <2>1 DEF Shape
  <2> QED BY <1>2, <1>3, <2>2, <2>3, BeatKept
<1>18. Wire \subseteq Int
  BY StreamAssumption DEF Wire, Frames, KeepAlive
<1>19. OrderOK(y, r, off, end)
  <2>1. CASE ~h.ok
    <3>1. ~Acked(y)
      BY <1>2, <1>9, <2>1 DEF Acked
    <3>2. Rest(y) = x.queue
      BY <3>1 DEF Rest
    <3>3. Flow(y, r, off, end, a, b)
      BY <1>16, <1>17, <2>1, <3>2 DEF Flow
    <3> QED BY <3>3 DEF OrderOK
  <2>2. CASE h.ok /\ h.frame = Header
    <3>1. ~Acked(y)
      BY <1>2, <1>9, <2>2 DEF Acked
    <3>2. Rest(y) = x.queue
      BY <3>1 DEF Rest
    <3>3. Flow(y, r, off, end, a, b)
      BY <1>16, <1>17, <2>2, <3>2 DEF Flow
    <3> QED BY <3>3 DEF OrderOK
  <2>3. CASE h.ok /\ h.frame # Header
    <3>1. Acked(y)
      BY <1>2, <2>3 DEF Acked
    <3>2. Rest(y) = Tail(x.queue)
      BY <3>1 DEF Rest
    <3>3. x.queue # <<>> /\ h.frame = Head(x.queue)
      BY <1>10, <2>3 DEF Writes
    <3>4. x.queue \in Seq(Int) /\ del \in Seq(Int)
      BY <1>18, SeqInt DEF Shape
    <3>5. a \in Nat /\ b \in Nat /\ b <= MaxFrames /\ 0 \in Nat /\ MaxFrames \in Nat
      BY StreamAssumption
    <3>6. h.frame \in Int
      BY <3>3, <3>4
    <3>7. end = Append(del, h.frame)
      BY <2>3
    <3>8. CASE h.frame = KeepAlive
      <4>1. Run(Tail(x.queue), a, b)
        BY <1>16, <3>3, <3>4, <3>5, <3>8, RunShrinks
      <4>2. Run(end, 0, a)
        BY <1>16, <3>4, <3>5, <3>6, <3>7, <3>8, RunGrows
      <4>3. Flow(y, r, off, end, a, b)
        BY <1>17, <3>2, <4>1, <4>2, Zenon DEF Flow
      <4> QED BY <4>3 DEF OrderOK
    <3>9. CASE h.frame # KeepAlive
      <4>1. h.frame = a + 1 /\ a + 1 <= b /\ Run(Tail(x.queue), a + 1, b)
        BY <1>16, <3>3, <3>4, <3>5, <3>9, RunShrinks
      <4>2. Run(end, 0, a + 1)
        BY <1>16, <3>4, <3>5, <3>6, <3>7, <4>1, RunGrows
      <4>3. Flow(y, r, off, end, a + 1, b)
        BY <1>17, <3>2, <4>1, <4>2, Zenon DEF Flow
      <4>4. a + 1 \in 0..MaxFrames
        BY <3>5, <4>1
      <4> QED BY <4>3, <4>4 DEF OrderOK
    <3> QED BY <3>8, <3>9
  <2> QED BY <2>1, <2>2, <2>3
<1>20. EndOK(k, y, r, off, end, br)
  <2>1. Over(y) => Over(x)
    BY <1>2 DEF Over
  <2>2. Over(y) => IF k = "run" THEN r = "done" ELSE Chain(y) = 0 /\ y.headerDone
    BY <1>1, <1>4, <2>1, Zenon DEF EndOK
  <2>3. Settled(y.strand)
    BY <1>1, <1>2, <1>3 DEF EndOK
  <2>4. y.finished => \A g \in Waiting(y.strand) : Val(g) = KeepAlive
    BY <1>1, <1>2, <1>3 DEF EndOK
  <2>5. Closes(h) => br \/ ~y.open
    BY <1>1 DEF EndOK, Closes
  <2>6. ASSUME NEW g \in Waiting(y.strand), Closes(g) PROVE br \/ ~y.open
    BY <1>1, <1>2, <2>5, <2>6, Zenon DEF EndOK
  <2>7. y.socket = "closed" => end = del
    OBVIOUS
  <2>8. ~y.open => \/ br
                   \/ r = "released"
                   \/ y.finished /\ y.socket = "closed" /\ Run(end, 0, off)
    BY <1>1, <2>7, Zenon DEF EndOK
  <2> QED BY <1>1, <2>2, <2>3, <2>4, <2>6, <2>8, Zenon DEF EndOK
<1> QED BY <1>12, <1>13, <1>19, <1>20 DEF Good

(* The write under way completes.                                               *)
WriteEnded(x, y, h, del, end, br) ==
  /\ x.writes # <<>> /\ h.op = "written" /\ h.frame = Head(x.writes)
  /\ y.strand = Append(x.strand, h) /\ y.writes = Tail(x.writes) /\ y.queue = x.queue
  /\ y.writing = x.writing /\ y.finished = x.finished /\ y.headerDone = x.headerDone
  /\ y.open = x.open /\ y.socket = x.socket /\ Polls(y) = Polls(x)
  /\ IF h.ok THEN x.socket = "open" ELSE br \/ x.socket = "closed"
  /\ end = IF h.ok /\ h.frame # Header THEN Append(del, h.frame) ELSE del

LEMMA WriteEndsGood ==
  ASSUME NEW k \in {"run", "feed"}, NEW x \in Shape, NEW y \in Shape, NEW h \in HandlerType,
         NEW r \in Routes, NEW off \in 0..MaxFrames, NEW del \in Seq(Wire), NEW end, NEW br,
         Good(k, x, r, off, del, br), WriteEnded(x, y, h, del, end, br)
  PROVE  Good(k, y, r, off, end, br)
BY WriteEnds DEF WriteEnded

-----------------------------------------------------------------------------
(* The handlers.  x is the stream when the handler has left the strand.         *)

Then(y, br) == y \in Shape /\ Good(kind, y, route, offered, delivered, br)

LEMMA HandlerFields ==
  ASSUME Type, s.strand # <<>>, NEW x, x = [s EXCEPT !.strand = Tail(@)]
  PROVE  /\ x \in Shape /\ x.strand = Tail(s.strand) /\ x.open = s.open
         /\ x.finished = s.finished /\ x.socket = s.socket /\ x.headerDone = s.headerDone
         /\ x.writing = s.writing /\ x.queue = s.queue /\ x.writes = s.writes
         /\ x.tasks = s.tasks /\ x.sourcing = s.sourcing /\ x.batch = s.batch
         /\ x.timers = s.timers /\ x.pendingBytes = s.pendingBytes /\ x.reading = s.reading
         /\ Polls(x) = Polls(s)
         /\ s \in Shape /\ Head(s.strand) \in HandlerType /\ Head(s.strand) \in Waiting(s.strand)
<1>1. s \in Shape /\ s.strand \in Seq(HandlerType)
  BY DEF Type, Shape
<1>2. Tail(s.strand) \in Seq(HandlerType) /\ Head(s.strand) \in HandlerType
      /\ Waiting(s.strand) = Waiting(Tail(s.strand)) \cup {Head(s.strand)}
  BY <1>1, Taken
<1>3. /\ x \in Shape /\ x.strand = Tail(s.strand) /\ x.open = s.open
      /\ x.finished = s.finished /\ x.socket = s.socket /\ x.headerDone = s.headerDone
      /\ x.writing = s.writing /\ x.queue = s.queue /\ x.writes = s.writes
      /\ x.tasks = s.tasks /\ x.sourcing = s.sourcing /\ x.batch = s.batch
      /\ x.timers = s.timers /\ x.pendingBytes = s.pendingBytes /\ x.reading = s.reading
  BY <1>1, <1>2 DEF Shape
<1>4. Polls(x) = Polls(s)
  BY <1>3, Zenon DEF Polls
<1> QED BY <1>1, <1>2, <1>3, <1>4

(* Timers that went off or were cancelled with a write.                         *)
Rung(x, y, t) ==
  /\ y \in Shape /\ y.strand = x.strand /\ y.open = x.open
  /\ y.finished = x.finished /\ y.socket = x.socket /\ y.headerDone = x.headerDone
  /\ y.writing = x.writing /\ y.queue = x.queue /\ y.writes = x.writes
  /\ y.timers = x.timers \ {t}
  /\ Polls(y) = Polls(x) - (IF t = "poll" /\ t \in x.timers THEN 1 ELSE 0)
  /\ Polls(y) <= Polls(x) /\ Polls(y) \in Nat

LEMMA TimersFields ==
  ASSUME NEW x \in Shape, NEW t \in Timers, NEW y, y = [x EXCEPT !.timers = @ \ {t}]
  PROVE  Rung(x, y, t)
<1>1. x.timers \ {t} \in SUBSET Timers
  BY DEF Shape
<1>2. /\ y \in Shape /\ y.strand = x.strand /\ y.open = x.open
      /\ y.finished = x.finished /\ y.socket = x.socket /\ y.headerDone = x.headerDone
      /\ y.writing = x.writing /\ y.queue = x.queue /\ y.writes = x.writes
      /\ y.timers = x.timers \ {t}
      /\ y.tasks = x.tasks /\ y.sourcing = x.sourcing /\ y.batch = x.batch
  BY <1>1 DEF Shape
<1>3. Polls(y) = Polls(x) - (IF t = "poll" /\ t \in x.timers THEN 1 ELSE 0)
  <2>1. x.tasks \in Nat /\ x.sourcing \in Nat
    BY DEF Shape
  <2>2. ("poll" \in x.timers \ {t}) <=> ("poll" \in x.timers /\ t # "poll")
    OBVIOUS
  <2> DEFINE a == x.tasks + x.sourcing + (IF x.batch # NoBatch THEN 1 ELSE 0)
  <2>3. Polls(x) = a + (IF "poll" \in x.timers THEN 1 ELSE 0)
    BY DEF Polls
  <2>4. Polls(y) = a + (IF "poll" \in x.timers /\ t # "poll" THEN 1 ELSE 0)
    BY <1>2, <2>2, Zenon DEF Polls
  <2>5. a \in Nat
    BY <2>1
  <2> HIDE DEF a
  <2>6. CASE t = "poll"
    BY <2>3, <2>4, <2>5, <2>6
  <2>7. CASE t # "poll"
    <3>1. Polls(y) = Polls(x)
      BY <2>3, <2>4, <2>7, Zenon
    <3> QED BY <2>3, <2>5, <2>7, <3>1
  <2> QED BY <2>6, <2>7
<1>4. Polls(x) \in Nat /\ Polls(y) \in Nat
  BY <1>2, ChainFacts
<1> QED BY <1>2, <1>3, <1>4 DEF Rung

LEMMA HeaderWrittenGood ==
  ASSUME Type, Good(kind, s, route, offered, delivered, broken), s.strand # <<>>,
         NEW h, h = Head(s.strand), h.op = "written", h.frame = Header,
         NEW x, x = [s EXCEPT !.strand = Tail(@)]
  PROVE  Then(HeaderWritten(x, h.ok), broken)
<1> DEFINE y == [x EXCEPT !.timers = @ \ {"write"}]
           z == [y EXCEPT !.headerDone = TRUE]
<1>1. /\ kind \in {"run", "feed"} /\ route \in Routes /\ offered \in 0..MaxFrames
      /\ offered \in Nat
  BY DEF Type
<1>2. /\ x \in Shape /\ x.strand = Tail(s.strand) /\ x.open = s.open
      /\ x.finished = s.finished /\ x.socket = s.socket /\ x.headerDone = s.headerDone
      /\ x.writing = s.writing /\ x.queue = s.queue /\ x.writes = s.writes
      /\ Polls(x) = Polls(s) /\ s \in Shape
  BY HandlerFields
<1>3. /\ y \in Shape /\ y.strand = x.strand /\ y.open = x.open
      /\ y.finished = x.finished /\ y.socket = x.socket /\ y.headerDone = x.headerDone
      /\ y.writing = x.writing /\ y.queue = x.queue /\ y.writes = x.writes
      /\ Polls(y) <= Polls(x)
  <2>1. "write" \in Timers
    BY DEF Timers
  <2>2. y = [x EXCEPT !.timers = @ \ {"write"}]
    OBVIOUS
  <2> HIDE DEF y
  <2>3. Rung(x, y, "write")
    BY <1>2, <2>1, <2>2, TimersFields
  <2> QED BY <2>3 DEF Rung
<1>4. HeaderWritten(x, h.ok) = IF ~h.ok \/ ~y.open THEN Close(y)
                               ELSE Heartbeat(SchedulePoll(WriteNext(z)))
  BY DEF HeaderWritten
<1> HIDE DEF y
<1>5. /\ Good(kind, y, route, offered, delivered, broken)
      /\ AfterHeader(kind, y, route)
      /\ ~h.ok => broken \/ ~y.open
  <2>1. /\ y.strand = Tail(s.strand) /\ y.queue = s.queue /\ y.writing = s.writing
        /\ y.finished = s.finished /\ y.headerDone = s.headerDone /\ y.writes = s.writes
        /\ y.open = s.open /\ y.socket = s.socket /\ Polls(y) <= Polls(s)
    BY <1>2, <1>3
  <2> QED BY <1>1, <1>2, <1>3, <2>1, HeaderTaken
<1>6. CASE ~h.ok \/ ~y.open
  <2>1. Close(y) \in Shape
    BY <1>3, CloseFields
  <2>2. Good(kind, Close(y), route, offered, delivered, broken)
    BY <1>3, <1>5, <1>6, CloseGood
  <2> QED BY <1>4, <1>6, <2>1, <2>2 DEF Then
<1>7. CASE h.ok /\ y.open
  <2>1. /\ z \in Shape /\ z.strand = y.strand /\ z.queue = y.queue /\ z.writing = y.writing
        /\ z.finished = y.finished /\ z.headerDone /\ z.writes = y.writes
        /\ z.open = y.open /\ z.socket = y.socket
        /\ z.tasks = y.tasks /\ z.sourcing = y.sourcing /\ z.batch = y.batch
        /\ z.timers = y.timers
    BY <1>3 DEF Shape
  <2> HIDE DEF z
  <2>2. Polls(z) = Polls(y)
    BY <2>1, Zenon DEF Polls
  <2>3. /\ Good(kind, z, route, offered, delivered, broken) /\ Chain(z) = 0
        /\ kind = "feed" => ~Over(z)
    BY <1>3, <1>5, <2>1, <2>2, HeaderGood
  <2> DEFINE w == WriteNext(z)
  <2>4. /\ w \in Shape /\ Polls(w) <= Polls(z) /\ w.strand = z.strand
        /\ w.finished = z.finished /\ w.headerDone = z.headerDone
    BY <2>1, WriteNextFields
  <2>5. Good(kind, w, route, offered, delivered, broken)
    BY <1>1, <2>1, <2>3, WriteNextGood
  <2> HIDE DEF w
  <2>6. kind = "feed" => Chain(w) = 0 /\ w.headerDone /\ ~Over(w)
    <3>1. Chain(w) = Chain(z) - Polls(z) + Polls(w)
      BY <2>1, <2>4, SameStrand
    <3>2. Chain(w) \in Nat /\ Polls(w) \in Nat /\ Polls(z) \in Nat
      BY <2>1, <2>4, ChainFacts
    <3>3. Over(w) <=> Over(z)
      BY <2>4, Zenon DEF Over
    <3> QED BY <2>1, <2>3, <2>4, <3>1, <3>2, <3>3
  <2>7. /\ SchedulePoll(w) \in Shape
        /\ Good(kind, SchedulePoll(w), route, offered, delivered, broken)
    BY <2>4, <2>5, <2>6, SchedulePollGood
  <2>8. Then(Heartbeat(SchedulePoll(w)), broken)
    BY <2>7, HeartbeatGood DEF Then
  <2>9. HeaderWritten(x, h.ok) = Heartbeat(SchedulePoll(w))
    BY <1>4, <1>7 DEF w
  <2> QED BY <2>8, <2>9
<1> QED BY <1>6, <1>7

LEMMA FrameWrittenGood ==
  ASSUME Type, Good(kind, s, route, offered, delivered, broken), s.strand # <<>>,
         NEW h, h = Head(s.strand), h.op = "written", h.frame # Header,
         NEW x, x = [s EXCEPT !.strand = Tail(@)]
  PROVE  Then(FrameWritten(x, h.frame, h.ok), broken)
<1> DEFINE y == [x EXCEPT !.timers = @ \ {"write"}, !.writing = FALSE,
                          !.pendingBytes = @ - Size(h.frame), !.queue = Tail(@)]
<1>1. /\ kind \in {"run", "feed"} /\ route \in Routes /\ offered \in 0..MaxFrames
      /\ offered \in Nat
  BY DEF Type
<1>2. /\ x \in Shape /\ x.strand = Tail(s.strand) /\ x.open = s.open
      /\ x.finished = s.finished /\ x.socket = s.socket /\ x.headerDone = s.headerDone
      /\ x.writing = s.writing /\ x.queue = s.queue /\ x.writes = s.writes
      /\ x.tasks = s.tasks /\ x.sourcing = s.sourcing /\ x.batch = s.batch
      /\ x.timers = s.timers /\ Polls(x) = Polls(s)
      /\ s \in Shape /\ h \in HandlerType /\ h \in Waiting(s.strand)
  BY HandlerFields
<1>3. x.pendingBytes - Size(h.frame) \in Int
  <2>1. h.frame \in Frames \cup {KeepAlive}
    BY <1>2 DEF HandlerType
  <2>2. Size(h.frame) \in Nat
    BY <2>1, StreamAssumption
  <2>3. x.pendingBytes \in Int
    BY <1>2 DEF Shape
  <2> QED BY <2>2, <2>3
<1>4. x.queue # <<>> /\ Tail(x.queue) \in Seq(Wire)
  <2>1. Writes(s, h.frame)
    BY <1>2 DEF Good, WriteOK
  <2>2. s.queue # <<>>
    BY <2>1 DEF Writes
  <2> QED BY <1>2, <2>2 DEF Shape
<1>5. x.timers \ {"write"} \in SUBSET Timers
  BY <1>2 DEF Shape
<1>6. /\ y \in Shape /\ y.strand = x.strand /\ y.open = x.open
      /\ y.finished = x.finished /\ y.socket = x.socket /\ y.headerDone = x.headerDone
      /\ ~y.writing /\ y.queue = Tail(x.queue) /\ y.writes = x.writes
      /\ y.tasks = x.tasks /\ y.sourcing = x.sourcing /\ y.batch = x.batch
      /\ y.timers = x.timers \ {"write"}
  BY <1>2, <1>3, <1>4, <1>5 DEF Shape
<1>7. FrameWritten(x, h.frame, h.ok) = IF ~h.ok THEN Close(y) ELSE WriteNext(y)
  BY DEF FrameWritten
<1> HIDE DEF y
<1>8. Polls(y) = Polls(s) /\ Polls(y) \in Nat
  <2>1. "poll" \in y.timers <=> "poll" \in s.timers
    BY <1>2, <1>6
  <2>2. y.tasks = s.tasks /\ y.sourcing = s.sourcing /\ y.batch = s.batch
    BY <1>2, <1>6
  <2>3. Polls(y) = Polls(s)
    BY <2>1, <2>2, Zenon DEF Polls
  <2> QED BY <1>6, <2>3, ChainFacts
<1>9. CASE h.ok
  <2>1. Good(kind, y, route, offered, delivered, broken)
    <3>1. Polls(y) <= Polls(s)
      BY <1>8
    <3>2. /\ y.strand = Tail(s.strand) /\ y.queue = Tail(s.queue) /\ ~y.writing
          /\ y.finished = s.finished /\ y.headerDone = s.headerDone /\ y.writes = s.writes
          /\ y.open = s.open /\ y.socket = s.socket
      BY <1>2, <1>6
    <3> QED BY <1>1, <1>2, <1>6, <1>9, <3>1, <3>2, WrittenGood
  <2>2. Good(kind, WriteNext(y), route, offered, delivered, broken)
    BY <1>1, <1>6, <2>1, WriteNextGood
  <2> QED BY <1>6, <1>7, <1>9, <2>2, WriteNextFields DEF Then
<1>10. CASE ~h.ok
  <2> DEFINE z == Close(y)
  <2>1. /\ z \in Shape /\ ~z.open
        /\ z.socket = IF y.socket = "open" THEN "closed" ELSE y.socket
        /\ z.strand = y.strand /\ z.finished = y.finished /\ z.headerDone = y.headerDone
        /\ z.writing = y.writing /\ z.queue = y.queue /\ z.writes = y.writes
        /\ Polls(z) <= Polls(y)
    BY <1>6, CloseFields
  <2> HIDE DEF z
  <2>2. Good(kind, z, route, offered, delivered, broken)
    <3>1. Polls(z) <= Polls(s)
      BY <1>8, <2>1
    <3>2. /\ z.strand = Tail(s.strand) /\ z.queue = Tail(s.queue) /\ ~z.writing
          /\ z.finished = s.finished /\ z.headerDone = s.headerDone /\ z.writes = s.writes
          /\ z.socket = IF s.socket = "open" THEN "closed" ELSE s.socket
      BY <1>2, <1>6, <2>1
    <3> QED BY <1>1, <1>2, <1>10, <2>1, <3>1, <3>2, WrittenGood
  <2> QED BY <1>7, <1>10, <2>1, <2>2 DEF Then, z
<1> QED BY <1>9, <1>10

LEMMA PushHandled ==
  ASSUME Type, Good(kind, s, route, offered, delivered, broken), s.strand # <<>>,
         NEW h, h = Head(s.strand), h.op = "push",
         NEW x, x = [s EXCEPT !.strand = Tail(@)]
  PROVE  Then(Push(x, h.frame), broken)
<1>1. /\ kind \in {"run", "feed"} /\ route \in Routes /\ offered \in 0..MaxFrames
      /\ offered \in Nat
  BY DEF Type
<1>2. /\ x \in Shape /\ x.strand = Tail(s.strand) /\ x.open = s.open
      /\ x.finished = s.finished /\ x.socket = s.socket /\ x.headerDone = s.headerDone
      /\ x.writing = s.writing /\ x.queue = s.queue /\ x.writes = s.writes
      /\ x.tasks = s.tasks /\ x.sourcing = s.sourcing /\ x.batch = s.batch
      /\ x.timers = s.timers /\ Polls(x) = Polls(s)
      /\ s \in Shape /\ h \in HandlerType
  BY HandlerFields
<1>3. h.frame \in Wire
  BY <1>2 DEF HandlerType, Wire
<1>4. CASE ~x.open
  <2> DEFINE y == [x EXCEPT !.pendingBytes = @ - Size(h.frame)]
  <2>1. Good(kind, x, route, offered, delivered, broken)
    BY <1>1, <1>2, <1>4, TakenGood
  <2>2. x.pendingBytes - Size(h.frame) \in Int
    <3>1. Size(h.frame) \in Nat
      BY <1>3, StreamAssumption DEF Wire
    <3> QED BY <1>2, <3>1 DEF Shape
  <2>3. /\ y \in Shape /\ y.strand = x.strand /\ y.open = x.open
        /\ y.finished = x.finished /\ y.socket = x.socket /\ y.headerDone = x.headerDone
        /\ y.writing = x.writing /\ y.queue = x.queue /\ y.writes = x.writes
        /\ y.tasks = x.tasks /\ y.sourcing = x.sourcing /\ y.batch = x.batch
        /\ y.timers = x.timers
    BY <1>2, <2>2 DEF Shape
  <2>4. Push(x, h.frame) = y
    BY <1>4 DEF Push
  <2> HIDE DEF y
  <2>5. Polls(y) <= Polls(x)
    <3>1. Polls(y) = Polls(x)
      BY <2>3, Zenon DEF Polls
    <3> QED BY <1>2, <3>1, ChainFacts
  <2>6. Good(kind, y, route, offered, delivered, broken)
    BY <1>2, <2>1, <2>3, <2>5, SameGood
  <2> QED BY <2>3, <2>4, <2>6 DEF Then
<1>5. CASE x.open
  <2> DEFINE y == [x EXCEPT !.queue = Append(@, h.frame)]
  <2>1. Append(x.queue, h.frame) \in Seq(Wire)
    BY <1>2, <1>3 DEF Shape
  <2>2. /\ y \in Shape /\ y.strand = x.strand /\ y.open = x.open
        /\ y.finished = x.finished /\ y.socket = x.socket /\ y.headerDone = x.headerDone
        /\ y.writing = x.writing /\ y.queue = Append(x.queue, h.frame)
        /\ y.writes = x.writes
        /\ y.tasks = x.tasks /\ y.sourcing = x.sourcing /\ y.batch = x.batch
        /\ y.timers = x.timers
    BY <1>2, <2>1 DEF Shape
  <2>3. Push(x, h.frame) = WriteNext(y)
    BY <1>5 DEF Push
  <2> HIDE DEF y
  <2>4. Polls(y) = Polls(s)
    <3>1. Polls(y) = Polls(x)
      BY <2>2, Zenon DEF Polls
    <3> QED BY <1>2, <3>1
  <2>5. /\ y.strand = Tail(s.strand) /\ y.queue = Append(s.queue, h.frame)
        /\ y.open = s.open /\ s.open
        /\ y.finished = s.finished /\ y.socket = s.socket /\ y.headerDone = s.headerDone
        /\ y.writing = s.writing /\ y.writes = s.writes
    BY <1>2, <1>5, <2>2
  <2>6. Good(kind, y, route, offered, delivered, broken)
    BY <1>1, <1>2, <1>3, <2>2, <2>4, <2>5, PushGood
  <2>7. Good(kind, WriteNext(y), route, offered, delivered, broken)
    BY <1>1, <2>2, <2>6, WriteNextGood
  <2> QED BY <2>2, <2>3, <2>7, WriteNextFields DEF Then
<1> QED BY <1>4, <1>5

LEMMA BatchTaken ==
  ASSUME NEW x \in Shape, NEW b \in Batch \cup {NoBatch}, NEW r, NEW off, NEW del, NEW br,
         Good("feed", x, r, off, del, br), Chain(x) = 0, x.headerDone, ~Over(x)
  PROVE  TakeBatch(x, b) \in Shape /\ Good("feed", TakeBatch(x, b), r, off, del, br)
<1> DEFINE y == TakeBatch(x, b)
<1>1. CASE y = x
  BY <1>1
<1>2. CASE y = [x EXCEPT !.batch = b]
  <2> HIDE DEF y
  <2>1. /\ y \in Shape /\ y.strand = x.strand /\ y.open = x.open
        /\ y.finished = x.finished /\ y.socket = x.socket /\ y.headerDone = x.headerDone
        /\ y.writing = x.writing /\ y.queue = x.queue /\ y.writes = x.writes
        /\ y.tasks = x.tasks /\ y.sourcing = x.sourcing /\ y.timers = x.timers
    BY <1>2 DEF Shape
  <2>2. Chain(y) <= 1
    <3>1. Chain(y) = Chain(x) - Polls(x) + Polls(y)
      BY <2>1, SameStrand
    <3>2. Polls(x) \in Nat /\ Polls(y) \in Nat
      BY <2>1, ChainFacts
    <3>3. x.tasks \in Nat /\ x.sourcing \in Nat
      BY DEF Shape
    <3> DEFINE c == x.tasks + x.sourcing + (IF "poll" \in x.timers THEN 1 ELSE 0)
    <3>4. c \in Nat /\ Polls(x) = c + (IF x.batch # NoBatch THEN 1 ELSE 0)
          /\ Polls(y) = c + (IF y.batch # NoBatch THEN 1 ELSE 0)
      BY <2>1, <3>3 DEF Polls
    <3> HIDE DEF c
    <3> QED BY <3>1, <3>2, <3>4
  <2>3. Good("feed", y, r, off, del, br)
    BY <2>1, <2>2, PolledGood, Zenon
  <2> QED BY <2>1, <2>3 DEF y
<1> QED BY <1>1, <1>2 DEF TakeBatch

LEMMA BeatGood ==
  ASSUME NEW x \in Shape, kind \in {"run", "feed"}, route \in Routes, offered \in Nat,
         broken \in BOOLEAN, Good(kind, x, route, offered, delivered, broken)
  PROVE  Then(Beat(x), broken \/ (x.open /\ ~Beat(x).open))
<1>1. CASE ~x.open
  <2>1. Beat(x) = x /\ (broken \/ (x.open /\ ~Beat(x).open)) = broken
    BY <1>1 DEF Beat
  <2> QED BY <2>1, Zenon DEF Then
<1>2. CASE x.open
  <2> DEFINE y == Enqueue(x, KeepAlive)
             more == broken \/ (x.open /\ ~y.open)
  <2>1. y \in Shape /\ Good(kind, y, route, offered, delivered, more)
    BY EnqueueGood
  <2>2. Beat(x) = Heartbeat(y)
    BY <1>2 DEF Beat
  <2> HIDE DEF y, more
  <2>3. /\ Heartbeat(y) \in Shape /\ Good(kind, Heartbeat(y), route, offered, delivered, more)
        /\ Heartbeat(y).open = y.open
    BY <2>1, HeartbeatGood
  <2>4. (broken \/ (x.open /\ ~Beat(x).open)) = more
    BY <2>2, <2>3, Zenon DEF more
  <2> QED BY <2>2, <2>3, <2>4, Zenon DEF Then
<1> QED BY <1>1, <1>2

LEMMA HandleGood ==
  ASSUME Type, Good(kind, s, route, offered, delivered, broken), s.strand # <<>>,
         NEW h, h = Head(s.strand), NEW x, x = [s EXCEPT !.strand = Tail(@)]
  PROVE  IF h.op = "heartbeat"
         THEN Then(Handle(x, h), broken \/ (x.open /\ ~Handle(x, h).open))
         ELSE Then(Handle(x, h), broken)
<1>1. /\ kind \in {"run", "feed"} /\ route \in Routes /\ offered \in 0..MaxFrames
      /\ offered \in Nat /\ broken \in BOOLEAN
  BY DEF Type
<1>2. /\ x \in Shape /\ x.strand = Tail(s.strand) /\ x.open = s.open
      /\ x.finished = s.finished /\ x.socket = s.socket /\ x.headerDone = s.headerDone
      /\ x.writing = s.writing /\ x.queue = s.queue /\ x.writes = s.writes
      /\ x.tasks = s.tasks /\ x.sourcing = s.sourcing /\ x.batch = s.batch
      /\ x.timers = s.timers
      /\ s \in Shape /\ h \in HandlerType
  BY HandlerFields
<1>3. ASSUME h.op # "written", h.op # "push"
      PROVE  Good(kind, x, route, offered, delivered, broken) /\ Ready(kind, x, h, route, broken)
  BY <1>1, <1>2, <1>3, TakenGood
<1>4. CASE h.op = "begin"
  <2>1. Begin(x) \in Shape /\ Good(kind, Begin(x), route, offered, delivered, broken)
    BY <1>2, <1>3, <1>4, BeginGood DEF Ready
  <2> QED BY <1>4, <2>1 DEF Handle, Then
<1>5. CASE h.op = "written" /\ h.frame = Header
  BY <1>5, HeaderWrittenGood DEF Handle
<1>6. CASE h.op = "written" /\ h.frame # Header
  BY <1>6, FrameWrittenGood DEF Handle
<1>7. CASE h.op = "push"
  BY <1>7, PushHandled DEF Handle
<1>8. CASE h.op = "finish"
  <2>1. Finish(x) \in Shape /\ Good(kind, Finish(x), route, offered, delivered, broken)
    BY <1>1, <1>2, <1>3, <1>8, FinishGood DEF Ready
  <2> QED BY <1>8, <2>1 DEF Handle, Then
<1>9. CASE h.op = "batch"
  <2>1. h.batch \in Batch \cup {NoBatch}
    BY <1>2 DEF HandlerType
  <2>2. kind = "feed" /\ Chain(x) = 0 /\ x.headerDone /\ ~Over(x)
        /\ Good("feed", x, route, offered, delivered, broken)
    BY <1>3, <1>9 DEF Ready
  <2>3. /\ TakeBatch(x, h.batch) \in Shape
        /\ Good("feed", TakeBatch(x, h.batch), route, offered, delivered, broken)
    BY <1>2, <2>1, <2>2, BatchTaken
  <2> QED BY <1>9, <2>2, <2>3 DEF Handle, Then
<1>10. CASE h.op = "poll"
  <2>1. Chain(x) = 0 /\ x.headerDone /\ ~Over(x)
        /\ Good(kind, x, route, offered, delivered, broken)
    BY <1>3, <1>10 DEF Ready
  <2>2. /\ SchedulePoll(x) \in Shape
        /\ Good(kind, SchedulePoll(x), route, offered, delivered, broken)
    BY <1>2, <2>1, SchedulePollGood
  <2> QED BY <1>10, <2>2 DEF Handle, Then
<1>11. CASE h.op = "heartbeat"
  <2>1. Then(Beat(x), broken \/ (x.open /\ ~Beat(x).open))
    BY <1>1, <1>2, <1>3, <1>11, BeatGood
  <2>2. Handle(x, h) = Beat(x)
    BY <1>11 DEF Handle
  <2> QED BY <1>11, <2>1, <2>2
<1>12. CASE h.op \in {"close", "eof", "write"}
  <2>1. Good(kind, x, route, offered, delivered, broken) /\ (broken \/ ~x.open)
    BY <1>3, <1>12 DEF Closes, Ready
  <2>2. Close(x) \in Shape /\ Good(kind, Close(x), route, offered, delivered, broken)
    BY <1>2, <2>1, CloseGood, CloseFields
  <2> QED BY <1>12, <2>2 DEF Handle, Then
<1>13. \/ h.op \in {"begin", "written", "push", "finish", "batch", "poll", "heartbeat"}
       \/ h.op \in {"close", "eof", "write"}
  BY <1>2 DEF HandlerType, Timers
<1> QED BY <1>4, <1>5, <1>6, <1>7, <1>8, <1>9, <1>10, <1>11, <1>12, <1>13

-----------------------------------------------------------------------------
(* The actions.                                                               *)

LEMMA InitInv == Init => IInv
<1> SUFFICES ASSUME Init PROVE IInv
  OBVIOUS
<1>1. /\ kind \in {"run", "feed"} /\ s = NewStream /\ route = "start" /\ client = "reading"
      /\ offered = 0 /\ delivered = <<>> /\ broken = FALSE
  BY StreamAssumption DEF Init
<1>2. s \in Shape
  <2>1. /\ <<>> \in Seq(Wire) /\ <<>> \in Seq(HandlerType)
        /\ <<>> \in Seq(Wire \cup {Header}) /\ {} \in SUBSET Timers
    OBVIOUS
  <2> QED BY <1>1, <2>1 DEF NewStream, Shape
<1>3. Type
  <2>1. <<>> \in Seq(Wire) /\ 0 \in 0..MaxFrames
    BY StreamAssumption
  <2> QED BY <1>1, <1>2, <2>1 DEF Type, Routes
<1>4. /\ s.strand = <<>> /\ s.writes = <<>> /\ s.queue = <<>> /\ s.open /\ ~s.finished
      /\ ~s.headerDone /\ ~s.writing /\ s.socket = "route" /\ s.tasks = 0 /\ s.sourcing = 0
      /\ s.timers = {} /\ s.batch = NoBatch
  BY <1>1 DEF NewStream
<1>5. s.strand \in Seq(HandlerType) /\ Waiting(s.strand) = {} /\ Len(s.strand) = 0
  BY <1>4 DEF Waiting
<1>6. \A op : Cnt(s.strand, op) = 0
  BY <1>5, CntFacts
<1>7. Polls(s) = 0 /\ Chain(s) = 0
  <2>1. Polls(s) = 0
    BY <1>4 DEF Polls
  <2>2. Cnt(s.strand, "batch") = 0 /\ Cnt(s.strand, "poll") = 0
    BY <1>6
  <2> QED BY <2>1, <2>2 DEF Chain
<1>8. PollOK(kind, s)
  BY <1>7 DEF PollOK
<1>9. InFlight(s) = 0 /\ Cnt(s.strand, "begin") = 0
  <2>1. Cnt(s.strand, "written") = 0 /\ Cnt(s.strand, "begin") = 0 /\ Len(s.writes) = 0
    BY <1>4, <1>6
  <2> QED BY <2>1 DEF InFlight
<1>10. WriteOK(s, route)
  BY <1>4, <1>5, <1>9 DEF WriteOK
<1>11. OrderOK(s, route, offered, delivered)
  <2>1. Run(<<>>, 0, 0)
    BY DEF Run
  <2>2. Rest(s) = <<>>
    BY <1>4, <1>5 DEF Rest, Acked
  <2>3. Vals(s.strand) = <<>>
    BY <1>5 DEF Vals
  <2>4. Sent(route, offered) = 0
    BY <1>1 DEF Sent
  <2>5. Flow(s, route, offered, delivered, 0, 0)
    BY <1>1, <2>1, <2>2, <2>3, <2>4 DEF Flow
  <2> QED BY <2>5, StreamAssumption DEF OrderOK
<1>12. EndOK(kind, s, route, offered, delivered, broken)
  BY <1>1, <1>4, <1>5 DEF EndOK, Over, Settled
<1> QED BY <1>1, <1>3, <1>8, <1>10, <1>11, <1>12 DEF IInv, Good

(* The route goes on, the stream's writes and polls do not.                     *)
Aside(x, y) ==
  /\ y.strand = x.strand /\ y.finished = x.finished /\ y.headerDone = x.headerDone
  /\ y.writing = x.writing /\ y.queue = x.queue /\ y.writes = x.writes
  /\ y.tasks = x.tasks /\ y.sourcing = x.sourcing /\ y.batch = x.batch
  /\ y.timers = x.timers /\ (y.open => x.open)

LEMMA RouteGood ==
  ASSUME NEW k, NEW x \in Shape, NEW y \in Shape, NEW r, NEW t, NEW off, NEW end, NEW del,
         NEW br, NEW more,
         Good(k, x, r, off, del, br), Aside(x, y),
         t \in {"start", "reserved", "refused", "released"} =>
           r \in {"start", "reserved", "refused", "released"},
         y.open => Sent(t, end) = Sent(r, off),
         Chain(y) = Chain(x) /\ (Over(y) <=> Over(x)) => EndOK(k, y, t, end, del, more)
  PROVE  Good(k, y, t, end, del, more)
<1> USE DEF Aside
<1>1. Polls(y) = Polls(x)
  BY Zenon DEF Polls
<1>2. Chain(y) = Chain(x) /\ Chain(x) \in Nat /\ Kin(x.strand, y.strand)
  <2>1. Chain(y) = Chain(x) - Polls(x) + Polls(y) /\ Kin(x.strand, y.strand)
    BY SameStrand
  <2> QED BY <1>1, <2>1, ChainFacts
<1>3. PollOK(k, y)
  BY <1>2 DEF Good, PollOK
<1>4. WriteOK(y, t)
  BY <1>2, WriteKept, Zenon DEF Good
<1>5. OrderOK(y, t, end, del)
  BY <1>2, OrderKept, Zenon DEF Good
<1>6. Over(y) <=> Over(x)
  BY Zenon DEF Over
<1> QED BY <1>2, <1>3, <1>4, <1>5, <1>6 DEF Good

(* Before a run is finished its route has not ended, and before the header the   *)
(* stream cannot be over.                                                     *)
LEMMA NotOver ==
  ASSUME NEW k \in {"run", "feed"}, NEW x \in Shape, NEW r, NEW off, NEW del, NEW br,
         Good(k, x, r, off, del, br), r # "done"
  PROVE  ~Over(x) /\ ~x.finished
<1>1. EndOK(k, x, r, off, del, br) /\ WriteOK(x, r)
  BY DEF Good
<1>2. r \in {"start", "reserved", "refused", "released"} => ~x.headerDone
  BY <1>1 DEF WriteOK
<1>3. k = "feed" => ~x.headerDone
  BY <1>1, <1>2 DEF EndOK
<1>4. ~Over(x)
  BY <1>1, <1>3 DEF EndOK
<1> QED BY <1>4 DEF Over

(* What a step of the object must show.                                        *)
Next1 == s' \in Shape /\ Good(kind, s', route', offered', delivered', broken')

LEMMA Facts ==
  ASSUME IInv
  PROVE  /\ kind \in {"run", "feed"} /\ s \in Shape /\ route \in Routes
         /\ broken \in BOOLEAN /\ client \in {"reading", "gone"}
         /\ offered \in 0..MaxFrames /\ offered \in Nat /\ delivered \in Seq(Wire)
         /\ Good(kind, s, route, offered, delivered, broken)
         /\ EndOK(kind, s, route, offered, delivered, broken) /\ WriteOK(s, route)
         /\ client = "gone" => broken
         /\ route # "done" => ~Over(s) /\ ~s.finished
<1>1. /\ kind \in {"run", "feed"} /\ s \in Shape /\ route \in Routes
      /\ broken \in BOOLEAN /\ client \in {"reading", "gone"}
      /\ offered \in 0..MaxFrames /\ offered \in Nat /\ delivered \in Seq(Wire)
      /\ Good(kind, s, route, offered, delivered, broken)
      /\ client = "gone" => broken
  BY DEF IInv, Type
<1>2. EndOK(kind, s, route, offered, delivered, broken) /\ WriteOK(s, route)
  BY <1>1 DEF Good
<1>3. route # "done" => ~Over(s) /\ ~s.finished
  BY <1>1, NotOver
<1> QED BY <1>1, <1>2, <1>3

LEMMA Keeps ==
  ASSUME IInv, Next1, kind' = kind, route' \in Routes, broken' \in BOOLEAN,
         client' \in {"reading", "gone"}, offered' \in 0..MaxFrames,
         delivered' \in Seq(Wire), client' = "gone" => broken'
  PROVE  IInv'
<1>1. kind' \in {"run", "feed"}
  BY Facts
<1>2. Type'
  BY <1>1 DEF Next1, Type
<1>3. Good(kind', s', route', offered', delivered', broken')
  BY DEF Next1
<1> QED BY <1>2, <1>3 DEF IInv

LEMMA ReserveInv == IInv /\ Reserve => IInv'
<1> SUFFICES ASSUME IInv, Reserve PROVE IInv'
  OBVIOUS
<1>1. /\ kind \in {"run", "feed"} /\ s \in Shape /\ route \in Routes
      /\ broken \in BOOLEAN /\ client \in {"reading", "gone"}
      /\ offered \in 0..MaxFrames /\ offered \in Nat /\ delivered \in Seq(Wire)
      /\ Good(kind, s, route, offered, delivered, broken)
      /\ EndOK(kind, s, route, offered, delivered, broken)
      /\ client = "gone" => broken
      /\ route # "done" => ~Over(s) /\ ~s.finished
  BY Facts
<1>2. /\ route = "start" /\ kind' = kind /\ client' = client /\ offered' = offered
      /\ delivered' = delivered /\ broken' = broken
      /\ \/ route' = "reserved" /\ s' = [s EXCEPT !.socket = "open"]
         \/ route' = "refused" /\ s' = s
  BY DEF Reserve
<1>3. /\ s' \in Shape /\ s'.strand = s.strand /\ s'.open = s.open
      /\ s'.finished = s.finished /\ s'.headerDone = s.headerDone
      /\ s'.writing = s.writing /\ s'.queue = s.queue /\ s'.writes = s.writes
      /\ s'.tasks = s.tasks /\ s'.sourcing = s.sourcing /\ s'.batch = s.batch
      /\ s'.timers = s.timers
      /\ \/ route' = "reserved" /\ s'.socket = "open"
         \/ route' = "refused" /\ s'.socket = s.socket
  BY <1>1, <1>2 DEF Shape
<1>4. Sent(route', offered') = Sent(route, offered)
  BY <1>2 DEF Sent
<1>5. ASSUME Over(s') <=> Over(s)
      PROVE  EndOK(kind, s', route', offered', delivered', broken')
  <2>1. ~Over(s') /\ ~s'.finished
    BY <1>1, <1>2, <1>3, <1>5
  <2>2. /\ route' \in {"start", "reserved", "refused", "done"} /\ route' # "released"
        /\ route' \notin {"added", "overflow", "cancel"}
        /\ s'.socket = "closed" => ~s'.open
        /\ route' \notin {"start", "refused", "released"} => s'.socket # "route"
    BY <1>1, <1>2, <1>3 DEF EndOK
  <2>3. ~s'.open => broken'
    BY <1>1, <1>2, <1>3 DEF EndOK
  <2> QED BY <1>1, <1>2, <1>3, <2>1, <2>2, <2>3, Zenon DEF EndOK
<1>6. Good(kind, s', route', offered', delivered', broken')
  <2>1. route' \in {"start", "reserved", "refused", "released"} =>
          route \in {"start", "reserved", "refused", "released"}
    BY <1>2
  <2>2. Aside(s, s')
    BY <1>3 DEF Aside
  <2> QED BY <1>1, <1>2, <1>3, <1>4, <1>5, <2>1, <2>2, RouteGood
<1>7. Next1
  BY <1>3, <1>6 DEF Next1
<1>8. route' \in Routes
  BY <1>2 DEF Routes
<1> QED BY <1>1, <1>2, <1>7, <1>8, Keeps

LEMMA ReleaseInv == IInv /\ Release => IInv'
<1> SUFFICES ASSUME IInv, Release PROVE IInv'
  OBVIOUS
<1>1. /\ kind \in {"run", "feed"} /\ s \in Shape /\ route \in Routes
      /\ broken \in BOOLEAN /\ client \in {"reading", "gone"}
      /\ offered \in 0..MaxFrames /\ offered \in Nat /\ delivered \in Seq(Wire)
      /\ Good(kind, s, route, offered, delivered, broken)
      /\ EndOK(kind, s, route, offered, delivered, broken)
      /\ client = "gone" => broken
      /\ route # "done" => ~Over(s) /\ ~s.finished
  BY Facts
<1>2. /\ route = "reserved" /\ kind = "run" /\ kind' = kind /\ client' = client
      /\ offered' = offered /\ delivered' = delivered /\ broken' = broken
      /\ route' = "released" /\ s' = [s EXCEPT !.open = FALSE, !.socket = "route"]
  BY DEF Release
<1>3. /\ s' \in Shape /\ s'.strand = s.strand /\ ~s'.open
      /\ s'.finished = s.finished /\ s'.headerDone = s.headerDone
      /\ s'.writing = s.writing /\ s'.queue = s.queue /\ s'.writes = s.writes
      /\ s'.tasks = s.tasks /\ s'.sourcing = s.sourcing /\ s'.batch = s.batch
      /\ s'.timers = s.timers /\ s'.socket = "route"
  BY <1>1, <1>2 DEF Shape
<1>4. ASSUME Over(s') <=> Over(s)
      PROVE  EndOK(kind, s', route', offered', delivered', broken')
  <2>1. ~Over(s') /\ ~s'.finished
    BY <1>1, <1>2, <1>3, <1>4
  <2>2. kind # "feed" /\ route' \notin {"added", "overflow", "cancel"} /\ s'.socket # "closed"
        /\ ~(route' \notin {"start", "refused", "released"})
    BY <1>2, <1>3
  <2>3. Settled(s'.strand)
    BY <1>1, <1>3 DEF EndOK
  <2> QED BY <1>2, <1>3, <2>1, <2>2, <2>3, Zenon DEF EndOK
<1>5. Good(kind, s', route', offered', delivered', broken')
  <2>1. route' \in {"start", "reserved", "refused", "released"} =>
          route \in {"start", "reserved", "refused", "released"}
    BY <1>2
  <2>2. Aside(s, s')
    BY <1>3 DEF Aside
  <2> QED BY <1>1, <1>2, <1>3, <1>4, <2>1, <2>2, RouteGood
<1>6. Next1
  BY <1>3, <1>5 DEF Next1
<1>7. route' \in Routes
  BY <1>2 DEF Routes
<1> QED BY <1>1, <1>2, <1>6, <1>7, Keeps

(* y is x with a handler posted to its strand.                                  *)
Added(x, y, h) ==
  /\ y \in Shape /\ y.strand = Append(x.strand, h) /\ y.open = x.open
  /\ y.finished = x.finished /\ y.headerDone = x.headerDone /\ y.writing = x.writing
  /\ y.queue = x.queue /\ y.writes = x.writes /\ y.socket = x.socket
  /\ y.tasks = x.tasks /\ y.sourcing = x.sourcing /\ y.batch = x.batch
  /\ y.timers = x.timers
  /\ Chain(y) = Chain(x) + (IF h.op \in {"batch", "poll"} THEN 1 ELSE 0)
  /\ Chain(x) \in Nat

LEMMA PostFields ==
  ASSUME NEW x \in Shape, NEW h \in HandlerType
  PROVE  Added(x, Post(x, h), h)
<1> DEFINE y == Post(x, h)
<1>1. Append(x.strand, h) \in Seq(HandlerType)
  BY DEF Shape
<1>2. y = [x EXCEPT !.strand = Append(@, h)]
  BY DEF Post
<1> HIDE DEF y
<1>3. /\ y \in Shape /\ y.strand = Append(x.strand, h) /\ y.open = x.open
      /\ y.finished = x.finished /\ y.headerDone = x.headerDone /\ y.writing = x.writing
      /\ y.queue = x.queue /\ y.writes = x.writes /\ y.socket = x.socket
      /\ y.tasks = x.tasks /\ y.sourcing = x.sourcing /\ y.batch = x.batch
      /\ y.timers = x.timers
  BY <1>1, <1>2 DEF Shape
<1>4. Polls(y) = Polls(x)
  BY <1>3, Zenon DEF Polls
<1>5. Chain(y) = Chain(x) - Polls(x) + Polls(y)
                 + (IF h.op \in {"batch", "poll"} THEN 1 ELSE 0)
  BY <1>3, GivenFacts, Zenon
<1>6. Polls(x) \in Nat /\ Chain(x) \in Nat
  BY ChainFacts
<1>7. Chain(y) = Chain(x) + (IF h.op \in {"batch", "poll"} THEN 1 ELSE 0)
  BY <1>4, <1>5, <1>6
<1> QED BY <1>3, <1>6, <1>7, Zenon DEF Added, y

LEMMA ActivateInv == IInv /\ Activate => IInv'
<1> SUFFICES ASSUME IInv, Activate PROVE IInv'
  OBVIOUS
<1>1. /\ kind \in {"run", "feed"} /\ s \in Shape /\ route \in Routes
      /\ broken \in BOOLEAN /\ client \in {"reading", "gone"}
      /\ offered \in 0..MaxFrames /\ offered \in Nat /\ delivered \in Seq(Wire)
      /\ Good(kind, s, route, offered, delivered, broken)
      /\ EndOK(kind, s, route, offered, delivered, broken) /\ WriteOK(s, route)
      /\ client = "gone" => broken
      /\ route # "done" => ~Over(s) /\ ~s.finished
  BY Facts
<1>2. /\ route = "reserved" /\ kind' = kind /\ client' = client
      /\ offered' = offered /\ delivered' = delivered /\ broken' = broken
      /\ route' = IF kind = "run" THEN "sending" ELSE "done"
      /\ s' = Post(s, Plain("begin"))
  BY DEF Activate
<1> DEFINE h == Plain("begin")
<1>3. h \in HandlerType /\ h.op = "begin" /\ Val(h) = KeepAlive
  BY PlainFacts
<1>4. Added(s, s', h)
  BY <1>1, <1>2, <1>3, PostFields
<1> HIDE DEF h
<1>5. /\ s' \in Shape /\ s'.strand = Append(s.strand, h) /\ s'.open = s.open
      /\ s'.finished = s.finished /\ s'.headerDone = s.headerDone /\ s'.writing = s.writing
      /\ s'.queue = s.queue /\ s'.writes = s.writes /\ s'.socket = s.socket
      /\ Chain(s') = Chain(s) /\ Chain(s) \in Nat
  BY <1>3, <1>4 DEF Added
<1>6. /\ Waiting(s'.strand) = Waiting(s.strand) \cup {h}
      /\ Vals(s'.strand) = Append(Vals(s.strand), Val(h))
      /\ Settled(s.strand) /\ (Val(h) = KeepAlive
                               \/ \A g \in Waiting(s.strand) : g.op # "finish")
           => Settled(s'.strand)
  BY <1>1, <1>3, <1>5, GivenFacts, Zenon
<1>7. /\ Cnt(s'.strand, "written") = Cnt(s.strand, "written")
      /\ Cnt(s'.strand, "begin") = Cnt(s.strand, "begin") + 1
      /\ Cnt(s.strand, "begin") \in Nat /\ Cnt(s.strand, "written") \in Nat
  <2>1. s.strand \in Seq(HandlerType)
    BY <1>1 DEF Shape
  <2>2. /\ Cnt(s'.strand, "written") = Cnt(s.strand, "written")
                                       + (IF h.op = "written" THEN 1 ELSE 0)
        /\ Cnt(s.strand, "written") \in Nat
    BY <1>3, <1>5, <2>1, CntAppend, CntFacts
  <2>3. /\ Cnt(s'.strand, "begin") = Cnt(s.strand, "begin")
                                     + (IF h.op = "begin" THEN 1 ELSE 0)
        /\ Cnt(s.strand, "begin") \in Nat
    BY <1>3, <1>5, <2>1, CntAppend, CntFacts
  <2> QED BY <1>3, <2>2, <2>3
<1>8. /\ InFlight(s) = 0 /\ InFlight(s') = 0 /\ Cnt(s'.strand, "begin") = 1
      /\ ~s.headerDone /\ ~s.writing
  <2>1. Cnt(s.strand, "begin") + InFlight(s) = 0 /\ ~s.headerDone /\ ~s.writing
    BY <1>1, <1>2 DEF WriteOK
  <2>2. InFlight(s') = InFlight(s)
    BY <1>5, <1>7, Zenon DEF InFlight
  <2>3. InFlight(s) \in Nat
    <3>1. Len(s.writes) \in Nat
      BY <1>1 DEF Shape
    <3> QED BY <1>7, <3>1 DEF InFlight
  <2> QED BY <1>7, <2>1, <2>2, <2>3
<1>9. PollOK(kind, s')
  BY <1>1, <1>5 DEF Good, PollOK
<1>10. /\ s.writes = <<>> /\ ~Acked(s) /\ Rest(s) = s.queue
       /\ \A g \in Waiting(s.strand) : g.op # "written"
  BY <1>1, <1>8, NoWrite
<1>11. WriteOK(s', route')
  <2>1. \A g \in Waiting(s'.strand) : g.op # "written"
    BY <1>3, <1>6, <1>10
  <2>2. Len(s'.writes) = 0
    BY <1>5, <1>10
  <2>3. route' \notin {"start", "reserved", "refused", "released"}
    BY <1>2
  <2> QED BY <1>5, <1>8, <2>1, <2>2, <2>3 DEF WriteOK
<1>12. OrderOK(s', route', offered', delivered')
  <2>1. PICK a, b \in 0..MaxFrames : Flow(s, route, offered, delivered, a, b)
    BY <1>1 DEF Good, OrderOK
  <2>2. Rest(s') = Rest(s)
    <3>1. ~Acked(s')
      BY <1>3, <1>6, <1>10 DEF Acked
    <3> QED BY <1>5, <1>10, <3>1 DEF Rest
  <2>3. Sent(route', offered') = offered /\ Sent(route, offered) = offered
    BY <1>2 DEF Sent
  <2>4. s'.open => Run(Vals(s'.strand), b, Sent(route', offered'))
    <3>1. SUFFICES ASSUME s.open PROVE Run(Vals(s'.strand), b, offered)
      BY <1>5, <2>3
    <3>2. s.strand \in Seq(HandlerType) /\ Run(Vals(s.strand), b, offered) /\ b \in Nat
      BY <1>1, <2>1, <2>3, <3>1, StreamAssumption DEF Flow, Shape
    <3> QED BY <1>1, <1>3, <1>6, <3>2, BeatKept
  <2>5. Flow(s', route', offered', delivered', a, b)
    BY <1>2, <1>5, <2>1, <2>2, <2>4, Zenon DEF Flow
  <2> QED BY <2>5 DEF OrderOK
<1>13. EndOK(kind, s', route', offered', delivered', broken')
  <2>1. ~Over(s') /\ ~s'.finished
    <3>1. ~Over(s) /\ ~s.finished
      BY <1>1, <1>2
    <3> QED BY <1>3, <1>5, <1>6, <3>1 DEF Over
  <2>2. Settled(s'.strand)
    BY <1>1, <1>3, <1>6 DEF EndOK
  <2>3. ~s'.open => broken'
    BY <1>1, <1>2, <1>5 DEF EndOK
  <2>4. \A g \in Waiting(s'.strand) : Closes(g) => broken' \/ ~s'.open
    <3>1. ~Closes(h)
      <4>1. h.op # "written" /\ h.op \notin {"close", "eof", "write"}
        BY <1>3
      <4> QED BY <4>1 DEF Closes
    <3> QED BY <1>1, <1>2, <1>5, <1>6, <3>1, Zenon DEF EndOK
  <2>5. /\ kind = "feed" => route' = "done"
        /\ route' \in {"sending", "done"}
        /\ s'.socket # "route" /\ (s'.socket = "closed" => ~s'.open)
    BY <1>1, <1>2, <1>5 DEF EndOK
  <2> QED BY <2>1, <2>2, <2>3, <2>4, <2>5 DEF EndOK
<1>14. Next1
  BY <1>5, <1>9, <1>11, <1>12, <1>13 DEF Next1, Good
<1>15. route' \in Routes
  BY <1>2 DEF Routes
<1> QED BY <1>1, <1>2, <1>14, <1>15, Keeps

LEMMA SendAddInv == IInv /\ SendAdd => IInv'
<1> SUFFICES ASSUME IInv, SendAdd PROVE IInv'
  OBVIOUS
<1>1. /\ kind \in {"run", "feed"} /\ s \in Shape /\ route \in Routes
      /\ broken \in BOOLEAN /\ client \in {"reading", "gone"}
      /\ offered \in 0..MaxFrames /\ offered \in Nat /\ delivered \in Seq(Wire)
      /\ Good(kind, s, route, offered, delivered, broken)
      /\ EndOK(kind, s, route, offered, delivered, broken)
      /\ client = "gone" => broken
      /\ route # "done" => ~Over(s) /\ ~s.finished
  BY Facts
<1>2. /\ route = "sending" /\ offered < MaxFrames /\ kind' = kind /\ client' = client
      /\ offered' = offered + 1 /\ delivered' = delivered /\ broken' = broken
      /\ IF ~s.open THEN s' = s /\ route' = route
         ELSE /\ s' = [s EXCEPT !.pendingBytes = @ + Size(offered')]
              /\ route' \in {"overflow", "added"}
  BY DEF SendAdd
<1>3. offered' \in 1..MaxFrames /\ offered' \in Nat /\ Size(offered') \in Nat
  <2>1. offered' \in 1..MaxFrames
    BY <1>1, <1>2, StreamAssumption
  <2>2. offered' \in Frames \cup {KeepAlive}
    BY <2>1 DEF Frames
  <2> QED BY <1>1, <1>2, <2>1, <2>2, StreamAssumption
<1>4. /\ s' \in Shape /\ s'.strand = s.strand /\ s'.open = s.open
      /\ s'.finished = s.finished /\ s'.headerDone = s.headerDone
      /\ s'.writing = s.writing /\ s'.queue = s.queue /\ s'.writes = s.writes
      /\ s'.tasks = s.tasks /\ s'.sourcing = s.sourcing /\ s'.batch = s.batch
      /\ s'.timers = s.timers /\ s'.socket = s.socket
  <2>1. CASE s' = s
    BY <1>1, <2>1
  <2>2. CASE s' = [s EXCEPT !.pendingBytes = @ + Size(offered')]
    <3>1. s.pendingBytes + Size(offered') \in Int
      BY <1>1, <1>3 DEF Shape
    <3> QED BY <1>1, <2>2, <3>1 DEF Shape
  <2> QED BY <1>2, <2>1, <2>2
<1>5. s'.open => Sent(route', offered') = Sent(route, offered)
  BY <1>1, <1>2, <1>4 DEF Sent
<1>6. ASSUME Over(s') <=> Over(s)
      PROVE  EndOK(kind, s', route', offered', delivered', broken')
  <2>1. ~Over(s') /\ ~s'.finished
    BY <1>1, <1>2, <1>4, <1>6
  <2>2. /\ kind # "feed" /\ route' \in {"sending", "overflow", "added"} /\ offered' > 0
        /\ s'.socket # "route" /\ (s'.socket = "closed" => ~s'.open)
    BY <1>1, <1>2, <1>3, <1>4 DEF EndOK
  <2>3. ~s'.open => broken'
    BY <1>1, <1>2, <1>4 DEF EndOK
  <2>4. Settled(s'.strand) /\ \A g \in Waiting(s'.strand) : Closes(g) => broken' \/ ~s'.open
    BY <1>1, <1>2, <1>4 DEF EndOK
  <2> QED BY <2>1, <2>2, <2>3, <2>4 DEF EndOK
<1>7. Good(kind, s', route', offered', delivered', broken')
  <2>1. route' \notin {"start", "reserved", "refused", "released"}
    BY <1>2
  <2>2. Aside(s, s')
    BY <1>4 DEF Aside
  <2> QED BY <1>1, <1>2, <1>4, <1>5, <1>6, <2>1, <2>2, RouteGood
<1>8. Next1
  BY <1>4, <1>7 DEF Next1
<1>9. route' \in Routes /\ offered' \in 0..MaxFrames
  BY <1>2, <1>3 DEF Routes
<1> QED BY <1>1, <1>2, <1>8, <1>9, Keeps

LEMMA SendUndoInv == IInv /\ SendUndo => IInv'
<1> SUFFICES ASSUME IInv, SendUndo PROVE IInv'
  OBVIOUS
<1>1. /\ kind \in {"run", "feed"} /\ s \in Shape /\ route \in Routes
      /\ broken \in BOOLEAN /\ client \in {"reading", "gone"}
      /\ offered \in 0..MaxFrames /\ offered \in Nat /\ delivered \in Seq(Wire)
      /\ Good(kind, s, route, offered, delivered, broken)
      /\ EndOK(kind, s, route, offered, delivered, broken)
      /\ client = "gone" => broken
      /\ route # "done" => ~Over(s) /\ ~s.finished
  BY Facts
<1>2. /\ route = "overflow" /\ kind' = kind /\ client' = client
      /\ offered' = offered /\ delivered' = delivered /\ broken' = broken
      /\ s' = [s EXCEPT !.pendingBytes = @ - Size(offered)] /\ route' = "cancel"
  BY DEF SendUndo
<1>3. offered > 0
  BY <1>1, <1>2 DEF EndOK
<1>4. Size(offered) \in Nat
  <2>1. offered \in Frames \cup {KeepAlive}
    BY <1>1, <1>3 DEF Frames
  <2> QED BY <2>1, StreamAssumption
<1>5. /\ s' \in Shape /\ s'.strand = s.strand /\ s'.open = s.open
      /\ s'.finished = s.finished /\ s'.headerDone = s.headerDone
      /\ s'.writing = s.writing /\ s'.queue = s.queue /\ s'.writes = s.writes
      /\ s'.tasks = s.tasks /\ s'.sourcing = s.sourcing /\ s'.batch = s.batch
      /\ s'.timers = s.timers /\ s'.socket = s.socket
  <2>1. s.pendingBytes - Size(offered) \in Int
    BY <1>1, <1>4 DEF Shape
  <2> QED BY <1>1, <1>2, <2>1 DEF Shape
<1>6. Sent(route', offered') = Sent(route, offered)
  BY <1>2 DEF Sent
<1>7. ASSUME Over(s') <=> Over(s)
      PROVE  EndOK(kind, s', route', offered', delivered', broken')
  <2>1. ~Over(s') /\ ~s'.finished
    BY <1>1, <1>2, <1>5, <1>7
  <2>2. /\ kind # "feed" /\ s'.socket # "route" /\ (s'.socket = "closed" => ~s'.open)
        /\ (~s'.open => broken')
    BY <1>1, <1>2, <1>5 DEF EndOK
  <2>3. Settled(s'.strand) /\ \A g \in Waiting(s'.strand) : Closes(g) => broken' \/ ~s'.open
    BY <1>1, <1>2, <1>5 DEF EndOK
  <2> QED BY <1>2, <1>3, <2>1, <2>2, <2>3 DEF EndOK
<1>8. Good(kind, s', route', offered', delivered', broken')
  <2>1. route' \notin {"start", "reserved", "refused", "released"}
    BY <1>2
  <2>2. Aside(s, s')
    BY <1>5 DEF Aside
  <2> QED BY <1>1, <1>2, <1>5, <1>6, <1>7, <2>1, <2>2, RouteGood
<1>9. Next1
  BY <1>5, <1>8 DEF Next1
<1>10. route' \in Routes
  BY <1>2 DEF Routes
<1> QED BY <1>1, <1>2, <1>9, <1>10, Keeps

(* A handler that carries no event is posted, whatever else the step did to the  *)
(* polls and the timers.                                                      *)
Quietly(k, x, y, h, r, t, off, br, more) ==
  /\ y.strand = Append(x.strand, h) /\ y.finished = x.finished
  /\ y.headerDone = x.headerDone /\ y.writing = x.writing /\ y.queue = x.queue
  /\ y.writes = x.writes /\ y.socket = x.socket /\ (y.open => x.open)
  /\ h.op \notin {"begin", "written"} /\ Val(h) = KeepAlive
  /\ br => more
  /\ x.open /\ ~y.open => more
  /\ Closes(h) => more \/ ~y.open
  /\ Chain(y) <= Chain(x)
  /\ h.op = "finish" => IF k = "run" THEN t = "done" ELSE Chain(y) = 0 /\ y.headerDone
  /\ r # t => r \in {"sending", "cancel", "added"} /\ t \in {"sending", "done"}
  /\ y.open => Sent(t, off) = Sent(r, off)

LEMMA QuietGood ==
  ASSUME NEW k \in {"run", "feed"}, NEW x \in Shape, NEW y \in Shape, NEW h \in HandlerType,
         NEW r \in Routes, NEW t \in Routes, NEW off \in Nat, NEW del, NEW br, NEW more,
         Good(k, x, r, off, del, br), Quietly(k, x, y, h, r, t, off, br, more)
  PROVE  Good(k, y, t, off, del, more)
<1>1. Vals(y.strand) = Append(Vals(x.strand), Val(h))
  BY GivenFacts, Zenon DEF Quietly
<1>2. Sent(r, off) \in Nat
  BY DEF Good, EndOK, Sent
<1>3. ASSUME y.open, NEW b \in 0..MaxFrames, Run(Vals(x.strand), b, Sent(r, off))
      PROVE  Run(Vals(y.strand), b, Sent(t, off))
  <2>1. Sent(t, off) = Sent(r, off) /\ Val(h) = KeepAlive
    BY <1>3 DEF Quietly
  <2>2. x.strand \in Seq(HandlerType) /\ b \in Nat
    BY StreamAssumption DEF Shape
  <2>3. Run(Vals(y.strand), b, Sent(r, off))
    BY <1>1, <1>2, <1>3, <2>1, <2>2, BeatKept
  <2> QED BY <2>1, <2>3
<1>4. Posts(k, x, y, h, r, t, off, off, br, more)
  <2>1. off <= off
    OBVIOUS
  <2> QED BY <1>3, <2>1, Zenon DEF Posts, Quietly
<1> QED BY <1>4, PostGood, Zenon

LEMMA SendPostInv == IInv /\ SendPost => IInv'
<1> SUFFICES ASSUME IInv, SendPost PROVE IInv'
  OBVIOUS
<1>1. /\ kind \in {"run", "feed"} /\ s \in Shape /\ route \in Routes
      /\ broken \in BOOLEAN /\ client \in {"reading", "gone"}
      /\ offered \in 0..MaxFrames /\ offered \in Nat /\ delivered \in Seq(Wire)
      /\ Good(kind, s, route, offered, delivered, broken)
      /\ EndOK(kind, s, route, offered, delivered, broken)
      /\ client = "gone" => broken
      /\ route # "done" => ~Over(s) /\ ~s.finished
  BY Facts
<1> DEFINE h == Handler("push", offered, TRUE, NoBatch)
<1>2. /\ route = "added" /\ kind' = kind /\ client' = client
      /\ offered' = offered /\ delivered' = delivered /\ broken' = broken
      /\ s' = Post(s, h) /\ route' = "sending"
  BY DEF SendPost
<1>3. offered > 0 /\ offered \in Wire
  <2>1. offered > 0
    BY <1>1, <1>2 DEF EndOK
  <2> QED BY <1>1, <2>1 DEF Wire, Frames
<1>4. h \in HandlerType /\ h.op = "push" /\ h.ok /\ h.frame = offered /\ Val(h) = offered
  BY <1>3, PushFacts
<1> HIDE DEF h
<1>5. Added(s, s', h)
  BY <1>1, <1>2, <1>4, PostFields
<1>6. Chain(s') <= Chain(s) /\ s' \in Shape
  BY <1>4, <1>5 DEF Added
<1>7. Vals(s'.strand) = Append(Vals(s.strand), offered)
  <2>1. s'.strand = Append(s.strand, h)
    BY <1>5 DEF Added
  <2>2. Vals(s'.strand) = Append(Vals(s.strand), Val(h))
    BY <1>1, <1>4, <1>6, <2>1, GivenFacts
  <2> QED BY <1>4, <2>2
<1>8. ASSUME NEW b \in 0..MaxFrames, Run(Vals(s.strand), b, Sent(route, offered))
      PROVE  Run(Vals(s'.strand), b, Sent(route', offered))
  <2>1. Sent(route, offered) = offered - 1 /\ Sent(route', offered) = offered
    BY <1>2 DEF Sent
  <2>2. Vals(s.strand) \in Seq(Int) /\ b \in Nat
    BY <1>1, ValsType, StreamAssumption DEF Shape
  <2>3. offered - 1 \in Nat /\ offered = (offered - 1) + 1 /\ offered \in Int
    BY <1>1, <1>3
  <2>4. Run(Vals(s.strand), b, offered - 1)
    BY <1>8, <2>1
  <2>5. Run(Append(Vals(s.strand), offered), b, (offered - 1) + 1)
    BY <2>2, <2>3, <2>4, RunGrows
  <2> QED BY <1>7, <2>1, <2>3, <2>5, Zenon
<1>9. Posts(kind, s, s', h, route, route', offered, offered, broken, broken)
  <2>1. ~Over(s) /\ ~Closes(h) /\ offered <= offered
    <3>1. h.op # "written" /\ h.op \notin {"close", "eof", "write"}
      BY <1>4
    <3> QED BY <1>1, <1>2, <3>1 DEF Closes
  <2>2. route' \in {"sending", "done"} /\ route \in {"sending", "cancel", "added"}
    BY <1>2
  <2>3. h.op \notin {"begin", "written"} /\ h.op # "finish"
    BY <1>4
  <2> QED BY <1>5, <1>6, <1>8, <2>1, <2>2, <2>3, Zenon DEF Posts, Added
<1>10. route' \in Routes
  BY <1>2 DEF Routes
<1>11. Good(kind, s', route', offered, delivered, broken)
  BY <1>1, <1>4, <1>6, <1>9, <1>10, PostGood, Zenon
<1>12. Next1
  BY <1>2, <1>6, <1>11 DEF Next1
<1> QED BY <1>1, <1>2, <1>10, <1>12, Keeps

LEMMA SendCancelInv == IInv /\ SendCancel => IInv'
<1> SUFFICES ASSUME IInv, SendCancel PROVE IInv'
  OBVIOUS
<1>1. /\ kind \in {"run", "feed"} /\ s \in Shape /\ route \in Routes
      /\ broken \in BOOLEAN /\ client \in {"reading", "gone"}
      /\ offered \in 0..MaxFrames /\ offered \in Nat /\ delivered \in Seq(Wire)
      /\ Good(kind, s, route, offered, delivered, broken)
  BY Facts
<1>2. /\ route = "cancel" /\ kind' = kind /\ client' = client
      /\ offered' = offered /\ delivered' = delivered /\ broken' = TRUE
      /\ s' = Cancel(s) /\ route' = "sending"
  BY DEF SendCancel
<1>3. route' \in Routes
  BY <1>2 DEF Routes
<1>4. Cancel(s) \in Shape /\ Good(kind, Cancel(s), route', offered, delivered, TRUE)
  BY <1>1, <1>2, <1>3, CancelGood
<1>5. Next1
  BY <1>2, <1>4 DEF Next1
<1> QED BY <1>1, <1>2, <1>3, <1>5, Keeps

LEMMA PostFinishInv == IInv /\ PostFinish => IInv'
<1> SUFFICES ASSUME IInv, PostFinish PROVE IInv'
  OBVIOUS
<1>1. /\ kind \in {"run", "feed"} /\ s \in Shape /\ route \in Routes
      /\ broken \in BOOLEAN /\ client \in {"reading", "gone"}
      /\ offered \in 0..MaxFrames /\ offered \in Nat /\ delivered \in Seq(Wire)
      /\ Good(kind, s, route, offered, delivered, broken)
      /\ EndOK(kind, s, route, offered, delivered, broken)
      /\ client = "gone" => broken
  BY Facts
<1> DEFINE h == Plain("finish")
<1>2. /\ route = "sending" /\ kind' = kind /\ client' = client
      /\ offered' = offered /\ delivered' = delivered /\ broken' = broken
      /\ s' = Post(s, h) /\ route' = "done"
  BY DEF PostFinish
<1>3. h \in HandlerType /\ h.op = "finish" /\ Val(h) = KeepAlive
  BY PlainFacts
<1> HIDE DEF h
<1>4. Added(s, s', h)
  BY <1>1, <1>2, <1>3, PostFields
<1>5. Chain(s') <= Chain(s) /\ s' \in Shape
  BY <1>3, <1>4 DEF Added
<1>6. kind = "run"
  BY <1>1, <1>2 DEF EndOK
<1>7. route' \in Routes
  BY <1>2 DEF Routes
<1>8. Quietly(kind, s, s', h, route, route', offered, broken, broken)
  <2>1. h.op \notin {"begin", "written"} /\ ~Closes(h)
    <3>1. h.op # "written" /\ h.op # "begin" /\ h.op \notin {"close", "eof", "write"}
      BY <1>3
    <3> QED BY <3>1 DEF Closes
  <2>2. route' \in {"sending", "done"} /\ route \in {"sending", "cancel", "added"}
        /\ Sent(route', offered) = Sent(route, offered)
    BY <1>2 DEF Sent
  <2> QED BY <1>2, <1>3, <1>4, <1>5, <1>6, <2>1, <2>2, Zenon DEF Quietly, Added
<1>9. Good(kind, s', route', offered, delivered, broken)
  BY <1>1, <1>3, <1>5, <1>7, <1>8, QuietGood, Zenon
<1>10. Next1
  BY <1>2, <1>5, <1>9 DEF Next1
<1> QED BY <1>1, <1>2, <1>7, <1>10, Keeps

LEMMA StopInv == IInv /\ Stop => IInv'
<1> SUFFICES ASSUME IInv, Stop PROVE IInv'
  OBVIOUS
<1>1. /\ kind \in {"run", "feed"} /\ s \in Shape /\ route \in Routes
      /\ broken \in BOOLEAN /\ client \in {"reading", "gone"}
      /\ offered \in 0..MaxFrames /\ offered \in Nat /\ delivered \in Seq(Wire)
      /\ Good(kind, s, route, offered, delivered, broken)
  BY Facts
<1>2. /\ kind' = kind /\ client' = client /\ route' = route
      /\ offered' = offered /\ delivered' = delivered /\ broken' = TRUE
      /\ s' = s \/ s' = Cancel(s)
  BY DEF Stop
<1>3. CASE s' = s
  <2>1. Good(kind, s, route, offered, delivered, TRUE)
    BY <1>1, BrokenGood
  <2>2. Next1
    BY <1>1, <1>2, <1>3, <2>1 DEF Next1
  <2> QED BY <1>1, <1>2, <2>2, Keeps
<1>4. CASE s' = Cancel(s)
  <2>1. Cancel(s) \in Shape /\ Good(kind, Cancel(s), route, offered, delivered, TRUE)
    BY <1>1, CancelGood
  <2>2. Next1
    BY <1>2, <1>4, <2>1 DEF Next1
  <2> QED BY <1>1, <1>2, <2>2, Keeps
<1> QED BY <1>2, <1>3, <1>4

LEMMA DisconnectInv == IInv /\ Disconnect => IInv'
<1> SUFFICES ASSUME IInv, Disconnect PROVE IInv'
  OBVIOUS
<1>1. /\ kind \in {"run", "feed"} /\ s \in Shape /\ route \in Routes
      /\ offered \in 0..MaxFrames /\ delivered \in Seq(Wire)
      /\ Good(kind, s, route, offered, delivered, broken)
  BY Facts
<1>2. /\ kind' = kind /\ client' = "gone" /\ route' = route /\ s' = s
      /\ offered' = offered /\ delivered' = delivered /\ broken' = TRUE
  BY DEF Disconnect
<1>3. Good(kind, s, route, offered, delivered, TRUE)
  BY <1>1, BrokenGood
<1>4. Next1
  BY <1>1, <1>2, <1>3 DEF Next1
<1> QED BY <1>1, <1>2, <1>4, Keeps

LEMMA RunHandlerInv == IInv /\ RunHandler => IInv'
<1> SUFFICES ASSUME IInv, RunHandler PROVE IInv'
  OBVIOUS
<1>1. /\ route \in Routes /\ broken \in BOOLEAN /\ client \in {"reading", "gone"}
      /\ offered \in 0..MaxFrames /\ delivered \in Seq(Wire)
      /\ Good(kind, s, route, offered, delivered, broken)
      /\ client = "gone" => broken
  BY Facts
<1> DEFINE h == Head(s.strand)
           x == [s EXCEPT !.strand = Tail(@)]
<1>2. /\ kind' = kind /\ client' = client /\ route' = route /\ s' = Handle(x, h)
      /\ offered' = offered /\ delivered' = delivered
      /\ broken' = (broken \/ (h.op = "heartbeat" /\ x.open /\ ~s'.open))
      /\ s.strand # <<>>
  BY DEF RunHandler
<1>3. Type
  BY DEF IInv
<1>4. IF h.op = "heartbeat"
      THEN Then(Handle(x, h), broken \/ (x.open /\ ~Handle(x, h).open))
      ELSE Then(Handle(x, h), broken)
  BY <1>1, <1>2, <1>3, HandleGood
<1> HIDE DEF h, x
<1>5. CASE h.op = "heartbeat"
  <2>1. broken' = (broken \/ (x.open /\ ~Handle(x, h).open))
    BY <1>2, <1>5
  <2>2. Then(s', broken')
    BY <1>2, <1>4, <1>5, <2>1, Zenon
  <2>3. Next1
    BY <1>2, <2>2, Zenon DEF Next1, Then
  <2>4. broken' \in BOOLEAN /\ (client' = "gone" => broken')
    BY <1>1, <1>2
  <2> QED BY <1>1, <1>2, <2>3, <2>4, Keeps
<1>6. CASE h.op # "heartbeat"
  <2>1. broken' = broken
    BY <1>1, <1>2, <1>6
  <2>2. Next1
    BY <1>2, <1>4, <1>6, <2>1, Zenon DEF Next1, Then
  <2> QED BY <1>1, <1>2, <2>1, <2>2, Keeps
<1> QED BY <1>5, <1>6

(* x is the stream but for bytes, reads, timers, polls and the batch.           *)
Alike(x) ==
  /\ x.strand = s.strand /\ x.open = s.open /\ x.finished = s.finished
  /\ x.socket = s.socket /\ x.headerDone = s.headerDone /\ x.writing = s.writing
  /\ x.queue = s.queue /\ x.writes = s.writes

(* Only the stream changes, and who broke it.                                   *)
Within ==
  /\ kind' = kind /\ client' = client /\ route' = route /\ offered' = offered
  /\ delivered' = delivered /\ broken' \in BOOLEAN /\ (broken => broken')

LEMMA AlikeInv ==
  ASSUME IInv, Within, s' \in Shape, Alike(s'), Polls(s') <= Polls(s)
  PROVE  IInv'
<1>1. /\ s \in Shape /\ route \in Routes /\ client \in {"reading", "gone"}
      /\ offered \in 0..MaxFrames /\ delivered \in Seq(Wire)
      /\ Good(kind, s, route, offered, delivered, broken)
      /\ client = "gone" => broken
  BY Facts
<1>2. Good(kind, s', route, offered, delivered, broken)
  BY <1>1, SameGood DEF Alike
<1>3. Good(kind, s', route, offered, delivered, broken')
  BY <1>2, BrokenGood DEF Within
<1>4. Next1
  BY <1>3, Zenon DEF Next1, Within
<1> QED BY <1>1, <1>4, Keeps DEF Within

LEMMA PostInv ==
  ASSUME IInv, Within, NEW x \in Shape, NEW h \in HandlerType, s' = Post(x, h), Alike(x),
         h.op \notin {"begin", "written"}, Val(h) = KeepAlive,
         Polls(x) + (IF h.op \in {"batch", "poll"} THEN 1 ELSE 0) <= Polls(s),
         Closes(h) => broken' \/ ~s.open,
         h.op = "finish" => kind = "feed" /\ Chain(x) = 0 /\ s.headerDone
  PROVE  IInv'
<1>1. /\ kind \in {"run", "feed"} /\ s \in Shape /\ route \in Routes
      /\ client \in {"reading", "gone"}
      /\ offered \in 0..MaxFrames /\ offered \in Nat /\ delivered \in Seq(Wire)
      /\ Good(kind, s, route, offered, delivered, broken)
      /\ client = "gone" => broken
  BY Facts
<1>2. Added(x, s', h)
  BY PostFields
<1>3. s' \in Shape
  BY <1>2 DEF Added
<1>4. Chain(s') <= Chain(s) /\ (h.op = "finish" => Chain(s') = 0)
  <2>1. Chain(s') = Chain(x) + (IF h.op \in {"batch", "poll"} THEN 1 ELSE 0)
    BY <1>2 DEF Added
  <2>2. x.strand = s.strand
    BY DEF Alike
  <2>3. Chain(x) = Chain(s) - Polls(s) + Polls(x)
    BY <1>1, <2>2, SameStrand
  <2>4. Chain(s) \in Nat /\ Polls(s) \in Nat /\ Chain(x) \in Nat /\ Polls(x) \in Nat
    BY <1>1, ChainFacts
  <2>5. h.op = "finish" => h.op \notin {"batch", "poll"}
    OBVIOUS
  <2> QED BY <2>1, <2>3, <2>4, <2>5
<1>5. Quietly(kind, s, s', h, route, route, offered, broken, broken')
  <2>1. h.op = "finish" => IF kind = "run" THEN route = "done"
                           ELSE Chain(s') = 0 /\ s'.headerDone
    BY <1>2, <1>4 DEF Added, Alike
  <2>2. s'.open = s.open
    BY <1>2 DEF Added, Alike
  <2> QED BY <1>2, <1>4, <2>1, <2>2, Zenon DEF Quietly, Added, Alike, Within
<1>6. Good(kind, s', route, offered, delivered, broken')
  BY <1>1, <1>3, <1>5, QuietGood, Zenon
<1>7. Next1
  BY <1>3, <1>6, Zenon DEF Next1, Within
<1> QED BY <1>1, <1>7, Keeps DEF Within

LEMMA PollStartInv == IInv /\ PollStart => IInv'
<1> SUFFICES ASSUME IInv, PollStart PROVE IInv'
  OBVIOUS
<1>1. s \in Shape /\ broken \in BOOLEAN
  BY Facts
<1> DEFINE n == IF s.open THEN 1 ELSE 0
<1>2. /\ s.tasks > 0 /\ s' = [s EXCEPT !.tasks = @ - 1, !.sourcing = @ + n]
      /\ Within
  BY <1>1 DEF PollStart, Within
<1>3. /\ s.tasks \in Nat /\ s.tasks - 1 \in Nat /\ s.sourcing \in Nat
      /\ n \in {0, 1} /\ s.sourcing + n \in Nat
  BY <1>1, <1>2 DEF Shape
<1> HIDE DEF n
<1>4. /\ s' \in Shape /\ Alike(s') /\ s'.tasks = s.tasks - 1 /\ s'.sourcing = s.sourcing + n
      /\ s'.timers = s.timers /\ s'.batch = s.batch
  BY <1>1, <1>2, <1>3 DEF Shape, Alike
<1>5. Polls(s') <= Polls(s)
  BY <1>3, <1>4 DEF Polls
<1> QED BY <1>2, <1>4, <1>5, AlikeInv

(* The source has returned or thrown.                                           *)
LEMMA SourceEnds ==
  ASSUME s \in Shape, s.sourcing > 0, NEW x, x = [s EXCEPT !.sourcing = @ - 1]
  PROVE  x \in Shape /\ Alike(x) /\ Polls(x) + 1 <= Polls(s) /\ Polls(x) <= Polls(s)
<1>1. s.tasks \in Nat /\ s.sourcing \in Nat /\ s.sourcing - 1 \in Nat
  BY DEF Shape
<1>2. /\ x \in Shape /\ Alike(x) /\ x.tasks = s.tasks /\ x.sourcing = s.sourcing - 1
      /\ x.timers = s.timers /\ x.batch = s.batch
  BY <1>1 DEF Shape, Alike
<1>3. Polls(x) + 1 <= Polls(s) /\ Polls(x) <= Polls(s)
  BY <1>1, <1>2 DEF Polls
<1> QED BY <1>2, <1>3

LEMMA PollResultInv == \A b \in Batch : IInv /\ PollResult(b) => IInv'
<1> SUFFICES ASSUME NEW b \in Batch, IInv, PollResult(b) PROVE IInv'
  OBVIOUS
<1>1. s \in Shape /\ broken \in BOOLEAN
  BY Facts
<1> DEFINE x == [s EXCEPT !.sourcing = @ - 1]
           h == Handler("batch", Header, TRUE, b)
<1>2. s.sourcing > 0 /\ s' = Post(x, h) /\ Within
  BY <1>1 DEF PollResult, Within
<1>3. h \in HandlerType /\ h.op = "batch" /\ Val(h) = KeepAlive
  <2>1. h = [op |-> "batch", frame |-> Header, ok |-> TRUE, batch |-> b]
    BY DEF Handler
  <2>2. b \in Batch \cup {NoBatch} /\ Header \in Frames \cup {KeepAlive, Header}
    OBVIOUS
  <2> HIDE DEF h
  <2>3. h.op = "batch"
    BY <2>1
  <2>4. h \in HandlerType
    BY <2>1, <2>2, <2>3 DEF HandlerType
  <2> QED BY <2>3, <2>4 DEF Val
<1>4. x \in Shape /\ Alike(x) /\ Polls(x) + 1 <= Polls(s)
  BY <1>1, <1>2, SourceEnds
<1> HIDE DEF x, h
<1>5. h.op \notin {"begin", "written"} /\ h.op # "finish" /\ ~Closes(h)
  <2>1. h.op # "written" /\ h.op \notin {"close", "eof", "write"}
    BY <1>3
  <2> QED BY <1>3, <2>1 DEF Closes
<1>6. Polls(x) + (IF h.op \in {"batch", "poll"} THEN 1 ELSE 0) <= Polls(s)
  BY <1>3, <1>4
<1> QED BY <1>2, <1>3, <1>4, <1>5, <1>6, PostInv

LEMMA PollThrowsInv == IInv /\ PollThrows => IInv'
<1> SUFFICES ASSUME IInv, PollThrows PROVE IInv'
  OBVIOUS
<1>1. /\ kind \in {"run", "feed"} /\ s \in Shape /\ route \in Routes
      /\ broken \in BOOLEAN /\ client \in {"reading", "gone"}
      /\ offered \in 0..MaxFrames /\ offered \in Nat /\ delivered \in Seq(Wire)
      /\ Good(kind, s, route, offered, delivered, broken)
  BY Facts
<1> DEFINE x == [s EXCEPT !.sourcing = @ - 1]
<1>2. /\ s.sourcing > 0 /\ s' = Cancel(x) /\ kind' = kind /\ client' = client
      /\ route' = route /\ offered' = offered /\ delivered' = delivered /\ broken' = TRUE
  BY DEF PollThrows
<1>3. x \in Shape /\ Alike(x) /\ Polls(x) <= Polls(s)
  BY <1>1, <1>2, SourceEnds
<1> HIDE DEF x
<1>4. Good(kind, x, route, offered, delivered, broken)
  BY <1>1, <1>3, SameGood DEF Alike
<1>5. Cancel(x) \in Shape /\ Good(kind, Cancel(x), route, offered, delivered, TRUE)
  BY <1>1, <1>3, <1>4, CancelGood
<1>6. Next1
  BY <1>2, <1>5 DEF Next1
<1> QED BY <1>1, <1>2, <1>6, Keeps

LEMMA ReadEndsInv == IInv /\ ReadEnds => IInv'
<1> SUFFICES ASSUME IInv, ReadEnds PROVE IInv'
  OBVIOUS
<1>1. /\ s \in Shape /\ broken \in BOOLEAN /\ (client = "gone" => broken)
      /\ EndOK(kind, s, route, offered, delivered, broken)
  BY Facts
<1> DEFINE x == [s EXCEPT !.reading = FALSE]
           h == Plain("eof")
<1>2. /\ s' = Post(x, h) /\ Within /\ broken' = broken
      /\ s.socket = "closed" \/ client = "gone"
  BY <1>1 DEF ReadEnds, Within
<1>3. h \in HandlerType /\ h.op = "eof" /\ Val(h) = KeepAlive
  BY PlainFacts
<1>4. /\ x \in Shape /\ Alike(x) /\ x.tasks = s.tasks /\ x.sourcing = s.sourcing
      /\ x.timers = s.timers /\ x.batch = s.batch
  BY <1>1 DEF Shape, Alike
<1> HIDE DEF x, h
<1>5. Polls(x) + (IF h.op \in {"batch", "poll"} THEN 1 ELSE 0) <= Polls(s)
  <2>1. Polls(x) = Polls(s)
    BY <1>4, Zenon DEF Polls
  <2>2. Polls(s) \in Nat /\ h.op \notin {"batch", "poll"}
    BY <1>1, <1>3, ChainFacts
  <2> QED BY <2>1, <2>2
<1>6. broken' \/ ~s.open
  BY <1>1, <1>2 DEF EndOK
<1>7. h.op \notin {"begin", "written"} /\ h.op # "finish"
  BY <1>3
<1> QED BY <1>2, <1>3, <1>4, <1>5, <1>6, <1>7, PostInv

LEMMA ExpireInv == \A t \in Timers : IInv /\ Expire(t) => IInv'
<1> SUFFICES ASSUME NEW t \in Timers, IInv, Expire(t) PROVE IInv'
  OBVIOUS
<1>1. s \in Shape /\ broken \in BOOLEAN
  BY Facts
<1> DEFINE x == [s EXCEPT !.timers = @ \ {t}]
           h == Plain(t)
<1>2. /\ s' = Post(x, h) /\ Within /\ broken' = (broken \/ t = "write") /\ t \in s.timers
  BY <1>1 DEF Expire, Within
<1>3. h \in HandlerType /\ h.op = t /\ Val(h) = KeepAlive
  BY PlainFacts
<1>4. Rung(s, x, t)
  BY <1>1, TimersFields
<1> HIDE DEF x, h
<1>5. x \in Shape /\ Alike(x)
  BY <1>4 DEF Rung, Alike
<1>6. t \in {"write", "poll", "heartbeat"}
  BY DEF Timers
<1>7. Polls(x) + (IF h.op \in {"batch", "poll"} THEN 1 ELSE 0) <= Polls(s)
  <2>1. Polls(x) = Polls(s) - (IF t = "poll" THEN 1 ELSE 0)
    BY <1>2, <1>4 DEF Rung
  <2>2. Polls(s) \in Nat
    BY <1>1, ChainFacts
  <2> QED BY <1>3, <1>6, <2>1, <2>2
<1>8. Closes(h) => broken'
  BY <1>2, <1>3, <1>6 DEF Closes
<1>9. h.op \notin {"begin", "written"} /\ h.op # "finish"
  BY <1>3, <1>6
<1> QED BY <1>2, <1>3, <1>5, <1>7, <1>8, <1>9, PostInv

(* While a batch is sent nothing else of the chain of polls is under way.       *)
LEMMA BatchFacts ==
  ASSUME IInv, s.batch # NoBatch
  PROVE  /\ kind = "feed" /\ s.headerDone /\ ~Over(s) /\ s.batch \in Batch
         /\ Sent(route, offered) = offered /\ Chain(s) = 1
<1>1. /\ kind \in {"run", "feed"} /\ s \in Shape
      /\ Good(kind, s, route, offered, delivered, broken)
      /\ EndOK(kind, s, route, offered, delivered, broken)
  BY Facts
<1>2. Polls(s) >= 1
  <2>1. s.tasks \in Nat /\ s.sourcing \in Nat
    BY <1>1 DEF Shape
  <2> QED BY <2>1 DEF Polls
<1>3. Chain(s) = 1
  <2>1. Chain(s) <= 1
    BY <1>1 DEF Good, PollOK
  <2> QED BY <1>1, <1>2, <2>1, ChainFacts
<1>4. kind = "feed" /\ s.headerDone
  BY <1>1, <1>3 DEF Good, PollOK
<1>5. ~Over(s) /\ route \notin {"added", "overflow", "cancel"}
  BY <1>1, <1>3, <1>4 DEF EndOK
<1>6. s.batch \in Batch
  BY <1>1 DEF Shape
<1> QED BY <1>3, <1>4, <1>5, <1>6 DEF Sent

(* The batch is over.                                                           *)
LEMMA BatchLeft ==
  ASSUME s \in Shape, s.batch # NoBatch, NEW x, x = [s EXCEPT !.batch = NoBatch]
  PROVE  /\ x \in Shape /\ Alike(x) /\ x.timers = s.timers /\ x.tasks = s.tasks
         /\ x.sourcing = s.sourcing /\ x.batch = NoBatch
         /\ Polls(x) = Polls(s) - 1 /\ Chain(x) = Chain(s) - 1 /\ Polls(x) \in Nat
<1>1. /\ x \in Shape /\ Alike(x) /\ x.timers = s.timers /\ x.tasks = s.tasks
      /\ x.sourcing = s.sourcing /\ x.batch = NoBatch
  BY DEF Shape, Alike
<1>2. s.tasks \in Nat /\ s.sourcing \in Nat
  BY DEF Shape
<1>3. Polls(x) = Polls(s) - 1
  BY <1>1, <1>2 DEF Polls
<1>4. Chain(x) = Chain(s) - Polls(s) + Polls(x)
  <2>1. x.strand = s.strand
    BY <1>1 DEF Alike
  <2> QED BY <1>1, <2>1, SameStrand
<1> QED BY <1>1, <1>3, <1>4, ChainFacts

LEMMA EndBatchInv == IInv /\ EndBatch => IInv'
<1> SUFFICES ASSUME IInv, EndBatch PROVE IInv'
  OBVIOUS
<1>1. s \in Shape /\ broken \in BOOLEAN
  BY Facts
<1> DEFINE x == [s EXCEPT !.batch = NoBatch]
           h == Plain("finish")
<1>2. /\ s.batch # NoBatch /\ Within
      /\ \/ s' = [x EXCEPT !.timers = @ \cup {"poll"}]
         \/ s' = Post(x, h)
  BY <1>1 DEF EndBatch, Within
<1>3. /\ x \in Shape /\ Alike(x) /\ x.timers = s.timers /\ x.tasks = s.tasks
      /\ x.sourcing = s.sourcing /\ x.batch = NoBatch
      /\ Polls(x) = Polls(s) - 1 /\ Chain(x) = Chain(s) - 1 /\ Polls(x) \in Nat
  BY <1>1, <1>2, BatchLeft
<1>4. kind = "feed" /\ s.headerDone /\ Chain(s) = 1
  BY <1>2, BatchFacts
<1> HIDE DEF x
<1>5. CASE s' = [x EXCEPT !.timers = @ \cup {"poll"}]
  <2>1. x.timers \cup {"poll"} \in SUBSET Timers
    BY <1>3 DEF Shape, Timers
  <2>2. /\ s' \in Shape /\ s'.strand = x.strand /\ s'.open = x.open
        /\ s'.finished = x.finished /\ s'.socket = x.socket /\ s'.headerDone = x.headerDone
        /\ s'.writing = x.writing /\ s'.queue = x.queue /\ s'.writes = x.writes
        /\ s'.timers = x.timers \cup {"poll"} /\ s'.tasks = x.tasks
        /\ s'.sourcing = x.sourcing /\ s'.batch = x.batch
    BY <1>3, <1>5, <2>1 DEF Shape
  <2>3. Alike(s')
    BY <1>3, <2>2 DEF Alike
  <2>4. Polls(s') <= Polls(s)
    <3>1. s.tasks \in Nat /\ s.sourcing \in Nat
      BY <1>1 DEF Shape
    <3> QED BY <1>2, <1>3, <2>2, <3>1 DEF Polls
  <2> QED BY <1>2, <2>2, <2>3, <2>4, AlikeInv
<1>6. CASE s' = Post(x, h)
  <2>1. h \in HandlerType /\ h.op = "finish" /\ Val(h) = KeepAlive
    BY PlainFacts
  <2> HIDE DEF h
  <2>2. h.op \notin {"begin", "written"} /\ ~Closes(h)
    <3>1. h.op # "written" /\ h.op # "begin" /\ h.op \notin {"close", "eof", "write"}
      BY <2>1
    <3> QED BY <3>1 DEF Closes
  <2>3. Polls(x) + (IF h.op \in {"batch", "poll"} THEN 1 ELSE 0) <= Polls(s)
    <3>1. h.op \notin {"batch", "poll"} /\ Polls(s) \in Nat
      BY <1>1, <2>1, ChainFacts
    <3> QED BY <1>3, <3>1
  <2>4. Chain(x) = 0
    BY <1>3, <1>4
  <2> QED BY <1>2, <1>3, <1>4, <1>6, <2>1, <2>2, <2>3, <2>4, PostInv
<1> QED BY <1>2, <1>5, <1>6

(* A closed stream forgets what is sent to it.                                  *)
LEMMA SentToClosed ==
  ASSUME IInv, s.batch # NoBatch, NEW x \in Shape, ~x.open, NEW end, end = offered + 1,
         Good(kind, x, route, offered, delivered, TRUE)
  PROVE  Good(kind, x, route, end, delivered, TRUE)
<1>1. Aside(x, x)
  BY DEF Aside
<1>2. EndOK(kind, x, route, offered, delivered, TRUE)
  BY DEF Good
<1>3. kind = "feed" /\ offered \in Nat
  BY BatchFacts, Facts
<1>4. route \notin {"added", "overflow", "cancel"}
  BY <1>2, <1>3 DEF EndOK
<1>5. EndOK(kind, x, route, end, delivered, TRUE)
  BY <1>2, <1>4, Zenon DEF EndOK
<1> QED BY <1>1, <1>5, RouteGood

(* The next event of a batch is posted.                                         *)
LEMMA BatchPushed ==
  ASSUME IInv, s.batch # NoBatch, s.open, offered < MaxFrames,
         NEW x \in Shape, Alike(x), Polls(x) = Polls(s),
         NEW h \in HandlerType, h.op = "push", h.ok, Val(h) = offered + 1
  PROVE  Good(kind, Post(x, h), route, offered + 1, delivered, broken)
<1>1. /\ kind \in {"run", "feed"} /\ s \in Shape /\ route \in Routes
      /\ offered \in 0..MaxFrames /\ offered \in Nat
      /\ Good(kind, s, route, offered, delivered, broken)
  BY Facts
<1>2. /\ kind = "feed" /\ ~Over(s) /\ Sent(route, offered) = offered
  BY BatchFacts
<1> DEFINE end == offered + 1
           y == Post(x, h)
<1>3. end \in Nat /\ end \in Int /\ end \in Wire /\ offered <= end
  BY <1>1, StreamAssumption DEF Wire, Frames
<1>4. h.op = "push" /\ h.ok /\ Val(h) = end
  OBVIOUS
<1>5. Added(x, y, h)
  BY <1>4, PostFields
<1>6. Good(kind, x, route, offered, delivered, broken)
  <2>1. Polls(x) <= Polls(s)
    BY <1>1, ChainFacts
  <2> QED BY <1>1, <2>1, SameGood DEF Alike
<1>7. Sent(route, end) = end
  <2>1. EndOK(kind, s, route, offered, delivered, broken)
    BY <1>1 DEF Good
  <2>2. route \notin {"added", "overflow", "cancel"}
    BY <1>2, <2>1 DEF EndOK
  <2> QED BY <2>2 DEF Sent
<1> HIDE DEF y
<1>8. y \in Shape /\ Chain(y) <= Chain(x)
  BY <1>4, <1>5 DEF Added
<1>9. Vals(y.strand) = Append(Vals(x.strand), end)
  <2>1. y.strand = Append(x.strand, h)
    BY <1>5 DEF Added
  <2>2. Vals(y.strand) = Append(Vals(x.strand), Val(h))
    BY <1>4, <1>8, <2>1, GivenFacts
  <2> QED BY <1>4, <2>2
<1>10. ASSUME NEW b \in 0..MaxFrames, Run(Vals(x.strand), b, Sent(route, offered))
       PROVE  Run(Vals(y.strand), b, Sent(route, end))
  <2>1. Vals(x.strand) \in Seq(Int) /\ b \in Nat
    BY ValsType, StreamAssumption DEF Shape
  <2>2. Run(Vals(x.strand), b, offered)
    BY <1>2, <1>10
  <2>3. Run(Append(Vals(x.strand), end), b, offered + 1)
    BY <1>1, <1>3, <2>1, <2>2, RunGrows
  <2> QED BY <1>7, <1>9, <2>3
<1>11. Posts(kind, x, y, h, route, route, offered, end, broken, broken)
  <2>1. ~Over(x)
    BY <1>2, Zenon DEF Over, Alike
  <2>2. h.op \notin {"begin", "written"} /\ h.op # "finish" /\ ~Closes(h)
    <3>1. h.op # "written" /\ h.op # "begin" /\ h.op \notin {"close", "eof", "write"}
      BY <1>4
    <3> QED BY <1>4, <3>1 DEF Closes
  <2> HIDE DEF end
  <2> QED BY <1>3, <1>5, <1>8, <1>10, <2>1, <2>2, Zenon DEF Posts, Added
<1> HIDE DEF end
<1>12. Good(kind, y, route, end, delivered, broken)
  BY <1>1, <1>3, <1>4, <1>6, <1>8, <1>11, PostGood, Zenon
<1> QED BY <1>12 DEF y, end

LEMMA SendBatchInv == IInv /\ SendBatch => IInv'
<1> SUFFICES ASSUME IInv, SendBatch PROVE IInv'
  OBVIOUS
<1>1. /\ kind \in {"run", "feed"} /\ s \in Shape /\ route \in Routes
      /\ broken \in BOOLEAN /\ client \in {"reading", "gone"}
      /\ offered \in 0..MaxFrames /\ offered \in Nat /\ delivered \in Seq(Wire)
      /\ Good(kind, s, route, offered, delivered, broken)
      /\ client = "gone" => broken
  BY Facts
<1> DEFINE end == offered + 1
           y == Enqueue(s, end)
<1>2. /\ s.batch.left > 0 /\ offered < MaxFrames /\ offered' = end
      /\ kind' = kind /\ client' = client /\ route' = route /\ delivered' = delivered
      /\ s' = IF y.open THEN [y EXCEPT !.batch.left = @ - 1]
              ELSE [y EXCEPT !.batch = NoBatch]
      /\ broken' = (broken \/ ~y.open)
  BY DEF SendBatch
<1>3. s.batch # NoBatch
  BY <1>2 DEF NoBatch
<1>4. s.batch \in Batch
  BY <1>3, BatchFacts
<1>5. end \in 0..MaxFrames
  BY <1>1, <1>2, StreamAssumption
<1>6. ASSUME y \in Shape, ~y.open, y.batch = s.batch,
             Good(kind, y, route, offered, delivered, TRUE)
      PROVE  IInv'
  <2> HIDE DEF y
  <2> DEFINE x == [y EXCEPT !.batch = NoBatch]
  <2>1. Good(kind, y, route, end, delivered, TRUE)
    BY <1>3, <1>6, SentToClosed
  <2>2. /\ x \in Shape /\ x.strand = y.strand /\ x.open = y.open
        /\ x.finished = y.finished /\ x.socket = y.socket /\ x.headerDone = y.headerDone
        /\ x.writing = y.writing /\ x.queue = y.queue /\ x.writes = y.writes
        /\ x.timers = y.timers /\ x.tasks = y.tasks
        /\ x.sourcing = y.sourcing /\ x.batch = NoBatch
    BY <1>6 DEF Shape
  <2> HIDE DEF x, end
  <2>3. Polls(x) <= Polls(y)
    <3>1. y.tasks \in Nat /\ y.sourcing \in Nat
      BY <1>6 DEF Shape
    <3> QED BY <2>2, <3>1 DEF Polls
  <2>4. Good(kind, x, route, end, delivered, TRUE)
    BY <1>6, <2>1, <2>2, <2>3, SameGood
  <2>5. s' = x /\ broken' = TRUE
    BY <1>2, <1>6 DEF x
  <2>6. Next1
    BY <1>2, <2>2, <2>4, <2>5 DEF Next1
  <2> QED BY <1>1, <1>2, <1>5, <2>5, <2>6, Keeps
<1>7. CASE ~s.open
  <2>1. y = s
    BY <1>7 DEF Enqueue
  <2>2. Good(kind, s, route, offered, delivered, TRUE)
    BY <1>1, BrokenGood
  <2> HIDE DEF y
  <2> QED BY <1>1, <1>6, <1>7, <2>1, <2>2
<1>8. CASE s.open /\ s.pendingBytes + Size(end) > MaxPendingBytes
  <2>1. y = Cancel(s)
    BY <1>8 DEF Enqueue
  <2>2. /\ Cancel(s) \in Shape /\ ~Cancel(s).open /\ Cancel(s).batch = s.batch
        /\ Good(kind, Cancel(s), route, offered, delivered, TRUE)
    <3>1. Cancel(s) \in Shape /\ Good(kind, Cancel(s), route, offered, delivered, TRUE)
      BY <1>1, CancelGood
    <3>2. ~Cancel(s).open
      BY <1>1, CancelGood
    <3>3. Cancel(s).batch = s.batch
      BY <1>1 DEF Cancel, Post, Shape
    <3> QED BY <3>1, <3>2, <3>3
  <2> HIDE DEF y
  <2> QED BY <1>6, <2>1, <2>2
<1>9. CASE s.open /\ ~(s.pendingBytes + Size(end) > MaxPendingBytes)
  <2> DEFINE n == s.pendingBytes + Size(end)
             x == [s EXCEPT !.pendingBytes = n]
             h == Handler("push", end, TRUE, NoBatch)
  <2>1. y = Post(x, h)
    BY <1>9 DEF Enqueue
  <2>2. end \in Frames /\ n \in Int
    <3>1. end \in Frames
      BY <1>1, <1>2, StreamAssumption DEF Frames
    <3>2. Size(end) \in Nat
      BY <3>1, StreamAssumption
    <3>3. s.pendingBytes \in Int
      BY <1>1 DEF Shape
    <3> QED BY <3>1, <3>2, <3>3
  <2> HIDE DEF n, y
  <2>3. /\ x \in Shape /\ Alike(x) /\ x.tasks = s.tasks /\ x.sourcing = s.sourcing
        /\ x.timers = s.timers /\ x.batch = s.batch
    BY <1>1, <2>2 DEF Shape, Alike
  <2> HIDE DEF x
  <2>4. Polls(x) = Polls(s)
    BY <2>3, Zenon DEF Polls
  <2>5. h \in HandlerType /\ h.op = "push" /\ h.ok /\ Val(h) = offered + 1
    <3>1. end \in Wire
      BY <2>2 DEF Wire
    <3> QED BY <3>1, PushFacts
  <2> HIDE DEF h
  <2>6. Good(kind, y, route, end, delivered, broken)
    BY <1>2, <1>3, <1>9, <2>1, <2>3, <2>4, <2>5, BatchPushed
  <2> HIDE DEF end
  <2>7. Added(x, y, h)
    BY <2>1, <2>3, <2>5, PostFields
  <2>8. y \in Shape /\ y.open /\ y.batch = s.batch
    BY <1>9, <2>3, <2>7 DEF Added, Alike
  <2>9. s' = [y EXCEPT !.batch.left = @ - 1] /\ broken' = broken
    BY <1>1, <1>2, <2>8
  <2>10. [y.batch EXCEPT !.left = @ - 1] \in Batch
    BY <1>2, <1>4, <2>8, StreamAssumption DEF Batch
  <2>11. /\ s' \in Shape /\ s'.strand = y.strand /\ s'.open = y.open
         /\ s'.finished = y.finished /\ s'.socket = y.socket /\ s'.headerDone = y.headerDone
         /\ s'.writing = y.writing /\ s'.queue = y.queue /\ s'.writes = y.writes
         /\ s'.timers = y.timers /\ s'.tasks = y.tasks /\ s'.sourcing = y.sourcing
    BY <2>8, <2>9, <2>10 DEF Shape
  <2>12. Polls(s') <= Polls(y)
    <3>1. y.tasks \in Nat /\ y.sourcing \in Nat /\ y.batch # NoBatch
      BY <1>3, <2>8 DEF Shape
    <3> QED BY <2>11, <3>1 DEF Polls
  <2>13. Good(kind, s', route, end, delivered, broken)
    BY <2>6, <2>8, <2>11, <2>12, SameGood
  <2>14. Next1
    BY <1>2, <2>9, <2>11, <2>13 DEF Next1
  <2> QED BY <1>1, <1>2, <1>5, <2>9, <2>14, Keeps
<1> QED BY <1>7, <1>8, <1>9

LEMMA WriteEndedGood ==
  ASSUME IInv, NEW h \in HandlerType, s' \in Shape,
         WriteEnded(s, s', h, delivered, delivered', broken)
  PROVE  Good(kind, s', route, offered, delivered', broken)
<1>1. /\ kind \in {"run", "feed"} /\ s \in Shape /\ route \in Routes
      /\ offered \in 0..MaxFrames /\ delivered \in Seq(Wire)
      /\ Good(kind, s, route, offered, delivered, broken)
  BY Facts
<1> QED BY <1>1, WriteEndsGood, Zenon

LEMMA WriteEndsInv ==
  ASSUME IInv, s.writes # <<>>, NEW h, NEW ok \in BOOLEAN,
         h = Handler("written", Head(s.writes), ok, NoBatch),
         s' = Post([s EXCEPT !.writes = Tail(@)], h),
         IF ok THEN s.socket = "open" ELSE broken \/ s.socket = "closed",
         delivered' = IF ok /\ Head(s.writes) # Header THEN Append(delivered, Head(s.writes))
                      ELSE delivered,
         kind' = kind, client' = client, route' = route, offered' = offered, broken' = broken
  PROVE  IInv'
<1>1. /\ kind \in {"run", "feed"} /\ s \in Shape /\ route \in Routes
      /\ broken \in BOOLEAN /\ client \in {"reading", "gone"}
      /\ offered \in 0..MaxFrames /\ offered \in Nat /\ delivered \in Seq(Wire)
      /\ Good(kind, s, route, offered, delivered, broken)
      /\ client = "gone" => broken
  BY Facts
<1> DEFINE f == Head(s.writes)
           x == [s EXCEPT !.writes = Tail(@)]
<1>2. f \in Wire \cup {Header} /\ Tail(s.writes) \in Seq(Wire \cup {Header})
  <2>1. s.writes \in Seq(Wire \cup {Header})
    BY <1>1 DEF Shape
  <2> QED BY <2>1, TailFacts
<1> HIDE DEF f
<1>3. h.op = "written" /\ h.frame = f /\ h.ok = ok /\ h \in HandlerType
  <2>1. h = [op |-> "written", frame |-> f, ok |-> ok, batch |-> NoBatch]
    BY DEF Handler, f
  <2>2. f \in Frames \cup {KeepAlive, Header} /\ NoBatch \in Batch \cup {NoBatch}
    BY <1>2 DEF Wire
  <2>3. h.op = "written" /\ h.frame = f /\ h.ok = ok
    BY <2>1
  <2> QED BY <2>1, <2>2, <2>3 DEF HandlerType
<1>4. /\ x \in Shape /\ x.strand = s.strand /\ x.open = s.open
      /\ x.finished = s.finished /\ x.socket = s.socket /\ x.headerDone = s.headerDone
      /\ x.writing = s.writing /\ x.queue = s.queue /\ x.writes = Tail(s.writes)
      /\ x.tasks = s.tasks /\ x.sourcing = s.sourcing /\ x.timers = s.timers
      /\ x.batch = s.batch
  BY <1>1, <1>2 DEF Shape
<1>5. s' = Post(x, h)
  OBVIOUS
<1> HIDE DEF x
<1>6. Added(x, s', h)
  BY <1>3, <1>4, <1>5, PostFields
<1>7. /\ s' \in Shape /\ s'.strand = Append(s.strand, h) /\ s'.writes = Tail(s.writes)
      /\ s'.queue = s.queue /\ s'.writing = s.writing /\ s'.finished = s.finished
      /\ s'.headerDone = s.headerDone /\ s'.open = s.open /\ s'.socket = s.socket
      /\ s'.tasks = s.tasks /\ s'.sourcing = s.sourcing /\ s'.timers = s.timers
      /\ s'.batch = s.batch
  BY <1>4, <1>6, Zenon DEF Added
<1>8. Polls(s') = Polls(s)
  BY <1>7, Zenon DEF Polls
<1>9. delivered' = IF h.ok /\ h.frame # Header THEN Append(delivered, h.frame) ELSE delivered
  BY <1>3 DEF f
<1>10. IF h.ok THEN s.socket = "open" ELSE broken \/ s.socket = "closed"
  BY <1>3
<1>11. Good(kind, s', route, offered, delivered', broken)
  <2>1. h.frame = Head(s.writes) /\ h.op = "written" /\ h \in HandlerType
    BY <1>3 DEF f
  <2>2. WriteEnded(s, s', h, delivered, delivered', broken)
    BY <1>7, <1>8, <1>9, <1>10, <2>1, Zenon DEF WriteEnded
  <2> QED BY <1>7, <2>1, <2>2, WriteEndedGood
<1>12. delivered' \in Seq(Wire)
  BY <1>1, <1>2, <1>3, <1>9
<1>13. Next1
  BY <1>7, <1>11, Zenon DEF Next1
<1> QED BY <1>1, <1>12, <1>13, Keeps

LEMMA WriteSucceedsInv == IInv /\ WriteSucceeds => IInv'
<1> SUFFICES ASSUME IInv, WriteSucceeds PROVE IInv'
  OBVIOUS
<1> DEFINE h == Handler("written", Head(s.writes), TRUE, NoBatch)
<1>1. /\ s.writes # <<>> /\ s.socket = "open"
      /\ s' = Post([s EXCEPT !.writes = Tail(@)], h)
      /\ delivered' = IF Head(s.writes) # Header THEN Append(delivered, Head(s.writes))
                      ELSE delivered
      /\ kind' = kind /\ client' = client /\ route' = route /\ offered' = offered
      /\ broken' = broken
  BY DEF WriteSucceeds
<1> HIDE DEF h
<1> QED BY <1>1, WriteEndsInv DEF h

LEMMA WriteFailsInv == IInv /\ WriteFails => IInv'
<1> SUFFICES ASSUME IInv, WriteFails PROVE IInv'
  OBVIOUS
<1> DEFINE h == Handler("written", Head(s.writes), FALSE, NoBatch)
<1>1. /\ s.writes # <<>> /\ (s.socket = "closed" \/ client = "gone")
      /\ s' = Post([s EXCEPT !.writes = Tail(@)], h)
      /\ delivered' = delivered
      /\ kind' = kind /\ client' = client /\ route' = route /\ offered' = offered
      /\ broken' = broken
  BY DEF WriteFails
<1>2. broken \/ s.socket = "closed"
  BY <1>1, Facts
<1> HIDE DEF h
<1> QED BY <1>1, <1>2, WriteEndsInv DEF h

LEMMA NextInv == IInv /\ [Next]_vars => IInv'
<1> SUFFICES ASSUME IInv, [Next]_vars PROVE IInv'
  OBVIOUS
<1>1. CASE Opening
  BY <1>1, ReserveInv, ActivateInv, ReleaseInv DEF Opening
<1>2. CASE Sending
  BY <1>2, SendAddInv, SendPostInv, SendUndoInv, SendCancelInv, PostFinishInv DEF Sending
<1>3. CASE Stop
  BY <1>3, StopInv
<1>4. CASE Strand
  BY <1>4, RunHandlerInv, SendBatchInv, EndBatchInv DEF Strand
<1>5. CASE Polling
  <2>1. CASE PollStart \/ PollThrows
    BY <2>1, PollStartInv, PollThrowsInv
  <2>2. ASSUME NEW b \in Batch, PollResult(b) PROVE IInv'
    BY <2>2, PollResultInv
  <2> QED BY <1>5, <2>1, <2>2 DEF Polling
<1>6. CASE Reactor
  BY <1>6, WriteFailsInv, ReadEndsInv DEF Reactor
<1>7. CASE WriteSucceeds
  BY <1>7, WriteSucceedsInv
<1>8. CASE Disconnect
  BY <1>8, DisconnectInv
<1>9. ASSUME NEW t \in Timers, Expire(t) PROVE IInv'
  BY <1>9, ExpireInv
<1>10. CASE UNCHANGED vars
  BY <1>10 DEF vars, IInv, Type
<1> QED BY <1>1, <1>2, <1>3, <1>4, <1>5, <1>6, <1>7, <1>8, <1>9, <1>10 DEF Next

LEMMA Invariant == Spec => []IInv
BY InitInv, NextInv, PTL DEF Spec

-----------------------------------------------------------------------------
(* The properties.                                                            *)

(* The header's completion, the heartbeat, the poll timer and the batch handler *)
(* of a subscription never leave two polls of its source under way, whatever    *)
(* number of polls, timers and batches the stream goes through.               *)
THEOREM OneChainOfPolls == Spec => []OnePollChain
<1>1. IInv => OnePollChain
  <2> SUFFICES ASSUME IInv PROVE OnePollChain
    OBVIOUS
  <2>1. s \in Shape /\ Chain(s) <= 1
    BY Facts DEF Good, PollOK
  <2>2. s.tasks \in Nat /\ s.sourcing \in Nat /\ s.strand \in Seq(HandlerType)
    BY <2>1 DEF Shape
  <2>3. /\ Count("batch") = Cnt(s.strand, "batch") /\ Count("poll") = Cnt(s.strand, "poll")
        /\ Cnt(s.strand, "batch") \in Nat /\ Cnt(s.strand, "poll") \in Nat
    BY <2>2, CntFacts DEF Count, Cnt
  <2> QED BY <2>1, <2>2, <2>3 DEF OnePollChain, Chain, Polls
<1> QED BY <1>1, Invariant, PTL

(* The socket is written by one write at a time: the header first, then, as     *)
(* write_next and its completion pass the turn on, one frame after another.    *)
THEOREM OneWriteAtATime == Spec => []OneWriter
<1>1. IInv => OneWriter
  <2> SUFFICES ASSUME IInv PROVE OneWriter
    OBVIOUS
  <2>1. s \in Shape /\ Cnt(s.strand, "begin") + InFlight(s) <= 1
    BY Facts DEF WriteOK
  <2>2. s.strand \in Seq(HandlerType) /\ Len(s.writes) \in Nat
    BY <2>1 DEF Shape
  <2>3. /\ Count("written") = Cnt(s.strand, "written")
        /\ Cnt(s.strand, "written") \in Nat /\ Cnt(s.strand, "begin") \in Nat
    BY <2>2, CntFacts DEF Count, Cnt
  <2> QED BY <2>1, <2>2, <2>3 DEF OneWriter, InFlight
<1> QED BY <1>1, Invariant, PTL

(* What a client receives is a beginning of what send() was given, in order and  *)
(* without gaps or repetitions, whichever frames are refused, keep-alives sent  *)
(* between them, writes failed and streams cancelled.                         *)
THEOREM InOrder == Spec => []DeliveredInOrder
<1>1. IInv => DeliveredInOrder
  <2> SUFFICES ASSUME IInv, NEW i \in DOMAIN delivered, delivered[i] # KeepAlive
               PROVE  Received(i - 1) = 1..(delivered[i] - 1)
    BY DEF DeliveredInOrder
  <2>1. delivered \in Seq(Wire) /\ OrderOK(s, route, offered, delivered)
    BY Facts DEF Good
  <2>2. PICK a \in 0..MaxFrames : Run(delivered, 0, a)
    BY <2>1, Zenon DEF OrderOK, Flow
  <2> DEFINE n == Len(delivered)
             v == delivered[i]
  <2>3. n \in Nat /\ i \in 1..n /\ a \in Nat
    BY <2>1, StreamAssumption
  <2>4. /\ \A j \in 1..n : delivered[j] # KeepAlive => delivered[j] \in 1..a
        /\ \A j, k \in 1..n :
             j < k /\ delivered[j] # KeepAlive /\ delivered[k] # KeepAlive =>
               delivered[j] < delivered[k]
        /\ \A m \in 1..a : \E j \in 1..n : delivered[j] = m
    BY <2>2 DEF Run
  <2>5. v \in 1..a
    BY <2>3, <2>4
  <2>6. ASSUME NEW w \in Received(i - 1) PROVE w \in 1..(v - 1)
    <3>1. PICK j \in 1..(i - 1) : w = delivered[j] /\ w # KeepAlive
      BY <2>6 DEF Received
    <3>2. j \in 1..n /\ j < i
      BY <2>3
    <3>3. w \in 1..a /\ w < v
      BY <2>3, <2>4, <3>1, <3>2
    <3> QED BY <2>3, <2>5, <3>3
  <2>7. ASSUME NEW m \in 1..(v - 1) PROVE m \in Received(i - 1)
    <3>1. m \in 1..a /\ m < v /\ m # KeepAlive
      BY <2>3, <2>5 DEF KeepAlive
    <3>2. PICK j \in 1..n : delivered[j] = m
      BY <2>4, <3>1
    <3>3. j # i
      BY <2>3, <2>5, <3>1, <3>2
    <3>4. ~(i < j)
      <4> SUFFICES ASSUME i < j PROVE FALSE
        OBVIOUS
      <4>1. v < m
        BY <2>3, <2>4, <3>1, <3>2
      <4> QED BY <2>3, <2>5, <3>1, <4>1
    <3>5. j \in 1..(i - 1)
      BY <2>3, <3>3, <3>4
    <3> QED BY <3>1, <3>2, <3>5 DEF Received
  <2> QED BY <2>6, <2>7
<1> QED BY <1>1, Invariant, PTL

(* A stream that no overflow, throwing source, expired write, stop or departed  *)
(* client broke is closed only by finish(), once every event that was sent is   *)
(* on the socket.                                                             *)
THEOREM NothingLost == Spec => []CompleteUnlessBroken
<1>1. IInv => CompleteUnlessBroken
  <2> SUFFICES ASSUME IInv, s.socket = "closed", ~broken
               PROVE  s.finished /\ Received(Len(delivered)) = 1..offered
    BY DEF CompleteUnlessBroken
  <2>1. /\ delivered \in Seq(Wire) /\ offered \in Nat
        /\ EndOK(kind, s, route, offered, delivered, broken)
    BY Facts
  <2>2. s.finished /\ Run(delivered, 0, offered)
    BY <2>1 DEF EndOK
  <2> DEFINE n == Len(delivered)
  <2>3. /\ \A j \in 1..n : delivered[j] # KeepAlive => delivered[j] \in 1..offered
        /\ \A m \in 1..offered : \E j \in 1..n : delivered[j] = m
    BY <2>2 DEF Run
  <2>4. \A m \in 1..offered : m # KeepAlive
    BY <2>1 DEF KeepAlive
  <2>5. Received(n) = 1..offered
    BY <2>3, <2>4 DEF Received
  <2> QED BY <2>2, <2>5
<1> QED BY <1>1, Invariant, PTL
=============================================================================
