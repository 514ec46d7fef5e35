----------------------------- MODULE HttpProofs -----------------------------
(* The HTTP side of the daemon.  First the listener: who owns a connection and    *)
(* who is awake for it, for any connections, requests, workers and queue limits.  *)
(* Then the documentation page that is served through it, for any number of      *)
(* places and however often the installation changes.                           *)
EXTENDS Listener, DocsPage, FiniteSetTheorems, TLAPS

-----------------------------------------------------------------------------
(* The listener: owners of connections                                        *)

(* The connections of each kind of owner.                                      *)
Kinds == {"accept", "pending", "responses", "stream", "worker"} \cup Lane
Carried == {worker[w].conn : w \in Workers} \ {NoConn}
Has(k) ==
  IF k = "accept" THEN {accept.conn} \ {NoConn}
  ELSE IF k = "pending" THEN Elements(pending)
  ELSE IF k = "responses" THEN Elements(responses)
  ELSE IF k = "stream" THEN streams
  ELSE IF k = "worker" THEN Carried
  ELSE Elements(lanes[k])

OneKind == \A c \in Conns, k, m \in Kinds : c \in Has(k) /\ c \in Has(m) => k = m

Distinct(q) == \A i, j \in 1..Len(q) : q[i] = q[j] => i = j
QueuesOK ==
  /\ Distinct(pending) /\ Distinct(responses)
  /\ \A l \in Lane : Distinct(lanes[l]) /\ \A c \in Elements(lanes[l]) : laneOf[c] = l

(* What a worker's place in its loop says about the connection it owns.         *)
Busy == {"begin", "io", "enqueue", "execute", "push"}
Stage(w) ==
  /\ worker[w].conn # NoConn <=> worker[w].pc \in Busy
  /\ worker[w].pc = "enqueue" => w \in Ingress
  /\ worker[w].pc \in {"execute", "push"} => w \in Lanes
  /\ worker[w].pc \in {"begin", "io"} => w \notin Lanes
  /\ worker[w].conn # NoConn =>
       \/ socket[worker[w].conn] = "open"
       \/ worker[w].pc = "io" /\ socket[worker[w].conn] = "closed"
WorkersOK ==
  /\ \A w \in Workers : Stage(w)
  /\ \A v, w \in Workers : worker[v].conn = worker[w].conn /\ worker[v].conn # NoConn => v = w

SocketsOK ==
  /\ \A c \in Conns, k \in Kinds \ {"worker"} : c \in Has(k) => socket[c] = "open"
  /\ \A c \in Conns : socket[c] = "open" => \E k \in Kinds : c \in Has(k)

AcceptOK == accept.conn # NoConn <=> accept.pc = "accepted"

(* An operation in the I/O threads' hands has a worker that waits for it.       *)
OpsOK == \A c \in Conns : op[c].st # "none" =>
           \E w \in Workers : worker[w].pc = "io" /\ worker[w].conn = c

(* What the threads of run() and stop() have behind them.                      *)
StopOK ==
  /\ (\E t \in Threads : thread[t] # "run") => stop
  /\ stop => eventsStopped \/ \E t \in Threads : thread[t] = "events"
  /\ eventsStopped => streams = {}
  /\ thread["main"] \in {"imports", "returned"} => \A w \in Workers : worker[w].pc = "exited"
  /\ thread["main"] = "returned" => imports = {} /\ polls = {} /\ ~io

Owned == QueuesOK /\ OneKind /\ WorkersOK /\ SocketsOK /\ AcceptOK
IInv == TypeOK /\ Owned /\ OpsOK /\ StopOK

-----------------------------------------------------------------------------
(* Queues                                                                     *)

LEMMA EmptyFacts == Elements(<<>>) = {} /\ Distinct(<<>>)
BY DEF Elements, Distinct

LEMMA AppendFacts ==
  ASSUME NEW q \in Seq(Conns), NEW x \in Conns
  PROVE  /\ Append(q, x) \in Seq(Conns)
         /\ Elements(Append(q, x)) = Elements(q) \cup {x}
         /\ Distinct(q) /\ x \notin Elements(q) => Distinct(Append(q, x))
<1>1. /\ Append(q, x) \in Seq(Conns) /\ Len(q) \in Nat /\ Len(Append(q, x)) = Len(q) + 1
      /\ \A i \in 1..Len(q) : Append(q, x)[i] = q[i]
      /\ Append(q, x)[Len(q) + 1] = x
      /\ DOMAIN q = 1..Len(q) /\ DOMAIN Append(q, x) = 1..(Len(q) + 1)
  OBVIOUS
<1> DEFINE a == Append(q, x)
<1> HIDE DEF a
<1>2. \A i \in 1..(Len(q) + 1) : i \in 1..Len(q) \/ i = Len(q) + 1
  BY <1>1
<1>3. Elements(a) = Elements(q) \cup {x}
  BY <1>1, <1>2 DEF Elements, a
<1>4. ASSUME Distinct(q), x \notin Elements(q) PROVE Distinct(a)
  <2>1. \A i \in 1..Len(q) : q[i] # x
    BY <1>1, <1>4 DEF Elements
  <2> QED BY <1>1, <1>2, <1>4, <2>1 DEF Distinct, a
<1> QED BY <1>1, <1>3, <1>4 DEF a

LEMMA TailFacts ==
  ASSUME NEW q \in Seq(Conns), q # <<>>, Distinct(q)
  PROVE  /\ Head(q) \in Elements(q) /\ Head(q) \in Conns
         /\ Tail(q) \in Seq(Conns) /\ Distinct(Tail(q))
         /\ Elements(Tail(q)) = Elements(q) \ {Head(q)}
<1>1. /\ Len(q) \in Nat \ {0} /\ DOMAIN q = 1..Len(q) /\ Head(q) = q[1] /\ q[1] \in Conns
      /\ Tail(q) \in Seq(Conns) /\ Len(Tail(q)) = Len(q) - 1 /\ DOMAIN Tail(q) = 1..(Len(q) - 1)
      /\ \A i \in 1..(Len(q) - 1) : Tail(q)[i] = q[i + 1]
  OBVIOUS
<1> DEFINE a == Tail(q)
<1> HIDE DEF a
<1>2. /\ 1 \in 1..Len(q)
      /\ \A i \in 1..(Len(q) - 1) : i + 1 \in 1..Len(q) /\ i + 1 # 1
      /\ \A i \in 1..Len(q) : i = 1 \/ (i - 1 \in 1..(Len(q) - 1) /\ (i - 1) + 1 = i)
  BY <1>1
<1>3. Elements(a) = Elements(q) \ {Head(q)}
  <2>1. ASSUME NEW i \in 1..(Len(q) - 1) PROVE a[i] \in Elements(q) \ {Head(q)}
    BY <1>1, <1>2, <2>1 DEF Elements, Distinct, a
  <2>2. ASSUME NEW i \in 1..Len(q), q[i] # q[1] PROVE q[i] \in Elements(a)
    <3>1. i - 1 \in 1..(Len(q) - 1) /\ a[i - 1] = q[i]
      BY <1>1, <1>2, <2>2 DEF a
    <3> QED BY <1>1, <3>1 DEF Elements, a
  <2> QED BY <1>1, <2>1, <2>2 DEF Elements, a
<1>4. Distinct(a)
  <2> SUFFICES ASSUME NEW i \in 1..(Len(q) - 1), NEW j \in 1..(Len(q) - 1), a[i] = a[j]
               PROVE  i = j
    BY <1>1 DEF Distinct, a
  <2>1. q[i + 1] = q[j + 1]
    BY <1>1 DEF a
  <2>2. i + 1 = j + 1
    BY <1>2, <2>1 DEF Distinct
  <2> QED BY <1>1, <2>2
<1> QED BY <1>1, <1>2, <1>3, <1>4 DEF Elements, a

LEMMA HasFacts ==
  /\ Has("accept") = {accept.conn} \ {NoConn} /\ Has("pending") = Elements(pending)
  /\ Has("responses") = Elements(responses) /\ Has("stream") = streams
  /\ Has("worker") = Carried /\ \A l \in Lane : Has(l) = Elements(lanes[l])
BY DEF Has, Lane

LEMMA HasFactsNext ==
  /\ Has("accept")' = {accept'.conn} \ {NoConn} /\ Has("pending")' = Elements(pending')
  /\ Has("responses")' = Elements(responses') /\ Has("stream")' = streams'
  /\ Has("worker")' = Carried' /\ \A l \in Lane : Has(l)' = Elements(lanes'[l])
BY DEF Has, Lane, Elements, Carried

-----------------------------------------------------------------------------
(* Moves between owners                                                       *)

(* The connection x leaves one kind of owner for another, or comes or goes.    *)
Shift(x, src, dst) ==
  \A k \in Kinds : Has(k)' = IF k = src THEN Has(k) \ {x}
                             ELSE IF k = dst THEN Has(k) \cup {x} ELSE Has(k)

LEMMA ShiftKeeps ==
  ASSUME OneKind, SocketsOK, NEW x \in Conns, NEW src, NEW dst, src # dst, Shift(x, src, dst),
         (src \in Kinds /\ x \in Has(src)) \/ \A k \in Kinds : x \notin Has(k),
         \A c \in Conns \ {x} : socket'[c] = socket[c],
         dst \in Kinds \ {"worker"} => socket'[x] = "open",
         dst \notin Kinds => socket'[x] # "open"
  PROVE  OneKind' /\ SocketsOK'
<1>1. ASSUME NEW c \in Conns, NEW k \in Kinds, (c \in Has(k))'
      PROVE  IF c = x THEN k = dst ELSE c \in Has(k)
  BY <1>1 DEF Shift, OneKind
<1>2. OneKind'
  BY <1>1 DEF OneKind
<1>3. ASSUME NEW c \in Conns, NEW k \in Kinds \ {"worker"}, (c \in Has(k))'
      PROVE  socket'[c] = "open"
  BY <1>1, <1>3 DEF SocketsOK
<1>4. ASSUME NEW c \in Conns, socket'[c] = "open"
      PROVE  \E k \in Kinds : (c \in Has(k))'
  <2>1. CASE c = x
    BY <1>4, <2>1 DEF Shift
  <2>2. CASE c # x
    <3>1. PICK k \in Kinds : c \in Has(k)
      BY <1>4, <2>2 DEF SocketsOK
    <3> QED BY <2>2, <3>1 DEF Shift
  <2> QED BY <2>1, <2>2
<1> QED BY <1>2, <1>3, <1>4 DEF SocketsOK

(* Nothing moves; a connection that a worker owns may be closed.               *)
LEMMA StillKeeps ==
  ASSUME OneKind, SocketsOK, \A k \in Kinds : Has(k)' = Has(k),
         \A c \in Conns : \/ socket'[c] = socket[c]
                          \/ socket'[c] # "open" /\ c \in Has("worker")
  PROVE  OneKind' /\ SocketsOK'
<1>1. OneKind'
  BY DEF OneKind
<1>2. ASSUME NEW c \in Conns, NEW k \in Kinds \ {"worker"}, (c \in Has(k))'
      PROVE  socket'[c] = "open"
  BY <1>2 DEF SocketsOK, OneKind, Kinds
<1>3. ASSUME NEW c \in Conns, socket'[c] = "open"
      PROVE  \E k \in Kinds : (c \in Has(k))'
  BY <1>3 DEF SocketsOK
<1> QED BY <1>1, <1>2, <1>3 DEF SocketsOK

(* stop() empties some kinds of owners and closes what they had.               *)
LEMMA SweepKeeps ==
  ASSUME OneKind, SocketsOK, NEW K \in SUBSET (Kinds \ {"worker"}),
         \A k \in Kinds : Has(k)' = IF k \in K THEN {} ELSE Has(k),
         socket' = Close(UNION {Has(k) : k \in K})
  PROVE  /\ OneKind' /\ SocketsOK'
         /\ \A c \in Conns : c \in Has("worker") => socket'[c] = socket[c]
<1>1. \A c \in Conns : socket'[c] = IF \E k \in K : c \in Has(k) THEN "closed" ELSE socket[c]
  BY DEF Close
<1>2. OneKind'
  BY DEF OneKind
<1>3. ASSUME NEW c \in Conns, NEW k \in Kinds \ {"worker"}, (c \in Has(k))'
      PROVE  socket'[c] = "open"
  BY <1>1, <1>3 DEF SocketsOK, OneKind
<1>4. ASSUME NEW c \in Conns, socket'[c] = "open"
      PROVE  \E k \in Kinds : (c \in Has(k))'
  BY <1>1, <1>4 DEF SocketsOK
<1>5. ASSUME NEW c \in Conns, c \in Has("worker") PROVE socket'[c] = socket[c]
  BY <1>1, <1>5 DEF OneKind, Kinds
<1> QED BY <1>2, <1>3, <1>4, <1>5 DEF SocketsOK

(* A worker goes on, with its connection, a new one or none.                   *)
LEMMA WorkerStep ==
  ASSUME TypeOK, WorkersOK, NEW w \in Workers, NEW pc, NEW c \in Conns \cup {NoConn},
         worker' = Become(w, pc, c),
         c \in {NoConn, worker[w].conn} \/ c \notin Has("worker"),
         \A d \in Conns : d \notin {c, worker[w].conn} => socket'[d] = socket[d],
         Stage(w)'
  PROVE  /\ WorkersOK'
         /\ Has("worker")' = (Has("worker") \ {worker[w].conn}) \cup ({c} \ {NoConn})
<1>1. /\ worker'[w].pc = pc /\ worker'[w].conn = c
      /\ \A v \in Workers \ {w} : worker'[v] = worker[v]
  BY DEF TypeOK, Become
<1>2. \A v \in Workers : worker[v].conn \in Conns \cup {NoConn}
  BY DEF TypeOK
<1>3. ASSUME NEW v \in Workers, worker[v].conn = c, c # NoConn PROVE c = worker[w].conn /\ v = w
  BY <1>3, HasFacts DEF Carried, WorkersOK
<1>4. ASSUME NEW v \in Workers PROVE Stage(v)'
  <2>1. CASE v = w
    BY <2>1
  <2>2. CASE v # w
    <3>1. worker[v].conn # NoConn => socket'[worker[v].conn] = socket[worker[v].conn]
      BY <1>2, <1>3, <2>2 DEF WorkersOK
    <3> QED BY <1>1, <2>2, <3>1 DEF WorkersOK, Stage
  <2> QED BY <2>1, <2>2
<1>5. ASSUME NEW u \in Workers, NEW v \in Workers,
             worker'[u].conn = worker'[v].conn, worker'[u].conn # NoConn
      PROVE  u = v
  BY <1>1, <1>3, <1>5 DEF WorkersOK
<1>6. Carried' = (Carried \ {worker[w].conn}) \cup ({c} \ {NoConn})
  <2>1. ASSUME NEW d, d \in Carried' PROVE d \in (Carried \ {worker[w].conn}) \cup ({c} \ {NoConn})
    BY <1>1, <2>1 DEF Carried, WorkersOK
  <2>2. ASSUME NEW d, d \in (Carried \ {worker[w].conn}) \cup ({c} \ {NoConn}) PROVE d \in Carried'
    BY <1>1, <2>2 DEF Carried
  <2> QED BY <2>1, <2>2
<1> QED BY <1>4, <1>5, <1>6, HasFacts, HasFactsNext DEF WorkersOK

(* Workers are woken, or nothing happens to them.                              *)
LEMMA WorkersStill ==
  ASSUME TypeOK, WorkersOK,
         \A v \in Workers : worker'[v] = worker[v] \/ (worker'[v] = Idle /\ worker[v].conn = NoConn),
         \A d \in Conns : d \in Has("worker") => socket'[d] = socket[d]
  PROVE  WorkersOK' /\ Has("worker")' = Has("worker")
<1>1. \A v \in Workers : worker'[v].conn = worker[v].conn
  BY DEF Idle
<1>2. Has("worker")' = Has("worker")
  <2>1. Carried' = Carried
    BY <1>1 DEF Carried
  <2> QED BY <2>1, HasFacts, HasFactsNext
<1>3. ASSUME NEW v \in Workers PROVE Stage(v)'
  <2>1. CASE worker'[v] = Idle /\ worker[v].conn = NoConn
    BY <2>1 DEF Stage, Idle, Busy
  <2>2. CASE worker'[v] = worker[v]
    <3>1. worker[v].conn # NoConn => socket'[worker[v].conn] = socket[worker[v].conn]
      <4>1. worker[v].conn \in Conns \cup {NoConn}
        BY DEF TypeOK
      <4> QED BY <4>1, HasFacts DEF Carried
    <3> QED BY <2>2, <3>1 DEF WorkersOK, Stage
  <2> QED BY <2>1, <2>2
<1> QED BY <1>1, <1>2, <1>3 DEF WorkersOK

-----------------------------------------------------------------------------
(* The invariant holds initially                                              *)

LEMMA InitInv == Init => IInv
<1> SUFFICES ASSUME Init PROVE IInv
  OBVIOUS
<1>1. TypeOK
  <2>1. laneOf \in [Conns -> Lane] /\ client \in [Conns -> {"away", "idle", "sent", "gone", "left"}]
    BY ListenerAssumption DEF Init
  <2>2. /\ pending \in Seq(Conns) /\ lanes \in [Lane -> Seq(Conns)] /\ responses \in Seq(Conns)
        /\ socket \in [Conns -> {"none", "open", "answered", "closed"}]
        /\ accept \in [pc : {"armed", "accepted", "off"}, conn : Conns \cup {NoConn}]
    BY DEF Init
  <2>3. worker \in [Workers -> [pc : {"init", "loop"}, conn : {NoConn}]]
    BY DEF Init, Idle
  <2>4. op \in [Conns -> [st : {"none"}, cancel : BOOLEAN, late : BOOLEAN]]
    BY DEF Init, NoOp
  <2>5. thread \in [Threads -> {"run"}]
    BY DEF Init
  <2>6. /\ streams \subseteq Conns /\ imports \subseteq Conns /\ polls \subseteq Conns
        /\ eventsStopped \in BOOLEAN /\ io \in BOOLEAN /\ stop \in BOOLEAN /\ failed \in BOOLEAN
    BY DEF Init
  <2> QED BY <2>1, <2>2, <2>3, <2>4, <2>5, <2>6 DEF TypeOK
<1>2. QueuesOK
  BY EmptyFacts DEF Init, QueuesOK
<1>3. \A w \in Workers : worker[w].conn = NoConn /\ worker[w].pc \in {"init", "loop"}
  BY DEF Init, Idle
<1>4. WorkersOK
  BY <1>3 DEF WorkersOK, Stage, Busy
<1>5. \A k \in Kinds : Has(k) = {}
  <2>1. Carried = {}
    BY <1>3 DEF Carried
  <2>2. /\ Elements(pending) = {} /\ Elements(responses) = {} /\ streams = {}
        /\ accept.conn = NoConn /\ \A l \in Lane : Elements(lanes[l]) = {}
    BY EmptyFacts DEF Init
  <2> QED BY <2>1, <2>2, HasFacts DEF Kinds, Lane
<1>6. OneKind /\ SocketsOK
  BY <1>5 DEF OneKind, SocketsOK, Init
<1>7. AcceptOK /\ OpsOK
  BY DEF Init, AcceptOK, OpsOK, NoOp
<1>8. StopOK
  <2>1. \A t \in Threads : thread[t] = "run"
    BY DEF Init
  <2> QED BY <2>1, ListenerAssumption DEF Init, StopOK
<1> QED BY <1>1, <1>2, <1>4, <1>6, <1>7, <1>8 DEF IInv, Owned

-----------------------------------------------------------------------------
(* The steps that move a connection keep its owner unique                     *)

LEMMA AcceptOwned == ASSUME IInv, NEW c \in Conns, Accept(c) PROVE Owned'
<1>1. /\ QueuesOK /\ OneKind /\ WorkersOK /\ SocketsOK /\ AcceptOK /\ TypeOK
  BY DEF IInv, Owned
<1>2. \A k \in Kinds : c \notin Has(k)
  <2>1. ASSUME NEW w \in Workers, worker[w].conn = c PROVE FALSE
    BY <1>1, <2>1, ListenerAssumption DEF Accept, WorkersOK, Stage
  <2>2. c \notin Has("worker")
    BY <2>1, HasFacts DEF Carried
  <2> QED BY <1>1, <2>2 DEF Accept, SocketsOK
<1>3. UNCHANGED <<pending, lanes, responses, worker, streams, laneOf>>
  BY DEF Accept, queues
<1>4. QueuesOK'
  BY <1>1, <1>3 DEF QueuesOK, Elements, Distinct
<1>5. WorkersOK' /\ Has("worker")' = Has("worker")
  <2>1. \A d \in Conns : d \in Has("worker") => socket'[d] = socket[d]
    BY <1>1, <1>2 DEF Accept, TypeOK, Kinds
  <2> QED BY <1>1, <1>3, <2>1, WorkersStill
<1>6. CASE stop
  <2>1. /\ accept'.pc = "off" /\ accept'.conn = NoConn /\ accept.conn = NoConn
        /\ socket' = [socket EXCEPT ![c] = "closed"]
    BY <1>1, <1>6 DEF Accept, AcceptOK
  <2>2. Shift(c, "gone", "none")
    <3>1. \A k \in Kinds : Has(k)' = Has(k)
      BY <1>3, <1>5, <2>1, HasFacts, HasFactsNext DEF Kinds, Lane
    <3> QED BY <3>1 DEF Shift, Kinds, Lane
  <2>3. OneKind' /\ SocketsOK'
    <3>1. /\ \A d \in Conns \ {c} : socket'[d] = socket[d]
          /\ socket'[c] # "open" /\ "none" \notin Kinds
      BY <1>1, <2>1 DEF TypeOK, Kinds, Lane
    <3> QED BY <1>1, <1>2, <2>2, <3>1, ShiftKeeps
  <2> QED BY <1>4, <1>5, <2>1, <2>3 DEF Owned, AcceptOK
<1>7. CASE ~stop
  <2>1. /\ accept'.pc = "accepted" /\ accept'.conn = c /\ accept.conn = NoConn
        /\ socket' = [socket EXCEPT ![c] = "open"] /\ c # NoConn
    BY <1>1, <1>7, ListenerAssumption DEF Accept, AcceptOK
  <2>2. Shift(c, "gone", "accept")
    BY <1>3, <1>5, <2>1, HasFacts, HasFactsNext DEF Kinds, Lane, Shift
  <2>3. OneKind' /\ SocketsOK'
    <3>1. /\ \A d \in Conns \ {c} : socket'[d] = socket[d]
          /\ socket'[c] = "open" /\ "accept" \in Kinds
      BY <1>1, <2>1 DEF TypeOK, Kinds, Lane
    <3> QED BY <1>1, <1>2, <2>2, <3>1, ShiftKeeps
  <2> QED BY <1>4, <1>5, <2>1, <2>3 DEF Owned, AcceptOK
<1> QED BY <1>6, <1>7

LEMMA AcceptEnqueueOwned == ASSUME IInv, AcceptEnqueue PROVE Owned'
<1> DEFINE c == accept.conn
<1>1. /\ QueuesOK /\ OneKind /\ WorkersOK /\ SocketsOK /\ AcceptOK /\ TypeOK
  BY DEF IInv, Owned
<1>2. c \in Conns /\ c \in Has("accept") /\ "accept" \in Kinds /\ socket[c] = "open"
  <2>1. c \in Conns /\ c # NoConn
    BY <1>1 DEF AcceptEnqueue, AcceptOK, TypeOK
  <2>2. c \in Has("accept") /\ "accept" \in Kinds
    BY <2>1, HasFacts DEF Kinds
  <2> QED BY <1>1, <2>1, <2>2 DEF SocketsOK
<1>3. /\ UNCHANGED <<lanes, responses, streams, laneOf>>
      /\ accept'.conn = NoConn /\ accept'.pc # "accepted"
  BY DEF AcceptEnqueue
<1> HIDE DEF c
<1>4. \A k \in Kinds \ {"accept"} : c \notin Has(k)
  BY <1>1, <1>2 DEF OneKind
<1>5. ASSUME socket' = Close({c}), pending' = pending, worker' = worker PROVE Owned'
  <2>1. /\ \A d \in Conns \ {c} : socket'[d] = socket[d]
        /\ socket'[c] # "open" /\ "none" \notin Kinds
    BY <1>1, <1>2, <1>5 DEF TypeOK, Close, Kinds, Lane
  <2>2. WorkersOK' /\ Has("worker")' = Has("worker")
    <3>1. \A d \in Conns : d \in Has("worker") => socket'[d] = socket[d]
      BY <1>4, <2>1 DEF Kinds
    <3> QED BY <1>1, <1>5, <3>1, WorkersStill
  <2>3. Shift(c, "accept", "none")
    BY <1>3, <1>5, <2>2, HasFacts, HasFactsNext DEF Kinds, Lane, Shift, c
  <2>4. OneKind' /\ SocketsOK'
    BY <1>1, <1>2, <2>1, <2>3, ShiftKeeps
  <2>5. QueuesOK'
    BY <1>1, <1>3, <1>5 DEF QueuesOK, Elements, Distinct
  <2> QED BY <1>3, <2>2, <2>4, <2>5 DEF Owned, AcceptOK
<1>6. ASSUME socket' = socket, pending' = Append(pending, c),
             \A v \in Workers : worker'[v] = worker[v] \/ (worker'[v] = Idle /\ worker[v].pc = "waiting")
      PROVE  Owned'
  <2>1. /\ Elements(pending') = Elements(pending) \cup {c} /\ Distinct(pending')
    <3>1. c \notin Elements(pending) /\ Distinct(pending) /\ pending \in Seq(Conns)
      BY <1>1, <1>4, HasFacts DEF QueuesOK, TypeOK, Kinds
    <3> QED BY <1>2, <1>6, <3>1, AppendFacts
  <2>2. WorkersOK' /\ Has("worker")' = Has("worker")
    <3>1. \A v \in Workers : worker[v].pc = "waiting" => worker[v].conn = NoConn
      BY <1>1 DEF WorkersOK, Stage, Busy
    <3> QED BY <1>1, <1>6, <3>1, WorkersStill
  <2>3. Shift(c, "accept", "pending")
    BY <1>3, <2>1, <2>2, HasFacts, HasFactsNext DEF Kinds, Lane, Shift, c
  <2>4. OneKind' /\ SocketsOK'
    <3>1. "pending" \in Kinds
      BY DEF Kinds
    <3> QED BY <1>1, <1>2, <1>6, <2>3, <3>1, ShiftKeeps
  <2>5. QueuesOK'
    BY <1>1, <1>3, <2>1 DEF QueuesOK, Elements, Distinct
  <2> QED BY <1>3, <2>2, <2>4, <2>5 DEF Owned, AcceptOK
<1> QED BY <1>5, <1>6 DEF AcceptEnqueue, Wake, c

(* What a worker takes is in exactly one queue and open.                       *)
LEMMA InboxFacts ==
  ASSUME IInv, NEW w \in Workers, Inbox(w) # <<>>, NEW c, c = Head(Inbox(w))
  PROVE  /\ c \in Conns /\ socket[c] = "open" /\ c # NoConn /\ c \notin Has("worker")
         /\ IF w \in Ingress THEN c \in Has("pending") /\ c = Head(pending) /\ pending # <<>>
            ELSE IF w \in Writers
            THEN c \in Has("responses") /\ c = Head(responses) /\ responses # <<>>
            ELSE /\ c \in Has(laneOf[c]) /\ lanes[laneOf[c]] # <<>>
                 /\ c = Head(lanes[laneOf[c]])
<1>1. /\ QueuesOK /\ OneKind /\ WorkersOK /\ SocketsOK /\ AcceptOK /\ TypeOK
  BY DEF IInv, Owned
<1>2. ASSUME NEW k \in Kinds \ {"worker"}, NEW q, q \in Seq(Conns), Distinct(q), q # <<>>,
             Has(k) = Elements(q), c = Head(q)
      PROVE  c \in Conns /\ socket[c] = "open" /\ c # NoConn /\ c \notin Has("worker") /\ c \in Has(k)
  <2>1. c \in Has(k) /\ c \in Conns
    BY <1>2, TailFacts
  <2> QED BY <1>1, <2>1, ListenerAssumption DEF SocketsOK, OneKind, Kinds
<1>3. CASE w \in Ingress
  BY <1>1, <1>2, <1>3, HasFacts DEF Inbox, QueuesOK, TypeOK, Kinds
<1>4. CASE w \notin Ingress /\ w \in Writers
  BY <1>1, <1>2, <1>4, HasFacts DEF Inbox, QueuesOK, TypeOK, Kinds
<1>5. CASE w \notin Ingress /\ w \notin Writers
  <2>1. PICK l \in Lane : c = Head(lanes[l]) /\ lanes[l] # <<>>
    BY <1>5 DEF Inbox, Lane
  <2>2. /\ lanes[l] \in Seq(Conns) /\ Distinct(lanes[l]) /\ Has(l) = Elements(lanes[l])
        /\ l \in Kinds \ {"worker"}
    BY <1>1, HasFacts DEF QueuesOK, TypeOK, Kinds, Lane
  <2>3. /\ c \in Conns /\ socket[c] = "open" /\ c # NoConn /\ c \notin Has("worker") /\ c \in Has(l)
    BY <1>2, <2>1, <2>2
  <2>4. laneOf[c] = l
    BY <1>1, <2>2, <2>3 DEF QueuesOK
  <2> QED BY <1>5, <2>1, <2>3, <2>4
<1> QED BY <1>3, <1>4, <1>5

LEMMA PopOwned == ASSUME IInv, NEW w \in Workers, Pop(w) PROVE Owned'
<1> DEFINE c == Head(Inbox(w))
           k == IF w \in Ingress THEN "pending" ELSE IF w \in Writers THEN "responses" ELSE laneOf[c]
<1>1. /\ QueuesOK /\ OneKind /\ WorkersOK /\ SocketsOK /\ AcceptOK /\ TypeOK
  BY DEF IInv, Owned
<1>2. /\ c \in Conns /\ socket[c] = "open" /\ c # NoConn /\ c \notin Has("worker")
      /\ IF w \in Ingress THEN c \in Has("pending") /\ c = Head(pending) /\ pending # <<>>
         ELSE IF w \in Writers
         THEN c \in Has("responses") /\ c = Head(responses) /\ responses # <<>>
         ELSE c \in Has(laneOf[c]) /\ lanes[laneOf[c]] # <<>> /\ c = Head(lanes[laneOf[c]])
  BY InboxFacts DEF Pop
<1>3. /\ UNCHANGED <<accept, streams, laneOf>>
      /\ worker[w].pc = "loop"
      /\ \/ socket' = Close({c}) /\ worker' = Loop(w)
         \/ worker' = Become(w, IF w \in Lanes THEN "execute" ELSE "begin", c) /\ socket' = socket
      /\ \/ w \in Ingress /\ pending' = Tail(pending) /\ UNCHANGED <<lanes, responses>>
         \/ w \in Writers /\ responses' = Tail(responses) /\ UNCHANGED <<pending, lanes>>
         \/ w \in Lanes /\ lanes' = [lanes EXCEPT ![laneOf[c]] = Tail(@)]
                        /\ UNCHANGED <<pending, responses>>
  BY DEF Pop, AtLoop
<1> HIDE DEF c
<1>4. laneOf[c] \in Lane /\ k \in Kinds \ {"worker"} /\ c \in Has(k)
  BY <1>1, <1>2 DEF TypeOK, Kinds
<1>5. \A m \in Kinds \ {k} : c \notin Has(m)
  BY <1>1, <1>2, <1>4 DEF OneKind
<1>6. /\ QueuesOK'
      /\ \A m \in Kinds \ {"worker"} : Has(m)' = IF m = k THEN Has(m) \ {c} ELSE Has(m)
  <2>1. CASE w \in Ingress
    <3>1. pending' = Tail(pending) /\ UNCHANGED <<lanes, responses>> /\ k = "pending"
      BY <1>3, <2>1, ListenerAssumption
    <3>2. Elements(pending') = Elements(pending) \ {c} /\ Distinct(pending')
      BY <1>1, <1>2, <2>1, <3>1, TailFacts DEF QueuesOK, TypeOK
    <3> HIDE DEF k
    <3>3. QueuesOK'
      BY <1>1, <1>3, <3>1, <3>2 DEF QueuesOK, Elements, Distinct
    <3> QED BY <1>3, <3>1, <3>2, <3>3, HasFacts, HasFactsNext DEF Kinds, Lane
  <2>2. CASE w \in Writers
    <3>1. responses' = Tail(responses) /\ UNCHANGED <<lanes, pending>> /\ k = "responses" /\ w \notin Ingress
      BY <1>3, <2>2, ListenerAssumption
    <3>2. Elements(responses') = Elements(responses) \ {c} /\ Distinct(responses')
      BY <1>1, <1>2, <2>2, <3>1, TailFacts DEF QueuesOK, TypeOK
    <3> HIDE DEF k
    <3>3. UNCHANGED <<pending, lanes, laneOf>>
      BY <1>1, <1>3, <3>1
    <3>4. QueuesOK'
      BY <1>1, <3>2, <3>3 DEF QueuesOK, Elements, Distinct
    <3>5. Has("responses")' = Has("responses") \ {c}
      BY <3>2, HasFacts, HasFactsNext
    <3>6. ASSUME NEW m \in Kinds \ {"worker", "responses"} PROVE Has(m)' = Has(m)
      BY <1>3, <3>3, HasFacts, HasFactsNext DEF Kinds, Lane
    <3> QED BY <3>1, <3>4, <3>5, <3>6
  <2>3. CASE w \in Lanes
    <3>1. /\ lanes' = [lanes EXCEPT ![k] = Tail(lanes[k])] /\ UNCHANGED <<pending, responses>>
          /\ w \notin Ingress /\ w \notin Writers /\ k = laneOf[c]
      BY <1>3, <2>3, ListenerAssumption
    <3>2. k \in Lane /\ lanes[k] # <<>> /\ c = Head(lanes[k])
      BY <1>2, <1>4, <3>1
    <3> HIDE DEF k
    <3>3. Elements(lanes'[k]) = Elements(lanes[k]) \ {c} /\ Distinct(lanes'[k])
      BY <1>1, <3>1, <3>2, TailFacts DEF QueuesOK, TypeOK
    <3>4. \A l \in Lane \ {k} : lanes'[l] = lanes[l]
      BY <1>1, <3>1, <3>2 DEF TypeOK
    <3>5. QueuesOK'
      BY <1>1, <1>3, <3>1, <3>3, <3>4 DEF QueuesOK, Elements, Distinct
    <3>6. \A l \in Lane : Has(l)' = IF l = k THEN Has(l) \ {c} ELSE Has(l)
      <4> SUFFICES ASSUME NEW l \in Lane PROVE Has(l)' = IF l = k THEN Has(l) \ {c} ELSE Has(l)
        OBVIOUS
      <4>1. Has(l) = Elements(lanes[l]) /\ Has(l)' = Elements(lanes'[l])
        BY HasFacts, HasFactsNext
      <4> QED BY <3>3, <3>4, <4>1
    <3> QED BY <1>3, <3>1, <3>2, <3>5, <3>6, HasFacts, HasFactsNext DEF Kinds, Lane
  <2> QED BY <2>1, <2>2, <2>3 DEF Workers
<1> HIDE DEF k
<1>7. worker[w].conn = NoConn
  BY <1>1, <1>3 DEF WorkersOK, Stage, Busy
<1>8. CASE socket' = Close({c}) /\ worker' = Loop(w)
  <2>1. /\ \A d \in Conns \ {c} : socket'[d] = socket[d]
        /\ socket'[c] # "open" /\ "none" \notin Kinds
    BY <1>1, <1>2, <1>8 DEF TypeOK, Close, Kinds, Lane
  <2>2. \A v \in Workers : worker'[v] = worker[v] \/ (worker'[v] = Idle /\ worker[v].conn = NoConn)
    BY <1>1, <1>7, <1>8 DEF TypeOK, Loop
  <2>3. WorkersOK' /\ Has("worker")' = Has("worker")
    BY <1>1, <1>2, <2>1, <2>2, WorkersStill
  <2>4. Shift(c, k, "none")
    BY <1>4, <1>6, <2>1, <2>3 DEF Shift
  <2>5. OneKind' /\ SocketsOK'
    BY <1>1, <1>2, <1>4, <2>1, <2>4, ShiftKeeps
  <2> QED BY <1>1, <1>3, <1>6, <2>3, <2>5 DEF Owned, AcceptOK
<1>9. CASE worker' = Become(w, IF w \in Lanes THEN "execute" ELSE "begin", c) /\ socket' = socket
  <2> DEFINE pc == IF w \in Lanes THEN "execute" ELSE "begin"
  <2>1. worker'[w].pc = pc /\ worker'[w].conn = c
    BY <1>1, <1>9 DEF TypeOK, Become
  <2>2. Stage(w)'
    BY <1>2, <1>9, <2>1 DEF Stage, Busy
  <2>3. worker' = Become(w, pc, c)
    BY <1>9
  <2> HIDE DEF pc
  <2>4. /\ WorkersOK'
        /\ Has("worker")' = (Has("worker") \ {worker[w].conn}) \cup ({c} \ {NoConn})
    BY <1>1, <1>2, <1>9, <2>2, <2>3, WorkerStep
  <2>5. Has("worker")' = Has("worker") \cup {c}
    BY <1>2, <1>7, <2>4, HasFacts DEF Carried
  <2>6. "worker" \in Kinds /\ "worker" # k
    BY <1>4 DEF Kinds
  <2>7. Shift(c, k, "worker")
    BY <1>6, <2>5, <2>6 DEF Shift
  <2>8. OneKind' /\ SocketsOK'
    BY <1>1, <1>2, <1>4, <1>9, <2>6, <2>7, ShiftKeeps
  <2> QED BY <1>1, <1>3, <1>6, <2>4, <2>8 DEF Owned, AcceptOK
<1> QED BY <1>3, <1>8, <1>9

(* A worker keeps what it owns, or owns nothing.                               *)
LEMMA StayOwned ==
  ASSUME IInv, NEW w \in Workers, NEW pc, worker' = Step(w, pc),
         UNCHANGED <<laneOf, socket, accept, queues, streams>>, Stage(w)'
  PROVE  Owned'
<1>1. /\ QueuesOK /\ OneKind /\ WorkersOK /\ SocketsOK /\ AcceptOK /\ TypeOK
  BY DEF IInv, Owned
<1> DEFINE c == worker[w].conn
<1>2. c \in Conns \cup {NoConn} /\ worker' = Become(w, pc, c)
  <2> DEFINE old == worker[w]
  <2>1. c \in Conns \cup {NoConn} /\ old = [pc |-> old.pc, conn |-> c]
    BY <1>1 DEF TypeOK
  <2>2. worker' = [worker EXCEPT ![w] = [old EXCEPT !.pc = pc]]
    BY DEF Step
  <2> HIDE DEF old, c
  <2>3. [old EXCEPT !.pc = pc] = [pc |-> pc, conn |-> c]
    BY <2>1
  <2> QED BY <2>1, <2>2, <2>3 DEF Become
<1> HIDE DEF c
<1>3. WorkersOK' /\ Has("worker")' = (Has("worker") \ {worker[w].conn}) \cup ({c} \ {NoConn})
  <2>1. /\ c \in {NoConn, worker[w].conn}
        /\ \A d \in Conns : d \notin {c, worker[w].conn} => socket'[d] = socket[d]
    BY DEF c
  <2> QED BY <1>1, <1>2, <2>1, WorkerStep, SMTT(30)
<1>4. Has("worker")' = Has("worker")
  BY <1>2, <1>3, HasFacts DEF Carried, c
<1>5. \A k \in Kinds : Has(k)' = Has(k)
  BY <1>4, HasFacts, HasFactsNext DEF queues, Kinds, Lane
<1>6. OneKind' /\ SocketsOK'
  BY <1>1, <1>5, StillKeeps
<1>7. QueuesOK' /\ AcceptOK'
  BY <1>1 DEF QueuesOK, AcceptOK, queues, Elements, Distinct
<1> QED BY <1>3, <1>6, <1>7 DEF Owned

(* A worker ends the connection it owns.                                       *)
LEMMA DropOwned ==
  ASSUME IInv, NEW w \in Workers, NEW pc, pc \notin Busy, worker' = Become(w, pc, NoConn),
         worker[w].conn \in Conns => socket'[worker[w].conn] # "open",
         \A d \in Conns : d # worker[w].conn => socket'[d] = socket[d],
         UNCHANGED <<laneOf, accept, queues, streams>>
  PROVE  Owned'
<1>1. /\ QueuesOK /\ OneKind /\ WorkersOK /\ SocketsOK /\ AcceptOK /\ TypeOK
  BY DEF IInv, Owned
<1> DEFINE c == worker[w].conn
<1>2. worker'[w].pc = pc /\ worker'[w].conn = NoConn
  BY <1>1 DEF TypeOK, Become
<1>3. Stage(w)'
  BY <1>2 DEF Stage, Busy
<1>4. WorkersOK' /\ Has("worker")' = (Has("worker") \ {c}) \cup ({NoConn} \ {NoConn})
  BY <1>1, <1>3, WorkerStep
<1>5. Has("worker")' = Has("worker") \ {c}
  BY <1>4
<1>6. \A k \in Kinds \ {"worker"} : Has(k)' = Has(k)
  BY HasFacts, HasFactsNext DEF queues, Kinds, Lane
<1>7. OneKind' /\ SocketsOK'
  <2>1. CASE c = NoConn
    <3>1. \A k \in Kinds : Has(k)' = Has(k)
      BY <1>5, <1>6, <2>1, HasFacts DEF Carried
    <3>2. \A d \in Conns : socket'[d] = socket[d]
      BY <2>1, ListenerAssumption
    <3> QED BY <1>1, <3>1, <3>2, StillKeeps
  <2>2. CASE c # NoConn
    <3>1. c \in Conns /\ c \in Has("worker") /\ "worker" \in Kinds /\ "none" \notin Kinds
      BY <1>1, <2>2, HasFacts DEF TypeOK, Carried, Kinds, Lane
    <3> HIDE DEF c
    <3>2. Shift(c, "worker", "none")
      BY <1>5, <1>6, <3>1 DEF Shift
    <3>3. socket'[c] # "open" /\ \A d \in Conns \ {c} : socket'[d] = socket[d]
      BY <3>1 DEF c
    <3> QED BY <1>1, <3>1, <3>2, <3>3, ShiftKeeps
  <2> QED BY <2>1, <2>2
<1>8. QueuesOK' /\ AcceptOK'
  BY <1>1 DEF QueuesOK, AcceptOK, queues, Elements, Distinct
<1> QED BY <1>4, <1>7, <1>8 DEF Owned

(* A worker hands its connection on.                                           *)
LEMMA GiveOwned ==
  ASSUME IInv, NEW w \in Workers, NEW pc, pc \notin Busy, worker' = Become(w, pc, NoConn),
         worker[w].pc \in {"enqueue", "execute", "push"}, socket' = socket, accept' = accept,
         NEW k \in Kinds \ {"worker"}, Has(k)' = Has(k) \cup {worker[w].conn},
         \A m \in Kinds \ {"worker", k} : Has(m)' = Has(m), QueuesOK'
  PROVE  Owned'
<1>1. /\ QueuesOK /\ OneKind /\ WorkersOK /\ SocketsOK /\ AcceptOK /\ TypeOK
  BY DEF IInv, Owned
<1> DEFINE c == worker[w].conn
<1>2. c \in Conns /\ socket[c] = "open" /\ c \in Has("worker") /\ "worker" \in Kinds
  <2>1. c # NoConn /\ socket[c] = "open"
    BY <1>1 DEF WorkersOK, Stage, Busy
  <2>2. c \in Conns
    BY <1>1, <2>1 DEF TypeOK
  <2> QED BY <2>1, <2>2, HasFacts DEF Carried, Kinds
<1>3. worker'[w].pc = pc /\ worker'[w].conn = NoConn
  BY <1>1 DEF TypeOK, Become
<1>4. Stage(w)'
  BY <1>3 DEF Stage, Busy
<1>5. WorkersOK' /\ Has("worker")' = (Has("worker") \ {c}) \cup ({NoConn} \ {NoConn})
  BY <1>1, <1>4, WorkerStep
<1> HIDE DEF c
<1>6. Shift(c, "worker", k)
  BY <1>5 DEF Shift, c
<1>7. OneKind' /\ SocketsOK'
  BY <1>1, <1>2, <1>6, ShiftKeeps
<1> QED BY <1>1, <1>5, <1>7 DEF Owned, AcceptOK

(* The threads that notify, and every step that leaves the connections alone.  *)
LEMMA StillOwned ==
  ASSUME IInv, UNCHANGED <<laneOf, socket, queues, streams>>,
         accept'.conn = accept.conn, accept'.pc = "accepted" <=> accept.pc = "accepted",
         \A v \in Workers : worker'[v] = worker[v] \/ (worker'[v] = Idle /\ worker[v].conn = NoConn)
  PROVE  Owned'
<1>1. /\ QueuesOK /\ OneKind /\ WorkersOK /\ SocketsOK /\ AcceptOK /\ TypeOK
  BY DEF IInv, Owned
<1>2. WorkersOK' /\ Has("worker")' = Has("worker")
  BY <1>1, WorkersStill
<1>3. \A k \in Kinds : Has(k)' = Has(k)
  BY <1>2, HasFacts, HasFactsNext DEF queues, Kinds, Lane
<1>4. OneKind' /\ SocketsOK'
  BY <1>1, <1>3, StillKeeps
<1>5. QueuesOK' /\ AcceptOK'
  BY <1>1 DEF QueuesOK, AcceptOK, queues, Elements, Distinct
<1> QED BY <1>2, <1>4, <1>5 DEF Owned

(* A cancelled operation closes the socket under the worker that waits for it. *)
LEMMA CancelOwned == ASSUME IInv, NEW c \in Conns, CancelIo(c) PROVE Owned'
<1>1. /\ QueuesOK /\ OneKind /\ WorkersOK /\ SocketsOK /\ AcceptOK /\ TypeOK /\ OpsOK
  BY DEF IInv, Owned
<1>2. UNCHANGED <<laneOf, accept, queues, worker, streams>>
  BY DEF CancelIo
<1>3. CASE socket' = socket
  BY <1>2, <1>3, StillOwned
<1>4. CASE socket' = Close({c}) /\ op[c].st \in {"registered", "posted"}
  <2>1. PICK w \in Workers : worker[w].pc = "io" /\ worker[w].conn = c
    BY <1>1, <1>4 DEF OpsOK
  <2>2. c \in Has("worker")
    BY <2>1, HasFacts, ListenerAssumption DEF Carried
  <2>3. socket'[c] = "closed" /\ \A d \in Conns \ {c} : socket'[d] = socket[d]
    BY <1>4 DEF Close
  <2>4. Has("worker")' = Has("worker")
    <3>1. Carried' = Carried
      BY <1>2 DEF Carried
    <3> QED BY <3>1, HasFacts, HasFactsNext
  <2>5. \A k \in Kinds : Has(k)' = Has(k)
    BY <1>2, <2>4, HasFacts, HasFactsNext DEF queues, Kinds, Lane
  <2>6. OneKind' /\ SocketsOK'
    BY <1>1, <2>2, <2>3, <2>5, StillKeeps
  <2>7. ASSUME NEW v \in Workers PROVE Stage(v)'
    <3>1. CASE v = w
      BY <1>1, <1>2, <2>1, <2>3, <3>1 DEF WorkersOK, Stage
    <3>2. CASE v # w
      <4>1. worker[v].conn # NoConn => worker[v].conn # c
        BY <1>1, <2>1, <3>2 DEF WorkersOK
      <4>2. worker[v].conn \in Conns \cup {NoConn}
        BY <1>1 DEF TypeOK
      <4> QED BY <1>1, <1>2, <2>3, <4>1, <4>2 DEF WorkersOK, Stage
    <3> QED BY <3>1, <3>2
  <2>8. WorkersOK'
    BY <1>1, <1>2, <2>7 DEF WorkersOK
  <2>9. QueuesOK' /\ AcceptOK'
    BY <1>1, <1>2 DEF QueuesOK, AcceptOK, queues, Elements, Distinct
  <2> QED BY <2>6, <2>8, <2>9 DEF Owned
<1> QED BY <1>3, <1>4 DEF CancelIo

(* What a lane or the writer queue is given.                                   *)
LEMMA EnqueueOwned ==
  ASSUME IInv, NEW w \in Ingress, worker[w].pc = "enqueue", NEW l \in Lane,
         l = laneOf[worker[w].conn], lanes' = [lanes EXCEPT ![l] = Append(@, worker[w].conn)],
         worker' = Become(w, "notify", NoConn),
         UNCHANGED <<laneOf, socket, accept, pending, responses, streams>>
  PROVE  Owned'
<1> DEFINE c == worker[w].conn
<1>1. /\ QueuesOK /\ OneKind /\ WorkersOK /\ TypeOK /\ w \in Workers
  BY DEF IInv, Owned, Workers
<1>2. c \in Conns /\ c \in Has("worker") /\ l \in Kinds \ {"worker"} /\ "worker" \in Kinds
  <2>1. c # NoConn
    BY <1>1 DEF WorkersOK, Stage, Busy
  <2> QED BY <1>1, <2>1, HasFacts DEF TypeOK, Carried, Kinds, Lane
<1>3. c \notin Elements(lanes[l])
  BY <1>1, <1>2, HasFacts DEF OneKind
<1>4. lanes'[l] = Append(lanes[l], c) /\ \A m \in Lane \ {l} : lanes'[m] = lanes[m]
  BY <1>1 DEF TypeOK
<1>5. Elements(lanes'[l]) = Elements(lanes[l]) \cup {c} /\ Distinct(lanes'[l])
  BY <1>1, <1>2, <1>3, <1>4, AppendFacts DEF TypeOK, QueuesOK
<1>6. Has(l)' = Has(l) \cup {c}
  BY <1>5, HasFacts, HasFactsNext
<1>7. ASSUME NEW k \in Kinds \ {"worker", l} PROVE Has(k)' = Has(k)
  <2>1. CASE k \in Lane
    BY <1>4, <2>1, HasFacts, HasFactsNext
  <2>2. CASE k \notin Lane
    BY <2>2, HasFacts, HasFactsNext DEF Kinds
  <2> QED BY <2>1, <2>2
<1>8. QueuesOK'
  <2>1. l = laneOf[c]
    OBVIOUS
  <2> HIDE DEF c
  <2>2. ASSUME NEW m \in Lane
        PROVE  Distinct(lanes'[m]) /\ \A d \in Elements(lanes'[m]) : laneOf[d] = m
    BY <1>1, <1>4, <1>5, <2>1 DEF QueuesOK
  <2>3. Distinct(pending) /\ Distinct(responses)
    BY <1>1 DEF QueuesOK
  <2> QED BY <2>2, <2>3 DEF QueuesOK, Distinct, Elements
<1>9. "notify" \notin Busy
  BY DEF Busy
<1> QED BY <1>1, <1>2, <1>6, <1>7, <1>8, <1>9, GiveOwned

LEMMA PushOwned == ASSUME IInv, NEW w \in Lanes, Push(w) PROVE Owned'
<1> DEFINE c == worker[w].conn
<1>1. /\ QueuesOK /\ OneKind /\ WorkersOK /\ TypeOK /\ w \in Workers
      /\ UNCHANGED <<laneOf, socket, accept, pending, lanes, streams>>
      /\ responses' = Append(responses, c) /\ worker' = Become(w, "notify", NoConn)
      /\ worker[w].pc = "push"
  BY DEF IInv, Owned, Workers, Push
<1>2. c \in Conns /\ c \in Has("worker") /\ "responses" \in Kinds \ {"worker"} /\ "worker" \in Kinds
  <2>1. c # NoConn
    BY <1>1 DEF WorkersOK, Stage, Busy
  <2> QED BY <1>1, <2>1, HasFacts DEF TypeOK, Carried, Kinds, Lane
<1>3. c \notin Elements(responses)
  BY <1>1, <1>2, HasFacts DEF OneKind
<1>4. Elements(responses') = Elements(responses) \cup {c} /\ Distinct(responses')
  BY <1>1, <1>2, <1>3, AppendFacts DEF TypeOK, QueuesOK
<1>5. Has("responses")' = Has("responses") \cup {c}
  BY <1>4, HasFacts, HasFactsNext
<1>6. \A k \in Kinds \ {"worker", "responses"} : Has(k)' = Has(k)
  BY <1>1, HasFacts, HasFactsNext DEF Kinds, Lane
<1>7. QueuesOK'
  BY <1>1, <1>4 DEF QueuesOK, Distinct, Elements
<1>8. "notify" \notin Busy
  BY DEF Busy
<1> QED BY <1>1, <1>2, <1>5, <1>6, <1>7, <1>8, GiveOwned

LEMMA ExecuteOwned == ASSUME IInv, NEW w \in Lanes, Execute(w) PROVE Owned'
<1> DEFINE c == worker[w].conn
<1>1. /\ QueuesOK /\ OneKind /\ WorkersOK /\ TypeOK /\ w \in Workers /\ worker[w].pc = "execute"
      /\ UNCHANGED <<laneOf, accept, queues>>
  BY DEF IInv, Owned, Workers, Execute
<1>2. Loop(w) = Become(w, "loop", NoConn) /\ "loop" \notin Busy
  BY DEF Loop, Become, Idle, Busy
<1>3. CASE streams' = streams \cup {c} /\ worker' = Loop(w) /\ socket' = socket
  <2>1. "stream" \in Kinds \ {"worker"} /\ Has("stream")' = Has("stream") \cup {c}
    BY <1>3, HasFacts, HasFactsNext DEF Kinds
  <2>2. \A k \in Kinds \ {"worker", "stream"} : Has(k)' = Has(k)
    BY <1>1, HasFacts, HasFactsNext DEF Kinds, Lane, queues
  <2>3. QueuesOK'
    BY <1>1 DEF QueuesOK, Distinct, Elements, queues
  <2> QED BY <1>1, <1>2, <1>3, <2>1, <2>2, <2>3, GiveOwned
<1>4. CASE socket' = Close({c}) /\ worker' = Loop(w) /\ streams' = streams
  <2>1. /\ c \in Conns => socket'[c] # "open"
        /\ \A d \in Conns : d # c => socket'[d] = socket[d]
    BY <1>4 DEF Close
  <2> QED BY <1>1, <1>2, <1>4, <2>1, DropOwned
<1>5. CASE worker' = Step(w, "push") /\ socket' = socket /\ streams' = streams
  <2>1. worker'[w].pc = "push" /\ worker'[w].conn = c
    BY <1>1, <1>5 DEF TypeOK, Step
  <2>2. Stage(w)'
    BY <1>1, <1>5, <2>1 DEF WorkersOK, Stage, Busy
  <2> QED BY <1>1, <1>5, <2>2, StayOwned
<1> QED BY <1>3, <1>4, <1>5 DEF Execute

(* stop() empties a queue, or has the event service close its streams.          *)
LEMMA SweepOwned ==
  ASSUME IInv, NEW K \in SUBSET (Kinds \ {"worker"}), "accept" \notin K,
         \A k \in Kinds \ {"worker"} : Has(k)' = IF k \in K THEN {} ELSE Has(k),
         socket' = Close(UNION {Has(k) : k \in K}),
         UNCHANGED <<laneOf, accept, worker>>, QueuesOK'
  PROVE  Owned'
<1>1. /\ QueuesOK /\ OneKind /\ WorkersOK /\ SocketsOK /\ AcceptOK /\ TypeOK
  BY DEF IInv, Owned
<1>2. Has("worker")' = Has("worker")
  <2>1. Carried' = Carried
    BY DEF Carried
  <2> QED BY <2>1, HasFacts, HasFactsNext
<1>3. \A k \in Kinds : Has(k)' = IF k \in K THEN {} ELSE Has(k)
  BY <1>2
<1>4. /\ OneKind' /\ SocketsOK'
      /\ \A c \in Conns : c \in Has("worker") => socket'[c] = socket[c]
  BY <1>1, <1>3, SweepKeeps
<1>5. WorkersOK'
  BY <1>1, <1>4, WorkersStill
<1> QED BY <1>1, <1>4, <1>5 DEF Owned, AcceptOK

LEMMA WorkOwned == ASSUME IInv, NEW w \in Workers, Work(w) PROVE Owned'
<1>1. TypeOK /\ WorkersOK /\ worker[w].conn \in Conns \cup {NoConn}
  BY DEF IInv, Owned, TypeOK
<1>2. /\ Loop(w) = Become(w, "loop", NoConn) /\ "loop" \notin Busy
      /\ \A c : \A d \in Conns : Close({c})[d] = IF d = c THEN "closed" ELSE socket[d]
  BY DEF Loop, Become, Idle, Busy, Close
<1>3. ASSUME NEW pc, worker' = Step(w, pc)
      PROVE  worker'[w].pc = pc /\ worker'[w].conn = worker[w].conn
  BY <1>1, <1>3 DEF TypeOK, Step
<1>4. CASE Check(w) \/ Sleep(w) \/ Exit(w)
  <2>1. PICK pc \in {"checked", "waiting", "exited"} : worker' = Step(w, pc)
    BY <1>4 DEF Check, Sleep, Exit
  <2>2. /\ UNCHANGED <<laneOf, socket, accept, queues, streams>>
        /\ worker[w].pc \in {"loop", "checked"}
    BY <1>4 DEF Check, Sleep, Exit, AtLoop
  <2>3. Stage(w)'
    BY <1>1, <1>3, <2>1, <2>2 DEF WorkersOK, Stage, Busy
  <2> QED BY <2>1, <2>2, <2>3, StayOwned
<1>5. CASE Pop(w)
  BY <1>5, PopOwned
<1>6. CASE Register(w)
  <2>1. /\ UNCHANGED <<laneOf, socket, accept, queues, streams>>
        /\ worker[w].pc = "begin" /\ worker' = Step(w, "io")
    BY <1>6 DEF Register
  <2>2. Stage(w)'
    BY <1>1, <1>3, <2>1 DEF WorkersOK, Stage, Busy
  <2> QED BY <2>1, <2>2, StayOwned
<1>7. CASE Post(w)
  BY <1>7, StillOwned DEF Post
<1>8. CASE w \in Ingress /\ IngressRead(w)
  <2>1. /\ UNCHANGED <<laneOf, accept, queues, streams>> /\ worker[w].pc = "io"
        /\ \/ socket' = Close({worker[w].conn}) /\ worker' = Loop(w)
           \/ worker' = Step(w, "enqueue") /\ socket' = socket /\ socket[worker[w].conn] # "closed"
    BY <1>8 DEF IngressRead
  <2>2. CASE socket' = Close({worker[w].conn}) /\ worker' = Loop(w)
    <3>1. /\ worker[w].conn \in Conns => socket'[worker[w].conn] # "open"
          /\ \A d \in Conns : d # worker[w].conn => socket'[d] = socket[d]
      BY <1>2, <2>2
    <3> QED BY <1>2, <2>1, <2>2, <3>1, DropOwned
  <2>3. CASE worker' = Step(w, "enqueue") /\ socket' = socket /\ socket[worker[w].conn] # "closed"
    <3>1. Stage(w)'
      BY <1>1, <1>3, <1>8, <2>1, <2>3 DEF WorkersOK, Stage, Busy
    <3> QED BY <2>1, <2>3, <3>1, StayOwned
  <2> QED BY <2>1, <2>2, <2>3
<1>9. CASE w \in Ingress /\ IngressEnqueue(w)
  <2> DEFINE c == worker[w].conn
             l == laneOf[c]
  <2>1. /\ UNCHANGED <<laneOf, accept, pending, responses, streams>> /\ worker[w].pc = "enqueue"
        /\ \/ /\ lanes' = [lanes EXCEPT ![l] = Append(@, c)]
              /\ worker' = Become(w, "notify", NoConn) /\ socket' = socket
           \/ /\ socket' = [socket EXCEPT ![c] = "answered"] /\ worker' = Loop(w) /\ lanes' = lanes
    BY <1>9 DEF IngressEnqueue
  <2>2. c \in Conns /\ l \in Lane
    BY <1>1, <2>1 DEF WorkersOK, Stage, Busy, TypeOK
  <2>3. CASE /\ lanes' = [lanes EXCEPT ![l] = Append(@, c)]
             /\ worker' = Become(w, "notify", NoConn) /\ socket' = socket
    BY <1>9, <2>1, <2>2, <2>3, EnqueueOwned
  <2>4. CASE socket' = [socket EXCEPT ![c] = "answered"] /\ worker' = Loop(w) /\ lanes' = lanes
    <3>1. /\ c \in Conns => socket'[c] # "open"
          /\ \A d \in Conns : d # c => socket'[d] = socket[d]
      BY <1>1, <2>2, <2>4 DEF TypeOK
    <3>2. queues' = queues
      BY <2>1, <2>4 DEF queues
    <3> QED BY <1>2, <2>1, <2>4, <3>1, <3>2, DropOwned
  <2> QED BY <2>1, <2>3, <2>4
<1>10. CASE (w \in Ingress /\ IngressNotify(w)) \/ (w \in Lanes /\ PushNotify(w))
  <2>1. UNCHANGED <<laneOf, socket, accept, queues, streams>> /\ worker[w].pc = "notify"
    BY <1>10 DEF IngressNotify, PushNotify
  <2>2. \A v \in Workers : worker[v].pc \in {"waiting", "notify"} => worker[v].conn = NoConn
    BY <1>1 DEF WorkersOK, Stage, Busy
  <2>3. /\ worker' = [v \in Workers |-> worker'[v]]
        /\ \A v \in Workers : \/ worker'[v] = worker[v]
                              \/ worker'[v] = Idle /\ worker[v].pc \in {"waiting", "notify"}
    BY <1>1, <1>10, <2>1 DEF IngressNotify, PushNotify, Wake, Loop, TypeOK
  <2> QED BY <2>1, <2>2, <2>3, StillOwned
<1>11. CASE w \in Lanes /\ Prepare(w)
  <2>1. /\ UNCHANGED <<laneOf, socket, accept, queues, streams>> /\ worker[w].pc = "init"
        /\ worker' = Loop(w)
    BY <1>11 DEF Prepare
  <2>2. worker[w].conn = NoConn
    BY <1>1, <2>1 DEF WorkersOK, Stage, Busy
  <2>3. \A v \in Workers : worker'[v] = worker[v] \/ (worker'[v] = Idle /\ worker[v].conn = NoConn)
    BY <1>1, <2>1, <2>2 DEF Loop, TypeOK
  <2> QED BY <2>1, <2>3, StillOwned
<1>12. CASE w \in Lanes /\ Execute(w)
  BY <1>12, ExecuteOwned
<1>13. CASE w \in Lanes /\ Push(w)
  BY <1>13, PushOwned
<1>14. CASE w \in Writers /\ Written(w)
  <2> DEFINE c == worker[w].conn
  <2>1. /\ UNCHANGED <<laneOf, accept, queues, streams>> /\ worker' = Loop(w)
        /\ socket' = [socket EXCEPT ![c] =
             IF @ = "closed" \/ client[c] = "left" THEN "closed" ELSE "answered"]
    BY <1>14 DEF Written
  <2>2. /\ c \in Conns => socket'[c] # "open"
        /\ \A d \in Conns : d # c => socket'[d] = socket[d]
    BY <1>1, <2>1 DEF TypeOK
  <2> QED BY <1>2, <2>1, <2>2, DropOwned
<1> QED
  BY <1>4, <1>5, <1>6, <1>7, <1>8, <1>9, <1>10, <1>11, <1>12, <1>13, <1>14
     DEF Work, WaitLoop, IngressWork, LaneWork

LEMMA StopOwned == ASSUME IInv, NEW t \in Threads, Stop(t) PROVE Owned'
<1>1. TypeOK /\ QueuesOK /\ AcceptOK /\ WorkersOK
  BY DEF IInv, Owned
<1>2. CASE StopEvents(t)
  <2>1. /\ UNCHANGED <<laneOf, accept, worker, queues>> /\ streams' = {}
        /\ socket' = Close(streams)
    BY <1>2 DEF StopEvents
  <2>2. UNION {Has(k) : k \in {"stream"}} = streams
    BY HasFacts
  <2>3. \A k \in Kinds \ {"worker"} : Has(k)' = IF k \in {"stream"} THEN {} ELSE Has(k)
    BY <2>1, HasFacts, HasFactsNext DEF Kinds, Lane, queues
  <2>4. QueuesOK'
    BY <1>1, <2>1 DEF QueuesOK, Distinct, Elements, queues
  <2> QED BY <2>1, <2>2, <2>3, <2>4, SweepOwned DEF Kinds
<1>3. CASE StopPending(t)
  <2>1. /\ UNCHANGED <<laneOf, accept, worker, lanes, responses, streams>> /\ pending' = <<>>
        /\ socket' = Close(Elements(pending))
    BY <1>3 DEF StopPending
  <2>2. UNION {Has(k) : k \in {"pending"}} = Elements(pending)
    BY HasFacts
  <2>3. \A k \in Kinds \ {"worker"} : Has(k)' = IF k \in {"pending"} THEN {} ELSE Has(k)
    BY <2>1, EmptyFacts, HasFacts, HasFactsNext DEF Kinds, Lane
  <2>4. QueuesOK'
    BY <1>1, <2>1, EmptyFacts DEF QueuesOK, Distinct, Elements
  <2> QED BY <2>1, <2>2, <2>3, <2>4, SweepOwned DEF Kinds
<1>4. CASE StopLanes(t)
  <2>1. /\ UNCHANGED <<laneOf, accept, worker, pending, responses, streams>>
        /\ lanes' = [l \in Lane |-> <<>>]
        /\ socket' = Close(UNION {Elements(lanes[l]) : l \in Lane})
    BY <1>4 DEF StopLanes
  <2>2. UNION {Has(k) : k \in Lane} = UNION {Elements(lanes[l]) : l \in Lane}
    BY HasFacts
  <2>3. \A l \in Lane : lanes'[l] = <<>> /\ Elements(lanes'[l]) = {}
    BY <2>1, EmptyFacts
  <2>4. \A k \in Kinds \ {"worker"} : Has(k)' = IF k \in Lane THEN {} ELSE Has(k)
    BY <2>1, <2>3, HasFacts, HasFactsNext DEF Kinds, Lane
  <2>5. QueuesOK'
    <3>1. \A l \in Lane : Distinct(lanes'[l])
      BY <2>3, EmptyFacts
    <3> QED BY <1>1, <2>1, <2>3, <3>1 DEF QueuesOK, Distinct, Elements
  <2> QED BY <2>1, <2>2, <2>4, <2>5, SweepOwned DEF Kinds, Lane
<1>5. CASE StopResponses(t)
  <2>1. /\ UNCHANGED <<laneOf, accept, worker, lanes, pending, streams>> /\ responses' = <<>>
        /\ socket' = Close(Elements(responses))
    BY <1>5 DEF StopResponses
  <2>2. UNION {Has(k) : k \in {"responses"}} = Elements(responses)
    BY HasFacts
  <2>3. \A k \in Kinds \ {"worker"} : Has(k)' = IF k \in {"responses"} THEN {} ELSE Has(k)
    BY <2>1, EmptyFacts, HasFacts, HasFactsNext DEF Kinds, Lane
  <2>4. QueuesOK'
    BY <1>1, <2>1, EmptyFacts DEF QueuesOK, Distinct, Elements
  <2> QED BY <2>1, <2>2, <2>3, <2>4, SweepOwned DEF Kinds
<1>6. CASE StopCancel(t)
  BY <1>6, StillOwned DEF StopCancel
<1>7. CASE StopNotify(t)
  <2>1. /\ UNCHANGED <<laneOf, socket, queues, streams>> /\ worker' = Wake(Workers)
        /\ accept'.conn = accept.conn
        /\ accept'.pc = "accepted" <=> accept.pc = "accepted"
    BY <1>1, <1>7 DEF StopNotify, TypeOK
  <2>2. \A v \in Workers : worker[v].pc = "waiting" => worker[v].conn = NoConn
    BY <1>1 DEF WorkersOK, Stage, Busy
  <2>3. \A v \in Workers : worker'[v] = worker[v] \/ (worker'[v] = Idle /\ worker[v].conn = NoConn)
    BY <2>1, <2>2 DEF Wake
  <2> QED BY <2>1, <2>3, StillOwned
<1> QED BY <1>2, <1>3, <1>4, <1>5, <1>6, <1>7 DEF Stop

LEMMA NextOwned == IInv /\ [Next]_vars => Owned'
<1> SUFFICES ASSUME IInv, [Next]_vars PROVE Owned'
  OBVIOUS
<1>1. ASSUME NEW c \in Conns, Send(c) \/ Leave(c) \/ ImportEnds(c) PROVE Owned'
  BY <1>1, StillOwned DEF Send, Leave, ImportEnds
<1>2. ASSUME NEW c \in Conns, Accept(c) PROVE Owned'
  BY <1>2, AcceptOwned
<1>3. ASSUME NEW w \in Workers, Work(w) PROVE Owned'
  BY <1>3, WorkOwned
<1>4. ASSUME NEW w \in Lanes, Fail(w) PROVE Owned'
  <2>1. /\ w \in Workers /\ UNCHANGED <<laneOf, accept, queues, streams>>
        /\ worker' = Become(w, "exited", NoConn) /\ "exited" \notin Busy
        /\ socket' = Close({worker[w].conn})
    BY <1>4 DEF Workers, Fail, Busy
  <2>2. /\ worker[w].conn \in Conns => socket'[worker[w].conn] # "open"
        /\ \A d \in Conns : d # worker[w].conn => socket'[d] = socket[d]
    BY <2>1 DEF Close
  <2> QED BY <2>1, <2>2, DropOwned
<1>5. CASE AcceptEnqueue
  BY <1>5, AcceptEnqueueOwned
<1>6. CASE OutOfWork \/ JoinWorkers \/ Return
  BY <1>6, StillOwned DEF OutOfWork, JoinWorkers, Return
<1>7. ASSUME NEW c \in Conns, CancelIo(c) PROVE Owned'
  BY <1>7, CancelOwned
<1>8. ASSUME NEW w \in Workers, FinishIo(w) PROVE Owned'
  BY <1>8, StillOwned DEF FinishIo
<1>9. ASSUME NEW t \in Threads, StopEnter(t) PROVE Owned'
  BY <1>9, StillOwned DEF StopEnter
<1>10. ASSUME NEW t \in Threads, Stop(t) PROVE Owned'
  BY <1>10, StopOwned
<1>11. CASE UNCHANGED vars
  BY <1>11, StillOwned DEF vars, queues
<1>12. ASSUME NEW c \in Conns, Poll(c) PROVE Owned'
  BY <1>12, StillOwned DEF Poll, PollStart, PollEnds
<1> QED
  BY <1>1, <1>2, <1>3, <1>4, <1>5, <1>6, <1>7, <1>8, <1>9, <1>10, <1>11, <1>12 DEF Next, IoThreads

-----------------------------------------------------------------------------
(* Operations and the shutdown                                                *)

(* A worker that waits for an operation goes on only when the operation is gone. *)
LEMMA NextOps == IInv /\ [Next]_vars => OpsOK'
<1> SUFFICES ASSUME IInv, [Next]_vars PROVE OpsOK'
  OBVIOUS
<1>1. OpsOK /\ TypeOK /\ WorkersOK
  BY DEF IInv, Owned
<1>2. ASSUME \A c \in Conns : op'[c].st # "none" => op[c].st # "none",
             \A v \in Workers : worker[v].pc = "io" => worker'[v] = worker[v]
      PROVE  OpsOK'
  BY <1>1, <1>2 DEF OpsOK
<1>3. ASSUME NEW w \in Workers, worker[w].pc # "io", NEW r, worker' = [worker EXCEPT ![w] = r],
             op' = op
      PROVE  OpsOK'
  <2>1. \A v \in Workers : worker[v].pc = "io" => worker'[v] = worker[v]
    BY <1>1, <1>3 DEF TypeOK
  <2> QED BY <1>2, <1>3, <2>1
<1>4. CASE worker' = worker /\ op' = op
  BY <1>2, <1>4
<1>5. ASSUME op' = op, \A v \in Workers : worker'[v] = worker[v] \/ worker[v].pc \in {"waiting", "notify"}
      PROVE  OpsOK'
  BY <1>2, <1>5
<1>6. ASSUME NEW w \in Workers, worker[w].pc = "io", NEW r, worker' = [worker EXCEPT ![w] = r],
             op' = [op EXCEPT ![worker[w].conn].st = "none"]
      PROVE  OpsOK'
  <2>1. worker[w].conn \in Conns
    BY <1>1, <1>6 DEF WorkersOK, Stage, Busy, TypeOK
  <2>2. /\ op'[worker[w].conn].st = "none"
        /\ \A c \in Conns \ {worker[w].conn} : op'[c] = op[c]
        /\ \A v \in Workers \ {w} : worker'[v] = worker[v]
    BY <1>1, <1>6, <2>1 DEF TypeOK
  <2> QED BY <1>1, <2>2 DEF OpsOK
<1>7. ASSUME NEW c \in Conns, Send(c) \/ Leave(c) \/ ImportEnds(c) \/ Poll(c) \/ Accept(c)
      PROVE  OpsOK'
  BY <1>4, <1>7 DEF Send, Leave, ImportEnds, Poll, PollStart, PollEnds, Accept
<1>8. ASSUME NEW w \in Workers, Check(w) \/ Sleep(w) \/ Exit(w) \/ Pop(w) \/ Prepare(w) \/ Push(w)
      PROVE  OpsOK'
  <2>1. op' = op /\ worker[w].pc # "io"
    BY <1>8 DEF Check, Sleep, Exit, Pop, Prepare, Push, AtLoop
  <2>2. \E r : worker' = [worker EXCEPT ![w] = r]
    BY <1>8 DEF Check, Sleep, Exit, Pop, Prepare, Push, Step, Loop, Become
  <2> QED BY <1>3, <2>1, <2>2
<1>9. ASSUME NEW w \in Workers, IngressEnqueue(w) \/ Execute(w) \/ Fail(w) PROVE OpsOK'
  <2>1. op' = op /\ worker[w].pc # "io"
    BY <1>9 DEF IngressEnqueue, Execute, Fail
  <2>2. \E r : worker' = [worker EXCEPT ![w] = r]
    BY <1>9 DEF IngressEnqueue, Execute, Fail, Step, Loop, Become
  <2> QED BY <1>3, <2>1, <2>2
<1>10. ASSUME NEW w \in Workers, Register(w) PROVE OpsOK'
  <2> DEFINE c == worker[w].conn
  <2>1. worker[w].pc = "begin" /\ c \in Conns
    BY <1>1, <1>10 DEF Register, WorkersOK, Stage, Busy, TypeOK
  <2>2. /\ worker'[w].pc = "io" /\ worker'[w].conn = c
        /\ \A v \in Workers \ {w} : worker'[v] = worker[v]
        /\ \A d \in Conns \ {c} : op'[d] = op[d]
    BY <1>1, <1>10, <2>1 DEF Register, Step, TypeOK
  <2> QED BY <1>1, <2>1, <2>2 DEF OpsOK
<1>11. ASSUME NEW w \in Workers, Post(w) \/ FinishIo(w) PROVE OpsOK'
  <2> DEFINE c == worker[w].conn
  <2>1. worker[w].pc = "io" /\ op[c].st # "none" /\ worker' = worker
    BY <1>11 DEF Post, FinishIo
  <2>2. c \in Conns
    BY <1>1, <2>1 DEF WorkersOK, Stage, Busy, TypeOK
  <2>3. \A d \in Conns \ {c} : op'[d] = op[d]
    BY <1>1, <1>11, <2>2 DEF Post, FinishIo, TypeOK
  <2> QED BY <1>2, <2>1, <2>3
<1>12. ASSUME NEW w \in Workers, IngressRead(w) \/ Written(w) PROVE OpsOK'
  <2>1. worker[w].pc = "io" /\ op' = [op EXCEPT ![worker[w].conn].st = "none"]
    BY <1>12 DEF IngressRead, Written
  <2>2. \E r : worker' = [worker EXCEPT ![w] = r]
    BY <1>12 DEF IngressRead, Written, Step, Loop
  <2> QED BY <1>6, <2>1, <2>2
<1>13. ASSUME NEW w \in Workers, IngressNotify(w) \/ (w \in Lanes /\ PushNotify(w)) PROVE OpsOK'
  <2>1. op' = op
    BY <1>13 DEF IngressNotify, PushNotify
  <2>2. \A v \in Workers : worker'[v] = worker[v] \/ worker[v].pc \in {"waiting", "notify"}
    BY <1>1, <1>13 DEF IngressNotify, PushNotify, Wake, Loop, TypeOK
  <2> QED BY <1>5, <2>1, <2>2
<1>14. CASE AcceptEnqueue
  <2>1. op' = op /\ \A v \in Workers : worker'[v] = worker[v] \/ worker[v].pc \in {"waiting", "notify"}
    BY <1>14 DEF AcceptEnqueue, Wake
  <2> QED BY <1>5, <2>1
<1>15. ASSUME NEW c \in Conns, CancelIo(c) PROVE OpsOK'
  <2>1. worker' = worker /\ \A d \in Conns : op'[d].st = op[d].st
    BY <1>1, <1>15 DEF CancelIo, TypeOK
  <2> QED BY <1>2, <2>1
<1>16. ASSUME NEW t \in Threads, StopEnter(t) \/ Stop(t) PROVE OpsOK'
  <2>1. CASE StopCancel(t)
    <3>1. worker' = worker /\ \A d \in Conns : op'[d].st = op[d].st
      BY <1>1, <2>1 DEF StopCancel, TypeOK
    <3> QED BY <1>2, <3>1
  <2>2. CASE StopNotify(t)
    <3>1. op' = op /\ \A v \in Workers : worker'[v] = worker[v] \/ worker[v].pc \in {"waiting", "notify"}
      BY <2>2 DEF StopNotify, Wake
    <3> QED BY <1>5, <3>1
  <2>3. CASE StopEnter(t) \/ StopEvents(t) \/ StopPending(t) \/ StopLanes(t) \/ StopResponses(t)
    BY <1>4, <2>3 DEF StopEnter, StopEvents, StopPending, StopLanes, StopResponses
  <2> QED BY <1>16, <2>1, <2>2, <2>3 DEF Stop
<1>17. CASE OutOfWork \/ JoinWorkers \/ Return \/ UNCHANGED vars
  BY <1>4, <1>17 DEF OutOfWork, JoinWorkers, Return, vars
<1> QED
  BY <1>7, <1>8, <1>9, <1>10, <1>11, <1>12, <1>13, <1>14, <1>15, <1>16, <1>17
     DEF Next, Work, WaitLoop, IngressWork, LaneWork, IoThreads, Workers

(* A worker that has left its function does not come back.                     *)
LEMMA ExitedStays ==
  ASSUME IInv, [Next]_vars, NEW w \in Workers, worker[w].pc = "exited"
  PROVE  worker'[w] = worker[w]
<1>1. TypeOK
  BY DEF IInv
<1>2. ASSUME NEW v \in Workers, NEW r, worker[v].pc # "exited", worker' = [worker EXCEPT ![v] = r]
      PROVE  worker'[w] = worker[w]
  BY <1>1, <1>2 DEF TypeOK
<1>3. ASSUME NEW v \in Workers, Work(v) PROVE worker'[w] = worker[w]
  <2>1. CASE WaitLoop(v) \/ Register(v) \/ Post(v)
    <3>1. CASE Post(v)
      BY <3>1 DEF Post
    <3>2. CASE WaitLoop(v) \/ Register(v)
      <4>1. worker[v].pc # "exited"
        BY <3>2 DEF WaitLoop, Check, Sleep, Exit, Pop, Register, AtLoop
      <4>2. \E r : worker' = [worker EXCEPT ![v] = r]
        BY <3>2 DEF WaitLoop, Check, Sleep, Exit, Pop, Register, Step, Loop, Become
      <4> QED BY <1>2, <4>1, <4>2
    <3> QED BY <2>1, <3>1, <3>2
  <2>2. CASE IngressNotify(v) \/ (v \in Lanes /\ PushNotify(v))
    BY <1>1, <2>2 DEF IngressNotify, PushNotify, Wake, Loop, TypeOK
  <2>3. CASE IngressRead(v) \/ IngressEnqueue(v) \/ Written(v)
    <3>1. worker[v].pc # "exited"
      BY <2>3 DEF IngressRead, IngressEnqueue, Written
    <3>2. \E r : worker' = [worker EXCEPT ![v] = r]
      BY <2>3 DEF IngressRead, IngressEnqueue, Written, Step, Loop, Become
    <3> QED BY <1>2, <3>1, <3>2
  <2>4. CASE Prepare(v) \/ Execute(v) \/ Push(v)
    <3>1. worker[v].pc # "exited"
      BY <2>4 DEF Prepare, Execute, Push
    <3>2. \E r : worker' = [worker EXCEPT ![v] = r]
      BY <2>4 DEF Prepare, Execute, Push, Step, Loop, Become
    <3> QED BY <1>2, <3>1, <3>2
  <2> QED BY <1>3, <2>1, <2>2, <2>3, <2>4 DEF Work, IngressWork, LaneWork
<1>4. ASSUME NEW v \in Lanes, Fail(v) PROVE worker'[w] = worker[w]
  BY <1>2, <1>4 DEF Fail, Become, Workers
<1>5. CASE AcceptEnqueue \/ \E t \in Threads : StopNotify(t)
  BY <1>5 DEF AcceptEnqueue, StopNotify, Wake
<1>6. CASE \E c \in Conns : Send(c) \/ Leave(c) \/ ImportEnds(c) \/ Poll(c) \/ Accept(c) \/ CancelIo(c)
  BY <1>6 DEF Send, Leave, ImportEnds, Poll, PollStart, PollEnds, Accept, CancelIo
<1>7. ASSUME NEW t \in Threads, StopEnter(t) \/ Stop(t), ~StopNotify(t) PROVE worker' = worker
  BY <1>7 DEF StopEnter, Stop, StopEvents, StopPending, StopLanes, StopResponses, StopCancel
<1>8. CASE OutOfWork \/ JoinWorkers \/ Return \/ UNCHANGED vars
  BY <1>8 DEF OutOfWork, JoinWorkers, Return, vars
<1>9. ASSUME NEW v \in Workers, FinishIo(v) PROVE worker' = worker
  BY <1>9 DEF FinishIo
<1> QED
  BY <1>3, <1>4, <1>5, <1>6, <1>7, <1>8, <1>9 DEF Next, IoThreads

LEMMA NextStop == IInv /\ [Next]_vars => StopOK'
<1> SUFFICES ASSUME IInv, [Next]_vars PROVE StopOK'
  OBVIOUS
<1>1. StopOK /\ TypeOK /\ WorkersOK /\ "main" \in Threads
  BY ListenerAssumption DEF IInv, Owned
<1>2. (\A w \in Workers : worker[w].pc = "exited") => \A w \in Workers : worker'[w].pc = "exited"
  BY ExitedStays
<1>3. CASE UNCHANGED <<stop, eventsStopped, thread>>
           /\ (eventsStopped => streams' \subseteq streams)
           /\ (thread["main"] = "returned" =>
                 imports' \subseteq imports /\ polls' \subseteq polls /\ (io' => io))
  BY <1>1, <1>2, <1>3 DEF StopOK
<1>4. ASSUME NEW w \in Workers, Execute(w) PROVE StopOK'
  <2>1. thread["main"] # "returned"
    BY <1>1, <1>4 DEF Execute, StopOK
  <2>2. UNCHANGED <<stop, eventsStopped, thread>> /\ (eventsStopped => streams' = streams)
    BY <1>4 DEF Execute
  <2> QED BY <1>3, <2>1, <2>2
<1>5. ASSUME NEW c \in Conns, Send(c) \/ Leave(c) \/ ImportEnds(c) \/ Accept(c) \/ CancelIo(c)
      PROVE  StopOK'
  <2>1. UNCHANGED <<stop, eventsStopped, thread, streams, polls, io>> /\ imports' \subseteq imports
    BY <1>5 DEF Send, Leave, ImportEnds, Accept, CancelIo
  <2> QED BY <1>3, <2>1
<1>6. ASSUME NEW w \in Workers, WaitLoop(w) \/ Register(w) \/ Post(w) \/ FinishIo(w) PROVE StopOK'
  <2>1. UNCHANGED <<stop, eventsStopped, thread, streams, imports, polls, io>>
    BY <1>6 DEF WaitLoop, Check, Sleep, Exit, Pop, Register, Post, FinishIo
  <2> QED BY <1>3, <2>1
<1>7. ASSUME NEW w \in Workers, IngressWork(w) \/ Prepare(w) \/ Push(w) \/ PushNotify(w) \/ Written(w)
      PROVE  StopOK'
  <2>1. UNCHANGED <<stop, eventsStopped, thread, streams, imports, polls, io>>
    BY <1>7 DEF IngressWork, IngressRead, IngressEnqueue, IngressNotify, Prepare, Push,
                PushNotify, Written
  <2> QED BY <1>3, <2>1
<1>8. ASSUME NEW w \in Lanes, Fail(w) PROVE StopOK'
  BY <1>3, <1>8 DEF Fail
<1>9. CASE AcceptEnqueue \/ OutOfWork \/ UNCHANGED vars
  <2>1. UNCHANGED <<stop, eventsStopped, thread, streams, imports, polls>> /\ (io' => io)
    BY <1>9 DEF AcceptEnqueue, OutOfWork, vars
  <2> QED BY <1>3, <2>1
<1>10. ASSUME NEW t \in Threads, StopEnter(t) PROVE StopOK'
  <2>1. /\ thread[t] = "run" /\ stop' = TRUE
        /\ UNCHANGED <<eventsStopped, streams, imports, polls, io, worker>>
        /\ thread'[t] = IF stop THEN "join" ELSE "events"
        /\ \A u \in Threads \ {t} : thread'[u] = thread[u]
    BY <1>1, <1>10 DEF StopEnter, TypeOK
  <2>2. eventsStopped' \/ \E u \in Threads : thread'[u] = "events"
    <3>1. CASE stop
      BY <1>1, <2>1, <3>1 DEF StopOK
    <3>2. CASE ~stop
      BY <2>1, <3>2
    <3> QED BY <3>1, <3>2
  <2> QED BY <1>1, <2>1, <2>2 DEF StopOK
<1>11. ASSUME NEW t \in Threads, NEW pc \in {"pending", "lanes", "responses", "cancel", "notify", "join"},
              thread[t] \notin {"run", "imports", "returned"}, thread' = [thread EXCEPT ![t] = pc],
              thread[t] = "events" => eventsStopped' /\ streams' = {},
              thread[t] # "events" => UNCHANGED <<eventsStopped, streams>>,
              UNCHANGED <<stop, imports, polls, io>>
       PROVE  StopOK'
  <2>1. thread'[t] = pc /\ \A u \in Threads \ {t} : thread'[u] = thread[u]
    BY <1>1, <1>11 DEF TypeOK
  <2> QED BY <1>1, <1>2, <1>11, <2>1 DEF StopOK
<1>12. ASSUME NEW t \in Threads, Stop(t) PROVE StopOK'
  <2>1. CASE StopEvents(t)
    BY <1>11, <2>1 DEF StopEvents
  <2>2. CASE StopPending(t) \/ StopLanes(t)
    BY <1>11, <2>2 DEF StopPending, StopLanes
  <2>3. CASE StopResponses(t) \/ StopCancel(t) \/ StopNotify(t)
    BY <1>11, <2>3 DEF StopResponses, StopCancel, StopNotify
  <2> QED BY <1>12, <2>1, <2>2, <2>3 DEF Stop
<1>13. CASE JoinWorkers
  <2>1. /\ thread'["main"] = "imports" /\ thread["main"] = "join"
        /\ \A u \in Threads \ {"main"} : thread'[u] = thread[u]
        /\ UNCHANGED <<stop, eventsStopped, streams, worker>>
        /\ \A w \in Workers : worker[w].pc = "exited"
    BY <1>1, <1>13 DEF JoinWorkers, TypeOK
  <2> QED BY <1>1, <2>1 DEF StopOK
<1>14. CASE Return
  <2>1. /\ thread'["main"] = "returned" /\ thread["main"] = "imports" /\ imports' = {}
        /\ polls' = {} /\ io' = FALSE
        /\ \A u \in Threads \ {"main"} : thread'[u] = thread[u]
        /\ UNCHANGED <<stop, eventsStopped, streams, worker>>
    BY <1>1, <1>14 DEF Return, TypeOK
  <2> QED BY <1>1, <2>1 DEF StopOK
<1>15. ASSUME NEW c \in Conns, Poll(c) PROVE StopOK'
  <2>1. UNCHANGED <<stop, eventsStopped, thread, streams, imports, io>>
    BY <1>15 DEF Poll, PollStart, PollEnds
  <2>2. thread["main"] = "returned" => polls' \subseteq polls
    BY <1>1, <1>15 DEF Poll, PollStart, PollEnds, StopOK
  <2> QED BY <1>3, <2>1, <2>2
<1> QED
  BY <1>4, <1>5, <1>6, <1>7, <1>8, <1>9, <1>10, <1>12, <1>13, <1>14, <1>15
     DEF Next, Work, LaneWork, IoThreads

-----------------------------------------------------------------------------
(* Types                                                                      *)

WorkerPc == {"init", "loop", "checked", "waiting", "begin", "io", "enqueue", "notify",
             "execute", "push", "exited"}
WorkerType == [Workers -> [pc : WorkerPc, conn : Conns \cup {NoConn}]]

LEMMA WorkerTypes ==
  ASSUME worker \in WorkerType, NEW w \in Workers, NEW pc \in WorkerPc
  PROVE  /\ Step(w, pc) \in WorkerType /\ Loop(w) \in WorkerType
         /\ \A c \in Conns \cup {NoConn} : Become(w, pc, c) \in WorkerType
<1>1. Idle \in [pc : WorkerPc, conn : Conns \cup {NoConn}]
  BY DEF Idle, WorkerPc
<1>2. Loop(w) \in WorkerType
  BY <1>1 DEF Loop, WorkerType
<1>3. \A c \in Conns \cup {NoConn} : Become(w, pc, c) \in WorkerType
  BY DEF Become, WorkerType
<1>4. Step(w, pc) \in WorkerType
  BY DEF Step, WorkerType
<1> QED BY <1>2, <1>3, <1>4

(* The workers whose condition variable is notified.                           *)
LEMMA WakeTypes ==
  ASSUME worker \in WorkerType, NEW group
  PROVE  /\ Wake(group) \in WorkerType
         /\ \A w \in Workers : [Wake(group) EXCEPT ![w] = Idle] \in WorkerType
<1>1. Idle \in [pc : WorkerPc, conn : Conns \cup {NoConn}]
  BY DEF Idle, WorkerPc
<1>2. Wake(group) \in WorkerType
  BY <1>1 DEF Wake, WorkerType
<1> HIDE DEF Wake
<1> QED BY <1>1, <1>2 DEF WorkerType

LEMMA NextTypes == IInv /\ [Next]_vars => TypeOK'
<1> SUFFICES ASSUME IInv, [Next]_vars PROVE TypeOK'
  OBVIOUS
<1>1. TypeOK /\ WorkersOK /\ QueuesOK /\ AcceptOK /\ worker \in WorkerType
  BY DEF IInv, Owned, TypeOK, WorkerType, WorkerPc
<1> DEFINE Socket == [Conns -> {"none", "open", "answered", "closed"}]
           Op == [st : {"none", "registered", "posted", "done"}, cancel : BOOLEAN, late : BOOLEAN]
           Pc == {"run", "events", "pending", "lanes", "responses", "cancel", "notify", "join",
                  "imports", "returned"}
<1>2. ASSUME laneOf' = laneOf,
             client' \in [Conns -> {"away", "idle", "sent", "gone", "left"}],
             socket' \in Socket,
             accept' \in [pc : {"armed", "accepted", "off"}, conn : Conns \cup {NoConn}],
             pending' \in Seq(Conns), lanes' \in [Lane -> Seq(Conns)], responses' \in Seq(Conns),
             worker' \in WorkerType, op' \in [Conns -> Op],
             streams' \subseteq Conns, imports' \subseteq Conns, polls' \subseteq Conns,
             eventsStopped' \in BOOLEAN, io' \in BOOLEAN, stop' \in BOOLEAN, failed' \in BOOLEAN,
             thread' \in [Threads -> Pc]
      PROVE  TypeOK'
  BY <1>1, <1>2 DEF TypeOK, WorkerType, WorkerPc
<1>3. /\ socket \in Socket /\ op \in [Conns -> Op] /\ thread \in [Threads -> Pc]
      /\ \A cs : Close(cs) \in Socket
      /\ \A c \in Conns, st \in {"open", "answered", "closed"} : [socket EXCEPT ![c] = st] \in Socket
      /\ \A w \in Workers : worker[w].pc \in Busy => worker[w].conn \in Conns
  <2>1. \A w \in Workers : worker[w].pc \in Busy => worker[w].conn \in Conns
    BY <1>1 DEF TypeOK, WorkersOK, Stage
  <2>2. \A cs : Close(cs) \in Socket
    BY <1>1 DEF TypeOK, Close
  <2>3. socket \in Socket /\ op \in [Conns -> Op] /\ thread \in [Threads -> Pc]
    BY <1>1 DEF TypeOK
  <2> QED BY <2>1, <2>2, <2>3
<1> HIDE DEF Socket, Op, Pc
<1>4. ASSUME NEW c \in Conns, Send(c) \/ Leave(c) \/ ImportEnds(c) \/ Poll(c) PROVE TypeOK'
  <2>1. CASE Send(c)
    BY <1>1, <1>4, <2>1 DEF Send, TypeOK, queues
  <2>2. CASE Leave(c)
    BY <1>1, <1>4, <2>2 DEF Leave, TypeOK, queues
  <2>3. CASE ImportEnds(c)
    BY <1>1, <1>4, <2>3 DEF ImportEnds, TypeOK, queues
  <2>4. CASE Poll(c)
    BY <1>1, <1>4, <2>4 DEF Poll, PollStart, PollEnds, TypeOK, queues
  <2> QED BY <1>4, <2>1, <2>2, <2>3, <2>4
<1>5. ASSUME NEW c \in Conns, Accept(c) PROVE TypeOK'
  <2>1. /\ socket' \in Socket
        /\ accept' \in [pc : {"armed", "accepted", "off"}, conn : Conns \cup {NoConn}]
    <3>1. \E st \in {"open", "closed"} : socket' = [socket EXCEPT ![c] = st]
      BY <1>5 DEF Accept
    <3>2. socket' \in Socket
      BY <1>3, <3>1
    <3> QED BY <1>5, <3>2 DEF Accept
  <2>2. client' \in [Conns -> {"away", "idle", "sent", "gone", "left"}]
    BY <1>1, <1>5 DEF Accept, TypeOK
  <2>3. UNCHANGED <<laneOf, imports, polls, queues, worker, op, streams, eventsStopped, io, stop, failed,
                    thread>>
    BY <1>5 DEF Accept
  <2> QED BY <1>1, <2>1, <2>2, <2>3 DEF TypeOK, queues, Socket
<1>6. ASSUME NEW w \in Workers, Check(w) \/ Sleep(w) \/ Exit(w) \/ Prepare(w) PROVE TypeOK'
  <2>1. worker' \in WorkerType
    BY <1>1, <1>6, WorkerTypes DEF Check, Sleep, Exit, Prepare, WorkerPc
  <2>2. UNCHANGED <<laneOf, imports, polls, client, socket, accept, queues, op, streams, eventsStopped,
                    io, stop, failed, thread>>
    BY <1>6 DEF Check, Sleep, Exit, Prepare
  <2> QED BY <1>1, <2>1, <2>2 DEF TypeOK, WorkerType, WorkerPc, queues
<1>7. ASSUME NEW w \in Workers, Pop(w) PROVE TypeOK'
  <2> DEFINE c == Head(Inbox(w))
  <2>1. /\ c \in Conns
        /\ IF w \in Ingress THEN pending # <<>>
           ELSE IF w \in Writers THEN responses # <<>> ELSE lanes[laneOf[c]] # <<>>
    BY <1>7, InboxFacts DEF Pop
  <2>2. /\ worker' = Loop(w) \/ worker' = Become(w, IF w \in Lanes THEN "execute" ELSE "begin", c)
        /\ socket' = Close({c}) \/ socket' = socket
        /\ \/ w \in Ingress /\ pending' = Tail(pending) /\ UNCHANGED <<lanes, responses>>
           \/ w \in Writers /\ responses' = Tail(responses) /\ UNCHANGED <<pending, lanes>>
           \/ w \in Lanes /\ lanes' = [lanes EXCEPT ![laneOf[c]] = Tail(@)]
                          /\ UNCHANGED <<pending, responses>>
        /\ UNCHANGED <<laneOf, imports, polls, client, accept, op, streams, eventsStopped, io, stop,
                       failed, thread>>
    BY <1>7 DEF Pop
  <2> HIDE DEF c
  <2>3. worker' \in WorkerType
    BY <1>1, <2>1, <2>2, WorkerTypes DEF WorkerPc
  <2>4. socket' \in Socket
    BY <1>3, <2>2
  <2>5. /\ pending' \in Seq(Conns) /\ lanes' \in [Lane -> Seq(Conns)] /\ responses' \in Seq(Conns)
    <3>1. /\ pending \in Seq(Conns) /\ lanes \in [Lane -> Seq(Conns)] /\ responses \in Seq(Conns)
          /\ laneOf[c] \in Lane
      BY <1>1, <2>1 DEF TypeOK
    <3>2. ASSUME NEW q \in Seq(Conns), q # <<>> PROVE Tail(q) \in Seq(Conns)
      BY <3>2
    <3>3. CASE w \in Ingress
      BY <2>1, <2>2, <3>1, <3>2, <3>3, ListenerAssumption
    <3>4. CASE w \in Writers
      BY <2>1, <2>2, <3>1, <3>2, <3>4, ListenerAssumption
    <3>5. CASE w \in Lanes
      <4>1. /\ lanes' = [lanes EXCEPT ![laneOf[c]] = Tail(@)] /\ UNCHANGED <<pending, responses>>
            /\ lanes[laneOf[c]] # <<>>
        BY <2>1, <2>2, <3>5, ListenerAssumption
      <4>2. Tail(lanes[laneOf[c]]) \in Seq(Conns)
        BY <3>1, <3>2, <4>1
      <4> QED BY <3>1, <4>1, <4>2
    <3> QED BY <3>3, <3>4, <3>5 DEF Workers
  <2> QED BY <1>1, <1>3, <2>2, <2>3, <2>4, <2>5 DEF TypeOK, WorkerType, WorkerPc, Socket
<1>8. ASSUME NEW w \in Workers, Register(w) \/ Post(w) \/ FinishIo(w) PROVE TypeOK'
  <2>1. UNCHANGED <<laneOf, imports, polls, client, socket, accept, queues, streams, eventsStopped, io,
                    stop, failed, thread>>
    BY <1>8 DEF Register, Post, FinishIo
  <2>2. worker' \in WorkerType
    BY <1>1, <1>8, WorkerTypes DEF Register, Post, FinishIo, WorkerPc
  <2>3. op' \in [Conns -> Op]
    <3>1. worker[w].conn \in Conns
      BY <1>3, <1>8 DEF Register, Post, FinishIo, Busy
    <3>2. CASE Register(w)
      BY <1>3, <3>1, <3>2 DEF Register, NoOp, Op, Cancelled
    <3>3. CASE Post(w)
      BY <1>3, <3>1, <3>3 DEF Post, Op
    <3>4. CASE FinishIo(w)
      BY <1>3, <3>1, <3>4 DEF FinishIo, Op
    <3> QED BY <1>8, <3>2, <3>3, <3>4
  <2> QED BY <1>1, <2>1, <2>2, <2>3 DEF TypeOK, WorkerType, WorkerPc, queues, Op
<1>9. ASSUME NEW w \in Workers, IngressRead(w) \/ Written(w) PROVE TypeOK'
  <2>1. UNCHANGED <<laneOf, imports, polls, client, accept, queues, streams, eventsStopped, io, stop,
                    failed, thread>>
    BY <1>9 DEF IngressRead, Written
  <2>2. worker' \in WorkerType
    BY <1>1, <1>9, WorkerTypes DEF IngressRead, Written, WorkerPc
  <2>3. op' \in [Conns -> Op] /\ socket' \in Socket
    <3>1. op' = [op EXCEPT ![worker[w].conn].st = "none"] /\ worker[w].conn \in Conns
      BY <1>3, <1>9 DEF IngressRead, Written, Busy
    <3>2. op' \in [Conns -> Op]
      BY <1>3, <3>1 DEF Op
    <3>3. socket' \in Socket
      BY <1>3, <1>9 DEF IngressRead, Written, Socket
    <3> QED BY <3>2, <3>3
  <2> QED BY <1>1, <2>1, <2>2, <2>3 DEF TypeOK, WorkerType, WorkerPc, queues, Op, Socket
<1>10. ASSUME NEW w \in Workers, IngressEnqueue(w) PROVE TypeOK'
  <2> DEFINE c == worker[w].conn
             l == laneOf[c]
  <2>1. c \in Conns /\ l \in Lane
    BY <1>1, <1>3, <1>10 DEF IngressEnqueue, Busy, TypeOK
  <2>2. /\ UNCHANGED <<laneOf, imports, polls, client, accept, pending, responses, op, streams,
                       eventsStopped, io, stop, failed, thread>>
        /\ lanes' = lanes \/ lanes' = [lanes EXCEPT ![l] = Append(@, c)]
        /\ socket' = socket \/ socket' = [socket EXCEPT ![c] = "answered"]
        /\ worker' = Loop(w) \/ worker' = Become(w, "notify", NoConn)
    BY <1>10 DEF IngressEnqueue
  <2>3. worker' \in WorkerType
    BY <1>1, <2>2, WorkerTypes DEF WorkerPc
  <2> HIDE DEF c, l
  <2>4. lanes' \in [Lane -> Seq(Conns)]
    <3>1. lanes \in [Lane -> Seq(Conns)] /\ Append(lanes[l], c) \in Seq(Conns)
      BY <1>1, <2>1 DEF TypeOK
    <3> QED BY <2>1, <2>2, <3>1
  <2> QED BY <1>1, <1>3, <2>2, <2>3, <2>4 DEF TypeOK, WorkerType, WorkerPc, Socket
<1>11. ASSUME NEW w \in Workers, IngressNotify(w) \/ (w \in Lanes /\ PushNotify(w)) PROVE TypeOK'
  <2>1. worker' \in WorkerType
    BY <1>1, <1>11, WorkerTypes, WakeTypes DEF IngressNotify, PushNotify, WorkerPc
  <2>2. UNCHANGED <<laneOf, imports, polls, client, socket, accept, queues, op, streams, eventsStopped,
                    io, stop, failed, thread>>
    BY <1>11 DEF IngressNotify, PushNotify
  <2> QED BY <1>1, <2>1, <2>2 DEF TypeOK, WorkerType, WorkerPc, queues
<1>12. ASSUME NEW w \in Workers, Execute(w) PROVE TypeOK'
  <2> DEFINE c == worker[w].conn
  <2>1. worker' \in WorkerType
    BY <1>1, <1>12, WorkerTypes DEF Execute, WorkerPc
  <2>2. /\ UNCHANGED <<laneOf, polls, client, accept, queues, op, eventsStopped, io, stop, failed,
                       thread>>
        /\ streams' \subseteq streams \cup {c}
        /\ imports' \subseteq imports \cup {c}
        /\ socket' = socket \/ socket' = Close({c})
    BY <1>12 DEF Execute
  <2>3. c \in Conns
    BY <1>3, <1>12 DEF Execute, Busy
  <2> QED BY <1>1, <1>3, <2>1, <2>2, <2>3 DEF TypeOK, WorkerType, WorkerPc, queues, Socket
<1>13. ASSUME NEW w \in Workers, Push(w) PROVE TypeOK'
  <2>1. worker' \in WorkerType
    BY <1>1, <1>13, WorkerTypes DEF Push, WorkerPc
  <2>2. responses' \in Seq(Conns)
    <3>1. worker[w].conn \in Conns /\ responses \in Seq(Conns)
      BY <1>1, <1>3, <1>13 DEF Push, Busy, TypeOK
    <3> QED BY <1>13, <3>1 DEF Push
  <2> QED BY <1>1, <1>13, <2>1, <2>2 DEF Push, TypeOK, WorkerType, WorkerPc
<1>14. ASSUME NEW w \in Lanes, Fail(w) PROVE TypeOK'
  <2>1. worker' \in WorkerType
    BY <1>1, <1>14, WorkerTypes DEF Fail, WorkerPc, Workers
  <2> QED BY <1>1, <1>3, <1>14, <2>1 DEF Fail, TypeOK, WorkerType, WorkerPc, queues, Socket
<1>15. CASE AcceptEnqueue
  <2>1. worker' \in WorkerType
    BY <1>1, <1>15, WakeTypes DEF AcceptEnqueue
  <2>2. accept.conn \in Conns
    BY <1>1, <1>15 DEF AcceptEnqueue, AcceptOK, TypeOK
  <2>3. pending' \in Seq(Conns) /\ socket' \in Socket
    <3>1. pending \in Seq(Conns) /\ Append(pending, accept.conn) \in Seq(Conns)
      BY <1>1, <2>2 DEF TypeOK
    <3>2. pending' \in {pending, Append(pending, accept.conn)}
      BY <1>15 DEF AcceptEnqueue
    <3>3. socket' \in Socket
      BY <1>3, <1>15 DEF AcceptEnqueue
    <3> QED BY <3>1, <3>2, <3>3
  <2>4. accept' \in [pc : {"armed", "accepted", "off"}, conn : Conns \cup {NoConn}]
    BY <1>15 DEF AcceptEnqueue
  <2> QED BY <1>1, <1>15, <2>1, <2>3, <2>4 DEF AcceptEnqueue, TypeOK, WorkerType, WorkerPc, Socket
<1>16. ASSUME NEW c \in Conns, CancelIo(c) PROVE TypeOK'
  <2>1. op' \in [Conns -> Op]
    BY <1>3, <1>16 DEF CancelIo, Op
  <2>2. socket' \in Socket
    BY <1>3, <1>16 DEF CancelIo
  <2> QED BY <1>1, <1>16, <2>1, <2>2 DEF CancelIo, TypeOK, queues, Op, Socket
<1>17. CASE OutOfWork \/ UNCHANGED vars
  BY <1>1, <1>17 DEF OutOfWork, vars, TypeOK, queues
<1>18. CASE JoinWorkers \/ Return
  <2>1. thread' \in [Threads -> Pc]
    BY <1>3, <1>18 DEF JoinWorkers, Return, Pc
  <2>2. /\ UNCHANGED <<laneOf, client, socket, accept, queues, worker, op, streams,
                      eventsStopped, imports, polls, stop, failed>>
        /\ io' \in {io, FALSE}
    BY <1>18 DEF JoinWorkers, Return
  <2> QED BY <1>1, <2>1, <2>2 DEF TypeOK, queues, Pc
<1>19. ASSUME NEW t \in Threads, StopEnter(t) \/ Stop(t) PROVE TypeOK'
  <2>1. PICK pc \in Pc : thread' = [thread EXCEPT ![t] = pc]
    BY <1>19 DEF StopEnter, Stop, StopEvents, StopPending, StopLanes, StopResponses, StopCancel,
                 StopNotify, Pc
  <2>2. thread' \in [Threads -> Pc]
    BY <1>3, <2>1
  <2>3. CASE StopEnter(t)
    BY <1>1, <2>2, <2>3 DEF StopEnter, TypeOK, queues, Pc
  <2>4. CASE StopEvents(t)
    BY <1>1, <1>3, <2>2, <2>4 DEF StopEvents, TypeOK, queues, Pc, Socket
  <2>5. CASE StopPending(t) \/ StopLanes(t) \/ StopResponses(t)
    <3>1. /\ pending' \in Seq(Conns) /\ lanes' \in [Lane -> Seq(Conns)] /\ responses' \in Seq(Conns)
      <4>1. /\ pending \in Seq(Conns) /\ lanes \in [Lane -> Seq(Conns)] /\ responses \in Seq(Conns)
            /\ <<>> \in Seq(Conns)
        BY <1>1 DEF TypeOK
      <4>2. [l \in Lane |-> <<>>] \in [Lane -> Seq(Conns)]
        BY <4>1
      <4> QED BY <2>5, <4>1, <4>2 DEF StopPending, StopLanes, StopResponses
    <3>2. socket' \in Socket
      BY <1>3, <2>5 DEF StopPending, StopLanes, StopResponses
    <3>3. UNCHANGED <<laneOf, imports, polls, client, accept, worker, op, streams, eventsStopped, io,
                      stop, failed>>
      BY <2>5 DEF StopPending, StopLanes, StopResponses
    <3> QED BY <1>1, <2>2, <3>1, <3>2, <3>3 DEF TypeOK, Pc, Socket
  <2>6. CASE StopCancel(t)
    <3>1. op' \in [Conns -> Op]
      BY <1>3, <2>6 DEF StopCancel, Op
    <3> QED BY <1>1, <2>2, <2>6, <3>1 DEF StopCancel, TypeOK, queues, Pc, Op
  <2>7. CASE StopNotify(t)
    <3>1. worker' \in WorkerType
      BY <1>1, <2>7, WakeTypes DEF StopNotify
    <3>2. accept' \in [pc : {"armed", "accepted", "off"}, conn : Conns \cup {NoConn}]
      BY <1>1, <2>7 DEF StopNotify, TypeOK
    <3> QED BY <1>1, <2>2, <2>7, <3>1, <3>2 DEF StopNotify, TypeOK, queues, Pc, WorkerType, WorkerPc
  <2> QED BY <1>19, <2>3, <2>4, <2>5, <2>6, <2>7 DEF Stop
<1> QED
  BY <1>4, <1>5, <1>6, <1>7, <1>8, <1>9, <1>10, <1>11, <1>12, <1>13, <1>14, <1>15, <1>16, <1>17,
     <1>18, <1>19 DEF Next, Work, WaitLoop, IngressWork, LaneWork, IoThreads, Workers

LEMMA Invariant == Spec => []IInv
<1>1. IInv /\ [Next]_vars => IInv'
  BY NextTypes, NextOwned, NextOps, NextStop DEF IInv
<1> QED BY <1>1, InitInv, PTL DEF Spec

-----------------------------------------------------------------------------
(* The places in which a connection is found.                                  *)
At(c, p) ==
  \/ \E i \in DOMAIN pending : p = <<"pending", i>> /\ pending[i] = c
  \/ \E i \in DOMAIN responses : p = <<"responses", i>> /\ responses[i] = c
  \/ \E l \in Lane : \E i \in DOMAIN lanes[l] : p = <<l, i>> /\ lanes[l][i] = c
  \/ \E w \in Workers : p = <<"worker", w>> /\ worker[w].conn = c
  \/ p = <<"accept">> /\ accept.conn = c
  \/ p = <<"stream">> /\ c \in streams

LEMMA PlacesFacts == ASSUME NEW c \in Conns PROVE \A p : p \in PlacesOf(c) <=> At(c, p)
<1> SUFFICES ASSUME NEW p PROVE p \in PlacesOf(c) <=> At(c, p)
  OBVIOUS
<1> DEFINE queue(k, q) == {<<k, i>> : i \in {i \in DOMAIN q : q[i] = c}}
<1>1. \A k, q : p \in queue(k, q) <=> \E i \in DOMAIN q : p = <<k, i>> /\ q[i] = c
  OBVIOUS
<1>2. p \in UNION {queue(l, lanes[l]) : l \in Lane} <=> \E l \in Lane : p \in queue(l, lanes[l])
  OBVIOUS
<1>3. p \in {<<"worker", w>> : w \in {w \in Workers : worker[w].conn = c}}
        <=> \E w \in Workers : p = <<"worker", w>> /\ worker[w].conn = c
  OBVIOUS
<1>4. p \in (IF accept.conn = c THEN {<<"accept">>} ELSE {}) <=> p = <<"accept">> /\ accept.conn = c
  OBVIOUS
<1>5. p \in (IF c \in streams THEN {<<"stream">>} ELSE {}) <=> p = <<"stream">> /\ c \in streams
  OBVIOUS
<1> DEFINE carried == {<<"worker", w>> : w \in {w \in Workers : worker[w].conn = c}}
           taken == IF accept.conn = c THEN {<<"accept">>} ELSE {}
           streamed == IF c \in streams THEN {<<"stream">>} ELSE {}
           inLanes == UNION {queue(l, lanes[l]) : l \in Lane}
<1>6. PlacesOf(c) = queue("pending", pending) \cup queue("responses", responses) \cup inLanes
                    \cup carried \cup taken \cup streamed
  BY DEF PlacesOf
<1> HIDE DEF queue, carried, taken, streamed, inLanes
<1>7. p \in PlacesOf(c) <=> \/ p \in queue("pending", pending) \/ p \in queue("responses", responses)
                          \/ p \in inLanes \/ p \in carried \/ p \in taken \/ p \in streamed
  BY <1>6
<1> QED BY <1>1, <1>2, <1>3, <1>4, <1>5, <1>7 DEF At, inLanes, carried, taken, streamed

(* Every connection that run() has taken in has one owner, which closes or      *)
(* answers it in the end: whatever the number of workers, connections and       *)
(* places in the queues, and whichever of them stop() finds when it empties the  *)
(* queues, closes the streams and cancels the operations.                      *)
THEOREM EveryConnectionHasOneOwner == Spec => []OneOwner
<1>1. IInv => OneOwner
  <2> SUFFICES ASSUME IInv, NEW c \in Conns
               PROVE  /\ Cardinality(PlacesOf(c)) <= 1
                      /\ socket[c] = "open" => PlacesOf(c) # {}
                      /\ c \in Queued \cup streams => socket[c] = "open"
    BY DEF OneOwner
  <2>1. QueuesOK /\ OneKind /\ WorkersOK /\ SocketsOK /\ TypeOK /\ c # NoConn
    BY ListenerAssumption DEF IInv, Owned
  <2> DEFINE InQueue(q) == {i \in DOMAIN q : q[i] = c}
  <2>2. ASSUME NEW p, p \in PlacesOf(c)
        PROVE  \/ \E i \in InQueue(pending) : p = <<"pending", i>> /\ c \in Has("pending")
               \/ \E i \in InQueue(responses) : p = <<"responses", i>> /\ c \in Has("responses")
               \/ \E l \in Lane : \E i \in InQueue(lanes[l]) : p = <<l, i>> /\ c \in Has(l)
               \/ \E w \in Workers : p = <<"worker", w>> /\ worker[w].conn = c /\ c \in Has("worker")
               \/ p = <<"accept">> /\ c \in Has("accept")
               \/ p = <<"stream">> /\ c \in Has("stream")
    <3>1. At(c, p)
      BY <2>2, PlacesFacts
    <3>2. \A q : \A i \in DOMAIN q : q[i] = c => i \in InQueue(q) /\ c \in Elements(q)
      BY DEF Elements
    <3>3. \A w \in Workers : worker[w].conn = c => c \in Carried
      BY <2>1 DEF Carried
    <3> HIDE DEF InQueue
    <3> QED BY <2>1, <3>1, <3>2, <3>3, HasFacts DEF At
  <2>3. ASSUME NEW q \in Seq(Conns), Distinct(q), NEW i \in InQueue(q), NEW j \in InQueue(q)
        PROVE  i = j
    BY <2>3 DEF Distinct
  <2>4. /\ pending \in Seq(Conns) /\ Distinct(pending)
        /\ responses \in Seq(Conns) /\ Distinct(responses)
        /\ \A l \in Lane : lanes[l] \in Seq(Conns) /\ Distinct(lanes[l])
    BY <2>1 DEF QueuesOK, TypeOK
  <2> HIDE DEF InQueue
  <2>5. ASSUME NEW p \in PlacesOf(c), NEW q \in PlacesOf(c) PROVE p = q
    <3>1. \A k, m \in Kinds : c \in Has(k) /\ c \in Has(m) => k = m
      BY <2>1 DEF OneKind
    <3>2. \A i, j \in InQueue(pending) : i = j
      BY <2>3, <2>4
    <3>3. \A i, j \in InQueue(responses) : i = j
      BY <2>3, <2>4
    <3>4. \A l \in Lane : \A i, j \in InQueue(lanes[l]) : i = j
      BY <2>3, <2>4
    <3>5. \A v, w \in Workers : worker[v].conn = c /\ worker[w].conn = c => v = w
      BY <2>1 DEF WorkersOK
    <3>6. CASE c \in Has("pending")
      BY <2>2, <3>1, <3>2, <3>6 DEF Kinds, Lane
    <3>7. CASE c \in Has("responses")
      BY <2>2, <3>1, <3>3, <3>7 DEF Kinds, Lane
    <3>8. CASE c \in Has("worker")
      BY <2>2, <3>1, <3>5, <3>8 DEF Kinds, Lane
    <3>9. CASE c \in Has("accept") \/ c \in Has("stream")
      BY <2>2, <3>1, <3>9 DEF Kinds, Lane
    <3>10. ASSUME NEW l \in Lane, c \in Has(l) PROVE p = q
      <4>1. \A k \in Kinds : c \in Has(k) => k = l
        BY <3>1, <3>10 DEF Kinds
      <4> QED BY <2>2, <3>4, <4>1 DEF Kinds, Lane
    <3> QED BY <2>2, <3>6, <3>7, <3>8, <3>9, <3>10
  <2>6. Cardinality(PlacesOf(c)) <= 1
    <3>1. CASE PlacesOf(c) = {}
      BY <3>1, FS_EmptySet
    <3>2. CASE PlacesOf(c) # {}
      <4>1. PICK p \in PlacesOf(c) : TRUE
        BY <3>2
      <4>2. PlacesOf(c) = {p}
        BY <2>5, <4>1
      <4> QED BY <4>2, FS_Singleton
    <3> QED BY <3>1, <3>2
  <2>7. socket[c] = "open" => PlacesOf(c) # {}
    <3> SUFFICES ASSUME socket[c] = "open" PROVE \E p : At(c, p)
      BY PlacesFacts
    <3>1. PICK k \in Kinds : c \in Has(k)
      BY <2>1 DEF SocketsOK
    <3>2. \A q : c \in Elements(q) => \E i \in DOMAIN q : q[i] = c
      BY DEF Elements
    <3>3. CASE k = "pending"
      BY <3>1, <3>2, <3>3, HasFacts DEF At
    <3>4. CASE k = "responses"
      BY <3>1, <3>2, <3>4, HasFacts DEF At
    <3>5. CASE k = "worker"
      BY <3>1, <3>5, HasFacts DEF At, Carried
    <3>6. CASE k \in {"accept", "stream"}
      BY <3>1, <3>6, HasFacts DEF At
    <3>7. CASE k \in Lane
      <4>1. PICK i \in DOMAIN lanes[k] : lanes[k][i] = c
        BY <3>1, <3>2, <3>7, HasFacts
      <4>2. At(c, <<k, i>>)
        BY <3>7, <4>1 DEF At
      <4> QED BY <4>2
    <3> QED BY <3>3, <3>4, <3>5, <3>6, <3>7 DEF Kinds
  <2>8. c \in Queued \cup streams => socket[c] = "open"
    <3>1. c \in Queued \cup streams => \E k \in Kinds \ {"worker"} : c \in Has(k)
      BY HasFacts DEF Queued, Kinds, Lane
    <3> QED BY <2>1, <3>1 DEF SocketsOK
  <2> QED BY <2>6, <2>7, <2>8
<1> QED BY <1>1, Invariant, PTL

(* run() returns with no operation in the I/O threads' hands, no import thread,  *)
(* no poll and no stream that was not told to close, however many threads call stop()    *)
(* and whatever their steps are overtaken by.                                  *)
THEOREM RunLeavesNothing == Spec => []NothingLeftRunning
<1>1. IInv => NothingLeftRunning
  <2> SUFFICES ASSUME IInv, thread["main"] = "returned"
               PROVE  /\ \A c \in Conns : op[c].st = "none"
                      /\ imports = {} /\ polls = {}
                      /\ streams # {} => \E t \in Threads \ {"main"} : thread[t] = "events"
    BY DEF NothingLeftRunning
  <2>1. StopOK /\ OpsOK /\ "main" \in Threads
    BY ListenerAssumption DEF IInv
  <2> QED BY <2>1 DEF StopOK, OpsOK
<1> QED BY <1>1, Invariant, PTL

-----------------------------------------------------------------------------
(* The listener: wake-ups                                                     *)

Awake(group) == {w \in group : worker[w].pc = "loop"}
Notifying(group) == {w \in group : worker[w].pc = "notify"}
Sleeping(group) == \E w \in group : worker[w].pc = "waiting"

(* Where stop() still has to notify, and where it still has to take w's mutex.   *)
BeforeNotify == BeforeCancel \cup {"notify"}
Stopping == \E t \in Threads : thread[t] \in BeforeNotify
BeforeQueue(w) ==
  {"events", "pending"} \cup (IF w \in Ingress THEN {} ELSE {"lanes"})
                        \cup (IF w \in Writers THEN {"responses"} ELSE {})

(* A set that may be infinite has n elements or more.                          *)
AtLeast(S, n) == IsFiniteSet(S) => n <= Cardinality(S)

(* A worker that has seen its predicate false holds the mutex: nothing has come    *)
(* in since, and stop() has its queue before it.  The queues with notify_one() have a *)
(* worker on its way, or a notification, for every connection while anyone sleeps.  *)
CheckedEmpty == \A w \in Workers : worker[w].pc = "checked" => Inbox(w) = <<>>
CheckedAhead ==
  \A w \in Workers : worker[w].pc = "checked" /\ stop =>
    \E t \in Threads : thread[t] \in BeforeQueue(w)
SleepersAhead == stop /\ Sleeping(Workers) => Stopping
IngressAwake == Sleeping(Ingress) => Stopping \/ AtLeast(Awake(Ingress), Len(pending))
WritersAwake ==
  Sleeping(Writers) =>
    Stopping \/ AtLeast(Awake(Writers) \cup Notifying(Lanes), Len(responses))
LanesTold ==
  \A w \in Lanes : worker[w].pc = "waiting" /\ Inbox(w) # <<>> =>
    Stopping \/ Notifying(Ingress) # {}
WakeInv ==
  /\ CheckedEmpty /\ CheckedAhead /\ SleepersAhead
  /\ IngressAwake /\ WritersAwake /\ LanesTold

LEMMA AtLeastFacts ==
  ASSUME NEW S, NEW n \in Nat, AtLeast(S, n)
  PROVE  /\ \A T : S \subseteq T => AtLeast(T, n)
         /\ \A x, T : x \notin S /\ S \cup {x} \subseteq T => AtLeast(T, n + 1)
         /\ n # 0 => S # {} /\ \A x, T : S \ {x} \subseteq T => AtLeast(T, n - 1)
<1>1. ASSUME NEW T, S \subseteq T PROVE AtLeast(T, n)
  <2> SUFFICES ASSUME IsFiniteSet(T) PROVE n <= Cardinality(T)
    BY DEF AtLeast
  <2>1. /\ IsFiniteSet(S) /\ Cardinality(S) \in Nat /\ Cardinality(T) \in Nat
        /\ Cardinality(S) <= Cardinality(T)
    BY <1>1, FS_Subset, FS_CardinalityType
  <2> QED BY <2>1 DEF AtLeast
<1>2. ASSUME NEW x, NEW T, x \notin S, S \cup {x} \subseteq T PROVE AtLeast(T, n + 1)
  <2> SUFFICES ASSUME IsFiniteSet(T) PROVE n + 1 <= Cardinality(T)
    BY DEF AtLeast
  <2>1. /\ IsFiniteSet(S \cup {x}) /\ Cardinality(T) \in Nat
        /\ Cardinality(S \cup {x}) <= Cardinality(T)
    BY <1>2, FS_Subset, FS_CardinalityType
  <2>2. IsFiniteSet(S)
    BY <2>1, FS_Subset
  <2>3. Cardinality(S \cup {x}) = Cardinality(S) + 1 /\ Cardinality(S) \in Nat
    BY <1>2, <2>2, FS_AddElement, FS_CardinalityType
  <2> QED BY <2>1, <2>2, <2>3 DEF AtLeast
<1>3. ASSUME n # 0 PROVE S # {}
  BY <1>3, FS_EmptySet DEF AtLeast
<1>4. ASSUME n # 0, NEW x, NEW T, S \ {x} \subseteq T PROVE AtLeast(T, n - 1)
  <2> SUFFICES ASSUME IsFiniteSet(T) PROVE n - 1 <= Cardinality(T)
    BY DEF AtLeast
  <2>1. /\ IsFiniteSet(S \ {x}) /\ Cardinality(T) \in Nat /\ Cardinality(S \ {x}) \in Nat
        /\ Cardinality(S \ {x}) <= Cardinality(T)
    BY <1>4, FS_Subset, FS_CardinalityType
  <2>2. IsFiniteSet((S \ {x}) \cup {x})
    BY <2>1, FS_AddElement
  <2>3. IsFiniteSet(S)
    BY <2>2, FS_Subset
  <2>4. Cardinality(S) \in Nat /\ Cardinality(S) <= Cardinality(S \ {x}) + 1
    <3> Cardinality(S) \in Nat
      BY <2>3, FS_CardinalityType
    <3>1. CASE x \in S
      <4>1. Cardinality(S \ {x}) = Cardinality(S) - 1
        BY <2>3, <3>1, FS_RemoveElement
      <4> QED BY <4>1
    <3>2. CASE x \notin S
      <4>1. S \ {x} = S
        BY <3>2
      <4> QED BY <2>1, <4>1
    <3> QED BY <3>1, <3>2
  <2> QED BY <2>1, <2>3, <2>4 DEF AtLeast
<1> QED BY <1>1, <1>2, <1>3, <1>4

LEMMA AtLeastNone == ASSUME NEW S PROVE AtLeast(S, 0)
BY FS_CardinalityType DEF AtLeast

LEMMA AtLeastSwap ==
  ASSUME NEW S, NEW n \in Nat, AtLeast(S, n), NEW w \in S, NEW u, u \notin S
  PROVE  AtLeast((S \ {w}) \cup {u}, n)
<1> DEFINE R == S \ {w}
<1> SUFFICES ASSUME IsFiniteSet(R \cup {u}) PROVE n <= Cardinality(R \cup {u})
  BY DEF AtLeast
<1>1. IsFiniteSet(R) /\ u \notin R /\ S = R \cup {w} /\ w \notin R
  <2>1. R \subseteq R \cup {u}
    OBVIOUS
  <2> QED BY <2>1, FS_Subset
<1>2. IsFiniteSet(S) /\ Cardinality(S) = Cardinality(R) + 1
  BY <1>1, FS_AddElement
<1>3. Cardinality(R \cup {u}) = Cardinality(R) + 1
  BY <1>1, FS_AddElement
<1> QED BY <1>2, <1>3 DEF AtLeast

(* The places of the workers after a step.                                     *)
LEMMA PcFacts ==
  ASSUME TypeOK, NEW w \in Workers, NEW v \in Workers
  PROVE  /\ \A pc : worker' = Step(w, pc) =>
              worker'[v].pc = IF v = w THEN pc ELSE worker[v].pc
         /\ \A pc, c : worker' = Become(w, pc, c) =>
              worker'[v].pc = IF v = w THEN pc ELSE worker[v].pc
         /\ worker' = Loop(w) => worker'[v].pc = IF v = w THEN "loop" ELSE worker[v].pc
         /\ \A group : worker' = Wake(group) =>
              worker'[v].pc = IF v \in group /\ worker[v].pc = "waiting" THEN "loop"
                              ELSE worker[v].pc
         /\ \A group : worker' = [Wake(group) EXCEPT ![w] = Idle] =>
              worker'[v].pc = IF v = w \/ (v \in group /\ worker[v].pc = "waiting") THEN "loop"
                              ELSE worker[v].pc
<1>1. worker \in [Workers -> [pc : {"init", "loop", "checked", "waiting", "begin", "io", "enqueue",
                                    "notify", "execute", "push", "exited"},
                              conn : Conns \cup {NoConn}]]
  BY DEF TypeOK
<1>2. Idle.pc = "loop"
  BY DEF Idle
<1>3. \A pc : worker' = Step(w, pc) => worker'[v].pc = IF v = w THEN pc ELSE worker[v].pc
  BY <1>1 DEF Step
<1>4. \A pc, c : worker' = Become(w, pc, c) =>
        worker'[v].pc = IF v = w THEN pc ELSE worker[v].pc
  BY <1>1 DEF Become
<1>5. worker' = Loop(w) => worker'[v].pc = IF v = w THEN "loop" ELSE worker[v].pc
  BY <1>1, <1>2 DEF Loop
<1>6. \A group : worker' = Wake(group) =>
        worker'[v].pc = IF v \in group /\ worker[v].pc = "waiting" THEN "loop"
                        ELSE worker[v].pc
  BY <1>2 DEF Wake
<1>7. \A group : worker' = [Wake(group) EXCEPT ![w] = Idle] =>
        worker'[v].pc = IF v = w \/ (v \in group /\ worker[v].pc = "waiting") THEN "loop"
                        ELSE worker[v].pc
  BY <1>2 DEF Wake
<1> QED BY <1>3, <1>4, <1>5, <1>6, <1>7

(* No queue changes, stop() does not advance, and nobody leaves its loop or a     *)
(* notification, or begins to wait.                                            *)
LEMMA QuietWake ==
  ASSUME TypeOK, WakeInv, UNCHANGED <<queues, stop>>,
         \A t \in Threads : thread[t] \in BeforeNotify => thread'[t] = thread[t],
         \A v \in Workers : worker'[v].pc # worker[v].pc =>
           worker[v].pc \notin {"loop", "notify"} /\ worker'[v].pc \notin {"checked", "waiting"}
  PROVE  WakeInv'
<1>1. /\ UNCHANGED <<pending, lanes, responses, stop>> /\ \A w : Inbox(w)' = Inbox(w)
      /\ Len(pending) \in Nat /\ Len(responses) \in Nat
  BY DEF queues, Inbox, TypeOK
<1>2. /\ Stopping => Stopping'
      /\ \A w : \A t \in Threads : thread[t] \in BeforeQueue(w) => thread'[t] \in BeforeQueue(w)
  BY DEF Stopping, BeforeNotify, BeforeCancel, BeforeQueue
<1>3. \A v \in Workers : worker'[v].pc \in {"checked", "waiting"} => worker'[v].pc = worker[v].pc
  OBVIOUS
<1>4. Awake(Ingress) \subseteq Awake(Ingress)' /\ Awake(Writers) \subseteq Awake(Writers)'
  BY DEF Awake, Workers
<1>5. Notifying(Lanes) \subseteq Notifying(Lanes)' /\ Notifying(Ingress) \subseteq Notifying(Ingress)'
  BY DEF Notifying, Workers
<1>6. CheckedEmpty' /\ CheckedAhead'
  BY <1>1, <1>2, <1>3 DEF WakeInv, CheckedEmpty, CheckedAhead, BeforeQueue
<1>7. SleepersAhead' /\ LanesTold'
  BY <1>1, <1>2, <1>3, <1>5 DEF WakeInv, SleepersAhead, LanesTold, Sleeping, Workers
<1>8. IngressAwake'
  <2>1. Sleeping(Ingress)' => Sleeping(Ingress)
    BY <1>3 DEF Sleeping, Workers
  <2>2. AtLeast(Awake(Ingress), Len(pending)) => AtLeast(Awake(Ingress)', Len(pending))
    BY <1>1, <1>4, AtLeastFacts
  <2> QED BY <1>1, <1>2, <2>1, <2>2 DEF WakeInv, IngressAwake, AtLeast
<1>9. WritersAwake'
  <2>1. Sleeping(Writers)' => Sleeping(Writers)
    BY <1>3 DEF Sleeping, Workers
  <2>2. AtLeast(Awake(Writers) \cup Notifying(Lanes), Len(responses)) =>
          AtLeast(Awake(Writers)' \cup Notifying(Lanes)', Len(responses))
    BY <1>1, <1>4, <1>5, AtLeastFacts
  <2> QED BY <1>1, <1>2, <2>1, <2>2 DEF WakeInv, WritersAwake, AtLeast
<1> QED BY <1>6, <1>7, <1>8, <1>9 DEF WakeInv

(* The kinds of workers are disjoint, and what they take is a sequence.         *)
LEMMA Groups ==
  ASSUME TypeOK, NEW w \in Workers
  PROVE  /\ w \in Ingress => w \notin Lanes /\ w \notin Writers /\ Inbox(w) = pending
         /\ w \in Writers => w \notin Ingress /\ w \notin Lanes /\ Inbox(w) = responses
         /\ w \in Lanes => w \notin Ingress /\ w \notin Writers
         /\ w \in Ingress \/ w \in Lanes \/ w \in Writers
         /\ Peers(w) = IF w \in Ingress THEN Ingress ELSE IF w \in Writers THEN Writers ELSE Lanes
         /\ w \in Peers(w)
BY ListenerAssumption DEF Workers, Inbox, Peers

(* A worker looks, sleeps, or leaves.                                          *)
LEMMA CheckWake == ASSUME TypeOK, WakeInv, NEW w \in Workers, Check(w) PROVE WakeInv'
<1>1. /\ UNCHANGED <<pending, lanes, responses, stop, thread>> /\ ~stop /\ Inbox(w) = <<>>
      /\ worker[w].pc = "loop"
      /\ \A v \in Workers : worker'[v].pc = IF v = w THEN "checked" ELSE worker[v].pc
  BY PcFacts DEF Check, AtLoop, queues
<1>2. (\A v : Inbox(v)' = Inbox(v)) /\ (Stopping <=> Stopping')
  BY <1>1 DEF Inbox, Stopping
<1>3. \A v \in Workers : worker'[v].pc = "waiting" <=> worker[v].pc = "waiting"
  BY <1>1
<1>4. Notifying(Lanes)' = Notifying(Lanes) /\ Notifying(Ingress)' = Notifying(Ingress)
  BY <1>1 DEF Notifying, Workers
<1>5. CheckedEmpty' /\ CheckedAhead' /\ SleepersAhead'
  BY <1>1, <1>2 DEF WakeInv, CheckedEmpty, CheckedAhead, SleepersAhead
<1>6. LanesTold'
  BY <1>2, <1>3, <1>4 DEF WakeInv, LanesTold, Workers
<1>7. IngressAwake'
  <2>1. CASE w \in Ingress
    <3>1. pending' = <<>> /\ Len(<<>>) = 0
      BY <1>1, <2>1, Groups
    <3> QED BY <3>1, AtLeastNone DEF IngressAwake
  <2>2. CASE w \notin Ingress
    <3>1. Awake(Ingress)' = Awake(Ingress) /\ (Sleeping(Ingress)' <=> Sleeping(Ingress))
      BY <1>1, <2>2 DEF Awake, Sleeping, Workers
    <3> QED BY <1>1, <1>2, <3>1 DEF WakeInv, IngressAwake, AtLeast
  <2> QED BY <2>1, <2>2
<1>8. WritersAwake'
  <2>1. CASE w \in Writers
    <3>1. responses' = <<>> /\ Len(<<>>) = 0
      BY <1>1, <2>1, Groups
    <3> QED BY <3>1, AtLeastNone DEF WritersAwake
  <2>2. CASE w \notin Writers
    <3>1. Awake(Writers)' = Awake(Writers) /\ (Sleeping(Writers)' <=> Sleeping(Writers))
      BY <1>1, <2>2 DEF Awake, Sleeping, Workers
    <3> QED BY <1>1, <1>2, <1>4, <3>1 DEF WakeInv, WritersAwake, AtLeast
  <2> QED BY <2>1, <2>2
<1> QED BY <1>5, <1>6, <1>7, <1>8 DEF WakeInv

LEMMA SleepWake == ASSUME TypeOK, WakeInv, NEW w \in Workers, Sleep(w) PROVE WakeInv'
<1>1. /\ UNCHANGED <<pending, lanes, responses, stop, thread>> /\ worker[w].pc = "checked"
      /\ \A v \in Workers : worker'[v].pc = IF v = w THEN "waiting" ELSE worker[v].pc
  BY PcFacts DEF Sleep, queues
<1>2. (\A v : Inbox(v)' = Inbox(v)) /\ (Stopping <=> Stopping')
  BY <1>1 DEF Inbox, Stopping
<1>3. Inbox(w) = <<>> /\ (stop => Stopping)
  <2>1. BeforeQueue(w) \subseteq BeforeNotify
    BY DEF BeforeQueue, BeforeNotify, BeforeCancel
  <2> QED BY <1>1, <2>1 DEF WakeInv, CheckedEmpty, CheckedAhead, Stopping
<1>4. /\ Notifying(Lanes)' = Notifying(Lanes) /\ Notifying(Ingress)' = Notifying(Ingress)
      /\ Awake(Ingress)' = Awake(Ingress) /\ Awake(Writers)' = Awake(Writers)
  BY <1>1 DEF Notifying, Awake, Workers
<1>5. CheckedEmpty' /\ CheckedAhead' /\ SleepersAhead'
  BY <1>1, <1>2, <1>3 DEF WakeInv, CheckedEmpty, CheckedAhead, SleepersAhead
<1>6. LanesTold'
  BY <1>1, <1>2, <1>3, <1>4 DEF WakeInv, LanesTold, Workers
<1>7. IngressAwake'
  <2>1. CASE w \in Ingress
    <3>1. pending' = <<>> /\ Len(<<>>) = 0
      BY <1>1, <1>3, <2>1, Groups
    <3> QED BY <3>1, AtLeastNone DEF IngressAwake
  <2>2. CASE w \notin Ingress
    <3>1. Sleeping(Ingress)' <=> Sleeping(Ingress)
      BY <1>1, <2>2 DEF Sleeping, Workers
    <3> QED BY <1>1, <1>2, <1>4, <3>1 DEF WakeInv, IngressAwake, AtLeast
  <2> QED BY <2>1, <2>2
<1>8. WritersAwake'
  <2>1. CASE w \in Writers
    <3>1. responses' = <<>> /\ Len(<<>>) = 0
      BY <1>1, <1>3, <2>1, Groups
    <3> QED BY <3>1, AtLeastNone DEF WritersAwake
  <2>2. CASE w \notin Writers
    <3>1. Sleeping(Writers)' <=> Sleeping(Writers)
      BY <1>1, <2>2 DEF Sleeping, Workers
    <3> QED BY <1>1, <1>2, <1>4, <3>1 DEF WakeInv, WritersAwake, AtLeast
  <2> QED BY <2>1, <2>2
<1> QED BY <1>5, <1>6, <1>7, <1>8 DEF WakeInv

(* Once the flag is set, whoever sleeps has stop() ahead of it.                  *)
LEMMA ExitWake == ASSUME TypeOK, WakeInv, NEW w \in Workers, Exit(w) PROVE WakeInv'
<1>1. /\ UNCHANGED <<pending, lanes, responses, stop, thread>> /\ stop /\ worker[w].pc = "loop"
      /\ \A v \in Workers : worker'[v].pc = IF v = w THEN "exited" ELSE worker[v].pc
  BY PcFacts DEF Exit, AtLoop, queues
<1>2. (\A v : Inbox(v)' = Inbox(v)) /\ (Stopping <=> Stopping')
  BY <1>1 DEF Inbox, Stopping
<1>3. CheckedEmpty' /\ CheckedAhead'
  BY <1>1, <1>2 DEF WakeInv, CheckedEmpty, CheckedAhead
<1>4. Sleeping(Workers)' => Stopping'
  BY <1>1, <1>2 DEF WakeInv, SleepersAhead, Sleeping
<1>5. SleepersAhead' /\ LanesTold' /\ IngressAwake' /\ WritersAwake'
  BY <1>4 DEF SleepersAhead, LanesTold, IngressAwake, WritersAwake, Sleeping, Workers
<1> QED BY <1>3, <1>5 DEF WakeInv

LEMMA PopWake == ASSUME IInv, WakeInv, NEW w \in Workers, Pop(w) PROVE WakeInv'
<1> DEFINE c == Head(Inbox(w))
<1>1. TypeOK /\ worker[w].pc = "loop" /\ Free(Peers(w)) /\ UNCHANGED <<laneOf, stop, thread>>
  BY DEF IInv, Pop, AtLoop
<1>2. /\ \A v \in Workers : v # w => worker'[v].pc = worker[v].pc
      /\ worker'[w].pc \in {"loop", "execute", "begin"}
  BY <1>1, PcFacts DEF Pop
<1>3. /\ w \in Ingress => /\ pending # <<>> /\ pending' = Tail(pending)
                          /\ UNCHANGED <<lanes, responses>>
      /\ w \in Writers => /\ responses # <<>> /\ responses' = Tail(responses)
                          /\ UNCHANGED <<pending, lanes>>
      /\ w \in Lanes => /\ lanes[laneOf[c]] # <<>> /\ UNCHANGED <<pending, responses>>
                        /\ lanes' = [lanes EXCEPT ![laneOf[c]] = Tail(@)]
  <2>1. w \in Lanes => lanes[laneOf[c]] # <<>>
    BY <1>1, InboxFacts, Groups DEF Pop
  <2>2. Inbox(w) # <<>>
    BY DEF Pop
  <2> QED BY <1>1, <2>1, <2>2, Groups DEF Pop
<1> HIDE DEF c
<1>4. \A l \in Lane : lanes[l] = <<>> => lanes'[l] = <<>>
  BY <1>1, <1>3 DEF TypeOK, Workers
<1>5. Stopping <=> Stopping'
  BY <1>1 DEF Stopping
<1>6. Notifying(Lanes)' = Notifying(Lanes) /\ Notifying(Ingress)' = Notifying(Ingress)
  BY <1>1, <1>2 DEF Notifying, Workers
<1>7. \A v \in Workers : worker'[v].pc \in {"checked", "waiting"} <=>
                         worker[v].pc \in {"checked", "waiting"} /\ worker'[v].pc = worker[v].pc
  BY <1>1, <1>2
<1>8. \A v \in Workers : Inbox(v) = <<>> => Inbox(v)' = <<>>
  <2> SUFFICES ASSUME NEW v \in Workers, Inbox(v) = <<>> PROVE Inbox(v)' = <<>>
    OBVIOUS
  <2>1. CASE v \in Ingress
    BY <1>1, <1>3, <2>1, Groups DEF Inbox, Workers
  <2>2. CASE v \in Writers
    BY <1>1, <1>3, <2>2, Groups DEF Inbox, Workers
  <2>3. CASE v \in Lanes
    <3>1. v \notin Ingress /\ v \notin Writers
      BY <1>1, <2>3, Groups
    <3> QED BY <1>4, <3>1 DEF Inbox, Lane
  <2> QED BY <2>1, <2>2, <2>3, <1>1, Groups
<1>9. CheckedEmpty' /\ CheckedAhead'
  BY <1>1, <1>7, <1>8 DEF WakeInv, CheckedEmpty, CheckedAhead
<1>10. SleepersAhead' /\ LanesTold'
  BY <1>1, <1>5, <1>6, <1>7, <1>8 DEF WakeInv, SleepersAhead, LanesTold, Sleeping, Workers
<1>11. /\ \A q \in Seq(Conns) : q # <<>> => Len(Tail(q)) = Len(q) - 1 /\ Len(q) # 0
       /\ pending \in Seq(Conns) /\ responses \in Seq(Conns)
       /\ Len(pending) \in Nat /\ Len(responses) \in Nat
  BY <1>1 DEF TypeOK
<1>12. IngressAwake'
  <2>1. Sleeping(Ingress)' => Sleeping(Ingress)
    BY <1>7 DEF Sleeping, Workers
  <2>2. Awake(Ingress) \ {w} \subseteq Awake(Ingress)'
    BY <1>2 DEF Awake, Workers
  <2>3. CASE w \in Ingress
    <3>1. Len(pending') = Len(pending) - 1 /\ Len(pending) # 0
      BY <1>3, <1>11, <2>3
    <3>2. ASSUME AtLeast(Awake(Ingress), Len(pending))
          PROVE  AtLeast(Awake(Ingress)', Len(pending'))
      <4>1. AtLeast(Awake(Ingress)', Len(pending) - 1)
        BY <1>11, <2>2, <3>1, <3>2, AtLeastFacts
      <4> QED BY <3>1, <4>1
    <3> QED BY <1>5, <2>1, <3>2 DEF WakeInv, IngressAwake, AtLeast
  <2>4. CASE w \notin Ingress
    <3>1. Awake(Ingress)' = Awake(Ingress) /\ pending' = pending
      BY <1>1, <1>2, <1>3, <2>4 DEF Awake, Workers
    <3> QED BY <1>5, <2>1, <3>1 DEF WakeInv, IngressAwake, AtLeast
  <2> QED BY <2>3, <2>4
<1>13. WritersAwake'
  <2> DEFINE S == Awake(Writers) \cup Notifying(Lanes)
  <2>1. Sleeping(Writers)' => Sleeping(Writers)
    BY <1>7 DEF Sleeping, Workers
  <2>2. S \ {w} \subseteq S'
    BY <1>2, <1>6 DEF Awake, Workers
  <2>3. CASE w \in Writers
    <3>1. Len(responses') = Len(responses) - 1 /\ Len(responses) # 0
      BY <1>3, <1>11, <2>3
    <3> HIDE DEF S
    <3>2. ASSUME AtLeast(S, Len(responses)) PROVE AtLeast(S', Len(responses'))
      <4>1. AtLeast(S', Len(responses) - 1)
        BY <1>11, <2>2, <3>1, <3>2, AtLeastFacts
      <4> QED BY <3>1, <4>1
    <3> QED BY <1>5, <2>1, <3>2 DEF WakeInv, WritersAwake, AtLeast, S
  <2>4. CASE w \notin Writers
    <3>1. S' = S /\ responses' = responses
      BY <1>1, <1>2, <1>3, <1>6, <2>4 DEF Awake, Workers
    <3> QED BY <1>5, <2>1, <3>1 DEF WakeInv, WritersAwake, AtLeast
  <2> QED BY <2>3, <2>4
<1> QED BY <1>9, <1>10, <1>12, <1>13 DEF WakeInv

(* An accepted connection wakes one ingress worker if one sleeps.                *)
LEMMA AcceptEnqueueWake == ASSUME IInv, WakeInv, AcceptEnqueue PROVE WakeInv'
<1>1. /\ TypeOK /\ AcceptOK /\ accept.pc = "accepted" /\ Free(Ingress)
      /\ UNCHANGED <<lanes, responses, stop, thread>>
  BY DEF IInv, Owned, AcceptEnqueue
<1>2. CASE UNCHANGED <<pending, worker>>
  <2>1. UNCHANGED <<queues, stop>>
    BY <1>1, <1>2 DEF queues
  <2> QED BY <1>1, <1>2, <2>1, QuietWake
<1>3. CASE /\ pending' = Append(pending, accept.conn)
           /\ \/ \E u \in Ingress : worker[u].pc = "waiting" /\ worker' = Wake({u})
              \/ (\A u \in Ingress : worker[u].pc # "waiting") /\ UNCHANGED worker
  <2>1. /\ Len(pending) \in Nat /\ Len(pending') = Len(pending) + 1
    <3>1. pending \in Seq(Conns) /\ accept.conn \in Conns
      BY <1>1 DEF TypeOK, AcceptOK
    <3> QED BY <1>3, <3>1
  <2>2. \A v \in Workers : \/ worker'[v].pc = worker[v].pc
                           \/ worker[v].pc = "waiting" /\ worker'[v].pc = "loop"
    <3>1. CASE UNCHANGED worker
      BY <3>1
    <3>2. ASSUME NEW u \in Ingress, worker' = Wake({u})
          PROVE  \A v \in Workers : \/ worker'[v].pc = worker[v].pc
                                    \/ worker[v].pc = "waiting" /\ worker'[v].pc = "loop"
      BY <1>1, <3>2, PcFacts
    <3> QED BY <1>3, <3>1, <3>2
  <2>3. \A v \in Workers : worker'[v].pc \in {"checked", "waiting"} =>
          worker'[v].pc = worker[v].pc /\ (worker[v].pc = "checked" => v \notin Ingress)
    BY <1>1, <2>2 DEF Free
  <2>4. \A v \in Workers \ Ingress : Inbox(v)' = Inbox(v)
    BY <1>1 DEF Inbox
  <2>5. /\ Stopping <=> Stopping'
        /\ Notifying(Lanes)' = Notifying(Lanes) /\ Notifying(Ingress)' = Notifying(Ingress)
        /\ Awake(Writers) \subseteq Awake(Writers)'
    BY <1>1, <2>2 DEF Stopping, Notifying, Awake, Workers
  <2>6. CheckedEmpty' /\ CheckedAhead' /\ SleepersAhead'
    BY <1>1, <2>3, <2>4, <2>5 DEF WakeInv, CheckedEmpty, CheckedAhead, SleepersAhead, Sleeping
  <2>7. LanesTold'
    BY <1>1, <2>3, <2>4, <2>5, Groups DEF WakeInv, LanesTold, Workers
  <2>8. IngressAwake'
    <3>1. CASE \A u \in Ingress : worker[u].pc # "waiting"
      BY <2>3, <3>1 DEF IngressAwake, Sleeping, Workers
    <3>2. ASSUME NEW u \in Ingress, worker[u].pc = "waiting", worker' = Wake({u}) PROVE IngressAwake'
      <4>1. \A v \in Workers : worker'[v].pc = IF v = u THEN "loop" ELSE worker[v].pc
        BY <1>1, <3>2, PcFacts DEF Workers
      <4>2. u \notin Awake(Ingress) /\ Awake(Ingress) \cup {u} \subseteq Awake(Ingress)'
        BY <3>2, <4>1 DEF Awake, Workers
      <4>3. ASSUME AtLeast(Awake(Ingress), Len(pending))
            PROVE  AtLeast(Awake(Ingress)', Len(pending'))
        <5>1. AtLeast(Awake(Ingress)', Len(pending) + 1)
          BY <2>1, <4>2, <4>3, AtLeastFacts
        <5> QED BY <2>1, <5>1
      <4>4. Sleeping(Ingress)
        BY <3>2 DEF Sleeping
      <4> QED BY <2>5, <4>3, <4>4 DEF WakeInv, IngressAwake, AtLeast
    <3> QED BY <1>3, <3>1, <3>2
  <2>9. WritersAwake'
    <3>1. Sleeping(Writers)' => Sleeping(Writers)
      BY <2>3 DEF Sleeping, Workers
    <3>2. Len(responses) \in Nat /\ responses' = responses
      BY <1>1 DEF TypeOK
    <3>3. AtLeast(Awake(Writers) \cup Notifying(Lanes), Len(responses)) =>
            AtLeast(Awake(Writers)' \cup Notifying(Lanes)', Len(responses))
      BY <2>5, <3>2, AtLeastFacts
    <3> QED BY <2>5, <3>1, <3>2, <3>3 DEF WakeInv, WritersAwake, AtLeast
  <2> QED BY <2>6, <2>7, <2>8, <2>9 DEF WakeInv
<1> QED BY <1>2, <1>3 DEF AcceptEnqueue

(* A request that enters a lane has a notification behind it.                    *)
LEMMA EnqueueWake ==
  ASSUME IInv, WakeInv, NEW w \in Ingress, IngressEnqueue(w) PROVE WakeInv'
<1>1. /\ TypeOK /\ w \in Workers /\ worker[w].pc = "enqueue" /\ Free(Lanes)
      /\ UNCHANGED <<pending, responses, stop, thread>>
  BY DEF IInv, IngressEnqueue, Workers
<1>2. CASE UNCHANGED lanes /\ worker' = Loop(w)
  <2>1. UNCHANGED <<queues, stop>>
    BY <1>1, <1>2 DEF queues
  <2>2. \A v \in Workers : worker'[v].pc = IF v = w THEN "loop" ELSE worker[v].pc
    BY <1>1, <1>2, PcFacts
  <2> QED BY <1>1, <2>1, <2>2, QuietWake
<1>3. CASE worker' = Become(w, "notify", NoConn)
  <2>1. \A v \in Workers : worker'[v].pc = IF v = w THEN "notify" ELSE worker[v].pc
    BY <1>1, <1>3, PcFacts
  <2>2. \A v \in Workers : worker'[v].pc \in {"checked", "waiting"} =>
          worker'[v].pc = worker[v].pc /\ (worker[v].pc = "checked" => v \notin Lanes)
    BY <1>1, <2>1 DEF Free
  <2>3. \A v \in Workers \ Lanes : Inbox(v)' = Inbox(v)
    BY <1>1 DEF Inbox, Workers
  <2>4. /\ Stopping <=> Stopping'
        /\ Notifying(Lanes)' = Notifying(Lanes) /\ Notifying(Ingress)' # {}
        /\ Awake(Writers)' = Awake(Writers) /\ Awake(Ingress)' = Awake(Ingress)
    BY <1>1, <2>1, ListenerAssumption DEF Stopping, Notifying, Awake, Workers
  <2>5. CheckedEmpty' /\ CheckedAhead' /\ SleepersAhead'
    BY <1>1, <2>2, <2>3, <2>4 DEF WakeInv, CheckedEmpty, CheckedAhead, SleepersAhead, Sleeping
  <2>6. LanesTold'
    BY <2>4 DEF LanesTold
  <2>7. (Sleeping(Ingress)' => Sleeping(Ingress)) /\ (Sleeping(Writers)' => Sleeping(Writers))
    BY <2>2 DEF Sleeping, Workers
  <2>8. IngressAwake' /\ WritersAwake'
    BY <1>1, <2>4, <2>7 DEF WakeInv, IngressAwake, WritersAwake, AtLeast
  <2> QED BY <2>5, <2>6, <2>8 DEF WakeInv
<1> QED BY <1>1, <1>2, <1>3 DEF IngressEnqueue

(* notify_all() leaves no worker of a lane asleep.                              *)
LEMMA IngressNotifyWake ==
  ASSUME IInv, WakeInv, NEW w \in Ingress, IngressNotify(w) PROVE WakeInv'
<1>1. /\ TypeOK /\ w \in Workers /\ worker[w].pc = "notify"
      /\ UNCHANGED <<pending, lanes, responses, stop, thread>>
      /\ worker' = [Wake(Lanes) EXCEPT ![w] = Idle]
  BY DEF IInv, IngressNotify, queues, Workers
<1>2. \A v \in Workers : worker'[v].pc = IF v = w \/ (v \in Lanes /\ worker[v].pc = "waiting")
                                         THEN "loop" ELSE worker[v].pc
  BY <1>1 DEF Wake, Idle
<1>3. (\A v : Inbox(v)' = Inbox(v)) /\ (Stopping <=> Stopping')
  BY <1>1 DEF Inbox, Stopping
<1>4. \A v \in Workers : worker'[v].pc \in {"checked", "waiting"} => worker'[v].pc = worker[v].pc
  BY <1>2
<1>5. /\ Awake(Ingress) \subseteq Awake(Ingress)' /\ Awake(Writers) \subseteq Awake(Writers)'
      /\ Notifying(Lanes) \subseteq Notifying(Lanes)'
      /\ Len(pending) \in Nat /\ Len(responses) \in Nat
  <2>1. Awake(Ingress) \subseteq Awake(Ingress)' /\ Awake(Writers) \subseteq Awake(Writers)'
    BY <1>2 DEF Awake, Workers
  <2>2. Notifying(Lanes) \subseteq Notifying(Lanes)'
    BY <1>2, ListenerAssumption DEF Notifying, Workers
  <2> QED BY <1>1, <2>1, <2>2 DEF TypeOK
<1>6. CheckedEmpty' /\ CheckedAhead' /\ SleepersAhead'
  BY <1>1, <1>3, <1>4 DEF WakeInv, CheckedEmpty, CheckedAhead, SleepersAhead, Sleeping
<1>7. LanesTold'
  BY <1>2 DEF LanesTold, Workers
<1>8. (Sleeping(Ingress)' => Sleeping(Ingress)) /\ (Sleeping(Writers)' => Sleeping(Writers))
  BY <1>4 DEF Sleeping, Workers
<1>9. IngressAwake'
  <2>1. AtLeast(Awake(Ingress), Len(pending)) => AtLeast(Awake(Ingress)', Len(pending))
    BY <1>5, AtLeastFacts
  <2> QED BY <1>1, <1>3, <1>8, <2>1 DEF WakeInv, IngressAwake, AtLeast
<1>10. WritersAwake'
  <2>1. AtLeast(Awake(Writers) \cup Notifying(Lanes), Len(responses)) =>
          AtLeast(Awake(Writers)' \cup Notifying(Lanes)', Len(responses))
    BY <1>5, AtLeastFacts
  <2> QED BY <1>1, <1>3, <1>8, <2>1 DEF WakeInv, WritersAwake, AtLeast
<1> QED BY <1>6, <1>7, <1>9, <1>10 DEF WakeInv

(* A response is pushed under the mutex; the wake-up of one writer follows.       *)
LEMMA PushWake == ASSUME IInv, WakeInv, NEW w \in Lanes, Push(w) PROVE WakeInv'
<1>1. /\ TypeOK /\ WorkersOK /\ w \in Workers /\ worker[w].pc = "push" /\ Free(Writers)
      /\ UNCHANGED <<pending, lanes, stop, thread>>
      /\ responses' = Append(responses, worker[w].conn)
  BY DEF IInv, Owned, Push, Workers
<1>2. \A v \in Workers : worker'[v].pc = IF v = w THEN "notify" ELSE worker[v].pc
  BY <1>1, PcFacts DEF Push
<1>3. Len(responses) \in Nat /\ Len(responses') = Len(responses) + 1
  <2>1. responses \in Seq(Conns) /\ worker[w].conn \in Conns
    BY <1>1 DEF TypeOK, WorkersOK, Stage, Busy
  <2> QED BY <1>1, <2>1
<1>4. \A v \in Workers : worker'[v].pc \in {"checked", "waiting"} =>
        worker'[v].pc = worker[v].pc /\ (worker[v].pc = "checked" => v \notin Writers)
  BY <1>1, <1>2 DEF Free
<1>5. \A v \in Workers \ Writers : Inbox(v)' = Inbox(v)
  BY <1>1 DEF Inbox
<1>6. /\ Stopping <=> Stopping'
      /\ Notifying(Ingress) \subseteq Notifying(Ingress)'
      /\ Awake(Writers)' = Awake(Writers) /\ Awake(Ingress)' = Awake(Ingress)
      /\ w \notin Awake(Writers) \cup Notifying(Lanes)
      /\ Notifying(Lanes) \cup {w} \subseteq Notifying(Lanes)'
  BY <1>1, <1>2 DEF Stopping, Notifying, Awake, Workers
<1>7. CheckedEmpty' /\ CheckedAhead' /\ SleepersAhead'
  BY <1>1, <1>4, <1>5, <1>6 DEF WakeInv, CheckedEmpty, CheckedAhead, SleepersAhead, Sleeping
<1>8. LanesTold'
  BY <1>1, <1>4, <1>5, <1>6, Groups DEF WakeInv, LanesTold, Workers
<1>9. (Sleeping(Ingress)' => Sleeping(Ingress)) /\ (Sleeping(Writers)' => Sleeping(Writers))
  BY <1>4 DEF Sleeping, Workers
<1>10. IngressAwake'
  BY <1>1, <1>6, <1>9 DEF WakeInv, IngressAwake, AtLeast
<1>11. WritersAwake'
  <2> DEFINE S == Awake(Writers) \cup Notifying(Lanes)
  <2>1. w \notin S /\ S \cup {w} \subseteq S'
    BY <1>6
  <2> HIDE DEF S
  <2>2. ASSUME AtLeast(S, Len(responses)) PROVE AtLeast(S', Len(responses'))
    <3>1. AtLeast(S', Len(responses) + 1)
      BY <1>3, <2>1, <2>2, AtLeastFacts
    <3> QED BY <1>3, <3>1
  <2> QED BY <1>6, <1>9, <2>2 DEF WakeInv, WritersAwake, AtLeast, S
<1> QED BY <1>7, <1>8, <1>10, <1>11 DEF WakeInv

(* notify_one() turns a notification into a writer that is awake, or finds all awake. *)
LEMMA PushNotifyWake ==
  ASSUME IInv, WakeInv, NEW w \in Lanes, PushNotify(w) PROVE WakeInv'
<1>1. /\ TypeOK /\ w \in Workers /\ w \notin Writers /\ w \notin Ingress
      /\ worker[w].pc = "notify"
      /\ UNCHANGED <<pending, lanes, responses, stop, thread>>
      /\ (\A v : Inbox(v)' = Inbox(v)) /\ Len(responses) \in Nat
  BY ListenerAssumption DEF IInv, TypeOK, PushNotify, queues, Workers, Inbox
<1>2. Stopping <=> Stopping'
  BY <1>1 DEF Stopping
<1>3. ASSUME \A v \in Writers : worker[v].pc # "waiting" PROVE worker' = Loop(w)
  BY <1>3 DEF PushNotify
<1>4. ASSUME NEW u \in Writers, worker[u].pc = "waiting"
      PROVE  \E v \in Writers : worker[v].pc = "waiting" /\ worker' = [Wake({v}) EXCEPT ![w] = Idle]
  BY <1>4 DEF PushNotify
<1>5. PICK u \in Workers :
        /\ \A v \in Workers : worker'[v].pc = IF v \in {u, w} THEN "loop" ELSE worker[v].pc
        /\ \/ u = w /\ \A v \in Writers : worker[v].pc # "waiting"
           \/ u \in Writers /\ worker[u].pc = "waiting"
  <2>1. CASE \A v \in Writers : worker[v].pc # "waiting"
    <3>1. \A v \in Workers : worker'[v].pc = IF v \in {w, w} THEN "loop" ELSE worker[v].pc
      BY <1>1, <1>3, <2>1, PcFacts
    <3> QED BY <1>1, <2>1, <3>1
  <2>2. ASSUME NEW x \in Writers, worker[x].pc = "waiting"
        PROVE  \E u \in Writers :
                 /\ \A v \in Workers : worker'[v].pc = IF v \in {u, w} THEN "loop" ELSE worker[v].pc
                 /\ worker[u].pc = "waiting"
    <3>1. PICK u \in Writers : worker[u].pc = "waiting" /\ worker' = [Wake({u}) EXCEPT ![w] = Idle]
      BY <1>4, <2>2
    <3>2. \A v \in Workers : worker'[v].pc = IF v \in {u, w} THEN "loop" ELSE worker[v].pc
      BY <3>1 DEF Wake, Idle
    <3> QED BY <3>1, <3>2
  <2> QED BY <2>1, <2>2 DEF Workers
<1>6. \A v \in Workers : worker'[v].pc \in {"checked", "waiting"} => worker'[v].pc = worker[v].pc
  BY <1>5
<1>7. /\ Notifying(Ingress) \subseteq Notifying(Ingress)' /\ Awake(Ingress)' = Awake(Ingress)
      /\ (Sleeping(Ingress)' => Sleeping(Ingress)) /\ (Sleeping(Writers)' => Sleeping(Writers))
  BY <1>1, <1>5, Groups DEF Notifying, Awake, Sleeping, Workers
<1>8. CheckedEmpty' /\ CheckedAhead' /\ SleepersAhead'
  BY <1>1, <1>2, <1>6 DEF WakeInv, CheckedEmpty, CheckedAhead, SleepersAhead, Sleeping
<1>9. LanesTold'
  BY <1>1, <1>2, <1>6, <1>7 DEF WakeInv, LanesTold, Workers
<1>10. IngressAwake'
  BY <1>1, <1>2, <1>7 DEF WakeInv, IngressAwake, AtLeast
<1>11. WritersAwake'
  <2>1. CASE \A v \in Writers : worker[v].pc # "waiting"
    BY <1>6, <2>1 DEF WritersAwake, Sleeping, Workers
  <2>2. CASE u \in Writers /\ worker[u].pc = "waiting"
    <3> DEFINE S == Awake(Writers) \cup Notifying(Lanes)
    <3>1. w \in S /\ u \notin S /\ (S \ {w}) \cup {u} \subseteq S'
      BY <1>1, <1>5, <2>2, Groups DEF Awake, Notifying, Workers
    <3> HIDE DEF S
    <3>2. ASSUME AtLeast(S, Len(responses)) PROVE AtLeast(S', Len(responses))
      <4>1. AtLeast((S \ {w}) \cup {u}, Len(responses))
        BY <1>1, <3>1, <3>2, AtLeastSwap
      <4> QED BY <1>1, <3>1, <4>1, AtLeastFacts
    <3> QED BY <1>1, <1>2, <1>7, <3>2 DEF WakeInv, WritersAwake, AtLeast, S
  <2> QED BY <1>5, <2>1, <2>2
<1> QED BY <1>8, <1>9, <1>10, <1>11 DEF WakeInv

LEMMA StopEnterWake == ASSUME IInv, WakeInv, NEW t \in Threads, StopEnter(t) PROVE WakeInv'
<1>1. /\ TypeOK /\ UNCHANGED <<pending, lanes, responses, worker>> /\ thread[t] = "run"
      /\ thread'[t] = IF stop THEN "join" ELSE "events"
      /\ \A u \in Threads : u # t => thread'[u] = thread[u]
  BY DEF IInv, StopEnter, queues, TypeOK
<1>2. (\A v : Inbox(v)' = Inbox(v)) /\ (\A G : Sleeping(G)' <=> Sleeping(G))
  BY <1>1 DEF Inbox, Sleeping
<1>3. (Stopping => Stopping') /\ (~stop => Stopping')
  BY <1>1 DEF Stopping, BeforeNotify, BeforeCancel
<1>4. CheckedEmpty' /\ CheckedAhead'
  BY <1>1, <1>2 DEF WakeInv, CheckedEmpty, CheckedAhead, BeforeQueue
<1>5. SleepersAhead' /\ LanesTold'
  BY <1>1, <1>2, <1>3 DEF WakeInv, SleepersAhead, LanesTold, Notifying
<1>6. IngressAwake' /\ WritersAwake'
  BY <1>1, <1>2, <1>3 DEF WakeInv, IngressAwake, WritersAwake, AtLeast, Awake, Notifying
<1> QED BY <1>4, <1>5, <1>6 DEF WakeInv

(* stop() takes the mutex of a queue only when no worker is about to sleep on it.  *)
LEMMA AdvanceWake ==
  ASSUME TypeOK, WakeInv, NEW t \in Threads, NEW next \in BeforeNotify,
         thread' = [thread EXCEPT ![t] = next], UNCHANGED <<worker, stop>>,
         \A w \in Workers : Inbox(w) = <<>> => Inbox(w)' = <<>>,
         \A w \in Workers : worker[w].pc = "checked" /\ thread[t] \in BeforeQueue(w) =>
           next \in BeforeQueue(w)
  PROVE  WakeInv'
<1>1. thread'[t] = next /\ \A u \in Threads : u # t => thread'[u] = thread[u]
  BY DEF TypeOK
<1>2. Stopping'
  BY <1>1 DEF Stopping
<1>3. CheckedEmpty' /\ CheckedAhead'
  BY <1>1 DEF WakeInv, CheckedEmpty, CheckedAhead, BeforeQueue
<1>4. SleepersAhead' /\ LanesTold' /\ IngressAwake' /\ WritersAwake'
  BY <1>2 DEF SleepersAhead, LanesTold, IngressAwake, WritersAwake
<1> QED BY <1>3, <1>4 DEF WakeInv

LEMMA StopWake == ASSUME IInv, WakeInv, NEW t \in Threads, Stop(t) PROVE WakeInv'
<1>1. TypeOK /\ {"pending", "lanes", "responses", "cancel", "notify"} \subseteq BeforeNotify
  BY DEF IInv, BeforeNotify, BeforeCancel
<1>2. CASE StopEvents(t)
  <2>1. \A w : Inbox(w)' = Inbox(w)
    BY <1>2 DEF StopEvents, queues, Inbox
  <2>2. \A w : "pending" \in BeforeQueue(w)
    BY DEF BeforeQueue
  <2> QED BY <1>1, <1>2, <2>1, <2>2, AdvanceWake DEF StopEvents
<1>3. CASE StopPending(t)
  <2>1. \A w \in Workers : Inbox(w) = <<>> => Inbox(w)' = <<>>
    BY <1>3 DEF StopPending, Inbox
  <2>2. \A w \in Workers : worker[w].pc = "checked" => "lanes" \in BeforeQueue(w)
    BY <1>3 DEF StopPending, Free, BeforeQueue
  <2> QED BY <1>1, <1>3, <2>1, <2>2, AdvanceWake DEF StopPending
<1>4. CASE StopLanes(t)
  <2>1. \A w \in Workers : Inbox(w) = <<>> => Inbox(w)' = <<>>
    BY <1>4 DEF StopLanes, Inbox, Lane
  <2>2. \A w \in Workers : worker[w].pc = "checked" /\ "lanes" \in BeforeQueue(w) =>
          "responses" \in BeforeQueue(w)
    BY <1>4 DEF StopLanes, Free, BeforeQueue, Workers
  <2> QED BY <1>1, <1>4, <2>1, <2>2, AdvanceWake DEF StopLanes
<1>5. CASE StopResponses(t)
  <2>1. \A w \in Workers : Inbox(w) = <<>> => Inbox(w)' = <<>>
    BY <1>5 DEF StopResponses, Inbox
  <2>2. \A w \in Workers : worker[w].pc = "checked" /\ "responses" \in BeforeQueue(w) =>
          "cancel" \in BeforeQueue(w)
    BY <1>5 DEF StopResponses, Free, BeforeQueue
  <2> QED BY <1>1, <1>5, <2>1, <2>2, AdvanceWake DEF StopResponses
<1>6. CASE StopCancel(t)
  <2>1. \A w : Inbox(w)' = Inbox(w)
    BY <1>6 DEF StopCancel, queues, Inbox
  <2>2. \A w \in Workers : worker[w].pc = "checked" /\ "cancel" \in BeforeQueue(w) =>
          "notify" \in BeforeQueue(w)
    BY DEF BeforeQueue
  <2> QED BY <1>1, <1>6, <2>1, <2>2, AdvanceWake DEF StopCancel
<1>7. CASE StopNotify(t)
  <2>1. /\ UNCHANGED <<pending, lanes, responses, stop>> /\ thread[t] = "notify"
        /\ \A v \in Workers : worker'[v].pc = IF worker[v].pc = "waiting" THEN "loop"
                                              ELSE worker[v].pc
        /\ \A u \in Threads : u # t => thread'[u] = thread[u]
    BY <1>1, <1>7 DEF StopNotify, Wake, Idle, queues, TypeOK
  <2>2. CheckedEmpty' /\ CheckedAhead'
    <3>1. \A v : Inbox(v)' = Inbox(v)
      BY <2>1 DEF Inbox
    <3> QED BY <2>1, <3>1 DEF WakeInv, CheckedEmpty, CheckedAhead, BeforeQueue
  <2>3. SleepersAhead' /\ LanesTold' /\ IngressAwake' /\ WritersAwake'
    BY <2>1 DEF SleepersAhead, LanesTold, IngressAwake, WritersAwake, Sleeping, Workers
  <2> QED BY <2>2, <2>3 DEF WakeInv
<1> QED BY <1>2, <1>3, <1>4, <1>5, <1>6, <1>7 DEF Stop

LEMMA NextWake == ASSUME IInv, WakeInv, [Next]_vars PROVE WakeInv'
<1>1. TypeOK
  BY DEF IInv
<1>2. CASE UNCHANGED <<queues, worker, stop, thread>>
  BY <1>1, <1>2, QuietWake
<1>3. ASSUME NEW c \in Conns,
             Send(c) \/ Leave(c) \/ Accept(c) \/ CancelIo(c) \/ ImportEnds(c) \/ Poll(c)
      PROVE  WakeInv'
  BY <1>2, <1>3 DEF Send, Leave, Accept, CancelIo, ImportEnds, Poll, PollStart, PollEnds
<1>4. ASSUME NEW w \in Workers, FinishIo(w) \/ Post(w) PROVE WakeInv'
  BY <1>2, <1>4 DEF FinishIo, Post
<1>5. CASE OutOfWork \/ UNCHANGED vars
  BY <1>2, <1>5 DEF OutOfWork, vars, queues
<1>6. CASE JoinWorkers \/ Return
  <2>1. /\ UNCHANGED <<queues, worker, stop>>
        /\ \A t \in Threads : thread[t] \in BeforeNotify => thread'[t] = thread[t]
    BY <1>1, <1>6 DEF JoinWorkers, Return, BeforeNotify, BeforeCancel, TypeOK
  <2> QED BY <1>1, <2>1, QuietWake
<1>7. ASSUME NEW w \in Workers, NEW pc, pc \notin {"checked", "waiting"},
             worker[w].pc \in {"begin", "io", "init", "execute"},
             \A v \in Workers : worker'[v].pc = IF v = w THEN pc ELSE worker[v].pc,
             UNCHANGED <<queues, stop, thread>>
      PROVE  WakeInv'
  BY <1>1, <1>7, QuietWake
<1>8. ASSUME NEW w \in Workers, Register(w) \/ IngressRead(w) \/ Prepare(w) \/ Execute(w)
                                  \/ Written(w) \/ Fail(w)
      PROVE  WakeInv'
  <2>1. /\ worker[w].pc \in {"begin", "io", "init", "execute"}
        /\ UNCHANGED <<queues, stop, thread>>
        /\ \/ worker' = Step(w, "io") \/ worker' = Step(w, "enqueue") \/ worker' = Step(w, "push")
           \/ worker' = Loop(w) \/ worker' = Become(w, "exited", NoConn)
    BY <1>8 DEF Register, IngressRead, Prepare, Execute, Written, Fail
  <2>2. \E pc \in {"io", "enqueue", "push", "loop", "exited"} :
          \A v \in Workers : worker'[v].pc = IF v = w THEN pc ELSE worker[v].pc
    BY <1>1, <2>1, PcFacts
  <2> QED BY <1>7, <2>1, <2>2
<1>9. ASSUME NEW w \in Workers, WaitLoop(w) PROVE WakeInv'
  BY <1>1, <1>9, CheckWake, SleepWake, ExitWake, PopWake DEF WaitLoop
<1>10. ASSUME NEW w \in Workers, Work(w) PROVE WakeInv'
  BY <1>4, <1>8, <1>9, <1>10, EnqueueWake, IngressNotifyWake, PushWake, PushNotifyWake
     DEF Work, IngressWork, LaneWork
<1>11. ASSUME NEW t \in Threads, StopEnter(t) \/ Stop(t) PROVE WakeInv'
  BY <1>11, StopEnterWake, StopWake
<1> QED
  BY <1>3, <1>4, <1>5, <1>6, <1>8, <1>10, <1>11, AcceptEnqueueWake
     DEF Next, IoThreads, Workers

(* No worker sleeps on a condition that holds unless its notification is on its way, *)
(* for any number of workers of each kind and of callers of stop(), although the    *)
(* flag changes outside the mutexes and two of the queues wake one worker at a time. *)
THEOREM NoWakeupIsLost == Spec => []NoLostWakeup
<1>1. Init => WakeInv
  <2> SUFFICES ASSUME Init PROVE WakeInv
    OBVIOUS
  <2>1. \A w \in Workers : worker[w].pc \in {"init", "loop"}
    BY DEF Init, Idle
  <2> QED
    BY <2>1 DEF WakeInv, CheckedEmpty, CheckedAhead, SleepersAhead, IngressAwake, WritersAwake,
                LanesTold, Sleeping, Workers
<1>2. IInv /\ WakeInv /\ [Next]_vars => WakeInv'
  BY NextWake
<1>3. IInv /\ WakeInv => NoLostWakeup
  <2> SUFFICES ASSUME IInv, WakeInv, NEW w \in Workers, worker[w].pc = "waiting"
               PROVE  /\ stop => Stopping
                      /\ Inbox(w) # <<>> =>
                           \/ Stopping
                           \/ w \in Lanes /\ \E v \in Ingress : worker[v].pc = "notify"
                           \/ w \in Writers /\ \E v \in Lanes : worker[v].pc = "notify"
                           \/ w \notin Lanes /\ \E v \in Peers(w) : worker[v].pc = "loop"
    BY DEF NoLostWakeup, Stopping, BeforeNotify
  <2>1. TypeOK /\ (\A q \in Seq(Conns) : q # <<>> => Len(q) \in Nat /\ Len(q) # 0)
        /\ pending \in Seq(Conns) /\ responses \in Seq(Conns)
    BY DEF IInv, TypeOK
  <2>2. stop => Stopping
    BY DEF WakeInv, SleepersAhead, Sleeping
  <2>3. CASE w \in Ingress
    <3>1. Inbox(w) # <<>> => Stopping \/ Awake(Ingress) # {}
      BY <2>1, <2>3, Groups, AtLeastFacts DEF WakeInv, IngressAwake, Sleeping
    <3> QED BY <2>1, <2>2, <2>3, <3>1, Groups DEF Awake
  <2>4. CASE w \in Writers
    <3>1. Inbox(w) # <<>> => Stopping \/ Awake(Writers) # {} \/ Notifying(Lanes) # {}
      BY <2>1, <2>4, Groups, AtLeastFacts DEF WakeInv, WritersAwake, Sleeping
    <3> QED BY <2>1, <2>2, <2>4, <3>1, Groups DEF Awake, Notifying
  <2>5. CASE w \in Lanes
    BY <2>2, <2>5 DEF WakeInv, LanesTold, Notifying
  <2> QED BY <2>1, <2>3, <2>4, <2>5, Groups
<1>4. Spec => []WakeInv
  BY <1>1, <1>2, Invariant, PTL DEF Spec
<1> QED BY <1>3, <1>4, Invariant, PTL

-----------------------------------------------------------------------------
(* The documentation page                                                     *)

(* A calm page has everything it was given, and the place it has just found, *)
(* from the root that find_docs_root names now: the search depends on the    *)
(* directories alone, not on the file that is asked for.                     *)
FromOneRoot ==
  page.calm => /\ page.at \in File => page.found \in {None, FindDocsRoot("index")}
               /\ \A f \in File : page.from[f] \in {None, FindDocsRoot("index")}

PageShape ==
  /\ page = [at |-> page.at, found |-> page.found, calm |-> page.calm, from |-> page.from]
  /\ page.from = [f \in File |-> page.from[f]]

PageInv == PageShape /\ FromOneRoot

LEMMA PageInitInv == PageInit => PageInv
<1> SUFFICES ASSUME PageInit PROVE PageInv
  OBVIOUS
<1>1. page = NewPage
  BY DEF PageInit
<1>2. PageShape
  BY <1>1 DEF PageShape, NewPage
<1>3. FromOneRoot
  BY <1>1 DEF FromOneRoot, NewPage
<1> QED
  BY <1>2, <1>3 DEF PageInv

(* A step of the page takes its next file, or the next place, from the root  *)
(* that the search finds.                                                    *)
LEMMA PageLoadInv == ASSUME PageInv, Load PROVE PageInv'
<1> DEFINE here == FindDocsRoot("index")
<1>1. root' = root /\ here' = here
  BY DEF Load, Find, NotFound, Served, Onload, FindSpec, ReadSpec, FindDocsRoot
<1>3. \A f \in File : FindDocsRoot(f) = here
  BY DEF FindDocsRoot
<1> HIDE DEF here
<1>4. ASSUME NEW f \in File, Find(f) PROVE PageShape' /\ FromOneRoot'
  <2>1. page' = [page EXCEPT !.at = f, !.found = here]
    BY <1>3, <1>4 DEF Find, Goto
  <2> QED
    BY <1>1, <2>1 DEF PageInv, PageShape, FromOneRoot, here
<1>5. ASSUME NEW f \in File, NotFound(f) PROVE PageShape' /\ FromOneRoot'
  BY <1>1, <1>5 DEF NotFound, Goto, PageInv, PageShape, FromOneRoot, here
<1>6. ASSUME NEW f \in File, Served(f) PROVE PageShape' /\ FromOneRoot'
  <2>1. page' = [page EXCEPT !.at = After(f), !.found = None, !.from[f] = page.found]
    BY <1>6 DEF Served, Goto, PageInv, PageShape
  <2>2. /\ page'.found = None /\ page'.calm = page.calm /\ PageShape'
        /\ \A g \in File : page'.from[g] \in {page.from[g], page.found}
    BY <2>1 DEF PageInv, PageShape
  <2> QED
    BY <1>1, <1>6, <2>2 DEF Served, PageInv, FromOneRoot, here
<1>7. CASE Onload \/ FindSpec \/ ReadSpec
  <2>1. ASSUME NEW at \in {"blank", "spec", "error", "shown"}, NEW place, page' = Goto(at, place)
        PROVE  /\ page'.at \notin File /\ page'.calm = page.calm
               /\ page'.from = page.from /\ PageShape'
    BY <2>1 DEF Goto, PageInv, PageShape, File, Scripts
  <2>2. PageShape' /\ page'.at \notin File /\ page'.calm = page.calm /\ page'.from = page.from
    <3>1. CASE Onload
      BY <2>1, <3>1 DEF Onload
    <3>2. CASE FindSpec
      BY <2>1, <3>2 DEF FindSpec
    <3>3. CASE ReadSpec
      BY <2>1, <3>3 DEF ReadSpec
    <3> QED
      BY <1>7, <3>1, <3>2, <3>3
  <2> QED
    BY <1>1, <2>2 DEF PageInv, FromOneRoot, here
<1> QED
  BY <1>4, <1>5, <1>6, <1>7 DEF Load, PageInv

LEMMA PageNextInv == PageInv /\ [PageNext]_pageVars => PageInv'
<1> SUFFICES ASSUME PageInv, [PageNext]_pageVars PROVE PageInv'
  OBVIOUS
<1>1. CASE Load
  BY <1>1, PageLoadInv
<1>2. CASE Reload
  BY <1>2 DEF Reload, NewPage, PageInv, PageShape, FromOneRoot, FindDocsRoot
<1>3. ASSUME NEW p \in Place, Change(p) PROVE PageInv'
  BY <1>3 DEF Change, PageInv, PageShape, FromOneRoot
<1>4. CASE UNCHANGED pageVars
  BY <1>4 DEF pageVars, PageInv, PageShape, FromOneRoot, FindDocsRoot
<1> QED
  BY <1>1, <1>2, <1>3, <1>4 DEF PageNext

LEMMA PageInvariant == PageSpec => []PageInv
  BY PageInitInv, PageNextInv, PTL DEF PageSpec

(* The scripts of a page come from one installation, if none was changed      *)
(* while it loaded, although every request of the page searches for the root  *)
(* anew: whatever the roots are and however incomplete.                       *)
THEOREM PageIsFromOneRoot == PageSpec => []PageFromOneRoot
<1>1. PageInv => PageFromOneRoot
  <2> SUFFICES ASSUME PageInv, page.calm
               PROVE  Cardinality({page.from[f] : f \in File} \ {None}) <= 1
    BY DEF PageFromOneRoot
  <2> DEFINE here == FindDocsRoot("index")
             S == {page.from[f] : f \in File} \ {None}
  <2>1. S \in SUBSET {here}
    BY DEF PageInv, FromOneRoot
  <2> HIDE DEF here, S
  <2>2. IsFiniteSet({here}) /\ Cardinality({here}) = 1
    BY FS_Singleton
  <2> QED
    BY <2>1, <2>2, FS_Subset DEF S
<1> QED
  BY <1>1, PageInvariant, PTL
=============================================================================
