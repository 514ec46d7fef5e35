----------------------------- MODULE NudgesProofs -----------------------------
(* Nudges and their dismissals, for any workers, cards, fingerprints and      *)
(* heads, and any number of saves, requests and faults.                       *)
EXTENDS Nudges, TLAPS

Request == [op : {"none", "evaluate", "list", "dismiss"},
            at : {"idle", "match", "stale", "select", "backfill", "persist", "insert",
                  "read", "check", "drop", "answered"},
            now : SUBSET Nudge, todo : SUBSET Nudge, out : SUBSET Nudge,
            since : SUBSET Nudge, calm : BOOLEAN]

Type ==
  /\ rows \in [Nudge -> {"absent", "active", "dismissed"}]
  /\ files \subseteq Nudge /\ told \subseteq Nudge /\ unsaved \subseteq Nudge
  /\ up \in BOOLEAN /\ db \in {"ok", "lost"}
  /\ print \in [Cards -> Prints] /\ head \in Nat /\ faults \in Nat
  /\ req \in [Workers -> Request]

(* A commit that a nudge names has been the head.                             *)
Past(n) == n.commit # NoCommit => n.commit <= head

(* A readable database knows every tombstone, and a dismissal a client was    *)
(* told of has one.  Requests run only while the daemon serves.               *)
World ==
  /\ up => db = "ok"
  /\ ~up => \A w \in Workers : req[w] = Idle
  /\ db = "ok" => files \subseteq Dismissed
  /\ told \subseteq files
  /\ \A n \in Nudge : rows[n] # "absent" \/ n \in files => Past(n)

(* What is true of a request r at each of its stages.                         *)
Stage(r) ==
  /\ r.at = "idle" => r = Idle
  /\ r.at \in {"match", "stale", "select", "backfill", "insert", "read"} => r.op = "evaluate"
  /\ r.at \in {"check", "drop"} => r.op = "list"
  /\ r.at \in {"match", "stale", "select", "insert", "read", "answered"} => r.todo = {}
  /\ r.at = "drop" => \E n \in Nudge : r.now = {n}
  /\ r.op = "dismiss" => r.out = {}

(* A tombstone is only written for a row that is dismissed already.           *)
Saved(r, D) ==
  /\ r.at = "persist" => r.now \subseteq D
  /\ r.op = "evaluate" => r.todo \subseteq D

(* Nothing announced before the request began is on its way to the answer.    *)
Hidden(r) ==
  /\ r.since \subseteq told
  /\ r.op = "list" => (r.todo \cup r.out) \cap r.since = {}
  /\ r.at = "answered" => r.out \cap r.since = {}

Known(r) == \A n \in r.now \cup r.todo \cup r.out : Past(n)

(* What a list has let through after a look at the texts and the head: none   *)
(* of a commit older than one still to come, of a card the text it has.       *)
OnePer(r) ==
  r.op = "list" /\ r.calm =>
    \A m \in r.out : ~NeverStale(m) =>
      /\ m.print # NoPrint => print[m.subject] = m.print
      /\ m.commit # NoCommit =>
           \A n \in r.out \cup r.todo : n.commit # NoCommit => n.commit <= m.commit

ReqOK(r) == Stage(r) /\ Saved(r, Dismissed) /\ Hidden(r) /\ Known(r) /\ OnePer(r)

IInv == Type /\ World /\ \A w \in Workers : ReqOK(req[w])

-----------------------------------------------------------------------------
LEMMA CommitIsHead ==
  ASSUME NEW n \in Nudge, n.commit # NoCommit
  PROVE  n.commit \in 0..MaxBasis
BY NudgesAssumption

LEMMA PastStays ==
  ASSUME NEW n \in Nudge, Past(n), head \in Nat, head' \in Nat, head <= head'
  PROVE  Past(n)'
BY CommitIsHead, NudgesAssumption DEF Past

LEMMA AdvanceGrows ==
  ASSUME head \in Nat
  PROVE  Advance(head) \in Nat /\ head <= Advance(head)
BY NudgesAssumption DEF Advance

LEMMA IdleOK == Idle \in Request /\ ReqOK(Idle)
BY DEF Idle, Request, ReqOK, Stage, Saved, Hidden, Known, OnePer

LEMMA InitInv ==
  ASSUME Init
  PROVE  IInv
<1>1. Type
  BY IdleOK DEF Init, Type
<1>2. World
  BY DEF Init, World
<1> QED
  BY <1>1, <1>2, IdleOK DEF Init, IInv

(* What a step of other actors leaves true of a request: dismissals, files,   *)
(* announcements and the head only grow, and the texts are as they were.      *)
LEMMA RequestStays ==
  ASSUME NEW r \in Request, ReqOK(r), Dismissed \subseteq Dismissed', told \subseteq told',
         head \in Nat, head' \in Nat, head <= head', print' = print
  PROVE  ReqOK(r)'
<1>1. Saved(r, Dismissed')
  BY DEF ReqOK, Saved
<1>2. Hidden(r)'
  BY DEF ReqOK, Hidden
<1>3. Known(r)'
  BY PastStays DEF ReqOK, Known, Request
<1>4. OnePer(r)'
  BY DEF ReqOK, OnePer
<1> QED
  BY <1>1, <1>2, <1>3, <1>4 DEF ReqOK, Saved

(* One step of the request that worker w serves, which becomes q.             *)
LEMMA WorkerStep ==
  ASSUME IInv, up, NEW w \in Workers, NEW q \in Request, Goto(w, q),
         UNCHANGED <<db, up, print>>,
         rows' \in [Nudge -> {"absent", "active", "dismissed"}],
         files' \subseteq Nudge, told' \subseteq Nudge, unsaved' \subseteq Nudge, head' \in Nat,
         faults' \in Nat,
         Dismissed \subseteq Dismissed', told \subseteq told', head <= head',
         files' \subseteq Dismissed', told' \subseteq files',
         \A n \in Nudge : rows'[n] # "absent" \/ n \in files' => Past(n)',
         Stage(q), Saved(q, Dismissed'), Hidden(q), Known(q), OnePer(q)
  PROVE  IInv'
<1>1. /\ req' \in [Workers -> Request] /\ req'[w] = q
      /\ \A v \in Workers \ {w} : req'[v] = req[v]
  BY DEF Goto, IInv, Type
<1>2. Type'
  BY <1>1 DEF IInv, Type
<1>3. World'
  BY DEF IInv, World
<1>4. ReqOK(q)'
  <2>1. Hidden(q)'
    BY DEF Hidden
  <2>2. Known(q)'
    BY PastStays DEF Known, Request, IInv, Type
  <2>3. OnePer(q)'
    BY DEF OnePer
  <2> QED BY <2>1, <2>2, <2>3 DEF ReqOK, Saved
<1>5. \A v \in Workers \ {w} : ReqOK(req[v])'
  <2> TAKE v \in Workers \ {w}
  <2>1. PICK r \in Request : r = req[v] /\ ReqOK(r)
    BY DEF IInv, Type
  <2>2. ReqOK(r)'
    BY <2>1, RequestStays DEF IInv, Type
  <2>3. r = req'[v]
    BY <1>1, <2>1
  <2> QED BY <2>2, <2>3
<1>6. \A v \in Workers : ReqOK(req[v])'
  BY <1>1, <1>4, <1>5
<1> QED
  BY <1>2, <1>3, <1>6 DEF IInv

(* The same for a step that reads only.                                       *)
LEMMA QuietStep ==
  ASSUME IInv, up, NEW w \in Workers, NEW q \in Request, Goto(w, q),
         UNCHANGED <<rows, disk, head, history, faults>>, ReqOK(q)
  PROVE  IInv'
<1>1. UNCHANGED <<rows, files, db, up, print, head, told, unsaved, faults>>
  BY DEF disk, history
<1>2. Dismissed' = Dismissed
  BY <1>1 DEF Dismissed
<1>3. \A n \in Nudge : rows'[n] # "absent" \/ n \in files' => Past(n)'
  BY <1>1 DEF IInv, World, Past
<1> QED
  BY <1>1, <1>2, <1>3, WorkerStep DEF IInv, Type, World, ReqOK

(* A worker that is at work is a worker of a serving daemon.                  *)
LEMMA AtWork ==
  ASSUME IInv, NEW w \in Workers, req[w].at # "idle"
  PROVE  up /\ db = "ok" /\ files \subseteq Dismissed
BY DEF IInv, Type, World, Idle

LEMMA ReqOf ==
  ASSUME IInv, NEW w \in Workers
  PROVE  req[w] \in Request /\ ReqOK(req[w])
BY DEF IInv, Type

LEMMA NothingToldIsActive ==
  ASSUME IInv, up
  PROVE  Active \cap told = {} /\ Active \subseteq Nudge /\ Dismissed \subseteq Nudge
BY DEF IInv, World, Dismissed, Active

USE DEF ReqOK

-----------------------------------------------------------------------------
(* POST /ai/nudges/evaluate.                                                  *)

LEMMA EvaluateInv ==
  ASSUME IInv, NEW w \in Workers, NEW n \in Nudge, Evaluate(w, n)
  PROVE  IInv'
<1>1. PICK q : /\ q = [Idle EXCEPT !.op = "evaluate", !.at = "match", !.now = {n},
                                   !.since = told]
               /\ Goto(w, q)
  BY DEF Evaluate
<1>2. /\ q.op = "evaluate" /\ q.at = "match" /\ q.now = {n} /\ q.since = told
      /\ q.todo = {} /\ q.out = {}
      /\ q \in Request
  BY <1>1 DEF Idle, Request, IInv, Type
<1>3. Stage(q) /\ Saved(q, Dismissed) /\ Hidden(q) /\ OnePer(q)
  BY <1>2 DEF Stage, Saved, Hidden, OnePer
<1>4. Known(q)
  BY <1>2 DEF Known, Past, Evaluate
<1> QED
  BY <1>1, <1>2, <1>3, <1>4, QuietStep DEF Evaluate, counters

LEMMA MatchInv ==
  ASSUME IInv, NEW w \in Workers, Match(w)
  PROVE  IInv'
<1> DEFINE r == req[w]
<1>1. r \in Request /\ ReqOK(r) /\ up
  BY ReqOf, AtWork DEF Match
<1>2. CASE r.now \subseteq Active
  <2>1. PICK q : q = [Answer(w) EXCEPT !.out = r.now] /\ Goto(w, q)
    BY <1>2 DEF Match
  <2>2. /\ q.op = r.op /\ q.at = "answered" /\ q.now = {} /\ q.since = r.since
        /\ q.todo = {} /\ q.out = r.now /\ q.calm = r.calm
        /\ q \in Request
    BY <1>1, <2>1 DEF Answer, Request
  <2>3. r.op = "evaluate"
    BY <1>1 DEF Match, Stage
  <2>4. Stage(q) /\ Saved(q, Dismissed) /\ OnePer(q)
    BY <2>2, <2>3 DEF Stage, Saved, OnePer
  <2>5. Hidden(q)
    BY <1>1, <1>2, <2>2, <2>3, NothingToldIsActive DEF Hidden
  <2>6. Known(q)
    BY <1>1, <2>2 DEF Known
  <2> QED BY <1>1, <2>1, <2>2, <2>4, <2>5, <2>6, QuietStep DEF Match, counters
<1>3. CASE ~(r.now \subseteq Active)
  <2>1. PICK q : q = [r EXCEPT !.at = "stale"] /\ Goto(w, q)
    BY <1>3 DEF Match
  <2>2. /\ q.op = r.op /\ q.at = "stale" /\ q.now = r.now /\ q.since = r.since
        /\ q.todo = r.todo /\ q.out = r.out /\ q.calm = r.calm
        /\ q \in Request
    BY <1>1, <2>1 DEF Request
  <2>3. ReqOK(q)
    BY <1>1, <2>2 DEF Match, Stage, Saved, Hidden, Known, OnePer
  <2> QED BY <1>1, <2>1, <2>2, <2>3, QuietStep DEF Match, counters
<1> QED
  BY <1>2, <1>3

LEMMA DismissStaleVariantsInv ==
  ASSUME IInv, NEW w \in Workers, DismissStaleVariants(w)
  PROVE  IInv'
<1> DEFINE r == req[w]
<1>1. r \in Request /\ ReqOK(r) /\ up /\ files \subseteq Dismissed
  BY ReqOf, AtWork DEF DismissStaleVariants
<1>2. PICK q : q = [r EXCEPT !.at = "select"] /\ Goto(w, q)
  BY DEF DismissStaleVariants
<1>3. /\ q.op = r.op /\ q.at = "select" /\ q.now = r.now /\ q.since = r.since
      /\ q.todo = r.todo /\ q.out = r.out /\ q.calm = r.calm
      /\ q \in Request
  BY <1>1, <1>2 DEF Request
<1>4. r.at = "stale" /\ UNCHANGED <<files, db, up, print, head, told, unsaved, faults>>
  BY DEF DismissStaleVariants, disk, history, counters
<1>5. PICK n \in r.now : rows' = [v \in Nudge |->
                              IF v \in Variants(n) THEN "dismissed" ELSE rows[v]]
  BY DEF DismissStaleVariants
<1>6. Dismissed \subseteq Dismissed'
  BY <1>5 DEF Dismissed
<1>7. /\ rows' \in [Nudge -> {"absent", "active", "dismissed"}]
      /\ \A v \in Nudge : rows[v] = "absent" => rows'[v] = "absent"
  BY <1>5 DEF IInv, Type, Variants, Active
<1>8. \A v \in Nudge : rows'[v] # "absent" \/ v \in files' => Past(v)'
  BY <1>4, <1>7 DEF IInv, World, Past
<1>9. Stage(q) /\ Saved(q, Dismissed') /\ Hidden(q) /\ Known(q) /\ OnePer(q)
  BY <1>1, <1>3, <1>4, <1>6 DEF Stage, Saved, Hidden, Known, OnePer
<1> QED
  BY <1>1, <1>2, <1>3, <1>4, <1>6, <1>7, <1>8, <1>9, WorkerStep DEF IInv, Type, World

LEMMA SelectDismissedInv ==
  ASSUME IInv, NEW w \in Workers, SelectDismissed(w)
  PROVE  IInv'
<1> DEFINE r == req[w]
<1>1. r \in Request /\ ReqOK(r) /\ up /\ r.at = "select"
  BY ReqOf, AtWork DEF SelectDismissed
<1>2. PICK q : q = [r EXCEPT !.at = "backfill", !.todo = Dismissed] /\ Goto(w, q)
  BY DEF SelectDismissed
<1>3. /\ q.op = r.op /\ q.at = "backfill" /\ q.now = r.now /\ q.since = r.since
      /\ q.todo = Dismissed /\ q.out = r.out /\ q.calm = r.calm
      /\ q \in Request
  BY <1>1, <1>2, NothingToldIsActive DEF Request
<1>4. Stage(q) /\ Saved(q, Dismissed) /\ Hidden(q) /\ OnePer(q)
  BY <1>1, <1>3 DEF Stage, Saved, Hidden, OnePer
<1>5. Known(q)
  BY <1>1, <1>3 DEF Known, Dismissed, IInv, World
<1> QED
  BY <1>1, <1>2, <1>3, <1>4, <1>5, QuietStep DEF SelectDismissed, counters

LEMMA BackfillInv ==
  ASSUME IInv, NEW w \in Workers, Backfill(w)
  PROVE  IInv'
<1> DEFINE r == req[w]
<1>1. r \in Request /\ ReqOK(r) /\ up /\ r.at = "backfill" /\ r.op = "evaluate"
  BY ReqOf, AtWork DEF Backfill, Stage
<1>2. CASE r.todo = {}
  <2>1. PICK q : q = [r EXCEPT !.at = "insert"] /\ Goto(w, q)
    BY <1>2 DEF Backfill
  <2>2. /\ q.op = r.op /\ q.at = "insert" /\ q.now = r.now /\ q.since = r.since
        /\ q.todo = r.todo /\ q.out = r.out /\ q.calm = r.calm
        /\ q \in Request
    BY <1>1, <2>1 DEF Request
  <2>3. ReqOK(q)
    BY <1>1, <1>2, <2>2 DEF Stage, Saved, Hidden, Known, OnePer
  <2> QED BY <1>1, <2>1, <2>2, <2>3, QuietStep DEF Backfill, counters
<1>3. ASSUME NEW n \in r.todo, n \in files, Goto(w, [r EXCEPT !.todo = @ \ {n}])
      PROVE  IInv'
  <2>1. PICK q : q = [r EXCEPT !.todo = @ \ {n}] /\ Goto(w, q)
    BY <1>3
  <2>2. /\ q.op = r.op /\ q.at = r.at /\ q.now = r.now /\ q.since = r.since
        /\ q.todo = r.todo \ {n} /\ q.out = r.out /\ q.calm = r.calm
        /\ q \in Request
    BY <1>1, <2>1 DEF Request
  <2>3. ReqOK(q)
    BY <1>1, <2>2 DEF Stage, Saved, Hidden, Known, OnePer
  <2> QED BY <1>1, <2>1, <2>2, <2>3, QuietStep DEF Backfill, counters
<1>4. ASSUME NEW n \in r.todo,
             Goto(w, [r EXCEPT !.at = "persist", !.todo = @ \ {n}, !.out = r.now, !.now = {n}])
      PROVE  IInv'
  <2>1. PICK q : /\ q = [r EXCEPT !.at = "persist", !.todo = @ \ {n}, !.out = r.now,
                                  !.now = {n}]
                 /\ Goto(w, q)
    BY <1>4
  <2>2. /\ q.op = r.op /\ q.at = "persist" /\ q.now = {n} /\ q.since = r.since
        /\ q.todo = r.todo \ {n} /\ q.out = r.now /\ q.calm = r.calm
        /\ q \in Request
    BY <1>1, <2>1 DEF Request
  <2>3. ReqOK(q)
    BY <1>1, <2>2 DEF Stage, Saved, Hidden, Known, OnePer
  <2> QED BY <1>1, <2>1, <2>2, <2>3, QuietStep DEF Backfill, counters
<1> QED
  BY <1>2, <1>3, <1>4 DEF Backfill

LEMMA InsertInv ==
  ASSUME IInv, NEW w \in Workers, Insert(w)
  PROVE  IInv'
<1> DEFINE r == req[w]
<1>1. r \in Request /\ ReqOK(r) /\ up /\ files \subseteq Dismissed
  BY ReqOf, AtWork DEF Insert
<1>2. PICK q : q = [r EXCEPT !.at = "read"] /\ Goto(w, q)
  BY DEF Insert
<1>3. /\ q.op = r.op /\ q.at = "read" /\ q.now = r.now /\ q.since = r.since
      /\ q.todo = r.todo /\ q.out = r.out /\ q.calm = r.calm
      /\ q \in Request
  BY <1>1, <1>2 DEF Request
<1>4. r.at = "insert" /\ UNCHANGED <<files, db, up, print, head, told, unsaved, faults>>
  BY DEF Insert, disk, history, counters
<1>5. rows' = [n \in Nudge |-> IF n \in r.now /\ rows[n] = "absent"
                               THEN "active" ELSE rows[n]]
  BY DEF Insert
<1>6. Dismissed \subseteq Dismissed'
  BY <1>5 DEF Dismissed
<1>7. /\ rows' \in [Nudge -> {"absent", "active", "dismissed"}]
      /\ \A v \in Nudge : rows[v] = "absent" /\ rows'[v] # "absent" => v \in r.now
  BY <1>5 DEF IInv, Type
<1>8. \A v \in Nudge : rows'[v] # "absent" \/ v \in files' => Past(v)'
  BY <1>1, <1>4, <1>7 DEF IInv, World, Past, Known
<1>9. Stage(q) /\ Saved(q, Dismissed') /\ Hidden(q) /\ Known(q) /\ OnePer(q)
  BY <1>1, <1>3, <1>4, <1>6 DEF Stage, Saved, Hidden, Known, OnePer
<1> QED
  BY <1>1, <1>2, <1>3, <1>4, <1>6, <1>7, <1>8, <1>9, WorkerStep DEF IInv, Type, World

LEMMA ReadInv ==
  ASSUME IInv, NEW w \in Workers, Read(w)
  PROVE  IInv'
<1> DEFINE r == req[w]
<1>1. r \in Request /\ ReqOK(r) /\ up /\ r.op = "evaluate"
  BY ReqOf, AtWork DEF Read, Stage
<1>2. PICK q : q = [Answer(w) EXCEPT !.out = r.now \cap Active] /\ Goto(w, q)
  BY DEF Read
<1>3. /\ q.op = r.op /\ q.at = "answered" /\ q.now = {} /\ q.since = r.since
      /\ q.todo = {} /\ q.out = r.now \cap Active /\ q.calm = r.calm
      /\ q \in Request
  BY <1>1, <1>2 DEF Answer, Request
<1>4. Stage(q) /\ Saved(q, Dismissed) /\ Known(q) /\ OnePer(q)
  BY <1>1, <1>3 DEF Stage, Saved, Known, OnePer
<1>5. Hidden(q)
  BY <1>1, <1>3, NothingToldIsActive DEF Hidden
<1> QED
  BY <1>1, <1>2, <1>3, <1>4, <1>5, QuietStep DEF Read, counters

-----------------------------------------------------------------------------
(* persist_nudge_dismissal: the tombstone is of a dismissed row, and only a   *)
(* tombstone that was committed is announced.                                 *)
LEMMA PersistInv ==
  ASSUME IInv, NEW w \in Workers, req[w].at = "persist",
         NEW q \in Request, ReqOK(q), Persist(w, q),
         UNCHANGED <<rows, db, up, print>>,
         told' = told \/ (faults' = faults /\ told' = told \cup req[w].now)
  PROVE  IInv'
<1> DEFINE r == req[w]
<1>1. r \in Request /\ ReqOK(r) /\ up /\ files \subseteq Dismissed
  BY ReqOf, AtWork
<1>2. Dismissed' = Dismissed
  BY DEF Dismissed
<1>3. head' \in Nat /\ head <= head'
  BY AdvanceGrows DEF Persist, IInv, Type
<1>4. files' = files \/ files' = files \cup r.now
  BY DEF Persist
<1>5. told' \subseteq files' /\ told \subseteq told' /\ faults' \in Nat
  BY DEF Persist, IInv, Type, World
<1>6. unsaved' \subseteq Nudge
  BY <1>1 DEF Persist, IInv, Type, Request
<1>7. files' \subseteq Nudge /\ files' \subseteq Dismissed
  BY <1>1, <1>4 DEF Saved, Dismissed
<1>8. \A n \in Nudge : rows'[n] # "absent" \/ n \in files' => Past(n)'
  <2> TAKE n \in Nudge
  <2>1. rows'[n] # "absent" \/ n \in files' => Past(n)
    BY <1>1, <1>4 DEF IInv, World, Known
  <2> QED BY <1>3, <2>1, PastStays DEF IInv, Type
<1>9. CASE Goto(w, q)
  BY <1>1, <1>2, <1>3, <1>5, <1>6, <1>7, <1>8, <1>9, WorkerStep DEF IInv, Type
<1>10. CASE Goto(w, [Answer(w) EXCEPT !.out = {}])
  <2>1. PICK a : a = [Answer(w) EXCEPT !.out = {}] /\ Goto(w, a)
    BY <1>10
  <2>2. /\ a.op = r.op /\ a.at = "answered" /\ a.now = {} /\ a.since = r.since
        /\ a.todo = {} /\ a.out = {} /\ a.calm = r.calm
        /\ a \in Request
    BY <1>1, <2>1 DEF Answer, Request
  <2>3. ReqOK(a)
    BY <1>1, <2>2 DEF Stage, Saved, Hidden, Known, OnePer
  <2> QED BY <1>1, <1>2, <1>3, <1>5, <1>6, <1>7, <1>8, <2>1, <2>2, <2>3, WorkerStep
          DEF IInv, Type
<1> QED
  BY <1>9, <1>10 DEF Persist

LEMMA BackfillPersistInv ==
  ASSUME IInv, NEW w \in Workers, BackfillPersist(w)
  PROVE  IInv'
<1> DEFINE r == req[w]
<1>1. r \in Request /\ ReqOK(r) /\ r.op = "evaluate" /\ r.at = "persist"
  BY ReqOf DEF BackfillPersist
<1>2. PICK q : /\ q = [r EXCEPT !.at = "backfill", !.now = r.out, !.out = {}]
               /\ Persist(w, q)
  BY DEF BackfillPersist
<1>3. /\ q.op = r.op /\ q.at = "backfill" /\ q.now = r.out /\ q.since = r.since
      /\ q.todo = r.todo /\ q.out = {} /\ q.calm = r.calm
      /\ q \in Request
  BY <1>1, <1>2 DEF Request
<1>4. ReqOK(q)
  BY <1>1, <1>3 DEF Stage, Saved, Hidden, Known, OnePer
<1> QED
  BY <1>1, <1>2, <1>3, <1>4, PersistInv DEF BackfillPersist

-----------------------------------------------------------------------------
(* GET /ai/nudges.                                                            *)

LEMMA ListInv ==
  ASSUME IInv, NEW w \in Workers, NEW S, List(w, S)
  PROVE  IInv'
<1> DEFINE A == {n \in Active : n.subject \in S}
<1>1. up /\ A \subseteq Active
  BY DEF List
<1>2. PICK q : /\ q = [Idle EXCEPT !.op = "list", !.at = "check", !.since = told, !.todo = A]
               /\ Goto(w, q)
  BY DEF List
<1> HIDE DEF A
<1>3. /\ q.op = "list" /\ q.at = "check" /\ q.now = {} /\ q.since = told
      /\ q.todo = A /\ q.out = {}
      /\ q \in Request
  BY <1>1, <1>2, NothingToldIsActive DEF Idle, Request, IInv, Type
<1>4. Stage(q) /\ Saved(q, Dismissed) /\ OnePer(q)
  BY <1>3 DEF Stage, Saved, OnePer
<1>5. Hidden(q)
  BY <1>1, <1>3, NothingToldIsActive DEF Hidden
<1>6. Known(q)
  BY <1>1, <1>3 DEF Known, Active, IInv, World
<1> QED
  BY <1>1, <1>2, <1>3, <1>4, <1>5, <1>6, QuietStep DEF List

(* The turn of list's loop that dismisses, and the user's dismissal: one row  *)
(* is dismissed and its tombstone is next.                                    *)
LEMMA DismissOne ==
  ASSUME IInv, up, NEW w \in Workers, NEW q \in Request, Goto(w, q), NEW n \in Active,
         rows' = [rows EXCEPT ![n] = "dismissed"], UNCHANGED <<disk, head, history, faults>>,
         q.now = {n}, q.op # "evaluate", Stage(q), Hidden(q), Known(q), OnePer(q)
  PROVE  IInv'
<1>1. UNCHANGED <<files, db, up, print, head, told, unsaved>>
  BY DEF disk, history
<1>2. /\ rows' \in [Nudge -> {"absent", "active", "dismissed"}]
      /\ \A v \in Nudge : rows[v] = "absent" => rows'[v] = "absent"
  BY DEF IInv, Type, Active
<1>3. Dismissed \subseteq Dismissed' /\ n \in Dismissed'
  BY DEF Dismissed, Active, IInv, Type
<1>4. Saved(q, Dismissed')
  BY <1>3 DEF Saved
<1>5. \A v \in Nudge : rows'[v] # "absent" \/ v \in files' => Past(v)'
  BY <1>1, <1>2 DEF IInv, World, Past
<1> QED
  BY <1>1, <1>2, <1>3, <1>4, <1>5, WorkerStep DEF IInv, Type, World

LEMMA CheckInv ==
  ASSUME IInv, NEW w \in Workers, Check(w)
  PROVE  IInv'
<1> DEFINE r == req[w]
<1>1. r \in Request /\ ReqOK(r) /\ up /\ r.op = "list" /\ r.at = "check"
  <2>1. r.at = "check"
    BY DEF Check
  <2>2. r \in Request /\ ReqOK(r) /\ up
    BY <2>1, ReqOf, AtWork
  <2> QED BY <2>1, <2>2 DEF Stage
<1>2. UNCHANGED <<rows, disk, head, history, faults>>
  BY DEF Check, counters
<1>3. CASE Goto(w, Answer(w))
  <2>1. PICK q : q = Answer(w) /\ Goto(w, q)
    BY <1>3
  <2>2. /\ q.op = r.op /\ q.at = "answered" /\ q.now = {} /\ q.since = r.since
        /\ q.todo = {} /\ q.out = r.out /\ q.calm = r.calm
        /\ q \in Request
    BY <1>1, <2>1 DEF Answer, Request
  <2>3. ReqOK(q)
    BY <1>1, <2>2 DEF Stage, Saved, Hidden, Known, OnePer
  <2> QED BY <1>1, <1>2, <1>3, <2>1, <2>2, <2>3, QuietStep
<1>4. ASSUME NEW n \in r.todo, NEW seen \in SUBSET Asked(n),
             Goto(w, [r EXCEPT !.todo = @ \ {n},
                               !.calm = @ /\ seen = Asked(n),
                               !.at = IF IsStale(n, seen) THEN "drop" ELSE @,
                               !.now = IF IsStale(n, seen) THEN {n} ELSE @,
                               !.out = IF IsStale(n, seen) THEN @ ELSE @ \cup {n}])
      PROVE  IInv'
  <2>1. n \in Nudge
    BY <1>1 DEF Request
  <2>2. CASE IsStale(n, seen)
    <3>1. PICK q : /\ q = [r EXCEPT !.todo = @ \ {n}, !.calm = @ /\ seen = Asked(n),
                                    !.at = "drop", !.now = {n}]
                   /\ Goto(w, q)
      BY <1>1, <1>4, <2>2 DEF Request
    <3>2. /\ q.op = r.op /\ q.at = "drop" /\ q.now = {n} /\ q.since = r.since
          /\ q.todo = r.todo \ {n} /\ q.out = r.out /\ (q.calm => r.calm)
          /\ q \in Request
      BY <1>1, <2>1, <3>1 DEF Request
    <3>3. Stage(q) /\ Saved(q, Dismissed) /\ Hidden(q) /\ Known(q) /\ OnePer(q)
      BY <1>1, <2>1, <3>2 DEF Stage, Saved, Hidden, Known, OnePer
    <3> QED BY <1>1, <1>2, <3>1, <3>2, <3>3, QuietStep
  <2>3. CASE ~IsStale(n, seen)
    <3>1. PICK q : /\ q = [r EXCEPT !.todo = @ \ {n}, !.calm = @ /\ seen = Asked(n),
                                    !.out = @ \cup {n}]
                   /\ Goto(w, q)
      BY <1>1, <1>4, <2>3 DEF Request
    <3>2. /\ q.op = r.op /\ q.at = "check" /\ q.now = r.now /\ q.since = r.since
          /\ q.todo = r.todo \ {n} /\ q.out = r.out \cup {n}
          /\ q.calm = (r.calm /\ seen = Asked(n))
          /\ q \in Request
      BY <1>1, <2>1, <3>1 DEF Request
    <3>3. Stage(q) /\ Saved(q, Dismissed) /\ Hidden(q) /\ Known(q)
      BY <1>1, <3>2 DEF Stage, Saved, Hidden, Known
    <3>4. ASSUME q.calm, NEW m \in q.out, ~NeverStale(m)
          PROVE  /\ m.print # NoPrint => print[m.subject] = m.print
                 /\ m.commit # NoCommit =>
                      \A k \in q.out \cup q.todo : k.commit # NoCommit => k.commit <= m.commit
      <4>1. q.out \cup q.todo \subseteq r.out \cup r.todo
        BY <3>2
      <4>2. CASE m \in r.out
        BY <1>1, <3>2, <3>4, <4>1, <4>2 DEF OnePer
      <4>3. CASE m = n
        <5>1. ~NeverStale(n) /\ seen = Asked(n)
          BY <3>2, <3>4, <4>3
        <5>2. n.print # NoPrint => print[n.subject] = n.print
          BY <2>3, <5>1 DEF IsStale, Asked, NeverStale
        <5>3. n.commit # NoCommit => head = n.commit
          BY <2>3, <5>1 DEF IsStale, Asked
        <5>4. \A k \in q.out \cup q.todo : Past(k)
          BY <1>1, <4>1 DEF Known
        <5> QED BY <4>3, <5>2, <5>3, <5>4 DEF Past
      <4> QED BY <3>2, <4>2, <4>3
    <3>5. OnePer(q)
      BY <3>4 DEF OnePer
    <3> QED BY <1>1, <1>2, <3>1, <3>2, <3>3, <3>5, QuietStep
  <2> QED BY <2>2, <2>3
<1> QED
  <2>1. CASE r.todo = {}
    BY <2>1, <1>3 DEF Check
  <2>2. CASE r.todo # {}
    BY <2>2, <1>4 DEF Check
  <2> QED BY <2>1, <2>2

LEMMA DropInv ==
  ASSUME IInv, NEW w \in Workers, Drop(w)
  PROVE  IInv'
<1> DEFINE r == req[w]
<1>1. r \in Request /\ ReqOK(r) /\ up /\ r.op = "list" /\ r.at = "drop"
  <2>1. r.at = "drop"
    BY DEF Drop
  <2>2. r \in Request /\ ReqOK(r) /\ up
    BY <2>1, ReqOf, AtWork
  <2> QED BY <2>1, <2>2 DEF Stage
<1>2. UNCHANGED <<disk, head, history, faults>>
  BY DEF Drop, counters
<1>3. ASSUME NEW n \in r.now, n \in Active, rows' = [rows EXCEPT ![n] = "dismissed"],
             r.now = {n}, Goto(w, [r EXCEPT !.at = "persist"])
      PROVE  IInv'
  <2>1. PICK q : q = [r EXCEPT !.at = "persist"] /\ Goto(w, q)
    BY <1>3
  <2>2. /\ q.op = r.op /\ q.at = "persist" /\ q.now = {n} /\ q.since = r.since
        /\ q.todo = r.todo /\ q.out = r.out /\ q.calm = r.calm
        /\ q \in Request
    BY <1>1, <1>3, <2>1 DEF Request
  <2>3. Stage(q) /\ Hidden(q) /\ Known(q) /\ OnePer(q)
    BY <1>1, <2>2 DEF Stage, Hidden, Known, OnePer
  <2> QED BY <1>1, <1>2, <1>3, <2>1, <2>2, <2>3, DismissOne
<1>4. CASE UNCHANGED rows /\ Goto(w, [r EXCEPT !.at = "check", !.now = {}])
  <2>1. PICK q : q = [r EXCEPT !.at = "check", !.now = {}] /\ Goto(w, q)
    BY <1>4
  <2>2. /\ q.op = r.op /\ q.at = "check" /\ q.now = {} /\ q.since = r.since
        /\ q.todo = r.todo /\ q.out = r.out /\ q.calm = r.calm
        /\ q \in Request
    BY <1>1, <2>1 DEF Request
  <2>3. ReqOK(q)
    BY <1>1, <2>2 DEF Stage, Saved, Hidden, Known, OnePer
  <2> QED BY <1>1, <1>2, <1>4, <2>1, <2>2, <2>3, QuietStep
<1> QED
  BY <1>1, <1>3, <1>4 DEF Drop, Stage

LEMMA ListPersistInv ==
  ASSUME IInv, NEW w \in Workers, ListPersist(w)
  PROVE  IInv'
<1> DEFINE r == req[w]
<1>1. r \in Request /\ ReqOK(r) /\ r.op = "list" /\ r.at = "persist"
  BY ReqOf DEF ListPersist
<1>2. PICK q : q = [r EXCEPT !.at = "check", !.now = {}] /\ Persist(w, q)
  BY DEF ListPersist
<1>3. /\ q.op = r.op /\ q.at = "check" /\ q.now = {} /\ q.since = r.since
      /\ q.todo = r.todo /\ q.out = r.out /\ q.calm = r.calm
      /\ q \in Request
  BY <1>1, <1>2 DEF Request
<1>4. ReqOK(q)
  BY <1>1, <1>3 DEF Stage, Saved, Hidden, Known, OnePer
<1> QED
  BY <1>1, <1>2, <1>3, <1>4, PersistInv DEF ListPersist

-----------------------------------------------------------------------------
(* POST /ai/nudges/{id}/dismiss, and the end of a request.                    *)

LEMMA DismissInv ==
  ASSUME IInv, NEW w \in Workers, NEW n \in Nudge, Dismiss(w, n)
  PROVE  IInv'
<1>1. up /\ UNCHANGED <<disk, head, history, faults>> /\ Past(n)
  BY DEF Dismiss, IInv, World
<1>2. CASE n \in Active
  <2>1. PICK q : /\ q = [Idle EXCEPT !.op = "dismiss", !.at = "persist", !.now = {n},
                                     !.since = told]
                 /\ Goto(w, q) /\ rows' = [rows EXCEPT ![n] = "dismissed"]
    BY <1>2 DEF Dismiss
  <2>2. /\ q.op = "dismiss" /\ q.at = "persist" /\ q.now = {n} /\ q.since = told
        /\ q.todo = {} /\ q.out = {}
        /\ q \in Request
    BY <2>1 DEF Idle, Request, IInv, Type
  <2>3. Stage(q) /\ Hidden(q) /\ Known(q) /\ OnePer(q)
    BY <1>1, <2>2 DEF Stage, Hidden, Known, OnePer
  <2> QED BY <1>1, <1>2, <2>1, <2>2, <2>3, DismissOne
<1>3. CASE n \notin Active
  <2>1. PICK q : /\ q = [Idle EXCEPT !.op = "dismiss", !.at = "answered", !.since = told]
                 /\ Goto(w, q) /\ UNCHANGED rows
    BY <1>3 DEF Dismiss
  <2>2. /\ q.op = "dismiss" /\ q.at = "answered" /\ q.now = {} /\ q.since = told
        /\ q.todo = {} /\ q.out = {}
        /\ q \in Request
    BY <2>1 DEF Idle, Request, IInv, Type
  <2>3. ReqOK(q)
    BY <2>2 DEF Stage, Saved, Hidden, Known, OnePer
  <2> QED BY <1>1, <2>1, <2>2, <2>3, QuietStep
<1> QED
  BY <1>2, <1>3

LEMMA DismissPersistInv ==
  ASSUME IInv, NEW w \in Workers, DismissPersist(w)
  PROVE  IInv'
<1> DEFINE r == req[w]
<1>1. r \in Request /\ ReqOK(r) /\ r.op = "dismiss" /\ r.at = "persist"
  BY ReqOf DEF DismissPersist
<1>2. PICK q : q = Answer(w) /\ Persist(w, q)
  BY DEF DismissPersist
<1>3. /\ q.op = r.op /\ q.at = "answered" /\ q.now = {} /\ q.since = r.since
      /\ q.todo = {} /\ q.out = r.out /\ q.calm = r.calm
      /\ q \in Request
  BY <1>1, <1>2 DEF Answer, Request
<1>4. ReqOK(q)
  BY <1>1, <1>3 DEF Stage, Saved, Hidden, Known, OnePer
<1> QED
  BY <1>1, <1>2, <1>3, <1>4, PersistInv DEF DismissPersist

LEMMA FinishInv ==
  ASSUME IInv, NEW w \in Workers, Finish(w)
  PROVE  IInv'
<1>1. up
  BY AtWork DEF Finish
<1> QED
  BY <1>1, IdleOK, QuietStep DEF Finish, counters

LEMMA ServeInv ==
  ASSUME IInv, NEW w \in Workers, Serve(w)
  PROVE  IInv'
BY EvaluateInv, DismissInv, ListInv, MatchInv, DismissStaleVariantsInv, SelectDismissedInv,
   BackfillInv, BackfillPersistInv, InsertInv, ReadInv, CheckInv, DropInv,
   ListPersistInv, DismissPersistInv, FinishInv DEF Serve

-----------------------------------------------------------------------------
(* Saves of cards, crashes and start-up.                                      *)

LEMMA EditInv ==
  ASSUME IInv, NEW k \in Cards, NEW p \in Prints, Edit(k, p)
  PROVE  IInv'
<1>1. /\ UNCHANGED <<rows, files, db, up, told, unsaved, faults>>
      /\ print' = [print EXCEPT ![k] = p] /\ up
      /\ head' \in Nat /\ head <= head'
  BY AdvanceGrows DEF Edit, history, IInv, Type
<1>2. Dismissed' = Dismissed
  BY <1>1 DEF Dismissed
<1>3. ASSUME NEW w \in Workers
      PROVE  req'[w] \in Request /\ ReqOK(req[w])'
  <2> DEFINE r == req[w]
  <2>1. r \in Request /\ ReqOK(r)
    BY ReqOf
  <2>2. CASE r.at = "idle"
    <3>1. req'[w] = Idle
      BY <2>2 DEF Edit
    <3>2. ReqOK(Idle)'
      BY DEF Idle, Stage, Saved, Hidden, Known, OnePer
    <3> QED BY <3>1, <3>2, IdleOK
  <2>3. CASE r.at # "idle"
    <3>1. PICK q : q = [r EXCEPT !.calm = FALSE] /\ req'[w] = q
      BY <2>3 DEF Edit
    <3>2. /\ q.op = r.op /\ q.at = r.at /\ q.now = r.now /\ q.since = r.since
          /\ q.todo = r.todo /\ q.out = r.out /\ q.calm = FALSE
          /\ q \in Request
      BY <2>1, <3>1 DEF Request
    <3>3. Stage(q) /\ Saved(q, Dismissed') /\ Hidden(q)' /\ OnePer(q)'
      BY <1>1, <1>2, <2>1, <2>3, <3>2 DEF Stage, Saved, Hidden, OnePer
    <3>4. Known(q)'
      BY <1>1, <2>1, <3>2, PastStays DEF Known, Request, IInv, Type
    <3>5. ReqOK(q)'
      BY <3>3, <3>4 DEF Saved
    <3> QED BY <3>1, <3>2, <3>5
  <2> QED BY <2>2, <2>3
<1>4. Type'
  BY <1>1, <1>3 DEF IInv, Type, Edit
<1>5. World'
  BY <1>1, <1>2, PastStays DEF IInv, Type, World
<1> QED
  BY <1>3, <1>4, <1>5 DEF IInv

(* While the daemon is down no request exists; what start-up does is judged   *)
(* by the rows and the files alone.                                           *)
LEMMA DownStep ==
  ASSUME IInv, rows' \in [Nudge -> {"absent", "active", "dismissed"}],
         files' \subseteq Nudge, unsaved' \subseteq Nudge, up' \in BOOLEAN,
         db' \in {"ok", "lost"}, head' \in Nat, faults' \in Nat, head <= head',
         UNCHANGED <<print, told>>, files \subseteq files',
         req' = [w \in Workers |-> Idle],
         up' => db' = "ok", db' = "ok" => files' \subseteq Dismissed',
         \A n \in Nudge : rows'[n] # "absent" \/ n \in files' =>
                            rows[n] # "absent" \/ n \in files
  PROVE  IInv'
<1>1. Type'
  BY IdleOK DEF IInv, Type
<1>2. World'
  <2>1. \A n \in Nudge : rows'[n] # "absent" \/ n \in files' => Past(n)'
    BY PastStays DEF IInv, Type, World
  <2> QED BY <2>1 DEF IInv, World
<1>3. ReqOK(Idle)'
  BY DEF Idle, Stage, Saved, Hidden, Known, OnePer
<1> QED
  BY <1>1, <1>2, <1>3 DEF IInv

LEMMA DownReq ==
  ASSUME IInv, ~up
  PROVE  req = [w \in Workers |-> Idle]
BY DEF IInv, Type, World

LEMMA RestoredIs ==
  ASSUME IInv, rows' = Restored, UNCHANGED files
  PROVE  /\ rows' \in [Nudge -> {"absent", "active", "dismissed"}]
         /\ files' \subseteq Dismissed'
         /\ \A n \in Nudge : rows'[n] # "absent" => n \in files
BY DEF Restored, Dismissed, IInv, Type

LEMMA StartUpInv ==
  ASSUME IInv, \/ Crash \/ LoseDatabase \/ RebuildLost \/ RebuildCommand \/ Start
               \/ \E n \in Nudge : StartBackfill(n)
  PROVE  IInv'
<1>1. CASE Crash
  <2>1. Dismissed' = Dismissed
    BY <1>1 DEF Crash, Dismissed
  <2>2. /\ UNCHANGED <<rows, files, db, print, head, told, unsaved>>
        /\ up' = FALSE /\ faults' = faults + 1 /\ req' = [w \in Workers |-> Idle]
    BY <1>1 DEF Crash, history
  <2>3. db = "ok" /\ files \subseteq Dismissed
    BY <1>1 DEF Crash, IInv, World
  <2>4. /\ rows' \in [Nudge -> {"absent", "active", "dismissed"}] /\ files' \subseteq Nudge
        /\ unsaved' \subseteq Nudge /\ db' \in {"ok", "lost"} /\ head' \in Nat
        /\ faults' \in Nat /\ head <= head'
    BY <2>2 DEF IInv, Type
  <2>5. up' \in BOOLEAN /\ ~up'
    BY <2>2
  <2>6. UNCHANGED <<print, told>> /\ files \subseteq files' /\ files' \subseteq Dismissed'
    BY <2>1, <2>2, <2>3
  <2>7. \A n \in Nudge : rows'[n] # "absent" \/ n \in files' => rows[n] # "absent" \/ n \in files
    BY <2>2
  <2> QED BY <2>2, <2>4, <2>5, <2>6, <2>7, DownStep
<1>2. CASE LoseDatabase
  BY <1>2, DownReq, DownStep DEF LoseDatabase, history, IInv, Type, World
<1>3. CASE RebuildLost
  BY <1>3, DownReq, RestoredIs, DownStep DEF RebuildLost, history, counters, IInv, Type, World
<1>4. CASE RebuildCommand
  BY <1>4, DownReq, RestoredIs, DownStep
     DEF RebuildCommand, disk, history, counters, IInv, Type, World
<1>5. CASE Start
  <2>1. Dismissed' = Dismissed
    BY <1>5 DEF Start, Dismissed
  <2> QED BY <1>5, <2>1, DownReq, DownStep DEF Start, counters, IInv, Type, World
<1>6. ASSUME NEW n \in Nudge, StartBackfill(n)
      PROVE  IInv'
  <2>1. Dismissed' = Dismissed /\ rows[n] = "dismissed"
    BY <1>6 DEF StartBackfill, Dismissed
  <2>2. /\ files' = files \cup {n} /\ files \subseteq Dismissed /\ n \in Dismissed
        /\ head' \in Nat /\ head <= head'
    BY <1>6, AdvanceGrows DEF StartBackfill, IInv, Type, World
  <2>3. ~up /\ req = [v \in Workers |-> Idle]
    BY <1>6, DownReq DEF StartBackfill
  <2>4. UNCHANGED <<rows, db, up, print, req, told, unsaved, faults>> /\ db = "ok"
    BY <1>6 DEF StartBackfill, history, counters
  <2>5. /\ rows' \in [Nudge -> {"absent", "active", "dismissed"}] /\ files' \subseteq Nudge
        /\ unsaved' \subseteq Nudge /\ up' \in BOOLEAN /\ db' \in {"ok", "lost"}
        /\ faults' \in Nat /\ files \subseteq files'
    BY <2>2, <2>4 DEF IInv, Type
  <2>6. \A v \in Nudge : rows'[v] # "absent" \/ v \in files' => rows[v] # "absent" \/ v \in files
    BY <2>1, <2>2, <2>4
  <2>7. files' \subseteq Dismissed'
    BY <2>1, <2>2
  <2> QED BY <2>2, <2>3, <2>4, <2>5, <2>6, <2>7, DownStep
<1> QED
  BY <1>1, <1>2, <1>3, <1>4, <1>5, <1>6

LEMMA StutterInv ==
  ASSUME IInv, UNCHANGED vars
  PROVE  IInv'
<1>1. UNCHANGED <<rows, files, db, up, print, head, req, told, unsaved, faults>>
  BY DEF vars
<1>2. Dismissed' = Dismissed
  BY <1>1 DEF Dismissed
<1> QED
  BY <1>1, <1>2 DEF IInv, Type, World, Stage, Saved, Hidden, Known, OnePer, Past

LEMMA NextInv ==
  ASSUME IInv, [Next]_vars
  PROVE  IInv'
BY ServeInv, EditInv, StartUpInv, StutterInv DEF Next

LEMMA Invariant == Spec => []IInv
BY InitInv, NextInv, PTL DEF Spec

-----------------------------------------------------------------------------
(* For every number of workers and faults: while the daemon serves, a nudge   *)
(* with a tombstone is a dismissed row (restore_nudge_dismissals at start-up, *)
(* and no statement of an evaluation or a list takes a dismissal back).       *)
THEOREM TombstonesRule == Spec => []TombstoneRules
<1>1. IInv => TombstoneRules
  BY DEF IInv, World, TombstoneRules
<1> QED
  BY <1>1, Invariant, PTL

(* For every number of workers, requests and faults: a nudge whose dismissal  *)
(* a client was told of is in no answer to an evaluation or a list that began *)
(* later, also after crashes and after a rebuild of a lost database.          *)
THEOREM DismissedIsNotShownAgain == Spec => []NotShownAgain
<1>1. IInv => NotShownAgain
  BY DEF IInv, Hidden, NotShownAgain
<1> QED
  BY <1>1, Invariant, PTL

(* For every number of overlapping evaluations and dismissals, and every set  *)
(* of nudges, with one basis, both or none: a list during which no card was   *)
(* saved, and which could read every text and head it asked for, never names  *)
(* two nudges of a subject whose bases conflict (is_stale is asked of each    *)
(* nudge on its own).                                                         *)
THEOREM OneVariantIsListed == Spec => []OneVariantListed
<1>1. IInv => OneVariantListed
  <2> SUFFICES ASSUME IInv, NEW w \in Workers, req[w].op = "list", req[w].calm,
                      NEW m \in req[w].out, NEW n \in req[w].out, m.subject = n.subject,
                      ~NeverStale(m), ~NeverStale(n)
               PROVE  ~Conflict(m, n)
    BY DEF OneVariantListed
  <2>1. m \in Nudge /\ n \in Nudge /\ OnePer(req[w])
    BY ReqOf DEF Request
  <2>2. m.print # NoPrint /\ n.print # NoPrint => m.print = n.print
    BY <2>1 DEF OnePer
  <2>3. ASSUME m.commit # NoCommit, n.commit # NoCommit
        PROVE  m.commit = n.commit
    <3>1. n.commit <= m.commit /\ m.commit <= n.commit
      BY <2>1, <2>3 DEF OnePer
    <3>2. m.commit \in 0..MaxBasis /\ n.commit \in 0..MaxBasis
      BY <2>1, <2>3, CommitIsHead
    <3> QED BY <3>1, <3>2, NudgesAssumption
  <2> QED BY <2>2, <2>3 DEF Conflict
<1> QED
  BY <1>1, Invariant, PTL

-----------------------------------------------------------------------------
(* The request r is going to write the tombstone of n.                        *)
Covers(r, n) == \/ r.at = "select"
                \/ r.at = "persist" /\ n \in r.now
                \/ r.op = "evaluate" /\ n \in r.todo

LEMMA CoverStep ==
  ASSUME IInv, NoDismissalLeftBehind, NEW w \in Workers, NEW q, Goto(w, q),
         up, files \subseteq files', unsaved \subseteq unsaved',
         \A n \in Dismissed' \ (files' \cup unsaved') :
            n \notin Dismissed \/ Covers(req[w], n) => Covers(q, n)
  PROVE  NoDismissalLeftBehind'
<1>1. req'[w] = q /\ \A v \in Workers \ {w} : req'[v] = req[v]
  BY DEF Goto, IInv, Type
<1>2. SUFFICES ASSUME NEW n \in Dismissed' \ (files' \cup unsaved')
               PROVE  \E v \in Workers : Covers(req'[v], n)
  BY DEF NoDismissalLeftBehind, Covers
<1>3. CASE n \notin Dismissed \/ Covers(req[w], n)
  BY <1>1, <1>2, <1>3
<1>4. CASE n \in Dismissed /\ ~Covers(req[w], n)
  <2>1. PICK v \in Workers : Covers(req[v], n)
    BY <1>2, <1>4 DEF NoDismissalLeftBehind, Covers
  <2>2. v # w
    BY <1>4, <2>1
  <2> QED BY <1>1, <2>1, <2>2
<1> QED
  BY <1>3, <1>4

(* Most steps are of a request that covers nothing and dismiss nothing.       *)
LEMMA NothingCovered ==
  ASSUME IInv, NoDismissalLeftBehind, NEW w \in Workers, NEW q, Goto(w, q), up,
         Dismissed' \subseteq Dismissed, UNCHANGED <<files, unsaved>>,
         \/ req[w].at \in {"idle", "match", "insert", "read", "check", "drop", "answered"}
         \/ req[w].at = "backfill" /\ req[w].todo = {}
  PROVE  NoDismissalLeftBehind'
<1>1. \A n \in Nudge : ~Covers(req[w], n)
  BY ReqOf DEF Covers, Stage, Idle
<1>2. Dismissed' \subseteq Nudge
  BY DEF Dismissed
<1> QED
  BY <1>1, <1>2, CoverStep

(* A request that has written its tombstone needs no cover for it any more; a *)
(* request that could not is accounted for in unsaved.                        *)
LEMMA PersistCovered ==
  ASSUME IInv, NoDismissalLeftBehind, NEW w \in Workers, NEW q, Persist(w, q),
         req[w].at = "persist", UNCHANGED rows,
         req[w].op = "evaluate" => q.op = "evaluate" /\ q.todo = req[w].todo
  PROVE  NoDismissalLeftBehind'
<1> DEFINE r == req[w]
<1>1. up /\ Dismissed' = Dismissed
  BY AtWork DEF Dismissed
<1>2. CASE files' = files \cup r.now /\ Goto(w, q) /\ UNCHANGED unsaved
  <2>1. \A n \in Dismissed' \ (files' \cup unsaved') : Covers(r, n) => Covers(q, n)
    BY <1>2 DEF Covers
  <2> QED BY <1>1, <1>2, <2>1, CoverStep
<1>3. ASSUME files' = files \/ files' = files \cup r.now,
             unsaved' = unsaved \cup r.now \cup (IF r.op = "evaluate" THEN r.todo ELSE {}),
             Goto(w, [Answer(w) EXCEPT !.out = {}])
      PROVE  NoDismissalLeftBehind'
  <2>1. \A n \in Dismissed' \ (files' \cup unsaved') : ~Covers(r, n)
    BY <1>3 DEF Covers
  <2> QED BY <1>1, <1>3, <2>1, CoverStep
<1> QED
  BY <1>2, <1>3 DEF Persist

LEMMA ServeCovered ==
  ASSUME IInv, NoDismissalLeftBehind, NEW w \in Workers, Serve(w)
  PROVE  NoDismissalLeftBehind'
<1> DEFINE r == req[w]
<1>1. r \in Request /\ ReqOK(r) /\ (r.at # "idle" => up)
  BY ReqOf, AtWork
<1>2. UNCHANGED rows => Dismissed' = Dismissed
  BY DEF Dismissed
<1>3. ASSUME NEW n \in Nudge, Evaluate(w, n)
      PROVE  NoDismissalLeftBehind'
  BY <1>2, <1>3, NothingCovered DEF Evaluate, disk, history
<1>4. ASSUME NEW n \in Nudge, Dismiss(w, n)
      PROVE  NoDismissalLeftBehind'
  <2>1. up /\ r.at = "idle" /\ UNCHANGED <<files, unsaved>>
    BY <1>4 DEF Dismiss, disk, history
  <2>2. CASE n \in Active
    <3>1. PICK q : /\ q = [Idle EXCEPT !.op = "dismiss", !.at = "persist", !.now = {n},
                                       !.since = told]
                   /\ Goto(w, q) /\ rows' = [rows EXCEPT ![n] = "dismissed"]
      BY <1>4, <2>2 DEF Dismiss
    <3>2. q.at = "persist" /\ q.now = {n}
      BY <3>1 DEF Idle
    <3>3. \A v \in Dismissed' : v \in Dismissed \/ v = n
      BY <3>1 DEF Dismissed, IInv, Type
    <3>4. \A v \in Nudge : ~Covers(r, v)
      BY <1>1, <2>1 DEF Covers, Stage, Idle
    <3>5. \A v \in Dismissed' \ (files' \cup unsaved') :
            v \notin Dismissed \/ Covers(r, v) => Covers(q, v)
      BY <3>2, <3>3, <3>4 DEF Covers, Dismissed
    <3> QED BY <2>1, <3>1, <3>5, CoverStep
  <2>3. CASE n \notin Active
    BY <1>2, <1>4, <2>1, <2>3, NothingCovered DEF Dismiss
  <2> QED BY <2>2, <2>3
<1>5. ASSUME NEW S, List(w, S)
      PROVE  NoDismissalLeftBehind'
  BY <1>2, <1>5, NothingCovered DEF List, disk, history
<1>6. CASE Match(w)
  BY <1>1, <1>2, <1>6, NothingCovered DEF Match, disk, history
<1>7. CASE DismissStaleVariants(w)
  <2>1. PICK q : q = [r EXCEPT !.at = "select"] /\ Goto(w, q)
    BY <1>7 DEF DismissStaleVariants
  <2>2. up /\ UNCHANGED <<files, unsaved>> /\ q.at = "select"
    BY <1>1, <1>7, <2>1 DEF DismissStaleVariants, disk, history, Request
  <2> QED BY <2>1, <2>2, CoverStep DEF Covers
<1>8. CASE SelectDismissed(w)
  <2>1. PICK q : q = [r EXCEPT !.at = "backfill", !.todo = Dismissed] /\ Goto(w, q)
    BY <1>8 DEF SelectDismissed
  <2>2. /\ up /\ UNCHANGED <<rows, files, unsaved>> /\ r.op = "evaluate"
        /\ q.op = "evaluate" /\ q.todo = Dismissed
    BY <1>1, <1>8, <2>1 DEF SelectDismissed, disk, history, Request, Stage
  <2> QED BY <1>2, <2>1, <2>2, CoverStep DEF Covers
<1>9. CASE Backfill(w)
  <2>1. up /\ r.at = "backfill" /\ r.op = "evaluate" /\ UNCHANGED <<rows, files, unsaved>>
    BY <1>1, <1>9 DEF Backfill, disk, history, Stage
  <2>2. CASE r.todo = {}
    BY <1>2, <1>9, <2>1, <2>2, NothingCovered DEF Backfill
  <2>3. ASSUME NEW n \in r.todo, n \in files, Goto(w, [r EXCEPT !.todo = @ \ {n}])
        PROVE  NoDismissalLeftBehind'
    <3>1. PICK q : q = [r EXCEPT !.todo = @ \ {n}] /\ Goto(w, q)
      BY <2>3
    <3>2. q.op = "evaluate" /\ q.todo = r.todo \ {n}
      BY <1>1, <2>1, <3>1 DEF Request
    <3> QED BY <1>2, <2>1, <2>3, <3>1, <3>2, CoverStep DEF Covers
  <2>4. ASSUME NEW n \in r.todo,
               Goto(w, [r EXCEPT !.at = "persist", !.todo = @ \ {n}, !.out = r.now, !.now = {n}])
        PROVE  NoDismissalLeftBehind'
    <3>1. PICK q : /\ q = [r EXCEPT !.at = "persist", !.todo = @ \ {n}, !.out = r.now,
                                    !.now = {n}]
                   /\ Goto(w, q)
      BY <2>4
    <3>2. q.op = "evaluate" /\ q.todo = r.todo \ {n} /\ q.at = "persist" /\ q.now = {n}
      BY <1>1, <2>1, <3>1 DEF Request
    <3> QED BY <1>2, <2>1, <3>1, <3>2, CoverStep DEF Covers
  <2> QED BY <1>9, <2>2, <2>3, <2>4 DEF Backfill
<1>10. CASE BackfillPersist(w)
  <2>1. PICK q : /\ q = [r EXCEPT !.at = "backfill", !.now = r.out, !.out = {}]
                 /\ Persist(w, q)
    BY <1>10 DEF BackfillPersist
  <2>2. q.op = r.op /\ q.todo = r.todo
    BY <1>1, <2>1 DEF Request
  <2> QED BY <1>10, <2>1, <2>2, PersistCovered DEF BackfillPersist
<1>11. CASE Insert(w)
  <2>1. Dismissed' \subseteq Dismissed
    BY <1>11 DEF Insert, Dismissed
  <2> QED BY <1>1, <1>11, <2>1, NothingCovered DEF Insert, disk, history
<1>12. CASE Read(w)
  BY <1>1, <1>2, <1>12, NothingCovered DEF Read, disk, history
<1>13. CASE Check(w)
  <2>1. up /\ r.at = "check" /\ UNCHANGED <<rows, files, unsaved>>
    BY <1>1, <1>13 DEF Check, disk, history
  <2>2. PICK q : Goto(w, q)
    BY <1>13 DEF Check
  <2> QED BY <1>2, <2>1, <2>2, NothingCovered
<1>14. CASE Drop(w)
  <2>1. up /\ r.at = "drop" /\ r.op = "list" /\ UNCHANGED <<files, unsaved>>
    BY <1>1, <1>14 DEF Drop, disk, history, Stage
  <2>2. CASE UNCHANGED rows
    <3>1. PICK q : Goto(w, q)
      BY <1>14 DEF Drop
    <3> QED BY <1>2, <2>1, <2>2, <3>1, NothingCovered
  <2>3. ASSUME NEW n \in r.now, n \in Active, rows' = [rows EXCEPT ![n] = "dismissed"],
               Goto(w, [r EXCEPT !.at = "persist"])
        PROVE  NoDismissalLeftBehind'
    <3>1. PICK q : q = [r EXCEPT !.at = "persist"] /\ Goto(w, q)
      BY <2>3
    <3>2. q.at = "persist" /\ n \in q.now
      BY <1>1, <2>3, <3>1 DEF Request
    <3>3. \A v \in Dismissed' : v \in Dismissed \/ v = n
      BY <2>3 DEF Dismissed, IInv, Type
    <3>4. \A v \in Nudge : ~Covers(r, v)
      BY <2>1 DEF Covers
    <3>5. \A v \in Dismissed' \ (files' \cup unsaved') :
            v \notin Dismissed \/ Covers(r, v) => Covers(q, v)
      BY <3>2, <3>3, <3>4 DEF Covers, Dismissed
    <3> QED BY <2>1, <3>1, <3>5, CoverStep
  <2> QED BY <1>14, <2>2, <2>3 DEF Drop
<1>15. CASE ListPersist(w)
  <2>1. r.op = "list" /\ \E q : Persist(w, q)
    BY <1>15 DEF ListPersist
  <2> QED BY <1>15, <2>1, PersistCovered DEF ListPersist
<1>16. CASE DismissPersist(w)
  <2>1. r.op = "dismiss" /\ \E q : Persist(w, q)
    BY <1>16 DEF DismissPersist
  <2> QED BY <1>16, <2>1, PersistCovered DEF DismissPersist
<1>17. CASE Finish(w)
  BY <1>1, <1>2, <1>17, NothingCovered DEF Finish, disk, history
<1> QED
  BY <1>3, <1>4, <1>5, <1>6, <1>7, <1>8, <1>9, <1>10, <1>11, <1>12, <1>13, <1>14, <1>15,
     <1>16, <1>17 DEF Serve

(* For every number of workers and faults: while the daemon serves, a         *)
(* dismissed row without a tombstone is one that some request is about to     *)
(* write or one whose write failed since the start (persist_nudge_dismissal   *)
(* follows every UPDATE, backfill_nudge_dismissals covers the rest).          *)
THEOREM NoDismissalIsLeftBehind == Spec => []NoDismissalLeftBehind
<1>1. Init => NoDismissalLeftBehind
  BY DEF Init, NoDismissalLeftBehind, Dismissed
<1>2. ASSUME IInv, NoDismissalLeftBehind, [Next]_vars
      PROVE  NoDismissalLeftBehind'
  <2>1. ASSUME NEW k \in Cards, NEW p \in Prints, Edit(k, p)
        PROVE  NoDismissalLeftBehind'
    <3>1. UNCHANGED <<rows, files, unsaved>> /\ up
      BY <2>1 DEF Edit, history
    <3>2. Dismissed' = Dismissed
      BY <3>1 DEF Dismissed
    <3>3. ASSUME NEW w \in Workers, NEW n, Covers(req[w], n)
          PROVE  Covers(req'[w], n)
      <4>1. req[w] \in Request /\ Stage(req[w])
        BY <1>2, ReqOf
      <4>2. req[w].at # "idle"
        BY <3>3, <4>1 DEF Covers, Stage, Idle
      <4>3. req'[w] = [req[w] EXCEPT !.calm = FALSE]
        BY <2>1, <4>2 DEF Edit
      <4> QED BY <3>3, <4>1, <4>3 DEF Covers, Request
    <3> QED BY <1>2, <3>1, <3>2, <3>3 DEF NoDismissalLeftBehind, Covers
  <2>2. CASE Crash \/ LoseDatabase \/ RebuildLost \/ RebuildCommand
             \/ \E n \in Nudge : StartBackfill(n)
    <3>1. ~up'
      BY <2>2 DEF Crash, LoseDatabase, RebuildLost, RebuildCommand, StartBackfill, disk
    <3> QED BY <3>1 DEF NoDismissalLeftBehind
  <2>3. CASE Start
    BY <2>3 DEF Start, NoDismissalLeftBehind, Dismissed
  <2>4. CASE UNCHANGED vars
    BY <1>2, <2>4 DEF vars, NoDismissalLeftBehind, Dismissed
  <2> QED BY <1>2, <2>1, <2>2, <2>3, <2>4, ServeCovered DEF Next
<1> QED
  BY <1>1, <1>2, Invariant, PTL DEF Spec

(* For every number of workers and faults: no step on a readable database     *)
(* takes a dismissal back, the rebuild command included: it is refused while  *)
(* a dismissal has no tombstone (all_nudge_dismissals_are_durable).           *)
THEOREM RebuildsKeepDismissals == Spec => RebuildKeepsDismissals
<1>1. ASSUME IInv, [Next]_vars
      PROVE  [db = "ok" => \A n \in Dismissed : rows'[n] = "dismissed"]_vars
  <2> SUFFICES ASSUME db = "ok", NEW n \in Dismissed, rows' # rows
               PROVE  rows'[n] = "dismissed"
    BY DEF Dismissed
  <2>1. n \in Nudge /\ rows[n] = "dismissed" /\ rows \in [Nudge -> {"absent", "active", "dismissed"}]
    BY <1>1 DEF Dismissed, IInv, Type
  <2>2. ASSUME NEW w \in Workers, Serve(w)
        PROVE  rows'[n] = "dismissed"
    <3>1. CASE DismissStaleVariants(w)
      BY <2>1, <3>1 DEF DismissStaleVariants
    <3>2. CASE Insert(w)
      BY <2>1, <3>2 DEF Insert
    <3>3. CASE Drop(w)
      BY <2>1, <3>3 DEF Drop
    <3>4. ASSUME NEW m \in Nudge, Dismiss(w, m)
          PROVE  rows'[n] = "dismissed"
      BY <2>1, <3>4 DEF Dismiss
    <3> QED BY <2>2, <3>1, <3>2, <3>3, <3>4 DEF Serve, Evaluate, List, Match, SelectDismissed,
               Backfill, BackfillPersist, Read, Check, ListPersist, DismissPersist, Finish
  <2>3. CASE RebuildCommand
    BY <2>1, <2>3 DEF RebuildCommand, Restored
  <2> QED BY <1>1, <2>2, <2>3 DEF Next, Edit, Crash, LoseDatabase, RebuildLost, StartBackfill,
             Start, vars
<1> QED
  BY <1>1, Invariant, PTL DEF Spec, RebuildKeepsDismissals
===============================================================================
