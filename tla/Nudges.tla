------------------------------- MODULE Nudges -------------------------------
(***************************************************************************)
(* AI nudges: suggestions about a card or a project, kept as rows of       *)
(* ai_nudges, that a user dismisses for good.  A dismissal is a row's      *)
(* dismissed_at and then a tombstone file committed to the project, from   *)
(* which a rebuilt database learns it.  Requests run on the general        *)
(* workers, each with a database connection of its own, so the statements  *)
(* of two requests interleave; no lock is held between them.               *)
(*                                                                         *)
(* Sources: src/src/ai/NudgeService.cpp, AiNudgeRepo.cpp,                  *)
(* AiNudgeDurability.cpp, src/src/api/routes/ai/AiNudgeRoutes.cpp,         *)
(* src/src/platform/DatabaseRecovery.cpp, src/src/app/DaemonApp.cpp.       *)
(*                                                                         *)
(* The model has one project.  A nudge is named by what build_nudge_id     *)
(* hashes: its subject (kind and card) and its bases, the fingerprint of a *)
(* card's text and the commit at the head of the project; the client gives *)
(* either, both or none.  Wording, the local model that writes it and      *)
(* evaluate_candidate's conditions on the client's facts choose no state   *)
(* and are left out.                                                       *)
(***************************************************************************)
EXTENDS Integers, FiniteSets

CONSTANTS
  Workers,       \* general workers that can serve a nudge request
  Cards,         \* cards as subjects of a nudge
  Prints,        \* fingerprints a card's text can have
  Project,       \* the project as a subject: a nudge without a card
  MaxBasis,      \* heads 0..MaxBasis can be the basis of a nudge
  Nudge,         \* the nudges that clients ask for
  MaxEdits,      \* bound on card saves
  MaxRequests,   \* bound on requests
  MaxFaults      \* bound on failed writes, crashes and lost databases

\* A basis the client did not give.
NoPrint == "none"
NoCommit == -1

ASSUME NudgesAssumption ==
  /\ Project \notin Cards /\ NoPrint \notin Prints
  /\ Nudge \subseteq [subject : Cards \cup {Project}, print : Prints \cup {NoPrint},
                      commit : (0..MaxBasis) \cup {NoCommit}]
  /\ MaxBasis \in Nat /\ MaxEdits \in Nat /\ MaxRequests \in Nat
  /\ MaxFaults \in Nat

VARIABLES
  rows,      \* ai_nudges: nudge -> absent, active or dismissed
  files,     \* nudges with a tombstone under ai_nudge_dismissals
  db,        \* health of the database file: "ok" or "lost"
  up,        \* the daemon serves requests
  print,     \* card -> fingerprint of its text
  head,      \* number of the head commit, MaxBasis + 1 for every later one
  req,       \* worker -> the request it serves
  told,      \* history: dismissals a client was told are done
  unsaved,   \* history: dismissals whose tombstone could not be written
  edits, requests, faults

vars == <<rows, files, db, up, print, head, req, told, unsaved,
          edits, requests, faults>>

Dismissed == {n \in Nudge : rows[n] = "dismissed"}
Active == {n \in Nudge : rows[n] = "active"}

\* `now' is the nudge at hand, `todo' the rest of the loop, `out' the answer,
\* `since' the dismissals announced before the request began, `calm' that no
\* card was saved since then and every text and head it asked for was read.
Idle == [op |-> "none", at |-> "idle", now |-> {}, todo |-> {}, out |-> {},
         since |-> {}, calm |-> TRUE]

Init ==
  /\ rows = [n \in Nudge |-> "absent"]
  /\ files = {}
  /\ db = "ok"
  /\ up = TRUE
  /\ print \in [Cards -> Prints]
  /\ head = 0
  /\ req = [w \in Workers |-> Idle]
  /\ told = {}
  /\ unsaved = {}
  /\ edits = 0 /\ requests = 0 /\ faults = 0

history == <<told, unsaved>>
disk == <<files, db, up, print>>
counters == <<edits, requests, faults>>

Advance(h) == IF h > MaxBasis THEN h ELSE h + 1

Goto(w, r) == req' = [req EXCEPT ![w] = r]
Answer(w) == [req[w] EXCEPT !.at = "answered", !.now = {}, !.todo = {}]

----------------------------------------------------------------------------
(* persist_nudge_dismissal: under the project's Git lock, write the file,  *)
(* stage it, commit.  `next' is where the caller goes on; a failure leaves *)
(* the row dismissed, perhaps a file that is not committed, and throws     *)
(* through the route, past the rest of a backfill.                         *)

Persist(w, next) ==
  LET n == req[w].now IN
  \/ /\ files' = files \cup n
     /\ head' = Advance(head)
     /\ Goto(w, next)
     /\ UNCHANGED <<unsaved, faults>>
  \/ /\ faults < MaxFaults
     /\ faults' = faults + 1
     /\ \/ files' = files
        \/ files' = files \cup n
     /\ unsaved' = unsaved \cup n \cup
                     (IF req[w].op = "evaluate" THEN req[w].todo ELSE {})
     /\ Goto(w, [Answer(w) EXCEPT !.out = {}])
     /\ UNCHANGED head

----------------------------------------------------------------------------
(* POST /ai/nudges/evaluate.                                               *)

\* The basis is the client's, of a text or head it saw or is about to save.
Evaluate(w, n) ==
  /\ up /\ req[w].at = "idle" /\ requests < MaxRequests
  /\ n.commit # NoCommit => n.commit <= head
  /\ requests' = requests + 1
  /\ Goto(w, [Idle EXCEPT !.op = "evaluate", !.at = "match", !.now = {n},
                          !.since = told])
  /\ UNCHANGED <<rows, disk, head, history, edits, faults>>

\* find_active_exact_match: an active nudge of this basis is the answer.
Match(w) ==
  /\ req[w].at = "match"
  /\ Goto(w, IF req[w].now \subseteq Active
             THEN [Answer(w) EXCEPT !.out = req[w].now]
             ELSE [req[w] EXCEPT !.at = "stale"])
  /\ UNCHANGED <<rows, disk, head, history, counters>>

\* The UPDATE's WHERE.  NOT of a comparison with NULL is NULL: a basis that one
\* of the two lacks tells nothing.
Conflict(m, n) ==
  \/ m.print # n.print /\ NoPrint \notin {m.print, n.print}
  \/ m.commit # n.commit /\ NoCommit \notin {m.commit, n.commit}

Variants(n) == {v \in Active : v.subject = n.subject /\ Conflict(v, n)}

DismissStaleVariantsForgetsFiles(w) ==
  /\ req[w].at = "stale"
  /\ \E n \in req[w].now :
       rows' = [v \in Nudge |->
                  IF v \in Variants(n) THEN "dismissed" ELSE rows[v]]
  /\ Goto(w, [req[w] EXCEPT !.at = "insert"])
  /\ UNCHANGED <<disk, head, history, counters>>

\* dismiss_stale_variants: one UPDATE, then backfill_nudge_dismissals.
DismissStaleVariants(w) ==
  /\ req[w].at = "stale"
  /\ \E n \in req[w].now :
       rows' = [v \in Nudge |->
                  IF v \in Variants(n) THEN "dismissed" ELSE rows[v]]
  /\ Goto(w, [req[w] EXCEPT !.at = "select"])
  /\ UNCHANGED <<disk, head, history, counters>>

\* The SELECT of backfill_nudge_dismissals; its rows are a snapshot.
SelectDismissed(w) ==
  /\ req[w].at = "select"
  /\ Goto(w, [req[w] EXCEPT !.at = "backfill", !.todo = Dismissed])
  /\ UNCHANGED <<rows, disk, head, history, counters>>

\* One turn of its loop.  The file is looked for without the Git lock.  The
\* nudge under evaluation stays in `out' until the loop is over.
Backfill(w) ==
  /\ req[w].at = "backfill"
  /\ IF req[w].todo = {}
     THEN Goto(w, [req[w] EXCEPT !.at = "insert"])
     ELSE \E n \in req[w].todo :
            Goto(w, IF n \in files
                    THEN [req[w] EXCEPT !.todo = @ \ {n}]
                    ELSE [req[w] EXCEPT !.at = "persist", !.todo = @ \ {n},
                                        !.out = req[w].now, !.now = {n}])
  /\ UNCHANGED <<rows, disk, head, history, counters>>

BackfillPersist(w) ==
  /\ req[w].op = "evaluate" /\ req[w].at = "persist"
  /\ Persist(w, [req[w] EXCEPT !.at = "backfill", !.now = req[w].out,
                               !.out = {}])
  /\ UNCHANGED <<rows, db, up, print, told, edits, requests>>

InsertReplaces(w) ==
  /\ req[w].at = "insert"
  /\ rows' = [n \in Nudge |-> IF n \in req[w].now THEN "active" ELSE rows[n]]
  /\ Goto(w, [req[w] EXCEPT !.at = "read"])
  /\ UNCHANGED <<disk, head, history, counters>>

\* build_nudge_body_with_runner has returned; create_or_get inserts the row
\* unless there is one.
Insert(w) ==
  /\ req[w].at = "insert"
  /\ rows' = [n \in Nudge |-> IF n \in req[w].now /\ rows[n] = "absent"
                              THEN "active" ELSE rows[n]]
  /\ Goto(w, [req[w] EXCEPT !.at = "read"])
  /\ UNCHANGED <<disk, head, history, counters>>

\* find_by_id, and evaluate_and_record's test of what it found.
Read(w) ==
  /\ req[w].at = "read"
  /\ Goto(w, [Answer(w) EXCEPT !.out = req[w].now \cap Active])
  /\ UNCHANGED <<rows, disk, head, history, counters>>

----------------------------------------------------------------------------
(* GET /ai/nudges, of the project or of one of its cards.                  *)

List(w, subjects) ==
  /\ up /\ req[w].at = "idle" /\ requests < MaxRequests
  /\ requests' = requests + 1
  /\ Goto(w, [Idle EXCEPT !.op = "list", !.at = "check", !.since = told,
                !.todo = {n \in Active : n.subject \in subjects}])
  /\ UNCHANGED <<rows, disk, head, history, edits, faults>>

\* What is_stale wants to see for n: the text, unless no card is named, and
\* the head.
Asked(n) == {x \in {"text", "head"} :
               \/ x = "text" /\ n.print # NoPrint /\ n.subject # Project
               \/ x = "head" /\ n.commit # NoCommit}

\* A fingerprint without a card ends is_stale before the head is asked for.
NeverStale(n) == n.print # NoPrint /\ n.subject = Project

IsStaleByHeadOnly(n, seen) ==
  ~NeverStale(n) /\ "head" \in seen /\ head # n.commit

\* is_stale, where `seen' is what could be read: without the card's row, file
\* or key there is no text, without a HEAD no head, and what has no current
\* value counts as not stale.
IsStale(n, seen) ==
  /\ ~NeverStale(n)
  /\ \/ "text" \in seen /\ print[n.subject] # n.print
     \/ "head" \in seen /\ head # n.commit

\* One turn of list's loop.
Check(w) ==
  /\ req[w].at = "check"
  /\ IF req[w].todo = {}
     THEN Goto(w, Answer(w))
     ELSE \E n \in req[w].todo : \E seen \in SUBSET Asked(n) :
            Goto(w, [req[w] EXCEPT !.todo = @ \ {n},
                                   !.calm = @ /\ seen = Asked(n),
                                   !.at = IF IsStale(n, seen) THEN "drop" ELSE @,
                                   !.now = IF IsStale(n, seen) THEN {n} ELSE @,
                                   !.out = IF IsStale(n, seen) THEN @ ELSE @ \cup {n}])
  /\ UNCHANGED <<rows, disk, head, history, counters>>

\* A stale nudge is dismissed: the row here, the file in ListPersist; one that
\* another request dismissed first is skipped.
Drop(w) ==
  /\ req[w].at = "drop"
  /\ \E n \in req[w].now :
       IF n \in Active
       THEN /\ rows' = [rows EXCEPT ![n] = "dismissed"]
            /\ Goto(w, [req[w] EXCEPT !.at = "persist"])
       ELSE /\ Goto(w, [req[w] EXCEPT !.at = "check", !.now = {}])
            /\ UNCHANGED rows
  /\ UNCHANGED <<disk, head, history, counters>>

ListPersist(w) ==
  /\ req[w].op = "list" /\ req[w].at = "persist"
  /\ Persist(w, [req[w] EXCEPT !.at = "check", !.now = {}])
  /\ UNCHANGED <<rows, db, up, print, told, edits, requests>>

----------------------------------------------------------------------------
(* POST /ai/nudges/{id}/dismiss.                                           *)

\* AiNudgeRepo::dismiss up to its UPDATE; a nudge that is not active is a 404.
Dismiss(w, n) ==
  /\ up /\ req[w].at = "idle" /\ requests < MaxRequests
  /\ rows[n] # "absent"
  /\ requests' = requests + 1
  /\ IF n \in Active
     THEN /\ rows' = [rows EXCEPT ![n] = "dismissed"]
          /\ Goto(w, [Idle EXCEPT !.op = "dismiss", !.at = "persist",
                                  !.now = {n}, !.since = told])
     ELSE /\ Goto(w, [Idle EXCEPT !.op = "dismiss", !.at = "answered",
                                  !.since = told])
          /\ UNCHANGED rows
  /\ UNCHANGED <<disk, head, history, edits, faults>>

\* The route answers 200 only if the tombstone was committed.
DismissPersist(w) ==
  /\ req[w].op = "dismiss" /\ req[w].at = "persist"
  /\ Persist(w, Answer(w))
  /\ told' = IF faults' = faults THEN told \cup req[w].now ELSE told
  /\ UNCHANGED <<rows, db, up, print, edits, requests>>

Finish(w) ==
  /\ req[w].at = "answered"
  /\ Goto(w, Idle)
  /\ UNCHANGED <<rows, disk, head, history, counters>>

----------------------------------------------------------------------------
(* Saves of cards, the end of the process, and what start-up repairs.      *)

\* A card save writes the text and commits it.
Edit(k, p) ==
  /\ up /\ edits < MaxEdits /\ p # print[k]
  /\ edits' = edits + 1
  /\ print' = [print EXCEPT ![k] = p]
  /\ head' = Advance(head)
  /\ req' = [w \in Workers |-> IF req[w].at = "idle" THEN Idle
                               ELSE [req[w] EXCEPT !.calm = FALSE]]
  /\ UNCHANGED <<rows, files, db, up, history, requests, faults>>

Crash ==
  /\ up /\ faults < MaxFaults
  /\ faults' = faults + 1
  /\ up' = FALSE
  /\ req' = [w \in Workers |-> Idle]
  /\ UNCHANGED <<rows, files, db, print, head, history, edits, requests>>

\* The database file is found missing or corrupt at the next start.
LoseDatabase ==
  /\ ~up /\ db = "ok" /\ faults < MaxFaults
  /\ faults' = faults + 1
  /\ db' = "lost"
  /\ UNCHANGED <<rows, files, up, print, head, req, history, edits, requests>>

\* restore_nudge_dismissals into an empty database: active nudges are gone,
\* every tombstone is a dismissed row again.
Restored == [n \in Nudge |-> IF n \in files THEN "dismissed" ELSE "absent"]

\* Start-up rebuilds a lost database, which it cannot audit.
RebuildLost ==
  /\ ~up /\ db = "lost"
  /\ rows' = Restored
  /\ db' = "ok"
  /\ UNCHANGED <<files, up, print, head, req, history, counters>>

RebuildCommandUnaudited ==
  /\ ~up /\ db = "ok"
  /\ rows' = Restored
  /\ UNCHANGED <<disk, head, req, history, counters>>

\* holder --rebuild-database on a database it can read: refused while a
\* dismissal has no tombstone (all_nudge_dismissals_are_durable).
RebuildCommand ==
  /\ ~up /\ db = "ok"
  /\ Dismissed \subseteq files
  /\ rows' = Restored
  /\ UNCHANGED <<disk, head, req, history, counters>>

\* backfill_nudge_dismissals at start-up, one tombstone at a time; the
\* process can end between two.
StartBackfill(n) ==
  /\ ~up /\ db = "ok"
  /\ n \in Dismissed \ files
  /\ files' = files \cup {n}
  /\ head' = Advance(head)
  /\ UNCHANGED <<rows, db, up, print, req, history, counters>>

\* The daemon serves once the backfill is through: its failure ends main.
Start ==
  /\ ~up /\ db = "ok"
  /\ Dismissed \subseteq files
  /\ up' = TRUE
  /\ unsaved' = {}
  /\ UNCHANGED <<rows, files, db, print, head, req, told, counters>>

----------------------------------------------------------------------------
Serve(w) ==
  \/ \E n \in Nudge : Evaluate(w, n) \/ Dismiss(w, n)
  \/ \E k \in Cards \cup {Project} : List(w, {k, Project})
  \/ Match(w) \/ DismissStaleVariants(w) \/ SelectDismissed(w) \/ Backfill(w)
  \/ BackfillPersist(w) \/ Insert(w) \/ Read(w) \/ Check(w) \/ Drop(w)
  \/ ListPersist(w) \/ DismissPersist(w) \/ Finish(w)

Next ==
  \/ \E w \in Workers : Serve(w)
  \/ \E k \in Cards, p \in Prints : Edit(k, p)
  \/ Crash \/ LoseDatabase \/ RebuildLost \/ RebuildCommand
  \/ \E n \in Nudge : StartBackfill(n)
  \/ Start

Spec == Init /\ [][Next]_vars

----------------------------------------------------------------------------
(* Properties.                                                             *)

TypeOK ==
  /\ rows \in [Nudge -> {"absent", "active", "dismissed"}]
  /\ files \subseteq Nudge /\ told \subseteq Nudge /\ unsaved \subseteq Nudge
  /\ db \in {"ok", "lost"} /\ up \in BOOLEAN
  /\ print \in [Cards -> Prints] /\ head \in 0..(MaxBasis + 1)
  /\ \A w \in Workers : req[w].now \subseteq Nudge /\ req[w].todo \subseteq Nudge

\* A nudge whose dismissal a client was told of (200 from the dismiss route)
\* is in no answer to an evaluation or a list that began later, whatever else
\* was dismissing, evaluating or listing, after crashes, and after the
\* database was lost and rebuilt from the project (create_or_get ignores the
\* dismissed row, restore_nudge_dismissals brings it back).
NotShownAgain ==
  \A w \in Workers :
    req[w].at = "answered" => req[w].out \cap req[w].since = {}

\* While the daemon serves, a nudge with a tombstone is a dismissed row: the
\* project and the database agree after every rebuild and every race between
\* an evaluation inserting and a list dismissing.
TombstoneRules == up => files \subseteq Dismissed

\* While the daemon serves, a dismissed row without a tombstone is one some
\* request is about to write, or one whose write failed since the start: no
\* path that dismisses, by the user, by list or by dismiss_stale_variants,
\* leaves the database alone knowing of it.
NoDismissalLeftBehind ==
  up => \A n \in Dismissed \ (files \cup unsaved) :
          \E w \in Workers :
            \/ req[w].at = "select"
            \/ req[w].at = "persist" /\ n \in req[w].now
            \/ req[w].op = "evaluate" /\ n \in req[w].todo

\* A list during which no card was saved, and which could read every text and
\* head it asked for, never names two nudges of a subject whose bases conflict,
\* also when overlapping evaluations left both active: list compares each with
\* the text and the head of that moment (is_stale).  Fingerprints that name no
\* card are compared with nothing and are excepted.
OneVariantListed ==
  \A w \in Workers :
    req[w].op = "list" /\ req[w].calm =>
      \A m, n \in req[w].out :
        m.subject = n.subject /\ ~NeverStale(m) /\ ~NeverStale(n) => ~Conflict(m, n)

\* No step on a readable database takes a dismissal back: the rebuild command
\* is refused while it would (require_no_daemon_sqlite_only_state), also when
\* an earlier tombstone could not be written.
RebuildKeepsDismissals ==
  [][db = "ok" => \A n \in Dismissed : rows'[n] = "dismissed"]_vars

============================================================================
