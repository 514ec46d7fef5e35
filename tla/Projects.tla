------------------------------ MODULE Projects ------------------------------
(***************************************************************************)
(* The projects of a device: the rows of the database, the repositories on *)
(* disk, the local project registry, the requests of api/routes/           *)
(* ProjectRoutes that change them, the sync worker, and a daemon that can  *)
(* crash anywhere and start again, with or without its database.           *)
(*                                                                         *)
(* A request runs on a worker with a database connection of its own, and   *)
(* each of its calls is a step.  Two things are shared locks: the Git      *)
(* operation lock of a repository root (GitOps::lock_operation), and the   *)
(* writer of the database, which a DELETE holds for its transaction.  The  *)
(* registry's calls are atomic (registry_mutex).                           *)
(*                                                                         *)
(* The stores are in another repository (holder-core): a row is its root   *)
(* and its remote, a repository is the identity in its manifest and its    *)
(* remote "origin".  The pull and the push themselves change neither.      *)
(***************************************************************************)
EXTENDS Naturals, FiniteSets

CONSTANTS Projects, Roots,
          Managed,       \* the roots below the managed projects directory
          Urls, Handlers,
          None,          \* no value
          Absent,        \* a field the request does not have
          MaxRequests, MaxFaults, MaxCrashes   \* bounds

Row == [root : Roots, remote : Urls \cup {None}]

ASSUME ProjectsAssumption ==
  /\ Managed \subseteq Roots
  /\ None \notin Projects \cup Roots \cup Urls \cup Row
  /\ Absent \notin Projects \cup Roots \cup Urls \cup {None}
  /\ MaxRequests \in Nat /\ MaxFaults \in Nat /\ MaxCrashes \in Nat

VARIABLES db,        \* the committed rows of the database
          manifest,  \* the identity in the .holder/project.json of a root
          origin,    \* the remote "origin" of the repository at a root
          registry,  \* the project registry file
          job,       \* the request each worker handles
          sync,      \* the sync worker
          phase,     \* how far the daemon is: "down", "lost", ..., "up"
          answer,    \* what the last PATCH of a remote says, and what is so
          gone,      \* projects removed, with no recreation under way or since
          kept,      \* projects made or moved undisturbed, and not touched since
          torn,      \* projects on which a request was cut before row, manifest and
                     \* registry agreed
          requests, faults, crashes

projectVars == <<db, manifest, origin, registry, job, sync, phase, answer, gone, kept, torn,
                 requests, faults, crashes>>

NoRows == [p \in Projects |-> None]

-----------------------------------------------------------------------------
(* The registry: where each project is, and the roots it was removed from.  *)

NewRegistry == [active  |-> [p \in Projects |-> None],
                removed |-> [p \in Projects |-> {}]]

\* Mutant: a refresh without the look at the removals.
RememberAll(reg, rows) ==
  [reg EXCEPT !.active = [p \in Projects |->
     IF rows[p] = None THEN reg.active[p] ELSE rows[p].root]]

\* A refresh does not bring back what was removed.
Remember(reg, rows) ==
  [reg EXCEPT !.active = [p \in Projects |->
     IF rows[p] = None \/ (reg.removed[p] # {} /\ reg.active[p] = None)
       THEN reg.active[p] ELSE rows[p].root]]

Forget(reg, p, row) ==
  [reg EXCEPT !.removed[p] = @ \cup {row.root} \cup ({reg.active[p]} \ {None}),
              !.active[p] = None]

Restore(reg, p, row) == [reg EXCEPT !.active[p] = row.root]

\* Mutant: a removal outweighs an explicit recovery.
RemovedRootForEver(r) ==
  \/ manifest[r] # None /\ registry.removed[manifest[r]] # {}
  \/ \E p \in Projects : r \in registry.removed[p]

\* A root whose project was removed, unless it was brought back right there.
RemovedRoot(r) ==
  LET id == manifest[r]
  IN  /\ id = None \/ registry.active[id] # r
      /\ \/ id # None /\ registry.removed[id] # {}
         \/ \E p \in Projects : r \in registry.removed[p]

DiscoverRoots ==
  {r \in ({registry.active[p] : p \in Projects} \ {None})
           \cup {m \in Managed : manifest[m] # None} : ~ RemovedRoot(r)}

\* Where a rebuild would find a project.
RootsOf(p) == {r \in DiscoverRoots : manifest[r] = p}

-----------------------------------------------------------------------------
(* Requests.  `seen' is the row a handler has read, `held' the root whose   *)
(* Git lock it holds, `rows' the list it is about to give the registry;     *)
(* `alone' says that no other request has overlapped it, `moving' that it   *)
(* or one that overlapped it removes a project or gives it another root.    *)

Idle == [op |-> "none", pc |-> "idle", p |-> None, root |-> Absent, remote |-> Absent,
         seen |-> None, held |-> None, rows |-> NoRows,
         alone |-> FALSE, moving |-> FALSE]

Job == [op : {"none", "POST", "IMPORT", "PATCH", "DELETE", "PUSH"},
        pc : {"idle", "store", "lock", "create", "hint", "remote", "reread", "restore", "locked",
              "update", "persist", "manifest", "list", "remember", "forget", "commit",
              "undo", "git"},
        p : Projects \cup {None},
        root : Roots \cup {Absent}, remote : Urls \cup {None, Absent},
        seen : Row \cup {None}, held : Roots \cup {None},
        rows : [Projects -> Row \cup {None}], alone : BOOLEAN,
        moving : BOOLEAN]

Busy == {h \in Handlers : job[h].pc # "idle"}

\* Nobody holds the Git operation lock of a root.
Unlocked(r) == sync.held # r /\ \A h \in Handlers : job[h].held # r

\* Nobody is in a DELETE's transaction: other connections can write.
Writable == \A h \in Handlers : job[h].pc \notin {"forget", "commit"}

\* A registry.restore of p is still to come.
RestorePending(p) ==
  \E h \in Busy : job[h].p = p /\ (job[h].op \in {"POST", "IMPORT"} \/ job[h].pc = "undo")

\* The projects of which a set of handlers has changed one of row and registry.
HalfDone(hs) ==
  {job[h].p : h \in {k \in hs : job[k].pc \in
     {"commit", "undo", "hint", "reread", "restore"}}}

\* A move of these projects is in the row, and maybe not in a manifest yet.
Moved(hs) == {job[h].p : h \in {k \in hs : job[k].pc \in {"remote", "persist", "manifest"}}}

\* The root a request is going to give its project.
Wants(j) == IF j.pc = "store" THEN j.seen.root ELSE j.root

\* The root is no other project's and no request is giving it to another one:
\* clients and unique_project_root see to that.
Vacant(p, r) ==
  /\ manifest[r] \in {None, p}
  /\ \A q \in Projects \ {p} : db[q] # None => db[q].root # r
  /\ \A h \in Handlers : job[h].p # p => Wants(job[h]) # r

Goto(h, pc) == job' = [job EXCEPT ![h].pc = pc]
End(h) == job' = [job EXCEPT ![h] = Idle]

Daemon == UNCHANGED <<sync, phase, crashes>>
Ghosts == UNCHANGED <<answer, gone, kept, torn>>

Receive(h, new) ==
  /\ phase = "up" /\ job[h].pc = "idle" /\ requests < MaxRequests
  /\ requests' = requests + 1
  /\ LET moves == new.op = "DELETE" \/ (new.op = "PATCH" /\ new.root # Absent)
     IN  job' = [k \in Handlers |->
           CASE k = h -> [new EXCEPT !.alone = (Busy = {}),
                                     !.moving = moves \/ \E b \in Busy : job[b].moving]
             [] k \in Busy \ {h} -> [job[k] EXCEPT !.alone = FALSE, !.moving = @ \/ moves]
             [] OTHER -> job[k]]
  /\ UNCHANGED <<db, manifest, origin, registry, answer, torn, faults>> /\ Daemon

\* A call throws: the handler answers with an error and gives up its locks.
Throw(h) ==
  /\ faults < MaxFaults /\ faults' = faults + 1
  /\ End(h)
  /\ torn' = torn \cup HalfDone({h}) \cup Moved({h})
  /\ UNCHANGED <<db, manifest, origin, registry, requests, answer, gone, kept>> /\ Daemon

-----------------------------------------------------------------------------
(* POST /projects: the store makes row and repository, then the registry    *)
(* hears of the project.                                                    *)

ReceivePost(h) ==
  \E p \in Projects, r \in Roots, u \in Urls \cup {None} :
    /\ Vacant(p, r)
    /\ Receive(h, [Idle EXCEPT !.op = "POST", !.pc = "store", !.p = p,
                               !.seen = [root |-> r, remote |-> u]])
    /\ gone' = gone \ {p} /\ UNCHANGED kept

PostStore(h) ==
  LET j == job[h]
  IN  /\ j.pc = "store" /\ Writable
      /\ IF db[j.p] # None
           THEN End(h) /\ UNCHANGED <<db, manifest>>
           ELSE /\ db' = [db EXCEPT ![j.p] = j.seen]
                /\ manifest' = [manifest EXCEPT ![j.seen.root] = j.p]
                /\ Goto(h, "restore")
      /\ UNCHANGED <<origin, registry, requests, faults>> /\ Daemon /\ Ghosts

\* The last step of POST and of an import.
RestoreProject(h) ==
  LET j == job[h]
  IN  /\ j.pc = "restore"
      /\ registry' = Restore(registry, j.p, j.seen)
      /\ kept' = IF j.alone /\ db[j.p] # None THEN kept \cup {j.p} ELSE kept
      /\ torn' = IF j.alone THEN torn \ {j.p} ELSE torn
      /\ End(h)
      /\ UNCHANGED <<db, manifest, origin, answer, gone, requests, faults>> /\ Daemon

-----------------------------------------------------------------------------
(* POST /recovery-token/import.                                             *)

\* Reads the project, or makes up the row of a new one below the managed root.
ReceiveImport(h) ==
  \E p \in Projects, u \in Urls \cup {None}, r \in Managed :
    /\ db[p] = None => Vacant(p, r)
    /\ Receive(h, [Idle EXCEPT !.op = "IMPORT", !.pc = "lock", !.p = p, !.remote = u,
         !.root = IF db[p] = None THEN r ELSE Absent,
         !.seen = IF db[p] = None THEN [root |-> r, remote |-> None] ELSE db[p]])
    /\ gone' = gone \ {p} /\ UNCHANGED kept

\* repo.create if the project was new, and import_recovery_token.
ImportCreate(h) ==
  LET j == job[h]
      new == j.root # Absent
  IN  /\ j.pc = "create" /\ Writable
      /\ IF new = (db[j.p] # None)
           THEN End(h) /\ UNCHANGED db
           ELSE /\ db' = IF new THEN [db EXCEPT ![j.p] = j.seen] ELSE db
                /\ Goto(h, IF j.remote = None THEN "reread" ELSE "hint")
      /\ UNCHANGED <<manifest, origin, registry, requests, faults>> /\ Daemon /\ Ghosts

\* The remote of the token is set, and tried; a refusal is only reported.
ImportRemote(h) ==
  LET j == job[h]
  IN  /\ j.pc = "hint"
      /\ Goto(h, "reread")
      /\ \/ /\ db[j.p] # None
            /\ origin' = [origin EXCEPT ![db[j.p].root] = j.remote]
            /\ UNCHANGED faults
         \/ db[j.p] = None /\ UNCHANGED <<origin, faults>>
         \/ faults < MaxFaults /\ faults' = faults + 1 /\ UNCHANGED origin
      /\ UNCHANGED <<db, manifest, registry, requests>> /\ Daemon /\ Ghosts

\* A project that is gone by now is not brought back.
ImportReread(h) ==
  LET j == job[h]
  IN  /\ j.pc = "reread"
      /\ IF db[j.p] = None
           THEN End(h) /\ UNCHANGED manifest
           ELSE /\ manifest' = [manifest EXCEPT ![db[j.p].root] = j.p]
                /\ job' = [job EXCEPT ![h].pc = "restore", ![h].seen = db[j.p],
                                       ![h].root = Absent, ![h].remote = Absent]
      /\ UNCHANGED <<db, origin, registry, requests, faults>> /\ Daemon /\ Ghosts

-----------------------------------------------------------------------------
(* PATCH /projects/{id}.                                                    *)

ReceivePatch(h) ==
  \E p \in Projects, r \in Roots \cup {Absent}, u \in Urls \cup {None, Absent} :
    /\ db[p] # None
    /\ r # Absent => Vacant(p, r)
    /\ Receive(h, [Idle EXCEPT !.op = "PATCH", !.pc = "lock", !.p = p, !.root = r,
                               !.remote = u, !.seen = db[p]])
    /\ kept' = IF r = Absent THEN kept ELSE kept \ {p}
    /\ UNCHANGED gone

\* The root whose lock a request takes: the new one if a PATCH brings one.
LockRoot(j) == IF j.op = "PATCH" /\ j.root # Absent THEN j.root ELSE j.seen.root

AcquireLock(h) ==
  LET j == job[h]
  IN  /\ j.pc = "lock" /\ Unlocked(LockRoot(j))
      /\ job' = [job EXCEPT ![h].held = LockRoot(j),
                            ![h].pc = IF j.op = "IMPORT" THEN "create" ELSE "locked"]
      /\ UNCHANGED <<db, manifest, origin, registry, requests, faults>> /\ Daemon /\ Ghosts

\* PATCH and push read the project again under the lock.
RereadLocked(h) ==
  LET j == job[h]
  IN  /\ j.pc = "locked"
      /\ IF \/ db[j.p] = None
            \/ j.op = "PUSH" /\ db[j.p].remote = None
           THEN End(h)
           ELSE job' = [job EXCEPT ![h].pc = IF j.op = "PUSH" THEN "git" ELSE "update",
                                   ![h].seen = db[j.p]]
      /\ UNCHANGED <<db, manifest, origin, registry, requests, faults>> /\ Daemon /\ Ghosts

\* The request's fields are stored: what follows needs the identity only.
Applied(h) == job' = [job EXCEPT ![h].pc = "manifest", ![h].root = Absent,
                                 ![h].remote = Absent, ![h].seen = None]

\* The fields of the row; a bad privacy_mode is answered after the root is stored.
PatchUpdate(h) ==
  LET j == job[h]
      moved == IF db[j.p] = None \/ j.root = Absent THEN db
               ELSE [db EXCEPT ![j.p].root = j.root]
  IN  /\ j.pc = "update" /\ Writable
      /\ db' = moved
      /\ \/ /\ IF j.remote = Absent THEN Applied(h) ELSE Goto(h, "remote")
            /\ UNCHANGED <<torn, faults>>
         \/ /\ faults < MaxFaults /\ faults' = faults + 1 /\ End(h)
            /\ torn' = IF j.root = Absent THEN torn ELSE torn \cup {j.p}
      /\ UNCHANGED <<manifest, origin, registry, answer, gone, kept, requests>> /\ Daemon

PatchRemote(h) ==
  LET j == job[h]
  IN  /\ j.pc = "remote"
      /\ origin' = [origin EXCEPT ![j.held] = j.remote]
      /\ Goto(h, "persist")
      /\ UNCHANGED <<db, manifest, registry, requests, faults>> /\ Daemon /\ Ghosts

\* The remote is stored once Git has accepted it, and the answer says whether
\* it is another than before.
PatchPersist(h) ==
  LET j == job[h]
  IN  /\ j.pc = "persist" /\ Writable
      /\ IF db[j.p] = None
           THEN UNCHANGED <<db, answer>>
           ELSE /\ db' = [db EXCEPT ![j.p].remote = j.remote]
                /\ answer' = [said |-> j.seen.remote # j.remote,
                              is   |-> db[j.p].remote # j.remote,
                              moving |-> j.moving]
      /\ Applied(h)
      /\ UNCHANGED <<manifest, origin, registry, gone, kept, torn, requests, faults>> /\ Daemon

\* The manifest is written for the row as it is now; without one .value() throws.
PatchManifest(h) ==
  LET j == job[h]
  IN  /\ j.pc = "manifest"
      /\ IF db[j.p] = None
           THEN End(h) /\ UNCHANGED manifest
           ELSE manifest' = [manifest EXCEPT ![db[j.p].root] = j.p] /\ Goto(h, "list")
      /\ UNCHANGED <<db, origin, registry, requests, faults>> /\ Daemon /\ Ghosts

\* registry.remember(repo.list()): the list first, the registry's lock then.
PatchList(h) ==
  /\ job[h].pc = "list"
  /\ job' = [job EXCEPT ![h].pc = "remember", ![h].rows = db]
  /\ UNCHANGED <<db, manifest, origin, registry, requests, faults>> /\ Daemon /\ Ghosts

PatchRemember(h) ==
  LET j == job[h]
  IN  /\ j.pc = "remember"
      /\ registry' = Remember(registry, j.rows)
      /\ kept' = IF j.alone /\ db[j.p] # None /\ j.p \notin torn
                 THEN kept \cup {j.p} ELSE kept
      /\ End(h)
      /\ UNCHANGED <<db, manifest, origin, answer, gone, torn, requests, faults>> /\ Daemon

-----------------------------------------------------------------------------
(* DELETE /projects/{id}: one transaction around the rows and the registry. *)

\* The transaction reads and removes the row; the others still see it.
ReceiveDelete(h) ==
  \E p \in Projects :
    /\ db[p] # None /\ Writable
    /\ Receive(h, [Idle EXCEPT !.op = "DELETE", !.pc = "forget", !.p = p, !.seen = db[p]])
    /\ kept' = kept \ {p} /\ UNCHANGED gone

\* Mutant: the removal under the Git lock of the root.
DeleteForgetLocked(h) ==
  LET j == job[h]
  IN  /\ j.pc = "forget" /\ Unlocked(j.seen.root)
      /\ registry' = Forget(registry, j.p, j.seen)
      /\ gone' = IF RestorePending(j.p) THEN gone ELSE gone \cup {j.p}
      /\ Goto(h, "commit")
      /\ UNCHANGED <<db, manifest, origin, answer, kept, torn, requests, faults>> /\ Daemon

DeleteForget(h) ==
  LET j == job[h]
  IN  /\ j.pc = "forget"
      /\ registry' = Forget(registry, j.p, j.seen)
      /\ gone' = IF RestorePending(j.p) THEN gone ELSE gone \cup {j.p}
      /\ Goto(h, "commit")
      /\ UNCHANGED <<db, manifest, origin, answer, kept, torn, requests, faults>> /\ Daemon

DeleteCommit(h) ==
  LET j == job[h]
  IN  /\ j.pc = "commit"
      /\ db' = [db EXCEPT ![j.p] = None]
      /\ End(h)
      /\ UNCHANGED <<manifest, origin, registry, requests, faults>> /\ Daemon /\ Ghosts

\* A failed commit keeps the row, and the registry takes the project back.
DeleteCommitFails(h) ==
  /\ job[h].pc = "commit" /\ faults < MaxFaults /\ faults' = faults + 1
  /\ Goto(h, "undo")
  /\ gone' = gone \ {job[h].p}
  /\ UNCHANGED <<db, manifest, origin, registry, answer, kept, torn, requests>> /\ Daemon

DeleteUndo(h) ==
  LET j == job[h]
  IN  /\ j.pc = "undo"
      /\ registry' = Restore(registry, j.p, j.seen)
      /\ kept' = IF j.alone /\ db[j.p] # None /\ j.p \notin torn
                 THEN kept \cup {j.p} ELSE kept
      /\ End(h)
      /\ UNCHANGED <<db, manifest, origin, answer, gone, torn, requests, faults>> /\ Daemon

-----------------------------------------------------------------------------
(* POST /projects/{id}/git/push.                                            *)

ReceivePush(h) ==
  \E p \in Projects :
    /\ db[p] # None
    /\ Receive(h, [Idle EXCEPT !.op = "PUSH", !.pc = "lock", !.p = p, !.seen = db[p]])
    /\ UNCHANGED <<gone, kept>>

PushGit(h) ==
  LET j == job[h]
  IN  /\ j.pc = "git"
      /\ origin' = [origin EXCEPT ![j.seen.root] = j.seen.remote]
      /\ End(h)
      /\ UNCHANGED <<db, manifest, registry, requests, faults>> /\ Daemon /\ Ghosts

\* Git, the file system or the database refuse a step.
Fails(h) ==
  /\ job[h].pc \in {"store", "create", "hint", "reread", "restore", "remote", "persist",
                    "manifest", "remember", "forget", "git"}
  /\ Throw(h)

-----------------------------------------------------------------------------
(* The sync worker lists the projects and then takes them one by one: with  *)
(* the lock of the root it listed it sets the remote it listed.             *)

Resting == [rows |-> NoRows, held |-> None, at |-> None]

SyncStep == UNCHANGED <<db, manifest, registry, job, phase, requests, crashes>> /\ Ghosts

SyncList ==
  /\ phase = "up" /\ sync = Resting
  /\ sync' = [sync EXCEPT !.rows =
       [p \in Projects |-> IF db[p] # None /\ db[p].remote # None THEN db[p] ELSE None]]
  /\ UNCHANGED <<origin, faults>> /\ SyncStep

SyncLock ==
  /\ sync.held = None
  /\ \E p \in Projects :
       /\ sync.rows[p] # None /\ Unlocked(sync.rows[p].root)
       /\ sync' = [sync EXCEPT !.held = sync.rows[p].root, !.at = p]
  /\ UNCHANGED <<origin, faults>> /\ SyncStep

SyncDone == [sync EXCEPT !.held = None, !.at = None, !.rows[sync.at] = None]

\* Mutant: a remote that is set already is left as it is.
SyncRefreshUnset ==
  /\ sync.at # None
  /\ sync' = SyncDone
  /\ origin' = IF origin[sync.held] # None THEN origin
               ELSE [origin EXCEPT ![sync.held] = sync.rows[sync.at].remote]
  /\ UNCHANGED faults /\ SyncStep

\* set_remote; a failure skips the project until the next cycle.
SyncRefresh ==
  /\ sync.at # None
  /\ sync' = SyncDone
  /\ \/ /\ origin' = [origin EXCEPT ![sync.held] = sync.rows[sync.at].remote]
        /\ UNCHANGED faults
     \/ faults < MaxFaults /\ faults' = faults + 1 /\ UNCHANGED origin
  /\ SyncStep

-----------------------------------------------------------------------------
(* The life of the daemon.                                                  *)

\* Requests and worker vanish, an open transaction is rolled back; the file of
\* the database may be lost or corrupt as well.
Crash ==
  /\ phase \notin {"down", "lost"} /\ crashes < MaxCrashes /\ crashes' = crashes + 1
  /\ \/ phase' = "down" /\ UNCHANGED db
     \/ phase' = "lost" /\ db' = NoRows
  /\ job' = [h \in Handlers |-> Idle]
  /\ sync' = Resting
  /\ torn' = torn \cup HalfDone(Handlers) \cup Moved(Handlers)
  /\ gone' = gone \ HalfDone(Handlers)
  /\ UNCHANGED <<manifest, origin, registry, answer, kept, requests, faults>>

Booting == UNCHANGED <<origin, job, sync, gone, kept, torn, answer, requests, faults, crashes>>

\* The rows of the projects that are discovered, each at one of its roots.
Discovered ==
  {rows \in [Projects -> Row \cup {None}] : \A p \in Projects :
     IF RootsOf(p) = {} THEN rows[p] = None
     ELSE /\ rows[p] # None /\ rows[p].root \in RootsOf(p)
          /\ rows[p].remote \in {None, origin[rows[p].root]}}

\* A missing or corrupt database is rebuilt from the files.
RebuildDatabase ==
  /\ phase = "lost" /\ phase' = "recovered"
  /\ db' \in Discovered
  /\ UNCHANGED <<manifest, registry>> /\ Booting

\* One without a project is filled from the files, too; the device can have
\* projects beside Projects.
RecoverExistingProjects ==
  /\ phase = "down" /\ phase' = "recovered"
  /\ \/ UNCHANGED db
     \/ db = NoRows /\ db' \in Discovered
  /\ UNCHANGED <<manifest, registry>> /\ Booting

\* Still none: a Home with an identity nobody has had, at a root of its own.
BootstrapHome ==
  /\ phase = "recovered" /\ phase' = "home"
  /\ \/ /\ db = NoRows
        /\ \E p \in Projects, r \in Managed :
             /\ registry.removed[p] = {} /\ p \notin {manifest[x] : x \in Roots}
             /\ manifest[r] = None /\ r \notin UNION {registry.removed[q] : q \in Projects}
             /\ db' = [db EXCEPT ![p] = [root |-> r, remote |-> None]]
             /\ manifest' = [manifest EXCEPT ![r] = p]
     \/ UNCHANGED <<db, manifest>>
  /\ UNCHANGED registry /\ Booting

BackfillManifests ==
  /\ phase = "home" /\ phase' = "backfilled"
  /\ manifest' = [r \in Roots |->
       IF manifest[r] = None /\ \E p \in Projects : db[p] # None /\ db[p].root = r
         THEN CHOOSE p \in Projects : db[p] # None /\ db[p].root = r
         ELSE manifest[r]]
  /\ UNCHANGED <<db, registry>> /\ Booting

RememberAtStartup ==
  /\ phase = "backfilled" /\ phase' = "up"
  /\ registry' = Remember(registry, db)
  /\ UNCHANGED <<db, manifest>> /\ Booting

Startup == \/ RebuildDatabase \/ RecoverExistingProjects \/ BootstrapHome
           \/ BackfillManifests \/ RememberAtStartup

-----------------------------------------------------------------------------
\* A device on which the daemon has never run.
ProjectInit ==
  /\ db = NoRows
  /\ manifest = [r \in Roots |-> None] /\ origin = [r \in Roots |-> None]
  /\ registry = NewRegistry
  /\ job = [h \in Handlers |-> Idle] /\ sync = Resting
  /\ phase = "lost"
  /\ answer = [said |-> FALSE, is |-> FALSE, moving |-> FALSE]
  /\ gone = {} /\ kept = {} /\ torn = {}
  /\ requests = 0 /\ faults = 0 /\ crashes = 0

ReceiveAny(h) == \/ ReceivePost(h) \/ ReceiveImport(h) \/ ReceivePatch(h)
                 \/ ReceiveDelete(h) \/ ReceivePush(h)

Step(h) == \/ PostStore(h) \/ RestoreProject(h)
           \/ ImportCreate(h) \/ ImportRemote(h) \/ ImportReread(h)
           \/ RereadLocked(h) \/ PatchUpdate(h) \/ PatchRemote(h) \/ PatchPersist(h)
           \/ PatchManifest(h) \/ PatchList(h) \/ PatchRemember(h)
           \/ DeleteForget(h) \/ DeleteCommit(h) \/ DeleteCommitFails(h) \/ DeleteUndo(h)
           \/ PushGit(h) \/ Fails(h)

SyncNext == SyncList \/ SyncLock \/ SyncRefresh

ProjectNext == \/ \E h \in Handlers : ReceiveAny(h) \/ AcquireLock(h) \/ Step(h)
               \/ SyncNext \/ Startup \/ Crash

ProjectSpec == ProjectInit /\ [][ProjectNext]_projectVars

(* The daemon starts, threads run, calls return.  The sync worker sleeps    *)
(* between its cycles, so a request that waits for a Git lock gets it in    *)
(* the end: strong fairness.                                                *)
ProjectFairSpec ==
  /\ ProjectSpec
  /\ WF_projectVars(Startup) /\ WF_projectVars(SyncNext) /\ SF_projectVars(SyncLock)
  /\ \A h \in Handlers : WF_projectVars(Step(h)) /\ SF_projectVars(AcquireLock(h))

-----------------------------------------------------------------------------
(* Properties.                                                              *)

\* The state has the shape the code gives it.
ProjectTypeOK ==
  /\ db \in [Projects -> Row \cup {None}]
  /\ manifest \in [Roots -> Projects \cup {None}] /\ origin \in [Roots -> Urls \cup {None}]
  /\ registry \in [active : [Projects -> Roots \cup {None}], removed : [Projects -> SUBSET Roots]]
  /\ job \in [Handlers -> Job]
  /\ sync \in [rows : [Projects -> Row \cup {None}],
               held : Roots \cup {None}, at : Projects \cup {None}]
  /\ phase \in {"down", "lost", "recovered", "home", "backfilled", "up"}
  /\ answer \in [said : BOOLEAN, is : BOOLEAN, moving : BOOLEAN]
  /\ gone \subseteq Projects /\ kept \subseteq Projects /\ torn \subseteq Projects
  /\ requests \in 0..MaxRequests /\ faults \in 0..MaxFaults /\ crashes \in 0..MaxCrashes

\* A removed project stays removed (README: "Startup and database rebuilding
\* leave it removed, even when its files remain on disk"): neither a PATCH with
\* an older list, nor a crash, nor a rebuild brings it back, as long as no
\* request that recreates it was under way when it was removed.
GoneStaysGone ==
  \A p \in gone :
    /\ registry.active[p] = None /\ RootsOf(p) = {}
    /\ db[p] = None \/ \E h \in Handlers : job[h].p = p /\ job[h].pc = "commit"

\* The converse: a project created, imported, moved or spared by a failed
\* DELETE, with nothing else under way, can be rebuilt from the files at every
\* later moment, and is there whenever the daemon is up; a removal of the same
\* identity in the past does not take it away.
KeptSurvives ==
  \A p \in kept : RootsOf(p) # {} /\ (phase = "up" => db[p] # None)

\* The sync worker works with remotes it read before it had the lock and can
\* put an old one back; in the end each repository has the remote of its row.
RemoteHeals ==
  <>[](\A p \in Projects :
         db[p] # None /\ db[p].remote # None => origin[db[p].root] = db[p].remote)

\* No request waits for ever: Git locks, the transaction of a DELETE and the
\* sync worker's locks are never held in a circle.
EveryRequestEnds == \A h \in Handlers : job[h].pc # "idle" ~> job[h].pc = "idle"

\* ProjectRoutes.cpp:1121: the remote is observed "under the same repository
\* lock as the mutation, so concurrent requests report the actual change".  A
\* PATCH that moves the project takes the lock of the new root, a DELETE takes
\* none: requests that overlap one of these are left out.
ReportsActualChange == answer.moving \/ answer.said = answer.is

=============================================================================
