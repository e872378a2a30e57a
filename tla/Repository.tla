----------------------------- MODULE Repository -----------------------------
(***************************************************************************)
(* The snapshot store of the daemon: SnapshotManager's operations running  *)
(* on the daemon's threads over one SnapshotRepository, that is one SQLite *)
(* connection and one std::mutex (src/storage/snapshot_repository.cpp,     *)
(* src/storage/database.cpp, src/core/snapshot_manager.cpp).               *)
(*                                                                         *)
(* One action is one SQL statement: SQLite serialises the statements of a  *)
(* connection, so a statement is atomic and everything between two of them *)
(* is not.  A repository call that only reads takes mutex_, reads and      *)
(* releases it in one step, because no other thread can change what it     *)
(* reads while it holds mutex_ (the only unlocked statement writes         *)
(* restore_events, which no read returns).                                 *)
(***************************************************************************)
EXTENDS Naturals, FiniteSets

CONSTANTS
    Thread,          \* the daemon threads that serve requests
    Id,              \* the snapshot ids (ULIDs) a behaviour can meet
    None,            \* no thread, no row, no id
    Text,            \* the names and tag lists a client can set
    Ops,             \* Ops[t]: the operations thread t is asked for
    Prefixes,        \* the ids that share a prefix, for each prefix a client types
    MaxTime,         \* bound on the clock
    RetentionDays,   \* config storage.retention_days, 0 = no age limit
    MaxSnapshots,    \* config storage.max_snapshots, 0 = no count limit
    BeginMayFail,    \* BEGIN IMMEDIATE may fail (the file is locked by another process)
    WriteMayFail,    \* a write or COMMIT may fail (disk full, I/O error)
    RelockOutcomes,  \* what locking a std::mutex one already owns does in this build
    MaxRequests,     \* bound on the requests of a behaviour
    MaxCrashes       \* bound on the crashes of a behaviour

OpNames == {"capture", "import", "get", "delete", "rename", "tag", "favorite",
            "restore", "prune"}

\* The rows of a snapshot besides the one in "snapshots", in the order insert writes them.
Part == {"monitors", "windows", "tabs", "cursor"}

Blank == ""

Meta == [name: Text \cup {Blank}, tags: Text \cup {Blank}, favorite: BOOLEAN,
         created: 0..MaxTime]

ASSUME RepositoryAssumption ==
    /\ Ops \in [Thread -> SUBSET OpNames]
    /\ Prefixes \subseteq SUBSET Id
    /\ MaxTime \in Nat /\ RetentionDays \in Nat /\ MaxSnapshots \in Nat
    /\ MaxRequests \in Nat /\ MaxCrashes \in Nat
    /\ BeginMayFail \in BOOLEAN /\ WriteMayFail \in BOOLEAN
    /\ RelockOutcomes \subseteq {"blocks", "recurses"} /\ RelockOutcomes # {}
    /\ (\E t \in Thread : Ops[t] \cap {"rename", "tag"} # {}) => Text # {}
    /\ None \notin Thread /\ None \notin Id /\ None \notin Meta
    /\ IsFiniteSet(Id)

VARIABLES
    db,       \* the tables as the connection sees them
    disk,     \* the tables as committed: what another connection or a restart sees
    open,     \* is a transaction open on the connection
    changes,  \* sqlite3_changes(): rows changed by the last write on the connection
    mutex,    \* the owner of SnapshotRepository::mutex_, or None
    pc,       \* where each thread is
    op,       \* the operation it serves
    prefix,   \* the id prefix the client sent
    target,   \* the snapshot id it works on
    draft,    \* the metadata it will write
    active,   \* Transaction::active_ of the Transaction on its stack
    hit,      \* history: did its last UPDATE or DELETE match a row
    result,   \* the outcome of its last request
    clock, seen, requests, crashes

store  == <<db, disk, open, changes>>
job    == <<op, prefix, target, draft, hit>>
bounds == <<clock, seen, requests, crashes>>
vars   == <<store, mutex, pc, job, active, result, bounds>>

-----------------------------------------------------------------------------
(* Tables.  fts counts the rows of snapshot_search with this snapshot_id.   *)

Event == [thread: Thread, id: Id]

Tables == [meta: [Id -> Meta \cup {None}], parts: [Id -> SUBSET Part],
           fts: [Id -> Nat], events: SUBSET Event]

EmptyTables == [meta |-> [i \in Id |-> None], parts |-> [i \in Id |-> {}],
                fts |-> [i \in Id |-> 0], events |-> {}]

Rows(s) == {i \in Id : s.meta[i] # None}

\* A foreign key without ON DELETE CASCADE leaves the child rows behind.
MutWithoutNoCascade(s, D) ==
    [s EXCEPT !.meta = [i \in Id |-> IF i \in D THEN None ELSE @[i]],
              !.fts = [i \in Id |-> IF i \in D THEN 0 ELSE @[i]]]

\* A delete trigger that drops one index row, though a snapshot may have none or several.
MutWithoutOneIndexRow(s, D) ==
    [meta   |-> [i \in Id |-> IF i \in D THEN None ELSE s.meta[i]],
     parts  |-> [i \in Id |-> IF i \in D THEN {} ELSE s.parts[i]],
     fts    |-> [i \in Id |-> IF i \in D THEN s.fts[i] - 1 ELSE s.fts[i]],
     events |-> {e \in s.events : e.id \notin D}]

\* DELETE FROM snapshots of the ids in D: the foreign keys cascade to the child tables
\* and to restore_events, trg_snapshots_delete_search empties the search index.
Without(s, D) ==
    [meta   |-> [i \in Id |-> IF i \in D THEN None ELSE s.meta[i]],
     parts  |-> [i \in Id |-> IF i \in D THEN {} ELSE s.parts[i]],
     fts    |-> [i \in Id |-> IF i \in D THEN 0 ELSE s.fts[i]],
     events |-> {e \in s.events : e.id \notin D}]

\* Every statement of the connection, whichever thread runs it: it lands in the open
\* transaction if there is one and is committed at once (autocommit) if there is none.
Exec(s) ==
    /\ db' = s
    /\ disk' = IF open THEN disk ELSE s

-----------------------------------------------------------------------------
(* Requests: a handler calls one operation of SnapshotManager.              *)

Goto(t, l) == pc' = [pc EXCEPT ![t] = l]

\* The next statement of the same call.
Continue(t, l) == Goto(t, l) /\ UNCHANGED <<job, result>>

\* The handler returns: its answer is out and its locals are gone.
Return(t, r) ==
    /\ Goto(t, "idle")
    /\ result' = [result EXCEPT ![t] = r]
    /\ op' = [op EXCEPT ![t] = "none"]
    /\ prefix' = [prefix EXCEPT ![t] = {}]
    /\ target' = [target EXCEPT ![t] = None]
    /\ draft' = [draft EXCEPT ![t] = None]
    /\ hit' = [hit EXCEPT ![t] = FALSE]

Accept(t, o) ==
    /\ pc[t] = "idle" /\ o \in Ops[t] /\ requests < MaxRequests
    /\ requests' = requests + 1
    /\ op' = [op EXCEPT ![t] = o]
    /\ UNCHANGED <<store, mutex, active, hit, result, clock, crashes>>

\* A bound, not code: fresh ids are kept for the imports that may still need one.
FreshIdsLeft(used) ==
    Cardinality(Id \ used) > Cardinality({u \in Thread : pc[u] = "collide"})

\* capture() mints the ULID and the timestamp before insert takes the lock, and sets
\* neither the name nor the tags of the request.
StartCapture(t) ==
    /\ Accept(t, "capture")
    /\ FreshIdsLeft(seen)
    /\ \E i \in Id \ seen :
          /\ target' = [target EXCEPT ![t] = i]
          /\ seen' = seen \cup {i}
    /\ draft' = [draft EXCEPT ![t] = [name |-> Blank, tags |-> Blank,
                                      favorite |-> FALSE, created |-> clock]]
    /\ Goto(t, "insert")
    /\ UNCHANGED prefix

\* The document brings its own id and metadata (its creation time may lie anywhere).
StartImport(t) ==
    /\ Accept(t, "import")
    /\ \E i \in Id, m \in Meta :
          /\ FreshIdsLeft(seen \cup {i})
          /\ seen' = seen \cup {i}
          /\ target' = [target EXCEPT ![t] = i]
          /\ draft' = [draft EXCEPT ![t] = m]
    /\ Goto(t, "collide")
    /\ UNCHANGED prefix

\* get, remove, rename, set_tags, set_favorite and restore start from an id prefix.
StartOnPrefix(t) ==
    /\ \E o \in {"get", "delete", "rename", "tag", "favorite", "restore"} : Accept(t, o)
    /\ \E p \in Prefixes : prefix' = [prefix EXCEPT ![t] = p]
    /\ Goto(t, "resolve")
    /\ UNCHANGED <<target, draft, seen>>

StartPrune(t) ==
    /\ Accept(t, "prune")
    /\ Goto(t, "prune")
    /\ UNCHANGED <<prefix, target, draft, seen>>

-----------------------------------------------------------------------------
(* Reads under mutex_.                                                      *)

\* An early return that does not unlock.
MutResolveIdPrefix(t) ==
    /\ pc[t] = "resolve" /\ mutex = None
    /\ LET matches == prefix[t] \cap Rows(db) IN
          \/ matches = {} /\ Return(t, "not_found") /\ mutex' = t
          \/ (\E i, j \in matches : i # j) /\ Return(t, "ambiguous") /\ UNCHANGED mutex
          \/ \E i \in matches :
                /\ matches = {i}
                /\ target' = [target EXCEPT ![t] = i]
                /\ Goto(t, IF op[t] = "delete" THEN "remove" ELSE "load")
                /\ UNCHANGED <<op, prefix, draft, hit, result, mutex>>
    /\ UNCHANGED <<store, active, bounds>>

\* resolve_id_prefix: none, exactly one, or more than one id matches.
ResolveIdPrefix(t) ==
    /\ pc[t] = "resolve" /\ mutex = None
    /\ LET matches == prefix[t] \cap Rows(db) IN
          \/ matches = {} /\ Return(t, "not_found")
          \/ (\E i, j \in matches : i # j) /\ Return(t, "ambiguous")
          \/ \E i \in matches :
                /\ matches = {i}
                /\ target' = [target EXCEPT ![t] = i]
                /\ Goto(t, IF op[t] = "delete" THEN "remove" ELSE "load")
                /\ UNCHANGED <<op, prefix, draft, hit, result>>
    /\ UNCHANGED <<store, mutex, active, bounds>>

\* An edit that does not start from the loaded row.
MutEdits(o, m) ==
    IF o = "favorite" THEN {[m EXCEPT !.favorite = f] : f \in BOOLEAN}
    ELSE IF o = "tag" THEN {[m EXCEPT !.tags = x, !.favorite = FALSE] : x \in Text}
    ELSE {[m EXCEPT !.name = x, !.favorite = FALSE] : x \in Text}

\* The metadata a rename, set_tags or set_favorite writes back: the loaded row with the
\* one field of the request replaced.
Edits(o, m) ==
    IF o = "favorite" THEN {[m EXCEPT !.favorite = f] : f \in BOOLEAN}
    ELSE IF o = "tag" THEN {[m EXCEPT !.tags = x] : x \in Text}
    ELSE {[m EXCEPT !.name = x] : x \in Text}

\* load, from get, current_metadata and restore.
Load(t) ==
    /\ pc[t] = "load" /\ mutex = None
    /\ LET row == db.meta[target[t]] IN
          \/ row = None /\ Return(t, "not_found")
          \/ row # None /\ op[t] = "get" /\ Return(t, "ok")
          \/ row # None /\ op[t] = "restore" /\ Continue(t, "plan")
          \/ /\ row # None /\ op[t] \in {"rename", "tag", "favorite"}
             /\ \E m \in Edits(op[t], row) : draft' = [draft EXCEPT ![t] = m]
             /\ Goto(t, "update")
             /\ UNCHANGED <<op, prefix, target, hit, result>>
    /\ UNCHANGED <<store, mutex, active, bounds>>

\* import_snapshot looks its id up and mints a fresh one when it is taken.
ImportCollision(t) ==
    /\ pc[t] = "collide" /\ mutex = None
    /\ \/ /\ db.meta[target[t]] = None
          /\ UNCHANGED <<target, seen>>
       \/ /\ db.meta[target[t]] # None
          /\ \E i \in Id \ seen :
                /\ target' = [target EXCEPT ![t] = i]
                /\ seen' = seen \cup {i}
    /\ Goto(t, "insert")
    /\ UNCHANGED <<store, mutex, op, prefix, draft, active, hit, result, clock,
                   requests, crashes>>

-----------------------------------------------------------------------------
(* insert and prune: a Transaction under mutex_.                            *)

\* The lock_guard and the Transaction constructor, which drops the error of a failed
\* BEGIN IMMEDIATE and only remembers active_ = false.
Begin(t) ==
    /\ pc[t] \in {"insert", "prune"} /\ mutex = None
    /\ mutex' = t
    /\ \/ open' = TRUE /\ active' = [active EXCEPT ![t] = TRUE]
       \/ BeginMayFail /\ UNCHANGED open /\ active' = [active EXCEPT ![t] = FALSE]
    /\ Continue(t, IF pc[t] = "insert" THEN "row" ELSE "age")
    /\ UNCHANGED <<db, disk, changes, bounds>>

\* A failed statement: nothing is written and the function returns its error, which
\* runs ~Transaction and then releases the lock.
Fails(t, l) ==
    /\ changes' = 0
    /\ Continue(t, l)
    /\ UNCHANGED <<db, disk>>

InsertRow(t) ==
    /\ pc[t] = "row"
    /\ \/ /\ db.meta[target[t]] = None
          /\ Exec([db EXCEPT !.meta[target[t]] = draft[t]])
          /\ changes' = 1
          /\ Continue(t, "parts")
       \/ /\ WriteMayFail \/ db.meta[target[t]] # None
          /\ Fails(t, "abort")
    /\ UNCHANGED <<open, mutex, active, bounds>>

\* insert_monitors, insert_windows with insert_tabs, insert_cursor.
NextParts(done) ==
    IF "monitors" \notin done THEN {"monitors"}
    ELSE IF "windows" \notin done THEN {"windows"}
    ELSE IF "tabs" \notin done THEN {"tabs"}
    ELSE {"cursor"}

\* An insert that ignores the status of insert_windows.
MutInsertPart(t) ==
    /\ pc[t] = "parts"
    /\ LET done == db.parts[target[t]] \cup NextParts(db.parts[target[t]]) IN
          \/ /\ Exec([db EXCEPT !.parts[target[t]] = done])
             /\ changes' = 1
             /\ Continue(t, IF done = Part THEN "index" ELSE "parts")
          \/ WriteMayFail /\ Fails(t, "index")
    /\ UNCHANGED <<open, mutex, active, bounds>>

InsertPart(t) ==
    /\ pc[t] = "parts"
    /\ LET done == db.parts[target[t]] \cup NextParts(db.parts[target[t]]) IN
          \/ /\ Exec([db EXCEPT !.parts[target[t]] = done])
             /\ changes' = 1
             /\ Continue(t, IF done = Part THEN "index" ELSE "parts")
          \/ WriteMayFail /\ Fails(t, "abort")
    /\ UNCHANGED <<open, mutex, active, bounds>>

\* index_for_search inserts one more index row; a failure is logged and swallowed.
IndexForSearch(i) ==
    \/ /\ Exec([db EXCEPT !.fts[i] = @ + 1])
       /\ changes' = 1
    \/ /\ WriteMayFail
       /\ changes' = 0
       /\ UNCHANGED <<db, disk>>

InsertIndex(t) ==
    /\ pc[t] = "index"
    /\ IndexForSearch(target[t])
    /\ Continue(t, "commit")
    /\ UNCHANGED <<open, mutex, active, bounds>>

\* Releases the lock_guard once the Transaction is gone.  A capture prunes after a
\* successful insert; what that prune returns does not change the capture's answer.
EndOfTransaction(t, ok) ==
    /\ mutex' = None
    /\ active' = [active EXCEPT ![t] = FALSE]
    /\ \/ /\ pc[t] = "commit" /\ ok /\ op[t] = "capture"
          /\ Continue(t, "prune")
       \/ /\ pc[t] \in {"commit", "abort"} /\ ~(ok /\ op[t] = "capture")
          /\ Return(t, IF ok THEN "ok" ELSE "error")
       \/ /\ pc[t] \in {"prune_commit", "prune_abort"}
          /\ Return(t, IF ok \/ op[t] = "capture" THEN "ok" ELSE "error")
    /\ UNCHANGED <<changes, bounds>>

\* The rollback of a transaction whoever's statements are in it.
RollBack == db' = disk /\ open' = FALSE /\ UNCHANGED disk

\* Transaction::commit: an error when BEGIN had failed, else COMMIT, which rolls back
\* when it fails.
Commit(t) ==
    /\ pc[t] \in {"commit", "prune_commit"}
    /\ \/ /\ active[t]
          /\ disk' = db /\ open' = FALSE /\ UNCHANGED db
          /\ EndOfTransaction(t, TRUE)
       \/ /\ active[t] /\ WriteMayFail
          /\ RollBack
          /\ EndOfTransaction(t, FALSE)
       \/ /\ ~active[t]
          /\ UNCHANGED <<db, disk, open>>
          /\ EndOfTransaction(t, FALSE)

\* A ~Transaction that commits what it has instead of rolling it back.
MutAbortKeepsRows(t) ==
    /\ pc[t] \in {"abort", "prune_abort"}
    /\ \/ active[t] /\ disk' = db /\ open' = FALSE /\ UNCHANGED db
       \/ ~active[t] /\ UNCHANGED <<db, disk, open>>
    /\ EndOfTransaction(t, FALSE)

\* No ~Transaction: the transaction stays open when the lock is released.
MutAbortStaysOpen(t) ==
    /\ pc[t] \in {"abort", "prune_abort"}
    /\ UNCHANGED <<db, disk, open>>
    /\ EndOfTransaction(t, FALSE)

\* ~Transaction after an error: ROLLBACK, if BEGIN had succeeded.
Abort(t) ==
    /\ pc[t] \in {"abort", "prune_abort"}
    /\ \/ active[t] /\ RollBack
       \/ ~active[t] /\ UNCHANGED <<db, disk, open>>
    /\ EndOfTransaction(t, FALSE)

PruneWith(t, D, l) ==
    /\ \/ /\ Exec(Without(db, D))
          /\ changes' = Cardinality(D)
          /\ Continue(t, l)
       \/ WriteMayFail /\ Fails(t, "prune_abort")
    /\ UNCHANGED <<open, mutex, active, bounds>>

Unstarred(s) == {i \in Rows(s) : ~s.meta[i].favorite}

\* A retention query without its "AND favorite = 0".
MutExpired(s) == {i \in Rows(s) : s.meta[i].created + RetentionDays < clock}

\* created_at < cutoff AND favorite = 0
Expired(s) == {i \in Unstarred(s) : s.meta[i].created + RetentionDays < clock}

PruneByAge(t) ==
    /\ pc[t] = "age"
    /\ IF RetentionDays = 0
       THEN Continue(t, "trim") /\ UNCHANGED <<store, mutex, active, bounds>>
       ELSE PruneWith(t, Expired(db), "trim")

\* ORDER BY created_at DESC LIMIT -1 OFFSET max_snapshots over the non-favourites:
\* everything but some max_snapshots newest ones (equal timestamps in any order).
Excess(s) ==
    {D \in SUBSET Unstarred(s) :
        LET kept == Unstarred(s) \ D IN
           /\ IF Cardinality(Unstarred(s)) <= MaxSnapshots THEN D = {}
              ELSE Cardinality(kept) = MaxSnapshots
           /\ \A d \in D, k \in kept : s.meta[d].created <= s.meta[k].created}

PruneByCount(t) ==
    /\ pc[t] = "trim"
    /\ IF MaxSnapshots = 0
       THEN Continue(t, "prune_commit") /\ UNCHANGED <<store, mutex, active, bounds>>
       ELSE \E D \in Excess(db) : PruneWith(t, D, "prune_commit")

-----------------------------------------------------------------------------
(* remove and update_metadata: autocommit statements under mutex_.          *)

\* A remove that does not take mutex_.
MutRemoveUnlocked(t) ==
    /\ pc[t] = "remove" /\ mutex = None
    /\ Exec(Without(db, {target[t]}))
    /\ hit' = [hit EXCEPT ![t] = target[t] \in Rows(db)]
    /\ changes' = IF target[t] \in Rows(db) THEN 1 ELSE 0
    /\ Goto(t, "removed")
    /\ UNCHANGED <<op, prefix, target, draft, result, mutex, open, active, bounds>>

Remove(t) ==
    /\ pc[t] = "remove" /\ mutex = None
    /\ \/ /\ Exec(Without(db, {target[t]}))
          /\ hit' = [hit EXCEPT ![t] = target[t] \in Rows(db)]
          /\ changes' = IF target[t] \in Rows(db) THEN 1 ELSE 0
          /\ mutex' = t
          /\ Goto(t, "removed")
          /\ UNCHANGED <<op, prefix, target, draft, result>>
       \/ /\ WriteMayFail /\ changes' = 0
          /\ Return(t, "error")
          /\ UNCHANGED <<db, disk, mutex>>
    /\ UNCHANGED <<open, active, bounds>>

\* The answer is read from sqlite3_changes() after the statement.
RemoveAnswers(t) ==
    /\ pc[t] = "removed"
    /\ Return(t, IF changes = 0 THEN "not_found" ELSE "ok")
    /\ mutex' = None
    /\ UNCHANGED <<store, active, bounds>>

\* UPDATE snapshots SET name, description, tags, favorite, updated_at WHERE id: the
\* whole mutable row is replaced.  trg_snapshots_metadata_update keeps the indexed name
\* and tags equal to the row's, so the index is only counted here.
UpdateMetadata(t) ==
    /\ pc[t] = "update" /\ mutex = None
    /\ \/ /\ hit' = [hit EXCEPT ![t] = target[t] \in Rows(db)]
          /\ changes' = IF target[t] \in Rows(db) THEN 1 ELSE 0
          /\ IF target[t] \in Rows(db)
             THEN Exec([db EXCEPT !.meta[target[t]] =
                          [draft[t] EXCEPT !.created = db.meta[target[t]].created]])
             ELSE UNCHANGED <<db, disk>>
          /\ mutex' = t
          /\ Goto(t, "updated")
          /\ UNCHANGED <<op, prefix, target, draft, result>>
       \/ /\ WriteMayFail /\ changes' = 0
          /\ Return(t, "error")
          /\ UNCHANGED <<db, disk, mutex>>
    /\ UNCHANGED <<open, active, bounds>>

\* NotFound when nothing changed; otherwise load() locks mutex_ a second time on the same
\* thread.  That is undefined for std::mutex: the thread blocks for ever on itself
\* (pthread mutexes) or the lock nests (MSVC's).
UpdateAnswers(t) ==
    /\ pc[t] = "updated"
    /\ \/ /\ changes = 0 /\ Return(t, "not_found")
          /\ mutex' = None
       \/ /\ changes # 0 /\ "recurses" \in RelockOutcomes
          /\ Continue(t, "reindex") /\ UNCHANGED mutex
       \/ /\ changes # 0 /\ "blocks" \in RelockOutcomes
          /\ Continue(t, "blocked") /\ UNCHANGED mutex
    /\ UNCHANGED <<store, active, bounds>>

\* The snapshot load() returned is indexed again, next to the rows it already has.
Reindex(t) ==
    /\ pc[t] = "reindex"
    /\ IF target[t] \in Rows(db)
       THEN IndexForSearch(target[t])
       ELSE UNCHANGED <<db, disk, changes>>
    /\ Return(t, "ok")
    /\ mutex' = None
    /\ UNCHANGED <<open, active, bounds>>

-----------------------------------------------------------------------------
(* restore: its store accesses.                                             *)

\* plan_restore resolves and loads the snapshot again; a dry run ends here.
PlanAndExecute(t) ==
    /\ pc[t] = "plan" /\ mutex = None
    /\ \/ target[t] \notin Rows(db) /\ Return(t, "not_found")
       \/ target[t] \in Rows(db) /\ Return(t, "ok")
       \/ target[t] \in Rows(db) /\ Continue(t, "audit")
    /\ UNCHANGED <<store, mutex, active, bounds>>

\* The audit trail goes to repository_->database() without mutex_.  The foreign key
\* makes it fail when the snapshot is gone; failures are ignored.
Audit(t) ==
    /\ pc[t] = "audit"
    /\ \/ /\ target[t] \in Rows(db)
          /\ Exec([db EXCEPT !.events = @ \cup {[thread |-> t, id |-> target[t]]}])
          /\ changes' = 1
       \/ /\ WriteMayFail \/ target[t] \notin Rows(db)
          /\ changes' = 0
          /\ UNCHANGED <<db, disk>>
    /\ Return(t, "ok")
    /\ UNCHANGED <<open, mutex, active, bounds>>

-----------------------------------------------------------------------------
(* The environment: time passes, the daemon dies and is started again.      *)

Tick ==
    /\ clock < MaxTime
    /\ clock' = clock + 1
    /\ UNCHANGED <<store, mutex, pc, job, active, result, seen, requests, crashes>>

\* Every thread is gone and SQLite's recovery drops the open transaction.
CrashRestart ==
    /\ crashes < MaxCrashes
    /\ crashes' = crashes + 1
    /\ db' = disk /\ open' = FALSE /\ changes' = 0
    /\ mutex' = None
    /\ pc' = [t \in Thread |-> "idle"]
    /\ active' = [t \in Thread |-> FALSE]
    /\ op' = [t \in Thread |-> "none"] /\ prefix' = [t \in Thread |-> {}]
    /\ target' = [t \in Thread |-> None] /\ draft' = [t \in Thread |-> None]
    /\ hit' = [t \in Thread |-> FALSE] /\ result' = [t \in Thread |-> "none"]
    /\ UNCHANGED <<disk, clock, seen, requests>>

Init ==
    /\ db = EmptyTables /\ disk = EmptyTables /\ open = FALSE /\ changes = 0
    /\ mutex = None
    /\ pc = [t \in Thread |-> "idle"]
    /\ op = [t \in Thread |-> "none"]
    /\ prefix = [t \in Thread |-> {}]
    /\ target = [t \in Thread |-> None]
    /\ draft = [t \in Thread |-> None]
    /\ active = [t \in Thread |-> FALSE]
    /\ hit = [t \in Thread |-> FALSE]
    /\ result = [t \in Thread |-> "none"]
    /\ clock = 0 /\ seen = {} /\ requests = 0 /\ crashes = 0

Start(t) == StartCapture(t) \/ StartImport(t) \/ StartOnPrefix(t) \/ StartPrune(t)

\* A step of a request that has been accepted.
Serve(t) ==
    \/ ResolveIdPrefix(t) \/ Load(t) \/ ImportCollision(t)
    \/ Begin(t) \/ InsertRow(t) \/ InsertPart(t) \/ InsertIndex(t)
    \/ Commit(t) \/ Abort(t) \/ PruneByAge(t) \/ PruneByCount(t)
    \/ Remove(t) \/ RemoveAnswers(t)
    \/ UpdateMetadata(t) \/ UpdateAnswers(t) \/ Reindex(t)
    \/ PlanAndExecute(t) \/ Audit(t)

Next ==
    \/ \E t \in Thread : Start(t) \/ Serve(t)
    \/ Tick
    \/ CrashRestart

Spec == Init /\ [][Next]_vars

\* A thread with work to do is scheduled by the operating system.
FairSpec == Spec /\ \A t \in Thread : WF_vars(Serve(t))

-----------------------------------------------------------------------------
(* Properties.                                                              *)

Labels == {"idle", "resolve", "load", "collide", "insert", "row", "parts", "index",
           "commit", "abort", "prune", "age", "trim", "prune_commit", "prune_abort",
           "remove", "removed", "update", "updated", "reindex", "blocked", "plan", "audit"}

\* The type invariant of the repository, its connection and the threads that use it.
TypeOK ==
    /\ db \in Tables /\ disk \in Tables
    /\ open \in BOOLEAN /\ changes \in Nat
    /\ mutex \in Thread \cup {None}
    /\ pc \in [Thread -> Labels]
    /\ op \in [Thread -> OpNames \cup {"none"}]
    /\ prefix \in [Thread -> SUBSET Id]
    /\ target \in [Thread -> Id \cup {None}]
    /\ draft \in [Thread -> Meta \cup {None}]
    /\ active \in [Thread -> BOOLEAN] /\ hit \in [Thread -> BOOLEAN]
    /\ result \in [Thread -> {"none", "ok", "not_found", "ambiguous", "error"}]
    /\ clock \in 0..MaxTime /\ seen \subseteq Id
    /\ requests \in Nat /\ crashes \in Nat

\* What insert's IMMEDIATE transaction is for: whatever fails and wherever the daemon
\* dies, every snapshot that a restart finds on disk has all its monitors, windows, tabs
\* and cursor (snapshot_repository.cpp, insert and ~Transaction).
NoHalfSnapshot == \A i \in Rows(disk) : disk.parts[i] = Part

\* Nothing in s refers to a snapshot that s does not hold.
OrphanFree(s) ==
    /\ \A i \in Id \ Rows(s) : s.parts[i] = {} /\ s.fts[i] = 0
    /\ \A e \in s.events : e.id \in Rows(s)

\* The cascades and the search trigger leave nothing of a snapshot that is gone: no child
\* row, no search hit, no audit event refers to a missing snapshot, on disk or in the
\* connection's view (migrations.cpp, the foreign keys and trg_snapshots_delete_search).
NoOrphans == OrphanFree(db) /\ OrphanFree(disk)

\* A request that reads while nobody holds mutex_ reads committed data only: no load,
\* list or search answers with rows a later rollback takes away.
ReadsCommitted == mutex = None => ~open /\ db = disk

\* The repository implements the abstract snapshot store: seen from disk, snapshots come,
\* change and go whole, and pruning never takes a favourite.
Stored(s) == [i \in Id |-> IF s.meta[i] = None THEN None
                           ELSE IF s.parts[i] = Part THEN s.meta[i]
                           ELSE "half"]

Abstract == INSTANCE SnapshotStore WITH store <- Stored(disk)

ImplementsStore == Abstract!Spec

\* insert answers success only for a snapshot that is whole on disk, even when BEGIN or
\* any write fails on the way (snapshot_repository.cpp:116, commit on an inactive
\* transaction is an error).
SuccessMeansStored ==
    [][\A t \in Thread :
          /\ pc[t] = "commit"
          /\ pc'[t] = "prune" \/ (pc'[t] = "idle" /\ result'[t] = "ok")
          => target[t] \in Rows(disk') /\ disk'.parts[target[t]] = Part]_vars

\* The count that remove and update_metadata read from sqlite3_changes() is the count of
\* their own statement, so their NotFound or success is true.
ChangesAreMine ==
    \A t \in Thread : pc[t] \in {"removed", "updated"} => (changes # 0 <=> hit[t])

\* A metadata edit changes the field the client asked for and no other: the favourite
\* flag of a stored snapshot changes only by a favourite request (and so with its name).
EditsKeepOtherFields ==
    [][\A i \in Rows(disk) \cap Rows(disk') :
          /\ disk.meta[i].favorite # disk'.meta[i].favorite
             => \E t \in Thread : pc[t] = "update" /\ pc'[t] = "updated"
                                  /\ op[t] = "favorite" /\ target[t] = i
          /\ disk.meta[i].name # disk'.meta[i].name
             => \E t \in Thread : pc[t] = "update" /\ pc'[t] = "updated"
                                  /\ op[t] = "rename" /\ target[t] = i]_vars

\* A recorded restore event leaves the connection's tables only with its snapshot.
AuditTrailKept ==
    [][\A e \in db.events : e \notin db'.events => e.id \notin Rows(db')]_vars

\* A capture is never lost to the pruning it runs itself.
CaptureNotPruned ==
    [][\A t \in Thread :
          op[t] = "capture" /\ pc[t] \in {"age", "trim"} /\ target[t] \in Rows(db)
          => target[t] \in Rows(db')]_vars

\* An import whose id collides with a stored snapshot gets a fresh id: the INSERT never
\* meets a row with its own id.
ImportGetsFreeId ==
    \A t \in Thread : op[t] = "import" /\ pc[t] = "row" => target[t] \notin Rows(db)

\* Every request that is accepted is answered (or dies with the daemon): no operation of
\* the repository waits for ever.
RequestsFinish == \A t \in Thread : pc[t] # "idle" ~> pc[t] = "idle"
-----------------------------------------------------------------------------
(* The inductive invariant behind the proofs.                               *)

\* Inside a Transaction, and in any section guarded by mutex_.
InTransaction == {"row", "parts", "index", "commit", "abort",
                  "age", "trim", "prune_commit", "prune_abort"}
Critical == InTransaction \cup {"removed", "updated", "reindex", "blocked"}

\* mutex_ excludes: its owner is the one thread in a guarded section, the open
\* transaction is the owner's, and without one the connection sees what is on disk.
LockInv ==
    /\ \A t \in Thread : pc[t] \in Critical <=> mutex = t
    /\ \A t \in Thread : active[t] => pc[t] \in InTransaction
    /\ open => \E t \in Thread : active[t]
    /\ \A t \in Thread : active[t] => open
    /\ ~open => db = disk

\* A thread knows the id and the metadata it is about to use.
JobInv ==
    \A t \in Thread :
        /\ pc[t] \in {"load", "collide", "insert", "row", "parts", "index", "commit", "remove",
                      "removed", "update", "updated", "reindex", "blocked", "plan", "audit"}
           => target[t] \in Id
        /\ pc[t] \in {"collide", "insert", "row", "parts", "index", "commit", "update"}
           => draft[t] \in Meta

\* An insert past its first statement has its row in the connection's tables, and past
\* its last child row the whole snapshot: nobody else deletes it meanwhile.
RowInv ==
    \A t \in Thread :
        /\ pc[t] \in {"parts", "index", "commit"} => target[t] \in Rows(db)
        /\ pc[t] \in {"index", "commit"} => db.parts[target[t]] = Part

\* Snapshot i is the same in the tables r and s.
SameIn(r, s, i) == r.meta[i] = s.meta[i] /\ r.parts[i] = s.parts[i]

\* What an open transaction has done so far: an insert has added its own snapshot and
\* nothing else, a prune has removed some snapshots that are not favourites.
TxnInv ==
    \A t \in Thread : active[t] =>
        /\ pc[t] \in {"row", "age"} => \A i \in Id : SameIn(db, disk, i)
        /\ pc[t] \in {"parts", "index", "commit"} =>
              /\ disk.meta[target[t]] = None
              /\ db.meta[target[t]] = draft[t]
              /\ \A i \in Id \ {target[t]} : SameIn(db, disk, i)
        /\ pc[t] \in {"trim", "prune_commit"} =>
              \A i \in Id : \/ SameIn(db, disk, i)
                            \/ i \in Unstarred(disk) /\ db.meta[i] = None

\* Where a thread is tells which of its operations it serves.
OpInv ==
    \A t \in Thread :
        /\ op[t] \in Ops[t] \cup {"none"}
        /\ pc[t] \in {"insert", "row", "parts", "index", "commit", "abort"}
           => op[t] \in {"capture", "import"}
        /\ pc[t] = "collide" => op[t] = "import"
        /\ pc[t] = "resolve"
           => op[t] \in {"get", "delete", "rename", "tag", "favorite", "restore"}
        /\ pc[t] = "load" => op[t] \in {"get", "rename", "tag", "favorite", "restore"}
        /\ pc[t] \in {"remove", "removed"} => op[t] = "delete"
        /\ pc[t] \in {"update", "updated", "reindex", "blocked"}
           => op[t] \in {"rename", "tag", "favorite"}
        /\ pc[t] \in {"plan", "audit"} => op[t] = "restore"

\* Without imports ids are only minted: every stored or working id has been seen, and the
\* id of a capture that has not inserted yet is its own.
IdInv ==
    /\ Rows(db) \cup Rows(disk) \subseteq seen
    /\ \A t \in Thread :
          /\ target[t] \in seen \cup {None}
          /\ op[t] = "capture" /\ pc[t] \in {"insert", "row"} =>
                /\ target[t] \notin Rows(db) \cup Rows(disk)
                /\ \A u \in Thread \ {t} : target[u] # target[t]

\* What an edit will write agrees with the row of its snapshot in s, but for the one field
\* of the request.
DraftOf(t, s) ==
    target[t] \in Rows(s) =>
        /\ op[t] # "favorite" => draft[t].favorite = s.meta[target[t]].favorite
        /\ op[t] # "rename" => draft[t].name = s.meta[target[t]].name

\* While one client edits and nothing is imported, that stays so until it is written.
EditInv == \A t \in Thread : pc[t] = "update" => DraftOf(t, db) /\ DraftOf(t, disk)

\* Without failed BEGINs every guarded section of insert and prune is a transaction.
BeginInv == \A t \in Thread : pc[t] \in InTransaction => active[t]

=============================================================================
