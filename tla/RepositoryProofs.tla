------------------------- MODULE RepositoryProofs -------------------------
(***************************************************************************)
(* Proofs about Repository, for every set of threads and ids and every     *)
(* value of the other constants.                                           *)
(***************************************************************************)
EXTENDS Repository, FiniteSetTheorems, TLAPS

-----------------------------------------------------------------------------
(* The tables after one statement.                                          *)

\* An INSERT or UPDATE of one snapshot row touches only the metadata of that id.
LEMMA MetaWrite ==
    ASSUME NEW s \in Tables, NEW i \in Id, NEW m \in Meta \cup {None}
    PROVE  LET n == [s EXCEPT !.meta[i] = m] IN
           /\ n \in Tables
           /\ n.meta = [s.meta EXCEPT ![i] = m]
           /\ n.parts = s.parts /\ n.fts = s.fts /\ n.events = s.events
  BY DEF Tables

\* Writing a child row touches only the parts of that id.
LEMMA PartsWrite ==
    ASSUME NEW s \in Tables, NEW i \in Id, NEW P \in SUBSET Part
    PROVE  LET n == [s EXCEPT !.parts[i] = P] IN
           /\ n \in Tables
           /\ n.parts = [s.parts EXCEPT ![i] = P]
           /\ n.meta = s.meta /\ n.fts = s.fts /\ n.events = s.events
  BY DEF Tables

\* index_for_search touches only the index of that id.
LEMMA IndexWrite ==
    ASSUME NEW s \in Tables, NEW i \in Id
    PROVE  LET n == [s EXCEPT !.fts[i] = @ + 1] IN
           /\ n \in Tables
           /\ n.fts = [s.fts EXCEPT ![i] = s.fts[i] + 1]
           /\ n.meta = s.meta /\ n.parts = s.parts /\ n.events = s.events
  BY DEF Tables

\* The audit INSERT touches only restore_events.
LEMMA EventWrite ==
    ASSUME NEW s \in Tables, NEW e \in Event
    PROVE  LET n == [s EXCEPT !.events = @ \cup {e}] IN
           /\ n \in Tables
           /\ n.events = s.events \cup {e}
           /\ n.meta = s.meta /\ n.parts = s.parts /\ n.fts = s.fts
  BY DEF Tables

\* A DELETE with its cascades and triggers yields tables, and removes exactly D.
LEMMA DeleteWrite ==
    ASSUME NEW s \in Tables, NEW D
    PROVE  /\ Without(s, D) \in Tables
           /\ Rows(Without(s, D)) = Rows(s) \ D
  BY DEF Tables, Without, Rows
\* A statement of the connection keeps both views well-formed.
LEMMA ExecType ==
    ASSUME TypeOK, NEW s \in Tables, Exec(s)
    PROVE  db' \in Tables /\ disk' \in Tables
  BY DEF TypeOK, Exec

\* Outside a transaction a statement is committed at once.
LEMMA AutoCommit ==
    ASSUME NEW s, Exec(s)
    PROVE  ~open => db' = disk'
  BY DEF Exec

-----------------------------------------------------------------------------
(* Type correctness.                                                        *)

\* Every step keeps the types, given that a thread knows the id and the metadata it is
\* about to use.
LEMMA TypeStep ==
    ASSUME TypeOK, JobInv, [Next]_vars
    PROVE  TypeOK' /\ JobInv'
  <1> USE RepositoryAssumption
  <1> USE DEF Goto, Continue, Return, Fails, Accept, store, job, bounds, Labels
  <1>0. ASSUME NEW t \in Thread, NEW r \in {"none", "ok", "not_found", "ambiguous", "error"},
               Return(t, r), db' \in Tables, disk' \in Tables, open' \in BOOLEAN,
               changes' \in Nat, mutex' \in Thread \cup {None},
               active' \in [Thread -> BOOLEAN], UNCHANGED bounds
        PROVE  TypeOK' /\ JobInv'
    <2>1. TypeOK'
      BY <1>0 DEF TypeOK
    <2>2. JobInv'
      BY <1>0 DEF TypeOK, JobInv
    <2> QED
      BY <2>1, <2>2
  <1>1. ASSUME NEW t \in Thread, StartCapture(t) PROVE TypeOK' /\ JobInv'
    BY <1>1 DEF StartCapture, TypeOK, JobInv, OpNames, Meta
  <1>2. ASSUME NEW t \in Thread, StartImport(t) PROVE TypeOK' /\ JobInv'
    BY <1>2 DEF StartImport, TypeOK, JobInv, OpNames
  <1>3. ASSUME NEW t \in Thread, StartOnPrefix(t) PROVE TypeOK' /\ JobInv'
    BY <1>3 DEF StartOnPrefix, TypeOK, JobInv, OpNames
  <1>4. ASSUME NEW t \in Thread, StartPrune(t) PROVE TypeOK' /\ JobInv'
    BY <1>4 DEF StartPrune, TypeOK, JobInv, OpNames
  <1>5. ASSUME NEW t \in Thread, ResolveIdPrefix(t) PROVE TypeOK' /\ JobInv'
    <2> USE <1>5 DEF ResolveIdPrefix
    <2>1. CASE Return(t, "not_found")
      BY <2>1 DEF TypeOK, JobInv
    <2>2. CASE Return(t, "ambiguous")
      BY <2>2 DEF TypeOK, JobInv
    <2>3. ASSUME NEW i \in prefix[t] \cap Rows(db),
                 target' = [target EXCEPT ![t] = i],
                 Goto(t, IF op[t] = "delete" THEN "remove" ELSE "load"),
                 UNCHANGED <<op, prefix, draft, hit, result>>
          PROVE  TypeOK' /\ JobInv'
      BY <2>3 DEF TypeOK, JobInv, Rows
    <2> QED
      BY <2>1, <2>2, <2>3
  <1>6. ASSUME NEW t \in Thread, Load(t) PROVE TypeOK' /\ JobInv'
    <2> USE <1>6 DEF Load
    <2>1. CASE Return(t, "not_found") \/ Return(t, "ok")
      BY <1>0, <2>1 DEF TypeOK
    <2>2. CASE Continue(t, "plan")
      BY <2>2 DEF TypeOK, JobInv
    <2>3. ASSUME NEW m \in Edits(op[t], db.meta[target[t]]), db.meta[target[t]] # None,
                 draft' = [draft EXCEPT ![t] = m], Goto(t, "update"),
                 UNCHANGED <<op, prefix, target, hit, result>>
          PROVE  TypeOK' /\ JobInv'
      <3>1. target[t] \in Id
        BY <1>6 DEF JobInv, TypeOK
      <3>2. db.meta[target[t]] \in Meta
        BY <2>3, <3>1 DEF TypeOK, Tables
      <3>3. m \in Meta
        BY <2>3, <3>2 DEF Edits, Meta
      <3> QED
        BY <2>3, <3>1, <3>3 DEF TypeOK, JobInv
    <2> QED
      BY <2>1, <2>2, <2>3
  <1>7. ASSUME NEW t \in Thread, ImportCollision(t) PROVE TypeOK' /\ JobInv'
    BY <1>7 DEF ImportCollision, TypeOK, JobInv
  <1>8. ASSUME NEW t \in Thread, Begin(t) PROVE TypeOK' /\ JobInv'
    BY <1>8, ZenonT(60) DEF Begin, TypeOK, JobInv
  <1>9. ASSUME NEW t \in Thread, InsertRow(t) PROVE TypeOK' /\ JobInv'
    <2>1. target[t] \in Id /\ draft[t] \in Meta
      BY <1>9 DEF InsertRow, JobInv, TypeOK
    <2>2. db' \in Tables /\ disk' \in Tables
      <3>1. CASE Exec([db EXCEPT !.meta[target[t]] = draft[t]])
        BY <2>1, <3>1, MetaWrite, ExecType DEF TypeOK
      <3> QED
        BY <1>9, <3>1 DEF InsertRow, TypeOK
    <2> QED
      BY <1>9, <2>1, <2>2 DEF InsertRow, TypeOK, JobInv
  <1>10. ASSUME NEW t \in Thread, InsertPart(t) PROVE TypeOK' /\ JobInv'
    <2> DEFINE done == db.parts[target[t]] \cup NextParts(db.parts[target[t]])
    <2>1. target[t] \in Id
      BY <1>10 DEF InsertPart, JobInv, TypeOK
    <2>2. done \in SUBSET Part
      BY <2>1 DEF TypeOK, Tables, NextParts, Part
    <2>3. db' \in Tables /\ disk' \in Tables
      <3>1. CASE Exec([db EXCEPT !.parts[target[t]] = done])
        <4> HIDE DEF done
        <4> QED BY <2>1, <2>2, <3>1, PartsWrite, ExecType DEF TypeOK
      <3> QED
        BY <1>10, <3>1 DEF InsertPart, TypeOK
    <2> QED
      BY <1>10, <2>1, <2>3 DEF InsertPart, TypeOK, JobInv
  <1>11. ASSUME NEW t \in Thread, NEW i \in Id, IndexForSearch(i)
         PROVE  db' \in Tables /\ disk' \in Tables /\ changes' \in Nat
    <2>1. CASE Exec([db EXCEPT !.fts[i] = @ + 1]) /\ changes' = 1
      BY <2>1, IndexWrite, ExecType DEF TypeOK
    <2> QED
      BY <1>11, <2>1 DEF IndexForSearch, TypeOK
  <1>12. ASSUME NEW t \in Thread, InsertIndex(t) PROVE TypeOK' /\ JobInv'
    <2>1. target[t] \in Id
      BY <1>12 DEF InsertIndex, JobInv, TypeOK
    <2> QED
      BY <1>11, <1>12, <2>1 DEF InsertIndex, TypeOK, JobInv
  <1>13. ASSUME NEW t \in Thread, NEW ok \in BOOLEAN, EndOfTransaction(t, ok),
                db' \in Tables, disk' \in Tables, open' \in BOOLEAN
         PROVE  TypeOK' /\ JobInv'
    <2>1. mutex' = None /\ active' \in [Thread -> BOOLEAN] /\ UNCHANGED <<changes, bounds>>
      BY <1>13 DEF EndOfTransaction, TypeOK
    <2>2. CASE Continue(t, "prune")
      BY <1>13, <2>1, <2>2 DEF TypeOK, JobInv
    <2>3. CASE Return(t, "ok") \/ Return(t, "error")
      BY <1>0, <1>13, <2>1, <2>3 DEF TypeOK
    <2> QED
      BY <1>13, <2>2, <2>3 DEF EndOfTransaction
  <1>14. ASSUME NEW t \in Thread, Commit(t) \/ Abort(t) PROVE TypeOK' /\ JobInv'
    <2>1. db' \in Tables /\ disk' \in Tables /\ open' \in BOOLEAN
      BY <1>14 DEF Commit, Abort, RollBack, TypeOK
    <2>2. EndOfTransaction(t, TRUE) \/ EndOfTransaction(t, FALSE)
      BY <1>14 DEF Commit, Abort
    <2> QED
      BY <1>13, <2>1, <2>2
  <1>15. ASSUME NEW t \in Thread, NEW D \in SUBSET Id, NEW l \in {"trim", "prune_commit"},
                PruneWith(t, D, l)
         PROVE  TypeOK' /\ JobInv'
    <2>1. Cardinality(D) \in Nat
      BY FS_CardinalityType, FS_Subset
    <2>2. db' \in Tables /\ disk' \in Tables /\ changes' \in Nat
      <3>1. CASE Exec(Without(db, D)) /\ changes' = Cardinality(D)
        BY <2>1, <3>1, DeleteWrite, ExecType DEF TypeOK
      <3> QED
        BY <1>15, <3>1 DEF PruneWith, TypeOK
    <2> QED
      BY <1>15, <2>2 DEF PruneWith, TypeOK, JobInv
  <1>16. ASSUME NEW t \in Thread, PruneByAge(t) PROVE TypeOK' /\ JobInv'
    <2>1. CASE RetentionDays = 0
      BY <1>16, <2>1 DEF PruneByAge, TypeOK, JobInv
    <2>2. Expired(db) \in SUBSET Id
      BY DEF Expired, Unstarred, Rows
    <2> QED
      BY <1>15, <1>16, <2>1, <2>2 DEF PruneByAge
  <1>17. ASSUME NEW t \in Thread, PruneByCount(t) PROVE TypeOK' /\ JobInv'
    <2>1. CASE MaxSnapshots = 0
      BY <1>17, <2>1 DEF PruneByCount, TypeOK, JobInv
    <2>2. \A D \in Excess(db) : D \in SUBSET Id
      BY DEF Excess, Unstarred, Rows
    <2> QED
      BY <1>15, <1>17, <2>1, <2>2 DEF PruneByCount
  <1>18. ASSUME NEW t \in Thread, Remove(t) PROVE TypeOK' /\ JobInv'
    <2>1. db' \in Tables /\ disk' \in Tables
      <3>1. CASE Exec(Without(db, {target[t]}))
        BY <3>1, DeleteWrite, ExecType DEF TypeOK
      <3> QED
        BY <1>18, <3>1 DEF Remove, TypeOK
    <2>2. /\ pc[t] = "remove" /\ changes' \in Nat /\ mutex' \in Thread \cup {None}
          /\ UNCHANGED <<open, active, bounds>>
      BY <1>18 DEF Remove, TypeOK
    <2>3. CASE Return(t, "error")
      BY <1>0, <2>1, <2>2, <2>3 DEF TypeOK
    <2>4. CASE /\ Goto(t, "removed") /\ UNCHANGED <<op, prefix, target, draft, result>>
               /\ hit' = [hit EXCEPT ![t] = target[t] \in Rows(db)]
      <3>1. hit' \in [Thread -> BOOLEAN]
        BY <2>4 DEF TypeOK
      <3> QED
        BY <2>1, <2>2, <2>4, <3>1 DEF TypeOK, JobInv
    <2> QED
      BY <1>18, <2>3, <2>4 DEF Remove
  <1>19. ASSUME NEW t \in Thread, RemoveAnswers(t) \/ UpdateAnswers(t) PROVE TypeOK' /\ JobInv'
    <2>1. CASE RemoveAnswers(t)
      BY <1>0, <2>1 DEF RemoveAnswers, TypeOK
    <2>2. CASE UpdateAnswers(t) /\ Return(t, "not_found")
      BY <1>0, <2>2, ZenonT(60) DEF UpdateAnswers, TypeOK
    <2>3. CASE UpdateAnswers(t) /\ (Continue(t, "reindex") \/ Continue(t, "blocked"))
      BY <2>3 DEF UpdateAnswers, TypeOK, JobInv
    <2> QED
      BY <1>19, <2>1, <2>2, <2>3 DEF UpdateAnswers
  <1>20. ASSUME NEW t \in Thread, UpdateMetadata(t) PROVE TypeOK' /\ JobInv'
    <2> DEFINE m == [draft[t] EXCEPT !.created = db.meta[target[t]].created]
    <2>1. db' \in Tables /\ disk' \in Tables
      <3>1. CASE target[t] \in Rows(db) /\ Exec([db EXCEPT !.meta[target[t]] = m])
        <4>1. target[t] \in Id /\ db.meta[target[t]] \in Meta /\ draft[t] \in Meta
          BY <1>20, <3>1 DEF UpdateMetadata, Rows, JobInv, TypeOK, Tables
        <4>2. m \in Meta
          BY <4>1 DEF Meta
        <4> HIDE DEF m
        <4> QED BY <3>1, <4>1, <4>2, MetaWrite, ExecType DEF TypeOK
      <3> QED
        BY <1>20, <3>1 DEF UpdateMetadata, TypeOK
    <2>2. /\ pc[t] = "update" /\ changes' \in Nat /\ mutex' \in Thread \cup {None}
          /\ UNCHANGED <<open, active, bounds>>
      BY <1>20 DEF UpdateMetadata, TypeOK
    <2>3. CASE Return(t, "error")
      BY <1>0, <2>1, <2>2, <2>3 DEF TypeOK
    <2>4. CASE /\ Goto(t, "updated") /\ UNCHANGED <<op, prefix, target, draft, result>>
               /\ hit' = [hit EXCEPT ![t] = target[t] \in Rows(db)]
      <3>1. hit' \in [Thread -> BOOLEAN]
        BY <2>4 DEF TypeOK
      <3> QED
        BY <2>1, <2>2, <2>4, <3>1 DEF TypeOK, JobInv
    <2> QED
      BY <1>20, <2>3, <2>4 DEF UpdateMetadata
  <1>21. ASSUME NEW t \in Thread, Reindex(t) PROVE TypeOK' /\ JobInv'
    <2>1. target[t] \in Id
      BY <1>21 DEF Reindex, JobInv, TypeOK
    <2>2. db' \in Tables /\ disk' \in Tables /\ changes' \in Nat
      BY <1>11, <1>21, <2>1 DEF Reindex, TypeOK
    <2> QED
      BY <1>21, <2>2 DEF Reindex, TypeOK, JobInv
  <1>22. ASSUME NEW t \in Thread, PlanAndExecute(t) PROVE TypeOK' /\ JobInv'
    <2>1. CASE Return(t, "not_found") \/ Return(t, "ok")
      BY <1>0, <1>22, <2>1 DEF PlanAndExecute, TypeOK
    <2>2. CASE Continue(t, "audit")
      BY <1>22, <2>2 DEF PlanAndExecute, TypeOK, JobInv
    <2> QED
      BY <1>22, <2>1, <2>2 DEF PlanAndExecute
  <1>23. ASSUME NEW t \in Thread, Audit(t) PROVE TypeOK' /\ JobInv'
    <2> DEFINE e == [thread |-> t, id |-> target[t]]
    <2>1. db' \in Tables /\ disk' \in Tables
      <3>1. CASE target[t] \in Rows(db) /\ Exec([db EXCEPT !.events = @ \cup {e}])
        <4>1. e \in Event
          BY <3>1 DEF Event, Rows
        <4> HIDE DEF e
        <4> QED BY <3>1, <4>1, EventWrite, ExecType DEF TypeOK
      <3> QED
        BY <1>23, <3>1 DEF Audit, TypeOK
    <2> QED
      BY <1>23, <2>1 DEF Audit, TypeOK, JobInv
  <1>24. CASE Tick
    BY <1>24 DEF Tick, TypeOK, JobInv
  <1>25. CASE CrashRestart
    <2>1. TypeOK'
      <3>1. db' \in Tables /\ disk' \in Tables
        BY <1>25 DEF CrashRestart, TypeOK
      <3>4. open' \in BOOLEAN
        BY <1>25 DEF CrashRestart
      <3>5. crashes' \in Nat
        BY <1>25 DEF CrashRestart, TypeOK
      <3>2. active' \in [Thread -> BOOLEAN] /\ hit' \in [Thread -> BOOLEAN]
        BY <1>25 DEF CrashRestart
      <3>3. pc' \in [Thread -> Labels] /\ op' \in [Thread -> OpNames \cup {"none"}]
        BY <1>25 DEF CrashRestart
      <3> QED
        BY <1>25, <3>1, <3>2, <3>3, <3>4, <3>5 DEF CrashRestart, TypeOK
    <2>2. JobInv'
      BY <1>25 DEF CrashRestart, JobInv
    <2> QED
      BY <2>1, <2>2
  <1>26. CASE UNCHANGED vars
    BY <1>26 DEF vars, TypeOK, JobInv
  <1> QED
    BY <1>1, <1>2, <1>3, <1>4, <1>5, <1>6, <1>7, <1>8, <1>9, <1>10, <1>12, <1>14, <1>16,
       <1>17, <1>18, <1>19, <1>20, <1>21, <1>22, <1>23, <1>24, <1>25, <1>26
       DEF Next, Start, Serve
\* The empty repository of a first start.
LEMMA TypeInit == Init => TypeOK /\ JobInv
  <1> SUFFICES ASSUME Init PROVE TypeOK /\ JobInv
    OBVIOUS
  <1> USE RepositoryAssumption
  <1>1. EmptyTables \in Tables
    BY DEF EmptyTables, Tables
  <1>2. active \in [Thread -> BOOLEAN] /\ hit \in [Thread -> BOOLEAN] /\ open \in BOOLEAN
    BY DEF Init
  <1>3. pc \in [Thread -> Labels] /\ op \in [Thread -> OpNames \cup {"none"}]
    BY DEF Init, Labels
  <1>4. TypeOK
    BY <1>1, <1>2, <1>3 DEF Init, TypeOK
  <1>5. JobInv
    BY DEF Init, JobInv
  <1> QED
    BY <1>4, <1>5

\* Type correctness: whatever the threads do, the tables, the mutex and the locals of the
\* requests stay of their types (the code's own types, and rows only under ids).
THEOREM TypeCorrect == Spec => []TypeOK
  <1>1. Init => TypeOK /\ JobInv
    BY TypeInit
  <1>2. TypeOK /\ JobInv /\ [Next]_vars => (TypeOK /\ JobInv)'
    BY TypeStep
  <1> QED
    BY <1>1, <1>2, PTL DEF Spec
-----------------------------------------------------------------------------
(* Mutual exclusion and isolation.                                          *)

\* Every step keeps the lock discipline, whether or not BEGIN and the writes succeed.
LEMMA LockStep ==
    ASSUME TypeOK, LockInv, [Next]_vars
    PROVE  LockInv'
  <1> USE RepositoryAssumption
  <1> USE DEF Goto, Continue, Return, Fails, Accept, store, job, bounds, Labels, Critical,
          InTransaction
  <1>1. ASSUME NEW t \in Thread, Start(t) PROVE LockInv'
    BY <1>1 DEF Start, StartCapture, StartImport, StartOnPrefix, StartPrune, TypeOK, LockInv
  <1>2. ASSUME NEW t \in Thread, ResolveIdPrefix(t) PROVE LockInv'
    BY <1>2 DEF ResolveIdPrefix, TypeOK, LockInv
  <1>3. ASSUME NEW t \in Thread, Load(t) \/ ImportCollision(t) PROVE LockInv'
    BY <1>3 DEF Load, ImportCollision, TypeOK, LockInv
  <1>4. ASSUME NEW t \in Thread, Begin(t) PROVE LockInv'
    BY <1>4 DEF Begin, TypeOK, LockInv
  <1>5. ASSUME NEW t \in Thread, InsertRow(t) PROVE LockInv'
    BY <1>5 DEF InsertRow, Exec, TypeOK, LockInv
  <1>6. ASSUME NEW t \in Thread, InsertPart(t) PROVE LockInv'
    <2>1. ~open => db' = disk'
      <3> DEFINE done == db.parts[target[t]] \cup NextParts(db.parts[target[t]])
      <3>1. CASE Exec([db EXCEPT !.parts[target[t]] = done])
        BY <3>1, AutoCommit
      <3> QED
        BY <1>6, <3>1 DEF InsertPart, LockInv
    <2>2. /\ pc[t] = "parts" /\ UNCHANGED <<open, mutex, active>>
          /\ Goto(t, "index") \/ Goto(t, "parts") \/ Goto(t, "abort")
      BY <1>6 DEF InsertPart
    <2> QED
      BY <2>1, <2>2 DEF TypeOK, LockInv
  <1>7. ASSUME NEW t \in Thread, InsertIndex(t) PROVE LockInv'
    BY <1>7 DEF InsertIndex, IndexForSearch, Exec, TypeOK, LockInv
  <1>8. ASSUME NEW t \in Thread, Commit(t) PROVE LockInv'
    BY <1>8 DEF Commit, EndOfTransaction, RollBack, TypeOK, LockInv
  <1>9. ASSUME NEW t \in Thread, Abort(t) PROVE LockInv'
    BY <1>9 DEF Abort, EndOfTransaction, RollBack, TypeOK, LockInv
  <1>10. ASSUME NEW t \in Thread, PruneByAge(t) PROVE LockInv'
    BY <1>10 DEF PruneByAge, PruneWith, Exec, TypeOK, LockInv
  <1>11. ASSUME NEW t \in Thread, PruneByCount(t) PROVE LockInv'
    BY <1>11 DEF PruneByCount, PruneWith, Exec, TypeOK, LockInv
  <1>12. ASSUME NEW t \in Thread, Remove(t) PROVE LockInv'
    BY <1>12 DEF Remove, Exec, TypeOK, LockInv
  <1>13. ASSUME NEW t \in Thread, RemoveAnswers(t) \/ UpdateAnswers(t) PROVE LockInv'
    BY <1>13 DEF RemoveAnswers, UpdateAnswers, TypeOK, LockInv
  <1>14. ASSUME NEW t \in Thread, UpdateMetadata(t) PROVE LockInv'
    BY <1>14 DEF UpdateMetadata, Exec, TypeOK, LockInv
  <1>15. ASSUME NEW t \in Thread, Reindex(t) PROVE LockInv'
    BY <1>15 DEF Reindex, IndexForSearch, Exec, TypeOK, LockInv
  <1>16. ASSUME NEW t \in Thread, PlanAndExecute(t) PROVE LockInv'
    BY <1>16 DEF PlanAndExecute, TypeOK, LockInv
  <1>17. ASSUME NEW t \in Thread, Audit(t) PROVE LockInv'
    <2>1. ~open => db' = disk'
      <3>1. CASE Exec([db EXCEPT !.events = @ \cup {[thread |-> t, id |-> target[t]]}])
        BY <3>1, AutoCommit
      <3> QED
        BY <1>17, <3>1 DEF Audit, LockInv
    <2>2. pc[t] = "audit" /\ Return(t, "ok") /\ UNCHANGED <<open, mutex, active>>
      BY <1>17 DEF Audit
    <2> QED
      BY <2>1, <2>2 DEF TypeOK, LockInv
  <1>18. CASE Tick
    BY <1>18 DEF Tick, LockInv
  <1>19. CASE CrashRestart
    BY <1>19 DEF CrashRestart, LockInv
  <1>20. CASE UNCHANGED vars
    BY <1>20 DEF vars, LockInv
  <1> QED
    BY <1>1, <1>2, <1>3, <1>4, <1>5, <1>6, <1>7, <1>8, <1>9, <1>10, <1>11, <1>12, <1>13,
       <1>14, <1>15, <1>16, <1>17, <1>18, <1>19, <1>20 DEF Next, Serve
\* The threads, the mutex and the transaction, put together.
Consistent == TypeOK /\ JobInv /\ LockInv

\* The lock discipline holds in every behaviour.
LEMMA Consistency == Spec => []Consistent
  <1>1. Init => Consistent
    <2> SUFFICES ASSUME Init PROVE LockInv
      BY TypeInit DEF Consistent
    <2> QED
      BY RepositoryAssumption DEF Init, LockInv, Critical, InTransaction
  <1>2. Consistent /\ [Next]_vars => Consistent'
    BY TypeStep, LockStep DEF Consistent
  <1> QED
    BY <1>1, <1>2, PTL DEF Spec

\* Reads see committed data only: whenever mutex_ is free no transaction is open and the
\* connection's tables are the ones on disk, so no request can answer with rows that a
\* rollback takes away, even when BEGIN, a write or COMMIT failed before.
THEOREM ReadsAreCommitted == Spec => []ReadsCommitted
  <1>1. Consistent => ReadsCommitted
    BY RepositoryAssumption DEF Consistent, TypeOK, LockInv, ReadsCommitted, Critical
  <1> QED
    BY <1>1, Consistency, PTL
-----------------------------------------------------------------------------
(* No orphans, and what an open transaction holds.                          *)

\* A statement ends up in the connection's tables, and on disk at once or not yet.
LEMMA ExecDisk ==
    ASSUME NEW s, Exec(s)
    PROVE  /\ db' = s
           /\ disk' = disk \/ disk' = db'
           /\ open => disk' = disk
  BY DEF Exec

\* Writing a snapshot row leaves no orphan.
LEMMA OrphanMeta ==
    ASSUME NEW s \in Tables, NEW i \in Id, NEW m \in Meta, OrphanFree(s)
    PROVE  OrphanFree([s EXCEPT !.meta[i] = m])
  <1> DEFINE n == [s EXCEPT !.meta[i] = m]
  <1>1. n.meta = [s.meta EXCEPT ![i] = m] /\ n.parts = s.parts /\ n.fts = s.fts
        /\ n.events = s.events
    BY MetaWrite
  <1>2. Rows(n) = Rows(s) \cup {i}
    BY <1>1, RepositoryAssumption DEF Rows, Tables
  <1> QED
    BY <1>1, <1>2 DEF OrphanFree

\* Child rows of a stored snapshot are no orphans.
LEMMA OrphanParts ==
    ASSUME NEW s \in Tables, NEW i \in Rows(s), NEW P \in SUBSET Part, OrphanFree(s)
    PROVE  OrphanFree([s EXCEPT !.parts[i] = P])
  <1> DEFINE n == [s EXCEPT !.parts[i] = P]
  <1>0. i \in Id
    BY DEF Rows
  <1>1. n.parts = [s.parts EXCEPT ![i] = P] /\ n.meta = s.meta /\ n.fts = s.fts
        /\ n.events = s.events
    BY <1>0, PartsWrite
  <1>2. Rows(n) = Rows(s)
    BY <1>1 DEF Rows
  <1> QED
    BY <1>0, <1>1, <1>2 DEF OrphanFree, Tables

\* Neither are its index rows.
LEMMA OrphanIndex ==
    ASSUME NEW s \in Tables, NEW i \in Rows(s), OrphanFree(s)
    PROVE  OrphanFree([s EXCEPT !.fts[i] = @ + 1])
  <1> DEFINE n == [s EXCEPT !.fts[i] = @ + 1]
  <1>0. i \in Id
    BY DEF Rows
  <1>1. n.fts = [s.fts EXCEPT ![i] = s.fts[i] + 1] /\ n.meta = s.meta /\ n.parts = s.parts
        /\ n.events = s.events
    BY <1>0, IndexWrite
  <1>2. Rows(n) = Rows(s)
    BY <1>1 DEF Rows
  <1> QED
    BY <1>0, <1>1, <1>2 DEF OrphanFree, Tables

\* Neither is a restore event of a stored snapshot.
LEMMA OrphanEvent ==
    ASSUME NEW s \in Tables, NEW e \in Event, e.id \in Rows(s), OrphanFree(s)
    PROVE  OrphanFree([s EXCEPT !.events = @ \cup {e}])
  <1> DEFINE n == [s EXCEPT !.events = @ \cup {e}]
  <1>1. n.events = s.events \cup {e} /\ n.meta = s.meta /\ n.parts = s.parts /\ n.fts = s.fts
    BY EventWrite
  <1>2. Rows(n) = Rows(s)
    BY <1>1 DEF Rows
  <1> QED
    BY <1>1, <1>2 DEF OrphanFree

\* The cascades and the trigger remove everything that refers to a deleted snapshot.
LEMMA OrphanDelete ==
    ASSUME NEW s \in Tables, NEW D, OrphanFree(s)
    PROVE  OrphanFree(Without(s, D))
  <1>1. Rows(Without(s, D)) = Rows(s) \ D
    BY DeleteWrite
  <1> QED
    BY <1>1 DEF OrphanFree, Without, Tables
\* What the tables hold while the threads work on them.
StoreInv == NoOrphans /\ RowInv /\ TxnInv

\* The labels StoreInv speaks about.
Tracked == {"row", "age", "parts", "index", "commit", "trim", "prune_commit"}

\* A step of t that writes nothing and leaves the tracked part of its call keeps StoreInv.
LEMMA QuietStep ==
    ASSUME TypeOK, StoreInv, NEW t \in Thread, UNCHANGED <<db, disk>>,
           NEW l \in Labels \ Tracked, pc' = [pc EXCEPT ![t] = l],
           \A u \in Thread \ {t} : /\ target'[u] = target[u] /\ draft'[u] = draft[u]
                                   /\ active'[u] = active[u]
    PROVE  StoreInv'
  <1> USE DEF Tracked, Rows, Unstarred, SameIn
  <1>1. \A u \in Thread : pc'[u] = IF u = t THEN l ELSE pc[u]
    BY DEF TypeOK
  <1>2. NoOrphans'
    BY DEF StoreInv, NoOrphans, OrphanFree
  <1>3. RowInv'
    BY <1>1 DEF StoreInv, RowInv
  <1>4. TxnInv'
    BY <1>1 DEF StoreInv, TxnInv
  <1> QED
    BY <1>2, <1>3, <1>4 DEF StoreInv

\* A step that leaves a request's locals alone or drops them changes no other thread's.
LEMMA OthersKept ==
    ASSUME TypeOK, NEW t \in Thread, NEW l, NEW r, Continue(t, l) \/ Return(t, r)
    PROVE  \A u \in Thread \ {t} : target'[u] = target[u] /\ draft'[u] = draft[u]
  BY DEF Continue, Return, TypeOK, job

\* Every step keeps the tables free of orphans and the open transaction to what its
\* owner has done.
LEMMA StoreStep ==
    ASSUME Consistent, StoreInv, [Next]_vars
    PROVE  StoreInv'
  <1> USE RepositoryAssumption
  <1>0. TypeOK /\ JobInv /\ LockInv
    BY DEF Consistent
  <1>a. Consistent'
    BY TypeStep, LockStep DEF Consistent
  <1>b. ASSUME NEW t \in Thread, pc[t] \in Critical
        PROVE  \A u \in Thread \ {t} : pc[u] \notin Critical /\ ~active[u]
    BY <1>0, <1>b DEF LockInv, TypeOK, Critical
  <1>c. ASSUME mutex = None
        PROVE  db = disk /\ ~open /\ \A u \in Thread : pc[u] \notin Critical /\ ~active[u]
    BY <1>0, <1>c DEF LockInv, TypeOK, Critical
  <1>1. ASSUME NEW t \in Thread, Start(t) PROVE StoreInv'
    <2>1. /\ UNCHANGED <<db, disk, active>>
          /\ \E l \in {"insert", "collide", "resolve", "prune"} : pc' = [pc EXCEPT ![t] = l]
          /\ \A u \in Thread \ {t} : target'[u] = target[u] /\ draft'[u] = draft[u]
      <3> USE DEF Accept, Goto, store, TypeOK
      <3>1. CASE StartCapture(t)
        BY <1>0, <3>1 DEF StartCapture
      <3>2. CASE StartImport(t)
        BY <1>0, <3>2 DEF StartImport
      <3>3. CASE StartOnPrefix(t) \/ StartPrune(t)
        BY <1>0, <3>3 DEF StartOnPrefix, StartPrune
      <3> QED
        BY <1>1, <3>1, <3>2, <3>3 DEF Start
    <2> QED
      BY <1>0, <2>1, QuietStep DEF Labels, Tracked
  <1>2. ASSUME NEW t \in Thread, ResolveIdPrefix(t) PROVE StoreInv'
    <2>1. /\ UNCHANGED <<db, disk, active>>
          /\ \E l \in {"idle", "remove", "load"} : pc' = [pc EXCEPT ![t] = l]
          /\ \A u \in Thread \ {t} : target'[u] = target[u] /\ draft'[u] = draft[u]
      BY <1>0, <1>2 DEF ResolveIdPrefix, Return, Goto, store, TypeOK
    <2> QED
      BY <1>0, <2>1, QuietStep DEF Labels, Tracked
  <1>3. ASSUME NEW t \in Thread, Load(t) \/ ImportCollision(t) PROVE StoreInv'
    <2>1. /\ UNCHANGED <<db, disk, active>>
          /\ \E l \in {"idle", "plan", "update", "insert"} : pc' = [pc EXCEPT ![t] = l]
          /\ \A u \in Thread \ {t} : target'[u] = target[u] /\ draft'[u] = draft[u]
      BY <1>0, <1>3 DEF Load, ImportCollision, Return, Continue, Goto, store, job, TypeOK
    <2> QED
      BY <1>0, <2>1, QuietStep DEF Labels, Tracked
  <1>4. ASSUME NEW t \in Thread,
               RemoveAnswers(t) \/ UpdateAnswers(t) \/ PlanAndExecute(t)
        PROVE  StoreInv'
    <2>1. /\ UNCHANGED <<db, disk, active>>
          /\ \E l \in {"idle", "reindex", "blocked", "audit"} : pc' = [pc EXCEPT ![t] = l]
          /\ \A u \in Thread \ {t} : target'[u] = target[u] /\ draft'[u] = draft[u]
      BY <1>0, <1>4 DEF RemoveAnswers, UpdateAnswers, PlanAndExecute, Return, Continue, Goto,
                   store, job, TypeOK
    <2> QED
      BY <1>0, <2>1, QuietStep DEF Labels, Tracked
  <1>5. ASSUME NEW t \in Thread, Begin(t) PROVE StoreInv'
    <2>1. /\ UNCHANGED <<db, disk, target, draft>> /\ db = disk
          /\ \A u \in Thread : pc[u] \notin Critical
          /\ \E l \in {"row", "age"} : pc' = [pc EXCEPT ![t] = l]
      BY <1>5, <1>c DEF Begin, Continue, Goto, job
    <2>2. NoOrphans'
      BY <2>1 DEF StoreInv, NoOrphans, OrphanFree, Rows
    <2>3. RowInv'
      BY <1>0, <2>1 DEF RowInv, TypeOK, Critical, InTransaction
    <2>4. TxnInv'
      BY <1>0, <2>1 DEF TxnInv, TypeOK, Critical, InTransaction, SameIn
    <2> QED
      BY <2>2, <2>3, <2>4 DEF StoreInv
  <1>6. ASSUME NEW t \in Thread, InsertRow(t) PROVE StoreInv'
    <2>1. /\ pc[t] = "row" /\ pc[t] \in Critical /\ target[t] \in Id /\ draft[t] \in Meta
          /\ UNCHANGED <<open, active>>
      BY <1>0, <1>6 DEF InsertRow, JobInv, Critical, InTransaction
    <2>2. CASE Fails(t, "abort")
      BY <1>0, <1>6, <2>1, <2>2, OthersKept, QuietStep, ZenonT(60)
         DEF InsertRow, Fails, Continue, Goto, Labels, Tracked
    <2>3. CASE /\ db.meta[target[t]] = None /\ Continue(t, "parts")
               /\ Exec([db EXCEPT !.meta[target[t]] = draft[t]])
      <3>1. /\ db' = [db EXCEPT !.meta[target[t]] = draft[t]]
            /\ disk' = disk \/ disk' = db'
            /\ open => disk' = disk
        BY <2>3, ExecDisk
      <3>2. db'.meta = [db.meta EXCEPT ![target[t]] = draft[t]] /\ db'.parts = db.parts
        BY <1>0, <2>1, <3>1, MetaWrite DEF TypeOK
      <3>3. \A u \in Thread : pc'[u] = IF u = t THEN "parts" ELSE pc[u]
        BY <1>0, <2>3 DEF Continue, Goto, TypeOK
      <3>4. UNCHANGED <<target, draft>>
        BY <2>3 DEF Continue, job
      <3>5. db.meta \in [Id -> Meta \cup {None}]
        BY <1>0 DEF TypeOK, Tables
      <3>6. NoOrphans'
        BY <1>0, <2>1, <3>1, OrphanMeta DEF StoreInv, NoOrphans, TypeOK
      <3>7. RowInv'
        BY <1>b, <2>1, <3>2, <3>3, <3>4, <3>5 DEF RowInv, Rows, Critical, InTransaction
      <3>8. TxnInv'
        <4>1. ASSUME NEW u \in Thread, active[u] PROVE u = t /\ disk' = disk
          BY <1>0, <1>b, <2>1, <3>1, <4>1 DEF LockInv
        <4>2. active[t] => \A i \in Id : SameIn(db, disk, i)
          BY <2>1 DEF StoreInv, TxnInv
        <4> QED
          BY <2>1, <2>3, <3>2, <3>3, <3>4, <3>5, <4>1, <4>2 DEF TxnInv, SameIn
      <3> QED
        BY <3>6, <3>7, <3>8 DEF StoreInv
    <2> QED
      BY <1>6, <2>2, <2>3 DEF InsertRow
  <1>7. ASSUME NEW t \in Thread, InsertPart(t) PROVE StoreInv'
    <2> DEFINE done == db.parts[target[t]] \cup NextParts(db.parts[target[t]])
    <2>1. /\ pc[t] = "parts" /\ pc[t] \in Critical /\ target[t] \in Id
          /\ target[t] \in Rows(db) /\ UNCHANGED <<open, active>>
      BY <1>0, <1>7 DEF InsertPart, JobInv, StoreInv, RowInv, Critical, InTransaction
    <2>2. done \in SUBSET Part
      BY <1>0, <2>1 DEF TypeOK, Tables, NextParts, Part
    <2>3. CASE Fails(t, "abort")
      <3>1. Continue(t, "abort") /\ UNCHANGED <<db, disk>>
        BY <2>3 DEF Fails
      <3> QED
        BY <1>0, <2>1, <3>1, OthersKept, QuietStep DEF Continue, Goto, Labels, Tracked
    <2>4. CASE /\ Exec([db EXCEPT !.parts[target[t]] = done])
               /\ Continue(t, IF done = Part THEN "index" ELSE "parts")
      <3> HIDE DEF done
      <3>1. /\ db' = [db EXCEPT !.parts[target[t]] = done]
            /\ disk' = disk \/ disk' = db'
            /\ open => disk' = disk
        BY <2>4, ExecDisk
      <3>2. db'.parts = [db.parts EXCEPT ![target[t]] = done] /\ db'.meta = db.meta
        BY <1>0, <2>1, <2>2, <3>1, PartsWrite DEF TypeOK
      <3>3. \A u \in Thread :
               pc'[u] = IF u = t THEN IF done = Part THEN "index" ELSE "parts" ELSE pc[u]
        BY <1>0, <2>4 DEF Continue, Goto, TypeOK
      <3>4. UNCHANGED <<target, draft>>
        BY <2>4 DEF Continue, job
      <3>5. db.parts \in [Id -> SUBSET Part]
        BY <1>0 DEF TypeOK, Tables
      <3>6. NoOrphans'
        <4>1. db \in Tables /\ OrphanFree(db) /\ OrphanFree(disk)
          BY <1>0 DEF StoreInv, NoOrphans, TypeOK
        <4>2. OrphanFree(db')
          BY <2>1, <2>2, <3>1, <4>1, OrphanParts
        <4> QED
          BY <3>1, <4>1, <4>2 DEF NoOrphans, OrphanFree, Rows
      <3>7. RowInv'
        BY <1>b, <2>1, <3>2, <3>3, <3>4, <3>5 DEF RowInv, Rows, Critical, InTransaction
      <3>8. TxnInv'
        <4>1. ASSUME NEW u \in Thread, active[u] PROVE u = t /\ disk' = disk
          BY <1>0, <1>b, <2>1, <3>1, <4>1 DEF LockInv
        <4>2. active[t] => /\ disk.meta[target[t]] = None
                           /\ db.meta[target[t]] = draft[t]
                           /\ \A i \in Id \ {target[t]} : SameIn(db, disk, i)
          BY <2>1 DEF StoreInv, TxnInv
        <4> QED
          BY <2>1, <3>2, <3>3, <3>4, <3>5, <4>1, <4>2 DEF TxnInv, SameIn
      <3> QED
        BY <3>6, <3>7, <3>8 DEF StoreInv
    <2> QED
      BY <1>7, <2>3, <2>4 DEF InsertPart
  <1>8. ASSUME NEW t \in Thread, InsertIndex(t) PROVE StoreInv'
    <2>1. /\ pc[t] = "index" /\ pc[t] \in Critical /\ target[t] \in Id
          /\ target[t] \in Rows(db) /\ db.parts[target[t]] = Part
          /\ UNCHANGED <<open, active>> /\ Continue(t, "commit")
      BY <1>0, <1>8 DEF InsertIndex, JobInv, StoreInv, RowInv, Critical, InTransaction
    <2>2. /\ db'.meta = db.meta /\ db'.parts = db.parts /\ OrphanFree(db')
          /\ disk' = disk \/ disk' = db'
          /\ open => disk' = disk
      <3>1. db \in Tables /\ OrphanFree(db)
        BY <1>0 DEF StoreInv, NoOrphans, TypeOK
      <3>2. CASE Exec([db EXCEPT !.fts[target[t]] = @ + 1])
        <4>1. /\ db' = [db EXCEPT !.fts[target[t]] = @ + 1]
              /\ disk' = disk \/ disk' = db'
              /\ open => disk' = disk
          BY <3>2, ExecDisk
        <4>2. db'.meta = db.meta /\ db'.parts = db.parts
          BY <2>1, <3>1, <4>1, IndexWrite
        <4>3. OrphanFree(db')
          BY <2>1, <3>1, <4>1, OrphanIndex
        <4> QED
          BY <4>1, <4>2, <4>3
      <3>3. CASE UNCHANGED <<db, disk>>
        BY <3>1, <3>3 DEF OrphanFree, Rows
      <3> QED
        BY <1>8, <3>2, <3>3 DEF InsertIndex, IndexForSearch
    <2>3. \A u \in Thread : pc'[u] = IF u = t THEN "commit" ELSE pc[u]
      BY <1>0, <2>1 DEF Continue, Goto, TypeOK
    <2>4. UNCHANGED <<target, draft>>
      BY <2>1 DEF Continue, job
    <2>5. NoOrphans'
      BY <2>2 DEF StoreInv, NoOrphans, OrphanFree, Rows
    <2>6. RowInv'
      BY <1>b, <2>1, <2>2, <2>3, <2>4 DEF RowInv, Rows, Critical, InTransaction
    <2>7. TxnInv'
      <3>1. ASSUME NEW u \in Thread, active[u] PROVE u = t /\ disk' = disk
        BY <1>0, <1>b, <2>1, <2>2, <3>1 DEF LockInv
      <3>2. active[t] => /\ disk.meta[target[t]] = None
                         /\ db.meta[target[t]] = draft[t]
                         /\ \A i \in Id \ {target[t]} : SameIn(db, disk, i)
        BY <2>1 DEF StoreInv, TxnInv
      <3> QED
        BY <2>1, <2>2, <2>3, <2>4, <3>1, <3>2 DEF TxnInv, SameIn
    <2> QED
      BY <2>5, <2>6, <2>7 DEF StoreInv
  <1>9. ASSUME NEW t \in Thread, Commit(t) \/ Abort(t) PROVE StoreInv'
    <2>1. /\ pc[t] \in Critical
          /\ db' \in {db, disk} /\ disk' \in {db, disk}
          /\ EndOfTransaction(t, TRUE) \/ EndOfTransaction(t, FALSE)
      BY <1>9 DEF Commit, Abort, RollBack, Critical, InTransaction
    <2>2. \A u \in Thread : pc'[u] = pc[u] \/ (u = t /\ pc'[u] \in {"idle", "prune"})
      BY <1>0, <2>1 DEF EndOfTransaction, Continue, Return, Goto, TypeOK
    <2>3. pc'[t] \in {"idle", "prune"}
      BY <1>0, <2>1 DEF EndOfTransaction, Continue, Return, Goto, TypeOK
    <2>4. \A u \in Thread : pc'[u] \notin Tracked
      BY <1>b, <2>1, <2>2, <2>3 DEF Critical, InTransaction, Tracked
    <2>5. NoOrphans'
      BY <2>1 DEF StoreInv, NoOrphans, OrphanFree, Rows
    <2> QED
      BY <2>4, <2>5 DEF StoreInv, RowInv, TxnInv, Tracked
  <1>10. ASSUME NEW t \in Thread, NEW D \in SUBSET Unstarred(db),
                NEW l \in {"trim", "prune_commit"}, PruneWith(t, D, l),
                pc[t] \in {"age", "trim"}
         PROVE  StoreInv'
    <2>1. pc[t] \in Critical /\ UNCHANGED <<open, active>>
      BY <1>10 DEF PruneWith, Critical, InTransaction
    <2>2. CASE Fails(t, "prune_abort")
      <3>1. Continue(t, "prune_abort") /\ UNCHANGED <<db, disk>>
        BY <2>2 DEF Fails
      <3> QED
        BY <1>0, <2>1, <3>1, OthersKept, QuietStep DEF Continue, Goto, Labels, Tracked
    <2>3. CASE Exec(Without(db, D)) /\ Continue(t, l)
      <3>1. /\ db' = Without(db, D)
            /\ disk' = disk \/ disk' = db'
            /\ open => disk' = disk
        BY <2>3, ExecDisk
      <3>2. \A i \in Id : /\ db'.meta[i] = IF i \in D THEN None ELSE db.meta[i]
                          /\ db'.parts[i] = IF i \in D THEN {} ELSE db.parts[i]
        BY <3>1 DEF Without
      <3>3. \A u \in Thread : pc'[u] = IF u = t THEN l ELSE pc[u]
        BY <1>0, <2>3 DEF Continue, Goto, TypeOK
      <3>4. NoOrphans'
        <4>1. db \in Tables /\ OrphanFree(db) /\ OrphanFree(disk)
          BY <1>0 DEF StoreInv, NoOrphans, TypeOK
        <4>2. OrphanFree(db')
          BY <3>1, <4>1, OrphanDelete
        <4> QED
          BY <3>1, <4>1, <4>2 DEF NoOrphans, OrphanFree, Rows
      <3>5. RowInv'
        BY <1>b, <1>10, <2>1, <3>3 DEF RowInv, Critical, InTransaction
      <3>6. TxnInv'
        <4>1. ASSUME NEW u \in Thread, active[u] PROVE u = t /\ disk' = disk
          BY <1>0, <1>b, <2>1, <3>1, <4>1 DEF LockInv
        <4>2. ASSUME active[t], NEW i \in Id
              PROVE  SameIn(db, disk, i) \/ (i \in Unstarred(disk) /\ db.meta[i] = None)
          <5>0. TxnInv /\ active[t]
            BY <4>2 DEF StoreInv
          <5>1. CASE pc[t] = "age"
            BY <5>0, <5>1 DEF TxnInv
          <5>2. CASE pc[t] = "trim"
            BY <5>0, <5>2 DEF TxnInv
          <5> QED
            BY <1>10, <5>1, <5>2
        <4>3. ASSUME active[t], NEW i \in Id
              PROVE  SameIn(db', disk', i) \/ (i \in Unstarred(disk') /\ db'.meta[i] = None)
          <5>1. CASE i \in D
            <6>1. db.meta[i] # None /\ ~db.meta[i].favorite
              BY <5>1 DEF Unstarred, Rows
            <6> QED
              BY <3>2, <4>1, <4>2, <4>3, <5>1, <6>1 DEF Unstarred, Rows, SameIn
          <5>2. CASE i \notin D
            BY <3>2, <4>1, <4>2, <4>3, <5>2 DEF SameIn
          <5> QED
            BY <5>1, <5>2
        <4> QED
          BY <1>10, <2>1, <3>3, <4>1, <4>3 DEF TxnInv
      <3> QED
        BY <3>4, <3>5, <3>6 DEF StoreInv
    <2> QED
      BY <1>10, <2>2, <2>3 DEF PruneWith
  <1>11. ASSUME NEW t \in Thread, PruneByAge(t) PROVE StoreInv'
    <2>1. CASE RetentionDays = 0
      <3>1. /\ pc[t] = "age" /\ UNCHANGED <<db, disk, open, active, target, draft>>
            /\ pc' = [pc EXCEPT ![t] = "trim"]
        BY <1>11, <2>1 DEF PruneByAge, Continue, Goto, store, job
      <3>2. \A u \in Thread : pc'[u] = IF u = t THEN "trim" ELSE pc[u]
        BY <1>0, <3>1 DEF TypeOK
      <3>3. NoOrphans'
        BY <3>1 DEF StoreInv, NoOrphans, OrphanFree, Rows
      <3>4. RowInv'
        BY <3>1, <3>2 DEF StoreInv, RowInv, Rows
      <3>5. TxnInv'
        BY <3>1, <3>2 DEF StoreInv, TxnInv, SameIn, Unstarred, Rows
      <3> QED
        BY <3>3, <3>4, <3>5 DEF StoreInv
    <2>2. CASE RetentionDays # 0
      <3>1. PruneWith(t, Expired(db), "trim") /\ pc[t] = "age"
        BY <1>11, <2>2 DEF PruneByAge
      <3>2. Expired(db) \in SUBSET Unstarred(db)
        BY DEF Expired
      <3> QED
        BY <1>10, <3>1, <3>2
    <2> QED
      BY <2>1, <2>2
  <1>12. ASSUME NEW t \in Thread, PruneByCount(t) PROVE StoreInv'
    <2>1. CASE MaxSnapshots = 0
      <3>1. /\ pc[t] = "trim" /\ UNCHANGED <<db, disk, open, active, target, draft>>
            /\ pc' = [pc EXCEPT ![t] = "prune_commit"]
        BY <1>12, <2>1 DEF PruneByCount, Continue, Goto, store, job
      <3>2. \A u \in Thread : pc'[u] = IF u = t THEN "prune_commit" ELSE pc[u]
        BY <1>0, <3>1 DEF TypeOK
      <3>3. NoOrphans'
        BY <3>1 DEF StoreInv, NoOrphans, OrphanFree, Rows
      <3>4. RowInv'
        BY <3>1, <3>2 DEF StoreInv, RowInv, Rows
      <3>5. TxnInv'
        BY <3>1, <3>2 DEF StoreInv, TxnInv, SameIn, Unstarred, Rows
      <3> QED
        BY <3>3, <3>4, <3>5 DEF StoreInv
    <2>2. CASE MaxSnapshots # 0
      <3>1. PICK D \in Excess(db) : PruneWith(t, D, "prune_commit")
        BY <1>12, <2>2 DEF PruneByCount
      <3>2. D \in SUBSET Unstarred(db) /\ pc[t] = "trim"
        BY <1>12 DEF Excess, PruneByCount
      <3> QED
        BY <1>10, <3>1, <3>2
    <2> QED
      BY <2>1, <2>2
  <1>13. ASSUME NEW t \in Thread, mutex = None, OrphanFree(db'), disk' = db',
                UNCHANGED active, NEW l \in Labels \ Tracked, pc' = [pc EXCEPT ![t] = l]
         PROVE  StoreInv'
    <2>1. NoOrphans'
      BY <1>13 DEF NoOrphans, OrphanFree, Rows
    <2>2. \A u \in Thread : pc'[u] = l \/ pc'[u] \notin Critical
      BY <1>0, <1>13, <1>c DEF TypeOK
    <2>3. \A u \in Thread : pc'[u] \notin Tracked
      BY <2>2 DEF Critical, InTransaction, Tracked
    <2> QED
      BY <2>1, <2>3 DEF StoreInv, RowInv, TxnInv, Tracked
  <1>14. ASSUME NEW t \in Thread, Remove(t) PROVE StoreInv'
    <2>1. /\ mutex = None /\ pc[t] = "remove" /\ UNCHANGED <<open, active>>
          /\ ~open /\ db \in Tables /\ OrphanFree(db) /\ db = disk
      BY <1>0, <1>14, <1>c DEF Remove, TypeOK, StoreInv, NoOrphans
    <2>2. CASE Exec(Without(db, {target[t]})) /\ Goto(t, "removed")
      <3>1. db' = Without(db, {target[t]}) /\ disk' = db'
        BY <2>1, <2>2 DEF Exec
      <3>2. OrphanFree(db')
        BY <2>1, <3>1, OrphanDelete
      <3> QED
        BY <1>13, <2>1, <2>2, <3>1, <3>2 DEF Goto, Labels, Tracked
    <2>3. CASE UNCHANGED <<db, disk>> /\ Return(t, "error")
      <3>1. disk' = db' /\ OrphanFree(db')
        BY <2>1, <2>3 DEF OrphanFree, Rows
      <3> QED
        BY <1>13, <2>1, <2>3, <3>1 DEF Return, Goto, Labels, Tracked
    <2> QED
      BY <1>14, <2>2, <2>3 DEF Remove
  <1>15. ASSUME NEW t \in Thread, UpdateMetadata(t) PROVE StoreInv'
    <2>1. /\ mutex = None /\ pc[t] = "update" /\ UNCHANGED <<open, active>>
          /\ ~open /\ db \in Tables /\ OrphanFree(db) /\ db = disk
          /\ target[t] \in Id /\ draft[t] \in Meta
      BY <1>0, <1>15, <1>c DEF UpdateMetadata, TypeOK, StoreInv, NoOrphans, JobInv
    <2>2. CASE UNCHANGED <<db, disk>> /\ \E l \in {"idle", "updated"} : Goto(t, l)
      <3>1. disk' = db' /\ OrphanFree(db')
        BY <2>1, <2>2 DEF OrphanFree, Rows
      <3> QED
        BY <1>13, <2>1, <2>2, <3>1 DEF Goto, Labels, Tracked
    <2>3. CASE /\ target[t] \in Rows(db) /\ Goto(t, "updated")
               /\ Exec([db EXCEPT !.meta[target[t]] =
                            [draft[t] EXCEPT !.created = db.meta[target[t]].created]])
      <3> DEFINE m == [draft[t] EXCEPT !.created = db.meta[target[t]].created]
      <3>1. m \in Meta
        <4>1. db.meta[target[t]] \in Meta
          BY <2>1, <2>3 DEF Tables, Rows
        <4> QED
          BY <2>1, <4>1 DEF Meta
      <3> HIDE DEF m
      <3>2. db' = [db EXCEPT !.meta[target[t]] = m] /\ disk' = db'
        BY <2>1, <2>3 DEF Exec, m
      <3>3. OrphanFree(db')
        BY <2>1, <3>1, <3>2, OrphanMeta
      <3> QED
        BY <1>13, <2>1, <2>3, <3>2, <3>3 DEF Goto, Labels, Tracked
    <2> QED
      BY <1>15, <2>2, <2>3 DEF UpdateMetadata, Return
  <1>16. ASSUME NEW t \in Thread, Reindex(t) PROVE StoreInv'
    <2>1. /\ pc[t] = "reindex" /\ pc[t] \in Critical /\ UNCHANGED <<open, active>>
          /\ db \in Tables /\ OrphanFree(db) /\ OrphanFree(disk)
          /\ pc' = [pc EXCEPT ![t] = "idle"]
      BY <1>0, <1>16 DEF Reindex, Return, Goto, Critical, InTransaction, TypeOK, StoreInv,
                        NoOrphans
    <2>2. OrphanFree(db') /\ (disk' = disk \/ disk' = db')
      <3>1. CASE UNCHANGED <<db, disk>>
        BY <2>1, <3>1 DEF OrphanFree, Rows
      <3>2. CASE /\ target[t] \in Rows(db)
                 /\ Exec([db EXCEPT !.fts[target[t]] = @ + 1])
        <4>1. db' = [db EXCEPT !.fts[target[t]] = @ + 1] /\ (disk' = disk \/ disk' = db')
          BY <3>2, ExecDisk
        <4>2. OrphanFree(db')
          BY <2>1, <3>2, <4>1, OrphanIndex
        <4> QED
          BY <4>1, <4>2
      <3> QED
        BY <1>16, <3>1, <3>2 DEF Reindex, IndexForSearch
    <2>3. NoOrphans'
      BY <2>1, <2>2 DEF NoOrphans, OrphanFree, Rows
    <2>4. \A u \in Thread : pc'[u] = "idle" \/ pc'[u] \notin Critical
      BY <1>0, <1>b, <2>1 DEF TypeOK
    <2>5. \A u \in Thread : pc'[u] \notin Tracked
      BY <2>4 DEF Critical, InTransaction, Tracked
    <2> QED
      BY <2>3, <2>5 DEF StoreInv, RowInv, TxnInv, Tracked
  <1>17. ASSUME NEW t \in Thread, Audit(t) PROVE StoreInv'
    <2>1. /\ pc[t] = "audit" /\ target[t] \in Id /\ UNCHANGED <<open, active>>
          /\ db \in Tables /\ OrphanFree(db) /\ OrphanFree(disk)
          /\ Return(t, "ok")
      BY <1>0, <1>17 DEF Audit, TypeOK, StoreInv, NoOrphans, JobInv
    <2>2. CASE UNCHANGED <<db, disk>>
      BY <1>0, <2>1, <2>2, OthersKept, QuietStep DEF Return, Goto, Labels, Tracked
    <2>3. CASE /\ target[t] \in Rows(db)
               /\ Exec([db EXCEPT !.events = @ \cup {[thread |-> t, id |-> target[t]]}])
      <3> DEFINE e == [thread |-> t, id |-> target[t]]
      <3>1. e \in Event /\ e.id \in Rows(db)
        BY <2>1, <2>3 DEF Event
      <3> HIDE DEF e
      <3>2. /\ db' = [db EXCEPT !.events = @ \cup {e}]
            /\ disk' = disk \/ disk' = db'
            /\ open => disk' = disk
        BY <2>3, ExecDisk DEF e
      <3>3. db'.meta = db.meta /\ db'.parts = db.parts
        BY <2>1, <3>1, <3>2, EventWrite
      <3>4. OrphanFree(db')
        BY <2>1, <3>1, <3>2, OrphanEvent
      <3>5. NoOrphans'
        BY <2>1, <3>2, <3>4 DEF NoOrphans, OrphanFree, Rows
      <3>6. \A u \in Thread : pc'[u] = IF u = t THEN "idle" ELSE pc[u]
        BY <1>0, <2>1 DEF Return, Goto, TypeOK
      <3>7. \A u \in Thread \ {t} : target'[u] = target[u] /\ draft'[u] = draft[u]
        BY <1>0, <2>1, OthersKept
      <3>8. RowInv'
        BY <2>1, <3>3, <3>6, <3>7 DEF StoreInv, RowInv, Rows
      <3>9. TxnInv'
        <4>1. \A u \in Thread : active[u] => disk' = disk
          BY <1>0, <3>2 DEF LockInv
        <4> QED
          BY <2>1, <3>3, <3>6, <3>7, <4>1 DEF StoreInv, TxnInv, SameIn, Unstarred, Rows
      <3> QED
        BY <3>5, <3>8, <3>9 DEF StoreInv
    <2> QED
      BY <1>17, <2>2, <2>3 DEF Audit
  <1>18. CASE Tick \/ UNCHANGED vars
    <2>1. UNCHANGED <<db, disk, pc, target, draft, active>>
      BY <1>18 DEF Tick, vars, store, job
    <2> QED
      BY <2>1 DEF StoreInv, NoOrphans, OrphanFree, RowInv, TxnInv, SameIn, Unstarred, Rows
  <1>19. CASE CrashRestart
    <2>1. db' = disk /\ disk' = disk /\ \A u \in Thread : pc'[u] = "idle"
      BY <1>19 DEF CrashRestart
    <2> QED
      BY <2>1 DEF StoreInv, NoOrphans, OrphanFree, RowInv, TxnInv, Rows
  <1> QED
    BY <1>1, <1>2, <1>3, <1>4, <1>5, <1>6, <1>7, <1>8, <1>9, <1>11, <1>12, <1>14, <1>15,
       <1>16, <1>17, <1>18, <1>19 DEF Next, Serve
\* The tables in every reachable state.
LEMMA Storage == Spec => [](Consistent /\ StoreInv)
  <1>1. Init => StoreInv
    BY RepositoryAssumption
       DEF Init, StoreInv, NoOrphans, OrphanFree, RowInv, TxnInv, EmptyTables, Rows
  <1>2. Consistent /\ StoreInv /\ [Next]_vars => StoreInv'
    BY StoreStep
  <1> QED
    BY <1>1, <1>2, Consistency, PTL DEF Spec

\* Nothing outlives its snapshot: no child row, index row or restore event of a snapshot
\* that is gone, in the connection's tables or on disk, whatever fails or crashes.
THEOREM NothingOutlivesItsSnapshot == Spec => []NoOrphans
  <1>1. StoreInv => NoOrphans
    BY DEF StoreInv
  <1> QED
    BY <1>1, Storage, PTL

\* insert answers success only for a snapshot that is whole on disk, even if BEGIN failed
\* and its statements were committed one by one.
THEOREM SuccessIsDurable == Spec => SuccessMeansStored
  <1> DEFINE Answered(t) == pc'[t] = "prune" \/ (pc'[t] = "idle" /\ result'[t] = "ok")
  <1>1. ASSUME Consistent, StoreInv, [Next]_vars, NEW t \in Thread, pc[t] = "commit",
               Answered(t)
        PROVE  target[t] \in Rows(disk') /\ disk'.parts[target[t]] = Part
    <2> USE RepositoryAssumption
    <2>0. TypeOK /\ LockInv /\ pc[t] = "commit" /\ RowInv
      BY <1>1 DEF Consistent, StoreInv
    <2>1. ~(Tick \/ CrashRestart \/ UNCHANGED vars)
      BY <1>1 DEF Tick, CrashRestart, vars
    <2>2. PICK u \in Thread : Start(u) \/ Serve(u)
      BY <1>1, <2>1 DEF Next
    <2>3. CASE u # t
      <3>1. pc'[t] = pc[t]
        <4>1. \E l \in Labels : pc' = [pc EXCEPT ![u] = l]
          <5> USE DEF Goto, Continue, Return, Fails, Accept, Labels
          <5>1. CASE Start(u)
            BY <5>1 DEF Start, StartCapture, StartImport, StartOnPrefix, StartPrune
          <5>2. CASE ResolveIdPrefix(u) \/ Load(u) \/ ImportCollision(u) \/ Begin(u)
            BY <5>2 DEF ResolveIdPrefix, Load, ImportCollision, Begin
          <5>3. CASE InsertRow(u) \/ InsertPart(u) \/ InsertIndex(u)
            BY <5>3 DEF InsertRow, InsertPart, InsertIndex
          <5>4. CASE Commit(u) \/ Abort(u)
            BY <5>4 DEF Commit, Abort, EndOfTransaction
          <5>5. CASE PruneByAge(u) \/ PruneByCount(u)
            BY <5>5 DEF PruneByAge, PruneByCount, PruneWith
          <5>6. CASE Remove(u) \/ RemoveAnswers(u) \/ UpdateMetadata(u) \/ UpdateAnswers(u)
            BY <5>6 DEF Remove, RemoveAnswers, UpdateMetadata, UpdateAnswers
          <5>7. CASE Reindex(u) \/ PlanAndExecute(u) \/ Audit(u)
            BY <5>7 DEF Reindex, PlanAndExecute, Audit
          <5> QED
            BY <2>2, <5>1, <5>2, <5>3, <5>4, <5>5, <5>6, <5>7 DEF Serve
        <4> QED
          BY <2>0, <2>3, <4>1 DEF TypeOK
      <3> QED
        BY <1>1, <2>0, <3>1
    <2>4. CASE u = t
      <3>1. Commit(t)
        BY <2>0, <2>2, <2>4
           DEF Start, StartCapture, StartImport, StartOnPrefix, StartPrune, Accept, Serve,
               ResolveIdPrefix, Load, ImportCollision, Begin, InsertRow, InsertPart,
               InsertIndex, Abort, PruneByAge, PruneByCount, Remove, RemoveAnswers,
               UpdateMetadata, UpdateAnswers, Reindex, PlanAndExecute, Audit
      <3>2. CASE disk' = db
        BY <2>0, <3>2 DEF RowInv, Rows
      <3>3. CASE EndOfTransaction(t, FALSE)
        <4>1. Return(t, "error")
          BY <2>0, <3>3 DEF EndOfTransaction
        <4>2. pc'[t] = "idle" /\ result'[t] = "error"
          BY <2>0, <4>1 DEF Return, Goto, TypeOK
        <4> QED
          BY <1>1, <4>2
      <3> QED
        BY <3>1, <3>2, <3>3 DEF Commit
    <2> QED
      BY <2>3, <2>4
  <1>2. Consistent /\ StoreInv /\ [Next]_vars
        => [\A t \in Thread :
              /\ pc[t] = "commit"
              /\ pc'[t] = "prune" \/ (pc'[t] = "idle" /\ result'[t] = "ok")
              => target[t] \in Rows(disk') /\ disk'.parts[target[t]] = Part]_vars
    BY <1>1
  <1> QED
    BY <1>2, Storage, PTL DEF Spec, SuccessMeansStored
-----------------------------------------------------------------------------
(* What a step does to the disk, when BEGIN IMMEDIATE never fails.           *)

\* Then every guarded section of insert and prune runs in a transaction of its own.
LEMMA BeginStep ==
    ASSUME BeginMayFail = FALSE, Consistent, BeginInv, [Next]_vars
    PROVE  BeginInv'
  <1> USE RepositoryAssumption DEF InTransaction
  <1>0. TypeOK /\ LockInv
    BY DEF Consistent
  <1>1. ASSUME NEW t \in Thread, NEW l, pc' = [pc EXCEPT ![t] = l], UNCHANGED active,
               l \in InTransaction => pc[t] \in InTransaction
        PROVE  BeginInv'
    BY <1>0, <1>1 DEF BeginInv, TypeOK
  <1> USE DEF Goto, Continue, Return, Fails, Accept
  <1>2. ASSUME NEW t \in Thread, Start(t) PROVE BeginInv'
    BY <1>1, <1>2 DEF Start, StartCapture, StartImport, StartOnPrefix, StartPrune
  <1>3. ASSUME NEW t \in Thread, ResolveIdPrefix(t) \/ Load(t) \/ ImportCollision(t)
        PROVE  BeginInv'
    BY <1>1, <1>3 DEF ResolveIdPrefix, Load, ImportCollision
  <1>4. ASSUME NEW t \in Thread, Begin(t) PROVE BeginInv'
    BY <1>0, <1>4 DEF Begin, BeginInv, TypeOK
  <1>5. ASSUME NEW t \in Thread, InsertRow(t) \/ InsertPart(t) \/ InsertIndex(t)
        PROVE  BeginInv'
    BY <1>1, <1>5 DEF InsertRow, InsertPart, InsertIndex
  <1>6. ASSUME NEW t \in Thread, Commit(t) \/ Abort(t) PROVE BeginInv'
    <2>1. EndOfTransaction(t, TRUE) \/ EndOfTransaction(t, FALSE)
      BY <1>6 DEF Commit, Abort
    <2>2. active' = [active EXCEPT ![t] = FALSE]
          /\ (pc' = [pc EXCEPT ![t] = "idle"] \/ pc' = [pc EXCEPT ![t] = "prune"])
      BY <2>1 DEF EndOfTransaction
    <2> QED
      BY <1>0, <2>2 DEF BeginInv, TypeOK
  <1>7. ASSUME NEW t \in Thread, PruneByAge(t) \/ PruneByCount(t) PROVE BeginInv'
    BY <1>1, <1>7 DEF PruneByAge, PruneByCount, PruneWith
  <1>8. ASSUME NEW t \in Thread, Remove(t) \/ RemoveAnswers(t) PROVE BeginInv'
    BY <1>1, <1>8 DEF Remove, RemoveAnswers
  <1>9. ASSUME NEW t \in Thread, UpdateMetadata(t) \/ UpdateAnswers(t) PROVE BeginInv'
    BY <1>1, <1>9 DEF UpdateMetadata, UpdateAnswers
  <1>10. ASSUME NEW t \in Thread, Reindex(t) \/ PlanAndExecute(t) \/ Audit(t)
         PROVE  BeginInv'
    BY <1>1, <1>10 DEF Reindex, PlanAndExecute, Audit
  <1>11. CASE Tick \/ CrashRestart \/ UNCHANGED vars
    BY <1>11 DEF Tick, CrashRestart, vars, BeginInv
  <1> QED
    BY <1>2, <1>3, <1>4, <1>5, <1>6, <1>7, <1>8, <1>9, <1>10, <1>11 DEF Next, Serve

\* The ways a step may change the snapshots on disk: one appears whole, one is edited,
\* some that are not favourites or one the client named disappear.
DiskKept == \A i \in Id : SameIn(disk', disk, i)
DiskPut(i, m) ==
    /\ disk.meta[i] = None /\ disk'.meta[i] = m /\ disk'.parts[i] = Part
    /\ \A j \in Id \ {i} : SameIn(disk', disk, j)
DiskEdit(i, m) ==
    /\ disk.meta[i] # None /\ m.created = disk.meta[i].created
    /\ disk'.meta[i] = m /\ disk'.parts[i] = disk.parts[i]
    /\ \A j \in Id \ {i} : SameIn(disk', disk, j)
DiskDelete(i) ==
    /\ disk.meta[i] # None /\ disk'.meta[i] = None
    /\ \A j \in Id \ {i} : SameIn(disk', disk, j)
DiskRetire(D) ==
    /\ D \subseteq Unstarred(disk)
    /\ \A i \in Id : IF i \in D THEN disk'.meta[i] = None ELSE SameIn(disk', disk, i)
DiskEffect ==
    \/ DiskKept
    \/ \E i \in Id, m \in Meta : DiskPut(i, m) \/ DiskEdit(i, m)
    \/ \E i \in Id : DiskDelete(i)
    \/ \E D \in SUBSET Id : DiskRetire(D)

\* Every step has one of these effects.
LEMMA DiskStep ==
    ASSUME Consistent, StoreInv, BeginInv, [Next]_vars
    PROVE  DiskEffect
  <1> USE RepositoryAssumption
  <1>0. TypeOK /\ JobInv /\ LockInv /\ db \in Tables /\ disk \in Tables
    BY DEF Consistent, TypeOK
  <1>1. ASSUME UNCHANGED disk PROVE DiskEffect
    BY <1>1 DEF DiskEffect, DiskKept, SameIn
  <1>2. ASSUME NEW t \in Thread, pc[t] \in InTransaction PROVE open /\ active[t]
    BY <1>0, <1>2 DEF BeginInv, LockInv
  <1>3. ASSUME mutex = None PROVE ~open /\ db = disk
    BY <1>0, <1>3 DEF LockInv, TypeOK, Critical
  <1>4. ASSUME NEW t \in Thread, Start(t) \/ ResolveIdPrefix(t) \/ Load(t) PROVE DiskEffect
    BY <1>1, <1>4 DEF Start, StartCapture, StartImport, StartOnPrefix, StartPrune, Accept,
                      ResolveIdPrefix, Load, store
  <1>5. ASSUME NEW t \in Thread, ImportCollision(t) \/ Begin(t) \/ RemoveAnswers(t)
                                 \/ UpdateAnswers(t) \/ PlanAndExecute(t)
        PROVE  DiskEffect
    BY <1>1, <1>5 DEF ImportCollision, Begin, RemoveAnswers, UpdateAnswers, PlanAndExecute,
                      store
  <1>6. ASSUME NEW t \in Thread, InsertRow(t) \/ InsertPart(t) \/ InsertIndex(t)
        PROVE  DiskEffect
    <2>1. open
      BY <1>2, <1>6 DEF InsertRow, InsertPart, InsertIndex, InTransaction
    <2> QED
      BY <1>1, <1>6, <2>1 DEF InsertRow, InsertPart, InsertIndex, IndexForSearch, Fails, Exec
  <1>7. ASSUME NEW t \in Thread, PruneByAge(t) \/ PruneByCount(t) PROVE DiskEffect
    <2>1. open
      BY <1>2, <1>7 DEF PruneByAge, PruneByCount, InTransaction
    <2> QED
      BY <1>1, <1>7, <2>1 DEF PruneByAge, PruneByCount, PruneWith, Fails, Exec, store
  <1>8. ASSUME NEW t \in Thread, Abort(t) PROVE DiskEffect
    BY <1>1, <1>8 DEF Abort, RollBack
  <1>9. ASSUME NEW t \in Thread, Commit(t) PROVE DiskEffect
    <2>1. pc[t] \in {"commit", "prune_commit"} /\ active[t]
      BY <1>2, <1>9 DEF Commit, InTransaction
    <2>2. TxnInv /\ RowInv
      BY DEF StoreInv
    <2>3. CASE UNCHANGED disk
      BY <1>1, <2>3
    <2>4. CASE disk' = db /\ pc[t] = "commit"
      <3>1. target[t] \in Id /\ draft[t] \in Meta
        BY <1>0, <2>4 DEF JobInv
      <3>2. /\ disk.meta[target[t]] = None /\ db.meta[target[t]] = draft[t]
            /\ \A i \in Id \ {target[t]} : SameIn(db, disk, i)
        BY <2>1, <2>2, <2>4 DEF TxnInv
      <3>3. db.parts[target[t]] = Part
        BY <2>2, <2>4 DEF RowInv
      <3>4. DiskPut(target[t], draft[t])
        BY <2>4, <3>2, <3>3 DEF DiskPut
      <3> QED
        BY <3>1, <3>4 DEF DiskEffect
    <2>5. CASE disk' = db /\ pc[t] = "prune_commit"
      <3> DEFINE D == {i \in Unstarred(disk) : db.meta[i] = None}
      <3>1. ASSUME NEW i \in Id
            PROVE  SameIn(db, disk, i) \/ (i \in Unstarred(disk) /\ db.meta[i] = None)
        BY <2>1, <2>2, <2>5 DEF TxnInv
      <3>2. D \subseteq Unstarred(disk) /\ D \in SUBSET Id
        BY DEF Unstarred, Rows
      <3>3. DiskRetire(D)
        BY <2>5, <3>1, <3>2 DEF DiskRetire
      <3> QED
        BY <3>2, <3>3 DEF DiskEffect
    <2> QED
      BY <1>9, <2>1, <2>3, <2>4, <2>5 DEF Commit, RollBack
  <1>10. ASSUME NEW t \in Thread, Remove(t) PROVE DiskEffect
    <2>1. /\ pc[t] = "remove" /\ target[t] \in Id /\ ~open /\ db = disk
      BY <1>0, <1>3, <1>10 DEF Remove, JobInv
    <2>2. CASE UNCHANGED disk
      BY <1>1, <2>2
    <2>3. CASE Exec(Without(db, {target[t]}))
      <3>1. disk' = Without(disk, {target[t]})
        BY <2>1, <2>3 DEF Exec
      <3>2. \A j \in Id \ {target[t]} : SameIn(disk', disk, j)
        BY <3>1 DEF Without, SameIn
      <3>3. disk'.meta[target[t]] = None
        BY <2>1, <3>1 DEF Without
      <3>4. CASE disk.meta[target[t]] # None
        BY <2>1, <3>2, <3>3, <3>4 DEF DiskEffect, DiskDelete
      <3>5. CASE disk.meta[target[t]] = None
        <4>1. disk.parts[target[t]] = {} /\ disk'.parts[target[t]] = {}
          BY <2>1, <3>1, <3>5 DEF StoreInv, NoOrphans, OrphanFree, Rows, Without
        <4> QED
          BY <2>1, <3>2, <3>3, <3>5, <4>1 DEF DiskEffect, DiskKept, SameIn
      <3> QED
        BY <3>4, <3>5
    <2> QED
      BY <1>10, <2>2, <2>3 DEF Remove
  <1>11. ASSUME NEW t \in Thread, UpdateMetadata(t) PROVE DiskEffect
    <2>1. /\ target[t] \in Id /\ draft[t] \in Meta /\ ~open /\ db = disk
      BY <1>0, <1>3, <1>11 DEF UpdateMetadata, JobInv
    <2>2. CASE UNCHANGED disk
      BY <1>1, <2>2
    <2> DEFINE m == [draft[t] EXCEPT !.created = db.meta[target[t]].created]
    <2>3. CASE /\ target[t] \in Rows(db)
               /\ Exec([db EXCEPT !.meta[target[t]] = m])
      <3>1. disk.meta[target[t]] \in Meta /\ disk.meta[target[t]] # None
        BY <1>0, <2>1, <2>3 DEF Tables, Rows
      <3>2. m \in Meta /\ m.created = disk.meta[target[t]].created
        BY <2>1, <3>1 DEF Meta
      <3> HIDE DEF m
      <3>3. disk' = [disk EXCEPT !.meta[target[t]] = m]
        BY <2>1, <2>3 DEF Exec
      <3>4. disk'.meta = [disk.meta EXCEPT ![target[t]] = m] /\ disk'.parts = disk.parts
        BY <1>0, <2>1, <3>2, <3>3, MetaWrite
      <3>5. DiskEdit(target[t], m)
        BY <1>0, <2>1, <3>1, <3>2, <3>4 DEF DiskEdit, SameIn, Tables
      <3> QED
        BY <2>1, <3>2, <3>5 DEF DiskEffect
    <2> QED
      BY <1>11, <2>2, <2>3 DEF UpdateMetadata
  <1>12. ASSUME NEW t \in Thread, Reindex(t) PROVE DiskEffect
    <2>1. CASE UNCHANGED disk
      BY <1>1, <2>1
    <2>2. CASE ~open /\ Exec([db EXCEPT !.fts[target[t]] = @ + 1])
      <3>1. target[t] \in Id /\ db = disk
        BY <1>0, <1>12, <2>2 DEF Reindex, JobInv, LockInv
      <3>2. disk' = [disk EXCEPT !.fts[target[t]] = @ + 1]
        BY <2>2, <3>1 DEF Exec
      <3>3. disk'.meta = disk.meta /\ disk'.parts = disk.parts
        BY <1>0, <3>1, <3>2, IndexWrite
      <3> QED
        BY <3>3 DEF DiskEffect, DiskKept, SameIn
    <2> QED
      BY <1>12, <2>1, <2>2 DEF Reindex, IndexForSearch, Exec
  <1>13. ASSUME NEW t \in Thread, Audit(t) PROVE DiskEffect
    <2>1. CASE UNCHANGED disk
      BY <1>1, <2>1
    <2> DEFINE e == [thread |-> t, id |-> target[t]]
    <2>2. CASE ~open /\ Exec([db EXCEPT !.events = @ \cup {e}])
      <3>1. e \in Event /\ db = disk
        BY <1>0, <1>13, <2>2 DEF Audit, JobInv, LockInv, Event
      <3> HIDE DEF e
      <3>2. disk' = [disk EXCEPT !.events = @ \cup {e}]
        BY <2>2, <3>1 DEF Exec
      <3>3. disk'.meta = disk.meta /\ disk'.parts = disk.parts
        BY <1>0, <3>1, <3>2, EventWrite
      <3> QED
        BY <3>3 DEF DiskEffect, DiskKept, SameIn
    <2> QED
      BY <1>13, <2>1, <2>2 DEF Audit, Exec
  <1>14. CASE Tick \/ CrashRestart \/ UNCHANGED vars
    BY <1>1, <1>14 DEF Tick, CrashRestart, vars, store
  <1> QED
    BY <1>4, <1>5, <1>6, <1>7, <1>8, <1>9, <1>10, <1>11, <1>12, <1>13, <1>14 DEF Next, Serve
\* A snapshot appears on disk with all its rows and never loses some of them.
LEMMA NoHalfStep ==
    ASSUME NoHalfSnapshot, DiskEffect
    PROVE  NoHalfSnapshot'
  <1> USE DEF NoHalfSnapshot, Rows, SameIn
  <1>1. CASE DiskKept
    BY <1>1 DEF DiskKept
  <1>2. ASSUME NEW i \in Id, NEW m \in Meta, DiskPut(i, m) \/ DiskEdit(i, m)
        PROVE  NoHalfSnapshot'
    BY <1>2 DEF DiskPut, DiskEdit
  <1>3. ASSUME NEW i \in Id, DiskDelete(i) PROVE NoHalfSnapshot'
    BY <1>3 DEF DiskDelete
  <1>4. ASSUME NEW D \in SUBSET Id, DiskRetire(D) PROVE NoHalfSnapshot'
    BY <1>4 DEF DiskRetire
  <1> QED
    BY <1>1, <1>2, <1>3, <1>4 DEF DiskEffect

\* The invariant of a daemon whose BEGIN IMMEDIATE never fails.
Whole == Consistent /\ StoreInv /\ BeginInv /\ NoHalfSnapshot

LEMMA Wholeness ==
    ASSUME BeginMayFail = FALSE
    PROVE  Spec => []Whole
  <1>1. Init => BeginInv /\ NoHalfSnapshot
    BY DEF Init, BeginInv, InTransaction, NoHalfSnapshot, Rows, EmptyTables
  <1>2. Consistent /\ StoreInv /\ BeginInv /\ NoHalfSnapshot /\ [Next]_vars
        => BeginInv' /\ NoHalfSnapshot'
    BY BeginStep, DiskStep, NoHalfStep
  <1> QED
    BY <1>1, <1>2, Storage, PTL DEF Spec, Whole

\* Without failed BEGINs no crash, failed write or interleaving leaves a half-snapshot on
\* disk: the promise at the top of snapshot_repository.hpp.
THEOREM InsertsAreAtomic ==
    ASSUME BeginMayFail = FALSE
    PROVE  Spec => []NoHalfSnapshot
  <1>1. Whole => NoHalfSnapshot
    BY DEF Whole
  <1> QED
    BY <1>1, Wholeness, PTL

\* A step's effect on disk is a step of the abstract store, or none.
LEMMA AbstractStep ==
    ASSUME Whole, Whole', DiskEffect
    PROVE  [Abstract!Next]_(Stored(disk))
  <1>1. /\ disk \in Tables /\ disk' \in Tables /\ NoHalfSnapshot /\ NoHalfSnapshot'
    BY DEF Whole, Consistent, TypeOK
  <1>2. Stored(disk) = disk.meta
    BY <1>1 DEF Stored, NoHalfSnapshot, Rows, Tables
  <1>3. Stored(disk)' = disk'.meta
    BY <1>1 DEF Stored, NoHalfSnapshot, Rows, Tables
  <1>4. disk.meta \in [Id -> Meta \cup {None}] /\ disk'.meta \in [Id -> Meta \cup {None}]
    BY <1>1 DEF Tables
  <1> USE DEF SameIn
  <1>5. CASE DiskKept
    <2>1. disk'.meta = disk.meta
      BY <1>4, <1>5 DEF DiskKept
    <2> QED
      BY <1>2, <1>3, <2>1
  <1>6. ASSUME NEW i \in Id, NEW m \in Meta, DiskPut(i, m)
        PROVE  Abstract!Next
    <2>1. disk'.meta = [disk.meta EXCEPT ![i] = m] /\ disk.meta[i] = None
      BY <1>4, <1>6 DEF DiskPut
    <2>2. Abstract!Put(i, m)
      BY <1>2, <1>3, <2>1 DEF Abstract!Put
    <2> QED
      BY <2>2 DEF Abstract!Next
  <1>7. ASSUME NEW i \in Id, NEW m \in Meta, DiskEdit(i, m)
        PROVE  Abstract!Next
    <2>1. /\ disk'.meta = [disk.meta EXCEPT ![i] = m] /\ disk.meta[i] # None
          /\ m.created = disk.meta[i].created
      BY <1>4, <1>7 DEF DiskEdit
    <2>2. Abstract!Edit(i, m)
      BY <1>2, <1>3, <2>1 DEF Abstract!Edit
    <2> QED
      BY <2>2 DEF Abstract!Next
  <1>8. ASSUME NEW i \in Id, DiskDelete(i) PROVE Abstract!Next
    <2>1. disk'.meta = [disk.meta EXCEPT ![i] = None] /\ disk.meta[i] # None
      BY <1>4, <1>8 DEF DiskDelete
    <2>2. Abstract!Delete(i)
      BY <1>2, <1>3, <2>1 DEF Abstract!Delete
    <2> QED
      BY <2>2 DEF Abstract!Next
  <1>9. ASSUME NEW D \in SUBSET Id, DiskRetire(D) PROVE Abstract!Next
    <2>1. disk'.meta = [i \in Id |-> IF i \in D THEN None ELSE disk.meta[i]]
      BY <1>4, <1>9 DEF DiskRetire
    <2>2. \A i \in D : disk.meta[i] # None /\ ~disk.meta[i].favorite
      BY <1>9 DEF DiskRetire, Unstarred, Rows
    <2>3. Abstract!Retire(D)
      BY <1>2, <1>3, <2>1, <2>2 DEF Abstract!Retire
    <2> QED
      BY <2>3 DEF Abstract!Next
  <1> QED
    BY <1>5, <1>6, <1>7, <1>8, <1>9 DEF DiskEffect

\* Seen from disk the repository is the abstract store: under concurrent requests, failed
\* writes and crashes, snapshots come, change and go whole and one request at a time, and
\* retention takes no favourite.
THEOREM RepositoryImplementsStore ==
    ASSUME BeginMayFail = FALSE
    PROVE  Spec => ImplementsStore
  <1>1. Init => Abstract!Init
    BY DEF Init, Abstract!Init, Stored, EmptyTables
  <1>2. Whole /\ Whole' /\ [Next]_vars => [Abstract!Next]_(Stored(disk))
    BY DiskStep, AbstractStep DEF Whole
  <1> QED
    BY <1>1, <1>2, Wholeness, PTL DEF Spec, ImplementsStore, Abstract!Spec
-----------------------------------------------------------------------------
(* Answers read from the connection, and edits.                             *)

\* Every step keeps a thread's place in its call and the operation it serves together.
LEMMA OpStep ==
    ASSUME TypeOK, OpInv, [Next]_vars
    PROVE  OpInv'
  <1> USE RepositoryAssumption
  <1> USE DEF Goto, Continue, Return, Fails, Accept, store, job, bounds, Labels
  <1>2. ASSUME NEW t \in Thread,
               pc' = [pc EXCEPT ![t] = "idle"], op' = [op EXCEPT ![t] = "none"]
        PROVE  OpInv'
    BY <1>2 DEF TypeOK, OpInv
  <1>3. ASSUME NEW t \in Thread, NEW l \in Labels, pc' = [pc EXCEPT ![t] = l], op' = op,
               /\ l \in {"insert", "row", "parts", "index", "commit", "abort"}
                  => pc[t] \in {"collide", "insert", "row", "parts", "index", "commit", "abort"}
               /\ l \in {"collide", "resolve"} => pc[t] = l
               /\ l = "load" => pc[t] = "resolve" /\ op[t] # "delete"
               /\ l \in {"remove", "removed"}
                  => pc[t] = "remove" \/ (pc[t] = "resolve" /\ op[t] = "delete")
               /\ l \in {"update", "updated", "reindex", "blocked"}
                  => \/ pc[t] \in {"update", "updated"}
                     \/ pc[t] = "load" /\ op[t] \in {"rename", "tag", "favorite"}
               /\ l \in {"plan", "audit"}
                  => pc[t] = "plan" \/ (pc[t] = "load" /\ op[t] = "restore")
        PROVE  OpInv'
    <2>1. \A u \in Thread : op'[u] = op[u] /\ pc'[u] = IF u = t THEN l ELSE pc[u]
      BY <1>3 DEF TypeOK
    <2> QED
      BY <1>3, <2>1 DEF OpInv
  <1>4. ASSUME NEW t \in Thread, NEW o, o \in Ops[t], NEW l \in Labels,
               pc' = [pc EXCEPT ![t] = l], op' = [op EXCEPT ![t] = o],
               \/ o \in {"capture", "import"} /\ l = "insert"
               \/ o = "import" /\ l = "collide"
               \/ /\ o \in {"get", "delete", "rename", "tag", "favorite", "restore"}
                  /\ l = "resolve"
               \/ l = "prune"
        PROVE  OpInv'
    <2>1. \A u \in Thread : /\ op'[u] = IF u = t THEN o ELSE op[u]
                            /\ pc'[u] = IF u = t THEN l ELSE pc[u]
      BY <1>4 DEF TypeOK
    <2> QED
      BY <1>4, <2>1 DEF OpInv
  <1>5. ASSUME NEW t \in Thread, Start(t) PROVE OpInv'
    BY <1>4, <1>5 DEF Start, StartCapture, StartImport, StartOnPrefix, StartPrune
  <1>6. ASSUME NEW t \in Thread, ResolveIdPrefix(t) PROVE OpInv'
    BY <1>2, <1>3, <1>6 DEF ResolveIdPrefix
  <1>7. ASSUME NEW t \in Thread, Load(t) PROVE OpInv'
    BY <1>2, <1>3, <1>7 DEF Load
  <1>8. ASSUME NEW t \in Thread, ImportCollision(t) \/ Begin(t) PROVE OpInv'
    BY <1>3, <1>8 DEF ImportCollision, Begin
  <1>9. ASSUME NEW t \in Thread, InsertRow(t) \/ InsertPart(t) \/ InsertIndex(t)
        PROVE  OpInv'
    BY <1>3, <1>9 DEF InsertRow, InsertPart, InsertIndex
  <1>10. ASSUME NEW t \in Thread, Commit(t) \/ Abort(t) PROVE OpInv'
    <2>1. EndOfTransaction(t, TRUE) \/ EndOfTransaction(t, FALSE)
      BY <1>10 DEF Commit, Abort
    <2> QED
      BY <1>2, <1>3, <2>1 DEF EndOfTransaction
  <1>11. ASSUME NEW t \in Thread, PruneByAge(t) \/ PruneByCount(t) PROVE OpInv'
    BY <1>3, <1>11 DEF PruneByAge, PruneByCount, PruneWith
  <1>12. ASSUME NEW t \in Thread, Remove(t) \/ UpdateMetadata(t) PROVE OpInv'
    BY <1>2, <1>3, <1>12 DEF Remove, UpdateMetadata
  <1>13. ASSUME NEW t \in Thread, RemoveAnswers(t) \/ UpdateAnswers(t) PROVE OpInv'
    BY <1>2, <1>3, <1>13 DEF RemoveAnswers, UpdateAnswers
  <1>14. ASSUME NEW t \in Thread, Reindex(t) \/ PlanAndExecute(t) \/ Audit(t) PROVE OpInv'
    BY <1>2, <1>3, <1>14 DEF Reindex, PlanAndExecute, Audit
  <1>15. CASE Tick \/ CrashRestart \/ UNCHANGED vars
    BY <1>15 DEF Tick, CrashRestart, vars, OpInv
  <1> QED
    BY <1>5, <1>6, <1>7, <1>8, <1>9, <1>10, <1>11, <1>12, <1>13, <1>14, <1>15 DEF Next, Serve

\* A restore's audit row is written without mutex_: only a thread that answers no delete or
\* edit meanwhile may be asked for restores.
AuditsApart ==
    \A t, u \in Thread :
        "restore" \in Ops[t] /\ Ops[u] \cap {"delete", "rename", "tag", "favorite"} # {} => t = u

\* Then no statement comes between a DELETE or UPDATE and its changes().
LEMMA CountStep ==
    ASSUME AuditsApart, Consistent, OpInv, ChangesAreMine, [Next]_vars
    PROVE  ChangesAreMine'
  <1> USE RepositoryAssumption
  <1> USE DEF Goto, Continue, Return, Fails, Accept, store, job, bounds, Labels
  <1>0. TypeOK /\ LockInv
    BY DEF Consistent
  <1>1. ASSUME NEW t \in Thread, NEW l \in Labels \ {"removed", "updated"},
               pc' = [pc EXCEPT ![t] = l],
               \/ changes' = changes /\ \A u \in Thread \ {t} : hit'[u] = hit[u]
               \/ \A u \in Thread \ {t} : pc[u] \notin {"removed", "updated"}
        PROVE  ChangesAreMine'
    <2>1. \A u \in Thread : pc'[u] = IF u = t THEN l ELSE pc[u]
      BY <1>0, <1>1 DEF TypeOK
    <2> QED
      BY <1>1, <2>1 DEF ChangesAreMine
  <1>2. ASSUME NEW t \in Thread, pc[t] \in Critical \/ mutex = None
        PROVE  \A u \in Thread \ {t} : pc[u] \notin {"removed", "updated"}
    BY <1>0, <1>2 DEF LockInv, TypeOK, Critical
  <1>3. ASSUME NEW t \in Thread, Start(t) PROVE ChangesAreMine'
    BY <1>1, <1>3 DEF Start, StartCapture, StartImport, StartOnPrefix, StartPrune
  <1>4. ASSUME NEW t \in Thread, ResolveIdPrefix(t) \/ Load(t) \/ PlanAndExecute(t)
        PROVE  ChangesAreMine'
    <2>1. \A u \in Thread \ {t} : pc[u] \notin {"removed", "updated"}
      BY <1>2, <1>4 DEF ResolveIdPrefix, Load, PlanAndExecute
    <2> QED
      BY <1>1, <1>4, <2>1 DEF ResolveIdPrefix, Load, PlanAndExecute
  <1>5. ASSUME NEW t \in Thread, ImportCollision(t) \/ Begin(t) PROVE ChangesAreMine'
    <2>1. \A u \in Thread \ {t} : pc[u] \notin {"removed", "updated"}
      BY <1>2, <1>5 DEF ImportCollision, Begin
    <2> QED
      BY <1>1, <1>5, <2>1 DEF ImportCollision, Begin
  <1>6. ASSUME NEW t \in Thread, InsertRow(t) \/ InsertPart(t) \/ InsertIndex(t)
        PROVE  ChangesAreMine'
    <2>1. \A u \in Thread \ {t} : pc[u] \notin {"removed", "updated"}
      BY <1>2, <1>6 DEF InsertRow, InsertPart, InsertIndex, Critical, InTransaction
    <2> QED
      BY <1>1, <1>6, <2>1 DEF InsertRow, InsertPart, InsertIndex
  <1>7. ASSUME NEW t \in Thread, Commit(t) \/ Abort(t) PROVE ChangesAreMine'
    <2>1. \A u \in Thread \ {t} : pc[u] \notin {"removed", "updated"}
      BY <1>2, <1>7 DEF Commit, Abort, Critical, InTransaction
    <2>2. EndOfTransaction(t, TRUE) \/ EndOfTransaction(t, FALSE)
      BY <1>7 DEF Commit, Abort
    <2> QED
      BY <1>1, <2>1, <2>2 DEF EndOfTransaction
  <1>8. ASSUME NEW t \in Thread, PruneByAge(t) \/ PruneByCount(t) PROVE ChangesAreMine'
    <2>1. \A u \in Thread \ {t} : pc[u] \notin {"removed", "updated"}
      BY <1>2, <1>8 DEF PruneByAge, PruneByCount, Critical, InTransaction
    <2> QED
      BY <1>1, <1>8, <2>1 DEF PruneByAge, PruneByCount, PruneWith
  <1>9. ASSUME NEW t \in Thread, Remove(t) \/ UpdateMetadata(t) PROVE ChangesAreMine'
    <2>1. \A u \in Thread \ {t} : pc[u] \notin {"removed", "updated"}
      BY <1>2, <1>9 DEF Remove, UpdateMetadata
    <2>2. CASE Return(t, "error")
      BY <1>1, <2>1, <2>2
    <2>3. ASSUME NEW l \in {"removed", "updated"}, pc' = [pc EXCEPT ![t] = l],
                 hit' = [hit EXCEPT ![t] = target[t] \in Rows(db)],
                 changes' = IF target[t] \in Rows(db) THEN 1 ELSE 0
          PROVE  ChangesAreMine'
      <3>1. \A u \in Thread : pc'[u] \in {"removed", "updated"} => u = t
        BY <1>0, <2>1, <2>3 DEF TypeOK
      <3>2. hit'[t] = (target[t] \in Rows(db))
        BY <1>0, <2>3 DEF TypeOK
      <3>3. changes' # 0 <=> target[t] \in Rows(db)
        BY <2>3
      <3> QED
        BY <3>1, <3>2, <3>3, Zenon DEF ChangesAreMine
    <2> QED
      BY <1>9, <2>2, <2>3 DEF Remove, UpdateMetadata
  <1>10. ASSUME NEW t \in Thread, RemoveAnswers(t) \/ UpdateAnswers(t) \/ Reindex(t)
         PROVE  ChangesAreMine'
    <2>1. \A u \in Thread \ {t} : pc[u] \notin {"removed", "updated"}
      BY <1>2, <1>10 DEF RemoveAnswers, UpdateAnswers, Reindex, Critical
    <2> QED
      BY <1>1, <1>10, <2>1 DEF RemoveAnswers, UpdateAnswers, Reindex
  <1>11. ASSUME NEW t \in Thread, Audit(t) PROVE ChangesAreMine'
    <2>1. "restore" \in Ops[t]
      BY <1>11 DEF Audit, OpInv
    <2>2. ASSUME NEW u \in Thread \ {t} PROVE pc[u] \notin {"removed", "updated"}
      BY <2>1 DEF AuditsApart, OpInv
    <2> QED
      BY <1>1, <1>11, <2>2 DEF Audit
  <1>12. CASE Tick \/ CrashRestart \/ UNCHANGED vars
    BY <1>12 DEF Tick, CrashRestart, vars, ChangesAreMine
  <1> QED
    BY <1>3, <1>4, <1>5, <1>6, <1>7, <1>8, <1>9, <1>10, <1>11, <1>12 DEF Next, Serve

\* remove and update_metadata answer for their own statement: whatever else runs, what they
\* read from sqlite3_changes() says whether their DELETE or UPDATE matched a row, as long
\* as no other thread can be inserting the audit row of a restore, which takes no lock.
THEOREM AnswersAreTheirOwn ==
    ASSUME AuditsApart
    PROVE  Spec => []ChangesAreMine
  <1>1. Init => OpInv /\ ChangesAreMine
    BY RepositoryAssumption DEF Init, OpInv, ChangesAreMine
  <1>2. Consistent /\ OpInv /\ ChangesAreMine /\ [Next]_vars => OpInv' /\ ChangesAreMine'
    BY OpStep, CountStep DEF Consistent
  <1> QED
    BY <1>1, <1>2, Consistency, PTL DEF Spec
\* Most statements bring no metadata that is not in one of the two views; an INSERT or
\* UPDATE writes one row.
MetaKept ==
    \A i \in Id : /\ db'.meta[i] \in {None, db.meta[i], disk.meta[i]}
                  /\ disk'.meta[i] \in {None, db.meta[i], disk.meta[i]}
MetaPut(i, m) ==
    /\ db'.meta = [db.meta EXCEPT ![i] = m]
    /\ disk'.meta = disk.meta \/ disk'.meta = db'.meta

LEMMA MetaStep ==
    ASSUME Consistent, NEW t \in Thread, Start(t) \/ Serve(t)
    PROVE  \/ MetaKept
           \/ InsertRow(t) /\ db.meta[target[t]] = None /\ MetaPut(target[t], draft[t])
           \/ /\ UpdateMetadata(t) /\ target[t] \in Rows(db) /\ Goto(t, "updated")
              /\ MetaPut(target[t], [draft[t] EXCEPT !.created = db.meta[target[t]].created])
  <1> USE RepositoryAssumption
  <1>0. TypeOK /\ JobInv /\ db \in Tables /\ disk \in Tables
    BY DEF Consistent, TypeOK
  <1>1. ASSUME db'.meta \in {db.meta, disk.meta}, disk'.meta \in {db'.meta, disk.meta}
        PROVE  MetaKept
    BY <1>1 DEF MetaKept
  <1>2. ASSUME NEW D, Exec(Without(db, D)) PROVE MetaKept
    BY <1>2 DEF Exec, Without, MetaKept
  <1>3. ASSUME NEW i \in Id, IndexForSearch(i) PROVE MetaKept
    <2>1. CASE Exec([db EXCEPT !.fts[i] = @ + 1])
      BY <1>0, <1>1, <2>1, IndexWrite DEF Exec
    <2> QED
      BY <1>1, <1>3, <2>1 DEF IndexForSearch
  <1>4. ASSUME UNCHANGED <<db, disk>> PROVE MetaKept
    BY <1>1, <1>4
  <1>5. CASE Start(t) \/ ResolveIdPrefix(t) \/ Load(t) \/ ImportCollision(t) \/ Begin(t)
    BY <1>4, <1>5 DEF Start, StartCapture, StartImport, StartOnPrefix, StartPrune, Accept,
                      ResolveIdPrefix, Load, ImportCollision, Begin, store
  <1>6. CASE InsertRow(t)
    <2>1. target[t] \in Id /\ draft[t] \in Meta
      BY <1>0, <1>6 DEF InsertRow, JobInv
    <2>2. CASE Exec([db EXCEPT !.meta[target[t]] = draft[t]]) /\ db.meta[target[t]] = None
      <3>1. MetaPut(target[t], draft[t])
        BY <1>0, <2>1, <2>2, MetaWrite DEF Exec, MetaPut
      <3> QED
        BY <1>6, <2>2, <3>1
    <2> QED
      BY <1>4, <1>6, <2>2 DEF InsertRow, Fails
  <1>7. CASE InsertPart(t)
    <2> DEFINE done == db.parts[target[t]] \cup NextParts(db.parts[target[t]])
    <2>1. target[t] \in Id
      BY <1>0, <1>7 DEF InsertPart, JobInv
    <2>2. done \in SUBSET Part
      BY <1>0, <2>1 DEF Tables, NextParts, Part
    <2>3. CASE Exec([db EXCEPT !.parts[target[t]] = done])
      <3> HIDE DEF done
      <3> QED
        BY <1>0, <1>1, <2>1, <2>2, <2>3, PartsWrite DEF Exec
    <2> QED
      BY <1>4, <1>7, <2>3 DEF InsertPart, Fails
  <1>8. CASE InsertIndex(t) \/ Reindex(t)
    <2>1. target[t] \in Id
      BY <1>0, <1>8 DEF InsertIndex, Reindex, JobInv
    <2> QED
      BY <1>3, <1>4, <1>8, <2>1 DEF InsertIndex, Reindex
  <1>9. CASE Commit(t) \/ Abort(t)
    BY <1>1, <1>9 DEF Commit, Abort, RollBack
  <1>10. CASE PruneByAge(t) \/ PruneByCount(t)
    BY <1>2, <1>4, <1>10 DEF PruneByAge, PruneByCount, PruneWith, Fails, store
  <1>11. CASE Remove(t) \/ RemoveAnswers(t) \/ UpdateAnswers(t) \/ PlanAndExecute(t)
    BY <1>2, <1>4, <1>11 DEF Remove, RemoveAnswers, UpdateAnswers, PlanAndExecute, store
  <1>12. CASE UpdateMetadata(t)
    <2> DEFINE m == [draft[t] EXCEPT !.created = db.meta[target[t]].created]
    <2>1. CASE /\ target[t] \in Rows(db) /\ Goto(t, "updated")
               /\ Exec([db EXCEPT !.meta[target[t]] = m])
      <3>1. target[t] \in Id /\ db.meta[target[t]] \in Meta /\ draft[t] \in Meta
        BY <1>0, <1>12, <2>1 DEF UpdateMetadata, Rows, JobInv, Tables
      <3>2. m \in Meta
        BY <3>1 DEF Meta
      <3>3. MetaPut(target[t], m)
        <4> HIDE DEF m
        <4> QED
          BY <1>0, <2>1, <3>1, <3>2, MetaWrite DEF Exec, MetaPut
      <3> QED
        BY <1>12, <2>1, <3>3
    <2> QED
      BY <1>4, <1>12, <2>1 DEF UpdateMetadata
  <1>13. CASE Audit(t)
    <2> DEFINE e == [thread |-> t, id |-> target[t]]
    <2>1. CASE target[t] \in Rows(db) /\ Exec([db EXCEPT !.events = @ \cup {e}])
      <3>1. e \in Event
        BY <2>1 DEF Event, Rows
      <3> HIDE DEF e
      <3> QED
        BY <1>0, <1>1, <2>1, <3>1, EventWrite DEF Exec
    <2> QED
      BY <1>4, <1>13, <2>1 DEF Audit
  <1> QED
    BY <1>5, <1>6, <1>7, <1>8, <1>9, <1>10, <1>11, <1>12, <1>13 DEF Serve

\* Nothing is imported, and one thread is asked for edits.
NoImports == \A t \in Thread : "import" \notin Ops[t]
Editing == {"rename", "tag", "favorite"}
OneEditor ==
    \A t, u \in Thread : Ops[t] \cap Editing # {} /\ Ops[u] \cap Editing # {} => t = u

\* A capture's id stays its own until its row is in.
LEMMA IdStep ==
    ASSUME NoImports, Consistent, OpInv, IdInv, [Next]_vars
    PROVE  IdInv'
  <1> USE RepositoryAssumption
  <1> USE DEF Goto, Continue, Return, Fails, Accept, store, job, bounds, Labels
  <1>0. TypeOK /\ JobInv /\ db \in Tables /\ disk \in Tables
    BY DEF Consistent, TypeOK
  <1>1. MetaKept => Rows(db') \cup Rows(disk') \subseteq Rows(db) \cup Rows(disk)
    BY DEF MetaKept, Rows
  <1>2. ASSUME NEW u \in Thread, op[u] = "capture", pc[u] \in {"insert", "row"}
        PROVE  /\ target[u] \in Id /\ target[u] \notin Rows(db) \cup Rows(disk)
               /\ \A v \in Thread \ {u} : target[v] # target[u]
    BY <1>0, <1>2 DEF IdInv, JobInv
  <1>3. ASSUME NEW t \in Thread, MetaKept, NEW l \in Labels, pc' = [pc EXCEPT ![t] = l],
               seen' = seen, l \notin {"insert", "row"} \/ (pc[t] = "insert" /\ l = "row"),
               \A u \in Thread \ {t} : op'[u] = op[u] /\ target'[u] = target[u],
               \/ target'[t] = target[t] /\ op'[t] = op[t]
               \/ target'[t] \in Rows(db) \cup {None} /\ l \notin {"insert", "row"}
        PROVE  IdInv'
    <2>1. \A u \in Thread : pc'[u] = IF u = t THEN l ELSE pc[u]
      BY <1>0, <1>3 DEF TypeOK
    <2>2. Rows(db') \cup Rows(disk') \subseteq Rows(db) \cup Rows(disk)
      BY <1>1, <1>3
    <2>3. ASSUME NEW u \in Thread, op'[u] = "capture", pc'[u] \in {"insert", "row"}
          PROVE  /\ target'[u] \notin Rows(db') \cup Rows(disk')
                 /\ \A v \in Thread \ {u} : target'[v] # target'[u]
      <3>1. op[u] = "capture" /\ pc[u] \in {"insert", "row"} /\ target'[u] = target[u]
        BY <1>3, <2>1, <2>3
      <3>2. ASSUME NEW v \in Thread \ {u} PROVE target'[v] # target'[u]
        <4>1. CASE v = t
          BY <1>2, <1>3, <3>1, <4>1
        <4>2. CASE v # t
          BY <1>2, <1>3, <3>1, <4>2
        <4> QED
          BY <4>1, <4>2
      <3> QED
        BY <1>2, <2>2, <3>1, <3>2
    <2>4. \A u \in Thread : target'[u] \in seen \cup {None}
      BY <1>3 DEF IdInv
    <2> QED
      BY <1>3, <2>2, <2>3, <2>4 DEF IdInv
  <1>4. ASSUME NEW t \in Thread, StartCapture(t) PROVE IdInv'
    <2>1. PICK i \in Id \ seen : target' = [target EXCEPT ![t] = i] /\ seen' = seen \cup {i}
      BY <1>4 DEF StartCapture
    <2>2. \A u \in Thread : target'[u] = IF u = t THEN i ELSE target[u]
      BY <1>0, <2>1 DEF TypeOK
    <2>3. \A u \in Thread \ {t} : op'[u] = op[u] /\ pc'[u] = pc[u]
      BY <1>0, <1>4 DEF StartCapture, TypeOK
    <2>4. \A u \in Thread : target[u] \in seen \cup {None}
      BY DEF IdInv
    <2>5. i \notin Rows(db) \cup Rows(disk) /\ i # None /\ UNCHANGED <<db, disk>>
      BY <1>4, <2>1 DEF IdInv, StartCapture
    <2>6. Rows(db)' = Rows(db) /\ Rows(disk)' = Rows(disk)
      BY <2>5 DEF Rows
    <2>7. ASSUME NEW u \in Thread, op'[u] = "capture", pc'[u] \in {"insert", "row"}
          PROVE  /\ target'[u] \notin Rows(db) \cup Rows(disk)
                 /\ \A v \in Thread \ {u} : target'[v] # target'[u]
      <3>1. CASE u = t
        BY <2>1, <2>2, <2>4, <2>5, <3>1
      <3>2. CASE u # t
        <4>1. op[u] = "capture" /\ pc[u] \in {"insert", "row"} /\ target'[u] = target[u]
          BY <2>2, <2>3, <2>7, <3>2
        <4> QED
          BY <1>2, <2>1, <2>2, <2>4, <4>1, <3>2
      <3> QED
        BY <3>1, <3>2
    <2> QED
      BY <2>1, <2>2, <2>4, <2>6, <2>7 DEF IdInv
  <1>5. ASSUME NEW t \in Thread, StartImport(t) \/ ImportCollision(t) PROVE IdInv'
    BY <1>5 DEF StartImport, ImportCollision, NoImports, OpInv
  <1>6. ASSUME NEW t \in Thread, StartOnPrefix(t) \/ StartPrune(t) PROVE IdInv'
    <2>1. UNCHANGED <<db, disk, target, seen>>
      BY <1>6 DEF StartOnPrefix, StartPrune
    <2>2. PICK l \in {"resolve", "prune"} : pc' = [pc EXCEPT ![t] = l]
      BY <1>6 DEF StartOnPrefix, StartPrune
    <2>3. \A u \in Thread : pc'[u] = IF u = t THEN l ELSE pc[u]
      BY <1>0, <2>2 DEF TypeOK
    <2>4. \A u \in Thread \ {t} : op'[u] = op[u]
      BY <1>0, <1>6 DEF StartOnPrefix, StartPrune, TypeOK
    <2>5. Rows(db)' = Rows(db) /\ Rows(disk)' = Rows(disk)
      BY <2>1 DEF Rows
    <2> QED
      BY <2>1, <2>3, <2>4, <2>5 DEF IdInv
  <1>7. ASSUME NEW t \in Thread, Serve(t), MetaKept, ~ImportCollision(t) PROVE IdInv'
    <2>1. ASSUME NEW l \in Labels, NEW r, Continue(t, l) \/ Return(t, r)
          PROVE  \A u \in Thread \ {t} : op'[u] = op[u] /\ target'[u] = target[u]
      BY <1>0, <2>1 DEF TypeOK
    <2>2. ASSUME NEW r, Return(t, r), seen' = seen PROVE IdInv'
      <3>1. target'[t] = None /\ pc' = [pc EXCEPT ![t] = "idle"]
        BY <1>0, <2>2 DEF TypeOK
      <3> QED
        BY <1>3, <1>7, <2>1, <2>2, <3>1
    <2>3. ASSUME NEW l \in Labels, Continue(t, l), seen' = seen,
                 l \notin {"insert", "row"} \/ (pc[t] = "insert" /\ l = "row")
          PROVE  IdInv'
      BY <1>3, <1>7, <2>1, <2>3
    <2>4. CASE ResolveIdPrefix(t)
      <3>1. ASSUME NEW i \in Rows(db), target' = [target EXCEPT ![t] = i], op' = op,
                   NEW l \in {"remove", "load"}, Goto(t, l), seen' = seen
            PROVE  IdInv'
        <4>1. target'[t] = i /\ \A u \in Thread \ {t} : target'[u] = target[u]
          BY <1>0, <3>1 DEF TypeOK
        <4>2. /\ target'[t] \in Rows(db) \cup {None} /\ l \notin {"insert", "row"}
              /\ l \in Labels /\ pc' = [pc EXCEPT ![t] = l]
              /\ \A u \in Thread \ {t} : op'[u] = op[u] /\ target'[u] = target[u]
          BY <3>1, <4>1
        <4> QED
          BY <1>3, <1>7, <3>1, <4>2
      <3> QED
        BY <2>2, <2>4, <3>1 DEF ResolveIdPrefix
    <2>5. CASE Load(t) \/ UpdateMetadata(t) \/ Remove(t)
      <3>1. ASSUME NEW l \in {"update", "updated", "removed"}, Goto(t, l), op' = op,
                   target' = target, seen' = seen
            PROVE  IdInv'
        BY <1>3, <1>7, <3>1
      <3> QED
        BY <2>2, <2>3, <2>5, <3>1 DEF Load, UpdateMetadata, Remove
    <2>6. CASE Begin(t) \/ InsertRow(t) \/ InsertPart(t) \/ InsertIndex(t)
      BY <2>3, <2>6 DEF Begin, InsertRow, InsertPart, InsertIndex
    <2>7. CASE Commit(t) \/ Abort(t)
      <3>1. EndOfTransaction(t, TRUE) \/ EndOfTransaction(t, FALSE)
        BY <2>7 DEF Commit, Abort
      <3> QED
        BY <2>2, <2>3, <3>1 DEF EndOfTransaction
    <2>8. CASE PruneByAge(t) \/ PruneByCount(t)
      BY <2>3, <2>8 DEF PruneByAge, PruneByCount, PruneWith
    <2>9. CASE RemoveAnswers(t) \/ UpdateAnswers(t) \/ Reindex(t) \/ PlanAndExecute(t) \/ Audit(t)
      BY <2>2, <2>3, <2>9 DEF RemoveAnswers, UpdateAnswers, Reindex, PlanAndExecute, Audit
    <2> QED
      BY <1>7, <2>4, <2>5, <2>6, <2>7, <2>8, <2>9 DEF Serve
  <1>8. ASSUME NEW t \in Thread, InsertRow(t), db.meta[target[t]] = None,
               MetaPut(target[t], draft[t])
        PROVE  IdInv'
    <2>1. op[t] = "capture" /\ pc[t] = "row" /\ target[t] \in Id
      BY <1>0, <1>8 DEF InsertRow, OpInv, NoImports, JobInv
    <2>2. Rows(db') \cup Rows(disk') \subseteq Rows(db) \cup Rows(disk) \cup {target[t]}
      BY <1>0, <1>8, <2>1 DEF MetaPut, Rows, Tables
    <2>3. \A u \in Thread \ {t} : pc'[u] = pc[u]
      BY <1>0, <1>8 DEF InsertRow, TypeOK
    <2>4. pc'[t] \notin {"insert", "row"} /\ UNCHANGED <<op, target, seen>>
      BY <1>0, <1>8 DEF InsertRow, TypeOK
    <2>5. target[t] \in seen
      BY <2>1 DEF IdInv
    <2> QED
      BY <1>2, <2>1, <2>2, <2>3, <2>4, <2>5 DEF IdInv
  <1>9. ASSUME NEW t \in Thread, UpdateMetadata(t), target[t] \in Rows(db), Goto(t, "updated"),
               NEW m, MetaPut(target[t], m)
        PROVE  IdInv'
    <2>1. Rows(db') \cup Rows(disk') \subseteq Rows(db) \cup Rows(disk)
      BY <1>0, <1>9 DEF MetaPut, Rows, Tables
    <2>2. \A u \in Thread : pc'[u] = IF u = t THEN "updated" ELSE pc[u]
      BY <1>0, <1>9 DEF TypeOK
    <2>3. UNCHANGED <<op, target, seen>>
      BY <1>0, <1>9, <2>2 DEF UpdateMetadata, TypeOK
    <2> QED
      BY <1>2, <2>1, <2>2, <2>3 DEF IdInv
  <1>10. CASE Tick \/ CrashRestart \/ UNCHANGED vars
    BY <1>10 DEF Tick, CrashRestart, vars, IdInv, Rows
  <1>11. ASSUME NEW t \in Thread, Serve(t) PROVE IdInv'
    BY <1>5, <1>7, <1>8, <1>9, <1>11, MetaStep, ZenonT(60)
  <1> QED
    BY <1>4, <1>5, <1>6, <1>10, <1>11 DEF Next, Start
\* What an edit will write stays what its row says until it is written.
LEMMA EditStep ==
    ASSUME NoImports, OneEditor, Consistent, OpInv, IdInv, EditInv, [Next]_vars
    PROVE  EditInv'
  <1> USE RepositoryAssumption
  <1> USE DEF Goto, Continue, Return, Fails, Accept, store, job, bounds, Labels
  <1>0. TypeOK /\ JobInv /\ LockInv /\ db \in Tables /\ disk \in Tables
    BY DEF Consistent, TypeOK
  <1>1. ASSUME NEW u \in Thread, pc[u] = "update", NEW i \in Id, target[u] = i,
               db'.meta[i] \in {None, db.meta[i], disk.meta[i]},
               disk'.meta[i] \in {None, db.meta[i], disk.meta[i]},
               op'[u] = op[u], target'[u] = target[u], draft'[u] = draft[u]
        PROVE  DraftOf(u, db)' /\ DraftOf(u, disk)'
    BY <1>1, SMTT(30) DEF EditInv, DraftOf, Rows
  <1>2. ASSUME NEW t \in Thread, Start(t) \/ Serve(t), NEW u \in Thread, pc'[u] = "update",
               pc[u] = "update"
        PROVE  u # t /\ op'[u] = op[u] /\ target'[u] = target[u] /\ draft'[u] = draft[u]
    <2>1. u # t
      <3>1. CASE Start(t)
        BY <1>0, <1>2, <3>1
           DEF TypeOK, Start, StartCapture, StartImport, StartOnPrefix, StartPrune
      <3>2. CASE ResolveIdPrefix(t) \/ Load(t) \/ ImportCollision(t) \/ Begin(t)
                 \/ InsertRow(t) \/ InsertPart(t) \/ InsertIndex(t)
        BY <1>0, <1>2, <3>2
           DEF TypeOK, ResolveIdPrefix, Load, ImportCollision, Begin, InsertRow, InsertPart,
               InsertIndex
      <3>3. CASE Commit(t) \/ Abort(t) \/ PruneByAge(t) \/ PruneByCount(t)
        BY <1>0, <1>2, <3>3
           DEF TypeOK, Commit, Abort, EndOfTransaction, PruneByAge, PruneByCount, PruneWith
      <3>4. CASE Remove(t) \/ RemoveAnswers(t) \/ UpdateMetadata(t) \/ UpdateAnswers(t)
                 \/ Reindex(t) \/ PlanAndExecute(t) \/ Audit(t)
        BY <1>0, <1>2, <3>4
           DEF TypeOK, Remove, RemoveAnswers, UpdateMetadata, UpdateAnswers, Reindex,
               PlanAndExecute, Audit
      <3> QED
        BY <1>2, <3>1, <3>2, <3>3, <3>4 DEF Serve
    <2>2. CASE Start(t)
      <3>1. CASE StartCapture(t)
        BY <1>0, <2>1, <3>1 DEF TypeOK, StartCapture
      <3>2. CASE StartImport(t)
        BY <1>0, <2>1, <3>2 DEF TypeOK, StartImport
      <3>3. CASE StartOnPrefix(t)
        BY <1>0, <2>1, <3>3 DEF TypeOK, StartOnPrefix
      <3>4. CASE StartPrune(t)
        BY <1>0, <2>1, <3>4 DEF TypeOK, StartPrune
      <3> QED
        BY <2>2, <3>1, <3>2, <3>3, <3>4 DEF Start
    <2>3. CASE ResolveIdPrefix(t) \/ Load(t) \/ ImportCollision(t) \/ Begin(t)
               \/ InsertRow(t) \/ InsertPart(t) \/ InsertIndex(t)
      BY <1>0, <2>1, <2>3
         DEF TypeOK, ResolveIdPrefix, Load, ImportCollision, Begin, InsertRow, InsertPart,
             InsertIndex
    <2>4. CASE Commit(t) \/ Abort(t) \/ PruneByAge(t) \/ PruneByCount(t)
      BY <1>0, <2>1, <2>4
         DEF TypeOK, Commit, Abort, EndOfTransaction, PruneByAge, PruneByCount, PruneWith
    <2>5. CASE Remove(t) \/ RemoveAnswers(t) \/ UpdateMetadata(t) \/ UpdateAnswers(t)
               \/ Reindex(t) \/ PlanAndExecute(t) \/ Audit(t)
      BY <1>0, <2>1, <2>5
         DEF TypeOK, Remove, RemoveAnswers, UpdateMetadata, UpdateAnswers, Reindex,
             PlanAndExecute, Audit
    <2> QED
      BY <1>2, <2>1, <2>2, <2>3, <2>4, <2>5 DEF Serve
  <1>3. ASSUME NEW t \in Thread, Start(t) \/ Serve(t), NEW u \in Thread, pc'[u] = "update",
               pc[u] = "update"
        PROVE  DraftOf(u, db)' /\ DraftOf(u, disk)'
    <2>1. u # t /\ op'[u] = op[u] /\ target'[u] = target[u] /\ draft'[u] = draft[u]
      BY <1>2, <1>3
    <2>2. target[u] \in Id
      BY <1>0, <1>3 DEF JobInv
    <2>3. CASE MetaKept
      BY <1>1, <1>3, <2>1, <2>2, <2>3 DEF MetaKept
    <2>4. CASE InsertRow(t) /\ MetaPut(target[t], draft[t])
      <3>1. op[t] = "capture" /\ pc[t] = "row" /\ target[t] \in Id
        BY <1>0, <2>4 DEF InsertRow, OpInv, NoImports, JobInv
      <3>2. target[u] # target[t]
        BY <2>1, <3>1 DEF IdInv
      <3>3. db'.meta[target[u]] = db.meta[target[u]]
        BY <1>0, <2>2, <2>4, <3>1, <3>2 DEF MetaPut, Tables
      <3>4. disk'.meta[target[u]] \in {db.meta[target[u]], disk.meta[target[u]]}
        BY <2>4, <3>3 DEF MetaPut
      <3> QED
        BY <1>1, <1>3, <2>1, <2>2, <3>3, <3>4
    <2>5. CASE UpdateMetadata(t)
      <3>1. op[u] \in Editing /\ op[u] \in Ops[u]
        BY <1>3 DEF OpInv, Editing
      <3>2. op[t] \in Editing /\ op[t] \in Ops[t]
        BY <2>5 DEF OpInv, UpdateMetadata, Editing
      <3> QED
        BY <2>1, <3>1, <3>2 DEF OneEditor
    <2> QED
      BY <1>3, <2>3, <2>4, <2>5, MetaStep
  <1>4. ASSUME NEW t \in Thread, Start(t) \/ Serve(t), NEW u \in Thread, pc'[u] = "update",
               pc[u] # "update"
        PROVE  DraftOf(u, db)' /\ DraftOf(u, disk)'
    <2>1. Load(t) /\ u = t
      <3>1. CASE Start(t)
        BY <1>0, <1>4, <3>1
           DEF TypeOK, Start, StartCapture, StartImport, StartOnPrefix, StartPrune
      <3>2. CASE ResolveIdPrefix(t) \/ ImportCollision(t) \/ Begin(t)
                 \/ InsertRow(t) \/ InsertPart(t) \/ InsertIndex(t)
        BY <1>0, <1>4, <3>2
           DEF TypeOK, ResolveIdPrefix, ImportCollision, Begin, InsertRow, InsertPart,
               InsertIndex
      <3>3. CASE Commit(t) \/ Abort(t) \/ PruneByAge(t) \/ PruneByCount(t)
        BY <1>0, <1>4, <3>3
           DEF TypeOK, Commit, Abort, EndOfTransaction, PruneByAge, PruneByCount, PruneWith
      <3>4. CASE Remove(t) \/ RemoveAnswers(t) \/ UpdateMetadata(t) \/ UpdateAnswers(t)
                 \/ Reindex(t) \/ PlanAndExecute(t) \/ Audit(t)
        BY <1>0, <1>4, <3>4
           DEF TypeOK, Remove, RemoveAnswers, UpdateMetadata, UpdateAnswers, Reindex,
               PlanAndExecute, Audit
      <3>5. CASE Load(t)
        BY <1>0, <1>4, <3>5 DEF TypeOK, Load
      <3> QED
        BY <1>4, <3>1, <3>2, <3>3, <3>4, <3>5 DEF Serve
    <2>2. /\ mutex = None /\ UNCHANGED <<db, disk, op, target>>
          /\ db.meta[target[t]] # None /\ op[t] \in Editing
          /\ \E m \in Edits(op[t], db.meta[target[t]]) : draft' = [draft EXCEPT ![t] = m]
      BY <1>0, <1>4, <2>1 DEF Load, TypeOK, Editing
    <2>3. db = disk
      BY <1>0, <2>2 DEF LockInv, TypeOK, Critical
    <2>4. target[t] \in Id /\ db.meta[target[t]] \in Meta
      <3>1. target[t] \in Id
        BY <1>0, <2>1 DEF Load, JobInv
      <3> QED
        BY <1>0, <2>2, <3>1 DEF Tables
    <2>5. /\ op[t] # "favorite" => draft'[t].favorite = db.meta[target[t]].favorite
          /\ op[t] # "rename" => draft'[t].name = db.meta[target[t]].name
      <3>1. PICK m \in Edits(op[t], db.meta[target[t]]) : draft'[t] = m
        BY <1>0, <2>2 DEF TypeOK
      <3> QED
        BY <2>2, <2>4, <3>1 DEF Edits, Meta, Editing
    <2> QED
      BY <2>1, <2>2, <2>3, <2>5 DEF DraftOf, Rows
  <1>5. CASE Tick \/ CrashRestart \/ UNCHANGED vars
    BY <1>5 DEF Tick, CrashRestart, vars, EditInv, DraftOf, Rows
  <1>6. ASSUME NEW t \in Thread, Start(t) \/ Serve(t) PROVE EditInv'
    BY <1>3, <1>4, <1>6 DEF EditInv
  <1> QED
    BY <1>5, <1>6 DEF Next

\* Only an edit changes the metadata of a snapshot that stays on disk.
LEMMA RowsOnDisk ==
    ASSUME Consistent, StoreInv, NEW t \in Thread, Serve(t), ~UpdateMetadata(t),
           NEW i \in Rows(disk) \cap Rows(disk')
    PROVE  disk'.meta[i] = disk.meta[i]
  <1>0. TypeOK /\ LockInv /\ JobInv /\ db \in Tables /\ i \in Id
    BY DEF Consistent, TypeOK, Rows
  <1>1. CASE UNCHANGED disk
    BY <1>1
  <1>2. CASE ~open
    <2>1. db = disk
      BY <1>0, <1>2 DEF LockInv
    <2>2. CASE MetaKept
      BY <1>0, <2>1, <2>2 DEF MetaKept, Rows
    <2>3. CASE InsertRow(t) /\ db.meta[target[t]] = None /\ MetaPut(target[t], draft[t])
      <3>1. i # target[t]
        BY <2>1, <2>3 DEF Rows
      <3> QED
        BY <1>0, <2>1, <2>3, <3>1 DEF MetaPut, Tables
    <2> QED
      BY <2>2, <2>3, MetaStep
  <1>3. CASE Commit(t)
    <2>1. CASE active[t] /\ disk' = db
      <3>1. pc[t] \in {"commit", "prune_commit"} /\ TxnInv
        BY <1>3 DEF Commit, StoreInv
      <3> QED
        BY <1>0, <2>1, <3>1 DEF TxnInv, SameIn, Rows
    <2> QED
      BY <1>1, <1>3, <2>1 DEF Commit, RollBack
  <1>4. CASE open /\ ~Commit(t)
    <2> USE <1>4 DEF Fails, store
    <2>1. CASE ResolveIdPrefix(t) \/ Load(t) \/ ImportCollision(t) \/ Begin(t)
      BY <1>1, <2>1 DEF ResolveIdPrefix, Load, ImportCollision, Begin
    <2>2. CASE InsertRow(t) \/ InsertPart(t) \/ InsertIndex(t) \/ Abort(t)
      BY <1>1, <2>2 DEF InsertRow, InsertPart, InsertIndex, IndexForSearch, Exec, Abort, RollBack
    <2>3. CASE PruneByAge(t) \/ PruneByCount(t)
      BY <1>1, <2>3 DEF PruneByAge, PruneByCount, PruneWith, Exec
    <2>4. CASE Remove(t) \/ RemoveAnswers(t) \/ UpdateAnswers(t) \/ Reindex(t)
               \/ PlanAndExecute(t) \/ Audit(t)
      BY <1>1, <2>4 DEF Remove, RemoveAnswers, UpdateAnswers, Reindex, IndexForSearch,
                        PlanAndExecute, Audit, Exec
    <2> QED
      BY <2>1, <2>2, <2>3, <2>4 DEF Serve
  <1> QED
    BY <1>2, <1>3, <1>4

\* And an edit changes the field it was asked for.
LEMMA EditsOneField ==
    ASSUME Consistent, OpInv, EditInv, NEW t \in Thread, UpdateMetadata(t),
           NEW i \in Rows(disk) \cap Rows(disk')
    PROVE  /\ disk.meta[i].favorite # disk'.meta[i].favorite
              => pc[t] = "update" /\ pc'[t] = "updated" /\ op[t] = "favorite" /\ target[t] = i
           /\ disk.meta[i].name # disk'.meta[i].name
              => pc[t] = "update" /\ pc'[t] = "updated" /\ op[t] = "rename" /\ target[t] = i
  <1> USE RepositoryAssumption
  <1>0. /\ TypeOK /\ LockInv /\ JobInv /\ db \in Tables /\ i \in Id
        /\ pc[t] = "update" /\ mutex = None
    BY DEF Consistent, TypeOK, Rows, UpdateMetadata
  <1>1. ~open /\ db = disk
    BY <1>0 DEF LockInv, TypeOK, Critical
  <1>2. CASE UNCHANGED disk
    BY <1>2
  <1> DEFINE m == [draft[t] EXCEPT !.created = db.meta[target[t]].created]
  <1>3. CASE target[t] \in Rows(db) /\ Goto(t, "updated") /\ disk' = db'
             /\ MetaPut(target[t], m)
    <2>1. target[t] \in Id /\ draft[t] \in Meta /\ pc'[t] = "updated"
      BY <1>0, <1>3 DEF JobInv, Goto, TypeOK
    <2>2. m.favorite = draft[t].favorite /\ m.name = draft[t].name
      BY <2>1 DEF Meta
    <2>3. disk'.meta = [disk.meta EXCEPT ![target[t]] = m]
      BY <1>1, <1>3 DEF MetaPut
    <2> HIDE DEF m
    <2>4. i # target[t] => disk'.meta[i] = disk.meta[i]
      BY <1>0, <1>1, <2>3 DEF Tables
    <2>5. disk'.meta[target[t]] = m
      BY <1>0, <1>1, <2>1, <2>3 DEF Tables
    <2>6. /\ op[t] # "favorite" => draft[t].favorite = disk.meta[target[t]].favorite
          /\ op[t] # "rename" => draft[t].name = disk.meta[target[t]].name
      BY <1>0, <1>1, <1>3 DEF EditInv, DraftOf
    <2>7. CASE i = target[t]
      BY <1>0, <2>1, <2>2, <2>5, <2>6, <2>7
    <2> QED
      BY <2>4, <2>7
  <1>4. MetaKept \/ ~MetaKept
    OBVIOUS
  <1>5. CASE MetaKept
    BY <1>0, <1>1, <1>5 DEF MetaKept, Rows
  <1>6. CASE ~MetaKept
    <2>1. ~InsertRow(t)
      BY <1>0 DEF InsertRow
    <2>2. target[t] \in Rows(db) /\ Goto(t, "updated") /\ MetaPut(target[t], m)
      BY <1>6, <2>1, MetaStep DEF Serve
    <2>3. disk' = db' \/ UNCHANGED disk
      BY <1>1 DEF UpdateMetadata, Exec
    <2> QED
      BY <1>2, <1>3, <2>2, <2>3
  <1> QED
    BY <1>5, <1>6

\* A metadata edit changes the field it was asked for and no other: with one client editing
\* and nothing imported, the whole-row UPDATE of rename, set_tags and set_favorite never
\* puts back an older name or favourite flag, whatever is captured, pruned, deleted, fails
\* or crashes between its load and its write.
THEOREM EditsTouchOneField ==
    ASSUME NoImports, OneEditor
    PROVE  Spec => EditsKeepOtherFields
  <1> DEFINE Kept == Consistent /\ StoreInv /\ OpInv /\ IdInv /\ EditInv
  <1>1. Init => OpInv /\ IdInv /\ EditInv
    BY RepositoryAssumption DEF Init, OpInv, IdInv, EditInv, EmptyTables, Rows
  <1>2. Kept /\ [Next]_vars => OpInv' /\ IdInv' /\ EditInv'
    BY OpStep, IdStep, EditStep DEF Consistent
  <1>3. Spec => []Kept
    BY <1>1, <1>2, Storage, PTL DEF Spec
  <1> DEFINE Truly(i) ==
          /\ disk.meta[i].favorite # disk'.meta[i].favorite
             => \E t \in Thread : pc[t] = "update" /\ pc'[t] = "updated"
                                  /\ op[t] = "favorite" /\ target[t] = i
          /\ disk.meta[i].name # disk'.meta[i].name
             => \E t \in Thread : pc[t] = "update" /\ pc'[t] = "updated"
                                  /\ op[t] = "rename" /\ target[t] = i
  <1>4. ASSUME Kept, [Next]_vars, NEW i \in Rows(disk) \cap Rows(disk') PROVE Truly(i)
    <2>1. CASE UNCHANGED disk
      BY <2>1
    <2>2. ASSUME NEW t \in Thread, Start(t) PROVE UNCHANGED disk
      BY <2>2 DEF Start, StartCapture, StartImport, StartOnPrefix, StartPrune, Accept, store
    <2>3. ASSUME NEW t \in Thread, Serve(t), ~UpdateMetadata(t) PROVE Truly(i)
      BY <1>4, <2>3, RowsOnDisk
    <2>4. ASSUME NEW t \in Thread, UpdateMetadata(t) PROVE Truly(i)
      BY <1>4, <2>4, EditsOneField
    <2>5. CASE Tick \/ CrashRestart \/ UNCHANGED vars
      BY <2>1, <2>5 DEF Tick, CrashRestart, vars, store
    <2> QED
      BY <1>4, <2>1, <2>2, <2>3, <2>4, <2>5 DEF Next
  <1>5. Kept /\ [Next]_vars
        => [\A i \in Rows(disk) \cap Rows(disk') : Truly(i)]_vars
    BY <1>4
  <1> QED
    BY <1>3, <1>5, PTL DEF Spec, EditsKeepOtherFields
=============================================================================
