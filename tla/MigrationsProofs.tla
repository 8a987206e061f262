-------------------------- MODULE MigrationsProofs --------------------------
(***************************************************************************)
(* Proofs about Migrations, for any set of runners, files and images, and  *)
(* for every history a database may start with.  The argument: a session   *)
(* that is inside the critical section holds the lock (LockInv), so what   *)
(* its runner read is still what the database holds (LoopInv), so that a   *)
(* commit writes a free row (FreeRow); rows and executed migrations then   *)
(* grow together.                                                          *)
(***************************************************************************)
EXTENDS Migrations, TLAPS

Looping == {"file", "content", "insert", "commit"}

(* A session inside the critical section that the server has not ended. *)
LockInv(r) == pc[r] \in Inside /\ session[r] # "closed" => lock = r

(* What a runner in its loop knows of the files that are left. *)
LoopInv(r) ==
    /\ pc[r] \in Looping =>
         /\ left[r] \subseteq Files(r)
         /\ session[r] = "open" => \A f \in left[r] : rows[f] = recorded[r][f]
         /\ \A f \in left[r] : recorded[r][f] # None => rows[f] = recorded[r][f]
    /\ pc[r] \in {"content", "insert", "commit"} =>
         \E f \in Names : IsNext(r, f) /\ recorded[r][f] = None

(* The files a run is done with are recorded as its image contains them. *)
Handled(r) == \A f \in Files(r) \ left[r] : rows[f] = Directory[r][f]

DoneInv(r) ==
    /\ pc[r] \in Looping => Handled(r)
    /\ pc[r] = "rollback" => failure[r] = TRUE
    /\ pc[r] \in {"unlocking", "released"} /\ failure[r] = FALSE =>
         Handled(r) /\ left[r] = {}
    /\ pc[r] = "succeeded" => Handled(r) /\ left[r] = {}

RunnerInv(r) == LockInv(r) /\ LoopInv(r) /\ DoneInv(r)

IInv ==
    /\ TypeOK
    /\ RowsTellContents
    /\ AppliedOnce
    /\ \A r \in Runners : RunnerInv(r)

-----------------------------------------------------------------------------
(* A step of r that writes no row and at most takes or frees its own lock. *)
Local(r) ==
    /\ rows' = rows /\ executed' = executed
    /\ \/ lock' = lock
       \/ lock = r /\ lock' = None
       \/ lock = None /\ lock' = r
    /\ \A s \in Runners \ {r} :
         /\ pc'[s] = pc[s] /\ session'[s] = session[s]
         /\ recorded'[s] = recorded[s] /\ left'[s] = left[s]
         /\ failure'[s] = failure[s]

(* The next file of a loop is determined. *)
LEMMA NextUnique ==
    ASSUME TypeOK, NEW r \in Runners, NEW f \in Names, NEW g \in Names,
           IsNext(r, f), IsNext(r, g)
    PROVE  f = g
  BY NamesAssumption DEF TypeOK, IsNext

(* What a runner knows survives a step that leaves it and the rows alone. *)
LEMMA OthersFrame ==
    ASSUME IInv, NEW r \in Runners, Local(r), NEW s \in Runners \ {r}
    PROVE  RunnerInv(s)'
  <1>1. RunnerInv(s)
    BY DEF IInv
  <1>2. LockInv(s)'
    BY <1>1, ValuesAssumption DEF Local, RunnerInv, LockInv
  <1>3. LoopInv(s)'
    BY <1>1 DEF Local, RunnerInv, LoopInv, Files, IsNext
  <1>4. DoneInv(s)'
    BY <1>1 DEF Local, RunnerInv, DoneInv, Handled, Files
  <1> QED BY <1>2, <1>3, <1>4 DEF RunnerInv

(* A local step keeps the invariant if it keeps r's part. *)
LEMMA LocalStep ==
    ASSUME IInv, NEW r \in Runners, Local(r), TypeOK', RunnerInv(r)'
    PROVE  IInv'
  <1>1. RowsTellContents' /\ AppliedOnce'
    BY DEF IInv, Local, RowsTellContents, AppliedOnce
  <1> QED BY <1>1, OthersFrame DEF IInv

(* The file a live runner is about to record has no row yet. *)
LEMMA FreeRow ==
    ASSUME IInv, NEW r \in Runners, pc[r] \in {"content", "insert", "commit"},
           session[r] = "open"
    PROVE  \E f \in Names : /\ IsNext(r, f)
                            /\ f \in Files(r)
                            /\ rows[f] = None
  <1>1. PICK f \in Names : IsNext(r, f) /\ recorded[r][f] = None
    BY DEF IInv, RunnerInv, LoopInv
  <1>2. f \in left[r] /\ left[r] \subseteq Files(r)
    BY <1>1 DEF IInv, RunnerInv, LoopInv, IsNext, Looping
  <1>3. rows[f] = recorded[r][f]
    BY <1>2 DEF IInv, RunnerInv, LoopInv, Looping
  <1> QED BY <1>1, <1>2, <1>3

-----------------------------------------------------------------------------
(* Up to the loop no file is handled and nothing is known of the rows. *)
LEMMA PrologueStep ==
    ASSUME IInv, NEW r \in Runners,
           CheckVersion(r) \/ AcquireLock(r) \/ CreateTable(r) \/ EnsureChecksumColumn(r)
    PROVE  IInv'
  <1> USE DEF Awaits, Goto, Throw
  <1>1. TypeOK'
    BY DEF IInv, TypeOK, database, Locations, Inside, Tables,
           CheckVersion, AcquireLock, LockGranted, CreateTable, EnsureChecksumColumn
  <1>2. Local(r)
    BY DEF IInv, TypeOK, Local, database,
           CheckVersion, AcquireLock, LockGranted, CreateTable, EnsureChecksumColumn
  <1>3. LockInv(r)'
    BY DEF IInv, RunnerInv, TypeOK, LockInv, Inside, database,
           CheckVersion, AcquireLock, LockGranted, CreateTable, EnsureChecksumColumn
  <1>4. LoopInv(r)' /\ DoneInv(r)'
    BY DEF IInv, TypeOK, LoopInv, DoneInv, Looping, database,
           CheckVersion, AcquireLock, LockGranted, CreateTable, EnsureChecksumColumn
  <1> QED BY <1>1, <1>2, <1>3, <1>4, LocalStep DEF RunnerInv

(* What is read is what the database holds, and no file is handled yet. *)
LEMMA ReadHistoryStep ==
    ASSUME IInv, NEW r \in Runners, ReadHistory(r) PROVE IInv'
  <1> USE DEF Awaits, Goto, Throw, ReadHistory
  <1>1. TypeOK'
    BY DEF IInv, TypeOK, database, Locations, Inside, Files
  <1>2. Local(r)
    BY DEF IInv, TypeOK, Local, database
  <1>3. LockInv(r)'
    BY DEF IInv, RunnerInv, TypeOK, LockInv, Inside, database
  <1>4. CASE Missing(r)
    <2>1. LoopInv(r)' /\ DoneInv(r)'
      BY <1>4 DEF IInv, TypeOK, LoopInv, DoneInv, Looping
    <2> QED BY <2>1, <1>1, <1>2, <1>3, LocalStep DEF RunnerInv
  <1>5. CASE ~Missing(r)
    <2>1. pc'[r] = "file" /\ left'[r] = Files(r) /\ recorded'[r] = rows /\ rows' = rows
      BY <1>5 DEF IInv, TypeOK, database
    <2>2. LoopInv(r)' /\ DoneInv(r)'
      BY <2>1 DEF LoopInv, DoneInv, Handled, Looping, Files
    <2> QED BY <2>2, <1>1, <1>2, <1>3, LocalStep DEF RunnerInv
  <1> QED BY <1>4, <1>5

(* A file is handled without a statement if its record agrees with it. *)
LEMMA VerifyFileStep ==
    ASSUME IInv, NEW r \in Runners, VerifyFile(r) PROVE IInv'
  <1> USE DEF Goto, Throw
  <1>1. PICK f \in Names :
          /\ IsNext(r, f)
          /\ recorded[r][f] # None
          /\ IF Edited(r, f)
             THEN Throw(r, "unlocking") /\ UNCHANGED left
             ELSE /\ left' = [left EXCEPT ![r] = left[r] \ {f}]
                  /\ UNCHANGED <<pc, failure>>
    BY DEF VerifyFile
  <1>2. /\ pc[r] = "file" /\ UNCHANGED <<database, lock, session, recorded>>
        /\ RunnerInv(r)
    BY DEF VerifyFile, IInv
  <1>3. TypeOK'
    BY <1>1, <1>2 DEF IInv, TypeOK, database, Locations, Inside
  <1>4. Local(r)
    BY <1>1, <1>2 DEF IInv, TypeOK, Local, database
  <1>5. LockInv(r)'
    BY <1>1, <1>2 DEF IInv, TypeOK, RunnerInv, LockInv, Inside
  <1>6. CASE Edited(r, f)
    <2>1. LoopInv(r)' /\ DoneInv(r)'
      BY <1>1, <1>2, <1>6 DEF IInv, TypeOK, LoopInv, DoneInv, Looping
    <2> QED BY <2>1, <1>3, <1>4, <1>5, LocalStep DEF RunnerInv
  <1>7. CASE ~Edited(r, f)
    <2>1. /\ pc'[r] = "file" /\ left'[r] = left[r] \ {f} /\ f \in left[r]
          /\ rows' = rows /\ recorded' = recorded /\ session' = session
      BY <1>1, <1>2, <1>7 DEF IInv, TypeOK, database, IsNext
    <2>2. LoopInv(r)'
      BY <2>1, <1>2 DEF RunnerInv, LoopInv, Looping, Files
    <2>3. rows[f] = Directory[r][f]
      BY <2>1, <1>1, <1>2, <1>7 DEF RunnerInv, LoopInv, Looping, Edited
    <2>4. DoneInv(r)'
      BY <2>1, <2>3, <1>2 DEF RunnerInv, DoneInv, Handled, Looping, Files
    <2> QED BY <2>2, <2>4, <1>3, <1>4, <1>5, LocalStep DEF RunnerInv
  <1> QED BY <1>6, <1>7

(* The statements of a migration's transaction before its commit. *)
LEMMA TransactionStep ==
    ASSUME IInv, NEW r \in Runners,
           BeginMigration(r) \/ ExecuteContent(r) \/ InsertRecord(r) \/ CommitRejected(r)
    PROVE  IInv'
  <1> USE DEF Awaits, Goto, Throw
  <1>1. RunnerInv(r) /\ TypeOK
    BY DEF IInv
  <1>2. /\ pc[r] \in Looping
        /\ pc'[r] \in {"content", "insert", "commit", "rollback"}
        /\ UNCHANGED <<database, lock, session, recorded, left>>
    BY <1>1 DEF TypeOK, Looping, BeginMigration, ExecuteContent, InsertRecord, CommitRejected
  <1>3. TypeOK'
    BY <1>1 DEF TypeOK, database, Locations, Inside,
                BeginMigration, ExecuteContent, InsertRecord, CommitRejected
  <1>4. Local(r)
    BY <1>1 DEF TypeOK, Local, database,
                BeginMigration, ExecuteContent, InsertRecord, CommitRejected
  <1>5. LockInv(r)'
    BY <1>1, <1>2 DEF RunnerInv, LockInv, Inside, Looping
  <1>6. pc'[r] \in {"content", "insert", "commit"} =>
          \E f \in Names : IsNext(r, f) /\ recorded[r][f] = None
    BY <1>1 DEF RunnerInv, LoopInv, TypeOK,
                BeginMigration, ExecuteContent, InsertRecord, CommitRejected
  <1>7. LoopInv(r)'
    BY <1>1, <1>2, <1>6 DEF RunnerInv, LoopInv, Looping, Files, IsNext, database
  <1>8. DoneInv(r)'
    <2>1. pc'[r] = "rollback" => failure'[r] = TRUE
      BY <1>1 DEF TypeOK, BeginMigration, ExecuteContent, InsertRecord, CommitRejected
    <2> QED BY <2>1, <1>1, <1>2 DEF RunnerInv, DoneInv, Handled, Looping, Files, database
  <1> QED BY <1>3, <1>4, <1>5, <1>7, <1>8, LocalStep DEF RunnerInv

(* The end of a run: whatever it releases, it writes no row any more. *)
LEMMA EpilogueStep ==
    ASSUME IInv, NEW r \in Runners,
           Rollback(r) \/ LoopEnds(r) \/ Unlock(r) \/ Release(r) \/ Reject(r)
    PROVE  IInv'
  <1> USE DEF Awaits, Goto, Throw
  <1>1. RunnerInv(r) /\ TypeOK
    BY DEF IInv
  <1>2. TypeOK'
    BY <1>1 DEF TypeOK, database, Locations, Inside, Ended, Freed,
                Rollback, LoopEnds, Unlock, Release, Reject
  <1>3. Local(r)
    <2>1. CASE Unlock(r)
      BY <2>1, <1>1 DEF TypeOK, Local, database, Unlock, RunnerInv, LockInv, Inside
    <2>2. CASE Release(r)
      BY <2>2, <1>1 DEF TypeOK, Local, database, Freed, Release
    <2>3. CASE Rollback(r) \/ LoopEnds(r)
      BY <2>3, <1>1 DEF TypeOK, Local, database, Rollback, LoopEnds
    <2>4. CASE Reject(r)
      BY <2>4, <1>1 DEF TypeOK, Local, database, Reject
    <2> QED BY <2>1, <2>2, <2>3, <2>4
  <1>4. LockInv(r)'
    BY <1>1 DEF TypeOK, RunnerInv, LockInv, Inside, Ended,
                Rollback, LoopEnds, Unlock, Release, Reject
  <1>5. LoopInv(r)'
    BY <1>1 DEF TypeOK, LoopInv, Looping, Rollback, LoopEnds, Unlock, Release, Reject
  <1>6. DoneInv(r)'
    <2>1. UNCHANGED <<database, recorded, left>>
      BY DEF Rollback, LoopEnds, Unlock, Release, Reject
    <2>2. CASE LoopEnds(r)
      BY <2>1, <2>2, <1>1
      DEF LoopEnds, TypeOK, RunnerInv, DoneInv, Handled, Looping, Files, database
    <2>3. CASE Unlock(r) \/ Release(r)
      BY <2>1, <2>3, <1>1
      DEF Unlock, Release, TypeOK, RunnerInv, DoneInv, Handled, Looping, Files, database
    <2>4. CASE Reject(r)
      <3>1. failure'[r] = TRUE /\ pc'[r] \in {"released", "unlocking", "rollback"}
        BY <2>4, <1>1 DEF Reject, TypeOK
      <3> QED BY <3>1, <2>4, <1>1 DEF Reject, RunnerInv, DoneInv, Looping
    <2>5. CASE Rollback(r)
      BY <2>5, <1>1 DEF Rollback, TypeOK, RunnerInv, DoneInv, Looping
    <2> QED BY <2>2, <2>3, <2>4, <2>5
  <1> QED BY <1>2, <1>3, <1>4, <1>5, <1>6, LocalStep DEF RunnerInv

(* A runner dies, loses its session, or the server ends the session. *)
LEMMA FaultStep ==
    ASSUME IInv, NEW r \in Runners, Crash(r) \/ Disconnect(r) \/ SessionEnds(r)
    PROVE  IInv'
  <1> USE DEF Goto
  <1>1. RunnerInv(r) /\ TypeOK
    BY DEF IInv
  <1>2. TypeOK'
    BY <1>1 DEF TypeOK, database, Locations, Ended, Freed, Crash, Disconnect, SessionEnds
  <1>3. Local(r)
    BY <1>1 DEF TypeOK, Local, database, Freed, Crash, Disconnect, SessionEnds
  <1>4. LockInv(r)'
    BY <1>1 DEF TypeOK, RunnerInv, LockInv, Inside, Crash, Disconnect, SessionEnds
  <1>5. LoopInv(r)'
    BY <1>1 DEF TypeOK, RunnerInv, LoopInv, Looping, Files, IsNext, database,
                Crash, Disconnect, SessionEnds
  <1>6. DoneInv(r)'
    BY <1>1 DEF TypeOK, RunnerInv, DoneInv, Handled, Looping, Files, database,
                Crash, Disconnect, SessionEnds
  <1> QED BY <1>2, <1>3, <1>4, <1>5, <1>6, LocalStep DEF RunnerInv

-----------------------------------------------------------------------------
(* A commit adds one migration that had not been executed, with its row. *)
LEMMA CommitStep ==
    ASSUME IInv, NEW r \in Runners, Commit(r) PROVE IInv'
  <1> USE DEF Awaits, Goto
  <1>1. PICK f \in Names :
          /\ IsNext(r, f)
          /\ rows' = [rows EXCEPT ![f] = Directory[r][f]]
          /\ executed' = Executed(r, f)
          /\ left' = [left EXCEPT ![r] = left[r] \ {f}]
    BY DEF Commit
  <1>2. /\ pc[r] = "commit" /\ session[r] = "open" /\ pc' = [pc EXCEPT ![r] = "file"]
        /\ UNCHANGED <<supported, table, lock, session, recorded, failure>>
        /\ RunnerInv(r) /\ TypeOK
    BY DEF Commit, IInv
  <1>3. f \in Files(r) /\ f \in left[r] /\ rows[f] = None
    <2>1. PICK g \in Names : IsNext(r, g) /\ g \in Files(r) /\ rows[g] = None
      BY <1>2, FreeRow
    <2>2. f = g
      BY <1>1, <1>2, <2>1, NextUnique
    <2> QED BY <1>1, <2>1, <2>2 DEF IsNext
  <1>4. Directory[r][f] \in Versions /\ Directory[r][f] # None
    BY <1>3, DirectoryAssumption, ValuesAssumption DEF Files
  <1>5. TypeOK'
    BY <1>1, <1>2, <1>4 DEF TypeOK, Executed, Execution, Locations, Inside
  <1>6. \A e \in executed : e.name # f
    BY <1>3 DEF IInv, RowsTellContents
  <1>7. /\ \A n \in Names : rows'[n] = IF n = f THEN Directory[r][f] ELSE rows[n]
        /\ executed' = executed \cup {[name |-> f, content |-> Directory[r][f], by |-> r]}
    BY <1>1, <1>2 DEF TypeOK, Executed
  <1>8. RowsTellContents'
    <2>1. ASSUME NEW n \in Names
          PROVE  rows'[n] # None <=> \E e \in executed' : e.name = n
      <3>1. CASE n = f
        <4>1. rows'[n] # None
          BY <3>1, <1>4, <1>7
        <4>2. [name |-> f, content |-> Directory[r][f], by |-> r] \in executed'
          BY <1>7
        <4> QED BY <3>1, <4>1, <4>2
      <3>2. CASE n # f
        <4>1. \A e \in executed' : e.name = n => e \in executed
          BY <3>2, <1>7
        <4> QED BY <3>2, <4>1, <1>7 DEF IInv, RowsTellContents
      <3> QED BY <3>1, <3>2
    <2>2. \A e \in executed' : rows'[e.name] \in {e.content, Unverified}
      BY <1>2, <1>6, <1>7 DEF IInv, RowsTellContents, TypeOK, Execution
    <2> QED BY <2>1, <2>2 DEF RowsTellContents
  <1>9. AppliedOnce'
    BY <1>6, <1>7 DEF IInv, AppliedOnce
  <1>10. LockInv(r)' /\ LoopInv(r)'
    <2>1. LockInv(r)'
      BY <1>2 DEF TypeOK, RunnerInv, LockInv, Inside
    <2>2. \A g \in left'[r] : g \in left[r] /\ g # f /\ g \in Names /\ rows'[g] = rows[g]
      BY <1>1, <1>2, <1>7 DEF TypeOK
    <2>3. LoopInv(r)'
      BY <1>2, <2>2 DEF TypeOK, RunnerInv, LoopInv, Looping, Files
    <2> QED BY <2>1, <2>3
  <1>11. DoneInv(r)'
    <2>1. pc'[r] = "file" /\ left'[r] = left[r] \ {f}
      BY <1>1, <1>2 DEF TypeOK
    <2>2. Handled(r)'
      BY <1>2, <1>7, <2>1 DEF RunnerInv, DoneInv, Handled, Looping, Files
    <2> QED BY <2>1, <2>2 DEF DoneInv
  <1>12. ASSUME NEW s \in Runners \ {r} PROVE RunnerInv(s)'
    <2>1. /\ pc'[s] = pc[s] /\ left'[s] = left[s] /\ RunnerInv(s)
          /\ session'[s] = session[s] /\ recorded'[s] = recorded[s]
          /\ failure'[s] = failure[s] /\ lock' = lock
      BY <1>1, <1>2 DEF TypeOK, IInv
    <2>2. ~(pc[s] \in Looping /\ session[s] = "open")
      BY <1>2, <2>1 DEF RunnerInv, LockInv, Inside, Looping
    <2>3. LockInv(s)'
      BY <2>1 DEF RunnerInv, LockInv
    <2>4. \A g \in Names : rows[g] # None => rows'[g] = rows[g]
      BY <1>3, <1>7
    <2>5. left[s] \subseteq Names
      BY <1>2 DEF TypeOK
    <2>6. LoopInv(s)'
      BY <2>1, <2>2, <2>4, <2>5 DEF RunnerInv, LoopInv, Files, IsNext
    <2>7. Handled(s) => Handled(s)'
      BY <2>1, <2>4, DirectoryAssumption DEF Handled, Files
    <2>8. DoneInv(s)'
      BY <2>1, <2>7 DEF RunnerInv, DoneInv
    <2> QED BY <2>3, <2>6, <2>8 DEF RunnerInv
  <1> QED BY <1>5, <1>8, <1>9, <1>10, <1>11, <1>12 DEF IInv, RunnerInv

-----------------------------------------------------------------------------
(* Whatever an earlier runner left behind, its history is true. *)
LEMMA InitInv == Init => IInv
  <1> SUFFICES ASSUME Init PROVE IInv
    OBVIOUS
  <1>1. PICK h \in Histories : /\ table = h.table /\ rows = h.rows
          /\ \E content \in [Names -> Versions] :
               /\ \A n \in Names : h.rows[n] \in Versions => content[n] = h.rows[n]
               /\ executed = {[name |-> n, content |-> content[n], by |-> None] :
                                n \in {m \in Names : h.rows[m] # None}}
    BY DEF Init
  <1>2. PICK content \in [Names -> Versions] :
          /\ \A n \in Names : h.rows[n] \in Versions => content[n] = h.rows[n]
          /\ executed = {[name |-> n, content |-> content[n], by |-> None] :
                           n \in {m \in Names : h.rows[m] # None}}
    BY <1>1
  <1>3. table \in Tables /\ rows \in [Names -> Versions \cup {Unverified, None}]
    BY <1>1, HistoriesAssumption
  <1>4. TypeOK
    BY <1>2, <1>3 DEF Init, TypeOK, Execution, Locations
  <1>5. RowsTellContents /\ AppliedOnce
    <2>1. \A e \in executed :
            /\ e.name \in Names /\ rows[e.name] # None
            /\ e = [name |-> e.name, content |-> content[e.name], by |-> None]
      BY <1>1, <1>2
    <2>2. \A n \in Names : rows[n] # None =>
            [name |-> n, content |-> content[n], by |-> None] \in executed
      BY <1>1, <1>2
    <2>3. \A n \in Names : rows[n] # None <=> \E e \in executed : e.name = n
      BY <2>1, <2>2
    <2>4. \A e \in executed : rows[e.name] \in {e.content, Unverified}
      <3> SUFFICES ASSUME NEW e \in executed PROVE rows[e.name] \in {e.content, Unverified}
        OBVIOUS
      <3>1. e.content = content[e.name]
        BY <2>1
      <3>2. rows[e.name] \in Versions \/ rows[e.name] = Unverified
        BY <2>1, <1>3
      <3> QED BY <3>1, <3>2, <2>1, <1>1, <1>2
    <2>5. AppliedOnce
      BY <2>1 DEF AppliedOnce
    <2> QED BY <2>3, <2>4, <2>5 DEF RowsTellContents
  <1>6. \A r \in Runners : RunnerInv(r)
    BY DEF Init, RunnerInv, LockInv, LoopInv, DoneInv, Inside, Looping
  <1> QED BY <1>4, <1>5, <1>6 DEF IInv

(* Every step of runners, the server and faults keeps the invariant. *)
LEMMA StepInv == IInv /\ [Next]_vars => IInv'
  <1>1. IInv /\ UNCHANGED vars => IInv'
    BY DEF vars, database, IInv, TypeOK, RowsTellContents, AppliedOnce, RunnerInv,
           LockInv, LoopInv, DoneInv, Handled, Files, IsNext
  <1>2. ASSUME IInv, NEW r \in Runners, Runner(r) PROVE IInv'
    BY <1>2, PrologueStep, ReadHistoryStep, VerifyFileStep, TransactionStep,
       CommitStep, EpilogueStep DEF Runner, Apply
  <1> QED BY <1>1, <1>2, FaultStep DEF Next, AllEnded

(* The invariant holds in every reachable state. *)
THEOREM Invariance == Spec => []IInv
  BY InitInv, StepInv, PTL DEF Spec

(* Every variable keeps its type. *)
THEOREM TypeCorrect == Spec => []TypeOK
  <1>1. IInv => TypeOK
    BY DEF IInv
  <1> QED BY <1>1, Invariance, PTL

(* No migration is executed twice. *)
THEOREM AppliedOnceHolds == Spec => []AppliedOnce
  <1>1. IInv => AppliedOnce
    BY DEF IInv
  <1> QED BY <1>1, Invariance, PTL

(* schema_migrations tells the truth. *)
THEOREM HistoryHolds == Spec => []HistoryIsTrue
  <1>1. IInv => HistoryIsTrue
    BY DEF IInv, HistoryIsTrue
  <1> QED BY <1>1, Invariance, PTL

(* What a live run read under the lock stays what the database holds. *)
THEOREM NoRivalHolds == Spec => []NoRivalRunner
  <1>1. IInv => NoRivalRunner
    BY DEF IInv, RunnerInv, LoopInv, Looping, NoRivalRunner
  <1> QED BY <1>1, Invariance, PTL

(* A run that succeeded leaves each of its image's files applied. *)
THEOREM SuccessHolds == Spec => []SuccessMeansCurrent
  <1>1. ASSUME IInv, NEW r \in Runners, pc[r] = "succeeded", NEW n \in Files(r)
        PROVE  /\ rows[n] = Directory[r][n]
               /\ \E e \in executed : e.name = n /\ e.content = Directory[r][n]
    <2>1. n \in Names /\ Directory[r][n] \in Versions /\ Directory[r][n] # None
      BY DirectoryAssumption DEF Files
    <2>2. rows[n] = Directory[r][n]
      BY <1>1 DEF IInv, RunnerInv, DoneInv, Handled
    <2>3. PICK e \in executed : e.name = n
      BY <1>1, <2>1, <2>2 DEF IInv, RowsTellContents
    <2>4. e.content = Directory[r][n]
      BY <1>1, <2>1, <2>2, <2>3, ValuesAssumption DEF IInv, RowsTellContents
    <2> QED BY <2>2, <2>3, <2>4
  <1>2. IInv => SuccessMeansCurrent
    BY <1>1 DEF SuccessMeansCurrent
  <1> QED BY <1>2, Invariance, PTL

-----------------------------------------------------------------------------
(* What a run checked before its loop: the server's version, that the history
   has checksums, and that its image contains the history. *)
CheckedInv(r) ==
    /\ pc[r] \in {"locking"} \cup Inside => supported
    /\ pc[r] \in {"column", "reading"} \cup Looping => table # "absent"
    /\ pc[r] \in {"reading"} \cup Looping => \A n \in Names : rows[n] # Unverified
    /\ pc[r] \in Looping /\ session[r] = "open" =>
         \A n \in Names : rows[n] # None => n \in Files(r)

(* Every file before one that a run executed is recorded. *)
OrderInv ==
    \A e \in executed : e.by # None =>
        \A n \in Files(e.by) : n < e.name => rows[n] # None

ChecksInv ==
    /\ table = "absent" => \A n \in Names : rows[n] = None
    /\ \A r \in Runners : CheckedInv(r)
    /\ OrderInv

(* Rows are only added, by a commit, and a runner that could see it happen to
   its own loop would hold the lock too. *)
LEMMA ChecksFrame ==
    ASSUME IInv, ChecksInv, NEW r \in Runners,
           rows' = rows, executed' = executed, supported' = supported,
           table' = table \/ table' # "absent",
           CheckedInv(r)',
           \A s \in Runners \ {r} : pc'[s] = pc[s] /\ session'[s] = session[s]
    PROVE  ChecksInv'
  <1>1. \A s \in Runners \ {r} : CheckedInv(s)'
    BY DEF ChecksInv, CheckedInv, Files
  <1>2. OrderInv'
    BY DEF ChecksInv, OrderInv, Files
  <1> QED BY <1>1, <1>2 DEF ChecksInv

(* A commit is the next step of an image that contains the history. *)
LEMMA CommitChecks ==
    ASSUME IInv, ChecksInv, NEW r \in Runners, Commit(r)
    PROVE  /\ ChecksInv'
           /\ supported /\ \A n \in Names : rows[n] # Unverified
           /\ \A n \in Names : rows[n] # None => n \in Files(r)
           /\ \A e \in executed' \ executed : e.by = r
  <1> USE DEF Awaits, Goto
  <1>1. PICK f \in Names :
          /\ IsNext(r, f)
          /\ rows' = [rows EXCEPT ![f] = Directory[r][f]]
          /\ executed' = Executed(r, f)
          /\ left' = [left EXCEPT ![r] = left[r] \ {f}]
    BY DEF Commit
  <1>2. /\ pc[r] = "commit" /\ session[r] = "open" /\ pc' = [pc EXCEPT ![r] = "file"]
        /\ UNCHANGED <<supported, table, lock, session, recorded, failure>>
        /\ RunnerInv(r) /\ TypeOK /\ CheckedInv(r)
    BY DEF Commit, IInv, ChecksInv
  <1>3. f \in Files(r) /\ rows[f] = None
    <2>1. PICK g \in Names : IsNext(r, g) /\ g \in Files(r) /\ rows[g] = None
      BY <1>2, FreeRow
    <2>2. f = g
      BY <1>1, <1>2, <2>1, NextUnique
    <2> QED BY <2>1, <2>2
  <1>4. Directory[r][f] \in Versions /\ Directory[r][f] # None
        /\ Directory[r][f] # Unverified
    BY <1>3, DirectoryAssumption, ValuesAssumption DEF Files
  <1>5. /\ \A n \in Names : rows'[n] = IF n = f THEN Directory[r][f] ELSE rows[n]
        /\ executed' = executed \cup {[name |-> f, content |-> Directory[r][f], by |-> r]}
    BY <1>1, <1>2 DEF TypeOK, Executed
  <1>6. supported /\ \A n \in Names : rows[n] # Unverified
    BY <1>2 DEF CheckedInv, Looping, Inside
  <1>7. \A n \in Names : rows'[n] # None => n \in Files(r)
    BY <1>2, <1>3, <1>5 DEF CheckedInv, Looping
  <1>8. ASSUME NEW s \in Runners PROVE CheckedInv(s)'
    <2>1. supported' /\ \A n \in Names : rows'[n] # Unverified
      BY <1>2, <1>4, <1>5, <1>6
    <2>2. s # r => ~(pc[s] \in Looping /\ session[s] = "open")
      BY <1>2 DEF IInv, RunnerInv, LockInv, Inside, Looping
    <2>3. s # r => pc'[s] = pc[s] /\ session'[s] = session[s]
      BY <1>2 DEF TypeOK
    <2>4. s # r => ~(pc'[s] \in Looping /\ session'[s] = "open")
      BY <2>2, <2>3
    <2>5. CASE s = r
      BY <1>2, <1>7, <2>1, <2>5 DEF TypeOK, CheckedInv, Looping, Files
    <2>6. CASE s # r
      <3>1. CheckedInv(s)
        BY DEF ChecksInv
      <3> QED BY <1>2, <2>1, <2>3, <2>4, <2>6, <3>1 DEF CheckedInv, Files
    <2> QED BY <2>5, <2>6
  <1>9. OrderInv'
    <2>1. \A n \in Names : rows[n] # None => rows'[n] # None
      BY <1>3, <1>5
    <2>2. \A n \in Files(r) : n < f => rows'[n] # None
      <3>1. ASSUME NEW n \in Files(r), n < f PROVE rows[n] # None
        <4>1. n \notin left[r] /\ n \in Names
          BY <1>1, <3>1, NamesAssumption DEF IsNext, Files
        <4>2. rows[n] = Directory[r][n]
          BY <1>2, <3>1, <4>1 DEF RunnerInv, DoneInv, Handled, Looping
        <4> QED BY <3>1, <4>2 DEF Files
      <3> QED BY <2>1, <3>1 DEF Files
    <2>3. ASSUME NEW e \in executed', e.by # None, NEW n \in Files(e.by), n < e.name
          PROVE  rows'[n] # None
      <3>1. CASE e \in executed
        BY <2>1, <2>3, <3>1 DEF ChecksInv, OrderInv, Files
      <3>2. CASE e = [name |-> f, content |-> Directory[r][f], by |-> r]
        BY <2>2, <2>3, <3>2
      <3> QED BY <1>5, <2>3, <3>1, <3>2
    <2> QED BY <2>3 DEF OrderInv, Files
  <1>10. table' # "absent"
    BY <1>2 DEF CheckedInv, Looping
  <1>11. \A n \in Names : rows[n] # None => n \in Files(r)
    BY <1>2 DEF CheckedInv, Looping
  <1> QED BY <1>5, <1>6, <1>8, <1>9, <1>10, <1>11 DEF ChecksInv

(* A step that is no commit writes neither rows nor executed migrations, and
   the shape of the table changes only where the history is verifiable. *)
LEMMA OtherChecks ==
    ASSUME IInv, ChecksInv, NEW r \in Runners,
           \/ Runner(r) /\ ~Commit(r)
           \/ Crash(r) \/ Disconnect(r) \/ SessionEnds(r)
    PROVE  /\ ChecksInv'
           /\ UNCHANGED <<supported, rows, executed>>
           /\ ~supported \/ (\E n \in Names : rows[n] = Unverified) => UNCHANGED table
  <1> USE DEF Awaits, Goto, Throw, database
  <1>1. TypeOK /\ CheckedInv(r) /\ None # Unverified
    BY ValuesAssumption DEF IInv, ChecksInv
  <1>2. UNCHANGED <<supported, rows, executed>>
    BY DEF Runner, Apply, CheckVersion, AcquireLock, CreateTable, EnsureChecksumColumn,
           ReadHistory, VerifyFile, BeginMigration, ExecuteContent, InsertRecord,
           CommitRejected, Rollback, LoopEnds, Unlock, Release, Reject, Crash,
           Disconnect, SessionEnds
  <1>3. \A s \in Runners \ {r} : pc'[s] = pc[s] /\ session'[s] = session[s]
    BY <1>1 DEF TypeOK, Runner, Apply, CheckVersion, AcquireLock, CreateTable,
           EnsureChecksumColumn, ReadHistory, VerifyFile, BeginMigration, ExecuteContent,
           InsertRecord, CommitRejected, Rollback, LoopEnds, Unlock, Release, Reject, Crash,
           Disconnect, SessionEnds
  <1>4. CASE CreateTable(r)
    <2>1. /\ pc[r] = "table" /\ pc'[r] = "column" /\ supported
          /\ table' = IF table = "absent" THEN "required" ELSE table
      BY <1>1, <1>4 DEF CreateTable, TypeOK, CheckedInv, Inside
    <2>2. CheckedInv(r)'
      BY <1>2, <2>1 DEF CheckedInv, Inside, Looping
    <2>3. ChecksInv'
      BY <1>2, <1>3, <2>1, <2>2, ChecksFrame
    <2>4. (\E n \in Names : rows[n] = Unverified) => table # "absent"
      BY <1>1 DEF ChecksInv
    <2> QED BY <1>2, <2>1, <2>3, <2>4
  <1>5. CASE EnsureChecksumColumn(r)
    <2>1. pc[r] = "column" /\ supported /\ table # "absent"
      BY <1>1, <1>5 DEF EnsureChecksumColumn, CheckedInv, Inside
    <2>2. \/ /\ ~Untrustworthy /\ pc'[r] = "reading" /\ table' = "required"
          \/ Untrustworthy /\ pc'[r] = "unlocking" /\ table' = table
      BY <1>1, <1>5 DEF EnsureChecksumColumn, TypeOK
    <2>3. CheckedInv(r)'
      BY <1>2, <2>1, <2>2 DEF CheckedInv, Inside, Looping, Untrustworthy
    <2>4. ChecksInv'
      BY <1>2, <1>3, <2>1, <2>2, <2>3, ChecksFrame
    <2> QED BY <1>2, <2>1, <2>2, <2>4 DEF Untrustworthy
  <1>6. CASE ~CreateTable(r) /\ ~EnsureChecksumColumn(r)
    <2>1. table' = table
      BY <1>6 DEF Runner, Apply, CheckVersion, AcquireLock,
           ReadHistory, VerifyFile, BeginMigration, ExecuteContent, InsertRecord,
           CommitRejected, Rollback, LoopEnds, Unlock, Release, Reject, Crash,
           Disconnect, SessionEnds
    <2>2. session'[r] = "open" => session[r] = "open"
      BY <1>1, <1>6 DEF TypeOK, Runner, Apply, CheckVersion, AcquireLock,
           ReadHistory, VerifyFile, BeginMigration, ExecuteContent, InsertRecord,
           CommitRejected, Rollback, LoopEnds, Unlock, Release, Reject, Crash,
           Disconnect, SessionEnds
    <2>3. \/ pc'[r] = pc[r]
          \/ pc[r] \in Looping /\ pc'[r] \in Looping
          \/ pc[r] \in {"locking"} \cup Inside /\ pc'[r] \in {"table", "rollback", "unlocking"}
          \/ pc'[r] = "locking" /\ supported
          \/ pc'[r] \in {"released"} \cup Ended
          \/ pc[r] = "reading" /\ pc'[r] = "file" /\ ~Missing(r)
      BY <1>1, <1>6 DEF TypeOK, Runner, Apply, CheckVersion, AcquireLock,
           ReadHistory, VerifyFile, BeginMigration, ExecuteContent, InsertRecord,
           CommitRejected, Rollback, LoopEnds, Unlock, Release, Reject, Crash,
           Disconnect, SessionEnds, Inside, Looping, Ended
    <2>4. CheckedInv(r)'
      BY <1>1, <1>2, <2>1, <2>2, <2>3
      DEF CheckedInv, Inside, Looping, Ended, Missing, Files
    <2>5. ChecksInv'
      BY <1>2, <1>3, <2>1, <2>4, ChecksFrame
    <2> QED BY <1>2, <2>1, <2>5
  <1> QED BY <1>4, <1>5, <1>6

(* What the runs checked holds in every reachable state. *)
LEMMA ChecksHold == Spec => []ChecksInv
  <1>1. ASSUME Init PROVE ChecksInv
    <2>1. PICK h \in Histories : table = h.table /\ rows = h.rows
      BY <1>1 DEF Init
    <2>2. table = "absent" => \A n \in Names : rows[n] = None
      BY <2>1, HistoriesAssumption
    <2>3. \A e \in executed : e.by = None
      BY <1>1 DEF Init
    <2>4. \A r \in Runners : CheckedInv(r)
      BY <1>1 DEF Init, CheckedInv, Inside, Looping
    <2> QED BY <2>2, <2>3, <2>4 DEF ChecksInv, OrderInv
  <1>2. IInv /\ ChecksInv /\ [Next]_vars => ChecksInv'
    <2>1. ASSUME ChecksInv, UNCHANGED vars PROVE ChecksInv'
      BY <2>1 DEF vars, database, ChecksInv, CheckedInv, OrderInv, Files
    <2> QED BY <2>1, CommitChecks, OtherChecks DEF Next, AllEnded, Runner, Apply
  <1> QED BY <1>1, <1>2, Invariance, PTL DEF Spec

(* A database on a server that is too old, or with an applied migration that
   has no checksum, is left as it is. *)
THEOREM UnverifiableHolds == Spec => UnverifiableIsLeftAlone
  <1>1. ASSUME IInv, ChecksInv, [Next]_vars,
               ~supported \/ (\E n \in Names : rows[n] = Unverified)
        PROVE  UNCHANGED database
    BY <1>1, CommitChecks, OtherChecks DEF Next, AllEnded, vars, database
  <1>2. IInv /\ ChecksInv /\ [Next]_vars =>
          [~supported \/ (\E n \in Names : rows[n] = Unverified)
             => UNCHANGED database]_vars
    BY <1>1
  <1> QED BY <1>2, ChecksHold, Invariance, PTL DEF Spec, UnverifiableIsLeftAlone

(* A run only adds migrations to a history its own image contains in full. *)
THEOREM NeverBehindHolds == Spec => NeverBehindHistory
  <1>1. ASSUME IInv, ChecksInv, [Next]_vars, NEW r \in Runners,
               NEW e \in executed' \ executed, e.by = r, NEW n \in Names, rows[n] # None
        PROVE  n \in Files(r)
    <2>1. PICK s \in Runners : Commit(s)
      BY <1>1, OtherChecks DEF Next, AllEnded, vars, database
    <2>2. s = r
      BY <1>1, <2>1, CommitChecks
    <2> QED BY <1>1, <2>1, <2>2, CommitChecks
  <1>2. IInv /\ ChecksInv /\ [Next]_vars =>
          [\A r \in Runners :
             (\E e \in executed' \ executed : e.by = r) =>
                 \A n \in Names : rows[n] # None => n \in Files(r)]_vars
    BY <1>1
  <1> QED BY <1>2, ChecksHold, Invariance, PTL DEF Spec, NeverBehindHistory

(* Whoever applied a file, the earlier ones of its image were recorded before. *)
THEOREM OrderHolds == Spec => []AppliedInOrder
  <1>1. ChecksInv => AppliedInOrder
    BY DEF ChecksInv, OrderInv, AppliedInOrder
  <1> QED BY <1>1, ChecksHold, PTL
=============================================================================
