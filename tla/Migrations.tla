------------------------------ MODULE Migrations ------------------------------
(***************************************************************************)
(* runMigrations, executed at startup by every ThreadBridge instance and   *)
(* by the standalone migrate entry point against one database.  A runner   *)
(* awaits one statement at a time on its reserved session; its process may *)
(* die, its connection may break, PostgreSQL may end its session, and the  *)
(* server learns of a dead client only later: the advisory lock belongs to *)
(* the session, not to the runner.                                         *)
(***************************************************************************)
EXTENDS Naturals

CONSTANTS
    Runners,      \* executions of runMigrations
    Names,        \* migration files, numbered in file name order
    Versions,     \* file contents; a checksum is the content it identifies
    Directory,    \* runner -> its image's db/migrations: name -> content or None
    Histories,    \* the [table, rows] a database may start with
    Unverified,   \* a row that an earlier runner recorded without a checksum
    None

Tables == {"absent", "no checksum", "nullable", "required"}

ASSUME NamesAssumption == Names \subseteq Nat
ASSUME ValuesAssumption ==
    /\ None \notin Versions \cup Runners \cup {Unverified}
    /\ Unverified \notin Versions
ASSUME DirectoryAssumption ==
    Directory \in [Runners -> [Names -> Versions \cup {None}]]

(* Rows without a checksum exist only where the column allows them. *)
ASSUME HistoriesAssumption ==
    /\ Histories \subseteq
         [table : Tables, rows : [Names -> Versions \cup {Unverified, None}]]
    /\ \A h \in Histories, n \in Names :
         /\ h.table = "absent" => h.rows[n] = None
         /\ h.table = "no checksum" => h.rows[n] \notin Versions
         /\ h.table = "required" => h.rows[n] # Unverified

VARIABLES
    supported,   \* does the server report PostgreSQL 18 or newer?
    table,       \* the shape of schema_migrations
    rows,        \* its committed rows: name -> checksum
    executed,    \* committed migrations: [name, content, by]
    lock,        \* the runner whose session holds the advisory lock
    session,     \* "open", "orphaned" (the client has lost it) or "closed"
    pc,          \* the statement each runner is about to await
    recorded,    \* the rows it has read
    left,        \* the files of its loop it has not handled yet
    failure      \* has it caught an error?

database == <<supported, table, rows, executed>>
vars == <<supported, table, rows, executed, lock, session,
          pc, recorded, left, failure>>

Inside == {"table", "column", "reading", "file", "content", "insert", "commit",
           "rollback", "unlocking"}
Ended == {"succeeded", "failed", "dead"}
Locations == {"version", "locking", "released"} \cup Inside \cup Ended

Execution == [name : Names, content : Versions, by : Runners \cup {None}]

TypeOK ==
    /\ supported \in BOOLEAN
    /\ table \in Tables
    /\ rows \in [Names -> Versions \cup {Unverified, None}]
    /\ executed \subseteq Execution
    /\ lock \in Runners \cup {None}
    /\ session \in [Runners -> {"open", "orphaned", "closed"}]
    /\ pc \in [Runners -> Locations]
    /\ recorded \in [Runners -> [Names -> Versions \cup {Unverified, None}]]
    /\ left \in [Runners -> SUBSET Names]
    /\ failure \in [Runners -> BOOLEAN]

(* What an earlier run recorded was executed; what it executed without a
   checksum is anybody's guess. *)
Init ==
    /\ supported \in BOOLEAN
    /\ \E h \in Histories :
         /\ table = h.table
         /\ rows = h.rows
         /\ \E content \in [Names -> Versions] :
              /\ \A n \in Names : h.rows[n] \in Versions => content[n] = h.rows[n]
              /\ executed = {[name |-> n, content |-> content[n], by |-> None] :
                               n \in {m \in Names : h.rows[m] # None}}
    /\ lock = None
    /\ session = [r \in Runners |-> "open"]
    /\ pc = [r \in Runners |-> "version"]
    /\ recorded = [r \in Runners |-> [n \in Names |-> None]]
    /\ left = [r \in Runners |-> {}]
    /\ failure = [r \in Runners |-> FALSE]

-----------------------------------------------------------------------------
Goto(r, location) == pc' = [pc EXCEPT ![r] = location]

(* An error is caught and kept; the run goes on to release what it holds. *)
Throw(r, location) ==
    Goto(r, location) /\ failure' = [failure EXCEPT ![r] = TRUE]

(* r awaits this statement on a session that can answer. *)
Awaits(r, location) == pc[r] = location /\ session[r] = "open"

Files(r) == {n \in Names : Directory[r][n] # None}

(* ensureSupportedPostgresVersion, before any lock or DDL *)
CheckVersion(r) ==
    /\ Awaits(r, "version")
    /\ IF supported
       THEN Goto(r, "locking") /\ UNCHANGED failure
       ELSE Throw(r, "released")
    /\ UNCHANGED <<database, lock, session, recorded, left>>

LockIgnored(r) == TRUE    \* faulty: runs are not serialized

(* pg_advisory_lock returns once no other session holds the lock. *)
LockGranted(r) == lock = None

AcquireLock(r) ==
    /\ Awaits(r, "locking")
    /\ LockGranted(r)
    /\ lock' = r
    /\ Goto(r, "table")
    /\ UNCHANGED <<database, session, recorded, left, failure>>

CreateTable(r) ==
    /\ Awaits(r, "table")
    /\ table' = IF table = "absent" THEN "required" ELSE table
    /\ Goto(r, "column")
    /\ UNCHANGED <<supported, rows, executed, lock, session, recorded, left, failure>>

UntrustworthyIfColumnMissing ==    \* faulty: null checksums are overlooked
    table = "no checksum" /\ \E n \in Names : rows[n] = Unverified

(* rejectUntrustworthyHistory: some applied migration has no checksum. *)
Untrustworthy == \E n \in Names : rows[n] = Unverified

EnsureChecksumColumn(r) ==
    /\ Awaits(r, "column")
    /\ IF Untrustworthy
       THEN Throw(r, "unlocking") /\ UNCHANGED table
       ELSE Goto(r, "reading") /\ table' = "required" /\ UNCHANGED failure
    /\ UNCHANGED <<supported, rows, executed, lock, session, recorded, left>>

MissingIgnored(r) == FALSE    \* faulty: records without a file are skipped

(* ensureEveryAppliedMigrationExists *)
Missing(r) == \E n \in Names : rows[n] # None /\ n \notin Files(r)

ReadHistory(r) ==
    /\ Awaits(r, "reading")
    /\ recorded' = [recorded EXCEPT ![r] = rows]
    /\ IF Missing(r)
       THEN Throw(r, "unlocking") /\ UNCHANGED left
       ELSE /\ left' = [left EXCEPT ![r] = Files(r)]
            /\ Goto(r, "file") /\ UNCHANGED failure
    /\ UNCHANGED <<database, lock, session>>

IsNextAny(r, f) == f \in left[r]    \* faulty: files are not sorted

(* The loop handles the files in order. *)
IsNext(r, f) == f \in left[r] /\ \A g \in left[r] : f <= g

EditedIgnored(r, f) == FALSE    \* faulty: a recorded file is not compared

Edited(r, f) == recorded[r][f] # Directory[r][f]

(* A recorded file is compared with its checksum, without a statement. *)
VerifyFile(r) ==
    /\ pc[r] = "file"
    /\ \E f \in Names :
         /\ IsNext(r, f)
         /\ recorded[r][f] # None
         /\ IF Edited(r, f)
            THEN Throw(r, "unlocking") /\ UNCHANGED left
            ELSE /\ left' = [left EXCEPT ![r] = left[r] \ {f}]
                 /\ UNCHANGED <<pc, failure>>
    /\ UNCHANGED <<database, lock, session, recorded>>

(* A pending file: "begin" opens its transaction. *)
BeginMigration(r) ==
    /\ Awaits(r, "file")
    /\ \E f \in Names : IsNext(r, f) /\ recorded[r][f] = None
    /\ Goto(r, "content")
    /\ UNCHANGED <<database, lock, session, recorded, left, failure>>

ExecutedAsRead(r, f) ==    \* faulty: the checksum read is recorded, not the file's
    executed \cup {[name |-> f, content |-> recorded[r][f], by |-> r]}

Executed(r, f) ==
    executed \cup {[name |-> f, content |-> Directory[r][f], by |-> r]}

ExecuteOutsideTransaction(r) ==    \* faulty: the DDL commits by itself
    /\ Awaits(r, "content")
    /\ \/ /\ \E f \in Names : IsNext(r, f) /\ executed' = Executed(r, f)
          /\ Goto(r, "insert")
          /\ UNCHANGED failure
       \/ Throw(r, "rollback") /\ UNCHANGED executed
    /\ UNCHANGED <<supported, table, rows, lock, session, recorded, left>>

(* The content runs inside the transaction, or one of its statements fails. *)
ExecuteContent(r) ==
    /\ Awaits(r, "content")
    /\ \/ Goto(r, "insert") /\ UNCHANGED failure
       \/ Throw(r, "rollback")
    /\ UNCHANGED <<database, lock, session, recorded, left>>

(* name is the primary key of schema_migrations. *)
InsertRecord(r) ==
    /\ Awaits(r, "insert")
    /\ IF \E f \in Names : IsNext(r, f) /\ rows[f] # None
       THEN Throw(r, "rollback")
       ELSE Goto(r, "commit") /\ UNCHANGED failure
    /\ UNCHANGED <<database, lock, session, recorded, left>>

(* Both effects become visible together. *)
Commit(r) ==
    /\ Awaits(r, "commit")
    /\ \E f \in Names :
         /\ IsNext(r, f)
         /\ rows' = [rows EXCEPT ![f] = Directory[r][f]]
         /\ executed' = Executed(r, f)
         /\ left' = [left EXCEPT ![r] = left[r] \ {f}]
    /\ Goto(r, "file")
    /\ UNCHANGED <<supported, table, lock, session, recorded, failure>>

(* A deferred constraint fails at commit. *)
CommitRejected(r) ==
    /\ Awaits(r, "commit")
    /\ Throw(r, "rollback")
    /\ UNCHANGED <<database, lock, session, recorded, left>>

RollbackAndContinue(r) ==    \* faulty: a failed file does not stop the run
    /\ pc[r] = "rollback"
    /\ left' = [left EXCEPT ![r] = {f \in left[r] : ~IsNext(r, f)}]
    /\ Goto(r, "file")
    /\ UNCHANGED <<database, lock, session, recorded, failure>>

(* The error is thrown again even if the rollback cannot be sent. *)
Rollback(r) ==
    /\ pc[r] = "rollback"
    /\ Goto(r, "unlocking")
    /\ UNCHANGED <<database, lock, session, recorded, left, failure>>

LoopEnds(r) ==
    /\ pc[r] = "file"
    /\ left[r] = {}
    /\ Goto(r, "unlocking")
    /\ UNCHANGED <<database, lock, session, recorded, left, failure>>

Unlock(r) ==
    /\ Awaits(r, "unlocking")
    /\ lock' = None
    /\ Goto(r, "released")
    /\ UNCHANGED <<database, session, recorded, left, failure>>

FreedKept(r) == lock    \* faulty: the lock is not tied to the session

(* PostgreSQL frees a session's advisory lock when the session ends. *)
Freed(r) == IF lock = r THEN None ELSE lock

(* release, and the sql.end() of migrateDatabase *)
Release(r) ==
    /\ pc[r] = "released"
    /\ IF session[r] = "open"
       THEN session' = [session EXCEPT ![r] = "closed"] /\ lock' = Freed(r)
       ELSE UNCHANGED <<session, lock>>
    /\ Goto(r, IF failure[r] THEN "failed" ELSE "succeeded")
    /\ UNCHANGED <<database, recorded, left, failure>>

(* The statement r awaits on a lost session rejects. *)
Reject(r) ==
    /\ session[r] # "open"
    /\ \/ pc[r] \in {"version", "locking"} /\ Throw(r, "released")
       \/ pc[r] \in {"table", "column", "reading"} /\ Throw(r, "unlocking")
       \/ /\ pc[r] = "file"
          /\ \E f \in Names : IsNext(r, f) /\ recorded[r][f] = None
          /\ Throw(r, "unlocking")
       \/ pc[r] \in {"content", "insert", "commit"} /\ Throw(r, "rollback")
       \/ pc[r] = "unlocking" /\ Throw(r, "released")
    /\ UNCHANGED <<database, lock, session, recorded, left>>

-----------------------------------------------------------------------------
(* What may happen to a runner *)

(* The process dies; the server has yet to notice. *)
Crash(r) ==
    /\ pc[r] \notin Ended
    /\ Goto(r, "dead")
    /\ session' = [session EXCEPT ![r] = IF @ = "open" THEN "orphaned" ELSE @]
    /\ UNCHANGED <<database, lock, recorded, left, failure>>

(* The connection breaks for the client; the server has yet to notice. *)
Disconnect(r) ==
    /\ pc[r] \notin Ended
    /\ session[r] = "open"
    /\ session' = [session EXCEPT ![r] = "orphaned"]
    /\ UNCHANGED <<database, lock, pc, recorded, left, failure>>

(* The server ends the session: an open transaction is rolled back. *)
SessionEnds(r) ==
    /\ session[r] # "closed"
    /\ session' = [session EXCEPT ![r] = "closed"]
    /\ lock' = Freed(r)
    /\ UNCHANGED <<database, pc, recorded, left, failure>>

-----------------------------------------------------------------------------
Apply(r) == \/ BeginMigration(r) \/ ExecuteContent(r) \/ InsertRecord(r)
            \/ Commit(r) \/ CommitRejected(r) \/ Rollback(r)

Runner(r) ==
    \/ CheckVersion(r) \/ AcquireLock(r)
    \/ CreateTable(r) \/ EnsureChecksumColumn(r) \/ ReadHistory(r)
    \/ VerifyFile(r) \/ Apply(r) \/ LoopEnds(r)
    \/ Unlock(r) \/ Release(r) \/ Reject(r)

AllEnded == (\A r \in Runners : pc[r] \in Ended) /\ UNCHANGED vars

Next ==
    \/ \E r \in Runners : Runner(r) \/ Crash(r) \/ Disconnect(r) \/ SessionEnds(r)
    \/ AllEnded

Spec == Init /\ [][Next]_vars

(* Every statement but the lock ends, a waiter is granted a lock that stays
   free, and the server notices a client that is gone. *)
Fairness ==
    \A r \in Runners :
        /\ WF_vars(Runner(r))
        /\ WF_vars(session[r] = "orphaned" /\ SessionEnds(r))
FairSpec == Spec /\ Fairness

-----------------------------------------------------------------------------
(* Safety *)

(* No migration is executed twice, whichever instances start together, die
   between its DDL and its record, or lose the session that holds the lock. *)
AppliedOnce ==
    \A a, b \in executed : a.name = b.name => a = b

RowsTellContents ==
    /\ \A n \in Names : rows[n] # None <=> \E e \in executed : e.name = n
    /\ \A e \in executed : rows[e.name] \in {e.content, Unverified}

(* schema_migrations tells the truth: a row exists exactly for the migrations
   whose DDL is committed, once, and its checksum is that of the content that ran. *)
HistoryIsTrue == AppliedOnce /\ RowsTellContents

(* What a live run read under the lock stays what the database holds until
   the run is over: it never starts a migration another instance has recorded,
   and never fails on the primary key of schema_migrations. *)
NoRivalRunner ==
    \A r \in Runners :
        pc[r] \in {"file", "content", "insert", "commit"} /\ session[r] = "open" =>
            \A f \in left[r] : rows[f] = recorded[r][f]

(* An instance whose run succeeded starts on a database that holds each of
   its migrations exactly as its image contains them, even while instances of
   other images run theirs. *)
SuccessMeansCurrent ==
    \A r \in Runners : pc[r] = "succeeded" =>
        \A n \in Files(r) :
            /\ rows[n] = Directory[r][n]
            /\ \E e \in executed : e.name = n /\ e.content = Directory[r][n]

(* A database on a server that is too old, or with an applied migration that
   has no checksum, is left as it is: nothing runs on top of it, and no row or
   column makes its history look verified. *)
UnverifiableIsLeftAlone ==
    [][~supported \/ (\E n \in Names : rows[n] = Unverified)
         => UNCHANGED database]_vars

(* A run only adds migrations to a history its own image contains in full: no
   instance of an older image or another branch migrates a newer database. *)
NeverBehindHistory ==
    [][\A r \in Runners :
         (\E e \in executed' \ executed : e.by = r) =>
             \A n \in Names : rows[n] # None => n \in Files(r)]_vars

(* Whoever applied a file, the earlier ones of its image were recorded before,
   wherever runs fail or die: no file is ever applied before the one it may
   build on. *)
AppliedInOrder ==
    \A e \in executed : e.by # None =>
        \A n \in Files(e.by) : n < e.name => rows[n] # None

(* Every run ends, whatever the others do with the lock and however they
   die: no instance waits for the lock forever. *)
EveryRunEnds == <>(\A r \in Runners : pc[r] \in Ended)
=============================================================================
