------------------------------- MODULE Shutdown -------------------------------
(***************************************************************************)
(* The graceful shutdown of one ThreadBridge process: the routine the      *)
(* signal handlers start, the HTTP server it drains, the PostgreSQL pool   *)
(* it closes afterwards, and the request handlers that run meanwhile.  A   *)
(* promise that settles resumes the routine before the next timer or       *)
(* socket event, so a settled race and what follows it is one step.        *)
(***************************************************************************)
EXTENDS Naturals

CONSTANTS
    Conns,       \* client connections
    None

ASSUME NoneAssumption == None \notin {0, 1}

VARIABLES
    phase,        \* where the one shutdown run is
    listening,    \* does the server accept connections?
    conn,         \* "none", "idle", "active", "closed" or "left"
    work,         \* the handler of the connection's last request
    http,         \* the promise of fastify.close()
    pool,         \* the PostgreSQL pool
    forced,       \* has the HTTP grace period passed?
    failure,      \* has the run caught an error?
    exitCode,
    diagnostics,  \* diagnostics written
    closings      \* calls of closeResources

clients == <<listening, conn, work>>
outcome == <<exitCode, diagnostics>>
vars == <<phase, listening, conn, work, http, pool, forced, failure,
          exitCode, diagnostics, closings>>

TypeOK ==
    /\ phase \in {"serving", "draining", "forcing", "resources", "done"}
    /\ listening \in BOOLEAN
    /\ conn \in [Conns -> {"none", "idle", "active", "closed", "left"}]
    /\ work \in [Conns -> {"none", "running", "querying", "finished", "cut"}]
    /\ http \in {"open", "closing", "closed", "failed"}
    /\ pool \in {"open", "ending", "ended", "failed"}
    /\ forced \in BOOLEAN
    /\ failure \in BOOLEAN
    /\ exitCode \in {None, 0, 1}
    /\ diagnostics \in Nat
    /\ closings \in Nat

Init ==
    /\ phase = "serving"
    /\ listening = TRUE
    /\ conn = [c \in Conns |-> "none"]
    /\ work = [c \in Conns |-> "none"]
    /\ http = "open"
    /\ pool = "open"
    /\ forced = FALSE
    /\ failure = FALSE
    /\ exitCode = None
    /\ diagnostics = 0
    /\ closings = 0

-----------------------------------------------------------------------------
(* Clients and handlers *)

Closed(c) == conn[c] \in {"none", "closed", "left"}

(* A connection brings its first request; an idle one brings another. *)
Request(c) ==
    /\ \/ listening /\ conn[c] = "none"
       \/ http = "open" /\ conn[c] = "idle"
    /\ conn' = [conn EXCEPT ![c] = "active"]
    /\ work' = [work EXCEPT ![c] = "running"]
    /\ UNCHANGED <<phase, listening, http, pool, forced, failure, outcome, closings>>

(* The handler awaits a statement; a pool that is ending refuses new ones. *)
Query(c) ==
    /\ work[c] = "running"
    /\ work' = [work EXCEPT ![c] = IF pool = "open" THEN "querying" ELSE "cut"]
    /\ UNCHANGED <<phase, listening, conn, http, pool, forced, failure, outcome, closings>>

QueryAnswered(c) ==
    /\ work[c] = "querying"
    /\ work' = [work EXCEPT ![c] = "running"]
    /\ UNCHANGED <<phase, listening, conn, http, pool, forced, failure, outcome, closings>>

(* The response is sent to whoever is left; the connection is kept or closed. *)
Respond(c) ==
    /\ work[c] = "running"
    /\ work' = [work EXCEPT ![c] = "finished"]
    /\ \/ conn[c] = "active" /\ \E s \in {"idle", "closed"} : conn' = [conn EXCEPT ![c] = s]
       \/ conn[c] # "active" /\ UNCHANGED conn
    /\ UNCHANGED <<phase, listening, http, pool, forced, failure, outcome, closings>>

(* A client closes an idle connection, or leaves without its response; the
   handler it started knows nothing of it. *)
ClientLeaves(c) ==
    /\ conn[c] \in {"idle", "active"}
    /\ conn' = [conn EXCEPT ![c] = IF conn[c] = "active" THEN "left" ELSE "closed"]
    /\ UNCHANGED <<phase, listening, work, http, pool, forced, failure, outcome, closings>>

-----------------------------------------------------------------------------
(* The shutdown run *)

AnySignal == TRUE    \* faulty: every signal starts a run

(* running ??= run() *)
NotRunning == phase = "serving"

SignalClosesAll ==    \* faulty: server and pool are closed side by side
    /\ NotRunning
    /\ phase' = "draining"
    /\ http' = "closing"
    /\ pool' = "ending"
    /\ UNCHANGED <<clients, forced, failure, outcome, closings>>

(* server.close() and closeIdleConnections() *)
Signal ==
    /\ NotRunning
    /\ phase' = "draining"
    /\ http' = "closing"
    /\ conn' = [c \in Conns |-> IF conn[c] = "idle" THEN "closed" ELSE conn[c]]
    /\ UNCHANGED <<listening, work, pool, forced, failure, outcome, closings>>

(* fastify.close() gets to the listening socket some turns later. *)
StopListening ==
    /\ http = "closing"
    /\ listening
    /\ listening' = FALSE
    /\ UNCHANGED <<phase, conn, work, http, pool, forced, failure, outcome, closings>>

(* closeResources is called as soon as closeHttpServer settled. *)
CloseResources(failed) ==
    /\ phase' = "resources"
    /\ pool' = "ending"
    /\ closings' = closings + 1
    /\ failure' = (failure \/ failed)

(* The last connection is gone: closed resolves. *)
ServerClosed ==
    /\ http = "closing"
    /\ ~listening
    /\ \A c \in Conns : Closed(c)
    /\ http' = "closed"
    /\ CloseResources(FALSE)
    /\ UNCHANGED <<clients, forced, outcome>>

(* closed rejects, or closing the idle connections throws. *)
ServerFails ==
    /\ http = "closing"
    /\ http' = "failed"
    /\ CloseResources(TRUE)
    /\ UNCHANGED <<clients, forced, outcome>>

LeaveConnections == conn    \* faulty: the deadline only stops the wait

(* closeAllConnections destroys the sockets; handlers are not stopped. *)
AllClosed ==
    [c \in Conns |-> IF Closed(c) THEN conn[c] ELSE "closed"]

DeadlineSkipsTheServer ==    \* faulty: the deadline goes on to the resources
    /\ phase = "draining"
    /\ forced' = TRUE
    /\ CloseResources(FALSE)
    /\ UNCHANGED <<clients, http, outcome>>

(* Seconds after the few turns in which the listener stopped. *)
GraceDeadline ==
    /\ phase = "draining"
    /\ ~listening
    /\ conn' = AllClosed
    /\ forced' = TRUE
    /\ phase' = "forcing"
    /\ UNCHANGED <<listening, work, http, pool, failure, outcome, closings>>

FinishSilently(failed) ==    \* faulty: only the last phase decides
    /\ phase' = "done"
    /\ failure' = failed
    /\ exitCode' = IF failed THEN 1 ELSE 0
    /\ diagnostics' = IF failed THEN diagnostics + 1 ELSE diagnostics

FinishCounting(failed) ==    \* faulty: the exit code counts the failures
    /\ phase' = "done"
    /\ failure' = (failure \/ failed)
    /\ exitCode' = (IF failure THEN 1 ELSE 0) + (IF failed THEN 1 ELSE 0)
    /\ diagnostics' = IF failure \/ failed THEN diagnostics + 1 ELSE diagnostics

Finish(failed) ==
    /\ phase' = "done"
    /\ failure' = (failure \/ failed)
    /\ exitCode' = IF failure \/ failed THEN 1 ELSE 0
    /\ diagnostics' = IF failure \/ failed THEN diagnostics + 1 ELSE diagnostics

(* Statements in flight are awaited; a pool that closes late is only observed. *)
PoolCloses ==
    /\ pool = "ending"
    /\ \A c \in Conns : work[c] # "querying"
    /\ pool' = "ended"
    /\ IF phase = "resources" THEN Finish(FALSE)
       ELSE UNCHANGED <<phase, failure, outcome>>
    /\ UNCHANGED <<clients, http, forced, closings>>

PoolFails ==
    /\ pool = "ending"
    /\ pool' = "failed"
    /\ IF phase = "resources" THEN Finish(TRUE)
       ELSE UNCHANGED <<phase, failure, outcome>>
    /\ UNCHANGED <<clients, http, forced, closings>>

(* sql.end has a deadline of its own: the statements left are destroyed. *)
PoolDestroyed ==
    /\ pool = "ending"
    /\ \E c \in Conns : work[c] = "querying"
    /\ pool' = "ended"
    /\ work' = [c \in Conns |-> IF work[c] = "querying" THEN "cut" ELSE work[c]]
    /\ IF phase = "resources" THEN Finish(FALSE)
       ELSE UNCHANGED <<phase, failure, outcome>>
    /\ UNCHANGED <<listening, conn, http, forced, closings>>

ResourceDeadline ==
    /\ phase = "resources"
    /\ pool = "ending"
    /\ Finish(TRUE)
    /\ UNCHANGED <<clients, http, pool, forced, closings>>

-----------------------------------------------------------------------------
Handler(c) == Query(c) \/ QueryAnswered(c) \/ Respond(c)

Pool == PoolCloses \/ PoolFails \/ PoolDestroyed

Run == \/ StopListening \/ ServerClosed \/ ServerFails \/ GraceDeadline
       \/ ResourceDeadline

Done == phase = "done" /\ UNCHANGED vars

Next ==
    \/ \E c \in Conns : Request(c) \/ Handler(c) \/ ClientLeaves(c)
    \/ Signal \/ Run \/ Pool \/ Done

Spec == Init /\ [][Next]_vars

(* Timers fire, the listener stops, and a server without a connection closes.
   Neither handlers, nor clients, nor the pool owe anything. *)
Fairness ==
    /\ WF_vars(StopListening)
    /\ WF_vars(ServerClosed)
    /\ WF_vars(GraceDeadline)
    /\ WF_vars(ResourceDeadline)
FairSpec == Spec /\ Fairness

-----------------------------------------------------------------------------
(* The pool is closed only once no client can be answered any more: a request
   whose connection lives never fails because its process is stopping, unless
   stopping the server itself failed. *)
PoolOutlivesConnections ==
    pool # "open" =>
        \/ http = "failed"
        \/ ~listening /\ \A c \in Conns : Closed(c)

(* A handler whose client waits for the response is cut off from the database
   only after the grace period, unless stopping the server itself failed. *)
WaitingIsNotCut ==
    \A c \in Conns :
        work[c] = "cut" => conn[c] = "left" \/ forced \/ http = "failed"

(* shutdown.ts "gives whatever is still in flight a bounded amount of time":
   no handler at all is cut off before the grace period has passed. *)
CutOnlyAfterDeadline ==
    (\E c \in Conns : work[c] = "cut") => forced \/ http = "failed"

OneRun == closings <= 1 /\ diagnostics <= 1

ExitCodeIsHonest ==
    phase = "done" =>
        /\ exitCode = 0 => http = "closed" /\ pool = "ended"
        /\ exitCode = 1 <=> diagnostics = 1
        /\ http = "failed" => exitCode = 1

(* However many signals arrive and whichever timer wins, the resources are
   closed once and one diagnostic at most is written; exit code 0 is set only
   when the server stopped and the pool is closed, and any failure in either
   phase ends in the diagnostic and exit code 1. *)
OneHonestRun == OneRun /\ ExitCodeIsHonest

(* A shutdown ends although requests may hang and the pool may never close. *)
ShutdownEnds == (phase # "serving") ~> (phase = "done")
=============================================================================
