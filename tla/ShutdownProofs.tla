--------------------------- MODULE ShutdownProofs ---------------------------
(***************************************************************************)
(* Proofs about Shutdown, for any set of connections.  RunInv says what    *)
(* each phase of the run knows of the two promises it waits for, ConnInv   *)
(* why a handler without a connection exists: its client left, or the      *)
(* deadline destroyed the connection.                                      *)
(***************************************************************************)
EXTENDS Shutdown, TLAPS

AllGone == ~listening /\ \A c \in Conns : Closed(c)

(* The promises, the failure and the outcome at each phase. *)
RunInv ==
    /\ phase = "serving" =>
         http = "open" /\ pool = "open" /\ closings = 0 /\ ~failure
    /\ phase \in {"draining", "forcing"} =>
         http = "closing" /\ pool = "open" /\ closings = 0 /\ ~failure
    /\ phase = "forcing" => ~listening
    /\ phase = "resources" =>
         http \in {"closed", "failed"} /\ pool = "ending" /\ closings = 1
    /\ phase = "done" =>
         http \in {"closed", "failed"} /\ pool # "open" /\ closings = 1
    /\ phase # "done" => exitCode = None /\ diagnostics = 0
    /\ phase = "done" /\ failure => exitCode = 1 /\ diagnostics = 1
    /\ phase = "done" /\ ~failure => exitCode = 0 /\ diagnostics = 0
    /\ http = "failed" => failure
    /\ http = "closed" => AllGone
    /\ phase = "done" /\ ~failure => pool = "ended"

(* What connections and handlers tell about each other. *)
ConnInv ==
    \A c \in Conns :
        /\ conn[c] = "none" => work[c] = "none"
        /\ conn[c] = "idle" => work[c] = "finished"
        /\ work[c] \in {"running", "querying"} => conn[c] \in {"active", "left"} \/ forced

IInv == TypeOK /\ RunInv /\ ConnInv /\ WaitingIsNotCut

-----------------------------------------------------------------------------
(* A pool that is no longer open was closed after the server, or after its failure. *)
LEMMA PoolAfterServer == IInv => PoolOutlivesConnections
  BY DEF IInv, TypeOK, RunInv, AllGone, PoolOutlivesConnections

(* The steps of clients and handlers, which know nothing of the run. *)
LEMMA ClientStep ==
    ASSUME IInv, NEW c \in Conns, Request(c) \/ Handler(c) \/ ClientLeaves(c)
    PROVE  IInv'
  <1>1. CASE Request(c)
    <2>1. TypeOK'
      BY <1>1 DEF Request, IInv, TypeOK, outcome
    <2>2. RunInv'
      BY <1>1 DEF Request, IInv, TypeOK, RunInv, AllGone, Closed, outcome
    <2>3. ConnInv' /\ WaitingIsNotCut'
      BY <1>1 DEF Request, IInv, TypeOK, ConnInv, WaitingIsNotCut, outcome
    <2> QED BY <2>1, <2>2, <2>3 DEF IInv
  <1>2. CASE Query(c)
    <2>1. TypeOK'
      BY <1>2 DEF Query, IInv, TypeOK, outcome
    <2>2. RunInv'
      BY <1>2 DEF Query, IInv, TypeOK, RunInv, AllGone, Closed, outcome
    <2>3. ConnInv'
      BY <1>2 DEF Query, IInv, TypeOK, ConnInv, outcome
    <2>4. WaitingIsNotCut'
      BY <1>2, PoolAfterServer
      DEF Query, IInv, TypeOK, ConnInv, WaitingIsNotCut, PoolOutlivesConnections,
          Closed, outcome
    <2> QED BY <2>1, <2>2, <2>3, <2>4 DEF IInv
  <1>3. CASE QueryAnswered(c)
    BY <1>3 DEF QueryAnswered, IInv, TypeOK, RunInv, ConnInv, WaitingIsNotCut,
                AllGone, Closed, outcome
  <1>4. CASE Respond(c)
    <2>1. TypeOK'
      BY <1>4 DEF Respond, IInv, TypeOK, outcome
    <2>2. RunInv'
      BY <1>4 DEF Respond, IInv, TypeOK, RunInv, AllGone, Closed, outcome
    <2>3. ConnInv' /\ WaitingIsNotCut'
      BY <1>4 DEF Respond, IInv, TypeOK, ConnInv, WaitingIsNotCut, outcome
    <2> QED BY <2>1, <2>2, <2>3 DEF IInv
  <1>5. CASE ClientLeaves(c)
    <2>1. TypeOK'
      BY <1>5 DEF ClientLeaves, IInv, TypeOK, outcome
    <2>2. RunInv'
      BY <1>5 DEF ClientLeaves, IInv, TypeOK, RunInv, AllGone, Closed, outcome
    <2>3. ConnInv' /\ WaitingIsNotCut'
      BY <1>5 DEF ClientLeaves, IInv, TypeOK, ConnInv, WaitingIsNotCut, outcome
    <2> QED BY <2>1, <2>2, <2>3 DEF IInv
  <1> QED BY <1>1, <1>2, <1>3, <1>4, <1>5 DEF Handler

(* The first signal starts the run and closes the idle connections. *)
LEMMA SignalStep == IInv /\ Signal => IInv'
  <1> SUFFICES ASSUME IInv, Signal PROVE IInv'
    OBVIOUS
  <1>1. TypeOK'
    BY DEF Signal, NotRunning, IInv, TypeOK, outcome
  <1>2. RunInv'
    BY DEF Signal, NotRunning, IInv, TypeOK, RunInv, AllGone, Closed, outcome
  <1>3. ConnInv' /\ WaitingIsNotCut'
    BY DEF Signal, NotRunning, IInv, TypeOK, RunInv, ConnInv, WaitingIsNotCut, outcome
  <1> QED BY <1>1, <1>2, <1>3 DEF IInv

(* The server stops, closes, fails or is forced; the deadlines fire. *)
LEMMA RunStep == IInv /\ Run => IInv'
  <1> SUFFICES ASSUME IInv, Run PROVE IInv'
    OBVIOUS
  <1> USE DEF IInv, TypeOK, clients, outcome
  <1>1. CASE StopListening
    BY <1>1 DEF StopListening, RunInv, ConnInv, WaitingIsNotCut, AllGone, Closed
  <1>2. CASE ServerClosed
    BY <1>2 DEF ServerClosed, CloseResources, RunInv, ConnInv, WaitingIsNotCut,
                AllGone, Closed
  <1>3. CASE ServerFails
    <2>1. failure' = TRUE
      BY <1>3 DEF ServerFails, CloseResources
    <2>2. TypeOK'
      BY <1>3, <2>1 DEF ServerFails, CloseResources
    <2>3. RunInv'
      BY <1>3, <2>1 DEF ServerFails, CloseResources, RunInv
    <2>4. ConnInv' /\ WaitingIsNotCut'
      BY <1>3 DEF ServerFails, ConnInv, WaitingIsNotCut
    <2> QED BY <2>2, <2>3, <2>4
  <1>4. CASE GraceDeadline
    <2>1. TypeOK'
      BY <1>4 DEF GraceDeadline, AllClosed
    <2>2. RunInv'
      BY <1>4 DEF GraceDeadline, AllClosed, RunInv, AllGone, Closed
    <2>3. ConnInv' /\ WaitingIsNotCut'
      BY <1>4 DEF GraceDeadline, AllClosed, ConnInv, WaitingIsNotCut, Closed
    <2> QED BY <2>1, <2>2, <2>3
  <1>5. CASE ResourceDeadline
    <2>1. failure' = TRUE /\ exitCode' = 1 /\ diagnostics' = diagnostics + 1
      BY <1>5 DEF ResourceDeadline, Finish
    <2>2. TypeOK'
      BY <1>5, <2>1 DEF ResourceDeadline, Finish
    <2>3. RunInv'
      BY <1>5, <2>1 DEF ResourceDeadline, Finish, RunInv, AllGone, Closed
    <2>4. ConnInv' /\ WaitingIsNotCut'
      BY <1>5 DEF ResourceDeadline, ConnInv, WaitingIsNotCut
    <2> QED BY <2>2, <2>3, <2>4
  <1> QED BY <1>1, <1>2, <1>3, <1>4, <1>5 DEF Run

(* The pool settles before or after its deadline. *)
LEMMA PoolStep == IInv /\ Pool => IInv'
  <1> SUFFICES ASSUME IInv, Pool PROVE IInv'
    OBVIOUS
  <1> USE DEF IInv, TypeOK, clients, outcome
  <1>1. CASE PoolCloses
    BY <1>1, NoneAssumption
    DEF PoolCloses, Finish, RunInv, ConnInv, WaitingIsNotCut, AllGone, Closed
  <1>2. CASE PoolFails
    <2>1. ConnInv' /\ WaitingIsNotCut'
      BY <1>2 DEF PoolFails, ConnInv, WaitingIsNotCut
    <2>2. CASE phase = "resources"
      <3>1. failure' = TRUE /\ exitCode' = 1 /\ diagnostics' = diagnostics + 1
        BY <1>2, <2>2 DEF PoolFails, Finish
      <3>2. TypeOK'
        BY <1>2, <2>2, <3>1 DEF PoolFails, Finish
      <3>3. RunInv'
        BY <1>2, <2>2, <3>1 DEF PoolFails, Finish, RunInv, AllGone, Closed
      <3> QED BY <2>1, <3>2, <3>3
    <2>3. CASE phase # "resources"
      <3>1. TypeOK' /\ RunInv'
        BY <1>2, <2>3 DEF PoolFails, RunInv, AllGone, Closed
      <3> QED BY <2>1, <3>1
    <2> QED BY <2>2, <2>3
  <1>3. CASE PoolDestroyed
    <2>1. TypeOK'
      BY <1>3 DEF PoolDestroyed, Finish
    <2>2. RunInv'
      BY <1>3, NoneAssumption DEF PoolDestroyed, Finish, RunInv, AllGone, Closed
    <2>3. ConnInv'
      BY <1>3 DEF PoolDestroyed, ConnInv
    <2>4. WaitingIsNotCut'
      BY <1>3, PoolAfterServer
      DEF PoolDestroyed, ConnInv, WaitingIsNotCut, PoolOutlivesConnections, Closed
    <2> QED BY <2>1, <2>2, <2>3, <2>4
  <1> QED BY <1>1, <1>2, <1>3 DEF Pool

(* Nothing has happened yet. *)
LEMMA InitInv == Init => IInv
  <1> SUFFICES ASSUME Init PROVE IInv
    OBVIOUS
  <1>1. TypeOK
    BY DEF Init, TypeOK
  <1>2. ~failure
    BY DEF Init
  <1>3. RunInv
    BY <1>2 DEF Init, RunInv
  <1>4. ConnInv /\ WaitingIsNotCut
    BY DEF Init, ConnInv, WaitingIsNotCut
  <1> QED BY <1>1, <1>3, <1>4 DEF IInv

(* Every step of clients, the run and the pool keeps the invariant. *)
LEMMA StepInv == IInv /\ [Next]_vars => IInv'
  <1>1. IInv /\ UNCHANGED vars => IInv'
    BY DEF vars, IInv, TypeOK, RunInv, ConnInv, WaitingIsNotCut, AllGone, Closed
  <1> QED BY <1>1, ClientStep, SignalStep, RunStep, PoolStep DEF Next, Done

(* The invariant holds in every reachable state. *)
THEOREM Invariance == Spec => []IInv
  BY InitInv, StepInv, PTL DEF Spec

(* Every variable keeps its type. *)
THEOREM TypeCorrect == Spec => []TypeOK
  <1>1. IInv => TypeOK
    BY DEF IInv
  <1> QED BY <1>1, Invariance, PTL

(* The pool is closed after the last connection is gone, or the server failed. *)
THEOREM PoolOutlives == Spec => []PoolOutlivesConnections
  BY PoolAfterServer, Invariance, PTL

(* No handler whose client waits is cut off before the deadline. *)
THEOREM WaitingSpared == Spec => []WaitingIsNotCut
  <1>1. IInv => WaitingIsNotCut
    BY DEF IInv
  <1> QED BY <1>1, Invariance, PTL

(* One run, with one diagnostic at most, whose exit code tells how it went. *)
THEOREM HonestRun == Spec => []OneHonestRun
  <1>1. IInv => OneRun
    BY DEF IInv, TypeOK, RunInv, OneRun
  <1>2. IInv => ExitCodeIsHonest
    BY NoneAssumption DEF IInv, TypeOK, RunInv, ExitCodeIsHonest
  <1>3. IInv => OneHonestRun
    BY <1>1, <1>2 DEF OneHonestRun
  <1> QED BY <1>3, Invariance, PTL
=============================================================================
