---------------------------- MODULE HttpBoundary ----------------------------
(***************************************************************************)
(* POST /comments from the socket to the response: what the router refuses *)
(* before the use case, which status each outcome of the use case is       *)
(* answered with, and what a client may conclude from it about the         *)
(* provider.                                                               *)
(***************************************************************************)
EXTENDS ReplyPublication

VARIABLE
    response    \* the status a request was answered with, or None

httpVars == <<vars, response>>

(* Route, media type, size and syntax of the body, then parseReplyRequest. *)
Refusals == {404, 415, 413, 400}

IndeterminateUnavailable(code) ==    \* faulty: unknown is told as unavailable
    CASE code \in {"INDETERMINATE_PLATFORM_RESULT", "PLATFORM_UNAVAILABLE"} -> 503
      [] code = "created" -> 201
      [] code = "existing" -> 200
      [] code = "THROWN" -> 500
      [] code = "PLATFORM_CURSOR_INVALID" -> 400
      [] code \in {"COMMENT_NOT_FOUND", "PLATFORM_RESOURCE_NOT_FOUND"} -> 404
      [] code = "IDEMPOTENCY_CONFLICT" -> 409
      [] code = "PLATFORM_RATE_LIMITED" -> 429
      [] code = "PLATFORM_TIMEOUT" -> 504
      [] code \in {"PLATFORM_AUTHENTICATION_FAILED", "PLATFORM_PERMISSION_DENIED"} -> 502
      [] OTHER -> 422

(* The router's 201 and 200, toHttpErrorResponse, and 500 for a rejection. *)
HttpStatus(code) ==
    CASE code = "created" -> 201
      [] code = "existing" -> 200
      [] code = "PLATFORM_CURSOR_INVALID" -> 400
      [] code \in {"COMMENT_NOT_FOUND", "PLATFORM_RESOURCE_NOT_FOUND"} -> 404
      [] code = "IDEMPOTENCY_CONFLICT" -> 409
      [] code \in {"UNSUPPORTED_PLATFORM", "PLATFORM_VALIDATION_FAILED",
                   "PLATFORM_OPERATION_UNSUPPORTED"} -> 422
      [] code = "PLATFORM_RATE_LIMITED" -> 429
      [] code = "THROWN" -> 500
      [] code \in {"PLATFORM_AUTHENTICATION_FAILED", "PLATFORM_PERMISSION_DENIED",
                   "INDETERMINATE_PLATFORM_RESULT"} -> 502
      [] code = "PLATFORM_UNAVAILABLE" -> 503
      [] code = "PLATFORM_TIMEOUT" -> 504

ASSUME StatusAssumption == None \notin 200..599

HttpTypeOK == TypeOK /\ response \in [Requests -> (200..599) \cup {None}]

HttpInit == Init /\ response = [r \in Requests |-> None]

-----------------------------------------------------------------------------
Send(r, status) == response' = [response EXCEPT ![r] = status]

(* The request never reaches the use case. *)
Refuse(r) ==
    /\ pc[r] = "idle" /\ response[r] = None
    /\ \E status \in Refusals : Send(r, status)
    /\ UNCHANGED vars

Receive(r) ==
    /\ response[r] = None
    /\ FindContext(r)
    /\ UNCHANGED response

(* The use case goes on; its last step is SendResult. *)
Await(r) ==
    /\ pc[r] # "returning" /\ Handler(r)
    /\ UNCHANGED response

(* execute has resolved, or thrown: the response is sent in the same turn. *)
SendResult(r) == ReturnResult(r) /\ Send(r, HttpStatus(result[r].code))

(* An awaited call rejects: the error handler answers.  After a crash nobody
   does, nor when the client has left. *)
Stop(r) == Abandon(r) /\ UNCHANGED response

AnswerError(r) ==
    /\ pc[r] = "abandoned" /\ response[r] = None
    /\ Send(r, 500)
    /\ UNCHANGED vars

(* What happens at the provider and in retrieval meanwhile. *)
Elsewhere ==
    /\ \/ \E r \in Requests : TakeEffect(r) \/ Import(r)
       \/ \E x \in Requests, c \in Contents : EditReply(x, c)
       \/ \E p \in Parents : ObserveParent(p)
    /\ UNCHANGED response

HttpNext ==
    \/ \E r \in Requests :
         Refuse(r) \/ Receive(r) \/ Await(r) \/ SendResult(r) \/ Stop(r) \/ AnswerError(r)
    \/ Elsewhere

HttpSpec == HttpInit /\ [][HttpNext]_httpVars

-----------------------------------------------------------------------------
(* Statuses that tell the client its own request published nothing.  409 is
   not one of them: the reply may exist under another spelling of the parent
   or in an edited form. *)
Definite == {400, 404, 413, 415, 422, 429, 503, 504}

(* Only 409, 500 and 502 leave a client in doubt.  A request that was answered
   with any other error has written nothing at the provider and never will, however
   late its calls take effect, so that retrying it cannot publish it twice
   (docs/publication-operations.md: retry the identical request). *)
DoubtIsTold ==
    \A r \in Requests : response[r] \in Definite =>
        replies[r] = None /\ r \notin inflight
=============================================================================
