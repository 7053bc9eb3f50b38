---------------------------- MODULE ProxyExecute ----------------------------
(***************************************************************************)
(* One execute() of a proxy module (output/http_proxy_writer.py).  It is a *)
(* coroutine: its own steps run undisturbed between two awaits, while the  *)
(* cancel token may be set by anybody at any time.  The timer of           *)
(* asyncio.timeout and whoever owns the task both speak to it by           *)
(* task.cancel(), which reaches it at the await where it is.               *)
(*                                                                         *)
(* External: httpx, which answers, fails or never returns, and which cleans*)
(* up and raises CancelledError when it is cancelled.                      *)
(***************************************************************************)
EXTENDS Naturals

CONSTANT
  MaxCancels  \* bound on the cancellations by the task's owner

ASSUME ConstantsAssumption == MaxCancels \in Nat

VARIABLES
  tokened,    \* the context carries a cancel token
  patient,    \* the timeout lies beyond everything that happens
  place,      \* where execute() is
  request,    \* the HTTP exchange, in a task of its own if there is a token
  timer,      \* asyncio.timeout: "unset", "armed", "expiring" or "exited"
  cancels,    \* how often the owner has cancelled the task
  pending,    \* a cancellation waits for the task to be resumed
  raised,     \* what the body of the try is about to hand over
  outcome,    \* how execute() ended
  token,      \* the cancel token
  withdrawn   \* history: the token was set before the exchange had ended

setting == <<tokened, patient>>
control == <<place, request, timer, raised, outcome>>
vars == <<setting, control, cancels, pending, token, withdrawn>>

Replies == {"response", "HTTPError", "OtherError"}
Over == Replies \cup {"CancelledError"}      \* request_task.done()
Awaits == {"requesting", "polling", "joining"}

Init ==
  /\ tokened \in BOOLEAN /\ patient \in BOOLEAN
  /\ place = "entry" /\ request = "none" /\ timer = "unset"
  /\ cancels = 0 /\ pending = FALSE
  /\ raised = "none" /\ outcome = "none"
  /\ token = FALSE /\ withdrawn = FALSE

End(result) == place' = "ended" /\ outcome' = result

-----------------------------------------------------------------------------
(* The owner, the timer and the holder of the token.                       *)

SetToken ==
  /\ tokened /\ ~token
  /\ token' = TRUE
  /\ withdrawn' = (request \notin Over)
  /\ UNCHANGED <<setting, control, cancels, pending>>

OwnerCancels ==
  /\ place \in Awaits /\ cancels < MaxCancels
  /\ cancels' = cancels + 1 /\ pending' = TRUE
  /\ UNCHANGED <<setting, control, token, withdrawn>>

Expire ==
  /\ ~patient /\ timer = "armed" /\ place \in Awaits
  /\ timer' = "expiring" /\ pending' = TRUE
  /\ UNCHANGED <<setting, place, request, raised, outcome, cancels, token, withdrawn>>

-----------------------------------------------------------------------------
(* execute()                                                               *)

\* A token that is set stops the call before any credential is asked for.
Enter ==
  /\ place = "entry"
  /\ IF token THEN End("ExecutionCancelledError")
              ELSE place' = "preparing" /\ outcome' = outcome
  /\ UNCHANGED <<setting, request, timer, raised, cancels, pending, token, withdrawn>>

\* The factory for headers raises, or a path parameter is missing.
PrepareFails ==
  /\ place = "preparing"
  /\ End("OtherError")
  /\ UNCHANGED <<setting, request, timer, raised, cancels, pending, token, withdrawn>>

\* Without a token the request is awaited in place; with one it gets a task.
Send ==
  /\ place = "preparing"
  /\ IF token
     THEN End("ExecutionCancelledError") /\ timer' = "exited" /\ request' = request
     ELSE /\ place' = IF tokened THEN "polling" ELSE "requesting"
          /\ request' = "running" /\ timer' = "armed" /\ outcome' = outcome
  /\ UNCHANGED <<setting, raised, cancels, pending, token, withdrawn>>

\* finally: the request is cancelled unless it is done, and joined.
Settle(result) ==
  /\ place' = "joining" /\ raised' = result
  /\ request' = IF request \in Over THEN request ELSE "cancelling"

\* Slip: the token is looked at again only when the request is done.
TurnBlindly ==
  /\ place = "polling"
  /\ \/ pending /\ Settle("CancelledError")
     \/ ~pending /\ request \in Over /\ token /\ Settle("ExecutionCancelledError")
     \/ ~pending /\ request \in Over /\ ~token /\ Settle(request)
  /\ pending' = FALSE
  /\ UNCHANGED <<setting, timer, outcome, cancels, token, withdrawn>>

\* One turn of the polling loop, after the 10 ms or the end of the request.
Turn ==
  /\ place = "polling"
  /\ \/ pending /\ Settle("CancelledError")
     \/ ~pending /\ token /\ Settle("ExecutionCancelledError")
     \/ ~pending /\ ~token /\ request \in Over /\ Settle(request)
  /\ pending' = FALSE
  /\ UNCHANGED <<setting, timer, outcome, cancels, token, withdrawn>>

\* asyncio.timeout.__aexit__: an expired timer accounts for one cancellation;
\* only if there is no other is it a TimeoutError.
TimedOut(result) == timer = "expiring" /\ cancels = 0 /\ result = "CancelledError"

\* What else leaves the try, and what is made of a response.
Report(result) ==
  \/ result = "response" /\ \E verdict \in {"body", "bad_response"} : End(verdict)
  \/ result = "HTTPError" /\ End("transport_error")
  \/ result \notin {"response", "HTTPError"} /\ End(result)

\* Slip: a timeout is reported without a last look at the token.
ConcludeUnchecked(result) ==
  /\ timer' = "exited"
  /\ IF TimedOut(result) THEN End("timeout") ELSE Report(result)

Conclude(result) ==
  /\ timer' = "exited"
  /\ IF TimedOut(result)
     THEN End(IF token THEN "ExecutionCancelledError" ELSE "timeout")
     ELSE Report(result)

\* Slip: a cancellation during the join is swallowed.
JoinDeafly ==
  /\ place = "joining" /\ request \in Over
  /\ Conclude(raised)
  /\ UNCHANGED <<setting, request, raised, cancels, pending, token, withdrawn>>

\* Slip: the request is told to stop and left to itself.
JoinHastily ==
  /\ place = "joining"
  /\ Conclude(IF pending THEN "CancelledError" ELSE raised)
  /\ UNCHANGED <<setting, request, raised, cancels, pending, token, withdrawn>>

\* gather() ends with the request also when it is cancelled meanwhile, and
\* raises CancelledError then.
Join ==
  /\ place = "joining" /\ request \in Over
  /\ Conclude(IF pending THEN "CancelledError" ELSE raised)
  /\ UNCHANGED <<setting, request, raised, cancels, pending, token, withdrawn>>

-----------------------------------------------------------------------------
(* The exchange.                                                           *)

\* In its own task.
Reply ==
  /\ place \in {"polling", "joining"} /\ request = "running"
  /\ request' \in Replies
  /\ UNCHANGED <<setting, place, timer, raised, outcome, cancels, pending, token, withdrawn>>

CleanUp ==
  /\ place # "requesting" /\ request = "cancelling"
  /\ request' = "CancelledError"
  /\ UNCHANGED <<setting, place, timer, raised, outcome, cancels, pending, token, withdrawn>>

\* In place: a cancellation reaches the exchange itself.
ReplyInPlace ==
  /\ place = "requesting" /\ request = "running" /\ ~pending
  /\ request' \in Replies /\ Conclude(request')
  /\ UNCHANGED <<setting, raised, cancels, pending, token, withdrawn>>

StopInPlace ==
  /\ place = "requesting"
  /\ \/ /\ request = "running" /\ pending
        /\ request' = "cancelling" /\ UNCHANGED <<place, timer, outcome>>
     \/ /\ request = "cancelling"
        /\ request' = "CancelledError" /\ Conclude("CancelledError")
  /\ UNCHANGED <<setting, raised, cancels, pending, token, withdrawn>>

-----------------------------------------------------------------------------
Own == Enter \/ PrepareFails \/ Send \/ Turn \/ Join \/ CleanUp \/ StopInPlace

Next == Own \/ Expire \/ Reply \/ ReplyInPlace \/ SetToken \/ OwnerCancels

Spec == Init /\ [][Next]_vars

\* The loop runs, the timer expires, a cancelled exchange is cleaned up; the
\* server need not answer.
FairSpec == Spec /\ WF_vars(Own) /\ WF_vars(Expire)

-----------------------------------------------------------------------------
TypeOK ==
  /\ tokened \in BOOLEAN /\ patient \in BOOLEAN
  /\ place \in Awaits \cup {"entry", "preparing", "ended"}
  /\ request \in Over \cup {"none", "running", "cancelling"}
  /\ timer \in {"unset", "armed", "expiring", "exited"}
  /\ cancels \in 0..MaxCancels /\ pending \in BOOLEAN
  /\ raised \in Over \cup {"none", "ExecutionCancelledError"}
  /\ outcome \in {"none", "body", "bad_response", "timeout", "transport_error",
                  "OtherError", "CancelledError", "ExecutionCancelledError"}
  /\ outcome = "none" <=> place # "ended"
  /\ token \in BOOLEAN /\ withdrawn \in BOOLEAN

\* "HTTP proxy execution now observes Context.cancel_token ... and joins
\* request cleanup before reporting cancellation" (CHANGELOG.md:9-10): however
\* the token, the timer and the owner interfere, no exchange outlives the call.
NoRequestLeft == place = "ended" => request \notin {"running", "cancelling"}

\* A call whose token was set before the exchange had ended is not answered
\* and does not blame the server (test_http_deadlines.py:120-129), also if the
\* deadline passes while the request is being joined.
TokenWins ==
  withdrawn => outcome \notin {"body", "bad_response", "timeout", "transport_error"}

\* "Task cancellation remains CancelledError" (http_proxy_writer.py:259): the
\* token, the timer or a response that comes at the same time do not hide it.
CancellationIsKept == cancels > 0 /\ place = "ended" => outcome = "CancelledError"

\* A call that has been sent ends although the server is silent: by its
\* timeout, and without waiting for that once it is cancelled either way.
ExecuteEnds ==
  place \in Awaits /\ (~patient \/ token \/ cancels > 0) ~> place = "ended"
=============================================================================
