---------------------------- MODULE HttpBridge -----------------------------
(***************************************************************************)
(* request() of _http.py, called while an event loop runs in the calling   *)
(* thread: the HTTP exchange runs on a loop of its own in a worker thread, *)
(* and the caller polls for its end.  SIGINT may come at any moment; under *)
(* asyncio.Runner the first one cancels the caller's task instead of       *)
(* raising KeyboardInterrupt.                                              *)
(***************************************************************************)
EXTENDS Naturals

CONSTANT
  MaxInterrupts  \* bound on the signals

ASSUME ConstantsAssumption == MaxInterrupts \in Nat

VARIABLES
  timed,      \* whether a timeout is given
  caller,     \* where the calling thread is
  leaving,    \* how request() is about to end
  cancels,    \* cancelling() has risen since request() began
  deferred,   \* a signal waits for the thread to be started
  cancelled,  \* the event that tells the worker to cancel
  worker,     \* where the worker thread is
  http,       \* the task that runs send()
  outcome,    \* what the worker leaves for the caller
  finished,   \* the event that ends the caller's polling
  interrupts, \* signals so far
  first       \* history: where the caller was at the first signal

signals == <<interrupts, first>>
vars == <<timed, caller, leaving, cancels, deferred, cancelled, worker, http, outcome,
          finished, signals>>
callers == <<timed, caller, leaving, cancels, deferred, cancelled, signals>>
workers == <<worker, http, outcome, finished>>

Init ==
  /\ timed \in BOOLEAN
  /\ caller = "starting" /\ leaving = "none"
  /\ cancels = FALSE /\ deferred = FALSE /\ cancelled = FALSE
  /\ worker = "unstarted" /\ http = "none"
  /\ outcome = "none" /\ finished = FALSE
  /\ interrupts = 0 /\ first = "none"

\* except BaseException: whatever is raised, the worker is seen off first.
Raise(e) == caller' = "unwinding" /\ leaving' = e

-----------------------------------------------------------------------------
(* The calling thread.                                                     *)

\* _start_thread: a signal that came meanwhile is raised once the thread is
\* known.  Starting a thread may also fail.
Start ==
  /\ caller = "starting"
  /\ \/ /\ worker' = "fresh"
        /\ IF deferred THEN Raise("KeyboardInterrupt")
                       ELSE caller' = "polling" /\ leaving' = leaving
     \/ /\ worker' = worker
        /\ Raise(IF deferred THEN "KeyboardInterrupt" ELSE "RuntimeError")
  /\ UNCHANGED <<timed, cancels, deferred, cancelled, http, outcome, finished, signals>>

Poll ==
  /\ caller = "polling"
  /\ \/ finished /\ caller' = "joining" /\ leaving' = leaving
     \/ ~finished /\ cancels /\ Raise("CancelledError")
  /\ UNCHANGED <<timed, cancels, deferred, cancelled, signals, workers>>

\* Slip: a cancellation that comes after the worker has finished is missed.
ConcludeUnchecked ==
  /\ caller = "joining" /\ worker = "exited"
  /\ caller' = "returning" /\ leaving' = leaving
  /\ UNCHANGED <<timed, cancels, deferred, cancelled, signals, workers>>

\* join, then look once more for a cancellation.
Conclude ==
  /\ caller = "joining" /\ worker = "exited"
  /\ IF cancels THEN Raise("CancelledError")
                ELSE caller' = "returning" /\ leaving' = leaving
  /\ UNCHANGED <<timed, cancels, deferred, cancelled, signals, workers>>

Return ==
  /\ caller = "returning"
  /\ IF outcome = "response" THEN caller' = "left" /\ leaving' = "response"
                             ELSE Raise(outcome)
  /\ UNCHANGED <<timed, cancels, deferred, cancelled, signals, workers>>

\* Slip: the worker is told to stop but not waited for.
UnwindWithoutJoin ==
  /\ caller = "unwinding"
  /\ cancelled' = TRUE /\ caller' = "left"
  /\ UNCHANGED <<timed, leaving, cancels, deferred, signals, workers>>

\* A thread that was never started is not waited for.
Unwind ==
  /\ caller = "unwinding"
  /\ cancelled' = TRUE
  /\ caller' = IF worker = "unstarted" THEN "left" ELSE "awaiting"
  /\ UNCHANGED <<timed, leaving, cancels, deferred, signals, workers>>

\* _join_thread: first the event, then the join.
Await ==
  /\ caller = "awaiting" /\ finished
  /\ caller' = "reaping"
  /\ UNCHANGED <<timed, leaving, cancels, deferred, cancelled, signals, workers>>

Reap ==
  /\ caller = "reaping" /\ worker = "exited"
  /\ caller' = "left"
  /\ UNCHANGED <<timed, leaving, cancels, deferred, cancelled, signals, workers>>

\* SIGINT: kept while the thread starts, swallowed while it is seen off.
Interrupt ==
  /\ interrupts < MaxInterrupts /\ caller # "left"
  /\ interrupts' = interrupts + 1
  /\ first' = IF first = "none" THEN caller ELSE first
  /\ \/ ~cancels /\ cancels' = TRUE /\ UNCHANGED <<caller, leaving, deferred>>
     \/ /\ caller = "starting"
        /\ deferred' = TRUE /\ UNCHANGED <<caller, leaving, cancels>>
     \/ /\ caller \in {"polling", "joining", "returning"}
        /\ Raise("KeyboardInterrupt") /\ UNCHANGED <<cancels, deferred>>
     \/ /\ caller \in {"unwinding", "awaiting", "reaping"}
        /\ UNCHANGED <<caller, leaving, cancels, deferred>>
  /\ UNCHANGED <<timed, cancelled, workers>>

-----------------------------------------------------------------------------
(* The worker thread: tracked_send() and run().                            *)

Begin ==
  /\ worker = "fresh"
  /\ IF cancelled THEN worker' = "closing" /\ http' = http
                  ELSE worker' = "watching" /\ http' = "running"
  /\ UNCHANGED <<outcome, finished, callers>>

HttpDone == http \notin {"none", "running", "cancelling"}

\* The task's end is taken first; else the event makes it cancel the task.
Watch ==
  /\ worker = "watching"
  /\ \/ HttpDone /\ worker' = "closing" /\ http' = http
     \/ /\ http = "running" /\ cancelled
        /\ http' = "cancelling" /\ worker' = worker
  /\ UNCHANGED <<outcome, finished, callers>>

\* The runner has closed its loop; the outcome is left for the caller.
Publish ==
  /\ worker = "closing"
  /\ worker' = "ending"
  /\ outcome' = IF http = "none" THEN "CancelledError" ELSE http
  /\ UNCHANGED <<http, finished, callers>>

\* Slip: the event is set where the outcome is a response, not in finally.
FinishOnSuccess ==
  /\ worker = "ending"
  /\ worker' = "dying" /\ finished' = (outcome = "response")
  /\ UNCHANGED <<http, outcome, callers>>

Finish ==
  /\ worker = "ending"
  /\ worker' = "dying" /\ finished' = TRUE
  /\ UNCHANGED <<http, outcome, callers>>

Die ==
  /\ worker = "dying"
  /\ worker' = "exited"
  /\ UNCHANGED <<http, outcome, finished, callers>>

\* send(): an answer or a network error; the deadline; a cancellation, which
\* the deadline may overtake.
Answered ==
  /\ http = "running"
  /\ http' \in {"response", "HTTPError"}
  /\ UNCHANGED <<worker, outcome, finished, callers>>

TimesOut ==
  /\ timed /\ http \in {"running", "cancelling"}
  /\ http' = "TimeoutException"
  /\ UNCHANGED <<worker, outcome, finished, callers>>

TaskCancelled ==
  /\ http = "cancelling"
  /\ http' = "CancelledError"
  /\ UNCHANGED <<worker, outcome, finished, callers>>
-----------------------------------------------------------------------------
Caller == Start \/ Poll \/ Conclude \/ Return \/ Unwind \/ Await \/ Reap
Worker == Begin \/ Watch \/ Publish \/ Finish \/ Die \/ TaskCancelled

Next == Caller \/ Worker \/ Interrupt \/ Answered \/ TimesOut

Spec == Init /\ [][Next]_vars

\* Both threads run and the deadline expires; the server need not answer.
FairSpec == Spec /\ WF_vars(Caller) /\ WF_vars(Worker) /\ WF_vars(TimesOut)
-----------------------------------------------------------------------------
Failures == {"HTTPError", "TimeoutException", "CancelledError"}

Places == {"starting", "polling", "joining", "returning", "unwinding", "awaiting",
           "reaping", "left"}

TypeOK ==
  /\ timed \in BOOLEAN
  /\ caller \in Places
  /\ leaving \in Failures \cup {"none", "response", "RuntimeError", "KeyboardInterrupt"}
  /\ cancels \in BOOLEAN /\ deferred \in BOOLEAN /\ cancelled \in BOOLEAN
  /\ worker \in {"unstarted", "fresh", "watching", "closing", "ending", "dying", "exited"}
  /\ http \in Failures \cup {"none", "running", "cancelling", "response"}
  /\ outcome \in Failures \cup {"none", "response"}
  /\ outcome = "none" <=> worker \notin {"ending", "dying", "exited"}
  /\ finished \in BOOLEAN
  /\ interrupts \in 0..MaxInterrupts
  /\ first \in Places \cup {"none"}

\* "HTTP tasks and bridge threads are always closed and joined" (_http.py:3):
\* however often and whenever the caller is interrupted, it leaves no thread
\* and no HTTP task behind.
NoAbandonedWork ==
  caller = "left" => worker \in {"unstarted", "exited"} /\ http \notin {"running", "cancelling"}

\* A signal that comes before the caller is already on its way out with an
\* exception is not lost (_http.py:260-276): request() ends with it.  There are
\* two exceptions, and both leave the caller's task cancelled, to be told at its
\* next await: the signal came after the last look for a cancellation, or the
\* thread could not be started.
InterruptsAreHeeded ==
  caller = "left" /\ first \in {"starting", "polling", "joining", "returning"} =>
    \/ leaving \in {"KeyboardInterrupt", "CancelledError"}
    \/ cancels /\ (first = "returning" \/ leaving = "RuntimeError")

\* A request that has a timeout ends, whatever the server and the signals do;
\* so does one that has none and is interrupted, although the server never
\* answers: the worker learns of it wherever it is (_http.py:234-264).
Termination == timed \/ caller = "unwinding" ~> caller = "left"
=============================================================================
