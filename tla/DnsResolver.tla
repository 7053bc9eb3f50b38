---------------------------- MODULE DnsResolver ----------------------------
(***************************************************************************)
(* _Resolver of _http.py: a few daemon threads that run blocking OS DNS    *)
(* lookups for the event loops of all requests, behind a bounded queue.    *)
(* Between its awaits a request runs on its loop undisturbed; the workers, *)
(* the other requests and close() interleave with it at every step.        *)
(*                                                                         *)
(* External: getaddrinfo of the operating system, which answers, fails or  *)
(* never returns.                                                          *)
(***************************************************************************)
EXTENDS Naturals, Sequences, FiniteSets

CONSTANTS
  Lookups,    \* the lookups, each of a request of its own
  Impatient,  \* those whose request has a deadline or will be cancelled
  WorkerCount, \* the most threads a pool may have
  PoolSizes,  \* how many threads one has, 2 in the code
  Capacity,   \* maxsize of the queue, 2 in the code
  HungSets    \* sets of lookups the operating system may leave unanswered

ASSUME ConstantsAssumption ==
  /\ Impatient \subseteq Lookups
  /\ Capacity \in Nat \ {0} /\ WorkerCount \in Nat \ {0}
  /\ PoolSizes \subseteq 1..WorkerCount
  /\ HungSets \subseteq SUBSET Lookups

Workers == 1..WorkerCount

VARIABLES
  size,      \* how many threads the pool is to have
  pool,      \* "starting", "open" (published), "retiring" or "failed"
  enrolled,  \* len(_workers): the threads the pool will join
  closed,    \* the event close() sets
  closer,    \* where close() is: "idle", "draining" or "done"
  jobs,      \* the queue
  worker,    \* where each thread is
  job,       \* the lookup it took off the queue
  future,    \* the concurrent Future of each lookup
  caller,    \* where each lookup's coroutine is
  hung       \* the lookups the operating system never answers

construction == <<size, pool, enrolled, closed, closer>>
vars == <<construction, jobs, worker, job, future, caller, hung>>

Ended == {"answered", "cancelled", "refused"}

Init ==
  /\ size \in PoolSizes
  /\ pool = "starting" /\ enrolled = 0
  /\ closed = FALSE /\ closer = "idle"
  /\ jobs = <<>>
  /\ worker = [w \in Workers |-> "unstarted"]
  /\ job = [w \in Workers |-> "none"]
  /\ future = [l \in Lookups |-> "pending"]
  /\ caller = [l \in Lookups |-> "idle"]
  /\ hung \in HungSets

WorkerGoes(w, place) == worker' = [worker EXCEPT ![w] = place]
CallerGoes(l, place) == caller' = [caller EXCEPT ![l] = place]

\* Future.cancel(): without effect once the lookup runs or has been answered.
Cancelled(l) ==
  future' = [future EXCEPT ![l] = IF @ = "pending" THEN "cancelled" ELSE @]

-----------------------------------------------------------------------------
(* Construction: each thread is enrolled, then started.  Starting one may  *)
(* fail, or be interrupted when the thread is already running.             *)

\* Slip: a thread is enrolled only after start() has returned.
StartWorkerFirst ==
  LET w == enrolled + 1 IN
  /\ pool = "starting"
  /\ \/ /\ WorkerGoes(w, "checking")
        /\ enrolled' = w
        /\ pool' = IF w = size THEN "open" ELSE "starting"
     \/ /\ worker' = worker \/ WorkerGoes(w, "checking")
        /\ pool' = "retiring" /\ enrolled' = enrolled
  /\ UNCHANGED <<size, closed, closer, jobs, job, future, caller, hung>>

StartWorker ==
  LET w == enrolled + 1 IN
  /\ pool = "starting"
  /\ enrolled' = w
  /\ \/ /\ WorkerGoes(w, "checking")
        /\ pool' = IF w = size THEN "open" ELSE "starting"
     \/ /\ worker' = worker \/ WorkerGoes(w, "checking")
        /\ pool' = "retiring"
  /\ UNCHANGED <<size, closed, closer, jobs, job, future, caller, hung>>

\* Every enrolled thread that was started has been joined.
Retired ==
  /\ pool = "retiring" /\ closer = "done"
  /\ \A w \in 1..enrolled : worker[w] \in {"unstarted", "finished"}
  /\ pool' = "failed"
  /\ UNCHANGED <<size, enrolled, closed, closer, jobs, worker, job, future, caller, hung>>

\* close(): at exit, or to retire a pool that could not be constructed.
Close ==
  /\ pool \in {"open", "retiring"} /\ closer = "idle"
  /\ closed' = TRUE /\ closer' = "draining"
  /\ UNCHANGED <<size, pool, enrolled, jobs, worker, job, future, caller, hung>>

Drain ==
  /\ closer = "draining"
  /\ IF jobs = <<>>
     THEN closer' = "done" /\ UNCHANGED <<jobs, future>>
     ELSE Cancelled(Head(jobs)) /\ jobs' = Tail(jobs) /\ closer' = closer
  /\ UNCHANGED <<size, pool, enrolled, closed, worker, job, caller, hung>>

-----------------------------------------------------------------------------
(* getaddrinfo(), on the loop of the request.                              *)

Ask(l) ==
  /\ caller[l] = "idle" /\ pool = "open"
  /\ CallerGoes(l, "checking")
  /\ UNCHANGED <<construction, jobs, worker, job, future, hung>>

Check(l) ==
  /\ caller[l] = "checking"
  /\ IF closed THEN CallerGoes(l, "refused") /\ Cancelled(l)
               ELSE CallerGoes(l, "putting") /\ future' = future
  /\ UNCHANGED <<construction, jobs, worker, job, hung>>

\* While the queue is full the coroutine sleeps and tries again.
Put(l) ==
  /\ caller[l] = "putting"
  /\ IF Len(jobs) < Capacity
     THEN jobs' = Append(jobs, l) /\ CallerGoes(l, "waiting")
     ELSE jobs' = jobs /\ CallerGoes(l, "sleeping")
  /\ UNCHANGED <<construction, worker, job, future, hung>>

RetryPut(l) ==
  /\ caller[l] = "sleeping"
  /\ CallerGoes(l, "checking")
  /\ UNCHANGED <<construction, jobs, worker, job, future, hung>>

\* The future is done; the exception of a cancelled one is CancelledError.
Resume(l) ==
  /\ caller[l] = "waiting"
  /\ \/ future[l] = "finished" /\ CallerGoes(l, "answered")
     \/ future[l] = "cancelled" /\ CallerGoes(l, "cancelled")
  /\ UNCHANGED <<construction, jobs, worker, job, future, hung>>

\* Slip: waiting for capacity cannot be cancelled.
GiveUpOnlyQueued(l) ==
  /\ l \in Impatient /\ caller[l] = "waiting"
  /\ CallerGoes(l, "cancelled") /\ Cancelled(l)
  /\ UNCHANGED <<construction, jobs, worker, job, hung>>

\* The deadline or a cancellation ends the request at one of its awaits.
GiveUp(l) ==
  /\ l \in Impatient /\ caller[l] \in {"sleeping", "waiting"}
  /\ CallerGoes(l, "cancelled") /\ Cancelled(l)
  /\ UNCHANGED <<construction, jobs, worker, job, hung>>

-----------------------------------------------------------------------------
(* _work(), on a worker thread.                                            *)

Loop(w) ==
  /\ worker[w] = "checking"
  /\ WorkerGoes(w, IF closed THEN "finished" ELSE "getting")
  /\ UNCHANGED <<construction, jobs, job, future, caller, hung>>

\* Slip: get() without a timeout.
GetForever(w) ==
  /\ worker[w] = "getting" /\ jobs # <<>>
  /\ job' = [job EXCEPT ![w] = Head(jobs)] /\ jobs' = Tail(jobs)
  /\ WorkerGoes(w, "holding")
  /\ UNCHANGED <<construction, future, caller, hung>>

\* get(timeout=0.1) takes a job or gives up.
Get(w) ==
  /\ worker[w] = "getting"
  /\ IF jobs = <<>>
     THEN WorkerGoes(w, "checking") /\ UNCHANGED <<jobs, job>>
     ELSE /\ job' = [job EXCEPT ![w] = Head(jobs)] /\ jobs' = Tail(jobs)
          /\ WorkerGoes(w, "holding")
  /\ UNCHANGED <<construction, future, caller, hung>>

\* Slip: the answer of set_running_or_notify_cancel() is not looked at.
BeginLookupAnyway(w) ==
  /\ worker[w] = "holding"
  /\ future' = [future EXCEPT ![job[w]] = "running"] /\ WorkerGoes(w, "resolving")
  /\ UNCHANGED <<construction, jobs, job, caller, hung>>

\* set_running_or_notify_cancel()
BeginLookup(w) ==
  /\ worker[w] = "holding"
  /\ IF future[job[w]] = "cancelled"
     THEN future' = future /\ WorkerGoes(w, "checking")
     ELSE /\ future' = [future EXCEPT ![job[w]] = "running"]
          /\ WorkerGoes(w, "resolving")
  /\ UNCHANGED <<construction, jobs, job, caller, hung>>

\* A result or an exception.
OsReturns(w) ==
  /\ worker[w] = "resolving" /\ job[w] \notin hung
  /\ future' = [future EXCEPT ![job[w]] = "finished"]
  /\ WorkerGoes(w, "checking")
  /\ UNCHANGED <<construction, jobs, job, caller, hung>>

-----------------------------------------------------------------------------
Caller(l) == Check(l) \/ Put(l) \/ RetryPut(l) \/ Resume(l)
Worker(w) == Loop(w) \/ Get(w) \/ BeginLookup(w)

Next ==
  \/ StartWorker \/ Retired \/ Close \/ Drain
  \/ \E l \in Lookups : Ask(l) \/ Caller(l) \/ GiveUp(l)
  \/ \E w \in Workers : Worker(w) \/ OsReturns(w)

Spec == Init /\ [][Next]_vars

\* Threads and loops run and close() drains.  A deadline that has expired is
\* delivered at the next await, however short.  Nothing makes anybody close
\* the pool.
FairSpec ==
  /\ Spec
  /\ WF_vars(Drain)
  /\ \A l \in Lookups : WF_vars(Caller(l)) /\ SF_vars(GiveUp(l))
  /\ \A w \in Workers : WF_vars(Worker(w) \/ OsReturns(w))

-----------------------------------------------------------------------------
TypeOK ==
  /\ pool \in {"starting", "open", "retiring", "failed"}
  /\ size \in PoolSizes /\ enrolled \in 0..WorkerCount
  /\ closed \in BOOLEAN /\ closer \in {"idle", "draining", "done"}
  /\ jobs \in Seq(Lookups) /\ Len(jobs) <= Capacity
  /\ worker \in [Workers -> {"unstarted", "checking", "getting", "holding",
                             "resolving", "finished"}]
  /\ job \in [Workers -> Lookups \cup {"none"}]
  /\ future \in [Lookups -> {"pending", "cancelled", "running", "finished"}]
  /\ caller \in [Lookups -> {"idle", "checking", "putting", "sleeping", "waiting"} \cup Ended]
  /\ hung \in HungSets

\* "Queued jobs never start after cancellation" (_http.py:147): a lookup
\* nobody waits for any more does not begin, whoever gave it up and wherever
\* it was by then.
CancelledNeverStarts ==
  [][\A l \in Lookups :
       caller[l] \in Ended /\ future[l] # "running" => future'[l] # "running"]_vars

\* "Failed startup must retire every idle worker before a later attempt
\* creates more" (_http.py:80-81), also when start() is interrupted after the
\* thread has begun to run.
FailedStartLeavesNoWorker ==
  pool = "failed" => \A w \in Workers : worker[w] \in {"unstarted", "finished"}

\* A lookup of an impatient request ends although the operating system may
\* block every worker for ever and the pool may be closed at any moment.  One
\* without a deadline ends as long as a worker is left to the others, if the
\* system answers it and the pool stays open.
EveryLookupEnds ==
  \A l \in Lookups :
    caller[l] = "checking" ~>
      \/ caller[l] \in Ended
      \/ /\ l \notin Impatient
         /\ closed \/ l \in hung \/ Cardinality(hung) >= size

\* Once the pool is closed its threads retire, but for those that the
\* operating system keeps.
ClosedPoolRetires ==
  \A w \in Workers :
    closed ~> \/ worker[w] \in {"unstarted", "finished"}
              \/ worker[w] = "resolving" /\ job[w] \in hung
=============================================================================
