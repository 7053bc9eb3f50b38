------------------------- MODULE DnsResolverProofs -------------------------
(***************************************************************************)
(* For any number of lookups, workers and places in the queue: a cancelled *)
(* lookup never starts, and a pool that could not be constructed leaves no *)
(* thread.  A lookup is put once, so at any time it is in one hand: with   *)
(* its caller, in the queue, or with one worker.                           *)
(***************************************************************************)
EXTENDS DnsResolver, TLAPS

Busy(w) == worker[w] \in {"holding", "resolving"}
Unsent == {"idle", "checking", "putting", "sleeping"}

\* A lookup not put yet is pending and in no hand.
OutOfHand ==
  \A l \in Lookups : caller[l] \in Unsent =>
    /\ future[l] = "pending"
    /\ \A i \in 1..Len(jobs) : jobs[i] # l
    /\ \A w \in Workers : Busy(w) => job[w] # l

InQueue ==
  \A i \in 1..Len(jobs) :
    /\ future[jobs[i]] \in {"pending", "cancelled"}
    /\ \A j \in 1..Len(jobs) : jobs[i] = jobs[j] => i = j
    /\ \A w \in Workers : Busy(w) => job[w] # jobs[i]

WithWorker ==
  \A w \in Workers :
    /\ Busy(w) => job[w] \in Lookups /\ \A v \in Workers : Busy(v) /\ v # w => job[v] # job[w]
    /\ worker[w] = "holding" => future[job[w]] \in {"pending", "cancelled"}
    /\ worker[w] = "resolving" => future[job[w]] = "running"

Settled == \A l \in Lookups : caller[l] \in Ended => future[l] # "pending"

\* Only enrolled threads run.
Enrolment ==
  /\ pool = "starting" => enrolled < size
  /\ \A w \in Workers : w > enrolled => worker[w] = "unstarted"
  /\ pool = "failed" => \A w \in Workers : worker[w] \in {"unstarted", "finished"}

Inv == TypeOK /\ OutOfHand /\ InQueue /\ WithWorker /\ Settled /\ Enrolment

LEMMA Initially == Init => Inv
<1> SUFFICES ASSUME Init PROVE Inv
  OBVIOUS
<1>1. TypeOK
  <2>1. closed \in BOOLEAN /\ hung \in HungSets /\ size \in PoolSizes
    BY DEF Init
  <2>2. jobs \in Seq(Lookups) /\ Len(jobs) <= Capacity /\ enrolled \in 0..WorkerCount
    BY ConstantsAssumption DEF Init
  <2> QED
    BY <2>1, <2>2 DEF Init, TypeOK
<1>2. OutOfHand /\ InQueue /\ WithWorker /\ Settled /\ Enrolment
  BY ConstantsAssumption DEF Init, OutOfHand, InQueue, WithWorker, Settled, Enrolment, Busy, Ended, Workers
<1> QED
  BY <1>1, <1>2 DEF Inv

-----------------------------------------------------------------------------
LEMMA ConstructionKeeps ==
  ASSUME Inv, StartWorker \/ Retired \/ Close
  PROVE  Inv'
<1> USE ConstantsAssumption DEF Inv, Workers
<1>1. CASE StartWorker
  <2>1. /\ pool = "starting" /\ enrolled + 1 \in Workers /\ enrolled' = enrolled + 1
        /\ worker[enrolled + 1] = "unstarted"
        /\ worker' = worker \/ worker' = [worker EXCEPT ![enrolled + 1] = "checking"]
        /\ UNCHANGED <<size, closed, closer, jobs, job, future, caller, hung>>
    BY <1>1 DEF StartWorker, WorkerGoes, Enrolment, TypeOK
  <2>2. pool' \in {"starting", "open", "retiring"} /\ (pool' = "starting" => enrolled' < size)
    <3>1. enrolled < size /\ size \in Nat /\ enrolled \in Nat
      BY <2>1 DEF Enrolment, TypeOK
    <3> QED
      BY <1>1, <2>1, <3>1 DEF StartWorker
  <2>3. \A w \in Workers : (Busy(w)' <=> Busy(w)) /\ (worker'[w] = worker[w] \/ worker'[w] = "checking")
    BY <2>1 DEF Busy, TypeOK
  <2>4. TypeOK'
    BY <2>1, <2>2 DEF TypeOK
  <2>5. OutOfHand' /\ InQueue' /\ WithWorker' /\ Settled'
    BY <2>1, <2>3 DEF OutOfHand, InQueue, WithWorker, Settled
  <2>6. Enrolment'
    BY <2>1, <2>2 DEF Enrolment, TypeOK
  <2> QED
    BY <2>4, <2>5, <2>6
<1>2. CASE Retired \/ Close
  <2>1. /\ UNCHANGED <<size, enrolled, jobs, worker, job, future, caller, hung>>
        /\ \A w \in Workers : Busy(w)' <=> Busy(w)
    BY <1>2 DEF Retired, Close, Busy
  <2>2. TypeOK'
    BY <1>2 DEF Retired, Close, TypeOK
  <2>3. OutOfHand' /\ InQueue' /\ WithWorker' /\ Settled'
    BY <2>1 DEF OutOfHand, InQueue, WithWorker, Settled
  <2>4. Enrolment'
    BY <1>2 DEF Retired, Close, Enrolment, TypeOK
  <2> QED
    BY <2>2, <2>3, <2>4
<1> QED
  BY <1>1, <1>2

\* What is left of the queue when its head has been taken.
LEMMA TailOfQueue ==
  ASSUME TypeOK, jobs # <<>>
  PROVE  /\ Head(jobs) = jobs[1] /\ Head(jobs) \in Lookups /\ 1 \in 1..Len(jobs)
         /\ Tail(jobs) \in Seq(Lookups) /\ Len(Tail(jobs)) = Len(jobs) - 1
         /\ \A i \in 1..Len(Tail(jobs)) : i + 1 \in 1..Len(jobs) /\ Tail(jobs)[i] = jobs[i + 1]
  BY DEF TypeOK

LEMMA DrainKeeps ==
  ASSUME Inv, Drain
  PROVE  Inv'
<1> USE DEF Inv
<1>1. /\ UNCHANGED <<size, pool, enrolled, closed, worker, job, caller, hung>> /\ closer' \in {"draining", "done"}
      /\ \A w : Busy(w)' <=> Busy(w)
  BY DEF Drain, Busy
<1>2. CASE jobs = <<>>
  BY <1>1, <1>2 DEF Drain, TypeOK, OutOfHand, InQueue, WithWorker, Settled, Enrolment
<1>3. CASE jobs # <<>>
  <2> DEFINE l == jobs[1]
  <2>1. /\ l \in Lookups /\ jobs' = Tail(jobs)
        /\ future' = [future EXCEPT ![l] = IF @ = "pending" THEN "cancelled" ELSE @]
    BY <1>3, TailOfQueue DEF Drain, Cancelled
  <2>2. /\ future'[l] = "cancelled" /\ \A k \in Lookups : k # l => future'[k] = future[k]
        /\ future' \in [Lookups -> {"pending", "cancelled", "running", "finished"}]
    BY <1>3, <2>1, TailOfQueue DEF InQueue, TypeOK
  <2>3. TypeOK'
    <3>1. jobs' \in Seq(Lookups) /\ Len(jobs') <= Capacity
      BY <1>3, <2>1, TailOfQueue, ConstantsAssumption DEF TypeOK
    <3> QED
      BY <1>1, <2>2, <3>1 DEF TypeOK
  <2>4. \A i \in 1..Len(jobs') : i + 1 \in 1..Len(jobs) /\ jobs'[i] = jobs[i + 1] /\ jobs'[i] \in Lookups /\ jobs'[i] # l
    BY <1>3, <2>1, TailOfQueue DEF InQueue, TypeOK
  <2>5. OutOfHand'
    BY <1>1, <1>3, <2>1, <2>2, <2>4, TailOfQueue DEF OutOfHand
  <2>6. InQueue'
    BY <1>1, <2>2, <2>4 DEF InQueue, TypeOK
  <2>7. WithWorker'
    <3>1. \A w \in Workers : Busy(w) => job[w] # l
      BY <1>3, TailOfQueue DEF InQueue
    <3>2. \A w \in Workers : worker[w] \in {"holding", "resolving"} => Busy(w)
      BY DEF Busy
    <3> QED
      BY <1>1, <2>2, <3>1, <3>2 DEF WithWorker
  <2>8. Settled' /\ Enrolment'
    BY <1>1, <2>2 DEF Settled, Enrolment
  <2> QED
    BY <2>3, <2>5, <2>6, <2>7, <2>8
<1> QED
  BY <1>2, <1>3

-----------------------------------------------------------------------------
\* A caller's step leaves the queue and the workers alone, and decides at most
\* the future of its own lookup, unless it puts its job.
LEMMA CallerKeeps ==
  ASSUME Inv, NEW l \in Lookups, Ask(l) \/ Check(l) \/ RetryPut(l) \/ Resume(l) \/ GiveUp(l)
  PROVE  Inv'
<1> USE DEF Inv
<1>1. /\ UNCHANGED <<size, pool, enrolled, closed, closer, jobs, worker, job, hung>>
      /\ \A w : Busy(w)' <=> Busy(w)
  BY DEF Ask, Check, RetryPut, Resume, GiveUp, construction, Busy
<1>2. PICK place \in {"checking", "putting"} \cup Ended :
        caller' = [caller EXCEPT ![l] = place]
  BY DEF Ask, Check, RetryPut, Resume, GiveUp, CallerGoes, Ended
<1>3. /\ future' = future \/ future' = [future EXCEPT ![l] = IF @ = "pending" THEN "cancelled" ELSE @]
      /\ place \in Unsent => caller[l] \in Unsent /\ future' = future
      /\ place \in Ended => future'[l] # "pending"
  BY <1>2 DEF Ask, Check, RetryPut, Resume, GiveUp, CallerGoes, Cancelled, Unsent, Ended, TypeOK
<1>4. /\ \A k \in Lookups : k # l => future'[k] = future[k] /\ caller'[k] = caller[k]
      /\ caller'[l] = place
      /\ future'[l] = future[l] \/ (future[l] = "pending" /\ future'[l] = "cancelled")
      /\ future' \in [Lookups -> {"pending", "cancelled", "running", "finished"}]
  BY <1>2, <1>3 DEF TypeOK
<1>5. TypeOK'
  BY <1>1, <1>2, <1>4 DEF TypeOK
<1>6. OutOfHand'
  BY <1>1, <1>3, <1>4 DEF OutOfHand
<1>7. \A k \in Lookups : /\ future[k] \in {"pending", "cancelled"} => future'[k] \in {"pending", "cancelled"}
                         /\ future[k] = "running" => future'[k] = "running"
  BY <1>4
<1>8. InQueue'
  BY <1>1, <1>7 DEF InQueue, TypeOK
<1>9. WithWorker'
  <2>1. \A w \in Workers : worker[w] \in {"holding", "resolving"} => Busy(w)
    BY DEF Busy
  <2> QED
    BY <1>1, <1>7, <2>1 DEF WithWorker
<1>10. Settled' /\ Enrolment'
  BY <1>1, <1>3, <1>4 DEF Settled, Enrolment
<1> QED
  BY <1>5, <1>6, <1>8, <1>9, <1>10

LEMMA PutKeeps ==
  ASSUME Inv, NEW l \in Lookups, Put(l)
  PROVE  Inv'
<1> USE DEF Inv
<1>1. /\ UNCHANGED <<size, pool, enrolled, closed, closer, worker, job, future, hung>> /\ caller[l] = "putting"
      /\ \A w : Busy(w)' <=> Busy(w)
  BY DEF Put, construction, Busy
<1>2. CASE jobs' = jobs /\ caller' = [caller EXCEPT ![l] = "sleeping"]
  <2>1. \A k \in Lookups : /\ caller'[k] \in Unsent => caller[k] \in Unsent
                           /\ caller'[k] \in Ended => caller[k] \in Ended
    BY <1>1, <1>2 DEF Unsent, Ended, TypeOK
  <2>2. TypeOK'
    BY <1>1, <1>2 DEF TypeOK
  <2> QED
    BY <1>1, <1>2, <2>1, <2>2 DEF OutOfHand, InQueue, WithWorker, Settled, Enrolment
<1>3. CASE Len(jobs) < Capacity /\ jobs' = Append(jobs, l) /\ caller' = [caller EXCEPT ![l] = "waiting"]
  <2>1. /\ jobs' \in Seq(Lookups) /\ Len(jobs') = Len(jobs) + 1 /\ Len(jobs) \in Nat
        /\ \A i \in 1..Len(jobs) : jobs'[i] = jobs[i]
        /\ jobs'[Len(jobs) + 1] = l
    BY <1>3 DEF TypeOK
  <2>2. /\ future[l] = "pending" /\ \A i \in 1..Len(jobs) : jobs[i] # l
        /\ \A w \in Workers : Busy(w) => job[w] # l
    BY <1>1 DEF OutOfHand, Unsent
  <2>3. \A k \in Lookups : /\ caller'[k] \in Unsent => caller[k] \in Unsent /\ k # l
                           /\ caller'[k] \in Ended => caller[k] \in Ended
    BY <1>1, <1>3 DEF Unsent, Ended, TypeOK
  <2>4. TypeOK'
    BY <1>1, <1>3, <2>1, ConstantsAssumption DEF TypeOK
  <2>5. \A i \in 1..Len(jobs') : (i \in 1..Len(jobs) /\ jobs'[i] = jobs[i]) \/ (i = Len(jobs) + 1 /\ jobs'[i] = l)
    BY <2>1
  <2>6. OutOfHand'
    BY <1>1, <2>3, <2>5 DEF OutOfHand
  <2>7. InQueue'
    BY <1>1, <2>2, <2>5 DEF InQueue
  <2>8. WithWorker' /\ Settled' /\ Enrolment'
    BY <1>1, <2>3 DEF WithWorker, Settled, Enrolment
  <2> QED
    BY <2>4, <2>6, <2>7, <2>8
<1> QED
  BY <1>2, <1>3 DEF Put, CallerGoes

-----------------------------------------------------------------------------
LEMMA LoopKeeps ==
  ASSUME Inv, NEW w \in Workers, Loop(w) \/ (Get(w) /\ jobs = <<>>)
  PROVE  Inv'
<1> USE DEF Inv
<1>1. /\ UNCHANGED <<construction, jobs, job, future, caller, hung>>
      /\ worker[w] \in {"checking", "getting"}
      /\ \E place \in {"checking", "getting", "finished"} : worker' = [worker EXCEPT ![w] = place]
  BY DEF Loop, Get, WorkerGoes
<1>2. \A v \in Workers : /\ Busy(v)' <=> Busy(v)
                         /\ worker'[v] \in {"holding", "resolving"} => worker'[v] = worker[v]
  BY <1>1 DEF Busy, TypeOK
<1>3. TypeOK'
  BY <1>1 DEF TypeOK, construction
<1>4. OutOfHand' /\ InQueue' /\ WithWorker' /\ Settled'
  BY <1>1, <1>2 DEF OutOfHand, InQueue, WithWorker, Settled
<1>5. Enrolment'
  BY <1>1 DEF Enrolment, construction, TypeOK
<1> QED
  BY <1>3, <1>4, <1>5

LEMMA GetKeeps ==
  ASSUME Inv, NEW w \in Workers, Get(w), jobs # <<>>
  PROVE  Inv'
<1> USE DEF Inv
<1> DEFINE l == jobs[1]
<1>1. /\ UNCHANGED <<construction, future, caller, hung>> /\ worker[w] = "getting"
      /\ worker' = [worker EXCEPT ![w] = "holding"] /\ job' = [job EXCEPT ![w] = l] /\ jobs' = Tail(jobs)
  BY TailOfQueue DEF Get, WorkerGoes
<1>2. /\ l \in Lookups /\ future[l] \in {"pending", "cancelled"}
      /\ \A v \in Workers : Busy(v) => job[v] # l
  BY TailOfQueue DEF InQueue
<1>3. /\ job'[w] = l /\ Busy(w)' /\ ~Busy(w) /\ worker'[w] = "holding"
      /\ \A v \in Workers : v # w => (Busy(v)' <=> Busy(v)) /\ job'[v] = job[v] /\ worker'[v] = worker[v]
  BY <1>1 DEF Busy, TypeOK
<1>4. \A i \in 1..Len(jobs') : i + 1 \in 1..Len(jobs) /\ jobs'[i] = jobs[i + 1] /\ jobs'[i] \in Lookups /\ jobs'[i] # l
  BY <1>1, TailOfQueue DEF InQueue, TypeOK
<1>5. TypeOK'
  <2>1. jobs' \in Seq(Lookups) /\ Len(jobs') <= Capacity
    BY <1>1, TailOfQueue, ConstantsAssumption DEF TypeOK
  <2> QED
    BY <1>1, <1>2, <2>1 DEF TypeOK, construction
<1>6. OutOfHand'
  <2>1. \A k \in Lookups : caller[k] \in Unsent => k # l
    BY TailOfQueue DEF OutOfHand
  <2> QED
    BY <1>1, <1>3, <1>4, <2>1 DEF OutOfHand
<1>7. InQueue'
  BY <1>1, <1>3, <1>4 DEF InQueue, TypeOK
<1>8. WithWorker'
  BY <1>1, <1>2, <1>3 DEF WithWorker
<1>9. Settled' /\ Enrolment'
  BY <1>1 DEF Settled, Enrolment, construction, TypeOK
<1> QED
  BY <1>5, <1>6, <1>7, <1>8, <1>9

\* The worker decides the future of the lookup in its hand, which is in no
\* other.
LEMMA LookupKeeps ==
  ASSUME Inv, NEW w \in Workers, BeginLookup(w) \/ OsReturns(w)
  PROVE  Inv'
<1> USE DEF Inv
<1> DEFINE l == job[w]
<1>1. /\ UNCHANGED <<construction, jobs, job, caller, hung>> /\ Busy(w) /\ l \in Lookups
  BY DEF BeginLookup, OsReturns, Busy, WithWorker
<1>2. PICK f \in {"cancelled", "running", "finished"}, place \in {"checking", "resolving"} :
        /\ future' = [future EXCEPT ![l] = f] /\ worker' = [worker EXCEPT ![w] = place]
        /\ place = "resolving" => f = "running"
  <2>1. CASE BeginLookup(w) /\ future[l] = "cancelled"
    <3>1. future' = [future EXCEPT ![l] = "cancelled"] /\ worker' = [worker EXCEPT ![w] = "checking"]
      BY <2>1 DEF BeginLookup, WorkerGoes, TypeOK
    <3> QED
      BY <3>1
  <2>2. CASE BeginLookup(w) /\ future[l] # "cancelled"
    BY <2>2 DEF BeginLookup, WorkerGoes
  <2>3. CASE OsReturns(w)
    BY <2>3 DEF OsReturns, WorkerGoes
  <2> QED
    BY <2>1, <2>2, <2>3
<1>3. /\ future'[l] = f /\ worker'[w] = place
      /\ \A k \in Lookups : k # l => future'[k] = future[k]
      /\ \A v \in Workers : v # w => worker'[v] = worker[v] /\ (Busy(v)' <=> Busy(v))
      /\ Busy(w)' => place = "resolving"
  BY <1>1, <1>2 DEF TypeOK, Busy
<1>4. /\ \A v \in Workers : v # w /\ Busy(v) => job[v] # l /\ job[v] \in Lookups
      /\ \A i \in 1..Len(jobs) : jobs[i] # l /\ jobs[i] \in Lookups
      /\ caller[l] \notin Unsent
  BY <1>1 DEF WithWorker, InQueue, OutOfHand, TypeOK
<1>5. TypeOK'
  BY <1>1, <1>2 DEF TypeOK, construction
<1>6. OutOfHand'
  BY <1>1, <1>3, <1>4 DEF OutOfHand
<1>7. InQueue'
  BY <1>1, <1>3, <1>4 DEF InQueue
<1>8. WithWorker'
  <2>1. \A v \in Workers : worker[v] \in {"holding", "resolving"} => Busy(v)
    BY DEF Busy
  <2> QED
    BY <1>1, <1>2, <1>3, <1>4, <2>1 DEF WithWorker
<1>9. Settled' /\ Enrolment'
  <2>1. worker[w] # "unstarted" /\ pool # "failed"
    BY <1>1 DEF Busy, Enrolment
  <2> QED
    BY <1>1, <1>2, <1>3, <2>1 DEF Settled, Enrolment, construction
<1> QED
  BY <1>5, <1>6, <1>7, <1>8, <1>9

LEMMA Invariance == Inv /\ [Next]_vars => Inv'
<1> SUFFICES ASSUME Inv, [Next]_vars PROVE Inv'
  OBVIOUS
<1>1. CASE UNCHANGED vars
  BY <1>1 DEF vars, construction, Inv, TypeOK, OutOfHand, InQueue, WithWorker, Settled, Enrolment, Busy
<1>2. CASE StartWorker \/ Retired \/ Close \/ Drain
  BY <1>2, ConstructionKeeps, DrainKeeps
<1>3. ASSUME NEW l \in Lookups, Ask(l) \/ Caller(l) \/ GiveUp(l) PROVE Inv'
  BY <1>3, CallerKeeps, PutKeeps DEF Caller
<1>4. ASSUME NEW w \in Workers, Worker(w) \/ OsReturns(w) PROVE Inv'
  BY <1>4, LoopKeeps, GetKeeps, LookupKeeps DEF Worker
<1> QED
  BY <1>1, <1>2, <1>3, <1>4 DEF Next

-----------------------------------------------------------------------------
\* The variables of the pool keep their types, and the queue its bound
\* (_Resolver).
THEOREM TypeCorrect == Spec => []TypeOK
<1>1. Inv => TypeOK
  BY DEF Inv
<1> QED
  BY <1>1, Initially, Invariance, PTL DEF Spec

\* A pool that could not be constructed leaves no thread
\* (_Resolver.__init__).
THEOREM FailedStartsAreClean == Spec => []FailedStartLeavesNoWorker
<1>1. Inv => FailedStartLeavesNoWorker
  BY DEF Inv, Enrolment, FailedStartLeavesNoWorker
<1> QED
  BY <1>1, Initially, Invariance, PTL DEF Spec

\* A lookup nobody waits for any more is never begun (_Resolver._work).
THEOREM CancelledLookupsNeverStart == Spec => CancelledNeverStarts
<1> DEFINE Unbegun ==
      \A l \in Lookups : caller[l] \in Ended /\ future[l] # "running" => future'[l] # "running"
<1>1. Inv /\ [Next]_vars => Unbegun
  <2> SUFFICES ASSUME Inv, [Next]_vars, NEW l \in Lookups, caller[l] \in Ended,
                      future[l] # "running", future'[l] = "running"
               PROVE  FALSE
    OBVIOUS
  <2>1. PICK w \in Workers : BeginLookup(w)
    <3>1. ~UNCHANGED vars /\ ~StartWorker /\ ~Retired /\ ~Close
      BY DEF vars, StartWorker, Retired, Close
    <3>2. ~Drain
      BY TailOfQueue DEF Drain, Cancelled, Inv, TypeOK
    <3>3. \A k \in Lookups : ~(Ask(k) \/ Caller(k) \/ GiveUp(k))
      BY DEF Ask, Caller, Check, Put, RetryPut, Resume, GiveUp, Cancelled, Inv, TypeOK
    <3>4. \A v \in Workers : ~Loop(v) /\ ~Get(v) /\ ~OsReturns(v)
      BY DEF Loop, Get, OsReturns, Inv, TypeOK, WithWorker, Busy
    <3> QED
      BY <3>1, <3>2, <3>3, <3>4 DEF Next, Worker
  <2>2. job[w] \in Lookups /\ future[job[w]] \in {"pending", "cancelled"} /\ worker[w] = "holding"
    BY <2>1 DEF BeginLookup, Inv, WithWorker, Busy
  <2>3. job[w] = l
    BY <2>1, <2>2 DEF BeginLookup, Inv, TypeOK
  <2> QED
    BY <2>1, <2>2, <2>3 DEF BeginLookup, Inv, Settled
<1> QED
  BY <1>1, Initially, Invariance, PTL DEF Spec, CancelledNeverStarts
=============================================================================
