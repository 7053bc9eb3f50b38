------------------------- MODULE HttpBridgeProofs --------------------------
(* The bridge leaves nothing behind, for any number of signals.            *)
EXTENDS HttpBridge, TLAPS

\* Who leaves has joined the worker or has never started it, and the HTTP task
\* lives only while the worker watches it.
SeenOff ==
  /\ caller = "starting" => worker = "unstarted"
  /\ caller = "returning" => worker = "exited"
  /\ caller = "left" => worker \in {"unstarted", "exited"}
  /\ http \in {"running", "cancelling"} => worker = "watching"

LEMMA SeenOffInit == Init => SeenOff
  BY DEF Init, SeenOff

LEMMA SeenOffInvariance == SeenOff /\ [Next]_vars => SeenOff'
<1> SUFFICES ASSUME SeenOff, [Next]_vars PROVE SeenOff'
  OBVIOUS
<1> USE DEF SeenOff, callers, workers, signals
<1>1. CASE Caller
  BY <1>1 DEF Caller, Start, Poll, Conclude, Return, Unwind, Await, Reap, Raise
<1>2. CASE Worker
  BY <1>2 DEF Worker, Begin, Watch, Publish, Finish, Die, TaskCancelled, HttpDone
<1>3. CASE Interrupt \/ Answered \/ TimesOut
  BY <1>3 DEF Interrupt, Answered, TimesOut, Raise
<1>4. CASE UNCHANGED vars
  BY <1>4 DEF vars, signals
<1> QED
  BY <1>1, <1>2, <1>3, <1>4 DEF Next

LEMMA BoundIsNatural == MaxInterrupts \in Nat
  BY ConstantsAssumption, Zenon

LEMMA TypeInvariance == TypeOK /\ SeenOff /\ [Next]_vars => TypeOK'
<1> SUFFICES ASSUME TypeOK, SeenOff, [Next]_vars PROVE TypeOK'
  OBVIOUS
<1> USE DEF TypeOK, Failures, Places, HttpDone, Raise, callers, workers, signals
<1>1. CASE Start
  <2>1. deferred' \in BOOLEAN /\ cancels' \in BOOLEAN /\ cancelled' \in BOOLEAN
    BY <1>1, Zenon DEF Start
  <2>2. CASE deferred
    BY <1>1, <2>1, <2>2 DEF Start, SeenOff
  <2>3. CASE ~deferred
    BY <1>1, <2>1, <2>3 DEF Start, SeenOff
  <2> QED
    BY <2>2, <2>3
<1>2. CASE Poll       BY <1>2 DEF Poll
<1>3. CASE Conclude   BY <1>3 DEF Conclude
<1>17. CASE Return    BY <1>17 DEF Return, SeenOff
<1>4. CASE Unwind     BY <1>4 DEF Unwind
<1>5. CASE Await      BY <1>5 DEF Await
<1>6. CASE Reap       BY <1>6 DEF Reap
<1>7. CASE Begin      BY <1>7 DEF Begin
<1>8. CASE Watch      BY <1>8 DEF Watch
<1>9. CASE Publish    BY <1>9 DEF Publish, SeenOff
<1>10. CASE Finish    BY <1>10 DEF Finish
<1>11. CASE Die       BY <1>11 DEF Die
<1>12. CASE Interrupt
  <2>1. cancels' \in BOOLEAN /\ deferred' \in BOOLEAN
    BY <1>12, Zenon DEF Interrupt
  <2>2. interrupts' \in 0..MaxInterrupts
    BY <1>12, BoundIsNatural DEF Interrupt
  <2> QED
    BY <1>12, <2>1, <2>2 DEF Interrupt
<1>13. CASE Answered  BY <1>13 DEF Answered
<1>14. CASE TimesOut  BY <1>14 DEF TimesOut
<1>15. CASE TaskCancelled BY <1>15 DEF TaskCancelled
<1>16. CASE UNCHANGED vars BY <1>16 DEF vars
<1> QED
  BY <1>1, <1>2, <1>3, <1>4, <1>5, <1>6, <1>7, <1>8, <1>9, <1>10, <1>11,
     <1>12, <1>13, <1>14, <1>15, <1>16, <1>17 DEF Next, Caller, Worker

\* The state of the bridge is well typed, and an outcome is there exactly from
\* the moment the worker has published it (TypeOK).
THEOREM TypeCorrect == Spec => []TypeOK
<1>1. Init => TypeOK
  <2> SUFFICES ASSUME Init PROVE TypeOK
    OBVIOUS
  <2>1. cancels \in BOOLEAN /\ deferred \in BOOLEAN /\ cancelled \in BOOLEAN
        /\ finished \in BOOLEAN /\ timed \in BOOLEAN
    BY Zenon DEF Init
  <2>2. interrupts \in 0..MaxInterrupts
    BY BoundIsNatural DEF Init
  <2>3. worker = "unstarted" /\ outcome = "none" /\ http = "none"
        /\ caller = "starting" /\ leaving = "none"
    BY Zenon DEF Init
  <2> QED
    BY <2>1, <2>2, <2>3 DEF Init, TypeOK, Failures, Places
<1> QED
  BY <1>1, TypeInvariance, SeenOffInit, SeenOffInvariance, PTL DEF Spec

\* However many signals come, no thread and no HTTP task outlives the request
\* that started it (NoAbandonedWork).
THEOREM NothingIsAbandoned == Spec => []NoAbandonedWork
<1>1. SeenOff => NoAbandonedWork
  BY DEF SeenOff, NoAbandonedWork
<1> QED
  BY <1>1, SeenOffInit, SeenOffInvariance, PTL DEF Spec

-----------------------------------------------------------------------------
(* No signal is lost before the caller is on its way out.                  *)

\* How request() ends if the first signal came where it may not be swallowed.
Heeded ==
  first \in {"starting", "polling", "joining", "returning"} =>
    \/ leaving \in {"KeyboardInterrupt", "CancelledError"}
    \/ cancels /\ (first = "returning" \/ leaving = "RuntimeError")

\* Until then a signal has cancelled the task or waits to be raised, and the
\* caller passes its last look only if there has been none.
Pending ==
  /\ first = "none" => ~cancels /\ ~deferred
  /\ caller = "starting" /\ first # "none" => cancels \/ deferred
  /\ caller \in {"polling", "joining"} /\ first # "none" => cancels
  /\ caller = "returning" => first \in {"none", "returning"} /\ (first = "returning" => cancels)
  /\ caller \in {"unwinding", "awaiting", "reaping", "left"} => Heeded

LEMMA PendingInvariance == TypeOK /\ Pending /\ [Next]_vars => Pending'
<1> SUFFICES ASSUME TypeOK, Pending, [Next]_vars PROVE Pending'
  OBVIOUS
<1> USE DEF Pending, Heeded, signals
<1>1. CASE Start
  BY <1>1 DEF Start, Raise, TypeOK, Places
<1>2. CASE Poll \/ Conclude
  BY <1>2 DEF Poll, Conclude, Raise, workers
<1>3. CASE Return
  BY <1>3 DEF Return, Raise, workers
<1>4. CASE Unwind \/ Await \/ Reap
  BY <1>4 DEF Unwind, Await, Reap, workers
<1>5. CASE Interrupt
  BY <1>5 DEF Interrupt, Raise, TypeOK, Places
<1>6. CASE Worker \/ Answered \/ TimesOut
  BY <1>6 DEF Worker, Begin, Watch, Publish, Finish, Die, TaskCancelled, Answered, TimesOut,
              callers
<1>7. CASE UNCHANGED vars
  BY <1>7 DEF vars
<1> QED
  BY <1>1, <1>2, <1>3, <1>4, <1>5, <1>6, <1>7 DEF Next, Caller

\* For any number of signals, at any step of the request: the caller ends with
\* the interrupt or is left cancelled (InterruptsAreHeeded).
THEOREM SignalsAreNotLost == Spec => []InterruptsAreHeeded
<1>1. Init => Pending
  BY DEF Init, Pending
<1>2. Pending => InterruptsAreHeeded
  BY DEF Pending, Heeded, InterruptsAreHeeded
<1> QED
  BY <1>1, <1>2, PendingInvariance, TypeCorrect, PTL DEF Spec
=============================================================================
