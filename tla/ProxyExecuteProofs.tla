------------------------- MODULE ProxyExecuteProofs -------------------------
(* The token, the owner and the timer of a call, for any number of         *)
(* cancellations.                                                          *)
EXTENDS ProxyExecute, TLAPS

LEMMA BoundIsNatural == MaxCancels \in Nat
  BY ConstantsAssumption, Zenon

\* The two halves of TypeOK: the flags, and the places.
Flags ==
  /\ tokened \in BOOLEAN /\ patient \in BOOLEAN
  /\ pending \in BOOLEAN
  /\ token \in BOOLEAN /\ withdrawn \in BOOLEAN

Places ==
  /\ place \in Awaits \cup {"entry", "preparing", "ended"}
  /\ request \in Over \cup {"none", "running", "cancelling"}
  /\ timer \in {"unset", "armed", "expiring", "exited"}
  /\ cancels \in 0..MaxCancels
  /\ raised \in Over \cup {"none", "ExecutionCancelledError"}
  /\ outcome \in {"none", "body", "bad_response", "timeout", "transport_error",
                  "OtherError", "CancelledError", "ExecutionCancelledError"}
  /\ outcome = "none" <=> place # "ended"

LEMMA TypeParts == TypeOK <=> Flags /\ Places
  BY Zenon DEF TypeOK, Flags, Places

\* Where the exchange can be while execute() is at each of its places.
Exchange ==
  /\ place \in {"entry", "preparing"} => request = "none" /\ cancels = 0
  /\ place = "requesting" => ~tokened /\ request \in {"running", "cancelling"}
  /\ place = "polling" => request \in Replies \cup {"running"}
  /\ place = "joining" => request \in Over \cup {"cancelling"} /\ raised # "none"
  /\ place = "ended" => request \in Over \cup {"none"}

\* A cancellation that has been asked for has either yet to be delivered or
\* is what the body hands over.
Delivery ==
  /\ cancels > 0 /\ place = "requesting" => pending \/ request = "cancelling"
  /\ cancels > 0 /\ place = "polling" => pending
  /\ cancels > 0 /\ place = "joining" => pending \/ raised = "CancelledError"

Stopped == {"ExecutionCancelledError", "CancelledError"}

\* A request that was stopped, or whose call was withdrawn, hands over nothing
\* that came from the server.
Withdrawal ==
  /\ token => tokened
  /\ withdrawn => token
  /\ place = "joining" /\ (withdrawn \/ request = "cancelling") => raised \in Stopped
  /\ place = "ended" /\ request = "none" => outcome \in {"ExecutionCancelledError", "OtherError"}

IInv == Flags /\ Places /\ Exchange /\ Delivery /\ Withdrawal /\ CancellationIsKept /\ TokenWins
-----------------------------------------------------------------------------
LEMMA InitIInv == Init => IInv
<1> SUFFICES ASSUME Init PROVE IInv
  OBVIOUS
<1>1. tokened \in BOOLEAN /\ patient \in BOOLEAN /\ pending \in BOOLEAN
      /\ token \in BOOLEAN /\ withdrawn \in BOOLEAN
  BY Zenon DEF Init
<1>2. cancels \in 0..MaxCancels /\ cancels = 0
  BY BoundIsNatural DEF Init
<1>3. Flags
  BY <1>1, Zenon DEF Flags
<1>4. Places
  BY <1>2 DEF Init, Places, Awaits, Over
<1>5. Exchange /\ Delivery /\ Withdrawal /\ CancellationIsKept /\ TokenWins
  BY <1>2 DEF Init, Exchange, Delivery, Withdrawal, CancellationIsKept, TokenWins
<1> QED
  BY <1>3, <1>4, <1>5 DEF IInv

LEMMA FlagInvariance == Flags /\ [Next]_vars => Flags'
<1> SUFFICES ASSUME Flags, [Next]_vars PROVE Flags'
  OBVIOUS
<1> USE DEF Flags, setting, control
<1>1. CASE Enter         BY <1>1, Zenon DEF Enter
<1>2. CASE PrepareFails  BY <1>2, Zenon DEF PrepareFails
<1>3. CASE Send          BY <1>3, Zenon DEF Send
<1>4. CASE Turn          BY <1>4, Zenon DEF Turn
<1>5. CASE Join          BY <1>5, Zenon DEF Join
<1>6. CASE CleanUp       BY <1>6, Zenon DEF CleanUp
<1>7. CASE StopInPlace   BY <1>7, Zenon DEF StopInPlace
<1>8. CASE Expire        BY <1>8, Zenon DEF Expire
<1>9. CASE Reply         BY <1>9, Zenon DEF Reply
<1>10. CASE ReplyInPlace BY <1>10, Zenon DEF ReplyInPlace
<1>11. CASE SetToken     BY <1>11, Zenon DEF SetToken
<1>12. CASE OwnerCancels BY <1>12, Zenon DEF OwnerCancels
<1>13. CASE UNCHANGED vars
  BY <1>13, Zenon DEF vars
<1> QED
  BY <1>1, <1>2, <1>3, <1>4, <1>5, <1>6, <1>7, <1>8, <1>9, <1>10, <1>11,
     <1>12, <1>13, Zenon DEF Next, Own

LEMMA CountIsNatural == Places => cancels \in Nat
<1> SUFFICES ASSUME cancels \in 0..MaxCancels PROVE cancels \in Nat
  BY Zenon DEF Places
<1> QED
  BY BoundIsNatural

LEMMA PlaceInvariance == Places /\ Exchange /\ [Next]_vars => Places'
<1> SUFFICES ASSUME Places, Exchange, [Next]_vars PROVE Places'
  OBVIOUS
<1>0. MaxCancels \in Nat
  BY BoundIsNatural
<1> USE <1>0 DEF Places, Exchange, Awaits, Over, Replies, setting, control, End
<1>1. CASE Enter         BY <1>1 DEF Enter
<1>2. CASE PrepareFails  BY <1>2 DEF PrepareFails
<1>3. CASE Send          BY <1>3 DEF Send
<1>4. CASE Turn          BY <1>4 DEF Turn, Settle
<1>5. CASE Join          BY <1>5 DEF Join, Conclude, Report
<1>6. CASE CleanUp       BY <1>6 DEF CleanUp
<1>7. CASE StopInPlace   BY <1>7 DEF StopInPlace, Conclude, Report
<1>8. CASE Expire        BY <1>8 DEF Expire
<1>9. CASE Reply         BY <1>9 DEF Reply
<1>10. CASE ReplyInPlace BY <1>10 DEF ReplyInPlace, Conclude, Report
<1>11. CASE SetToken     BY <1>11 DEF SetToken
<1>12. CASE OwnerCancels
  <2>1. cancels' \in 0..MaxCancels
    <3>1. cancels < MaxCancels /\ cancels' = cancels + 1
      BY <1>12, Zenon DEF OwnerCancels
    <3> QED
      BY <3>1
  <2>2. UNCHANGED <<place, request, timer, raised, outcome>>
    BY <1>12, Zenon DEF OwnerCancels
  <2> QED
    BY <2>1, <2>2
<1>13. CASE UNCHANGED vars
  BY <1>13 DEF vars
<1> QED
  BY <1>1, <1>2, <1>3, <1>4, <1>5, <1>6, <1>7, <1>8, <1>9, <1>10, <1>11,
     <1>12, <1>13 DEF Next, Own

LEMMA ControlInvariance ==
  Places /\ Exchange /\ Delivery /\ Withdrawal /\ [Next]_vars
    => Exchange' /\ Delivery' /\ Withdrawal'
<1> SUFFICES ASSUME Places, Exchange, Delivery, Withdrawal, [Next]_vars
             PROVE  Exchange' /\ Delivery' /\ Withdrawal'
  OBVIOUS
<1>0. cancels \in Nat
  BY CountIsNatural
<1> USE <1>0 DEF Exchange, Delivery, Withdrawal, Stopped, Awaits, Over, Replies,
                 setting, control, End
<1>1. CASE Enter         BY <1>1 DEF Enter
<1>2. CASE PrepareFails  BY <1>2 DEF PrepareFails
<1>3. CASE Send          BY <1>3 DEF Send
<1>4. CASE Turn          BY <1>4 DEF Turn, Settle
<1>5. CASE Join          BY <1>5 DEF Join, Conclude, Report
<1>6. CASE CleanUp       BY <1>6 DEF CleanUp
<1>7. CASE StopInPlace   BY <1>7 DEF StopInPlace, Conclude, Report
<1>8. CASE Expire        BY <1>8 DEF Expire
<1>9. CASE Reply         BY <1>9 DEF Reply
<1>10. CASE ReplyInPlace BY <1>10 DEF ReplyInPlace, Conclude, Report
<1>11. CASE SetToken     BY <1>11 DEF SetToken
<1>12. CASE OwnerCancels BY <1>12 DEF OwnerCancels
<1>13. CASE UNCHANGED vars
  BY <1>13 DEF vars
<1> QED
  BY <1>1, <1>2, <1>3, <1>4, <1>5, <1>6, <1>7, <1>8, <1>9, <1>10, <1>11,
     <1>12, <1>13 DEF Next, Own

\* The end of a call is decided in three actions only.
LEMMA VerdictInvariance ==
  /\ Places /\ Exchange /\ Delivery /\ Withdrawal
  /\ CancellationIsKept /\ TokenWins /\ [Next]_vars
  => CancellationIsKept' /\ TokenWins'
<1> SUFFICES ASSUME Places, Exchange, Delivery, Withdrawal, CancellationIsKept,
                    TokenWins, [Next]_vars
             PROVE  CancellationIsKept' /\ TokenWins'
  OBVIOUS
<1>0. cancels \in Nat
  BY CountIsNatural
<1> USE <1>0 DEF CancellationIsKept, TokenWins, Exchange, Delivery, Withdrawal,
                 Stopped, Awaits, Over, Replies, setting, control, End
<1>1. CASE Join
  <2>1. CASE pending
    BY <1>1, <2>1 DEF Join, Conclude, Report, TimedOut
  <2>2. CASE ~pending
    BY <1>1, <2>2 DEF Join, Conclude, Report, TimedOut
  <2> QED
    BY <2>1, <2>2
<1>2. CASE StopInPlace
  <2>1. CASE request = "running"
    BY <1>2, <2>1 DEF StopInPlace, Places
  <2>2. CASE request = "cancelling"
    BY <1>2, <2>2 DEF StopInPlace, Conclude, Report, TimedOut
  <2> QED
    BY <1>2, <2>1, <2>2 DEF StopInPlace
<1>3. CASE ReplyInPlace BY <1>3 DEF ReplyInPlace, Conclude, Report, TimedOut
<1>4. CASE Enter        BY <1>4 DEF Enter
<1>5. CASE PrepareFails BY <1>5 DEF PrepareFails
<1>6. CASE Send         BY <1>6 DEF Send, Places
<1>7. CASE Turn         BY <1>7 DEF Turn, Settle, Places
<1>8. CASE CleanUp \/ Expire \/ Reply \/ SetToken \/ OwnerCancels
  BY <1>8 DEF CleanUp, Expire, Reply, SetToken, OwnerCancels, Places
<1>9. CASE UNCHANGED vars
  BY <1>9 DEF vars
<1> QED
  BY <1>1, <1>2, <1>3, <1>4, <1>5, <1>6, <1>7, <1>8, <1>9 DEF Next, Own

LEMMA Inductive == Spec => []IInv
<1>1. IInv /\ [Next]_vars => IInv'
  BY FlagInvariance, PlaceInvariance, ControlInvariance, VerdictInvariance DEF IInv
<1> QED
  BY <1>1, InitIInv, PTL DEF Spec
-----------------------------------------------------------------------------
\* The variables of a call keep their types, and it has an outcome exactly
\* when it has ended (TypeOK).
THEOREM TypeCorrect == Spec => []TypeOK
<1>1. IInv => TypeOK
  BY TypeParts DEF IInv
<1> QED
  BY <1>1, Inductive, PTL

\* No exchange outlives its call: a request is joined on every path out of
\* execute() (NoRequestLeft).
THEOREM RequestsAreJoined == Spec => []NoRequestLeft
<1>1. IInv => NoRequestLeft
  BY DEF IInv, Exchange, NoRequestLeft, Over, Replies
<1> QED
  BY <1>1, Inductive, PTL

\* A call that was withdrawn before its exchange had ended is never answered,
\* timed out or blamed on the server (TokenWins).
THEOREM WithdrawnCallsAreNotAnswered == Spec => []TokenWins
<1>1. IInv => TokenWins
  BY DEF IInv
<1> QED
  BY <1>1, Inductive, PTL

\* However often the owner cancels the task, execute() ends with
\* CancelledError (CancellationIsKept).
THEOREM CancellationSurvives == Spec => []CancellationIsKept
<1>1. IInv => CancellationIsKept
  BY DEF IInv
<1> QED
  BY <1>1, Inductive, PTL
=============================================================================
