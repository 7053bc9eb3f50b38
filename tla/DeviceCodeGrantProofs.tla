----------------------- MODULE DeviceCodeGrantProofs -----------------------
(***************************************************************************)
(* Proofs about DeviceCodeGrant for every value of its constants.          *)
(***************************************************************************)
EXTENDS DeviceCodeGrant, TLAPS

\* Facts about the operators: the types of what they return.
LEMMA ShorterType ==
  ASSUME NEW a \in Int, NEW b \in Int
  PROVE  Shorter(a, b) \in {a, b} /\ Shorter(a, b) <= a /\ Shorter(a, b) <= b
  BY DEF Shorter

LEMMA EffectiveDeadlineType ==
  ASSUME NEW e \in Int, NEW t \in Timeouts
  PROVE  /\ EffectiveDeadline(e, t) \in Int
         /\ EffectiveDeadline(e, t) <= e
         /\ t # Missing => EffectiveDeadline(e, t) <= t
         /\ EffectiveDeadline(e, t) = e \/ (t # Missing /\ EffectiveDeadline(e, t) = t)
  BY ConstantsAssumption, ShorterType DEF EffectiveDeadline, Shorter

\* What authorize() stores in every step has its type.
LEMMA TypeInvariance == TypeOK /\ [Next]_vars => TypeOK'
<1> SUFFICES ASSUME TypeOK, [Next]_vars PROVE TypeOK'
  OBVIOUS
<1> USE ConstantsAssumption
<1>u. CASE UNCHANGED vars
  BY <1>u DEF TypeOK, vars, flow, plan, pace, network, server, history
<1>t. CASE Tick
  BY <1>t DEF Tick, TypeOK, flow, plan, pace, network, server, history
<1>e. CASE Environment
  <2>1. ASSUME NEW d \in {"approved", "denied"}, UserDecides(d) PROVE TypeOK'
    BY <2>1 DEF UserDecides, TypeOK, flow, plan, pace, network, history
  <2>2. ASSUME NEW lifetime \in Lifetimes, NEW stated \in Lifetimes \cup {Missing},
               NEW i \in Intervals \cup {Missing}, IssueCode(lifetime, stated, i)
        PROVE TypeOK'
    BY <2>2 DEF IssueCode, Reply, TypeOK, flow, plan, pace, history
  <2>3. ASSUME ServerMalfunctions PROVE TypeOK'
    BY <2>3 DEF ServerMalfunctions, Reply, TypeOK, flow, plan, pace, server, history
  <2>4. ASSUME ServerGrants PROVE TypeOK'
    BY <2>4 DEF ServerGrants, Reply, TypeOK, flow, plan, pace, history
  <2>5. ASSUME NEW raw \in RawErrors, NEW i \in Intervals \cup {Missing},
               ServerRefuses(raw, i)
        PROVE TypeOK'
    BY <2>5 DEF ServerRefuses, Reply, TypeOK, flow, plan, pace, server, history
  <2>6. ASSUME StrayArrives PROVE TypeOK'
    <3>1. stray' \in BOOLEAN /\ grant_lost' \in BOOLEAN
      BY <2>6, Zenon DEF StrayArrives, TypeOK
    <3>2. code_status' \in {"none", "pending", "approved", "denied", "consumed"}
      BY <2>6 DEF StrayArrives, TypeOK
    <3>3. UNCHANGED <<flow, now, plan, pace, wire, answer, code_expiry,
                      announced_at, heard_at, demand>>
      BY <2>6 DEF StrayArrives
    <3> QED
      BY <3>1, <3>2, <3>3 DEF TypeOK, flow, plan, pace
  <2> QED
    BY <1>e, <2>1, <2>2, <2>3, <2>4, <2>5, <2>6 DEF Environment
<1>r. CASE DeviceRequestEnds \/ PollEnds
  <2>1. CASE DeviceRequestFails
    BY <2>1 DEF DeviceRequestFails, Finish, TypeOK, Locations, Outcomes, AuthErrors,
                plan, pace, server, history
  <2>2. CASE ReceiveDeviceCode
    <3>1. OrDefault(answer.interval, DefaultInterval) \in Int
      BY DEF OrDefault, TypeOK
    <3> QED
      BY <2>2, <3>1 DEF ReceiveDeviceCode, TypeOK, Locations, plan, pace, server
  <2>3. CASE PollFails
    BY <2>3 DEF PollFails, Finish, TypeOK, Locations, Outcomes, AuthErrors, plan, server
  <2>4. CASE ReceivePoll
    <3>1. Demanded \in Int
      BY DEF Demanded, TypeOK
    <3> QED
      BY <2>4, <3>1
      DEF ReceivePoll, Finish, TypeOK, Locations, Outcomes, AuthErrors, plan, server
  <2> QED
    BY <1>r, <2>1, <2>2, <2>3, <2>4 DEF DeviceRequestEnds, PollEnds
<1>c. CASE Client
  <2> USE DEF TypeOK, Locations, Outcomes, AuthErrors, plan, pace, network, server, history
  <2>1. CASE BuildFails
    BY <2>1 DEF BuildFails, Finish
  <2>2. CASE RequestDeviceCode
    BY <2>2 DEF RequestDeviceCode
  <2>12. CASE DeviceCodeMalformed
    BY <2>12 DEF DeviceCodeMalformed, Finish
  <2>13. CASE StartCountdown
    <3>1. OrDefault(answer.expires_in, DefaultExpiresIn) \in Int
      BY DEF OrDefault
    <3> QED
      BY <2>13, <3>1, EffectiveDeadlineType DEF StartCountdown
  <2>3. ASSUME NEW raised \in BOOLEAN, UserCodeShown(raised) PROVE TypeOK'
    BY <2>3 DEF UserCodeShown, Notified, OrDefault
  <2>4. ASSUME NEW raised \in BOOLEAN, PollAnnounced(raised) PROVE TypeOK'
    BY <2>4 DEF PollAnnounced, Notified
  <2>5. CASE DeadlineExceeded
    BY <2>5 DEF DeadlineExceeded, Finish
  <2>6. CASE Sleep
    <3>1. Shorter(interval, Remaining) \in Int
      BY ShorterType DEF Remaining
    <3> QED
      BY <2>6, <3>1 DEF Sleep, Finish
  <2>7. CASE Wake
    BY <2>7 DEF Wake
  <2>8. CASE SendPoll
    BY <2>8 DEF SendPoll
  <2>9. CASE DispatchSuccess
    BY <2>9 DEF DispatchSuccess, Finish
  <2>10. CASE DispatchRetry
    BY <2>10 DEF DispatchRetry, Backoff
  <2>11. CASE DispatchFailure
    BY <2>11 DEF DispatchFailure, Finish
  <2> QED
    BY <1>c, <2>1, <2>2, <2>3, <2>4, <2>5, <2>6, <2>7, <2>8, <2>9, <2>10, <2>11, <2>12,
       <2>13 DEF Client
<1> QED
  BY <1>u, <1>t, <1>e, <1>r, <1>c DEF Next

LEMMA TypeInit == Init => TypeOK
<1> SUFFICES ASSUME Init PROVE TypeOK
  OBVIOUS
<1>1. stray \in BOOLEAN /\ grant_lost \in BOOLEAN
  BY DEF Init
<1>2. /\ answer \in [kind : {"none", "device", "success", "error", "malformed"},
                      raw : RawErrors \cup {Missing},
                      interval : Int \cup {Missing}, expires_in : Int \cup {Missing}]
      /\ answer.kind # "error"
  BY DEF Init, Silence, Reply
<1> QED
  BY <1>1, <1>2, ConstantsAssumption DEF Init, TypeOK, Locations, Outcomes, AuthErrors

\* The state of an authorization is always well typed (TypeOK).
THEOREM TypeCorrect == Spec => []TypeOK
  BY TypeInit, TypeInvariance, PTL DEF Spec

-----------------------------------------------------------------------------
(* A credential is returned only in time.                                  *)

Polling == Locations \ {"start", "device", "decoding", "done"}

\* The deadline and its origin are the announced ones from the start of the
\* countdown until the end.
DeadlineInv ==
  /\ pc \in Polling => announced_at # Missing
  /\ announced_at # Missing =>
       /\ announced_at = started
       /\ deadline = EffectiveDeadline(expires_in, timeout)
  /\ TokenInTime

LEMMA DeadlineInit == Init => DeadlineInv
  BY DEF Init, DeadlineInv, Polling, Locations, TokenInTime

LEMMA BudgetIsWindow ==
  TypeOK /\ DeadlineInv /\ announced_at # Missing /\ Remaining > 0 => WindowOpen
<1> SUFFICES ASSUME TypeOK, DeadlineInv, announced_at # Missing, Remaining > 0
             PROVE  WindowOpen
  OBVIOUS
<1>1. /\ announced_at = started /\ started \in Nat /\ now \in Nat /\ expires_in \in Int
      /\ timeout \in Timeouts /\ deadline = EffectiveDeadline(expires_in, timeout)
  BY DEF TypeOK, DeadlineInv
<1>2. now - announced_at < deadline /\ deadline \in Int
  BY <1>1, EffectiveDeadlineType DEF Remaining
<1>3. now - announced_at < expires_in
  BY <1>1, <1>2, EffectiveDeadlineType
<1>4. ASSUME timeout # Missing PROVE now - announced_at < timeout
  <2>1. timeout \in Int
    BY <1>1, <1>4, ConstantsAssumption
  <2> QED
    BY <1>1, <1>2, <1>4, <2>1, EffectiveDeadlineType
<1> QED
  BY <1>3, <1>4 DEF WindowOpen

LEMMA DeadlineInvariance ==
  TypeOK /\ DeadlineInv /\ [Next]_vars => DeadlineInv'
<1> SUFFICES ASSUME TypeOK, DeadlineInv, [Next]_vars PROVE DeadlineInv'
  OBVIOUS
<1> USE ConstantsAssumption
<1>1. CASE StartCountdown
  \* The only step that sets the deadline, the origin and their history.
  <2>1. /\ announced_at' = started' /\ outcome' = "none"
        /\ deadline' = EffectiveDeadline(expires_in', timeout')
    BY <1>1 DEF StartCountdown, TypeOK, plan
  <2>2. announced_at' # Missing
    BY <1>1 DEF StartCountdown, TypeOK
  <2> QED
    BY <2>1, <2>2 DEF DeadlineInv, TokenInTime
<1>2. CASE DispatchSuccess
  <2>1. UNCHANGED <<now, timeout, expires_in, deadline, started, announced_at>>
    BY <1>2 DEF DispatchSuccess, plan, history
  <2>2. pc' = "done" /\ announced_at # Missing
    BY <1>2 DEF DispatchSuccess, Finish, DeadlineInv, Polling, Locations
  <2>3. outcome' = "tokens" => Remaining > 0
    BY <1>2 DEF DispatchSuccess, Finish, Remaining, TypeOK
  <2>4. outcome' = "tokens" => WindowOpen
    BY <2>2, <2>3, BudgetIsWindow
  <2> QED
    BY <2>1, <2>2, <2>4 DEF DeadlineInv, TokenInTime, WindowOpen, Polling, Locations
<1>3. CASE Tick
  \* Time passes only before the outcome is known.
  <2>1. outcome' # "tokens"
    BY <1>3 DEF Tick, TypeOK, flow
  <2> QED
    BY <1>3, <2>1 DEF Tick, DeadlineInv, TokenInTime, Polling, flow, plan, history
<1>4. ASSUME UNCHANGED <<now, timeout, expires_in, deadline, started, announced_at>>,
             pc' \in Polling => pc \in Polling,
             outcome' = "tokens" => outcome = "tokens"
      PROVE  DeadlineInv'
  BY <1>4 DEF DeadlineInv, TokenInTime, WindowOpen
<1>5. CASE UNCHANGED vars
  BY <1>4, <1>5 DEF vars, flow, plan, history
<1>6. CASE Environment
  BY <1>4, <1>6 DEF Environment, UserDecides, IssueCode, ServerMalfunctions, ServerGrants,
                    ServerRefuses, StrayArrives, flow, plan, history
<1>7. CASE DeviceRequestEnds \/ PollEnds
  BY <1>4, <1>7 DEF DeviceRequestEnds, PollEnds, DeviceRequestFails, ReceiveDeviceCode,
                    PollFails, ReceivePoll, Finish, Polling, Locations, plan, history
<1>8. CASE Client /\ ~DispatchSuccess /\ ~StartCountdown
  BY <1>4, <1>8 DEF Client, BuildFails, RequestDeviceCode, DeviceCodeMalformed,
                    UserCodeShown, PollAnnounced, Notified, DeadlineExceeded, Sleep,
                    Wake, SendPoll, DispatchRetry, DispatchFailure, Finish, Polling,
                    Locations, plan, history
<1> QED
  BY <1>1, <1>2, <1>3, <1>5, <1>6, <1>7, <1>8 DEF Next

\* For every lifetime, interval, timeout and provider vocabulary: authorize()
\* never returns a credential after the announced deadline (TokenInTime).
THEOREM CredentialsAreInTime == Spec => []TokenInTime
<1>1. DeadlineInv => TokenInTime
  BY DEF DeadlineInv
<1> QED
  BY <1>1, DeadlineInit, DeadlineInvariance, TypeCorrect, PTL DEF Spec

-----------------------------------------------------------------------------
(* The interval the server asks for is kept.                               *)

\* The configuration reads the provider as it means to be read: an identifier
\* resolves to one of the four standard ones exactly if that is what it says.
ProviderUnderstood ==
  \A raw \in RawErrors :
    /\ Classify(raw) = "slow_down" <=> Vocabulary[raw] = "slow_down"
    /\ Classify(raw) = "access_denied" => Vocabulary[raw] = "denied"
    /\ Classify(raw) = "expired_token" => Vocabulary[raw] = "expired"

\* The interval in force is the one the delivered answers ask for, or becomes
\* it by dispatching the answer at hand; a sleep ends when it has passed or
\* when the deadline has.
PaceInv ==
  /\ wire # "idle" => pc \in {"device", "in_flight"}
  /\ heard_at <= now
  /\ pc \in {"decoding", "user_code"} => demand = OrDefault(answer.interval, DefaultInterval)
  /\ pc \in {"loop", "asleep", "on_poll", "preparing", "in_flight"} => interval = demand
  /\ pc = "dispatching" =>
       demand = IF answer.kind = "error" /\ Vocabulary[answer.raw] = "slow_down"
                THEN Backoff(answer.interval, interval) ELSE interval
  /\ pc = "asleep" => wake_at >= heard_at + demand \/ wake_at >= started + deadline
  /\ pc \in {"on_poll", "preparing"} => now >= heard_at + demand

LEMMA PaceInit == Init => PaceInv
  BY DEF Init, PaceInv

LEMMA DemandedIsBackoff ==
  demand = interval =>
    Demanded = IF answer.kind = "error" /\ Vocabulary[answer.raw] = "slow_down"
               THEN Backoff(answer.interval, interval) ELSE interval
  BY DEF Demanded, Backoff

LEMMA PaceInvariance ==
  ProviderUnderstood /\ TypeOK /\ PaceInv /\ [Next]_vars => PaceInv'
<1> SUFFICES ASSUME ProviderUnderstood, TypeOK, PaceInv, [Next]_vars PROVE PaceInv'
  OBVIOUS
<1> USE DEF PaceInv
<1>u. CASE UNCHANGED vars
  BY <1>u DEF vars, flow, plan, pace, network, server, history, Backoff, OrDefault
<1>t. CASE Tick
  <2>1. now \in Nat /\ now' = now + 1 /\ heard_at \in Nat /\ demand \in Int
    BY <1>t DEF Tick, TypeOK
  <2> QED
    BY <1>t, <2>1
    DEF Tick, flow, plan, pace, network, history, Backoff, OrDefault
<1>e. CASE Environment
  \* Answers are put on the wire only while a request is on it.
  <2>1. \/ UNCHANGED <<wire, answer>>
        \/ pc \in {"device", "in_flight"}
    BY <1>e DEF Environment, UserDecides, IssueCode, ServerMalfunctions, ServerGrants,
                ServerRefuses, StrayArrives, network
  <2>2. UNCHANGED <<pc, now, plan, pace, heard_at, demand>>
    BY <1>e DEF Environment, UserDecides, IssueCode, ServerMalfunctions, ServerGrants,
                ServerRefuses, StrayArrives, flow, history
  <2> QED
    BY <2>1, <2>2 DEF plan, pace, Backoff, OrDefault
<1>1. CASE DeviceRequestFails
  BY <1>1 DEF DeviceRequestFails, Finish, history
<1>2. CASE ReceiveDeviceCode
  BY <1>2 DEF ReceiveDeviceCode, TypeOK, OrDefault
<1>3. CASE PollFails
  BY <1>3 DEF PollFails, Finish, TypeOK
<1>4. CASE ReceivePoll
  <2>1. demand = interval
    BY <1>4 DEF ReceivePoll
  <2>2. pc' = "dispatching" \/ pc' = "done"
    BY <1>4 DEF ReceivePoll, Finish
  <2>3. demand' = Demanded /\ UNCHANGED <<answer, interval, now>> /\ heard_at' = now
    BY <1>4 DEF ReceivePoll
  <2>4. demand' = IF answer'.kind = "error" /\ Vocabulary[answer'.raw] = "slow_down"
                  THEN Backoff(answer'.interval, interval') ELSE interval'
    BY <2>1, <2>3, DemandedIsBackoff
  <2>5. wire' = "idle"
    BY <1>4 DEF ReceivePoll
  <2> QED
    BY <2>2, <2>3, <2>4, <2>5 DEF TypeOK, Backoff
<1>13. CASE StartCountdown
  BY <1>13 DEF StartCountdown, pace, network
<1>5. CASE BuildFails \/ DeviceCodeMalformed \/ DeadlineExceeded \/ DispatchSuccess
           \/ DispatchFailure
  <2>1. pc' = "done" /\ wire = "idle"
    BY <1>5 DEF BuildFails, DeviceCodeMalformed, DeadlineExceeded, DispatchSuccess,
                DispatchFailure, Finish
  <2>2. UNCHANGED <<now, wire, heard_at>>
    BY <1>5 DEF BuildFails, DeviceCodeMalformed, DeadlineExceeded, DispatchSuccess,
                DispatchFailure, network, history
  <2> QED
    BY <2>1, <2>2
<1>6. CASE RequestDeviceCode
  BY <1>6 DEF RequestDeviceCode, history
<1>7. ASSUME NEW raised \in BOOLEAN, UserCodeShown(raised) PROVE PaceInv'
  BY <1>7 DEF UserCodeShown, Notified, network, history, OrDefault
<1>8. ASSUME NEW raised \in BOOLEAN, PollAnnounced(raised) PROVE PaceInv'
  BY <1>8 DEF PollAnnounced, Notified, pace, network, history
<1>9. CASE Sleep
  <2>1. heard_at \in Nat /\ now \in Nat /\ interval \in Int /\ deadline \in Int /\ started \in Nat
    BY DEF TypeOK
  <2>2. Remaining \in Int /\ now + Remaining = started + deadline
    BY <2>1 DEF Remaining
  <2>3. Shorter(interval, Remaining) \in {interval, Remaining}
    BY <2>1, <2>2, ShorterType
  <2>4. pc' = "asleep" => wake_at' = now + Shorter(interval, Remaining)
    BY <1>9 DEF Sleep, Finish
  <2>5. /\ interval = demand
        /\ wire = "idle" /\ pc' \in {"asleep", "done"}
        /\ UNCHANGED <<now, interval, wire, demand, heard_at, started, deadline>>
    BY <1>9 DEF Sleep, Finish, plan, network, history
  <2> QED
    BY <2>1, <2>2, <2>3, <2>4, <2>5
<1>10. CASE Wake
  <2>1. Remaining > 0 /\ now >= wake_at
    BY <1>10 DEF Wake
  <2>2. ~(wake_at >= started + deadline)
    BY <2>1 DEF Remaining, TypeOK
  <2>3. now >= heard_at + demand
    BY <1>10, <2>1, <2>2 DEF Wake, TypeOK
  <2> QED
    BY <1>10, <2>3 DEF Wake, pace, network, history
<1>11. CASE SendPoll
  BY <1>11 DEF SendPoll, pace, history
<1>12. CASE DispatchRetry
  <2>1. answer.kind = "error" /\ answer.raw \in RawErrors /\ pc = "dispatching"
    BY <1>12 DEF DispatchRetry, TypeOK
  <2>2. interval' = IF Vocabulary[answer.raw] = "slow_down"
                    THEN Backoff(answer.interval, interval) ELSE interval
    BY <1>12, <2>1 DEF DispatchRetry, ProviderUnderstood
  <2>3. interval' = demand /\ pc' = "loop" /\ wire = "idle"
    BY <1>12, <2>1, <2>2 DEF DispatchRetry
  <2> QED
    BY <1>12, <2>3 DEF DispatchRetry, network, history
<1> QED
  BY <1>u, <1>t, <1>e, <1>1, <1>2, <1>3, <1>4, <1>5, <1>6, <1>7, <1>8, <1>9, <1>10,
     <1>11, <1>12, <1>13 DEF Next, DeviceRequestEnds, PollEnds, Client

\* Only SendPoll puts a poll on the wire, and it does so after the interval.
LEMMA PollsAreSpaced ==
  TypeOK /\ PaceInv /\ [Next]_vars =>
    [pc # "in_flight" /\ pc' = "in_flight" => now - heard_at >= demand]_vars
<1> SUFFICES ASSUME TypeOK, PaceInv, [Next]_vars, pc # "in_flight", pc' = "in_flight"
             PROVE  now - heard_at >= demand
  OBVIOUS
<1>1. SendPoll
  BY DEF Next, vars, Tick, Environment, UserDecides, IssueCode, ServerMalfunctions,
         ServerGrants, ServerRefuses, StrayArrives, DeviceRequestEnds, PollEnds,
         DeviceRequestFails, ReceiveDeviceCode, PollFails, ReceivePoll, Client,
         BuildFails, RequestDeviceCode, DeviceCodeMalformed, StartCountdown,
         UserCodeShown, PollAnnounced, Notified, DeadlineExceeded, Sleep, Wake,
         DispatchSuccess, DispatchRetry, DispatchFailure, Finish, flow
<1> QED
  BY <1>1 DEF SendPoll, PaceInv, TypeOK

\* If the configuration understands the provider then, whatever intervals the
\* server sends and whatever is lost, no poll is early (PaceKept).
THEOREM PollingKeepsThePace == ProviderUnderstood => (Spec => PaceKept)
<1> SUFFICES ASSUME ProviderUnderstood PROVE Spec => PaceKept
  OBVIOUS
<1>1. TypeOK /\ PaceInv /\ [Next]_vars => PaceInv'
  BY PaceInvariance
<1> QED
  BY <1>1, PaceInit, PollsAreSpaced, TypeCorrect, PTL DEF Spec, PaceKept

-----------------------------------------------------------------------------
(* The verdict the caller sees is the server's.                            *)

\* An answer the client holds is still true: credentials are issued once,
\* refusals are final, and an expired code stays expired.
AnswerHolds ==
  /\ answer.kind = "success" => code_status = "consumed"
  /\ answer.kind = "error" /\ Vocabulary[answer.raw] = "denied" => code_status = "denied"
  /\ answer.kind = "error" /\ Vocabulary[answer.raw] = "expired" => ~CodeLive

VerdictInv ==
  /\ wire # "idle" => pc \in {"device", "in_flight"}
  /\ pc = "dispatching" \/ (pc = "in_flight" /\ wire = "answer") => AnswerHolds
  /\ VerdictIsReal

LEMMA VerdictInit == Init => VerdictInv
  BY DEF Init, VerdictInv, VerdictIsReal

LEMMA VerdictInvariance ==
  ProviderUnderstood /\ TypeOK /\ VerdictInv /\ [Next]_vars => VerdictInv'
<1> SUFFICES ASSUME ProviderUnderstood, TypeOK, VerdictInv, [Next]_vars PROVE VerdictInv'
  OBVIOUS
<1> USE DEF VerdictInv, VerdictIsReal, AnswerHolds, CodeLive
<1>u. CASE UNCHANGED vars
  BY <1>u DEF vars, flow, network, server
<1>t. CASE Tick
  <2>1. now \in Nat /\ now' = now + 1 /\ code_expiry \in Nat
    BY <1>t DEF Tick, TypeOK
  <2> QED
    BY <1>t, <2>1 DEF Tick, flow, network, server
<1>e. CASE Environment
  <2>1. ASSUME NEW d \in {"approved", "denied"}, UserDecides(d) PROVE VerdictInv'
    BY <2>1 DEF UserDecides, flow, network
  <2>2. ASSUME NEW lifetime \in Lifetimes, NEW stated \in Lifetimes \cup {Missing},
               NEW i \in Intervals \cup {Missing}, IssueCode(lifetime, stated, i)
        PROVE VerdictInv'
    BY <2>2 DEF IssueCode, flow, TypeOK
  <2>3. ASSUME ServerMalfunctions PROVE VerdictInv'
    BY <2>3 DEF ServerMalfunctions, Reply, flow, server
  <2>4. ASSUME ServerGrants PROVE VerdictInv'
    BY <2>4 DEF ServerGrants, Reply, flow, TypeOK
  <2>5. ASSUME NEW raw \in RawErrors, NEW i \in Intervals \cup {Missing},
               ServerRefuses(raw, i)
        PROVE VerdictInv'
    BY <2>5 DEF ServerRefuses, Says, Reply, flow, server
  <2>6. ASSUME StrayArrives PROVE VerdictInv'
    <3>1. code_status' = code_status \/ (code_status = "approved" /\ code_status' = "consumed")
      BY <2>6, Zenon DEF StrayArrives
    <3>2. UNCHANGED <<pc, outcome, now, wire, answer, code_expiry>>
      BY <2>6 DEF StrayArrives, flow
    <3> QED
      BY <3>1, <3>2
  <2> QED
    BY <1>e, <2>1, <2>2, <2>3, <2>4, <2>5, <2>6 DEF Environment
<1>r. CASE DeviceRequestEnds \/ PollEnds
  BY <1>r DEF DeviceRequestEnds, PollEnds, DeviceRequestFails, ReceiveDeviceCode,
              PollFails, ReceivePoll, Finish, server, TypeOK
<1>1. CASE DispatchSuccess
  BY <1>1 DEF DispatchSuccess, Finish, network, server
<1>2. CASE DispatchFailure
  <2>1. answer.kind = "error" => answer.raw \in RawErrors
    BY DEF TypeOK
  <2>2. /\ outcome' = "AuthorizationDeniedError" => code_status = "denied"
        /\ outcome' = "expired_token" => ~CodeLive
        /\ outcome' # "tokens" /\ pc' = "done" /\ wire = "idle"
    BY <1>2, <2>1 DEF DispatchFailure, Finish, ProviderUnderstood
  <2> QED
    BY <1>2, <2>2 DEF DispatchFailure, network, server
<1>3. ASSUME UNCHANGED <<now, server, wire, answer>>, wire = "idle",
             pc' # "dispatching",
             outcome' \notin {"tokens", "AuthorizationDeniedError", "expired_token"}
      PROVE  VerdictInv'
  BY <1>3 DEF server
<1>4. CASE Client /\ ~DispatchSuccess /\ ~DispatchFailure /\ ~RequestDeviceCode /\ ~SendPoll
  <2>1. UNCHANGED <<now, server, wire, answer>> /\ wire = "idle" /\ pc' # "dispatching"
    BY <1>4 DEF Client, BuildFails, DeviceCodeMalformed, StartCountdown, UserCodeShown,
                PollAnnounced, Notified, DeadlineExceeded, Sleep, Wake, DispatchRetry,
                Finish, network
  <2>2. outcome' \notin {"tokens", "AuthorizationDeniedError", "expired_token"}
    BY <1>4 DEF Client, BuildFails, DeviceCodeMalformed, StartCountdown, UserCodeShown,
                PollAnnounced, Notified, DeadlineExceeded, Sleep, Wake, DispatchRetry,
                Finish, TypeOK
  <2> QED
    BY <1>3, <2>1, <2>2
<1>5. CASE RequestDeviceCode \/ SendPoll
  BY <1>5 DEF RequestDeviceCode, SendPoll, server
<1> QED
  BY <1>u, <1>t, <1>e, <1>r, <1>1, <1>2, <1>4, <1>5 DEF Next, Client

\* If the configuration understands the provider, the caller never sees a
\* refusal, an expiry or a credential that is not real (VerdictIsReal).
THEOREM VerdictsAreReal == ProviderUnderstood => (Spec => []VerdictIsReal)
<1> SUFFICES ASSUME ProviderUnderstood PROVE Spec => []VerdictIsReal
  OBVIOUS
<1>1. TypeOK /\ VerdictInv /\ [Next]_vars => VerdictInv'
  BY VerdictInvariance
<1>2. VerdictInv => VerdictIsReal
  BY DEF VerdictInv
<1> QED
  BY <1>1, <1>2, VerdictInit, TypeCorrect, PTL DEF Spec

-----------------------------------------------------------------------------
(* The polling loop implements the abstract authorization.                 *)

\* The device code is issued once, before the client starts to poll with it.
CodeInv ==
  /\ pc = "start" \/ (pc = "device" /\ wire = "request") => code_status = "none"
  /\ \/ pc \in Polling
     \/ pc = "device" /\ wire = "answer" /\ answer.kind = "device"
     \/ pc = "decoding" /\ answer.kind = "device"
    => code_status # "none"
  /\ wire # "idle" => pc \in {"device", "in_flight"}
  /\ pc \in {"start", "device", "decoding"} => announced_at = Missing

LEMMA CodeInvariance == CodeInv /\ [Next]_vars => CodeInv'
<1> SUFFICES ASSUME CodeInv, [Next]_vars PROVE CodeInv'
  OBVIOUS
<1> USE DEF CodeInv, Polling, Locations
<1>1. CASE UNCHANGED vars \/ Tick
  BY <1>1 DEF vars, Tick, flow, network, server, history
<1>2. CASE Environment
  BY <1>2 DEF Environment, UserDecides, IssueCode, ServerMalfunctions, ServerGrants,
              ServerRefuses, StrayArrives, Reply, flow, network, server, history
<1>3. CASE DeviceRequestEnds \/ PollEnds
  BY <1>3 DEF DeviceRequestEnds, PollEnds, DeviceRequestFails, ReceiveDeviceCode,
              PollFails, ReceivePoll, Finish, server, history
<1>4. CASE Client
  BY <1>4 DEF Client, BuildFails, RequestDeviceCode, DeviceCodeMalformed,
              StartCountdown, UserCodeShown, PollAnnounced, Notified, DeadlineExceeded,
              Sleep, Wake, SendPoll, DispatchSuccess, DispatchRetry, DispatchFailure,
              Finish, network, server, history
<1> QED
  BY <1>1, <1>2, <1>3, <1>4 DEF Next

LEMMA WindowIsBudget ==
  TypeOK /\ DeadlineInv /\ announced_at # Missing /\ Remaining <= 0 => ~WindowOpen
<1> SUFFICES ASSUME TypeOK, DeadlineInv, announced_at # Missing, Remaining <= 0
             PROVE  ~WindowOpen
  OBVIOUS
<1>1. /\ announced_at = started /\ started \in Nat /\ now \in Nat /\ expires_in \in Int
      /\ timeout \in Timeouts /\ deadline = EffectiveDeadline(expires_in, timeout)
      /\ deadline \in Int
  BY DEF TypeOK, DeadlineInv
<1>2. ~(now - announced_at < deadline)
  BY <1>1 DEF Remaining
<1>3. deadline = expires_in \/ (timeout # Missing /\ deadline = timeout)
  BY <1>1, EffectiveDeadlineType
<1> QED
  BY <1>2, <1>3 DEF WindowOpen

\* The four components of the refinement mapping.
AbstractWindow == IF WindowOpen THEN "open" ELSE "closed"
AbstractCode == IF code_status # "none" /\ ~CodeLive THEN "dead" ELSE "live"

LEMMA StepsAreAbstract ==
  ProviderUnderstood /\ TypeOK /\ DeadlineInv /\ VerdictInv /\ VerdictInv' /\ DeadlineInv'
     /\ TypeOK' /\ CodeInv /\ [Next]_vars
  => [Abstract!Next]_(Abstract!vars)
<1> SUFFICES ASSUME TypeOK, DeadlineInv, VerdictInv, VerdictInv', DeadlineInv', TypeOK',
                    CodeInv, [Next]_vars
             PROVE  [Abstract!Next]_(Abstract!vars)
  OBVIOUS
<1>stutter. ASSUME UNCHANGED <<Result, AbstractWindow, AbstractCode, Decision>>
            PROVE  [Abstract!Next]_(Abstract!vars)
  BY <1>stutter DEF Abstract!vars, AbstractWindow, AbstractCode
<1>time. ASSUME outcome = "none", UNCHANGED <<Result, Decision>>,
                AbstractWindow' \in {AbstractWindow, "closed"},
                AbstractCode' \in {AbstractCode, "dead"}
         PROVE  [Abstract!Next]_(Abstract!vars)
  <2>1. Result = "pending"
    BY <1>time DEF Result
  <2> QED
    BY <1>time, <2>1 DEF Abstract!Next, Abstract!TimePasses, AbstractWindow, AbstractCode
\* A step that ends the authorization.
<1>end. ASSUME outcome = "none", outcome' # "none",
               UNCHANGED <<now, timeout, expires_in, announced_at, server>>,
               outcome' = "deadline_exceeded" => announced_at # Missing /\ Remaining <= 0,
               outcome' = "expired_token" => pc \in Polling
        PROVE  [Abstract!Next]_(Abstract!vars)
  <2>1. Result = "pending"
    BY <1>end DEF Result
  <2>2. UNCHANGED <<AbstractWindow, AbstractCode, Decision>>
    BY <1>end DEF AbstractWindow, AbstractCode, Decision, WindowOpen, CodeLive, server
  <2>3. CASE outcome' = "tokens"
    <3>1. Result' = "authorized"
      BY <2>3 DEF Result
    <3>2. Decision = "approved"
      BY <2>3, <2>2 DEF VerdictInv, VerdictIsReal, Decision
    <3>3. AbstractWindow = "open"
      BY <2>3, <2>2 DEF DeadlineInv, TokenInTime, AbstractWindow
    <3> QED
      BY <2>1, <2>2, <3>1, <3>2, <3>3
      DEF Abstract!Next, Abstract!Authorize, AbstractWindow, AbstractCode
  <2>4. CASE outcome' = "AuthorizationDeniedError"
    <3>1. Result' = "denied"
      BY <2>4 DEF Result
    <3>2. Decision = "denied"
      BY <2>4, <2>2 DEF VerdictInv, VerdictIsReal, Decision
    <3> QED
      BY <2>1, <2>2, <3>1, <3>2
      DEF Abstract!Next, Abstract!Refuse, AbstractWindow, AbstractCode
  <2>5. CASE outcome' \in {"expired_token", "deadline_exceeded"}
    <3>1. Result' = "expired"
      BY <2>5 DEF Result
    <3>2. CASE outcome' = "deadline_exceeded"
      <4>1. AbstractWindow = "closed"
        BY <1>end, <3>2, WindowIsBudget DEF AbstractWindow
      <4> QED
        BY <2>1, <2>2, <3>1, <4>1
        DEF Abstract!Next, Abstract!Lapse, AbstractWindow, AbstractCode
    <3>3. CASE outcome' = "expired_token"
      <4>1. AbstractCode = "dead"
        BY <1>end, <3>3 DEF CodeInv, VerdictInv, VerdictIsReal, CodeLive, AbstractCode,
                            server
      <4> QED
        BY <2>1, <2>2, <3>1, <4>1
        DEF Abstract!Next, Abstract!Lapse, AbstractWindow, AbstractCode
    <3> QED
      BY <2>5, <3>2, <3>3
  <2>6. CASE outcome' \notin {"tokens", "AuthorizationDeniedError", "expired_token",
                              "deadline_exceeded"}
    <3>1. Result' = "failed"
      BY <1>end, <2>6 DEF Result
    <3> QED
      BY <2>1, <2>2, <3>1 DEF Abstract!Next, Abstract!Fail, AbstractWindow, AbstractCode
  <2> QED
    BY <2>3, <2>4, <2>5, <2>6
<1>quiet. ASSUME UNCHANGED <<outcome, now, timeout, expires_in, announced_at>>,
                 UNCHANGED Decision, UNCHANGED AbstractCode
          PROVE  [Abstract!Next]_(Abstract!vars)
  <2>1. UNCHANGED <<Result, AbstractWindow>>
    BY <1>quiet DEF Result, AbstractWindow, WindowOpen
  <2> QED
    BY <1>quiet, <2>1, <1>stutter
<1>same. ASSUME UNCHANGED <<outcome, now, timeout, expires_in, announced_at, server>>
         PROVE  [Abstract!Next]_(Abstract!vars)
  <2>1. UNCHANGED <<Decision, AbstractCode>>
    BY <1>same DEF Decision, AbstractCode, CodeLive, server
  <2> QED
    BY <1>same, <2>1, <1>quiet
<1>u. CASE UNCHANGED vars
  BY <1>u, <1>same DEF vars, flow, plan, server, history
<1>t. CASE Tick
  <2>1. /\ outcome = "none" /\ outcome' = "none" /\ now' = now + 1 /\ now \in Nat
        /\ UNCHANGED <<timeout, expires_in, announced_at, code_status, code_expiry>>
    BY <1>t DEF Tick, TypeOK, flow, plan, server, history
  <2>2. UNCHANGED <<Result, Decision>>
    BY <2>1 DEF Result, Decision
  <2>3. WindowOpen' => WindowOpen
    <3>1. expires_in \in Int /\ (announced_at = Missing \/ announced_at \in Nat)
          /\ (timeout = Missing \/ timeout \in Int)
      BY ConstantsAssumption DEF TypeOK
    <3> QED
      BY <2>1, <3>1 DEF WindowOpen
  <2>4. CodeLive' => CodeLive
    BY <2>1 DEF CodeLive, TypeOK
  <2>5. /\ AbstractWindow' \in {AbstractWindow, "closed"}
        /\ AbstractCode' \in {AbstractCode, "dead"}
    BY <2>1, <2>3, <2>4 DEF AbstractWindow, AbstractCode
  <2> QED
    BY <2>1, <2>2, <2>5, <1>time
<1>e. CASE Environment
  <2>1. UNCHANGED <<outcome, now, timeout, expires_in, announced_at>>
    BY <1>e DEF Environment, UserDecides, IssueCode, ServerMalfunctions, ServerGrants,
                ServerRefuses, StrayArrives, flow, plan, history
  <2>2. ASSUME NEW d \in {"approved", "denied"}, UserDecides(d)
        PROVE  [Abstract!Next]_(Abstract!vars)
    <3>1. Decision = "none" /\ Decision' = d /\ UNCHANGED AbstractCode
      BY <2>2 DEF UserDecides, Decision, AbstractCode, CodeLive
    <3>2. UNCHANGED <<Result, AbstractWindow>>
      BY <2>1 DEF Result, AbstractWindow, WindowOpen
    <3> QED
      BY <3>1, <3>2 DEF Abstract!Next, Abstract!UserDecides, AbstractWindow, AbstractCode
  <2>3. ASSUME NEW lifetime \in Lifetimes, NEW stated \in Lifetimes \cup {Missing},
               NEW i \in Intervals \cup {Missing}, IssueCode(lifetime, stated, i)
        PROVE  [Abstract!Next]_(Abstract!vars)
    <3>1. code_status = "none" /\ code_status' = "pending" /\ now' = now
          /\ code_expiry' = now + lifetime /\ now \in Nat /\ lifetime \in Nat \ {0}
      BY <2>3, ConstantsAssumption DEF IssueCode, CodeInv, TypeOK
    <3>2. CodeLive'
      BY <3>1 DEF CodeLive
    <3>3. UNCHANGED <<Decision, AbstractCode>>
      BY <3>1, <3>2 DEF Decision, AbstractCode
    <3> QED
      BY <2>1, <3>3, <1>quiet
  <2>4. CASE ServerMalfunctions
    BY <2>1, <2>4, <1>same DEF ServerMalfunctions
  <2>5. CASE ServerGrants
    <3>1. UNCHANGED <<Decision, AbstractCode>>
      BY <2>5 DEF ServerGrants, Decision, AbstractCode, CodeLive
    <3> QED
      BY <2>1, <3>1, <1>quiet
  <2>6. ASSUME NEW raw \in RawErrors, NEW i \in Intervals \cup {Missing},
               ServerRefuses(raw, i)
        PROVE  [Abstract!Next]_(Abstract!vars)
    BY <2>1, <2>6, <1>same DEF ServerRefuses
  <2>7. CASE StrayArrives
    <3>1. code_status' = code_status \/ (code_status = "approved" /\ code_status' = "consumed")
      BY <2>7, Zenon DEF StrayArrives
    <3>2. UNCHANGED <<now, code_expiry>>
      BY <2>7 DEF StrayArrives
    <3>3. UNCHANGED <<Decision, AbstractCode>>
      BY <3>1, <3>2 DEF Decision, AbstractCode, CodeLive
    <3> QED
      BY <2>1, <3>3, <1>quiet
  <2> QED
    BY <1>e, <2>2, <2>3, <2>4, <2>5, <2>6, <2>7 DEF Environment
<1>1. CASE StartCountdown
  <2>1. outcome = "none" /\ UNCHANGED <<outcome, now, server>>
    BY <1>1 DEF StartCountdown, TypeOK
  <2>2. UNCHANGED <<Result, Decision, AbstractCode>>
    BY <2>1 DEF Result, Decision, AbstractCode, CodeLive, server
  <2>3. pc \notin Polling /\ announced_at = Missing
    BY <1>1 DEF StartCountdown, Polling, CodeInv
  <2>4. AbstractWindow' \in {AbstractWindow, "closed"}
    BY <2>3 DEF AbstractWindow, WindowOpen
  <2> QED
    BY <2>1, <2>2, <2>4, <1>time
<1>2. CASE DeviceRequestFails
  BY <1>2, <1>end DEF DeviceRequestFails, Finish, TypeOK, plan, history
<1>5. CASE ReceiveDeviceCode
  BY <1>5, <1>same DEF ReceiveDeviceCode, plan
<1>3. CASE PollFails \/ ReceivePoll
  <2>1. announced_at # Missing /\ outcome = "none"
    BY <1>3 DEF PollFails, ReceivePoll, DeadlineInv, Polling, Locations, TypeOK
  <2>2. UNCHANGED <<now, timeout, expires_in, announced_at, server>>
    BY <1>3 DEF PollFails, ReceivePoll, plan
  <2>3. outcome' = "none" \/ (outcome' = "deadline_exceeded" /\ Remaining <= 0)
    BY <1>3, <2>1 DEF PollFails, ReceivePoll, Finish
  <2> QED
    BY <2>1, <2>2, <2>3, <1>same, <1>end
<1>4. CASE Client /\ ~StartCountdown
  <2>1. UNCHANGED <<now, timeout, expires_in, announced_at, server>> /\ outcome = "none"
    BY <1>4 DEF Client, BuildFails, RequestDeviceCode, DeviceCodeMalformed,
                UserCodeShown, PollAnnounced, DeadlineExceeded, Sleep, Wake, SendPoll,
                DispatchSuccess, DispatchRetry, DispatchFailure, TypeOK, plan, history
  <2>2. outcome' = "deadline_exceeded" => pc \in Polling /\ Remaining <= 0
    BY <1>4, <2>1 DEF Client, BuildFails, RequestDeviceCode, DeviceCodeMalformed,
                      UserCodeShown, PollAnnounced, Notified, DeadlineExceeded, Sleep,
                      Wake, SendPoll, DispatchSuccess, DispatchRetry, DispatchFailure,
                      Finish, Polling, Locations
  <2>3. outcome' = "expired_token" => pc \in Polling
    BY <1>4, <2>1 DEF Client, BuildFails, RequestDeviceCode, DeviceCodeMalformed,
                      UserCodeShown, PollAnnounced, Notified, DeadlineExceeded, Sleep,
                      Wake, SendPoll, DispatchSuccess, DispatchRetry, DispatchFailure,
                      Finish, Polling, Locations
  <2>4. pc \in Polling => announced_at # Missing
    BY DEF DeadlineInv
  <2> QED
    BY <2>1, <2>2, <2>3, <2>4, <1>same, <1>end
<1> QED
  BY <1>u, <1>t, <1>e, <1>1, <1>2, <1>3, <1>4, <1>5 DEF Next, DeviceRequestEnds, PollEnds

\* authorize() implements the abstract device authorization, for every value
\* of the constants under which the configuration understands the provider.
THEOREM GrantImplementsAuthorization == ProviderUnderstood => (Spec => ImplementsDeviceAuthorization)
<1> SUFFICES ASSUME ProviderUnderstood PROVE Spec => ImplementsDeviceAuthorization
  OBVIOUS
<1>1. Init => Abstract!Init /\ CodeInv
  BY DEF Init, Abstract!Init, Result, WindowOpen, Decision, CodeInv, Polling, Locations
<1>2. TypeOK /\ VerdictInv /\ [Next]_vars => VerdictInv'
  BY VerdictInvariance
<1>3. TypeOK /\ DeadlineInv /\ VerdictInv /\ VerdictInv' /\ DeadlineInv' /\ TypeOK'
        /\ CodeInv /\ [Next]_vars => [Abstract!Next]_(Abstract!vars)
  BY StepsAreAbstract
<1> QED
  BY <1>1, <1>2, <1>3, VerdictInit, DeadlineInit, DeadlineInvariance, CodeInvariance,
     TypeCorrect, PTL DEF Spec, Abstract!Spec, ImplementsDeviceAuthorization

-----------------------------------------------------------------------------
(* No path of the polling loop drops a credential.                         *)

\* Where a credential the server issued can be: lost in transit, on its way to
\* the client, in its hands, with the caller, or given up after the deadline.
CredentialIsSomewhere ==
  \/ grant_lost
  \/ pc = "in_flight" /\ wire = "answer" /\ answer.kind = "success"
  \/ pc = "dispatching" /\ answer.kind = "success"
  \/ outcome = "tokens"
  \/ outcome = "deadline_exceeded" /\ ~WindowOpen

GrantInv == code_status = "consumed" => CredentialIsSomewhere

\* A credential lost before a step is lost after it.
LEMMA LostStaysLost == [Next]_vars /\ grant_lost => grant_lost'
<1> SUFFICES ASSUME [Next]_vars, grant_lost PROVE grant_lost'
  OBVIOUS
<1>1. CASE StrayArrives
  BY <1>1, Zenon DEF StrayArrives
<1>2. CASE PollFails
  BY <1>2, Zenon DEF PollFails
<1>3. CASE UNCHANGED grant_lost
  BY <1>3
<1>4. \/ UNCHANGED grant_lost
      \/ StrayArrives
      \/ PollFails
  BY DEF Next, vars, Tick, Environment, UserDecides, IssueCode, ServerMalfunctions,
         ServerGrants, ServerRefuses, DeviceRequestEnds, PollEnds, DeviceRequestFails,
         ReceiveDeviceCode, ReceivePoll, Client, BuildFails, RequestDeviceCode,
         DeviceCodeMalformed, StartCountdown, UserCodeShown, PollAnnounced,
         DeadlineExceeded, Sleep, Wake, SendPoll, DispatchSuccess, DispatchRetry,
         DispatchFailure, history
<1> QED
  BY <1>1, <1>2, <1>3, <1>4

LEMMA GrantInvariance ==
  TypeOK /\ DeadlineInv /\ CodeInv /\ GrantInv /\ [Next]_vars => GrantInv'
<1> SUFFICES ASSUME TypeOK, DeadlineInv, CodeInv, GrantInv, [Next]_vars,
                    code_status' = "consumed"
             PROVE  CredentialIsSomewhere'
  BY DEF GrantInv
<1> USE DEF CredentialIsSomewhere
<1>lost. CASE grant_lost
  BY <1>lost, LostStaysLost
<1>kept. CASE ~grant_lost
  <2>1. CASE code_status # "consumed"
    \* The code is spent in this step: by the poll in flight or by a stray one.
    <3>1. ServerGrants \/ StrayArrives
      BY <2>1 DEF Next, vars, Tick, Environment, UserDecides, IssueCode,
                  ServerMalfunctions, ServerRefuses, DeviceRequestEnds, PollEnds,
                  DeviceRequestFails, ReceiveDeviceCode, PollFails, ReceivePoll, Client,
                  BuildFails, RequestDeviceCode, DeviceCodeMalformed, StartCountdown,
                  UserCodeShown, PollAnnounced, DeadlineExceeded, Sleep, Wake, SendPoll,
                  DispatchSuccess, DispatchRetry, DispatchFailure, server
    <3>2. ASSUME ServerGrants PROVE CredentialIsSomewhere'
      BY <3>2 DEF ServerGrants, Reply, flow
    <3>3. ASSUME StrayArrives PROVE grant_lost'
      BY <2>1, <3>3, Zenon DEF StrayArrives
    <3> QED
      BY <3>1, <3>2, <3>3
  <2>2. CASE code_status = "consumed" /\ pc = "done"
    \* Nothing that matters changes once authorize() has ended.
    <3>1. outcome = "tokens" \/ (outcome = "deadline_exceeded" /\ ~WindowOpen)
      BY <2>2, <1>kept DEF GrantInv
    <3>2. UNCHANGED <<outcome, now, timeout, expires_in, announced_at>>
      BY <2>2 DEF Next, vars, Tick, Environment, UserDecides, IssueCode,
                  ServerMalfunctions, ServerGrants, ServerRefuses, StrayArrives,
                  DeviceRequestEnds, PollEnds, DeviceRequestFails, ReceiveDeviceCode,
                  PollFails, ReceivePoll, Client, BuildFails, RequestDeviceCode,
                  DeviceCodeMalformed, StartCountdown, UserCodeShown, PollAnnounced,
                  DeadlineExceeded, Sleep, Wake, SendPoll, DispatchSuccess,
                  DispatchRetry, DispatchFailure, flow, plan, history
    <3> QED
      BY <3>1, <3>2 DEF WindowOpen
  <2>3. CASE code_status = "consumed" /\ pc = "in_flight"
    <3>1. wire = "answer" /\ answer.kind = "success"
      BY <2>3, <1>kept DEF GrantInv, TypeOK
    <3>2. announced_at # Missing
      BY <2>3 DEF DeadlineInv, Polling, Locations
    <3>3. ASSUME PollFails PROVE grant_lost'
      BY <3>1, <3>3, Zenon DEF PollFails
    <3>4. ASSUME ReceivePoll PROVE CredentialIsSomewhere'
      <4>1. UNCHANGED <<now, timeout, expires_in, announced_at, answer>>
        BY <3>4 DEF ReceivePoll, plan
      <4>2. CASE Remaining <= 0
        <5>1. ~WindowOpen
          BY <4>2, <3>2, WindowIsBudget
        <5> QED
          BY <3>4, <4>1, <4>2, <5>1 DEF ReceivePoll, Finish, WindowOpen
      <4>3. CASE ~(Remaining <= 0)
        BY <3>1, <3>4, <4>1, <4>3 DEF ReceivePoll
      <4> QED
        BY <4>2, <4>3
    <3>5. PollFails \/ ReceivePoll \/ UNCHANGED <<pc, wire, answer>>
      BY <2>3, <3>1
      DEF Next, vars, Tick, Environment, UserDecides, IssueCode, ServerMalfunctions,
          ServerGrants, ServerRefuses, StrayArrives, DeviceRequestEnds, PollEnds,
          DeviceRequestFails, ReceiveDeviceCode, Client, BuildFails, RequestDeviceCode,
          DeviceCodeMalformed, StartCountdown, UserCodeShown, PollAnnounced,
          DeadlineExceeded, Sleep, Wake, SendPoll, DispatchSuccess, DispatchRetry,
          DispatchFailure, flow, network
    <3> QED
      BY <2>3, <3>1, <3>3, <3>4, <3>5
  <2>4. CASE code_status = "consumed" /\ pc = "dispatching"
    <3>1. answer.kind = "success"
      BY <2>4, <1>kept DEF GrantInv, TypeOK
    <3>2. announced_at # Missing
      BY <2>4 DEF DeadlineInv, Polling, Locations
    <3>3. ASSUME DispatchSuccess PROVE CredentialIsSomewhere'
      <4>1. UNCHANGED <<now, timeout, expires_in, announced_at>>
        BY <3>3 DEF DispatchSuccess, plan, history
      <4>2. Remaining <= 0 => ~WindowOpen
        BY <3>2, WindowIsBudget
      <4> QED
        BY <3>3, <4>1, <4>2 DEF DispatchSuccess, Finish, WindowOpen
    <3>4. DispatchSuccess \/ UNCHANGED <<pc, answer>>
      BY <2>4, <3>1
      DEF Next, vars, Tick, Environment, UserDecides, IssueCode, ServerMalfunctions,
          ServerGrants, ServerRefuses, StrayArrives, DeviceRequestEnds, PollEnds,
          DeviceRequestFails, ReceiveDeviceCode, PollFails, ReceivePoll, Client,
          BuildFails, RequestDeviceCode, DeviceCodeMalformed, StartCountdown,
          UserCodeShown, PollAnnounced, DeadlineExceeded, Sleep, Wake, SendPoll,
          DispatchRetry, DispatchFailure, flow, network, CodeInv
    <3> QED
      BY <2>4, <3>1, <3>3, <3>4
  <2>5. pc \notin {"done", "in_flight", "dispatching"} => code_status # "consumed"
    BY <1>kept DEF GrantInv, TypeOK
  <2> QED
    BY <2>1, <2>2, <2>3, <2>4, <2>5
<1> QED
  BY <1>lost, <1>kept

\* For every lifetime, interval, timeout and provider vocabulary: a credential
\* the server issued is returned, unless the network lost it or it came after
\* the announced deadline (GrantReachesCaller).
THEOREM CredentialsReachTheCaller == Spec => []GrantReachesCaller
<1>1. Init => CodeInv /\ GrantInv
  BY DEF Init, CodeInv, GrantInv, Polling, Locations
<1>2. TypeOK /\ DeadlineInv /\ CodeInv /\ GrantInv /\ [Next]_vars => GrantInv'
  BY GrantInvariance
<1>3. GrantInv => GrantReachesCaller
  BY DEF GrantInv, CredentialIsSomewhere, GrantReachesCaller
<1> QED
  BY <1>1, <1>2, <1>3, DeadlineInit, DeadlineInvariance, CodeInvariance,
     TypeCorrect, PTL DEF Spec
=============================================================================
