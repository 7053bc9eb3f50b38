-------------------------- MODULE DeviceCodeGrant --------------------------
(***************************************************************************)
(* DeviceCodeGrant.authorize() of auth/grant.py: request a device code,    *)
(* show it, then sleep and poll the token endpoint until the server gives  *)
(* a verdict or the deadline is over.  Time passes between any two steps:  *)
(* during callbacks, hooks and round trips as well as during sleeps.       *)
(*                                                                         *)
(* The authorization server and the network are external.  A request or an *)
(* answer may be lost (the client then sees a TransportError), an answer   *)
(* may be late, and a request the client gave up on may still reach the    *)
(* server and spend the device code.                                       *)
(***************************************************************************)
EXTENDS Integers

CONSTANTS
  Missing,            \* None: a field the server omitted, a timeout not given
  DefaultExpiresIn,   \* DEFAULT_DEVICE_EXPIRES_IN
  DefaultInterval,    \* DeviceAuthConfig.default_interval
  SlowDownIncrement,  \* SLOW_DOWN_INCREMENT
  Lifetimes,          \* seconds a server may keep a device code alive
  Intervals,          \* polling intervals a server may send
  Timeouts,           \* timeout_seconds arguments, Missing included
  RawErrors,          \* error identifiers the provider may put in a body
  Vocabulary,         \* what the provider means by each of them
  ErrorAliases,       \* identifier after DeviceAuthConfig.error_aliases
  ClassifyHook,       \* what the classify_error hook returns for it
  MaxRequestTime,     \* bound on the clock while the code is requested
  Horizon,            \* bound on the clock
  MaxPolls            \* bound on polls_made

Standard == {"authorization_pending", "slow_down", "access_denied", "expired_token"}
Meanings == {"pending", "slow_down", "denied", "expired", "spent", "noise"}

ASSUME ConstantsAssumption ==
  /\ Missing \notin Int
  /\ DefaultExpiresIn \in Int
  /\ DefaultInterval \in Nat \ {0}
  /\ SlowDownIncrement \in Nat
  /\ Lifetimes \subseteq Nat \ {0}
  /\ Intervals \subseteq Int
  /\ Timeouts \subseteq Int \cup {Missing}
  /\ Vocabulary \in [RawErrors -> Meanings]
  /\ DOMAIN ErrorAliases = RawErrors
  /\ DOMAIN ClassifyHook = RawErrors
  /\ MaxRequestTime \in Nat
  /\ Horizon \in Nat
  /\ MaxPolls \in Nat

VARIABLES
  pc,          \* where authorize() is
  outcome,     \* what it returned or raised
  now,         \* the monotonic clock
  timeout,     \* timeout_seconds
  expires_in,  \* device.expires_in
  deadline,    \* seconds the client will poll for
  started,     \* clock reading the deadline counts from
  interval,    \* polling interval in force (final_interval once done)
  wake_at,     \* when the current sleep ends
  polls_made,  \* answers and transport failures consumed
  wire,        \* "idle", "request" or "answer"
  answer,      \* the last answer put on the wire
  stray,       \* an abandoned poll may still reach the server
  code_status, \* the device code at the server
  code_expiry, \* when the server lets the code expire
  announced_at, \* history: when the countdown of the device code began
  heard_at,    \* history: when the last round trip ended
  demand,      \* history: the interval the delivered answers ask for
  grant_lost   \* history: an issued credential was lost in transit

flow    == <<pc, outcome>>
plan    == <<timeout, expires_in, deadline, started>>
pace    == <<interval, wake_at, polls_made>>
network == <<wire, answer, stray>>
server  == <<code_status, code_expiry>>
history == <<announced_at, heard_at, demand, grant_lost>>
vars == <<flow, now, plan, pace, network, server, history>>

Locations == {"start", "device", "decoding", "user_code", "loop", "asleep",
              "on_poll", "preparing", "in_flight", "dispatching", "done"}

\* The exceptions of auth/errors.py, the two expiry reasons told apart.
AuthErrors == {"TransportError", "AuthorizationProtocolError", "ConfigurationError",
               "AuthorizationDeniedError", "expired_token", "deadline_exceeded"}
Outcomes == AuthErrors \cup {"none", "tokens", "ValueError"}

Reply(kind, raw, i, e) == [kind |-> kind, raw |-> raw, interval |-> i, expires_in |-> e]
Silence == Reply("none", Missing, Missing, Missing)

-----------------------------------------------------------------------------
Shorter(a, b) == IF a < b THEN a ELSE b
OrDefault(value, default) == IF value = Missing THEN default ELSE value

\* Slip: the caller's timeout does not shorten the deadline.
EffectiveDeadlineOfServer(e, t) == e

EffectiveDeadline(e, t) == IF t = Missing THEN e ELSE Shorter(e, t)

\* Slip: the budget starts again with every round trip.
RemainingSinceRoundTrip == deadline - (now - heard_at)

\* Slip: the last second of the budget is not used.
RemainingRoundedDown == deadline - (now - started) - 1

\* remaining(): it raises once this is not positive.
Remaining == deadline - (now - started)

\* Slip: the hook is always asked and wins over the alias.
ClassifyHookFirst(raw) ==
  IF ClassifyHook[raw] \in Standard THEN ClassifyHook[raw] ELSE ErrorAliases[raw]

\* The aliased identifier wins if it is standard; only then is the hook asked.
Classify(raw) ==
  CASE ErrorAliases[raw] \in Standard       -> ErrorAliases[raw]
    [] ErrorAliases[raw] \notin Standard /\ ClassifyHook[raw] = "no_opinion"
                                            -> "unresolved"
    [] ErrorAliases[raw] \notin Standard /\ ClassifyHook[raw] \in Standard
                                            -> ClassifyHook[raw]
    [] OTHER                                -> "bad_hook"

\* Slip: slow_down is handled like authorization_pending.
BackoffForgotten(supplied, current) == current

Backoff(supplied, current) ==
  IF supplied # Missing /\ supplied > 0 THEN supplied ELSE current + SlowDownIncrement

Finish(o) == pc' = "done" /\ outcome' = o

\* _notify: a callback that raises is logged and the flow goes on.
Notified(raised, next) == pc' = next /\ outcome' = outcome

-----------------------------------------------------------------------------
Init ==
  /\ pc = "start" /\ outcome = "none"
  /\ now = 0
  /\ timeout \in Timeouts
  /\ expires_in = 0 /\ deadline = 0 /\ started = 0
  /\ interval = 0 /\ wake_at = 0 /\ polls_made = 0
  /\ wire = "idle" /\ answer = Silence /\ stray = FALSE
  /\ code_status = "none" /\ code_expiry = 0
  /\ announced_at = Missing /\ heard_at = 0 /\ demand = 0 /\ grant_lost = FALSE

-----------------------------------------------------------------------------
(* The environment: time, the user, the server.                            *)

Tick ==
  /\ pc # "done"
  /\ now < IF pc \in {"start", "device", "decoding"} THEN MaxRequestTime ELSE Horizon
  /\ now' = now + 1
  /\ UNCHANGED <<flow, plan, pace, network, server, history>>

CodeLive == now < code_expiry

UserDecides(d) ==
  /\ code_status = "pending"
  /\ CodeLive
  /\ code_status' = d
  /\ UNCHANGED <<flow, now, plan, pace, network, code_expiry, history>>

\* The server issues a device code; it may leave either number out.
IssueCode(lifetime, stated, i) ==
  /\ pc = "device" /\ wire = "request"
  /\ stated \in {lifetime, Missing}
  /\ wire' = "answer"
  /\ answer' = Reply("device", Missing, i, stated)
  /\ code_status' = "pending"
  /\ code_expiry' = now + lifetime
  /\ UNCHANGED <<flow, now, plan, pace, stray, history>>

\* A gateway page, an undecodable body, a success without its fields.
ServerMalfunctions ==
  /\ wire = "request"
  /\ wire' = "answer"
  /\ answer' = Reply("malformed", Missing, Missing, Missing)
  /\ UNCHANGED <<flow, now, plan, pace, stray, server, history>>

\* The server hands out the credential once and the code is spent.
ServerGrants ==
  /\ pc = "in_flight" /\ wire = "request"
  /\ code_status = "approved" /\ CodeLive
  /\ code_status' = "consumed"
  /\ wire' = "answer"
  /\ answer' = Reply("success", Missing, Missing, Missing)
  /\ UNCHANGED <<flow, now, plan, pace, stray, code_expiry, history>>

Says(meaning) ==
  \/ meaning \in {"pending", "slow_down"} /\ code_status = "pending" /\ CodeLive
  \/ meaning = "denied"  /\ code_status = "denied"
  \/ meaning = "expired" /\ code_status # "consumed" /\ ~CodeLive
  \/ meaning = "spent"   /\ code_status = "consumed"
  \/ meaning = "noise"

ServerRefuses(raw, i) ==
  /\ pc = "in_flight" /\ wire = "request"
  /\ Says(Vocabulary[raw])
  /\ Vocabulary[raw] # "slow_down" => i = Missing
  /\ wire' = "answer"
  /\ answer' = Reply("error", raw, i, Missing)
  /\ UNCHANGED <<flow, now, plan, pace, stray, server, history>>

\* A poll the client has given up on reaches the server all the same.
StrayArrives ==
  /\ stray
  /\ stray' = FALSE
  /\ IF code_status = "approved" /\ CodeLive
     THEN code_status' = "consumed" /\ grant_lost' = TRUE
     ELSE UNCHANGED <<code_status, grant_lost>>
  /\ UNCHANGED <<flow, now, plan, pace, wire, answer, code_expiry,
                 announced_at, heard_at, demand>>

-----------------------------------------------------------------------------
(* authorize() and request_device_code().                                  *)

\* transform_request or a missing endpoint fails the request being built.
BuildFails ==
  /\ pc \in {"start", "preparing"}
  /\ Finish("ConfigurationError")
  /\ UNCHANGED <<now, plan, pace, network, server, history>>

RequestDeviceCode ==
  /\ pc = "start"
  /\ pc' = "device" /\ wire' = "request"
  /\ UNCHANGED <<outcome, now, plan, pace, answer, stray, server, history>>

\* This request carries no budget (builder.py:98-106, config.py:129), so it may
\* also stay on the wire for ever.
DeviceRequestFails ==
  /\ pc = "device"
  /\ Finish("TransportError")
  /\ wire' = "idle"
  /\ UNCHANGED <<now, plan, pace, answer, stray, server, history>>

ReceiveDeviceCode ==
  /\ pc = "device" /\ wire = "answer"
  /\ pc' = "decoding" /\ wire' = "idle"
  /\ heard_at' = now
  /\ demand' = OrDefault(answer.interval, DefaultInterval)
  /\ UNCHANGED <<outcome, now, plan, pace, answer, stray, server, announced_at, grant_lost>>

DeviceCodeMalformed ==
  /\ pc = "decoding" /\ answer.kind = "malformed"
  /\ Finish("AuthorizationProtocolError")
  /\ UNCHANGED <<now, plan, pace, network, server, history>>

\* The body is decoded; only now does the code's time begin to run.
StartCountdown ==
  LET lifetime == OrDefault(answer.expires_in, DefaultExpiresIn) IN
  /\ pc = "decoding" /\ answer.kind = "device"
  /\ pc' = "user_code"
  /\ expires_in' = lifetime
  /\ deadline' = EffectiveDeadline(lifetime, timeout)
  /\ started' = now
  /\ announced_at' = now
  /\ UNCHANGED <<outcome, now, timeout, pace, network, server, heard_at, demand, grant_lost>>

UserCodeShown(raised) ==
  /\ pc = "user_code"
  /\ Notified(raised, "loop")
  /\ interval' = OrDefault(answer.interval, DefaultInterval)
  /\ polls_made' = 0
  /\ UNCHANGED <<now, plan, wake_at, network, server, history>>

-----------------------------------------------------------------------------
(* _poll_for_token().  remaining() guards the sleep, its end and the send. *)

DeadlineExceeded ==
  /\ \/ pc \in {"loop", "preparing"}
     \/ pc = "asleep" /\ now >= wake_at
  /\ Remaining <= 0
  /\ Finish("deadline_exceeded")
  /\ UNCHANGED <<now, plan, pace, network, server, history>>

\* sleep(min(interval, remaining())); time.sleep refuses a negative length.
Sleep ==
  LET length == Shorter(interval, Remaining) IN
  /\ pc = "loop" /\ Remaining > 0
  /\ IF length < 0
     THEN Finish("ValueError") /\ wake_at' = wake_at
     ELSE pc' = "asleep" /\ outcome' = outcome /\ wake_at' = now + length
  /\ UNCHANGED <<now, plan, interval, polls_made, network, server, history>>

Wake ==
  /\ pc = "asleep" /\ now >= wake_at /\ Remaining > 0
  /\ pc' = "on_poll"
  /\ UNCHANGED <<outcome, now, plan, pace, network, server, history>>

PollAnnounced(raised) ==
  /\ pc = "on_poll"
  /\ Notified(raised, "preparing")
  /\ UNCHANGED <<now, plan, pace, network, server, history>>

SendPoll ==
  /\ pc = "preparing" /\ Remaining > 0
  /\ polls_made < MaxPolls
  /\ pc' = "in_flight" /\ wire' = "request"
  /\ UNCHANGED <<outcome, now, plan, pace, answer, stray, server, history>>

\* A TransportError is retried unless the budget is spent.
PollFails ==
  /\ pc = "in_flight"
  /\ polls_made' = polls_made + 1
  /\ wire' = "idle"
  /\ stray' = (stray \/ wire = "request")
  /\ grant_lost' = (grant_lost \/ (wire = "answer" /\ answer.kind = "success"))
  /\ heard_at' = now
  /\ IF Remaining <= 0 THEN Finish("deadline_exceeded") ELSE pc' = "loop" /\ outcome' = outcome
  /\ UNCHANGED <<now, plan, interval, wake_at, answer, server, announced_at, demand>>

\* The interval the provider's answer asks for, in the provider's own words.
Demanded ==
  IF answer.kind = "error" /\ Vocabulary[answer.raw] = "slow_down"
  THEN IF answer.interval # Missing /\ answer.interval > 0
       THEN answer.interval ELSE demand + SlowDownIncrement
  ELSE demand

ReceivePoll ==
  /\ pc = "in_flight" /\ wire = "answer"
  /\ polls_made' = polls_made + 1
  /\ wire' = "idle"
  /\ heard_at' = now
  /\ demand' = Demanded
  /\ IF Remaining <= 0 THEN Finish("deadline_exceeded")
                       ELSE pc' = "dispatching" /\ outcome' = outcome
  /\ UNCHANGED <<now, plan, interval, wake_at, answer, stray, server,
                 announced_at, grant_lost>>

-----------------------------------------------------------------------------
(* _dispatch(): by the body, never by the status code.                     *)

\* Slip: no check after _dispatch.
DispatchSuccessUnchecked ==
  /\ pc = "dispatching" /\ answer.kind = "success"
  /\ Finish("tokens")
  /\ UNCHANGED <<now, plan, pace, network, server, history>>

\* The check after _dispatch: a credential in hand too late is not returned.
DispatchSuccess ==
  /\ pc = "dispatching" /\ answer.kind = "success"
  /\ Finish(IF Remaining <= 0 THEN "deadline_exceeded" ELSE "tokens")
  /\ UNCHANGED <<now, plan, pace, network, server, history>>

DispatchRetry ==
  /\ pc = "dispatching" /\ answer.kind = "error"
  /\ \/ Classify(answer.raw) = "authorization_pending" /\ interval' = interval
     \/ Classify(answer.raw) = "slow_down" /\ interval' = Backoff(answer.interval, interval)
  /\ pc' = "loop"
  /\ UNCHANGED <<outcome, now, plan, wake_at, polls_made, network, server, history>>

DispatchFailure ==
  /\ pc = "dispatching"
  /\ \/ answer.kind = "malformed" /\ Finish("AuthorizationProtocolError")
     \/ /\ answer.kind = "error"
        /\ \/ Classify(answer.raw) = "access_denied" /\ Finish("AuthorizationDeniedError")
           \/ Classify(answer.raw) = "expired_token" /\ Finish("expired_token")
           \/ Classify(answer.raw) = "unresolved" /\ Finish("AuthorizationProtocolError")
           \/ Classify(answer.raw) = "bad_hook" /\ Finish("ConfigurationError")
  /\ UNCHANGED <<now, plan, pace, network, server, history>>

-----------------------------------------------------------------------------
Environment ==
  \/ \E d \in {"approved", "denied"} : UserDecides(d)
  \/ \E lifetime \in Lifetimes, stated \in Lifetimes \cup {Missing},
        i \in Intervals \cup {Missing} : IssueCode(lifetime, stated, i)
  \/ ServerMalfunctions
  \/ ServerGrants
  \/ \E raw \in RawErrors, i \in Intervals \cup {Missing} : ServerRefuses(raw, i)
  \/ StrayArrives

DeviceRequestEnds == DeviceRequestFails \/ ReceiveDeviceCode

\* A poll carries what is left of the deadline as its own time-out, which an
\* injected client has to enforce itself (transport.py:117-121).
PollEnds == PollFails \/ ReceivePoll

Client ==
  \/ BuildFails \/ RequestDeviceCode \/ DeviceCodeMalformed \/ StartCountdown
  \/ \E raised \in BOOLEAN : UserCodeShown(raised) \/ PollAnnounced(raised)
  \/ DeadlineExceeded \/ Sleep \/ Wake \/ SendPoll
  \/ DispatchSuccess \/ DispatchRetry \/ DispatchFailure

Next == Tick \/ Environment \/ DeviceRequestEnds \/ PollEnds \/ Client

Spec == Init /\ [][Next]_vars

\* Time goes on, hooks and callbacks return, and the transport ends a poll by
\* its time-out.  Nothing is assumed of the device request.
FairSpec == Spec /\ WF_vars(Tick) /\ WF_vars(Client) /\ WF_vars(PollEnds)

-----------------------------------------------------------------------------
TypeOK ==
  /\ pc \in Locations
  /\ outcome \in Outcomes
  /\ (outcome = "none") <=> (pc # "done")
  /\ now \in Nat
  /\ timeout \in Timeouts
  /\ expires_in \in Int /\ deadline \in Int /\ started \in Nat
  /\ interval \in Int /\ wake_at \in Int /\ polls_made \in Nat
  /\ wire \in {"idle", "request", "answer"}
  /\ answer \in [kind : {"none", "device", "success", "error", "malformed"},
                 raw : RawErrors \cup {Missing},
                 interval : Int \cup {Missing}, expires_in : Int \cup {Missing}]
  /\ answer.kind = "error" => answer.raw \in RawErrors
  /\ stray \in BOOLEAN
  /\ code_status \in {"none", "pending", "approved", "denied", "consumed"}
  /\ code_expiry \in Nat
  /\ announced_at \in Nat \cup {Missing}
  /\ heard_at \in Nat /\ demand \in Int /\ grant_lost \in BOOLEAN

\* The seconds on_user_code announces, counted from just before it is called.
WindowOpen ==
  \/ announced_at = Missing
  \/ /\ now - announced_at < expires_in
     /\ timeout # Missing => now - announced_at < timeout

\* A credential is returned only within the number of seconds on_user_code
\* announced, counted from before that callback: callbacks, hooks, slow round
\* trips and late answers all eat into the same budget (grant.py:204-219, 344).
TokenInTime == outcome = "tokens" => announced_at # Missing /\ WindowOpen

\* The verdict the caller sees is the one that was reached: a refusal means
\* the user refused, expired_token means the server let the code die, and a
\* credential means the server issued one (classify and _dispatch).
VerdictIsReal ==
  /\ outcome = "AuthorizationDeniedError" => code_status = "denied"
  /\ outcome = "expired_token" => ~CodeLive
  /\ outcome = "tokens" => code_status = "consumed"

\* RFC 8628 section 3.5: no poll leaves before the interval the server's last
\* delivered answer asked for has passed since the previous round trip, also
\* after a slow_down, after a transport failure, and when the deadline cuts
\* the sleep short (grant.py:313-318, 394-405).
PaceKept == [][pc # "in_flight" /\ pc' = "in_flight" => now - heard_at >= demand]_vars

\* The server issues a credential once.  If it did and the caller was not
\* handed it, then it was lost in transit or it came after the deadline:
\* no path of the polling loop drops a credential it holds.
GrantReachesCaller ==
  pc = "done" /\ code_status = "consumed" /\ outcome # "tokens" =>
    grant_lost \/ (outcome = "deadline_exceeded" /\ ~WindowOpen)

\* Once there is a device code the authorization ends, whatever the server
\* answers and however often the network fails (grant.py:331-333: "retrying
\* cannot loop forever").  The request for the code itself has no deadline.
Termination == pc = "user_code" ~> pc = "done"

-----------------------------------------------------------------------------
Result ==
  CASE outcome = "none" -> "pending"
    [] outcome = "tokens" -> "authorized"
    [] outcome = "AuthorizationDeniedError" -> "denied"
    [] outcome \in {"expired_token", "deadline_exceeded"} -> "expired"
    [] OTHER -> "failed"

Decision ==
  CASE code_status \in {"none", "pending"} -> "none"
    [] code_status \in {"approved", "consumed"} -> "approved"
    [] OTHER -> "denied"

Abstract == INSTANCE DeviceAuthorization WITH
  result <- Result,
  window <- IF WindowOpen THEN "open" ELSE "closed",
  code <- IF code_status # "none" /\ ~CodeLive THEN "dead" ELSE "live",
  decision <- Decision

\* authorize() implements the abstract authorization: in particular it reports
\* an expiry only when the window has closed or the server's code is dead.
ImplementsDeviceAuthorization == Abstract!Spec
=============================================================================
