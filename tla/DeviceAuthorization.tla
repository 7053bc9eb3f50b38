------------------------ MODULE DeviceAuthorization ------------------------
(***************************************************************************)
(* What one device authorization (RFC 8628) promises its caller, with no   *)
(* polling, no messages and no clock: it may end with a credential only    *)
(* while the window the caller was told about is open and the user has     *)
(* approved, with a refusal only if the user refused, and with an expiry   *)
(* only if the window has closed or the server has let the code die.       *)
(***************************************************************************)

VARIABLES
  result,    \* how the authorization ended, "pending" until it does
  window,    \* "open" until the promised number of seconds is over
  code,      \* "live" until the server lets the device code expire
  decision   \* what the user answered on the second device

vars == <<result, window, code, decision>>

Init ==
  /\ result = "pending"
  /\ window = "open"
  /\ code = "live"
  /\ decision = "none"

UserDecides ==
  /\ decision = "none"
  /\ decision' \in {"approved", "denied"}
  /\ UNCHANGED <<result, window, code>>

TimePasses ==
  /\ result = "pending"
  /\ window' \in {window, "closed"}
  /\ code' \in {code, "dead"}
  /\ UNCHANGED <<result, decision>>

Authorize ==
  /\ result = "pending"
  /\ window = "open"
  /\ decision = "approved"
  /\ result' = "authorized"
  /\ UNCHANGED <<window, code, decision>>

Refuse ==
  /\ result = "pending"
  /\ decision = "denied"
  /\ result' = "denied"
  /\ UNCHANGED <<window, code, decision>>

Lapse ==
  /\ result = "pending"
  /\ window = "closed" \/ code = "dead"
  /\ result' = "expired"
  /\ UNCHANGED <<window, code, decision>>

Fail ==
  /\ result = "pending"
  /\ result' = "failed"
  /\ UNCHANGED <<window, code, decision>>

Next == UserDecides \/ TimePasses \/ Authorize \/ Refuse \/ Lapse \/ Fail

Spec == Init /\ [][Next]_vars
=============================================================================
