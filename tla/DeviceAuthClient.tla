------------------------- MODULE DeviceAuthClient --------------------------
(***************************************************************************)
(* DeviceAuthClient of auth/client.py: login, ensure_valid, refresh and    *)
(* logout, run by several clients (processes or threads) that share one    *)
(* record of a token store.  Each call of the store is atomic, as the      *)
(* TokenStore protocol promises; everything between two calls, the network *)
(* above all, is not.                                                      *)
(*                                                                         *)
(* External: the authorization server, which rotates refresh tokens - each *)
(* works once, and its use yields the next of its family - and the network,*)
(* which may lose a request or an answer or deliver a request late.        *)
(***************************************************************************)
EXTENDS Integers

CONSTANTS
  Clients,        \* the clients sharing the record
  None,           \* no credential
  Lifetimes,      \* expires_in the server may grant; None: it does not say
  Skew,           \* skew_seconds
  RevocationUrl,  \* whether the config has a revocation_endpoint
  StoreMayFail,   \* whether a call of the store may raise
  CallersPass,    \* whether callers hand refresh() a credential of their own
  Horizon,        \* bound on the wall clock
  MaxFamilies,    \* bound on the logins that succeed
  MaxGeneration,  \* bound on the refreshes of one family
  MaxCalls        \* bound on the calls of all clients

Families == 1..MaxFamilies
Generations == 0..MaxGeneration

\* A TokenSet.  Its refresh token is the generation-th of its family, 0 if it
\* has none; without a stated expiry it never expires.
TokenSets == [family : Families, generation : Generations, expires_at : Int \cup {None}]

RefreshToken(token) == <<token.family, token.generation>>
RefreshTokens == Families \X Generations

ASSUME ConstantsAssumption ==
  /\ None \notin TokenSets
  /\ None \notin Int
  /\ Lifetimes \subseteq Int \cup {None}
  /\ Skew \in Nat
  /\ RevocationUrl \in BOOLEAN /\ StoreMayFail \in BOOLEAN /\ CallersPass \in BOOLEAN
  /\ Horizon \in Nat /\ MaxFamilies \in Nat \ {0} /\ MaxGeneration \in Nat \ {0}
  /\ MaxCalls \in Nat

VARIABLES
  records,   \* what the store holds, a map with one key
  interventions,
  now,       \* the wall clock
  pc,        \* where each client is in its call
  call,      \* login, ensure_valid, refresh, refresh_with or logout
  held,      \* the credential it works with
  result,    \* what its last call returned or raised
  wire,      \* its refresh request: idle, sent, or what the server answered
  calls,     \* calls begun so far
  users,     \* history: the clients that have begun one
  live,      \* per family, the generation that still works (0: none)
  families,  \* families issued so far
  stray,     \* refresh tokens of abandoned requests that may yet arrive
  forsaken,  \* history: families given up by a logout or lost by a failure
  rejected   \* history: refresh tokens a client was told are invalid and
             \* did not fail to discard

StoreKey == "issuer|client_id"
Store == INSTANCE TokenStore WITH Keys <- {StoreKey}, Tokens <- TokenSets

storage == <<records, interventions>>
control == <<pc, call, held, result, wire, calls, users>>
server  == <<live, families, stray>>
history == <<forsaken, rejected>>
vars == <<storage, now, control, server, history>>

stored == records[StoreKey]

\* is_expired(): the skew is on the safe side of the boundary.
IsExpired(token) == token.expires_at # None /\ now + Skew >= token.expires_at

\* from_response(): the expiry is an instant of the wall clock.
ExpiresAt(lifetime) == IF lifetime = None THEN None ELSE now + lifetime

Goto(p, place) == pc' = [pc EXCEPT ![p] = place]

Return(p, r) ==
  /\ Goto(p, "idle")
  /\ result' = [result EXCEPT ![p] = r]

Init ==
  /\ Store!Init
  /\ now = 0
  /\ pc = [p \in Clients |-> "idle"]
  /\ call = [p \in Clients |-> "none"]
  /\ held = [p \in Clients |-> None]
  /\ result = [p \in Clients |-> "none"]
  /\ wire = [p \in Clients |-> "idle"]
  /\ calls = 0 /\ users = {}
  /\ live = [f \in Families |-> 0]
  /\ families = 0
  /\ stray = {} /\ forsaken = {} /\ rejected = {}

-----------------------------------------------------------------------------
Tick ==
  /\ now < Horizon
  /\ now' = now + 1
  /\ UNCHANGED <<storage, control, server, history>>

\* refresh_with is refresh(tokens) with the credential the last call returned.
Begin(p, c) ==
  /\ pc[p] = "idle" /\ calls < MaxCalls
  /\ c = "refresh_with" => CallersPass /\ result[p] = "token"
  /\ calls' = calls + 1 /\ users' = users \cup {p}
  /\ call' = [call EXCEPT ![p] = c]
  /\ held' = [held EXCEPT ![p] = IF c = "refresh_with" THEN @ ELSE None]
  /\ result' = [result EXCEPT ![p] = "none"]
  /\ Goto(p, IF c = "login" THEN "authorizing" ELSE "loading")
  /\ UNCHANGED <<storage, now, wire, server, history>>

-----------------------------------------------------------------------------
(* login(): grant.authorize() yields a credential of a new family.         *)

LoginGranted(p) ==
  /\ pc[p] = "authorizing" /\ families < MaxFamilies
  /\ families' = families + 1
  /\ \E lifetime \in Lifetimes, generation \in {0, 1} :
       /\ held' = [held EXCEPT ![p] =
            [family |-> families + 1, generation |-> generation,
             expires_at |-> ExpiresAt(lifetime)]]
       /\ live' = [live EXCEPT ![families + 1] = generation]
  /\ Goto(p, "saving")
  /\ UNCHANGED <<storage, now, call, result, wire, calls, users, stray, history>>

LoginFails(p) ==
  /\ pc[p] = "authorizing"
  /\ Return(p, "AuthError")
  /\ UNCHANGED <<storage, now, call, held, wire, calls, users, server, history>>

-----------------------------------------------------------------------------
(* ensure_valid(), refresh() and logout() load the record and decide.      *)

\* The credential the call works with: the argument of refresh() if there is
\* one, else the record.
Current(p) == IF call[p] = "refresh_with" THEN held[p] ELSE stored

Refreshable(token) == token # None /\ token.generation > 0

\* ensure_valid() answers without the network while the credential is good.
StillGood(p) == call[p] = "ensure_valid" /\ stored # None /\ ~IsExpired(stored)

Load(p) ==
  /\ pc[p] = "loading" /\ call[p] # "logout"
  /\ held' = [held EXCEPT ![p] = Current(p)]
  /\ \/ StillGood(p) /\ Return(p, "token") /\ wire' = wire
     \/ /\ ~StillGood(p) /\ ~Refreshable(Current(p))
        /\ Return(p, "NoCredentialError") /\ wire' = wire
     \/ /\ ~StillGood(p) /\ Refreshable(Current(p))
        /\ wire' = [wire EXCEPT ![p] = "sent"]
        /\ Goto(p, "refreshing") /\ result' = result
  /\ UNCHANGED <<storage, now, call, calls, users, server, history>>

LoadForLogout(p) ==
  /\ pc[p] = "loading" /\ call[p] = "logout"
  /\ held' = [held EXCEPT ![p] = stored]
  /\ Goto(p, IF stored # None /\ RevocationUrl THEN "revoking" ELSE "clearing")
  /\ UNCHANGED <<storage, now, call, result, wire, calls, users, server, history>>

\* The request cannot be built (an endpoint is missing, transform_request
\* raises): nothing has been sent.
BuildFails(p) ==
  /\ pc[p] = "revoking" \/ (pc[p] = "refreshing" /\ wire[p] = "sent")
  /\ wire' = [wire EXCEPT ![p] = "idle"]
  /\ Return(p, "ConfigurationError")
  /\ UNCHANGED <<storage, now, call, held, calls, users, server, history>>

-----------------------------------------------------------------------------
(* The authorization server and the network.                               *)

Presented(p) == RefreshToken(held[p])
Works(token) == token[2] = live[token[1]]

\* Rotation: the token presented is spent and the next one is issued.
ServerRotates(p) ==
  LET f == held[p].family IN
  /\ wire[p] = "sent" /\ Works(Presented(p)) /\ live[f] < MaxGeneration
  /\ live' = [live EXCEPT ![f] = @ + 1]
  /\ wire' = [wire EXCEPT ![p] = "rotated"]
  /\ UNCHANGED <<storage, now, pc, call, held, result, calls, users, families, stray, history>>

\* No rotation: an access token alone; invalid_grant; or any other failure.
ServerAnswers(p) ==
  /\ wire[p] = "sent"
  /\ \/ Works(Presented(p)) /\ wire' = [wire EXCEPT ![p] = "renewed"]
     \/ ~Works(Presented(p)) /\ wire' = [wire EXCEPT ![p] = "invalid_grant"]
     \/ wire' = [wire EXCEPT ![p] = "error"]
  /\ UNCHANGED <<storage, now, pc, call, held, result, calls, users, server, history>>

\* A request its client gave up on is processed: nobody learns the new token.
StrayArrives(token) ==
  /\ token \in stray
  /\ stray' = stray \ {token}
  /\ IF Works(token)
     THEN /\ live' = [live EXCEPT ![token[1]] = 0]
          /\ forsaken' = forsaken \cup {token[1]}
     ELSE UNCHANGED <<live, forsaken>>
  /\ UNCHANGED <<storage, now, control, families, rejected>>

\* TransportError: the request or its answer is lost, or comes too late.
RefreshLost(p) ==
  /\ pc[p] = "refreshing"
  /\ stray' = IF wire[p] = "sent" THEN stray \cup {Presented(p)} ELSE stray
  /\ forsaken' = IF wire[p] = "rotated" THEN forsaken \cup {held[p].family} ELSE forsaken
  /\ wire' = [wire EXCEPT ![p] = "idle"]
  /\ Return(p, "TransportError")
  /\ UNCHANGED <<storage, now, call, held, calls, users, live, families, rejected>>

-----------------------------------------------------------------------------
(* refresh() reads the answer.                                             *)

\* Slip: the new access token is merged into the record it replaces.
RefreshGrantedMerged(p) ==
  /\ pc[p] = "refreshing" /\ wire[p] \in {"rotated", "renewed"}
  /\ \E lifetime \in Lifetimes :
       held' = [held EXCEPT ![p].expires_at = ExpiresAt(lifetime)]
  /\ wire' = [wire EXCEPT ![p] = "idle"]
  /\ Goto(p, "saving")
  /\ UNCHANGED <<storage, now, call, result, calls, users, server, history>>

\* The credential of the answer replaces the old one wholesale, so that an
\* answer without a refresh token leaves none.
RefreshGranted(p) ==
  /\ pc[p] = "refreshing" /\ wire[p] \in {"rotated", "renewed"}
  /\ \E lifetime \in Lifetimes :
       held' = [held EXCEPT ![p].expires_at = ExpiresAt(lifetime),
                            ![p].generation = IF wire[p] = "rotated" THEN @ + 1 ELSE 0]
  /\ forsaken' = IF wire[p] = "renewed" THEN forsaken \cup {held[p].family} ELSE forsaken
  /\ wire' = [wire EXCEPT ![p] = "idle"]
  /\ Goto(p, "saving")
  /\ UNCHANGED <<storage, now, call, result, calls, users, server, rejected>>

\* AuthorizationProtocolError: neither a credential nor invalid_grant; the
\* store is left alone.
RefreshUnusable(p) ==
  /\ pc[p] = "refreshing" /\ wire[p] \in {"error", "rotated", "renewed"}
  /\ forsaken' = IF wire[p] = "rotated" THEN forsaken \cup {held[p].family} ELSE forsaken
  /\ wire' = [wire EXCEPT ![p] = "idle"]
  /\ Return(p, "AuthorizationProtocolError")
  /\ UNCHANGED <<storage, now, call, held, calls, users, server, rejected>>

Rejected(p) ==
  /\ rejected' = rejected \cup {Presented(p)}
  /\ wire' = [wire EXCEPT ![p] = "idle"]
  /\ UNCHANGED <<storage, now, call, held, calls, users, server, forsaken>>

\* Slip: error_aliases applies, and its alias of invalid_grant is not the
\* identifier refresh() looks for.
RefreshRejectedAliased(p) ==
  /\ pc[p] = "refreshing" /\ wire[p] = "invalid_grant"
  /\ Rejected(p)
  /\ Return(p, "AuthorizationProtocolError")

\* Slip: every failure of the token endpoint discards the credential.
RefreshRejectedAnyhow(p) ==
  /\ pc[p] = "refreshing" /\ wire[p] \in {"invalid_grant", "error"}
  /\ Rejected(p)
  /\ Goto(p, "discarding") /\ result' = result

RefreshRejected(p) ==
  /\ pc[p] = "refreshing" /\ wire[p] = "invalid_grant"
  /\ Rejected(p)
  /\ Goto(p, "discarding") /\ result' = result

-----------------------------------------------------------------------------
(* The calls end with a call of the store.                                 *)

Save(p) ==
  /\ pc[p] = "saving"
  /\ Store!Save(StoreKey, held[p])
  /\ Return(p, "token")
  /\ UNCHANGED <<now, call, held, wire, calls, users, server, history>>

\* After invalid_grant: whatever is stored by now is cleared.
Discard(p) ==
  /\ pc[p] = "discarding"
  /\ Store!Clear(StoreKey)
  /\ Return(p, "RefreshFailedError")
  /\ UNCHANGED <<now, call, held, wire, calls, users, server, history>>

\* Best effort: the server may refuse, ignore or never see the revocation.
Revoke(p) ==
  LET f == held[p].family IN
  /\ pc[p] = "revoking"
  /\ Goto(p, "clearing")
  /\ \/ live' = [live EXCEPT ![f] = 0] /\ forsaken' = forsaken \cup {f}
     \/ UNCHANGED <<live, forsaken>>
  /\ UNCHANGED <<storage, now, call, held, result, wire, calls, users, families, stray, rejected>>

Clear(p) ==
  /\ pc[p] = "clearing"
  /\ Store!Clear(StoreKey)
  /\ forsaken' = IF stored = None THEN forsaken ELSE forsaken \cup {stored.family}
  /\ Return(p, "done")
  /\ UNCHANGED <<now, call, held, wire, calls, users, server, rejected>>

\* A call of the store raises, CredentialPermissionError or OSError.  If it
\* was to save, the credential just obtained is lost to everyone.
StoreFails(p) ==
  /\ StoreMayFail
  /\ pc[p] \in {"loading", "saving", "discarding", "clearing"}
  /\ pc[p] = "loading" => call[p] # "refresh_with"
  /\ forsaken' = IF pc[p] = "saving" THEN forsaken \cup {held[p].family} ELSE forsaken
  /\ rejected' = IF pc[p] = "discarding" THEN rejected \ {Presented(p)} ELSE rejected
  /\ Return(p, "StoreError")
  /\ UNCHANGED <<storage, now, call, held, wire, calls, users, server>>

-----------------------------------------------------------------------------
Calls == {"login", "ensure_valid", "refresh", "refresh_with", "logout"}

Step(p) ==
  \/ \E c \in Calls : Begin(p, c)
  \/ LoginGranted(p) \/ LoginFails(p)
  \/ Load(p) \/ LoadForLogout(p) \/ BuildFails(p) \/ StoreFails(p)
  \/ RefreshGranted(p) \/ RefreshUnusable(p) \/ RefreshRejected(p) \/ RefreshLost(p)
  \/ Save(p) \/ Discard(p) \/ Revoke(p) \/ Clear(p)

Environment ==
  \/ Tick
  \/ \E p \in Clients : ServerRotates(p) \/ ServerAnswers(p)
  \/ \E token \in stray : StrayArrives(token)

Next == Environment \/ \E p \in Clients : Step(p)

Spec == Init /\ [][Next]_vars

-----------------------------------------------------------------------------
TypeOK ==
  /\ records \in [{StoreKey} -> TokenSets \cup {None}] /\ interventions = 0
  /\ now \in 0..Horizon
  /\ pc \in [Clients -> {"idle", "authorizing", "loading", "refreshing", "saving",
                         "discarding", "revoking", "clearing"}]
  /\ call \in [Clients -> Calls \cup {"none"}]
  /\ held \in [Clients -> TokenSets \cup {None}]
  /\ result \in [Clients -> {"none", "token", "done", "AuthError", "NoCredentialError",
                             "RefreshFailedError", "AuthorizationProtocolError",
                             "TransportError", "ConfigurationError", "StoreError"}]
  /\ wire \in [Clients -> {"idle", "sent", "rotated", "renewed", "invalid_grant", "error"}]
  /\ calls \in 0..MaxCalls /\ users \subseteq Clients
  /\ live \in [Families -> Generations]
  /\ families \in 0..MaxFamilies
  /\ stray \subseteq RefreshTokens
  /\ forsaken \subseteq Families
  /\ rejected \subseteq RefreshTokens

\* A client is bringing home the token that succeeds those of family f.
InFlight(f) ==
  \E p \in Clients :
    /\ held[p] # None /\ held[p].family = f
    /\ \/ wire[p] = "rotated"
       \/ pc[p] = "saving" /\ held[p].generation = live[f]

\* However the clients race, no spent refresh token stays in the store: the
\* one stored works, or its successor is on its way to the store, or the
\* successor was lost by a failure (client.py:129-131).
SpentTokenNotKept ==
  stored # None =>
    \/ stored.generation \in {0, live[stored.family]}
    \/ InFlight(stored.family)
    \/ stored.family \in forsaken

\* A refresh token known to be invalid does not survive in the store; the
\* client that was told so is about to clear it (client.py:145-151).
RefusedIsDiscarded ==
  stored # None /\ RefreshToken(stored) \in rejected =>
    \E p \in Clients : pc[p] = "discarding"

\* As long as only one client has been used, the newest login is not lost
\* while its refresh token works: neither a failed refresh nor a malformed
\* answer discards it
\* (client.py:139-140 and test_device_auth.py:499).
LiveTokenIsKept ==
  /\ \A p, q \in users : p = q
  /\ families > 0 /\ live[families] > 0 /\ families \notin forsaken
  =>
    \/ stored # None /\ RefreshToken(stored) = <<families, live[families]>>
    \/ InFlight(families)
=============================================================================
