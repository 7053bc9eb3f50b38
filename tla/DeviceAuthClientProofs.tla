----------------------- MODULE DeviceAuthClientProofs -----------------------
(***************************************************************************)
(* For any number of clients, logins, refreshes and failures: no spent or  *)
(* refused refresh token is left in the store, and a client that is alone  *)
(* keeps its newest login while that works.                                *)
(*                                                                         *)
(* The argument follows a refresh token from its issue to the store.  All  *)
(* that time one client carries it and nobody else has seen it, so nobody  *)
(* else can spend it or be told that it is invalid; and whatever has been  *)
(* seen is no newer than the generation that works.                        *)
(***************************************************************************)
EXTENDS DeviceAuthClient, TLAPS

\* A client has an answer in hand that it has yet to save.
BringsHome(p) == wire[p] = "rotated" \/ pc[p] = "saving"

\* The generation it brings home, and the refresh token.
NextGeneration(p) ==
  IF wire[p] = "rotated" THEN held[p].generation + 1 ELSE held[p].generation
Carried(p) == <<held[p].family, NextGeneration(p)>>
Carries(p) == BringsHome(p) /\ NextGeneration(p) > 0

\* Where a client is says what it has in hand.
ControlOf(p) ==
  /\ wire[p] # "idle" <=> pc[p] = "refreshing"
  /\ pc[p] \in {"refreshing", "discarding"} => Refreshable(held[p])
  /\ pc[p] \in {"saving", "revoking"} => held[p] # None
  /\ result[p] = "token" => pc[p] = "idle"
  /\ BringsHome(p) => Carried(p) \in RefreshTokens

Control == \A p \in Clients : ControlOf(p)

\* No refresh token is of a family yet to come, or newer than the one of its
\* family that works.
Known(t) == t[1] <= families /\ (live[t[1]] > 0 => t[2] <= live[t[1]])

Bounded ==
  /\ \A f \in Families : f > families => live[f] = 0
  /\ stored # None => Known(RefreshToken(stored))
  /\ \A t \in stray \cup rejected : t[2] > 0 /\ Known(t)
  /\ \A p \in Clients : held[p] # None => Known(RefreshToken(held[p]))
  /\ \A p \in Clients : BringsHome(p) => Known(Carried(p))

\* What a client carries nobody else has seen.
Fresh ==
  \A q \in Clients : Carries(q) =>
    /\ stored # None => RefreshToken(stored) # Carried(q)
    /\ Carried(q) \notin stray \cup rejected
    /\ \A p \in Clients \ {q} :
         /\ held[p] # None => RefreshToken(held[p]) # Carried(q)
         /\ Carries(p) => Carried(p) # Carried(q)

\* It is the one that works, unless its family is lost.
Newest ==
  \A p \in Clients : BringsHome(p) /\ held[p].family \notin forsaken =>
    NextGeneration(p) = live[held[p].family]

\* What a client was told is invalid does not work again.
Dead ==
  /\ \A t \in rejected : ~Works(t)
  /\ \A p \in Clients :
       wire[p] = "invalid_grant" \/ pc[p] = "discarding" => ~Works(Presented(p))

\* Whoever was told that the stored refresh token is invalid is about to
\* discard it.
Discarded ==
  stored # None /\ RefreshToken(stored) \in rejected =>
    \E p \in Clients : pc[p] = "discarding" /\ Presented(p) = RefreshToken(stored)

\* A client that has begun no call has nothing, and one that is alone works
\* with what is stored.
Unused ==
  \A p \in Clients \ users : pc[p] = "idle" /\ wire[p] = "idle" /\ held[p] = None /\ result[p] = "none"

Follows ==
  \A p \in Clients : users = {p} =>
    /\ result[p] = "token" => held[p] = stored
    /\ pc[p] = "loading" /\ call[p] = "refresh_with" => held[p] = stored
    /\ pc[p] \in {"refreshing", "discarding"} => held[p] = stored
    /\ pc[p] = "saving" =>
         held[p].family = families \/ (stored # None /\ held[p].family = stored.family)

Safe ==
  /\ Control /\ Bounded /\ Fresh /\ Newest /\ Dead /\ Discarded
  /\ SpentTokenNotKept /\ Unused /\ Follows /\ LiveTokenIsKept

IInv == TypeOK /\ Safe

-----------------------------------------------------------------------------
\* What the calls of the store do to the one record.
LEMMA Storage ==
  ASSUME TypeOK
  PROVE  /\ stored \in TokenSets \cup {None}
         /\ UNCHANGED storage => stored' = stored /\ records' = records /\ interventions' = interventions
         /\ \A token \in TokenSets : Store!Save(StoreKey, token) =>
              /\ stored' = token
              /\ records' \in [{StoreKey} -> TokenSets \cup {None}] /\ interventions' = 0
         /\ Store!Clear(StoreKey) =>
              /\ stored' = None
              /\ records' \in [{StoreKey} -> TokenSets \cup {None}] /\ interventions' = 0
BY DEF TypeOK, stored, storage, Store!Save, Store!Clear

\* A credential with another expiry is a credential.
LEMMA Expiries ==
  ASSUME TypeOK, NEW lifetime \in Lifetimes
  PROVE  ExpiresAt(lifetime) \in Int \cup {None}
BY ConstantsAssumption DEF TypeOK, ExpiresAt

\* The credential of an answer: of the same family, and without a refresh
\* token unless the server rotated it.
LEMMA Refreshed ==
  ASSUME TypeOK, Control, NEW p \in Clients, RefreshGranted(p)
  PROVE  /\ held[p] \in TokenSets /\ held'[p] \in TokenSets
         /\ held' \in [Clients -> TokenSets \cup {None}]
         /\ \A q \in Clients \ {p} : held'[q] = held[q]
         /\ held'[p].family = held[p].family
         /\ held'[p].generation = IF wire[p] = "rotated" THEN held[p].generation + 1 ELSE 0
<1>1. PICK lifetime \in Lifetimes :
        held' = [held EXCEPT ![p].expires_at = ExpiresAt(lifetime),
                             ![p].generation = IF wire[p] = "rotated" THEN @ + 1 ELSE 0]
  BY DEF RefreshGranted
<1>2. held[p] \in TokenSets
  BY DEF RefreshGranted, TypeOK, Control, ControlOf, Refreshable
<1>3. ExpiresAt(lifetime) \in Int \cup {None}
  BY Expiries
<1>4. wire[p] = "rotated" => held[p].generation + 1 \in Generations
  BY DEF RefreshGranted, Control, ControlOf, BringsHome, Carried, NextGeneration, RefreshTokens
<1>5. held'[p] = [family |-> held[p].family,
                 generation |-> IF wire[p] = "rotated" THEN held[p].generation + 1 ELSE 0,
                 expires_at |-> ExpiresAt(lifetime)]
  BY <1>1, <1>2 DEF TypeOK, TokenSets
<1>6. held'[p] \in TokenSets
  BY <1>2, <1>3, <1>4, <1>5, ConstantsAssumption DEF TokenSets, Generations
<1> QED
  BY <1>1, <1>2, <1>5, <1>6 DEF TypeOK

LEMMA TypesInit == Init => TypeOK
BY ConstantsAssumption DEF Init, Store!Init, Store!Empty, TypeOK, TokenSets, Families, Generations, RefreshTokens

LEMMA TypesOfClients ==
  ASSUME TypeOK, Control, NEW p \in Clients, Step(p)
  PROVE  TypeOK'
<1> USE Storage, ConstantsAssumption
    DEF Goto, Return, storage, server, history, control
<1>1. CASE \E c \in Calls : Begin(p, c)
  BY <1>1 DEF Begin, TypeOK, Calls
<1>2. CASE LoginGranted(p)
  <2>1. PICK lifetime \in Lifetimes, generation \in {0, 1} :
          /\ held' = [held EXCEPT ![p] = [family |-> families + 1, generation |-> generation,
                                         expires_at |-> ExpiresAt(lifetime)]]
          /\ live' = [live EXCEPT ![families + 1] = generation]
    BY <1>2 DEF LoginGranted
  <2>2. /\ families + 1 \in Families /\ generation \in Generations
        /\ ExpiresAt(lifetime) \in Int \cup {None}
    BY <1>2, Expiries DEF LoginGranted, TypeOK, Families, Generations
  <2>3. held' \in [Clients -> TokenSets \cup {None}] /\ live' \in [Families -> Generations]
    BY <2>1, <2>2 DEF TypeOK, TokenSets
  <2> QED
    BY <1>2, <2>3 DEF LoginGranted, TypeOK, Families
<1>3. CASE LoginFails(p)
  BY <1>3 DEF LoginFails, TypeOK
<1>4. CASE Load(p)
  BY <1>4 DEF Load, TypeOK, Current
<1>5. CASE LoadForLogout(p)
  BY <1>5 DEF LoadForLogout, TypeOK
<1>6. CASE BuildFails(p)
  BY <1>6 DEF BuildFails, TypeOK
<1>7. CASE StoreFails(p)
  BY <1>7 DEF StoreFails, TypeOK, Control, ControlOf, TokenSets
<1>8. CASE RefreshGranted(p)
  <2>1. held' \in [Clients -> TokenSets \cup {None}] /\ held[p] \in TokenSets
    BY <1>8, Refreshed
  <2>2. held[p].family \in Families
    BY <2>1 DEF TokenSets
  <2>3. forsaken' \subseteq Families
    BY <1>8, <2>2 DEF RefreshGranted, TypeOK
  <2>4. /\ pc' = [pc EXCEPT ![p] = "saving"] /\ wire' = [wire EXCEPT ![p] = "idle"]
        /\ UNCHANGED <<storage, now, call, result, calls, users, server, rejected>>
    BY <1>8 DEF RefreshGranted
  <2> QED
    BY <2>1, <2>3, <2>4 DEF TypeOK
<1>9. CASE RefreshUnusable(p)
  BY <1>9 DEF RefreshUnusable, TypeOK, Control, ControlOf, TokenSets, Refreshable
<1>10. CASE RefreshRejected(p)
  BY <1>10 DEF RefreshRejected, Rejected, Presented, RefreshToken, TypeOK, Control, ControlOf, TokenSets, Refreshable, RefreshTokens
<1>11. CASE RefreshLost(p)
  BY <1>11 DEF RefreshLost, Presented, RefreshToken, TypeOK, Control, ControlOf, TokenSets, Refreshable, RefreshTokens
<1>12. CASE Save(p)
  BY <1>12 DEF Save, TypeOK, Control, ControlOf
<1>13. CASE Discard(p)
  BY <1>13 DEF Discard, TypeOK
<1>14. CASE Revoke(p)
  BY <1>14 DEF Revoke, TypeOK, Control, ControlOf, TokenSets, Generations
<1>15. CASE Clear(p)
  BY <1>15 DEF Clear, TypeOK, TokenSets
<1> QED
  BY <1>1, <1>2, <1>3, <1>4, <1>5, <1>6, <1>7, <1>8, <1>9, <1>10, <1>11, <1>12, <1>13, <1>14, <1>15
     DEF Step

LEMMA TypesOfEnvironment ==
  ASSUME TypeOK, Control, Environment
  PROVE  TypeOK'
<1> USE Storage, ConstantsAssumption
    DEF Goto, Return, storage, server, history, control, TypeOK
<1>1. CASE Tick
  BY <1>1 DEF Tick
<1>2. ASSUME NEW p \in Clients, ServerRotates(p)
      PROVE  TypeOK'
  BY <1>2 DEF ServerRotates, Control, ControlOf, Refreshable, TokenSets, Generations
<1>3. ASSUME NEW p \in Clients, ServerAnswers(p)
      PROVE  TypeOK'
  BY <1>3 DEF ServerAnswers
<1>4. ASSUME NEW token \in stray, StrayArrives(token)
      PROVE  TypeOK'
  BY <1>4 DEF StrayArrives, RefreshTokens, Generations
<1> QED
  BY <1>1, <1>2, <1>3, <1>4 DEF Environment

-----------------------------------------------------------------------------
\* The numbers in a credential, and the generations that work.
LEMMA Shapes ==
  ASSUME TypeOK
  PROVE  /\ \A p \in Clients : held[p] # None =>
              held[p].family \in Families /\ held[p].generation \in Nat
         /\ stored # None => stored.family \in Families /\ stored.generation \in Nat
         /\ \A f \in Families : f \in Nat /\ live[f] \in Nat
         /\ \A t \in stray \cup rejected :
              t[1] \in Families /\ t[2] \in Nat /\ t = <<t[1], t[2]>>
         /\ families \in Nat
<1>1. \A token \in TokenSets : token.family \in Families /\ token.generation \in Nat
  BY ConstantsAssumption DEF TokenSets, Generations
<1>2. \A f \in Families : f \in Nat /\ live[f] \in Nat
  BY ConstantsAssumption DEF TypeOK, Families, Generations
<1>3. \A t \in RefreshTokens : t[1] \in Families /\ t[2] \in Nat /\ t = <<t[1], t[2]>>
  BY ConstantsAssumption DEF RefreshTokens, Generations
<1> QED
  BY <1>1, <1>2, <1>3, Storage, ConstantsAssumption DEF TypeOK

\* What most steps of a client have in common: they end with nothing to bring
\* home, what was brought home is stored or lost, and the rest of what is seen
\* has been seen before.
Settles(p) ==
  /\ \A q \in Clients \ {p} :
       pc'[q] = pc[q] /\ held'[q] = held[q] /\ wire'[q] = wire[q] /\ result'[q] = result[q]
  /\ pc'[p] # "saving" /\ wire'[p] \notin {"rotated", "invalid_grant"}
  /\ held'[p] \in {held[p], stored, None}
  /\ stored' \in {stored, None} \/ (pc[p] = "saving" /\ stored' = held[p])
  /\ BringsHome(p) => (pc[p] = "saving" /\ stored' = held[p]) \/ held[p].family \in forsaken'
  /\ stray' = stray \/ (Refreshable(held[p]) /\ stray' = stray \cup {Presented(p)})
  /\ \/ rejected' \subseteq rejected
     \/ pc'[p] = "discarding" /\ rejected' = rejected \cup {Presented(p)}
  /\ pc'[p] = "discarding" => wire[p] = "invalid_grant" /\ held'[p] = held[p]
  /\ pc[p] = "discarding" => stored' = None \/ Presented(p) \notin rejected'
  /\ stored # None /\ stored' = None =>
       pc[p] = "discarding" \/ stored.family \in forsaken'
  /\ forsaken \subseteq forsaken' /\ families' = families
  /\ \A f \in Families : live'[f] = live[f] \/ (live'[f] = 0 /\ f \in forsaken')
  /\ p \in users' /\ users \subseteq users'

Settling(p) ==
  \/ \E c \in Calls : Begin(p, c)
  \/ LoginFails(p) \/ Load(p) \/ LoadForLogout(p) \/ BuildFails(p) \/ StoreFails(p)
  \/ RefreshUnusable(p) \/ RefreshRejected(p) \/ RefreshLost(p)
  \/ Save(p) \/ Discard(p) \/ Revoke(p) \/ Clear(p)

LEMMA StepsSettle ==
  ASSUME TypeOK, Control, Unused, NEW p \in Clients, Settling(p)
  PROVE  Settles(p)
<1> USE Storage, Shapes DEF Goto, Return, storage, server, history, control, Settles, BringsHome, TypeOK
<1>1. CASE \E c \in Calls : Begin(p, c)
  BY <1>1 DEF Begin, Control, ControlOf
<1>2. CASE LoginFails(p)
  BY <1>2 DEF LoginFails, Control, ControlOf, Unused
<1>3. CASE Load(p)
  BY <1>3 DEF Load, Current, Control, ControlOf, Unused
<1>4. CASE LoadForLogout(p)
  BY <1>4 DEF LoadForLogout, Control, ControlOf, Unused
<1>5. CASE BuildFails(p)
  BY <1>5 DEF BuildFails, Control, ControlOf, Unused
<1>6. CASE StoreFails(p)
  BY <1>6 DEF StoreFails, Control, ControlOf, Unused
<1>7. CASE RefreshUnusable(p)
  BY <1>7 DEF RefreshUnusable, Control, ControlOf, Unused
<1>8. CASE RefreshRejected(p)
  BY <1>8 DEF RefreshRejected, Rejected, Control, ControlOf, Unused
<1>9. CASE RefreshLost(p)
  BY <1>9 DEF RefreshLost, Control, ControlOf, Unused
<1>10. CASE Save(p)
  BY <1>10 DEF Save, Control, ControlOf, Unused
<1>11. CASE Discard(p)
  BY <1>11 DEF Discard, Control, ControlOf, Unused
<1>12. CASE Revoke(p)
  BY <1>12 DEF Revoke, Control, ControlOf, Unused
<1>13. CASE Clear(p)
  BY <1>13 DEF Clear, Control, ControlOf, Unused
<1> QED
  BY <1>1, <1>2, <1>3, <1>4, <1>5, <1>6, <1>7, <1>8, <1>9, <1>10, <1>11, <1>12, <1>13 DEF Settling

-----------------------------------------------------------------------------
\* What holds of what a client carries holds still after the step of another.
LEMMA SettledKeepsBounded ==
  ASSUME TypeOK, TypeOK', Control, Bounded, NEW p \in Clients, Settles(p)
  PROVE  Bounded'
<1> USE Shapes, Storage
<1>1. \A t : t[1] \in Families /\ Known(t) => Known(t)'
  BY DEF Settles, Known
<1>2. (\A f \in Families : f > families => live[f] = 0)'
  BY DEF Settles, Bounded
<1>3. (stored # None => Known(RefreshToken(stored)))'
  BY <1>1 DEF Settles, Bounded, RefreshToken, Control, ControlOf
<1>4. (\A t \in stray \cup rejected : t[2] > 0 /\ Known(t))'
  BY <1>1 DEF Settles, Bounded, Presented, RefreshToken, Control, ControlOf, Refreshable
<1>5. (\A q \in Clients : held[q] # None => Known(RefreshToken(held[q])))'
  BY <1>1 DEF Settles, Bounded, RefreshToken
<1>6. (\A q \in Clients : BringsHome(q) => Known(Carried(q)))'
  BY <1>1 DEF Settles, Bounded, BringsHome, Carried, NextGeneration, Control, ControlOf, Refreshable
<1> QED
  BY <1>2, <1>3, <1>4, <1>5, <1>6 DEF Bounded

LEMMA SettledKeepsFresh ==
  ASSUME TypeOK, TypeOK', Control, Fresh, NEW p \in Clients, Settles(p)
  PROVE  Fresh'
<1> SUFFICES ASSUME NEW q \in Clients, Carries(q)'
             PROVE  /\ (stored # None => RefreshToken(stored) # Carried(q))'
                    /\ (Carried(q) \notin stray \cup rejected)'
                    /\ \A r \in Clients \ {q} :
                         /\ (held[r] # None => RefreshToken(held[r]) # Carried(q))'
                         /\ (Carries(r) => Carried(r) # Carried(q))'
  BY DEF Fresh
<1>1. q # p /\ Carries(q) /\ Carried(q)' = Carried(q)
  BY DEF Settles, Carries, BringsHome, Carried, NextGeneration
<1>2. pc[p] = "saving" => held[p] # None
  BY DEF Control, ControlOf
<1>3. held[p] # None => RefreshToken(held[p]) # Carried(q)
  BY <1>1 DEF Fresh
<1>4. (stored # None => RefreshToken(stored) # Carried(q))'
  BY <1>1, <1>2, <1>3 DEF Settles, Fresh, RefreshToken
<1>5. (Carried(q) \notin stray \cup rejected)'
  BY <1>1, <1>3 DEF Settles, Fresh, Presented, Control, ControlOf, Refreshable
<1>6. ASSUME NEW r \in Clients \ {q}
      PROVE  /\ (held[r] # None => RefreshToken(held[r]) # Carried(q))'
             /\ (Carries(r) => Carried(r) # Carried(q))'
  <2>1. CASE r = p
    BY <1>1, <1>3, <2>1 DEF Settles, Fresh, RefreshToken, Carries, BringsHome
  <2>2. CASE r # p
    <3>1. held'[r] = held[r] /\ Carried(r)' = Carried(r) /\ (Carries(r)' <=> Carries(r))
      BY <2>2 DEF Settles, Carries, BringsHome, Carried, NextGeneration
    <3> QED
      BY <1>1, <3>1 DEF Fresh, RefreshToken
  <2> QED
    BY <2>1, <2>2
<1> QED
  BY <1>4, <1>5, <1>6

LEMMA SettledKeepsNewest ==
  ASSUME TypeOK, TypeOK', Control, Newest, NEW p \in Clients, Settles(p)
  PROVE  Newest'
<1> SUFFICES ASSUME NEW q \in Clients, BringsHome(q)', held'[q].family \notin forsaken'
             PROVE  NextGeneration(q)' = live'[held'[q].family]
  BY DEF Newest
<1>1. q # p /\ BringsHome(q) /\ NextGeneration(q)' = NextGeneration(q) /\ held'[q] = held[q]
  BY DEF Settles, BringsHome, NextGeneration
<1>2. held[q] # None
  BY <1>1 DEF BringsHome, Control, ControlOf, Refreshable
<1> QED
  BY <1>1, <1>2, Shapes DEF Settles, Newest

LEMMA SettledKeepsDead ==
  ASSUME TypeOK, TypeOK', Control, Bounded, Dead, NEW p \in Clients, Settles(p)
  PROVE  Dead'
<1> USE Shapes
<1>1. \A t : t[1] \in Families /\ t[2] > 0 /\ ~Works(t) => ~Works(t)'
  BY DEF Settles, Works
<1>2. (\A t \in rejected : ~Works(t))'
  <2> SUFFICES ASSUME NEW t \in rejected'
               PROVE  ~Works(t)'
    OBVIOUS
  <2>1. t \in rejected \/ (wire[p] = "invalid_grant" /\ t = Presented(p))
    BY DEF Settles
  <2>2. t[1] \in Families /\ t[2] > 0 /\ ~Works(t)
    BY <2>1 DEF Dead, Bounded, Control, ControlOf, Refreshable, Presented, RefreshToken
  <2> QED
    BY <1>1, <2>2
<1>3. ASSUME NEW q \in Clients, wire'[q] = "invalid_grant" \/ pc'[q] = "discarding"
      PROVE  ~Works(Presented(q))'
  <2>1. /\ Presented(q)' = Presented(q)
        /\ wire[q] = "invalid_grant" \/ pc[q] = "discarding"
    BY <1>3 DEF Settles, Presented, RefreshToken
  <2>2. Presented(q)[1] \in Families /\ Presented(q)[2] > 0 /\ ~Works(Presented(q))
    BY <2>1 DEF Dead, Control, ControlOf, Refreshable, Presented, RefreshToken
  <2> QED
    BY <1>1, <2>1, <2>2
<1> QED
  BY <1>2, <1>3 DEF Dead

LEMMA SettledKeepsDiscarded ==
  ASSUME TypeOK, TypeOK', Control, Bounded, Fresh, Discarded, NEW p \in Clients, Settles(p)
  PROVE  Discarded'
<1> SUFFICES ASSUME (stored # None /\ RefreshToken(stored) \in rejected)'
             PROVE  (\E q \in Clients : pc[q] = "discarding" /\ Presented(q) = RefreshToken(stored))'
  BY DEF Discarded
<1> USE Shapes
<1>1. stored' = stored
  <2>1. ASSUME pc[p] = "saving", stored' = held[p]
        PROVE  FALSE
    <3>1. RefreshToken(held[p]) \in rejected
      BY <2>1 DEF Settles, RefreshToken, Control, ControlOf
    <3>2. RefreshToken(held[p])[2] > 0
      BY <3>1 DEF Bounded
    <3> QED
      BY <2>1, <3>1, <3>2 DEF Fresh, Carries, BringsHome, Carried, NextGeneration, RefreshToken, Control, ControlOf
  <2> QED
    BY <2>1 DEF Settles
<1>2. CASE RefreshToken(stored) \in rejected
  <2>1. PICK q \in Clients : pc[q] = "discarding" /\ Presented(q) = RefreshToken(stored)
    BY <1>1, <1>2 DEF Discarded
  <2>2. q # p
    BY <1>1, <2>1 DEF Settles, RefreshToken
  <2> QED
    BY <1>1, <2>1, <2>2 DEF Settles, Presented, RefreshToken
<1>3. CASE RefreshToken(stored) \notin rejected
  BY <1>1, <1>3 DEF Settles, Presented, RefreshToken
<1> QED
  BY <1>2, <1>3

LEMMA SettledKeepsSpent ==
  ASSUME TypeOK, TypeOK', Control, Newest, SpentTokenNotKept, NEW p \in Clients, Settles(p)
  PROVE  SpentTokenNotKept'
<1> SUFFICES ASSUME stored' # None, stored'.family \notin forsaken',
                    stored'.generation \notin {0, live'[stored'.family]}
             PROVE  InFlight(stored.family)'
  BY DEF SpentTokenNotKept
<1> USE Shapes
<1>1. stored' # held[p] \/ pc[p] # "saving"
  BY DEF Settles, Newest, BringsHome, NextGeneration, Control, ControlOf
<1>2. stored' = stored
  BY <1>1 DEF Settles
<1>3. live'[stored.family] = live[stored.family] /\ stored.family \notin forsaken
  BY <1>2 DEF Settles
<1>4. PICK q \in Clients :
        /\ held[q] # None /\ held[q].family = stored.family
        /\ wire[q] = "rotated" \/ (pc[q] = "saving" /\ held[q].generation = live[stored.family])
  BY <1>2, <1>3 DEF SpentTokenNotKept, InFlight
<1>5. q # p
  BY <1>1, <1>2, <1>4 DEF Settles, BringsHome
<1>6. /\ held'[q] # None /\ held'[q].family = stored'.family
      /\ wire'[q] = "rotated" \/ (pc'[q] = "saving" /\ held'[q].generation = live'[stored'.family])
  BY <1>2, <1>3, <1>4, <1>5 DEF Settles
<1> QED
  BY <1>6 DEF InFlight

LEMMA SettledKeepsUnused ==
  ASSUME Unused, NEW p \in Clients, Settles(p)
  PROVE  Unused'
BY DEF Unused, Settles

\* Where the client is after the step is where that step takes it.
LEMMA SettledKeepsControl ==
  ASSUME TypeOK, TypeOK', Control, Unused, NEW p \in Clients, Settling(p)
  PROVE  Control'
<1>1. Settles(p)
  BY StepsSettle
<1>2. ASSUME NEW q \in Clients, q # p
      PROVE  ControlOf(q)'
  BY <1>1, <1>2 DEF Settles, Control, ControlOf, BringsHome, Carried, NextGeneration, Refreshable
<1>3. ControlOf(p)'
  <2>1. ~BringsHome(p)'
    BY <1>1 DEF Settles, BringsHome
  <2> USE <2>1, Storage DEF Goto, Return, storage, TypeOK, ControlOf, Refreshable
  <2>2. CASE \E c \in Calls : Begin(p, c)
    BY <2>2 DEF Begin, Control
  <2>3. CASE LoginFails(p) \/ LoadForLogout(p) \/ BuildFails(p) \/ StoreFails(p)
    BY <2>3 DEF LoginFails, LoadForLogout, BuildFails, StoreFails, Control
  <2>4. CASE Load(p)
    BY <2>4 DEF Load, Control
  <2>5. CASE RefreshUnusable(p) \/ RefreshRejected(p) \/ RefreshLost(p)
    BY <2>5 DEF RefreshUnusable, RefreshRejected, Rejected, RefreshLost, Control
  <2>6. CASE Save(p) \/ Discard(p) \/ Revoke(p) \/ Clear(p)
    BY <2>6 DEF Save, Discard, Revoke, Clear, Control
  <2> QED
    BY <2>2, <2>3, <2>4, <2>5, <2>6 DEF Settling
<1> QED
  BY <1>2, <1>3 DEF Control

LEMMA SettledKeepsFollows ==
  ASSUME TypeOK, TypeOK', Control, Unused, Follows, NEW p \in Clients, Settling(p)
  PROVE  Follows'
<1>1. Settles(p)
  BY StepsSettle
<1>2. SUFFICES ASSUME users' = {p}
               PROVE  /\ (result[p] = "token" => held[p] = stored)'
                      /\ (pc[p] = "loading" /\ call[p] = "refresh_with" => held[p] = stored)'
                      /\ (pc[p] \in {"refreshing", "discarding"} => held[p] = stored)'
  BY <1>1 DEF Settles, Follows
<1>3. users = {p} \/ (users = {} /\ pc[p] = "idle" /\ result[p] = "none")
  BY <1>1, <1>2 DEF Settles, Unused
<1> USE <1>2, <1>3, Storage DEF Goto, Return, storage, TypeOK, Follows
<1>4. CASE \E c \in Calls : Begin(p, c)
  BY <1>4 DEF Begin
<1>5. CASE LoginFails(p) \/ LoadForLogout(p) \/ BuildFails(p) \/ StoreFails(p)
  BY <1>5 DEF LoginFails, LoadForLogout, BuildFails, StoreFails
<1>6. CASE Load(p)
  BY <1>6 DEF Load, Current
<1>7. CASE RefreshUnusable(p) \/ RefreshRejected(p) \/ RefreshLost(p)
  BY <1>7 DEF RefreshUnusable, RefreshRejected, Rejected, RefreshLost
<1>8. CASE Save(p) \/ Discard(p) \/ Revoke(p) \/ Clear(p)
  BY <1>8 DEF Save, Discard, Revoke, Clear, Control, ControlOf
<1> QED
  BY <1>4, <1>5, <1>6, <1>7, <1>8 DEF Settling

LEMMA SettledKeepsLive ==
  ASSUME TypeOK, TypeOK', Control, Newest, Dead, Unused, Follows, LiveTokenIsKept,
         NEW p \in Clients, Settles(p)
  PROVE  LiveTokenIsKept'
<1> SUFFICES ASSUME \A q, r \in users' : q = r,
                    families' > 0, live'[families'] > 0, families' \notin forsaken'
             PROVE  (stored # None /\ RefreshToken(stored) = <<families, live[families]>>)'
  BY DEF LiveTokenIsKept
<1> USE Shapes, Storage
<1>1. /\ users \subseteq {p} /\ families' = families /\ families \in Families
      /\ live'[families] = live[families] /\ families \notin forsaken
  BY ConstantsAssumption DEF Settles, TypeOK, Families
<1>2. \/ stored # None /\ RefreshToken(stored) = <<families, live[families]>>
      \/ InFlight(families)
  BY <1>1 DEF LiveTokenIsKept
<1>3. ASSUME pc[p] = "saving", stored' = held[p], held[p].family = families
      PROVE  (stored # None /\ RefreshToken(stored) = <<families, live[families]>>)'
  BY <1>1, <1>3 DEF Newest, BringsHome, NextGeneration, Control, ControlOf, RefreshToken
<1>4. CASE InFlight(families)
  <2>1. held[p].family = families /\ BringsHome(p)
    BY <1>1, <1>4 DEF InFlight, Unused, BringsHome
  <2> QED
    BY <1>1, <1>3, <2>1 DEF Settles
<1>5. CASE stored # None /\ RefreshToken(stored) = <<families, live[families]>>
  <2>1. CASE stored' = stored
    BY <1>1, <1>5, <2>1 DEF RefreshToken
  <2>2. CASE pc[p] = "saving" /\ stored' = held[p]
    <3>1. users = {p}
      BY <1>1, <2>2 DEF Unused
    <3> QED
      BY <1>3, <1>5, <2>2, <3>1 DEF Follows, RefreshToken
  <2>3. stored' # None
    <3>1. ASSUME stored' = None
          PROVE  pc[p] = "discarding"
      BY <1>1, <1>5, <3>1 DEF Settles, RefreshToken
    <3>2. ASSUME pc[p] = "discarding"
          PROVE  FALSE
      <4>1. users = {p}
        BY <1>1, <3>2 DEF Unused
      <4>2. held[p] = stored
        BY <3>2, <4>1 DEF Follows
      <4> QED
        BY <1>5, <3>2, <4>2 DEF Dead, Presented, Works, RefreshToken
    <3> QED
      BY <3>1, <3>2
  <2> QED
    BY <2>1, <2>2, <2>3 DEF Settles
<1> QED
  BY <1>2, <1>4, <1>5

LEMMA Settled ==
  ASSUME IInv, TypeOK', NEW p \in Clients, Settling(p)
  PROVE  Safe'
BY StepsSettle, SettledKeepsControl, SettledKeepsBounded, SettledKeepsFresh, SettledKeepsNewest,
   SettledKeepsDead, SettledKeepsDiscarded, SettledKeepsSpent, SettledKeepsUnused,
   SettledKeepsFollows, SettledKeepsLive
   DEF IInv, Safe

-----------------------------------------------------------------------------
\* A login begins a family of which nobody has seen a token.
LEMMA LoginHolds ==
  ASSUME IInv, TypeOK', NEW p \in Clients, LoginGranted(p)
  PROVE  Safe'
<1> DEFINE f == families + 1
<1> USE Shapes, Storage DEF IInv, Safe
<1>1. PICK g \in {0, 1} :
        /\ held'[p] # None /\ held'[p].family = f /\ held'[p].generation = g /\ live'[f] = g
        /\ \A q \in Clients \ {p} : held'[q] = held[q]
        /\ \A e \in Families \ {f} : live'[e] = live[e]
  <2>1. PICK lifetime \in Lifetimes, generation \in {0, 1} :
          /\ held' = [held EXCEPT ![p] = [family |-> families + 1, generation |-> generation,
                                         expires_at |-> ExpiresAt(lifetime)]]
          /\ live' = [live EXCEPT ![families + 1] = generation]
    BY DEF LoginGranted
  <2>2. f \in Families
    BY DEF LoginGranted, TypeOK, Families
  <2>3. [family |-> families + 1, generation |-> generation,
         expires_at |-> ExpiresAt(lifetime)] \in TokenSets
    BY <2>2, Expiries, ConstantsAssumption DEF TokenSets, Generations
  <2> QED
    BY <2>1, <2>2, <2>3, ConstantsAssumption DEF TypeOK
<1>2. /\ f \in Families /\ f \in Nat /\ families' = f /\ stored' = stored
      /\ pc[p] = "authorizing" /\ pc'[p] = "saving" /\ wire[p] = "idle"
      /\ \A q \in Clients \ {p} : pc'[q] = pc[q]
      /\ wire' = wire /\ result' = result /\ call' = call /\ users' = users
      /\ stray' = stray /\ rejected' = rejected /\ forsaken' = forsaken
  BY DEF LoginGranted, Goto, storage, history, TypeOK, Families, Control, ControlOf
<1>3. \A t : t[1] \in Families /\ Known(t) => t[1] # f /\ Known(t)'
  BY <1>1, <1>2 DEF Known
<1>4. /\ BringsHome(p)' /\ NextGeneration(p)' = held'[p].generation /\ ~BringsHome(p)
      /\ Carried(p)' = <<f, held'[p].generation>>
      /\ \A q \in Clients \ {p} :
           /\ BringsHome(q)' <=> BringsHome(q)
           /\ NextGeneration(q)' = NextGeneration(q) /\ Carried(q)' = Carried(q)
           /\ Carries(q)' <=> Carries(q)
  BY <1>1, <1>2 DEF BringsHome, NextGeneration, Carried, Carries
<1>5. \A q \in Clients : BringsHome(q) => held[q] # None /\ Carried(q)[1] \in Families
  BY DEF Control, ControlOf, BringsHome, Carried, Refreshable
<1>6. Control'
  BY <1>1, <1>2, <1>4, ConstantsAssumption
     DEF Control, ControlOf, Refreshable, RefreshTokens, Generations
<1>7. Bounded'
  <2>1. (\A e \in Families : e > families => live[e] = 0)'
    BY <1>1, <1>2 DEF Bounded
  <2>2. (stored # None => Known(RefreshToken(stored)))'
    BY <1>2, <1>3 DEF Bounded, RefreshToken
  <2>3. (\A t \in stray \cup rejected : t[2] > 0 /\ Known(t))'
    BY <1>2, <1>3 DEF Bounded
  <2>4. (Known(Carried(p)) /\ Known(RefreshToken(held[p])))'
    BY <1>1, <1>2, <1>4 DEF Known, RefreshToken
  <2>5. (\A q \in Clients : held[q] # None => Known(RefreshToken(held[q])))'
    BY <1>1, <1>3, <2>4 DEF Bounded, RefreshToken
  <2>6. (\A q \in Clients : BringsHome(q) => Known(Carried(q)))'
    BY <1>3, <1>4, <1>5, <2>4 DEF Bounded
  <2> QED
    BY <2>1, <2>2, <2>3, <2>5, <2>6 DEF Bounded
<1>8. Fresh'
  <2>1. /\ stored # None => RefreshToken(stored)[1] # f
        /\ \A t \in stray \cup rejected : t[1] # f
        /\ \A q \in Clients : held[q] # None => RefreshToken(held[q])[1] # f
        /\ \A q \in Clients : BringsHome(q) => Carried(q)[1] # f
    BY <1>3, <1>5 DEF Bounded, RefreshToken
  <2> SUFFICES ASSUME NEW q \in Clients, Carries(q)'
               PROVE  /\ (stored # None => RefreshToken(stored) # Carried(q))'
                      /\ (Carried(q) \notin stray \cup rejected)'
                      /\ \A r \in Clients \ {q} :
                           /\ (held[r] # None => RefreshToken(held[r]) # Carried(q))'
                           /\ (Carries(r) => Carried(r) # Carried(q))'
    BY DEF Fresh
  <2>2. CASE q = p
    BY <1>1, <1>2, <1>4, <2>1, <2>2 DEF Carries, RefreshToken
  <2>3. CASE q # p
    BY <1>1, <1>2, <1>4, <2>1, <2>3 DEF Fresh, Carries, RefreshToken
  <2> QED
    BY <2>2, <2>3
<1>9. Newest'
  <2>1. \A q \in Clients : BringsHome(q) => held[q].family \in Families \ {f}
    BY <1>2, <1>5 DEF Bounded, Known, RefreshToken
  <2> QED
    BY <1>1, <1>2, <1>4, <2>1 DEF Newest
<1>10. Dead'
  <2>1. \A t : t[1] \in Families \ {f} /\ ~Works(t) => ~Works(t)'
    BY <1>1 DEF Works
  <2>2. \A q \in Clients \ {p} :
          wire[q] = "invalid_grant" \/ pc[q] = "discarding" =>
            Presented(q)' = Presented(q) /\ Presented(q)[1] \in Families \ {f}
    BY <1>1, <1>3 DEF Control, ControlOf, Refreshable, Presented, RefreshToken, Bounded
  <2>3. \A t \in rejected : t[1] \in Families \ {f}
    BY <1>3 DEF Bounded
  <2> QED
    BY <1>2, <2>1, <2>2, <2>3 DEF Dead
<1>11. Discarded'
  <2>1. \A q \in Clients : pc[q] = "discarding" =>
          q # p /\ pc'[q] = "discarding" /\ Presented(q)' = Presented(q)
    BY <1>1, <1>2 DEF Presented, RefreshToken
  <2> QED
    BY <1>2, <2>1 DEF Discarded, RefreshToken
<1>12. SpentTokenNotKept'
  <2>1. stored # None =>
          stored.family # f /\ live'[stored.family] = live[stored.family]
          /\ (InFlight(stored.family) => InFlight(stored.family)')
    BY <1>1, <1>2, <1>3 DEF Bounded, RefreshToken, InFlight
  <2> QED
    BY <1>2, <2>1 DEF SpentTokenNotKept, InFlight
<1>13. Unused' /\ Follows'
  <2>1. p \in users
    BY <1>2 DEF Unused
  <2>2. Unused'
    BY <1>1, <1>2, <2>1 DEF Unused
  <2>3. Follows'
    BY <1>1, <1>2, <2>1 DEF Follows, Control, ControlOf
  <2> QED
    BY <2>2, <2>3
<1>14. LiveTokenIsKept'
  <2>1. InFlight(families)'
    BY <1>1, <1>2 DEF InFlight
  <2> QED
    BY <2>1 DEF LiveTokenIsKept
<1> QED
  BY <1>6, <1>7, <1>8, <1>9, <1>10, <1>11, <1>12, <1>13, <1>14

\* What refresh() was given it carries on to the store, and an answer without
\* a refresh token gives the family up.
LEMMA RefreshHolds ==
  ASSUME IInv, TypeOK', NEW p \in Clients, RefreshGranted(p)
  PROVE  Safe'
<1> USE Shapes, Storage DEF IInv, Safe
<1>1. /\ held[p] # None /\ held'[p] # None /\ held'[p].family = held[p].family
      /\ held'[p].generation = IF wire[p] = "rotated" THEN held[p].generation + 1 ELSE 0
      /\ \A q \in Clients \ {p} : held'[q] = held[q]
  BY Refreshed, ConstantsAssumption
<1>2. /\ families' = families /\ stored' = stored /\ live' = live
      /\ pc[p] = "refreshing" /\ pc'[p] = "saving"
      /\ wire[p] \in {"rotated", "renewed"} /\ wire'[p] = "idle"
      /\ \A q \in Clients \ {p} : pc'[q] = pc[q] /\ wire'[q] = wire[q]
      /\ result' = result /\ call' = call /\ users' = users
      /\ stray' = stray /\ rejected' = rejected /\ forsaken \subseteq forsaken'
      /\ wire[p] = "renewed" => held[p].family \in forsaken'
  BY DEF RefreshGranted, Goto, storage, server, TypeOK
<1>3. /\ BringsHome(p)' /\ Carried(p)' = <<held[p].family, held'[p].generation>>
      /\ NextGeneration(p)' = held'[p].generation
      /\ Carries(p)' <=> BringsHome(p)
      /\ BringsHome(p) => wire[p] = "rotated" /\ NextGeneration(p)' = NextGeneration(p)
                          /\ Carried(p)' = Carried(p) /\ Carries(p)
      /\ \A q \in Clients \ {p} :
           /\ BringsHome(q)' <=> BringsHome(q)
           /\ NextGeneration(q)' = NextGeneration(q) /\ Carried(q)' = Carried(q)
           /\ Carries(q)' <=> Carries(q)
  BY <1>1, <1>2 DEF BringsHome, NextGeneration, Carried, Carries
<1>4. Control'
  <2>1. (Carried(p) \in RefreshTokens)'
    BY <1>1, <1>2, <1>3, ConstantsAssumption
       DEF Control, ControlOf, BringsHome, Refreshable, RefreshTokens, Generations
  <2>2. ControlOf(p)'
    BY <1>1, <1>2, <2>1 DEF Control, ControlOf, Refreshable
  <2>3. \A q \in Clients \ {p} : ControlOf(q)'
    BY <1>1, <1>2, <1>3 DEF Control, ControlOf, Refreshable
  <2> QED
    BY <2>2, <2>3 DEF Control
<1>5. \A t : Known(t)' <=> Known(t)
  BY <1>2 DEF Known
<1>6. Bounded'
  <2>1. Known(Carried(p)') /\ RefreshToken(held[p])' = Carried(p)'
    BY <1>1, <1>2, <1>3 DEF Bounded, Known, RefreshToken, BringsHome
  <2> QED
    BY <1>1, <1>2, <1>3, <1>5, <2>1 DEF Bounded, RefreshToken
<1>7. Fresh'
  <2>1. RefreshToken(held[p])' = Carried(p)'
    BY <1>1, <1>3 DEF RefreshToken
  <2> SUFFICES ASSUME NEW q \in Clients, Carries(q)'
               PROVE  /\ (stored # None => RefreshToken(stored) # Carried(q))'
                      /\ (Carried(q) \notin stray \cup rejected)'
                      /\ \A r \in Clients \ {q} :
                           /\ (held[r] # None => RefreshToken(held[r]) # Carried(q))'
                           /\ (Carries(r) => Carried(r) # Carried(q))'
    BY DEF Fresh
  <2>2. Carries(q) /\ Carried(q)' = Carried(q)
    BY <1>3
  <2>3. q # p => Carried(p)' # Carried(q)
    <3>1. CASE BringsHome(p)
      BY <1>3, <2>2, <3>1 DEF Fresh
    <3>2. CASE ~BringsHome(p)
      BY <1>1, <1>2, <1>3, <2>2, <3>2 DEF BringsHome, Carries, Carried
    <3> QED
      BY <3>1, <3>2
  <2>4. (stored # None => RefreshToken(stored) # Carried(q))'
    BY <1>2, <2>2 DEF Fresh, RefreshToken
  <2>5. (Carried(q) \notin stray \cup rejected)'
    BY <1>2, <2>2 DEF Fresh
  <2>6. ASSUME NEW r \in Clients \ {q}
        PROVE  /\ (held[r] # None => RefreshToken(held[r]) # Carried(q))'
               /\ (Carries(r) => Carried(r) # Carried(q))'
    <3>1. CASE r = p
      BY <2>1, <2>2, <2>3, <3>1
    <3>2. CASE r # p
      BY <1>1, <1>3, <2>2, <3>2 DEF Fresh, RefreshToken
    <3> QED
      BY <3>1, <3>2
  <2> QED
    BY <2>4, <2>5, <2>6
<1>8. Newest'
  BY <1>1, <1>2, <1>3 DEF Newest, BringsHome
<1>9. Dead'
  BY <1>1, <1>2 DEF Dead, Works, Presented, RefreshToken
<1>10. Discarded'
  <2>1. \A q \in Clients : pc[q] = "discarding" =>
          q # p /\ pc'[q] = "discarding" /\ Presented(q)' = Presented(q)
    BY <1>1, <1>2 DEF Presented, RefreshToken
  <2> QED
    BY <1>2, <2>1 DEF Discarded, RefreshToken
<1>11. \A e \in Families : InFlight(e) => InFlight(e)' \/ e \in forsaken'
  <2> SUFFICES ASSUME NEW e \in Families, NEW q \in Clients,
                      held[q] # None, held[q].family = e, e \notin forsaken',
                      wire[q] = "rotated" \/ (pc[q] = "saving" /\ held[q].generation = live[e])
               PROVE  /\ held'[q] # None /\ held'[q].family = e
                      /\ wire'[q] = "rotated" \/ (pc'[q] = "saving" /\ held'[q].generation = live'[e])
    BY DEF InFlight
  <2> QED
    BY <1>1, <1>2, <1>3 DEF Newest, BringsHome
<1>12. SpentTokenNotKept'
  BY <1>2, <1>11 DEF SpentTokenNotKept
<1>13. Unused' /\ Follows'
  <2>1. p \in users
    BY <1>2 DEF Unused
  <2>2. Unused'
    BY <1>1, <1>2, <2>1 DEF Unused
  <2>3. Follows'
    BY <1>1, <1>2, <2>1 DEF Follows, Control, ControlOf
  <2> QED
    BY <2>2, <2>3
<1>14. LiveTokenIsKept'
  BY <1>2, <1>11, ConstantsAssumption DEF LiveTokenIsKept, TypeOK, Families, RefreshToken
<1> QED
  BY <1>4, <1>6, <1>7, <1>8, <1>9, <1>10, <1>12, <1>13, <1>14

LEMMA StepHolds ==
  ASSUME IInv, TypeOK', NEW p \in Clients, Step(p)
  PROVE  Safe'
BY Settled, LoginHolds, RefreshHolds DEF Step, Settling

-----------------------------------------------------------------------------
\* The server's next refresh token is newer than all that have been seen.
LEMMA RotationHolds ==
  ASSUME IInv, TypeOK', NEW p \in Clients, ServerRotates(p)
  PROVE  Safe'
<1> DEFINE f == held[p].family
<1> USE Shapes, Storage DEF IInv, Safe
<1>1. /\ f \in Families /\ held[p] # None
      /\ live[f] = held[p].generation /\ live[f] > 0 /\ live[f] < MaxGeneration
      /\ live'[f] = live[f] + 1
      /\ \A e \in Families \ {f} : live'[e] = live[e]
      /\ pc[p] = "refreshing" /\ wire[p] = "sent" /\ wire'[p] = "rotated"
      /\ \A q \in Clients \ {p} : wire'[q] = wire[q]
  BY ConstantsAssumption
     DEF ServerRotates, Works, Presented, RefreshToken, Control, ControlOf, Refreshable, TypeOK, Generations
<1>2. /\ stored' = stored /\ pc' = pc /\ call' = call /\ held' = held /\ result' = result
      /\ users' = users /\ families' = families /\ stray' = stray
      /\ forsaken' = forsaken /\ rejected' = rejected
  BY DEF ServerRotates, storage, history
<1>3. \A t : Known(t) /\ t[1] \in Families /\ t[2] \in Nat =>
        Known(t)' /\ t # <<f, live[f] + 1>> /\ (t[2] > 0 /\ ~Works(t) => ~Works(t)')
  BY <1>1, <1>2 DEF Known, Works
<1>4. /\ BringsHome(p)' /\ ~BringsHome(p) /\ Carried(p)' = <<f, live[f] + 1>>
      /\ NextGeneration(p)' = live'[f]
      /\ \A q \in Clients \ {p} :
           /\ BringsHome(q)' <=> BringsHome(q)
           /\ NextGeneration(q)' = NextGeneration(q) /\ Carried(q)' = Carried(q)
           /\ Carries(q)' <=> Carries(q)
  BY <1>1, <1>2 DEF BringsHome, NextGeneration, Carried, Carries
<1>5. Control'
  BY <1>1, <1>2, <1>4, ConstantsAssumption
     DEF Control, ControlOf, Refreshable, RefreshTokens, Generations, TypeOK
<1>6. \A q \in Clients : BringsHome(q) =>
        Carried(q)[1] \in Families /\ Carried(q)[2] \in Nat
  BY ConstantsAssumption DEF Control, ControlOf, RefreshTokens, Generations
<1>7. \A q \in Clients : held[q] # None =>
        RefreshToken(held[q])[1] \in Families /\ RefreshToken(held[q])[2] \in Nat
  BY DEF RefreshToken
<1>8. stored # None =>
        RefreshToken(stored)[1] \in Families /\ RefreshToken(stored)[2] \in Nat
  BY DEF RefreshToken
<1>9. Bounded'
  <2>1. (\A e \in Families : e > families => live[e] = 0)'
    BY <1>1, <1>2 DEF Bounded
  <2>2. (stored # None => Known(RefreshToken(stored)))'
    BY <1>2, <1>3, <1>8 DEF Bounded, RefreshToken
  <2>3. (\A t \in stray \cup rejected : t[2] > 0 /\ Known(t))'
    BY <1>2, <1>3 DEF Bounded
  <2>4. (\A q \in Clients : held[q] # None => Known(RefreshToken(held[q])))'
    BY <1>2, <1>3, <1>7 DEF Bounded, RefreshToken
  <2>5. Known(Carried(p))'
    BY <1>1, <1>2, <1>4 DEF Known, Bounded
  <2>6. (\A q \in Clients : BringsHome(q) => Known(Carried(q)))'
    BY <1>3, <1>4, <1>6, <2>5 DEF Bounded
  <2> QED
    BY <2>1, <2>2, <2>3, <2>4, <2>6 DEF Bounded
<1>10. Fresh'
  <2>1. /\ stored # None => RefreshToken(stored) # Carried(p)'
        /\ Carried(p)' \notin stray \cup rejected
        /\ \A q \in Clients : held[q] # None => RefreshToken(held[q]) # Carried(p)'
        /\ \A q \in Clients : BringsHome(q) => Carried(q) # Carried(p)'
    BY <1>3, <1>4, <1>6, <1>7, <1>8 DEF Bounded
  <2> SUFFICES ASSUME NEW q \in Clients, Carries(q)'
               PROVE  /\ (stored # None => RefreshToken(stored) # Carried(q))'
                      /\ (Carried(q) \notin stray \cup rejected)'
                      /\ \A r \in Clients \ {q} :
                           /\ (held[r] # None => RefreshToken(held[r]) # Carried(q))'
                           /\ (Carries(r) => Carried(r) # Carried(q))'
    BY DEF Fresh
  <2>2. CASE q = p
    BY <1>2, <1>4, <2>1, <2>2 DEF Carries, RefreshToken
  <2>3. CASE q # p
    BY <1>2, <1>4, <2>1, <2>3 DEF Fresh, Carries, RefreshToken
  <2> QED
    BY <2>2, <2>3
<1>11. Newest'
  <2> SUFFICES ASSUME NEW q \in Clients \ {p}, BringsHome(q), held[q].family \notin forsaken
               PROVE  held[q].family # f
    BY <1>1, <1>2, <1>4, <1>6 DEF Newest, Carried
  <2>1. held[q].family = f => Carries(q) /\ Carried(q) = RefreshToken(held[p])
    BY <1>1 DEF Newest, Carries, Carried, RefreshToken
  <2> QED
    BY <1>1, <2>1 DEF Fresh
<1>12. Dead'
  <2>1. \A q \in Clients : pc[q] \in {"refreshing", "discarding"} =>
          /\ Presented(q)' = Presented(q) /\ Known(Presented(q))
          /\ Presented(q)[1] \in Families /\ Presented(q)[2] \in Nat /\ Presented(q)[2] > 0
    BY <1>2 DEF Presented, RefreshToken, Bounded, Control, ControlOf, Refreshable
  <2>2. ASSUME NEW q \in Clients, wire'[q] = "invalid_grant" \/ pc'[q] = "discarding"
        PROVE  ~Works(Presented(q))'
    BY <1>1, <1>2, <1>3, <2>1, <2>2 DEF Dead, Control, ControlOf
  <2>3. ASSUME NEW t \in rejected
        PROVE  ~Works(t)'
    BY <1>3 DEF Dead, Bounded
  <2> QED
    BY <1>2, <2>2, <2>3 DEF Dead
<1>13. Discarded'
  BY <1>2 DEF Discarded, Presented, RefreshToken
<1>14. \A e \in Families \ {f} : InFlight(e) => InFlight(e)'
  BY <1>1, <1>2 DEF InFlight
<1>15. InFlight(f)'
  BY <1>1, <1>2 DEF InFlight
<1>16. SpentTokenNotKept'
  BY <1>1, <1>2, <1>14, <1>15 DEF SpentTokenNotKept
<1>17. Unused' /\ Follows'
  BY <1>1, <1>2 DEF Unused, Follows
<1>18. LiveTokenIsKept'
  <2>1. CASE families = f
    BY <1>2, <1>15, <2>1 DEF LiveTokenIsKept
  <2>2. CASE families # f
    <3>1. families > 0 => families \in Families \ {f}
      BY <2>2, ConstantsAssumption DEF TypeOK, Families
    <3> QED
      BY <1>1, <1>2, <1>14, <3>1 DEF LiveTokenIsKept, RefreshToken
  <2> QED
    BY <2>1, <2>2
<1> QED
  BY <1>5, <1>9, <1>10, <1>11, <1>12, <1>13, <1>16, <1>17, <1>18

\* An answer that yields no new refresh token changes only what its client is
\* told.
LEMMA AnswerHolds ==
  ASSUME IInv, TypeOK', NEW p \in Clients, ServerAnswers(p)
  PROVE  Safe'
<1> USE Shapes, Storage DEF IInv, Safe
<1>1. /\ wire[p] = "sent" /\ wire'[p] \in {"renewed", "invalid_grant", "error"}
      /\ wire'[p] = "invalid_grant" => ~Works(Presented(p))
      /\ \A q \in Clients \ {p} : wire'[q] = wire[q]
  BY DEF ServerAnswers, TypeOK
<1>2. /\ stored' = stored /\ pc' = pc /\ call' = call /\ held' = held /\ result' = result
      /\ users' = users /\ live' = live /\ families' = families /\ stray' = stray
      /\ forsaken' = forsaken /\ rejected' = rejected
  BY DEF ServerAnswers, storage, server, history
<1>3. \A q \in Clients :
        /\ BringsHome(q)' <=> BringsHome(q)
        /\ Carries(q)' <=> Carries(q)
        /\ NextGeneration(q)' = NextGeneration(q) /\ Carried(q)' = Carried(q)
  BY <1>1, <1>2 DEF BringsHome, NextGeneration, Carried, Carries
<1>4. Control'
  BY <1>1, <1>2, <1>3 DEF Control, ControlOf, Refreshable
<1>5. Bounded'
  BY <1>2, <1>3 DEF Bounded, Known, RefreshToken
<1>6. Fresh'
  BY <1>2, <1>3 DEF Fresh, RefreshToken
<1>7. Newest'
  BY <1>2, <1>3 DEF Newest
<1>8. Dead' /\ Discarded'
  BY <1>1, <1>2 DEF Dead, Discarded, Works, Presented, RefreshToken
<1>9. \A e \in Families : InFlight(e)' <=> InFlight(e)
  BY <1>1, <1>2 DEF InFlight
<1>10. SpentTokenNotKept'
  BY <1>2, <1>9 DEF SpentTokenNotKept
<1>11. Unused' /\ Follows'
  BY <1>1, <1>2 DEF Unused, Follows
<1>12. LiveTokenIsKept'
  BY <1>2, <1>9, ConstantsAssumption DEF LiveTokenIsKept, TypeOK, Families, RefreshToken
<1> QED
  BY <1>4, <1>5, <1>6, <1>7, <1>8, <1>10, <1>11, <1>12

\* A stray request can spend a token, and gives its family up.
LEMMA StrayHolds ==
  ASSUME IInv, TypeOK', NEW token \in stray, StrayArrives(token)
  PROVE  Safe'
<1> USE Shapes, Storage DEF IInv, Safe
<1>1. /\ stored' = stored /\ pc' = pc /\ call' = call /\ held' = held /\ result' = result
      /\ wire' = wire /\ users' = users /\ families' = families /\ stray' \subseteq stray
      /\ forsaken \subseteq forsaken' /\ rejected' = rejected
      /\ \A e \in Families : live'[e] = live[e] \/ (live'[e] = 0 /\ e \in forsaken')
  BY DEF StrayArrives, storage, control, TypeOK
<1>2. \A q \in Clients :
        /\ BringsHome(q)' <=> BringsHome(q)
        /\ Carries(q)' <=> Carries(q)
        /\ NextGeneration(q)' = NextGeneration(q) /\ Carried(q)' = Carried(q)
  BY <1>1 DEF BringsHome, NextGeneration, Carried, Carries
<1>3. Control'
  BY <1>1, <1>2 DEF Control, ControlOf, Refreshable
<1>4. Bounded'
  <2>1. \A t : t[1] \in Families /\ Known(t) => Known(t)'
    BY <1>1 DEF Known
  <2>2. \A q \in Clients : BringsHome(q) => held[q] # None
    BY DEF Control, ControlOf, BringsHome, Refreshable
  <2> QED
    BY <1>1, <1>2, <2>1, <2>2 DEF Bounded, RefreshToken, Carried
<1>5. Fresh'
  BY <1>1, <1>2 DEF Fresh, RefreshToken
<1>6. Newest'
  BY <1>1, <1>2 DEF Newest, Control, ControlOf, BringsHome, Refreshable
<1>7. Dead'
  <2>1. \A t : t[1] \in Families /\ t[2] > 0 /\ ~Works(t) => ~Works(t)'
    BY <1>1 DEF Works
  <2>2. \A q \in Clients : pc[q] \in {"refreshing", "discarding"} =>
          Presented(q)' = Presented(q) /\ Presented(q)[1] \in Families /\ Presented(q)[2] > 0
    BY <1>1 DEF Presented, RefreshToken, Control, ControlOf, Refreshable
  <2> QED
    BY <1>1, <2>1, <2>2 DEF Dead, Bounded, Control, ControlOf
<1>8. Discarded'
  BY <1>1 DEF Discarded, Presented, RefreshToken
<1>9. \A e \in Families \ forsaken' : live'[e] = live[e] /\ (InFlight(e)' <=> InFlight(e))
  BY <1>1 DEF InFlight
<1>10. SpentTokenNotKept'
  BY <1>1, <1>9 DEF SpentTokenNotKept
<1>11. Unused' /\ Follows'
  BY <1>1 DEF Unused, Follows
<1>12. LiveTokenIsKept'
  BY <1>1, <1>9, ConstantsAssumption DEF LiveTokenIsKept, TypeOK, Families, RefreshToken
<1> QED
  BY <1>3, <1>4, <1>5, <1>6, <1>7, <1>8, <1>10, <1>11, <1>12

LEMMA EnvironmentHolds ==
  ASSUME IInv, TypeOK', Environment
  PROVE  Safe'
<1>1. CASE Tick
  BY <1>1, Storage
     DEF Tick, IInv, Safe, storage, control, server, history, Control, ControlOf, Bounded, Known, Fresh,
         Newest, Dead, Works, Presented, RefreshToken, Discarded, SpentTokenNotKept, InFlight, Unused,
         Follows, LiveTokenIsKept, BringsHome, Carries, Carried, NextGeneration, Refreshable
<1> QED
  BY <1>1, RotationHolds, AnswerHolds, StrayHolds DEF Environment

-----------------------------------------------------------------------------
LEMMA SafeInit == Init => Safe
<1> SUFFICES ASSUME Init
             PROVE  Safe
  OBVIOUS
<1> stored = None
  BY DEF Init, Store!Init, Store!Empty, stored
<1> QED
  BY DEF Init, Safe, Control, ControlOf, Bounded, Fresh, Newest, Dead, Discarded, SpentTokenNotKept,
         Unused, Follows, LiveTokenIsKept, BringsHome, Carries

LEMMA SafeIdle == IInv /\ UNCHANGED vars => IInv'
BY Storage
   DEF IInv, vars, Safe, storage, control, server, history, TypeOK, Control, ControlOf, Bounded, Known,
       Fresh, Newest, Dead, Works, Presented, RefreshToken, Discarded, SpentTokenNotKept, InFlight,
       Unused, Follows, LiveTokenIsKept, BringsHome, Carries, Carried, NextGeneration, Refreshable

\* Every reachable state satisfies the inductive invariant.
THEOREM Inductive == Spec => []IInv
<1>1. Init => IInv
  BY TypesInit, SafeInit DEF IInv
<1>2. IInv /\ [Next]_vars => IInv'
  <2> SUFFICES ASSUME IInv, [Next]_vars
               PROVE  IInv'
    OBVIOUS
  <2>1. ASSUME NEW p \in Clients, Step(p)
        PROVE  IInv'
    BY <2>1, TypesOfClients, StepHolds DEF IInv, Safe
  <2>2. CASE Environment
    BY <2>2, TypesOfEnvironment, EnvironmentHolds DEF IInv, Safe
  <2> QED
    BY <2>1, <2>2, SafeIdle DEF Next
<1> QED
  BY <1>1, <1>2, PTL DEF Spec

\* The calls of the clients, the server and the store keep every variable to
\* its values.
THEOREM TypesHold == Spec => []TypeOK
BY Inductive, PTL DEF IInv

\* No spent refresh token stays in the store, however refreshes, logins,
\* logouts, lost answers and stray requests interleave.
THEOREM SpentTokensGo == Spec => []SpentTokenNotKept
<1>1. IInv => SpentTokenNotKept
  BY DEF IInv, Safe
<1> QED
  BY <1>1, Inductive, PTL

\* A refresh token the server has refused is cleared: the client that was told
\* is about to, or its store failed.
THEOREM RefusedTokensGo == Spec => []RefusedIsDiscarded
<1>1. IInv => RefusedIsDiscarded
  BY DEF IInv, Safe, Discarded, RefusedIsDiscarded
<1> QED
  BY <1>1, Inductive, PTL

\* A client that is alone keeps its newest login while that works.
THEOREM LiveTokensStay == Spec => []LiveTokenIsKept
<1>1. IInv => LiveTokenIsKept
  BY DEF IInv, Safe
<1> QED
  BY <1>1, Inductive, PTL
=============================================================================
