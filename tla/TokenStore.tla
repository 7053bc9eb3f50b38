---------------------------- MODULE TokenStore -----------------------------
(***************************************************************************)
(* What the TokenStore protocol of auth/store.py promises: a map from      *)
(* store keys to credentials whose operations are atomic.  MemoryTokenStore*)
(* is this map; FileTokenStore implements it for one writer at a time.     *)
(***************************************************************************)
EXTENDS Naturals

CONSTANTS
  Keys,    \* "<issuer>|<client_id>" strings
  Tokens,  \* credentials
  None     \* no credential

VARIABLES
  records,       \* the credential under each key
  interventions  \* how often the operator has touched what holds them

vars == <<records, interventions>>

Empty == [k \in Keys |-> None]

Init == records = Empty /\ interventions = 0

Save(key, token) ==
  /\ records' = [records EXCEPT ![key] = token]
  /\ UNCHANGED interventions

Clear(key) ==
  /\ records' = [records EXCEPT ![key] = None]
  /\ UNCHANGED interventions

\* Only the operator can make the store forget everything.
Intervene ==
  /\ interventions' = interventions + 1
  /\ records' \in {records, Empty}

Next ==
  \/ \E key \in Keys : Clear(key) \/ \E token \in Tokens : Save(key, token)
  \/ Intervene

Spec == Init /\ [][Next]_vars
=============================================================================
