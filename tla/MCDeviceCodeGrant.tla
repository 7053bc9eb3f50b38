------------------------- MODULE MCDeviceCodeGrant -------------------------
(***************************************************************************)
(* A provider whose vocabulary needs every stage of classify(): standard   *)
(* spellings, an alias, the hook, and one spelling nothing resolves.  The  *)
(* hook would misread slow_down if it were ever asked about it.            *)
(***************************************************************************)
EXTENDS DeviceCodeGrant, TLC

MCRawErrors == {"authorization_pending", "slow_down", "consent_refused",
                "code_stale", "invalid_grant", "quota"}

MCVocabulary ==
  "authorization_pending" :> "pending" @@ "slow_down" :> "slow_down" @@
  "consent_refused" :> "denied" @@ "code_stale" :> "expired" @@
  "invalid_grant" :> "spent" @@ "quota" :> "noise"

MCErrorAliases ==
  [raw \in MCRawErrors |-> IF raw = "consent_refused" THEN "access_denied" ELSE raw]

MCClassifyHook ==
  "authorization_pending" :> "no_opinion" @@ "slow_down" :> "access_denied" @@
  "consent_refused" :> "expired_token" @@ "code_stale" :> "expired_token" @@
  "invalid_grant" :> "no_opinion" @@ "quota" :> "too_many_requests"

MCTimeouts == {Missing, 2}
MCIntervals == {-1, 0, 2}
=============================================================================
