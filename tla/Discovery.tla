----------------------------- MODULE Discovery -----------------------------
(***************************************************************************)
(* DeviceAuthConfig: what its constructor refuses, and discover(), which   *)
(* takes the endpoints from the issuer's metadata document.                *)
(*                                                                         *)
(* An endpoint is none, <<>>, or <<[from, scheme]>>; an answer of a        *)
(* candidate is none (a TransportError), or a record [ok, object, issuer,  *)
(* endpoints] of a 2xx status, a body that is a JSON object, the issuer it *)
(* names and the endpoints.                                                *)
(***************************************************************************)
EXTENDS Naturals, FiniteSetsExt, Sequences

CONSTANTS
  ClientAuthMethods,   \* CLIENT_AUTH_METHODS, "none" among them
  StandardErrors,      \* STANDARD_ERROR_IDENTIFIERS
  RequestKinds,        \* REQUEST_KINDS
  Encodings            \* ENCODINGS

Endpoints == {"device", "token", "revocation"}
Candidates == 1..3   \* discovery_candidates()

\* https, or http on the local host
Secure(endpoint) == endpoint[1].scheme \in {"https", "local"}

\* __post_init__()
Valid(config) ==
  /\ config.clientId # <<>>
  /\ config.authMethod \in ClientAuthMethods
  /\ config.authMethod # "none" => config.secret # <<>>
  /\ \A name \in DOMAIN config.errorAliases : config.errorAliases[name] \in StandardErrors
  /\ \A kind \in DOMAIN config.encoding : kind \in RequestKinds /\ config.encoding[kind] \in Encodings
  /\ config.interval > 0
  /\ \A e \in Endpoints : config.endpoints[e] # <<>> => Secure(config.endpoints[e])
  /\ config.issuer # <<>> \/ config.endpoints["token"] # <<>>

\* _metadata_document()
IsMetadata(answer) ==
  answer # <<>> /\ answer[1].ok /\ answer[1].object /\ answer[1].issuer # <<>>

Refused(reason) == [config |-> <<>>, reason |-> reason]

\* _with_metadata()
WithMetadata(config, document) ==
  LET merged == [e \in Endpoints |->
                   IF config.endpoints[e] # <<>> THEN config.endpoints[e] ELSE document.endpoints[e]]
  IN CASE merged["device"] = <<>> \/ merged["token"] = <<>> -> Refused("configuration")
       [] \E e \in Endpoints : merged[e] # <<>> /\ ~Secure(merged[e]) -> Refused("insecure_endpoint")
       [] OTHER -> [config |-> <<[config EXCEPT !.endpoints = merged]>>, reason |-> "none"]

\* Slip: a document of another issuer is passed over.
DiscoverLeniently(config, answers) ==
  LET ours == {i \in Candidates : IsMetadata(answers[i]) /\ answers[i][1].issuer = config.issuer} IN
  CASE config.issuer = <<>> -> Refused("configuration")
    [] config.issuer # <<>> /\ ours = {} -> Refused("no_metadata")
    [] OTHER -> WithMetadata(config, answers[Min(ours)][1])

\* discover(): the first candidate that yields metadata decides.
Discover(config, answers) ==
  LET found == {i \in Candidates : IsMetadata(answers[i])}
      first == answers[Min(found)][1]
  IN CASE config.issuer = <<>> -> Refused("configuration")
       [] config.issuer # <<>> /\ found = {} -> Refused("no_metadata")
       [] config.issuer # <<>> /\ found # {} /\ first.issuer # config.issuer ->
            Refused("issuer_mismatch")
       [] OTHER -> WithMetadata(config, first)
=============================================================================
