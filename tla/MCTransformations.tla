------------------------- MODULE MCTransformations -------------------------
(* The questions TLC asks.                                                 *)
EXTENDS Transformations

(* Display overlays.                                                       *)

Aliases == {<<>>, <<"a", ".">>, <<"1", "1">>, <<"A">>, <<"-">>, <<"a", "newline">>}
Overlay(alias, cli, mcp) ==
  [NoEntry EXCEPT !.display.alias = alias, !.display.cli.alias = cli, !.display.mcp.alias = mcp,
                  !.display.guidance = <<"entry">>, !.tags = <<"entry">>]
Scanned(id, suggested, legacy) ==
  [id |-> id, suggested |-> suggested, legacy |-> legacy,
   description |-> <<"scanned">>, documentation |-> <<>>, tags |-> <<>>]

MCDisplayQuestions ==
  {[of |-> "display",
    modules |-> <<Scanned(id, suggested, legacy), Scanned(<<"a">>, <<>>, legacy)>>,
    files |-> <<[loads |-> TRUE, entries |-> id :> Overlay(alias, cli, mcp)],
                [loads |-> loads, entries |-> id :> Overlay(mcp, alias, cli)]>>] :
     id \in {<<"a", "a">>, <<"a", ".">>}, suggested \in {<<>>, <<"1">>}, legacy \in {<<>>, <<"A">>},
     alias \in Aliases, cli \in Aliases, mcp \in Aliases, loads \in BOOLEAN}

-----------------------------------------------------------------------------
(* Enhancement.                                                            *)

Description == <<"description">>
Schema == <<"input_schema">>
ReadOnly == <<"annotations", "readonly">>
Cacheable == <<"annotations", "cacheable">>
Described(missing) ==
  [value |-> [f \in {Description, Schema, ReadOnly, Cacheable} |->
                IF f \in missing THEN "missing" ELSE "given"],
   warnings |-> {}, confidence |-> <<>>]
Confidences ==
  UNION {[names -> {<<>>, <<1>>, <<2>>}] :
           names \in {{Description, Schema, <<"readonly">>}, {Description, ReadOnly, <<"readonly">>}}}

MCEnhancementQuestions ==
  {LET said == <<[fields |-> fields, malformed |-> malformed, confidence |-> confidence]>> IN
   [of |-> "enhancement", threshold |-> threshold,
    modules |-> <<Described({Description}), Described(missing)>>,
    answers |-> <<IF reached THEN said ELSE <<>>, said>>] :
     missing \in {{}, {Description, Schema}, {Schema, Cacheable}, {Description, Schema, ReadOnly, Cacheable}},
     fields \in SUBSET {Description, Schema, ReadOnly, Cacheable}, malformed \in {{}, {Schema}},
     confidence \in Confidences, reached \in BOOLEAN, threshold \in {0, 2}}

-----------------------------------------------------------------------------
(* Discovery.                                                              *)

Url(from, scheme) == <<[from |-> from, scheme |-> scheme]>>
Published(i) ==
  {e \in [Endpoints -> {<<>>, Url(i, "https"), Url(i, "http")}] : e["revocation"] # Url(i, "https")}
Metadata(issuer, endpoints) == [ok |-> TRUE, object |-> TRUE, issuer |-> issuer, endpoints |-> endpoints]
Complete(i) == [e \in Endpoints |-> Url(i, "https")]
UsualAnswers(i) ==
  {<<>>, <<Metadata(<<"other">>, Complete(i))>>, <<Metadata(<<"us">>, Complete(i))>>,
   <<Metadata(<<>>, Complete(i))>>, <<[Metadata(<<"us">>, Complete(i)) EXCEPT !.ok = FALSE]>>,
   <<[Metadata(<<"us">>, Complete(i)) EXCEPT !.object = FALSE]>>}
Configs ==
  {c \in [clientId : {<<"id">>}, authMethod : {"none", "client_secret_post"}, secret : {<<>>, <<"s">>},
          errorAliases : {<<>>, "wait" :> "slow_down"}, encoding : {"token" :> "json"}, interval : {5},
          issuer : {<<>>, <<"us">>},
          endpoints : [Endpoints -> {<<>>, Url(0, "https"), Url(0, "http")}]] : Valid(c)}

MCDiscoveryQuestions ==
  {[of |-> "discovery", config |-> config, answers |-> <<first, second, third>>] :
     config \in Configs, second \in UsualAnswers(2), third \in UsualAnswers(3),
     first \in UsualAnswers(1) \cup {<<Metadata(<<"us">>, e)>> : e \in Published(1)}}

-----------------------------------------------------------------------------
(* Binding entries.                                                        *)

Plain == [f \in Fields |-> IF f \in RequiredNames \cup {"documentation"} THEN <<f>> ELSE <<>>]
Various == {"input_schema", "output_schema", "tags", "version", "display", "warnings"}
Holding(given, metadata) ==
  ("metadata" :> metadata) @@ [f \in given |-> <<f>>] @@ Plain
Found(f, types) == {<<>>} \cup {f :> [type |-> t, value |-> v] : t \in types, v \in {<<>>, <<f>>}}

MCModuleQuestions ==
  {[of |-> "module", strict |-> strict, module |-> Holding(given, metadata)] :
     given \in SUBSET Various, strict \in BOOLEAN,
     metadata \in {<<>>, <<{"owner"}>>, <<{"owner", "__proto__"}>>}}

MCEntryQuestions ==
  {[of |-> "entry", entry |-> id @@ target @@ input @@ output @@ tags @@ other] :
     id \in Found("module_id", {"string", "list", "null"}), target \in Found("target", {"string"}),
     input \in Found("input_schema", {"mapping", "string", "null"}),
     output \in Found("output_schema", {"mapping", "list"}), tags \in Found("tags", {"list", "string"}),
     other \in {<<>>, "schema_ref" :> [type |-> "string", value |-> <<"x">>]}
               \cup {"warnings" :> [type |-> t, value |-> <<"x">>] : t \in {"list", "string", "number"}}}

-----------------------------------------------------------------------------
MCAuthMethods == {"none", "client_secret_post"}
MCStandardErrors == {"slow_down", "access_denied"}
MCRequestKinds == {"device", "token"}
MCEncodings == {"form", "json"}
=============================================================================
