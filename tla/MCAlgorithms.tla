---------------------------- MODULE MCAlgorithms ----------------------------
(***************************************************************************)
(* The sequential algorithms, each asked every question of a bounded set   *)
(* and its answer compared with what it is meant to give.  One of them is  *)
(* at work, and the others rest meanwhile.                                 *)
(***************************************************************************)
EXTENDS MCNameMatcher, MCTransformations, ModuleIds, OpenApiSchemas, ViewModel

all == <<asking, matching, viewing, identifying, extractions>>

Ask(q) == question = q

-----------------------------------------------------------------------------
(* Identifiers: any name from transform_module, and what is derived.       *)

BareOperation ==
  [path |-> <<>>, method |-> <<"a", "a">>, operationId |-> <<>>, prefix |-> <<>>,
   hook |-> <<>>, transformed |-> <<>>]
PathSegments ==
  {<<>>, <<"a">>, <<"1">>, <<"under">>, <<"-", "A", "A", "a">>, <<"open", "a", "A", "close">>,
   <<"open", "close">>}

MCOperations ==
  {[BareOperation EXCEPT !.hook = <<(<<>>)>>, !.transformed = <<text>>] :
     text \in BoundedSeq({"a", "A", "1", "under", ".", "-"}, 5)}
  \cup {[BareOperation EXCEPT !.path = path, !.operationId = operationId, !.prefix = prefix, !.hook = hook] :
          path \in BoundedSeq(PathSegments, 2), prefix \in {<<>>, <<"A">>, <<"1", "under">>},
          operationId \in {<<>>, <<"A", "-">>, <<"under", "-">>, <<"-", "1", ".", "a">>},
          hook \in {<<>>, <<(<<>>)>>, <<(<<"1", ".", "a">>)>>}}

-----------------------------------------------------------------------------
(* Schemas.                                                                *)

Texts == {<<>>, "type" :> <<"string">>}
Secret == "x-sensitive" :> <<TRUE>>
Reference(component, beside) == [EmptySchema EXCEPT !.ref = <<component>>, !.plain = beside]
Under(k, n, schema) == [EmptySchema EXCEPT !.subs = k :> (n :> schema)]
Flat == {[EmptySchema EXCEPT !.plain = text] : text \in Texts}
        \cup {Reference(component, beside) : component \in {"A", "B"}, beside \in {<<>>, Secret}}
        \cup {Reference("missing", <<>>)}
Nested == Flat \cup {Under("properties", "x", schema) : schema \in Flat}
               \cup {Under("allOf", 1, schema) : schema \in Flat}
               \cup {Under("contains", 1, Reference("A", <<>>))}
Body(schema) == [Under("properties", "x", schema) EXCEPT !.plain = "required" :> <<"x">>]

MCOutputs ==
  {[of |-> "output", document |-> [A |-> a, B |-> b],
    responses |-> (404 :> <<Reference("A", <<>>)>> @@ 204 :> <<>> @@ 201 :> <<schema>>)] :
     a \in Nested, b \in Nested, schema \in Nested}

MCParameters ==
  {[name |-> n, in |-> "query", required |-> n = "y", schema |-> schema] :
     n \in {"x", "y"}, schema \in {Reference("B", Secret), Reference("A", <<>>)}}
  \cup {[name |-> "z", in |-> in, required |-> TRUE, schema |-> EmptySchema] : in \in {"header", ""}}
MCInputs ==
  {[of |-> "input", document |-> [A |-> a, B |-> b], parameters |-> parameters, body |-> body] :
     a \in Flat \cup {Body(Reference("B", Secret))}, b \in Flat \cup {Body(Reference("A", <<>>))},
     parameters \in BoundedSeq(MCParameters, 2),
     body \in {<<>>, <<Reference("A", <<>>)>>, <<Under("allOf", 1, Reference("B", <<>>))>>}
              \cup {<<Body(schema)>> : schema \in Flat}}

MCExtractions == MCOutputs \cup MCInputs
MCFieldNames == {"x", "y", "z"}
MCSchemas == Nested \cup {Body(schema) : schema \in Flat}

\* "Discarding them silently drops x-sensitive" (openapi.py:74): what marks a
\* schema as sensitive survives the resolution of its reference, at the root
\* as well.
SensitivityKept ==
  extracting = "done" /\ extraction.of = "output" =>
    (Keyword(extraction.responses[201][1], "x-sensitive") # <<>>
       => Keyword(output, "x-sensitive") # <<>>)

-----------------------------------------------------------------------------
(* The view model.                                                         *)

Listed(id, prefix, description, alias, tags, flags, hidden) ==
  [id |-> id, prefix |-> prefix, description |-> description,
   overlay |-> [alias |-> alias, description |-> 0], tags |-> tags, flags |-> flags,
   hidden |-> hidden, deprecated |-> hidden]
Listable ==
  {Listed(1, "p", 7, 6, <<>>, {"readonly"}, FALSE), Listed(2, "q", 0, 5, <<"t">>, {"readonly"}, FALSE),
   Listed(3, "p", 7, 6, <<"u", "t", "u">>, {"custom"}, FALSE), Listed(4, "q", 8, 0, <<"u">>, {}, TRUE)}
ListedModules == BoundedSeq(Listable, 3) \cup {s \in [1..4 -> Listable] : IsInjective(s)}

Everything == [tags |-> {}, search |-> <<>>, annotations |-> {}, exposure |-> "all", deprecated |-> TRUE]
ViewFilters ==
  {<<f>> : f \in {[Everything EXCEPT !.tags = {"t"}], [Everything EXCEPT !.search = <<{2, 4} \X (0..8)>>],
                  [Everything EXCEPT !.annotations = {"readonly"}],
                  [Everything EXCEPT !.annotations = {"custom"}],
                  [Everything EXCEPT !.exposure = "hidden"],
                  [Everything EXCEPT !.exposure = "exposed", !.deprecated = FALSE]}}
Sorting == {<<s>> : s \in [key : {"alias", "calls"}, direction : {"asc", "desc"}]}
ViewRequest(modules, display, filter, sort, view, groupBy) ==
  [modules |-> modules, display |-> display, filter |-> filter, sort |-> sort,
   columns |-> <<"tags", "alias", "calls">>, view |-> view, groupBy |-> groupBy]

MCTags == {"p", "q", "t", "u"}
MCColumns == {"tags", "alias", "calls"}
MCViewRequests ==
  {ViewRequest(modules, display, <<>>, sort, "grouped", groupBy) :
     modules \in ListedModules, display \in BOOLEAN, sort \in {<<>>} \cup Sorting,
     groupBy \in {"tag", "prefix", "none"}}
  \cup {ViewRequest(modules, FALSE, <<>>, sort, "list", "tag") :
          modules \in ListedModules, sort \in Sorting}
  \cup {ViewRequest(modules, TRUE, filter, sort, "grouped", "tag") :
          modules \in ListedModules, filter \in ViewFilters, sort \in Sorting}

-----------------------------------------------------------------------------
MatcherRests ==
  /\ pattern = <<>> /\ name = <<>> /\ verdict = "match"
  /\ walk = [p |-> 1, n |-> 1, star |-> 0, mark |-> 1, turns |-> 0]

ViewRests ==
  /\ request = <<>> /\ stage = "idle" /\ index = 1 /\ label = 1
  /\ resolved = <<>> /\ rows = <<>> /\ groups = <<>>

NamingRests ==
  /\ operation = <<>> /\ task = "idle" /\ segment = 1 /\ derived = <<>>
  /\ candidate = <<>> /\ phase = "done" /\ at = 1
  /\ words = <<>> /\ fresh = TRUE /\ normal = <<>>

ExtractionRests ==
  /\ extraction = <<>> /\ extracting = "idle" /\ turn = 1
  /\ fields = <<>> /\ mandatory = <<>> /\ output = EmptySchema
  /\ looked = EmptySchema /\ meant = EmptySchema /\ said = EmptySchema /\ left = 0

Unasked(subject) == Ask([of |-> subject]) /\ answer = <<>>

Init ==
  \/ InitMatch /\ ViewRests /\ NamingRests /\ ExtractionRests /\ Unasked("name")
  \/ MatcherRests /\ InitView /\ NamingRests /\ ExtractionRests /\ Unasked("view")
  \/ MatcherRests /\ ViewRests /\ InitNaming /\ ExtractionRests /\ Unasked("identifier")
  \/ MatcherRests /\ ViewRests /\ NamingRests /\ InitExtracting /\ Unasked("schema")
  \/ MatcherRests /\ ViewRests /\ NamingRests /\ ExtractionRests /\ InitAsking

Next ==
  \/ UNCHANGED <<matching, viewing, identifying, extractions>> /\ NextAsking
  \/ UNCHANGED <<asking, viewing, identifying, extractions>> /\ NextMatch
  \/ UNCHANGED <<asking, matching, identifying, extractions>> /\ NextView
  \/ UNCHANGED <<asking, matching, viewing, extractions>> /\ NextNaming
  \/ UNCHANGED <<asking, matching, viewing, identifying>> /\ NextExtracting

Spec == Init /\ [][Next]_all

MCFilterableFlags == {"readonly", "cacheable"}
=============================================================================
