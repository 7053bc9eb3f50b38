--------------------------- MODULE OpenApiSchemas ---------------------------
(***************************************************************************)
(* openapi.py: a schema with its references resolved, the input and output *)
(* schemas of an operation, and a reader of what comes out.                *)
(*                                                                         *)
(* A schema has a reference or none (<<name>> or <<>>), plain keywords and *)
(* keywords that hold schemas: subs["properties"]["x"], subs["allOf"][1],  *)
(* subs["items"][1].  A document maps the names of its components to       *)
(* schemas.  A part is always a dictionary: one that is true or false      *)
(* instead is left out of a list and of patternProperties (103, 121, 134), *)
(* and in properties or an allOf the resolution fails on it.               *)
(***************************************************************************)
EXTENDS Naturals, SequencesExt

CONSTANTS
  MaxDepth,        \* the depth at which resolution gives up, 16 in the code
  DocumentSchemas, \* schemas of documents, with all their parts
  FieldNames,      \* names of parameters and of fields of a body
  Extractions      \* calls of extract_input_schema and extract_output_schema

EmptySchema == [ref |-> <<>>, plain |-> <<>>, subs |-> <<>>]

Dictionary(f) == f = [k \in DOMAIN f |-> f[k]]
Optional(S) == {<<>>} \cup {<<e>> : e \in S}
Parameters == [name : FieldNames, in : STRING, required : BOOLEAN, schema : DocumentSchemas]

\* A schema stands in its set with every part; the document is never empty.
ASSUME SchemasAssumption ==
  /\ MaxDepth \in Nat
  /\ EmptySchema \in DocumentSchemas
  /\ \A schema \in DocumentSchemas :
       /\ schema = [ref |-> schema.ref, plain |-> schema.plain, subs |-> schema.subs]
       /\ Dictionary(schema.plain) /\ Dictionary(schema.subs)
       /\ "required" \in DOMAIN schema.plain => schema.plain["required"] \in Seq(FieldNames)
       /\ \A k \in DOMAIN schema.subs :
            /\ Dictionary(schema.subs[k])
            /\ \A n \in DOMAIN schema.subs[k] : schema.subs[k][n] \in DocumentSchemas

ASSUME ExtractionsAssumption ==
  \A e \in Extractions :
    /\ e.of \in {"input", "output"}
    /\ \A component \in DOMAIN e.document : e.document[component] \in DocumentSchemas
    /\ e.of = "input" => e.parameters \in Seq(Parameters) /\ e.body \in Optional(DocumentSchemas)
    /\ e.of = "output" => \A status \in DOMAIN e.responses : e.responses[status] \in Optional(DocumentSchemas)

VARIABLES
  extraction,  \* the call: [of, document, parameters, body] or [of, document, responses]
  extracting,  \* "parameters", "required", "responses" or "done"; "reading" afterwards
  turn,        \* of the loops over parameters and required fields
  fields,      \* properties of the input schema
  mandatory,   \* its required list
  output,      \* the output schema
  looked,      \* the part of a result a reader looks at
  meant,       \* the schema of the document it stands for, references followed up to here
  said,        \* what stood beside those references
  left         \* levels to the depth limit

results == <<fields, mandatory, output>>
reading == <<looked, meant, said, left>>
extractions == <<extraction, extracting, turn, results, reading>>

-----------------------------------------------------------------------------
\* resolve_ref(): a pointer that leads nowhere, and one out of the document,
\* give the empty schema.
Target(document, schema) ==
  LET name == schema.ref[1] IN
  IF name \in DOMAIN document THEN document[name] ELSE EmptySchema

Siblings(schema) == [schema EXCEPT !.ref = <<>>]

\* dict.update(): f goes before g.
Over(f, g) == [k \in DOMAIN f \cup DOMAIN g |-> IF k \in DOMAIN f THEN f[k] ELSE g[k]]
Updated(schema, by) ==
  [ref |-> schema.ref, plain |-> Over(by.plain, schema.plain), subs |-> Over(by.subs, schema.subs)]

\* resolve_schema(): one hop, and nothing of what stands beside the reference.
ResolveSchema(document, schema) ==
  IF schema.ref # <<>> THEN Target(document, schema) ELSE schema

\* The keywords whose schemas are resolved; contains, propertyNames,
\* dependentSchemas, $defs and others stay as they are.
Walked == {"allOf", "anyOf", "oneOf", "items", "properties", "additionalProperties",
           "patternProperties", "not", "if", "then", "else", "prefixItems"}

Inside(below, schema) ==
  [schema EXCEPT !.subs = [k \in DOMAIN schema.subs |->
     IF k \in Walked THEN [n \in DOMAIN schema.subs[k] |-> below[schema.subs[k][n]]]
     ELSE schema.subs[k]]]

\* Slip: what stands beside a reference is dropped.
DeeperNoSiblings(document, below, schema) ==
  IF schema.ref = <<>> THEN Inside(below, schema) ELSE below[Target(document, schema)]

\* _deep_resolve_refs() of a schema, given what it makes of any schema one
\* level below.  Siblings of a reference are walked at the same level.
Deeper(document, below, schema) ==
  IF schema.ref = <<>> THEN Inside(below, schema)
  ELSE IF Siblings(schema) = EmptySchema THEN below[Target(document, schema)]
  ELSE Updated(below[Target(document, schema)], Inside(below, Siblings(schema)))

\* _deep_resolve_refs() with so many levels to go to its limit.
Resolution(document) ==
  LET resolution[levels \in Nat] ==
        [schema \in DocumentSchemas |-> IF levels = 0 THEN schema
                                ELSE Deeper(document, resolution[levels - 1], schema)]
  IN resolution

DeepResolve(document, schema) == Resolution(document)[MaxDepth + 1][schema]

Keyword(schema, k) == IF k \in DOMAIN schema.plain THEN schema.plain[k] ELSE <<>>
Properties(schema) == IF "properties" \in DOMAIN schema.subs THEN schema.subs["properties"] ELSE <<>>

-----------------------------------------------------------------------------
\* The schema of the request body, which is looked at after one hop.
Object ==
  IF extraction.body = <<>> THEN EmptySchema
  ELSE ResolveSchema(extraction.document, extraction.body[1])

\* The responses with a 2xx status and a JSON schema.
Good == {status \in DOMAIN extraction.responses :
           status \in 200..299 /\ extraction.responses[status] # <<>>}

InitExtracting ==
  /\ extraction \in Extractions
  /\ extracting = IF extraction.of = "input" THEN "parameters" ELSE "responses"
  /\ turn = 1 /\ fields = <<>> /\ mandatory = <<>> /\ output = EmptySchema
  /\ looked = EmptySchema /\ meant = EmptySchema /\ said = EmptySchema /\ left = 0

\* extract_input_schema(): a parameter in the query or the path, another one,
\* and the body, whose fields win.  A parameter that is a reference has no
\* "in", and is passed over.
Taken(i) == extraction.parameters[i].in \in {"query", "path"}

TakeParameter ==
  LET p == extraction.parameters[turn] IN
  /\ extracting = "parameters" /\ turn <= Len(extraction.parameters) /\ Taken(turn)
  /\ fields' = Over([n \in {p.name} |-> ResolveSchema(extraction.document, p.schema)], fields)
  /\ mandatory' = IF p.required THEN Append(mandatory, p.name) ELSE mandatory
  /\ turn' = turn + 1
  /\ UNCHANGED <<extraction, extracting, output, reading>>

PassParameter ==
  /\ extracting = "parameters" /\ turn <= Len(extraction.parameters) /\ ~Taken(turn)
  /\ turn' = turn + 1
  /\ UNCHANGED <<extraction, extracting, results, reading>>

TakeBody ==
  /\ extracting = "parameters" /\ turn > Len(extraction.parameters)
  /\ extracting' = "required" /\ turn' = 1
  /\ fields' = Over(Properties(Object), fields)
  /\ UNCHANGED <<extraction, mandatory, output, reading>>

\* A field the body requires, once.
Require ==
  LET required == Keyword(Object, "required") IN
  /\ extracting = "required" /\ turn <= Len(required)
  /\ mandatory' = IF Contains(mandatory, required[turn]) THEN mandatory
                  ELSE Append(mandatory, required[turn])
  /\ turn' = turn + 1
  /\ UNCHANGED <<extraction, extracting, fields, output, reading>>

\* At the end each property is resolved in depth.
ResolveFields ==
  /\ extracting = "required" /\ turn > Len(Keyword(Object, "required"))
  /\ fields' = [n \in DOMAIN fields |-> DeepResolve(extraction.document, fields[n])]
  /\ extracting' = "done"
  /\ UNCHANGED <<extraction, turn, mandatory, output, reading>>

\* extract_output_schema(): the lowest status counts.
ExtractOutput ==
  /\ extracting = "responses"
  /\ output' = IF Good = {} THEN EmptySchema
               ELSE LET schema == extraction.responses[Min(Good)][1] IN
                    DeepResolve(extraction.document, ResolveSchema(extraction.document, schema))
  /\ extracting' = "done"
  /\ UNCHANGED <<extraction, turn, fields, mandatory, reading>>

-----------------------------------------------------------------------------
(* A reader of the result and of the document: apcore, which reads         *)
(* x-sensitive off a resolved schema, or whoever validates by it.  It      *)
(* follows a reference where it meets one, remembers what stood beside it, *)
(* and looks into a part of what it is looking at, in any order.           *)

\* A reference with something beside it at the very root loses that.
AtRoot(schema) == schema.ref # <<>> /\ Siblings(schema) # EmptySchema

\* The schema that spells the body out: the body, or the component it is a
\* reference to, provided it is no reference in turn.  No body is like an empty
\* one.  A body behind two references, or with something beside its
\* reference, is not spelt out, and its fields are not found (234-241).
Spelt(object) ==
  /\ object.ref = <<>>
  /\ \/ extraction.body = <<>> /\ object = EmptySchema
     \/ extraction.body = <<object>>
     \/ \E component \in DOMAIN extraction.document :
          /\ extraction.body = <<[EmptySchema EXCEPT !.ref = <<component>>]>>
          /\ object = extraction.document[component]

\* The schema a field of the input is meant to have: that of the body, or of
\* the last parameter of its name.
SourceOf(n, schema) ==
  \E object \in DocumentSchemas :
    /\ Spelt(object)
    /\ \/ n \in DOMAIN Properties(object) /\ schema = Properties(object)[n]
       \/ /\ n \notin DOMAIN Properties(object) /\ ~AtRoot(schema)
          /\ \E i \in DOMAIN extraction.parameters :
               /\ Taken(i) /\ extraction.parameters[i].name = n /\ extraction.parameters[i].schema = schema
               /\ \A j \in DOMAIN extraction.parameters :
                    j > i /\ Taken(j) => extraction.parameters[j].name # n

ReadFrom(part, schema) ==
  /\ extracting' = "reading"
  /\ looked' = part /\ meant' = schema /\ said' = EmptySchema /\ left' = MaxDepth + 1
  /\ UNCHANGED <<extraction, turn, results>>

ReadField ==
  /\ extracting = "done" /\ extraction.of = "input"
  /\ \E n \in DOMAIN fields, schema \in DocumentSchemas : SourceOf(n, schema) /\ ReadFrom(fields[n], schema)

ReadOutput ==
  /\ extracting = "done" /\ extraction.of = "output" /\ Good # {}
  /\ LET schema == extraction.responses[Min(Good)][1] IN
     ~AtRoot(schema) /\ ReadFrom(output, schema)

FollowReference ==
  /\ extracting = "reading" /\ left > 0 /\ meant.ref # <<>>
  /\ said' = Updated(Siblings(meant), said)
  /\ meant' = Target(extraction.document, meant)
  /\ left' = left - 1
  /\ UNCHANGED <<extraction, extracting, turn, results, looked>>

\* Where there are no more references: what the document says.
Meaning == Updated(meant, said)

LookInside ==
  /\ extracting = "reading" /\ left > 0 /\ meant.ref = <<>>
  /\ \E k \in Walked \cap DOMAIN Meaning.subs : \E n \in DOMAIN Meaning.subs[k] :
       looked' = looked.subs[k][n] /\ meant' = Meaning.subs[k][n]
  /\ said' = EmptySchema /\ left' = left - 1
  /\ UNCHANGED <<extraction, extracting, turn, results>>

NextExtracting ==
  \/ TakeParameter \/ PassParameter \/ TakeBody \/ Require \/ ResolveFields \/ ExtractOutput
  \/ ReadField \/ ReadOutput \/ FollowReference \/ LookInside

SpecExtracting == InitExtracting /\ [][NextExtracting]_extractions

-----------------------------------------------------------------------------
\* Down to the depth limit a resolved schema says, wherever a reader looks
\* through the keywords that are walked, what the document means: the
\* references followed, and what stands beside a reference, x-sensitive for one
\* (openapi.py:74), kept.  Under the other keywords the document is unchanged.
ReaderFindsTheMeaning ==
  extracting = "reading" /\ left > 0 /\ meant.ref = <<>> =>
    /\ looked.ref = <<>> /\ looked.plain = Meaning.plain
    /\ DOMAIN looked.subs = DOMAIN Meaning.subs
    /\ \A k \in Walked \cap DOMAIN Meaning.subs : DOMAIN looked.subs[k] = DOMAIN Meaning.subs[k]
    /\ \A k \in DOMAIN Meaning.subs \ Walked : looked.subs[k] = Meaning.subs[k]

\* Where the body is spelt out, no query or path parameter and no field in its
\* properties is lost, none is made up, and what one of them requires is
\* required (openapi.py:166).  What an allOf would add is not gathered.
InputsAreAllThere ==
  extracting \in {"done", "reading"} /\ extraction.of = "input" =>
    LET parameters == {i \in DOMAIN extraction.parameters : Taken(i)} IN
    \A object \in DocumentSchemas : Spelt(object) =>
      /\ DOMAIN fields = DOMAIN Properties(object) \cup {extraction.parameters[i].name : i \in parameters}
      /\ ToSet(mandatory) = ToSet(Keyword(object, "required")) \cup
           {extraction.parameters[i].name : i \in {j \in parameters : extraction.parameters[j].required}}

\* What extraction makes of a document says what the document says: of a
\* response, of every parameter that is no reference and of every field in the
\* properties of a body spelt out, wherever the references in them lead and
\* however the components refer to each other, as far as the keywords that are
\* walked go.
SchemasSayTheirSource == ReaderFindsTheMeaning /\ InputsAreAllThere
=============================================================================
