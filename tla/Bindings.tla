------------------------------ MODULE Bindings ------------------------------
(***************************************************************************)
(* The entry YAMLWriter writes for a module, and what BindingLoader makes  *)
(* of an entry.                                                            *)
(*                                                                         *)
(* An entry maps some keys to values [type, value], a module maps all      *)
(* fields to values alone.  A value is <<>> when Python takes it for false *)
(* and <<x>> otherwise; metadata is the set of its keys.                   *)
(***************************************************************************)
EXTENDS Naturals, Sequences

Schemas == {"input_schema", "output_schema"}
RequiredNames == {"module_id", "target"}
Fields == RequiredNames \cup Schemas \cup
  {"description", "documentation", "tags", "version", "annotations", "examples",
   "metadata", "suggested_alias", "display", "warnings"}

ForbiddenMetadata == {"__proto__", "constructor", "prototype"}

\* The type a field has; other fields are taken in any.
TypeOf(field) ==
  CASE field \in RequiredNames -> "string"
    [] field \in Schemas \cup {"annotations", "metadata", "display"} -> "mapping"
    [] field \in {"tags", "examples"} -> "list"
    [] OTHER -> "any"

HasType(entry, field) ==
  /\ field \in DOMAIN entry /\ entry[field].type # "null"
  /\ TypeOf(field) \in {"any", entry[field].type}

\* _required_field_invalid()
RequiredInvalid(entry, field) ==
  HasType(entry, field) => field \in RequiredNames /\ entry[field].value = <<>>

\* Warnings that list() fails on, a number for one.
Unlistable(entry) ==
  /\ "warnings" \in DOMAIN entry /\ entry["warnings"].value # <<>>
  /\ entry["warnings"].type \notin {"list", "mapping", "string"}

\* What a field is read as: list() makes the list of its characters of a
\* string, and that of its keys of a mapping.
ReadAs(entry, field) ==
  IF field = "warnings" /\ entry[field].value # <<>> /\ entry[field].type # "list"
  THEN <<"pieces">> ELSE entry[field].value

\* What _parse_entry refuses, or fails on.
Refuses(entry, strict) ==
  \/ Unlistable(entry)
  \/ ~(DOMAIN entry \subseteq Fields)
  \/ Schemas \cap DOMAIN entry \notin {{}, Schemas}
  \/ \E field \in RequiredNames \cup (IF strict THEN Schemas ELSE {}) : RequiredInvalid(entry, field)
  \/ /\ strict
     /\ \E field \in (Schemas \cup {"tags"}) \cap DOMAIN entry :
          entry[field].type # "null" /\ ~HasType(entry, field)

\* _parse_entry(): <<>> is BindingLoadError, or the TypeError of list(), and a
\* value of the wrong type that need not be refused is dropped.
ParseEntry(entry, strict) ==
  LET taken == [field \in Fields |-> IF HasType(entry, field) THEN ReadAs(entry, field) ELSE <<>>]
  IN IF Refuses(entry, strict) THEN <<>>
     ELSE <<[taken EXCEPT
               !["version"] = IF @ = <<>> THEN <<"1.0.0">> ELSE @,
               !["metadata"] = IF @ = <<>> THEN @ ELSE <<@[1] \ ForbiddenMetadata>>]>>

\* Slip: an empty schema is not written.
BuildWithoutEmpty(module) ==
  [field \in {f \in Fields \ {"warnings"} :
                f \in Schemas \cup {"suggested_alias", "display"} => module[f] # <<>>} |->
     [type |-> IF TypeOf(field) = "any" THEN "string" ELSE TypeOf(field), value |-> module[field]]]

\* _build_binding(): the warnings are not written.
BuildBinding(module) ==
  [field \in {f \in Fields \ {"warnings"} :
                f \in {"suggested_alias", "display"} => module[f] # <<>>} |->
     [type |-> IF TypeOf(field) = "any" THEN "string" ELSE TypeOf(field), value |-> module[field]]]
=============================================================================
