-------------------------- MODULE DisplayResolver --------------------------
(***************************************************************************)
(* display/resolver.py: the sparse overlay of a module, from its binding   *)
(* entry, filled in for every surface.                                     *)
(*                                                                         *)
(* An alias is a sequence of characters, of which only the class matters:  *)
(* "A" a capital, "a" a small letter, "1" a digit, "_", "-", "newline", and*)
(* "." for everything else.  Other texts are sequences of at most one      *)
(* value; what Python takes for false is the empty sequence throughout.    *)
(***************************************************************************)
EXTENDS Naturals, SequencesExt

CONSTANT MaxAlias   \* characters an MCP alias may have, 64 in the code

ASSUME MaxAliasAssumption == MaxAlias \in Nat

Blank == [alias |-> <<>>, description |-> <<>>, guidance |-> <<>>]
BlankDisplay == [alias |-> <<>>, description |-> <<>>, documentation |-> <<>>, guidance |-> <<>>,
                 tags |-> <<>>, cli |-> Blank, mcp |-> Blank, a2a |-> Blank]
NoEntry == [display |-> BlankDisplay, description |-> <<>>, documentation |-> <<>>, tags |-> <<>>]

\* What the classes of an alias are.
AliasCharacters == {"a", "A", "1", "_", "-", "newline", "."}

\* x or y
Or(x, y) == IF x # <<>> THEN x ELSE y

\* _load_binding_files(): a file that cannot be read or parsed is passed over,
\* and of several entries for a module the last one counts.
BindingMap(files) ==
  LET Having(id) == {i \in DOMAIN files : files[i].loads /\ id \in DOMAIN files[i].entries} IN
  [id \in UNION {DOMAIN files[i].entries : i \in {j \in DOMAIN files : files[j].loads}} |->
     files[Max(Having(id))].entries[id]]

LegalMcp(alias) ==
  /\ alias # <<>> /\ alias[1] \in {"a", "A", "_"}
  /\ ToSet(alias) \subseteq {"a", "A", "1", "_", "-"}
LegalCli(alias) ==
  alias # <<>> /\ alias[1] = "a" /\ ToSet(alias) \subseteq {"a", "1", "_", "-"}

\* What match() takes for a legal CLI alias: "$" is also before a newline at
\* the end.
MatchesCli(alias) ==
  \/ LegalCli(alias)
  \/ alias # <<>> /\ Last(alias) = "newline" /\ LegalCli(Front(alias))

Sanitized(alias) ==
  LET clean == [i \in DOMAIN alias |-> IF alias[i] \in {".", "newline"} THEN "_" ELSE alias[i]] IN
  IF clean # <<>> /\ clean[1] = "1" THEN <<"_">> \o clean ELSE clean

\* The overlay before the aliases are looked at.
Filled(module, entry) ==
  LET given == entry.display
      alias == Or(given.alias, Or(module.suggested, Or(module.legacy, module.id)))
      description == Or(given.description, Or(entry.description, module.description))
      Surface(surface) ==
        [alias |-> Or(surface.alias, alias),
         description |-> Or(surface.description, description),
         guidance |-> Or(surface.guidance, given.guidance)]
  IN [alias |-> alias, description |-> description,
      documentation |-> Or(given.documentation, Or(entry.documentation, module.documentation)),
      guidance |-> given.guidance,
      tags |-> Or(given.tags, Or(entry.tags, module.tags)),
      cli |-> Surface(given.cli), mcp |-> Surface(given.mcp), a2a |-> Surface(given.a2a)]

\* Slip: the alias is measured before it is sanitised.
ResolveMeasuringFirst(module, entry) ==
  LET filled == Filled(module, entry)
      mcp == Sanitized(filled.mcp.alias)
      unsafe == entry.display.cli.alias # <<>> /\ ~MatchesCli(filled.cli.alias)
  IN IF Len(filled.mcp.alias) > MaxAlias \/ ~LegalMcp(mcp) THEN <<>>
     ELSE <<[filled EXCEPT !.mcp.alias = mcp,
                           !.cli.alias = IF unsafe THEN filled.alias ELSE @]>>

\* _resolve_one(), _validate_aliases(): the resolved overlay, or <<>> for the
\* ValueError.  Only a CLI alias somebody chose is checked, and replaced by the
\* default alias, which is not; an A2A alias is never checked.
Resolve(module, entry) ==
  LET filled == Filled(module, entry)
      mcp == Sanitized(filled.mcp.alias)
      unsafe == entry.display.cli.alias # <<>> /\ ~MatchesCli(filled.cli.alias)
  IN IF Len(mcp) > MaxAlias \/ ~LegalMcp(mcp) THEN <<>>
     ELSE <<[filled EXCEPT !.mcp.alias = mcp,
                           !.cli.alias = IF unsafe THEN filled.alias ELSE @]>>

\* resolve(): one module that cannot be resolved stops the whole list.
ResolveAll(modules, files) ==
  LET map == BindingMap(files)
      one == [i \in DOMAIN modules |->
                Resolve(modules[i], IF modules[i].id \in DOMAIN map THEN map[modules[i].id] ELSE NoEntry)]
  IN IF \E i \in DOMAIN one : one[i] = <<>> THEN <<>> ELSE <<[i \in DOMAIN one |-> one[i][1]]>>
=============================================================================
