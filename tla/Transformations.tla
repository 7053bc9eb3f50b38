-------------------------- MODULE Transformations --------------------------
(***************************************************************************)
(* What the toolkit makes of data in one go: the display overlays of a     *)
(* list of modules, the enhancement of a list, the discovery of a          *)
(* configuration, and an entry written or read.  One question is asked,    *)
(* one answer given.  What can be asked is left open but for the types the *)
(* callers guarantee.                                                      *)
(***************************************************************************)
EXTENDS DisplayResolver, AIEnhancer, Discovery, Bindings

CONSTANTS
  DisplayQuestions,      \* [of, modules, files]
  EnhancementQuestions,  \* [of, modules, answers, threshold]
  DiscoveryQuestions,    \* [of, config, answers]
  ModuleQuestions,       \* [of, module, strict]
  EntryQuestions         \* [of, entry]

\* A scanned module has an identifier; names are texts.
Displayable(module) ==
  /\ module.id # <<>>
  /\ {module.id, module.suggested, module.legacy} \subseteq Seq(AliasCharacters)

IsOverlay(entry) ==
  {entry.display.alias, entry.display.cli.alias, entry.display.mcp.alias, entry.display.a2a.alias}
    \subseteq Seq(AliasCharacters)

\* A module has some of each field or not; nothing is generated yet.
Enhanceable(module) ==
  /\ DOMAIN module = {"value", "warnings", "confidence"}
  /\ module = [f \in DOMAIN module |-> module[f]]
  /\ \A f \in DOMAIN module.value : module.value[f] \in {"missing", "given"}

Configuration(config) ==
  /\ DOMAIN config = {"clientId", "authMethod", "secret", "errorAliases", "encoding", "interval",
                      "issuer", "endpoints"}
  /\ config = [f \in DOMAIN config |-> config[f]]
  /\ DOMAIN config.endpoints = Endpoints
  /\ config.endpoints = [e \in Endpoints |-> config.endpoints[e]]
  /\ Valid(config)

\* A document is that of the candidate it came from.
PublishedBy(candidate, answer) ==
  IsMetadata(answer) =>
    \A e \in Endpoints : answer[1].endpoints[e] # <<>> => answer[1].endpoints[e][1].from = candidate

WritableModule(module) ==
  /\ DOMAIN module = Fields /\ module = [f \in Fields |-> module[f]]
  /\ \A f \in RequiredNames : module[f] # <<>>

ASSUME QuestionsAssumption ==
  /\ \A q \in DisplayQuestions :
       /\ q.of = "display"
       /\ \A i \in DOMAIN q.modules : Displayable(q.modules[i])
       /\ Len(q.files) \in Nat /\ DOMAIN q.files = 1..Len(q.files)
       /\ \A i \in DOMAIN q.files : \A id \in DOMAIN q.files[i].entries :
            IsOverlay(q.files[i].entries[id])
  /\ \A q \in EnhancementQuestions :
       /\ q.of = "enhancement"
       /\ \A i \in DOMAIN q.modules : Enhanceable(q.modules[i])
  /\ \A q \in DiscoveryQuestions :
       /\ q.of = "discovery"
       /\ Configuration(q.config)
       /\ \A i \in Candidates : PublishedBy(i, q.answers[i])
  /\ \A q \in ModuleQuestions :
       q.of = "module" /\ q.strict \in BOOLEAN /\ WritableModule(q.module)
  /\ \A q \in EntryQuestions : q.of = "entry"

VARIABLES question, answer
asking == <<question, answer>>

Asked(subject) == question.of = subject /\ answer = <<>>
Answers(a) == answer' = <<a>> /\ UNCHANGED question

InitAsking ==
  /\ answer = <<>>
  /\ \/ question \in DisplayQuestions \/ question \in EnhancementQuestions
     \/ question \in DiscoveryQuestions \/ question \in ModuleQuestions
     \/ question \in EntryQuestions

AnswerDisplay == Asked("display") /\ Answers(ResolveAll(question.modules, question.files))

AnswerEnhancement ==
  /\ Asked("enhancement")
  /\ Answers(Enhance(question.modules, question.answers, question.threshold))

AnswerDiscovery == Asked("discovery") /\ Answers(Discover(question.config, question.answers))

AnswerModule ==
  Asked("module") /\ Answers(ParseEntry(BuildBinding(question.module), question.strict))

AnswerEntry == Asked("entry") /\ Answers(ParseEntry(question.entry, TRUE))

NextAsking ==
  AnswerDisplay \/ AnswerEnhancement \/ AnswerDiscovery \/ AnswerModule \/ AnswerEntry

SpecAsking == InitAsking /\ [][NextAsking]_asking

-----------------------------------------------------------------------------
\* A resolved overlay is final: every surface has an alias; the one shown to
\* MCP clients is legal and short enough although it was changed; a CLI alias
\* that a binding entry chose is kept if it is legal, and what is shown is a
\* legal one, a legal one with a newline behind it, or the default alias, which
\* nobody checks and which need not be legal for a shell; and resolving with
\* the resolved overlay as the entry gives it again (_resolve_one,
\* _validate_aliases).
DisplayIsFinal ==
  question.of = "display" /\ answer # <<>> /\ answer[1] # <<>> =>
    LET map == BindingMap(question.files) IN
    \A i \in DOMAIN question.modules :
      LET display == answer[1][1][i]
          id == question.modules[i].id
      IN
      /\ <<>> \notin {display.alias, display.cli.alias, display.mcp.alias, display.a2a.alias}
      /\ LegalMcp(display.mcp.alias) /\ Len(display.mcp.alias) <= MaxAlias
      /\ MatchesCli(display.cli.alias) \/ display.cli.alias = display.alias
      /\ id \in DOMAIN map /\ LegalCli(map[id].display.cli.alias) =>
           display.cli.alias = map[id].display.cli.alias
      /\ Resolve(question.modules[i], [NoEntry EXCEPT !.display = display]) = <<display>>

\* What the enhancement of a list does to a module depends on its own answer
\* only: a failure leaves it, and nothing else, as it was; what it had is never
\* overwritten; and every gap the answer fills is filled at a recorded
\* confidence of at least the threshold or warned of (enhance).
EnhancementIsAccountedFor ==
  question.of = "enhancement" /\ answer # <<>> =>
    \A i \in DOMAIN question.modules :
      LET before == question.modules[i]
          after == answer[1][i]
          said == question.answers[i]
      IN \/ said = <<>> /\ after = before
         \/ /\ said # <<>>
            /\ \A f \in DOMAIN before.value :
                 /\ before.value[f] = "given" => after.value[f] = "given"
                 /\ after.value[f] = "generated" =>
                      f \in said[1].fields /\ after.confidence[f] >= question.threshold
                 /\ Gap(before, f) /\ f \in said[1].fields \ said[1].malformed =>
                      after.value[f] = "generated" \/ f \in after.warnings

\* A configuration that comes out of discovery is one the constructor takes,
\* changed in nothing but the endpoints nobody had set; those stem from one
\* document, which names the configured issuer and before which no candidate
\* gave metadata; and a first document of another issuer is never got round
\* (discover, _with_metadata).
DiscoveryKeepsToTheIssuer ==
  question.of = "discovery" /\ answer # <<>> /\ answer[1].config # <<>> =>
    LET config == question.config
        found == answer[1].config[1]
        added == {e \in Endpoints : found.endpoints[e] # config.endpoints[e]}
    IN /\ Valid(found) /\ [found EXCEPT !.endpoints = config.endpoints] = config
       /\ \A e \in added : config.endpoints[e] = <<>>
       /\ found.endpoints["device"] # <<>> /\ found.endpoints["token"] # <<>>
       /\ \E i \in Candidates :
            /\ question.answers[i] # <<>> /\ question.answers[i][1].issuer = config.issuer
            /\ \A e \in added : found.endpoints[e][1].from = i
            /\ \A j \in 1..(i - 1) : ~IsMetadata(question.answers[j])

\* What the writer writes the loader takes, in strict mode too, and gets the
\* same module of it but for what neither keeps: warnings, forbidden metadata
\* and an empty version.  And strict mode only refuses more: what it takes,
\* loose mode takes for the same module (_build_binding, _parse_entry).
EntriesRoundTrip ==
  /\ question.of = "module" /\ answer # <<>> =>
       /\ answer[1] # <<>>
       /\ \A f \in Fields \ {"warnings", "version", "metadata"} : answer[1][1][f] = question.module[f]
       /\ question.module["version"] # <<>> => answer[1][1]["version"] = question.module["version"]
       /\ question.module["metadata"] # <<>> =>
            answer[1][1]["metadata"][1] = question.module["metadata"][1] \ ForbiddenMetadata
  /\ question.of = "entry" /\ answer # <<>> /\ answer[1] # <<>> =>
       /\ ParseEntry(question.entry, FALSE) = answer[1]
       /\ \A f \in RequiredNames : answer[1][1][f] # <<>>
=============================================================================
