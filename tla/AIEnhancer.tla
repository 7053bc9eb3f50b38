----------------------------- MODULE AIEnhancer -----------------------------
(***************************************************************************)
(* AIEnhancer.enhance(): what is missing in a module is asked of a small   *)
(* language model and taken where its confidence suffices.                 *)
(*                                                                         *)
(* A module maps its fields, <<"description">> or <<"annotations", flag>>, *)
(* to "missing", "given" or "generated", and has the fields it warns of    *)
(* and the confidences its metadata records (none: <<>>).  An answer is    *)
(* [fields, malformed, confidence]: the fields it offers, those offered in *)
(* the wrong shape, and the confidence it gives to names, <<>> for one     *)
(* that is no number.  The text of a field plays no part.                  *)
(***************************************************************************)
EXTENDS Naturals, Sequences

IsAnnotation(field) == field[1] = "annotations"

\* _identify_gaps(): annotations are asked for when none is set.
Gap(module, field) ==
  IF IsAnnotation(field)
  THEN \A other \in DOMAIN module.value : IsAnnotation(other) => module.value[other] = "missing"
  ELSE module.value[field] = "missing"
Gaps(module) == {field \in DOMAIN module.value : Gap(module, field)}

\* "annotations.readonly" is looked up before "readonly"; a confidence that is
\* absent or no number counts as none.
Confidence(answer, field) ==
  LET name == IF IsAnnotation(field) /\ field \notin DOMAIN answer.confidence
              THEN <<field[2]>> ELSE field
  IN IF name \in DOMAIN answer.confidence /\ answer.confidence[name] # <<>>
     THEN answer.confidence[name][1] ELSE 0

\* A description or documentation is taken in any shape.
Offered(module, answer) ==
  {field \in Gaps(module) \cap answer.fields :
     IsAnnotation(field) \/ field = <<"input_schema">> => field \notin answer.malformed}

\* _enhance_module()
EnhanceModule(module, answer, threshold) ==
  LET offered == Offered(module, answer)
      accepted == {field \in offered : Confidence(answer, field) >= threshold}
      warned == [module EXCEPT !.warnings = @ \cup (offered \ accepted)]
  IN IF accepted = {} THEN warned
     ELSE [warned EXCEPT
             !.value = [f \in DOMAIN @ |-> IF f \in accepted THEN "generated" ELSE @[f]],
             !.confidence = [f \in offered |-> Confidence(answer, f)]]

\* Slip: the first failure ends the enhancement of the list.
EnhanceUntilFailure(modules, answers, threshold) ==
  [i \in DOMAIN modules |->
     IF Gaps(modules[i]) = {} \/ \E j \in 1..i : answers[j] = <<>> THEN modules[i]
     ELSE EnhanceModule(modules[i], answers[i][1], threshold)]

\* enhance(): a module whose request failed in any way (<<>>) stays as it is.
Enhance(modules, answers, threshold) ==
  [i \in DOMAIN modules |->
     IF Gaps(modules[i]) = {} \/ answers[i] = <<>> THEN modules[i]
     ELSE EnhanceModule(modules[i], answers[i][1], threshold)]
=============================================================================
