----------------------------- MODULE ModuleIds -----------------------------
(***************************************************************************)
(* The identifier that scan() gives an operation: a hook's or the one of   *)
(* derive_module_id(), with the prefix, or what transform_module made of   *)
(* it; and _normalize_module_id(), which these call, reading its candidate *)
(* once for the substitutions and once for the segments.                   *)
(*                                                                         *)
(* A string is a sequence of characters, and of a character only the class *)
(* matters: "A" is any capital, "a" any small letter, "1" any digit,       *)
(* "under" is "_", "open" and "close" are braces, "-" is anything else.    *)
(***************************************************************************)
EXTENDS Naturals, SequencesExt

CONSTANT Operations  \* what there is to name, with the hooks' answers

IdCharacters == {"a", "1", "under", "."}
IdTexts == Seq(IdCharacters \cup {"A", "-", "open", "close"})

\* An operationId or a prefix that is empty counts as none; a hook that
\* answers x, which may be empty, is <<x>>, one that is not there or names
\* nothing <<>>.
ASSUME OperationsAssumption ==
  \A o \in Operations :
    /\ o.path \in Seq(IdTexts) /\ o.operationId \in IdTexts /\ o.prefix \in IdTexts
    /\ o.method \in Seq({"a"}) \ {<<>>}
    /\ o.hook \in Seq(IdTexts) /\ o.transformed \in Seq(IdTexts)

VARIABLES
  operation,  \* [path, method, operationId, prefix, hook, transformed]
  task,       \* "naming", "operationId", "path", "segment", "module_id" or "done"
  segment,    \* the next segment of the path
  derived,    \* the parts found in the path, each with a "."
  \* _normalize_module_id():
  candidate,  \* its argument
  phase,      \* "words", "segments" or "done"
  at,         \* the next character
  words,      \* the candidate after the substitutions
  fresh,      \* the segment has nothing yet
  normal      \* what is returned

derivation == <<operation, task, segment, derived>>
normalisation == <<candidate, phase, at, words, fresh, normal>>
identifying == <<derivation, normalisation>>

-----------------------------------------------------------------------------
\* A word ends after character i: "HTTPServer" before "Server", "getUser"
\* before "User".
WordEnds(s, i) ==
  \/ i + 2 <= Len(s) /\ s[i] = "A" /\ s[i + 1] = "A" /\ s[i + 2] = "a"
  \/ i + 1 <= Len(s) /\ s[i] \in {"a", "1"} /\ s[i + 1] = "A"

Canonical(c) == CASE c = "A" -> "a" [] c \in IdCharacters -> c [] OTHER -> "under"

Normalize(text) ==
  /\ candidate' = text /\ phase' = "words" /\ at' = 1
  /\ words' = <<>> /\ fresh' = TRUE /\ normal' = <<>>

\* Both boundaries, the alphabet and lower().
ReadWords ==
  /\ phase = "words" /\ at <= Len(candidate)
  /\ LET c == Canonical(candidate[at])
     IN words' = IF WordEnds(candidate, at)
                 THEN Append(Append(words, c), "under") ELSE Append(words, c)
  /\ at' = at + 1
  /\ UNCHANGED <<derivation, candidate, phase, fresh, normal>>

EndOfCandidate ==
  /\ phase = "words" /\ at > Len(candidate)
  /\ phase' = "segments" /\ at' = 1
  /\ UNCHANGED <<derivation, candidate, words, fresh, normal>>

\* split(".")
EndSegment ==
  /\ phase = "segments" /\ at <= Len(words) /\ words[at] = "."
  /\ fresh' = TRUE /\ at' = at + 1
  /\ UNCHANGED <<derivation, candidate, phase, words, normal>>

\* lstrip("_")
Strip ==
  /\ phase = "segments" /\ at <= Len(words) /\ words[at] = "under" /\ fresh
  /\ at' = at + 1
  /\ UNCHANGED <<derivation, candidate, phase, words, fresh, normal>>

Write ==
  /\ words[at] # "."
  /\ normal' = Append(IF fresh /\ normal # <<>> THEN Append(normal, ".") ELSE normal, words[at])
  /\ fresh' = FALSE /\ at' = at + 1
  /\ UNCHANGED <<derivation, candidate, phase, words>>

\* Slip: nothing is stripped.
WriteUnstripped == phase = "segments" /\ at <= Len(words) /\ Write

\* The segments that are not empty, joined by ".".
WriteSegment ==
  /\ phase = "segments" /\ at <= Len(words) /\ ~(words[at] = "under" /\ fresh)
  /\ Write

EndOfWords ==
  /\ phase = "segments" /\ at > Len(words)
  /\ phase' = "done"
  /\ UNCHANGED <<derivation, candidate, at, words, fresh, normal>>

-----------------------------------------------------------------------------
\* {user_id} becomes user_id
Unbraced(s) ==
  IF Len(s) >= 2 /\ s[1] = "open" /\ s[Len(s)] = "close" THEN SubSeq(s, 2, Len(s) - 1) ELSE s

\* rstrip("_") leaves n characters.
WithoutTrail(s, n) ==
  /\ n \in 0..Len(s)
  /\ n > 0 => s[n] # "under"
  /\ \A i \in (n + 1)..Len(s) : s[i] = "under"

Root == <<"a", "a", ".">>

InitNaming ==
  /\ operation \in Operations
  /\ task = "naming" /\ segment = 1 /\ derived = <<>>
  /\ candidate = <<>> /\ phase = "done" /\ at = 1
  /\ words = <<>> /\ fresh = TRUE /\ normal = <<>>

\* The prefix, transform_module and the normalisation that comes last of all.
Emits(mid) ==
  /\ task' = "module_id"
  /\ Normalize(CASE operation.transformed # <<>> -> operation.transformed[1]
                 [] operation.transformed = <<>> /\ operation.prefix # <<>> ->
                      Append(operation.prefix, ".") \o mid
                 [] OTHER -> mid)
  /\ UNCHANGED <<operation, segment, derived>>

HookNames ==
  /\ task = "naming" /\ operation.hook # <<>>
  /\ Emits(operation.hook[1])

ReadOperationId ==
  /\ task = "naming" /\ operation.hook = <<>> /\ operation.operationId # <<>>
  /\ task' = "operationId" /\ Normalize(operation.operationId)
  /\ UNCHANGED <<operation, segment, derived>>

TakeOperationId ==
  /\ task = "operationId" /\ phase = "done"
  /\ \E n \in 1..Len(normal) : WithoutTrail(normal, n) /\ Emits(SubSeq(normal, 1, n))

\* There is no operationId, or nothing is left of it.
ReadPath ==
  /\ \/ task = "naming" /\ operation.hook = <<>> /\ operation.operationId = <<>>
     \/ task = "operationId" /\ phase = "done" /\ WithoutTrail(normal, 0)
  /\ task' = "path"
  /\ UNCHANGED <<operation, segment, derived, normalisation>>

ReadSegment ==
  /\ task = "path" /\ segment <= Len(operation.path)
  /\ task' = "segment" /\ Normalize(Unbraced(operation.path[segment]))
  /\ UNCHANGED <<operation, segment, derived>>

AddPart ==
  /\ task = "segment" /\ phase = "done"
  /\ derived' = IF normal = <<>> THEN derived ELSE derived \o Append(normal, ".")
  /\ segment' = segment + 1 /\ task' = "path"
  /\ UNCHANGED <<operation, normalisation>>

EndOfPath ==
  /\ task = "path" /\ segment > Len(operation.path)
  /\ Emits((IF derived = <<>> THEN Root ELSE derived) \o operation.method)

Named ==
  /\ task = "module_id" /\ phase = "done"
  /\ task' = "done"
  /\ UNCHANGED <<operation, segment, derived, normalisation>>

NextNaming ==
  \/ ReadWords \/ EndOfCandidate \/ EndSegment \/ Strip \/ WriteSegment \/ EndOfWords
  \/ HookNames \/ ReadOperationId \/ TakeOperationId \/ ReadPath \/ ReadSegment \/ AddPart
  \/ EndOfPath \/ Named

SpecNaming == InitNaming /\ [][NextNaming]_identifying

-----------------------------------------------------------------------------
\* Where segments begin.
Begins(s, i) == i = 1 \/ s[i - 1] = "."

\* ^[a-z][a-z0-9_]*$ for every segment
LegalId(s) ==
  /\ s # <<>> /\ s[Len(s)] # "."
  /\ \A i \in DOMAIN s : s[i] \in IdCharacters /\ (Begins(s, i) => s[i] = "a")

\* Legal but for digits a segment begins with, or empty.
SettledId(s) ==
  /\ s # <<>> => s[Len(s)] # "."
  /\ \A i \in DOMAIN s : s[i] \in IdCharacters /\ (Begins(s, i) => s[i] \in {"a", "1"})

\* What comes of a name, whoever gave it, is legal unless it is empty or one
\* of its segments begins with a digit, which alone the scanner will not mend;
\* a name that is so already stays as it is, hence a legal one does, and a
\* second normalisation changes nothing ("Also idempotent",
\* openapi_scanner.py:69).  What is derived is "Never empty"
\* (openapi_scanner.py:126) and needs no mending.
IdsAreSettled ==
  task = "done" =>
    /\ SettledId(normal)
    /\ \/ LegalId(normal) \/ normal = <<>>
       \/ \E i \in DOMAIN normal : Begins(normal, i) /\ normal[i] = "1"
    /\ SettledId(candidate) => normal = candidate
    /\ operation.hook = <<>> /\ operation.transformed = <<>> =>
         normal # <<>> /\ (operation.prefix = <<>> => normal = candidate)
=============================================================================
