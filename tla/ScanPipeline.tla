---------------------------- MODULE ScanPipeline ----------------------------
(***************************************************************************)
(* OpenAPIScanner.scan(): every operation of a document becomes a module   *)
(* with an identifier, chosen by hooks or derived, and normalised; the     *)
(* modules are filtered, duplicate identifiers are renamed one by one      *)
(* (deduplicate_ids of BaseScanner), and identifiers the registries will   *)
(* refuse are reported.                                                    *)
(*                                                                         *)
(* An identifier is a word and the numbers appended to it, so that "a_2"   *)
(* found in a document is the same as "a" renamed to "a_2".                *)
(***************************************************************************)
EXTENDS Naturals, Sequences

CONSTANTS
  Names,         \* what hooks and documents call an operation
  Normal,        \* the identifier _normalize_module_id makes of a name
  Words,         \* the words of identifiers
  LegalWords,    \* those that make a legal identifier
  None,          \* no identifier
  Filters,       \* sets of identifiers that include and exclude let through
  MaxOperations  \* bound on the operations of a document

Ids == [word : Words, suffix : Seq(Nat)]

ASSUME ConstantsAssumption ==
  /\ Normal \in [Names -> Ids]
  /\ LegalWords \subseteq Words
  /\ MaxOperations \in Nat

VARIABLES
  place,      \* "collecting", "filtering", "deduplicating", "labelling" or "done"
  read,       \* operations read so far
  collected,  \* the modules made of them, until they are filtered
  modules,    \* those the filter lets through
  filter,     \* the identifiers the patterns let through
  result,     \* deduplicate_ids: the modules dealt with
  seen,       \* deduplicate_ids: seen_count
  used,       \* deduplicate_ids: used_ids
  counter     \* deduplicate_ids: counter, 0 outside a renaming

deduplication == <<result, seen, used, counter>>
vars == <<place, read, collected, modules, filter, deduplication>>

Legal(id) == id.word \in LegalWords
Suffixed(id, n) == [id EXCEPT !.suffix = Append(@, n)]
IdsOf(s) == {s[i].id : i \in DOMAIN s}

\* A module: the operation it stems from, its identifier, the identifier it
\* was renamed from and the illegal identifier it warns of.
Module(n, id) == [operation |-> n, id |-> id, renamed |-> None, illegal |-> None]

Init ==
  /\ place = "collecting" /\ read = 0
  /\ collected = <<>> /\ modules = <<>> /\ filter \in Filters
  /\ result = <<>> /\ seen = <<>> /\ used = {} /\ counter = 0

-----------------------------------------------------------------------------
(* The operations of the document.                                         *)

\* Not an operation, deprecated and unwanted, or dropped by a hook.
Skip ==
  /\ place = "collecting" /\ read < MaxOperations
  /\ read' = read + 1
  /\ UNCHANGED <<place, collected, modules, filter, deduplication>>

\* Whatever named the module, a hook or the document, is normalised last.
Collect ==
  /\ place = "collecting" /\ read < MaxOperations
  /\ read' = read + 1
  /\ \E name \in Names : collected' = Append(collected, Module(read', Normal[name]))
  /\ UNCHANGED <<place, modules, filter, deduplication>>

EndOfDocument ==
  /\ place = "collecting"
  /\ place' = "filtering"
  /\ UNCHANGED <<read, collected, modules, filter, deduplication>>

\* filter_modules()
Filter ==
  /\ place = "filtering" /\ collected # <<>>
  /\ collected' = Tail(collected)
  /\ modules' = IF Head(collected).id \in filter
                THEN Append(modules, Head(collected)) ELSE modules
  /\ UNCHANGED <<place, read, filter, deduplication>>

-----------------------------------------------------------------------------
(* deduplicate_ids(), one turn of its loops at a time.                     *)

Position == Len(result) + 1
Current == modules[Position]
Counted(id) == seen' = [seen EXCEPT ![id] = @ + 1]

\* Slip: used_ids starts empty.
PrepareNothing ==
  /\ place = "filtering" /\ collected = <<>>
  /\ place' = "deduplicating"
  /\ used' = {} /\ seen' = [id \in IdsOf(modules) |-> 0]
  /\ UNCHANGED <<read, collected, modules, filter, result, counter>>

\* All identifiers of the input are in use from the start.
Prepare ==
  /\ place = "filtering" /\ collected = <<>>
  /\ place' = "deduplicating"
  /\ used' = IdsOf(modules) /\ seen' = [id \in IdsOf(modules) |-> 0]
  /\ UNCHANGED <<read, collected, modules, filter, result, counter>>

\* Slip: the first module with an identifier is not counted.
KeepUncounted ==
  /\ place = "deduplicating" /\ Position <= Len(modules) /\ counter = 0
  /\ seen[Current.id] = 0
  /\ result' = Append(result, Current)
  /\ UNCHANGED <<place, read, collected, modules, filter, seen, used, counter>>

Keep ==
  /\ place = "deduplicating" /\ Position <= Len(modules) /\ counter = 0
  /\ seen[Current.id] = 0
  /\ Counted(Current.id)
  /\ result' = Append(result, Current)
  /\ UNCHANGED <<place, read, collected, modules, filter, used, counter>>

Clash ==
  /\ place = "deduplicating" /\ Position <= Len(modules) /\ counter = 0
  /\ seen[Current.id] > 0
  /\ Counted(Current.id)
  /\ counter' = seen[Current.id] + 1
  /\ UNCHANGED <<place, read, collected, modules, filter, result, used>>

\* Slip: the counter stays as it is.
NextCounterStuck ==
  /\ place = "deduplicating" /\ counter > 0
  /\ Suffixed(Current.id, counter) \in used
  /\ UNCHANGED vars

NextCounter ==
  /\ place = "deduplicating" /\ counter > 0
  /\ Suffixed(Current.id, counter) \in used
  /\ counter' = counter + 1
  /\ UNCHANGED <<place, read, collected, modules, filter, result, seen, used>>

Rename ==
  LET id == Suffixed(Current.id, counter) IN
  /\ place = "deduplicating" /\ counter > 0
  /\ id \notin used
  /\ used' = used \cup {id}
  /\ result' = Append(result, [Current EXCEPT !.id = id, !.renamed = Current.id])
  /\ counter' = 0
  /\ UNCHANGED <<place, read, collected, modules, filter, seen>>

Deduplicated ==
  /\ place = "deduplicating" /\ Position > Len(modules)
  /\ place' = "labelling"
  /\ UNCHANGED <<read, collected, modules, filter, deduplication>>

-----------------------------------------------------------------------------
\* _with_legality_warning(), last of all.
Label ==
  /\ place = "labelling"
  /\ result' = [i \in DOMAIN result |->
       [result[i] EXCEPT !.illegal = IF Legal(result[i].id) THEN None ELSE result[i].id]]
  /\ place' = "done"
  /\ UNCHANGED <<read, collected, modules, filter, seen, used, counter>>

-----------------------------------------------------------------------------
Next ==
  \/ Skip \/ Collect \/ EndOfDocument \/ Filter
  \/ Prepare \/ Keep \/ Clash \/ NextCounter \/ Rename \/ Deduplicated
  \/ Label

Spec == Init /\ [][Next]_vars

\* scan() is sequential: it goes on until it returns.
FairSpec == Spec /\ WF_vars(Next)

-----------------------------------------------------------------------------
ModuleRecords == [operation : Nat, id : Ids, renamed : Ids \cup {None},
                  illegal : Ids \cup {None}]

TypeOK ==
  /\ place \in {"collecting", "filtering", "deduplicating", "labelling", "done"}
  /\ read \in 0..MaxOperations
  /\ collected \in Seq(ModuleRecords)
  /\ modules \in Seq(ModuleRecords) /\ result \in Seq(ModuleRecords)
  /\ Len(result) <= Len(modules)
  /\ filter \in Filters
  /\ used \subseteq Ids
  /\ place \in {"deduplicating", "labelling", "done"} => seen \in [IdsOf(modules) -> Nat]
  /\ counter \in Nat

\* "generated suffixes never collide with an ID that already exists in the
\* input list" (scanner.py:111-112), nor with each other: what is emitted is
\* unique, whichever identifiers end in numbers and in whatever order.
UniqueIds ==
  \A i, j \in DOMAIN result : result[i].id = result[j].id => i = j

\* A module is renamed if and only if an earlier one has its identifier, it is
\* then told from which one (scanner.py:117-119), and nothing is lost.
OnlyDuplicatesAreRenamed ==
  /\ \A i \in DOMAIN result :
       /\ result[i].operation = modules[i].operation
       /\ IF \E j \in 1..(i - 1) : modules[j].id = modules[i].id
          THEN result[i].renamed = modules[i].id /\ result[i].id # modules[i].id
          ELSE result[i].renamed = None /\ result[i].id = modules[i].id
  /\ place = "done" => Len(result) = Len(modules)

\* Renaming neither makes an identifier legal nor illegal, and one that is not
\* "is emitted anyway; after deduplication it carries a warning naming the ID
\* actually emitted" (openapi_scanner.py:274-275), not the one it started with.
WarningsNameTheEmittedId ==
  place = "done" =>
    \A i \in DOMAIN result :
      /\ Legal(modules[i].id) => result[i].illegal = None
      /\ ~Legal(modules[i].id) => result[i].illegal = result[i].id

\* What a module says of its name is true: of the name it had before it was
\* renamed, and of the one emitted if it is illegal.
WarningsAreTrue == OnlyDuplicatesAreRenamed /\ WarningsNameTheEmittedId

\* The search for a free suffix never gets far: each number it passes over is
\* in an identifier of the input or in one given before (scanner.py:133).
SearchIsShort == counter <= 3 * Len(modules)

\* The search for a free suffix ends, and so does the scan.
ScanEnds == <>(place = "done")
=============================================================================
