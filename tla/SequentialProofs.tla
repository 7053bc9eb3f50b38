-------------------------- MODULE SequentialProofs --------------------------
(***************************************************************************)
(* What runs on one thread: a scan, the naming of an operation, the        *)
(* matching of a name, the building of a listing's rows and groups, and    *)
(* the transformations of a list, a configuration or an entry, and the     *)
(* extraction of schemas.  For the five loops there is an invariant each,  *)
(* IInv (with SearchInv for the search it ends in), NamingInv, MatchInv,   *)
(* ViewInv and ExtractionInv; an answer of the transformations follows     *)
(* from the definitions of what gives it.                                  *)
(***************************************************************************)
EXTENDS ScanPipeline, ModuleIds, NameMatcher, Transformations, ViewModel, OpenApiSchemas,
        SequenceTheorems, FiniteSetTheorems, NaturalsInduction, WellFoundedInduction, TLAPS

(* The scan: what it emits, for any document, any names and any filter.    *)

Underway == place \in {"deduplicating", "labelling", "done"}
Finished == place \in {"labelling", "done"}

LEMMA Constants == Normal \in [Names -> Ids] /\ MaxOperations \in Nat
  BY ConstantsAssumption

\* An identifier with one more number is another identifier of the same word.
LEMMA SuffixedId ==
  ASSUME NEW id \in Ids, NEW n \in Nat
  PROVE  /\ Suffixed(id, n) \in Ids
         /\ Suffixed(id, n) # id
         /\ Suffixed(id, n).word = id.word
<1>1. id.suffix \in Seq(Nat) /\ id.word \in Words
  BY DEF Ids
<1>2. Append(id.suffix, n) \in Seq(Nat) /\ Len(Append(id.suffix, n)) = Len(id.suffix) + 1
  BY <1>1
<1>3. Append(id.suffix, n) # id.suffix
  BY <1>1, <1>2
<1>4. Suffixed(id, n).suffix = Append(id.suffix, n) /\ Suffixed(id, n).word = id.word
  BY DEF Suffixed, Ids
<1>5. Suffixed(id, n) \in Ids
  BY <1>1, <1>2 DEF Suffixed, Ids
<1> QED
  BY <1>3, <1>4, <1>5

\* A sequence with one more element: the old places are as they were.
LEMMA OneMore ==
  ASSUME NEW S, NEW s \in Seq(S), NEW e \in S
  PROVE  /\ Append(s, e) \in Seq(S)
         /\ Len(Append(s, e)) = Len(s) + 1
         /\ DOMAIN Append(s, e) = 1..(Len(s) + 1)
         /\ Append(s, e)[Len(s) + 1] = e
         /\ \A i \in 1..Len(s) : Append(s, e)[i] = s[i]
  OBVIOUS

-----------------------------------------------------------------------------
\* Nothing is deduplicated before the filter is through, and no module has
\* been renamed by then.
Unrenamed ==
  /\ ~Underway => result = <<>> /\ counter = 0
  /\ \A i \in 1..Len(collected) : collected[i].renamed = None
  /\ \A i \in 1..Len(modules) : modules[i].renamed = None

\* used_ids holds the identifiers of the input and those emitted.
InUse ==
  Underway => /\ \A i \in 1..Len(modules) : modules[i].id \in used
              /\ \A i \in 1..Len(result) : result[i].id \in used

\* What deduplicate_ids made of each module: another identifier of the same
\* word, one that the input does not have, exactly if an earlier one has its
\* own.
AccountedAt(i) ==
  /\ result[i].operation = modules[i].operation
  /\ result[i].id.word = modules[i].id.word
  /\ \/ /\ \A j \in 1..(i - 1) : modules[j].id # modules[i].id
        /\ result[i].renamed = None /\ result[i].id = modules[i].id
     \/ /\ \E j \in 1..(i - 1) : modules[j].id = modules[i].id
        /\ result[i].renamed = modules[i].id /\ result[i].id # modules[i].id
        /\ \A j \in 1..Len(modules) : modules[j].id # result[i].id

Accounted == \A i \in 1..Len(result) : AccountedAt(i)

\* seen_count counts those identifiers that have been met, and a renaming is
\* under way only for one of them.
Counts ==
  /\ Underway =>
       \A id \in IdsOf(modules) :
         seen[id] > 0 <=> \E j \in 1..Len(result) : modules[j].id = id
  /\ counter > 0 => /\ place = "deduplicating" /\ Position <= Len(modules)
                    /\ \E j \in 1..Len(result) : modules[j].id = Current.id

Complete == Finished => Len(result) = Len(modules)

Labelled ==
  place = "done" =>
    \A i \in 1..Len(result) :
      result[i].illegal = IF Legal(result[i].id) THEN None ELSE result[i].id

IInv == /\ TypeOK /\ Unrenamed /\ InUse /\ Accounted /\ Counts
        /\ UniqueIds /\ Complete /\ Labelled
-----------------------------------------------------------------------------
LEMMA InitIInv == Init => IInv
<1> SUFFICES ASSUME Init PROVE IInv
  OBVIOUS
<1>1. place = "collecting" /\ read = 0 /\ counter = 0 /\ used = {} /\ filter \in Filters
  BY DEF Init
<1>2. collected = <<>> /\ modules = <<>> /\ result = <<>>
  BY DEF Init
<1>3. collected \in Seq(ModuleRecords) /\ modules \in Seq(ModuleRecords)
      /\ result \in Seq(ModuleRecords)
  BY <1>2
<1>4. TypeOK
  BY <1>1, <1>2, <1>3, Constants DEF TypeOK
<1>5. Unrenamed /\ InUse /\ Accounted /\ Counts /\ UniqueIds /\ Complete /\ Labelled
  BY <1>1, <1>2 DEF Unrenamed, InUse, Accounted, Counts, UniqueIds, Complete, Labelled,
                    Underway, Finished
<1> QED
  BY <1>4, <1>5 DEF IInv

\* The module deduplicate_ids is at.
LEMMA CurrentIsModule ==
  ASSUME TypeOK, Position <= Len(modules)
  PROVE  /\ Position \in 1..Len(modules) /\ Len(result) \in Nat
         /\ Current \in ModuleRecords
         /\ Current.id \in Ids /\ Current.id \in IdsOf(modules)
<1>1. modules \in Seq(ModuleRecords) /\ result \in Seq(ModuleRecords)
  BY DEF TypeOK
<1>2. Len(result) \in Nat /\ Position \in 1..Len(modules)
  BY <1>1 DEF Position
<1>3. Current \in ModuleRecords
  BY <1>1, <1>2 DEF Current
<1>4. Current.id \in Ids
  BY <1>3 DEF ModuleRecords
<1>5. Current.id \in IdsOf(modules)
  BY <1>1, <1>2 DEF Current, IdsOf
<1> QED
  BY <1>2, <1>3, <1>4, <1>5

LEMMA ModuleIsRecord ==
  ASSUME NEW n \in Nat, NEW id \in Ids
  PROVE  Module(n, id) \in ModuleRecords /\ Module(n, id).renamed = None
  BY DEF Module, ModuleRecords

\* What the label makes of the result.
LEMMA LabelledSequence ==
  ASSUME TypeOK, Label
  PROVE  /\ result' \in Seq(ModuleRecords) /\ Len(result') = Len(result)
         /\ \A i \in 1..Len(result) :
              /\ result'[i].operation = result[i].operation
              /\ result'[i].id = result[i].id /\ result'[i].renamed = result[i].renamed
              /\ result'[i].illegal = IF Legal(result[i].id) THEN None ELSE result[i].id
<1> DEFINE Lab(m) == [m EXCEPT !.illegal = IF Legal(m.id) THEN None ELSE m.id]
<1>1. result \in Seq(ModuleRecords)
  BY DEF TypeOK
<1>2. \A m \in ModuleRecords : Lab(m) \in ModuleRecords
  BY DEF ModuleRecords
<1>3. \A m \in ModuleRecords :
        /\ Lab(m).operation = m.operation /\ Lab(m).id = m.id /\ Lab(m).renamed = m.renamed
        /\ Lab(m).illegal = IF Legal(m.id) THEN None ELSE m.id
  BY DEF ModuleRecords
<1>4. DOMAIN result = 1..Len(result) /\ Len(result) \in Nat
      /\ \A i \in 1..Len(result) : result[i] \in ModuleRecords
  BY <1>1
<1>5. result' = [i \in 1..Len(result) |-> Lab(result[i])]
  BY <1>4 DEF Label
<1>6. result' \in [1..Len(result) -> ModuleRecords]
  <2>1. \A i \in 1..Len(result) : Lab(result[i]) \in ModuleRecords
    BY <1>2, <1>4
  <2> HIDE DEF Lab
  <2> QED
    BY <1>5, <2>1
<1>7. result' \in Seq(ModuleRecords) /\ Len(result') = Len(result)
  BY <1>4, <1>6
<1>8. \A i \in 1..Len(result) : result'[i] = Lab(result[i])
  <2> HIDE DEF Lab
  <2> QED
    BY <1>5
<1> QED
  BY <1>3, <1>4, <1>7, <1>8

LEMMA TypeInvariance == TypeOK /\ Unrenamed /\ Counts /\ [Next]_vars => TypeOK'
<1> SUFFICES ASSUME TypeOK, Unrenamed, Counts, [Next]_vars PROVE TypeOK'
  OBVIOUS
<1>0. MaxOperations \in Nat /\ Normal \in [Names -> Ids]
  BY Constants
<1>t. /\ place \in {"collecting", "filtering", "deduplicating", "labelling", "done"}
      /\ read \in 0..MaxOperations /\ read \in Nat
      /\ collected \in Seq(ModuleRecords)
      /\ modules \in Seq(ModuleRecords) /\ result \in Seq(ModuleRecords)
      /\ Len(result) <= Len(modules) /\ Len(result) \in Nat /\ Len(modules) \in Nat
      /\ filter \in Filters /\ used \subseteq Ids /\ counter \in Nat
  BY <1>0 DEF TypeOK
<1>1. CASE Skip
  BY <1>1, <1>0, <1>t DEF Skip, TypeOK, deduplication, IdsOf
<1>2. CASE Collect
  <2>1. PICK text \in Names : collected' = Append(collected, Module(read', Normal[text]))
    BY <1>2 DEF Collect
  <2>2. read' \in 0..MaxOperations /\ read' \in Nat
    BY <1>2, <1>0, <1>t DEF Collect
  <2>3. collected' \in Seq(ModuleRecords)
    BY <2>1, <2>2, <1>0, <1>t, ModuleIsRecord, OneMore
  <2> QED
    BY <1>2, <2>2, <2>3, <1>t DEF Collect, TypeOK, deduplication, IdsOf
<1>3. CASE EndOfDocument
  BY <1>3, <1>t DEF EndOfDocument, TypeOK, deduplication, IdsOf
<1>4. CASE Filter
  <2>1. result = <<>>
    BY <1>4 DEF Filter, Unrenamed, Underway
  <2>2. Head(collected) \in ModuleRecords /\ Tail(collected) \in Seq(ModuleRecords)
    BY <1>4, <1>t DEF Filter
  <2>3. collected' \in Seq(ModuleRecords) /\ modules' \in Seq(ModuleRecords)
    BY <1>4, <2>2, <1>t, OneMore DEF Filter
  <2>4. Len(result) <= Len(modules')
    BY <2>1, <2>3
  <2> QED
    BY <1>4, <2>3, <2>4, <1>t DEF Filter, TypeOK, deduplication
<1>5. CASE Prepare
  <2>1. used' \subseteq Ids
    <3>1. \A i \in DOMAIN modules : modules[i] \in ModuleRecords
      BY <1>t
    <3>2. \A i \in DOMAIN modules : modules[i].id \in Ids
      BY <3>1 DEF ModuleRecords
    <3>3. used' = IdsOf(modules)
      BY <1>5 DEF Prepare
    <3> QED
      BY <3>2, <3>3 DEF IdsOf
  <2>2. seen' \in [IdsOf(modules') -> Nat]
    BY <1>5 DEF Prepare, IdsOf
  <2> QED
    BY <1>5, <2>1, <2>2, <1>t DEF Prepare, TypeOK
<1>6. CASE Keep
  <2>1. Current \in ModuleRecords /\ Position <= Len(modules)
    BY <1>6, CurrentIsModule DEF Keep
  <2>2. result' \in Seq(ModuleRecords) /\ Len(result') <= Len(modules)
    BY <1>6, <2>1, <1>t, OneMore DEF Keep, Position
  <2>3. Current.id \in IdsOf(modules) /\ seen \in [IdsOf(modules) -> Nat]
    BY <1>6, CurrentIsModule DEF Keep, TypeOK
  <2>4. seen' \in [IdsOf(modules') -> Nat]
    BY <1>6, <2>3 DEF Keep, Counted, IdsOf
  <2> QED
    BY <1>6, <2>2, <2>4, <1>t DEF Keep, TypeOK
<1>7. CASE Clash
  <2>1. Current.id \in IdsOf(modules)
    BY <1>7, CurrentIsModule DEF Clash
  <2>2. seen \in [IdsOf(modules) -> Nat]
    BY <1>7 DEF Clash, TypeOK
  <2>3. seen' \in [IdsOf(modules') -> Nat] /\ counter' \in Nat
    BY <1>7, <2>1, <2>2 DEF Clash, Counted, IdsOf
  <2> QED
    BY <1>7, <2>3, <1>t DEF Clash, TypeOK
<1>8. CASE NextCounter
  <2>1. seen' \in [IdsOf(modules') -> Nat] /\ counter' \in Nat
    BY <1>8, <1>t DEF NextCounter, TypeOK, IdsOf
  <2> QED
    BY <1>8, <2>1, <1>t DEF NextCounter, TypeOK
<1>9. CASE Rename
  <2>1. Position <= Len(modules)
    BY <1>9 DEF Rename, Counts
  <2>2. Current \in ModuleRecords /\ Current.id \in Ids
    BY <2>1, CurrentIsModule
  <2>3. Suffixed(Current.id, counter) \in Ids
    BY <2>2, <1>t, SuffixedId
  <2>4. [Current EXCEPT !.id = Suffixed(Current.id, counter), !.renamed = Current.id]
          \in ModuleRecords
    BY <2>2, <2>3 DEF ModuleRecords
  <2>5. result' \in Seq(ModuleRecords) /\ Len(result') <= Len(modules)
    BY <1>9, <2>1, <2>4, <1>t, OneMore DEF Rename, Position
  <2>6. used' \subseteq Ids
    BY <1>9, <2>3, <1>t DEF Rename
  <2>7. seen' \in [IdsOf(modules') -> Nat]
    BY <1>9 DEF Rename, TypeOK, IdsOf
  <2> QED
    BY <1>9, <2>5, <2>6, <2>7, <1>t DEF Rename, TypeOK
<1>10. CASE Deduplicated
  BY <1>10, <1>t DEF Deduplicated, TypeOK, deduplication, IdsOf
<1>11. CASE Label
  <2>1. result' \in Seq(ModuleRecords) /\ Len(result') = Len(result)
    BY <1>11, LabelledSequence
  <2>2. seen' \in [IdsOf(modules') -> Nat]
    BY <1>11 DEF Label, TypeOK, IdsOf
  <2> QED
    BY <1>11, <2>1, <2>2, <1>t DEF Label, TypeOK
<1>12. CASE UNCHANGED vars
  BY <1>12, <1>t DEF vars, TypeOK, deduplication, IdsOf
<1> QED
  BY <1>1, <1>2, <1>3, <1>4, <1>5, <1>6, <1>7, <1>8, <1>9, <1>10, <1>11, <1>12, Zenon DEF Next

-----------------------------------------------------------------------------
\* What Keep and Rename append, and that the rest of the result stays.
LEMMA KeepAppends ==
  ASSUME TypeOK, Keep
  PROVE  /\ modules' = modules /\ Len(result') = Len(result) + 1
         /\ result'[Position] = Current
         /\ \A i \in 1..Len(result) : result'[i] = result[i]
<1>1. Current \in ModuleRecords /\ result \in Seq(ModuleRecords)
  BY CurrentIsModule DEF Keep, TypeOK
<1> QED
  BY <1>1, OneMore DEF Keep, Position

LEMMA RenameAppends ==
  ASSUME TypeOK, Counts, Rename, NEW id, id = Suffixed(Current.id, counter)
  PROVE  /\ modules' = modules /\ Len(result') = Len(result) + 1
         /\ \A i \in 1..Len(result) : result'[i] = result[i]
         /\ result'[Position].operation = Current.operation
         /\ result'[Position].id = id /\ result'[Position].renamed = Current.id
         /\ id # Current.id /\ id.word = Current.id.word
         /\ id \notin used /\ used' = used \cup {id}
<1>1. Position <= Len(modules) /\ counter \in Nat
  BY DEF Rename, Counts, TypeOK
<1>2. Current \in ModuleRecords /\ Current.id \in Ids /\ result \in Seq(ModuleRecords)
  BY <1>1, CurrentIsModule DEF TypeOK
<1>3. id \in Ids /\ id # Current.id /\ id.word = Current.id.word
  BY <1>1, <1>2, SuffixedId
<1> DEFINE m == [Current EXCEPT !.id = id, !.renamed = Current.id]
<1>4. /\ m \in ModuleRecords /\ m.operation = Current.operation
      /\ m.id = id /\ m.renamed = Current.id
  BY <1>2, <1>3 DEF ModuleRecords
<1>5. result' = Append(result, m) /\ modules' = modules /\ id \notin used /\ used' = used \cup {id}
  BY DEF Rename
<1>6. /\ Len(result') = Len(result) + 1 /\ result'[Position] = m
      /\ \A i \in 1..Len(result) : result'[i] = result[i]
  <2> HIDE DEF m
  <2> QED
    BY <1>2, <1>4, <1>5, OneMore DEF Position
<1> QED
  BY <1>3, <1>4, <1>5, <1>6

LEMMA UnrenamedInvariance == TypeOK /\ Unrenamed /\ Counts /\ [Next]_vars => Unrenamed'
<1> SUFFICES ASSUME TypeOK, Unrenamed, Counts, [Next]_vars PROVE Unrenamed'
  OBVIOUS
<1>0. /\ collected \in Seq(ModuleRecords) /\ modules \in Seq(ModuleRecords)
      /\ MaxOperations \in Nat /\ Normal \in [Names -> Ids] /\ read \in 0..MaxOperations
  BY Constants DEF TypeOK
<1> USE DEF Unrenamed, Underway
<1>1. CASE Skip          BY <1>1 DEF Skip, deduplication
<1>2. CASE Collect
  <2>1. PICK text \in Names : collected' = Append(collected, Module(read', Normal[text]))
    BY <1>2 DEF Collect
  <2>2. read' \in Nat
    BY <1>2, <1>0 DEF Collect
  <2>3. /\ Module(read', Normal[text]) \in ModuleRecords
        /\ Module(read', Normal[text]).renamed = None
    BY <2>2, <1>0, ModuleIsRecord
  <2>4. \A i \in 1..Len(collected') : collected'[i].renamed = None
    BY <2>1, <2>3, <1>0, OneMore
  <2> QED
    BY <1>2, <2>4 DEF Collect, deduplication
<1>3. CASE EndOfDocument BY <1>3 DEF EndOfDocument, deduplication
<1>4. CASE Filter
  <2>1. /\ Head(collected) \in ModuleRecords /\ Head(collected).renamed = None
        /\ \A i \in 1..Len(Tail(collected)) : Tail(collected)[i].renamed = None
    BY <1>4, <1>0 DEF Filter
  <2>2. \A i \in 1..Len(modules') : modules'[i].renamed = None
    BY <1>4, <2>1, <1>0, OneMore DEF Filter
  <2> QED
    BY <1>4, <2>1, <2>2 DEF Filter, deduplication
<1>5. CASE Prepare       BY <1>5 DEF Prepare
<1>6. CASE Keep          BY <1>6 DEF Keep
<1>7. CASE Clash         BY <1>7 DEF Clash
<1>8. CASE NextCounter   BY <1>8 DEF NextCounter
<1>9. CASE Rename        BY <1>9 DEF Rename
<1>10. CASE Deduplicated BY <1>10 DEF Deduplicated, deduplication
<1>11. CASE Label        BY <1>11 DEF Label
<1>12. CASE UNCHANGED vars BY <1>12 DEF vars, deduplication
<1> QED
  BY <1>1, <1>2, <1>3, <1>4, <1>5, <1>6, <1>7, <1>8, <1>9, <1>10, <1>11, <1>12, Zenon DEF Next

LEMMA InUseInvariance ==
  TypeOK /\ Unrenamed /\ InUse /\ Counts /\ [Next]_vars => InUse'
<1> SUFFICES ASSUME TypeOK, Unrenamed, InUse, Counts, [Next]_vars PROVE InUse'
  OBVIOUS
<1>0. Len(result) \in Nat /\ modules \in Seq(ModuleRecords)
  BY DEF TypeOK
<1> USE DEF InUse, Underway
<1>1. CASE Skip          BY <1>1 DEF Skip, deduplication
<1>2. CASE Collect       BY <1>2 DEF Collect, deduplication
<1>3. CASE EndOfDocument BY <1>3 DEF EndOfDocument, deduplication
<1>4. CASE Filter        BY <1>4 DEF Filter, deduplication
<1>5. CASE Prepare
  <2>1. result' = <<>> /\ modules' = modules /\ used' = IdsOf(modules)
    BY <1>5 DEF Prepare, Unrenamed
  <2> QED
    BY <2>1, <1>0 DEF IdsOf
<1>6. CASE Keep
  <2>1. Current.id \in used /\ used' = used /\ place' = place /\ place = "deduplicating"
    BY <1>6, CurrentIsModule DEF Keep, Current
  <2> QED
    BY <1>6, <2>1, <1>0, KeepAppends DEF Position
<1>7. CASE Clash         BY <1>7 DEF Clash
<1>8. CASE NextCounter   BY <1>8 DEF NextCounter
<1>9. CASE Rename
  <2>1. place' = place /\ place = "deduplicating"
    BY <1>9 DEF Rename
  <2> QED
    BY <1>9, <2>1, <1>0, RenameAppends DEF Position
<1>10. CASE Deduplicated BY <1>10 DEF Deduplicated, deduplication
<1>11. CASE Label
  <2>1. used' = used /\ modules' = modules /\ Underway
    BY <1>11 DEF Label
  <2> QED
    BY <1>11, <2>1, LabelledSequence
<1>12. CASE UNCHANGED vars BY <1>12 DEF vars, deduplication
<1> QED
  BY <1>1, <1>2, <1>3, <1>4, <1>5, <1>6, <1>7, <1>8, <1>9, <1>10, <1>11, <1>12, Zenon DEF Next

\* Before deduplicate_ids there is no result to speak of, and the actions that
\* are not its own nor the label's leave result and modules alone.
LEMMA OtherSteps ==
  ASSUME TypeOK, Unrenamed,
         Skip \/ Collect \/ EndOfDocument \/ Filter \/ Prepare \/ Clash \/ NextCounter
           \/ Deduplicated \/ UNCHANGED vars
  PROVE  /\ result' = result
         /\ modules' = modules \/ result = <<>>
  BY DEF Skip, Collect, EndOfDocument, Filter, Prepare, Clash, NextCounter, Deduplicated,
         deduplication, vars, Unrenamed, Underway

LEMMA StepKinds ==
  ASSUME [Next]_vars
  PROVE  \/ Keep \/ Rename \/ Label
         \/ Skip \/ Collect \/ EndOfDocument \/ Filter \/ Prepare \/ Clash \/ NextCounter
              \/ Deduplicated \/ UNCHANGED vars
  BY Zenon DEF Next

LEMMA AccountedInvariance ==
  TypeOK /\ Unrenamed /\ InUse /\ Accounted /\ Counts /\ [Next]_vars => Accounted'
<1> SUFFICES ASSUME TypeOK, Unrenamed, InUse, Accounted, Counts, [Next]_vars PROVE Accounted'
  OBVIOUS
<1>0. Len(result) \in Nat /\ modules \in Seq(ModuleRecords)
  BY DEF TypeOK
<1>p. PICK n : n = Position
  OBVIOUS
<1>q. n = Len(result) + 1 /\ n - 1 = Len(result)
  BY <1>0, <1>p DEF Position
<1>a. ASSUME modules' = modules, Len(result') = Len(result) + 1,
             \A i \in 1..Len(result) : result'[i] = result[i], AccountedAt(n)'
      PROVE  Accounted'
  <2>1. \A i \in 1..Len(result') : i \in 1..Len(result) \/ i = n
    BY <1>0, <1>a, <1>q
  <2>2. \A i \in 1..Len(result) : AccountedAt(i)'
    BY <1>a DEF Accounted, AccountedAt
  <2> QED
    BY <1>a, <2>1, <2>2 DEF Accounted
<1>1. CASE Keep
  <2>1. /\ n \in 1..Len(modules) /\ Current = modules[n]
        /\ Current.id \in IdsOf(modules)
    BY <1>1, <1>p, CurrentIsModule DEF Keep, Current
  <2>2. \A j \in 1..Len(result) : modules[j].id # Current.id
    <3>1. seen[Current.id] = 0 /\ Underway
      BY <1>1 DEF Keep, Underway
    <3>2. seen[Current.id] > 0 <=> \E j \in 1..Len(result) : modules[j].id = Current.id
      BY <2>1, <3>1 DEF Counts
    <3> QED
      BY <3>1, <3>2
  <2>3. Current.renamed = None
    BY <2>1 DEF Unrenamed
  <2>4. /\ modules' = modules /\ Len(result') = Len(result) + 1
        /\ result'[n] = Current
        /\ \A i \in 1..Len(result) : result'[i] = result[i]
    BY <1>1, <1>p, KeepAppends
  <2>5. AccountedAt(n)'
    BY <1>q, <2>1, <2>2, <2>3, <2>4 DEF AccountedAt
  <2> QED
    BY <1>a, <2>4, <2>5
<1>2. CASE Rename
  <2> DEFINE id == Suffixed(Current.id, counter)
  <2>1. /\ modules' = modules /\ Len(result') = Len(result) + 1
        /\ \A i \in 1..Len(result) : result'[i] = result[i]
        /\ result'[n].operation = Current.operation
        /\ result'[n].id = id /\ result'[n].renamed = Current.id
        /\ id # Current.id /\ id.word = Current.id.word /\ id \notin used
    BY <1>2, <1>p, RenameAppends
  <2>2. Current = modules[n] /\ Underway
    BY <1>2, <1>p DEF Current, Rename, Underway
  <2>3. \A j \in 1..Len(modules) : modules[j].id # id
    BY <2>1, <2>2 DEF InUse
  <2>4. \E j \in 1..Len(result) : modules[j].id = Current.id
    BY <1>2 DEF Rename, Counts
  <2> HIDE DEF id
  <2>5. AccountedAt(n)'
    BY <1>q, <2>1, <2>2, <2>3, <2>4 DEF AccountedAt
  <2> QED
    BY <1>a, <2>1, <2>5
<1>3. CASE Label
  <2>1. modules' = modules
    BY <1>3 DEF Label
  <2> QED
    BY <1>0, <1>3, <2>1, LabelledSequence DEF Accounted, AccountedAt
<1>4. CASE Skip \/ Collect \/ EndOfDocument \/ Filter \/ Prepare \/ Clash \/ NextCounter
             \/ Deduplicated \/ UNCHANGED vars
  BY <1>4, OtherSteps DEF Accounted, AccountedAt
<1> QED
  BY <1>1, <1>2, <1>3, <1>4, StepKinds

LEMMA CountsInvariance == TypeOK /\ Unrenamed /\ Counts /\ [Next]_vars => Counts'
<1> SUFFICES ASSUME TypeOK, Unrenamed, Counts, [Next]_vars PROVE Counts'
  OBVIOUS
<1>0. /\ Len(result) \in Nat /\ counter \in Nat
      /\ modules \in Seq(ModuleRecords) /\ result \in Seq(ModuleRecords)
      /\ Underway => seen \in [IdsOf(modules) -> Nat]
  BY DEF TypeOK, Underway
<1> USE DEF Counts, Underway, Position, Current
<1>1. CASE Skip          BY <1>1 DEF Skip, deduplication, IdsOf
<1>2. CASE Collect       BY <1>2 DEF Collect, deduplication, IdsOf
<1>3. CASE EndOfDocument BY <1>3 DEF EndOfDocument, deduplication, IdsOf
<1>4. CASE Filter        BY <1>4, <1>0 DEF Filter, deduplication, Unrenamed
<1>5. CASE Prepare
  <2>1. result' = <<>> /\ counter' = 0 /\ modules' = modules
    BY <1>5 DEF Prepare, Unrenamed
  <2>2. \A id \in IdsOf(modules') : seen'[id] = 0
    BY <1>5 DEF Prepare, IdsOf
  <2> QED
    BY <2>1, <2>2
<1>6. CASE Keep
  <2>1. Position \in 1..Len(modules) /\ Current.id \in IdsOf(modules)
    BY <1>6, CurrentIsModule DEF Keep
  <2>2. /\ seen \in [IdsOf(modules) -> Nat]
        /\ seen' = [seen EXCEPT ![Current.id] = seen[Current.id] + 1]
    BY <1>6, <1>0 DEF Keep, Counted
  <2>3. modules' = modules /\ Len(result') = Len(result) + 1 /\ counter' = 0
    BY <1>6, KeepAppends DEF Keep
  <2>4. ASSUME NEW id \in IdsOf(modules')
        PROVE  seen'[id] > 0 <=> \E j \in 1..Len(result') : modules'[j].id = id
    <3>1. id \in IdsOf(modules)
      BY <2>3 DEF IdsOf
    <3>2. seen[id] > 0 <=> \E j \in 1..Len(result) : modules[j].id = id
      BY <1>6, <3>1 DEF Keep
    <3>3. CASE id = Current.id
      <4>1. seen'[id] = seen[id] + 1 /\ seen[id] \in Nat
        BY <2>1, <2>2, <3>1, <3>3
      <4>2. seen'[id] > 0
        BY <4>1
      <4>3. Len(result) + 1 \in 1..Len(result') /\ modules'[Len(result) + 1].id = id
        BY <1>0, <2>3, <3>3
      <4> QED
        BY <4>2, <4>3
    <3>4. CASE id # Current.id
      BY <1>0, <2>1, <2>2, <2>3, <3>1, <3>2, <3>4
    <3> QED
      BY <3>3, <3>4
  <2> QED
    BY <2>3, <2>4
<1>7. CASE Clash
  <2>1. Position \in 1..Len(modules) /\ Current.id \in IdsOf(modules)
    BY <1>7, CurrentIsModule DEF Clash
  <2>2. /\ seen \in [IdsOf(modules) -> Nat] /\ seen[Current.id] > 0
        /\ seen' = [seen EXCEPT ![Current.id] = seen[Current.id] + 1]
    BY <1>7, <1>0 DEF Clash, Counted
  <2>3. modules' = modules /\ result' = result /\ place' = "deduplicating" /\ Underway
    BY <1>7 DEF Clash
  <2>4. \E j \in 1..Len(result) : modules[j].id = Current.id
    BY <2>1, <2>2, <2>3
  <2>5. ASSUME NEW id \in IdsOf(modules')
        PROVE  seen'[id] > 0 <=> \E j \in 1..Len(result') : modules'[j].id = id
    <3>1. id \in IdsOf(modules)
      BY <2>3 DEF IdsOf
    <3>2. seen'[id] > 0 <=> seen[id] > 0
      BY <2>1, <2>2, <3>1
    <3> QED
      BY <2>3, <3>1, <3>2
  <2> QED
    BY <1>0, <2>1, <2>3, <2>4, <2>5
<1>8. CASE NextCounter   BY <1>8, <1>0 DEF NextCounter, IdsOf
<1>9. CASE Rename
  <2>1. /\ counter' = 0 /\ seen' = seen /\ modules' = modules
        /\ place = "deduplicating"
    BY <1>9 DEF Rename
  <2>2. Len(result') = Len(result) + 1
    BY <1>9, RenameAppends
  <2>3. \E j \in 1..Len(result) : modules[j].id = Current.id
    BY <1>9 DEF Rename
  <2>4. ASSUME NEW id \in IdsOf(modules')
        PROVE  seen'[id] > 0 <=> \E j \in 1..Len(result') : modules'[j].id = id
    <3>1. id \in IdsOf(modules)
      BY <2>1 DEF IdsOf
    <3>2. seen[id] > 0 <=> \E j \in 1..Len(result) : modules[j].id = id
      BY <2>1, <3>1
    <3>3. (\E j \in 1..Len(result') : modules[j].id = id)
            <=> (\E j \in 1..Len(result) : modules[j].id = id)
      <4>1. CASE \E j \in 1..Len(result') : modules[j].id = id
        <5>1. PICK j \in 1..Len(result') : modules[j].id = id
          BY <4>1
        <5>2. j \in 1..Len(result) \/ (j = Len(result) + 1 /\ id = Current.id)
          BY <1>0, <2>2, <5>1
        <5> QED
          BY <2>3, <5>1, <5>2
      <4>2. CASE \E j \in 1..Len(result) : modules[j].id = id
        BY <1>0, <2>2, <4>2
      <4> QED
        BY <4>1, <4>2
    <3> QED
      BY <2>1, <3>2, <3>3
  <2> QED
    BY <2>1, <2>4
<1>10. CASE Deduplicated BY <1>10, <1>0 DEF Deduplicated, deduplication, IdsOf
<1>11. CASE Label
  <2>1. Len(result') = Len(result)
    BY <1>11, LabelledSequence
  <2>2. UNCHANGED <<modules, seen, counter>> /\ place = "labelling" /\ place' = "done"
    BY <1>11 DEF Label
  <2>3. counter = 0
    BY <1>0, <2>2
  <2>4. \A id \in IdsOf(modules)' :
          seen'[id] > 0 <=> \E j \in 1..Len(result') : modules'[j].id = id
    BY <2>1, <2>2 DEF IdsOf
  <2> QED
    BY <2>2, <2>3, <2>4
<1>12. CASE UNCHANGED vars BY <1>12 DEF vars, deduplication, IdsOf
<1> QED
  BY <1>1, <1>2, <1>3, <1>4, <1>5, <1>6, <1>7, <1>8, <1>9, <1>10, <1>11, <1>12, Zenon DEF Next

LEMMA UniqueInvariance ==
  TypeOK /\ Unrenamed /\ InUse /\ Accounted /\ Counts /\ UniqueIds /\ [Next]_vars => UniqueIds'
<1> SUFFICES ASSUME TypeOK, Unrenamed, InUse, Accounted, Counts, UniqueIds, [Next]_vars
             PROVE  UniqueIds'
  OBVIOUS
<1>0. /\ Len(result) \in Nat /\ result \in Seq(ModuleRecords) /\ result' \in Seq(ModuleRecords)
      /\ modules \in Seq(ModuleRecords)
  BY TypeInvariance DEF TypeOK
<1>a. DOMAIN result = 1..Len(result) /\ DOMAIN result' = 1..Len(result')
  BY <1>0
\* One more identifier that no module of the result has leaves them distinct.
<1>b. ASSUME Len(result') = Len(result) + 1,
             \A i \in 1..Len(result) : result'[i] = result[i],
             \A i \in 1..Len(result) : result[i].id # result'[Len(result) + 1].id
      PROVE  UniqueIds'
  BY <1>0, <1>a, <1>b DEF UniqueIds
<1>1. CASE Keep
  <2>1. /\ Position \in 1..Len(modules) /\ Current = modules[Position]
        /\ Current.id \in IdsOf(modules) /\ seen[Current.id] = 0 /\ Underway
    BY <1>1, CurrentIsModule DEF Keep, Current, Underway
  <2>2. \A j \in 1..Len(result) : modules[j].id # Current.id
    BY <2>1 DEF Counts
  <2>3. \A j \in 1..Len(result) : result[j].id # Current.id
    BY <2>1, <2>2 DEF Accounted, AccountedAt
  <2> QED
    BY <1>1, <1>b, <2>3, KeepAppends DEF Position
<1>2. CASE Rename
  <2> DEFINE id == Suffixed(Current.id, counter)
  <2>1. /\ Len(result') = Len(result) + 1
        /\ \A i \in 1..Len(result) : result'[i] = result[i]
        /\ result'[Position].id = id /\ id \notin used
    BY <1>2, RenameAppends
  <2>2. Underway
    BY <1>2 DEF Rename, Underway
  <2> HIDE DEF id
  <2> QED
    BY <1>b, <2>1, <2>2 DEF InUse, Position
<1>3. CASE Label
  BY <1>a, <1>3, LabelledSequence DEF UniqueIds
<1>4. CASE Skip \/ Collect \/ EndOfDocument \/ Filter \/ Prepare \/ Clash \/ NextCounter
             \/ Deduplicated \/ UNCHANGED vars
  BY <1>4, OtherSteps DEF UniqueIds
<1> QED
  BY <1>1, <1>2, <1>3, <1>4, StepKinds

LEMMA EndInvariance ==
  TypeOK /\ Complete /\ Labelled /\ [Next]_vars => Complete' /\ Labelled'
<1> SUFFICES ASSUME TypeOK, Complete, Labelled, [Next]_vars PROVE Complete' /\ Labelled'
  OBVIOUS
<1>0. Len(result) \in Nat /\ Len(modules) \in Nat /\ Len(result) <= Len(modules)
  BY DEF TypeOK
<1> USE DEF Complete, Labelled, Finished
<1>1. CASE Skip          BY <1>1 DEF Skip
<1>2. CASE Collect       BY <1>2 DEF Collect
<1>3. CASE EndOfDocument BY <1>3 DEF EndOfDocument
<1>4. CASE Filter        BY <1>4 DEF Filter
<1>5. CASE Prepare       BY <1>5 DEF Prepare
<1>6. CASE Keep          BY <1>6 DEF Keep
<1>7. CASE Clash         BY <1>7 DEF Clash
<1>8. CASE NextCounter   BY <1>8 DEF NextCounter
<1>9. CASE Rename        BY <1>9 DEF Rename
<1>10. CASE Deduplicated
  BY <1>10, <1>0 DEF Deduplicated, Position, deduplication
<1>11. CASE Label
  <2>1. modules' = modules /\ Len(result) = Len(modules)
    BY <1>11 DEF Label
  <2> QED
    BY <1>11, <2>1, LabelledSequence
<1>12. CASE UNCHANGED vars BY <1>12 DEF vars, deduplication
<1> QED
  BY <1>1, <1>2, <1>3, <1>4, <1>5, <1>6, <1>7, <1>8, <1>9, <1>10, <1>11, <1>12, Zenon DEF Next

-----------------------------------------------------------------------------
LEMMA Inductive == IInv /\ [Next]_vars => IInv'
  BY TypeInvariance, UnrenamedInvariance, InUseInvariance, AccountedInvariance,
     CountsInvariance, UniqueInvariance, EndInvariance, Zenon DEF IInv

LEMMA Invariance == Spec => []IInv
<1>1. Init => IInv
  BY InitIInv
<1>2. IInv /\ [Next]_vars => IInv'
  BY Inductive
<1> QED
  BY <1>1, <1>2, PTL DEF Spec

\* The records and numbers of a scan stay of their types, and the result never
\* outgrows the modules it is made of.
THEOREM TypeCorrect == Spec => []TypeOK
<1>1. IInv => TypeOK
  BY DEF IInv
<1> QED
  BY <1>1, Invariance, PTL

\* What deduplicate_ids emits is unique (scanner.py:108-149), whatever the
\* document calls its operations and whichever of them the filter lets through.
THEOREM EmittedIdsAreUnique == Spec => []UniqueIds
<1>1. IInv => UniqueIds
  BY DEF IInv
<1> QED
  BY <1>1, Invariance, PTL

\* A module keeps its identifier unless an earlier one has it, and is told
\* which one it had if it does not; none is lost or moved.
THEOREM DuplicatesAreRenamed == Spec => []OnlyDuplicatesAreRenamed
<1>1. IInv => OnlyDuplicatesAreRenamed
  <2> SUFFICES ASSUME IInv PROVE OnlyDuplicatesAreRenamed
    OBVIOUS
  <2>1. DOMAIN result = 1..Len(result)
    BY DEF IInv, TypeOK
  <2>2. place = "done" => Len(result) = Len(modules)
    BY DEF IInv, Complete, Finished
  <2> QED
    BY <2>1, <2>2 DEF IInv, Accounted, AccountedAt, OnlyDuplicatesAreRenamed
<1> QED
  BY <1>1, Invariance, PTL

\* An illegal identifier is illegal before and after a renaming, and the
\* warning names the one that is emitted (openapi_scanner.py:414-416).
THEOREM WarningsAreRight == Spec => []WarningsNameTheEmittedId
<1>1. IInv => WarningsNameTheEmittedId
  <2> SUFFICES ASSUME IInv, place = "done" PROVE WarningsNameTheEmittedId
    BY DEF WarningsNameTheEmittedId
  <2>1. DOMAIN result = 1..Len(result)
    BY DEF IInv, TypeOK
  <2> QED
    BY <2>1 DEF IInv, Accounted, AccountedAt, Labelled, Legal, WarningsNameTheEmittedId
<1> QED
  BY <1>1, Invariance, PTL

\* A module keeps its name or says which one it had, and says what is wrong
\* with the one it has: both at once, for every document (scanner.py:117-119,
\* openapi_scanner.py:274-275).
THEOREM ModulesSayTheirNames == Spec => []WarningsAreTrue
<1>1. OnlyDuplicatesAreRenamed /\ WarningsNameTheEmittedId <=> WarningsAreTrue
  BY DEF WarningsAreTrue
<1> QED
  BY <1>1, DuplicatesAreRenamed, WarningsAreRight, PTL

-----------------------------------------------------------------------------
\* The search for a free suffix passes over identifiers in use alone, and
\* those are of the input or were emitted.
Owner(i) == IF i <= Len(modules) THEN modules[i].id ELSE result[i - Len(modules)].id

UsedAreOwned ==
  Underway => \A id \in used : \E i \in 1..(Len(modules) + Len(result)) : Owner(i) = id

SeenIsBounded ==
  Underway => \A id \in IdsOf(modules) :
    seen[id] <= IF counter > 0 THEN Len(result) + 1 ELSE Len(result)

PassedOver ==
  counter > 0 => \A n \in Nat : seen[Current.id] <= n /\ n < counter => Suffixed(Current.id, n) \in used

SearchInv == UsedAreOwned /\ SeenIsBounded /\ PassedOver

LEMMA Sizes ==
  ASSUME TypeOK
  PROVE  /\ Len(modules) \in Nat /\ Len(result) \in Nat /\ counter \in Nat
         /\ modules \in Seq(ModuleRecords) /\ result \in Seq(ModuleRecords)
         /\ DOMAIN modules = 1..Len(modules)
  BY DEF TypeOK

\* What happens to the result leaves the owners that there are.
LEMMA OwnersStay ==
  ASSUME TypeOK, modules' = modules, NEW k \in Nat, Len(result') = Len(result) + k,
         \A i \in 1..Len(result) : result'[i].id = result[i].id
  PROVE  \A i \in 1..(Len(modules) + Len(result)) :
           i \in 1..(Len(modules') + Len(result')) /\ Owner(i)' = Owner(i)
<1>1. Len(modules) \in Nat /\ Len(result) \in Nat
  BY Sizes
<1> SUFFICES ASSUME NEW i \in 1..(Len(modules) + Len(result))
             PROVE  i \in 1..(Len(modules') + Len(result')) /\ Owner(i)' = Owner(i)
  OBVIOUS
<1>2. i \in 1..(Len(modules') + Len(result'))
  BY <1>1
<1>3. CASE i <= Len(modules)
  BY <1>3 DEF Owner
<1>4. CASE ~(i <= Len(modules))
  <2>1. i - Len(modules) \in 1..Len(result)
    BY <1>1, <1>4
  <2> QED
    BY <1>4, <2>1 DEF Owner
<1> QED
  BY <1>2, <1>3, <1>4

LEMMA SearchStartsNowhere == Init => SearchInv
  BY DEF Init, SearchInv, UsedAreOwned, SeenIsBounded, PassedOver, Underway

LEMMA OwnedInvariance == TypeOK /\ Counts /\ UsedAreOwned /\ [Next]_vars => UsedAreOwned'
<1> SUFFICES ASSUME TypeOK, Counts, UsedAreOwned, [Next]_vars PROVE UsedAreOwned'
  OBVIOUS
<1>0. Len(modules) \in Nat /\ Len(result) \in Nat /\ DOMAIN modules = 1..Len(modules)
  BY Sizes
<1>1. CASE Keep
  <2>1. /\ modules' = modules /\ Len(result') = Len(result) + 1
        /\ \A i \in 1..Len(result) : result'[i].id = result[i].id
    BY <1>1, KeepAppends
  <2>2. \A i \in 1..(Len(modules) + Len(result)) :
          i \in 1..(Len(modules') + Len(result')) /\ Owner(i)' = Owner(i)
    BY <2>1, OwnersStay
  <2>3. used' = used /\ Underway
    BY <1>1 DEF Keep, Underway
  <2> QED
    BY <2>2, <2>3, Zenon DEF UsedAreOwned
<1>2. CASE Rename
  <2> DEFINE id == Suffixed(Current.id, counter)
  <2>1. /\ modules' = modules /\ Len(result') = Len(result) + 1
        /\ \A i \in 1..Len(result) : result'[i] = result[i]
        /\ result'[Position].id = id /\ used' = used \cup {id}
    BY <1>2, RenameAppends
  <2> HIDE DEF id
  <2>2. \A i \in 1..(Len(modules) + Len(result)) :
          i \in 1..(Len(modules') + Len(result')) /\ Owner(i)' = Owner(i)
    BY <2>1, OwnersStay
  <2>3. Underway
    BY <1>2 DEF Rename, Underway
  <2>4. PICK last \in Nat : last = Len(modules) + Position
    BY <1>0 DEF Position
  <2>5. ~(last <= Len(modules)) /\ last - Len(modules) = Position
        /\ last \in 1..(Len(modules) + (Len(result) + 1))
    BY <1>0, <2>4 DEF Position
  <2>6. last \in 1..(Len(modules') + Len(result'))
    BY <2>1, <2>5
  <2>7. Owner(last)' = result'[Position].id
    <3>1. Owner(last)' = result'[last - Len(modules')].id
      BY <2>1, <2>5 DEF Owner
    <3> QED
      BY <2>1, <2>5, <3>1
  <2> SUFFICES ASSUME NEW x \in used' PROVE \E i \in 1..(Len(modules') + Len(result')) : Owner(i)' = x
    BY Zenon DEF UsedAreOwned
  <2>8. CASE x \in used
    BY <2>2, <2>3, <2>8, Zenon DEF UsedAreOwned
  <2>9. CASE x = id
    BY <2>1, <2>6, <2>7, <2>9
  <2> QED
    BY <2>1, <2>8, <2>9
<1>3. CASE Label
  <2>1. /\ modules' = modules /\ Len(result') = Len(result) + 0
        /\ \A i \in 1..Len(result) : result'[i].id = result[i].id
    BY <1>0, <1>3, LabelledSequence DEF Label
  <2>2. \A i \in 1..(Len(modules) + Len(result)) :
          i \in 1..(Len(modules') + Len(result')) /\ Owner(i)' = Owner(i)
    BY <2>1, OwnersStay
  <2>3. used' = used /\ Underway
    BY <1>3 DEF Label, Underway
  <2> QED
    BY <2>2, <2>3, Zenon DEF UsedAreOwned
<1>4. CASE Prepare
  <2>1. used' = IdsOf(modules) /\ modules' = modules /\ result' = result
    BY <1>4 DEF Prepare
  <2> SUFFICES ASSUME NEW id \in IdsOf(modules)
               PROVE  \E i \in 1..(Len(modules) + Len(result)) : Owner(i)' = id
    BY <2>1, Zenon DEF UsedAreOwned
  <2>2. PICK i \in 1..Len(modules) : modules[i].id = id
    BY <1>0 DEF IdsOf
  <2>3. i \in 1..(Len(modules) + Len(result)) /\ i <= Len(modules)
    BY <1>0, <2>2
  <2> QED
    BY <2>1, <2>2, <2>3, Zenon DEF Owner
<1>5. CASE Clash \/ NextCounter \/ Deduplicated \/ UNCHANGED vars
  <2>1. used' = used /\ modules' = modules /\ result' = result /\ (Underway' => Underway)
    BY <1>5 DEF Clash, NextCounter, Deduplicated, vars, deduplication, Underway
  <2> QED
    BY <2>1, Zenon DEF UsedAreOwned, Owner
<1>6. CASE Skip \/ Collect \/ EndOfDocument \/ Filter
  <2>1. ~Underway'
    BY <1>6 DEF Skip, Collect, EndOfDocument, Filter, Underway
  <2> QED
    BY <2>1 DEF UsedAreOwned
<1> QED
  BY <1>1, <1>2, <1>3, <1>4, <1>5, <1>6, StepKinds, Zenon

LEMMA SeenInvariance ==
  TypeOK /\ Unrenamed /\ Counts /\ SeenIsBounded /\ [Next]_vars => SeenIsBounded'
<1> SUFFICES ASSUME TypeOK, Unrenamed, Counts, SeenIsBounded, [Next]_vars PROVE SeenIsBounded'
  OBVIOUS
<1>0. /\ Len(modules) \in Nat /\ Len(result) \in Nat /\ counter \in Nat
      /\ Underway => seen \in [IdsOf(modules) -> Nat]
  BY Sizes DEF TypeOK, Underway
<1>1. CASE Keep
  <2>1. modules' = modules /\ Len(result') = Len(result) + 1
    BY <1>1, KeepAppends
  <2>2. /\ Underway /\ Position <= Len(modules) /\ seen[Current.id] = 0 /\ counter = 0 /\ counter' = 0
        /\ seen' = [seen EXCEPT ![Current.id] = @ + 1]
    BY <1>1 DEF Keep, Counted, Underway
  <2>3. \A id \in IdsOf(modules) : seen[id] \in Nat /\ seen'[id] <= seen[id] + 1
    BY <1>0, <2>2
  <2>4. \A id \in IdsOf(modules) : seen[id] <= Len(result)
    BY <2>2 DEF SeenIsBounded
  <2>5. IdsOf(modules)' = IdsOf(modules)
    BY <2>1 DEF IdsOf
  <2>6. \A id \in IdsOf(modules) : seen'[id] <= Len(result) + 1
    BY <1>0, <2>3, <2>4, <2>2
  <2> QED
    BY <2>1, <2>2, <2>5, <2>6 DEF SeenIsBounded
<1>2. CASE Clash
  <2>1. /\ Underway /\ counter = 0 /\ counter' = seen[Current.id] + 1 /\ Position <= Len(modules)
        /\ seen' = [seen EXCEPT ![Current.id] = @ + 1] /\ modules' = modules /\ result' = result
    BY <1>2 DEF Clash, Counted, Underway
  <2>2. Current.id \in IdsOf(modules)
    BY <2>1, CurrentIsModule
  <2>3. \A id \in IdsOf(modules) : seen[id] \in Nat /\ seen'[id] <= seen[id] + 1 /\ seen'[id] \in Nat
    BY <1>0, <2>1
  <2>4. \A id \in IdsOf(modules) : seen[id] <= Len(result)
    BY <2>1 DEF SeenIsBounded
  <2>5. counter' > 0
    BY <2>1, <2>2, <2>3
  <2>6. \A id \in IdsOf(modules) : seen'[id] <= Len(result) + 1
    BY <1>0, <2>3, <2>4
  <2>7. IdsOf(modules)' = IdsOf(modules)
    BY <2>1 DEF IdsOf
  <2> QED
    BY <2>1, <2>5, <2>6, <2>7 DEF SeenIsBounded
<1>3. CASE Rename
  <2>1. modules' = modules /\ Len(result') = Len(result) + 1
    BY <1>3, RenameAppends
  <2>2. Underway /\ seen' = seen /\ counter > 0 /\ counter' = 0
    BY <1>3 DEF Rename, Underway
  <2>3. IdsOf(modules)' = IdsOf(modules)
    BY <2>1 DEF IdsOf
  <2> QED
    BY <2>1, <2>2, <2>3 DEF SeenIsBounded
<1>4. CASE NextCounter
  <2>1. Underway /\ seen' = seen /\ modules' = modules /\ result' = result /\ counter > 0 /\ counter' = counter + 1
    BY <1>4 DEF NextCounter, Underway
  <2>2. counter' > 0
    BY <1>0, <2>1
  <2>3. IdsOf(modules)' = IdsOf(modules)
    BY <2>1 DEF IdsOf
  <2> QED
    BY <2>1, <2>2, <2>3 DEF SeenIsBounded
<1>5. CASE Prepare
  <2>1. modules' = modules /\ result' = result /\ counter' = counter /\ result = <<>> /\ counter = 0
        /\ seen' = [id \in IdsOf(modules) |-> 0]
    BY <1>5 DEF Prepare, Unrenamed, Underway
  <2>2. \A id \in IdsOf(modules) : seen'[id] = 0
    BY <2>1, Zenon
  <2>3. IdsOf(modules)' = IdsOf(modules)
    BY <2>1 DEF IdsOf
  <2> QED
    BY <1>0, <2>1, <2>2, <2>3 DEF SeenIsBounded
<1>6. CASE Label
  <2>1. Len(result') = Len(result)
    BY <1>6, LabelledSequence
  <2>2. Underway /\ seen' = seen /\ modules' = modules /\ counter' = counter
    BY <1>6 DEF Label, Underway
  <2>3. IdsOf(modules)' = IdsOf(modules)
    BY <2>2 DEF IdsOf
  <2> QED
    BY <2>1, <2>2, <2>3 DEF SeenIsBounded
<1>7. CASE Deduplicated \/ UNCHANGED vars
  <2>1. seen' = seen /\ modules' = modules /\ result' = result /\ counter' = counter /\ (Underway' => Underway)
    BY <1>7 DEF Deduplicated, vars, deduplication, Underway
  <2>2. IdsOf(modules)' = IdsOf(modules)
    BY <2>1 DEF IdsOf
  <2> QED
    BY <2>1, <2>2 DEF SeenIsBounded
<1>8. CASE Skip \/ Collect \/ EndOfDocument \/ Filter
  <2>1. ~Underway'
    BY <1>8 DEF Skip, Collect, EndOfDocument, Filter, Underway
  <2> QED
    BY <2>1 DEF SeenIsBounded
<1> QED
  BY <1>1, <1>2, <1>3, <1>4, <1>5, <1>6, <1>7, <1>8, StepKinds, Zenon

LEMMA PassedInvariance ==
  TypeOK /\ Unrenamed /\ Counts /\ PassedOver /\ [Next]_vars => PassedOver'
<1> SUFFICES ASSUME TypeOK, Unrenamed, Counts, PassedOver, [Next]_vars PROVE PassedOver'
  OBVIOUS
<1>0. counter \in Nat /\ (Underway => seen \in [IdsOf(modules) -> Nat])
  BY Sizes DEF TypeOK, Underway
<1>1. CASE Clash
  <2>1. /\ Underway /\ counter' = seen[Current.id] + 1 /\ Position <= Len(modules)
        /\ seen' = [seen EXCEPT ![Current.id] = @ + 1] /\ modules' = modules /\ result' = result
    BY <1>1 DEF Clash, Counted, Underway
  <2>2. Current.id \in IdsOf(modules)
    BY <2>1, CurrentIsModule
  <2>3. seen'[Current.id] = seen[Current.id] + 1
    BY <1>0, <2>1, <2>2
  <2>4. Current' = Current
    BY <2>1 DEF Current, Position
  <2>5. \A n \in Nat : ~(seen'[Current.id] <= n /\ n < counter')
    BY <1>0, <2>1, <2>2, <2>3
  <2> QED
    BY <2>4, <2>5, Zenon DEF PassedOver
<1>2. CASE NextCounter
  <2>1. /\ seen' = seen /\ modules' = modules /\ result' = result /\ counter > 0 /\ counter' = counter + 1
        /\ used' = used /\ Suffixed(Current.id, counter) \in used
    BY <1>2 DEF NextCounter
  <2>2. Current' = Current
    BY <2>1 DEF Current, Position
  <2>3. \A n \in Nat : n < counter' => n < counter \/ n = counter
    BY <1>0, <2>1
  <2>4. ASSUME NEW n \in Nat, seen[Current.id] <= n, n < counter'
        PROVE  Suffixed(Current.id, n) \in used
    <3>1. n < counter \/ n = counter
      BY <2>3, <2>4
    <3> QED
      BY <3>1, <2>1, <2>4, Zenon DEF PassedOver
  <2> QED
    BY <2>1, <2>2, <2>4, Zenon DEF PassedOver
<1>3. CASE Keep \/ Rename \/ Label \/ Prepare \/ Skip \/ Collect \/ EndOfDocument \/ Filter \/ Deduplicated
  <2>1. CASE Keep \/ Rename
    BY <2>1 DEF Keep, Rename, PassedOver
  <2>2. CASE Label \/ Deduplicated
    <3>1. counter' = counter /\ (place = "labelling" \/ Position > Len(modules))
      BY <2>2, Zenon DEF Label, Deduplicated, deduplication
    <3>2. ~(place = "labelling" \/ Position > Len(modules)) \/ ~(counter > 0)
      <4>1. Position \in Nat /\ Len(modules) \in Nat
        BY Sizes DEF Position
      <4> QED
        BY <4>1 DEF Counts
    <3> QED
      BY <3>1, <3>2 DEF PassedOver
  <2>3. CASE Prepare \/ Skip \/ Collect \/ EndOfDocument \/ Filter
    <3>1. counter' = counter /\ counter = 0
      BY <2>3 DEF Prepare, Skip, Collect, EndOfDocument, Filter, deduplication, Unrenamed, Underway
    <3> QED
      BY <3>1 DEF PassedOver
  <2> QED
    BY <1>3, <2>1, <2>2, <2>3
<1>4. CASE UNCHANGED vars
  BY <1>4 DEF vars, deduplication, PassedOver, Current, Position
<1> QED
  BY <1>1, <1>2, <1>3, <1>4, StepKinds, Zenon

\* Two numbers make two identifiers.
LEMMA SuffixesDiffer ==
  ASSUME NEW id \in Ids, NEW m \in Nat, NEW n \in Nat, Suffixed(id, m) = Suffixed(id, n)
  PROVE  m = n
<1>1. id.suffix \in Seq(Nat)
  BY DEF Ids
<1>2. Suffixed(id, m).suffix = Append(id.suffix, m) /\ Suffixed(id, n).suffix = Append(id.suffix, n)
  BY DEF Suffixed, Ids
<1>3. Append(id.suffix, m)[Len(id.suffix) + 1] = m /\ Append(id.suffix, n)[Len(id.suffix) + 1] = n
  BY <1>1
<1> QED
  BY <1>2, <1>3

\* Whatever the document, the search for a free suffix of deduplicate_ids ends:
\* it never gets beyond three times the number of modules.
THEOREM SearchesAreShort == Spec => []SearchIsShort
<1>1. IInv /\ SearchInv => SearchIsShort
  <2> SUFFICES ASSUME IInv, SearchInv PROVE SearchIsShort
    OBVIOUS
  <2>0. counter \in Nat /\ Len(modules) \in Nat
    <3>1. TypeOK
      BY Zenon DEF IInv
    <3> QED
      BY <3>1, Sizes
  <2> SUFFICES ASSUME counter > 3 * Len(modules) PROVE FALSE
    BY <2>0 DEF SearchIsShort
  <2> DEFINE id == Current.id  first == seen[id]  size == Len(modules) + Len(result)
             numbers == first..(counter - 1)
             owner == [n \in numbers |-> CHOOSE i \in 1..size : Owner(i) = Suffixed(id, n)]
  <2>1. Len(modules) \in Nat /\ Len(result) \in Nat /\ counter \in Nat /\ Len(result) <= Len(modules)
    BY Sizes DEF IInv, TypeOK
  <2>2. counter > 0 /\ Underway /\ Position <= Len(modules)
    BY <2>1 DEF IInv, Counts, Underway
  <2>3. id \in IdsOf(modules) /\ id \in Ids /\ Len(result) + 1 <= Len(modules)
    BY <2>2, CurrentIsModule DEF IInv, Position
  <2>4. first \in Nat /\ first <= Len(result) + 1
    BY <2>2, <2>3 DEF IInv, TypeOK, Underway, SearchInv, SeenIsBounded
  <2> HIDE DEF id, first
  <2>5. IsFiniteSet(1..size) /\ Cardinality(1..size) = size /\ size \in Nat
    <3>1. 1 \in Int /\ size \in Int /\ size \in Nat
      BY <2>1
    <3>2. IsFiniteSet(1..size) /\ Cardinality(1..size) = IF 1 > size THEN 0 ELSE size - 1 + 1
      BY <3>1, FS_Interval
    <3> QED
      BY <3>1, <3>2
  <2>6. IsFiniteSet(numbers) /\ Cardinality(numbers) = counter - first
    <3>1. first \in Int /\ counter - 1 \in Int
      BY <2>1, <2>4
    <3>2. /\ IsFiniteSet(numbers)
          /\ Cardinality(numbers) = IF first > counter - 1 THEN 0 ELSE counter - 1 - first + 1
      BY <3>1, FS_Interval
    <3>3. first < counter
      BY <2>1, <2>3, <2>4
    <3> QED
      BY <2>1, <2>4, <3>2, <3>3
  <2>7. size < counter - first
    BY <2>1, <2>3, <2>4
  <2>8. \A n \in numbers : \E i \in 1..size : Owner(i) = Suffixed(id, n)
    <3> SUFFICES ASSUME NEW n \in numbers PROVE \E i \in 1..size : Owner(i) = Suffixed(id, n)
      OBVIOUS
    <3>1. n \in Nat /\ first <= n /\ n < counter
      BY <2>1, <2>4
    <3>2. Suffixed(id, n) \in used
      BY <2>2, <3>1 DEF SearchInv, PassedOver, id, first
    <3> QED
      BY <2>2, <3>2, Zenon DEF SearchInv, UsedAreOwned
  <2>9. owner \in [numbers -> 1..size]
    BY <2>8, Zenon
  <2>10. \A n \in numbers : Owner(owner[n]) = Suffixed(id, n)
    BY <2>8, Zenon
  <2> HIDE DEF owner
  <2>11. \E m, n \in numbers : m # n /\ owner[m] = owner[n]
    BY <2>5, <2>6, <2>7, <2>9, FS_PigeonHole
  <2>12. PICK m, n \in numbers : m # n /\ owner[m] = owner[n]
    BY <2>11
  <2>13. m \in Nat /\ n \in Nat
    BY <2>1, <2>4
  <2>14. Suffixed(id, m) = Suffixed(id, n)
    BY <2>10, <2>12, Zenon
  <2> QED
    BY <2>3, <2>12, <2>13, <2>14, SuffixesDiffer
<1>2. IInv /\ SearchInv /\ [Next]_vars => SearchInv'
  BY OwnedInvariance, SeenInvariance, PassedInvariance, Zenon DEF IInv, SearchInv
<1> QED
  BY <1>1, <1>2, SearchStartsNowhere, Invariance, PTL DEF Spec

-----------------------------------------------------------------------------
(* Names against patterns: for any of both.                                *)

\* The first characters of the pattern fit a beginning of the name.
Beginning(p, n) ==
  \E e \in [1..p -> 1..(Len(name) + 1)] :
    e[1] = 1 /\ e[p] = n /\ \A i \in 1..(p - 1) : Covers(i, e[i], e[i + 1])

\* The walk is at characters there are; the last star met lies behind it.
Placed ==
  /\ walk.star < walk.p /\ walk.mark <= walk.n
  /\ walk.star = 0 => walk.mark = 1
  /\ walk.star > 0 => pattern[walk.star] = "*"

\* What lies behind the walk fits, and so did what lay before the last star.
Reached ==
  /\ Beginning(walk.p, walk.n)
  /\ walk.star > 0 => \E k \in 1..walk.mark : Beginning(walk.star, k)

\* In no alignment does the last star end earlier than the walk has it.
Forced ==
  \A e \in [1..(Len(pattern) + 1) -> 1..(Len(name) + 1)] :
    Aligned(e) =>
      /\ e[walk.star + 1] >= walk.mark
      /\ \/ e[walk.p] - e[walk.star + 1] = walk.n - walk.mark
         \/ walk.n = Len(name) + 1 /\ e[walk.p] >= walk.n

\* Every turn moves on in the pattern, or makes the extent of a star longer.
Paced == walk.turns <= (walk.mark - 1) * (Len(pattern) + 1) + (walk.p - 1)

MatchInv == TypeOKMatch /\ Placed /\ Reached /\ Forced /\ Paced /\ NamesMatchTheirMeaning

-----------------------------------------------------------------------------
\* What the provers need of multiplication and of distances.
LEMMA Longer ==
  ASSUME NEW a \in Nat, NEW b \in Nat, NEW k \in Nat, a <= b
  PROVE  a * k <= b * k
  OBVIOUS

LEMMA StrictlyNearer ==
  ASSUME NEW a \in Nat, NEW b \in Nat, NEW n \in Nat, NEW m \in Nat, a - b = n - m, b >= m, a # n
  PROVE  b >= m + 1
  OBVIOUS

LEMMA NoNearer ==
  ASSUME NEW a \in Nat, NEW b \in Nat, NEW n \in Nat, NEW m \in Nat, a - b = n - m, b >= m
  PROVE  a >= n
  OBVIOUS

LEMMA Product == ASSUME NEW a \in Nat, NEW k \in Nat PROVE a * k \in Nat
  OBVIOUS

LEMMA OneTimeMore ==
  ASSUME NEW a \in Nat, NEW k \in Nat
  PROVE  (a + 1) * k = a * k + k
  OBVIOUS

\* The types, as the steps use them.
LEMMA Places ==
  ASSUME TypeOKMatch
  PROVE  /\ pattern \in Seq(Characters) /\ name \in Seq(Characters)
         /\ Len(pattern) \in Nat /\ Len(name) \in Nat
         /\ DOMAIN walk = {"p", "n", "star", "mark", "turns"}
         /\ walk.p \in 1..(Len(pattern) + 1) /\ walk.n \in 1..(Len(name) + 1)
         /\ walk.star \in 0..Len(pattern) /\ walk.mark \in 1..(Len(name) + 1)
         /\ walk.turns \in Nat
  BY DEF TypeOKMatch

\* What a turn makes of the walk.
LEMMA TakeGoes ==
  ASSUME TypeOKMatch, TakeCharacter
  PROVE  /\ UNCHANGED <<arguments, verdict>> /\ walk.n <= Len(name) /\ walk.p <= Len(pattern)
         /\ pattern[walk.p] # "*" /\ pattern[walk.p] \in {"?", name[walk.n]}
         /\ walk' = [p |-> walk.p + 1, n |-> walk.n + 1, star |-> walk.star, mark |-> walk.mark,
                     turns |-> walk.turns + 1]
  BY DEF TypeOKMatch, TakeCharacter, Goes, Walking, AtSuiting

LEMMA MeetGoes ==
  ASSUME TypeOKMatch, MeetStar
  PROVE  /\ UNCHANGED <<arguments, verdict>> /\ walk.n <= Len(name) /\ walk.p <= Len(pattern)
         /\ pattern[walk.p] = "*"
         /\ walk' = [p |-> walk.p + 1, n |-> walk.n, star |-> walk.p, mark |-> walk.n,
                     turns |-> walk.turns + 1]
  BY DEF TypeOKMatch, MeetStar, Goes, Walking, AtStar

LEMMA RetryGoes ==
  ASSUME TypeOKMatch, Retry
  PROVE  /\ UNCHANGED <<arguments, verdict>> /\ walk.n <= Len(name) /\ walk.star > 0
         /\ walk.p <= Len(pattern) =>
              pattern[walk.p] # "*" /\ pattern[walk.p] \notin {"?", name[walk.n]}
         /\ walk' = [p |-> walk.star + 1, n |-> walk.mark + 1, star |-> walk.star,
                     mark |-> walk.mark + 1, turns |-> walk.turns + 1]
  BY DEF TypeOKMatch, Retry, Goes, Walking, AtStar, AtSuiting

LEMMA SkipGoes ==
  ASSUME TypeOKMatch, SkipStar
  PROVE  /\ UNCHANGED <<arguments, verdict>> /\ walk.n = Len(name) + 1 /\ walk.p <= Len(pattern)
         /\ pattern[walk.p] = "*"
         /\ walk' = [p |-> walk.p + 1, n |-> walk.n, star |-> walk.star, mark |-> walk.mark,
                     turns |-> walk.turns + 1]
<1>1. walk.n = Len(name) + 1
  BY Places DEF SkipStar
<1> QED
  BY <1>1 DEF TypeOKMatch, SkipStar, Goes, AtStar

\* One more character of the pattern fits.
LEMMA OneFurther ==
  ASSUME TypeOKMatch, NEW p \in 1..Len(pattern), NEW n, Beginning(p, n),
         NEW m \in 1..(Len(name) + 1), Covers(p, n, m)
  PROVE  Beginning(p + 1, m)
<1> DEFINE End == Len(name) + 1
<1>1. PICK e \in [1..p -> 1..End] :
        e[1] = 1 /\ e[p] = n /\ \A i \in 1..(p - 1) : Covers(i, e[i], e[i + 1])
  BY DEF Beginning
<1> DEFINE g == [i \in 1..(p + 1) |-> IF i <= p THEN e[i] ELSE m]
<1>2. Len(pattern) \in Nat
  BY Places
<1>3. g \in [1..(p + 1) -> 1..End]
  BY <1>1, <1>2
<1>4. g[1] = 1 /\ g[p] = n /\ g[p + 1] = m
  BY <1>1, <1>2
<1>5. ASSUME NEW i \in 1..p PROVE Covers(i, g[i], g[i + 1])
  <2>1. CASE i = p
    BY <1>4, <2>1
  <2>2. CASE i # p
    <3>1. i \in 1..(p - 1) /\ g[i] = e[i] /\ g[i + 1] = e[i + 1]
      BY <2>2, <1>2
    <3> QED
      BY <1>1, <3>1
  <2> QED
    BY <2>1, <2>2
<1>6. \A i \in 1..((p + 1) - 1) : Covers(i, g[i], g[i + 1])
  <2>1. (p + 1) - 1 = p
    OBVIOUS
  <2> QED
    BY <1>5, <2>1
<1> HIDE DEF g
<1> QED
  BY <1>3, <1>4, <1>6 DEF Beginning

\* The same beginnings, alignments and meaning as long as the arguments stay.
LEMMA SameArguments ==
  ASSUME UNCHANGED arguments
  PROVE  /\ pattern' = pattern /\ name' = name
         /\ \A p, n : Beginning(p, n)' <=> Beginning(p, n)
         /\ \A e : Aligned(e)' <=> Aligned(e)
         /\ Fits' <=> Fits
  BY DEF arguments, Beginning, Aligned, Fits, Covers

-----------------------------------------------------------------------------
LEMMA InitMatchInv == InitMatch => MatchInv
<1> SUFFICES ASSUME InitMatch PROVE MatchInv
  OBVIOUS
<1>1. pattern \in Seq(Characters) /\ name \in Seq(Characters)
      /\ Len(pattern) \in Nat /\ Len(name) \in Nat
  BY MatcherAssumption DEF InitMatch
<1>2. TypeOKMatch
  BY <1>1 DEF InitMatch, TypeOKMatch
<1>3. Beginning(1, 1)
  <2> DEFINE e == [i \in 1..1 |-> 1]
  <2>1. e \in [1..1 -> 1..(Len(name) + 1)] /\ e[1] = 1 /\ 1..(1 - 1) = {}
    BY <1>1
  <2> QED
    BY <2>1 DEF Beginning
<1>4. Placed /\ Reached /\ Paced /\ NamesMatchTheirMeaning
  BY <1>1, <1>3 DEF InitMatch, Placed, Reached, Paced, NamesMatchTheirMeaning
<1>5. Forced
  BY <1>1 DEF InitMatch, Forced, Aligned
<1> QED
  BY <1>2, <1>4, <1>5 DEF MatchInv

\* One lemma for every part of the invariant, one step for every action.
LEMMA MatchTypes == TypeOKMatch /\ Placed /\ [NextMatch]_matching => TypeOKMatch' /\ Placed'
<1> SUFFICES ASSUME TypeOKMatch, Placed, [NextMatch]_matching PROVE TypeOKMatch' /\ Placed'
  OBVIOUS
<1>r. Retry =>
        /\ walk.star > 0 /\ walk.n <= Len(name)
        /\ pattern' = pattern /\ name' = name /\ verdict' = verdict
        /\ walk' = [p |-> walk.star + 1, n |-> walk.mark + 1, star |-> walk.star,
                    mark |-> walk.mark + 1, turns |-> walk.turns + 1]
  BY RetryGoes DEF arguments
<1> USE Places DEF TypeOKMatch, Placed, arguments
<1>1. CASE TakeCharacter
  <2>1. /\ pattern' = pattern /\ name' = name /\ verdict' = verdict
        /\ walk.n <= Len(name) /\ walk.p <= Len(pattern)
        /\ walk' = [p |-> walk.p + 1, n |-> walk.n + 1, star |-> walk.star, mark |-> walk.mark,
                    turns |-> walk.turns + 1]
    BY <1>1, TakeGoes
  <2>2. walk.p + 1 \in 1..(Len(pattern) + 1) /\ walk.n + 1 \in 1..(Len(name) + 1)
    BY <2>1
  <2>3. walk.turns + 1 \in Nat
    OBVIOUS
  <2>4. TypeOKMatch'
    BY <2>1, <2>2, <2>3
  <2>5. Placed'
    BY <2>1
  <2> QED
    BY <2>4, <2>5
<1>2. CASE MeetStar
  <2>1. walk.p + 1 \in 1..(Len(pattern) + 1) /\ walk.p \in 0..Len(pattern) /\ walk.p > 0
    BY <1>2, MeetGoes
  <2>2. TypeOKMatch'
    BY <1>2, <2>1, MeetGoes
  <2>3. Placed'
    BY <1>2, <2>1, MeetGoes
  <2> QED
    BY <2>2, <2>3
<1>3. CASE Retry
  <2>1. /\ walk.star + 1 \in 1..(Len(pattern) + 1) /\ walk.mark + 1 \in 1..(Len(name) + 1)
        /\ walk.star > 0
    <3>1. walk.star > 0 /\ walk.n <= Len(name)
      BY <1>3, <1>r
    <3>2. walk.mark <= walk.n
      OBVIOUS
    <3> QED
      BY <3>1, <3>2
  <2>2. TypeOKMatch'
    <3>1. /\ pattern' = pattern /\ name' = name /\ verdict' = verdict
          /\ walk' = [p |-> walk.star + 1, n |-> walk.mark + 1, star |-> walk.star,
                      mark |-> walk.mark + 1, turns |-> walk.turns + 1]
      BY <1>3, <1>r
    <3>2. walk.turns + 1 \in Nat /\ walk.star \in 0..Len(pattern)
      OBVIOUS
    <3>3. walk' \in [p : 1..(Len(pattern) + 1), n : 1..(Len(name) + 1), star : 0..Len(pattern),
                     mark : 1..(Len(name) + 1), turns : Nat]
      BY <2>1, <3>1, <3>2
    <3> QED
      BY <3>1, <3>3
  <2>3. Placed'
    <3>1. /\ pattern' = pattern /\ walk'.star = walk.star /\ walk'.p = walk.star + 1
          /\ walk'.mark = walk.mark + 1 /\ walk'.n = walk.mark + 1
      <4>1. /\ pattern' = pattern
            /\ walk' = [p |-> walk.star + 1, n |-> walk.mark + 1, star |-> walk.star,
                        mark |-> walk.mark + 1, turns |-> walk.turns + 1]
        BY <1>3, <1>r
      <4> QED
        BY <4>1
    <3>2. walk'.star < walk'.p /\ walk'.mark <= walk'.n
      BY <3>1
    <3>3. pattern[walk.star] = "*"
      BY <2>1
    <3> QED
      BY <2>1, <3>1, <3>2, <3>3
  <2> QED
    BY <2>2, <2>3
<1>4. CASE GiveUp
  BY <1>4 DEF GiveUp, Ends
<1>5. CASE SkipStar
  <2>1. /\ pattern' = pattern /\ name' = name /\ verdict' = verdict /\ walk.p <= Len(pattern)
        /\ walk' = [p |-> walk.p + 1, n |-> walk.n, star |-> walk.star, mark |-> walk.mark,
                    turns |-> walk.turns + 1]
    BY <1>5, SkipGoes
  <2>2. walk.p + 1 \in 1..(Len(pattern) + 1) /\ walk.turns + 1 \in Nat
    BY <2>1
  <2>3. TypeOKMatch'
    BY <2>1, <2>2
  <2>4. Placed'
    BY <2>1
  <2> QED
    BY <2>3, <2>4
<1>6. CASE Conclude
  BY <1>6 DEF Conclude, Ends
<1>7. CASE UNCHANGED matching
  BY <1>7 DEF matching
<1> QED
  BY <1>1, <1>2, <1>3, <1>4, <1>5, <1>6, <1>7 DEF NextMatch

LEMMA MatchReached == TypeOKMatch /\ Placed /\ Reached /\ [NextMatch]_matching => Reached'
<1> SUFFICES ASSUME TypeOKMatch, Placed, Reached, [NextMatch]_matching PROVE Reached'
  OBVIOUS
<1>1. CASE TakeCharacter
  <2>1. Covers(walk.p, walk.n, walk.n + 1)
    BY <1>1, TakeGoes, Places DEF Covers
  <2>2. Beginning(walk.p + 1, walk.n + 1)
    BY <1>1, <2>1, TakeGoes, OneFurther, Places DEF Reached
  <2> QED
    BY <1>1, <2>2, TakeGoes, SameArguments DEF Reached
<1>2. CASE MeetStar
  <2>1. Covers(walk.p, walk.n, walk.n)
    BY <1>2, MeetGoes, Places DEF Covers
  <2>2. Beginning(walk.p + 1, walk.n)
    BY <1>2, <2>1, MeetGoes, OneFurther, Places DEF Reached
  <2>3. walk.n \in 1..walk.n /\ Beginning(walk.p, walk.n)
    BY Places DEF Reached
  <2> QED
    BY <1>2, <2>2, <2>3, MeetGoes, SameArguments DEF Reached
<1>3. CASE Retry
  <2>1. PICK k \in 1..walk.mark : Beginning(walk.star, k)
    BY <1>3, RetryGoes DEF Reached
  <2>2. walk.star \in 1..Len(pattern) /\ walk.mark + 1 \in 1..(Len(name) + 1)
    <3>1. walk.star > 0 /\ walk.n <= Len(name) /\ walk.mark <= walk.n
      BY <1>3, RetryGoes DEF Placed
    <3> QED
      BY <3>1, Places
  <2>3. Covers(walk.star, k, walk.mark + 1)
    <3>1. pattern[walk.star] = "*"
      BY <1>3, RetryGoes DEF Placed
    <3>2. k <= walk.mark + 1
      BY Places
    <3> QED
      BY <3>1, <3>2 DEF Covers
  <2>4. Beginning(walk.star + 1, walk.mark + 1)
    BY <2>1, <2>2, <2>3, OneFurther
  <2>5. k \in 1..(walk.mark + 1)
    BY Places
  <2> QED
    BY <1>3, <2>1, <2>4, <2>5, RetryGoes, SameArguments DEF Reached
<1>4. CASE SkipStar
  <2>1. Covers(walk.p, walk.n, walk.n)
    BY <1>4, SkipGoes, Places DEF Covers
  <2>2. Beginning(walk.p + 1, walk.n)
    BY <1>4, <2>1, SkipGoes, OneFurther, Places DEF Reached
  <2> QED
    BY <1>4, <2>2, SkipGoes, SameArguments DEF Reached
<1>5. CASE GiveUp \/ Conclude \/ UNCHANGED matching
  <2>1. UNCHANGED <<arguments, walk>>
    BY <1>5 DEF GiveUp, Conclude, Ends, matching
  <2> QED
    BY <2>1, SameArguments DEF Reached
<1> QED
  BY <1>1, <1>2, <1>3, <1>4, <1>5 DEF NextMatch

\* A walk that is stuck where it is cannot be part of an alignment.
LEMMA Stuck ==
  ASSUME TypeOKMatch, Placed, Forced, walk.n <= Len(name),
         walk.p <= Len(pattern) => pattern[walk.p] # "*" /\ pattern[walk.p] \notin {"?", name[walk.n]},
         NEW e \in [1..(Len(pattern) + 1) -> 1..(Len(name) + 1)], Aligned(e)
  PROVE  e[walk.star + 1] >= walk.mark + 1
<1> USE Places
<1>1. /\ e[walk.star + 1] >= walk.mark
      /\ e[walk.p] - e[walk.star + 1] = walk.n - walk.mark
  <2>1. walk.n # Len(name) + 1
    OBVIOUS
  <2> QED
    BY <2>1 DEF Forced
<1>2. e[walk.star + 1] \in Nat /\ e[walk.p] \in Nat
  BY DEF Placed
<1>3. e[walk.p] # walk.n
  <2>1. CASE walk.p = Len(pattern) + 1
    BY <2>1 DEF Aligned
  <2>2. CASE walk.p <= Len(pattern)
    BY <2>2 DEF Aligned, Covers
  <2> QED
    BY <2>1, <2>2
<1>4. walk.mark \in Nat /\ walk.n \in Nat
  OBVIOUS
<1> QED
  BY <1>1, <1>2, <1>3, <1>4, StrictlyNearer

\* An alignment takes the places of the pattern to numbers.
LEMMA AlignedNumbers ==
  ASSUME TypeOKMatch, NEW e \in [1..(Len(pattern) + 1) -> 1..(Len(name) + 1)],
         NEW i \in Nat, 1 <= i, i <= Len(pattern) + 1
  PROVE  e[i] \in Nat /\ e[i] <= Len(name) + 1
<1>1. i \in 1..(Len(pattern) + 1) /\ Len(name) \in Nat
  BY Places
<1>2. e[i] \in 1..(Len(name) + 1)
  BY <1>1
<1> QED
  BY <1>1, <1>2

LEMMA MatchForced == TypeOKMatch /\ Placed /\ Forced /\ [NextMatch]_matching => Forced'
<1> SUFFICES ASSUME TypeOKMatch, Placed, Forced, [NextMatch]_matching PROVE Forced'
  OBVIOUS
<1>u. UNCHANGED arguments
  BY TakeGoes, MeetGoes, RetryGoes, SkipGoes DEF NextMatch, GiveUp, Conclude, Ends, matching
<1> SUFFICES ASSUME NEW e \in [1..(Len(pattern) + 1) -> 1..(Len(name) + 1)], Aligned(e)
             PROVE  /\ e[walk'.star + 1] >= walk'.mark
                    /\ \/ e[walk'.p] - e[walk'.star + 1] = walk'.n - walk'.mark
                       \/ walk'.n = Len(name) + 1 /\ e[walk'.p] >= walk'.n
  BY <1>u, SameArguments DEF Forced
<1>t. /\ \A i \in 1..(Len(pattern) + 1) : e[i] \in 1..(Len(name) + 1)
      /\ \A i \in 1..Len(pattern) : Covers(i, e[i], e[i + 1])
      /\ e[walk.star + 1] >= walk.mark
      /\ \/ e[walk.p] - e[walk.star + 1] = walk.n - walk.mark
         \/ walk.n = Len(name) + 1 /\ e[walk.p] >= walk.n
  BY DEF Forced, Aligned
<1>n. /\ e[walk.p] \in Nat /\ e[walk.star + 1] \in Nat
      /\ walk.p <= Len(pattern) => e[walk.p + 1] \in Nat /\ walk.p + 1 <= Len(pattern) + 1
  <2>1. /\ walk.p \in Nat /\ 1 <= walk.p /\ walk.p <= Len(pattern) + 1
        /\ walk.star \in Nat /\ walk.star <= Len(pattern) /\ Len(pattern) \in Nat
    BY Places
  <2>2. e[walk.p] \in Nat
    BY <2>1, AlignedNumbers
  <2>3. walk.star + 1 \in Nat /\ 1 <= walk.star + 1 /\ walk.star + 1 <= Len(pattern) + 1
    BY <2>1
  <2>4. e[walk.star + 1] \in Nat
    BY <2>3, AlignedNumbers
  <2>5. ASSUME walk.p <= Len(pattern)
        PROVE  e[walk.p + 1] \in Nat /\ walk.p + 1 <= Len(pattern) + 1
    <3>1. walk.p + 1 \in Nat /\ 1 <= walk.p + 1 /\ walk.p + 1 <= Len(pattern) + 1
      BY <2>1, <2>5
    <3> QED
      BY <3>1, AlignedNumbers
  <2> QED
    BY <2>2, <2>4, <2>5
<1>p. /\ walk.p \in Nat /\ walk.n \in Nat /\ walk.mark \in Nat /\ walk.star \in Nat
      /\ 1 <= walk.p /\ walk.n <= Len(name) + 1
      /\ Len(pattern) \in Nat /\ Len(name) \in Nat
  BY Places
<1> USE <1>p
<1>1. CASE TakeCharacter
  <2>1. /\ walk.p \in 1..Len(pattern) /\ pattern[walk.p] # "*" /\ walk.n # Len(name) + 1
        /\ walk' = [p |-> walk.p + 1, n |-> walk.n + 1, star |-> walk.star, mark |-> walk.mark,
                    turns |-> walk.turns + 1]
    BY <1>1, TakeGoes
  <2>2. Covers(walk.p, e[walk.p], e[walk.p + 1])
    BY <1>t, <2>1
  <2>3. e[walk.p + 1] = e[walk.p] + 1
    BY <2>1, <2>2 DEF Covers
  <2>4. e[walk.p] - e[walk.star + 1] = walk.n - walk.mark
    BY <1>t, <2>1
  <2>5. e[walk.p] \in Nat /\ e[walk.star + 1] \in Nat
    BY <1>n
  <2>6. (e[walk.p] + 1) - e[walk.star + 1] = (walk.n + 1) - walk.mark
    <3>1. walk.n \in Nat /\ walk.mark \in Nat
      OBVIOUS
    <3> DEFINE a == e[walk.p]
               b == e[walk.star + 1]
               c == walk.n
               d == walk.mark
    <3>2. a \in Nat /\ b \in Nat /\ c \in Nat /\ d \in Nat /\ a - b = c - d
      BY <2>4, <2>5, <3>1
    <3> HIDE DEF a, b, c, d
    <3>3. (a + 1) - b = (c + 1) - d
      BY <3>2
    <3> QED
      BY <3>3 DEF a, b, c, d
  <2> QED
    BY <1>t, <2>1, <2>3, <2>6
<1>2. CASE MeetStar
  <2>1. /\ walk.p \in 1..Len(pattern) /\ pattern[walk.p] = "*" /\ walk.n # Len(name) + 1
        /\ walk' = [p |-> walk.p + 1, n |-> walk.n, star |-> walk.p, mark |-> walk.n,
                    turns |-> walk.turns + 1]
    BY <1>2, MeetGoes
  <2>2. Covers(walk.p, e[walk.p], e[walk.p + 1])
    BY <1>t, <2>1
  <2>3. e[walk.p] <= e[walk.p + 1]
    BY <2>1, <2>2 DEF Covers
  <2>4. e[walk.p] - e[walk.star + 1] = walk.n - walk.mark
    BY <1>t, <2>1
  <2>5. e[walk.p] \in Nat /\ e[walk.star + 1] \in Nat /\ e[walk.p + 1] \in Nat
    BY <1>n, <2>1
  <2>6. e[walk.p + 1] >= walk.n
    <3>1. walk.n \in Nat /\ walk.mark \in Nat /\ e[walk.star + 1] >= walk.mark
      BY <1>t
    <3>2. e[walk.p] >= walk.n
      BY <2>4, <2>5, <3>1, NoNearer
    <3> DEFINE a == e[walk.p]
               b == e[walk.p + 1]
               c == walk.n
    <3>3. a \in Nat /\ b \in Nat /\ c \in Nat /\ b >= a /\ a >= c
      BY <2>3, <2>5, <3>1, <3>2
    <3> HIDE DEF a, b, c
    <3>4. b >= c
      BY <3>3
    <3> QED
      BY <3>4 DEF b, c
  <2>7. e[walk.p + 1] - e[walk.p + 1] = walk.n - walk.n
    BY <2>5
  <2> QED
    BY <2>1, <2>6, <2>7
<1>3. CASE Retry
  <2>1. e[walk.star + 1] >= walk.mark + 1
    BY <1>3, RetryGoes, Stuck
  <2>2. /\ walk'.star = walk.star /\ walk'.p = walk.star + 1
        /\ walk'.mark = walk.mark + 1 /\ walk'.n = walk.mark + 1
    BY <1>3, RetryGoes
  <2>3. e[walk.star + 1] - e[walk.star + 1] = (walk.mark + 1) - (walk.mark + 1)
    BY <1>n
  <2> QED
    BY <2>1, <2>2, <2>3
<1>4. CASE SkipStar
  <2>1. /\ walk.p \in 1..Len(pattern) /\ pattern[walk.p] = "*" /\ walk.n = Len(name) + 1
        /\ walk'.p = walk.p + 1 /\ walk'.n = walk.n
        /\ walk'.star = walk.star /\ walk'.mark = walk.mark
    BY <1>4, SkipGoes
  <2>2. Covers(walk.p, e[walk.p], e[walk.p + 1])
    BY <1>t, <2>1
  <2>3. e[walk.p] <= e[walk.p + 1]
    BY <2>1, <2>2 DEF Covers
  <2>4. e[walk.p] \in Nat /\ e[walk.star + 1] \in Nat /\ e[walk.p + 1] \in Nat
    BY <1>n, <2>1
  <2>5. e[walk.p] >= walk.n
    <3>1. walk.n \in Nat /\ walk.mark \in Nat /\ e[walk.star + 1] >= walk.mark
      BY <1>t
    <3>2. CASE e[walk.p] - e[walk.star + 1] = walk.n - walk.mark
      BY <2>4, <3>1, <3>2, NoNearer
    <3> QED
      BY <1>t, <3>2
  <2>6. e[walk.p + 1] >= walk.n
    BY <2>3, <2>4, <2>5
  <2> QED
    BY <1>t, <2>1, <2>6
<1>5. CASE GiveUp \/ Conclude \/ UNCHANGED matching
  <2>1. walk' = walk
    BY <1>5 DEF GiveUp, Conclude, Ends, matching
  <2> QED
    BY <1>t, <2>1
<1> QED
  BY <1>1, <1>2, <1>3, <1>4, <1>5 DEF NextMatch

LEMMA MatchPaced == TypeOKMatch /\ Placed /\ Paced /\ [NextMatch]_matching => Paced'
<1> SUFFICES ASSUME TypeOKMatch, Placed, Paced, [NextMatch]_matching PROVE Paced'
  OBVIOUS
<1> DEFINE K == Len(pattern) + 1
<1>k. K \in Nat
  BY Places
<1>t. /\ walk.turns \in Nat /\ walk.mark - 1 \in Nat /\ walk.p \in 1..K /\ walk.star \in 0..Len(pattern)
      /\ walk.turns <= (walk.mark - 1) * K + (walk.p - 1)
      /\ (walk.mark - 1) * K \in Nat
  <2>1. walk.mark - 1 \in Nat
    BY Places
  <2>2. (walk.mark - 1) * K \in Nat
    BY <1>k, <2>1, Product
  <2>3. walk.turns <= (walk.mark - 1) * K + (walk.p - 1)
    BY DEF Paced
  <2> QED
    BY <2>1, <2>2, <2>3, Places
<1>1. CASE TakeCharacter
  <2> DEFINE x == (walk.mark - 1) * K
  <2>1. x \in Nat /\ walk.turns \in Nat /\ walk.p \in Nat /\ walk.turns <= x + (walk.p - 1)
    BY <1>t, Places
  <2> HIDE DEF x
  <2>2. walk.turns + 1 <= x + ((walk.p + 1) - 1)
    BY <2>1
  <2>3. /\ pattern' = pattern /\ walk'.turns = walk.turns + 1 /\ walk'.mark = walk.mark
        /\ walk'.p = walk.p + 1
    BY <1>1, TakeGoes, SameArguments
  <2> QED
    BY <2>2, <2>3 DEF x, Paced
<1>2. CASE MeetStar
  <2>1. walk.n - 1 \in Nat /\ walk.mark - 1 <= walk.n - 1
    BY Places DEF Placed
  <2>2. (walk.mark - 1) * K <= (walk.n - 1) * K /\ (walk.n - 1) * K \in Nat
    <3> DEFINE a == walk.mark - 1
               b == walk.n - 1
    <3>1. a \in Nat /\ b \in Nat /\ a <= b
      BY <1>t, <2>1
    <3> HIDE DEF a, b, K
    <3>2. a * K <= b * K /\ b * K \in Nat
      BY <1>k, <3>1, Longer, Product
    <3> QED
      BY <3>2 DEF a, b
  <2>3. walk.turns + 1 <= (walk.n - 1) * K + ((walk.p + 1) - 1)
    <3> DEFINE x == (walk.mark - 1) * K
               y == (walk.n - 1) * K
    <3>1. /\ x \in Nat /\ y \in Nat /\ x <= y /\ walk.turns <= x + (walk.p - 1)
          /\ walk.turns \in Nat /\ walk.p \in Nat
      BY <1>t, <2>2, Places
    <3> HIDE DEF x, y
    <3>2. walk.turns + 1 <= y + ((walk.p + 1) - 1)
      BY <3>1
    <3> QED
      BY <3>2 DEF y
  <2>4. /\ pattern' = pattern /\ walk'.turns = walk.turns + 1 /\ walk'.mark = walk.n
        /\ walk'.p = walk.p + 1
    BY <1>2, MeetGoes, SameArguments
  <2> QED
    BY <2>3, <2>4 DEF Paced
<1>3. CASE Retry
  <2>1. ((walk.mark - 1) + 1) * K = (walk.mark - 1) * K + K
    BY <1>k, <1>t, OneTimeMore
  <2>2. (walk.mark - 1) + 1 = (walk.mark + 1) - 1
    BY <1>t, Places
  <2>3. walk.turns + 1 <= ((walk.mark + 1) - 1) * K + ((walk.star + 1) - 1)
    <3> DEFINE x == (walk.mark - 1) * K
    <3>1. x \in Nat /\ walk.turns <= x + (walk.p - 1)
      BY <1>t
    <3>2. ((walk.mark + 1) - 1) * K = x + K
      BY <2>1, <2>2
    <3>3. walk.turns \in Nat /\ walk.star \in Nat /\ walk.p \in 1..K
      BY <1>t
    <3> HIDE DEF x, K
    <3>4. walk.turns + 1 <= (x + K) + ((walk.star + 1) - 1)
      BY <1>k, <3>1, <3>3
    <3> QED
      BY <3>2, <3>4 DEF x, K
  <2> QED
    BY <1>3, <2>3, RetryGoes, SameArguments DEF Paced
<1>4. CASE SkipStar
  <2> DEFINE x == (walk.mark - 1) * K
  <2>1. x \in Nat /\ walk.turns \in Nat /\ walk.p \in Nat /\ walk.turns <= x + (walk.p - 1)
    BY <1>t, Places
  <2> HIDE DEF x
  <2>2. walk.turns + 1 <= x + ((walk.p + 1) - 1)
    BY <2>1
  <2>3. /\ pattern' = pattern /\ walk'.turns = walk.turns + 1 /\ walk'.mark = walk.mark
        /\ walk'.p = walk.p + 1
    BY <1>4, SkipGoes, SameArguments
  <2> QED
    BY <2>2, <2>3 DEF x, Paced
<1>5. CASE GiveUp \/ Conclude \/ UNCHANGED matching
  <2>1. UNCHANGED <<arguments, walk>>
    BY <1>5 DEF GiveUp, Conclude, Ends, matching
  <2> QED
    BY <2>1, SameArguments DEF Paced
<1> QED
  BY <1>1, <1>2, <1>3, <1>4, <1>5 DEF NextMatch

LEMMA MatchVerdict ==
  TypeOKMatch /\ Placed /\ Reached /\ Forced /\ NamesMatchTheirMeaning /\ [NextMatch]_matching
    => NamesMatchTheirMeaning'
<1> SUFFICES ASSUME TypeOKMatch, Placed, Reached, Forced, NamesMatchTheirMeaning,
                    [NextMatch]_matching
             PROVE  NamesMatchTheirMeaning'
  OBVIOUS
<1>1. CASE GiveUp
  <2>1. /\ walk.star = 0 /\ walk.n <= Len(name)
        /\ walk.p <= Len(pattern) =>
             pattern[walk.p] # "*" /\ pattern[walk.p] \notin {"?", name[walk.n]}
        /\ verdict' = "mismatch" /\ UNCHANGED arguments
    BY <1>1 DEF GiveUp, Ends, Walking, AtStar, AtSuiting
  <2>2. ASSUME NEW e \in [1..(Len(pattern) + 1) -> 1..(Len(name) + 1)], Aligned(e) PROVE FALSE
    <3>1. e[walk.star + 1] >= walk.mark + 1
      BY <2>1, <2>2, Stuck
    <3> QED
      BY <2>1, <2>2, <3>1, Places DEF Placed, Aligned
  <2>3. ~Fits
    BY <2>2 DEF Fits
  <2> QED
    BY <2>1, <2>3, SameArguments DEF NamesMatchTheirMeaning
<1>2. CASE Conclude
  <2>1. /\ walk.n = Len(name) + 1 /\ (walk.p <= Len(pattern) => pattern[walk.p] # "*")
        /\ verdict' = (IF walk.p = Len(pattern) + 1 THEN "match" ELSE "mismatch")
        /\ UNCHANGED arguments
    BY <1>2, Places DEF Conclude, Ends, AtStar
  <2>2. CASE walk.p = Len(pattern) + 1
    <3>1. PICK e \in [1..(Len(pattern) + 1) -> 1..(Len(name) + 1)] :
            /\ e[1] = 1 /\ e[Len(pattern) + 1] = Len(name) + 1
            /\ \A i \in 1..((Len(pattern) + 1) - 1) : Covers(i, e[i], e[i + 1])
      BY <2>1, <2>2 DEF Reached, Beginning
    <3>2. (Len(pattern) + 1) - 1 = Len(pattern)
      BY Places
    <3>3. Fits
      BY <3>1, <3>2 DEF Fits, Aligned
    <3> QED
      BY <2>1, <2>2, <3>3, SameArguments DEF NamesMatchTheirMeaning
  <2>3. CASE walk.p # Len(pattern) + 1
    <3>1. walk.p \in 1..Len(pattern) /\ pattern[walk.p] # "*"
      BY <2>1, <2>3, Places
    <3>2. ASSUME NEW e \in [1..(Len(pattern) + 1) -> 1..(Len(name) + 1)], Aligned(e) PROVE FALSE
      <4>1. e[walk.p] >= walk.n
        <5>1. /\ e[walk.star + 1] >= walk.mark
              /\ \/ e[walk.p] - e[walk.star + 1] = walk.n - walk.mark
                 \/ walk.n = Len(name) + 1 /\ e[walk.p] >= walk.n
          BY <3>2 DEF Forced
        <5>2. e[walk.p] \in Nat /\ e[walk.star + 1] \in Nat
          BY <3>2, Places
        <5>3. walk.n \in Nat /\ walk.mark \in Nat
          BY Places
        <5>4. CASE e[walk.p] - e[walk.star + 1] = walk.n - walk.mark
          BY <5>1, <5>2, <5>3, <5>4, NoNearer
        <5> QED
          BY <5>1, <5>4
      <4>2. e[walk.p + 1] = e[walk.p] + 1 /\ e[walk.p + 1] <= Len(name) + 1
        BY <3>1, <3>2, Places DEF Aligned, Covers
      <4> QED
        BY <2>1, <3>1, <4>1, <4>2, Places
    <3>3. ~Fits
      BY <3>2 DEF Fits
    <3> QED
      BY <2>1, <2>3, <3>3, SameArguments DEF NamesMatchTheirMeaning
  <2> QED
    BY <2>2, <2>3
<1>3. CASE TakeCharacter \/ MeetStar \/ Retry \/ SkipStar \/ UNCHANGED matching
  <2>1. UNCHANGED <<arguments, verdict>>
    BY <1>3, TakeGoes, MeetGoes, RetryGoes, SkipGoes DEF matching
  <2> QED
    BY <2>1, SameArguments DEF NamesMatchTheirMeaning
<1> QED
  BY <1>1, <1>2, <1>3 DEF NextMatch

LEMMA MatchInvariance == SpecMatch => []MatchInv
<1>1. MatchInv /\ [NextMatch]_matching => MatchInv'
  BY MatchTypes, MatchReached, MatchForced, MatchPaced, MatchVerdict DEF MatchInv
<1> QED
  BY <1>1, InitMatchInv, PTL DEF SpecMatch

\* Going back to the last star only is enough: the loops of _match_name
\* (binding_loader.py:97-120) say "match" only if some alignment of the whole
\* pattern exists, and "mismatch" only if none does, for every pattern and
\* every name.
THEOREM NamesMatchExactly == SpecMatch => []NamesMatchTheirMeaning
<1>1. MatchInv => NamesMatchTheirMeaning
  BY DEF MatchInv
<1> QED
  BY <1>1, MatchInvariance, PTL

\* The bound its comment promises (binding_loader.py:82): no pattern makes the
\* matcher take more turns than the product of the two lengths, each plus one.
THEOREM MatchingIsQuadratic == SpecMatch => []WalkIsShort
<1>1. MatchInv => WalkIsShort
  <2> SUFFICES ASSUME MatchInv PROVE WalkIsShort
    OBVIOUS
  <2> DEFINE K == Len(pattern) + 1
  <2>1. /\ K \in Nat /\ Len(name) \in Nat /\ walk.turns \in Nat /\ walk.p \in 1..K
        /\ walk.mark - 1 \in Nat /\ walk.mark - 1 <= Len(name)
        /\ walk.turns <= (walk.mark - 1) * K + (walk.p - 1)
    BY Places DEF MatchInv, Paced
  <2>2. (walk.mark - 1) * K <= Len(name) * K
    BY <2>1, Longer
  <2>3. (Len(name) + 1) * K = Len(name) * K + K
    BY <2>1, OneTimeMore
  <2>4. (walk.mark - 1) * K \in Nat /\ Len(name) * K \in Nat
    BY <2>1
  <2>5. walk.turns <= (Len(name) + 1) * K
    <3> DEFINE x == (walk.mark - 1) * K
               y == Len(name) * K
               z == (Len(name) + 1) * K
    <3>1. x \in Nat /\ y \in Nat /\ x <= y /\ z = y + K /\ walk.turns <= x + (walk.p - 1)
      BY <2>1, <2>2, <2>3, <2>4
    <3> HIDE DEF x, y, z
    <3>2. walk.turns <= z
      BY <2>1, <3>1
    <3> QED
      BY <3>2 DEF z
  <2>6. (Len(name) + 1) * K = K * (Len(name) + 1)
    BY <2>1
  <2> QED
    BY <2>5, <2>6 DEF WalkIsShort
<1> QED
  BY <1>1, MatchInvariance, PTL

-----------------------------------------------------------------------------
(* The transformations.                                                    *)

\* The question is one of those there are; its answer is what the code makes
\* of it.
Answered ==
  \/ /\ question \in DisplayQuestions
     /\ answer \in {<<>>, <<ResolveAll(question.modules, question.files)>>}
  \/ /\ question \in EnhancementQuestions
     /\ answer \in {<<>>, <<Enhance(question.modules, question.answers, question.threshold)>>}
  \/ /\ question \in DiscoveryQuestions
     /\ answer \in {<<>>, <<Discover(question.config, question.answers)>>}
  \/ /\ question \in ModuleQuestions
     /\ answer \in {<<>>, <<ParseEntry(BuildBinding(question.module), question.strict)>>}
  \/ /\ question \in EntryQuestions
     /\ answer \in {<<>>, <<ParseEntry(question.entry, TRUE)>>}

LEMMA Subjects ==
  /\ \A q \in DisplayQuestions : q.of = "display"
  /\ \A q \in EnhancementQuestions : q.of = "enhancement"
  /\ \A q \in DiscoveryQuestions : q.of = "discovery"
  /\ \A q \in ModuleQuestions : q.of = "module"
  /\ \A q \in EntryQuestions : q.of = "entry"
  BY QuestionsAssumption, Zenon

LEMMA AnsweredInvariance == SpecAsking => []Answered
<1>1. InitAsking => Answered
  BY DEF InitAsking, Answered
<1>2. Answered /\ [NextAsking]_asking => Answered'
  <2> SUFFICES ASSUME Answered, [NextAsking]_asking PROVE Answered'
    OBVIOUS
  <2>1. CASE AnswerDisplay
    BY <2>1, Subjects DEF AnswerDisplay, Asked, Answers, Answered
  <2>2. CASE AnswerEnhancement
    BY <2>2, Subjects DEF AnswerEnhancement, Asked, Answers, Answered
  <2>3. CASE AnswerDiscovery
    BY <2>3, Subjects DEF AnswerDiscovery, Asked, Answers, Answered
  <2>4. CASE AnswerModule
    BY <2>4, Subjects DEF AnswerModule, Asked, Answers, Answered
  <2>5. CASE AnswerEntry
    BY <2>5, Subjects DEF AnswerEntry, Asked, Answers, Answered
  <2>6. CASE UNCHANGED asking
    BY <2>6 DEF asking, Answered
  <2> QED
    BY <2>1, <2>2, <2>3, <2>4, <2>5, <2>6 DEF NextAsking
<1> QED
  BY <1>1, <1>2, PTL DEF SpecAsking

-----------------------------------------------------------------------------
(* Display overlays.                                                       *)

\* A text one of whose characters is replaced is a text, and so is one with a
\* character before it.
LEMMA Replaced ==
  ASSUME NEW S, NEW text \in Seq(S), NEW old, NEW new \in S,
         NEW clean, clean = [i \in DOMAIN text |-> IF text[i] \in old THEN new ELSE text[i]]
  PROVE  /\ clean \in Seq(S)
         /\ (\A i \in DOMAIN text : text[i] \notin old) => clean = text
<1>1. /\ Len(text) \in Nat /\ DOMAIN text = 1..Len(text)
      /\ \A i \in 1..Len(text) : text[i] \in S
      /\ text = [i \in 1..Len(text) |-> text[i]]
  OBVIOUS
<1>2. clean \in [1..Len(text) -> S]
  BY <1>1
<1>3. clean \in Seq(S)
  BY <1>1, <1>2
<1>4. (\A i \in DOMAIN text : text[i] \notin old) => clean = text
  BY <1>1
<1> QED
  BY <1>3, <1>4

LEMMA Preceded ==
  ASSUME NEW S, NEW text \in Seq(S), NEW new \in S
  PROVE  <<new>> \o text \in Seq(S)
  OBVIOUS

\* What is sanitised and legal is not changed by another sanitising.
LEMMA SanitizedStays ==
  ASSUME NEW text \in Seq(AliasCharacters), LegalMcp(Sanitized(text))
  PROVE  /\ Sanitized(Sanitized(text)) = Sanitized(text)
         /\ Sanitized(text) \in Seq(AliasCharacters)
<1> DEFINE Clean(t) == [i \in DOMAIN t |-> IF t[i] \in {".", "newline"} THEN "_" ELSE t[i]]
           alias == Sanitized(text)
<1>1. "_" \in AliasCharacters
  BY Zenon DEF AliasCharacters
<1>0. /\ \A t \in Seq(AliasCharacters) : Clean(t) \in Seq(AliasCharacters)
      /\ \A t \in Seq(AliasCharacters) :
           (\A i \in DOMAIN t : t[i] \notin {".", "newline"}) => Clean(t) = t
  <2> SUFFICES ASSUME NEW t \in Seq(AliasCharacters)
               PROVE  /\ Clean(t) \in Seq(AliasCharacters)
                      /\ (\A i \in DOMAIN t : t[i] \notin {".", "newline"}) => Clean(t) = t
    BY Zenon
  <2>1. PICK old, new, clean :
          /\ old = {".", "newline"} /\ new = "_" /\ clean = Clean(t)
          /\ clean = [i \in DOMAIN t |-> IF t[i] \in old THEN new ELSE t[i]]
    BY Zenon
  <2>2. new \in AliasCharacters
    BY <1>1, <2>1, Zenon
  <2> HIDE DEF Clean
  <2>3. /\ clean \in Seq(AliasCharacters)
        /\ (\A i \in DOMAIN t : t[i] \notin old) => clean = t
    <3>1. clean = [i \in DOMAIN t |-> IF t[i] \in old THEN new ELSE t[i]]
      BY <2>1, Zenon
    <3> QED
      BY <2>2, <3>1, Replaced
  <2> QED
    BY <2>1, <2>3, Zenon
<1>2. Clean(text) \in Seq(AliasCharacters)
  BY <1>0, Zenon
<1>3. <<"_">> \o Clean(text) \in Seq(AliasCharacters)
  <2> HIDE DEF Clean
  <2> QED
    BY <1>1, <1>2, Preceded, Zenon
<1>4. alias = IF Clean(text) # <<>> /\ Clean(text)[1] = "1"
              THEN <<"_">> \o Clean(text) ELSE Clean(text)
  BY Zenon DEF Sanitized
<1>5. alias \in Seq(AliasCharacters)
  <2> HIDE DEF alias, Clean
  <2> QED
    BY <1>2, <1>3, <1>4, Zenon
<1>6. alias # <<>> /\ alias[1] \in {"a", "A", "_"} /\ ToSet(alias) \subseteq {"a", "A", "1", "_", "-"}
  BY Zenon DEF LegalMcp
<1> HIDE DEF alias
<1>7. alias[1] # "1" /\ \A i \in DOMAIN alias : alias[i] \notin {".", "newline"}
  <2>1. alias[1] # "1"
    BY <1>6, Zenon
  <2>2. ASSUME NEW i \in DOMAIN alias PROVE alias[i] \notin {".", "newline"}
    <3>1. alias[i] \in {"a", "A", "1", "_", "-"}
      BY <1>6, Zenon DEF ToSet
    <3> QED
      BY <3>1, Zenon
  <2> QED
    BY <2>1, <2>2
<1>8. Clean(alias) = alias
  BY <1>0, <1>5, <1>7, Zenon
<1>9. Sanitized(alias) = alias
  <2>1. Sanitized(alias) = IF Clean(alias) # <<>> /\ Clean(alias)[1] = "1"
                           THEN <<"_">> \o Clean(alias) ELSE Clean(alias)
    BY Zenon DEF Sanitized
  <2> HIDE DEF Clean
  <2> QED
    BY <1>7, <1>8, <2>1, Zenon
<1> QED
  BY <1>5, <1>9, Zenon DEF alias

\* The overlay before and after the aliases are looked at, field by field.
Alias(module, entry) ==
  Or(entry.display.alias, Or(module.suggested, Or(module.legacy, module.id)))
Description(module, entry) ==
  Or(entry.display.description, Or(entry.description, module.description))
McpAlias(module, entry) == Sanitized(Or(entry.display.mcp.alias, Alias(module, entry)))
CliAlias(module, entry) ==
  LET cli == Or(entry.display.cli.alias, Alias(module, entry)) IN
  IF entry.display.cli.alias # <<>> /\ ~MatchesCli(cli) THEN Alias(module, entry) ELSE cli

\* A surface with an alias.
Face(module, entry, alias, surface) ==
  [alias |-> alias,
   description |-> Or(surface.description, Description(module, entry)),
   guidance |-> Or(surface.guidance, entry.display.guidance)]

Settled(module, entry) ==
  LET given == entry.display IN
  [alias |-> Alias(module, entry), description |-> Description(module, entry),
   documentation |-> Or(given.documentation, Or(entry.documentation, module.documentation)),
   guidance |-> given.guidance,
   tags |-> Or(given.tags, Or(entry.tags, module.tags)),
   cli |-> Face(module, entry, CliAlias(module, entry), given.cli),
   mcp |-> Face(module, entry, McpAlias(module, entry), given.mcp),
   a2a |-> Face(module, entry, Or(given.a2a.alias, Alias(module, entry)), given.a2a)]

\* _resolve_one(), field by field.
LEMMA ResolveSettles ==
  ASSUME NEW module, NEW entry
  PROVE  Resolve(module, entry) =
           LET mcp == McpAlias(module, entry) IN
           IF Len(mcp) > MaxAlias \/ ~LegalMcp(mcp) THEN <<>> ELSE <<Settled(module, entry)>>
<1> DEFINE filled == Filled(module, entry)
           mcp == Sanitized(filled.mcp.alias)
           unsafe == entry.display.cli.alias # <<>> /\ ~MatchesCli(filled.cli.alias)
           final == [filled EXCEPT !.mcp.alias = mcp,
                                   !.cli.alias = IF unsafe THEN filled.alias ELSE @]
<1>1. Resolve(module, entry) = IF Len(mcp) > MaxAlias \/ ~LegalMcp(mcp) THEN <<>> ELSE <<final>>
  BY Zenon DEF Resolve
<1> DEFINE given == entry.display
           alias == Or(given.alias, Or(module.suggested, Or(module.legacy, module.id)))
           description == Or(given.description, Or(entry.description, module.description))
           Plain(surface) == [alias |-> Or(surface.alias, alias),
                              description |-> Or(surface.description, description),
                              guidance |-> Or(surface.guidance, given.guidance)]
<1>2. filled = [alias |-> alias, description |-> description,
                documentation |-> Or(given.documentation, Or(entry.documentation, module.documentation)),
                guidance |-> given.guidance,
                tags |-> Or(given.tags, Or(entry.tags, module.tags)),
                cli |-> Plain(given.cli), mcp |-> Plain(given.mcp), a2a |-> Plain(given.a2a)]
  BY Zenon DEF Filled
<1>3. /\ filled.alias = alias /\ filled.mcp.alias = Or(given.mcp.alias, alias)
      /\ filled.cli.alias = Or(given.cli.alias, alias)
  BY <1>2
<1> DEFINE documentation == Or(given.documentation, Or(entry.documentation, module.documentation))
           tags == Or(given.tags, Or(entry.tags, module.tags))
           chosen == IF unsafe THEN filled.alias ELSE Or(given.cli.alias, alias)
<1>4. final = [alias |-> alias, description |-> description, documentation |-> documentation,
               guidance |-> given.guidance, tags |-> tags,
               cli |-> [alias |-> chosen,
                        description |-> Or(given.cli.description, description),
                        guidance |-> Or(given.cli.guidance, given.guidance)],
               mcp |-> [alias |-> mcp,
                        description |-> Or(given.mcp.description, description),
                        guidance |-> Or(given.mcp.guidance, given.guidance)],
               a2a |-> Plain(given.a2a)]
  <2> DEFINE cli == Plain(given.cli)
             face == Plain(given.mcp)
             other == Plain(given.a2a)
             new == IF unsafe THEN filled.alias ELSE cli.alias
  <2>1. filled = [alias |-> alias, description |-> description, documentation |-> documentation,
                  guidance |-> given.guidance, tags |-> tags,
                  cli |-> cli, mcp |-> face, a2a |-> other]
    BY <1>2, Zenon
  <2>2. final = [filled EXCEPT !.mcp.alias = mcp, !.cli.alias = new]
    <3>1. filled.cli = cli
      BY <1>2
    <3> HIDE DEF filled, mcp, cli, unsafe
    <3> QED
      BY <3>1
  <2>3. /\ [cli EXCEPT !.alias = new] =
             [alias |-> new, description |-> cli.description, guidance |-> cli.guidance]
        /\ [face EXCEPT !.alias = mcp] =
             [alias |-> mcp, description |-> face.description, guidance |-> face.guidance]
    <3> HIDE DEF new, mcp
    <3> QED
      OBVIOUS
  <2>4. final = [alias |-> alias, description |-> description, documentation |-> documentation,
                 guidance |-> given.guidance, tags |-> tags,
                 cli |-> [cli EXCEPT !.alias = new], mcp |-> [face EXCEPT !.alias = mcp],
                 a2a |-> other]
    <3> HIDE DEF final, filled, mcp, new, cli, face, other, alias, description, documentation, tags
    <3> QED
      BY <2>1, <2>2
  <2>5. new = chosen
    OBVIOUS
  <2>6. /\ cli.description = Or(given.cli.description, description)
        /\ cli.guidance = Or(given.cli.guidance, given.guidance)
        /\ face.description = Or(given.mcp.description, description)
        /\ face.guidance = Or(given.mcp.guidance, given.guidance)
    <3> HIDE DEF description
    <3> QED
      OBVIOUS
  <2> HIDE DEF final, filled, mcp, new, chosen, cli, face, description
  <2> QED
    BY <2>3, <2>4, <2>5, <2>6
<1>5. chosen = IF given.cli.alias # <<>> /\ ~MatchesCli(Or(given.cli.alias, alias)) THEN alias
               ELSE Or(given.cli.alias, alias)
  <2> HIDE DEF filled, alias
  <2> QED
    BY <1>3
<1>6. mcp = Sanitized(Or(given.mcp.alias, alias))
  <2> HIDE DEF filled, alias
  <2> QED
    BY <1>3
<1>7. mcp = McpAlias(module, entry) /\ chosen = CliAlias(module, entry)
  <2> HIDE DEF chosen, mcp
  <2> QED
    BY <1>5, <1>6 DEF McpAlias, CliAlias, Alias
<1>8. final = Settled(module, entry)
  <2> HIDE DEF final, chosen, mcp
  <2> QED
    BY <1>4, <1>7 DEF Settled, Face, Alias, Description
<1> HIDE DEF final, mcp
<1> QED
  BY <1>1, <1>7, <1>8

\* A field that is filled in stays as it is.
LEMMA OrStays ==
  ASSUME NEW x, NEW y
  PROVE  /\ Or(Or(x, y), y) = Or(x, y)
         /\ y # <<>> => Or(x, y) # <<>>
         /\ \A z : Or(x, y) # <<>> => Or(Or(x, y), z) = Or(x, y)
         /\ Or(<<>>, y) = y
  BY DEF Or

\* Of an overlay resolved, every field stays when it is resolved again.
LEMMA SettledStays ==
  ASSUME NEW module, NEW entry, Displayable(module), IsOverlay(entry),
         NEW d, d = Settled(module, entry), LegalMcp(d.mcp.alias),
         NEW again, again = [NoEntry EXCEPT !.display = d]
  PROVE  /\ <<>> \notin {d.alias, d.cli.alias, d.mcp.alias, d.a2a.alias}
         /\ MatchesCli(d.cli.alias) \/ d.cli.alias = d.alias
         /\ LegalCli(entry.display.cli.alias) => d.cli.alias = entry.display.cli.alias
         /\ McpAlias(module, again) = d.mcp.alias /\ Len(d.mcp.alias) \in Nat
         /\ Settled(module, again) = d
<1>1. /\ again.display = d /\ again.description = <<>> /\ again.documentation = <<>>
      /\ again.tags = <<>>
  BY DEF NoEntry
<1>2. /\ d.alias = Alias(module, entry) /\ d.description = Description(module, entry)
      /\ d.documentation =
           Or(entry.display.documentation, Or(entry.documentation, module.documentation))
      /\ d.guidance = entry.display.guidance
      /\ d.tags = Or(entry.display.tags, Or(entry.tags, module.tags))
      /\ d.cli = Face(module, entry, CliAlias(module, entry), entry.display.cli)
      /\ d.mcp = Face(module, entry, McpAlias(module, entry), entry.display.mcp)
      /\ d.a2a = Face(module, entry, Or(entry.display.a2a.alias, Alias(module, entry)),
                      entry.display.a2a)
      /\ d = [alias |-> d.alias, description |-> d.description, documentation |-> d.documentation,
              guidance |-> d.guidance, tags |-> d.tags, cli |-> d.cli, mcp |-> d.mcp, a2a |-> d.a2a]
  BY DEF Settled
<1>3. \A alias, surface : LET f == Face(module, entry, alias, surface) IN
        /\ f = [alias |-> alias, description |-> f.description, guidance |-> f.guidance]
        /\ f.alias = alias
        /\ f.description = Or(surface.description, d.description)
        /\ f.guidance = Or(surface.guidance, d.guidance)
  BY <1>2 DEF Face
<1>4. d.alias # <<>> /\ d.a2a.alias # <<>> /\ d.mcp.alias # <<>> /\ d.cli.alias # <<>>
  <2>1. d.alias # <<>>
    BY <1>2 DEF Alias, Or, Displayable
  <2>2. d.a2a.alias # <<>>
    BY <1>2, <1>3, <2>1 DEF Or
  <2>3. d.mcp.alias # <<>>
    BY Zenon DEF LegalMcp
  <2>4. d.cli.alias # <<>>
    BY <1>2, <1>3, <2>1 DEF Or, CliAlias
  <2> QED
    BY <2>1, <2>2, <2>3, <2>4
<1>5. MatchesCli(d.cli.alias) \/ d.cli.alias = d.alias
  <2>1. d.cli.alias = CliAlias(module, entry)
    BY <1>2, <1>3
  <2> QED
    BY <1>2, <2>1 DEF CliAlias, Or
<1>11. ASSUME LegalCli(entry.display.cli.alias) PROVE d.cli.alias = entry.display.cli.alias
  <2>1. d.cli.alias = CliAlias(module, entry)
    BY <1>2, <1>3
  <2>2. entry.display.cli.alias # <<>>
    BY <1>11, Zenon DEF LegalCli
  <2>3. MatchesCli(entry.display.cli.alias)
    BY <1>11, Zenon DEF MatchesCli
  <2> QED
    BY <2>1, <2>2, <2>3, Zenon DEF CliAlias, Or
<1>6. Alias(module, again) = d.alias /\ Description(module, again) = d.description
  BY <1>1, <1>2, <1>4 DEF Alias, Description, Or
<1>7. McpAlias(module, again) = d.mcp.alias /\ Len(d.mcp.alias) \in Nat
  <2>1. PICK text \in Seq(AliasCharacters) : d.mcp.alias = Sanitized(text)
    <3>1. d.mcp.alias = Sanitized(Or(entry.display.mcp.alias, d.alias))
      BY <1>2, <1>3 DEF McpAlias
    <3>2. d.alias \in Seq(AliasCharacters)
      BY <1>2 DEF Alias, Or, Displayable, IsOverlay
    <3>3. Or(entry.display.mcp.alias, d.alias) \in Seq(AliasCharacters)
      BY <3>2 DEF Or, IsOverlay
    <3> QED
      BY <3>1, <3>3
  <2>2. Sanitized(d.mcp.alias) = d.mcp.alias /\ d.mcp.alias \in Seq(AliasCharacters)
    BY <2>1, SanitizedStays
  <2>3. McpAlias(module, again) = Sanitized(d.mcp.alias)
    BY <1>1, <1>4 DEF McpAlias, Or
  <2> QED
    BY <2>2, <2>3
<1>8. CliAlias(module, again) = d.cli.alias
  BY <1>1, <1>4, <1>5, <1>6 DEF CliAlias, Or
<1>9. \A surface \in {d.cli, d.mcp, d.a2a} :
        Face(module, again, surface.alias, surface) = surface
  <2>1. \A x, y : Or(Or(x, y), y) = Or(x, y)
    BY OrStays
  <2>2. ASSUME NEW surface \in {d.cli, d.mcp, d.a2a}
        PROVE  Face(module, again, surface.alias, surface) = surface
    <3>1. PICK alias, old : surface = Face(module, entry, alias, old)
      BY <1>2
    <3>2. /\ surface = [alias |-> surface.alias, description |-> surface.description,
                        guidance |-> surface.guidance]
          /\ Or(surface.description, d.description) = surface.description
          /\ Or(surface.guidance, d.guidance) = surface.guidance
      BY <1>3, <2>1, <3>1
    <3> QED
      BY <1>1, <1>6, <3>2 DEF Face
  <2> QED
    BY <2>2
<1>10. Settled(module, again) = d
  <2>1. /\ Or(d.documentation, Or(<<>>, module.documentation)) = d.documentation
        /\ Or(d.tags, Or(<<>>, module.tags)) = d.tags
        /\ Or(d.a2a.alias, d.alias) = d.a2a.alias
    BY <1>2, <1>4 DEF Or
  <2> QED
    BY <1>1, <1>2, <1>6, <1>7, <1>8, <1>9, <2>1 DEF Settled
<1> QED
  BY <1>4, <1>5, <1>7, <1>10, <1>11

-----------------------------------------------------------------------------
(* The least and the greatest of some numbers.                             *)

Before == OpToRel(<, Nat)

LEMMA Least ==
  ASSUME NEW S, S \subseteq Nat, S # {}
  PROVE  \E n \in S : \A m \in S : n <= m
<1>1. \A x, y \in Nat : x < y => <<x, y>> \in Before
  BY DEF OpToRel, Before
<1>2. IsWellFoundedOn(Before, Nat)
  BY NatLessThanWellFounded DEF Before
<1>3. PICK n \in S : \A m \in S : ~(<<m, n>> \in Before)
  BY <1>2, WFMin
<1>4. ASSUME NEW m \in S PROVE n <= m
  <2>1. n \in Nat /\ m \in Nat /\ ~(m < n)
    BY <1>1, <1>3
  <2> QED
    BY <2>1
<1> QED
  BY <1>4

LEMMA Lowest ==
  ASSUME NEW S, S \subseteq Nat, S # {}
  PROVE  Min(S) \in S /\ \A m \in S : Min(S) <= m
  BY Least DEF Min

LEMMA Highest ==
  ASSUME NEW k \in Nat, NEW S, S \subseteq 1..k, S # {}
  PROVE  Max(S) \in S
<1> DEFINE distances == {k - m : m \in S}
<1>1. distances \subseteq Nat /\ distances # {}
  <2>1. \A m \in S : k - m \in Nat
    OBVIOUS
  <2> QED
    BY <2>1
<1>2. PICK n \in distances : \A m \in distances : n <= m
  BY <1>1, Least
<1>3. PICK x \in S : n = k - x
  BY <1>2
<1>4. ASSUME NEW y \in S PROVE x >= y
  <2>1. k - y \in distances
    OBVIOUS
  <2>2. k - x <= k - y /\ x \in Nat /\ y \in Nat
    BY <1>2, <1>3, <2>1
  <2> QED
    BY <2>2
<1>5. \E z \in S : \A y \in S : z >= y
  BY <1>4
<1> QED
  BY <1>5 DEF Max

-----------------------------------------------------------------------------
\* The entry that counts for a module comes from one of the files.
LEMMA EntriesAreOverlays ==
  ASSUME NEW files, Len(files) \in Nat, DOMAIN files = 1..Len(files),
         \A i \in DOMAIN files : \A id \in DOMAIN files[i].entries : IsOverlay(files[i].entries[id]),
         NEW id, id \in DOMAIN BindingMap(files)
  PROVE  IsOverlay(BindingMap(files)[id])
<1> DEFINE Having(key) == {i \in DOMAIN files : files[i].loads /\ key \in DOMAIN files[i].entries}
<1>1. BindingMap(files) =
        [key \in UNION {DOMAIN files[i].entries : i \in {j \in DOMAIN files : files[j].loads}} |->
           files[Max(Having(key))].entries[key]]
  BY DEF BindingMap
<1>2. PICK k \in {j \in DOMAIN files : files[j].loads} : id \in DOMAIN files[k].entries
  BY <1>1
<1>3. Having(id) \subseteq 1..Len(files) /\ Having(id) # {}
  BY <1>2
<1>4. Max(Having(id)) \in Having(id)
  <2> HIDE DEF Having
  <2> QED
    BY <1>3, Highest
<1>5. BindingMap(files)[id] = files[Max(Having(id))].entries[id]
  BY <1>1
<1> QED
  BY <1>4, <1>5

LEMMA NoEntryIsOverlay == IsOverlay(NoEntry)
<1>1. <<>> \in Seq(AliasCharacters)
  OBVIOUS
<1>2. /\ NoEntry.display.alias = <<>> /\ NoEntry.display.cli.alias = <<>>
      /\ NoEntry.display.mcp.alias = <<>> /\ NoEntry.display.a2a.alias = <<>>
  BY DEF NoEntry, BlankDisplay, Blank
<1> QED
  BY <1>1, <1>2, Zenon DEF IsOverlay

\* For all lists of modules and all binding files, whichever of them load, what
\* resolve() returns is complete and resolves to itself, its MCP alias is legal,
\* and its CLI alias is the legal one somebody chose, one that the pattern takes
\* or the default (display/resolver.py:135-260).
THEOREM DisplaysAreFinal == SpecAsking => []DisplayIsFinal
<1>1. Answered => DisplayIsFinal
  <2> SUFFICES ASSUME Answered, question.of = "display", answer # <<>>, answer[1] # <<>>,
                      NEW i \in DOMAIN question.modules
               PROVE  LET display == answer[1][1][i] IN
                      /\ <<>> \notin {display.alias, display.cli.alias, display.mcp.alias,
                                      display.a2a.alias}
                      /\ LegalMcp(display.mcp.alias) /\ Len(display.mcp.alias) <= MaxAlias
                      /\ MatchesCli(display.cli.alias) \/ display.cli.alias = display.alias
                      /\ LET map == BindingMap(question.files)
                             id == question.modules[i].id
                         IN id \in DOMAIN map /\ LegalCli(map[id].display.cli.alias) =>
                              display.cli.alias = map[id].display.cli.alias
                      /\ Resolve(question.modules[i], [NoEntry EXCEPT !.display = display])
                           = <<display>>
    BY DEF DisplayIsFinal
  <2> DEFINE map == BindingMap(question.files)
             module == question.modules[i]
             entry == IF module.id \in DOMAIN map THEN map[module.id] ELSE NoEntry
             one == [j \in DOMAIN question.modules |->
                       Resolve(question.modules[j],
                               IF question.modules[j].id \in DOMAIN map
                               THEN map[question.modules[j].id] ELSE NoEntry)]
             display == one[i][1]
  <2>1. question \in DisplayQuestions
        /\ answer = <<ResolveAll(question.modules, question.files)>>
    BY Subjects DEF Answered
  <2>2. Displayable(module) /\ IsOverlay(entry)
    <3>1. Displayable(module)
      BY <2>1, QuestionsAssumption, Zenon
    <3>2. /\ Len(question.files) \in Nat /\ DOMAIN question.files = 1..Len(question.files)
          /\ \A j \in DOMAIN question.files : \A id \in DOMAIN question.files[j].entries :
               IsOverlay(question.files[j].entries[id])
      BY <2>1, QuestionsAssumption, Zenon
    <3>3. module.id \in DOMAIN map => IsOverlay(map[module.id])
      BY <3>2, EntriesAreOverlays
    <3> QED
      BY <3>1, <3>3, NoEntryIsOverlay, Zenon
  <2>3. answer[1] = IF \E j \in DOMAIN one : one[j] = <<>> THEN <<>>
                    ELSE <<[j \in DOMAIN one |-> one[j][1]]>>
    <3>1. answer[1] = ResolveAll(question.modules, question.files)
      BY <2>1
    <3> QED
      BY <3>1, Zenon DEF ResolveAll
  <2>4. one[i] = Resolve(module, entry) /\ DOMAIN one = DOMAIN question.modules
    OBVIOUS
  <2>5. one[i] # <<>> /\ answer[1][1][i] = display
    <3> HIDE DEF one
    <3> QED
      BY <2>3, <2>4
  <2> HIDE DEF one, entry, module, display
  <2>6. /\ LegalMcp(McpAlias(module, entry)) /\ ~(Len(McpAlias(module, entry)) > MaxAlias)
        /\ one[i] = <<Settled(module, entry)>>
    BY <2>4, <2>5, ResolveSettles
  <2>7. display = Settled(module, entry) /\ one[i] = <<display>>
    BY <2>6 DEF display
  <2>8. display.mcp.alias = McpAlias(module, entry)
    BY <2>7 DEF Settled, Face
  <2>9. PICK again : again = [NoEntry EXCEPT !.display = display]
    OBVIOUS
  <2>10. /\ <<>> \notin {display.alias, display.cli.alias, display.mcp.alias, display.a2a.alias}
         /\ MatchesCli(display.cli.alias) \/ display.cli.alias = display.alias
         /\ LegalCli(entry.display.cli.alias) => display.cli.alias = entry.display.cli.alias
         /\ McpAlias(module, again) = display.mcp.alias /\ Len(display.mcp.alias) \in Nat
         /\ Settled(module, again) = display
    BY <2>2, <2>6, <2>7, <2>8, <2>9, SettledStays
  <2>11. Resolve(module, again) = <<display>>
    BY <2>6, <2>8, <2>10, ResolveSettles
  <2>12. Len(display.mcp.alias) <= MaxAlias /\ LegalMcp(display.mcp.alias)
    BY <2>6, <2>8, <2>10, MaxAliasAssumption
  <2>13. module.id \in DOMAIN map /\ LegalCli(map[module.id].display.cli.alias) =>
           display.cli.alias = map[module.id].display.cli.alias
    BY <2>10, Zenon DEF entry
  <2> QED
    BY <2>5, <2>9, <2>10, <2>11, <2>12, <2>13 DEF module
<1> QED
  BY <1>1, AnsweredInvariance, PTL
-----------------------------------------------------------------------------
(* Enhancement.                                                            *)

\* What an answer makes of one module.
LEMMA EnhancedModule ==
  ASSUME NEW before, Enhanceable(before), NEW reply, NEW threshold, NEW after,
         after = EnhanceModule(before, reply, threshold), NEW f \in DOMAIN before.value
  PROVE  /\ before.value[f] = "given" => after.value[f] = "given"
         /\ after.value[f] = "generated" =>
              f \in reply.fields /\ after.confidence[f] >= threshold
         /\ Gap(before, f) /\ f \in reply.fields \ reply.malformed =>
              after.value[f] = "generated" \/ f \in after.warnings
<1> DEFINE offered == Offered(before, reply)
           accepted == {field \in offered : Confidence(reply, field) >= threshold}
           warned == [before EXCEPT !.warnings = @ \cup (offered \ accepted)]
           filled == [g \in DOMAIN before.value |->
                        IF g \in accepted THEN "generated" ELSE before.value[g]]
           confident == [g \in offered |-> Confidence(reply, g)]
<1>1. before = [value |-> before.value, warnings |-> before.warnings,
                confidence |-> before.confidence]
  BY DEF Enhanceable
<1>2. before.value[f] \in {"missing", "given"}
  BY DEF Enhanceable
<1>3. before.value[f] = "given" => f \notin offered
  <2>1. Gap(before, f) => before.value[f] = "missing"
    BY Zenon DEF Gap
  <2> QED
    BY <2>1 DEF Offered, Gaps
<1>4. f \in offered => f \in reply.fields
  BY DEF Offered
<1>5. Gap(before, f) /\ f \in reply.fields \ reply.malformed => f \in offered
  BY DEF Offered, Gaps
<1>6. warned = [value |-> before.value,
                warnings |-> before.warnings \cup (offered \ accepted),
                confidence |-> before.confidence]
  <2> HIDE DEF offered, accepted
  <2>1. PICK v, w, c : before = [value |-> v, warnings |-> w, confidence |-> c]
    BY <1>1, Zenon
  <2>2. before.value = v /\ before.warnings = w /\ before.confidence = c
    BY <2>1
  <2>3. \A more : [before EXCEPT !.warnings = more] = [value |-> v, warnings |-> more, confidence |-> c]
    BY <2>1
  <2> QED
    BY <2>2, <2>3, Zenon
<1>7. after = IF accepted = {} THEN warned
              ELSE [warned EXCEPT !.value = [g \in DOMAIN @ |-> IF g \in accepted THEN "generated" ELSE @[g]],
                                  !.confidence = confident]
  BY Zenon DEF EnhanceModule
<1>8. after.warnings = before.warnings \cup (offered \ accepted)
  <2> HIDE DEF offered, accepted, confident, warned
  <2> QED
    BY <1>6, <1>7
<1>9. CASE accepted = {}
  <2> HIDE DEF offered, accepted, confident, warned
  <2>1. after.value = before.value
    BY <1>6, <1>7, <1>9
  <2> QED
    BY <1>2, <1>5, <1>8, <1>9, <2>1
<1>10. CASE accepted # {}
  <2>1. accepted \subseteq offered
    OBVIOUS
  <2>2. f \in accepted => confident[f] >= threshold
    OBVIOUS
  <2>3. after.value = filled /\ after.confidence = confident
    <3> HIDE DEF offered, accepted, confident, warned
    <3> QED
      BY <1>6, <1>7, <1>10
  <2>4. filled[f] = IF f \in accepted THEN "generated" ELSE before.value[f]
    <3> HIDE DEF offered, accepted
    <3> QED
      OBVIOUS
  <2> HIDE DEF offered, accepted, confident, warned, filled
  <2> QED
    BY <1>2, <1>3, <1>4, <1>5, <1>8, <2>1, <2>2, <2>3, <2>4
<1> QED
  BY <1>9, <1>10

\* Whatever the model answers, for any threshold and any list: enhance()
\* overwrites nothing a module has, keeps failures apart, and every gap that
\* was answered is filled or warned of (ai_enhancer.py:163-324).
THEOREM EnhancementsAreAccountedFor == SpecAsking => []EnhancementIsAccountedFor
<1>1. Answered => EnhancementIsAccountedFor
  <2> SUFFICES ASSUME Answered, question.of = "enhancement", answer # <<>>,
                      NEW i \in DOMAIN question.modules,
                      NEW before, before = question.modules[i], NEW after, after = answer[1][i],
                      NEW reply, reply = question.answers[i]
               PROVE  \/ reply = <<>> /\ after = before
                      \/ /\ reply # <<>>
                         /\ \A f \in DOMAIN before.value :
                              /\ before.value[f] = "given" => after.value[f] = "given"
                              /\ after.value[f] = "generated" =>
                                   f \in reply[1].fields /\ after.confidence[f] >= question.threshold
                              /\ Gap(before, f) /\ f \in reply[1].fields \ reply[1].malformed =>
                                   after.value[f] = "generated" \/ f \in after.warnings
    BY Zenon DEF EnhancementIsAccountedFor
  <2>1. /\ question \in EnhancementQuestions
        /\ answer = <<Enhance(question.modules, question.answers, question.threshold)>>
    BY Subjects DEF Answered
  <2>2. Enhanceable(before)
    BY <2>1, QuestionsAssumption, Zenon
  <2>3. after = IF Gaps(before) = {} \/ reply = <<>> THEN before
                ELSE EnhanceModule(before, reply[1], question.threshold)
    <3>1. answer[1] = Enhance(question.modules, question.answers, question.threshold)
      BY <2>1
    <3> QED
      BY <3>1 DEF Enhance
  <2>4. CASE reply = <<>>
    BY <2>3, <2>4
  <2>5. CASE reply # <<>> /\ Gaps(before) = {}
    <3>1. after = before /\ \A f \in DOMAIN before.value : ~Gap(before, f)
      BY <2>3, <2>5 DEF Gaps
    <3>2. \A f \in DOMAIN before.value : before.value[f] \in {"missing", "given"}
      BY <2>2 DEF Enhanceable
    <3> QED
      BY <2>5, <3>1, <3>2
  <2>6. CASE reply # <<>> /\ Gaps(before) # {}
    BY <2>2, <2>3, <2>6, EnhancedModule
  <2> QED
    BY <2>4, <2>5, <2>6
<1> QED
  BY <1>1, AnsweredInvariance, PTL

-----------------------------------------------------------------------------
(* Discovery.                                                              *)

\* A configuration with other endpoints is as valid if they are secure.
LEMMA MergedIsValid ==
  ASSUME NEW config, Configuration(config), NEW merged, DOMAIN merged = Endpoints,
         \A e \in Endpoints : merged[e] # <<>> => Secure(merged[e]),
         config.issuer # <<>>
  PROVE  Valid([config EXCEPT !.endpoints = merged])
<1> DEFINE new == [config EXCEPT !.endpoints = merged]
<1>1. /\ new.clientId = config.clientId /\ new.authMethod = config.authMethod
      /\ new.secret = config.secret /\ new.errorAliases = config.errorAliases
      /\ new.encoding = config.encoding /\ new.interval = config.interval
      /\ new.issuer = config.issuer /\ new.endpoints = merged
  BY DEF Configuration
<1>2. Valid(config)
  BY DEF Configuration
<1> HIDE DEF new
<1>3. Valid(new)
  BY <1>1, <1>2 DEF Valid
<1> QED
  BY <1>3 DEF new

\* What a document makes of a configuration.
LEMMA WithMetadataKeeps ==
  ASSUME NEW config, Configuration(config), config.issuer # <<>>, NEW document,
         NEW outcome, outcome = WithMetadata(config, document), outcome.config # <<>>,
         NEW found, found = outcome.config[1]
  PROVE  /\ Valid(found) /\ [found EXCEPT !.endpoints = config.endpoints] = config
         /\ \A e \in Endpoints : found.endpoints[e] # config.endpoints[e] =>
              config.endpoints[e] = <<>> /\ found.endpoints[e] = document.endpoints[e]
         /\ found.endpoints["device"] # <<>> /\ found.endpoints["token"] # <<>>
<1> DEFINE merged == [e \in Endpoints |->
                        IF config.endpoints[e] # <<>> THEN config.endpoints[e] ELSE document.endpoints[e]]
           incomplete == merged["device"] = <<>> \/ merged["token"] = <<>>
           insecure == \E e \in Endpoints : merged[e] # <<>> /\ ~Secure(merged[e])
<1>1. outcome = CASE incomplete -> Refused("configuration")
                 [] insecure -> Refused("insecure_endpoint")
                 [] OTHER -> [config |-> <<[config EXCEPT !.endpoints = merged]>>, reason |-> "none"]
  BY Zenon DEF WithMetadata
<1>2. ~incomplete /\ ~insecure /\ found = [config EXCEPT !.endpoints = merged]
  <2> HIDE DEF incomplete, insecure, merged
  <2>1. ~incomplete /\ ~insecure
    BY <1>1 DEF Refused
  <2>2. outcome = [config |-> <<[config EXCEPT !.endpoints = merged]>>, reason |-> "none"]
    BY <1>1, <2>1
  <2> QED
    BY <2>1, <2>2
<1>3. found.endpoints = merged /\ [found EXCEPT !.endpoints = config.endpoints] = config
  <2>1. found = [config EXCEPT !.endpoints = merged]
    BY <1>2
  <2> HIDE DEF merged
  <2> QED
    BY <2>1 DEF Configuration
<1>4. Valid(found)
  <2>1. DOMAIN merged = Endpoints /\ \A e \in Endpoints : merged[e] # <<>> => Secure(merged[e])
    BY <1>2
  <2> HIDE DEF merged
  <2> QED
    BY <1>2, <2>1, MergedIsValid
<1> QED
  BY <1>2, <1>3, <1>4

\* Whatever the candidates publish, discover() yields a configuration its
\* constructor takes, completed from the first metadata there is and only if
\* that is the issuer's (auth/config.py:209-323).
THEOREM DiscoveriesKeepToTheIssuer == SpecAsking => []DiscoveryKeepsToTheIssuer
<1>1. Answered => DiscoveryKeepsToTheIssuer
  <2> SUFFICES ASSUME Answered, question.of = "discovery", answer # <<>>, answer[1].config # <<>>,
                      NEW config, config = question.config, NEW found, found = answer[1].config[1]
               PROVE  LET added == {e \in Endpoints : found.endpoints[e] # config.endpoints[e]} IN
                      /\ Valid(found) /\ [found EXCEPT !.endpoints = config.endpoints] = config
                      /\ \A e \in added : config.endpoints[e] = <<>>
                      /\ found.endpoints["device"] # <<>> /\ found.endpoints["token"] # <<>>
                      /\ \E i \in Candidates :
                           /\ question.answers[i] # <<>>
                           /\ question.answers[i][1].issuer = config.issuer
                           /\ \A e \in added : found.endpoints[e][1].from = i
                           /\ \A j \in 1..(i - 1) : ~IsMetadata(question.answers[j])
    BY DEF DiscoveryKeepsToTheIssuer
  <2> DEFINE answers == question.answers
             metadata == {i \in Candidates : IsMetadata(answers[i])}
             first == answers[Min(metadata)][1]
  <2>1. question \in DiscoveryQuestions /\ answer = <<Discover(config, answers)>>
    BY Subjects DEF Answered
  <2>2. Configuration(config) /\ \A i \in Candidates : PublishedBy(i, answers[i])
    BY <2>1, QuestionsAssumption, Zenon
  <2>3. answer[1] = CASE config.issuer = <<>> -> Refused("configuration")
                      [] config.issuer # <<>> /\ metadata = {} -> Refused("no_metadata")
                      [] config.issuer # <<>> /\ metadata # {} /\ first.issuer # config.issuer ->
                           Refused("issuer_mismatch")
                      [] OTHER -> WithMetadata(config, first)
    <3>1. answer[1] = Discover(config, answers)
      BY <2>1
    <3> QED
      BY <3>1, Zenon DEF Discover
  <2>4. config.issuer # <<>> /\ metadata # {} /\ first.issuer = config.issuer
    <3> HIDE DEF metadata, first
    <3> QED
      BY <2>3 DEF Refused
  <2>5. answer[1] = WithMetadata(config, first)
    <3> HIDE DEF metadata, first
    <3> QED
      BY <2>3, <2>4
  <2>6. PICK i \in metadata : i = Min(metadata) /\ \A j \in metadata : i <= j
    <3>1. metadata \subseteq Nat
      BY DEF Candidates
    <3> HIDE DEF metadata
    <3> QED
      BY <2>4, <3>1, Lowest
  <2>7. /\ Valid(found) /\ [found EXCEPT !.endpoints = config.endpoints] = config
        /\ \A e \in Endpoints : found.endpoints[e] # config.endpoints[e] =>
             config.endpoints[e] = <<>> /\ found.endpoints[e] = first.endpoints[e]
        /\ found.endpoints["device"] # <<>> /\ found.endpoints["token"] # <<>>
    <3> HIDE DEF first
    <3> QED
      BY <2>2, <2>4, <2>5, WithMetadataKeeps
  <2>8. /\ i \in Candidates /\ IsMetadata(answers[i]) /\ first = answers[i][1]
        /\ answers[i] # <<>>
    <3>1. IsMetadata(answers[i]) => answers[i] # <<>>
      BY Zenon DEF IsMetadata
    <3> QED
      BY <2>6, <3>1
  <2>9. \A j \in 1..(i - 1) : ~IsMetadata(answers[j])
    BY <2>6, <2>8 DEF Candidates
  <2>10. \A e \in Endpoints : found.endpoints[e] # config.endpoints[e] =>
           found.endpoints[e][1].from = i
    <3> SUFFICES ASSUME NEW e \in Endpoints, found.endpoints[e] # config.endpoints[e]
                 PROVE  found.endpoints[e][1].from = i
      OBVIOUS
    <3>1. found.endpoints[e] = first.endpoints[e] /\ first.endpoints[e] # <<>>
      BY <2>7
    <3>2. PublishedBy(i, answers[i])
      BY <2>2, <2>8
    <3> QED
      BY <2>8, <3>1, <3>2, Zenon DEF PublishedBy
  <2> HIDE DEF metadata, first
  <2> QED
    BY <2>4, <2>7, <2>8, <2>9, <2>10
<1> QED
  BY <1>1, AnsweredInvariance, PTL
-----------------------------------------------------------------------------
(* Binding entries.                                                        *)

LEMMA Types ==
  ASSUME NEW f
  PROVE  TypeOf(f) \in {"string", "mapping", "list", "any"}
  BY DEF TypeOf

\* What an entry that is not refused is parsed into.
LEMMA Parsed ==
  ASSUME NEW entry, NEW strict, ~Refuses(entry, strict)
  PROVE  \E module :
           /\ ParseEntry(entry, strict) = <<module>>
           /\ \A f \in Fields \ {"warnings", "version", "metadata"} :
                module[f] = IF HasType(entry, f) THEN entry[f].value ELSE <<>>
           /\ HasType(entry, "version") /\ entry["version"].value # <<>> =>
                module["version"] = entry["version"].value
           /\ HasType(entry, "metadata") /\ entry["metadata"].value # <<>> =>
                module["metadata"] = <<entry["metadata"].value[1] \ ForbiddenMetadata>>
<1> DEFINE taken == [f \in Fields |-> IF HasType(entry, f) THEN ReadAs(entry, f) ELSE <<>>]
           version == IF taken["version"] = <<>> THEN <<"1.0.0">> ELSE taken["version"]
           metadata == IF taken["metadata"] = <<>> THEN taken["metadata"]
                       ELSE <<taken["metadata"][1] \ ForbiddenMetadata>>
           module == [taken EXCEPT !["version"] = version, !["metadata"] = metadata]
<1>1. "version" \in Fields /\ "metadata" \in Fields
  BY DEF Fields
<1>2. ParseEntry(entry, strict) = <<module>>
  <2>1. ParseEntry(entry, strict) =
          <<[taken EXCEPT !["version"] = IF @ = <<>> THEN <<"1.0.0">> ELSE @,
                          !["metadata"] = IF @ = <<>> THEN @ ELSE <<@[1] \ ForbiddenMetadata>>]>>
    BY Zenon DEF ParseEntry
  <2>2. [taken EXCEPT !["version"] = IF @ = <<>> THEN <<"1.0.0">> ELSE @,
                      !["metadata"] = IF @ = <<>> THEN @ ELSE <<@[1] \ ForbiddenMetadata>>]
          = module
    <3>1. DOMAIN taken = Fields
      OBVIOUS
    <3> HIDE DEF taken
    <3> QED
      BY <1>1, <3>1
  <2> QED
    BY <2>1, <2>2
<1>3. \A f \in Fields \ {"version", "metadata"} : module[f] = taken[f]
  <2> HIDE DEF version, metadata
  <2> QED
    OBVIOUS
<1>4. module["version"] = version /\ module["metadata"] = metadata
  <2> HIDE DEF version, metadata
  <2> QED
    BY <1>1
<1>5. \A f \in Fields \ {"warnings"} : taken[f] = IF HasType(entry, f) THEN entry[f].value ELSE <<>>
  BY DEF ReadAs
<1> HIDE DEF taken, module
<1> QED
  BY <1>1, <1>2, <1>3, <1>4, <1>5

\* An entry the writer writes has every field in its type.
LEMMA BuiltEntry ==
  ASSUME NEW module, WritableModule(module), NEW entry, entry = BuildBinding(module)
  PROVE  /\ DOMAIN entry \subseteq Fields /\ Schemas \subseteq DOMAIN entry
         /\ RequiredNames \subseteq DOMAIN entry
         /\ \A f \in Fields \ {"warnings"} : f \notin DOMAIN entry => module[f] = <<>>
         /\ "warnings" \notin DOMAIN entry
         /\ \A f \in DOMAIN entry :
              /\ HasType(entry, f) /\ entry[f].type # "null" /\ entry[f].value = module[f]
         /\ "version" \in DOMAIN entry /\ "metadata" \in DOMAIN entry
<1> DEFINE written == {f \in Fields \ {"warnings"} :
                         f \in {"suggested_alias", "display"} => module[f] # <<>>}
           Type(f) == IF TypeOf(f) = "any" THEN "string" ELSE TypeOf(f)
<1>1. entry = [f \in written |-> [type |-> Type(f), value |-> module[f]]]
  BY DEF BuildBinding
<1>2. DOMAIN entry = written
  BY <1>1
<1>3. \A f \in written : entry[f].type = Type(f) /\ entry[f].value = module[f]
  <2> HIDE DEF written, Type
  <2> QED
    BY <1>1
<1>4. \A f : Type(f) # "null" /\ TypeOf(f) \in {"any", Type(f)}
  BY Types
<1>5. \A f \in written : HasType(entry, f)
  <2> HIDE DEF written, Type
  <2> QED
    BY <1>2, <1>3, <1>4 DEF HasType
<1>6. /\ written \subseteq Fields /\ Schemas \subseteq written /\ RequiredNames \subseteq written
      /\ "version" \in written /\ "metadata" \in written
  BY DEF Fields, Schemas, RequiredNames
<1>7. (\A f \in Fields \ {"warnings"} : f \notin written => module[f] = <<>>) /\ "warnings" \notin written
  OBVIOUS
<1> HIDE DEF written, Type
<1> QED
  BY <1>2, <1>3, <1>4, <1>5, <1>6, <1>7

\* What is written is not refused, in either mode.
LEMMA BuiltIsTaken ==
  ASSUME NEW module, WritableModule(module), NEW strict \in BOOLEAN
  PROVE  ~Refuses(BuildBinding(module), strict)
<1> DEFINE entry == BuildBinding(module)
<1> HIDE DEF entry
<1>1. /\ DOMAIN entry \subseteq Fields /\ Schemas \subseteq DOMAIN entry
      /\ RequiredNames \subseteq DOMAIN entry /\ "warnings" \notin DOMAIN entry
      /\ \A f \in DOMAIN entry :
           /\ HasType(entry, f) /\ entry[f].type # "null" /\ entry[f].value = module[f]
  BY BuiltEntry DEF entry
<1>2. Schemas \cap DOMAIN entry \in {{}, Schemas}
  BY <1>1
<1>3. \A f \in RequiredNames \cup Schemas : ~RequiredInvalid(entry, f)
  <2> SUFFICES ASSUME NEW f \in RequiredNames \cup Schemas PROVE ~RequiredInvalid(entry, f)
    OBVIOUS
  <2>1. HasType(entry, f) /\ entry[f].value = module[f]
    BY <1>1
  <2>2. f \in RequiredNames => module[f] # <<>>
    BY DEF WritableModule
  <2> QED
    BY <2>1, <2>2 DEF RequiredInvalid
<1>4. ~Refuses(entry, strict)
  BY <1>1, <1>2, <1>3 DEF Refuses, Unlistable
<1> QED
  BY <1>4 DEF entry

\* Strict mode refuses whatever loose mode refuses, and a name that is missing.
LEMMA StrictRefusesMore ==
  ASSUME NEW entry, ~Refuses(entry, TRUE)
  PROVE  /\ ~Refuses(entry, FALSE)
         /\ \A f \in RequiredNames : HasType(entry, f) /\ entry[f].value # <<>>
<1>1. /\ DOMAIN entry \subseteq Fields
      /\ Schemas \cap DOMAIN entry \in {{}, Schemas}
      /\ \A f \in RequiredNames \cup Schemas : ~RequiredInvalid(entry, f)
  BY DEF Refuses
<1>2. \A f \in RequiredNames : ~RequiredInvalid(entry, f)
  BY <1>1
<1> QED
  BY <1>1, <1>2 DEF Refuses, RequiredInvalid

\* Every module with an identifier and a target survives _build_binding and
\* _parse_entry, in both modes (output/yaml_writer.py:181-208,
\* binding_loader.py:403-510), and strict mode only refuses more.
THEOREM EntriesGoRound == SpecAsking => []EntriesRoundTrip
<1>1. ASSUME Answered, question.of = "module", answer # <<>>
      PROVE  /\ answer[1] # <<>>
             /\ \A f \in Fields \ {"warnings", "version", "metadata"} :
                  answer[1][1][f] = question.module[f]
             /\ question.module["version"] # <<>> =>
                  answer[1][1]["version"] = question.module["version"]
             /\ question.module["metadata"] # <<>> =>
                  answer[1][1]["metadata"][1] = question.module["metadata"][1] \ ForbiddenMetadata
  <2> DEFINE module == question.module
             entry == BuildBinding(module)
  <2>1. /\ question \in ModuleQuestions
        /\ answer = <<ParseEntry(entry, question.strict)>>
    BY <1>1, Subjects DEF Answered
  <2>2. WritableModule(module) /\ question.strict \in BOOLEAN
    BY <2>1, QuestionsAssumption, Zenon
  <2>3. PICK outcome :
          /\ ParseEntry(entry, question.strict) = <<outcome>>
          /\ \A f \in Fields \ {"warnings", "version", "metadata"} :
               outcome[f] = IF HasType(entry, f) THEN entry[f].value ELSE <<>>
          /\ HasType(entry, "version") /\ entry["version"].value # <<>> =>
               outcome["version"] = entry["version"].value
          /\ HasType(entry, "metadata") /\ entry["metadata"].value # <<>> =>
               outcome["metadata"] = <<entry["metadata"].value[1] \ ForbiddenMetadata>>
    <3>1. ~Refuses(entry, question.strict)
      BY <2>2, BuiltIsTaken
    <3> HIDE DEF entry
    <3> QED
      BY <3>1, Parsed
  <2>4. /\ \A f \in Fields \ {"warnings"} : f \notin DOMAIN entry => module[f] = <<>>
        /\ \A f \in DOMAIN entry : HasType(entry, f) /\ entry[f].value = module[f]
        /\ "version" \in DOMAIN entry /\ "metadata" \in DOMAIN entry
    BY <2>2, BuiltEntry
  <2>5. \A f : HasType(entry, f) => f \in DOMAIN entry
    BY DEF HasType
  <2> HIDE DEF entry, module
  <2>6. \A f \in Fields \ {"warnings", "version", "metadata"} : outcome[f] = module[f]
    BY <2>3, <2>4, <2>5
  <2>7. answer[1] = <<outcome>> /\ answer[1][1] = outcome
    BY <2>1, <2>3
  <2> QED
    BY <2>3, <2>4, <2>6, <2>7 DEF module
<1>2. ASSUME Answered, question.of = "entry", answer # <<>>, answer[1] # <<>>
      PROVE  /\ ParseEntry(question.entry, FALSE) = answer[1]
             /\ \A f \in RequiredNames : answer[1][1][f] # <<>>
  <2> DEFINE entry == question.entry
  <2>1. answer = <<ParseEntry(entry, TRUE)>>
    BY <1>2, Subjects DEF Answered
  <2>2. ParseEntry(entry, TRUE) = answer[1]
    BY <2>1
  <2>3. ~Refuses(entry, TRUE)
    BY <1>2, <2>2, Zenon DEF ParseEntry
  <2>4. ~Refuses(entry, FALSE) /\ \A f \in RequiredNames : HasType(entry, f) /\ entry[f].value # <<>>
    BY <2>3, StrictRefusesMore
  <2>5. ParseEntry(entry, FALSE) = ParseEntry(entry, TRUE)
    <3> DEFINE taken == [f \in Fields |-> IF HasType(entry, f) THEN ReadAs(entry, f) ELSE <<>>]
               parsed == <<[taken EXCEPT
                              !["version"] = IF @ = <<>> THEN <<"1.0.0">> ELSE @,
                              !["metadata"] = IF @ = <<>> THEN @ ELSE <<@[1] \ ForbiddenMetadata>>]>>
    <3>1. /\ ParseEntry(entry, TRUE) = IF Refuses(entry, TRUE) THEN <<>> ELSE parsed
          /\ ParseEntry(entry, FALSE) = IF Refuses(entry, FALSE) THEN <<>> ELSE parsed
      BY Zenon DEF ParseEntry
    <3> HIDE DEF parsed
    <3> QED
      BY <2>3, <2>4, <3>1, Zenon
  <2>6. PICK outcome :
          /\ ParseEntry(entry, TRUE) = <<outcome>>
          /\ \A f \in Fields \ {"warnings", "version", "metadata"} :
               outcome[f] = IF HasType(entry, f) THEN entry[f].value ELSE <<>>
    <3>1. PICK strict : strict = TRUE
      BY Zenon
    <3>2. ~Refuses(entry, strict)
      BY <2>3, <3>1, Zenon
    <3>3. PICK module :
            /\ ParseEntry(entry, strict) = <<module>>
            /\ \A f \in Fields \ {"warnings", "version", "metadata"} :
                 module[f] = IF HasType(entry, f) THEN entry[f].value ELSE <<>>
      <4> HIDE DEF entry
      <4> QED
        BY <3>2, Parsed
    <3>4. ParseEntry(entry, TRUE) = <<module>>
      BY <3>1, <3>3, Zenon
    <3> QED
      BY <3>3, <3>4, Zenon
  <2>7. RequiredNames \subseteq Fields \ {"warnings", "version", "metadata"}
    <3>1. {"warnings", "version", "metadata"} \cap RequiredNames = {}
      BY DEF RequiredNames
    <3>2. RequiredNames \subseteq Fields
      BY DEF Fields
    <3> QED
      BY <3>1, <3>2
  <2>8. \A f \in RequiredNames : outcome[f] # <<>>
    BY <2>4, <2>6, <2>7
  <2>9. answer[1] = <<outcome>>
    BY <2>2, <2>6, Zenon
  <2>10. answer[1][1] = outcome
    BY <2>9
  <2>11. ParseEntry(entry, FALSE) = answer[1]
    BY <2>2, <2>5, Zenon
  <2>12. \A f \in RequiredNames : answer[1][1][f] # <<>>
    BY <2>8, <2>10
  <2> QED
    BY <2>11, <2>12, Zenon
<1>3. Answered => EntriesRoundTrip
  BY <1>1, <1>2 DEF EntriesRoundTrip
<1> QED
  BY <1>3, AnsweredInvariance, PTL

-----------------------------------------------------------------------------
(* The view model: its rows and its groups, for any modules, filter and    *)
(* sort.                                                                   *)

LabelNames == Tags \cup {"(untagged)", "(all)"}
Entries == [of : Nat, alias : Nat, description : Nat]
GroupRecords == [label : LabelNames, rows : Seq(Nat)]

Given == 1..Len(request.modules)
Resolved == 1..Len(resolved)
LabelsAt(i) == Labels(resolved[i])
WithGroups == stage = "grouping" \/ (stage = "done" /\ request.view = "grouped")

\* Label k of row i has been dealt with.
Met(i, k) == i < index \/ (i = index /\ k < label)

ViewTypes ==
  /\ request \in ViewRequests
  /\ index \in Nat \ {0} /\ label \in Nat \ {0}
  /\ resolved \in Seq(Entries) /\ groups \in Seq(GroupRecords)

\* What is listed is what the module shows, and passes.
EntriesAreTrue ==
  \A i \in Resolved : resolved[i].of \in Given /\ resolved[i] = Entry(resolved[i].of)
                      /\ Passes(resolved[i])

\* The filter has dealt with the modules up to the one it is at, in order.
Filtering ==
  stage = "filtering" =>
    /\ index <= Len(request.modules) + 1
    /\ \A i \in Resolved : resolved[i].of < index
    /\ \A m \in 1..(index - 1) : Passes(Entry(m)) => \E i \in Resolved : resolved[i].of = m

Unlost ==
  stage # "filtering" =>
    \A m \in Given : Passes(Entry(m)) => \E i \in Resolved : resolved[i].of = m

InOrder ==
  /\ stage \in {"filtering", "sorting"} =>
       \A i, j \in Resolved : i < j => resolved[i].of < resolved[j].of
  /\ stage \notin {"filtering", "sorting"} => \A i, j \in Resolved : i < j => Precedes(i, j)

Shown ==
  [i \in DOMAIN resolved |->
     [cells |-> [c \in DOMAIN request.columns |-> Cell(resolved[i], request.columns[c])],
      tags |-> request.modules[resolved[i].of].tags]]

RowsShown == stage \in {"grouping", "done"} => rows = Shown

\* Where the loops of _build_groups are.
Turning ==
  /\ stage \in {"filtering", "sorting", "showing"} => groups = <<>>
  /\ WithGroups => /\ index <= Len(resolved) + 1
                   /\ index <= Len(resolved) => label <= Len(LabelsAt(index))
                   /\ index > Len(resolved) => label = 1
  /\ stage = "done" /\ request.view = "grouped" => index = Len(resolved) + 1

\* The groups stand for the labels met: none is missing, none has a row that
\* does not belong to it, and both groups and rows stand in the order met.
AllMet ==
  \A i \in Resolved : \A k \in 1..Len(LabelsAt(i)) : Met(i, k) =>
    \E g \in 1..Len(groups) :
      groups[g].label = LabelsAt(i)[k] /\ \E p \in 1..Len(groups[g].rows) : groups[g].rows[p] = i

OnlyMet ==
  \A g \in 1..Len(groups) :
    /\ Len(groups[g].rows) > 0
    /\ \A p \in 1..Len(groups[g].rows) :
         /\ groups[g].rows[p] \in Resolved
         /\ \E k \in 1..Len(LabelsAt(groups[g].rows[p])) :
              LabelsAt(groups[g].rows[p])[k] = groups[g].label /\ Met(groups[g].rows[p], k)

OneGroupEach ==
  \A g, h \in 1..Len(groups) : groups[g].label = groups[h].label => g = h

RowsAscend ==
  \A g \in 1..Len(groups) : \A p, q \in 1..Len(groups[g].rows) : p < q =>
    \/ groups[g].rows[p] < groups[g].rows[q]
    \/ groups[g].rows[p] = groups[g].rows[q] /\ Twice(LabelsAt(groups[g].rows[p]), groups[g].label)

GroupsAscend ==
  \A g, h \in 1..Len(groups) : h < g =>
    \/ groups[h].rows[1] < groups[g].rows[1]
    \/ /\ groups[h].rows[1] = groups[g].rows[1]
       /\ MetBefore(LabelsAt(groups[g].rows[1]), groups[h].label, groups[g].label)

GroupsSoFar == WithGroups => AllMet /\ OnlyMet /\ OneGroupEach /\ RowsAscend /\ GroupsAscend

ViewInv == /\ ViewTypes /\ EntriesAreTrue /\ Filtering /\ Unlost /\ InOrder
           /\ RowsShown /\ Turning /\ GroupsSoFar

-----------------------------------------------------------------------------
\* The types of what is given.
LEMMA Requests ==
  ASSUME request \in ViewRequests
  PROVE  /\ request.modules \in Seq(Listings) /\ Len(request.modules) \in Nat
         /\ DOMAIN request.modules = Given
         /\ request.columns \in Seq(Columns) /\ request.view \in {"list", "grouped"}
         /\ \A m \in Given : request.modules[m] \in Listings
  BY ViewAssumption DEF Given

LEMMA EntryIsEntry ==
  ASSUME request \in ViewRequests, NEW m \in Given
  PROVE  Entry(m) \in Entries /\ Entry(m).of = m
<1> DEFINE module == request.modules[m]
<1> DEFINE overlay == IF request.display THEN module.overlay ELSE [alias |-> 0, description |-> 0]
<1>1. module \in Listings /\ m \in Nat
  BY Requests DEF Given
<1>2. module.id \in Nat /\ module.description \in Nat
      /\ module.overlay \in [alias : Nat, description : Nat]
  BY <1>1 DEF Listings
<1>3. overlay.alias \in Nat /\ overlay.description \in Nat
  BY <1>2
<1>4. TextOr(overlay.alias, module.id) \in Nat /\ TextOr(overlay.description, module.description) \in Nat
  BY <1>2, <1>3 DEF TextOr
<1>5. Entry(m) = [of |-> m, alias |-> TextOr(overlay.alias, module.id),
                  description |-> TextOr(overlay.description, module.description)]
  BY Zenon DEF Entry
<1> QED
  BY <1>1, <1>4, <1>5 DEF Entries

LEMMA KeysAreNumbers ==
  ASSUME request \in ViewRequests, NEW e \in Entries, e.of \in Given
  PROVE  Key(e) \in Nat
<1>1. request.modules[e.of].id \in Nat
  BY Requests DEF Listings
<1>2. e.alias \in Nat /\ e.description \in Nat
  BY DEF Entries
<1> QED
  BY <1>1, <1>2 DEF Key

LEMMA LabelsAreLabels ==
  ASSUME request \in ViewRequests, NEW e, e.of \in Given
  PROVE  /\ Labels(e) \in Seq(LabelNames) /\ Len(Labels(e)) \in Nat /\ Len(Labels(e)) > 0
         /\ DOMAIN Labels(e) = 1..Len(Labels(e))
<1>1. request.modules[e.of].tags \in Seq(Tags) /\ request.modules[e.of].prefix \in Tags
  BY Requests DEF Listings
<1>2. request.modules[e.of].tags \in Seq(LabelNames) /\ request.modules[e.of].prefix \in LabelNames
  BY <1>1 DEF LabelNames
<1>3. "(untagged)" \in LabelNames /\ "(all)" \in LabelNames
  BY Zenon DEF LabelNames
<1>4. \A n \in LabelNames : <<n>> \in Seq(LabelNames) /\ Len(<<n>>) = 1
  OBVIOUS
<1>5. Labels(e) \in Seq(LabelNames) /\ Len(Labels(e)) > 0
  <2>1. CASE request.groupBy = "tag" /\ request.modules[e.of].tags = <<>>
    BY <1>3, <1>4, <2>1 DEF Labels
  <2>2. CASE request.groupBy = "tag" /\ request.modules[e.of].tags # <<>>
    <3>1. Labels(e) = request.modules[e.of].tags
      BY <2>2 DEF Labels
    <3> QED
      BY <1>2, <2>2, <3>1
  <2>3. CASE request.groupBy = "prefix"
    BY <1>2, <1>4, <2>3 DEF Labels
  <2>4. CASE request.groupBy # "tag" /\ request.groupBy # "prefix"
    BY <1>3, <1>4, <2>4 DEF Labels
  <2> QED
    BY <2>1, <2>2, <2>3, <2>4
<1> QED
  BY <1>5

\* The places of the list, and the labels of its entries.
LEMMA Listed ==
  ASSUME ViewInv
  PROVE  /\ request \in ViewRequests
         /\ DOMAIN resolved = Resolved /\ Len(resolved) \in Nat
         /\ DOMAIN groups = 1..Len(groups) /\ Len(groups) \in Nat
         /\ \A i \in Resolved :
              /\ resolved[i] \in Entries /\ resolved[i].of \in Given
              /\ Key(resolved[i]) \in Nat
              /\ LabelsAt(i) \in Seq(LabelNames) /\ Len(LabelsAt(i)) \in Nat
              /\ Len(LabelsAt(i)) > 0 /\ DOMAIN LabelsAt(i) = 1..Len(LabelsAt(i))
<1>1. request \in ViewRequests /\ resolved \in Seq(Entries) /\ groups \in Seq(GroupRecords)
  BY DEF ViewInv, ViewTypes
<1>2. \A i \in Resolved : resolved[i] \in Entries /\ resolved[i].of \in Given
  BY <1>1 DEF ViewInv, EntriesAreTrue, Resolved
<1> QED
  BY <1>1, <1>2, KeysAreNumbers, LabelsAreLabels DEF Resolved, LabelsAt

\* What depends on the arguments only, or on the list, stays as they do.
LEMMA SameRequest ==
  ASSUME UNCHANGED request
  PROVE  /\ Given' = Given /\ Sorts' = Sorts
         /\ \A m : Entry(m)' = Entry(m)
         /\ \A e : Passes(e)' = Passes(e) /\ Labels(e)' = Labels(e) /\ Key(e)' = Key(e)
         /\ \A e, f : Comes(e, f)' = Comes(e, f)
<1>1. Given' = Given /\ Sorts' = Sorts
  BY Zenon DEF Given, Sorts
<1>2. \A m : Entry(m)' = Entry(m)
  BY Zenon DEF Entry
<1>3. \A e : Passes(e)' = Passes(e)
  BY Zenon DEF Passes
<1>4. \A e : Labels(e)' = Labels(e)
  BY Zenon DEF Labels
<1>5. \A e : Key(e)' = Key(e)
  BY Zenon DEF Key
<1>6. \A e, f : Comes(e, f)' = Comes(e, f)
  BY <1>5, Zenon DEF Comes
<1> QED
  BY <1>1, <1>2, <1>3, <1>4, <1>5, <1>6, Zenon

LEMMA SameRows ==
  ASSUME UNCHANGED <<request, resolved>>
  PROVE  Shown' = Shown
<1>1. resolved' = resolved /\ request' = request
  OBVIOUS
<1>2. \A e, c : Cell(e, c)' = Cell(e, c)
  BY <1>1, Zenon DEF Cell
<1> QED
  BY <1>1, <1>2, Zenon DEF Shown

LEMMA SameList ==
  ASSUME UNCHANGED <<request, resolved>>
  PROVE  /\ Resolved' = Resolved /\ \A i : LabelsAt(i)' = LabelsAt(i)
         /\ \A i, j : Precedes(i, j)' <=> Precedes(i, j)
<1>1. resolved' = resolved /\ request' = request
  OBVIOUS
<1>2. Resolved' = Resolved
  BY <1>1 DEF Resolved
<1>3. \A i : LabelsAt(i)' = LabelsAt(i)
  BY <1>1, Zenon DEF LabelsAt, Labels
<1>4. \A i, j : Precedes(i, j)' <=> Precedes(i, j)
  BY <1>1 DEF Precedes, Sorts, Comes, Key
<1> QED
  BY <1>2, <1>3, <1>4

LEMMA InitViewInv == InitView => ViewInv
<1> SUFFICES ASSUME InitView PROVE ViewInv
  OBVIOUS
<1>1. request \in ViewRequests /\ stage = "filtering" /\ index = 1 /\ label = 1
      /\ resolved = <<>> /\ groups = <<>>
  BY DEF InitView
<1>2. Len(request.modules) \in Nat
  BY <1>1, Requests
<1>3. ViewTypes
  BY <1>1 DEF ViewTypes
<1> QED
  BY <1>1, <1>2, <1>3 DEF ViewInv, EntriesAreTrue, Filtering, Unlost, InOrder, RowsShown, Turning,
                          GroupsSoFar, WithGroups, Resolved

-----------------------------------------------------------------------------
\* Until rows are shown there are no groups.
LEMMA NoGroupsYet ==
  ASSUME ViewInv, UNCHANGED <<request, groups>>, stage \in {"filtering", "sorting", "showing"},
         stage' \in {"filtering", "sorting", "showing"}
  PROVE  Turning' /\ GroupsSoFar' /\ RowsShown' /\ groups' \in Seq(GroupRecords)
  BY DEF ViewInv, ViewTypes, Turning, GroupsSoFar, WithGroups, RowsShown

LEMMA FilterModuleStep == ViewInv /\ FilterModule => ViewInv'
<1> SUFFICES ASSUME ViewInv, FilterModule PROVE ViewInv'
  OBVIOUS
<1>1. /\ stage = "filtering" /\ stage' = "filtering" /\ index <= Len(request.modules)
      /\ index' = index + 1 /\ UNCHANGED <<request, label, groups>>
      /\ resolved' = IF Passes(Entry(index)) THEN Append(resolved, Entry(index)) ELSE resolved
  BY DEF FilterModule
<1>2. request \in ViewRequests /\ index \in Nat \ {0} /\ label \in Nat \ {0}
      /\ resolved \in Seq(Entries)
  BY DEF ViewInv, ViewTypes
<1>3. Len(request.modules) \in Nat /\ index \in Given
  BY <1>1, <1>2, Requests DEF Given
<1>4. Entry(index) \in Entries /\ Entry(index).of = index
  BY <1>2, <1>3, EntryIsEntry
<1>5. /\ Given' = Given /\ \A m : Entry(m)' = Entry(m) /\ \A e : Passes(e)' = Passes(e)
  BY <1>1, SameRequest
<1>6. Turning' /\ GroupsSoFar' /\ RowsShown' /\ groups' \in Seq(GroupRecords)
  BY <1>1, NoGroupsYet
<1>7. /\ \A i \in Resolved : resolved[i].of \in Given /\ resolved[i] = Entry(resolved[i].of)
                             /\ Passes(resolved[i])
      /\ \A i \in Resolved : resolved[i].of < index
      /\ \A m \in 1..(index - 1) : Passes(Entry(m)) => \E i \in Resolved : resolved[i].of = m
      /\ \A i, j \in Resolved : i < j => resolved[i].of < resolved[j].of
  BY <1>1 DEF ViewInv, EntriesAreTrue, Filtering, InOrder
<1>8. CASE Passes(Entry(index))
  <2>1. resolved' = Append(resolved, Entry(index))
    BY <1>1, <1>8
  <2>2. /\ resolved' \in Seq(Entries) /\ Len(resolved') = Len(resolved) + 1 /\ Len(resolved) \in Nat
        /\ resolved'[Len(resolved) + 1] = Entry(index)
        /\ \A i \in 1..Len(resolved) : resolved'[i] = resolved[i]
    BY <1>2, <1>4, <2>1
  <2>3. Resolved' = Resolved \cup {Len(resolved) + 1}
    BY <2>2 DEF Resolved
  <2>4. \A i \in Resolved' : IF i = Len(resolved) + 1 THEN resolved'[i] = Entry(index)
                             ELSE i \in Resolved /\ resolved'[i] = resolved[i]
    BY <2>2 DEF Resolved
  <2>5. EntriesAreTrue'
    <3>1. ASSUME NEW i \in Resolved'
          PROVE  resolved'[i].of \in Given /\ resolved'[i] = Entry(resolved'[i].of) /\ Passes(resolved'[i])
      <4>1. CASE i = Len(resolved) + 1
        BY <1>3, <1>4, <1>8, <2>2, <4>1
      <4>2. CASE i # Len(resolved) + 1
        BY <1>7, <2>4, <3>1, <4>2
      <4> QED
        BY <4>1, <4>2
    <3> QED
      BY <1>5, <3>1 DEF EntriesAreTrue
  <2>6. Filtering'
    <3>1. \A i \in Resolved' : resolved'[i].of < index + 1
      <4>1. \A i \in Resolved : resolved[i].of \in Nat
        BY <1>7 DEF Given
      <4> QED
        BY <1>2, <1>4, <1>7, <2>4, <4>1
    <3>2. ASSUME NEW m \in 1..index, Passes(Entry(m)) PROVE \E i \in Resolved' : resolved'[i].of = m
      <4>1. CASE m = index
        BY <1>4, <2>2, <2>3, <4>1
      <4>2. CASE m # index
        <5>1. m \in 1..(index - 1)
          BY <1>2, <3>2, <4>2
        <5> QED
          BY <1>7, <2>2, <2>3, <3>2, <5>1 DEF Resolved
      <4> QED
        BY <4>1, <4>2
    <3>3. index' <= Len(request.modules) + 1 /\ (1..(index - 1))' = 1..index
      BY <1>1, <1>2, <1>3
    <3>4. request' = request /\ index' = index + 1
      BY <1>1
    <3> QED
      BY <1>5, <3>1, <3>2, <3>3, <3>4 DEF Filtering
  <2>7. InOrder'
    <3>1. ASSUME NEW i \in Resolved', NEW j \in Resolved', i < j
          PROVE  resolved'[i].of < resolved'[j].of
      <4>1. i \in Resolved /\ resolved'[i] = resolved[i]
        BY <2>2, <2>3, <2>4, <3>1 DEF Resolved
      <4> QED
        BY <1>4, <1>7, <2>4, <3>1, <4>1
    <3> QED
      BY <1>1, <3>1 DEF InOrder
  <2> QED
    BY <1>1, <1>2, <1>6, <2>2, <2>5, <2>6, <2>7 DEF ViewInv, ViewTypes, Unlost
<1>9. CASE ~Passes(Entry(index))
  <2>1. resolved' = resolved /\ Resolved' = Resolved
    BY <1>1, <1>9 DEF Resolved
  <2>2. EntriesAreTrue'
    BY <1>5, <1>7, <2>1 DEF EntriesAreTrue
  <2>3. Filtering'
    <3>1. \A i \in Resolved : resolved[i].of < index + 1
      BY <1>2, <1>7 DEF Given
    <3>2. \A m \in 1..index : Passes(Entry(m)) => m \in 1..(index - 1)
      BY <1>2, <1>9
    <3>3. index' <= Len(request.modules) + 1 /\ (1..(index - 1))' = 1..index
      BY <1>1, <1>2, <1>3
    <3> QED
      BY <1>1, <1>5, <1>7, <2>1, <3>1, <3>2, <3>3 DEF Filtering
  <2>4. InOrder'
    BY <1>1, <1>7, <2>1 DEF InOrder
  <2> QED
    BY <1>1, <1>2, <1>6, <2>1, <2>2, <2>3, <2>4 DEF ViewInv, ViewTypes, Unlost
<1> QED
  BY <1>8, <1>9

LEMMA EndOfModulesStep == ViewInv /\ EndOfModules => ViewInv'
<1> SUFFICES ASSUME ViewInv, EndOfModules PROVE ViewInv'
  OBVIOUS
<1>1. /\ stage = "filtering" /\ stage' = "sorting" /\ index > Len(request.modules)
      /\ UNCHANGED <<request, index, label, resolved, groups>>
  BY DEF EndOfModules, loops
<1>2. request \in ViewRequests /\ index \in Nat /\ Len(request.modules) \in Nat
  BY Requests DEF ViewInv, ViewTypes
<1>3. /\ Given' = Given /\ \A m : Entry(m)' = Entry(m) /\ \A e : Passes(e)' = Passes(e)
  BY <1>1, SameRequest
<1>4. Turning' /\ GroupsSoFar' /\ RowsShown'
  BY <1>1, NoGroupsYet
<1>5. Resolved' = Resolved
  BY <1>1 DEF Resolved
<1>6. ViewTypes' /\ EntriesAreTrue' /\ Filtering' /\ InOrder'
  BY <1>1, <1>3, <1>5 DEF ViewInv, ViewTypes, EntriesAreTrue, Filtering, InOrder
<1>7. Unlost'
  <2>1. \A m \in Given : m \in 1..(index - 1)
    BY <1>1, <1>2 DEF Given
  <2> QED
    BY <1>1, <1>3, <1>5, <2>1 DEF ViewInv, Filtering, Unlost
<1> QED
  BY <1>4, <1>6, <1>7 DEF ViewInv
-----------------------------------------------------------------------------
\* Sorting moves the entries to other places and loses none.
LEMMA SortModulesStep == ViewInv /\ SortModules => ViewInv'
<1> SUFFICES ASSUME ViewInv, SortModules PROVE ViewInv'
  OBVIOUS
<1>1. /\ stage = "sorting" /\ stage' = "showing" /\ Sorts
      /\ UNCHANGED <<request, index, label, groups>>
  BY DEF SortModules, loops
<1>2. PICK permutation \in Bijection(DOMAIN resolved, DOMAIN resolved) : Reordered(permutation)
  BY DEF SortModules
<1>3. resolved \in Seq(Entries) /\ DOMAIN resolved = Resolved /\ Len(resolved) \in Nat
  BY DEF ViewInv, ViewTypes, Resolved
<1>4. /\ permutation \in [Resolved -> Resolved]
      /\ \A t \in Resolved : \E s \in Resolved : permutation[s] = t
  BY <1>2, <1>3 DEF Bijection, Injection, Surjection
<1>5. resolved' = [i \in Resolved |-> resolved[permutation[i]]]
  BY <1>2, <1>3 DEF Reordered
<1>6. \A i \in Resolved : permutation[i] \in Resolved /\ resolved[permutation[i]] \in Entries
  BY <1>3, <1>4 DEF Resolved
<1>7. resolved' \in Seq(Entries) /\ Len(resolved') = Len(resolved) /\ Resolved' = Resolved
  <2>1. resolved' \in [1..Len(resolved) -> Entries]
    BY <1>5, <1>6 DEF Resolved
  <2>2. resolved' \in Seq(Entries) /\ Len(resolved') = Len(resolved)
    BY <1>3, <2>1
  <2> QED
    BY <2>2 DEF Resolved
<1>8. /\ Given' = Given /\ Sorts' = Sorts /\ \A m : Entry(m)' = Entry(m)
      /\ \A e : Passes(e)' = Passes(e) /\ Key(e)' = Key(e)
      /\ \A e, f : Comes(e, f)' = Comes(e, f)
  BY <1>1, SameRequest
<1>9. \A i \in Resolved : resolved'[i] = resolved[permutation[i]]
  BY <1>5
<1>10. EntriesAreTrue'
  <2>1. \A i \in Resolved : resolved'[i].of \in Given /\ resolved'[i] = Entry(resolved'[i].of)
                            /\ Passes(resolved'[i])
    BY <1>6, <1>9 DEF ViewInv, EntriesAreTrue
  <2> QED
    BY <1>7, <1>8, <2>1 DEF EntriesAreTrue
<1>11. Unlost'
  <2>1. \A m \in Given : Passes(Entry(m)) => \E i \in Resolved : resolved'[i].of = m
    BY <1>1, <1>4, <1>9 DEF ViewInv, Unlost
  <2> QED
    BY <1>7, <1>8, <2>1 DEF Unlost
<1>12. InOrder'
  <2>1. \A i, j \in Resolved : i < j => resolved[i].of < resolved[j].of
    BY <1>1 DEF ViewInv, InOrder
  <2>2. ASSUME NEW i \in Resolved, NEW j \in Resolved, i < j
        PROVE  \/ Comes(resolved'[i], resolved'[j])
               \/ Key(resolved'[i]) = Key(resolved'[j]) /\ resolved'[i].of < resolved'[j].of
    <3>1. \/ Comes(resolved[permutation[i]], resolved[permutation[j]])
          \/ /\ Key(resolved[permutation[i]]) = Key(resolved[permutation[j]])
             /\ permutation[i] < permutation[j]
      BY <1>2, <1>3, <2>2 DEF Reordered
    <3> QED
      BY <1>6, <1>9, <2>1, <3>1
  <2>3. ASSUME NEW i \in Resolved, NEW j \in Resolved, i < j PROVE Precedes(i, j)'
    BY <1>1, <1>8, <2>2, <2>3 DEF Precedes
  <2> QED
    BY <1>1, <1>7, <2>3 DEF InOrder
<1>13. Turning' /\ GroupsSoFar' /\ RowsShown' /\ groups' \in Seq(GroupRecords)
  BY <1>1, NoGroupsYet
<1> QED
  BY <1>1, <1>7, <1>10, <1>11, <1>12, <1>13 DEF ViewInv, ViewTypes, Filtering

LEMMA LeaveOrderStep == ViewInv /\ LeaveOrder => ViewInv'
<1> SUFFICES ASSUME ViewInv, LeaveOrder PROVE ViewInv'
  OBVIOUS
<1>1. /\ stage = "sorting" /\ stage' = "showing" /\ ~Sorts
      /\ UNCHANGED <<request, index, label, resolved, groups>>
  BY DEF LeaveOrder, loops
<1>2. /\ Given' = Given /\ \A m : Entry(m)' = Entry(m) /\ \A e : Passes(e)' = Passes(e)
  BY <1>1, SameRequest
<1>3. Resolved' = Resolved /\ \A i, j : Precedes(i, j)' <=> Precedes(i, j)
  BY <1>1, SameList
<1>4. Turning' /\ GroupsSoFar' /\ RowsShown'
  BY <1>1, NoGroupsYet
<1>5. ViewTypes' /\ EntriesAreTrue' /\ Filtering' /\ Unlost'
  BY <1>1, <1>2, <1>3 DEF ViewInv, ViewTypes, EntriesAreTrue, Filtering, Unlost
<1>6. \A i, j \in Resolved : i < j => Precedes(i, j)
  BY <1>1 DEF ViewInv, InOrder, Precedes
<1> QED
  BY <1>1, <1>3, <1>4, <1>5, <1>6 DEF ViewInv, InOrder

LEMMA ShowRowsStep == ViewInv /\ ShowRows => ViewInv'
<1> SUFFICES ASSUME ViewInv, ShowRows PROVE ViewInv'
  OBVIOUS
<1>1. /\ stage = "showing" /\ stage' = IF request.view = "grouped" THEN "grouping" ELSE "done"
      /\ index' = 1 /\ label' = 1 /\ UNCHANGED <<request, resolved, groups>>
      /\ groups = <<>>
  BY DEF ShowRows, ViewInv, Turning
<1>2. /\ Given' = Given /\ \A m : Entry(m)' = Entry(m) /\ \A e : Passes(e)' = Passes(e)
  BY <1>1, SameRequest
<1>3. /\ Resolved' = Resolved /\ \A i : LabelsAt(i)' = LabelsAt(i)
      /\ \A i, j : Precedes(i, j)' <=> Precedes(i, j)
  BY <1>1, SameList
<1>4. ViewTypes' /\ EntriesAreTrue' /\ Filtering' /\ Unlost' /\ InOrder'
  BY <1>1, <1>2, <1>3 DEF ViewInv, ViewTypes, EntriesAreTrue, Filtering, Unlost, InOrder
<1>5. RowsShown'
  <2>1. rows' = Shown
    BY DEF ShowRows, Shown
  <2>2. Shown' = Shown
    BY <1>1, SameRows
  <2> QED
    BY <2>1, <2>2 DEF RowsShown
<1>6. Turning'
  <2>1. Len(resolved) \in Nat /\ \A i \in Resolved : Len(LabelsAt(i)) > 0 /\ Len(LabelsAt(i)) \in Nat
    BY Listed
  <2>2. 1 <= Len(resolved) => Len(LabelsAt(1)) > 0 /\ Len(LabelsAt(1)) \in Nat
    BY <2>1 DEF Resolved
  <2> QED
    BY <1>1, <1>3, <2>1, <2>2 DEF Turning, WithGroups
<1>7. GroupsSoFar'
  <2>1. Len(groups) = 0
    BY <1>1
  <2>2. \A i \in Resolved : \A k \in 1..Len(LabelsAt(i)) : ~(i < 1 \/ (i = 1 /\ k < 1))
    BY Listed DEF Resolved
  <2>3. AllMet'
    BY <1>1, <1>3, <2>2 DEF AllMet, Met
  <2> QED
    BY <1>1, <2>1, <2>3 DEF GroupsSoFar, OnlyMet, OneGroupEach, RowsAscend, GroupsAscend
<1> QED
  BY <1>4, <1>5, <1>6, <1>7 DEF ViewInv
-----------------------------------------------------------------------------
\* One turn of the loops of _build_groups meets one label of one row.
LEMMA LabelMet ==
  ASSUME ViewInv, OpenGroup \/ JoinGroup
  PROVE  /\ stage = "grouping" /\ stage' = "grouping" /\ UNCHANGED <<request, resolved, rows>>
         /\ index \in Resolved /\ label \in 1..Len(LabelsAt(index))
         /\ Here = LabelsAt(index)[label] /\ Here \in LabelNames
         /\ index' \in Nat \ {0} /\ label' \in Nat \ {0} /\ Turning'
         /\ \A i \in Resolved : \A k \in 1..Len(LabelsAt(i)) :
              Met(i, k)' <=> Met(i, k) \/ (i = index /\ k = label)
<1>1. stage = "grouping" /\ stage' = "grouping" /\ UNCHANGED <<request, resolved, rows>>
      /\ index <= Len(resolved) /\ NextLabel
  BY DEF OpenGroup, JoinGroup
<1>2. index \in Nat \ {0} /\ label \in Nat \ {0} /\ Len(resolved) \in Nat
  BY Listed DEF ViewInv, ViewTypes
<1>3. index \in Resolved
  BY <1>1, <1>2 DEF Resolved
<1>4. /\ LabelsAt(index) \in Seq(LabelNames) /\ Len(LabelsAt(index)) \in Nat
      /\ Len(LabelsAt(index)) > 0
  BY <1>3, Listed
<1>5. label \in 1..Len(LabelsAt(index))
  BY <1>1, <1>2, <1>4 DEF ViewInv, Turning, WithGroups
<1>6. Here = LabelsAt(index)[label] /\ Here \in LabelNames
  BY <1>4, <1>5 DEF Here, LabelsAt
<1>7. IF label < Len(LabelsAt(index)) THEN label' = label + 1 /\ index' = index
                                      ELSE label' = 1 /\ index' = index + 1
  BY <1>1 DEF NextLabel, LabelsAt
<1>8. index' \in Nat \ {0} /\ label' \in Nat \ {0}
  BY <1>2, <1>7
<1>9. Resolved' = Resolved /\ \A i : LabelsAt(i)' = LabelsAt(i)
  BY <1>1, SameList
<1>10. Turning'
  <2>1. index' <= Len(resolved) + 1
    BY <1>1, <1>2, <1>7
  <2>2. index' > Len(resolved) => label' = 1
    BY <1>1, <1>2, <1>7
  <2>3. index' <= Len(resolved) => label' <= Len(LabelsAt(index'))
    <3>1. CASE label < Len(LabelsAt(index))
      BY <1>2, <1>4, <1>7, <3>1
    <3>2. CASE ~(label < Len(LabelsAt(index))) /\ index' <= Len(resolved)
      <4>1. index' \in Resolved /\ label' = 1
        BY <1>2, <1>7, <1>8, <3>2 DEF Resolved
      <4>2. Len(LabelsAt(index')) > 0 /\ Len(LabelsAt(index')) \in Nat
        BY <4>1, Listed
      <4> QED
        BY <4>1, <4>2
    <3> QED
      BY <3>1, <3>2
  <2> DEFINE L == Len(LabelsAt(index'))
  <2>4. Len(LabelsAt(index))' = L
    BY <1>9, Zenon
  <2>5. Len(resolved)' = Len(resolved)
    BY <1>1
  <2> QED
    BY <1>1, <2>1, <2>2, <2>3, <2>4, <2>5 DEF Turning
<1>11. \A i \in Resolved : \A k \in 1..Len(LabelsAt(i)) :
         Met(i, k)' <=> Met(i, k) \/ (i = index /\ k = label)
  <2>1. ASSUME NEW i \in Resolved, NEW k \in 1..Len(LabelsAt(i))
        PROVE  Met(i, k)' <=> Met(i, k) \/ (i = index /\ k = label)
    <3>1. i \in Nat /\ k \in Nat /\ k >= 1
      BY <2>1, Listed DEF Resolved
    <3>2. i = index => k <= Len(LabelsAt(index))
      BY <2>1, Listed
    <3> HIDE DEF LabelsAt
    <3> QED
      BY <1>2, <1>4, <1>5, <1>7, <3>1, <3>2 DEF Met
  <2> QED
    BY <2>1
<1> QED
  BY <1>1, <1>3, <1>5, <1>6, <1>8, <1>10, <1>11

\* It puts the row last into the group of its label, a new one if there is
\* none; everything else stays where it is.
Kept == \A h \in 1..Len(groups) :
          /\ h \in 1..Len(groups') /\ groups'[h].label = groups[h].label
          /\ \A p \in 1..Len(groups[h].rows) :
               p \in 1..Len(groups'[h].rows) /\ groups'[h].rows[p] = groups[h].rows[p]

Origins(g) ==
  \A h \in 1..Len(groups') : \A p \in 1..Len(groups'[h].rows) :
    \/ /\ h \in 1..Len(groups) /\ p \in 1..Len(groups[h].rows)
       /\ groups'[h].rows[p] = groups[h].rows[p]
    \/ h = g /\ p = Len(groups'[g].rows) /\ groups'[g].rows[p] = index

PutInto(g) ==
  /\ groups' \in Seq(GroupRecords)
  /\ g \in 1..Len(groups') /\ groups'[g].label = Here
  /\ \A h \in 1..Len(groups') : h \in 1..Len(groups) \/ h = g
  /\ \/ g \in 1..Len(groups) /\ groups[g].label = Here
     \/ g = Len(groups) + 1 /\ \A h \in 1..Len(groups) : groups[h].label # Here
  /\ \A h \in 1..Len(groups') : Len(groups'[h].rows) \in Nat /\ Len(groups'[h].rows) > 0
  /\ groups'[g].rows[Len(groups'[g].rows)] = index
  /\ Kept /\ Origins(g)

LEMMA GroupTypes ==
  ASSUME ViewInv, stage = "grouping"
  PROVE  /\ groups \in Seq(GroupRecords) /\ Len(groups) \in Nat
         /\ \A h \in 1..Len(groups) :
              /\ groups[h] \in GroupRecords /\ groups[h].rows \in Seq(Nat)
              /\ Len(groups[h].rows) \in Nat /\ Len(groups[h].rows) > 0
<1>1. groups \in Seq(GroupRecords) /\ AllMet /\ OnlyMet
  BY DEF ViewInv, ViewTypes, GroupsSoFar, WithGroups
<1>2. \A h \in 1..Len(groups) : groups[h] \in GroupRecords
  BY <1>1
<1>3. \A h \in 1..Len(groups) : groups[h].rows \in Seq(Nat)
  BY <1>2 DEF GroupRecords
<1> QED
  BY <1>1, <1>2, <1>3 DEF OnlyMet

LEMMA OpenPuts ==
  ASSUME ViewInv, OpenGroup
  PROVE  PutInto(Len(groups) + 1)
<1> DEFINE g == Len(groups) + 1
<1> DEFINE opened == [label |-> Here, rows |-> <<index>>]
<1>1. stage = "grouping" /\ groups' = Append(groups, opened)
  BY DEF OpenGroup
<1>2. index \in Nat /\ Here \in LabelNames
  BY LabelMet DEF ViewInv, ViewTypes
<1>3. /\ groups \in Seq(GroupRecords) /\ Len(groups) \in Nat
      /\ \A h \in 1..Len(groups) : /\ groups[h] \in GroupRecords /\ groups[h].rows \in Seq(Nat)
                                   /\ Len(groups[h].rows) \in Nat /\ Len(groups[h].rows) > 0
  BY <1>1, GroupTypes
<1>4. \A h \in 1..Len(groups) : groups[h].label # Here
  BY <1>3 DEF OpenGroup
<1>5. <<index>> \in Seq(Nat) /\ Len(<<index>>) = 1 /\ <<index>>[1] = index
  BY <1>2
<1>6. opened \in GroupRecords /\ opened.label = Here /\ opened.rows = <<index>>
  BY <1>2, <1>5 DEF GroupRecords
<1> HIDE DEF opened
<1>7. /\ groups' \in Seq(GroupRecords) /\ Len(groups') = Len(groups) + 1 /\ groups'[g] = opened
      /\ \A h \in 1..Len(groups) : groups'[h] = groups[h]
  BY <1>1, <1>3, <1>6
<1>8. \A h \in 1..Len(groups') : h \in 1..Len(groups) \/ h = g
  BY <1>3, <1>7
<1>9. Len(groups'[g].rows) = 1 /\ groups'[g].rows[1] = index /\ groups'[g].label = Here
  BY <1>5, <1>6, <1>7
<1>10. \A h \in 1..Len(groups') : Len(groups'[h].rows) \in Nat /\ Len(groups'[h].rows) > 0
  <2> SUFFICES ASSUME NEW h \in 1..Len(groups') PROVE Len(groups'[h].rows) \in Nat /\ Len(groups'[h].rows) > 0
    OBVIOUS
  <2>1. CASE h \in 1..Len(groups)
    BY <1>3, <1>7, <2>1, Zenon
  <2>2. CASE h = g
    BY <1>9, <2>2
  <2> QED
    BY <1>8, <2>1, <2>2, Zenon
<1>11. Kept
  <2> SUFFICES ASSUME NEW h \in 1..Len(groups)
               PROVE  h \in 1..Len(groups') /\ groups'[h] = groups[h]
    BY Zenon DEF Kept
  <2>1. h \in 1..Len(groups')
    BY <1>3, <1>7
  <2> QED
    BY <1>7, <2>1, Zenon
<1>12. Origins(g)
  <2>1. ASSUME NEW h \in 1..Len(groups'), NEW p \in 1..Len(groups'[h].rows)
        PROVE  \/ /\ h \in 1..Len(groups) /\ p \in 1..Len(groups[h].rows)
                  /\ groups'[h].rows[p] = groups[h].rows[p]
               \/ h = g /\ p = Len(groups'[g].rows) /\ groups'[g].rows[p] = index
    <3>1. CASE h \in 1..Len(groups)
      BY <1>7, <2>1, <3>1
    <3>2. CASE h = g
      <4>1. groups'[h].rows = groups'[g].rows
        BY <3>2
      <4>2. Len(groups'[h].rows) = 1
        BY <1>9, <4>1
      <4>3. p = 1
        BY <2>1, <4>2
      <4> QED
        BY <1>9, <3>2, <4>1, <4>3
    <3> QED
      BY <1>8, <3>1, <3>2
  <2> QED
    BY <2>1 DEF Origins
<1>13. g \in 1..Len(groups')
  BY <1>3, <1>7
<1> QED
  BY <1>4, <1>7, <1>8, <1>9, <1>10, <1>11, <1>12, <1>13 DEF PutInto

LEMMA JoinPuts ==
  ASSUME ViewInv, JoinGroup
  PROVE  \E g \in 1..Len(groups) : PutInto(g)
<1>1. stage = "grouping"
  BY DEF JoinGroup
<1>2. index \in Nat /\ Here \in LabelNames
  BY LabelMet DEF ViewInv, ViewTypes
<1>3. /\ groups \in Seq(GroupRecords) /\ Len(groups) \in Nat /\ DOMAIN groups = 1..Len(groups)
      /\ \A h \in 1..Len(groups) : /\ groups[h] \in GroupRecords /\ groups[h].rows \in Seq(Nat)
                                   /\ Len(groups[h].rows) \in Nat /\ Len(groups[h].rows) > 0
  BY <1>1, GroupTypes
<1>4. PICK g \in 1..Len(groups) :
        groups[g].label = Here /\ groups' = [groups EXCEPT ![g].rows = Append(@, index)]
  BY <1>3 DEF JoinGroup
<1> DEFINE old == groups[g].rows
<1> DEFINE joined == [groups[g] EXCEPT !.rows = Append(groups[g].rows, index)]
<1>5. groups' = [groups EXCEPT ![g] = joined]
  BY <1>3, <1>4
<1>6. /\ Append(old, index) \in Seq(Nat) /\ Len(Append(old, index)) = Len(old) + 1
      /\ Append(old, index)[Len(old) + 1] = index
      /\ \A p \in 1..Len(old) : Append(old, index)[p] = old[p]
      /\ Len(old) \in Nat
  BY <1>2, <1>3
<1>7. joined \in GroupRecords /\ joined.label = Here /\ joined.rows = Append(old, index)
  BY <1>3, <1>4, <1>6 DEF GroupRecords
<1> HIDE DEF joined
<1>8. /\ groups' \in Seq(GroupRecords) /\ Len(groups') = Len(groups) /\ groups'[g] = joined
      /\ \A h \in 1..Len(groups) : h # g => groups'[h] = groups[h]
  BY <1>3, <1>5, <1>7
<1>9. groups'[g].rows = Append(old, index) /\ groups'[g].label = Here
  BY <1>7, <1>8
<1>10. \A h \in 1..Len(groups') : Len(groups'[h].rows) \in Nat /\ Len(groups'[h].rows) > 0
  <2>1. ASSUME NEW h \in 1..Len(groups'), h # g
        PROVE  Len(groups'[h].rows) \in Nat /\ Len(groups'[h].rows) > 0
    <3>1. h \in 1..Len(groups) /\ groups'[h] = groups[h]
      BY <1>8, <2>1
    <3> QED
      BY <1>3, <3>1
  <2>2. Len(groups'[g].rows) \in Nat /\ Len(groups'[g].rows) > 0
    BY <1>6, <1>9
  <2> QED
    BY <2>1, <2>2
<1>11. Kept
  <2>1. ASSUME NEW h \in 1..Len(groups)
        PROVE  /\ h \in 1..Len(groups') /\ groups'[h].label = groups[h].label
               /\ \A p \in 1..Len(groups[h].rows) :
                    p \in 1..Len(groups'[h].rows) /\ groups'[h].rows[p] = groups[h].rows[p]
    <3>1. CASE h = g
      <4>1. groups[h].rows = old /\ groups'[h].rows = Append(old, index)
        BY <1>4, <1>9, <3>1
      <4>2. 1..Len(old) \subseteq 1..Len(Append(old, index))
        BY <1>6
      <4>3. h \in 1..Len(groups') /\ groups'[h].label = groups[h].label
        BY <1>4, <1>8, <1>9, <3>1
      <4> QED
        BY <1>6, <4>1, <4>2, <4>3
    <3>2. CASE h # g
      BY <1>8, <3>2
    <3> QED
      BY <3>1, <3>2
  <2> QED
    BY <2>1 DEF Kept
<1>12. Origins(g)
  <2>1. ASSUME NEW h \in 1..Len(groups'), NEW p \in 1..Len(groups'[h].rows)
        PROVE  \/ /\ h \in 1..Len(groups) /\ p \in 1..Len(groups[h].rows)
                  /\ groups'[h].rows[p] = groups[h].rows[p]
               \/ h = g /\ p = Len(groups'[g].rows) /\ groups'[g].rows[p] = index
    <3>1. CASE h # g
      BY <1>8, <2>1, <3>1
    <3>2. CASE h = g
      <4>1. p \in 1..(Len(old) + 1)
        BY <1>6, <1>9, <2>1, <3>2
      <4>2. CASE p = Len(old) + 1
        BY <1>6, <1>9, <3>2, <4>2
      <4>3. CASE p # Len(old) + 1
        <5>1. p \in 1..Len(old)
          BY <1>6, <4>1, <4>3
        <5>2. Append(old, index)[p] = old[p]
          BY <1>6, <5>1
        <5>3. h \in 1..Len(groups) /\ groups[h].rows = old /\ groups'[h].rows = Append(old, index)
          BY <1>3, <1>9, <3>2
        <5> QED
          BY <5>1, <5>2, <5>3
      <4> QED
        BY <4>2, <4>3
    <3> QED
      BY <3>1, <3>2
  <2> QED
    BY <2>1 DEF Origins
<1>13. groups'[g].rows[Len(groups'[g].rows)] = index
  BY <1>6, <1>9
<1> QED
  BY <1>4, <1>8, <1>9, <1>10, <1>11, <1>12, <1>13 DEF PutInto
-----------------------------------------------------------------------------
LEMMA GroupsStay ==
  ASSUME ViewInv, OpenGroup \/ JoinGroup
  PROVE  GroupsSoFar'
<1>1. PICK g : PutInto(g)
  BY OpenPuts, JoinPuts
<1>2. /\ stage = "grouping" /\ UNCHANGED <<request, resolved>>
      /\ index \in Resolved /\ label \in 1..Len(LabelsAt(index)) /\ Here = LabelsAt(index)[label]
      /\ \A i \in Resolved : \A k \in 1..Len(LabelsAt(i)) :
           Met(i, k)' <=> Met(i, k) \/ (i = index /\ k = label)
  BY LabelMet
<1>3. AllMet /\ OnlyMet /\ OneGroupEach /\ RowsAscend /\ GroupsAscend
  BY <1>2 DEF ViewInv, GroupsSoFar, WithGroups
<1>4. Resolved' = Resolved /\ \A i : LabelsAt(i)' = LabelsAt(i)
  BY <1>2, SameList
<1>5. /\ Resolved \subseteq Nat /\ index \in Nat /\ label \in Nat /\ Len(groups) \in Nat
      /\ \A i \in Resolved : /\ Len(LabelsAt(i)) \in Nat
                             /\ DOMAIN LabelsAt(i) = 1..Len(LabelsAt(i))
  BY <1>2, Listed DEF Resolved
<1>6. \A h \in 1..Len(groups) : Len(groups[h].rows) \in Nat /\ Len(groups[h].rows) > 0
  BY <1>2, GroupTypes
<1>7. /\ g \in 1..Len(groups') /\ groups'[g].label = Here
      /\ \A h \in 1..Len(groups') : h \in 1..Len(groups) \/ h = g
      /\ \A h \in 1..Len(groups') : Len(groups'[h].rows) \in Nat /\ Len(groups'[h].rows) > 0
      /\ groups'[g].rows[Len(groups'[g].rows)] = index
      /\ \/ g \in 1..Len(groups) /\ groups[g].label = Here
         \/ g = Len(groups) + 1 /\ \A h \in 1..Len(groups) : groups[h].label # Here
  BY <1>1 DEF PutInto
<1>8. \A h \in 1..Len(groups) :
        /\ h \in 1..Len(groups') /\ groups'[h].label = groups[h].label
        /\ \A p \in 1..Len(groups[h].rows) :
             p \in 1..Len(groups'[h].rows) /\ groups'[h].rows[p] = groups[h].rows[p]
  BY <1>1 DEF PutInto, Kept
<1>9. \A h \in 1..Len(groups') : \A p \in 1..Len(groups'[h].rows) :
        \/ /\ h \in 1..Len(groups) /\ p \in 1..Len(groups[h].rows)
           /\ groups'[h].rows[p] = groups[h].rows[p]
        \/ h = g /\ p = Len(groups'[g].rows) /\ groups'[g].rows[p] = index
  BY <1>1 DEF PutInto, Origins
\* Rows in a group so far come no later than the row being dealt with.
<1>10. \A h \in 1..Len(groups) : \A p \in 1..Len(groups[h].rows) :
         /\ groups[h].rows[p] \in Resolved /\ groups[h].rows[p] <= index
         /\ groups[h].rows[p] = index =>
              \E k \in 1..Len(LabelsAt(index)) : LabelsAt(index)[k] = groups[h].label /\ k < label
  <2>1. ASSUME NEW h \in 1..Len(groups), NEW p \in 1..Len(groups[h].rows)
        PROVE  /\ groups[h].rows[p] \in Resolved /\ groups[h].rows[p] <= index
               /\ groups[h].rows[p] = index =>
                    \E k \in 1..Len(LabelsAt(index)) : LabelsAt(index)[k] = groups[h].label /\ k < label
    <3> DEFINE i == groups[h].rows[p]
    <3>1. i \in Resolved /\ \E k \in 1..Len(LabelsAt(i)) : LabelsAt(i)[k] = groups[h].label /\ Met(i, k)
      BY <1>3, <2>1 DEF OnlyMet
    <3>2. PICK k \in 1..Len(LabelsAt(i)) : LabelsAt(i)[k] = groups[h].label /\ Met(i, k)
      BY <3>1
    <3>3. i < index \/ (i = index /\ k < label)
      BY <3>2 DEF Met
    <3>4. i \in Nat
      BY <1>5, <3>1
    <3>5. i <= index
      BY <1>5, <3>3, <3>4
    <3>6. ASSUME i = index
          PROVE  \E l \in 1..Len(LabelsAt(index)) : LabelsAt(index)[l] = groups[h].label /\ l < label
      BY <1>5, <3>2, <3>3, <3>6
    <3> QED
      BY <3>1, <3>5, <3>6
  <2> QED
    BY <2>1
<1>11. AllMet'
  <2>1. ASSUME NEW i \in Resolved, NEW k \in 1..Len(LabelsAt(i)), Met(i, k)'
        PROVE  \E h \in 1..Len(groups') : /\ groups'[h].label = LabelsAt(i)[k]
                                          /\ \E p \in 1..Len(groups'[h].rows) : groups'[h].rows[p] = i
    <3>1. Met(i, k) \/ (i = index /\ k = label)
      BY <1>2, <2>1
    <3>2. CASE Met(i, k)
      <4>1. PICK h \in 1..Len(groups) : /\ groups[h].label = LabelsAt(i)[k]
                                        /\ \E p \in 1..Len(groups[h].rows) : groups[h].rows[p] = i
        BY <1>3, <2>1, <3>2 DEF AllMet
      <4> QED
        BY <1>8, <4>1
    <3>3. CASE i = index /\ k = label
      <4>1. Len(groups'[g].rows) \in 1..Len(groups'[g].rows)
        BY <1>7
      <4> QED
        BY <1>2, <1>7, <3>3, <4>1
    <3> QED
      BY <3>1, <3>2, <3>3
  <2> QED
    BY <1>4, <2>1 DEF AllMet
<1>12. OnlyMet'
  <2>1. ASSUME NEW h \in 1..Len(groups'), NEW p \in 1..Len(groups'[h].rows)
        PROVE  \E i \in Resolved : \E k \in 1..Len(LabelsAt(i)) :
                 i = groups'[h].rows[p] /\ LabelsAt(i)[k] = groups'[h].label /\ Met(i, k)'
    <3>1. CASE h \in 1..Len(groups) /\ p \in 1..Len(groups[h].rows)
               /\ groups'[h].rows[p] = groups[h].rows[p]
      <4>1. PICK i \in Resolved : i = groups[h].rows[p]
                                  /\ \E k \in 1..Len(LabelsAt(i)) :
                                       LabelsAt(i)[k] = groups[h].label /\ Met(i, k)
        BY <1>3, <3>1 DEF OnlyMet
      <4>2. PICK k \in 1..Len(LabelsAt(i)) : LabelsAt(i)[k] = groups[h].label /\ Met(i, k)
        BY <4>1
      <4>3. Met(i, k)'
        BY <1>2, <4>2
      <4> QED
        BY <1>8, <3>1, <4>1, <4>2, <4>3
    <3>2. CASE h = g /\ groups'[h].rows[p] = index
      <4>1. PICK i \in Resolved : i = index
        BY <1>2
      <4>2. PICK k \in 1..Len(LabelsAt(i)) : k = label
        BY <1>2, <4>1
      <4>3. Met(i, k)' /\ LabelsAt(i)[k] = Here
        BY <1>2, <4>1, <4>2
      <4> QED
        BY <1>7, <3>2, <4>1, <4>3
    <3> QED
      BY <1>9, <2>1, <3>1, <3>2
  <2>2. ASSUME NEW h \in 1..Len(groups'), NEW p \in 1..Len(groups'[h].rows)
        PROVE  /\ groups'[h].rows[p] \in Resolved'
               /\ \E k \in 1..Len((LabelsAt(groups[h].rows[p]))') :
                    /\ (LabelsAt(groups[h].rows[p]))'[k] = groups'[h].label
                    /\ \/ groups'[h].rows[p] < index'
                       \/ groups'[h].rows[p] = index' /\ k < label'
    <3>1. PICK i \in Resolved : \E k \in 1..Len(LabelsAt(i)) :
                 i = groups'[h].rows[p] /\ LabelsAt(i)[k] = groups'[h].label /\ Met(i, k)'
      BY <2>1
    <3>2. PICK k \in 1..Len(LabelsAt(i)) :
                 i = groups'[h].rows[p] /\ LabelsAt(i)[k] = groups'[h].label /\ Met(i, k)'
      BY <3>1
    <3>3. (LabelsAt(groups[h].rows[p]))' = LabelsAt(i)
      BY <1>4, <3>2
    <3>4. i < index' \/ (i = index' /\ k < label')
      BY <3>2 DEF Met
    <3> QED
      BY <1>4, <3>2, <3>3, <3>4
  <2> QED
    BY <1>7, <2>2 DEF OnlyMet, Met
<1>13. OneGroupEach'
  <2>1. ASSUME NEW h \in 1..Len(groups'), NEW f \in 1..Len(groups'), groups'[h].label = groups'[f].label
        PROVE  h = f
    <3>1. CASE h \in 1..Len(groups) /\ f \in 1..Len(groups)
      BY <1>3, <1>8, <2>1, <3>1 DEF OneGroupEach
    <3>2. CASE ~(h \in 1..Len(groups) /\ f \in 1..Len(groups))
      BY <1>7, <1>8, <2>1, <3>2
    <3> QED
      BY <3>1, <3>2
  <2> QED
    BY <2>1 DEF OneGroupEach
<1>14. RowsAscend'
  <2>1. ASSUME NEW h \in 1..Len(groups'), NEW p \in 1..Len(groups'[h].rows),
               NEW q \in 1..Len(groups'[h].rows), p < q
        PROVE  \/ groups'[h].rows[p] < groups'[h].rows[q]
               \/ /\ groups'[h].rows[p] = groups'[h].rows[q]
                  /\ Twice(LabelsAt(groups'[h].rows[p]), groups'[h].label)
    <3>1. Len(groups'[h].rows) \in Nat
      BY <1>7
    <3>2. h \in 1..Len(groups) /\ p \in 1..Len(groups[h].rows) /\ groups'[h].rows[p] = groups[h].rows[p]
          /\ groups'[h].label = groups[h].label
      <4>1. p # Len(groups'[h].rows)
        BY <2>1, <3>1
      <4> QED
        BY <1>8, <1>9, <2>1, <4>1
    <3>3. CASE q \in 1..Len(groups[h].rows) /\ groups'[h].rows[q] = groups[h].rows[q]
      BY <1>3, <2>1, <3>2, <3>3 DEF RowsAscend
    <3>4. CASE h = g /\ groups'[h].rows[q] = index
      <4>1. groups[h].rows[p] \in Nat /\ groups[h].rows[p] <= index
        BY <1>5, <1>10, <3>2
      <4>2. CASE groups[h].rows[p] = index
        <5>1. PICK k \in 1..Len(LabelsAt(index)) : LabelsAt(index)[k] = groups[h].label /\ k < label
          BY <1>10, <3>2, <4>2
        <5>2. LabelsAt(index)[label] = groups[h].label
          BY <1>2, <1>7, <3>2, <3>4
        <5>3. Twice(LabelsAt(index), groups[h].label)
          BY <1>2, <1>5, <5>1, <5>2 DEF Twice
        <5> QED
          BY <3>2, <3>4, <4>2, <5>3
      <4>3. CASE groups[h].rows[p] # index
        BY <1>5, <3>2, <3>4, <4>1, <4>3
      <4> QED
        BY <4>2, <4>3
    <3> QED
      BY <1>9, <2>1, <3>3, <3>4
  <2> QED
    BY <1>4, <2>1 DEF RowsAscend
<1>15. GroupsAscend'
  <2>1. ASSUME NEW h \in 1..Len(groups'), NEW f \in 1..Len(groups'), h < f
        PROVE  \/ groups'[h].rows[1] < groups'[f].rows[1]
               \/ /\ groups'[h].rows[1] = groups'[f].rows[1]
                  /\ MetBefore(LabelsAt(groups'[f].rows[1]), groups'[h].label, groups'[f].label)
    <3>1. h \in 1..Len(groups) /\ f \in Nat
      BY <1>5, <1>7, <2>1
    <3>2. groups'[h].rows[1] = groups[h].rows[1] /\ groups'[h].label = groups[h].label
          /\ 1 \in 1..Len(groups[h].rows)
      BY <1>6, <1>8, <3>1
    <3>3. CASE f \in 1..Len(groups)
      <4>1. groups'[f].rows[1] = groups[f].rows[1] /\ groups'[f].label = groups[f].label
        BY <1>6, <1>8, <3>3
      <4> QED
        BY <1>3, <2>1, <3>1, <3>2, <3>3, <4>1 DEF GroupsAscend
    <3>4. CASE f = Len(groups) + 1
      <4>1. f = g /\ \A e \in 1..Len(groups) : groups[e].label # Here
        <5>1. ~(f \in 1..Len(groups))
          BY <1>5, <3>4
        <5>2. f = g
          BY <1>7, <2>1, <5>1
        <5> QED
          BY <1>7, <5>1, <5>2
      <4>2. groups'[f].rows[1] = index
        <5>1. 1 \in 1..Len(groups'[f].rows)
          BY <1>7, <2>1
        <5>2. ~(f \in 1..Len(groups))
          BY <1>5, <3>4
        <5> QED
          BY <1>9, <2>1, <5>1, <5>2
      <4>3. groups[h].rows[1] \in Nat /\ groups[h].rows[1] <= index
        BY <1>5, <1>10, <3>1, <3>2
      <4>4. CASE groups[h].rows[1] = index
        <5>1. PICK k \in 1..Len(LabelsAt(index)) : LabelsAt(index)[k] = groups[h].label /\ k < label
          BY <1>10, <3>1, <3>2, <4>4
        <5>2. \A l \in 1..k : LabelsAt(index)[l] # Here
          <6>1. ASSUME NEW l \in 1..k PROVE LabelsAt(index)[l] # Here
            <7>1. l \in 1..Len(LabelsAt(index)) /\ l < label
              BY <1>2, <1>5, <5>1, <6>1
            <7>2. Met(index, l)
              BY <7>1 DEF Met
            <7> QED
              BY <1>2, <1>3, <4>1, <7>1, <7>2 DEF AllMet
          <6> QED
            BY <6>1
        <5>3. MetBefore(LabelsAt(index), groups[h].label, Here)
          BY <1>2, <1>5, <5>1, <5>2 DEF MetBefore
        <5> QED
          BY <1>7, <3>2, <4>1, <4>2, <4>4, <5>3
      <4>5. CASE groups[h].rows[1] # index
        BY <1>5, <3>2, <4>2, <4>3, <4>5
      <4> QED
        BY <4>4, <4>5
    <3> QED
      BY <1>7, <2>1, <3>1, <3>3, <3>4
  <2> QED
    BY <1>4, <2>1 DEF GroupsAscend
<1> QED
  BY <1>11, <1>12, <1>13, <1>14, <1>15 DEF GroupsSoFar

LEMMA GroupStep == ViewInv /\ (OpenGroup \/ JoinGroup) => ViewInv'
<1> SUFFICES ASSUME ViewInv, OpenGroup \/ JoinGroup PROVE ViewInv'
  OBVIOUS
<1>1. /\ stage = "grouping" /\ stage' = "grouping" /\ UNCHANGED <<request, resolved, rows>>
      /\ index' \in Nat \ {0} /\ label' \in Nat \ {0} /\ Turning'
  BY LabelMet
<1>2. groups' \in Seq(GroupRecords)
  BY OpenPuts, JoinPuts DEF PutInto
<1>3. /\ Given' = Given /\ \A m : Entry(m)' = Entry(m) /\ \A e : Passes(e)' = Passes(e)
  BY <1>1, SameRequest
<1>4. Resolved' = Resolved /\ \A i, j : Precedes(i, j)' <=> Precedes(i, j)
  BY <1>1, SameList
<1>5. ViewTypes' /\ EntriesAreTrue' /\ Filtering' /\ Unlost' /\ InOrder'
  BY <1>1, <1>2, <1>3, <1>4 DEF ViewInv, ViewTypes, EntriesAreTrue, Filtering, Unlost, InOrder
<1>6. RowsShown'
  BY <1>1, SameRows DEF ViewInv, RowsShown
<1> QED
  BY <1>1, <1>5, <1>6, GroupsStay DEF ViewInv

LEMMA EndOfRowsStep == ViewInv /\ EndOfRows => ViewInv'
<1> SUFFICES ASSUME ViewInv, EndOfRows PROVE ViewInv'
  OBVIOUS
<1>1. /\ stage = "grouping" /\ stage' = "done" /\ index > Len(resolved)
      /\ UNCHANGED <<request, index, label, resolved, rows, groups>>
  BY DEF EndOfRows, loops
<1>2. /\ Given' = Given /\ \A m : Entry(m)' = Entry(m) /\ \A e : Passes(e)' = Passes(e)
  BY <1>1, SameRequest
<1>3. /\ Resolved' = Resolved /\ \A i : LabelsAt(i)' = LabelsAt(i)
      /\ \A i, j : Precedes(i, j)' <=> Precedes(i, j)
  BY <1>1, SameList
<1>4. ViewTypes' /\ EntriesAreTrue' /\ Filtering' /\ Unlost' /\ InOrder'
  BY <1>1, <1>2, <1>3 DEF ViewInv, ViewTypes, EntriesAreTrue, Filtering, Unlost, InOrder
<1>5. RowsShown'
  BY <1>1, SameRows DEF ViewInv, RowsShown
<1>6. Turning' /\ \A i, k : Met(i, k)' <=> Met(i, k)
  <2>1. index <= Len(resolved) + 1 /\ label = 1 /\ index \in Nat /\ Len(resolved) \in Nat
    BY <1>1, Listed DEF ViewInv, ViewTypes, Turning, WithGroups
  <2> QED
    BY <1>1, <1>3, <2>1 DEF Turning, WithGroups, Met
<1>7. AllMet /\ OnlyMet /\ OneGroupEach /\ RowsAscend /\ GroupsAscend
  BY <1>1 DEF ViewInv, GroupsSoFar, WithGroups
<1>8. AllMet'
  BY <1>1, <1>3, <1>6, <1>7 DEF AllMet
<1>9. OnlyMet'
  BY <1>1, <1>3, <1>6, <1>7 DEF OnlyMet
<1>10. OneGroupEach' /\ RowsAscend' /\ GroupsAscend'
  BY <1>1, <1>3, <1>7 DEF OneGroupEach, RowsAscend, GroupsAscend
<1> QED
  BY <1>4, <1>5, <1>6, <1>8, <1>9, <1>10 DEF ViewInv, GroupsSoFar
LEMMA ViewInvariance == SpecView => []ViewInv
<1>1. ViewInv /\ UNCHANGED viewing => ViewInv'
  <2> SUFFICES ASSUME ViewInv, UNCHANGED viewing PROVE ViewInv'
    OBVIOUS
  <2>1. UNCHANGED <<request, stage, index, label, resolved, rows, groups>>
    BY DEF viewing, loops
  <2>2. /\ Given' = Given /\ \A m : Entry(m)' = Entry(m) /\ \A e : Passes(e)' = Passes(e)
    BY <2>1, SameRequest
  <2>3. /\ Resolved' = Resolved /\ \A i : LabelsAt(i)' = LabelsAt(i)
        /\ \A i, j : Precedes(i, j)' <=> Precedes(i, j)
    BY <2>1, SameList
  <2>4. ViewTypes' /\ EntriesAreTrue' /\ Filtering' /\ Unlost' /\ InOrder' /\ Turning'
    BY <2>1, <2>2, <2>3 DEF ViewInv, ViewTypes, EntriesAreTrue, Filtering, Unlost, InOrder, Turning, WithGroups
  <2>5. RowsShown'
    BY <2>1, SameRows DEF ViewInv, RowsShown
  <2>6. WithGroups' <=> WithGroups
    BY <2>1 DEF WithGroups
  <2>7. AllMet /\ OnlyMet => AllMet' /\ OnlyMet'
    <3>1. groups' = groups /\ \A i, k : Met(i, k)' <=> Met(i, k)
      BY <2>1 DEF Met
    <3>2. AllMet => AllMet'
      BY <2>3, <3>1 DEF AllMet
    <3>3. OnlyMet => OnlyMet'
      BY <2>3, <3>1 DEF OnlyMet
    <3> QED
      BY <3>2, <3>3
  <2>8. OneGroupEach /\ RowsAscend /\ GroupsAscend => OneGroupEach' /\ RowsAscend' /\ GroupsAscend'
    BY <2>1, <2>3 DEF OneGroupEach, RowsAscend, GroupsAscend
  <2> QED
    BY <2>4, <2>5, <2>6, <2>7, <2>8 DEF ViewInv, GroupsSoFar
<1>2. ViewInv /\ [NextView]_viewing => ViewInv'
  BY <1>1, FilterModuleStep, EndOfModulesStep, SortModulesStep, LeaveOrderStep, ShowRowsStep,
     GroupStep, EndOfRowsStep DEF NextView
<1> QED
  BY <1>2, InitViewInv, PTL DEF SpecView

\* What the column of the sort key shows is the key.
LEMMA CellShowsKey ==
  ASSUME NEW e, request.sort[1].key \in SortableKeys
  PROVE  Cell(e, request.sort[1].key).text = Key(e)
<1>1. CASE request.sort[1].key = "alias"
  BY <1>1 DEF Cell, Key
<1>2. CASE request.sort[1].key = "description"
  BY <1>2 DEF Cell, Key
<1>3. CASE request.sort[1].key = "module_id"
  BY <1>3 DEF Cell, Key
<1> QED
  BY <1>1, <1>2, <1>3 DEF SortableKeys

LEMMA RowsKeepOrder ==
  ASSUME ViewInv, stage = "done"
  PROVE  RowsAreInOrder
<1>1. /\ request \in ViewRequests /\ DOMAIN resolved = Resolved /\ DOMAIN request.modules = Given
      /\ \A i \in Resolved : Key(resolved[i]) \in Nat
  BY Listed, Requests
<1>2. rows = [i \in Resolved |->
        [cells |-> [c \in DOMAIN request.columns |-> Cell(resolved[i], request.columns[c])],
         tags |-> request.modules[resolved[i].of].tags]]
  BY <1>1, Zenon DEF ViewInv, RowsShown, Shown
<1>3. {resolved[i].of : i \in DOMAIN resolved} = {m \in DOMAIN request.modules : Passes(Entry(m))}
  BY <1>1 DEF ViewInv, EntriesAreTrue, Unlost
<1>4. \A i, j \in Resolved : i < j => Precedes(i, j)
  BY DEF ViewInv, InOrder
<1>5. ASSUME NEW i \in Resolved, NEW j \in Resolved, i < j, Sorts,
             NEW c \in DOMAIN request.columns, request.columns[c] = request.sort[1].key
      PROVE  IF request.sort[1].direction = "desc"
             THEN rows[i].cells[c].text >= rows[j].cells[c].text
             ELSE rows[i].cells[c].text <= rows[j].cells[c].text
  <2>1. /\ rows[i].cells[c] = Cell(resolved[i], request.sort[1].key)
        /\ rows[j].cells[c] = Cell(resolved[j], request.sort[1].key)
    BY <1>2, <1>5
  <2>2. rows[i].cells[c].text = Key(resolved[i]) /\ rows[j].cells[c].text = Key(resolved[j])
    BY <1>5, <2>1, CellShowsKey DEF Sorts
  <2>3. Comes(resolved[i], resolved[j]) \/ Key(resolved[i]) = Key(resolved[j])
    BY <1>4, <1>5 DEF Precedes
  <2> QED
    BY <1>1, <2>2, <2>3 DEF Comes
<1>6. DOMAIN rows = Resolved
  BY <1>2
<1>7. \A i, j \in DOMAIN rows : i < j =>
        /\ Precedes(i, j)
        /\ \A c \in DOMAIN request.columns : Sorts /\ request.columns[c] = request.sort[1].key =>
             IF request.sort[1].direction = "desc"
             THEN rows[i].cells[c].text >= rows[j].cells[c].text
             ELSE rows[i].cells[c].text <= rows[j].cells[c].text
  BY <1>4, <1>5, <1>6
<1>8. DOMAIN rows = DOMAIN resolved
  BY <1>1, <1>6
<1> QED
  BY <1>3, <1>7, <1>8 DEF RowsAreInOrder

LEMMA GroupsKeepRows ==
  ASSUME ViewInv, stage = "done", request.view = "grouped"
  PROVE  GroupsReferToRows
<1>1. /\ DOMAIN resolved = Resolved /\ DOMAIN groups = 1..Len(groups) /\ Len(groups) \in Nat
      /\ \A i \in Resolved : DOMAIN LabelsAt(i) = 1..Len(LabelsAt(i))
  BY Listed
<1>2. DOMAIN rows = Resolved
  BY <1>1 DEF ViewInv, RowsShown, Shown
<1>3. AllMet /\ OnlyMet /\ OneGroupEach /\ RowsAscend /\ GroupsAscend
  BY DEF ViewInv, GroupsSoFar, WithGroups
<1>4. \A g \in 1..Len(groups) : groups[g].rows \in Seq(Nat) /\ Len(groups[g].rows) \in Nat
                                /\ DOMAIN groups[g].rows = 1..Len(groups[g].rows)
  <2>1. \A g \in 1..Len(groups) : groups[g] \in GroupRecords
    BY DEF ViewInv, ViewTypes
  <2> QED
    BY <2>1 DEF GroupRecords
<1>5. \A i \in Resolved : \A k \in 1..Len(LabelsAt(i)) : Met(i, k)
  BY Listed DEF ViewInv, Turning, Met, Resolved
<1>6. \A i \in DOMAIN rows : \A k \in DOMAIN Labels(resolved[i]) :
        \E g \in DOMAIN groups :
          groups[g].label = Labels(resolved[i])[k] /\ i \in ToSet(groups[g].rows)
  <2>1. ASSUME NEW i \in Resolved, NEW k \in 1..Len(LabelsAt(i))
        PROVE  \E g \in 1..Len(groups) : groups[g].label = LabelsAt(i)[k] /\ i \in ToSet(groups[g].rows)
    <3>1. PICK g \in 1..Len(groups) : /\ groups[g].label = LabelsAt(i)[k]
                                      /\ \E p \in 1..Len(groups[g].rows) : groups[g].rows[p] = i
      BY <1>3, <1>5 DEF AllMet
    <3>2. i \in ToSet(groups[g].rows)
      BY <1>4, <3>1 DEF ToSet
    <3> QED
      BY <3>1, <3>2
  <2> QED
    <3>1. ASSUME NEW i \in DOMAIN rows, NEW k \in DOMAIN Labels(resolved[i])
          PROVE  \E g \in DOMAIN groups :
                   groups[g].label = Labels(resolved[i])[k] /\ i \in ToSet(groups[g].rows)
      <4>1. LabelsAt(i) = Labels(resolved[i])
        BY DEF LabelsAt
      <4>2. i \in Resolved /\ k \in 1..Len(LabelsAt(i))
        BY <1>1, <1>2, <3>1, <4>1
      <4> QED
        BY <1>1, <2>1, <4>1, <4>2
    <3> QED
      BY <3>1, Zenon
<1>7. ASSUME NEW g \in 1..Len(groups)
      PROVE  /\ groups[g].rows # <<>>
             /\ \A p \in DOMAIN groups[g].rows :
                  /\ groups[g].rows[p] \in DOMAIN rows
                  /\ groups[g].label \in ToSet(Labels(resolved[groups[g].rows[p]]))
  <2>1. groups[g].rows # <<>>
    BY <1>3, <1>4 DEF OnlyMet
  <2>2. ASSUME NEW p \in 1..Len(groups[g].rows)
        PROVE  /\ groups[g].rows[p] \in Resolved
               /\ groups[g].label \in ToSet(LabelsAt(groups[g].rows[p]))
    <3>1. groups[g].rows[p] \in Resolved
      BY <1>3 DEF OnlyMet
    <3>2. PICK k \in 1..Len(LabelsAt(groups[g].rows[p])) :
                 LabelsAt(groups[g].rows[p])[k] = groups[g].label
      BY <1>3 DEF OnlyMet
    <3> QED
      BY <1>1, <3>1, <3>2 DEF ToSet
  <2> QED
    BY <1>2, <1>4, <2>1, <2>2 DEF LabelsAt
<1>8. ASSUME NEW g \in 1..Len(groups), NEW p \in 1..Len(groups[g].rows),
             NEW q \in 1..Len(groups[g].rows), p < q
      PROVE  \/ groups[g].rows[p] < groups[g].rows[q]
             \/ /\ groups[g].rows[p] = groups[g].rows[q]
                /\ Twice(Labels(resolved[groups[g].rows[p]]), groups[g].label)
  BY <1>3, <1>8 DEF RowsAscend, LabelsAt
<1>9. ASSUME NEW g \in 1..Len(groups), NEW h \in 1..(g - 1)
      PROVE  /\ groups[h].label # groups[g].label
             /\ \/ groups[h].rows[1] < groups[g].rows[1]
                \/ /\ groups[h].rows[1] = groups[g].rows[1]
                   /\ MetBefore(Labels(resolved[groups[g].rows[1]]), groups[h].label, groups[g].label)
  <2>1. h \in 1..Len(groups) /\ h < g
    BY <1>1, <1>9
  <2> QED
    BY <1>3, <2>1 DEF OneGroupEach, GroupsAscend, LabelsAt
<1>10. DOMAIN groups = 1..Len(groups)
  BY <1>1
<1>11. ASSUME NEW g \in DOMAIN groups
       PROVE  /\ groups[g].rows # <<>>
              /\ \A p \in DOMAIN groups[g].rows :
                   /\ groups[g].rows[p] \in DOMAIN rows
                   /\ groups[g].label \in ToSet(Labels(resolved[groups[g].rows[p]]))
  BY <1>7, <1>10, <1>11, Zenon
<1>12. ASSUME NEW g \in DOMAIN groups, NEW p \in DOMAIN groups[g].rows, NEW q \in DOMAIN groups[g].rows, p < q
       PROVE  \/ groups[g].rows[p] < groups[g].rows[q]
              \/ /\ groups[g].rows[p] = groups[g].rows[q]
                 /\ Twice(Labels(resolved[groups[g].rows[p]]), groups[g].label)
  <2>1. g \in 1..Len(groups) /\ p \in 1..Len(groups[g].rows) /\ q \in 1..Len(groups[g].rows)
    BY <1>4, <1>10, <1>12, Zenon
  <2> QED
    BY <1>8, <1>12, <2>1, Zenon
<1>13. ASSUME NEW g \in DOMAIN groups, NEW h \in 1..(g - 1)
       PROVE  /\ groups[h].label # groups[g].label
              /\ \/ groups[h].rows[1] < groups[g].rows[1]
                 \/ /\ groups[h].rows[1] = groups[g].rows[1]
                    /\ MetBefore(Labels(resolved[groups[g].rows[1]]), groups[h].label, groups[g].label)
  BY <1>9, <1>10, <1>13, Zenon
<1> QED
  BY <1>6, <1>11, <1>12, <1>13, Zenon DEF GroupsReferToRows

\* modules_to_view_model(): whatever is listed, filtered by, sorted by and
\* grouped by, the rows are the modules that pass, in the order they are
\* sorted by, and the groups refer to those rows.
THEOREM ViewsAreOfTheirModules == SpecView => []GroupsFollowRows
<1>1. ViewInv => GroupsFollowRows
  BY RowsKeepOrder, GroupsKeepRows DEF GroupsFollowRows
<1> QED
  BY <1>1, ViewInvariance, PTL
-----------------------------------------------------------------------------
(* The identifier of an operation, character by character.                 *)

Letter(c) == c \in {"A", "a", "1"}
Solid(s) == \E i \in 1..Len(s) : Letter(s[i])
Firm(s) == \A i \in 1..Len(s) : Begins(s, i) => s[i] \in {"a", "1"}

NormalisationTypes ==
  /\ candidate \in IdTexts /\ words \in Seq(IdCharacters) /\ normal \in Seq(IdCharacters)
  /\ at \in Nat \ {0} /\ phase \in {"words", "segments", "done"} /\ fresh \in BOOLEAN

\* The substitutions leave settled text alone, and no letter or digit is lost.
Respelt ==
  /\ phase = "words" => /\ fresh /\ normal = <<>> /\ at <= Len(candidate) + 1
                        /\ (SettledId(candidate) =>
                             /\ Len(words) = at - 1
                             /\ \A i \in 1..Len(words) : words[i] = candidate[i])
  /\ phase # "words" /\ SettledId(candidate) => words = candidate
  /\ \A i \in 1..Len(candidate) :
       Letter(candidate[i]) /\ (phase = "words" => i < at) => Solid(words)

\* What is written is settled, and all there is of settled words.
Rejoined ==
  /\ Firm(normal) /\ (normal # <<>> => normal[Len(normal)] # ".") /\ (~fresh => normal # <<>>)
  /\ phase # "words" =>
       \A j \in 1..Len(words) : Letter(words[j]) /\ (phase = "segments" => j < at) => normal # <<>>
  /\ phase = "segments" /\ SettledId(words) =>
       /\ at <= Len(words) + 1
       /\ \A i \in 1..Len(normal) : normal[i] = words[i]
       /\ fresh => \/ at = 1 /\ Len(normal) = 0
                   \/ at > 1 /\ words[at - 1] = "." /\ Len(normal) = at - 2
       /\ ~fresh => Len(normal) = at - 1
  /\ phase = "done" /\ SettledId(words) => normal = words

Normalising == NormalisationTypes /\ Respelt /\ Rejoined

Deriving ==
  /\ operation \in Operations /\ segment \in Nat \ {0}
  /\ derived \in Seq(IdCharacters) /\ Firm(derived)
  /\ task \in {"module_id", "done"} /\ operation.hook = <<>> /\ operation.transformed = <<>> =>
       Solid(candidate) /\ (operation.prefix = <<>> => SettledId(candidate))
  /\ task = "done" => phase = "done"

NamingInv == Normalising /\ Deriving

-----------------------------------------------------------------------------
\* A text of the alphabet is settled if its segments begin as they should and
\* the last of them is not empty.
LEMMA SettledIsFirm ==
  ASSUME NEW s \in Seq(IdCharacters)
  PROVE  /\ SettledId(s) <=> Firm(s) /\ (s # <<>> => s[Len(s)] # ".")
         /\ Len(s) \in Nat /\ s \in IdTexts /\ (s # <<>> <=> Len(s) > 0)
<1>1. Len(s) \in Nat /\ DOMAIN s = 1..Len(s) /\ \A i \in 1..Len(s) : s[i] \in IdCharacters
  OBVIOUS
<1>2. SettledId(s) <=> Firm(s) /\ (s # <<>> => s[Len(s)] # ".")
  BY <1>1 DEF SettledId, Firm
<1>3. s \in IdTexts /\ (s # <<>> <=> Len(s) > 0)
  BY DEF IdTexts
<1> QED
  BY <1>1, <1>2, <1>3

LEMMA TextProperties ==
  ASSUME NEW s \in IdTexts
  PROVE  /\ Len(s) \in Nat /\ DOMAIN s = 1..Len(s) /\ (s # <<>> <=> Len(s) > 0)
         /\ SettledId(s) => s \in Seq(IdCharacters) /\ Firm(s)
<1>1. Len(s) \in Nat /\ DOMAIN s = 1..Len(s) /\ (s # <<>> <=> Len(s) > 0)
  BY DEF IdTexts
<1>2. ASSUME SettledId(s) PROVE s \in Seq(IdCharacters) /\ Firm(s)
  <2>1. \A i \in 1..Len(s) : s[i] \in IdCharacters
    BY <1>1, <1>2 DEF SettledId
  <2>2. s = [i \in 1..Len(s) |-> s[i]]
    BY <1>1 DEF IdTexts
  <2>3. s \in Seq(IdCharacters)
    BY <1>1, <2>1, <2>2
  <2> QED
    BY <2>3, <1>2, SettledIsFirm
<1> QED
  BY <1>1, <1>2

LEMMA AppendFirm ==
  ASSUME NEW s \in Seq(IdCharacters), NEW c \in IdCharacters, Firm(s),
         s = <<>> \/ s[Len(s)] = "." => c \in {"a", "1"}
  PROVE  /\ Append(s, c) \in Seq(IdCharacters) /\ Firm(Append(s, c))
         /\ Len(Append(s, c)) = Len(s) + 1 /\ Append(s, c)[Len(s) + 1] = c
         /\ \A i \in 1..Len(s) : Append(s, c)[i] = s[i]
<1>1. /\ Append(s, c) \in Seq(IdCharacters) /\ Len(s) \in Nat
      /\ Len(Append(s, c)) = Len(s) + 1 /\ Append(s, c)[Len(s) + 1] = c
      /\ \A i \in 1..Len(s) : Append(s, c)[i] = s[i]
  OBVIOUS
<1>2. ASSUME NEW i \in 1..(Len(s) + 1), Begins(Append(s, c), i)
      PROVE  Append(s, c)[i] \in {"a", "1"}
  <2>1. CASE i = Len(s) + 1
    <3>1. i # 1 => Len(s) \in 1..Len(s) /\ Append(s, c)[Len(s)] = "."
      BY <1>1, <1>2, <2>1 DEF Begins
    <3>2. s = <<>> \/ s[Len(s)] = "."
      BY <1>1, <2>1, <3>1
    <3> QED
      BY <1>1, <2>1, <3>2
  <2>2. CASE i # Len(s) + 1
    <3>1. i \in 1..Len(s) /\ (i # 1 => i - 1 \in 1..Len(s))
      BY <1>1, <1>2, <2>2
    <3>2. Begins(s, i)
      BY <1>1, <1>2, <3>1 DEF Begins
    <3> QED
      BY <1>1, <3>1, <3>2 DEF Firm
  <2> QED
    BY <2>1, <2>2
<1> QED
  BY <1>1, <1>2 DEF Firm

LEMMA ConcatFirm ==
  ASSUME NEW s \in Seq(IdCharacters), NEW t \in Seq(IdCharacters), Firm(s), Firm(t)
  PROVE  Firm(s \o t)
<1>1. /\ Len(s) \in Nat /\ Len(t) \in Nat /\ Len(s \o t) = Len(s) + Len(t)
      /\ \A i \in 1..Len(s) : (s \o t)[i] = s[i]
      /\ \A i \in (Len(s) + 1)..(Len(s) + Len(t)) : (s \o t)[i] = t[i - Len(s)]
  BY ConcatProperties
<1> DEFINE u == s \o t
<1> HIDE DEF u
<1>2. ASSUME NEW i \in 1..(Len(s) + Len(t)), Begins(u, i) PROVE u[i] \in {"a", "1"}
  <2>1. CASE i \in 1..Len(s)
    <3>1. Begins(s, i)
      BY <1>1, <1>2, <2>1 DEF Begins, u
    <3> QED
      BY <1>1, <2>1, <3>1 DEF Firm, u
  <2>2. CASE i \notin 1..Len(s)
    <3>1. i - Len(s) \in 1..Len(t) /\ i \in (Len(s) + 1)..(Len(s) + Len(t))
      BY <1>1, <1>2, <2>2
    <3>2. i - Len(s) # 1 => i - 1 \in (Len(s) + 1)..(Len(s) + Len(t)) /\ u[i - 1] = t[(i - Len(s)) - 1]
      <4>1. ASSUME i - Len(s) # 1
            PROVE  /\ i - 1 \in (Len(s) + 1)..(Len(s) + Len(t))
                   /\ (i - 1) - Len(s) = (i - Len(s)) - 1
        BY <1>1, <3>1, <4>1
      <4> QED
        BY <1>1, <4>1 DEF u
    <3>3. Begins(t, i - Len(s))
      BY <1>1, <1>2, <3>1, <3>2 DEF Begins
    <3> QED
      BY <1>1, <3>1, <3>3 DEF Firm, u
  <2> QED
    BY <2>1, <2>2
<1> QED
  BY <1>1, <1>2 DEF Firm, u

LEMMA CanonicalIds ==
  ASSUME NEW c
  PROVE  /\ Canonical(c) \in IdCharacters /\ (Letter(c) => Letter(Canonical(c)))
         /\ c \in IdCharacters => Canonical(c) = c
  BY DEF Canonical, IdCharacters, Letter

-----------------------------------------------------------------------------
LEMMA NormalizeStarts ==
  ASSUME NEW text \in IdTexts, Normalize(text)
  PROVE  Normalising' /\ candidate' = text /\ phase' = "words"
<1>1. /\ candidate' = text /\ phase' = "words" /\ at' = 1
      /\ words' = <<>> /\ fresh' = TRUE /\ normal' = <<>>
  BY DEF Normalize
<1>2. NormalisationTypes'
  BY <1>1 DEF NormalisationTypes
<1>3. Len(text) \in Nat
  BY TextProperties
<1>4. Respelt'
  BY <1>1, <1>3 DEF Respelt
<1>5. Rejoined'
  BY <1>1 DEF Rejoined, Firm
<1> QED
  BY <1>1, <1>2, <1>4, <1>5 DEF Normalising

LEMMA NormalisationStays ==
  ASSUME Normalising, UNCHANGED normalisation
  PROVE  Normalising'
<1>1. UNCHANGED <<candidate, phase, at, words, fresh, normal>>
  BY DEF normalisation
<1>2. NormalisationTypes'
  BY <1>1 DEF Normalising, NormalisationTypes
<1>3. Respelt'
  BY <1>1, Zenon DEF Normalising, Respelt
<1>4. Rejoined'
  BY <1>1, Zenon DEF Normalising, Rejoined
<1> QED
  BY <1>2, <1>3, <1>4 DEF Normalising

LEMMA ReadWordsStep == ASSUME NamingInv, ReadWords PROVE NamingInv'
<1> DEFINE c == Canonical(candidate[at])
<1>1. /\ phase = "words" /\ at <= Len(candidate) /\ at' = at + 1
      /\ UNCHANGED <<operation, task, segment, derived, candidate, phase, fresh, normal>>
      /\ words' = IF WordEnds(candidate, at) THEN Append(Append(words, c), "under") ELSE Append(words, c)
  BY DEF ReadWords, derivation
<1>2. /\ NormalisationTypes /\ Respelt /\ Rejoined /\ Deriving
  BY DEF NamingInv, Normalising
<1>3. /\ candidate \in IdTexts /\ Len(candidate) \in Nat /\ at \in Nat \ {0} /\ at \in 1..Len(candidate)
      /\ words \in Seq(IdCharacters) /\ Len(words) \in Nat
  BY <1>1, <1>2, TextProperties DEF NormalisationTypes
<1>4. c \in IdCharacters /\ (Letter(candidate[at]) => Letter(c)) /\ "under" \in IdCharacters
  BY CanonicalIds DEF IdCharacters
<1> HIDE DEF c
<1>5. /\ words' \in Seq(IdCharacters) /\ Len(words') \in Nat /\ Len(words') > Len(words)
      /\ words'[Len(words) + 1] = c /\ \A i \in 1..Len(words) : words'[i] = words[i]
  <2>1. /\ Append(words, c) \in Seq(IdCharacters) /\ Len(Append(words, c)) = Len(words) + 1
        /\ Append(words, c)[Len(words) + 1] = c /\ \A i \in 1..Len(words) : Append(words, c)[i] = words[i]
    BY <1>3, <1>4
  <2> DEFINE w == Append(words, c)
  <2> HIDE DEF w
  <2>2. /\ Append(w, "under") \in Seq(IdCharacters) /\ Len(Append(w, "under")) = Len(w) + 1
        /\ \A i \in 1..Len(w) : Append(w, "under")[i] = w[i]
    BY <1>4, <2>1 DEF w
  <2>3. words' = w \/ words' = Append(w, "under")
    BY <1>1 DEF w
  <2>4. w \in Seq(IdCharacters) /\ Len(w) = Len(words) + 1 /\ w[Len(words) + 1] = c
        /\ \A i \in 1..Len(words) : w[i] = words[i]
    BY <2>1 DEF w
  <2>5. CASE words' = w
    BY <1>3, <2>4, <2>5
  <2>6. CASE words' = Append(w, "under")
    <3>1. 1..Len(w) = 1..(Len(words) + 1) /\ Len(words) + 1 \in 1..Len(w)
      BY <1>3, <2>4
    <3>2. \A i \in 1..(Len(words) + 1) : words'[i] = w[i]
      BY <2>2, <2>6, <3>1
    <3>3. \A i \in 1..Len(words) : i \in 1..(Len(words) + 1)
      BY <1>3
    <3>4. words' \in Seq(IdCharacters) /\ Len(words') = Len(words) + 2
      BY <1>3, <2>2, <2>4, <2>6
    <3> QED
      BY <1>3, <2>4, <3>1, <3>2, <3>3, <3>4
  <2> QED
    BY <2>3, <2>5, <2>6
<1>6. NormalisationTypes'
  BY <1>1, <1>2, <1>3, <1>5 DEF NormalisationTypes
<1>7. ASSUME SettledId(candidate)
      PROVE  Len(words') = (at + 1) - 1 /\ \A i \in 1..Len(words') : words'[i] = candidate[i]
  <2>1. /\ Len(words) = at - 1 /\ \A i \in 1..Len(words) : words[i] = candidate[i]
    BY <1>1, <1>2, <1>7 DEF Respelt
  <2>2. \A i \in 1..Len(candidate) : candidate[i] \in IdCharacters
    BY <1>3, <1>7, TextProperties DEF SettledId
  <2>3. ~WordEnds(candidate, at)
    <3>1. \A i \in 1..Len(candidate) : candidate[i] # "A"
      BY <2>2 DEF IdCharacters
    <3>2. at + 1 <= Len(candidate) => at + 1 \in 1..Len(candidate)
      BY <1>3
    <3> QED
      BY <1>3, <3>1, <3>2 DEF WordEnds
  <2>4. c = candidate[at]
    BY <1>3, <2>2, CanonicalIds DEF c
  <2>5. words' = Append(words, c) /\ Len(words') = Len(words) + 1
    BY <1>1, <1>3, <1>4, <2>3
  <2> QED
    BY <1>3, <1>5, <2>1, <2>4, <2>5
<1>8. ASSUME NEW i \in 1..Len(candidate), Letter(candidate[i]), i < at + 1
      PROVE  \E j \in 1..Len(words') : Letter(words'[j])
  <2>1. CASE i = at
    <3>1. Len(words) + 1 \in 1..Len(words')
      BY <1>3, <1>5
    <3> QED
      BY <1>4, <1>5, <1>8, <2>1, <3>1
  <2>2. CASE i # at
    <3>1. PICK j \in 1..Len(words) : Letter(words[j])
      BY <1>1, <1>2, <1>3, <1>8, <2>2 DEF Respelt, Solid
    <3>2. j \in 1..Len(words') /\ words'[j] = words[j]
      BY <1>3, <1>5, <3>1
    <3> QED
      BY <3>1, <3>2
  <2> QED
    BY <2>1, <2>2
<1>9. Respelt'
  <2>1. fresh' /\ normal' = <<>> /\ at' <= Len(candidate') + 1
    BY <1>1, <1>2, <1>3 DEF Respelt
  <2>2. \A i \in 1..Len(candidate') : Letter(candidate'[i]) /\ i < at' => Solid(words')
    BY <1>1, <1>8 DEF Solid
  <2>3. SettledId(candidate') => Len(words') = at' - 1 /\ \A i \in 1..Len(words') : words'[i] = candidate'[i]
    BY <1>1, <1>7
  <2> QED
    BY <1>1, <2>1, <2>2, <2>3 DEF Respelt
<1>10. Rejoined'
  BY <1>1, <1>2 DEF Rejoined
<1>11. Deriving'
  BY <1>1, <1>2, Zenon DEF Deriving
<1> QED
  BY <1>6, <1>9, <1>10, <1>11 DEF NamingInv, Normalising

LEMMA EndOfCandidateStep == ASSUME NamingInv, EndOfCandidate PROVE NamingInv'
<1>1. /\ phase = "words" /\ at > Len(candidate) /\ at' = 1 /\ phase' = "segments"
      /\ UNCHANGED <<operation, task, segment, derived, candidate, words, fresh, normal>>
  BY DEF EndOfCandidate, derivation
<1>2. /\ NormalisationTypes /\ Respelt /\ Rejoined /\ Deriving
  BY DEF NamingInv, Normalising
<1>3. /\ candidate \in IdTexts /\ Len(candidate) \in Nat /\ at \in Nat \ {0}
      /\ words \in Seq(IdCharacters) /\ Len(words) \in Nat
  BY <1>2, TextProperties DEF NormalisationTypes
<1>4. fresh /\ normal = <<>> /\ at = Len(candidate) + 1
  BY <1>1, <1>2, <1>3 DEF Respelt
<1>5. ASSUME SettledId(candidate) PROVE words = candidate
  <2>1. Len(words) = Len(candidate) /\ \A i \in 1..Len(words) : words[i] = candidate[i]
    BY <1>1, <1>2, <1>3, <1>4, <1>5 DEF Respelt
  <2>2. candidate \in Seq(IdCharacters)
    BY <1>3, <1>5, TextProperties
  <2> QED
    BY <1>3, <2>1, <2>2
<1>6. Respelt'
  <2>1. \A i \in 1..Len(candidate') : Letter(candidate'[i]) => Solid(words')
    BY <1>1, <1>2, <1>3, <1>4 DEF Respelt
  <2> QED
    BY <1>1, <1>5, <2>1 DEF Respelt
<1>7. Rejoined'
  BY <1>1, <1>2, <1>3, <1>4 DEF Rejoined
<1>8. NormalisationTypes' /\ Deriving'
  BY <1>1, <1>2 DEF NormalisationTypes, Deriving
<1> QED
  BY <1>6, <1>7, <1>8 DEF NamingInv, Normalising

\* The next of the words' characters is dealt with.
LEMMA EndSegmentStep == ASSUME NamingInv, EndSegment PROVE NamingInv'
<1>1. /\ phase = "segments" /\ at <= Len(words) /\ words[at] = "." /\ fresh' = TRUE /\ at' = at + 1
      /\ UNCHANGED <<operation, task, segment, derived, candidate, phase, words, normal>>
  BY DEF EndSegment, derivation
<1>2. /\ NormalisationTypes /\ Respelt /\ Rejoined /\ Deriving
  BY DEF NamingInv, Normalising
<1>3. /\ at \in Nat \ {0} /\ words \in Seq(IdCharacters) /\ Len(words) \in Nat /\ at \in 1..Len(words)
      /\ normal \in Seq(IdCharacters) /\ Len(normal) \in Nat
  BY <1>1, <1>2 DEF NormalisationTypes
<1>4. ASSUME SettledId(words)
      PROVE  /\ at' <= Len(words') + 1
             /\ \A i \in 1..Len(normal') : normal'[i] = words'[i]
             /\ at' > 1 /\ words'[at' - 1] = "." /\ Len(normal') = at' - 2
  <2>1. ~fresh
    <3>1. fresh => Begins(words, at)
      BY <1>1, <1>2, <1>4 DEF Rejoined, Begins
    <3>2. ~Begins(words, at)
      BY <1>1, <1>3, <1>4, SettledIsFirm DEF Firm
    <3> QED
      BY <3>1, <3>2
  <2>2. Len(normal) = at - 1 /\ \A i \in 1..Len(normal) : normal[i] = words[i]
    BY <1>1, <1>2, <1>4, <2>1 DEF Rejoined
  <2>3. (at + 1) - 1 = at /\ (at + 1) - 2 = at - 1
    BY <1>3
  <2> QED
    BY <1>1, <1>3, <2>2, <2>3
<1>5. Rejoined'
  <2>1. ASSUME NEW j \in 1..Len(words), Letter(words[j]), j < at + 1 PROVE normal # <<>>
    <3>1. j # at
      BY <1>1, <2>1 DEF Letter
    <3> QED
      BY <1>1, <1>2, <1>3, <2>1, <3>1 DEF Rejoined
  <2>2. Firm(normal) /\ (normal # <<>> => normal[Len(normal)] # ".")
    BY <1>2 DEF Rejoined
  <2> QED
    BY <1>1, <1>4, <2>1, <2>2 DEF Rejoined
<1>6. Respelt'
  BY <1>1, <1>2 DEF Respelt
<1>7. NormalisationTypes' /\ Deriving'
  BY <1>1, <1>2, <1>3 DEF NormalisationTypes, Deriving
<1> QED
  BY <1>5, <1>6, <1>7 DEF NamingInv, Normalising

LEMMA StripStep == ASSUME NamingInv, Strip PROVE NamingInv'
<1>1. /\ phase = "segments" /\ at <= Len(words) /\ words[at] = "under" /\ fresh /\ at' = at + 1
      /\ UNCHANGED <<operation, task, segment, derived, candidate, phase, words, fresh, normal>>
  BY DEF Strip, derivation
<1>2. /\ NormalisationTypes /\ Respelt /\ Rejoined /\ Deriving
  BY DEF NamingInv, Normalising
<1>3. /\ at \in Nat \ {0} /\ words \in Seq(IdCharacters) /\ at \in 1..Len(words)
  BY <1>1, <1>2 DEF NormalisationTypes
<1>4. ~SettledId(words)
  <2>1. SettledId(words) => Begins(words, at)
    BY <1>1, <1>2 DEF Rejoined, Begins
  <2> QED
    BY <1>1, <1>3, <2>1, SettledIsFirm DEF Firm
<1>5. Rejoined'
  <2>1. ASSUME NEW j \in 1..Len(words), Letter(words[j]), j < at + 1 PROVE normal # <<>>
    <3>1. j # at
      BY <1>1, <2>1 DEF Letter
    <3> QED
      BY <1>1, <1>2, <1>3, <2>1, <3>1 DEF Rejoined
  <2>2. Firm(normal) /\ (normal # <<>> => normal[Len(normal)] # ".")
    BY <1>2 DEF Rejoined
  <2> QED
    BY <1>1, <1>4, <2>1, <2>2 DEF Rejoined
<1>6. Respelt'
  BY <1>1, <1>2 DEF Respelt
<1>7. NormalisationTypes' /\ Deriving'
  BY <1>1, <1>2, <1>3 DEF NormalisationTypes, Deriving
<1> QED
  BY <1>5, <1>6, <1>7 DEF NamingInv, Normalising

LEMMA WriteSegmentStep == ASSUME NamingInv, WriteSegment PROVE NamingInv'
<1> DEFINE c == words[at]
           before == IF fresh /\ normal # <<>> THEN Append(normal, ".") ELSE normal
<1>1. /\ phase = "segments" /\ at <= Len(words) /\ ~(c = "under" /\ fresh) /\ c # "."
      /\ normal' = Append(before, c) /\ fresh' = FALSE /\ at' = at + 1
      /\ UNCHANGED <<operation, task, segment, derived, candidate, phase, words>>
  BY DEF WriteSegment, Write, derivation
<1>2. /\ NormalisationTypes /\ Respelt /\ Rejoined /\ Deriving
  BY DEF NamingInv, Normalising
<1>3. /\ at \in Nat \ {0} /\ words \in Seq(IdCharacters) /\ Len(words) \in Nat /\ at \in 1..Len(words)
      /\ normal \in Seq(IdCharacters) /\ Len(normal) \in Nat /\ c \in IdCharacters
  BY <1>1, <1>2 DEF NormalisationTypes
<1>4. /\ Firm(normal) /\ (normal # <<>> => normal[Len(normal)] # ".") /\ (~fresh => normal # <<>>)
  BY <1>2 DEF Rejoined
<1>5. /\ before \in Seq(IdCharacters) /\ Firm(before) /\ Len(before) \in Nat
      /\ before # <<>> /\ before[Len(before)] = "." => fresh
      /\ ~fresh => before # <<>>
  <2>1. CASE fresh /\ normal # <<>>
    <3>1. "." \in IdCharacters /\ before = Append(normal, ".")
      BY <2>1 DEF IdCharacters
    <3> QED
      BY <1>3, <1>4, <2>1, <3>1, AppendFirm
  <2>2. CASE ~(fresh /\ normal # <<>>)
    BY <1>3, <1>4, <2>2
  <2> QED
    BY <2>1, <2>2
<1>6. ASSUME SettledId(words)
      PROVE  /\ Len(before) = at - 1
             /\ \A i \in 1..Len(before) : before[i] = words[i]
  <2>1. /\ \A i \in 1..Len(normal) : normal[i] = words[i]
        /\ fresh => \/ at = 1 /\ Len(normal) = 0
                    \/ at > 1 /\ words[at - 1] = "." /\ Len(normal) = at - 2
        /\ ~fresh => Len(normal) = at - 1
    BY <1>1, <1>2, <1>6 DEF Rejoined
  <2>2. CASE ~fresh
    BY <2>1, <2>2
  <2>3. CASE fresh /\ at = 1
    <3>1. normal = <<>> /\ before = <<>>
      BY <1>3, <2>1, <2>3
    <3> QED
      BY <2>3, <3>1
  <2>4. CASE fresh /\ at > 1
    <3>1. words[at - 1] = "." /\ Len(normal) = at - 2
      BY <1>3, <2>1, <2>4
    <3>2. at # 2
      <4>1. at = 2 => words[1] = "."
        BY <3>1
      <4>2. words[1] \in {"a", "1"}
        BY <1>3, <1>6, SettledIsFirm DEF Firm, Begins
      <4> QED
        BY <4>1, <4>2
    <3>3. normal # <<>> /\ before = Append(normal, ".") /\ "." \in IdCharacters
      BY <1>3, <2>4, <3>1, <3>2 DEF IdCharacters
    <3>4. /\ Len(before) = Len(normal) + 1 /\ before[Len(normal) + 1] = "."
          /\ \A i \in 1..Len(normal) : before[i] = normal[i]
      BY <1>3, <3>3
    <3>5. Len(normal) + 1 = at - 1
      BY <1>3, <3>1
    <3>6. ASSUME NEW i \in 1..Len(before) PROVE before[i] = words[i]
      <4>1. i \in 1..Len(normal) \/ i = at - 1
        BY <1>3, <3>4, <3>5
      <4> QED
        BY <2>1, <3>1, <3>4, <3>5, <4>1
    <3> QED
      BY <3>4, <3>5, <3>6
  <2> QED
    BY <1>3, <2>2, <2>3, <2>4
<1> HIDE DEF before
<1>7. before = <<>> \/ before[Len(before)] = "." => c \in {"a", "1"}
  BY <1>1, <1>3, <1>5 DEF IdCharacters
<1>8. /\ normal' \in Seq(IdCharacters) /\ Firm(normal') /\ Len(normal') = Len(before) + 1
      /\ normal'[Len(before) + 1] = c /\ \A i \in 1..Len(before) : normal'[i] = before[i]
  BY <1>1, <1>3, <1>5, <1>7, AppendFirm
<1>9. normal' # <<>> /\ normal'[Len(normal')] # "."
  BY <1>1, <1>5, <1>8
<1>10. ASSUME SettledId(words)
       PROVE  /\ at + 1 <= Len(words) + 1 /\ Len(normal') = (at + 1) - 1
              /\ \A i \in 1..Len(normal') : normal'[i] = words[i]
  <2>1. Len(before) = at - 1 /\ \A i \in 1..Len(before) : before[i] = words[i]
    BY <1>6, <1>10
  <2>2. ASSUME NEW i \in 1..Len(normal') PROVE normal'[i] = words[i]
    <3>1. i \in 1..Len(before) \/ i = Len(before) + 1
      BY <1>5, <1>8
    <3>2. Len(before) + 1 = at
      BY <1>3, <2>1
    <3> QED
      BY <1>8, <2>1, <3>1, <3>2
  <2> QED
    BY <1>3, <1>8, <2>1, <2>2
<1>11. Rejoined'
  BY <1>1, <1>8, <1>9, <1>10 DEF Rejoined
<1>12. Respelt'
  BY <1>1, <1>2 DEF Respelt
<1>13. NormalisationTypes'
  <2>1. at' \in Nat \ {0} /\ fresh' \in BOOLEAN /\ normal' \in Seq(IdCharacters)
    <3>1. at' \in Nat \ {0}
      BY <1>1, <1>3
    <3>2. fresh' \in BOOLEAN
      BY <1>1
    <3> QED
      BY <1>8, <3>1, <3>2
  <2>2. UNCHANGED <<candidate, words, phase>>
    BY <1>1
  <2> QED
    BY <1>2, <2>1, <2>2 DEF NormalisationTypes
<1>14. Deriving'
  BY <1>1, <1>2 DEF Deriving
<1> QED
  BY <1>11, <1>12, <1>13, <1>14 DEF NamingInv, Normalising

LEMMA EndOfWordsStep == ASSUME NamingInv, EndOfWords PROVE NamingInv'
<1>1. /\ phase = "segments" /\ at > Len(words) /\ phase' = "done"
      /\ UNCHANGED <<operation, task, segment, derived, candidate, at, words, fresh, normal>>
  BY DEF EndOfWords, derivation
<1>2. /\ NormalisationTypes /\ Respelt /\ Rejoined /\ Deriving
  BY DEF NamingInv, Normalising
<1>3. /\ at \in Nat \ {0} /\ words \in Seq(IdCharacters) /\ Len(words) \in Nat
      /\ normal \in Seq(IdCharacters) /\ Len(normal) \in Nat
  BY <1>2 DEF NormalisationTypes
<1>4. ASSUME SettledId(words) PROVE normal = words
  <2>1. /\ at <= Len(words) + 1 /\ \A i \in 1..Len(normal) : normal[i] = words[i]
        /\ fresh => \/ at = 1 /\ Len(normal) = 0
                    \/ at > 1 /\ words[at - 1] = "." /\ Len(normal) = at - 2
        /\ ~fresh => Len(normal) = at - 1
    BY <1>1, <1>2, <1>4 DEF Rejoined
  <2>2. at = Len(words) + 1
    BY <1>1, <1>3, <2>1
  <2>3. ~(at > 1 /\ words[at - 1] = ".")
    <3>1. at > 1 => words # <<>> /\ at - 1 = Len(words)
      BY <1>3, <2>2
    <3> QED
      BY <1>3, <1>4, <3>1, SettledIsFirm
  <2>4. Len(normal) = Len(words)
    BY <1>3, <2>1, <2>2, <2>3
  <2> QED
    BY <1>3, <2>1, <2>4
<1>5. Rejoined'
  BY <1>1, <1>2, <1>3, <1>4 DEF Rejoined
<1>6. Respelt'
  BY <1>1, <1>2 DEF Respelt
<1>7. NormalisationTypes' /\ Deriving'
  BY <1>1, <1>2, <1>3 DEF NormalisationTypes, Deriving
<1> QED
  BY <1>5, <1>6, <1>7 DEF NamingInv, Normalising

-----------------------------------------------------------------------------
LEMMA OperationTypes ==
  ASSUME operation \in Operations
  PROVE  /\ operation.path \in Seq(IdTexts) /\ operation.operationId \in IdTexts
         /\ operation.prefix \in IdTexts
         /\ operation.method \in Seq({"a"}) /\ operation.method # <<>>
         /\ operation.hook \in Seq(IdTexts) /\ operation.transformed \in Seq(IdTexts)
  BY OperationsAssumption

\* What is emitted is normalised once more, after the prefix.
LEMMA EmitsStarts ==
  ASSUME NamingInv, NEW mid \in IdTexts, Emits(mid),
         operation.hook = <<>> => Solid(mid) /\ SettledId(mid)
  PROVE  NamingInv'
<1> DEFINE text == CASE operation.transformed # <<>> -> operation.transformed[1]
                     [] operation.transformed = <<>> /\ operation.prefix # <<>> ->
                          Append(operation.prefix, ".") \o mid
                     [] OTHER -> mid
<1>1. task' = "module_id" /\ Normalize(text) /\ UNCHANGED <<operation, segment, derived>>
  BY DEF Emits
<1>2. Deriving
  BY DEF NamingInv
<1>3. /\ operation.transformed \in Seq(IdTexts) /\ operation.prefix \in IdTexts
  BY <1>2, OperationTypes DEF Deriving
<1>4. /\ Append(operation.prefix, ".") \in IdTexts /\ Append(operation.prefix, ".") \o mid \in IdTexts
      /\ Len(Append(operation.prefix, ".")) \in Nat
      /\ Len(Append(operation.prefix, ".") \o mid) = Len(Append(operation.prefix, ".")) + Len(mid)
      /\ \A i \in 1..Len(mid) :
           (Append(operation.prefix, ".") \o mid)[Len(Append(operation.prefix, ".")) + i] = mid[i]
  <2>1. Append(operation.prefix, ".") \in IdTexts
    BY <1>3 DEF IdTexts, IdCharacters
  <2> DEFINE start == Append(operation.prefix, ".")
  <2> HIDE DEF start
  <2>2. start \in IdTexts
    BY <2>1 DEF start
  <2>3. start \o mid \in IdTexts /\ Len(start) \in Nat /\ Len(mid) \in Nat /\ Len(start \o mid) = Len(start) + Len(mid)
    BY <2>2, ConcatProperties DEF IdTexts
  <2>4. \A i \in (Len(start) + 1)..(Len(start) + Len(mid)) : (start \o mid)[i] = mid[i - Len(start)]
    BY <2>2, ConcatProperties DEF IdTexts
  <2>5. ASSUME NEW i \in 1..Len(mid) PROVE (start \o mid)[Len(start) + i] = mid[i]
    <3>1. Len(start) + i \in (Len(start) + 1)..(Len(start) + Len(mid)) /\ (Len(start) + i) - Len(start) = i
      BY <2>3
    <3> QED
      BY <2>4, <3>1
  <2> QED
    BY <2>2, <2>3, <2>5 DEF start
<1>5. text \in IdTexts
  <2>1. operation.transformed # <<>> => operation.transformed[1] \in IdTexts
    BY <1>3
  <2> QED
    BY <1>4, <2>1
<1>6. operation.hook = <<>> /\ operation.transformed = <<>> =>
        Solid(text) /\ (operation.prefix = <<>> => SettledId(text))
  <2> SUFFICES ASSUME operation.hook = <<>>, operation.transformed = <<>>
               PROVE  Solid(text) /\ (operation.prefix = <<>> => SettledId(text))
    OBVIOUS
  <2>1. CASE operation.prefix = <<>>
    <3>1. text = mid
      BY <2>1
    <3> QED
      BY <3>1
  <2>2. CASE operation.prefix # <<>>
    <3> DEFINE start == Append(operation.prefix, ".")
    <3>1. text = start \o mid
      BY <2>2
    <3>2. PICK i \in 1..Len(mid) : Letter(mid[i])
      BY DEF Solid
    <3>3. Len(mid) \in Nat
      BY TextProperties
    <3>4. Len(start) \in Nat /\ Len(text) = Len(start) + Len(mid) /\ text[Len(start) + i] = mid[i]
      BY <1>4, <3>1, <3>2
    <3>5. Len(start) + i \in 1..Len(text)
      BY <3>2, <3>3, <3>4
    <3> QED
      BY <2>2, <3>2, <3>4, <3>5 DEF Solid
  <2> QED
    BY <2>1, <2>2
<1> HIDE DEF text
<1>7. Normalising' /\ candidate' = text /\ phase' = "words"
  BY <1>1, <1>5, NormalizeStarts
<1>8. Solid(candidate)' <=> Solid(text)
  BY <1>7 DEF Solid
<1>9. SettledId(candidate)' <=> SettledId(text)
  BY <1>7 DEF SettledId, Begins
<1>10. Deriving'
  BY <1>1, <1>2, <1>6, <1>8, <1>9 DEF Deriving
<1> QED
  BY <1>7, <1>10 DEF NamingInv

LEMMA HookNamesStep == ASSUME NamingInv, HookNames PROVE NamingInv'
<1>1. operation.hook # <<>> /\ Emits(operation.hook[1])
  BY DEF HookNames
<1>2. operation.hook[1] \in IdTexts
  BY <1>1, OperationTypes DEF NamingInv, Deriving
<1> QED
  BY <1>1, <1>2, EmitsStarts

LEMMA ReadsText ==
  ASSUME NamingInv, NEW text \in IdTexts, Normalize(text), task' \in {"operationId", "segment"},
         UNCHANGED <<operation, segment, derived>>
  PROVE  NamingInv'
<1>1. Normalising'
  BY NormalizeStarts
<1>2. Deriving'
  BY DEF NamingInv, Deriving
<1> QED
  BY <1>1, <1>2 DEF NamingInv

LEMMA ReadOperationIdStep == ASSUME NamingInv, ReadOperationId PROVE NamingInv'
<1>1. operation.operationId \in IdTexts
  BY OperationTypes DEF NamingInv, Deriving
<1> QED
  BY <1>1, ReadsText DEF ReadOperationId

LEMMA ReadSegmentStep == ASSUME NamingInv, ReadSegment PROVE NamingInv'
<1>1. operation.path \in Seq(IdTexts) /\ segment \in Nat \ {0} /\ segment <= Len(operation.path)
  BY OperationTypes DEF NamingInv, Deriving, ReadSegment
<1>2. operation.path[segment] \in IdTexts
  BY <1>1
<1>3. ASSUME NEW s \in IdTexts PROVE Unbraced(s) \in IdTexts
  <2>1. Len(s) >= 2 => SubSeq(s, 2, Len(s) - 1) \in IdTexts
    BY <1>3, SubSeqProperties DEF IdTexts
  <2> QED
    BY <1>3, <2>1 DEF Unbraced
<1>4. Unbraced(operation.path[segment]) \in IdTexts
  BY <1>2, <1>3
<1> QED
  BY <1>4, ReadsText DEF ReadSegment

\* Without the "_" at its end, a settled text that is not empty is settled.
LEMMA WithoutTrailSettled ==
  ASSUME NEW s \in Seq(IdCharacters), Firm(s), s # <<>> => s[Len(s)] # ".",
         NEW n \in 1..Len(s), WithoutTrail(s, n)
  PROVE  LET t == SubSeq(s, 1, n) IN t \in IdTexts /\ Solid(t) /\ SettledId(t)
<1> DEFINE t == SubSeq(s, 1, n)
<1>1. Len(s) \in Nat /\ n \in Nat /\ n >= 1 /\ n <= Len(s)
  OBVIOUS
<1>2. t \in Seq(IdCharacters) /\ Len(t) = n /\ \A i \in 1..n : t[i] = s[i]
  <2>1. t \in Seq(IdCharacters) /\ Len(t) = n
    BY <1>1
  <2>2. \A i \in 1..n : t[i] = s[i]
    BY <1>1
  <2> QED
    BY <2>1, <2>2
<1> HIDE DEF t
<1>3. Firm(t)
  <2>1. ASSUME NEW i \in 1..n, Begins(t, i) PROVE t[i] \in {"a", "1"}
    <3>1. i \in 1..Len(s) /\ (i # 1 => i - 1 \in 1..n)
      BY <1>1, <2>1
    <3>2. Begins(s, i)
      BY <1>2, <2>1, <3>1 DEF Begins
    <3> QED
      BY <1>2, <3>1, <3>2 DEF Firm
  <2> QED
    BY <1>2, <2>1 DEF Firm
<1>4. t # <<>> /\ t[1] \in {"a", "1"} /\ 1 \in 1..Len(t)
  BY <1>1, <1>2, <1>3 DEF Firm, Begins
<1>5. Solid(t)
  BY <1>4 DEF Solid, Letter
<1>6. t[Len(t)] # "."
  <2>1. t[Len(t)] = s[n]
    BY <1>1, <1>2
  <2>2. ASSUME n < Len(s), s[n] = "." PROVE FALSE
    <3>1. n + 1 \in 1..Len(s) /\ n + 1 \in (n + 1)..Len(s) /\ (n + 1) - 1 = n
      BY <1>1, <2>2
    <3>2. Begins(s, n + 1) /\ s[n + 1] = "under"
      BY <2>2, <3>1 DEF Begins, WithoutTrail
    <3> QED
      BY <3>1, <3>2 DEF Firm
  <2>3. n = Len(s) => s[n] # "."
    BY <1>1
  <2> QED
    BY <1>1, <2>1, <2>2, <2>3
<1>7. t \in IdTexts /\ SettledId(t)
  BY <1>2, <1>3, <1>6, SettledIsFirm
<1> QED
  BY <1>5, <1>7 DEF t

LEMMA TakeOperationIdStep == ASSUME NamingInv, TakeOperationId PROVE NamingInv'
<1>1. PICK n \in 1..Len(normal) : WithoutTrail(normal, n) /\ Emits(SubSeq(normal, 1, n))
  BY DEF TakeOperationId
<1>2. normal \in Seq(IdCharacters) /\ Firm(normal) /\ (normal # <<>> => normal[Len(normal)] # ".")
  BY DEF NamingInv, Normalising, NormalisationTypes, Rejoined
<1>3. /\ SubSeq(normal, 1, n) \in IdTexts /\ Solid(SubSeq(normal, 1, n))
      /\ SettledId(SubSeq(normal, 1, n))
  BY <1>1, <1>2, WithoutTrailSettled
<1> QED
  BY <1>1, <1>3, EmitsStarts

LEMMA ReadPathStep == ASSUME NamingInv, ReadPath PROVE NamingInv'
<1>1. Normalising' /\ UNCHANGED normalisation
  BY NormalisationStays DEF NamingInv, ReadPath
<1>2. Deriving'
  BY DEF NamingInv, ReadPath, Deriving
<1> QED
  BY <1>1, <1>2 DEF NamingInv

LEMMA AddPartStep == ASSUME NamingInv, AddPart PROVE NamingInv'
<1>1. /\ derived' = IF normal = <<>> THEN derived ELSE derived \o Append(normal, ".")
      /\ segment' = segment + 1 /\ task' = "path" /\ UNCHANGED <<operation, normalisation>>
  BY DEF AddPart
<1>2. Normalising'
  BY <1>1, NormalisationStays DEF NamingInv
<1>3. /\ normal \in Seq(IdCharacters) /\ Firm(normal) /\ (normal # <<>> => normal[Len(normal)] # ".")
      /\ Deriving
  BY DEF NamingInv, Normalising, NormalisationTypes, Rejoined
<1>4. derived' \in Seq(IdCharacters) /\ Firm(derived')
  <2>1. CASE normal = <<>>
    BY <1>1, <1>3, <2>1 DEF Deriving
  <2>2. CASE normal # <<>>
    <3>1. "." \in IdCharacters
      BY DEF IdCharacters
    <3>2. Append(normal, ".") \in Seq(IdCharacters) /\ Firm(Append(normal, "."))
      BY <1>3, <2>2, <3>1, AppendFirm
    <3>3. derived' = derived \o Append(normal, ".") /\ derived \in Seq(IdCharacters) /\ Firm(derived)
      BY <1>1, <1>3, <2>2 DEF Deriving
    <3> QED
      BY <3>2, <3>3, ConcatFirm, ConcatProperties
  <2> QED
    BY <2>1, <2>2
<1>5. Deriving'
  BY <1>1, <1>3, <1>4 DEF Deriving
<1> QED
  BY <1>2, <1>5 DEF NamingInv

LEMMA EndOfPathStep == ASSUME NamingInv, EndOfPath PROVE NamingInv'
<1> DEFINE start == IF derived = <<>> THEN Root ELSE derived
           mid == start \o operation.method
<1>1. Emits(mid)
  BY DEF EndOfPath
<1>2. start \in Seq(IdCharacters) /\ Firm(start)
  <2>1. Root \in Seq(IdCharacters) /\ Firm(Root)
    BY DEF Root, IdCharacters, Firm, Begins
  <2> QED
    BY <2>1 DEF NamingInv, Deriving
<1>3. operation.method \in Seq({"a"}) /\ operation.method # <<>>
  BY OperationTypes DEF NamingInv, Deriving
<1> DEFINE method == operation.method
<1>4. /\ method \in Seq(IdCharacters) /\ Len(method) \in Nat /\ Len(method) > 0
      /\ \A i \in 1..Len(method) : method[i] = "a"
  <2>1. Len(method) \in Nat /\ Len(method) > 0 /\ \A i \in 1..Len(method) : method[i] = "a"
    BY <1>3
  <2>2. method = [i \in 1..Len(method) |-> method[i]]
    BY <1>3
  <2>3. "a" \in IdCharacters
    BY DEF IdCharacters
  <2>4. method \in Seq(IdCharacters)
    BY <2>1, <2>2, <2>3
  <2> QED
    BY <2>1, <2>4
<1> HIDE DEF start, method
<1>5. Firm(method)
  BY <1>4 DEF Firm
<1>6. /\ start \o method \in Seq(IdCharacters) /\ Firm(start \o method) /\ Len(start) \in Nat
      /\ Len(start \o method) = Len(start) + Len(method)
      /\ \A i \in (Len(start) + 1)..(Len(start) + Len(method)) : (start \o method)[i] = method[i - Len(start)]
  BY <1>2, <1>4, <1>5, ConcatFirm, ConcatProperties
<1>7. Len(start) + Len(method) \in 1..Len(start \o method) /\ (start \o method)[Len(start) + Len(method)] = "a"
  <2>1. /\ Len(start) + Len(method) \in (Len(start) + 1)..(Len(start) + Len(method))
        /\ (Len(start) + Len(method)) - Len(start) \in 1..Len(method)
    BY <1>4, <1>6
  <2> QED
    BY <1>4, <1>6, <2>1
<1>8. Solid(start \o method) /\ start \o method # <<>>
  BY <1>6, <1>7 DEF Solid, Letter
<1>9. start \o method \in IdTexts /\ SettledId(start \o method)
  BY <1>6, <1>7, SettledIsFirm
<1>10. mid \in IdTexts /\ Solid(mid) /\ SettledId(mid)
  BY <1>8, <1>9 DEF method
<1> QED
  BY <1>1, <1>10, EmitsStarts

LEMMA NamedStep == ASSUME NamingInv, Named PROVE NamingInv'
<1>1. Normalising' /\ UNCHANGED normalisation
  BY NormalisationStays DEF NamingInv, Named
<1>2. UNCHANGED candidate /\ UNCHANGED phase
  BY <1>1 DEF normalisation
<1>3. Deriving'
  BY <1>2 DEF NamingInv, Named, Deriving
<1> QED
  BY <1>1, <1>3 DEF NamingInv

LEMMA NamingInvariance == SpecNaming => []NamingInv
<1>1. InitNaming => NamingInv
  <2> SUFFICES ASSUME InitNaming PROVE NamingInv
    OBVIOUS
  <2>1. NormalisationTypes
    BY DEF InitNaming, NormalisationTypes, IdTexts
  <2>2. Respelt /\ Rejoined
    BY DEF InitNaming, Respelt, Rejoined, Firm
  <2>3. Deriving
    BY DEF InitNaming, Deriving, Firm
  <2> QED
    BY <2>1, <2>2, <2>3 DEF NamingInv, Normalising
<1>2. NamingInv /\ UNCHANGED identifying => NamingInv'
  <2> SUFFICES ASSUME NamingInv, UNCHANGED identifying PROVE NamingInv'
    OBVIOUS
  <2>1. UNCHANGED normalisation /\ UNCHANGED <<operation, task, segment, derived, candidate, phase>>
    BY DEF identifying, derivation, normalisation
  <2>2. Normalising'
    BY <2>1, NormalisationStays DEF NamingInv
  <2>3. Deriving'
    BY <2>1 DEF NamingInv, Deriving
  <2> QED
    BY <2>2, <2>3 DEF NamingInv
<1>3. NamingInv /\ [NextNaming]_identifying => NamingInv'
  BY <1>2, ReadWordsStep, EndOfCandidateStep, EndSegmentStep, StripStep, WriteSegmentStep,
     EndOfWordsStep, HookNamesStep, ReadOperationIdStep, TakeOperationIdStep, ReadPathStep,
     ReadSegmentStep, AddPartStep, EndOfPathStep, NamedStep DEF NextNaming
<1> QED
  BY <1>1, <1>3, PTL DEF SpecNaming

\* scan(): whatever a document calls its operations and whatever the hooks
\* answer, normalisation is idempotent, leaves legal names alone and mends
\* everything but digits, and what is derived is never empty.
THEOREM NamesAreSettled == SpecNaming => []IdsAreSettled
<1>1. NamingInv => IdsAreSettled
  <2> SUFFICES ASSUME NamingInv, task = "done" PROVE IdsAreSettled
    BY DEF IdsAreSettled
  <2>1. /\ NormalisationTypes /\ Respelt /\ Rejoined /\ Deriving /\ phase = "done"
    BY DEF NamingInv, Normalising, Deriving
  <2>2. normal \in Seq(IdCharacters) /\ words \in Seq(IdCharacters) /\ candidate \in IdTexts
    BY <2>1 DEF NormalisationTypes
  <2>3. SettledId(normal)
    BY <2>1, <2>2, SettledIsFirm DEF Rejoined
  <2>4. LegalId(normal) \/ normal = <<>> \/ \E i \in DOMAIN normal : Begins(normal, i) /\ normal[i] = "1"
    BY <2>3 DEF SettledId, LegalId
  <2>5. SettledId(candidate) => normal = candidate
    BY <2>1 DEF Respelt, Rejoined
  <2>6. Solid(candidate) => normal # <<>>
    <3>1. Solid(candidate) => Solid(words)
      BY <2>1 DEF Respelt, Solid
    <3> QED
      BY <2>1, <3>1 DEF Rejoined, Solid
  <2> QED
    BY <2>1, <2>3, <2>4, <2>5, <2>6 DEF IdsAreSettled, Deriving
<1> QED
  BY <1>1, NamingInvariance, PTL

-----------------------------------------------------------------------------
(* The schemas of an operation, and whoever reads them.                    *)

\* The resolution is the function its definition describes.  The recursion is
\* taken up to a level (Reaches); what reaches further agrees with what does not.
Level(document, levels, f) ==
  [schema \in DocumentSchemas |-> IF levels = 0 THEN schema ELSE Deeper(document, f[levels - 1], schema)]
Reaches(document, n, f) == f = [levels \in 0..n |-> Level(document, levels, f)]

LEMMA ReachesAgree ==
  ASSUME NEW document, NEW m \in Nat, NEW n \in Nat, NEW f, NEW g,
         Reaches(document, m, f), Reaches(document, n, g), m <= n
  PROVE  \A levels \in 0..m : f[levels] = g[levels]
<1> DEFINE S == {levels \in 0..m : f[levels] # g[levels]}
<1> SUFFICES ASSUME S # {} PROVE FALSE
  OBVIOUS
<1>1. S \in SUBSET Nat
  OBVIOUS
<1>2. PICK k \in S : \A j \in S : k <= j
  BY <1>1, Least, Zenon
<1>3. k \in 0..m /\ k \in 0..n /\ f[k] # g[k]
  BY <1>2
<1>4. f[k] = Level(document, k, f) /\ g[k] = Level(document, k, g)
  BY <1>3, Zenon DEF Reaches
<1>5. Level(document, k, f) = Level(document, k, g)
  <2>1. CASE k = 0
    BY <2>1 DEF Level
  <2>2. CASE k # 0
    <3>1. k - 1 \in 0..m /\ ~(k <= k - 1)
      BY <2>2, <1>3
    <3>2. k - 1 \notin S
      BY <3>1, <1>2
    <3>3. f[k - 1] = g[k - 1]
      BY <3>1, <3>2
    <3> QED
      BY <3>3, Zenon DEF Level
  <2> QED
    BY <2>1, <2>2
<1> QED
  BY <1>3, <1>4, <1>5

LEMMA SomethingReaches ==
  ASSUME NEW document, NEW n \in Nat
  PROVE  \E f : Reaches(document, n, f)
<1> DEFINE S == {levels \in Nat : \A f : ~Reaches(document, levels, f)}
<1> SUFFICES ASSUME S # {} PROVE FALSE
  OBVIOUS
<1>1. PICK k \in S : \A j \in S : k <= j
  BY Least
<1>2. k \in Nat /\ \A f : ~Reaches(document, k, f)
  BY <1>1
<1>3. CASE k = 0
  <2> DEFINE f == [levels \in 0..0 |-> [schema \in DocumentSchemas |-> schema]]
  <2>1. \A levels \in 0..0 : Level(document, levels, f) = [schema \in DocumentSchemas |-> schema]
    BY DEF Level
  <2>2. Reaches(document, 0, f)
    BY <2>1, Zenon DEF Reaches
  <2> QED
    BY <2>2, <1>2, <1>3
<1>4. CASE k # 0
  <2>1. k - 1 \in Nat /\ ~(k <= k - 1)
    BY <1>2, <1>4
  <2>2. k - 1 \notin S
    BY <2>1, <1>1
  <2>3. PICK g : Reaches(document, k - 1, g)
    BY <2>1, <2>2
  <2> DEFINE f == [levels \in 0..k |-> Level(document, levels, g)]
  <2>4. \A levels \in 0..k : Level(document, levels, f) = Level(document, levels, g)
    <3> SUFFICES ASSUME NEW levels \in 0..k PROVE Level(document, levels, f) = Level(document, levels, g)
      OBVIOUS
    <3>1. CASE levels = 0
      BY <3>1 DEF Level
    <3>2. CASE levels # 0
      <4>1. levels - 1 \in 0..(k - 1) /\ levels - 1 \in 0..k
        BY <3>2, <1>2
      <4>2. g[levels - 1] = Level(document, levels - 1, g)
        BY <4>1, <2>3, Zenon DEF Reaches
      <4>3. f[levels - 1] = g[levels - 1]
        BY <4>1, <4>2
      <4> HIDE DEF f
      <4> QED
        BY <4>3, Zenon DEF Level
    <3> QED
      BY <3>1, <3>2
  <2>5. Reaches(document, k, f)
    BY <2>4, Zenon DEF Reaches
  <2> QED
    BY <2>5, <1>2
<1> QED
  BY <1>3, <1>4

LEMMA ResolutionUnfolds ==
  ASSUME NEW document
  PROVE  Resolution(document) = [levels \in Nat |-> Level(document, levels, Resolution(document))]
<1> DEFINE Reaching(n) == CHOOSE f : Reaches(document, n, f)
           whole == [n \in Nat |-> Reaching(n)[n]]
<1>1. \A n \in Nat : Reaches(document, n, Reaching(n))
  BY SomethingReaches, Zenon
<1> HIDE DEF Reaching
<1>2. \A n \in Nat : whole[n] = Level(document, n, whole)
  <2> SUFFICES ASSUME NEW n \in Nat PROVE whole[n] = Level(document, n, whole)
    OBVIOUS
  <2>1. n \in 0..n
    OBVIOUS
  <2>2. whole[n] = Level(document, n, Reaching(n))
    BY <1>1, <2>1, Zenon DEF Reaches
  <2>3. CASE n = 0
    BY <2>2, <2>3 DEF Level
  <2>4. CASE n # 0
    <3>1. n - 1 \in Nat /\ n - 1 <= n /\ n - 1 \in 0..(n - 1)
      BY <2>4
    <3>2. Reaches(document, n - 1, Reaching(n - 1)) /\ Reaches(document, n, Reaching(n))
      BY <1>1, <3>1
    <3>3. Reaching(n - 1)[n - 1] = Reaching(n)[n - 1]
      BY <3>1, <3>2, ReachesAgree
    <3>4. whole[n - 1] = Reaching(n)[n - 1]
      BY <3>1, <3>3
    <3> HIDE DEF whole
    <3> QED
      BY <2>2, <3>4, Zenon DEF Level
  <2> QED
    BY <2>3, <2>4
<1>3. whole = [levels \in Nat |-> Level(document, levels, whole)]
  BY <1>2, Zenon
<1> HIDE DEF whole
<1> QED
  BY <1>3, Zenon DEF Resolution, Level
\* What the resolution makes of a schema, by its reference.
Within(below, schema) ==
  [k \in DOMAIN schema.subs |->
     IF k \in Walked THEN [n \in DOMAIN schema.subs[k] |-> below[schema.subs[k][n]]]
     ELSE schema.subs[k]]

LEMMA SchemaParts ==
  ASSUME NEW schema \in DocumentSchemas
  PROVE  /\ schema = [ref |-> schema.ref, plain |-> schema.plain, subs |-> schema.subs]
         /\ Dictionary(schema.plain) /\ Dictionary(schema.subs)
         /\ "required" \in DOMAIN schema.plain => schema.plain["required"] \in Seq(FieldNames)
         /\ \A k \in DOMAIN schema.subs :
              /\ Dictionary(schema.subs[k])
              /\ \A n \in DOMAIN schema.subs[k] : schema.subs[k][n] \in DocumentSchemas
  BY SchemasAssumption, Zenon

LEMMA SiblingParts ==
  ASSUME NEW schema \in DocumentSchemas
  PROVE  Siblings(schema) = [ref |-> <<>>, plain |-> schema.plain, subs |-> schema.subs]
<1> DEFINE r == schema.ref  p == schema.plain  s == schema.subs
<1>1. schema = [ref |-> r, plain |-> p, subs |-> s]
  BY SchemaParts
<1> HIDE DEF r, p, s
<1>2. Siblings(schema) = [ref |-> <<>>, plain |-> p, subs |-> s]
  BY <1>1 DEF Siblings
<1> QED
  BY <1>2 DEF p, s

LEMMA InsideParts ==
  ASSUME NEW below, NEW r, NEW p, NEW s, NEW schema, schema = [ref |-> r, plain |-> p, subs |-> s]
  PROVE  Inside(below, schema) = [ref |-> r, plain |-> p, subs |-> Within(below, schema)]
<1> DEFINE w == Within(below, schema)
<1>1. Inside(below, schema) = [schema EXCEPT !.subs = w]
  BY Zenon DEF Inside, Within
<1> HIDE DEF w
<1>2. Inside(below, schema) = [ref |-> r, plain |-> p, subs |-> w]
  BY <1>1
<1> QED
  BY <1>2 DEF w

LEMMA ResolvedPlainly ==
  ASSUME NEW document, NEW below, NEW schema \in DocumentSchemas, schema.ref = <<>>
  PROVE  Deeper(document, below, schema) =
           [ref |-> <<>>, plain |-> schema.plain, subs |-> Within(below, schema)]
<1>1. schema = [ref |-> <<>>, plain |-> schema.plain, subs |-> schema.subs]
  BY SchemaParts
<1>2. Inside(below, schema) = [ref |-> <<>>, plain |-> schema.plain, subs |-> Within(below, schema)]
  BY <1>1, InsideParts
<1> QED
  BY <1>2 DEF Deeper

LEMMA ResolvedByReference ==
  ASSUME NEW document, NEW below, NEW schema \in DocumentSchemas, schema.ref # <<>>,
         Siblings(schema) = EmptySchema
  PROVE  /\ Deeper(document, below, schema) = below[Target(document, schema)]
         /\ schema.plain = <<>> /\ schema.subs = <<>>
<1>1. [ref |-> <<>>, plain |-> schema.plain, subs |-> schema.subs] = [ref |-> <<>>, plain |-> <<>>, subs |-> <<>>]
  BY SiblingParts DEF EmptySchema
<1>2. schema.plain = <<>> /\ schema.subs = <<>>
  BY <1>1
<1> QED
  BY <1>2 DEF Deeper

LEMMA ResolvedWithSiblings ==
  ASSUME NEW document, NEW below, NEW schema \in DocumentSchemas, schema.ref # <<>>,
         Siblings(schema) # EmptySchema
  PROVE  LET b == below[Target(document, schema)] IN
         Deeper(document, below, schema) =
           [ref |-> b.ref, plain |-> Over(schema.plain, b.plain), subs |-> Over(Within(below, schema), b.subs)]
<1> DEFINE b == below[Target(document, schema)]
           i == Inside(below, Siblings(schema))
<1>1. Siblings(schema) = [ref |-> <<>>, plain |-> schema.plain, subs |-> schema.subs]
  BY SiblingParts
<1>2. i = [ref |-> <<>>, plain |-> schema.plain, subs |-> Within(below, Siblings(schema))]
  BY <1>1, InsideParts
<1>3. Siblings(schema).subs = schema.subs
  BY <1>1
<1>4. Within(below, Siblings(schema)) = Within(below, schema)
  BY <1>3, Zenon DEF Within
<1>5. i.plain = schema.plain /\ i.subs = Within(below, schema)
  BY <1>2, <1>4
<1>6. Deeper(document, below, schema) = Updated(b, i)
  BY Zenon DEF Deeper
<1> HIDE DEF b, i
<1>7. Deeper(document, below, schema) =
        [ref |-> b.ref, plain |-> Over(schema.plain, b.plain), subs |-> Over(Within(below, schema), b.subs)]
  BY <1>5, <1>6, Zenon DEF Updated
<1> QED
  BY <1>7, Zenon DEF b

LEMMA OneLevel ==
  ASSUME NEW document, NEW levels \in Nat, NEW schema \in DocumentSchemas
  PROVE  Resolution(document)[levels + 1][schema] =
           Deeper(document, Resolution(document)[levels], schema)
<1> DEFINE R == Resolution(document)
<1>1. R = [n \in Nat |-> Level(document, n, R)]
  BY ResolutionUnfolds
<1> HIDE DEF R
<1>2. levels + 1 \in Nat /\ levels + 1 # 0 /\ (levels + 1) - 1 = levels
  OBVIOUS
<1>3. R[levels + 1] = Level(document, levels + 1, R)
  BY <1>1, <1>2, Zenon
<1>4. Level(document, levels + 1, R)[schema] = Deeper(document, R[levels], schema)
  BY <1>2, Zenon DEF Level
<1> QED
  BY <1>3, <1>4 DEF R

LEMMA TargetIsASchema ==
  ASSUME NEW document, \A component \in DOMAIN document : document[component] \in DocumentSchemas,
         NEW schema
  PROVE  Target(document, schema) \in DocumentSchemas
<1>1. EmptySchema \in DocumentSchemas
  BY SchemasAssumption
<1> QED
  BY <1>1, Zenon DEF Target

-----------------------------------------------------------------------------
\* How what a reader looks at relates to the schema it has come to: to what
\* the resolution makes of that, at a level l no lower than the reader's, with
\* what stood beside the references gone before it.
Like(f, g, h) == f = Over(g, h) \/ (g = <<>> /\ f = h)

FoundResolved(document, k, found, source, levels) ==
  IF k \in Walked
  THEN /\ DOMAIN found = DOMAIN source
       /\ \A n \in DOMAIN source :
            \E m \in Nat : levels <= m + 1 /\ found[n] = Resolution(document)[m][source[n]]
  ELSE found = source

Standing(document, l, part, schema, beside, levels) ==
  LET r == Resolution(document)[l][schema] IN
  /\ part.ref = r.ref
  /\ Like(part.plain, beside.plain, r.plain)
  /\ DOMAIN part.subs = DOMAIN beside.subs \cup DOMAIN r.subs
  /\ \A k \in DOMAIN beside.subs : FoundResolved(document, k, part.subs[k], beside.subs[k], levels)
  /\ \A k \in DOMAIN r.subs \ DOMAIN beside.subs : part.subs[k] = r.subs[k]

Besides(beside) ==
  \A k \in DOMAIN beside.subs : \A n \in DOMAIN beside.subs[k] : beside.subs[k][n] \in DocumentSchemas

LEMMA NothingBeside ==
  /\ EmptySchema.plain = <<>> /\ EmptySchema.subs = <<>> /\ EmptySchema.ref = <<>>
  /\ DOMAIN EmptySchema.plain = {} /\ DOMAIN EmptySchema.subs = {} /\ Besides(EmptySchema)
  BY DEF EmptySchema, Besides

LEMMA StandsAtFirst ==
  ASSUME NEW document, NEW l \in Nat, NEW schema, NEW levels \in Nat
  PROVE  Standing(document, l, Resolution(document)[l][schema], schema, EmptySchema, levels)
<1> DEFINE r == Resolution(document)[l][schema]
<1>1. Standing(document, l, r, schema, EmptySchema, levels)
  <2> HIDE DEF r
  <2>1. Like(r.plain, EmptySchema.plain, r.plain)
    BY NothingBeside DEF Like
  <2> QED
    BY <2>1, NothingBeside, Zenon DEF Standing, r
<1> QED
  BY <1>1

LEMMA OverDomain ==
  ASSUME NEW f, NEW g
  PROVE  DOMAIN Over(f, g) = DOMAIN f \cup DOMAIN g
  BY DEF Over

LEMMA OverFirst ==
  ASSUME NEW f, NEW g, NEW k \in DOMAIN f
  PROVE  Over(f, g)[k] = f[k]
  BY DEF Over

LEMMA OverSecond ==
  ASSUME NEW f, NEW g, NEW k \in DOMAIN g, k \notin DOMAIN f
  PROVE  Over(f, g)[k] = g[k]
  BY DEF Over

LEMMA OverAgain ==
  ASSUME NEW f, NEW g, NEW h
  PROVE  Over(f, Over(g, h)) = Over(Over(f, g), h)
  BY DEF Over

LEMMA OverNothing ==
  ASSUME NEW f, NEW g, g = <<>>
  PROVE  /\ Over(g, f) = [k \in DOMAIN f |-> f[k]]
         /\ Over(f, g) = [k \in DOMAIN f |-> f[k]]
         /\ Over(Over(f, g), g) = Over(f, g)
<1>1. DOMAIN g = {}
  OBVIOUS
<1> QED
  BY <1>1 DEF Over

LEMMA UpdatedParts ==
  ASSUME NEW schema, NEW by
  PROVE  /\ Updated(schema, by).plain = Over(by.plain, schema.plain)
         /\ Updated(schema, by).subs = Over(by.subs, schema.subs)
  BY DEF Updated

LEMMA WithinParts ==
  ASSUME NEW below, NEW schema
  PROVE  /\ DOMAIN Within(below, schema) = DOMAIN schema.subs
         /\ \A k \in Walked \cap DOMAIN schema.subs :
              /\ DOMAIN Within(below, schema)[k] = DOMAIN schema.subs[k]
              /\ \A n \in DOMAIN schema.subs[k] : Within(below, schema)[k][n] = below[schema.subs[k][n]]
         /\ \A k \in DOMAIN schema.subs \ Walked : Within(below, schema)[k] = schema.subs[k]
  BY DEF Within

\* The parts of a schema after one level, and what holds of fewer levels.
LEMMA WithinIsResolved ==
  ASSUME NEW document, NEW l \in Nat, NEW levels \in Nat, levels <= l + 1, NEW schema,
         NEW k \in DOMAIN schema.subs
  PROVE  FoundResolved(document, k, Within(Resolution(document)[l], schema)[k], schema.subs[k], levels)
<1> DEFINE below == Resolution(document)[l]
           found == Within(below, schema)[k]
<1>0. /\ \A j \in Walked \cap DOMAIN schema.subs :
           /\ DOMAIN Within(below, schema)[j] = DOMAIN schema.subs[j]
           /\ \A n \in DOMAIN schema.subs[j] : Within(below, schema)[j][n] = below[schema.subs[j][n]]
      /\ \A j \in DOMAIN schema.subs \ Walked : Within(below, schema)[j] = schema.subs[j]
  <2> HIDE DEF below
  <2> QED
    BY WithinParts
<1>1. CASE k \in Walked
  <2>1. /\ DOMAIN found = DOMAIN schema.subs[k]
        /\ \A n \in DOMAIN schema.subs[k] : found[n] = Resolution(document)[l][schema.subs[k][n]]
    BY <1>0, <1>1, Zenon
  <2> HIDE DEF found
  <2>2. FoundResolved(document, k, found, schema.subs[k], levels)
    BY <1>1, <2>1, Zenon DEF FoundResolved
  <2> QED
    BY <2>2, Zenon DEF found
<1>2. CASE k \notin Walked
  <2>1. found = schema.subs[k]
    BY <1>0, <1>2, Zenon
  <2> QED
    BY <1>2, <2>1, Zenon DEF FoundResolved
<1> QED
  BY <1>1, <1>2

LEMMA ResolvedLess ==
  ASSUME NEW document, NEW k, NEW found, NEW source, NEW levels \in Nat,
         FoundResolved(document, k, found, source, levels)
  PROVE  FoundResolved(document, k, found, source, levels - 1)
<1>1. CASE k \in Walked
  <2>1. ASSUME NEW n \in DOMAIN source
        PROVE  \E m \in Nat : levels - 1 <= m + 1 /\ found[n] = Resolution(document)[m][source[n]]
    <3>1. PICK m \in Nat : levels <= m + 1 /\ found[n] = Resolution(document)[m][source[n]]
      BY <1>1, <2>1, Zenon DEF FoundResolved
    <3>2. levels - 1 <= m + 1
      BY <3>1
    <3> QED
      BY <3>1, <3>2, Zenon
  <2>2. DOMAIN found = DOMAIN source
    BY <1>1, Zenon DEF FoundResolved
  <2> QED
    BY <1>1, <2>1, <2>2, Zenon DEF FoundResolved
<1>2. CASE k \notin Walked
  BY <1>2, Zenon DEF FoundResolved
<1> QED
  BY <1>1, <1>2

\* A reader who follows a reference still looks at what the document means.
LEMMA StandsAfterReference ==
  ASSUME NEW document, \A component \in DOMAIN document : document[component] \in DocumentSchemas,
         NEW l \in Nat, NEW part, NEW schema \in DocumentSchemas, NEW beside, NEW levels \in Nat,
         levels > 0, levels <= l, schema.ref # <<>>, Besides(beside),
         Standing(document, l, part, schema, beside, levels)
  PROVE  /\ Besides(Updated(Siblings(schema), beside))
         /\ Standing(document, l - 1, part, Target(document, schema),
                     Updated(Siblings(schema), beside), levels - 1)
<1> DEFINE R == Resolution(document)
           b == R[l - 1][Target(document, schema)]
           by == Updated(Siblings(schema), beside)
           w == Within(R[l - 1], schema)
<1>1. l - 1 \in Nat /\ l = (l - 1) + 1 /\ levels - 1 \in Nat /\ levels <= (l - 1) + 1
  OBVIOUS
<1>2. R[l][schema] = Deeper(document, R[l - 1], schema)
  BY <1>1, OneLevel
<1>3. Siblings(schema).plain = schema.plain /\ Siblings(schema).subs = schema.subs
  BY SiblingParts
<1>4. by.plain = Over(beside.plain, schema.plain) /\ by.subs = Over(beside.subs, schema.subs)
  BY <1>3, UpdatedParts, Zenon
<1> HIDE DEF by
<1>5. Besides(by)
  <2>1. \A k \in DOMAIN schema.subs : \A n \in DOMAIN schema.subs[k] : schema.subs[k][n] \in DocumentSchemas
    BY SchemaParts
  <2>2. SUFFICES ASSUME NEW k \in DOMAIN by.subs, NEW n \in DOMAIN by.subs[k]
                 PROVE  by.subs[k][n] \in DocumentSchemas
    BY Zenon DEF Besides
  <2>3. DOMAIN by.subs = DOMAIN beside.subs \cup DOMAIN schema.subs
    BY <1>4, OverDomain, OverFirst, OverSecond
  <2>4. CASE k \in DOMAIN beside.subs
    <3>1. by.subs[k] = beside.subs[k]
      BY <2>4, <1>4, OverDomain, OverFirst, OverSecond
    <3> QED
      BY <3>1, <2>2, <2>4, Zenon DEF Besides
  <2>5. CASE k \notin DOMAIN beside.subs
    <3>1. k \in DOMAIN schema.subs /\ by.subs[k] = schema.subs[k]
      BY <2>2, <2>3, <2>5, <1>4, OverDomain, OverFirst, OverSecond
    <3> QED
      BY <3>1, <2>1, <2>2, Zenon
  <2> QED
    BY <2>4, <2>5
<1>6. /\ part.ref = R[l][schema].ref
      /\ Like(part.plain, beside.plain, R[l][schema].plain)
      /\ DOMAIN part.subs = DOMAIN beside.subs \cup DOMAIN R[l][schema].subs
      /\ \A k \in DOMAIN beside.subs : FoundResolved(document, k, part.subs[k], beside.subs[k], levels)
      /\ \A k \in DOMAIN R[l][schema].subs \ DOMAIN beside.subs : part.subs[k] = R[l][schema].subs[k]
  BY Zenon DEF Standing
<1>7. \A k \in DOMAIN beside.subs : FoundResolved(document, k, part.subs[k], by.subs[k], levels - 1)
  <2> SUFFICES ASSUME NEW k \in DOMAIN beside.subs
               PROVE  FoundResolved(document, k, part.subs[k], by.subs[k], levels - 1)
    BY Zenon
  <2>1. by.subs[k] = beside.subs[k]
    BY <1>4, OverDomain, OverFirst, OverSecond
  <2>2. FoundResolved(document, k, part.subs[k], beside.subs[k], levels)
    BY <1>6, Zenon
  <2>3. FoundResolved(document, k, part.subs[k], beside.subs[k], levels - 1)
    BY <2>2, ResolvedLess
  <2> QED
    BY <2>1, <2>3, Zenon
<1>8. CASE Siblings(schema) = EmptySchema
  <2>1. R[l][schema] = b /\ schema.plain = <<>> /\ schema.subs = <<>>
    BY <1>2, <1>8, ResolvedByReference
  <2>2. by.subs = [k \in DOMAIN beside.subs |-> beside.subs[k]] /\ by.plain = Over(beside.plain, schema.plain)
    BY <1>4, <2>1, OverNothing, Zenon
  <2>3. Like(part.plain, by.plain, b.plain)
    <3>1. CASE part.plain = Over(beside.plain, b.plain)
      <4>1. Over(Over(beside.plain, schema.plain), b.plain) = Over(beside.plain, Over(schema.plain, b.plain))
        BY OverAgain
      <4>2. Over(schema.plain, b.plain) = [k \in DOMAIN b.plain |-> b.plain[k]]
        BY <2>1, OverNothing, Zenon
      <4>3. Over(beside.plain, [k \in DOMAIN b.plain |-> b.plain[k]]) = Over(beside.plain, b.plain)
        <5> DEFINE p == b.plain
        <5> HIDE DEF p
        <5>1. Over(beside.plain, [k \in DOMAIN p |-> p[k]]) = Over(beside.plain, p)
          BY DEF Over
        <5> QED
          BY <5>1, Zenon DEF p
      <4> QED
        BY <3>1, <4>1, <4>2, <4>3, <1>4, Zenon DEF Like
    <3>2. CASE beside.plain = <<>> /\ part.plain = b.plain
      <4>1. by.plain = <<>>
        <5>1. by.plain = [k \in DOMAIN beside.plain |-> beside.plain[k]]
          BY <1>4, <2>1, OverNothing, Zenon
        <5>2. beside.plain = EmptySchema.plain /\ Dictionary(EmptySchema.plain)
          BY <3>2, SchemasAssumption, SchemaParts, NothingBeside, Zenon
        <5> QED
          BY <5>1, <5>2, <3>2, Zenon DEF Dictionary
      <4> QED
        BY <4>1, <3>2, Zenon DEF Like
    <3> QED
      BY <3>1, <3>2, <1>6, <2>1, Zenon DEF Like
  <2>4. DOMAIN by.subs = DOMAIN beside.subs
    BY <2>2, Zenon
  <2> QED
    BY <1>5, <1>6, <1>7, <2>1, <2>3, <2>4, Zenon DEF Standing, by
<1>9. CASE Siblings(schema) # EmptySchema
  <2>1. R[l][schema] = [ref |-> b.ref, plain |-> Over(schema.plain, b.plain), subs |-> Over(w, b.subs)]
    BY <1>2, <1>9, ResolvedWithSiblings
  <2> HIDE DEF b, w
  <2>2. R[l][schema].ref = b.ref /\ R[l][schema].plain = Over(schema.plain, b.plain)
        /\ R[l][schema].subs = Over(w, b.subs)
    BY <2>1
  <2>3. Like(part.plain, by.plain, b.plain)
    <3>1. CASE part.plain = Over(beside.plain, Over(schema.plain, b.plain))
      BY <3>1, <1>4, OverAgain DEF Like
    <3>2. CASE beside.plain = <<>> /\ part.plain = Over(schema.plain, b.plain)
      <4>1. Over(beside.plain, part.plain) = [k \in DOMAIN part.plain |-> part.plain[k]]
        BY <3>2, OverNothing, Zenon
      <4>2. part.plain = [k \in DOMAIN part.plain |-> part.plain[k]]
        <5>1. Over(schema.plain, b.plain) = [k \in DOMAIN Over(schema.plain, b.plain) |-> Over(schema.plain, b.plain)[k]]
          BY DEF Over
        <5> QED
          BY <5>1, <3>2, Zenon
      <4>3. part.plain = Over(beside.plain, Over(schema.plain, b.plain))
        BY <4>1, <4>2, <3>2, Zenon
      <4> QED
        BY <4>3, <1>4, OverAgain DEF Like
    <3> QED
      BY <3>1, <3>2, <1>6, <2>2, Zenon DEF Like
  <2>4. DOMAIN w = DOMAIN schema.subs
    BY WithinParts DEF w
  <2>5. DOMAIN by.subs = DOMAIN beside.subs \cup DOMAIN schema.subs
        /\ DOMAIN R[l][schema].subs = DOMAIN schema.subs \cup DOMAIN b.subs
    <3>1. DOMAIN by.subs = DOMAIN beside.subs \cup DOMAIN schema.subs
      BY <1>4, OverDomain
    <3>2. DOMAIN R[l][schema].subs = DOMAIN w \cup DOMAIN b.subs
      BY <2>2, OverDomain
    <3> QED
      BY <2>4, <3>1, <3>2, Zenon
  <2>6. DOMAIN part.subs = DOMAIN by.subs \cup DOMAIN b.subs
    <3>1. DOMAIN part.subs = DOMAIN beside.subs \cup (DOMAIN schema.subs \cup DOMAIN b.subs)
      BY <1>6, <2>5, Zenon
    <3> QED
      BY <3>1, <2>5, Zenon
  <2>7. ASSUME NEW k \in DOMAIN by.subs
        PROVE  FoundResolved(document, k, part.subs[k], by.subs[k], levels - 1)
    <3>1. CASE k \in DOMAIN beside.subs
      BY <3>1, <1>7, Zenon
    <3>2. CASE k \notin DOMAIN beside.subs
      <4>1. k \in DOMAIN schema.subs /\ by.subs[k] = schema.subs[k]
        BY <2>5, <2>7, <3>2, <1>4, OverDomain, OverFirst, OverSecond
      <4>2. part.subs[k] = w[k]
        <5>1. k \in DOMAIN R[l][schema].subs \ DOMAIN beside.subs
          BY <4>1, <2>5, <3>2, Zenon
        <5>2. part.subs[k] = Over(w, b.subs)[k]
          BY <5>1, <1>6, <2>2, Zenon
        <5> QED
          BY <5>2, <4>1, <2>4, OverDomain, OverFirst, OverSecond
      <4>3. FoundResolved(document, k, w[k], schema.subs[k], levels - 1)
        <5>1. levels - 1 \in Nat /\ levels - 1 <= (l - 1) + 1
          OBVIOUS
        <5> QED
          BY <1>1, <4>1, <5>1, WithinIsResolved DEF w
      <4> QED
        BY <4>1, <4>2, <4>3, Zenon
    <3> QED
      BY <3>1, <3>2
  <2>8. ASSUME NEW k \in DOMAIN b.subs \ DOMAIN by.subs PROVE part.subs[k] = b.subs[k]
    <3>1. k \notin DOMAIN schema.subs /\ k \notin DOMAIN beside.subs /\ k \in DOMAIN R[l][schema].subs
      BY <2>5, Zenon
    <3>2. part.subs[k] = Over(w, b.subs)[k]
      BY <3>1, <1>6, <2>2, Zenon
    <3> QED
      BY <3>1, <3>2, <2>4, OverDomain, OverFirst, OverSecond
  <2> QED
    BY <1>5, <1>6, <2>2, <2>3, <2>6, <2>7, <2>8, Zenon DEF Standing, b, by
<1> QED
  BY <1>8, <1>9

\* A schema without reference, and the parts of it.
Shows(document, part, meaning, levels) ==
  /\ part.ref = <<>> /\ part.plain = meaning.plain
  /\ DOMAIN part.subs = DOMAIN meaning.subs
  /\ Besides(meaning)
  /\ \A k \in DOMAIN meaning.subs : FoundResolved(document, k, part.subs[k], meaning.subs[k], levels)

LEMMA StandsPlainly ==
  ASSUME NEW document, NEW l \in Nat, NEW part, NEW schema \in DocumentSchemas, NEW beside,
         NEW levels \in Nat, levels > 0, levels <= l, schema.ref = <<>>, Besides(beside),
         Standing(document, l, part, schema, beside, levels)
  PROVE  Shows(document, part, Updated(schema, beside), levels)
<1> DEFINE R == Resolution(document)
           w == Within(R[l - 1], schema)
           meaning == Updated(schema, beside)
<1>1. l - 1 \in Nat /\ l = (l - 1) + 1 /\ levels <= (l - 1) + 1
  OBVIOUS
<1>2. R[l][schema] = [ref |-> <<>>, plain |-> schema.plain, subs |-> w]
  <2>1. R[l][schema] = Deeper(document, R[l - 1], schema)
    BY <1>1, OneLevel
  <2> QED
    BY <2>1, ResolvedPlainly
<1>3. meaning.plain = Over(beside.plain, schema.plain) /\ meaning.subs = Over(beside.subs, schema.subs)
  BY UpdatedParts, Zenon
<1> HIDE DEF w, meaning
<1>4. R[l][schema].ref = <<>> /\ R[l][schema].plain = schema.plain /\ R[l][schema].subs = w
  BY <1>2
<1>5. /\ part.ref = <<>>
      /\ Like(part.plain, beside.plain, schema.plain)
      /\ DOMAIN part.subs = DOMAIN beside.subs \cup DOMAIN w
      /\ \A k \in DOMAIN beside.subs : FoundResolved(document, k, part.subs[k], beside.subs[k], levels)
      /\ \A k \in DOMAIN w \ DOMAIN beside.subs : part.subs[k] = w[k]
  BY <1>4, Zenon DEF Standing
<1>6. part.plain = meaning.plain
  <2>1. CASE beside.plain = <<>> /\ part.plain = schema.plain
    <3>1. Over(beside.plain, schema.plain) = [k \in DOMAIN schema.plain |-> schema.plain[k]]
      BY <2>1, OverNothing
    <3>2. schema.plain = [k \in DOMAIN schema.plain |-> schema.plain[k]]
      BY SchemaParts, Zenon DEF Dictionary
    <3> QED
      BY <2>1, <3>1, <3>2, <1>3, Zenon
  <2> QED
    BY <2>1, <1>3, <1>5, Zenon DEF Like
<1>7. DOMAIN w = DOMAIN schema.subs
  BY WithinParts DEF w
<1>8. DOMAIN meaning.subs = DOMAIN beside.subs \cup DOMAIN schema.subs
  BY <1>3, OverDomain
<1>9. ASSUME NEW k \in DOMAIN meaning.subs
      PROVE  /\ \A n \in DOMAIN meaning.subs[k] : meaning.subs[k][n] \in DocumentSchemas
             /\ FoundResolved(document, k, part.subs[k], meaning.subs[k], levels)
  <2>1. CASE k \in DOMAIN beside.subs
    <3>1. meaning.subs[k] = beside.subs[k]
      BY <2>1, <1>3, OverDomain, OverFirst, OverSecond
    <3>2. FoundResolved(document, k, part.subs[k], beside.subs[k], levels)
      BY <2>1, <1>5, Zenon
    <3>3. \A n \in DOMAIN beside.subs[k] : beside.subs[k][n] \in DocumentSchemas
      BY <2>1, Zenon DEF Besides
    <3> QED
      BY <3>1, <3>2, <3>3, Zenon
  <2>2. CASE k \notin DOMAIN beside.subs
    <3>1. k \in DOMAIN schema.subs /\ meaning.subs[k] = schema.subs[k]
      BY <2>2, <1>3, <1>8, <1>9, OverDomain, OverFirst, OverSecond
    <3>2. part.subs[k] = w[k]
      BY <3>1, <2>2, <1>5, <1>7, Zenon
    <3>3. \A n \in DOMAIN schema.subs[k] : schema.subs[k][n] \in DocumentSchemas
      BY <3>1, SchemaParts, Zenon
    <3>4. FoundResolved(document, k, w[k], schema.subs[k], levels)
      BY <1>1, <3>1, WithinIsResolved DEF w
    <3> QED
      BY <3>1, <3>2, <3>3, <3>4, Zenon
  <2> QED
    BY <2>1, <2>2
<1> QED
  BY <1>5, <1>6, <1>7, <1>8, <1>9, Zenon DEF meaning, Shows, Besides

\* A reader starts where the result stands for the schema it was made of.
LEMMA StartsReading ==
  ASSUME NEW document, NEW schema \in DocumentSchemas, ~AtRoot(schema)
  PROVE  \E l \in Nat :
           /\ MaxDepth + 1 <= l
           /\ Standing(document, l, DeepResolve(document, ResolveSchema(document, schema)), schema,
                       EmptySchema, MaxDepth + 1)
<1> DEFINE R == Resolution(document)
<1>1. MaxDepth + 1 \in Nat /\ (MaxDepth + 1) + 1 \in Nat
      /\ MaxDepth + 1 <= MaxDepth + 1 /\ MaxDepth + 1 <= (MaxDepth + 1) + 1
  BY SchemasAssumption
<1>2. CASE schema.ref = <<>>
  <2>1. DeepResolve(document, ResolveSchema(document, schema)) = R[MaxDepth + 1][schema]
    BY <1>2, Zenon DEF DeepResolve, ResolveSchema
  <2> QED
    BY <1>1, <2>1, StandsAtFirst
<1>3. CASE schema.ref # <<>>
  <2>1. DeepResolve(document, ResolveSchema(document, schema)) = R[MaxDepth + 1][Target(document, schema)]
    BY <1>3, Zenon DEF DeepResolve, ResolveSchema
  <2>2. Siblings(schema) = EmptySchema
    BY <1>3, Zenon DEF AtRoot
  <2>3. R[(MaxDepth + 1) + 1][schema] = R[MaxDepth + 1][Target(document, schema)]
    <3>1. R[(MaxDepth + 1) + 1][schema] = Deeper(document, R[MaxDepth + 1], schema)
      BY <1>1, OneLevel
    <3> QED
      BY <3>1, <2>2, <1>3, ResolvedByReference
  <2>4. Standing(document, (MaxDepth + 1) + 1, R[(MaxDepth + 1) + 1][schema], schema, EmptySchema, MaxDepth + 1)
    BY <1>1, StandsAtFirst
  <2> QED
    BY <1>1, <2>1, <2>3, <2>4, Zenon
<1> QED
  BY <1>2, <1>3

-----------------------------------------------------------------------------
\* The parameters taken so far, and where a field comes from.
TakenOf(e, upto) == {i \in 1..upto : e.parameters[i].in \in {"query", "path"}}

OfParameter(e, upto, n, schema) ==
  \E i \in TakenOf(e, upto) :
    /\ e.parameters[i].name = n
    /\ schema = ResolveSchema(e.document, e.parameters[i].schema)
    /\ \A j \in TakenOf(e, upto) : j > i => e.parameters[j].name # n

\* The fields gathered before they are resolved: own are those of the body.
FieldsOf(e, upto, own, f) ==
  /\ DOMAIN f = DOMAIN own \cup {e.parameters[i].name : i \in TakenOf(e, upto)}
  /\ \A n \in DOMAIN own : f[n] = own[n]
  /\ \A n \in DOMAIN f \ DOMAIN own : OfParameter(e, upto, n, f[n])

MandatoryOf(e, upto, names, list) ==
  ToSet(list) = names \cup {e.parameters[i].name : i \in {j \in TakenOf(e, upto) : e.parameters[j].required}}

RequiredByBody == Keyword(Object, "required")

ExtractionTypes ==
  /\ extraction \in Extractions
  /\ extracting \in {"parameters", "required", "responses", "done", "reading"}
  /\ turn \in Nat /\ turn > 0 /\ mandatory \in Seq(FieldNames)
  /\ extracting \in {"parameters", "required"} => extraction.of = "input"
  /\ extracting = "responses" => extraction.of # "input"
  /\ extracting = "parameters" => turn <= Len(extraction.parameters) + 1
  /\ extracting = "required" => turn <= Len(RequiredByBody) + 1

FieldsGathered ==
  /\ extracting = "parameters" => FieldsOf(extraction, turn - 1, <<>>, fields)
  /\ extracting = "required" => FieldsOf(extraction, Len(extraction.parameters), Properties(Object), fields)
  /\ extracting \in {"done", "reading"} /\ extraction.of = "input" =>
       \E f : /\ FieldsOf(extraction, Len(extraction.parameters), Properties(Object), f)
              /\ fields = [n \in DOMAIN f |-> DeepResolve(extraction.document, f[n])]

MandatoryGathered ==
  /\ extracting = "parameters" => MandatoryOf(extraction, turn - 1, {}, mandatory)
  /\ extracting = "required" =>
       MandatoryOf(extraction, Len(extraction.parameters), {RequiredByBody[i] : i \in 1..(turn - 1)}, mandatory)
  /\ extracting \in {"done", "reading"} /\ extraction.of = "input" =>
       MandatoryOf(extraction, Len(extraction.parameters), ToSet(RequiredByBody), mandatory)

OutputMade ==
  extracting \in {"done", "reading"} /\ extraction.of = "output" /\ Good # {} =>
    output = DeepResolve(extraction.document,
                         ResolveSchema(extraction.document, extraction.responses[Min(Good)][1]))

ReaderStands ==
  extracting = "reading" =>
    /\ meant \in DocumentSchemas /\ left \in Nat /\ Besides(said)
    /\ \E l \in Nat : left <= l /\ Standing(extraction.document, l, looked, meant, said, left)

ExtractionInv ==
  ExtractionTypes /\ FieldsGathered /\ MandatoryGathered /\ OutputMade /\ ReaderStands

-----------------------------------------------------------------------------
LEMMA InputTypes ==
  ASSUME NEW e \in Extractions, e.of = "input"
  PROVE  /\ e.parameters \in Seq(Parameters) /\ Len(e.parameters) \in Nat
         /\ DOMAIN e.parameters = 1..Len(e.parameters)
         /\ \A i \in 1..Len(e.parameters) : e.parameters[i].name \in FieldNames
                                            /\ e.parameters[i].schema \in DocumentSchemas
         /\ e.body \in Optional(DocumentSchemas)
<1>1. e.parameters \in Seq(Parameters) /\ e.body \in Optional(DocumentSchemas)
  BY ExtractionsAssumption, Zenon
<1>2. \A p \in Parameters : p.name \in FieldNames /\ p.schema \in DocumentSchemas
  BY DEF Parameters
<1> HIDE DEF Parameters
<1> QED
  BY <1>1, <1>2

LEMMA DocumentTypes ==
  ASSUME NEW e \in Extractions
  PROVE  \A component \in DOMAIN e.document : e.document[component] \in DocumentSchemas
  BY ExtractionsAssumption, Zenon

LEMMA ObjectTypes ==
  ASSUME extraction \in Extractions, extraction.of = "input"
  PROVE  /\ Object \in DocumentSchemas
         /\ RequiredByBody \in Seq(FieldNames)
         /\ \A n \in DOMAIN Properties(Object) : Properties(Object)[n] \in DocumentSchemas
<1>1. Object \in DocumentSchemas
  <2>1. EmptySchema \in DocumentSchemas
    BY SchemasAssumption
  <2>2. CASE extraction.body = <<>>
    BY <2>1, <2>2, Zenon DEF Object
  <2>3. CASE extraction.body # <<>>
    <3>1. PICK s \in DocumentSchemas : extraction.body = <<s>>
      BY <2>3, InputTypes, Zenon DEF Optional
    <3>2. extraction.body[1] \in DocumentSchemas
      BY <3>1
    <3>3. ResolveSchema(extraction.document, extraction.body[1]) \in DocumentSchemas
      BY <3>2, DocumentTypes, TargetIsASchema, Zenon DEF ResolveSchema
    <3> QED
      BY <2>3, <3>3, Zenon DEF Object
  <2> QED
    BY <2>2, <2>3
<1>2. RequiredByBody \in Seq(FieldNames)
  <2>1. <<>> \in Seq(FieldNames)
    OBVIOUS
  <2>2. "required" \in DOMAIN Object.plain => Object.plain["required"] \in Seq(FieldNames)
    BY <1>1, SchemaParts
  <2> QED
    BY <2>1, <2>2, Zenon DEF RequiredByBody, Keyword
<1>3. \A n \in DOMAIN Properties(Object) : Properties(Object)[n] \in DocumentSchemas
  <2>1. CASE "properties" \in DOMAIN Object.subs
    <3>1. Properties(Object) = Object.subs["properties"]
      BY <2>1, Zenon DEF Properties
    <3>2. \A n \in DOMAIN Object.subs["properties"] : Object.subs["properties"][n] \in DocumentSchemas
      BY <1>1, <2>1, SchemaParts
    <3> QED
      BY <3>1, <3>2, Zenon
  <2>2. CASE "properties" \notin DOMAIN Object.subs
    <3>1. Properties(Object) = <<>>
      BY <2>2, Zenon DEF Properties
    <3> QED
      BY <3>1
  <2> QED
    BY <2>1, <2>2
<1> QED
  BY <1>1, <1>2, <1>3

\* The body is looked at where it is spelt out.
LEMMA SpeltIsTheObject ==
  ASSUME extraction \in Extractions, extraction.of = "input", NEW object, Spelt(object)
  PROVE  object = Object
<1>1. object.ref = <<>>
  BY Zenon DEF Spelt
<1>2. CASE extraction.body = <<>> /\ object = EmptySchema
  BY <1>2, Zenon DEF Object
<1>3. CASE extraction.body = <<object>>
  <2>1. extraction.body # <<>> /\ extraction.body[1] = object
    BY <1>3
  <2> QED
    BY <1>1, <2>1, Zenon DEF Object, ResolveSchema
<1>4. CASE \E component \in DOMAIN extraction.document :
             /\ extraction.body = <<[EmptySchema EXCEPT !.ref = <<component>>]>>
             /\ object = extraction.document[component]
  <2>1. PICK component \in DOMAIN extraction.document :
          /\ extraction.body = <<[EmptySchema EXCEPT !.ref = <<component>>]>>
          /\ object = extraction.document[component]
    BY <1>4
  <2> DEFINE reference == [EmptySchema EXCEPT !.ref = <<component>>]
  <2>2. reference.ref = <<component>>
    BY DEF EmptySchema
  <2> HIDE DEF reference
  <2>3. extraction.body = <<reference>>
    BY <2>1, Zenon DEF reference
  <2>4. extraction.body # <<>> /\ extraction.body[1] = reference /\ reference.ref # <<>>
        /\ reference.ref[1] = component
    BY <2>2, <2>3
  <2>5. Object = Target(extraction.document, reference)
    BY <2>4, Zenon DEF Object, ResolveSchema
  <2>6. Target(extraction.document, reference) = extraction.document[component]
    BY <2>1, <2>4, Zenon DEF Target
  <2> QED
    BY <2>1, <2>5, <2>6
<1> QED
  BY <1>2, <1>3, <1>4, Zenon DEF Spelt

LEMMA OneMoreTaken ==
  ASSUME NEW e, NEW t \in Nat, t > 0
  PROVE  /\ e.parameters[t].in \in {"query", "path"} => TakenOf(e, t) = TakenOf(e, t - 1) \cup {t}
         /\ e.parameters[t].in \notin {"query", "path"} => TakenOf(e, t) = TakenOf(e, t - 1)
         /\ \A i \in TakenOf(e, t - 1) : i \in Nat /\ i < t
<1>1. 1..t = 1..(t - 1) \cup {t} /\ t \notin 1..(t - 1)
  OBVIOUS
<1>2. \A i \in 1..(t - 1) : i \in Nat /\ i < t
  OBVIOUS
<1>3. \A i \in TakenOf(e, t - 1) : i \in Nat /\ i < t
  BY <1>2, Zenon DEF TakenOf
<1>4. ASSUME e.parameters[t].in \in {"query", "path"} PROVE TakenOf(e, t) = TakenOf(e, t - 1) \cup {t}
  BY <1>1, <1>4, Zenon DEF TakenOf
<1>5. ASSUME e.parameters[t].in \notin {"query", "path"} PROVE TakenOf(e, t) = TakenOf(e, t - 1)
  BY <1>1, <1>5, Zenon DEF TakenOf
<1> QED
  BY <1>3, <1>4, <1>5, Zenon

LEMMA FieldTaken ==
  ASSUME NEW e, NEW t \in Nat, t > 0, e.parameters[t].in \in {"query", "path"},
         NEW f, FieldsOf(e, t - 1, <<>>, f)
  PROVE  FieldsOf(e, t, <<>>,
           Over([n \in {e.parameters[t].name} |-> ResolveSchema(e.document, e.parameters[t].schema)], f))
<1> DEFINE new == e.parameters[t].name
           first == [n \in {new} |-> ResolveSchema(e.document, e.parameters[t].schema)]
           g == Over(first, f)
<1>1. TakenOf(e, t) = TakenOf(e, t - 1) \cup {t} /\ \A i \in TakenOf(e, t - 1) : i \in Nat /\ i < t
  BY OneMoreTaken
<1>2. DOMAIN <<>> = {}
  OBVIOUS
<1>3. DOMAIN f = {e.parameters[i].name : i \in TakenOf(e, t - 1)}
  BY <1>2, Zenon DEF FieldsOf
<1>4. DOMAIN first = {new} /\ first[new] = ResolveSchema(e.document, e.parameters[t].schema)
  OBVIOUS
<1> HIDE DEF first
<1>5. DOMAIN g = {new} \cup DOMAIN f
  BY <1>4, OverDomain
<1>6. g[new] = first[new]
  BY <1>4, OverFirst
<1>7. \A n \in DOMAIN f \ {new} : g[n] = f[n]
  BY <1>4, OverSecond
<1> HIDE DEF g
<1>8. DOMAIN g = DOMAIN <<>> \cup {e.parameters[i].name : i \in TakenOf(e, t)}
  BY <1>1, <1>2, <1>3, <1>5, Zenon
<1>9. ASSUME NEW n \in DOMAIN g PROVE OfParameter(e, t, n, g[n])
  <2>1. CASE n = new
    <3>1. t \in TakenOf(e, t)
      BY <1>1, Zenon
    <3>2. \A j \in TakenOf(e, t) : j > t => e.parameters[j].name # n
      <4> SUFFICES ASSUME NEW j \in TakenOf(e, t), j > t PROVE FALSE
        BY Zenon
      <4>1. j = t \/ (j \in Nat /\ j < t)
        BY <1>1, Zenon
      <4> QED
        BY <4>1
    <3> QED
      BY <2>1, <3>1, <3>2, <1>4, <1>6, Zenon DEF OfParameter
  <2>2. CASE n # new
    <3>1. n \in DOMAIN f /\ g[n] = f[n] /\ n \notin DOMAIN <<>>
      BY <2>2, <1>9, <1>2, <1>5, <1>7, Zenon
    <3>2. OfParameter(e, t - 1, n, f[n])
      BY <3>1, Zenon DEF FieldsOf
    <3>3. PICK i \in TakenOf(e, t - 1) :
            /\ e.parameters[i].name = n
            /\ f[n] = ResolveSchema(e.document, e.parameters[i].schema)
            /\ \A j \in TakenOf(e, t - 1) : j > i => e.parameters[j].name # n
      BY <3>2, Zenon DEF OfParameter
    <3>4. \A j \in TakenOf(e, t) : j > i => e.parameters[j].name # n
      BY <1>1, <3>3, <2>2, Zenon
    <3> QED
      BY <1>1, <3>1, <3>3, <3>4, Zenon DEF OfParameter
  <2> QED
    BY <2>1, <2>2
<1>10. FieldsOf(e, t, <<>>, g)
  BY <1>2, <1>8, <1>9, Zenon DEF FieldsOf
<1> QED
  BY <1>10, Zenon DEF g, first

LEMMA BodyTaken ==
  ASSUME NEW e, NEW upto, NEW f, NEW own, FieldsOf(e, upto, <<>>, f)
  PROVE  FieldsOf(e, upto, own, Over(own, f))
<1> DEFINE g == Over(own, f)
<1>1. DOMAIN <<>> = {}
  OBVIOUS
<1>2. DOMAIN g = DOMAIN own \cup DOMAIN f
  BY OverDomain
<1>3. \A n \in DOMAIN own : g[n] = own[n]
  BY OverFirst
<1>4. \A n \in DOMAIN f \ DOMAIN own : g[n] = f[n]
  BY OverSecond
<1> HIDE DEF g
<1>5. FieldsOf(e, upto, own, g)
  BY <1>1, <1>2, <1>3, <1>4, Zenon DEF FieldsOf
<1> QED
  BY <1>5 DEF g

LEMMA SetOfAppended ==
  ASSUME NEW S, NEW s \in Seq(S), NEW x \in S
  PROVE  ToSet(Append(s, x)) = ToSet(s) \cup {x}
<1>1. DOMAIN s = 1..Len(s) /\ DOMAIN Append(s, x) = 1..(Len(s) + 1) /\ Len(s) \in Nat
  OBVIOUS
<1>2. \A i \in 1..Len(s) : Append(s, x)[i] = s[i]
  OBVIOUS
<1>3. Append(s, x)[Len(s) + 1] = x
  OBVIOUS
<1>4. 1..(Len(s) + 1) = 1..Len(s) \cup {Len(s) + 1}
  BY <1>1
<1> QED
  BY <1>1, <1>2, <1>3, <1>4, Zenon DEF ToSet

LEMMA SameCall ==
  ASSUME extraction' = extraction
  PROVE  Object' = Object /\ Good' = Good /\ RequiredByBody' = RequiredByBody
<1>1. Object' = Object
  BY Zenon DEF Object
<1> QED
  BY <1>1, Zenon DEF Good, RequiredByBody

LEMMA InitExtractionInv == InitExtracting => ExtractionInv
<1> SUFFICES ASSUME InitExtracting PROVE ExtractionInv
  OBVIOUS
<1>1. /\ extraction \in Extractions /\ turn = 1 /\ fields = <<>> /\ mandatory = <<>>
      /\ extracting = IF extraction.of = "input" THEN "parameters" ELSE "responses"
  BY Zenon DEF InitExtracting
<1>2. extraction.of = "input" => Len(extraction.parameters) \in Nat
  BY <1>1, InputTypes
<1>3. ExtractionTypes
  BY <1>1, <1>2 DEF ExtractionTypes
<1>4. TakenOf(extraction, 0) = {}
  <2>1. 1..0 = {}
    OBVIOUS
  <2> QED
    BY <2>1, Zenon DEF TakenOf
<1>5. turn - 1 = 0 /\ DOMAIN <<>> = {}
  BY <1>1
<1>6. FieldsOf(extraction, 0, <<>>, <<>>)
  BY <1>4, <1>5, Zenon DEF FieldsOf
<1>7. MandatoryOf(extraction, 0, {}, <<>>)
  <2>1. ToSet(<<>>) = {}
    BY <1>5, Zenon DEF ToSet
  <2> QED
    BY <1>4, <2>1, Zenon DEF MandatoryOf
<1>8. extracting \in {"parameters", "responses"}
  BY <1>1, Zenon
<1>9. extracting # "required" /\ extracting # "done" /\ extracting # "reading"
  BY <1>8
<1> QED
  BY <1>1, <1>3, <1>5, <1>6, <1>7, <1>9, Zenon
  DEF ExtractionInv, FieldsGathered, MandatoryGathered, OutputMade, ReaderStands

LEMMA TakeParameterKeeps == ExtractionInv /\ TakeParameter => ExtractionInv'
<1> SUFFICES ASSUME ExtractionInv, TakeParameter PROVE ExtractionInv'
  OBVIOUS
<1> DEFINE p == extraction.parameters[turn]
<1>1. /\ ExtractionTypes /\ FieldsOf(extraction, turn - 1, <<>>, fields)
      /\ MandatoryOf(extraction, turn - 1, {}, mandatory)
      /\ extracting = "parameters" /\ turn <= Len(extraction.parameters) /\ Taken(turn)
      /\ fields' = Over([n \in {p.name} |-> ResolveSchema(extraction.document, p.schema)], fields)
      /\ mandatory' = IF p.required THEN Append(mandatory, p.name) ELSE mandatory
      /\ turn' = turn + 1 /\ extraction' = extraction /\ extracting' = extracting
  BY Zenon DEF ExtractionInv, FieldsGathered, MandatoryGathered, TakeParameter
<1>2. /\ extraction \in Extractions /\ extraction.of = "input" /\ turn \in Nat /\ turn > 0
      /\ mandatory \in Seq(FieldNames)
  BY <1>1, Zenon DEF ExtractionTypes
<1>3. Len(extraction.parameters) \in Nat /\ p.name \in FieldNames
  BY <1>1, <1>2, InputTypes
<1>4. turn' - 1 = turn /\ turn' \in Nat /\ turn' > 0 /\ turn' <= Len(extraction.parameters) + 1
  BY <1>1, <1>2, <1>3
<1>5. p.in \in {"query", "path"}
  BY <1>1, Zenon DEF Taken
<1>6. FieldsOf(extraction, turn, <<>>, fields')
  BY <1>1, <1>2, <1>5, FieldTaken
<1>7. TakenOf(extraction, turn) = TakenOf(extraction, turn - 1) \cup {turn}
  BY <1>2, <1>5, OneMoreTaken
<1>8. MandatoryOf(extraction, turn, {}, mandatory')
  <2>1. ToSet(Append(mandatory, p.name)) = ToSet(mandatory) \cup {p.name}
    BY <1>2, <1>3, SetOfAppended
  <2> QED
    BY <1>1, <1>7, <2>1, Zenon DEF MandatoryOf
<1>9. mandatory' \in Seq(FieldNames)
  BY <1>1, <1>2, <1>3
<1>10. ExtractionTypes'
  BY <1>1, <1>2, <1>4, <1>9 DEF ExtractionTypes
<1> QED
  BY <1>1, <1>4, <1>6, <1>8, <1>10
  DEF ExtractionInv, FieldsGathered, MandatoryGathered, OutputMade, ReaderStands

LEMMA PassParameterKeeps == ExtractionInv /\ PassParameter => ExtractionInv'
<1> SUFFICES ASSUME ExtractionInv, PassParameter PROVE ExtractionInv'
  OBVIOUS
<1>1. /\ ExtractionTypes /\ FieldsOf(extraction, turn - 1, <<>>, fields)
      /\ MandatoryOf(extraction, turn - 1, {}, mandatory)
      /\ extracting = "parameters" /\ turn <= Len(extraction.parameters) /\ ~Taken(turn)
      /\ fields' = fields /\ mandatory' = mandatory
      /\ turn' = turn + 1 /\ extraction' = extraction /\ extracting' = extracting
  BY Zenon DEF ExtractionInv, FieldsGathered, MandatoryGathered, PassParameter, results
<1>2. /\ extraction \in Extractions /\ extraction.of = "input" /\ turn \in Nat /\ turn > 0
      /\ mandatory \in Seq(FieldNames)
  BY <1>1, Zenon DEF ExtractionTypes
<1>3. Len(extraction.parameters) \in Nat
  BY <1>2, InputTypes
<1>4. turn' - 1 = turn /\ turn' \in Nat /\ turn' > 0 /\ turn' <= Len(extraction.parameters) + 1
  BY <1>1, <1>2, <1>3
<1>5. extraction.parameters[turn].in \notin {"query", "path"}
  BY <1>1, Zenon DEF Taken
<1>6. TakenOf(extraction, turn) = TakenOf(extraction, turn - 1)
  BY <1>2, <1>5, OneMoreTaken
<1>7. FieldsOf(extraction, turn, <<>>, fields)
  BY <1>1, <1>6, Zenon DEF FieldsOf, OfParameter
<1>8. MandatoryOf(extraction, turn, {}, mandatory)
  BY <1>1, <1>6, Zenon DEF MandatoryOf
<1>9. ExtractionTypes'
  BY <1>1, <1>2, <1>4 DEF ExtractionTypes
<1> QED
  BY <1>1, <1>4, <1>7, <1>8, <1>9
  DEF ExtractionInv, FieldsGathered, MandatoryGathered, OutputMade, ReaderStands

LEMMA TakeBodyKeeps == ExtractionInv /\ TakeBody => ExtractionInv'
<1> SUFFICES ASSUME ExtractionInv, TakeBody PROVE ExtractionInv'
  OBVIOUS
<1>1. /\ ExtractionTypes /\ FieldsOf(extraction, turn - 1, <<>>, fields)
      /\ MandatoryOf(extraction, turn - 1, {}, mandatory)
      /\ extracting = "parameters" /\ turn > Len(extraction.parameters)
      /\ fields' = Over(Properties(Object), fields) /\ mandatory' = mandatory
      /\ turn' = 1 /\ extraction' = extraction /\ extracting' = "required"
  BY Zenon DEF ExtractionInv, FieldsGathered, MandatoryGathered, TakeBody
<1>2. /\ extraction \in Extractions /\ extraction.of = "input" /\ turn \in Nat /\ turn > 0
      /\ mandatory \in Seq(FieldNames) /\ turn <= Len(extraction.parameters) + 1
  BY <1>1, Zenon DEF ExtractionTypes
<1>3. Len(extraction.parameters) \in Nat /\ RequiredByBody \in Seq(FieldNames)
  BY <1>2, InputTypes, ObjectTypes
<1>4. turn - 1 = Len(extraction.parameters)
  BY <1>1, <1>2, <1>3
<1>5. FieldsOf(extraction, Len(extraction.parameters), Properties(Object), fields')
  BY <1>1, <1>4, BodyTaken
<1>6. Object' = Object /\ RequiredByBody' = RequiredByBody
  BY <1>1, SameCall
<1>7. {RequiredByBody[i] : i \in 1..(turn' - 1)} = {}
  BY <1>1
<1>8. 1 <= Len(RequiredByBody) + 1
  BY <1>3
<1>9. ExtractionTypes'
  BY <1>1, <1>2, <1>6, <1>8 DEF ExtractionTypes
<1> HIDE DEF RequiredByBody
<1>10. FieldsGathered'
  BY <1>1, <1>5, <1>6 DEF FieldsGathered
<1>11. MandatoryGathered'
  <2>1. {RequiredByBody'[i] : i \in 1..(turn' - 1)} = {}
    BY <1>6, <1>7
  <2> QED
    BY <1>1, <1>4, <1>6, <2>1 DEF MandatoryGathered
<1> QED
  BY <1>1, <1>9, <1>10, <1>11 DEF ExtractionInv, OutputMade, ReaderStands

LEMMA RequireKeeps == ExtractionInv /\ Require => ExtractionInv'
<1> SUFFICES ASSUME ExtractionInv, Require PROVE ExtractionInv'
  OBVIOUS
<1> DEFINE names(t) == {RequiredByBody[i] : i \in 1..(t - 1)}
<1>1. /\ ExtractionTypes
      /\ FieldsOf(extraction, Len(extraction.parameters), Properties(Object), fields)
      /\ MandatoryOf(extraction, Len(extraction.parameters), names(turn), mandatory)
      /\ extracting = "required" /\ turn <= Len(RequiredByBody)
      /\ mandatory' = IF Contains(mandatory, RequiredByBody[turn]) THEN mandatory
                      ELSE Append(mandatory, RequiredByBody[turn])
      /\ turn' = turn + 1 /\ fields' = fields /\ extraction' = extraction /\ extracting' = extracting
  BY Zenon DEF ExtractionInv, FieldsGathered, MandatoryGathered, Require, RequiredByBody
<1>2. /\ extraction \in Extractions /\ extraction.of = "input" /\ turn \in Nat /\ turn > 0
      /\ mandatory \in Seq(FieldNames)
  BY <1>1, Zenon DEF ExtractionTypes
<1>3. RequiredByBody \in Seq(FieldNames)
  BY <1>2, ObjectTypes
<1>4. RequiredByBody[turn] \in FieldNames /\ Len(RequiredByBody) \in Nat
  BY <1>1, <1>2, <1>3
<1>5. turn' \in Nat /\ turn' > 0 /\ turn' <= Len(RequiredByBody) + 1
  BY <1>1, <1>2, <1>4
<1>6. names(turn + 1) = names(turn) \cup {RequiredByBody[turn]}
  <2>1. 1..((turn + 1) - 1) = 1..(turn - 1) \cup {turn}
    BY <1>2
  <2> QED
    BY <2>1, Zenon
<1>7. ToSet(mandatory') = ToSet(mandatory) \cup {RequiredByBody[turn]}
  <2>1. CASE Contains(mandatory, RequiredByBody[turn])
    <3>1. DOMAIN mandatory = 1..Len(mandatory)
      BY <1>2
    <3>2. RequiredByBody[turn] \in ToSet(mandatory)
      BY <2>1, <3>1, Zenon DEF Contains, ToSet
    <3> QED
      BY <1>1, <2>1, <3>2, Zenon
  <2>2. CASE ~Contains(mandatory, RequiredByBody[turn])
    BY <1>1, <1>2, <1>4, <2>2, SetOfAppended
  <2> QED
    BY <2>1, <2>2
<1>8. MandatoryOf(extraction, Len(extraction.parameters), names(turn + 1), mandatory')
  BY <1>1, <1>6, <1>7, Zenon DEF MandatoryOf
<1>9. mandatory' \in Seq(FieldNames)
  BY <1>1, <1>2, <1>4
<1>10. Object' = Object /\ RequiredByBody' = RequiredByBody
  BY <1>1, SameCall
<1>11. ExtractionTypes'
  BY <1>1, <1>2, <1>5, <1>9, <1>10 DEF ExtractionTypes
<1>12. FieldsGathered'
  BY <1>1, <1>10 DEF FieldsGathered
<1>13. MandatoryGathered'
  BY <1>1, <1>8, <1>10 DEF MandatoryGathered
<1> QED
  BY <1>1, <1>11, <1>12, <1>13 DEF ExtractionInv, OutputMade, ReaderStands

LEMMA ResolveFieldsKeeps == ExtractionInv /\ ResolveFields => ExtractionInv'
<1> SUFFICES ASSUME ExtractionInv, ResolveFields PROVE ExtractionInv'
  OBVIOUS
<1>1. /\ ExtractionTypes
      /\ FieldsOf(extraction, Len(extraction.parameters), Properties(Object), fields)
      /\ MandatoryOf(extraction, Len(extraction.parameters), {RequiredByBody[i] : i \in 1..(turn - 1)}, mandatory)
      /\ extracting = "required" /\ turn > Len(RequiredByBody)
      /\ fields' = [n \in DOMAIN fields |-> DeepResolve(extraction.document, fields[n])]
      /\ extracting' = "done"
      /\ turn' = turn /\ mandatory' = mandatory /\ extraction' = extraction
  BY Zenon DEF ExtractionInv, FieldsGathered, MandatoryGathered, ResolveFields, RequiredByBody
<1>2. /\ extraction \in Extractions /\ extraction.of = "input" /\ turn \in Nat /\ turn > 0
      /\ mandatory \in Seq(FieldNames) /\ turn <= Len(RequiredByBody) + 1
  BY <1>1, Zenon DEF ExtractionTypes
<1>3. RequiredByBody \in Seq(FieldNames)
  BY <1>2, ObjectTypes
<1>4. turn - 1 = Len(RequiredByBody) /\ DOMAIN RequiredByBody = 1..Len(RequiredByBody)
  BY <1>1, <1>2, <1>3
<1>5. {RequiredByBody[i] : i \in 1..(turn - 1)} = ToSet(RequiredByBody)
  BY <1>4, Zenon DEF ToSet
<1>6. Object' = Object /\ RequiredByBody' = RequiredByBody
  BY <1>1, SameCall
<1>7. ExtractionTypes'
  BY <1>1, <1>2 DEF ExtractionTypes
<1>8. extraction.of # "output"
  BY <1>2
<1>9. FieldsGathered'
  BY <1>1, <1>6, Zenon DEF FieldsGathered
<1>10. MandatoryGathered'
  BY <1>1, <1>5, <1>6 DEF MandatoryGathered
<1> QED
  BY <1>1, <1>7, <1>8, <1>9, <1>10 DEF ExtractionInv, OutputMade, ReaderStands

LEMMA ExtractOutputKeeps == ExtractionInv /\ ExtractOutput => ExtractionInv'
<1> SUFFICES ASSUME ExtractionInv, ExtractOutput PROVE ExtractionInv'
  OBVIOUS
<1>1. /\ ExtractionTypes /\ extracting = "responses" /\ extracting' = "done"
      /\ extraction' = extraction /\ turn' = turn /\ mandatory' = mandatory
      /\ Good # {} => output' = DeepResolve(extraction.document,
                                  ResolveSchema(extraction.document, extraction.responses[Min(Good)][1]))
  BY Zenon DEF ExtractionInv, ExtractOutput
<1>2. Good' = Good
  BY <1>1, SameCall
<1>3. OutputMade'
  BY <1>1, <1>2, Zenon DEF OutputMade
<1>4. ExtractionTypes'
  BY <1>1 DEF ExtractionTypes
<1>5. extraction.of # "input"
  BY <1>1 DEF ExtractionTypes
<1> QED
  BY <1>1, <1>3, <1>4, <1>5 DEF ExtractionInv, FieldsGathered, MandatoryGathered, ReaderStands

LEMMA ResultStays ==
  ASSUME ExtractionInv, extracting \in {"done", "reading"}, extracting' = "reading",
         UNCHANGED <<extraction, turn, results>>
  PROVE  ExtractionTypes' /\ FieldsGathered' /\ MandatoryGathered' /\ OutputMade'
<1>1. /\ extraction' = extraction /\ turn' = turn /\ fields' = fields
      /\ mandatory' = mandatory /\ output' = output
  BY DEF results
<1>2. Object' = Object /\ Good' = Good /\ RequiredByBody' = RequiredByBody
  BY <1>1, SameCall
<1>3. ExtractionTypes'
  BY <1>1 DEF ExtractionInv, ExtractionTypes
<1>4. FieldsGathered'
  BY <1>1, <1>2 DEF ExtractionInv, FieldsGathered
<1>5. MandatoryGathered'
  BY <1>1, <1>2 DEF ExtractionInv, MandatoryGathered
<1>6. OutputMade'
  BY <1>1, <1>2 DEF ExtractionInv, OutputMade
<1> QED
  BY <1>3, <1>4, <1>5, <1>6

\* The reader begins with a part that stands for a schema of the document.
LEMMA ReadFromKeeps ==
  ASSUME ExtractionInv, extracting = "done", NEW part, NEW schema \in DocumentSchemas,
         ReadFrom(part, schema), NEW l \in Nat, MaxDepth + 1 <= l,
         Standing(extraction.document, l, part, schema, EmptySchema, MaxDepth + 1)
  PROVE  ExtractionInv'
<1>1. /\ extracting' = "reading" /\ UNCHANGED <<extraction, turn, results>>
      /\ looked' = part /\ meant' = schema /\ said' = EmptySchema /\ left' = MaxDepth + 1
      /\ extraction' = extraction
  BY DEF ReadFrom
<1>2. ExtractionTypes' /\ FieldsGathered' /\ MandatoryGathered' /\ OutputMade'
  BY <1>1, ResultStays
<1>3. MaxDepth + 1 \in Nat
  BY SchemasAssumption
<1>4. Besides(EmptySchema)
  BY NothingBeside
<1>5. ReaderStands'
  BY <1>1, <1>3, <1>4, Zenon DEF ReaderStands
<1> QED
  BY <1>2, <1>5 DEF ExtractionInv

LEMMA ReadFieldKeeps == ExtractionInv /\ ReadField => ExtractionInv'
<1> SUFFICES ASSUME ExtractionInv, ReadField PROVE ExtractionInv'
  OBVIOUS
<1> DEFINE e == extraction  own == Properties(Object)  upto == Len(extraction.parameters)
<1>1. extracting = "done" /\ extraction.of = "input" /\ extraction \in Extractions
  BY Zenon DEF ReadField, ExtractionInv, ExtractionTypes
<1>2. PICK n \in DOMAIN fields, schema \in DocumentSchemas : SourceOf(n, schema) /\ ReadFrom(fields[n], schema)
  BY Zenon DEF ReadField
<1>3. extracting \in {"done", "reading"}
  BY <1>1
<1>0. \/ n \in DOMAIN own /\ schema = own[n]
      \/ /\ n \notin DOMAIN own /\ ~AtRoot(schema)
         /\ \E i \in DOMAIN e.parameters :
              /\ Taken(i) /\ e.parameters[i].name = n /\ e.parameters[i].schema = schema
              /\ \A j \in DOMAIN e.parameters : j > i /\ Taken(j) => e.parameters[j].name # n
  <2>1. PICK object \in DocumentSchemas :
          /\ Spelt(object)
          /\ \/ n \in DOMAIN Properties(object) /\ schema = Properties(object)[n]
             \/ /\ n \notin DOMAIN Properties(object) /\ ~AtRoot(schema)
                /\ \E i \in DOMAIN e.parameters :
                     /\ Taken(i) /\ e.parameters[i].name = n /\ e.parameters[i].schema = schema
                     /\ \A j \in DOMAIN e.parameters : j > i /\ Taken(j) => e.parameters[j].name # n
    BY <1>2, Zenon DEF SourceOf
  <2>2. object = Object
    BY <1>1, <2>1, SpeltIsTheObject
  <2> QED
    BY <2>1, <2>2, Zenon
<1>4. PICK f : FieldsOf(e, upto, own, f) /\ fields = [m \in DOMAIN f |-> DeepResolve(e.document, f[m])]
  BY <1>1, <1>3, Zenon DEF ExtractionInv, FieldsGathered
<1>5. n \in DOMAIN f /\ fields[n] = DeepResolve(e.document, f[n])
  BY <1>2, <1>4, Zenon
<1>6. CASE n \in DOMAIN own
  <2>1. schema = own[n] /\ f[n] = own[n]
    BY <1>0, <1>4, <1>6, Zenon DEF FieldsOf
  <2>2. fields[n] = Resolution(e.document)[MaxDepth + 1][schema]
    BY <1>5, <2>1, Zenon DEF DeepResolve
  <2>3. MaxDepth + 1 \in Nat /\ MaxDepth + 1 <= MaxDepth + 1
    BY SchemasAssumption
  <2>4. Standing(e.document, MaxDepth + 1, fields[n], schema, EmptySchema, MaxDepth + 1)
    BY <2>2, <2>3, StandsAtFirst
  <2> QED
    BY <1>1, <1>2, <2>3, <2>4, ReadFromKeeps
<1>7. CASE n \notin DOMAIN own
  <2>1. PICK i \in DOMAIN e.parameters :
          /\ Taken(i) /\ e.parameters[i].name = n /\ e.parameters[i].schema = schema
          /\ \A j \in DOMAIN e.parameters : j > i /\ Taken(j) => e.parameters[j].name # n
    BY <1>0, <1>7, Zenon
  <2>2. ~AtRoot(schema)
    BY <1>0, <1>7, Zenon
  <2>3. PICK k \in TakenOf(e, upto) :
          /\ e.parameters[k].name = n
          /\ f[n] = ResolveSchema(e.document, e.parameters[k].schema)
          /\ \A j \in TakenOf(e, upto) : j > k => e.parameters[j].name # n
    BY <1>4, <1>5, <1>7, Zenon DEF FieldsOf, OfParameter
  <2>4. DOMAIN e.parameters = 1..upto /\ upto \in Nat
    BY <1>1, InputTypes
  <2>5. k \in 1..upto /\ Taken(k) /\ i \in TakenOf(e, upto)
    BY <2>1, <2>3, <2>4, Zenon DEF TakenOf, Taken
  <2>6. i \in Nat /\ k \in Nat
    BY <2>1, <2>4, <2>5
  <2>7. ~(k > i) /\ ~(i > k)
    BY <2>1, <2>3, <2>4, <2>5, Zenon
  <2>8. i = k
    BY <2>6, <2>7
  <2>9. fields[n] = DeepResolve(e.document, ResolveSchema(e.document, schema))
    BY <1>5, <2>1, <2>3, <2>8, Zenon
  <2>10. PICK l \in Nat : /\ MaxDepth + 1 <= l
                          /\ Standing(e.document, l, fields[n], schema, EmptySchema, MaxDepth + 1)
    BY <2>2, <2>9, StartsReading
  <2> QED
    BY <1>1, <1>2, <2>10, ReadFromKeeps
<1> QED
  BY <1>6, <1>7

LEMMA LowestIsGood ==
  ASSUME Good # {}
  PROVE  Min(Good) \in Good
<1>1. Good \subseteq Nat
  <2>1. Good \subseteq 200..299
    BY Zenon DEF Good
  <2> QED
    BY <2>1
<1>2. \E n \in Good : \A m \in Good : n <= m
  BY <1>1, Least
<1> QED
  BY <1>2, Zenon DEF Min

LEMMA ReadOutputKeeps == ExtractionInv /\ ReadOutput => ExtractionInv'
<1> SUFFICES ASSUME ExtractionInv, ReadOutput PROVE ExtractionInv'
  OBVIOUS
<1> DEFINE schema == extraction.responses[Min(Good)][1]
<1>1. extracting = "done" /\ extraction.of = "output" /\ extraction \in Extractions
      /\ Good # {} /\ ~AtRoot(schema) /\ ReadFrom(output, schema)
  BY Zenon DEF ReadOutput, ExtractionInv, ExtractionTypes
<1>2. extracting \in {"done", "reading"}
  BY <1>1
<1>3. output = DeepResolve(extraction.document, ResolveSchema(extraction.document, schema))
  BY <1>1, <1>2, Zenon DEF ExtractionInv, OutputMade
<1>4. schema \in DocumentSchemas
  <2>1. Min(Good) \in DOMAIN extraction.responses /\ extraction.responses[Min(Good)] # <<>>
    BY <1>1, LowestIsGood, Zenon DEF Good
  <2>2. extraction.responses[Min(Good)] \in Optional(DocumentSchemas)
    BY <1>1, <2>1, ExtractionsAssumption, Zenon
  <2>3. PICK s \in DocumentSchemas : extraction.responses[Min(Good)] = <<s>>
    BY <2>1, <2>2, Zenon DEF Optional
  <2> QED
    BY <2>3
<1> HIDE DEF schema
<1>5. PICK l \in Nat : /\ MaxDepth + 1 <= l
                       /\ Standing(extraction.document, l, output, schema, EmptySchema, MaxDepth + 1)
  BY <1>1, <1>3, <1>4, StartsReading
<1> QED
  BY <1>1, <1>4, <1>5, ReadFromKeeps

LEMMA FollowReferenceKeeps == ExtractionInv /\ FollowReference => ExtractionInv'
<1> SUFFICES ASSUME ExtractionInv, FollowReference PROVE ExtractionInv'
  OBVIOUS
<1> DEFINE document == extraction.document
<1>1. /\ extracting = "reading" /\ left > 0 /\ meant.ref # <<>>
      /\ said' = Updated(Siblings(meant), said) /\ meant' = Target(document, meant)
      /\ left' = left - 1 /\ looked' = looked /\ extracting' = extracting /\ extraction' = extraction
      /\ UNCHANGED <<extraction, turn, results>>
  BY DEF FollowReference
<1>2. ExtractionTypes' /\ FieldsGathered' /\ MandatoryGathered' /\ OutputMade'
  BY <1>1, ResultStays
<1>3. /\ meant \in DocumentSchemas /\ left \in Nat /\ Besides(said)
      /\ \E l \in Nat : left <= l /\ Standing(document, l, looked, meant, said, left)
  BY <1>1, Zenon DEF ExtractionInv, ReaderStands
<1>4. PICK l \in Nat : left <= l /\ Standing(document, l, looked, meant, said, left)
  BY <1>3
<1>5. \A component \in DOMAIN document : document[component] \in DocumentSchemas
  BY DocumentTypes DEF ExtractionInv, ExtractionTypes
<1>6. /\ Besides(Updated(Siblings(meant), said))
      /\ Standing(document, l - 1, looked, Target(document, meant), Updated(Siblings(meant), said), left - 1)
  BY <1>1, <1>3, <1>4, <1>5, StandsAfterReference
<1>7. Target(document, meant) \in DocumentSchemas
  BY <1>5, TargetIsASchema
<1>8. l - 1 \in Nat /\ left - 1 \in Nat /\ left - 1 <= l - 1
  BY <1>1, <1>3, <1>4
<1>9. ReaderStands'
  BY <1>1, <1>6, <1>7, <1>8, Zenon DEF ReaderStands
<1> QED
  BY <1>2, <1>9 DEF ExtractionInv

LEMMA LookInsideKeeps == ExtractionInv /\ LookInside => ExtractionInv'
<1> SUFFICES ASSUME ExtractionInv, LookInside PROVE ExtractionInv'
  OBVIOUS
<1> DEFINE document == extraction.document
<1>1. /\ extracting = "reading" /\ left > 0 /\ meant.ref = <<>>
      /\ said' = EmptySchema
      /\ left' = left - 1 /\ extracting' = extracting /\ extraction' = extraction
      /\ UNCHANGED <<extraction, turn, results>>
  BY DEF LookInside
<1>2. PICK k \in Walked \cap DOMAIN Meaning.subs : \E n \in DOMAIN Meaning.subs[k] :
        looked' = looked.subs[k][n] /\ meant' = Meaning.subs[k][n]
  BY Zenon DEF LookInside
<1>3. PICK n \in DOMAIN Meaning.subs[k] : looked' = looked.subs[k][n] /\ meant' = Meaning.subs[k][n]
  BY <1>2
<1>4. ExtractionTypes' /\ FieldsGathered' /\ MandatoryGathered' /\ OutputMade'
  BY <1>1, ResultStays
<1>5. /\ meant \in DocumentSchemas /\ left \in Nat /\ Besides(said)
      /\ \E l \in Nat : left <= l /\ Standing(document, l, looked, meant, said, left)
  BY <1>1, Zenon DEF ExtractionInv, ReaderStands
<1>6. PICK l \in Nat : left <= l /\ Standing(document, l, looked, meant, said, left)
  BY <1>5
<1>7. Shows(document, looked, Meaning, left)
  BY <1>1, <1>5, <1>6, StandsPlainly DEF Meaning
<1>8. PICK m \in Nat : left <= m + 1 /\ looked.subs[k][n] = Resolution(document)[m][Meaning.subs[k][n]]
  <2>1. FoundResolved(document, k, looked.subs[k], Meaning.subs[k], left)
    BY <1>2, <1>7, Zenon DEF Shows
  <2> QED
    BY <1>2, <1>3, <2>1, Zenon DEF FoundResolved
<1>9. meant' \in DocumentSchemas /\ looked' = Resolution(document)[m][meant']
  BY <1>2, <1>3, <1>7, <1>8, Zenon DEF Shows, Besides
<1>10. left - 1 \in Nat /\ left - 1 <= m
  BY <1>1, <1>5, <1>8
<1>11. Standing(document, m, looked', meant', EmptySchema, left - 1)
  BY <1>9, <1>10, StandsAtFirst
<1>12. ReaderStands'
  BY <1>1, <1>8, <1>9, <1>10, <1>11, NothingBeside, Zenon DEF ReaderStands
<1> QED
  BY <1>4, <1>12 DEF ExtractionInv

LEMMA ExtractionInvariance == SpecExtracting => []ExtractionInv
<1>1. ExtractionInv /\ [NextExtracting]_extractions => ExtractionInv'
  <2> SUFFICES ASSUME ExtractionInv, [NextExtracting]_extractions PROVE ExtractionInv'
    OBVIOUS
  <2>1. CASE UNCHANGED extractions
    <3>1. /\ extraction' = extraction /\ extracting' = extracting /\ turn' = turn /\ fields' = fields
          /\ mandatory' = mandatory /\ output' = output /\ looked' = looked /\ meant' = meant
          /\ said' = said /\ left' = left
      BY <2>1 DEF extractions, results, reading
    <3>2. Object' = Object /\ Good' = Good /\ RequiredByBody' = RequiredByBody
      BY <3>1, SameCall
    <3>3. ExtractionTypes' /\ FieldsGathered' /\ MandatoryGathered'
      BY <3>1, <3>2 DEF ExtractionInv, ExtractionTypes, FieldsGathered, MandatoryGathered
    <3>4. OutputMade' /\ ReaderStands'
      BY <3>1, <3>2 DEF ExtractionInv, OutputMade, ReaderStands
    <3> QED
      BY <3>3, <3>4 DEF ExtractionInv
  <2>2. CASE NextExtracting
    BY <2>2, TakeParameterKeeps, PassParameterKeeps, TakeBodyKeeps, RequireKeeps, ResolveFieldsKeeps,
       ExtractOutputKeeps, ReadFieldKeeps, ReadOutputKeeps, FollowReferenceKeeps, LookInsideKeeps, Zenon
    DEF NextExtracting
  <2> QED
    BY <2>1, <2>2
<1> QED
  BY <1>1, InitExtractionInv, PTL DEF SpecExtracting

\* Whatever the document, however its components refer to each other, and
\* wherever somebody looks through the keywords that _deep_resolve_refs walks, a
\* part of what extract_input_schema and extract_output_schema return says what
\* the document says; and where the body is spelt out, the fields are those in
\* its properties and the query and path parameters.
THEOREM SchemasAreSaid == SpecExtracting => []SchemasSayTheirSource
<1>1. ExtractionInv => ReaderFindsTheMeaning
  <2> SUFFICES ASSUME ExtractionInv, extracting = "reading", left > 0, meant.ref = <<>>
               PROVE  /\ looked.ref = <<>> /\ looked.plain = Meaning.plain
                      /\ DOMAIN looked.subs = DOMAIN Meaning.subs
                      /\ \A k \in Walked \cap DOMAIN Meaning.subs :
                           DOMAIN looked.subs[k] = DOMAIN Meaning.subs[k]
                      /\ \A k \in DOMAIN Meaning.subs \ Walked : looked.subs[k] = Meaning.subs[k]
    BY Zenon DEF ReaderFindsTheMeaning
  <2>1. /\ meant \in DocumentSchemas /\ left \in Nat /\ Besides(said)
        /\ \E l \in Nat : left <= l /\ Standing(extraction.document, l, looked, meant, said, left)
    BY Zenon DEF ExtractionInv, ReaderStands
  <2>2. PICK l \in Nat : left <= l /\ Standing(extraction.document, l, looked, meant, said, left)
    BY <2>1
  <2>3. Shows(extraction.document, looked, Meaning, left)
    BY <2>1, <2>2, StandsPlainly DEF Meaning
  <2> QED
    BY <2>3, Zenon DEF Shows, FoundResolved
<1>2. ExtractionInv => InputsAreAllThere
  <2> SUFFICES ASSUME ExtractionInv, extracting \in {"done", "reading"}, extraction.of = "input"
               PROVE  InputsAreAllThere
    BY Zenon DEF InputsAreAllThere
  <2> DEFINE upto == Len(extraction.parameters)
  <2>1. extraction \in Extractions
    BY DEF ExtractionInv, ExtractionTypes
  <2>2. DOMAIN extraction.parameters = 1..upto
    BY <2>1, InputTypes
  <2>3. {i \in DOMAIN extraction.parameters : Taken(i)} = TakenOf(extraction, upto)
    BY <2>2, Zenon DEF Taken, TakenOf
  <2>4. PICK f : /\ FieldsOf(extraction, upto, Properties(Object), f)
                 /\ fields = [n \in DOMAIN f |-> DeepResolve(extraction.document, f[n])]
    BY Zenon DEF ExtractionInv, FieldsGathered
  <2>5. DOMAIN fields = DOMAIN Properties(Object) \cup {extraction.parameters[i].name : i \in TakenOf(extraction, upto)}
    BY <2>4, Zenon DEF FieldsOf
  <2>6. MandatoryOf(extraction, upto, ToSet(RequiredByBody), mandatory)
    BY Zenon DEF ExtractionInv, MandatoryGathered
  <2>7. \A object \in DocumentSchemas : Spelt(object) => object = Object
    BY <2>1, SpeltIsTheObject
  <2> QED
    BY <2>3, <2>5, <2>6, <2>7, Zenon DEF InputsAreAllThere, MandatoryOf, RequiredByBody
<1> QED
  BY <1>1, <1>2, ExtractionInvariance, PTL DEF SchemasSayTheirSource
=============================================================================
