----------------------- MODULE FileTokenStoreProofs ------------------------
(***************************************************************************)
(* The credentials file is never half written, failures leave it alone, a  *)
(* write nobody overtook is exact, and for one writer at a time the file   *)
(* is the atomic map of TokenStore: for any keys, tokens, operations,      *)
(* crashes and failures, and where nothing else is said for any number of  *)
(* processes.                                                              *)
(***************************************************************************)
EXTENDS FileTokenStore, TLAPS

WithTemp == {"writing", "replacing"}
Writing == {"creating", "writing", "replacing"}

\* The records once the one that an operation is about has been changed.
Changed(records, c) == [records EXCEPT ![c.key] = c.token]

\* A temporary file exists while its process writes or renames it, and it is
\* complete before it is renamed.
TempInv ==
  /\ WholeFile
  /\ TemporariesAreOwned
  /\ \A p \in Processes : pc[p] = "replacing" => temp[p] = "complete"

\* A process knows no version newer than the file's, none while it has yet to
\* read, and what it is about to write is one change away from what it read.
CopyInv ==
  /\ file.state # "json" => file.records = Empty
  /\ \A p \in Processes :
       /\ base[p] <= file.version
       /\ pc[p] \notin Writing \cup {"idle"} => base[p] = Unread
       /\ pc[p] \in Writing /\ base[p] = file.version =>
            copy[p] = Changed(file.records, call[p])

-----------------------------------------------------------------------------
(* Facts about the operators.                                              *)

LEMMA EmptyIsRecords == Empty \in Records
  BY DEF Empty, Records

LEMMA ChangedType ==
  ASSUME NEW records \in Records, NEW c \in Calls
  PROVE  Changed(records, c) \in Records
<1>1. c.key \in Keys /\ c.token \in Tokens \cup {None}
  BY DEF Calls
<1> QED
  BY <1>1 DEF Changed, Records

\* What the operation does with its records: it returns, or it goes on to
\* write them with its own one changed.
LEMMA UseRecordsEffect ==
  ASSUME NEW p \in Processes, NEW records \in Records, TypeOK, UseRecords(p, records)
  PROVE  /\ \/ /\ pc' = [pc EXCEPT ![p] = "idle"]
               /\ result' = [result EXCEPT ![p] = "done"]
            \/ /\ pc' = [pc EXCEPT ![p] = "creating"]
               /\ result' = result
               /\ copy' = [copy EXCEPT ![p] = Changed(records, call[p])]
         /\ copy' \in [Processes -> Records]
         /\ \A q \in Processes \ {p} : copy'[q] = copy[q]
<1>1. call[p] \in Calls /\ copy \in [Processes -> Records]
  BY DEF TypeOK
<1>2. Changed(records, call[p]) \in Records
  BY <1>1, ChangedType
<1> QED
  BY <1>1, <1>2 DEF UseRecords, Changed, Goto, Return

\* A read returns the records of the version it names, or it fails.
LEMMA ReadEffect ==
  ASSUME NEW p \in Processes, TypeOK, CopyInv, Open(p) \/ Read(p)
  PROVE  \/ /\ pc' = [pc EXCEPT ![p] = "permitting"]
            /\ UNCHANGED <<result, copy, base>>
         \/ \E records \in Records :
              /\ UseRecords(p, records)
              /\ \/ base' = [base EXCEPT ![p] = file.version] /\ records = file.records
                 \/ base' = base
<1>1. file.records \in Records
  BY DEF TypeOK, File
<1>2. CASE Open(p)
  BY <1>1, <1>2 DEF Open, Goto, CopyInv
<1>3. CASE Read(p)
  BY <1>1, <1>3, EmptyIsRecords DEF Read, CopyInv
<1> QED
  BY <1>2, <1>3

\* Only the rename of a finished file and the operator change the file.
LEMMA OnlyReplaceWrites ==
  ASSUME NEW p \in Processes, Step(p)
  PROVE  Replace(p) \/ file' = file
  BY DEF Step, Begin, ClearLooks, Open, CheckMode, Read, CreateTemp, WriteTemp,
         WriteFails, Crash

-----------------------------------------------------------------------------
(* The state is always well typed.                                         *)

LEMMA TypeInit == Init => TypeOK
<1> SUFFICES ASSUME Init PROVE TypeOK
  OBVIOUS
<1>1. file \in File
  BY EmptyIsRecords DEF Init, File, Unread
<1> QED
  BY <1>1, EmptyIsRecords, ConstantsAssumption DEF Init, TypeOK, Unread

LEMMA StepTypes ==
  ASSUME NEW p \in Processes, TypeOK, TempInv, CopyInv, Step(p)
  PROVE  TypeOK'
<1> USE DEF TypeOK, Goto, Return, counters
<1>1. ASSUME NEW c \in Calls, Begin(p, c) PROVE TypeOK'
  BY <1>1, ConstantsAssumption DEF Begin, Unread
<1>2. CASE ClearLooks(p)
  BY <1>2 DEF ClearLooks
<1>3. CASE Open(p) \/ Read(p)
  <2>1. /\ pc' = [pc EXCEPT ![p] = "permitting"] \/ pc' = [pc EXCEPT ![p] = "idle"]
             \/ pc' = [pc EXCEPT ![p] = "creating"]
        /\ result' = result \/ result' = [result EXCEPT ![p] = "done"]
        /\ copy' \in [Processes -> Records]
    BY <1>3, ReadEffect, UseRecordsEffect
  <2>2. base' = base \/ base' = [base EXCEPT ![p] = file.version]
    BY <1>3 DEF Open, Read
  <2>3. file.version \in Nat
    BY DEF File
  <2>4. UNCHANGED <<file, call, temp, orphans, operations, meddling, crashes>>
    BY <1>3 DEF Open, Read
  <2> QED
    BY <2>1, <2>2, <2>3, <2>4
<1>4. CASE CheckMode(p)
  BY <1>4 DEF CheckMode
<1>5. CASE CreateTemp(p)
  BY <1>5 DEF CreateTemp
<1>6. CASE WriteTemp(p)
  BY <1>6 DEF WriteTemp
<1>7. CASE WriteFails(p)
  BY <1>7 DEF WriteFails
<1>8. CASE Replace(p)
  <2>1. file' \in File
    BY <1>8 DEF Replace, Publish, File, Unread
  <2> QED
    BY <1>8, <2>1 DEF Replace, Publish
<1>9. CASE Crash(p)
  <2>1. orphans' \in 0..MaxCrashes /\ crashes' \in 0..MaxCrashes
    BY <1>9, ConstantsAssumption DEF Crash, TempInv, TemporariesAreOwned
  <2> QED
    BY <1>9, <2>1 DEF Crash
<1> QED
  BY <1>1, <1>2, <1>3, <1>4, <1>5, <1>6, <1>7, <1>8, <1>9 DEF Step

\* What the operator leaves behind is a file, and one that nobody has read
\* unless only its mode changed.
LEMMA OperatorEffect ==
  ASSUME TypeOK, CopyInv, WholeFile, OperatorActs
  PROVE  /\ file' \in File
         /\ WholeFile'
         /\ \/ file'.records = Empty /\ file'.version = file.version + 1
                 /\ file'.state # "json"
            \/ UNCHANGED <<file.records, file.version, file.state>>
<1>0. file \in File /\ file.version \in Nat
  BY DEF TypeOK, File
<1>1. CASE file' = [file EXCEPT !.state = "absent", !.records = Empty, !.loose = FALSE,
                                !.version = @ + 1]
  <2>1. /\ file'.state = "absent" /\ file'.records = Empty
        /\ file'.version = file.version + 1
    BY <1>0, <1>1 DEF File
  <2>2. file' = [state |-> "absent", records |-> Empty, loose |-> FALSE,
                 version |-> file.version + 1]
    BY <1>0, <1>1 DEF File
  <2>3. file' \in File
    BY <1>0, <2>2, EmptyIsRecords DEF File, Unread
  <2> QED
    BY <2>1, <2>3 DEF WholeFile
<1>2. CASE file' = [file EXCEPT !.state = "garbled", !.records = Empty, !.version = @ + 1]
  <2>1. /\ file'.state = "garbled" /\ file'.records = Empty
        /\ file'.version = file.version + 1
    BY <1>0, <1>2 DEF File
  <2>2. file' = [state |-> "garbled", records |-> Empty, loose |-> file.loose,
                 version |-> file.version + 1]
    BY <1>0, <1>2 DEF File
  <2>3. file' \in File
    BY <1>0, <2>2, EmptyIsRecords DEF File, Unread
  <2> QED
    BY <2>1, <2>3 DEF WholeFile
<1>3. CASE file' = [file EXCEPT !.loose = ~@]
  BY <1>0, <1>3 DEF File, WholeFile
<1> QED
  BY <1>1, <1>2, <1>3 DEF OperatorActs

-----------------------------------------------------------------------------
(* The inductive invariant.                                                *)

IInv == TypeOK /\ TempInv /\ CopyInv

LEMMA InvInit == Init => IInv
<1> SUFFICES ASSUME Init PROVE IInv
  OBVIOUS
<1>1. TempInv
  BY DEF Init, TempInv, WholeFile, TemporariesAreOwned
<1>2. CopyInv
  BY DEF Init, CopyInv, Writing, Unread
<1> QED
  BY <1>1, <1>2, TypeInit DEF IInv

LEMMA StepTemps ==
  ASSUME NEW p \in Processes, IInv, Step(p)
  PROVE  TempInv'
<1> USE DEF IInv, TypeOK, TempInv, WholeFile, TemporariesAreOwned, Goto, Return, counters
<1>1. ASSUME NEW c \in Calls, Begin(p, c) PROVE TempInv'
  BY <1>1 DEF Begin
<1>2. CASE ClearLooks(p)
  BY <1>2 DEF ClearLooks
<1>3. CASE Open(p) \/ Read(p)
  <2>1. \/ pc' = [pc EXCEPT ![p] = "permitting"]
        \/ pc' = [pc EXCEPT ![p] = "idle"]
        \/ pc' = [pc EXCEPT ![p] = "creating"]
    BY <1>3, ReadEffect, UseRecordsEffect
  <2>2. UNCHANGED <<file, temp, orphans, crashes>> /\ pc[p] \in {"opening", "reading"}
    BY <1>3 DEF Open, Read
  <2> QED
    BY <2>1, <2>2
<1>4. CASE CheckMode(p)
  BY <1>4 DEF CheckMode
<1>5. CASE CreateTemp(p)
  BY <1>5 DEF CreateTemp
<1>6. CASE WriteTemp(p)
  BY <1>6 DEF WriteTemp
<1>7. CASE WriteFails(p)
  BY <1>7 DEF WriteFails
<1>8. CASE Replace(p)
  BY <1>8 DEF Replace, Publish
<1>9. CASE Crash(p)
  BY <1>9 DEF Crash
<1> QED
  BY <1>1, <1>2, <1>3, <1>4, <1>5, <1>6, <1>7, <1>8, <1>9 DEF Step

LEMMA StepCopies ==
  ASSUME NEW p \in Processes, IInv, Step(p)
  PROVE  CopyInv'
<1> USE DEF IInv
\* Every step but the rename leaves the file alone and concerns one process.
<1>quiet. ASSUME UNCHANGED file,
                 \A q \in Processes \ {p} : UNCHANGED <<pc[q], base[q], copy[q], call[q]>>,
                 base'[p] <= file.version,
                 pc'[p] \notin Writing \cup {"idle"} => base'[p] = Unread,
                 pc'[p] \in Writing /\ base'[p] = file.version =>
                   copy'[p] = Changed(file.records, call'[p])
          PROVE  CopyInv'
  BY <1>quiet DEF CopyInv
<1>same. ASSUME UNCHANGED <<file, base, copy, call>>,
                \A q \in Processes \ {p} : UNCHANGED pc[q],
                \/ pc'[p] \in Writing /\ pc[p] \in Writing
                \/ pc'[p] \notin Writing /\ pc[p] \notin Writing /\ pc[p] # "idle"
                \/ pc'[p] = "idle"
         PROVE  CopyInv'
  BY <1>same, <1>quiet DEF CopyInv, Writing
<1>t. /\ pc \in [Processes -> {"idle", "clearing", "opening", "permitting", "reading",
                               "creating", "writing", "replacing"}]
      /\ base \in [Processes -> Nat] /\ call \in [Processes -> Calls]
      /\ copy \in [Processes -> Records] /\ file \in File /\ file.version \in Nat \ {Unread}
  BY DEF TypeOK, File
<1>1. ASSUME NEW c \in Calls, Begin(p, c) PROVE CopyInv'
  BY <1>t, <1>1, <1>quiet DEF Begin, Goto, Writing, Unread
<1>2. CASE ClearLooks(p)
  BY <1>t, <1>2, <1>same DEF ClearLooks, Goto, Return, Writing
<1>3. CASE Open(p) \/ Read(p)
  <2>1. UNCHANGED <<file, call>> /\ pc[p] \in {"opening", "reading"}
    BY <1>3 DEF Open, Read
  <2>2. base[p] = Unread
    BY <2>1 DEF CopyInv, Writing
  <2>3. CASE pc' = [pc EXCEPT ![p] = "permitting"] /\ UNCHANGED <<result, copy, base>>
    BY <1>t, <2>1, <2>3, <1>same DEF Writing
  <2>4. ASSUME NEW records \in Records, UseRecords(p, records),
               \/ base' = [base EXCEPT ![p] = file.version] /\ records = file.records
               \/ base' = base
        PROVE  CopyInv'
    <3>1. /\ \A q \in Processes \ {p} : UNCHANGED <<base[q], copy[q], call[q]>>
          /\ base'[p] <= file.version
      BY <1>t, <2>1, <2>2, <2>4, UseRecordsEffect DEF Unread
    <3>2. base'[p] = file.version => records = file.records
      BY <1>t, <2>2, <2>4
    <3>3. CASE pc' = [pc EXCEPT ![p] = "idle"]
      BY <1>t, <2>1, <3>1, <3>3, <1>quiet DEF Writing
    <3>4. CASE /\ pc' = [pc EXCEPT ![p] = "creating"]
               /\ copy' = [copy EXCEPT ![p] = Changed(records, call[p])]
      BY <1>t, <2>1, <3>1, <3>2, <3>4, <1>quiet DEF Writing
    <3> QED
      BY <2>4, <3>3, <3>4, UseRecordsEffect
  <2> QED
    BY <1>3, <2>3, <2>4, ReadEffect
<1>4. CASE CheckMode(p)
  BY <1>t, <1>4, <1>same DEF CheckMode, Goto, Return, Writing
<1>5. CASE CreateTemp(p)
  BY <1>t, <1>5, <1>same DEF CreateTemp, Goto, Return, Writing
<1>6. CASE WriteTemp(p)
  BY <1>t, <1>6, <1>same DEF WriteTemp, Goto, Writing
<1>7. CASE WriteFails(p)
  BY <1>t, <1>7, <1>same DEF WriteFails, Return, Goto, Writing
<1>8. CASE Replace(p)
  \* Whoever read an earlier version has been overtaken.
  <2>1. file'.version = file.version + 1 /\ file'.state = "json"
    BY <1>8 DEF Replace, Publish, TempInv
  <2>2. UNCHANGED <<call, copy, base>> /\ pc' = [pc EXCEPT ![p] = "idle"]
    BY <1>8 DEF Replace, Publish, Return, Goto
  <2>3. \A q \in Processes : base'[q] < file'.version
    BY <1>t, <2>1, <2>2 DEF CopyInv
  <2> QED
    BY <1>t, <2>1, <2>2, <2>3 DEF CopyInv, Writing
<1>9. CASE Crash(p)
  BY <1>t, <1>9, <1>same DEF Crash, Return, Goto
<1> QED
  BY <1>1, <1>2, <1>3, <1>4, <1>5, <1>6, <1>7, <1>8, <1>9 DEF Step

LEMMA OperatorKeeps ==
  ASSUME IInv, OperatorActs
  PROVE  IInv'
<1>1. /\ file' \in File /\ WholeFile'
      /\ \/ file'.records = Empty /\ file'.version = file.version + 1
              /\ file'.state # "json"
         \/ UNCHANGED <<file.records, file.version, file.state>>
  BY OperatorEffect DEF IInv, TempInv
<1>2. UNCHANGED <<pc, call, copy, base, temp, result, orphans, operations, crashes>>
  BY DEF OperatorActs
<1>3. TypeOK'
  BY <1>1, <1>2, ConstantsAssumption DEF OperatorActs, IInv, TypeOK
<1>4. TempInv'
  BY <1>1, <1>2 DEF IInv, TempInv, TemporariesAreOwned
<1>5. CopyInv'
  <2>1. file.version \in Nat /\ base \in [Processes -> Nat]
    BY DEF IInv, TypeOK, File
  <2> QED
    BY <1>1, <1>2, <2>1 DEF IInv, CopyInv
<1> QED
  BY <1>3, <1>4, <1>5 DEF IInv

LEMMA Invariance == IInv /\ [Next]_vars => IInv'
<1> SUFFICES ASSUME IInv, [Next]_vars PROVE IInv'
  OBVIOUS
<1>1. ASSUME NEW p \in Processes, Step(p) PROVE IInv'
  BY <1>1, StepTypes, StepTemps, StepCopies DEF IInv
<1>2. CASE UNCHANGED vars
  BY <1>2 DEF vars, IInv, TypeOK, TempInv, WholeFile, TemporariesAreOwned, CopyInv
<1> QED
  BY <1>1, <1>2, OperatorKeeps DEF Next

\* The state of the store and of its operations is always well typed (TypeOK).
THEOREM TypeCorrect == Spec => []TypeOK
<1>1. IInv => TypeOK
  BY DEF IInv
<1> QED
  BY <1>1, InvInit, Invariance, PTL DEF Spec

\* Nobody ever sees a half-written credentials file (WholeFile).
THEOREM FileIsWhole == Spec => []WholeFile
<1>1. IInv => WholeFile
  BY DEF IInv, TempInv
<1> QED
  BY <1>1, InvInit, Invariance, PTL DEF Spec

\* Only a killed process leaves a temporary file behind (TemporariesAreOwned).
THEOREM NoStrayTemporaries == Spec => []TemporariesAreOwned
<1>1. IInv => TemporariesAreOwned
  BY DEF IInv, TempInv
<1> QED
  BY <1>1, InvInit, Invariance, PTL DEF Spec

-----------------------------------------------------------------------------
\* An operation that fails has not touched the file (FailureChangesNothing).
THEOREM FailuresAreHarmless == Spec => FailureChangesNothing
<1> DEFINE Harmless ==
      \A p \in Processes :
        result'[p] # result[p] /\ result'[p] \notin {"none", "done"} => file' = file
<1>1. IInv /\ [Next]_vars => Harmless
  <2> SUFFICES ASSUME IInv, [Next]_vars,
                      NEW q \in Processes, result'[q] # result[q],
                      result'[q] \notin {"none", "done"}, file' # file
               PROVE  FALSE
    OBVIOUS
  <2>1. ~OperatorActs /\ ~UNCHANGED vars
    BY DEF OperatorActs, vars
  <2>2. PICK p \in Processes : Step(p)
    BY <2>1 DEF Next
  <2>3. result' = [result EXCEPT ![p] = "done"]
    BY <2>2, OnlyReplaceWrites DEF Replace, Publish, Return
  <2> QED
    BY <2>3 DEF IInv, TypeOK
<1> QED
  BY <1>1, InvInit, Invariance, PTL DEF Spec, FailureChangesNothing

-----------------------------------------------------------------------------
(* Writes that nobody overtakes are exact.                                 *)

\* The rename publishes the copy of the process that makes it.
LEMMA ReplacePublishes ==
  ASSUME IInv, NEW p \in Processes, Replace(p), base[p] = file.version
  PROVE  file'.records = Changed(file.records, call[p]) /\ file'.state = "json"
  BY DEF IInv, TempInv, CopyInv, Replace, Publish, Writing

\* The process that publishes is the one that takes the step.
LEMMA PublisherReplaces ==
  ASSUME IInv, [Next]_vars, NEW p \in Processes, Publishes(p)
  PROVE  Replace(p)
<1>1. ~OperatorActs /\ ~UNCHANGED vars
  BY DEF Publishes, OperatorActs, vars
<1>2. PICK q \in Processes : Step(q)
  BY <1>1 DEF Next
<1>3. file' # file
  BY DEF Publishes
<1>4. Replace(q)
  BY <1>2, <1>3, OnlyReplaceWrites
<1>5. pc' = [pc EXCEPT ![q] = "idle"]
  BY <1>4 DEF Replace, Publish, Return, Goto
<1>6. p = q
  BY <1>5 DEF Publishes, IInv, TypeOK
<1> QED
  BY <1>4, <1>6

\* Whatever else runs, crashes or fails: a process that saw the version it
\* replaces changes the record under its own key and no other one
\* (UndisturbedWriteIsExact).
THEOREM UndisturbedWritesAreExact == Spec => UndisturbedWriteIsExact
<1> DEFINE Exact ==
      \A p \in Processes :
        Publishes(p) /\ base[p] = file.version =>
          file'.records = [file.records EXCEPT ![call[p].key] = call[p].token]
<1>1. IInv /\ [Next]_vars => Exact
  BY PublisherReplaces, ReplacePublishes DEF Changed
<1> QED
  BY <1>1, InvInit, Invariance, PTL DEF Spec, UndisturbedWriteIsExact

-----------------------------------------------------------------------------
(* One writer at a time: the file is the atomic map of the protocol.       *)

\* The conditions under which the file store is used as a TokenStore.
SingleWriter ==
  /\ \A p, q \in Processes : p = q
  /\ ~ReadsMayFail /\ ~OperatorRaces

\* What the writer read is still what the file holds.
NotOvertaken == \A p \in Processes : pc[p] \in Writing => base[p] = file.version

LEMMA NotOvertakenInvariance ==
  SingleWriter /\ IInv /\ NotOvertaken /\ [Next]_vars => NotOvertaken'
<1> SUFFICES ASSUME SingleWriter, IInv, NotOvertaken, [Next]_vars,
                    NEW p \in Processes, pc'[p] \in Writing
             PROVE  base'[p] = file'.version
  BY DEF NotOvertaken
<1>t. pc \in [Processes -> {"idle", "clearing", "opening", "permitting", "reading",
                            "creating", "writing", "replacing"}]
        /\ base \in [Processes -> Nat]
  BY DEF IInv, TypeOK
<1>1. CASE UNCHANGED vars
  BY <1>1 DEF vars, NotOvertaken
<1>2. ~OperatorActs
  BY DEF OperatorActs, SingleWriter, Writing
<1>3. ASSUME Step(p) PROVE base'[p] = file'.version
  <2>1. CASE \E c \in Calls : Begin(p, c)
    BY <1>t, <2>1 DEF Begin, Goto, Writing
  <2>2. CASE ClearLooks(p) \/ CheckMode(p) \/ WriteFails(p) \/ Replace(p) \/ Crash(p)
    BY <1>t, <2>2 DEF ClearLooks, CheckMode, WriteFails, Replace, Publish, Crash, Goto,
                      Return, Writing
  <2>3. CASE Open(p) \/ Read(p)
    BY <1>t, <2>3 DEF Open, Read, Goto, Writing, SingleWriter
  <2>4. CASE CreateTemp(p) \/ WriteTemp(p)
    BY <1>t, <2>4 DEF CreateTemp, WriteTemp, Writing, NotOvertaken
  <2> QED
    BY <1>3, <2>1, <2>2, <2>3, <2>4 DEF Step
<1> QED
  BY <1>1, <1>2, <1>3 DEF Next, SingleWriter

Visible == IF file.state = "json" THEN file.records ELSE Empty

LEMMA VisibleIsRecords == CopyInv => Visible = file.records
  BY DEF CopyInv, Visible

LEMMA StepsAreAtomic ==
  IInv /\ IInv' /\ NotOvertaken /\ [Next]_vars => [Store!Next]_(Store!vars)
<1> SUFFICES ASSUME IInv, IInv', NotOvertaken, [Next]_vars
             PROVE  [Store!Next]_(Store!vars)
  OBVIOUS
<1>v. Visible = file.records /\ Visible' = file'.records
  BY VisibleIsRecords DEF IInv, Visible, CopyInv
<1>1. CASE OperatorActs
  <2>1. meddling' = meddling + 1
    BY <1>1 DEF OperatorActs
  <2>2. Visible' \in {Visible, Empty}
    BY <1>1, <1>v, OperatorEffect DEF IInv, TempInv
  <2> QED
    BY <2>1, <2>2 DEF Store!Next, Store!Intervene, Store!Empty, Visible, Empty
<1>2. ASSUME NEW p \in Processes, Replace(p) PROVE [Store!Next]_(Store!vars)
  <2>1. base[p] = file.version /\ call[p] \in Calls /\ meddling' = meddling
    BY <1>2 DEF Replace, Publish, NotOvertaken, Writing, IInv, TypeOK, counters
  <2>2. Visible' = [Visible EXCEPT ![call[p].key] = call[p].token]
    BY <1>2, <1>v, <2>1, ReplacePublishes DEF Changed
  <2>3. call[p].key \in Keys /\ call[p].token \in Tokens \cup {None}
    BY <2>1 DEF Calls
  <2> QED
    BY <2>1, <2>2, <2>3 DEF Store!Next, Store!Save, Store!Clear, Visible
<1>3. CASE UNCHANGED <<file, meddling>>
  BY <1>3 DEF Store!vars
<1>4. ASSUME NEW p \in Processes, Step(p) PROVE Replace(p) \/ UNCHANGED <<file, meddling>>
  BY <1>4 DEF Step, Begin, ClearLooks, Open, CheckMode, Read, CreateTemp, WriteTemp,
              WriteFails, Crash, counters
<1> QED
  BY <1>1, <1>2, <1>3, <1>4 DEF Next, vars

\* For one writer at a time whose reads succeed and an operator who waits, the
\* credentials file is the atomic map of the protocol: every step saves or
\* clears one credential, is the operator's, or is invisible.
THEOREM FileImplementsStore == SingleWriter => (Spec => ImplementsTokenStore)
<1> SUFFICES ASSUME SingleWriter PROVE Spec => ImplementsTokenStore
  OBVIOUS
<1>1. Init => NotOvertaken
  BY DEF Init, NotOvertaken, Writing
<1>2. Init => Store!Init
  BY DEF Init, Store!Init, Store!Empty, Empty
<1>3. IInv /\ NotOvertaken /\ [Next]_vars => NotOvertaken'
  BY NotOvertakenInvariance
<1>4. IInv /\ IInv' /\ NotOvertaken /\ [Next]_vars => [Store!Next]_(Store!vars)
  BY StepsAreAtomic
<1> QED
  BY <1>1, <1>2, <1>3, <1>4, InvInit, Invariance, PTL DEF Spec, Store!Spec,
     ImplementsTokenStore
=============================================================================
