-------------------------- MODULE FileTokenStore ---------------------------
(***************************************************************************)
(* FileTokenStore of auth/store.py: one JSON file holding a record per     *)
(* store key, used by several processes at once.  No operation holds a     *)
(* lock, so each is the sequence of its system calls: look whether the     *)
(* file is there, check its mode, read it, change one record in memory,    *)
(* write a temporary file and rename it over the old one.                  *)
(*                                                                         *)
(* External: the file system, which may refuse a read or a write, and the  *)
(* operator, who may remove the file, ruin it, or change its mode.         *)
(***************************************************************************)
EXTENDS Naturals

CONSTANTS
  Processes,       \* the processes sharing the file
  Keys, Tokens, None,
  ReadsMayFail,    \* whether reading an existing file may raise OSError
  OperatorRaces,   \* whether the operator acts while operations run
  MaxOperations,   \* bound on the operations of a process
  MaxMeddling,     \* bound on the operator's actions
  MaxCrashes       \* bound on the crashes

ASSUME ConstantsAssumption ==
  /\ None \notin Tokens
  /\ ReadsMayFail \in BOOLEAN /\ OperatorRaces \in BOOLEAN
  /\ MaxOperations \in Nat /\ MaxMeddling \in Nat /\ MaxCrashes \in Nat

VARIABLES
  file,       \* the published file
  pc,         \* where each process is in its operation
  call,       \* the operation it is in: load, save or clear, with arguments
  copy,       \* the records it holds in memory
  base,       \* history: the version it read, or Unread
  temp,       \* its temporary file
  result,     \* how its last operation ended
  orphans,    \* temporary files no process will remove any more
  operations, \* operations begun by each process
  meddling,   \* operator actions so far
  crashes     \* crashes so far

vars == <<file, pc, call, copy, base, temp, result, orphans, operations, meddling, crashes>>
counters == <<operations, meddling, crashes>>

Empty == [k \in Keys |-> None]
Records == [Keys -> Tokens \cup {None}]
Unread == 0

Calls == [op : {"load", "clear"}, key : Keys, token : {None}]
           \cup [op : {"save"}, key : Keys, token : Tokens]

\* The version is history: it tells apart successive states of the file and
\* counts from one, so that no version is Unread.
File == [state : {"absent", "garbled", "json", "partial"}, records : Records,
         loose : BOOLEAN, version : Nat \ {Unread}]

Init ==
  /\ file = [state |-> "absent", records |-> Empty, loose |-> FALSE, version |-> 1]
  /\ pc = [p \in Processes |-> "idle"]
  /\ call \in [Processes -> {c \in Calls : c.op = "load"}]
  /\ copy = [p \in Processes |-> Empty]
  /\ base = [p \in Processes |-> Unread]
  /\ temp = [p \in Processes |-> "none"]
  /\ result = [p \in Processes |-> "none"]
  /\ orphans = 0
  /\ operations = [p \in Processes |-> 0]
  /\ meddling = 0 /\ crashes = 0

Goto(p, place) == pc' = [pc EXCEPT ![p] = place]

\* The operation returns or raises; its locals are gone.
Return(p, r) ==
  /\ Goto(p, "idle")
  /\ result' = [result EXCEPT ![p] = r]

-----------------------------------------------------------------------------
(* load(), save() and clear() begin; clear() looks for the file first.     *)

Begin(p, c) ==
  /\ pc[p] = "idle"
  /\ operations[p] < MaxOperations
  /\ operations' = [operations EXCEPT ![p] = @ + 1]
  /\ call' = [call EXCEPT ![p] = c]
  /\ Goto(p, IF c.op = "clear" THEN "clearing" ELSE "opening")
  /\ base' = [base EXCEPT ![p] = Unread]
  /\ result' = [result EXCEPT ![p] = "none"]
  /\ UNCHANGED <<file, copy, temp, orphans, meddling, crashes>>

ClearLooks(p) ==
  /\ pc[p] = "clearing"
  /\ IF file.state = "absent" THEN Return(p, "done")
                              ELSE Goto(p, "opening") /\ result' = result
  /\ UNCHANGED <<file, call, copy, base, temp, orphans, counters>>

-----------------------------------------------------------------------------
(* _read_all() and what the operation does with the records.               *)

\* Slip: save starts from an empty map instead of the records it read.
UseRecordsFresh(p, records) ==
  LET c == call[p] IN
  \/ c.op = "load" /\ Return(p, "done") /\ copy' = [copy EXCEPT ![p] = records]
  \/ c.op = "clear" /\ Return(p, "done") /\ copy' = copy
  \/ /\ c.op = "save"
     /\ Goto(p, "creating") /\ result' = result
     /\ copy' = [copy EXCEPT ![p] = [Empty EXCEPT ![c.key] = c.token]]

\* load returns the record; save and clear change one record and write, but
\* clear returns at once if there is nothing to remove.
UseRecords(p, records) ==
  LET c == call[p] IN
  \/ c.op = "load" /\ Return(p, "done") /\ copy' = [copy EXCEPT ![p] = records]
  \/ c.op = "clear" /\ records[c.key] = None /\ Return(p, "done") /\ copy' = copy
  \/ /\ c.op = "save" \/ (c.op = "clear" /\ records[c.key] # None)
     /\ Goto(p, "creating") /\ result' = result
     /\ copy' = [copy EXCEPT ![p] = [records EXCEPT ![c.key] = c.token]]

Open(p) ==
  /\ pc[p] = "opening"
  /\ IF file.state = "absent"
     THEN UseRecords(p, Empty) /\ base' = [base EXCEPT ![p] = file.version]
     ELSE Goto(p, "permitting") /\ UNCHANGED <<result, copy, base>>
  /\ UNCHANGED <<file, call, temp, orphans, counters>>

\* _assert_permissions: stat() raises if the file has gone meanwhile.
CheckMode(p) ==
  /\ pc[p] = "permitting"
  /\ \/ file.state = "absent" /\ Return(p, "FileNotFoundError")
     \/ file.state # "absent" /\ file.loose /\ Return(p, "CredentialPermissionError")
     \/ file.state # "absent" /\ ~file.loose /\ Goto(p, "reading") /\ result' = result
  /\ UNCHANGED <<file, call, copy, base, temp, orphans, counters>>

\* A file that is gone, ruined or unreadable is treated as empty.
Read(p) ==
  /\ pc[p] = "reading"
  /\ \/ /\ UseRecords(p, IF file.state = "json" THEN file.records ELSE Empty)
        /\ base' = [base EXCEPT ![p] = file.version]
     \/ /\ ReadsMayFail
        /\ UseRecords(p, Empty)
        /\ UNCHANGED base
  /\ UNCHANGED <<file, call, temp, orphans, counters>>

-----------------------------------------------------------------------------
(* _write_all().                                                           *)

CreateTemp(p) ==
  /\ pc[p] = "creating"
  /\ \/ /\ temp' = [temp EXCEPT ![p] = "partial"]
        /\ Goto(p, "writing") /\ result' = result
     \/ Return(p, "OSError") /\ UNCHANGED temp
  /\ UNCHANGED <<file, call, copy, base, orphans, counters>>

WriteTemp(p) ==
  /\ pc[p] = "writing"
  /\ temp' = [temp EXCEPT ![p] = "complete"]
  /\ Goto(p, "replacing")
  /\ UNCHANGED <<file, call, copy, base, result, orphans, counters>>

\* Slip: the temporary file is not removed when writing it fails.
WriteFailsKeeping(p) ==
  /\ pc[p] \in {"writing", "replacing"}
  /\ Return(p, "OSError")
  /\ UNCHANGED <<file, call, copy, base, temp, orphans, counters>>

\* Slip: the credentials file is removed instead of the temporary one.
WriteFailsWrongFile(p) ==
  /\ pc[p] \in {"writing", "replacing"}
  /\ file' = [file EXCEPT !.state = "absent", !.records = Empty, !.loose = FALSE]
  /\ temp' = [temp EXCEPT ![p] = "none"]
  /\ Return(p, "OSError")
  /\ UNCHANGED <<call, copy, base, orphans, counters>>

WriteFails(p) ==
  /\ pc[p] \in {"writing", "replacing"}
  /\ temp' = [temp EXCEPT ![p] = "none"]
  /\ Return(p, "OSError")
  /\ UNCHANGED <<file, call, copy, base, orphans, counters>>

Publish(p) ==
  /\ file' = [state |-> IF temp[p] = "complete" THEN "json" ELSE "partial",
              records |-> copy[p], loose |-> FALSE, version |-> file.version + 1]
  /\ temp' = [temp EXCEPT ![p] = "none"]
  /\ Return(p, "done")
  /\ UNCHANGED <<call, copy, base, orphans, counters>>

\* Slip: renamed before the content has been written and flushed.
ReplaceEarly(p) == pc[p] \in {"writing", "replacing"} /\ Publish(p)

Replace(p) == pc[p] = "replacing" /\ Publish(p)

-----------------------------------------------------------------------------
\* A process is killed between two steps: a temporary file stays behind.
Crash(p) ==
  /\ pc[p] # "idle" /\ crashes < MaxCrashes
  /\ crashes' = crashes + 1
  /\ orphans' = IF temp[p] = "none" THEN orphans ELSE orphans + 1
  /\ temp' = [temp EXCEPT ![p] = "none"]
  /\ Return(p, "killed")
  /\ UNCHANGED <<file, call, copy, base, operations, meddling>>

OperatorActs ==
  /\ meddling < MaxMeddling
  /\ OperatorRaces \/ \A p \in Processes : pc[p] = "idle"
  /\ file.state # "absent"
  /\ meddling' = meddling + 1
  /\ \/ file' = [file EXCEPT !.state = "absent", !.records = Empty, !.loose = FALSE,
                             !.version = @ + 1]
     \/ file' = [file EXCEPT !.state = "garbled", !.records = Empty, !.version = @ + 1]
     \/ file' = [file EXCEPT !.loose = ~@]
  /\ UNCHANGED <<pc, call, copy, base, temp, result, orphans, operations, crashes>>

Step(p) ==
  \/ \E c \in Calls : Begin(p, c)
  \/ ClearLooks(p) \/ Open(p) \/ CheckMode(p) \/ Read(p)
  \/ CreateTemp(p) \/ WriteTemp(p) \/ WriteFails(p) \/ Replace(p)
  \/ Crash(p)

Next == OperatorActs \/ \E p \in Processes : Step(p)

Spec == Init /\ [][Next]_vars

-----------------------------------------------------------------------------
TypeOK ==
  /\ file \in File
  /\ pc \in [Processes -> {"idle", "clearing", "opening", "permitting", "reading",
                           "creating", "writing", "replacing"}]
  /\ call \in [Processes -> Calls]
  /\ copy \in [Processes -> Records]
  /\ base \in [Processes -> Nat]
  /\ temp \in [Processes -> {"none", "partial", "complete"}]
  /\ result \in [Processes -> {"none", "done", "killed", "OSError",
                               "FileNotFoundError", "CredentialPermissionError"}]
  /\ orphans \in 0..MaxCrashes
  /\ operations \in [Processes -> 0..MaxOperations]
  /\ meddling \in 0..MaxMeddling
  /\ crashes \in 0..MaxCrashes

\* "A reader never observes a half-written file": whatever is interleaved,
\* whoever is killed and whichever write fails (store.py:112-115).
WholeFile == file.state # "partial"

\* A temporary file belongs to a running operation or to a process that was
\* killed: failures clean up after themselves (store.py:206-208).
TemporariesAreOwned ==
  /\ \A p \in Processes : temp[p] # "none" <=> pc[p] \in {"writing", "replacing"}
  /\ orphans <= crashes

Publishes(p) == pc[p] = "replacing" /\ pc'[p] = "idle" /\ file'.version # file.version

\* A write that nobody overtook changes its own record and no other one.
UndisturbedWriteIsExact ==
  [][\A p \in Processes :
       Publishes(p) /\ base[p] = file.version =>
         file'.records = [file.records EXCEPT ![call[p].key] = call[p].token]]_vars

\* An operation that ended with an error has not touched the file.
FailureChangesNothing ==
  [][\A p \in Processes :
       result'[p] # result[p] /\ result'[p] \notin {"none", "done"} => file' = file]_vars

\* Credentials for several providers coexist in one file without collision
\* (store.py:56-57): a record changes only by an operation on its own key.
KeysCoexist ==
  [][\A p \in Processes, k \in Keys :
       Publishes(p) /\ k # call[p].key => file'.records[k] = file.records[k]]_vars

-----------------------------------------------------------------------------
Store == INSTANCE TokenStore WITH
  records <- IF file.state = "json" THEN file.records ELSE Empty,
  interventions <- meddling

\* For one writer at a time, with a readable file and an operator who waits,
\* the file implements the atomic map of the TokenStore protocol, through
\* crashes and failed writes.
ImplementsTokenStore == Store!Spec
=============================================================================
