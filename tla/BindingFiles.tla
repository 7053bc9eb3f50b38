---------------------------- MODULE BindingFiles ----------------------------
(***************************************************************************)
(* YAMLWriter.write() by several writers into one directory.  Each works   *)
(* off its batch; a file is written under a temporary name made of its own *)
(* name and the process id, and moved into place.  The file is verified,   *)
(* and given to the caller's verifiers if it passes.                       *)
(*                                                                         *)
(* External: the operating system, which may refuse a call or kill a       *)
(* process.                                                                *)
(***************************************************************************)
EXTENDS Naturals, Sequences

CONSTANTS
  Writers,
  Process,   \* the process a writer is a thread of
  Modules,
  MaxBatch,  \* bound on the modules of a batch
  Batch,     \* the modules a writer is to write, in order
  Files,     \* file names
  Safe,      \* the file name the sanitised identifier of a module gives
  Numbered,  \* a file name with a number appended to the identifier
  Links,     \* file names at which somebody planted a symbolic link
  Accepted,  \* modules the verifiers of the caller accept
  None

\* An inode is named after the writer and the module it was created for.
Inodes == Writers \X (1..MaxBatch)
Processes == {Process[w] : w \in Writers}

ASSUME ConstantsAssumption ==
  /\ MaxBatch \in Nat
  /\ \A w \in Writers : Batch[w] \in Seq(Modules) /\ Len(Batch[w]) <= MaxBatch
  /\ Safe \in [Modules -> Files] /\ Numbered \in [Files \X (1..MaxBatch) -> Files]
  /\ None \notin Inodes \cup Files \cup Modules

VARIABLES
  pc,         \* where a writer is with its module
  results,    \* what a writer's batch has led to so far: [file, verified]
  names,      \* written_names
  file,       \* the name it writes the present module to
  open,       \* the inode it has open
  directory,  \* the inode a file name leads to
  temporary,  \* the inode the temporary name of a file and a process leads to
  inode       \* what an inode holds: [holds, module]

batch == <<results, names, file>>
disk == <<directory, temporary, inode>>
vars == <<pc, batch, open, disk>>

Ended == {"done", "failed", "killed"}
Position(w) == Len(results[w]) + 1

\* Slip: all processes use one temporary name.
TemporaryOfAll(w) == <<file[w], CHOOSE p \in Processes : TRUE>>

Temporary(w) == <<file[w], Process[w]>>

NameOf(m, n) == IF n = 0 THEN Safe[m] ELSE Numbered[Safe[m], n]

Init ==
  /\ pc = [w \in Writers |-> "choosing"]
  /\ results = [w \in Writers |-> <<>>]
  /\ names = [w \in Writers |-> {}]
  /\ file = [w \in Writers |-> None]
  /\ open = [w \in Writers |-> None]
  /\ directory = [f \in Files |-> None]
  /\ temporary = [t \in Files \X Processes |-> None]
  /\ inode = [i \in Inodes |-> [holds |-> "nothing", module |-> None]]

Goes(w, place) == pc' = [pc EXCEPT ![w] = place]
Reports(w, verified) ==
  results' = [results EXCEPT ![w] = Append(@, [file |-> file'[w], verified |-> verified])]
Writes(w, holds) ==
  inode' = [inode EXCEPT ![open[w]] = [holds |-> holds, module |-> Batch[w][Position(w)]]]

-----------------------------------------------------------------------------
\* Slip: one number is tried.
ChooseOnce(w) ==
  /\ pc[w] = "choosing" /\ Position(w) <= Len(Batch[w])
  /\ \E n \in 0..1 :
       /\ n = 0 <=> Safe[Batch[w][Position(w)]] \notin names[w]
       /\ file' = [file EXCEPT ![w] = NameOf(Batch[w][Position(w)], n)]
  /\ names' = [names EXCEPT ![w] = @ \cup {file'[w]}]
  /\ IF file'[w] \in Links
     THEN Reports(w, FALSE) /\ UNCHANGED pc
     ELSE Goes(w, "opening") /\ UNCHANGED results
  /\ UNCHANGED <<open, disk>>

\* The first number nobody in the batch has; a link there is left alone, and
\* the module reported unverified.
Choose(w) ==
  /\ pc[w] = "choosing" /\ Position(w) <= Len(Batch[w])
  /\ \E n \in 0..MaxBatch :
       /\ NameOf(Batch[w][Position(w)], n) \notin names[w]
       /\ \A k \in 0..(n - 1) : NameOf(Batch[w][Position(w)], k) \in names[w]
       /\ file' = [file EXCEPT ![w] = NameOf(Batch[w][Position(w)], n)]
  /\ names' = [names EXCEPT ![w] = @ \cup {file'[w]}]
  /\ IF file'[w] \in Links
     THEN Reports(w, FALSE) /\ UNCHANGED pc
     ELSE Goes(w, "opening") /\ UNCHANGED results
  /\ UNCHANGED <<open, disk>>

Finish(w) ==
  /\ pc[w] = "choosing" /\ Position(w) > Len(Batch[w])
  /\ Goes(w, "done")
  /\ UNCHANGED <<batch, open, disk>>

\* open(tmp_path, "w"): a file of that name is emptied, not replaced.
Open(w) ==
  /\ pc[w] = "opening"
  /\ open' = [open EXCEPT ![w] = IF temporary[Temporary(w)] = None
                                 THEN <<w, Position(w)>> ELSE temporary[Temporary(w)]]
  /\ temporary' = [temporary EXCEPT ![Temporary(w)] = open'[w]]
  /\ inode' = [inode EXCEPT ![open'[w]] = [holds |-> "nothing", module |-> None]]
  /\ Goes(w, "writing")
  /\ UNCHANGED <<batch, directory>>

Write(w) ==
  /\ pc[w] = "writing"
  /\ Writes(w, "part")
  /\ Goes(w, "syncing")
  /\ UNCHANGED <<batch, open, directory, temporary>>

\* The rest is written and fsync returns.  Where somebody else writes too, or
\* has emptied the file, the whole need not come of it.
Sync(w) ==
  /\ pc[w] = "syncing"
  /\ \/ Writes(w, "whole")
     \/ \E v \in Writers \ {w} : open[v] = open[w] /\ Writes(w, "part")
  /\ Goes(w, "replacing")
  /\ UNCHANGED <<batch, open, directory, temporary>>

\* os.replace() of whatever now has the temporary name.
Replace(w) ==
  /\ pc[w] = "replacing" /\ temporary[Temporary(w)] # None
  /\ directory' = [directory EXCEPT ![file[w]] = temporary[Temporary(w)]]
  /\ temporary' = [temporary EXCEPT ![Temporary(w)] = None]
  /\ Goes(w, "verifying")
  /\ UNCHANGED <<batch, open, inode>>

\* WriteError ends the batch, and its results are lost; the temporary name is
\* removed, whoever has made it since, if the system lets it.
WriteFails(w) ==
  /\ pc[w] \in {"opening", "writing", "syncing", "replacing"}
  /\ \/ UNCHANGED temporary
     \/ temporary' = [temporary EXCEPT ![Temporary(w)] = None]
  /\ Goes(w, "failed")
  /\ UNCHANGED <<batch, open, directory, inode>>

\* YAMLVerifier, which a document cut short may or may not pass, and then
\* run_verifier_chain.
Verify(w) ==
  /\ pc[w] = "verifying"
  /\ \E parses \in {inode[directory[file[w]]].holds = "whole", inode[directory[file[w]]].holds # "nothing"} :
       /\ UNCHANGED <<names, file>>
       /\ Reports(w, parses /\ Batch[w][Position(w)] \in Accepted)
  /\ Goes(w, "choosing")
  /\ UNCHANGED <<open, disk>>

Kill(p) ==
  /\ \E w \in Writers : Process[w] = p /\ pc[w] \notin Ended
  /\ pc' = [w \in Writers |-> IF Process[w] = p /\ pc[w] \notin Ended THEN "killed" ELSE pc[w]]
  /\ UNCHANGED <<batch, open, disk>>

WriterStep(w) ==
  Choose(w) \/ Finish(w) \/ Open(w) \/ Write(w) \/ Sync(w) \/ Replace(w) \/ WriteFails(w) \/ Verify(w)

Next == (\E w \in Writers : WriterStep(w)) \/ (\E p \in Processes : Kill(p))

Spec == Init /\ [][Next]_vars

-----------------------------------------------------------------------------
TypeOK ==
  /\ pc \in [Writers -> {"choosing", "opening", "writing", "syncing", "replacing", "verifying"} \cup Ended]
  /\ results \in [Writers -> Seq([file : Files, verified : BOOLEAN])]
  /\ names \in [Writers -> SUBSET Files]
  /\ file \in [Writers -> Files \cup {None}]
  /\ open \in [Writers -> Inodes \cup {None}]
  /\ directory \in [Files -> Inodes \cup {None}]
  /\ temporary \in [Files \X Processes -> Inodes \cup {None}]
  /\ inode \in [Inodes -> [holds : {"nothing", "part", "whole"}, module : Modules \cup {None}]]

\* Two threads of one process have come to write a file of the same name.
Shared(f) ==
  \E v, w \in Writers : v # w /\ Process[v] = Process[w] /\ f \in names[v] \cap names[w]

\* Whoever looks at a binding file at any time, killed writers and failed ones
\* among the past, sees a whole document, unless two threads of one process
\* have come to write it: the temporary name is all that keeps writers apart
\* (YAMLWriter.write, "a crash mid-write leaves a partial YAML file").
WholeUnlessShared ==
  \A f \in Files : directory[f] # None /\ ~Shared(f) => inode[directory[f]].holds = "whole"

\* No module of a batch is lost to another of the batch: once reported, its
\* file is its own in the batch, and holds it as long as no other writer has
\* come to the same name; a link is neither followed nor replaced
\* (written_names, is_symlink).
NoModuleIsLost ==
  \A w \in Writers : \A k \in DOMAIN results[w] :
    LET f == results[w][k].file IN
    /\ \A j \in 1..(k - 1) : results[w][j].file # f
    /\ f \in Links => directory[f] = None
    /\ f \notin Links /\ (\A v \in Writers \ {w} : f \notin names[v]) =>
         directory[f] # None /\ inode[directory[f]].module = Batch[w][k]
=============================================================================
