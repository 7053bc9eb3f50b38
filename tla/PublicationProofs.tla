------------------------- MODULE PublicationProofs -------------------------
(***************************************************************************)
(* For any number of writers, processes, modules and loaders: binding      *)
(* files are whole and no module of a batch is lost to another; a load     *)
(* that succeeds is whole and in order; and whatever is registered, the    *)
(* reports and the registry agree.                                         *)
(*                                                                         *)
(* The argument follows an inode.  It is made for one module of one        *)
(* writer, and all its life it is at that module's file name, or at the    *)
(* temporary name of it and the writer's process, or in the hands of the   *)
(* threads that have that temporary name (Placed).  A writer that shares   *)
(* the name with no thread of its process is alone with the inode.  What   *)
(* it holds is of a module that the name can be of (Filled), so that this  *)
(* is what a loader gets, whenever it reads.                               *)
(***************************************************************************)
EXTENDS Publication, TLAPS

Holding(w) == pc[w] \in {"writing", "syncing", "replacing"}
Busy(w) == pc[w] \in {"opening", "writing", "syncing", "replacing", "verifying"}

\* The inode has been made.
Used(i) ==
  \/ i[2] < Position(i[1])
  \/ i[2] = Position(i[1]) /\ pc[i[1]] \notin {"choosing", "opening"}

\* The name its writer chose for its module.
FileOf(i) == IF i[2] < Position(i[1]) THEN results[i[1]][i[2]].file ELSE file[i[1]]

Placed(i, f) == i \in Inodes /\ Used(i) /\ FileOf(i) = f /\ f \in names[i[1]]

Named ==
  /\ \A w \in Writers : Busy(w) => file[w] \in names[w] /\ Position(w) <= Len(Batch[w])
  /\ \A w \in Writers : Len(results[w]) <= Len(Batch[w])
  /\ \A w \in Writers : \A k \in DOMAIN results[w] : results[w][k].file \in names[w]

InPlace ==
  /\ \A w \in Writers : Holding(w) =>
       Placed(open[w], file[w]) /\ Process[open[w][1]] = Process[w]
  /\ \A f \in Files : directory[f] # None => Placed(directory[f], f)
  /\ \A f \in Files, p \in Processes : temporary[<<f, p>>] # None =>
       Placed(temporary[<<f, p>>], f) /\ Process[temporary[<<f, p>>][1]] = p

\* Every inode a writer has ever had open was that of a name it had.
Opened ==
  \A w \in Writers : open[w] # None =>
    \E f \in names[w] : Placed(open[w], f) /\ Process[open[w][1]] = Process[w]

\* A temporary file nobody shares is in the hands of the writer it was made
\* for, unless that one has ended and left it behind.
Owned ==
  \A f \in Files, p \in Processes : temporary[<<f, p>>] # None /\ ~Shared(f) =>
    LET i == temporary[<<f, p>>] IN
    pc[i[1]] \in Ended \/ (Holding(i[1]) /\ open[i[1]] = i)

Finished ==
  \A w \in Writers : pc[w] = "replacing" /\ ~Shared(file[w]) => inode[open[w]].holds = "whole"

Settled ==
  \A f \in Files : directory[f] # None /\ ~Shared(f) =>
    /\ inode[directory[f]].holds = "whole"
    /\ \A w \in Writers : Holding(w) => open[w] # directory[f]

IInv == TypeOK /\ Named /\ InPlace /\ Opened /\ Owned /\ Finished /\ Settled

-----------------------------------------------------------------------------
LEMMA InodesAreNotNone == \A i \in Inodes : i # None /\ i = <<i[1], i[2]>> /\ i[1] \in Writers /\ i[2] \in Nat
  BY ConstantsAssumption DEF Inodes

LEMMA Initially == Init => IInv
<1> SUFFICES ASSUME Init PROVE IInv
  OBVIOUS
<1>1. TypeOK
  <2>1. inode \in [Inodes -> [holds : {"nothing", "part", "whole"}, module : Modules \cup {None}]]
    BY DEF Init
  <2>2. results \in [Writers -> Seq([file : Files, verified : BOOLEAN])]
    BY DEF Init
  <2> QED
    BY <2>1, <2>2 DEF Init, TypeOK, Ended
<1>2. Named
  BY DEF Init, Named, Busy
<1>3. \A w \in Writers : ~Holding(w) /\ pc[w] # "replacing"
  BY DEF Init, Holding
<1>4. \A f \in Files : directory[f] = None /\ \A p \in Processes : temporary[<<f, p>>] = None
  BY DEF Init
<1>5. Opened
  BY DEF Init, Opened
<1> QED
  BY <1>1, <1>2, <1>3, <1>4, <1>5 DEF IInv, InPlace, Owned, Finished, Settled

\* Names are never given back, and numbers lead to file names.
LEMMA NameIsFile ==
  ASSUME NEW m \in Modules, NEW n \in 0..MaxBatch
  PROVE  NameOf(m, n) \in Files
<1>1. CASE n = 0
  BY <1>1, ConstantsAssumption DEF NameOf
<1>2. CASE n # 0
  <2>1. <<Safe[m], n>> \in Files \X (1..MaxBatch)
    <3>1. n \in 1..MaxBatch
      BY <1>2, ConstantsAssumption
    <3>2. Safe[m] \in Files
      BY ConstantsAssumption
    <3> QED
      BY <3>1, <3>2
  <2> QED
    BY <1>2, <2>1, ConstantsAssumption DEF NameOf
<1> QED
  BY <1>1, <1>2

LEMMA CurrentIsModule ==
  ASSUME TypeOK, NEW w \in Writers, Position(w) <= Len(Batch[w])
  PROVE  /\ Position(w) \in 1..MaxBatch
         /\ Batch[w][Position(w)] \in Modules
         /\ <<w, Position(w)>> \in Inodes
  BY ConstantsAssumption DEF TypeOK, Position, Inodes

\* What the actions have in common: names only grow, and an inode that was
\* made keeps its name.
Growth ==
  /\ \A w \in Writers : names[w] \subseteq names'[w]
  /\ \A i \in Inodes : Used(i) => Used(i)' /\ FileOf(i)' = FileOf(i)

LEMMA SharingStays ==
  ASSUME TypeOK, Growth, NEW f, Shared(f)
  PROVE  Shared(f)'
  BY DEF Growth, Shared, TypeOK

LEMMA PlacesStay ==
  ASSUME TypeOK, Growth, NEW i, NEW f, Placed(i, f)
  PROVE  Placed(i, f)'
  BY InodesAreNotNone DEF Growth, Placed, TypeOK, Inodes
-----------------------------------------------------------------------------
\* The thread that came to the name of an inode, in the process it was made
\* in, is the one it was made for, unless the name is shared.
LEMMA OwnerIsAlone ==
  ASSUME NEW f, ~Shared(f), NEW i, Placed(i, f), NEW v \in Writers,
         f \in names[v], Process[i[1]] = Process[v]
  PROVE  i[1] = v
  BY InodesAreNotNone DEF Shared, Placed

\* An inode that is being made anew is nowhere yet.
LEMMA FreshIsNowhere ==
  ASSUME TypeOK, NEW w \in Writers, pc[w] \in {"choosing", "opening"}, NEW f
  PROVE  ~Placed(<<w, Position(w)>>, f)
  BY DEF Placed, Used, TypeOK, Position

\* A report is appended to those of its writer.
Appended(w, e) ==
  /\ results' \in [Writers -> Seq([file : Files, verified : BOOLEAN])]
  /\ \A v \in Writers \ {w} : results'[v] = results[v]
  /\ Len(results'[w]) = Len(results[w]) + 1
  /\ \A k \in 1..Len(results[w]) : k \in 1..Len(results'[w]) /\ results'[w][k] = results[w][k]
  /\ \A k \in DOMAIN results'[w] :
       \/ k \in DOMAIN results[w] /\ results'[w][k] = results[w][k]
       \/ k = Len(results[w]) + 1 /\ results'[w][k] = e

LEMMA ReportEffect ==
  ASSUME TypeOK, NEW w \in Writers, NEW e \in [file : Files, verified : BOOLEAN],
         results' = [results EXCEPT ![w] = Append(@, e)]
  PROVE  Appended(w, e)
<1> DEFINE R == [file : Files, verified : BOOLEAN]
<1>1. results[w] \in Seq(R)
  BY DEF TypeOK
<1>2. results'[w] = Append(results[w], e) /\ \A v \in Writers \ {w} : results'[v] = results[v]
  BY DEF TypeOK
<1> HIDE DEF R
<1>3. e \in R
  BY DEF R
<1>4. /\ Append(results[w], e) \in Seq(R) /\ Len(Append(results[w], e)) = Len(results[w]) + 1
      /\ \A k \in 1..Len(results[w]) : Append(results[w], e)[k] = results[w][k]
      /\ Append(results[w], e)[Len(results[w]) + 1] = e
      /\ DOMAIN Append(results[w], e) = 1..(Len(results[w]) + 1)
      /\ DOMAIN results[w] = 1..Len(results[w]) /\ Len(results[w]) \in Nat
  BY <1>1, <1>3
<1>5. results' \in [Writers -> Seq(R)]
  <2>1. results' \in [Writers -> Seq(R)] <=> \A v \in Writers : results'[v] \in Seq(R)
    BY DEF TypeOK, R
  <2> QED
    BY <1>2, <1>4, <2>1 DEF TypeOK, R
<1>6. /\ Len(results'[w]) = Len(results[w]) + 1
      /\ \A k \in 1..Len(results[w]) : k \in 1..Len(results'[w]) /\ results'[w][k] = results[w][k]
  BY <1>2, <1>4
<1>7. \A k \in DOMAIN results'[w] :
        \/ k \in DOMAIN results[w] /\ results'[w][k] = results[w][k]
        \/ k = Len(results[w]) + 1 /\ results'[w][k] = e
  BY <1>2, <1>4
<1>8. results' \in [Writers -> Seq([file : Files, verified : BOOLEAN])]
  BY <1>5 DEF R
<1> QED
  BY <1>2, <1>6, <1>7, <1>8 DEF Appended

\* What was opened stays where it was.
LEMMA OpenedStays ==
  ASSUME TypeOK, Growth, Opened, UNCHANGED open
  PROVE  Opened'
<1> SUFFICES ASSUME NEW w \in Writers, open[w] # None
             PROVE  \E f \in names'[w] : Placed(open[w], f)' /\ Process[open[w][1]] = Process[w]
  BY DEF Opened
<1>1. PICK f \in names[w] : Placed(open[w], f) /\ Process[open[w][1]] = Process[w]
  BY DEF Opened
<1>2. PICK i : i = open[w] /\ i = open'[w]
  OBVIOUS
<1>3. Placed(i, f)'
  BY <1>1, <1>2, PlacesStay
<1> QED
  BY <1>1, <1>2, <1>3 DEF Growth

LEMMA ChooseKeeps ==
  ASSUME IInv, NEW w \in Writers, Choose(w)
  PROVE  IInv' /\ Growth
<1> USE DEF IInv
<1> DEFINE m == Batch[w][Position(w)]
<1>1. m \in Modules /\ Position(w) \in 1..MaxBatch
  BY CurrentIsModule DEF Choose
<1>2. PICK n \in 0..MaxBatch :
        /\ NameOf(m, n) \notin names[w]
        /\ file' = [file EXCEPT ![w] = NameOf(m, n)]
  BY DEF Choose
<1>3. file'[w] \in Files /\ file'[w] = NameOf(m, n)
  BY <1>1, <1>2, NameIsFile DEF TypeOK
<1>4. names' = [names EXCEPT ![w] = @ \cup {file'[w]}]
  BY DEF Choose
<1>5. \/ results' = [results EXCEPT ![w] = Append(@, [file |-> file'[w], verified |-> FALSE])] /\ pc' = pc
      \/ results' = results /\ pc' = [pc EXCEPT ![w] = "opening"]
  BY DEF Choose, Reports, Goes
<1>R. /\ results' \in [Writers -> Seq([file : Files, verified : BOOLEAN])]
      /\ results'[w] = results[w] \/ Len(results'[w]) = Len(results[w]) + 1
      /\ \A v \in Writers \ {w} : results'[v] = results[v]
      /\ \A k \in 1..Len(results[w]) : k \in 1..Len(results'[w]) /\ results'[w][k] = results[w][k]
      /\ \A k \in DOMAIN results'[w] :
           \/ results'[w][k].file = file'[w]
           \/ k \in DOMAIN results[w] /\ results'[w][k] = results[w][k]
  <2>1. CASE results' = results
    BY <2>1 DEF TypeOK
  <2>2. CASE results' = [results EXCEPT ![w] = Append(@, [file |-> file'[w], verified |-> FALSE])]
    <3> DEFINE e == [file |-> file'[w], verified |-> FALSE]
    <3>1. e \in [file : Files, verified : BOOLEAN] /\ e.file = file'[w]
      BY <1>3
    <3>2. results' = [results EXCEPT ![w] = Append(@, e)]
      BY <2>2
    <3> HIDE DEF e
    <3>3. Appended(w, e)
      BY <3>1, <3>2, ReportEffect
    <3> QED
      BY <3>1, <3>3 DEF Appended
  <2> QED
    BY <1>5, <2>1, <2>2
<1>6. TypeOK'
  <2>1. pc' \in [Writers -> {"choosing", "opening", "writing", "syncing", "replacing", "verifying"} \cup Ended]
    BY <1>5 DEF TypeOK
  <2>2. names' \in [Writers -> SUBSET Files] /\ file' \in [Writers -> Files \cup {None}]
    BY <1>2, <1>3, <1>4 DEF TypeOK
  <2> QED
    BY <1>R, <2>1, <2>2 DEF Choose, TypeOK, disk
<1>7. Growth
  <2>1. \A v \in Writers : v # w => results'[v] = results[v] /\ pc'[v] = pc[v] /\ file'[v] = file[v]
    BY <1>2, <1>5 DEF TypeOK
  <2>3. ASSUME NEW i \in Inodes, Used(i) PROVE Used(i)' /\ FileOf(i)' = FileOf(i)
    <3>1. CASE i[1] = w
      <4>1. i[2] \in 1..Len(results[w])
        BY <2>3, <3>1 DEF Used, Choose, Position, Inodes, TypeOK
      <4> QED
        BY <1>R, <3>1, <4>1, <1>6 DEF Used, FileOf, Position, TypeOK
    <3>2. CASE i[1] # w
      BY <2>1, <2>3, <3>2, InodesAreNotNone DEF Used, FileOf, Position
    <3> QED
      BY <3>1, <3>2
  <2> QED
    BY <1>4, <2>3 DEF Growth, TypeOK
<1>8. Named'
  <2>1. \A v \in Writers \ {w} : results'[v] = results[v] /\ names'[v] = names[v] /\ file'[v] = file[v] /\ pc'[v] = pc[v]
    BY <1>2, <1>4, <1>5 DEF TypeOK
  <2>2. Busy(w)' => file'[w] \in names'[w] /\ Position(w)' <= Len(Batch[w])
    BY <1>3, <1>4, <1>5 DEF Busy, Position, Choose, TypeOK
  <2>3. ASSUME NEW k \in DOMAIN results'[w] PROVE results'[w][k].file \in names'[w]
    BY <1>3, <1>4, <1>R, <2>3 DEF Named, TypeOK
  <2>4. Len(results'[w]) <= Len(Batch[w])
    BY <1>R DEF Choose, Position, Named
  <2> QED
    BY <2>1, <2>2, <2>3, <2>4 DEF Named, Busy, Position
<1>9. /\ \A v \in Writers : Holding(v)' => Holding(v) /\ file'[v] = file[v] /\ pc'[v] = pc[v]
      /\ \A v \in Writers : v # w => pc'[v] = pc[v]
      /\ pc[w] = "choosing" /\ UNCHANGED <<open, directory, temporary, inode>>
  BY <1>2, <1>5 DEF Choose, Holding, disk, TypeOK
<1>10. InPlace'
  BY <1>7, <1>9, PlacesStay DEF InPlace
<1>11. Owned'
  <2> SUFFICES ASSUME NEW f \in Files, NEW p \in Processes, temporary[<<f, p>>] # None, ~Shared(f)'
               PROVE  LET i == temporary[<<f, p>>] IN
                      pc'[i[1]] \in Ended \/ (Holding(i[1])' /\ open[i[1]] = i)
    BY <1>9 DEF Owned
  <2> DEFINE i == temporary[<<f, p>>]
  <2>1. pc[i[1]] \in Ended \/ (Holding(i[1]) /\ open[i[1]] = i)
    BY <1>7, SharingStays DEF Owned
  <2>2. i[1] \in Writers
    BY InodesAreNotNone DEF InPlace, Placed
  <2> QED
    BY <1>9, <2>1, <2>2 DEF Holding, Ended
<1>12. Finished'
  <2> SUFFICES ASSUME NEW v \in Writers, pc'[v] = "replacing", (~Shared(file[v]))'
               PROVE  inode[open[v]].holds = "whole"
    BY <1>9 DEF Finished
  <2>1. Holding(v)' /\ pc[v] = "replacing" /\ file'[v] = file[v]
    BY <1>9 DEF Holding
  <2>2. file[v] \in Files
    BY <1>9, <2>1 DEF Named, Busy, TypeOK
  <2> QED
    BY <1>7, <2>1, <2>2, SharingStays DEF Finished
<1>13. Settled'
  BY <1>7, <1>9, SharingStays DEF Settled
<1>20. Opened'
  BY <1>7, <1>9, OpenedStays
<1> QED
  BY <1>20, <1>6, <1>7, <1>8, <1>10, <1>11, <1>12, <1>13
-----------------------------------------------------------------------------
\* Most steps leave the batches alone and take no writer back to a choice.
Onwards ==
  /\ UNCHANGED batch
  /\ \A v \in Writers : pc[v] \notin {"choosing", "opening"} => pc'[v] \notin {"choosing", "opening"}

LEMMA OnwardsGrows ==
  ASSUME TypeOK, Onwards
  PROVE  Growth /\ (\A f : Shared(f)' <=> Shared(f))
  BY InodesAreNotNone DEF Onwards, Growth, Used, FileOf, Position, Shared, batch

LEMMA FinishKeeps ==
  ASSUME IInv, NEW w \in Writers, Finish(w)
  PROVE  IInv'
<1> USE DEF IInv
<1>1. /\ Onwards /\ pc' = [pc EXCEPT ![w] = "done"] /\ pc[w] = "choosing"
      /\ UNCHANGED <<results, names, file, open, directory, temporary, inode>>
  BY DEF Finish, Onwards, batch, disk, Goes, TypeOK
<1>2. TypeOK'
  BY <1>1 DEF TypeOK, Ended
<1>3. /\ \A v \in Writers : Holding(v)' <=> Holding(v)
      /\ \A v \in Writers : pc'[v] = pc[v] \/ pc'[v] \in Ended
  BY <1>1 DEF Holding, TypeOK, Ended
<1>4. Named'
  BY <1>1, <1>3 DEF Named, Busy, Position, Ended
<1>5. InPlace'
  BY <1>1, <1>3, OnwardsGrows, PlacesStay DEF InPlace
<1>6. Owned'
  <2> SUFFICES ASSUME NEW f \in Files, NEW p \in Processes, temporary[<<f, p>>] # None, ~Shared(f)
               PROVE  LET i == temporary[<<f, p>>] IN
                      pc'[i[1]] \in Ended \/ (Holding(i[1])' /\ open[i[1]] = i)
    BY <1>1, OnwardsGrows DEF Owned
  <2> DEFINE i == temporary[<<f, p>>]
  <2>1. i[1] \in Writers /\ (pc[i[1]] \in Ended \/ (Holding(i[1]) /\ open[i[1]] = i))
    BY InodesAreNotNone DEF Owned, InPlace, Placed
  <2> QED
    BY <1>1, <1>3, <2>1
<1>7. Finished'
  BY <1>1, <1>3, OnwardsGrows DEF Finished, Ended
<1>8. Settled'
  BY <1>1, <1>3, OnwardsGrows DEF Settled
<1>20. Opened'
  BY <1>1, OnwardsGrows, OpenedStays
<1> QED
  BY <1>20, <1>2, <1>4, <1>5, <1>6, <1>7, <1>8

LEMMA KillKeeps ==
  ASSUME IInv, NEW q \in Processes, Kill(q)
  PROVE  IInv'
<1> USE DEF IInv
<1>1. /\ Onwards
      /\ \A v \in Writers : pc'[v] = pc[v] \/ pc'[v] = "killed"
      /\ \A v \in Writers : pc[v] \in Ended => pc'[v] \in Ended
      /\ UNCHANGED <<results, names, file, open, directory, temporary, inode>>
  BY DEF Kill, Onwards, batch, disk, TypeOK, Ended
<1>2. TypeOK'
  BY <1>1 DEF TypeOK, Ended, Kill
<1>3. \A v \in Writers : Holding(v)' => Holding(v)
  BY <1>1 DEF Holding
<1>4. Named'
  BY <1>1 DEF Named, Busy, Position
<1>5. InPlace'
  BY <1>1, <1>3, OnwardsGrows, PlacesStay DEF InPlace
<1>6. Owned'
  <2> SUFFICES ASSUME NEW f \in Files, NEW p \in Processes, temporary[<<f, p>>] # None, ~Shared(f)
               PROVE  LET i == temporary[<<f, p>>] IN
                      pc'[i[1]] \in Ended \/ (Holding(i[1])' /\ open[i[1]] = i)
    BY <1>1, OnwardsGrows DEF Owned
  <2> DEFINE i == temporary[<<f, p>>]
  <2>1. i[1] \in Writers /\ (pc[i[1]] \in Ended \/ (Holding(i[1]) /\ open[i[1]] = i))
    BY InodesAreNotNone DEF Owned, InPlace, Placed
  <2> QED
    BY <1>1, <2>1 DEF Holding, Ended
<1>7. Finished'
  BY <1>1, OnwardsGrows DEF Finished
<1>8. Settled'
  BY <1>1, <1>3, OnwardsGrows DEF Settled
<1>20. Opened'
  BY <1>1, OnwardsGrows, OpenedStays
<1> QED
  BY <1>20, <1>2, <1>4, <1>5, <1>6, <1>7, <1>8

LEMMA WriteFailsKeeps ==
  ASSUME IInv, NEW w \in Writers, WriteFails(w)
  PROVE  IInv'
<1> USE DEF IInv
<1>1. /\ Onwards /\ pc' = [pc EXCEPT ![w] = "failed"]
      /\ pc[w] \in {"opening", "writing", "syncing", "replacing"}
      /\ UNCHANGED <<results, names, file, open, directory, inode>>
  BY DEF WriteFails, Onwards, batch, Goes, TypeOK
<1>2. /\ temporary' \in [Files \X Processes -> Inodes \cup {None}]
      /\ \A f \in Files, p \in Processes :
           temporary'[<<f, p>>] = None \/ temporary'[<<f, p>>] = temporary[<<f, p>>]
  BY DEF WriteFails, TypeOK
<1>3. TypeOK'
  BY <1>1, <1>2 DEF TypeOK, Ended
<1>4. /\ \A v \in Writers : Holding(v)' => Holding(v)
      /\ \A v \in Writers : pc'[v] = pc[v] \/ pc'[v] \in Ended
  BY <1>1 DEF Holding, TypeOK, Ended
<1>5. Named'
  BY <1>1, <1>4 DEF Named, Busy, Position, Ended
<1>6. InPlace'
  BY <1>1, <1>2, <1>4, OnwardsGrows, PlacesStay DEF InPlace
<1>7. Owned'
  <2> SUFFICES ASSUME NEW f \in Files, NEW p \in Processes, NEW i,
                      i = temporary'[<<f, p>>], i # None, ~Shared(f)
               PROVE  pc'[i[1]] \in Ended \/ (Holding(i[1])' /\ open[i[1]] = i)
    BY <1>1, OnwardsGrows DEF Owned
  <2>1. i = temporary[<<f, p>>]
    BY <1>2
  <2>2. i[1] \in Writers /\ (pc[i[1]] \in Ended \/ (Holding(i[1]) /\ open[i[1]] = i))
    BY <2>1, InodesAreNotNone DEF Owned, InPlace, Placed
  <2> QED
    BY <1>4, <2>1, <2>2 DEF Holding, Ended
<1>8. Finished'
  BY <1>1, <1>4, OnwardsGrows DEF Finished, Ended
<1>9. Settled'
  BY <1>1, <1>4, OnwardsGrows DEF Settled
<1>20. Opened'
  BY <1>1, OnwardsGrows, OpenedStays
<1> QED
  BY <1>20, <1>3, <1>5, <1>6, <1>7, <1>8, <1>9

LEMMA OpenKeeps ==
  ASSUME IInv, NEW w \in Writers, Open(w)
  PROVE  /\ IInv'
         /\ ~Shared(file[w]) => open'[w] = <<w, Position(w)>>
         /\ \E i \in Inodes : /\ Placed(i, file[w])'
                              /\ inode' = [inode EXCEPT ![i] = [holds |-> "nothing", module |-> None]]
<1> USE DEF IInv
<1> DEFINE new == <<w, Position(w)>>
           old == temporary[<<file[w], Process[w]>>]
<1>1. /\ pc[w] = "opening" /\ pc' = [pc EXCEPT ![w] = "writing"]
      /\ Onwards /\ UNCHANGED <<results, names, file, directory>>
      /\ new \in Inodes
      /\ file[w] \in names[w] /\ file[w] \in Files /\ Process[w] \in Processes
  <2>1. pc[w] = "opening" /\ pc' = [pc EXCEPT ![w] = "writing"] /\ UNCHANGED <<results, names, file, directory>>
    BY DEF Open, Goes, batch
  <2>2. file[w] \in names[w] /\ file[w] \in Files /\ new \in Inodes
    BY <2>1, CurrentIsModule DEF Named, Busy, TypeOK
  <2> QED
    BY <2>1, <2>2 DEF Onwards, batch, TypeOK, Processes
<1>2. PICK i \in Inodes :
        /\ i = IF old = None THEN new ELSE old
        /\ open' = [open EXCEPT ![w] = i]
        /\ temporary' = [temporary EXCEPT ![<<file[w], Process[w]>>] = i]
        /\ inode' = [inode EXCEPT ![i] = [holds |-> "nothing", module |-> None]]
  <2>1. open'[w] = IF old = None THEN new ELSE old
    BY DEF Open, Temporary, TypeOK
  <2>2. open'[w] \in Inodes
    BY <1>1, <2>1 DEF TypeOK
  <2> QED
    BY <2>1, <2>2 DEF Open, Temporary
<1>3. TypeOK'
  <2>1. inode' \in [Inodes -> [holds : {"nothing", "part", "whole"}, module : Modules \cup {None}]]
    BY <1>2 DEF TypeOK
  <2> QED
    BY <1>1, <1>2, <2>1 DEF TypeOK
<1>4. /\ \A v \in Writers \ {w} : (Holding(v)' <=> Holding(v)) /\ open'[v] = open[v] /\ pc'[v] = pc[v]
      /\ ~Holding(w) /\ pc'[w] = "writing" /\ open'[w] = i
  BY <1>1, <1>2 DEF Holding, TypeOK
<1>5. Named'
  BY <1>1, <1>4 DEF Named, Busy, Position
<1>6. Placed(i, file[w])' /\ Process[i[1]] = Process[w]
  <2>1. CASE old = None
    BY <1>1, <1>2, <1>4, <2>1 DEF Placed, Used, FileOf, Position
  <2>2. CASE old # None
    <3>1. Placed(old, file[w]) /\ Process[old[1]] = Process[w]
      BY <1>1, <2>2 DEF InPlace
    <3> QED
      BY <1>1, <1>2, <2>2, <3>1, OnwardsGrows, PlacesStay
  <2> QED
    BY <2>1, <2>2
<1>7. InPlace'
  <2>1. ASSUME NEW f \in Files, NEW p \in Processes, temporary'[<<f, p>>] # None
        PROVE  Placed(temporary[<<f, p>>], f)' /\ Process[temporary'[<<f, p>>][1]] = p
    BY <1>1, <1>2, <1>6, <2>1, OnwardsGrows, PlacesStay DEF InPlace, TypeOK
  <2>2. ASSUME NEW v \in Writers, Holding(v)'
        PROVE  Placed(open[v], file[v])' /\ Process[open'[v][1]] = Process[v]
    BY <1>1, <1>4, <1>6, <2>2, OnwardsGrows, PlacesStay DEF InPlace
  <2>3. ASSUME NEW f \in Files, directory[f] # None
        PROVE  Placed(directory[f], f)'
    BY <1>1, <2>3, OnwardsGrows, PlacesStay DEF InPlace
  <2> QED
    BY <1>1, <2>1, <2>2, <2>3 DEF InPlace
\* A temporary file that is emptied belongs to another thread.
<1>8. ~Shared(file[w]) => i = new
  <2> SUFFICES ASSUME ~Shared(file[w]), old # None PROVE FALSE
    BY <1>2
  <2>1. Placed(old, file[w]) /\ Process[old[1]] = Process[w]
    BY <1>1 DEF InPlace
  <2>2. old[1] = w
    BY <1>1, <2>1, OwnerIsAlone
  <2> QED
    BY <1>1, <2>2 DEF Owned, Holding, Ended
<1>9. Owned'
  <2> SUFFICES ASSUME NEW f \in Files, NEW p \in Processes, NEW k,
                      k = temporary'[<<f, p>>], k # None, ~Shared(f)
               PROVE  pc'[k[1]] \in Ended \/ (Holding(k[1])' /\ open'[k[1]] = k)
    BY <1>1, OnwardsGrows DEF Owned
  <2>1. CASE <<f, p>> = <<file[w], Process[w]>>
    <3>1. f = file[w] /\ k = i
      BY <1>2, <2>1 DEF TypeOK
    <3>2. k[1] = w
      BY <1>8, <3>1
    <3> QED
      BY <1>4, <3>1, <3>2 DEF Holding
  <2>2. CASE <<f, p>> # <<file[w], Process[w]>>
    <3>1. k = temporary[<<f, p>>]
      BY <1>2, <2>2 DEF TypeOK
    <3>2. k[1] \in Writers /\ (pc[k[1]] \in Ended \/ (Holding(k[1]) /\ open[k[1]] = k))
      BY <3>1, InodesAreNotNone DEF Owned, InPlace, Placed
    <3>3. k[1] # w
      BY <1>1, <3>2 DEF Holding, Ended
    <3> QED
      BY <1>4, <3>2, <3>3
  <2> QED
    BY <2>1, <2>2
<1>10. Finished'
  <2> SUFFICES ASSUME NEW v \in Writers, pc'[v] = "replacing", ~Shared(file[v])
               PROVE  inode'[open'[v]].holds = "whole"
    BY <1>1, OnwardsGrows DEF Finished
  <2>1. v # w /\ Holding(v) /\ pc[v] = "replacing" /\ open'[v] = open[v]
    BY <1>4 DEF Holding
  <2>2. Placed(open[v], file[v]) /\ Process[open[v][1]] = Process[v] /\ file[v] \in names[v] /\ file[v] \in Files
    BY <2>1 DEF InPlace, Named, Busy, TypeOK
  <2>3. open[v] # i
    <3> SUFFICES ASSUME open[v] = i PROVE FALSE
      OBVIOUS
    <3>1. Placed(i, file[v])' /\ ~Shared(file[v])
      BY <1>1, <2>2, OnwardsGrows, PlacesStay
    <3>2. file[v] = file[w]
      BY <1>1, <1>6, <3>1 DEF Placed
    <3> QED
      BY <1>1, <1>6, <2>1, <2>2, <3>2 DEF Shared
  <2>4. inode[open[v]].holds = "whole"
    BY <2>1 DEF Finished
  <2> QED
    BY <1>2, <2>1, <2>2, <2>3, <2>4 DEF TypeOK, Placed
<1>11. Settled'
  <2> SUFFICES ASSUME NEW f \in Files, directory[f] # None, ~Shared(f)
               PROVE  /\ inode'[directory[f]].holds = "whole"
                      /\ \A v \in Writers : Holding(v)' => open'[v] # directory[f]
    BY <1>1, OnwardsGrows DEF Settled
  <2>1. Placed(directory[f], f)
    BY DEF InPlace
  <2>2. directory[f] # i
    <3> SUFFICES ASSUME directory[f] = i PROVE FALSE
      OBVIOUS
    <3>1. Placed(i, f)'
      BY <2>1, <1>1, OnwardsGrows, PlacesStay
    <3>2. f = file[w]
      BY <1>1, <1>6, <3>1 DEF Placed
    <3> QED
      BY <1>1, <1>8, <2>1, <3>2, FreshIsNowhere
  <2> QED
    BY <1>2, <1>4, <2>1, <2>2 DEF Settled, TypeOK, Placed
<1>12. Opened'
  <2> SUFFICES ASSUME NEW v \in Writers, NEW k, k = open'[v], k # None
               PROVE  \E f \in names[v] : Placed(k, f)' /\ Process[k[1]] = Process[v]
    BY <1>1 DEF Opened
  <2>1. CASE v = w
    BY <1>1, <1>4, <1>6, <2>1
  <2>2. CASE v # w
    <3>1. PICK f \in names[v] : Placed(k, f) /\ Process[k[1]] = Process[v]
      BY <1>4, <2>2 DEF Opened
    <3> QED
      BY <1>1, <3>1, OnwardsGrows, PlacesStay
  <2> QED
    BY <2>1, <2>2
<1> QED
  BY <1>2, <1>4, <1>6, <1>8, <1>12, <1>3, <1>5, <1>7, <1>9, <1>10, <1>11

\* Two writers with one inode have come to write one name in one process.
LEMMA TwoHoldersShare ==
  ASSUME IInv, NEW v \in Writers, NEW w \in Writers, v # w, Holding(w), open[v] = open[w]
  PROVE  Shared(file[w])
<1>1. Placed(open[w], file[w]) /\ Process[open[w][1]] = Process[w] /\ file[w] \in names[w]
  BY DEF IInv, InPlace, Named, Busy, Holding
<1>2. PICK f \in names[v] : Placed(open[w], f) /\ Process[open[w][1]] = Process[v]
  BY <1>1, InodesAreNotNone DEF IInv, Opened, Placed
<1> QED
  BY <1>1, <1>2 DEF Placed, Shared

LEMMA WriteOrSyncKeeps ==
  ASSUME IInv, NEW w \in Writers, Write(w) \/ Sync(w)
  PROVE  IInv'
<1> USE DEF IInv
<1>1. PICK h \in {"part", "whole"} :
        /\ inode' = [inode EXCEPT ![open[w]] = [holds |-> h, module |-> Batch[w][Position(w)]]]
        /\ Sync(w) /\ ~Shared(file[w]) => h = "whole"
  <2>1. CASE Write(w)
    BY <2>1 DEF Write, Writes, Sync
  <2>2. CASE Sync(w)
    BY <2>2, TwoHoldersShare DEF Sync, Writes, Holding
  <2> QED
    BY <2>1, <2>2
<1>2. /\ pc' = [pc EXCEPT ![w] = IF pc[w] = "writing" THEN "syncing" ELSE "replacing"]
      /\ pc[w] = "writing" \/ (pc[w] = "syncing" /\ Sync(w))
      /\ UNCHANGED <<results, names, file, open, directory, temporary>>
      /\ Onwards
  BY DEF Write, Sync, Goes, Onwards, batch, TypeOK
<1>3. /\ Batch[w][Position(w)] \in Modules
      /\ Placed(open[w], file[w]) /\ open[w] \in Inodes
      /\ file[w] \in names[w] /\ file[w] \in Files
  BY <1>2, CurrentIsModule DEF Named, Busy, InPlace, Holding, Placed, TypeOK
<1>4. TypeOK'
  <2>1. inode' \in [Inodes -> [holds : {"nothing", "part", "whole"}, module : Modules \cup {None}]]
    BY <1>1, <1>3 DEF TypeOK
  <2> QED
    BY <1>2, <2>1 DEF TypeOK
<1>5. /\ \A v \in Writers : Holding(v)' <=> Holding(v)
      /\ \A v \in Writers \ {w} : pc'[v] = pc[v]
      /\ Holding(w) /\ pc[w] # "replacing"
  BY <1>2 DEF Holding, TypeOK
<1>6. Named'
  BY <1>2, <1>5 DEF Named, Busy, Position, Holding
<1>7. InPlace'
  BY <1>2, <1>5, OnwardsGrows, PlacesStay DEF InPlace
<1>8. Owned'
  <2> SUFFICES ASSUME NEW f \in Files, NEW p \in Processes, NEW k,
                      k = temporary[<<f, p>>], k # None, ~Shared(f)
               PROVE  pc'[k[1]] \in Ended \/ (Holding(k[1])' /\ open[k[1]] = k)
    BY <1>2, OnwardsGrows DEF Owned
  <2>1. k[1] \in Writers /\ (pc[k[1]] \in Ended \/ (Holding(k[1]) /\ open[k[1]] = k))
    BY InodesAreNotNone DEF Owned, InPlace, Placed
  <2> QED
    BY <1>5, <2>1 DEF Holding, Ended
<1>9. Finished'
  <2> SUFFICES ASSUME NEW v \in Writers, pc'[v] = "replacing", ~Shared(file[v])
               PROVE  inode'[open[v]].holds = "whole"
    BY <1>2, OnwardsGrows DEF Finished
  <2>1. CASE v = w
    BY <1>1, <1>2, <1>3, <2>1 DEF TypeOK
  <2>2. CASE v # w
    <3>1. pc[v] = "replacing" /\ Holding(v) /\ open[v] # open[w]
      BY <1>5, <2>2, TwoHoldersShare DEF Holding
    <3>2. inode'[open[v]] = inode[open[v]]
      BY <1>1, <3>1 DEF InPlace, Placed, TypeOK
    <3> QED
      BY <3>1, <3>2 DEF Finished
  <2> QED
    BY <2>1, <2>2
<1>10. Settled'
  <2> SUFFICES ASSUME NEW f \in Files, directory[f] # None, ~Shared(f)
               PROVE  /\ inode'[directory[f]].holds = "whole"
                      /\ \A v \in Writers : Holding(v) => open[v] # directory[f]
    BY <1>2, <1>5, OnwardsGrows DEF Settled
  <2> QED
    BY <1>1, <1>5 DEF Settled, InPlace, Placed, TypeOK
<1>20. Opened'
  BY <1>2, OnwardsGrows, OpenedStays
<1> QED
  BY <1>20, <1>4, <1>6, <1>7, <1>8, <1>9, <1>10

LEMMA ReplaceKeeps ==
  ASSUME IInv, NEW w \in Writers, Replace(w)
  PROVE  IInv' /\ (~Shared(file[w]) => directory'[file[w]] = open[w])
<1> USE DEF IInv
<1>1. /\ pc[w] = "replacing" /\ pc' = [pc EXCEPT ![w] = "verifying"]
      /\ UNCHANGED <<results, names, file, open, inode>> /\ Onwards
      /\ file[w] \in names[w] /\ file[w] \in Files /\ Process[w] \in Processes
  BY DEF Replace, Goes, batch, Onwards, TypeOK, Named, Busy, Processes
<1>2. PICK i \in Inodes :
        /\ i = temporary[<<file[w], Process[w]>>]
        /\ directory' = [directory EXCEPT ![file[w]] = i]
        /\ temporary' = [temporary EXCEPT ![<<file[w], Process[w]>>] = None]
  BY <1>1 DEF Replace, Temporary, TypeOK
<1>3. Placed(i, file[w]) /\ Process[i[1]] = Process[w]
  BY <1>1, <1>2, InodesAreNotNone DEF InPlace
<1>4. TypeOK'
  BY <1>1, <1>2 DEF TypeOK
<1>5. /\ \A v \in Writers \ {w} : (Holding(v)' <=> Holding(v)) /\ pc'[v] = pc[v]
      /\ Holding(w) /\ ~Holding(w)' /\ pc'[w] = "verifying"
  BY <1>1 DEF Holding, TypeOK
<1>6. Named'
  BY <1>1, <1>5 DEF Named, Busy, Position
<1>7. \A f \in Files, p \in Processes :
        temporary'[<<f, p>>] # None => temporary'[<<f, p>>] = temporary[<<f, p>>] /\ <<f, p>> # <<file[w], Process[w]>>
  BY <1>1, <1>2 DEF TypeOK
<1>8. InPlace'
  <2>1. ASSUME NEW f \in Files, NEW p \in Processes, temporary'[<<f, p>>] # None
        PROVE  Placed(temporary[<<f, p>>], f)' /\ Process[temporary'[<<f, p>>][1]] = p
    <3>1. PICK k : k = temporary[<<f, p>>] /\ k = temporary'[<<f, p>>]
      BY <1>7, <2>1
    <3>2. Placed(k, f) /\ Process[k[1]] = p
      BY <2>1, <3>1 DEF InPlace
    <3> QED
      BY <1>1, <3>1, <3>2, OnwardsGrows, PlacesStay
  <2>2. ASSUME NEW v \in Writers, Holding(v)'
        PROVE  Placed(open[v], file[v])' /\ Process[open'[v][1]] = Process[v]
    BY <1>1, <1>5, <2>2, OnwardsGrows, PlacesStay DEF InPlace
  <2>3. ASSUME NEW f \in Files, directory'[f] # None
        PROVE  Placed(directory[f], f)'
    <3>1. PICK k : k = directory'[f]
      OBVIOUS
    <3>2. Placed(k, f)
      BY <1>2, <1>3, <2>3, <3>1 DEF InPlace, TypeOK
    <3> QED
      BY <1>1, <3>1, <3>2, OnwardsGrows, PlacesStay
  <2> QED
    BY <2>1, <2>2, <2>3 DEF InPlace
\* What is moved is what the writer itself has written.
<1>9. ~Shared(file[w]) => i = open[w] /\ i[1] = w
  BY <1>1, <1>2, <1>3, OwnerIsAlone, InodesAreNotNone DEF Owned, Ended
<1>10. Owned'
  <2> SUFFICES ASSUME NEW f \in Files, NEW p \in Processes, NEW k,
                      k = temporary'[<<f, p>>], k # None, ~Shared(f)
               PROVE  pc'[k[1]] \in Ended \/ (Holding(k[1])' /\ open[k[1]] = k)
    BY <1>1, OnwardsGrows DEF Owned
  <2>1. k = temporary[<<f, p>>] /\ <<f, p>> # <<file[w], Process[w]>> /\ Placed(k, f) /\ Process[k[1]] = p
    BY <1>7 DEF InPlace
  <2>2. k[1] \in Writers /\ (pc[k[1]] \in Ended \/ (Holding(k[1]) /\ open[k[1]] = k))
    BY <2>1, InodesAreNotNone DEF Owned, Placed
  <2>3. k[1] # w
    BY <1>1, <2>1, <2>2 DEF InPlace, Holding, Placed, Ended
  <2> QED
    BY <1>5, <2>2, <2>3
<1>11. Finished'
  BY <1>1, <1>5, OnwardsGrows DEF Finished
<1>12. Settled'
  <2> SUFFICES ASSUME NEW f \in Files, NEW k, k = directory'[f], k # None, ~Shared(f)
               PROVE  /\ inode[k].holds = "whole"
                      /\ \A v \in Writers : Holding(v)' => open[v] # k
    BY <1>1, OnwardsGrows DEF Settled
  <2>1. CASE f = file[w]
    <3>1. k = open[w] /\ inode[k].holds = "whole"
      BY <1>1, <1>2, <1>9, <2>1 DEF Finished, TypeOK
    <3>2. \A v \in Writers \ {w} : Holding(v) => open[v] # k
      BY <1>5, <2>1, <3>1, TwoHoldersShare
    <3> QED
      BY <1>5, <3>1, <3>2
  <2>2. CASE f # file[w]
    BY <1>2, <1>5, <2>2 DEF Settled, TypeOK
  <2> QED
    BY <2>1, <2>2
<1>20. Opened'
  BY <1>1, OnwardsGrows, OpenedStays
<1> QED
  BY <1>1, <1>2, <1>9, <1>20, <1>4, <1>6, <1>8, <1>10, <1>11, <1>12 DEF TypeOK

LEMMA VerifyKeeps ==
  ASSUME IInv, NEW w \in Writers, Verify(w)
  PROVE  IInv' /\ Growth /\ \E verified \in BOOLEAN : Appended(w, [file |-> file[w], verified |-> verified])
<1> USE DEF IInv
<1>1. /\ pc[w] = "verifying" /\ pc' = [pc EXCEPT ![w] = "choosing"]
      /\ UNCHANGED <<names, file, open, directory, temporary, inode>>
      /\ file[w] \in names[w] /\ file[w] \in Files /\ Position(w) <= Len(Batch[w])
  BY DEF Verify, Goes, disk, TypeOK, Named, Busy
<1>2. PICK e \in [file : Files, verified : BOOLEAN] :
        /\ \E verified \in BOOLEAN : e = [file |-> file[w], verified |-> verified]
        /\ e.file = file[w] /\ results' = [results EXCEPT ![w] = Append(@, e)]
  <2>1. PICK parses \in BOOLEAN : Reports(w, parses /\ Batch[w][Position(w)] \in Accepted)
    BY DEF Verify
  <2>2. PICK verified \in BOOLEAN : verified = (parses /\ Batch[w][Position(w)] \in Accepted)
    OBVIOUS
  <2>3. results' = [results EXCEPT ![w] = Append(@, [file |-> file[w], verified |-> verified])]
    BY <1>1, <2>1, <2>2 DEF Reports
  <2> QED
    BY <1>1, <2>3
<1>3. Appended(w, e)
  BY <1>2, ReportEffect
<1>4. TypeOK'
  BY <1>1, <1>3 DEF TypeOK, Appended
<1>5. Growth
  <2>1. ASSUME NEW i \in Inodes, Used(i) PROVE Used(i)' /\ FileOf(i)' = FileOf(i)
    <3>1. CASE i[1] = w
      <4>1. i[2] \in 1..Len(results[w]) \/ i[2] = Len(results[w]) + 1
        BY <2>1, <3>1 DEF Used, Position, Inodes, TypeOK
      <4>2. CASE i[2] \in 1..Len(results[w])
        BY <1>3, <3>1, <4>2 DEF Used, FileOf, Position, TypeOK, Appended
      <4>3. CASE i[2] = Len(results[w]) + 1
        <5>1. Len(results[w]) \in Nat /\ Len(results'[w]) = Len(results[w]) + 1
          BY <1>3 DEF Appended, TypeOK
        <5>2. results'[w][i[2]] = e
          BY <1>3, <1>4, <4>3, <5>1 DEF Appended, TypeOK
        <5> QED
          BY <1>1, <1>2, <3>1, <4>3, <5>1, <5>2 DEF Used, FileOf, Position
      <4> QED
        BY <4>1, <4>2, <4>3
    <3>2. CASE i[1] # w
      BY <1>1, <1>3, <2>1, <3>2, InodesAreNotNone DEF Used, FileOf, Position, Appended, TypeOK
    <3> QED
      BY <3>1, <3>2
  <2> QED
    BY <1>1, <2>1 DEF Growth
<1>6. /\ \A v \in Writers : (Holding(v)' <=> Holding(v)) /\ (Holding(v) => pc'[v] = pc[v])
      /\ \A v \in Writers \ {w} : pc'[v] = pc[v] /\ results'[v] = results[v]
      /\ ~Holding(w) /\ \A f : Shared(f)' <=> Shared(f)
  BY <1>1, <1>3 DEF Holding, TypeOK, Appended, Shared
<1>7. Named'
  <2>1. ASSUME NEW v \in Writers, NEW k \in DOMAIN results'[v] PROVE results'[v][k].file \in names[v]
    BY <1>1, <1>2, <1>3, <1>6, <2>1 DEF Named, Appended
  <2>3. ASSUME NEW v \in Writers PROVE Len(results'[v]) <= Len(Batch[v])
    BY <1>1, <1>3, <1>6 DEF Named, Appended, Position
  <2>2. ASSUME NEW v \in Writers, Busy(v)' PROVE file[v] \in names[v] /\ Position(v)' <= Len(Batch[v])
    BY <1>1, <1>6, <2>2 DEF Named, Busy, Position, TypeOK
  <2> QED
    BY <1>1, <2>1, <2>2, <2>3 DEF Named
<1>8. InPlace'
  BY <1>1, <1>5, <1>6, PlacesStay DEF InPlace
<1>9. Opened'
  BY <1>1, <1>5, OpenedStays
<1>10. Owned'
  <2> SUFFICES ASSUME NEW f \in Files, NEW p \in Processes, NEW k,
                      k = temporary[<<f, p>>], k # None, ~Shared(f)
               PROVE  pc'[k[1]] \in Ended \/ (Holding(k[1])' /\ open[k[1]] = k)
    BY <1>1, <1>6 DEF Owned
  <2>1. k[1] \in Writers /\ (pc[k[1]] \in Ended \/ (Holding(k[1]) /\ open[k[1]] = k))
    BY InodesAreNotNone DEF Owned, InPlace, Placed
  <2> QED
    BY <1>1, <1>6, <2>1 DEF Ended
<1>11. Finished'
  BY <1>1, <1>6 DEF Finished, Holding
<1>12. Settled'
  BY <1>1, <1>6 DEF Settled
<1> QED
  BY <1>2, <1>3, <1>4, <1>5, <1>7, <1>8, <1>9, <1>10, <1>11, <1>12

LEMMA Invariance == IInv /\ [Next]_vars => IInv'
<1> SUFFICES ASSUME IInv, [Next]_vars PROVE IInv'
  OBVIOUS
<1>1. CASE UNCHANGED vars
  <2> USE <1>1 DEF vars, batch, disk, IInv
  <2>1. \A i, f : Placed(i, f)' <=> Placed(i, f)
    BY DEF Placed, Used, FileOf, Position
  <2>2. \A w : (Holding(w)' <=> Holding(w)) /\ (Busy(w)' <=> Busy(w))
    BY DEF Holding, Busy
  <2>3. \A f : Shared(f)' <=> Shared(f)
    BY DEF Shared
  <2>4. TypeOK' /\ Named'
    BY <2>2 DEF TypeOK, Named, Position
  <2>5. InPlace' /\ Opened'
    BY <2>1, <2>2 DEF InPlace, Opened
  <2>6. Owned' /\ Finished' /\ Settled'
    BY <2>2, <2>3 DEF Owned, Finished, Settled
  <2> QED
    BY <2>4, <2>5, <2>6
<1>2. ASSUME NEW w \in Writers, WriterStep(w) PROVE IInv'
  BY <1>2, ChooseKeeps, FinishKeeps, OpenKeeps, WriteOrSyncKeeps, ReplaceKeeps, WriteFailsKeeps,
     VerifyKeeps DEF WriterStep
<1>3. ASSUME NEW p \in Processes, Kill(p) PROVE IInv'
  BY <1>3, KillKeeps
<1> QED
  BY <1>1, <1>2, <1>3 DEF Next

-----------------------------------------------------------------------------
\* The variables of the writers keep their types (YAMLWriter.write).
THEOREM TypeCorrect == Spec => []TypeOK
<1>1. IInv => TypeOK
  BY DEF IInv
<1> QED
  BY <1>1, Initially, Invariance, PTL DEF Spec

\* A binding file is whole whenever anybody looks at it, unless two threads of
\* one process have come to write it (YAMLWriter.write).
THEOREM FilesAreWhole == Spec => []WholeUnlessShared
<1>1. IInv => WholeUnlessShared
  BY DEF IInv, Settled, WholeUnlessShared
<1> QED
  BY <1>1, Initially, Invariance, PTL DEF Spec
-----------------------------------------------------------------------------
\* Nobody but w has come to write the name.
Sole(w, f) == \A v \in Writers \ {w} : f \notin names[v]

Carries(w, k) == inode[<<w, k>>].module = Batch[w][k]

Distinct ==
  \A w \in Writers :
    /\ \A k \in DOMAIN results[w] : \A j \in 1..(k - 1) : results[w][j].file # results[w][k].file
    /\ Busy(w) => file[w] \notin Links /\ \A k \in DOMAIN results[w] : results[w][k].file # file[w]

Unlinked == \A f \in Files \cap Links : directory[f] = None

Reported(w, k) ==
  LET f == results[w][k].file IN
  f \notin Links /\ Sole(w, f) => directory[f] = <<w, k>> /\ Carries(w, k)

UnderWay(w) ==
  Sole(w, file[w]) =>
    /\ Holding(w) => open[w] = <<w, Position(w)>>
    /\ pc[w] \in {"syncing", "replacing", "verifying"} => Carries(w, Position(w))
    /\ pc[w] = "verifying" => directory[file[w]] = <<w, Position(w)>>

Kept ==
  /\ IInv /\ Distinct /\ Unlinked
  /\ \A w \in Writers : (\A k \in DOMAIN results[w] : Reported(w, k)) /\ UnderWay(w)

LEMMA SoleIsNotShared ==
  ASSUME IInv, NEW w \in Writers, NEW f \in names[w], Sole(w, f)
  PROVE  ~Shared(f)
BY DEF Sole, Shared

LEMMA KeptInitially == Init => Kept
<1> SUFFICES ASSUME Init PROVE Kept
  OBVIOUS
<1>1. \A w \in Writers : pc[w] = "choosing" /\ results[w] = <<>> /\ ~Busy(w) /\ ~Holding(w)
  BY DEF Init, Busy, Holding
<1>2. \A f \in Files : directory[f] = None
  BY DEF Init
<1> QED
  BY <1>1, <1>2, Initially DEF Kept, Distinct, Unlinked, Reported, UnderWay

\* A writer leaves the files and inodes of every other name alone.
LEMMA OthersUntouched ==
  ASSUME IInv, NEW w \in Writers, WriterStep(w), NEW f \in Files, Busy(w) => file[w] # f
  PROVE  /\ directory'[f] = directory[f]
         /\ \A i \in Inodes : Placed(i, f) => inode'[i] = inode[i]
<1> USE DEF IInv
<1>1. CASE Choose(w) \/ Finish(w) \/ WriteFails(w) \/ Verify(w)
  BY <1>1 DEF Choose, Finish, WriteFails, Verify, disk
<1>2. CASE Open(w)
  <2>1. PICK i \in Inodes : Placed(i, file[w])' /\ inode' = [inode EXCEPT ![i] = [holds |-> "nothing", module |-> None]]
    BY <1>2, OpenKeeps
  <2>2. Growth /\ directory' = directory /\ file' = file /\ pc[w] = "opening"
    BY <1>2, OnwardsGrows DEF Open, Onwards, Goes, batch, TypeOK
  <2>3. ASSUME NEW j \in Inodes, Placed(j, f) PROVE j # i
    BY <2>1, <2>2, <2>3, PlacesStay DEF Placed, Busy
  <2> QED
    BY <2>1, <2>2, <2>3 DEF TypeOK
<1>3. CASE Write(w) \/ Sync(w)
  <2>1. Placed(open[w], file[w]) /\ Busy(w) /\ directory' = directory
    BY <1>3 DEF Write, Sync, InPlace, Holding, Busy
  <2>2. \E e : inode' = [inode EXCEPT ![open[w]] = e]
    BY <1>3 DEF Write, Sync, Writes
  <2> QED
    BY <2>1, <2>2 DEF Placed, TypeOK
<1>4. CASE Replace(w)
  BY <1>4 DEF Replace, Busy, TypeOK
<1> QED
  BY <1>1, <1>2, <1>3, <1>4 DEF WriterStep

\* What a step of a writer leaves of the others.
LEMMA OthersStay ==
  ASSUME TypeOK, NEW w \in Writers, WriterStep(w), NEW v \in Writers \ {w}
  PROVE  /\ pc'[v] = pc[v] /\ results'[v] = results[v] /\ names'[v] = names[v]
         /\ file'[v] = file[v] /\ open'[v] = open[v]
<1>1. CASE Choose(w)
  BY <1>1 DEF Choose, Reports, Goes, TypeOK
<1>2. CASE Finish(w) \/ Open(w) \/ Write(w) \/ Sync(w) \/ Replace(w) \/ WriteFails(w)
  BY <1>2 DEF Finish, Open, Write, Sync, Replace, WriteFails, Goes, batch, TypeOK
<1>3. CASE Verify(w)
  BY <1>3 DEF Verify, Reports, Goes, TypeOK
<1> QED
  BY <1>1, <1>2, <1>3 DEF WriterStep

LEMMA OwnNames ==
  ASSUME TypeOK, NEW w \in Writers, WriterStep(w)
  PROVE  \A v \in Writers : names[v] \subseteq names'[v]
<1>1. CASE Choose(w)
  BY <1>1 DEF Choose, TypeOK
<1>2. CASE ~Choose(w)
  BY <1>2 DEF WriterStep, Finish, Open, Write, Sync, Replace, WriteFails, Verify, batch
<1> QED
  BY <1>1, <1>2

LEMMA ReportsArePlaced ==
  ASSUME IInv, NEW w \in Writers, NEW k \in DOMAIN results[w]
  PROVE  /\ <<w, k>> \in Inodes /\ Placed(<<w, k>>, results[w][k].file)
         /\ results[w][k].file \in Files /\ results[w][k].file \in names[w]
<1> USE DEF IInv
<1>1. k \in 1..Len(results[w]) /\ Len(results[w]) \in Nat
  BY DEF TypeOK
<1>2. results[w][k].file \in names[w] /\ results[w][k].file \in Files
  BY DEF Named, TypeOK
<1>3. <<w, k>> \in Inodes
  BY <1>1, ConstantsAssumption DEF Inodes, Named
<1> QED
  BY <1>1, <1>2, <1>3 DEF Placed, Used, FileOf, Position

LEMMA ReportsStay ==
  ASSUME Kept, NEW w \in Writers, WriterStep(w), IInv', NEW v \in Writers, NEW k \in DOMAIN results[v],
         k \in DOMAIN results'[v], results'[v][k] = results[v][k]
  PROVE  Reported(v, k)'
<1> USE DEF Kept
<1> DEFINE f == results[v][k].file
<1>1. <<v, k>> \in Inodes /\ Placed(<<v, k>>, f) /\ f \in Files /\ f \in names[v]
  BY ReportsArePlaced
<1>2. SUFFICES ASSUME f \notin Links, Sole(v, f)'
               PROVE  directory'[f] = <<v, k>> /\ inode'[<<v, k>>].module = Batch[v][k]
  BY DEF Reported, Carries
<1>3. Sole(v, f)
  BY <1>2, OwnNames DEF Sole, IInv
<1>4. Busy(w) => file[w] # f
  BY <1>1, <1>3 DEF Sole, Distinct, IInv, Named
<1>5. directory'[f] = directory[f] /\ inode'[<<v, k>>] = inode[<<v, k>>]
  BY <1>1, <1>4, OthersUntouched
<1>6. directory[f] = <<v, k>> /\ inode[<<v, k>>].module = Batch[v][k]
  BY <1>2, <1>3 DEF Reported, Carries
<1> QED
  BY <1>5, <1>6

LEMMA UnderWayStays ==
  ASSUME Kept, NEW w \in Writers, WriterStep(w), NEW v \in Writers \ {w}
  PROVE  UnderWay(v)'
<1> USE DEF Kept
<1>1. /\ pc'[v] = pc[v] /\ results'[v] = results[v] /\ file'[v] = file[v] /\ open'[v] = open[v]
      /\ Position(v)' = Position(v)
  BY OthersStay DEF IInv, Position
<1>2. SUFFICES ASSUME Sole(v, file[v])', pc[v] \in {"writing", "syncing", "replacing", "verifying"}
               PROVE  /\ pc[v] \in {"syncing", "replacing", "verifying"} => Carries(v, Position(v))'
                      /\ pc[v] = "verifying" => directory'[file[v]] = <<v, Position(v)>>
                      /\ Holding(v) => open[v] = <<v, Position(v)>>
  BY <1>1 DEF UnderWay, Holding
<1>3. /\ file[v] \in Files /\ file[v] \in names[v] /\ <<v, Position(v)>> \in Inodes
      /\ Placed(<<v, Position(v)>>, file[v])
  <2>1. Busy(v) /\ Position(v) <= Len(Batch[v]) /\ file[v] \in Files /\ file[v] \in names[v]
    BY <1>2 DEF IInv, Named, Busy, TypeOK
  <2>2. <<v, Position(v)>> \in Inodes /\ Position(v) \in Nat
    BY <2>1, CurrentIsModule DEF IInv
  <2> QED
    BY <1>2, <2>1, <2>2 DEF Placed, Used, FileOf
<1>4. Sole(v, file[v]) /\ (Busy(w) => file[w] # file[v])
  BY <1>1, <1>2, <1>3, OwnNames DEF Sole, IInv, Named
<1> QED
  BY <1>1, <1>2, <1>3, <1>4, OthersUntouched DEF UnderWay, Carries

LEMMA ChooseEffect ==
  ASSUME IInv, NEW w \in Writers, Choose(w)
  PROVE  /\ file'[w] \notin names[w]
         /\ \/ /\ pc'[w] = "opening" /\ file'[w] \notin Links /\ results' = results
            \/ /\ pc'[w] = "choosing" /\ file'[w] \in Links
               /\ \E e : e.file = file'[w] /\ Appended(w, e)
<1> USE DEF IInv
<1>1. Batch[w][Position(w)] \in Modules /\ pc[w] = "choosing"
  BY CurrentIsModule DEF Choose
<1>2. PICK n \in 0..MaxBatch :
        /\ NameOf(Batch[w][Position(w)], n) \notin names[w]
        /\ file' = [file EXCEPT ![w] = NameOf(Batch[w][Position(w)], n)]
  BY DEF Choose
<1>3. file'[w] \in Files /\ file'[w] \notin names[w]
  BY <1>1, <1>2, NameIsFile DEF TypeOK
<1>4. CASE file'[w] \notin Links
  BY <1>3, <1>4 DEF Choose, Goes, TypeOK
<1>5. CASE file'[w] \in Links
  <2> DEFINE e == [file |-> file'[w], verified |-> FALSE]
  <2>1. e \in [file : Files, verified : BOOLEAN] /\ e.file = file'[w]
    BY <1>3
  <2>2. results' = [results EXCEPT ![w] = Append(@, e)] /\ pc' = pc
    BY <1>5 DEF Choose, Reports
  <2> HIDE DEF e
  <2>3. Appended(w, e)
    BY <2>1, <2>2, ReportEffect
  <2> QED
    BY <1>1, <1>3, <1>5, <2>1, <2>2, <2>3
<1> QED
  BY <1>4, <1>5

\* A report that is appended is that of a name no report has.
LEMMA AppendedIsDistinct ==
  ASSUME Kept, NEW w \in Writers, NEW e, Appended(w, e),
         \A k \in DOMAIN results[w] : results[w][k].file # e.file
  PROVE  \A k \in DOMAIN results'[w] : \A j \in 1..(k - 1) : results'[w][j].file # results'[w][k].file
<1>1. DOMAIN results[w] = 1..Len(results[w]) /\ Len(results[w]) \in Nat
  BY DEF Kept, IInv, TypeOK
<1> SUFFICES ASSUME NEW k \in DOMAIN results'[w], NEW j \in 1..(k - 1)
             PROVE  results'[w][j].file # results'[w][k].file
  OBVIOUS
<1>2. CASE k \in DOMAIN results[w] /\ results'[w][k] = results[w][k]
  <2>1. j \in 1..Len(results[w]) /\ results'[w][j] = results[w][j]
    BY <1>1, <1>2 DEF Appended
  <2> QED
    BY <1>2, <2>1 DEF Kept, Distinct
<1>3. CASE k = Len(results[w]) + 1 /\ results'[w][k] = e
  <2>1. j \in 1..Len(results[w]) /\ j \in DOMAIN results[w]
    BY <1>1, <1>3
  <2>2. results'[w][j] = results[w][j]
    BY <2>1 DEF Appended
  <2> QED
    BY <1>3, <2>1, <2>2
<1> QED
  BY <1>2, <1>3 DEF Appended

LEMMA DistinctStays ==
  ASSUME Kept, NEW w \in Writers, WriterStep(w)
  PROVE  Distinct'
<1> USE DEF Kept, Distinct
<1>1. ASSUME NEW v \in Writers \ {w}
      PROVE  /\ pc'[v] = pc[v] /\ results'[v] = results[v] /\ file'[v] = file[v]
  BY OthersStay DEF IInv
<1>2. SUFFICES
        /\ \A k \in DOMAIN results'[w] : \A j \in 1..(k - 1) : results'[w][j].file # results'[w][k].file
        /\ Busy(w)' => file'[w] \notin Links /\ \A k \in DOMAIN results'[w] : results'[w][k].file # file'[w]
  BY <1>1 DEF Busy
<1>3. CASE Choose(w)
  <2>1. \A k \in DOMAIN results[w] : results[w][k].file # file'[w]
    BY <1>3, ChooseEffect DEF IInv, Named
  <2>2. CASE pc'[w] = "opening" /\ file'[w] \notin Links /\ results' = results
    BY <2>1, <2>2
  <2>3. CASE pc'[w] = "choosing" /\ \E e : e.file = file'[w] /\ Appended(w, e)
    BY <2>1, <2>3, AppendedIsDistinct DEF Busy
  <2> QED
    BY <1>3, <2>2, <2>3, ChooseEffect
<1>4. CASE Finish(w) \/ Open(w) \/ Write(w) \/ Sync(w) \/ Replace(w) \/ WriteFails(w)
  <2>1. results' = results /\ file' = file /\ (Busy(w)' => Busy(w))
    BY <1>4 DEF Finish, Open, Write, Sync, Replace, WriteFails, Goes, batch, Busy, IInv, TypeOK
  <2> QED
    BY <2>1
<1>5. CASE Verify(w)
  <2>1. PICK e : e.file = file[w] /\ Appended(w, e)
    BY <1>5, VerifyKeeps
  <2>2. Busy(w) /\ ~Busy(w)' /\ file' = file
    BY <1>5 DEF Verify, Goes, Busy, IInv, TypeOK
  <2> QED
    BY <2>1, <2>2, AppendedIsDistinct
<1> QED
  BY <1>3, <1>4, <1>5 DEF WriterStep

LEMMA UnlinkedStays ==
  ASSUME Kept, NEW w \in Writers, WriterStep(w)
  PROVE  Unlinked'
<1> SUFFICES ASSUME NEW f \in Files \cap Links PROVE directory'[f] = None
  BY DEF Unlinked
<1>1. Busy(w) => file[w] # f
  BY DEF Kept, Distinct
<1> QED
  BY <1>1, OthersUntouched DEF Kept, Unlinked

\* A file under way is the writer's own from the moment it is opened.
LEMMA UnderWayAdvances ==
  ASSUME Kept, NEW w \in Writers, WriterStep(w)
  PROVE  UnderWay(w)'
<1> USE DEF Kept, IInv
<1>1. CASE Choose(w) \/ Finish(w) \/ WriteFails(w) \/ Verify(w)
  <2>1. pc'[w] \in {"opening", "choosing", "done", "failed"}
    BY <1>1 DEF Choose, Finish, WriteFails, Verify, Goes, TypeOK
  <2> QED
    BY <2>1 DEF UnderWay, Holding
<1>2. CASE Open(w) \/ Write(w) \/ Sync(w) \/ Replace(w)
  <2> SUFFICES ASSUME Sole(w, file[w])
               PROVE  /\ Holding(w)' => open'[w] = <<w, Position(w)>>
                      /\ pc'[w] \in {"syncing", "replacing", "verifying"} =>
                           inode'[<<w, Position(w)>>].module = Batch[w][Position(w)]
                      /\ pc'[w] = "verifying" => directory'[file[w]] = <<w, Position(w)>>
    <3>1. file' = file /\ names' = names /\ results' = results
      BY <1>2 DEF Open, Write, Sync, Replace, batch
    <3> QED
      BY <3>1 DEF UnderWay, Carries, Sole, Position
  <2>1. Busy(w) /\ file[w] \in names[w] /\ ~Shared(file[w]) /\ <<w, Position(w)>> \in Inodes
    BY <1>2, SoleIsNotShared, CurrentIsModule DEF Open, Write, Sync, Replace, Busy, Named
  <2>2. CASE Open(w)
    <3>1. pc'[w] = "writing"
      BY <2>2 DEF Open, Goes, TypeOK
    <3> QED
      BY <2>1, <2>2, <3>1, OpenKeeps
  <2>3. CASE Write(w) \/ Sync(w)
    <3>1. /\ pc[w] \in {"writing", "syncing"} /\ pc'[w] \in {"syncing", "replacing"} /\ open' = open
          /\ \E h : inode' = [inode EXCEPT ![open[w]] = [holds |-> h, module |-> Batch[w][Position(w)]]]
      BY <2>3 DEF Write, Sync, Writes, Goes, TypeOK
    <3>2. open[w] = <<w, Position(w)>>
      BY <3>1 DEF UnderWay, Holding
    <3> QED
      BY <2>1, <3>1, <3>2 DEF TypeOK
  <2>4. CASE Replace(w)
    <3>1. pc[w] = "replacing" /\ pc'[w] = "verifying" /\ inode' = inode
      BY <2>4 DEF Replace, Goes, TypeOK
    <3>2. open[w] = <<w, Position(w)>> /\ Carries(w, Position(w))
      BY <3>1 DEF UnderWay, Holding
    <3> QED
      BY <2>1, <2>4, <3>1, <3>2, ReplaceKeeps DEF Carries, Holding
  <2> QED
    BY <1>2, <2>2, <2>3, <2>4
<1> QED
  BY <1>1, <1>2 DEF WriterStep

LEMMA NewReportHolds ==
  ASSUME Kept, NEW w \in Writers, WriterStep(w), NEW k \in DOMAIN results'[w],
         ~(k \in DOMAIN results[w] /\ results'[w][k] = results[w][k])
  PROVE  Reported(w, k)'
<1> USE DEF Kept, IInv
<1>1. CASE Choose(w)
  BY <1>1, ChooseEffect DEF Appended, Reported
<1>2. CASE Finish(w) \/ Open(w) \/ Write(w) \/ Sync(w) \/ Replace(w) \/ WriteFails(w)
  BY <1>2 DEF Finish, Open, Write, Sync, Replace, WriteFails, batch
<1>3. CASE Verify(w)
  <2>1. PICK e : e.file = file[w] /\ Appended(w, e)
    BY <1>3, VerifyKeeps
  <2>2. k = Position(w) /\ results'[w][k].file = file[w]
    BY <2>1 DEF Appended, Position
  <2>3. pc[w] = "verifying" /\ UNCHANGED <<names, directory, inode>>
    BY <1>3 DEF Verify, disk
  <2> QED
    BY <2>2, <2>3 DEF Reported, UnderWay, Carries, Sole
<1> QED
  BY <1>1, <1>2, <1>3 DEF WriterStep

LEMMA KeptInvariance == Kept /\ [Next]_vars => Kept'
<1> SUFFICES ASSUME Kept, [Next]_vars PROVE Kept'
  OBVIOUS
<1>1. IInv'
  BY Invariance DEF Kept
<1>2. CASE UNCHANGED vars \/ \E p \in Processes : Kill(p)
  <2>1. /\ UNCHANGED <<batch, open, disk>>
        /\ \A w \in Writers : pc'[w] = pc[w] \/ pc'[w] = "killed"
    BY <1>2 DEF vars, Kill, Kept, IInv, TypeOK
  <2>2. \A w \in Writers : (Busy(w)' => Busy(w)) /\ (Holding(w)' => Holding(w)) /\ Position(w)' = Position(w)
    BY <2>1 DEF Busy, Holding, Position, batch
  <2>3. Distinct' /\ Unlinked'
    BY <2>1, <2>2 DEF Kept, Distinct, Unlinked, batch, disk
  <2>4. \A w \in Writers : UnderWay(w)' /\ \A k \in DOMAIN results'[w] : Reported(w, k)'
    <3>1. \A w \in Writers : UnderWay(w) /\ \A k \in DOMAIN results[w] : Reported(w, k)
      BY DEF Kept
    <3>2. UNCHANGED <<results, names, file, open, directory, inode>>
      BY <2>1 DEF batch, disk
    <3>3. \A w \in Writers : \A k \in DOMAIN results'[w] : Reported(w, k)'
      BY <3>1, <3>2 DEF Reported, Carries, Sole
    <3>4. \A w \in Writers :
            pc'[w] \in {"syncing", "replacing", "verifying"} => pc[w] = pc'[w]
      BY <2>1
    <3>5. \A w \in Writers : UnderWay(w)'
      BY <2>2, <3>1, <3>2, <3>4 DEF UnderWay, Carries, Sole
    <3> QED
      BY <3>3, <3>5
  <2> QED
    BY <1>1, <2>3, <2>4 DEF Kept
<1>3. ASSUME NEW w \in Writers, WriterStep(w) PROVE Kept'
  <2>1. ASSUME NEW v \in Writers PROVE UnderWay(v)'
    BY <1>3, UnderWayAdvances, UnderWayStays
  <2>2. ASSUME NEW v \in Writers, NEW k \in DOMAIN results'[v] PROVE Reported(v, k)'
    <3>1. CASE k \in DOMAIN results[v] /\ results'[v][k] = results[v][k]
      BY <1>1, <1>3, <3>1, ReportsStay
    <3>2. CASE ~(k \in DOMAIN results[v] /\ results'[v][k] = results[v][k])
      <4>1. v = w
        BY <1>3, <2>2, <3>2, OthersStay DEF Kept, IInv
      <4> QED
        BY <1>3, <2>2, <3>2, <4>1, NewReportHolds
    <3> QED
      BY <3>1, <3>2
  <2> QED
    BY <1>1, <1>3, <2>1, <2>2, DistinctStays, UnlinkedStays DEF Kept
<1> QED
  BY <1>2, <1>3 DEF Next

\* No module of a batch is lost to another: every report names a file of its
\* own, which holds the module as long as no other writer has the name, and
\* links are left alone (written_names, is_symlink).
THEOREM ModulesAreKept == Spec => []NoModuleIsLost
<1>1. Kept => NoModuleIsLost
  <2> SUFFICES ASSUME Kept, NEW w \in Writers, NEW k \in DOMAIN results[w]
               PROVE  LET f == results[w][k].file IN
                      /\ \A j \in 1..(k - 1) : results[w][j].file # f
                      /\ f \in Links => directory[f] = None
                      /\ f \notin Links /\ (\A v \in Writers \ {w} : f \notin names[v]) =>
                           directory[f] # None /\ inode[directory[f]].module = Batch[w][k]
    BY DEF NoModuleIsLost
  <2>1. <<w, k>> \in Inodes /\ results[w][k].file \in Files
    BY ReportsArePlaced DEF Kept
  <2> DEFINE f == results[w][k].file
  <2>2. \A j \in 1..(k - 1) : results[w][j].file # f
    BY DEF Kept, Distinct
  <2>3. f \in Links => directory[f] = None
    BY <2>1 DEF Kept, Unlinked
  <2>4. f \notin Links /\ Sole(w, f) => directory[f] = <<w, k>> /\ Carries(w, k)
    BY DEF Kept, Reported
  <2> QED
    BY <2>1, <2>2, <2>3, <2>4, InodesAreNotNone DEF Carries, Sole
<1> QED
  BY <1>1, KeptInitially, KeptInvariance, PTL DEF Spec

-----------------------------------------------------------------------------
all == <<vars, loading, reports, registry>>

\* Writers are not aware of loaders.
LEMMA WritersAlone == SpecPublication => Spec
<1>1. InitPublication => Init
  BY DEF InitPublication
<1>2. [NextPublication]_all => [Next]_vars
  BY DEF NextPublication, LoaderStep, Select, ReadNext, ReadFails, LoadEnds, Register,
         RegisterFails, RegistrationEnds, all
<1> QED
  BY <1>1, <1>2, PTL DEF SpecPublication, Spec, all

\* With loaders at work, binding files are whole and no module of a batch is
\* lost (YAMLWriter.write).
THEOREM PublishedFilesAreWhole == SpecPublication => [](WholeUnlessShared /\ NoModuleIsLost)
  BY WritersAlone, FilesAreWhole, ModulesAreKept, PTL

-----------------------------------------------------------------------------
IsSequence(s) == \E S : s \in Seq(S)

LEMMA AppendToSequence ==
  ASSUME NEW s, NEW e, IsSequence(s)
  PROVE  /\ IsSequence(Append(s, e)) /\ Len(s) \in Nat /\ Len(Append(s, e)) = Len(s) + 1
         /\ DOMAIN s = 1..Len(s) /\ DOMAIN Append(s, e) = 1..(Len(s) + 1)
         /\ \A k \in 1..Len(s) : Append(s, e)[k] = s[k]
         /\ Append(s, e)[Len(s) + 1] = e
<1>1. PICK S : s \in Seq(S)
  BY DEF IsSequence
<1> DEFINE T == S \cup {e}
<1>2. s \in Seq(T) /\ e \in T
  BY <1>1
<1> HIDE DEF T
<1>3. /\ Append(s, e) \in Seq(T) /\ Len(s) \in Nat /\ Len(Append(s, e)) = Len(s) + 1
      /\ DOMAIN s = 1..Len(s) /\ DOMAIN Append(s, e) = 1..(Len(s) + 1)
      /\ \A k \in 1..Len(s) : Append(s, e)[k] = s[k]
      /\ Append(s, e)[Len(s) + 1] = e
  BY <1>2
<1> QED
  BY <1>3 DEF IsSequence

\* The registrations of a loader follow what it has loaded.
Shapes ==
  /\ stage \in [Loaders -> {"idle", "loading", "refused", "registering", "reported"}]
  /\ DOMAIN loaded = Loaders /\ DOMAIN reports = Loaders
  /\ DOMAIN registry = Modules
  /\ \A r \in Loaders : IsSequence(loaded[r]) /\ IsSequence(reports[r])

Following ==
  \A r \in Loaders :
    /\ stage[r] \in {"idle", "loading", "refused"} => reports[r] = <<>>
    /\ Len(reports[r]) <= Len(loaded[r])
    /\ stage[r] = "reported" => Len(reports[r]) = Len(loaded[r])
    /\ \A j \in DOMAIN reports[r] :
         /\ reports[r][j].module = loaded[r][j].module
         /\ reports[r][j].ok = TRUE => /\ reports[r][j].module \in Modules
                                       /\ registry[reports[r][j].module] # None
                                       /\ registry[reports[r][j].module].by = <<r, j>>
         /\ registry[reports[r][j].module] = None => reports[r][j].module \notin Resolvable

Registered ==
  \A m \in Modules : registry[m] # None =>
    \E r \in Loaders : \E j \in DOMAIN reports[r] :
      /\ registry[m].by = <<r, j>> /\ reports[r][j].module = m
      /\ registry[m].streaming => m \in AsyncStream

RInv == Shapes /\ Following /\ Registered

LEMMA RInitially == InitPublication => RInv
<1> SUFFICES ASSUME InitPublication PROVE RInv
  OBVIOUS
<1>1. IsSequence(<<>>)
  <2>1. <<>> \in Seq({})
    OBVIOUS
  <2> QED
    BY <2>1 DEF IsSequence
<1>2. Shapes
  BY <1>1 DEF InitPublication, Shapes
<1>3. Following
  BY DEF InitPublication, Following
<1>4. Registered
  BY DEF InitPublication, Registered
<1> QED
  BY <1>2, <1>3, <1>4 DEF RInv

\* Before its registrations begin, a loader has reported nothing and may
\* load anything.
LEMMA LoadingKeeps ==
  ASSUME RInv, NEW r \in Loaders, stage[r] \in {"idle", "loading"}, UNCHANGED <<reports, registry>>,
         NEW s \in {"loading", "refused", "registering"},
         stage' = [stage EXCEPT ![r] = s],
         DOMAIN loaded' = Loaders, IsSequence(loaded'[r]),
         \A q \in Loaders \ {r} : loaded'[q] = loaded[q]
  PROVE  RInv'
<1> USE DEF RInv
<1>1. stage'[r] = s /\ \A q \in Loaders \ {r} : stage'[q] = stage[q]
  BY DEF Shapes
<1>2. Shapes'
  BY <1>1 DEF Shapes
<1>3. reports[r] = <<>> /\ Len(loaded'[r]) \in Nat
  BY AppendToSequence DEF Following
<1>4. Following'
  <2>1. \A q \in Loaders \ {r} : stage'[q] = stage[q] /\ loaded'[q] = loaded[q]
    BY <1>1
  <2>2. stage'[r] # "reported" /\ DOMAIN reports[r] = {} /\ Len(reports[r]) = 0
    BY <1>1, <1>3
  <2> QED
    BY <1>3, <2>1, <2>2 DEF Following
<1>5. Registered'
  BY DEF Registered
<1> QED
  BY <1>2, <1>4, <1>5

LEMMA SelectEffect ==
  ASSUME NEW r, Select(r)
  PROVE  stage[r] = "idle" /\ Stage(r, "loading") /\ UNCHANGED <<loaded, reports, registry>>
  BY Zenon DEF Select

LEMMA LoaderReads ==
  ASSUME RInv, NEW r \in Loaders, Select(r) \/ ReadNext(r) \/ ReadFails(r) \/ LoadEnds(r)
  PROVE  RInv'
<1>1. CASE Select(r)
  BY <1>1, SelectEffect, LoadingKeeps DEF Stage, RInv, Shapes
<1>2. CASE ReadNext(r)
  <2>1. /\ stage[r] = "loading" /\ stage' = stage /\ UNCHANGED <<reports, registry>>
        /\ \E f \in unread[r] : Parses(r, f)
    BY <1>2 DEF ReadNext
  <2>2. /\ DOMAIN loaded' = Loaders /\ \A q \in Loaders \ {r} : loaded'[q] = loaded[q]
        /\ loaded'[r] = loaded[r] \/ \E e : loaded'[r] = Append(loaded[r], e)
    BY <2>1 DEF Parses, RInv, Shapes
  <2>3. IsSequence(loaded'[r])
    <3>1. IsSequence(loaded[r])
      BY DEF RInv, Shapes
    <3>2. \A e : IsSequence(Append(loaded[r], e))
      BY <3>1, AppendToSequence
    <3> QED
      BY <2>2, <3>1, <3>2
  <2>4. stage' = [stage EXCEPT ![r] = "loading"]
    BY <2>1 DEF RInv, Shapes
  <2> QED
    BY <2>1, <2>2, <2>3, <2>4, LoadingKeeps
<1>3. CASE ReadFails(r)
  <2>1. IsSequence(<<>>)
    <3>1. <<>> \in Seq({})
      OBVIOUS
    <3> QED
      BY <3>1 DEF IsSequence
  <2>2. /\ DOMAIN loaded' = Loaders /\ loaded'[r] = <<>>
        /\ \A q \in Loaders \ {r} : loaded'[q] = loaded[q]
    BY <1>3 DEF ReadFails, RInv, Shapes
  <2> QED
    BY <1>3, <2>1, <2>2, LoadingKeeps DEF ReadFails, Stage
<1>4. CASE LoadEnds(r)
  <2>1. stage[r] = "loading" /\ stage' = [stage EXCEPT ![r] = "registering"] /\ UNCHANGED <<loaded, reports, registry>>
    BY <1>4 DEF LoadEnds, Stage
  <2> QED
    BY <2>1, LoadingKeeps DEF RInv, Shapes
<1> QED
  BY <1>1, <1>2, <1>3, <1>4

\* The next module enters the registry.
Enters(r) ==
  /\ Current(r) \in Modules /\ registry[Current(r)] = None
  /\ \E streaming \in BOOLEAN :
       /\ registry' = [registry EXCEPT ![Current(r)] =
                         [by |-> <<r, Len(reports[r]) + 1>>, streaming |-> streaming]]
       /\ streaming => Current(r) \in AsyncStream

\* A report is appended, for a module that is registered by it or is not.
Registration(r, ok) ==
  /\ stage[r] = "registering" /\ Upcoming(r) <= Len(loaded[r])
  /\ Report(r, ok)
  /\ UNCHANGED loading
  /\ \/ Enters(r)
     \/ /\ registry' = registry /\ ok = FALSE
        /\ Current(r) \notin Resolvable \/ registry[Current(r)] # None

LEMMA ReportKeeps ==
  ASSUME RInv, NEW r \in Loaders, NEW ok \in BOOLEAN, Registration(r, ok)
  PROVE  RInv'
<1> USE DEF RInv
<1> DEFINE n == Len(reports[r])
           m == Current(r)
           e == [module |-> m, ok |-> ok]
<1>1. /\ n \in Nat /\ n + 1 <= Len(loaded[r]) /\ DOMAIN reports[r] = 1..n /\ m = loaded[r][n + 1].module
      /\ reports'[r] = Append(reports[r], e) /\ \A q \in Loaders \ {r} : reports'[q] = reports[q]
      /\ DOMAIN reports' = Loaders /\ UNCHANGED <<stage, loaded>>
  BY AppendToSequence DEF Registration, Report, Shapes, Upcoming, Current, loading
<1> HIDE DEF m
<1>2. /\ IsSequence(reports'[r]) /\ Len(reports'[r]) = n + 1 /\ DOMAIN reports'[r] = 1..(n + 1)
      /\ \A k \in 1..n : reports'[r][k] = reports[r][k]
      /\ reports'[r][n + 1] = e
  BY <1>1, AppendToSequence DEF Shapes
<1>3. e.module = m /\ e.ok = ok
  OBVIOUS
<1> HIDE DEF e, n
\* What was registered stays as it was.
<1>4. /\ DOMAIN registry' = Modules
      /\ \A x : registry[x] # None /\ x \in Modules => registry'[x] = registry[x]
      /\ ok = TRUE => m \in Modules /\ registry'[m].by = <<r, n + 1>> /\ registry'[m] # None
      /\ m \in Modules /\ m \in Resolvable => registry'[m] # None
      /\ \A x \in Modules : registry'[x] = registry[x] \/
           (x = m /\ registry'[m].by = <<r, n + 1>> /\ (registry'[m].streaming => m \in AsyncStream))
  <2>1. CASE registry' = registry /\ ok = FALSE /\ (m \notin Resolvable \/ registry[m] # None)
    BY <2>1 DEF Shapes
  <2>2. CASE Enters(r)
    <3>0. m \in Modules /\ registry[m] = None
      BY <2>2 DEF Enters, m
    <3>1. PICK streaming \in BOOLEAN :
            /\ registry' = [registry EXCEPT ![m] = [by |-> <<r, n + 1>>, streaming |-> streaming]]
            /\ streaming => m \in AsyncStream
      BY <2>2 DEF Enters, m, n
    <3> DEFINE entry == [by |-> <<r, n + 1>>, streaming |-> streaming]
    <3>2. entry # None /\ entry.by = <<r, n + 1>> /\ entry.streaming = streaming
      BY <1>1, PublicationAssumption
    <3>3. registry' = [registry EXCEPT ![m] = entry]
      BY <3>1
    <3> HIDE DEF entry
    <3>4. registry'[m] = entry /\ \A x \in Modules : x # m => registry'[x] = registry[x]
      BY <3>0, <3>3 DEF Shapes
    <3>5. registry'[m].streaming => m \in AsyncStream
      BY <3>1, <3>2, <3>4, Zenon
    <3> QED
      BY <3>0, <3>2, <3>3, <3>4, <3>5 DEF Shapes
  <2> QED
    <3>1. Enters(r) \/ (registry' = registry /\ ok = FALSE /\ (m \notin Resolvable \/ registry[m] # None))
      BY DEF Registration, m
    <3> QED
      BY <2>1, <2>2, <3>1
<1>5. Shapes'
  BY <1>1, <1>2, <1>4 DEF Shapes
<1>6. Following'
  <2>1. ASSUME NEW q \in Loaders \ {r}
        PROVE  /\ stage'[q] \in {"idle", "loading", "refused"} => reports'[q] = <<>>
               /\ Len(reports'[q]) <= Len(loaded'[q])
               /\ stage'[q] = "reported" => Len(reports'[q]) = Len(loaded'[q])
    BY <1>1 DEF Following
  <2>2. /\ stage'[r] = "registering" /\ Len(reports'[r]) <= Len(loaded'[r])
    BY <1>1, <1>2 DEF Registration
  <2>3. ASSUME NEW q \in Loaders, NEW j \in DOMAIN reports'[q], ~(q = r /\ j = n + 1)
        PROVE  j \in DOMAIN reports[q] /\ reports'[q][j] = reports[q][j]
    BY <1>1, <1>2, <2>3 DEF n, Shapes
  <2>4. ASSUME NEW q \in Loaders, NEW j \in DOMAIN reports'[q]
        PROVE  /\ reports'[q][j].module = loaded'[q][j].module
               /\ reports'[q][j].ok = TRUE => /\ reports'[q][j].module \in Modules
                                              /\ registry'[reports'[q][j].module] # None
                                              /\ registry'[reports'[q][j].module].by = <<q, j>>
               /\ registry'[reports'[q][j].module] = None => reports'[q][j].module \notin Resolvable
    <3>1. CASE q = r /\ j = n + 1
      BY <1>1, <1>2, <1>3, <1>4, <3>1, PublicationAssumption
    <3>2. CASE ~(q = r /\ j = n + 1)
      <4>1. j \in DOMAIN reports[q] /\ reports'[q][j] = reports[q][j]
        BY <2>3, <2>4, <3>2
      <4>2. /\ reports[q][j].module = loaded[q][j].module
            /\ reports[q][j].ok = TRUE => /\ reports[q][j].module \in Modules
                                          /\ registry[reports[q][j].module] # None
                                          /\ registry[reports[q][j].module].by = <<q, j>>
            /\ registry[reports[q][j].module] = None => reports[q][j].module \notin Resolvable
        BY <4>1 DEF Following
      <4>3. PICK x : x = reports[q][j].module
        OBVIOUS
      <4>4. x \in Modules /\ registry[x] # None => registry'[x] = registry[x]
        BY <1>4
      <4> QED
        BY <1>1, <4>1, <4>2, <4>3, <4>4, PublicationAssumption
    <3> QED
      BY <3>1, <3>2
  <2> QED
    BY <2>1, <2>2, <2>4 DEF Following
<1>7. Registered'
  <2> SUFFICES ASSUME NEW x \in Modules, registry'[x] # None
               PROVE  \E q \in Loaders : \E j \in DOMAIN reports'[q] :
                        /\ registry'[x].by = <<q, j>> /\ reports'[q][j].module = x
                        /\ registry'[x].streaming => x \in AsyncStream
    BY DEF Registered
  <2>1. CASE registry'[x] = registry[x]
    <3>0. PICK q \in Loaders : \E j \in DOMAIN reports[q] :
            /\ registry[x].by = <<q, j>> /\ reports[q][j].module = x
            /\ registry[x].streaming => x \in AsyncStream
      BY <2>1 DEF Registered
    <3>1. PICK j \in DOMAIN reports[q] :
            /\ registry[x].by = <<q, j>> /\ reports[q][j].module = x
            /\ registry[x].streaming => x \in AsyncStream
      BY <3>0
    <3>2. j \in DOMAIN reports'[q] /\ reports'[q][j] = reports[q][j]
      BY <1>1, <1>2
    <3> QED
      BY <2>1, <3>1, <3>2, Zenon
  <2>2. CASE /\ x = m /\ registry'[m].by = <<r, n + 1>>
             /\ registry'[m].streaming => m \in AsyncStream
    <3>1. n + 1 \in DOMAIN reports'[r] /\ reports'[r][n + 1].module = x
      BY <1>1, <1>2, <1>3, <2>2
    <3> QED
      BY <2>2, <3>1, Zenon
  <2> QED
    BY <1>4, <2>1, <2>2, Zenon
<1> QED
  BY <1>5, <1>6, <1>7

LEMMA LoaderRegisters ==
  ASSUME RInv, NEW r \in Loaders, Register(r) \/ RegisterFails(r) \/ RegistrationEnds(r)
  PROVE  RInv'
<1>1. CASE Register(r)
  <2>1. \E ok \in BOOLEAN : ok = (Current(r) \in Accepted)
    <3>1. (Current(r) \in Accepted) \in BOOLEAN
      OBVIOUS
    <3> WITNESS (Current(r) \in Accepted) \in BOOLEAN
    <3> QED
      OBVIOUS
  <2>2. \E streaming \in BOOLEAN : streaming = (Current(r) \in Streaming \cap AsyncStream)
    <3>1. (Current(r) \in Streaming \cap AsyncStream) \in BOOLEAN
      OBVIOUS
    <3> WITNESS (Current(r) \in Streaming \cap AsyncStream) \in BOOLEAN
    <3> QED
      OBVIOUS
  <2>a. PICK ok \in BOOLEAN : ok = (Current(r) \in Accepted)
    BY <2>1
  <2>b. PICK streaming \in BOOLEAN : streaming = (Current(r) \in Streaming \cap AsyncStream)
    BY <2>2
  <2>3. Report(r, ok)
    BY <1>1, <2>a DEF Register, Report
  <2>4. registry' = [registry EXCEPT ![Current(r)] = [by |-> <<r, Upcoming(r)>>, streaming |-> streaming]]
    BY <1>1, <2>b DEF Register
  <2>5. streaming => Current(r) \in AsyncStream
    BY <2>b
  <2>6. Current(r) \in Modules /\ registry[Current(r)] = None /\ UNCHANGED loading
        /\ stage[r] = "registering" /\ Upcoming(r) <= Len(loaded[r])
    BY <1>1, PublicationAssumption DEF Register
  <2>7. Registration(r, ok)
    <3>1. Enters(r)
      BY <2>4, <2>5, <2>6 DEF Enters, Upcoming
    <3> QED
      BY <2>3, <2>6, <3>1 DEF Registration
  <2> QED
    BY <2>7, ReportKeeps
<1>2. CASE RegisterFails(r)
  <2>1. Registration(r, FALSE)
    BY <1>2 DEF RegisterFails, Registration
  <2> QED
    BY <2>1, ReportKeeps
<1>3. CASE RegistrationEnds(r)
  <2>1. /\ stage' = [stage EXCEPT ![r] = "reported"] /\ stage[r] = "registering"
        /\ UNCHANGED <<loaded, reports, registry>>
        /\ Len(reports[r]) + 1 > Len(loaded[r])
    BY <1>3 DEF RegistrationEnds, Stage, Upcoming
  <2>2. Len(reports[r]) \in Nat /\ Len(loaded[r]) \in Nat
    BY AppendToSequence DEF RInv, Shapes
  <2>3. stage'[r] = "reported" /\ \A q \in Loaders \ {r} : stage'[q] = stage[q]
    BY <2>1 DEF RInv, Shapes
  <2>4. Shapes'
    BY <2>1 DEF RInv, Shapes
  <2>5. Following'
    <3>1. Len(reports[r]) = Len(loaded[r])
      BY <2>1, <2>2 DEF RInv, Following
    <3>2. \A q \in Loaders : stage'[q] \in {"idle", "loading", "refused"} => stage'[q] = stage[q]
      BY <2>3
    <3>3. \A q \in Loaders : stage'[q] = "reported" => Len(reports[q]) = Len(loaded[q])
      BY <2>3, <3>1 DEF RInv, Following
    <3>4. /\ loaded' = loaded /\ reports' = reports /\ registry' = registry
          /\ \A q \in Loaders : stage'[q] \in {"idle", "loading", "refused"} => reports[q] = <<>>
          /\ \A q \in Loaders : Len(reports[q]) <= Len(loaded[q])
      BY <2>1, <3>2 DEF RInv, Following
    <3>5. \A q \in Loaders : \A j \in DOMAIN reports[q] :
            /\ reports[q][j].module = loaded[q][j].module
            /\ reports[q][j].ok = TRUE => /\ reports[q][j].module \in Modules
                                          /\ registry[reports[q][j].module] # None
                                          /\ registry[reports[q][j].module].by = <<q, j>>
            /\ registry[reports[q][j].module] = None => reports[q][j].module \notin Resolvable
      BY DEF RInv, Following
    <3> QED
      BY <3>3, <3>4, <3>5 DEF Following
  <2>6. Registered'
    BY <2>1 DEF RInv, Registered
  <2> QED
    BY <2>4, <2>5, <2>6 DEF RInv
<1> QED
  BY <1>1, <1>2, <1>3

LEMMA RInvariance == RInv /\ [NextPublication]_all => RInv'
<1> SUFFICES ASSUME RInv, [NextPublication]_all PROVE RInv'
  OBVIOUS
<1>1. CASE UNCHANGED <<loading, reports, registry>>
  BY <1>1 DEF loading, RInv, Shapes, Following, Registered
<1>2. ASSUME NEW r \in Loaders, LoaderStep(r) PROVE RInv'
  BY <1>2, LoaderReads, LoaderRegisters DEF LoaderStep
<1> QED
  BY <1>1, <1>2 DEF NextPublication, all

\* The reports of every registration and the registry agree
\* (RegistryWriter.write).
THEOREM ReportsAreTrue == SpecPublication => []ReportsMatchRegistry
<1>1. RInv => ReportsMatchRegistry
  <2> SUFFICES ASSUME RInv PROVE ReportsMatchRegistry
    OBVIOUS
  <2>1. ASSUME NEW r \in Loaders
        PROVE  /\ stage[r] = "reported" => Len(reports[r]) = Len(loaded[r])
               /\ \A j \in DOMAIN reports[r] :
                    /\ reports[r][j].module = loaded[r][j].module
                    /\ reports[r][j].ok => registry[reports[r][j].module].by = <<r, j>>
                    /\ registry[reports[r][j].module] = None => reports[r][j].module \notin Resolvable
    BY DEF RInv, Following
  <2>2. ASSUME NEW m \in Modules, registry[m] # None
        PROVE  LET by == registry[m].by IN
               /\ reports[by[1]][by[2]].module = m
               /\ registry[m].streaming => m \in AsyncStream
    <3>0. PICK r \in Loaders : \E j \in DOMAIN reports[r] :
            /\ registry[m].by = <<r, j>> /\ reports[r][j].module = m
            /\ registry[m].streaming => m \in AsyncStream
      BY <2>2 DEF RInv, Registered
    <3>1. PICK j \in DOMAIN reports[r] :
            /\ registry[m].by = <<r, j>> /\ reports[r][j].module = m
            /\ registry[m].streaming => m \in AsyncStream
      BY <3>0
    <3>2. registry[m].by[1] = r /\ registry[m].by[2] = j
      BY <3>1
    <3> QED
      BY <3>1, <3>2, Zenon
  <2> QED
    BY <2>1, <2>2, Zenon DEF ReportsMatchRegistry
<1> QED
  BY <1>1, RInitially, RInvariance, PTL DEF SpecPublication, all

-----------------------------------------------------------------------------
\* A loader can meet the inode of any name at any time: it holds nothing, or
\* something of a module that the name can be of.
Filled ==
  /\ \A w \in Writers : Busy(w) => Batch[w][Position(w)] \in Meant(file[w])
  /\ \A i \in Inodes : inode[i].holds # "nothing" => Used(i) /\ inode[i].module \in Meant(FileOf(i))

LEMMA StepsGrow ==
  ASSUME IInv, [Next]_vars
  PROVE  Growth /\ \A f \in Files : directory[f] # None => directory'[f] # None
<1> USE DEF IInv
<1>1. ASSUME NEW w \in Writers, Choose(w)
      PROVE  Growth /\ directory' = directory
  BY <1>1, ChooseKeeps DEF Choose, disk
<1>2. ASSUME NEW w \in Writers, Verify(w)
      PROVE  Growth /\ directory' = directory
  BY <1>2, VerifyKeeps DEF Verify, disk
<1>3. ASSUME NEW w \in Writers,
             Finish(w) \/ Open(w) \/ Write(w) \/ Sync(w) \/ Replace(w) \/ WriteFails(w)
      PROVE  Growth /\ \A f \in Files : directory[f] # None => directory'[f] # None
  <2>1. Onwards
    BY <1>3 DEF Finish, Open, Write, Sync, Replace, WriteFails, Goes, Onwards, batch, TypeOK
  <2>2. \A f \in Files : directory[f] # None => directory'[f] # None
    BY <1>3 DEF Finish, Open, Write, Sync, Replace, WriteFails, disk, TypeOK
  <2> QED
    BY <2>1, <2>2, OnwardsGrows
<1>4. CASE UNCHANGED vars \/ \E p \in Processes : Kill(p)
  <2>1. Onwards /\ directory' = directory
    BY <1>4 DEF vars, Kill, Onwards, disk, TypeOK, Ended
  <2> QED
    BY <2>1, OnwardsGrows
<1> QED
  BY <1>1, <1>2, <1>3, <1>4 DEF Next, WriterStep

\* Most steps change no inode and begin no module.
LEMMA FilledStays ==
  ASSUME IInv, Filled, Growth, inode' = inode,
         \A w \in Writers : Busy(w)' => /\ Busy(w) /\ file'[w] = file[w]
                                      /\ Position(w)' = Position(w)
  PROVE  Filled'
BY DEF Filled, Growth, Meant

LEMMA WritingFills ==
  ASSUME IInv, Filled, NEW w \in Writers, Open(w) \/ Write(w) \/ Sync(w)
  PROVE  Filled'
<1> USE DEF IInv
<1>1. Onwards /\ UNCHANGED <<results, file>> /\ Growth
      /\ \A v \in Writers : Busy(v)' <=> Busy(v)
  <2>1. Onwards /\ UNCHANGED <<results, file>>
        /\ \A v \in Writers : Busy(v)' <=> Busy(v)
    BY DEF Open, Write, Sync, Goes, Onwards, batch, Busy, TypeOK
  <2> QED
    BY <2>1, OnwardsGrows
<1>2. \A v \in Writers : Busy(v)' => Batch[v][Position(v)'] \in Meant(file'[v])
  BY <1>1 DEF Filled, Position
<1>3. PICK i \in Inodes : \E h, m :
        /\ inode' = [inode EXCEPT ![i] = [holds |-> h, module |-> m]]
        /\ h = "nothing" \/ (Used(i) /\ m \in Meant(FileOf(i)))
  <2>1. CASE Open(w)
    <3>1. PICK i \in Inodes : inode' = [inode EXCEPT ![i] = [holds |-> "nothing", module |-> None]]
      BY <2>1, OpenKeeps
    <3> QED
      BY <3>1
  <2>2. CASE Write(w) \/ Sync(w)
    <3>1. /\ open[w] \in Inodes /\ Used(open[w]) /\ FileOf(open[w]) = file[w]
          /\ Batch[w][Position(w)] \in Meant(file[w])
      BY <2>2 DEF Write, Sync, Holding, Busy, InPlace, Placed, Filled
    <3>2. PICK h : inode' = [inode EXCEPT ![open[w]] = [holds |-> h, module |-> Batch[w][Position(w)]]]
      BY <2>2 DEF Write, Sync, Writes
    <3> QED
      BY <3>1, <3>2
  <2> QED
    BY <2>1, <2>2
<1>4. ASSUME NEW j \in Inodes, inode'[j].holds # "nothing"
      PROVE  Used(j)' /\ inode'[j].module \in Meant(FileOf(j)')
  <2>1. Used(j) /\ inode'[j].module \in Meant(FileOf(j))
    <3>1. CASE j = i
      BY <1>3, <1>4, <3>1 DEF TypeOK
    <3>2. CASE j # i
      BY <1>3, <1>4, <3>2 DEF TypeOK, Filled
    <3> QED
      BY <3>1, <3>2
  <2> QED
    BY <1>1, <2>1 DEF Growth
<1>5. \A f : Meant(f)' = Meant(f)
  BY DEF Meant, NameOf
<1> QED
  BY <1>2, <1>4, <1>5 DEF Filled

LEMMA ChooseFills ==
  ASSUME IInv, Filled, NEW w \in Writers, Choose(w)
  PROVE  Filled'
<1> USE DEF IInv
<1>1. Growth /\ inode' = inode /\ (pc'[w] = "choosing" \/ results' = results)
  BY ChooseKeeps, ChooseEffect DEF Choose, disk
<1>2. \A v \in Writers \ {w} : pc'[v] = pc[v] /\ results'[v] = results[v] /\ file'[v] = file[v]
  BY OthersStay DEF WriterStep
<1>3. Batch[w][Position(w)] \in Modules
  BY CurrentIsModule DEF Choose
<1>4. PICK n \in 0..MaxBatch : file'[w] = NameOf(Batch[w][Position(w)], n)
  BY DEF Choose, TypeOK
<1>5. Batch[w][Position(w)] \in Meant(file'[w])
  BY <1>3, <1>4 DEF Meant
<1>6. \A v \in Writers : Busy(v)' => Batch[v][Position(v)'] \in Meant(file'[v])
  BY <1>1, <1>2, <1>5 DEF Filled, Busy, Position
<1>7. \A i \in Inodes : inode'[i].holds # "nothing" => Used(i)' /\ inode'[i].module \in Meant(FileOf(i)')
  BY <1>1 DEF Filled, Growth
<1>8. \A f : Meant(f)' = Meant(f)
  BY DEF Meant, NameOf
<1> QED
  BY <1>6, <1>7, <1>8 DEF Filled

LEMMA FilledInvariance ==
  ASSUME IInv, Filled, [Next]_vars
  PROVE  Filled'
<1> USE DEF IInv
<1>1. ASSUME NEW w \in Writers, WriterStep(w)
      PROVE  Filled'
  <2>1. CASE Choose(w)
    BY <2>1, ChooseFills
  <2>2. CASE Open(w) \/ Write(w) \/ Sync(w)
    BY <2>2, WritingFills
  <2>3. CASE Finish(w) \/ Replace(w) \/ WriteFails(w) \/ Verify(w)
    <3>1. Growth
      BY <1>1, StepsGrow DEF Next
    <3>2. inode' = inode
      BY <2>3 DEF Finish, Replace, WriteFails, Verify, disk
    <3>3. \A v \in Writers \ {w} : pc'[v] = pc[v] /\ results'[v] = results[v] /\ file'[v] = file[v]
      BY <1>1, OthersStay
    <3>4. Busy(w)' => Busy(w) /\ file'[w] = file[w] /\ results'[w] = results[w]
      BY <2>3 DEF Finish, Replace, WriteFails, Verify, Goes, batch, Busy, TypeOK
    <3> QED
      BY <3>1, <3>2, <3>3, <3>4, FilledStays DEF Busy, Position
  <2> QED
    BY <1>1, <2>1, <2>2, <2>3 DEF WriterStep
<1>2. CASE UNCHANGED vars \/ \E p \in Processes : Kill(p)
  <2>1. Growth
    BY StepsGrow
  <2>2. inode' = inode /\ file' = file /\ results' = results
        /\ \A w \in Writers : pc'[w] = pc[w] \/ pc'[w] = "killed"
    BY <1>2 DEF vars, Kill, batch, disk, TypeOK
  <2> QED
    BY <2>1, <2>2, FilledStays DEF Busy, Position
<1> QED
  BY <1>1, <1>2 DEF Next

\* Every file a loader is to read is there, and what it has loaded is whole,
\* in order, and comes before all it has yet to read.
Listed ==
  /\ listing \in [Loaders -> SUBSET Files] /\ unread \in [Loaders -> SUBSET Files]
  /\ \A r \in Loaders :
       /\ stage[r] = "idle" => loaded[r] = <<>>
       /\ stage[r] \in {"registering", "reported"} => unread[r] = {}
       /\ unread[r] \subseteq listing[r]
       /\ \A f \in listing[r] : IsFile(f)

Has(r, f) == \E j \in DOMAIN loaded[r] : loaded[r][j].file = f

Sound(r, j) ==
  LET e == loaded[r][j] IN
  /\ e.file \in Files /\ e.module \in MetAt(e.file)
  /\ e.intact = TRUE \/ Shared(Leads(e.file))
  /\ \A g \in unread[r] : Rank[e.file] < Rank[g]
  /\ \A k \in 1..(j - 1) : Rank[loaded[r][k].file] < Rank[e.file]

Gathered(r) ==
  stage[r] \in {"loading", "registering", "reported"} =>
    /\ {f \in Files : Leads(f) \in Modules} \subseteq listing[r]
    /\ \A f \in listing[r] \ unread[r] : Shared(Leads(f)) \/ Has(r, f)
    /\ \A j \in DOMAIN loaded[r] : Sound(r, j)

PInv == IInv /\ Filled /\ RInv /\ Listed /\ \A r \in Loaders : Gathered(r)

LEMMA PInitially == InitPublication => PInv
<1> SUFFICES ASSUME InitPublication PROVE PInv
  OBVIOUS
<1>1. IInv /\ RInv
  BY Initially, RInitially DEF InitPublication
<1>2. Filled
  BY DEF InitPublication, Init, Filled, Busy
<1>3. Listed /\ \A r \in Loaders : Gathered(r)
  BY DEF InitPublication, Listed, Gathered
<1> QED
  BY <1>1, <1>2, <1>3 DEF PInv

\* Writers disturb nothing that has been loaded.
LEMMA WritersKeep ==
  ASSUME PInv, [Next]_vars, UNCHANGED loading
  PROVE  Listed' /\ \A r \in Loaders : Gathered(r)'
<1> USE DEF PInv
<1>1. Growth /\ \A f \in Files : directory[f] # None => directory'[f] # None
  BY StepsGrow
<1>2. stage' = stage /\ listing' = listing /\ unread' = unread /\ loaded' = loaded
  BY DEF loading
<1>3. \A f : Shared(f) => Shared(f)'
  BY <1>1, SharingStays DEF IInv
<1>4. Listed'
  BY <1>1, <1>2 DEF Listed, IsFile, Leads
<1>5. \A f : MetAt(f)' = MetAt(f) /\ Leads(f)' = Leads(f)
  BY DEF MetAt, Leads, Meant, NameOf
<1>6. ASSUME NEW r \in Loaders, stage[r] \in {"loading", "registering", "reported"}
      PROVE  /\ \A f \in listing[r] \ unread[r] : Shared(Leads(f))' \/ Has(r, f)'
             /\ \A j \in DOMAIN loaded[r] : Sound(r, j)'
  <2>1. \A f \in listing[r] \ unread[r] : f \in Files /\ (Shared(Leads(f)) \/ Has(r, f))
    BY <1>6 DEF Listed, Gathered
  <2>2. \A f : Has(r, f)' <=> Has(r, f)
    BY <1>2 DEF Has
  <2>3. ASSUME NEW j \in DOMAIN loaded[r]
        PROVE  Sound(r, j)'
    <3>1. Sound(r, j)
      BY <1>6 DEF Gathered
    <3> QED
      BY <1>2, <1>3, <1>5, <3>1 DEF Sound
  <2>4. \A f : Shared(Leads(f)) => Shared(Leads(f))'
    BY <1>3 DEF Leads
  <2> QED
    BY <2>1, <2>2, <2>3, <2>4
<1>7. \A f : (Leads(f) \in Modules)' <=> Leads(f) \in Modules
  BY <1>5
<1> QED
  BY <1>2, <1>4, <1>6, <1>7 DEF Gathered

\* What the next file gives is added to what has been loaded.
LEMMA ReadNextKeeps ==
  ASSUME PInv, NEW r \in Loaders, ReadNext(r)
  PROVE  Listed' /\ \A q \in Loaders : Gathered(q)'
<1> USE DEF PInv
<1>1. PICK f \in unread[r] :
        /\ \A g \in unread[r] : Rank[f] <= Rank[g]
        /\ Parses(r, f)
        /\ unread' = [unread EXCEPT ![r] = @ \ {f}]
  BY DEF ReadNext, IsNext
<1>2. stage[r] = "loading" /\ UNCHANGED <<vars, stage, listing>>
  BY DEF ReadNext
<1> DEFINE found == Document(f)
<1>3. /\ f \in Files /\ f \in listing[r]
      /\ found.holds # "nothing" => found.module \in MetAt(f)
      /\ found.holds = "whole" \/ Shared(Leads(f))
  <2>1. f \in Files /\ f \in listing[r] /\ IsFile(f)
    BY DEF Listed
  <2>2. CASE Leads(f) \in Modules
    BY <2>1, <2>2 DEF Document, MetAt
  <2>3. CASE Leads(f) \notin Modules
    <3>1. Leads(f) \in Files /\ directory[Leads(f)] # None
      BY <2>1, <2>3 DEF IsFile
    <3>2. Placed(directory[Leads(f)], Leads(f))
      BY <3>1 DEF IInv, InPlace
    <3>3. /\ inode[directory[Leads(f)]].holds # "nothing"
                => inode[directory[Leads(f)]].module \in Meant(Leads(f))
          /\ inode[directory[Leads(f)]].holds = "whole" \/ Shared(Leads(f))
      BY <3>1, <3>2 DEF IInv, Placed, Filled, Settled
    <3> QED
      BY <2>1, <2>3, <3>3 DEF Document, MetAt
  <2> QED
    BY <2>2, <2>3
<1>4. /\ unread'[r] = unread[r] \ {f}
      /\ \A q \in Loaders \ {r} : unread'[q] = unread[q] /\ loaded'[q] = loaded[q]
      /\ unread' \in [Loaders -> SUBSET Files]
      /\ loaded'[r] = IF found.holds = "nothing" THEN loaded[r]
                      ELSE Append(loaded[r], [file |-> f, module |-> found.module,
                                              intact |-> found.holds = "whole"])
  BY <1>1 DEF Listed, Parses, RInv, Shapes
<1>5. \A g : (Shared(Leads(g))' <=> Shared(Leads(g))) /\ MetAt(g)' = MetAt(g) /\ Leads(g)' = Leads(g)
  BY <1>2 DEF vars, batch, Shared, Leads, MetAt, Meant, NameOf
<1>6. Listed'
  BY <1>2, <1>3, <1>4 DEF Listed, IsFile, Leads, vars, disk
<1>7. ASSUME NEW q \in Loaders \ {r}
      PROVE  Gathered(q)'
  <2>1. stage'[q] = stage[q] /\ listing'[q] = listing[q] /\ unread'[q] = unread[q] /\ loaded'[q] = loaded[q]
    BY <1>2, <1>4
  <2>2. /\ \A g : Has(q, g)' <=> Has(q, g)
        /\ \A j : Sound(q, j)' <=> Sound(q, j)
    BY <1>5, <2>1 DEF Has, Sound
  <2> QED
    BY <1>5, <2>1, <2>2 DEF Gathered
<1>8. \A g \in unread[r] \ {f} : Rank[f] < Rank[g]
  BY <1>1, PublicationAssumption DEF Listed
<1>9. CASE found.holds = "nothing"
  <2>1. loaded'[r] = loaded[r] /\ Shared(Leads(f))
    BY <1>3, <1>4, <1>9
  <2>2. \A g : Has(r, g)' <=> Has(r, g)
    BY <2>1 DEF Has
  <2>3. \A j \in DOMAIN loaded[r] : Sound(r, j) => Sound(r, j)'
    BY <1>4, <1>5, <2>1 DEF Sound
  <2>4. Gathered(r)'
    BY <1>2, <1>4, <1>5, <2>1, <2>2, <2>3 DEF Gathered
  <2> QED
    BY <1>6, <1>7, <2>4
<1>10. CASE found.holds # "nothing"
  <2>1. PICK intact \in BOOLEAN : intact = (found.holds = "whole")
    <3>1. (found.holds = "whole") \in BOOLEAN
      OBVIOUS
    <3> QED
      BY <3>1, Zenon
  <2> DEFINE e == [file |-> f, module |-> found.module, intact |-> intact]
  <2>n. PICK n \in Nat : n = Len(loaded[r])
    BY AppendToSequence DEF RInv, Shapes
  <2>2. loaded'[r] = Append(loaded[r], e)
    BY <1>4, <1>10, <2>1
  <2>3. e.file = f /\ e.module = found.module /\ e.intact = intact
    OBVIOUS
  <2>4. intact = TRUE \/ Shared(Leads(f))
    BY <1>3, <2>1
  <2> HIDE DEF e, found
  <2>5. /\ n \in Nat /\ DOMAIN loaded[r] = 1..n /\ DOMAIN loaded'[r] = 1..(n + 1)
        /\ \A k \in 1..n : loaded'[r][k] = loaded[r][k]
        /\ loaded'[r][n + 1] = e
    BY <2>n, <2>2, AppendToSequence DEF RInv, Shapes
  <2>6. \A j \in 1..n : Sound(r, j)
    BY <1>2, <2>5 DEF Gathered
  <2>7. ASSUME NEW j \in 1..n
        PROVE  Sound(r, j)'
    <3>1. loaded'[r][j] = loaded[r][j] /\ \A k \in 1..(j - 1) : loaded'[r][k] = loaded[r][k]
      BY <2>5
    <3> QED
      BY <1>4, <1>5, <2>6, <3>1 DEF Sound
  <2>8. Sound(r, n + 1)'
    <3>1. \A k \in 1..n : Rank[loaded[r][k].file] < Rank[f]
      BY <2>6 DEF Sound
    <3>2. \A k \in 1..(n + 1 - 1) : Rank[loaded'[r][k].file] < Rank[f]
      BY <2>5, <3>1
    <3> QED
      BY <1>3, <1>4, <1>5, <1>8, <1>10, <2>3, <2>4, <2>5, <3>2 DEF Sound
  <2>9. \A j \in DOMAIN loaded'[r] : Sound(r, j)'
    BY <2>5, <2>7, <2>8
  <2>10. ASSUME NEW g \in listing[r] \ unread'[r]
         PROVE  Shared(Leads(g))' \/ Has(r, g)'
    <3>1. CASE g = f
      BY <2>3, <2>5, <3>1 DEF Has
    <3>2. CASE g # f
      <4>1. Shared(Leads(g)) \/ Has(r, g)
        BY <1>2, <1>4, <2>10, <3>2 DEF Gathered
      <4>2. Has(r, g) => Has(r, g)'
        BY <2>5 DEF Has
      <4> QED
        BY <1>5, <4>1, <4>2
    <3> QED
      BY <3>1, <3>2
  <2>11. Gathered(r)'
    BY <1>2, <2>9, <2>10 DEF Gathered
  <2> QED
    BY <1>6, <1>7, <2>11
<1> QED
  BY <1>9, <1>10

\* The other steps of a loader load nothing.
LEMMA LoadersKeep ==
  ASSUME PInv, NEW r \in Loaders, LoaderStep(r)
  PROVE  Listed' /\ \A q \in Loaders : Gathered(q)'
<1> USE DEF PInv
<1>1. CASE ReadNext(r)
  BY <1>1, ReadNextKeeps
<1>2. CASE ~ReadNext(r)
  <2>1. /\ UNCHANGED vars
        /\ \A q \in Loaders \ {r} :
             /\ stage'[q] = stage[q] /\ loaded'[q] = loaded[q]
             /\ listing'[q] = listing[q] /\ unread'[q] = unread[q]
        /\ listing' \in [Loaders -> SUBSET Files] /\ unread' \in [Loaders -> SUBSET Files]
        /\ \/ /\ stage[r] = "idle" /\ stage'[r] = "loading" /\ loaded'[r] = loaded[r]
              /\ listing'[r] = {f \in Files : IsFile(f)} /\ unread'[r] = listing'[r]
           \/ /\ stage'[r] = "refused" /\ unread'[r] = {} /\ listing'[r] = {}
           \/ /\ unread'[r] = unread[r] /\ listing'[r] = listing[r] /\ loaded'[r] = loaded[r]
              /\ \/ stage[r] = "loading" /\ unread[r] = {}
                 \/ stage[r] = "registering"
              /\ stage'[r] \in {"registering", "reported"}
    <3> USE DEF RInv, Shapes, Listed, Stage, loading
    <3>1. CASE Select(r)
      BY <3>1 DEF Select
    <3>2. CASE ReadFails(r) \/ LoadEnds(r)
      BY <3>2 DEF ReadFails, LoadEnds
    <3>3. CASE Register(r) \/ RegisterFails(r) \/ RegistrationEnds(r)
      BY <3>3 DEF Register, RegisterFails, RegistrationEnds
    <3> QED
      BY <1>2, <3>1, <3>2, <3>3 DEF LoaderStep
  <2>2. \A g : (Shared(Leads(g))' <=> Shared(Leads(g))) /\ MetAt(g)' = MetAt(g) /\ Leads(g)' = Leads(g)
    BY <2>1 DEF vars, batch, Shared, Leads, MetAt, Meant, NameOf
  <2>3. directory' = directory
    BY <2>1 DEF vars, disk
  <2>4. Listed'
    BY <2>1, <2>3 DEF Listed, IsFile, Leads
  <2>5. ASSUME NEW q \in Loaders,
               stage'[q] = stage[q] \/ {stage[q], stage'[q]} \subseteq {"loading", "registering", "reported"},
               listing'[q] = listing[q], unread'[q] = unread[q], loaded'[q] = loaded[q]
        PROVE  Gathered(q)'
    <3>1. /\ \A g : Has(q, g)' <=> Has(q, g)
          /\ \A j : Sound(q, j)' <=> Sound(q, j)
      BY <2>2, <2>5 DEF Has, Sound
    <3> QED
      BY <2>2, <2>5, <3>1 DEF Gathered
  <2>6. Gathered(r)'
    <3>1. CASE stage[r] = "idle" /\ unread'[r] = listing'[r] /\ loaded'[r] = loaded[r]
      BY <2>1, <2>2, <3>1 DEF Gathered, Listed, IsFile
    <3>2. CASE stage'[r] = "refused"
      BY <3>2 DEF Gathered
    <3>3. CASE /\ unread'[r] = unread[r] /\ listing'[r] = listing[r] /\ loaded'[r] = loaded[r]
               /\ stage[r] \in {"loading", "registering"}
               /\ stage'[r] \in {"registering", "reported"}
      BY <2>5, <3>3
    <3> QED
      BY <2>1, <3>1, <3>2, <3>3
  <2>7. \A q \in Loaders \ {r} : Gathered(q)'
    BY <2>1, <2>5
  <2> QED
    BY <2>4, <2>6, <2>7
<1> QED
  BY <1>1, <1>2

LEMMA PInvariance == PInv /\ [NextPublication]_all => PInv'
<1> SUFFICES ASSUME PInv, [NextPublication]_all PROVE PInv'
  OBVIOUS
<1>1. [Next]_vars
  BY DEF NextPublication, LoaderStep, Select, ReadNext, ReadFails, LoadEnds, Register,
         RegisterFails, RegistrationEnds, all
<1>2. IInv' /\ Filled' /\ RInv'
  BY <1>1, Invariance, FilledInvariance, RInvariance DEF PInv
<1>3. Listed' /\ \A r \in Loaders : Gathered(r)'
  <2>1. CASE UNCHANGED loading
    BY <1>1, <2>1, WritersKeep
  <2>2. CASE ~UNCHANGED loading
    BY <2>2, LoadersKeep DEF NextPublication, all
  <2> QED
    BY <2>1, <2>2
<1> QED
  BY <1>2, <1>3 DEF PInv

\* A load that succeeds has a module for every file and every link to a file
\* there was when it began, in the order of their names: one that may be
\* written under that name or what the link leads to, and an intact one unless
\* threads share the file (load, "all-or-nothing").
THEOREM LoadsAreWhole == SpecPublication => []LoadIsWhole
<1>1. PInv => LoadIsWhole
  <2> SUFFICES ASSUME PInv, NEW r \in Loaders, stage[r] \in {"registering", "reported"}
               PROVE  /\ {f \in Files : Leads(f) \in Modules} \subseteq listing[r]
                      /\ \A f \in listing[r] : Shared(Leads(f)) \/
                           \E j \in DOMAIN loaded[r] : loaded[r][j].file = f
                      /\ \A j \in DOMAIN loaded[r] :
                           /\ loaded[r][j].module \in MetAt(loaded[r][j].file)
                           /\ loaded[r][j].intact \/ Shared(Leads(loaded[r][j].file))
                           /\ \A k \in 1..(j - 1) : Rank[loaded[r][k].file] < Rank[loaded[r][j].file]
    BY DEF LoadIsWhole
  <2>1. /\ {f \in Files : Leads(f) \in Modules} \subseteq listing[r]
        /\ \A f \in listing[r] : Shared(Leads(f)) \/ Has(r, f)
    BY DEF PInv, Gathered, Listed
  <2>2. ASSUME NEW j \in DOMAIN loaded[r]
        PROVE  Sound(r, j)
    BY DEF PInv, Gathered
  <2>3. ASSUME NEW j \in DOMAIN loaded[r]
        PROVE  loaded[r][j].intact \/ Shared(Leads(loaded[r][j].file))
    <3>1. loaded[r][j].intact = TRUE \/ Shared(Leads(loaded[r][j].file))
      BY <2>2 DEF Sound
    <3> QED
      BY <3>1, Zenon
  <2>4. ASSUME NEW j \in DOMAIN loaded[r]
        PROVE  /\ loaded[r][j].module \in MetAt(loaded[r][j].file)
               /\ \A k \in 1..(j - 1) : Rank[loaded[r][k].file] < Rank[loaded[r][j].file]
    BY <2>2 DEF Sound
  <2> QED
    BY <2>1, <2>3, <2>4, Zenon DEF Has
<1> QED
  BY <1>1, PInitially, PInvariance, PTL DEF SpecPublication, all
=============================================================================
