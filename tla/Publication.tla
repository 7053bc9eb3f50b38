---------------------------- MODULE Publication ----------------------------
(***************************************************************************)
(* Binding files on their way into a registry: BindingLoader.load() reads  *)
(* the directory while writers work on it, file by file, and               *)
(* RegistryWriter.write() registers what was loaded, module by module.     *)
(*                                                                         *)
(* External: the registry, which refuses an identifier it already has, and *)
(* the file system, which may refuse a read.                               *)
(***************************************************************************)
EXTENDS BindingFiles

CONSTANTS
  Loaders,
  Target,       \* where a link leads: to a file here, to the document of a
                \* module elsewhere, or None where there is no file to read
  Rank,         \* the place of a file name in the order of their code points
  Resolvable,   \* modules whose target resolve_target finds and allows
  Streaming,    \* modules annotated as streaming
  AsyncStream   \* modules whose target has an async stream()

ASSUME PublicationAssumption ==
  /\ Rank \in [Files -> Nat] /\ \A f, g \in Files : Rank[f] = Rank[g] => f = g
  /\ Target \in [Links -> (Files \ Links) \cup Modules \cup {None}]
  /\ Files \cap Modules = {}
  /\ Resolvable \subseteq Modules
  /\ None \notin [by : Loaders \X Nat, streaming : BOOLEAN]

VARIABLES
  stage,     \* "idle", "loading", "registering", "reported" or "refused"
  listing,   \* the files a loader is to read
  unread,    \* those it has yet to read
  loaded,    \* the modules it made of them: [file, module, intact]
  reports,   \* its registrations: [module, ok]
  registry   \* by identifier: which module of which loader, streaming or not

loading == <<stage, listing, unread, loaded>>

InitPublication ==
  /\ Init
  /\ stage = [r \in Loaders |-> "idle"]
  /\ listing = [r \in Loaders |-> {}]
  /\ unread = [r \in Loaders |-> {}]
  /\ loaded = [r \in Loaders |-> <<>>]
  /\ reports = [r \in Loaders |-> <<>>]
  /\ registry = [m \in Modules |-> None]

Stage(r, s) == stage' = [stage EXCEPT ![r] = s]

Leads(f) == IF f \in Links THEN Target[f] ELSE f

\* is_file() looks at what a link leads to.
IsFile(f) ==
  \/ Leads(f) \in Modules
  \/ Leads(f) \in Files /\ directory[Leads(f)] # None

\* _select_files(); temporary names do not match the pattern.
Select(r) ==
  /\ stage[r] = "idle"
  /\ listing' = [listing EXCEPT ![r] = {f \in Files : IsFile(f)}]
  /\ unread' = [unread EXCEPT ![r] = {f \in Files : IsFile(f)}]
  /\ Stage(r, "loading")
  /\ UNCHANGED <<vars, loaded, reports, registry>>

\* The files are read in the order of their names.
IsNext(r, f) == f \in unread[r] /\ \A g \in unread[r] : Rank[f] <= Rank[g]

Document(f) ==
  IF Leads(f) \in Modules THEN [holds |-> "whole", module |-> Leads(f)]
                          ELSE inode[directory[Leads(f)]]

\* What becomes of the content of a file: an empty one gives nothing, one that
\* is cut short a part of its module unless it is refused.
Parses(r, f) ==
  LET found == Document(f) IN
  loaded' = [loaded EXCEPT ![r] =
    IF found.holds = "nothing" THEN @
    ELSE Append(@, [file |-> f, module |-> found.module, intact |-> found.holds = "whole"])]

\* Slip: a file that cannot be loaded is passed over.
ReadOver(r) ==
  /\ stage[r] = "loading"
  /\ \E f \in unread[r] :
       /\ IsNext(r, f)
       /\ Parses(r, f) \/ UNCHANGED loaded
       /\ unread' = [unread EXCEPT ![r] = @ \ {f}]
  /\ UNCHANGED <<vars, stage, listing, reports, registry>>

ReadNext(r) ==
  /\ stage[r] = "loading"
  /\ \E f \in unread[r] :
       /\ IsNext(r, f)
       /\ Parses(r, f)
       /\ unread' = [unread EXCEPT ![r] = @ \ {f}]
  /\ UNCHANGED <<vars, stage, listing, reports, registry>>

\* BindingLoadError: what was loaded before is discarded.
ReadFails(r) ==
  /\ stage[r] = "loading" /\ unread[r] # {}
  /\ listing' = [listing EXCEPT ![r] = {}] /\ unread' = [unread EXCEPT ![r] = {}]
  /\ loaded' = [loaded EXCEPT ![r] = <<>>]
  /\ Stage(r, "refused")
  /\ UNCHANGED <<vars, reports, registry>>

LoadEnds(r) ==
  /\ stage[r] = "loading" /\ unread[r] = {}
  /\ Stage(r, "registering")
  /\ UNCHANGED <<vars, listing, unread, loaded, reports, registry>>

-----------------------------------------------------------------------------
Upcoming(r) == Len(reports[r]) + 1
Current(r) == loaded[r][Upcoming(r)].module
Report(r, ok) == reports' = [reports EXCEPT ![r] = Append(@, [module |-> Current(r), ok |-> ok])]

\* The streaming annotation is cleared where the target has no stream().
\* Verifiers may still refuse the module, which stays registered.
Register(r) ==
  /\ stage[r] = "registering" /\ Upcoming(r) <= Len(loaded[r])
  /\ Current(r) \in Resolvable /\ registry[Current(r)] = None
  /\ registry' = [registry EXCEPT ![Current(r)] =
       [by |-> <<r, Upcoming(r)>>, streaming |-> Current(r) \in Streaming \cap AsyncStream]]
  /\ Report(r, Current(r) \in Accepted)
  /\ UNCHANGED <<vars, loading>>

\* Slip: the first failure ends the registration.
RegisterFailsForAll(r) ==
  /\ stage[r] = "registering" /\ Upcoming(r) <= Len(loaded[r])
  /\ Current(r) \notin Resolvable \/ registry[Current(r)] # None
  /\ Report(r, FALSE)
  /\ Stage(r, "reported")
  /\ UNCHANGED <<vars, listing, unread, loaded, registry>>

\* Whatever goes wrong with one module, the next one is registered.
RegisterFails(r) ==
  /\ stage[r] = "registering" /\ Upcoming(r) <= Len(loaded[r])
  /\ Current(r) \notin Resolvable \/ registry[Current(r)] # None
  /\ Report(r, FALSE)
  /\ UNCHANGED <<vars, loading, registry>>

RegistrationEnds(r) ==
  /\ stage[r] = "registering" /\ Upcoming(r) > Len(loaded[r])
  /\ Stage(r, "reported")
  /\ UNCHANGED <<vars, listing, unread, loaded, reports, registry>>

LoaderStep(r) ==
  \/ Select(r) \/ ReadNext(r) \/ ReadFails(r) \/ LoadEnds(r)
  \/ Register(r) \/ RegisterFails(r) \/ RegistrationEnds(r)

NextPublication ==
  \/ Next /\ UNCHANGED <<loading, reports, registry>>
  \/ \E r \in Loaders : LoaderStep(r)

SpecPublication ==
  InitPublication /\ [][NextPublication]_<<vars, loading, reports, registry>>

-----------------------------------------------------------------------------
\* The modules whose file a name can be.
Meant(f) ==
  {m \in Modules : \E n \in 0..MaxBatch : NameOf(m, n) = f}

\* The modules a loader can meet at a name: at a link those of its target.
MetAt(f) == IF Leads(f) \in Modules THEN {Leads(f)} ELSE Meant(Leads(f))

\* A load that succeeds has, in the order of the names, an intact module for
\* every file and every link to a file there was when it began, whatever was
\* written or killed since: one that may be written under that name, or what
\* the link leads to (_iter_candidate_files, "dropping it would silently lose
\* binding files").  Files shared by two threads of one process are left out
\* (load, "all-or-nothing").
LoadIsWhole ==
  \A r \in Loaders : stage[r] \in {"registering", "reported"} =>
    /\ {f \in Files : Leads(f) \in Modules} \subseteq listing[r]
    /\ \A f \in listing[r] : Shared(Leads(f)) \/
         \E j \in DOMAIN loaded[r] : loaded[r][j].file = f
    /\ \A j \in DOMAIN loaded[r] :
         /\ loaded[r][j].module \in MetAt(loaded[r][j].file)
         /\ loaded[r][j].intact \/ Shared(Leads(loaded[r][j].file))
         /\ \A k \in 1..(j - 1) : Rank[loaded[r][k].file] < Rank[loaded[r][j].file]

\* The reports of a registration and the registry agree: every module loaded
\* has its report in its place; what is reported registered is what the
\* registry has; and what the registry has was loaded and reported by whoever
\* registered it, streaming only if it can (RegistryWriter.write).
ReportsMatchRegistry ==
  /\ \A r \in Loaders :
       /\ stage[r] = "reported" => Len(reports[r]) = Len(loaded[r])
       /\ \A j \in DOMAIN reports[r] :
            /\ reports[r][j].module = loaded[r][j].module
            /\ reports[r][j].ok => registry[reports[r][j].module].by = <<r, j>>
            /\ registry[reports[r][j].module] = None => reports[r][j].module \notin Resolvable
  /\ \A m \in Modules : registry[m] # None =>
       LET by == registry[m].by IN
       /\ reports[by[1]][by[2]].module = m
       /\ registry[m].streaming => m \in AsyncStream
=============================================================================
