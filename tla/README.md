# A TLA+ model of apcore-toolkit

apcore-toolkit scans web frameworks and OpenAPI documents into modules, writes
and registers them, proxies calls to them over HTTP, and obtains the credential
those calls need. This directory holds TLA+ specifications of the parts of it
that are stateful and of the algorithms behind them, the TLC runs that check them
on small instances, and proofs that TLAPS checks for every instance. Line numbers refer to
`src/src/apcore_toolkit/` unless another path is given.

## Inventory

The code that runs concurrently, or that time, failures and restarts can catch
in the middle of something, is in `auth/` and `_http.py`, then in the writers
and the proxy; the rest is sequential and is checked as algorithms.

### Authentication

| Component | State | Operations | Hard behaviour | What makes it correct |
|---|---|---|---|---|
| Device-code grant, `auth/grant.py` | deadline and its origin, polling interval, number of polls | `authorize`, `request_device_code`, `poll_for_token` | time passes in callbacks, hooks and round trips; lost and late answers; retries; providers with a vocabulary of their own | the announced budget holds, the provider's pace is kept, the verdict is the one the server reached, a credential in hand is returned, the loop ends (the device request need not) |
| Token store, `auth/store.py` | one JSON file, mode 0600, a record per issuer and client | `load`, `save`, `clear` | no lock: several processes interleave between system calls; crashes; failing reads and writes; an operator | the file is whole, failures change nothing, an operation changes its own record only |
| Client, `auth/client.py`, `auth/tokens.py` | the stored record, the credential in hand | `login`, `ensure_valid`, `refresh`, `logout`, `as_auth_header_factory` | refresh token rotation, races for it, answers lost after the server acted, failing stores | no spent or refused refresh token is left behind, a working one is not thrown away |
| Requests and bodies, `auth/builder.py`, `auth/parsing.py`, `auth/transport.py` | none | build, decode, send | hooks that raise, bodies that are no bodies, a deadline for polls and none for the other requests unless one is configured | failures surface as documented, late results are refused |
| Configuration and discovery, `auth/config.py` | endpoints | validation, `discover` | a list of candidate documents, each of which may be missing or belong to another issuer | only an authoritative document is used |

The client calls the grant (`login`), the store (every operation) and the
transport (refresh, revocation). The grant calls the transport and the
consumer's callbacks and hooks. The default transport is `_http.request`.

### HTTP

| Component | State | Operations | Hard behaviour | What makes it correct |
|---|---|---|---|---|
| Resolver pool, `_http.py` 66-193 | threads, bounded queue, a future per lookup | construct, `getaddrinfo`, `close` | OS lookups that never return, cancellation at every point of a lookup's life, a queue at its limit, construction that fails half-way | cancelled lookups never start, requests with a deadline end, no thread is left by a failed start |
| Bridge, `_http.py` 196-288 | worker thread, its loop and task, two events, an outcome | `request` inside a running event loop | SIGINT at any instruction, asyncio's own handling of the first one, cancellation that races the response | nothing is left running, an interrupt is not lost, the call ends |
| Proxy modules, `output/http_proxy_writer.py` | shared client, request task | `execute` | deadline, cancel token and response race | the token wins, the task is joined |

### Scanning, writing and display

| Component | Operations | Hard behaviour | What makes it correct |
|---|---|---|---|
| Scanner base, `scanner.py`; OpenAPI scanner, `openapi_scanner.py` | filter, deduplicate, derive and normalise identifiers | a suffix may be somebody's name; normalised twice | identifiers end up unique, settled and true to their warnings |
| Schema extraction, `openapi.py` | `$ref` resolution, input and output schemas | cyclic documents, keywords beside references, keywords that are not walked | what comes out says what the document says, as far as it is walked |
| Writers, `output/*.py`, and verifiers | write, verify, register | sanitised names clash; several processes, crashes, failures module by module | distinct modules get distinct files, a file is whole, reports are true |
| Binding loader, `binding_loader.py` | select files, read, parse entries | reads while others write; links; backtracking matcher | a load has every file and link it listed; what was written is read back |
| Display resolver, `display/resolver.py` | overlay, sanitise, validate | precedence over five sources, limits after a change, fall-backs nobody checks | what is resolved is final; MCP aliases are legal and a legal CLI alias is kept |
| AI enhancer, `ai_enhancer.py` | ask for gaps, merge | one request of a list fails; low confidence | nothing given is overwritten, nothing generated is unrecorded |
| TUI view model, `tui_view_model.py` | filter, sort, group | groups hold indices | they refer to the rows shown |
| Convention scanner, `convention_scanner.py` | scan a directory of Python files | | reflection and file I/O only |
| Formatters, serializers, verb map, helpers | text and dictionaries | | no state |

The scanner's modules go to a writer; `YAMLWriter` leaves files which
`BindingLoader` reads, perhaps in another process and at the same time;
`RegistryWriter` registers what was scanned or loaded. Display overlay,
enhancement and view model take lists of modules and return lists.

## Plan

Written, in this order:

1. `DeviceAuthorization` (what an authorization promises) and `DeviceCodeGrant`, which implements it.
2. `TokenStore` (an atomic map) and `FileTokenStore`, which implements it for one writer at a time.
3. `DeviceAuthClient`, composed with `TokenStore`.
4. `DnsResolver` and `HttpBridge`.
5. `ProxyExecute`: deadline, cancel token and join of the request in `execute()`.
6. `ScanPipeline`: which operations become modules, filter, deduplication and legality.
7. `BindingFiles`: `YAMLWriter.write` by several threads and processes; `Publication`, composed
   with it: `BindingLoader.load` beside the writers, then `RegistryWriter.write`.
8. The sequential algorithms, one module each, against what they are meant to compute:
   `NameMatcher`, `ModuleIds`, `OpenApiSchemas`, `DisplayResolver`, `ViewModel`, `AIEnhancer`,
   `Discovery`, `Bindings`; `Transformations` asks four of them any question at all.
9. Proofs about all the concurrent modules, the client's `DeviceAuthClientProofs` the longest
   argument among them, and `SequentialProofs` about the scan and all the algorithms. Every
   invariant and every action property of a passing run is a theorem.

What is left:

10. `poll_for_token`, the proxy's client shared by several event loops, a second resolver pool
    after a failed construction.

## The modules

### DeviceAuthorization, DeviceCodeGrant

`DeviceAuthorization` is the promise: an authorization ends once, with a
credential only while the announced window is open and the user has approved,
with a refusal only if the user refused, with an expiry only if the window has
closed or the code has died at the server.

`DeviceCodeGrant` is `authorize()`. `pc` is the place in the code where it is: the device
request (`device`), its answer being decoded (`decoding`), the `on_user_code` callback
(`user_code`), the head of the loop (`loop`), `sleep` (`asleep`), `on_poll`, building the
request (`preparing`), the round trip (`in_flight`) and `_dispatch` (`dispatching`).
`remaining()` is called five times per turn in the code; each call is a guard of the action at
its place, and `DeadlineExceeded` is its exception. The clock (`Tick`) runs between any two
actions, so a callback, a hook or a round trip may take any time. `StartCountdown` is the moment
`started` is read, which is after the answer is received and decoded (`ReceiveDeviceCode`,
`DeviceCodeMalformed`). `BuildFails` is a hook or a missing endpoint raising while a request is
built.

The provider is external and takes part as a vocabulary: `Vocabulary` is what
the provider means by an identifier, `ErrorAliases` and `ClassifyHook` are the
configuration that translates it, and `Classify` is the code's fixed order of
the two. Properties compare what the provider meant with what the client did.
The server hands a credential out once (`ServerGrants`); an abandoned request
may still arrive and consume it (`StrayArrives`).

### TokenStore, FileTokenStore

`TokenStore` is a map whose operations are atomic; `MemoryTokenStore` is just
that. `FileTokenStore` cuts `load`, `save` and `clear` at their system calls:
`exists`, `stat`, read, `mkstemp`, write and `fsync`, `os.replace`. A process
can be killed between any two (`Crash`), every write can fail, and the operator
can remove, ruin or chmod the file. `file.version` is a history variable that
tells apart states of the file with equal content; it counts from one, and
`base`, the version a process has read, is `Unread` (zero) until it has read.

### DeviceAuthClient

Several clients share one record. Each call of the store is one atomic step of
`TokenStore` (instantiated), each round trip is not. A refresh token is a family
(one per login) and a generation within it, and `live` holds the only generation
that works. The server rotates on success; it may also answer without a new
refresh token, with `invalid_grant`, or with anything else. Requests and answers
get lost, before or after the server acted (`RefreshLost`), and late ones arrive
(`StrayArrives`). `forsaken` collects families that nobody can be blamed for
losing: those whose successor token was lost by a failure, or that a logout
gave up; `rejected` collects the refresh tokens a client was told are invalid.

### DnsResolver

`worker` and `caller` are the places of the threads (`_work`) and of the
coroutines (`getaddrinfo`). A coroutine is cut at its awaits; between two awaits
a thread may do anything. `future` is the concurrent `Future`, whose
`cancel()` has no effect once the lookup runs. Construction enrols a thread
before it starts it; starting may fail, or be interrupted although the thread is
running already. `Close` may happen whenever the pool is open.

### HttpBridge

The calling thread (`caller`), the worker thread (`worker`) and the task that
runs `send()` (`http`). `Interrupt` is SIGINT: before the thread is known it is
kept for later, while the caller polls or joins it raises, while the worker is
being seen off it is swallowed, and under `asyncio.Runner` the first one cancels
the caller's task instead (`cancels`). `Conclude` is the join with the last look
for a cancellation (_http.py:273-275) and `Return` the line after it, so that a signal
can come between the two. `first` is a history variable: where the caller was at
the first signal.

### ProxyExecute

One call of `execute()`: `place` is where it is (`requesting` with one await when
there is no cancel token; `polling` in turns of `asyncio.wait`, and `joining` the
request task when there is one). `request` is the exchange, `timer` the deadline
of `asyncio.timeout`, `pending` a cancellation that asyncio has yet to deliver
at the next await, `cancels` how often the task's owner cancelled, `raised` what
the body hands to the `except` clauses and `outcome` what the caller gets.
`withdrawn` is a history variable: the token was set before the exchange was
over. A cancellation and the timer can both strike at every await, and the token
at any moment; `TimedOut` is asyncio's own rule for telling the two apart.

### ScanPipeline

`scan()` of the OpenAPI scanner: each operation is skipped or becomes a module
(`Skip`, `Collect`), the list is filtered module by module, `deduplicate_ids`
takes one turn of its two loops per action, and `Label` is the legality warning
that comes last. An identifier is a word with numbers appended to it, so that
`a_2` in a document is what a second `a` would be renamed to. What normalisation
makes of a name is the constant `Normal`; different names may share an
identifier. `renamed` and `illegal` of a module stand for its warnings.

### BindingFiles, Publication

A writer of `BindingFiles` is one call of `YAMLWriter.write`; `Process` says which
of them are threads of one process. Per module, `Choose` is the sanitised name
with the first free number (`NameOf`, `written_names`) and the check for a
symbolic link, `Open` is `open(tmp, "w")`, which empties a file of that name if
there is one, `Write` and `Sync` the content and `fsync`, `Replace` `os.replace`,
`Verify` the built-in check and the caller's. A file name leads to an inode
(`directory`), and so does the temporary name of a file and a process
(`temporary`); what a file contains is a fact about the inode, so that writing
through a handle after somebody else's rename is what it is. `WriteFails` raises
`WriteError` and ends the batch, `Kill` ends all threads of a process.

`Publication` adds loaders. `Select` lists the directory once (`listing`), links to regular
files included: `Target` says what a link leads to, a file of the directory, the document of a
module elsewhere, or nothing (`Leads`, `IsFile`). `ReadNext` reads one file as it is at that
moment, the first in the order of the names among those not read yet (`unread`; `Rank` is the
place of a name in the order of code points, which the assumption makes strict), `ReadFails` is
any reason for `BindingLoadError`; then the modules are registered one by one, where a target
may not resolve (`Resolvable`) and an identifier may have been taken by another registration.
Every action of a writer leaves a loader's variables alone and the other way round:
`Publication` implements `BindingFiles` (`WritersAlone`).

### The algorithms

Each of these modules is the code of one function or a few. Those that loop are state
machines, one turn of a loop per action: `NameMatcher`, `ModuleIds`, `OpenApiSchemas` and
`ViewModel`. The other four have no variables: an answer is computed in one go, since the code
keeps nothing between calls. Strings are sequences of characters, of which only the class
matters, where an algorithm looks at characters.

* `NameMatcher`: the two-pointer walk of `_match_name`, one turn of its
  loops per action (`TakeCharacter`, `MeetStar`, `Retry`, `SkipStar`) until `GiveUp` or
  `Conclude`. `walk` has the two pointers, the last star with the end of its extent, and
  the number of turns as history. `Fits` is the meaning of `*` and `?`: there is an
  alignment of the whole pattern with the whole name.
* `ModuleIds`: what `scan()` makes of a hook's identifier or of `derive_module_id`, which walks
  the segments of a path (`ReadPath`, `ReadSegment`, `AddPart`, `EndOfPath`), and
  `_normalize_module_id`, which it calls for every segment, for the operation's own name and
  for the whole. Normalisation reads its `candidate` once for the two substitutions and the alphabet
  (`ReadWords`) and once for the segments (the actions that follow it); `task` says who called it.
* `OpenApiSchemas`: `extract_input_schema` takes the parameters, the body and its required
  fields one turn at a time and then resolves every field; `extract_output_schema` chooses a
  response. `_deep_resolve_refs` is `Deeper`, which says what becomes of a schema given what
  becomes of schemas one level below; `Resolution` applies it as often as there are levels to
  the depth limit. What a result is worth is seen by a reader, who is external: it starts at a
  field or the output and at the schema of the document that this stands for, follows a
  reference where it meets one and remembers what stood beside it (`FollowReference`), or looks
  into a part (`LookInside`) by one of the keywords the code walks (`Walked`), as far down as
  the code resolves. Where it may start is said without the code's `Object`: a body is `Spelt`
  out by itself, or by the one component it is nothing but a reference to. So the meaning of a
  cyclic document needs no depth limit of its own.
* `DisplayResolver`: the binding map, the overlay with its precedence, sanitising
  and validation, where `MatchesCli` is what the regular expression lets pass: `LegalCli`, or that
  and a newline. A failure of one module is the failure of the list.
* `ViewModel`: `modules_to_view_model` filters module by module, sorts stably, shows the
  cells of the rows asked for and builds the groups label by label.
* `AIEnhancer`: gaps, confidence and merge; an answer is absent when the request
  failed in any way.
* `Discovery`: `DeviceAuthConfig.__post_init__` as `Valid`, and `discover` over three
  candidates, any of which may be missing, no metadata, or another issuer's.
* `Bindings`: `_build_binding` of the writer and `_parse_entry` of the loader, with the
  types its fields have and need; warnings of another type than a list are cut up by `list()`
  or fail in it (`ReadAs`, `Unlistable`).

`Transformations` puts `DisplayResolver`, `AIEnhancer`, `Discovery` and `Bindings` behind one
step: a question is asked and answered. Which questions there are is left open, as
sets that `QuestionsAssumption` constrains by what the callers guarantee: a module has
an identifier and texts for names, a module to enhance has each field or lacks it, a
configuration is one its constructor takes, a document's endpoints are that
document's, a module to write has an identifier and a target. `MCAlgorithms` asks
bounded sets of them (`MCTransformations`) and runs the four state machines beside, each on a
family of inputs of its own; a property relates answer and question.

## The runs

Every run is `MC<module>[_<variant>].cfg` on `MC<module>.tla`. Deadlock checking
is off because every one of these systems comes to rest: calls and bounds run out.

| Run | Question | States |
|---|---|---|
| `MCDeviceCodeGrant` | deadline, pace, verdict, loss of credentials, termination, refinement | 714k |
| `MCFileTokenStore` | two processes, operator, failing I/O, one crash | 246k |
| `MCFileTokenStore_single` | one writer implements the atomic map | 88k |
| `MCFileTokenStore_stale` | an operation changes its own record only: violated | |
| `MCDeviceAuthClient` | two clients race for one record | 1.2M |
| `MCDnsResolver` | some lookups blocked for ever: who never starts, who still ends, what is left | 130k |
| `MCHttpBridge` | three signals, with and without a timeout | 2650 |
| `MCProxyExecute` | token, timer, owner and server against one call | 628 |
| `MCScanPipeline` | identifiers and warnings of what a scan emits | 81k |
| `MCPublication` | writers, links, a loader and a registry | 2.2M |
| `MCAlgorithms` | eight algorithms on every question of their families | 811k |
| `MCAlgorithms_siblings` | a root reference keeps what marks it sensitive: violated | |

### Bounds

* The grant's clock runs to `Horizon` 6 with lifetimes of 3 and 4 (the default)
  and a timeout of 2, so that every deadline can pass while anything at all is
  under way. `MaxPolls` 3 is the number of turns of the loop; two are needed for
  a slow_down to change the pace of the next poll, a third for a failure in
  between. Intervals are negative, zero, larger than the timeout, or missing.
* Two processes, two keys, two operations each, one crash and one act of the
  operator are the smallest store in which one write overtakes another. The
  single-writer run has four operations so that a key can be saved, saved
  again, cleared and loaded.
* Two families and four generations let two clients log in over each other and
  refresh with their own and with stale tokens; they make four calls in all, two
  each for a race, or more for one of them if the other does nothing.
* Three lookups, two workers as in the code or one (`PoolSizes`), and a queue of one. The
  operating system never answers one lookup, or two. With two workers one is stuck and the
  other is left, or both are stuck and the third lookup fills the queue; with one worker
  that is stuck, a lookup is queued and another waits for room. A lookup need not be asked
  for, so runs in which fewer hang are among these. Two lookups have a deadline, one that
  always hangs and one that never does; the third has none. That more workers or places
  change nothing about the safety properties is what the proofs say.
* Three signals reach the three phases of the bridge: one for asyncio to turn
  into a cancellation, one that raises, one while the worker is being seen off.
  The first may come at any place, that between the last look and the return included.
* Two cancellations by the owner: one while the call waits, one while it joins
  the request that the first one cancelled.
* Five operations named `a`, `A`, `a_2`, `a_3` and `3d`: enough for a renaming to
  meet a name of the document, then one given before, and for an illegal name to
  be renamed. The filter lets everything through or drops `a_2`.
* Three writers, two of them threads of one process; their batches have up to three modules. `p`
  and `q` have the same name once sanitised, `r` is called what their collision makes of the
  second, and all three writers come to the file name `a`. At the name `a_1` there is a link to
  the document of a module `s` elsewhere, and at `b` one to `a`. One loader reads at any moment;
  it meets modules that are not resolvable, refused by a verifier and taken already.
* The questions of `MCAlgorithms`: patterns and names of up to four characters over two letters
  and both metacharacters; texts of up to five characters from all classes but braces, and paths
  of up to two segments with every kind of prefix, operation name and hook; calls with up to two
  parameters out of five, and documents with two components that may refer to themselves, to
  each other or to nothing, with keywords beside a reference, at a depth limit of 4 (16 in the
  code), so that both a chain below it and a cycle that reaches it occur; a keyword that is not
  walked, a body that is a reference or an `allOf`; aliases of up to two characters (the limit,
  64 in the code) and longer after sanitising, one with a newline at its end; up to four modules
  with ties in the sort key and several tags; two modules to enhance, one of which may fail;
  three discovery candidates with six usual answers each, and all combinations of endpoints;
  binding entries with every set of given fields and with wrong types.

### Fairness

* `DeviceCodeGrant`: the clock goes on, the client's own steps happen, and a
  poll ends, because it carries what is left of the deadline (grant.py:324-327), which
  the transport enforces (transport.py:103-136; an injected client has to enforce it
  itself, transport.py:117-121). Nothing is assumed of the device request: it has no
  deadline (builder.py:98-106) unless the configuration gives one (config.py:129,
  client.py:61), so `Termination` begins where its answer has been decoded. Servers and
  users need not act.
* `DnsResolver`: threads and event loops run. Delivering an expired deadline is
  strongly fair: a coroutine that alternates between trying to put its job and
  sleeping is at an await again and again, and asyncio cancels it at one of
  them. The operating system answers the lookups that are not among the hung
  ones. Nothing makes anybody close the pool.
* `HttpBridge`: both threads run and a given timeout expires; the server need
  not answer and no signal need come.
* `ProxyExecute`: the event loop runs, the timer expires unless the call has
  none (`patient`), and an exchange that was cancelled cleans up. Neither the
  server, nor the owner, nor the token has to act.
* `ScanPipeline`: `scan()` is sequential and goes on until it returns.
* `Publication` has no fairness: writers and loaders may stop anywhere.

## What is proved

TLAPS proves the theorems below for every value of the constants that satisfies
each module's assumption about them (finite bounds included, however large).

`DeviceCodeGrantProofs`. `TypeCorrect`: `TypeOK` is inductive.
`CredentialsAreInTime`: `TokenInTime` alone is not inductive, because nothing in
it ties `deadline` and `started` to what was announced; `DeadlineInv` adds that
both keep, from the start of the countdown on, the announced values.
`PollingKeepsThePace`: `PaceInv` says where the interval in force equals the
interval the provider asked for, and that a sleep that was not cut short by the
deadline has lasted long enough; if it was cut short, the next `remaining()`
raises. `VerdictsAreReal`: `VerdictInv` carries the meaning of the last answer
from the wire to `_dispatch`. `GrantImplementsAuthorization` puts the invariants
together: every step maps to a step of `DeviceAuthorization` or to none. The last
three assume `ProviderUnderstood`: aliases and hook classify an identifier as
slow_down exactly when the provider means it, and as a refusal or an expiry only
if the provider does. Without it the statements are false, and rightly so: no
client can keep a pace it is not told of.

`CredentialsReachTheCaller` needs no such assumption. `GrantReachesCaller` speaks of the
end only; `GrantInv` says at every moment where a credential that was handed out is:
lost in transit, on the wire, about to be dispatched, with the caller, or given up
after the window had closed.

`FileTokenStoreProofs`. `TempInv`: a temporary file exists exactly while its process
writes or renames it and is complete when it is renamed. `FileIsWhole`,
`NoStrayTemporaries` and `FailuresAreHarmless` follow for any number of processes, keys,
crashes and acts of the operator. `CopyInv` adds what a process knows: no version
newer than the file's, none before it has read, and, as long as the version it read
is still the file's, a copy that is one change away from the file's records. This
gives `UndisturbedWritesAreExact`. `FileImplementsStore` is the refinement of
`TokenStore`, step by step: under `SingleWriter` (one process, readable files, an
operator who waits for its operations to end: the conditions under which the code
can promise it) nobody overtakes the writer, `Replace` maps to `Save` or to
`Clear`, the operator's acts to `Intervene`, and every other system call, crash and failure
to no step.

`DeviceAuthClientProofs`. `SpentTokenNotKept`, `RefusedIsDiscarded` and `LiveTokenIsKept` are
not inductive and prove each other only together. The argument follows a refresh
token from its issue to the store. `Fresh`: what a client brings home nobody else has
seen, neither the store, nor another client, nor a stray request; so nobody else can
spend it or be told that it is invalid. `Bounded` and `Newest`: whatever has been seen is
no newer than the generation that works, and what is brought home is that generation
unless its family is lost. `Dead`: what a client was told is invalid never works
again; `Discarded`: it is about to be discarded by somebody who presented it. `Follows`
adds, for a client that is alone, that what it works with is what is stored.
`Settles` sums up the steps that end a call or fail, so that the invariant is shown
once for all of these and separately for the steps that bring tokens into being or
use them up (`LoginGranted`, `RefreshGranted`, the server's answers, stray requests).
`SpentTokensGo`, `RefusedTokensGo` and `LiveTokensStay` hold for any number of clients,
families, generations, lost messages and store failures.

`HttpBridgeProofs`. `SeenOff` relates the caller's place to the worker's (a
caller that has left has a worker that never started or has exited, and a task
runs only in a worker that watches it); with it `TypeOK` is inductive and
`NothingIsAbandoned` follows. `SignalsAreNotLost` rests on `Pending`: until the caller is on
its way out, the first signal has cancelled its task or waits to be raised, and the
caller passes its last look for a cancellation only if there has been none.

`ProxyExecuteProofs`. `Exchange` says where the exchange can be while the call is
at each of its places, `Delivery` that a cancellation somebody asked for has yet
to be delivered or is what the body hands over, `Withdrawal` that a stopped
request hands over nothing that came from the server. Together with the types
they are inductive, and `RequestsAreJoined`, `WithdrawnCallsAreNotAnswered` and
`CancellationSurvives` follow for any number of cancellations.

`SequentialProofs` has what runs on one thread.

* The scan. Uniqueness alone is not inductive: `InUse` says that `used_ids` holds what the
  input has and what was emitted, `Counts` that `seen_count` counts exactly the identifiers
  met so far, and `Accounted` that a renamed module has an identifier nothing in the
  input has. From these `EmittedIdsAreUnique` and `ModulesSayTheirNames` (from
  `DuplicatesAreRenamed` and `WarningsAreRight`) follow for documents of any size and any
  normalisation. `SearchesAreShort`: the counter never gets beyond three times the number of
  modules, so the search for a free suffix ends (that the scan does, `ScanEnds`, is
  model-checked). `SearchInv` says that each identifier in use is owned by a module of the
  input or of the result, and that every number passed over makes an identifier in use;
  were there more numbers than owners, two of them would make the same identifier
  (`FS_PigeonHole`), which they do not.
* The naming, for names of any length and any answers of the hooks. `NamesAreSettled`:
  normalising twice is normalising once, and what is derived needs no mending. `Respelt`
  is about the first reading (a settled candidate comes out as it went in, a letter or
  digit in it survives), `Rejoined` about the second (segments begin as they should, nothing is
  empty if a letter was read), `Deriving` about the parts of a path: all begin with
  something solid, so a prefix and a method added to them are settled.
* The matcher, for patterns and names of any length. `NamesMatchExactly`: the walk
  remembers one star and forgets the others, and yet is right. `Reached` says that what
  lies behind the walk fits a beginning of the name, which makes "match" true; `Forced`
  that no alignment ends the last star earlier than the walk has it, which makes
  "mismatch" true: when the walk is stuck, an alignment would have to pass where it
  cannot. `MatchingIsQuadratic` (`WalkIsShort`) is the bound the code's comment promises
  (binding_loader.py:82), from `Paced`: a turn moves on in the pattern or makes the extent of a
  star longer. It also says that the walk ends.
* The view model, for any list, filter, key and direction. `ViewsAreOfTheirModules`: the rows
  are the modules that pass, once each and in order, and the groups hold exactly the rows of
  their labels in the order met. `ViewInv` follows a module from the list through the filter
  (`Filtering`, `Unlost`) to a place in the sorted rows (`InOrder`, with ties as given also when
  the direction turns the list around) and a row to its groups (`GroupsSoFar`).
* The schemas, for any document. `SchemasAreSaid` has two halves. That no inline parameter and,
  of a body spelt out, no field in its properties and no requirement is lost is the invariant of
  the loops (`FieldsGathered`, `MandatoryGathered`), with the lemma that the code's `Object` is
  the schema that spells the body out (`SpeltIsTheObject`). That a reader finds the meaning is
  `ReaderStands`: what it looks at is what resolution makes, with at least as many levels as the
  reader has left, of the schema it has come to, over which stands what it met beside references
  (`Standing`). Through the keywords that are walked, one step takes one level off both
  (`WithinIsResolved`, `FoundResolved`). `Resolution` is a recursive function; that it satisfies
  its own equation (`ResolutionUnfolds`) is proved here by finding, for any number of levels, a
  function that satisfies it so far: if there were none for some number, there would be a least
  one, and one more step would do (the library's theorem on recursive functions takes an
  operator as a parameter).
* The transformations, for every question the assumption allows. `DisplaysAreFinal` computes
  `_resolve_one` field by field (`Settled`) and shows that sanitising, limits and fall-backs
  leave a resolved overlay as it is, that its MCP alias is legal, and that its CLI alias is one
  the pattern lets pass or the default, of which nothing is claimed; that the entry which counts
  is one of some file needs the greatest of a set of indices, which is found by the least-number
  argument (`WFMin` over the well-founded order of `Nat`). `EnhancementsAreAccountedFor`,
  `DiscoveriesKeepToTheIssuer` (the first candidate that gives metadata, by the same argument)
  and `EntriesGoRound` follow from the definitions.

`PublicationProofs`. The argument follows an inode: it is made for one module of one writer, and
all its life it is at that module's file name, at the temporary name made of it and the writer's
process, or in the hands of threads that have that temporary name (`Placed`, `InPlace`,
`Opened`). `WholeUnlessShared` is not inductive because a renamed inode may still be open:
`Owned` says that a temporary file nobody shares belongs to the writer it was made for or was
left behind by one that ended, `Finished` that it is whole before it is renamed, and `Settled`
that nobody holds what has been renamed. `FilesAreWhole` follows. `ModulesAreKept` adds `Kept`:
the files reported by a batch are distinct, none is written at the name of a link, and the file of a report holds
its module as long as nobody else has the name. Both hold for any number of writers, processes
and collisions. `WritersAlone` shows that the composition with loaders implements
`BindingFiles`, whose theorems it thereby inherits (`PublishedFilesAreWhole`). `ReportsAreTrue`
rests on `RInv`: reports follow the modules in order, and the registry has an entry exactly
where somebody reported one. `LoadsAreWhole` joins the two sides: `Filled` says that an inode
holds nothing or something of a module its name can be of, `Listed` that a file that was listed,
or that a listed link leads to, stays there, and `Gathered` that every file read so far is among
what was loaded, sound and in order, before everything that is unread.

`DnsResolverProofs`. A lookup is put once, so at any time it is in one hand: not
sent yet (`OutOfHand`), at one place of the queue (`InQueue`) or with one worker
(`WithWorker`). `CancelledLookupsNeverStart` follows, since a cancelled future is
no longer pending when a worker comes to it; `Enrolment` relates the threads that
run to those enrolled and gives `FailedStartsAreClean`.

Only model-checked: liveness (`Termination` of the grant and of the bridge, `EveryLookupEnds`,
`ClosedPoolRetires`, `ExecuteEnds`, `ScanEnds`), which TLAPS cannot treat with fairness. Of the
other properties of the passing runs every one is a theorem. Induction over data is avoided
throughout: the library's induction theorems take an operator as a parameter, which the provers
cannot instantiate, so loops are state machines with an inductive invariant, and where one would
use induction a least number is taken instead.

## Where code and documentation differ

Shown by a run:

* Two processes that serve different providers can undo each other's saves
  (`MCFileTokenStore_stale`; store.py:135, store.py:56).
* A response, parameter or body whose schema is a `$ref` with keywords beside it
  loses them, `x-sensitive` included: `resolve_schema` takes one hop and only the
  target before `_deep_resolve_refs` can keep them (`MCAlgorithms_siblings`;
  openapi.py:52 and 294, openapi.py:75).

Behaviours the models have, for which no run is kept:

* A negative interval from the server makes `authorize()` raise the `ValueError` of
  `time.sleep` (grant.py:317), although errors.py:3 says that every error derives
  from `AuthError`.
* `ensure_valid` may return a refreshed credential that is already within the
  skew it was asked for (client.py:124, client.py:107).
* A read that fails with `OSError` makes the next save drop every other record
  (`ReadsMayFail`; store.py:157, store.py:56).
* `load` raises `FileNotFoundError` if the file vanishes between `exists` and
  `stat` (`OperatorRaces`; store.py:173, store.py:67).
* The loser of a refresh race clears the winner's credential (client.py:158,
  errors.py:113); `LiveTokenIsKept` is therefore about a client that is alone.
* `logout` may be overtaken by another client's refresh, which stores its
  credential again (client.py:182).
* A CLI alias that falls back on the default need not be legal, although the comment calls
  it always valid: a dotted identifier is no CLI alias (display/resolver.py:249, 260).
* A CLI alias with a newline at its end is taken for a legal one: `$` matches before it
  (display/resolver.py:25, 252), the pitfall that openapi_scanner.py:42 names.
* A SIGINT between the last look for a cancellation and the return (_http.py:274, 276) cancels
  the task and the response is returned all the same; the task learns of it at its next await.
  A second signal that comes once `request` is on its way out is swallowed (_http.py:286).
* The device request has no deadline: a server that never answers it holds `authorize()`
  for ever (builder.py:98, config.py:129); `timeout_seconds`, called a hard ceiling
  (client.py:95), covers the polling alone (grant.py:208).
* One module whose MCP alias cannot be mended stops the resolution of the whole
  list (display/resolver.py:74).
* A module that a verifier refuses after its registration stays registered, and
  is reported unverified (output/registry_writer.py:131-143).
* `YAMLVerifier` does not look at the identifier it is given: it accepts the file
  of another module (output/verifiers.py:24).
* A loader may see half a batch, or the same identifier twice in two files.
* Enhancing a list twice replaces the recorded confidences and repeats the
  warnings; a description is taken in whatever shape it comes
  (ai_enhancer.py:264-324).
* A body whose schema is an alias of an alias, or an `allOf`, has no fields: the
  body is looked at after one hop (openapi.py:234-244). A parameter that is a `$ref` has
  no `in` and is passed over (openapi.py:197).
* References under `contains`, `propertyNames`, `dependentSchemas`, `unevaluatedItems`,
  `unevaluatedProperties` and `$defs` stay as they are (openapi.py:92-135), although
  README.md:78 speaks of all `$ref` pointers.
* Warnings of an entry that are a string are read as the list of its characters, and a
  number fails with `TypeError` in both modes (binding_loader.py:509).
* `BindingLoader.load` raises `FileNotFoundError` if a file of the list vanishes
  before its size is asked for (binding_loader.py:325).

## What is left out

* `poll_for_token`, the same loop with a deadline of the caller's choosing.
* What user hooks do other than fail: a `parse_response` or `classify_error`
  hook that raises an exception of its own passes it to the caller.
* Power loss: `fsync` of the file is part of the write, the directory is not
  synced, and the model has process crashes only.
* Servers that detect the reuse of a refresh token and revoke its family.
* Fork of a process that uses the resolver, and the second pool that is built
  after a construction failed.
* The proxy's `httpx.AsyncClient` when one proxy is used from several event loops.
* An `include` or `exclude` pattern that does not compile, and hooks of the
  scanner that raise: `scan()` raises then and has emitted nothing.
* Wording, logging, encoding and layout everywhere.
* `PythonWriter` (it writes in place and keeps no names), `HTTPProxyRegistryWriter.write`,
  which registers proxies one by one, and `dry_run`, which does nothing.
* The recursive walk of the binding loader with its path segments, its limits on
  size and number of files, and the elements of examples and annotations.
* JSON pointers inside a document, media types, the defaults of a missing schema, and
  boolean schemas as parts: they are left out of a list of `items`, of `patternProperties`
  and of `prefixItems` (openapi.py:103, 121, 134) and fail in `properties` and in an `allOf`.
* The prompt and the HTTP request of the enhancer; labels and tones of columns and the JSON
  of the view model; the advice that discovery logs.

### Not modelled

* `formatting/`, `serializers.py` and `http_verb_map.py` turn values into text or
  look them up in tables: their results are their definitions, and a model could
  only repeat them.
* `pydantic_utils.py`, `schema_utils.py`, `_type_mapping.py` and `convention_scanner.py`
  reflect on Python objects; what they do depends on the interpreter's.
* `conformance.py` is a test harness.
