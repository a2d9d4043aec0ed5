# Verification of yomitan-audio-fast

TLA+ specifications of the add-on's lookup server, of the operations that
publish, pack, import and clean up its data, and of the Rust server and its
compiler, with TLC runs on small instances and TLAPS proofs for every value of
the constants.  Every definition is a translation of the source;
`PROJECT.json` ("map") names the lines.

## 1. The system

| Component | State | Operations | What makes it correct |
|---|---|---|---|
| Lookup store (`anki-addon/fast_store.py`) | state gate, database guard, connection pool, pack tables with leases, response/row caches, source roots | `lookup`, `lookup_first`, `candidates_payload`, `best_audio_url`, path resolution, audio leases; `publish_database`, `invalidate_database`, `reload_pack`, `replace_sources`, `close` | a lookup sees one coherent configuration; nothing stale is cached; no pack is closed under a lease and none leaks; every call returns |
| Audio pack build (`fast_pack.py`) | OS build lock, build directory, checkpoint, versions, `active.json` | build, resume, cancel, crash, publish, open | what is activated is complete and was built from one state of the database and of the files |
| Rust bundle import (`fast_pack.py`) | bundle, versions, `active.json` | verify, merge with the rows, link, publish, activate | the imported index leads each row of the database to its clip in the pack that was verified |
| Managed cleanup (`cleanup.py`) | loose files, quarantine, Trash, inventory, marker | stage, cancel, resume, trash, restore, crash | an original's bytes are never lost, and never out of place without a marker |
| Existing-data import and automatic build (`migration.py`, `gui.py`) | database, source roots, pack, auto-build marker, job gate, dialogs | every menu operation, start-up, import, automatic build, death of the process | one job at a time; database, folders and what is served stay together; an automatic build is refused once and resumed |
| Database initialisation (`db_utils.py`) | database, version file | check, build aside, replace, record the version | the version file never promises more than the database holds |
| HTTP server (`server.py`) | runtime, connections, one request's answer | start, stop, accept, serve, ranges, conditions, `/v1/play` | stop ends every connection and closes the store last; an answer has the length and the bytes its header says |
| Selection (`fast_store.py`, `query.rs`, `compiler.rs`) | rows of a term, compiled records | filter, order, scan for the first | both servers, and the shortcuts of each, select the same row |
| Rust server (`rust-server`) | bundle directories, manifest, term index, mappings | compile, publish, open, look up, serve | the manifest names a whole version; a server maps one version; the index finds exactly the compiled terms |
| Collection formats (`source/`), Japanese text utilities | - | parsing | not modelled |
| Configuration, user interface, benchmarks | - | reading settings, dialogs, measurement | not modelled |

The HTTP threads call the store; the GUI thread and the import, build and
cleanup jobs call its lifecycle operations.  What they share on disk (the
database, `active.json`, the version directories, the cleanup marker and the
quarantine) is guarded by one operating-system lock, `_PackBuildLock`, which
fails at once when it is taken.  Inside Anki, a job gate lets one operation run
at a time.  The Rust compiler and server are processes of their own; the add-on
meets them only in the bundle it imports.

Hard behaviours: lookups against publications, reloads and close; leases that
outlive the pack they were taken on; crashes between any two file operations of
a build, an import, a publication or a cleanup; files that change while they
are read, or between a look and a use; cancellation and resumption; a Trash
that fails half way; dialogs that are answered after the world has changed;
clients that keep connections open while the server stops; hash collisions.

## 2. Modules

| Module | Models | Checked in |
|---|---|---|
| `LookupService` | what the lookup store promises (abstract) | `store_safety` |
| `LookupStore` | `fast_store.py`, all entry points | `store_*` |
| `LookupStoreProofs`, `LookupStoreServiceProofs` | proofs about `LookupStore`: gates, writers and counters; packs, caches and the refinement of `LookupService` | - |
| `PackBuild` | `build_audio_pack` of `fast_pack.py` | `pack_crash` |
| `PackBuildProofs` | proofs about `PackBuild` | - |
| `Cleanup` | `trash_verified_loose_audio` and `restore_quarantined_audio` of `cleanup.py` | `cleanup_*` |
| `CleanupProofs` | proofs about `Cleanup` | - |
| `Operations` | `gui.py`, `migration.py`, publication of `db_utils.init_db` | `Operations_*` |
| `OperationsProofs` | proofs about `Operations` | - |
| `ServerRuntime` | `run_server`, `stop_server`, the accept loop and the handler threads of `server.py` | `ServerRuntime_stop` |
| `ServerRuntimeProofs` | proofs about `ServerRuntime` | - |
| `ByteRange` | byte ranges of `server.py` and `server.rs` | `ServeAudio_answers` |
| `ServeAudio` | the answer to one audio request of `server.py` (extends `ByteRange`) | `ServeAudio_answers` |
| `ServeAudioProofs` | proofs about `ServeAudio` and `ByteRange` | - |
| `Selection` | filters and orders of `fast_store.py`, `query.rs`, `compiler.rs` | `RustServer` |
| `RustIndex` | fanout table, perfect hash and term lookups of `compiler.rs` and `bundle.rs` | `RustServer` |
| `RustPublish` | `compile`, `publish_manifest` and `Bundle::open` | `RustServer` |
| `RustImport` | `import_rust_bundle` of `fast_pack.py` | `RustServer` |
| `RustServer` | composes the four modules above, each by itself, and states their properties | `RustServer` |
| `RustServerProofs` | proofs about the four modules above through `RustServer` | - |
| `MC...` | constants of the runs | - |

Each operator, action and variable has an entry under "map" in `PROJECT.json`.
Operators whose comment begins with `Mutant:` are not part of a model.  They
are plausible mistakes in the definition that follows them; each is named under
"mutants" with the property that finds it.

### LookupStore

One action is one region under one lock; between two actions any other thread
may run.  `pc[t]` is the region thread `t` enters next and `op[t]` the entry
point it is in.

| Code | Model |
|---|---|
| `_state_transition`, `_state_readers`, `_closed` under `_state_guard` | `transition`, `stateReaders`, `closed`; `EnterState`, `ExitState`, `BeginTransition`, `DrainReaders`, `EndTransition`, `MarkClosed` |
| `_publishing_database`, `_active_queries`, `_database_epoch`, `_available_connections`, `_memory_rows`, `_legacy_path_rows` under `_database_guard` | `publishing`, `activeQueries`, `dbEpoch`, `idle`, `memRows`, `legacyRows`; `ReadEpoch`, `RowsGate`, `Connect`, `Query`, `LegacyRows`, `BlockQueries`, `CloseConnections`, `ReplaceDatabase`, `AdvanceEpoch`, `EndPublish`, `CloseEpoch` |
| current pack, `_pack_leases`, `_retired_packs`, `_historical_packs` under `_pack_guard` | `pack`, `leases`, `retired`, `historical`; `Snapshot`, `NestedSnapshot`, `LeaseAudio`, `ReleasePack`, `SwapPack`, `RetireAll` |
| the memory map of an `AudioPack` | `open`, `ver`; what a thread was handed to close outside the guard is `closing[t]` |
| `response_cache`, `row_cache` (each with a lock of its own) | `responses`, `rowCache`; `CacheGet`, `CachePutResponse`, `RowGet`, `RowPut` |
| `_PackBuildLock`, `protected_cleanup_state_exists` | `buildLock`, `protected`; `Call`, `CheckProtected`, `RecheckProtected`, `Unlock` |

A database is its generation, so replacing the file adds one; a pooled
connection keeps the generation it was opened on, as an immutable SQLite
connection does.  A pack is the identity of a Python object mapped to a version
directory.  A response is abstracted to what it was computed from: database,
pack version and source roots, so that two configurations can be told apart in
it.  Pack build and cleanup appear as what they leave on disk (`ActivateBuild`,
`Cleanup`); they have modules of their own.

`LookupService` is the abstract specification: one configuration in force,
changed atomically and always coherent (the pack was built for the database),
each answer the configuration at one moment between call and return, nothing
after `close`.  `LookupStore!ImplementsService` is the refinement, under the
mapping `Served`: during a publication the old configuration is in force up to
the swap of the pack, although `os.replace` of the database came before.

### PackBuild

One action is one step between two polls or one file operation.  A file is the
sequence of contents it has had and its state token the length of that
sequence, so a rewrite with the same bytes still changes the token, as inode,
size and times do.  The pack is a sequence of clips; an index cell holds the
position of a clip.  `_read_group` runs on worker threads in two steps
(`BeginRead`, `FinishRead`), and `consume` takes the results in key order.
`Crash` keeps what was synced before the last checkpoint and, of the rest, any
cells of the memory-mapped index and any prefix of the appended clips.

| Code | Model |
|---|---|
| `build_audio_pack`: the check before the lock and the one under it, stat | `Check`, `Start` |
| `_build_audio_pack_locked`: open, identity of the directory, `_load_build_checkpoint` | `Prepare`, `Resumable`, `NewStage` |
| `_restore_partial_build` | `RestoreGroup`, `Restored`, `CancelRestore` |
| packing loop, `consume`, `write_checkpoint` | `Consume`, `Checkpoint`, `CancelPacking`, `FinishPacking` |
| comparison of files and database before publication | `ScanGroup`, `ScanDone`, `CancelVerification` |
| rename to a version, reuse, `active.json` | `PublishVersion`, `Activate` |
| other programs, cleanup, bad disks | `ChangeFile`, `ChangeDatabase`, `Cleanup`, `Damage`, `Crash` |

### Cleanup

One action is one file operation together with the local decisions around it.
Content is a stamp: 0 for an original and a new number for every write of
another program.  `loose`, `staged` and `trashed` are what is at the source
paths, in the quarantine and in the Trash; `marker` is `packed-only-v1.json` and
`inventory` the recovery inventory.  `Send` is the Trash of the operating
system, which may take all, a part or nothing, and may raise in every case.

| Code | Model |
|---|---|
| `inspect_managed_cleanup` (what the menu offers) | `Eligible`, guard of `StartCleanup` |
| verification, plan, inventory, journal | `VerifyPack`, `Plan`, `CreateInventory`, `Journal` |
| `_stage_verified_files` | `MakeStage`, `RecheckStaged`, `CompareLoose`, `MoveToStage`, `CheckMoved`, `RollBackMove`, `CancelStaging`, `Quarantined` |
| `_trash_quarantine` | `VerifyStage`, `Send`, `Sent`, `Complete` |
| `restore_quarantined_audio` | `StartRestore` to `ForgetInventory` |
| other programs, the user, bad disks | `ChangeLoose`, `ChangeStaged`, `EmptyTrash`, `PutBack`, `Harm`, `Build` |

`touched`, `harmed` and `late` are history variables: they remember what other
programs did, so that a property can exempt it and nothing else.

### Operations

What the menu, the start-up and one start of Anki leave to the next.  Callbacks
run on the main thread; an operation's work is a record in `work` that moves
from stage to stage on a background thread, and ends as "succeeded", "paused"
or "failed", which its callback then takes up.  A modal dialog runs a nested
event loop, so `modals` is a stack: the menu cannot be reached, but a callback
can put another dialog on top, and an answer may come long after the question.
A collection stands for its source folders; a database is the collection its
rows name and its size-and-mtime stamp, from which the automatic build's
fingerprint is made.

| Code | Model |
|---|---|
| `_claim_job`, `_finish_job` | `job`; `GateFree`, `Launch`, `Unclaimed` |
| `attempt_init_db_gui`, `maybe_automatic_pack_build` | `AttemptInit`, `MaybeAutomatic` |
| `claim_automatic_pack_build`, the marker | `Claimable`, `Started`, `Settled` |
| menu operations and the answers to their dialogs | `MenuRegenerate`, `MenuBuild`, `MenuAsk`, `MenuRestore`, `AnswerAutomatic`, `AnswerImport`, `AnswerCleanup`, `AnswerRestore` |
| `process_existing_collection`, `init_db` | `Check`, `Publish`, `WriteVersion`, `Persist`, `BuildPack` |
| cleanup and restore as the operations see them | `TrashLoose`, `RestoreLoose`, `PutBack` |
| success and failure callbacks | `RegenerateFinished`, `PackFinished`, `AutomaticFailed`, `OperationFinished` |
| death of the process | `Crash` |

`refused` and `begun` are history variables: automatic builds that must not be
claimed again, and those that must be offered again.

### ServerRuntime and ServeAudio

`ServerRuntime` is the life of the server: a run is the socket, the accept loop,
the store and the tracked connections that one `run_server` made.  Each
connection goes from the backlog through `get_request` ("taken") to a handler
thread; several threads start and stop the server, and the shutdown flag is read
after the select and not again before the accept, so a connection may be taken
after `shutdown` was requested.

| Code | Model |
|---|---|
| `run_server` under `_runtime_lock` | `Run`, `FindRuntime`, `Bind`, `OpenStore`, `StartBackground`, `Publish` |
| `serve_forever`, `get_request`, `process_request`, `shutdown_request` | `Poll`, `Take`, `Spawn`, `Shut` |
| the handler thread and its client | `Receive`, `Serve`, `ReadCut`, `EndHandler`; `Connect`, `Leave` |
| `stop_server`, `ServerRuntime.stop` | `Pop`, `AskShutdown`, `AwaitLoop`, `CloseConnections`, `Unbind`, `JoinHandlers`, `CloseStore` |

`ServeAudio` is one request on one connection: `/v1/play` selects a URL
(`Select`), which is opened in a second step; a packed clip is answered under a
lease (`Packed`); a loose file is looked at (`Stat`), opened (`Open`) and read
in pieces (`Read`), or the pack is asked when it is gone (`Target`).  Between
any two of these the file is rewritten in place, replaced, packed, moved away by
cleanup and brought back.  A file is the stamp of the write that made it and its
size; `cached` is what the client keeps and later sends as a condition.  The
ranges are those of `ByteRange`, which has both servers' computations:
`PythonRange` on integers, as `int` reads them, and `RustRange` on u64, where a
larger number is a parse error and so 416 (`Parses`).

### Selection and the Rust side

`Selection` has the keys both servers sort by, the lists they give, and the two
single scans that must find the head of the list without sorting: `/v1/first` of
the add-on (`ScanFirst`, in any order of rows) and `/v1/play` of the Rust server
(`ScanPlay`, in the order of the compiled records).  `RustIndex` builds the
fanout table and the compress-hash-displace table under every outcome of both
hash functions, and looks terms up in three ways.  `RustPublish` is the file
operations of `compile` and of opening a bundle.  `RustImport` is the add-on's
import, one action for each look at the disk.

| Code | Model |
|---|---|
| `_parse_lookup`, `_rows_uncached`, `_select_rows`, `_first_row_unleased` | `Selection!ParseLookup`, `ReadingRows`, `Selected`, `Select`, `FirstKey`, `ScanFirst` |
| `parse_query`, `source_rank`, `speaker_sort`, `resolve_record`, `compare_candidates`, `best_candidate`; `flush_term` | `ParseQuery`, `Rank`, `SpeakerSort`, `Resolved`, `CandidateKey`, `ScanPlay`; `RecordKey` |
| `compile_inner`, `make_fanout`, `build_mph`, `validate_structure` | `RustIndex!Sort`, `FanoutTable`, `Place`, `Single`, `Check` |
| `lookup_term`, `lookup_term_mph`, preloaded map | `AskSorted`, `Probe`, `Scan`, `AskMph`, `AskPreload` |
| `compile`, `publish_manifest` | `RustPublish!Compile`, `Reuse`, `SeeFree`, `Rename`, `WriteDraft`, `SeeManifest`, `RemoveManifest`, `PlaceManifest` |
| `Bundle::open` | `ReadManifest`, `MapLookup`, `MapPack` |
| `import_rust_bundle` | `RustImport!CheckProtected` to `Activate` |
| compiler, other programs and bad disks around an import | `ReplaceDatabase`, `Compile`, `WriteSidecar`, `CompileAgain`, `Rewrite`, `DamageIndex`, `Protect`, `Stop` |

## 3. Runs

States are distinct states; times are with two workers.

| Run | States | What it shows |
|---|---|---|
| `store_safety` | 648k, 50 s | one worker with every entry point against every lifecycle operation: gate exclusion, the pack matches the database outside a transition, no stale cache entry can be hit, no lease after close, and the refinement of `LookupService` |
| `store_leases` | 490k, 70 s | two workers lease, reload, rebuild and close: no pack is closed under a lease, and none leaks |
| `store_liveness` | 226k, 110 s | two lifecycle threads around one worker: a database is replaced only under the build lock and outside protected state, and every call of all three returns |
| `store_first_deadlock` | violated | finding 1 |
| `pack_crash` | 1.01M, 95 s | the checkpoint is sound at every moment, what is published is what one uninterrupted build would make, what is activated misses no change, saved work is kept, nothing is built while cleanup is under way, and once faults and changes stop the active pack becomes the one of the current database and files |
| `cleanup_safety` | 1.27M, 140 s | no original is lost, moved out of place without a marker, or sent to the Trash unverified; every clip stays servable; a user who wants the originals back gets them |
| `cleanup_overwrite` | violated | finding 2 |
| `ServeAudio_answers` | 4.39M, 105 s | a connection that stays open carried exactly the promised bytes, ranges are exact, in the Rust server for numbers that are u64, `/v1/play` finds the audio wherever it is moved unless it came back after the look at it, and a client is told its copy is current only if it is |
| `ServerRuntime_stop` | 27k, 9 s | a store is closed only when nobody can ask it any more, the cut of the connections misses none, and stop returns whatever clients do |
| `RustServer` | 1.06M, 120 s | the manifest names a whole version and comes back after a crash, a server maps one version, the index finds exactly the compiled terms, both servers select the same rows, and an import activates only what it verified |
| `Operations_jobs` | 104k, 8 s | the gate and the work agree, the packed-only state freezes database, pack and folders, disk and process agree on the collection, and automatic builds are refused and resumed as they should |
| `Operations_readopt` | violated | finding 3 |

`RustServer` is four systems in one run, each by itself: a behaviour is of one
`part`, and the variables of the others are `None`.  They share no state and are
put together only to be checked at once.

**Bounds**, and why they are enough.

- `LookupStore`: `MaxCalls` 2 or 3 allows a publication and a reload, or a reload
  during a reload, around one lookup, which is what every hazard of the store
  needs; two workers appear where two leases matter, two lifecycle threads where
  transitions meet.  `Objects` is one more than the packs that can be open at
  once in that run, so an identity is always free.  `Versions` has one version
  of the first database and one of the second (two of the first in the lease
  run, so that a leased version can be superseded and come back).
- `PackBuild`: three keys, two clips and a missing file give duplicates, holes
  and a change before, at and after the checkpoint; two faults give a crash and
  a cancellation, or two crashes, of one build.
- `Cleanup`: two files in one batch put a crash before, inside and after the
  batch; two foreign writes and three faults allow a partial Trash followed by a
  crash and a failed restore, and a rewrite at both ends of a rename.
- `ServeAudio`: files of up to 2 bytes read 1 at a time take several reads and
  can end early, and ranges lie before, inside, at and past the end; the
  largest u64 is 2, so the number 3 is one the Rust server cannot parse; a
  condition beside a range, which is looked at without regard to what the range
  says, comes with suffixes only; four
  changes are a pack, a cleanup, a restore and a deactivation, or a pack and
  three rewrites, within one request.  `RangesAreExact` is about every size,
  number and width.
- `ServerRuntime`: three connections are one in the backlog, one taken and one
  served; two callers and two runs are a stop of one run against a start of the
  next, and two stops.
- `RustIndex`: four keys over a fanout of 2 x 2 hashes include all equal, all
  different and pairs; buckets of two terms and displacements 0 and 1 include
  the displacement that is used up.  Larger collections only repeat these.
- `RustPublish`: two compilers, one server, two contents, one of which may be on
  the disk in a damaged version, and two crashes.
- `Selection`: three rows over a source with readings, one with speakers and one
  with either reading; lists that are absent, reversed, with duplicates and with
  unknown names.
- `RustImport`: two databases, the bundles of both and one whose table is out of
  order, two changes and one stop: a change before and one after each look.
- `Operations`: three starts are an interrupted build, its resumption and what
  that leaves; the own collection and another; one generated stamp beside the
  copied one.

The fault and change bounds are guards of the environment's actions alone; they
never disable the program.

**Deadlock** is checked except where the system comes to rest: in
`cleanup_safety` after a completed cleanup whose Trash was emptied, in
`ServerRuntime_stop` when the runs are used up and no client is left, in the
`Operations` runs after the last start, and in `RustServer` where the index
refused to build.  In `store_safety` finding 1 is a deadlock the run would stop
at.

**Symmetry** over workers, lifecycle threads and objects is used in
`store_safety` and `store_leases` only; no liveness property is checked with it.

## 4. Fairness

- `LookupStore`: weak fairness per thread, of a step of the call it is in.
  Threads are scheduled, locks held for one region are released, and condition
  variables are notified with `notify_all`.  Nothing makes a client call.  That
  a transition ends although new lookups arrive is not assumed: it follows from
  the flag, which is raised before the drain.
- `PackBuild`: weak fairness of the running build and of starting one (`Check`,
  `Start`).  The
  automatic build and the resume button start an unfinished one again.
  Checkpoints, cancellations, crashes and changes are not fair.
- `Cleanup`: weak fairness of the running operation; weak fairness of putting
  back the Trash and strong fairness of asking for the restore are what a user
  does who wants the originals back.  `RestoreReturns` assumes that such a user
  starts no further cleanup and that no other program writes into the folders.
- `ServerRuntime`: weak fairness of the steps of `stop_server`, of the accept
  loop and of the handler threads.  No caller has to call, no client has to ask,
  to leave or to be silent for the thirty seconds of the socket's timeout.
- `RustServer`: weak fairness of the compilers' steps and of the import's:
  somebody runs them again, and what runs is scheduled.  Crashes and stops are
  bounded, not fair.
- `Operations` and `ServeAudio` state no liveness.

## 5. Findings

1. **`lookup_first` can deadlock with a lifecycle operation**
   (`store_first_deadlock`, `TransitionsEnd`).  `lookup_first` takes its
   pack snapshot without `state_already_leased`, so it waits at the gate while
   it is itself counted in `_state_readers`.  A reload that raised the flag in
   between waits for the count to reach zero: neither moves again.  `lookup`,
   which passes the flag, does not have the problem.
2. **Restore can overwrite a file** (`cleanup_overwrite`, `NothingOverwritten`).
   The restore refuses to overwrite an existing file, but a file created at the
   source path after the last look and before `os.replace` is overwritten.  The
   originals are not at risk (`OriginalsKept` holds): the file of the other
   program is.
3. **Importing the own folder keeps another collection's database**
   (`Operations_readopt`, `ImportServes`).  After another collection was
   imported, `user_files/entries.db` holds its rows.  Importing the add-on's own
   folder finds that file as the collection's database, accepts it as the
   existing one and commits the own source folders, in which none of its rows
   resolve.  The comment at `migration.py:368-370` says that every layer
   consistently serves the new collection.

Smaller observations, which no run states as a violation:

- A blank `sources=`, `user=` or `reading=` is no filter in the add-on
  (`README.md:172`), while the Rust server (`query.rs:290`) keeps it as a name
  that nothing matches.  `SelectionsAgree` exempts blank parameters.
- `README.md:147` says that the manifest is replaced atomically; `compiler.rs:896`
  removes it first.  Between the two a new server finds none; a later run of the
  compiler repairs it (`PublicationsComeBack`).
- `README.md:198` says that a cancelled build is resumed at the next start; a
  start that has something else to do first, such as a regeneration, does not
  offer it (`migration.py:479`).  `Resumes` says when it does.
- `/v1/play` and a loose URL can answer 404 although the recording exists: the
  file is looked for while it is in quarantine (`server.py:403`), then a restore
  brings it back and the pack is put out of use or built again without the row,
  and then the pack is asked (`fast_store.py:522`).  `PlayFound` says that this
  is the only way, and `RecordingIsFound` proves it.
- The servers answer a Range header with a number of 2^64 or more differently.
  For `bytes=0-18446744073709551616` the add-on sends the whole file with 206
  (`server.py:255` reads any integer); the Rust server answers 416, as
  `parse_range` cannot parse the number (`server.rs:555`, `561`, `568-570`), though the
  header names bytes of the file.  `README.md:173` and
  `rust-server/README.md:101` promise single byte ranges, suffixes included,
  without a limit.  `RangeExact` says that this is the only
  difference for numbers written in digits.
- A version of the add-on that has the name an import would use, but another
  index or another file as its pack, makes every later import of that bundle
  fail; and as the pack is a hard link, a rewrite in place of the bundle's file
  after the import changes the add-on's pack too.  `InTheWay` and `late` say so.

## 6. Proofs

Every theorem is for every value of the constants that the module's assumption
allows.  Each inductive invariant was checked by TLC on the run's instance
before it was proved.

**`LookupStore`**: any finite set of workers, any set of lifecycle threads,
versions and pack objects, any assignment of versions to databases and any bound
on calls.

- `TypeCorrect` (`[]TypeOK`).  `TypeOK` alone is not inductive: releasing a
  lease subtracts one, which stays a natural number only if the counters count.
  `CoreInv` adds what a worker's locals hold at each point of its call
  (`ReaderLocals`) and that `stateReaders`, `activeQueries` and `leases` are the
  numbers of workers they are meant to count (`GateCount`, `QueryCount`,
  `LeaseCount`).  There is one lemma per action for the types, a frame lemma for
  each counter, and a counting lemma for adding and removing one worker.
- `GateSafety` (`[]GateExclusion`).  `GateInv` says that the flag is up while a
  lifecycle thread owns the gate, that at most one does, and that the count is
  zero past the drain; with `GateCount` it implies that no worker is inside.
- `AuthorisedPublications` and `LeasesOnlyDrain`.  `WriterInv` follows each
  lifecycle call through its program: which steps it can be at, that the build
  lock is its own from the check of the cleanup state to the end, and that after
  `close` has retired the packs no step is left that takes a lease.
- `LeasedPacks` (`[]LeasedPackOpen`) and `NoPackLost` (`[]NoPackLeak`).
  `PackInv` says that every table names open packs only, that a pack handed to a
  thread to be closed is in no table and has no lease (`HandedForgotten`), and
  that a pack a reload has opened belongs to that reload until it is swapped in
  (`FreshPrivate`).  `LeakInv` is the converse: every open pack is in a table,
  fresh, or handed to exactly one thread that is on its way to close it.
- `PackFitsDatabase` and `CachesStayFresh`.  `DataInv` says what every copy was
  made of: pooled connections and rows of the database in place (`DatabaseCopies`),
  responses of what is in force (`ResponsesCurrent`), and, for each step of a
  reader, what it has read so far (`ReaderViews`).  A reader's view stays true
  because no transition moves while a reader is inside; the copies stay true
  because a transition drains the queries before it replaces the file and
  advances the epoch before it lets queries in again.
- `StoreImplementsService`.  Under the mapping `Served`, a reader's step that
  computes a response is the service's answer, the swap of the pack, the change
  of the roots and the close of the store are its changes of configuration,
  and every other step leaves the mapped variables alone.  The coherence that
  the service demands of a new configuration is `FreshCoherent`.

**`PackBuild`**: any number of keys, any contents, any bounds on changes and
faults.  Six properties come from `BuildInv`, whose core is one relation,
`Sound`: a beginning of the index, the clips and the recorded states, in which
each key has the clip an uninterrupted build would give it (first occurrence of
its contents) with the bytes of the state recorded for it.  The checkpoint is
sound for what is on the disk up to its length (`Kept`), and what is being packed
is sound and extends it (`Staged`); appending a clip, writing an index cell past
the checkpoint, and a crash that loses or keeps any of these leave the first
untouched.  `Settled` relates the recorded states to the changes made before
packing ended, `OneDatabase` says that a build that packs to the end has read one
database, and `ReadSound` that a worker thread hands over the bytes of the state
it names.  Hence the theorems `CheckpointsAreSound`, `VersionsAreCanonical`,
`ActivationIsCurrent`, `CleanupIsRespected`, `SavedWorkIsKept` and
`BuildConsistent`.

**`Cleanup`**: any number of files, any bounds on foreign writes and faults.  The
invariant `IInv` strengthens `Guarded` and `Servable` with what the program knows
at each of its steps: the marker and the inventory it has written (`Recorded`),
the position in the batch (`Cursor`), that no contents are at two of a file's
places (`Single`, which is why a look at one place says something about the
others), that the quarantine exists until it is sent (`StageKept`), and that what
is about to be sent was verified (`SentVerified`).  `OriginalsStay` and
`OnlyVerifiedTrashed` are action properties: a step that overwrites or removes a
file removes a foreign one, or leaves the original elsewhere (`Elsewhere`).

**`ServeAudio`** and **`ByteRange`**: files of any size, any buffer, any number
of changes.  `RangesAreExact` says for every size and every header that the
add-on's range is the set of bytes the header names, and that it is refused
exactly when that set is empty.  Of the Rust server it says less: it computes the
same range when every number of the header is at most `MaxU64`, and refuses the
header otherwise, also when it names bytes.  `MaxU64` is any natural number; in
the code it is 2^64 - 1.
`ServeInv` carries it to the answers.  A file that is gone is in the pack in use
(`FilesKept`), so the look into the pack can only fail when it is back
(`RecordingIsFound`).  What was sent and what remains are together what was
promised (`Answered`), and only a read that reaches zero leaves the connection
open (`AnswersHaveExactLength`).  `CopySourced` says that a tag stands for the
bytes that were sent under it, or for a file that was written again since: an
open file is never older than the tag sent for it, and tags of older writes do
not come back (`ConfirmedCopiesAreCurrent`).

**`RustPublish`**: any compilers, servers, contents, damaged versions and number
of crashes.  `ManifestsAreWhole` (`[]ManifestWhole`) and `ServersMapOneVersion`
(`[]ServerMapsOneVersion`) follow from one invariant: what a compiler has built
aside is whole until it is renamed, the version it is about to name is published
and whole (`CompilerInv`), and a server that has read a manifest finds its
version whole (`ServerInv`).  The lemma both rest on is `VersionsKept`: only
`Rename` writes a version directory, and only one that does not exist, so what
is whole stays whole whatever the others do.

**`RustIndex`**: any finite set of keys, any hash functions, any sizes of the
tables.  `LookupsAreExact` (`[]LookupExact`) comes from `IndexInv`.  Its build
half says that the sorted terms differ and are in the order of their hashes, that
each bucket still to come comes once (`Ordered`), and that the used slots are
those of the placed terms, each of which the displacement of its bucket leads to
its own slot (`Homes`); as many slots are used as terms are placed
(`UsedSlots`), so a bucket of one term always finds a free slot, and when no
bucket is left every slot is filled.  Its other half follows a binary search: the
terms before `low` hash below what is asked and those from `high` on do not.  The
fanout table bounds both (`BucketBounds`): its entry is the least place from
which no hash is in an earlier bucket, which `LeastNumber` gives without
induction.

**`RustImport`**: any tables of rows, bundles, number of changes between two
steps and number of stops.  `ActivationsAreVerified` (`ActivatesVerified`) comes
from `ImportInv`.  A change gives a file a new state, so a state that was noted
when the file was verified, and is found again, is that of a verified file
(`Held`).  `ReadInv` says that the rows are those of the noted database,
`IndexedInv` that the merged index leads each of them to its asset in the table
that was read, and `LinkedInv` that a linked pack is the verified one: so what
the second looks establish (`FromAgain`, `FromSee`, `FromLinked`) holds when the
version is made active, although every file may have changed before and after.

**`ServerRuntime`**: any callers, connections and number of runs.
`SilentBeforeClose` (`[]ClosedIsSilent`) and `AlwaysConsistent` (`[]Consistent`)
come from one invariant.  A run belongs to one place at a time: the caller that
starts or stops it, or the published runtime (`Owned`, `PublishedServes`), so
what one caller has found out about its run stays true while the others move
(`Stages`).  The tracked connections of a run are exactly those that are alive in
it, and only an accepting loop has one in hand (`Connected`).  Hence, once the
loop has ended, the set can only shrink; the cut reaches all of it
(`NoneEscapes`), and when the handlers are joined it is empty.

**`Operations`**: any collections, any number of starts and of generated
databases.  `OneJobAtATime` (`[]GateMatchesWork`) and `AlwaysConsistent`
(`[]Consistent`) come from `IInv`.  `Gate` says which single thread or question
the gate stands for; each callback ends that one before it frees the gate or
passes it on, and a dialog that is put on top of others moves the question and
keeps it the only one.  `Stages` says what the thread has done by each of its
stages (a collection whose folders are about to be committed has its database
in place), which makes `Layers` and `VersionNeverAhead` inductive over failure
and death at any of them.  `FrozenWhileAway` and `AutomaticBuildRemembered` are
the action properties; they need `MemoryInv` besides: the fingerprint of what was
refused or begun is that of the collection in place and the marker says so
(`Remembers`), who asks or runs has the claim (`OneClaim`), the claim of an
earlier process can be told by its owner (`Owned`), and what goes on to record a
version has looked at the packed-only state, which only another operation could
have changed since (`Unfrozen`).

**`Selection`**: any number of rows and of sources, any readings, speakers and
requests, as long as a source names a speaker in each of its rows or in none.
`ServersSelectAlike` (`[]SelectionsAgree`) rests on three kinds of lemmas.  First,
keys of one length that differ whenever their rows do are a strict order
(`LessOrders`), and what is in such an order can be listed in exactly that order
(`Arrangeable`, by putting each row after those below it, without induction), so
the sorted list exists and the least row is its head (`FirstIsLeast`); two keys
that compare all pairs alike sort alike (`SortedAlike`).  Second, the keys are
taken apart: each ends with the reading and the row or its ordinal (`KeyOrder`),
ordinals go up with the keys of the records (`Ordinals`), and rows of listed
sources compare alike in both servers, because equal ranks mean the same source
and so the same kind of speaker (`OrderedAlike`).  Third, `ChoiceInv` follows the
scans: what they have found is the least of what they have seen, and what the
default path stops at is least although it has not seen the rest, since the
records are in the order of its keys (`RecordsFirst`).

`AlwaysConsistent` (`[]Consistent`) collects the types of the four parts and the
consistency of the index from the invariant of `AlwaysPartsInv`.

So every safety property of a passing run is proved.  Only model-checked is the
liveness (`CallsReturn`, `Converges`, `RestoreReturns`, `StopReturns`,
`PublicationsComeBack`), which the proof system does not treat.

## 7. What is abstracted, and what is not modelled

- SQLite: a query returns the rows of the file its connection was opened on.
- Eviction of the two LRU caches may take any entry instead of the oldest.
- `PackBuild`: hashes are equality of contents, the random names of versions
  of one database and contents are one name, and the sync calls before a
  checkpoint are part of it.
- `Cleanup`: a file is compared or hashed in one step, a rename or a marker
  once written is durable, and the check that a path is inside its source root
  and no link (containment) is left out; so are damage to the inventory, and a
  call of the cleanup that the menu would not offer.
- `Operations`: discovering and validating a folder is a choice of collection;
  collections have disjoint files; a generated database has rows; messages that
  only inform are left out, as they return to where they were opened.  The steps
  inside a pack build, a publication to running lookups and a cleanup are in
  their own modules.
- `ServerRuntime`: the calls of a handler to the store are the workers of
  `LookupStore`; the foreground mode of the standalone server is left out.
- `ServeAudio`: a file disappears only through cleanup, and every write gives it
  a new modification time.  A header with numbers written otherwise than in
  digits alone (blanks, underscores), which `int` reads and the Rust server does
  not, is left out; one with more digits than `int` reads is a bad one in both.
  `/healthz`, `/v1/info`, OPTIONS and the texts of
  errors are left out.
- `RustIndex`, `RustPublish`: the byte layout of the sections, their checksums,
  the pack writer and the axum handlers are left out; a version is what it was
  compiled from.
- `RustImport`: digests are equality of bytes; the bounds of records are a merge
  that fails; a published index goes bad only between imports; `active.json` is
  changed by imports alone (builds are in `PackBuild`).
- `Selection`: `execute_query` of `db_utils.py` is called by nothing and left out.
- Not modelled: per-collection parsing (`source/`), Japanese text utilities,
  reading of configuration files, Qt widgets, benchmarks.  These convert,
  present or measure data and keep no state that the properties above relate.
  The rows each source contributes to the database and the backfill of JMdict
  forms are conversions too: `init_db` is modelled up to what it publishes.

## 8. What could follow

1. `PackBuild` and `RustImport` over one set of published versions, and
   `ServeAudio` over the leases of `LookupStore` instead of its own packs.
2. The encoding of the index sections with the width of their integers.
