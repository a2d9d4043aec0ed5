----------------------------- MODULE Operations -----------------------------
(***************************************************************************)
(* The maintenance operations of the Anki add-on and what one start leaves *)
(* to the next: the job gate and the menu operations of gui.py, the start- *)
(* up dispatch, the one-time automatic build and its marker, and the       *)
(* import of an existing collection (migration.py, init_db of db_utils).   *)
(*                                                                         *)
(* Callbacks run on Anki's main thread, the work of an operation on a      *)
(* background thread.  A modal dialog runs a nested event loop: no menu    *)
(* can be opened meanwhile, but work that ends calls back, and its         *)
(* callback may open a dialog on top.  The process may die anywhere.       *)
(*                                                                         *)
(* A collection stands for its source folders, a database for the          *)
(* collection its rows name and its size-and-mtime stamp, a pack for the   *)
(* database it was built from.  How a pack is built, published to running  *)
(* lookups and cleaned up is in PackBuild, LookupStore and Cleanup.        *)
(***************************************************************************)
EXTENDS Naturals, Sequences, FiniteSets

CONSTANTS None,            \* no value: absent, nothing, the free gate
          Collections,     \* the audio collections on this computer
          Own,             \* the one below the add-on's user_files
          WithDatabase,    \* those that bring an entries.db of their own
          MaxStarts,       \* bound: starts of Anki
          MaxStamp         \* bound: databases generated from source folders

Kinds == {"regenerate", "build", "auto", "import", "cleanup", "restore"}
Databases == [coll : Collections, stamp : 0 .. MaxStamp, seen : BOOLEAN]

ASSUME OperationsAssumption ==
    /\ Own \in Collections /\ None \notin Kinds /\ None \notin Databases
    /\ None \notin {"started", "completed", "returned", "broken"}
    /\ WithDatabase \subseteq Collections \ {Own}
    /\ MaxStarts \in Nat /\ MaxStamp \in Nat

VARIABLES
    \* on disk
    db,        \* entries.db: its collection, its stamp, written or checked by this version
    version,   \* the database version file: "old" or "current"
    config,    \* the collection whose folders user_files/config.json names
    pack,      \* the database the active pack was built from
    cleanup,   \* packed-only state (see Cleanup)
    marker,    \* auto-build-v1.json
    stamp,     \* the last stamp a generated database got
    \* in the process
    starts,    \* how often Anki was started: the process token
    boot,      \* "off", "starting" (main_window_did_init not yet run), "up"
    runtime,   \* whether the server could bind: get_runtime() is not None
    sources,   \* ALL_SOURCES
    serving,   \* the folders LookupStore.sources serves from
    job,       \* _active_job
    work,      \* the background threads
    modals,    \* the open dialogs, the topmost first
    \* history
    published, \* the collections whose database was put in place or accepted
    refused,   \* fingerprints declined or failed since the collection last changed
    begun      \* fingerprints whose automatic build ran and was not settled

disk == <<db, version, config, pack, cleanup, marker, stamp>>
process == <<starts, boot, runtime, sources, serving>>
vars == <<disk, process, job, work, modals, published, refused, begun>>

Fingerprints == Collections \X (0 .. MaxStamp)
Ended == {"succeeded", "paused", "failed"}
\* An automatic build, asked about or running, is of a collection that has rows.
Threads ==
    {t \in [kind : Kinds, coll : Collections, fp : Fingerprints \cup {None},
            pc : {"check", "publish", "version", "persist", "pack",
                  "inspect", "move", "restore"} \cup Ended] :
        t.kind = "auto" => t.fp # None}
Dialogs ==
    {d \in [ask : {"auto", "import", "cleanup", "restore"},
            fp : Fingerprints \cup {None}, resuming : BOOLEAN] :
        d.ask = "auto" => d.fp # None}

TypeOK ==
    /\ db \in Databases \cup {None}
    /\ version \in {"old", "current"}
    /\ config \in Collections
    /\ pack \in Fingerprints \cup {None}
    /\ cleanup \in {None, "started", "completed", "returned", "broken"}
    /\ marker \in [fp : Fingerprints \cup {None}, owner : 0 .. MaxStarts,
                   status : {None, "started", "paused", "failed", "declined", "completed"},
                   resumed : BOOLEAN]
    /\ stamp \in 0 .. MaxStamp
    /\ starts \in 0 .. MaxStarts
    /\ boot \in {"off", "starting", "up"}
    /\ runtime \in BOOLEAN
    /\ sources \in Collections /\ serving \in Collections
    /\ job \in Kinds \cup {None}
    /\ work \subseteq Threads /\ modals \in Seq(Dialogs)
    /\ published \subseteq Collections
    /\ refused \subseteq Fingerprints /\ begun \subseteq Fingerprints

-----------------------------------------------------------------------------
\* What the disk says.

Stamped(d) == <<d.coll, d.stamp>>
HasData == db # None                      \* table_exists_and_has_data
Protected == cleanup # None               \* protected_cleanup_state_exists
\* the active pack is for this database (AudioPack.load_active's checks)
PackActive == pack # None /\ HasData /\ pack = Stamped(db)
\* auto_pack_fingerprint: None unless a row resolves to a file below the folders
Fingerprint == IF HasData /\ db.coll = sources THEN Stamped(db) ELSE None
\* inspect_managed_cleanup: only the add-on's own folders, packed completely
Eligible == /\ PackActive /\ db.coll = Own /\ sources = Own
            /\ cleanup \in {None, "started"}

-----------------------------------------------------------------------------
\* The job gate and the dialogs.

\* Mutant: a build does not keep the gate from others
GateFreeWhileBuilding == job \in {None, "build", "auto"}
GateFree == job = None                    \* _claim_job would succeed
Unclaimed == None                         \* _finish_job

Thread(kind, coll, fp, pc) == [kind |-> kind, coll |-> coll, fp |-> fp, pc |-> pc]
Dialog(ask, fp, resuming) == [ask |-> ask, fp |-> fp, resuming |-> resuming]
At(w, pc) == work' = (work \ {w}) \cup {[w EXCEPT !.pc = pc]}

Launch(t) == job' = t.kind /\ work' = work \cup {t}
MenuUsable == boot = "up" /\ modals = <<>>
Top(ask) == modals # <<>> /\ Head(modals).ask = ask

-----------------------------------------------------------------------------
\* The automatic build.

\* Mutant: a claim of a process that died is honoured
ClaimableOnce(fp) ==
    /\ fp # None /\ ~PackActive
    /\ marker.fp = fp => marker.status \notin {"failed", "declined", "started"}

\* claim_automatic_pack_build: refused for good, or already claimed by this process
Claimable(fp) ==
    /\ fp # None /\ ~PackActive
    /\ marker.fp = fp => /\ marker.status \notin {"failed", "declined"}
                         /\ ~(marker.status = "started" /\ marker.owner = starts)

Started(fp) ==
    [fp |-> fp, status |-> "started", owner |-> starts,
     resumed |-> marker.fp = fp /\ marker.status \in {"started", "paused"}]
Settled(fp, status) == [fp |-> fp, status |-> status, owner |-> 0, resumed |-> FALSE]

\* maybe_automatic_pack_build, the gate being free
MaybeAutomatic(confirm, others) ==
    IF runtime /\ ~Protected /\ Claimable(Fingerprint)
    THEN /\ marker' = Started(Fingerprint)
         /\ job' = "auto"
         /\ IF confirm
            THEN /\ modals' = <<Dialog("auto", Fingerprint, marker'.resumed)>> \o modals
                 /\ work' = others /\ UNCHANGED begun
            ELSE /\ work' = others \cup {Thread("auto", sources, Fingerprint, "pack")}
                 /\ begun' = begun \cup {Fingerprint} /\ UNCHANGED modals
    ELSE job' = Unclaimed /\ work' = others /\ UNCHANGED <<marker, modals, begun>>

-----------------------------------------------------------------------------
\* Starting: the add-on is loaded, then attempt_init_db_gui runs.

Init ==
    /\ version \in {"old", "current"}
    /\ db \in [coll : {Own}, stamp : {0}, seen : {version = "current"}] \cup {None}
    /\ version = "current" => HasData
    /\ config = Own /\ pack = None
    /\ cleanup \in {None, "broken"}
    /\ marker = [fp |-> None, status |-> None, owner |-> 0, resumed |-> FALSE]
    /\ stamp = 0
    /\ starts = 0 /\ boot = "off" /\ runtime = FALSE
    /\ sources = Own /\ serving = Own
    /\ job = None /\ work = {} /\ modals = <<>>
    /\ published = {Own} /\ refused = {} /\ begun = {}

\* Anki starts: the configuration is read, the server binds its port or cannot
Start ==
    /\ boot = "off" /\ starts < MaxStarts
    /\ starts' = starts + 1 /\ boot' = "starting"
    /\ runtime' \in BOOLEAN
    /\ sources' = config /\ serving' = config
    /\ UNCHANGED <<disk, job, work, modals, published, refused, begun>>

\* attempt_init_db_gui
AttemptInit ==
    /\ boot = "starting" /\ boot' = "up"
    /\ \/ /\ ~Protected /\ HasData /\ version = "current"
          /\ MaybeAutomatic(TRUE, work)
       \/ /\ ~Protected /\ (~HasData \/ version = "old")
          /\ Launch(Thread("regenerate", sources, None, "check"))
          /\ UNCHANGED <<marker, modals, begun>>
       \/ /\ cleanup = "returned" /\ HasData /\ version = "current"
          /\ modals' = <<Dialog("restore", None, FALSE)>>
          /\ UNCHANGED <<marker, job, work, begun>>
       \/ /\ cleanup = "started" /\ Eligible /\ version = "current"
          /\ modals' = <<Dialog("cleanup", None, FALSE)>>
          /\ UNCHANGED <<marker, job, work, begun>>
       \/ /\ \/ cleanup \in {"completed", "broken"}
             \/ Protected /\ (~HasData \/ version = "old")
             \/ cleanup = "started" /\ ~Eligible
          /\ UNCHANGED <<marker, job, work, modals, begun>>
    /\ UNCHANGED <<db, version, config, pack, cleanup, stamp,
                   starts, runtime, sources, serving, published, refused>>

\* Anki is closed or dies, wherever its threads are
Crash ==
    /\ boot # "off" /\ boot' = "off"
    /\ job' = None /\ work' = {} /\ modals' = <<>>
    /\ UNCHANGED <<db, version, config, pack, cleanup, marker, stamp, starts, runtime,
                   sources, serving, published, refused, begun>>

-----------------------------------------------------------------------------
\* The menu and the answers to its dialogs.

\* regenerate_database_operation
MenuRegenerate ==
    /\ MenuUsable /\ ~Protected /\ GateFree
    /\ Launch(Thread("regenerate", sources, None, "check"))
    /\ UNCHANGED <<disk, process, modals, published, refused, begun>>

\* build_fast_pack_operation
MenuBuild ==
    /\ MenuUsable /\ ~Protected /\ GateFree
    /\ Launch(Thread("build", sources, None, "pack"))
    /\ UNCHANGED <<disk, process, modals, published, refused, begun>>

\* import_existing_audio_operation and remove_loose_audio_operation ask first
\* and claim the gate once they are answered
MenuAsk ==
    /\ MenuUsable
    /\ \/ ~Protected /\ modals' = <<Dialog("import", None, FALSE)>>
       \/ Eligible /\ modals' = <<Dialog("cleanup", None, FALSE)>>
    /\ UNCHANGED <<disk, process, job, work, published, refused, begun>>

\* restore_loose_audio_operation
Restorable == cleanup \in {"started", "completed", "returned"} /\ GateFree
MenuRestore ==
    /\ MenuUsable /\ Restorable
    /\ Launch(Thread("restore", sources, None, "restore"))
    /\ UNCHANGED <<disk, process, modals, published, refused, begun>>

\* The automatic build is confirmed, declined, or inspect_installed_collection
\* fails before the question is put
AnswerAutomatic ==
    /\ Top("auto")
    /\ LET fp == Head(modals).fp
       IN \/ /\ work' = work \cup {Thread("auto", sources, fp, "pack")}
             /\ begun' = begun \cup {fp}
             /\ UNCHANGED <<marker, job, refused>>
          \/ \E status \in {"declined", "failed"} :
                /\ marker' = Settled(fp, status)
                /\ refused' = refused \cup {fp} /\ begun' = begun \ {fp}
                /\ job' = Unclaimed /\ UNCHANGED work
    /\ modals' = Tail(modals)
    /\ UNCHANGED <<db, version, config, pack, cleanup, stamp, process, published>>

AnswerImport ==
    /\ Top("import") /\ modals' = Tail(modals)
    /\ \/ /\ GateFree
          /\ \E c \in Collections : Launch(Thread("import", c, None, "check"))
       \/ UNCHANGED <<job, work>>              \* dismissed, or the gate is taken
    /\ UNCHANGED <<disk, process, published, refused, begun>>

AnswerCleanup ==
    /\ Top("cleanup") /\ modals' = Tail(modals)
    /\ \/ GateFree /\ Launch(Thread("cleanup", Own, None, "inspect"))
       \/ UNCHANGED <<job, work>>
    /\ UNCHANGED <<disk, process, published, refused, begun>>

AnswerRestore ==
    /\ Top("restore") /\ modals' = Tail(modals)
    /\ \/ Restorable /\ Launch(Thread("restore", sources, None, "restore"))
       \/ UNCHANGED <<job, work>>
    /\ UNCHANGED <<disk, process, published, refused, begun>>

-----------------------------------------------------------------------------
\* The background threads.

\* Mutant: only the operation's menu entry looks at it
BlockedAtMenu == FALSE
\* every write of an operation looks again at the packed-only state
Blocked == Protected

\* Where an import goes on when its collection is validated: a database that is
\* the installed file already is not copied
AfterCheck(w) == IF w.kind = "import" /\ w.coll = Own /\ HasData THEN "version" ELSE "publish"

\* process_existing_collection up to the copy; init_db up to its schema
Check(w) ==
    /\ w.pc = "check"
    /\ \/ ~Blocked /\ At(w, AfterCheck(w))
       \/ At(w, "failed")
       \/ w.kind = "import" /\ At(w, "paused")
    /\ UNCHANGED <<disk, process, job, modals, published, refused, begun>>

\* _copy_database_for_publish or init_db: made beside the database, put in place at once
Publish(w) ==
    /\ w.pc = "publish"
    /\ \/ /\ ~Blocked
          /\ \/ /\ w.kind = "import" /\ w.coll \in WithDatabase    \* copystat keeps the stamp
                /\ db' = [coll |-> w.coll, stamp |-> 0, seen |-> TRUE]
                /\ UNCHANGED stamp
             \/ /\ w.coll \notin WithDatabase \/ w.kind = "regenerate"
                /\ stamp < MaxStamp
                /\ stamp' = stamp + 1
                /\ db' = [coll |-> w.coll, stamp |-> stamp', seen |-> TRUE]
          /\ At(w, "version")
          /\ published' = published \cup {w.coll}
          /\ refused' = {} /\ begun' = {}
       \/ /\ At(w, "failed") /\ UNCHANGED <<db, stamp, published, refused, begun>>
       \/ /\ w.kind = "import" /\ At(w, "paused")
          /\ UNCHANGED <<db, stamp, published, refused, begun>>
    /\ UNCHANGED <<version, config, pack, cleanup, marker, process, job, modals>>

\* update_db_version; a database that was there has been validated by now
WriteVersion(w) ==
    /\ w.pc = "version"
    /\ version' = "current"
    /\ db' = IF w.kind = "import" /\ w.coll = Own /\ HasData
             THEN [db EXCEPT !.seen = TRUE] ELSE db
    /\ At(w, IF w.kind = "import" THEN "persist" ELSE "succeeded")
    /\ UNCHANGED <<config, pack, cleanup, marker, stamp, process, job, modals,
                   published, refused, begun>>

\* Mutant: the running server is not told of the new folders
PersistUnserved(w) ==
    /\ w.pc = "persist"
    /\ \/ /\ ~Blocked
          /\ config' = w.coll /\ sources' = w.coll
          /\ refused' = {} /\ begun' = {}
          /\ At(w, "pack") /\ UNCHANGED serving
       \/ /\ At(w, "failed") /\ UNCHANGED <<config, sources, serving, refused, begun>>
    /\ UNCHANGED <<db, version, pack, cleanup, marker, stamp, starts, boot, runtime,
                   job, modals, published>>

\* persist_source_paths, replace_sources and the update of ALL_SOURCES
Persist(w) ==
    /\ w.pc = "persist"
    /\ \/ /\ ~Blocked
          /\ config' = w.coll /\ sources' = w.coll /\ serving' = w.coll
          /\ refused' = {} /\ begun' = {}
          /\ At(w, "pack")
       \/ /\ At(w, "failed") /\ UNCHANGED <<config, sources, serving, refused, begun>>
    /\ UNCHANGED <<db, version, pack, cleanup, marker, stamp, starts, boot, runtime,
                   job, modals, published>>

\* build_audio_pack, which may be cancelled or fail
BuildPack(w) ==
    /\ w.pc = "pack"
    /\ \/ /\ ~Blocked /\ HasData /\ db.coll = sources
          /\ pack' = Stamped(db)
          /\ At(w, "succeeded")
       \/ HasData /\ At(w, "paused") /\ UNCHANGED pack
       \/ At(w, "failed") /\ UNCHANGED pack
    /\ UNCHANGED <<db, version, config, cleanup, marker, stamp, process, job, modals,
                   published, refused, begun>>

\* trash_verified_loose_audio looks again, writes its journal, moves the files
TrashLoose(w) ==
    /\ \/ /\ w.pc = "inspect" /\ Eligible
          /\ cleanup' = "started" /\ At(w, "move")
       \/ w.pc = "inspect" /\ At(w, "failed") /\ UNCHANGED cleanup
       \/ /\ w.pc = "move"
          /\ \/ cleanup' = "completed" /\ At(w, "succeeded")
             \/ \E e \in {"paused", "failed"} : At(w, e) /\ UNCHANGED cleanup
    /\ UNCHANGED <<db, version, config, pack, marker, stamp, process, job, modals,
                   published, refused, begun>>

\* restore_quarantined_audio: the files must be there; a pack they no longer match is disabled
RestoreLoose(w) ==
    /\ w.pc = "restore"
    /\ \/ /\ cleanup \in {"started", "returned"}
          /\ cleanup' = None /\ pack' \in {pack, None}
          /\ At(w, "succeeded")
       \/ \E e \in {"paused", "failed"} : At(w, e) /\ UNCHANGED <<cleanup, pack>>
    /\ UNCHANGED <<db, version, config, marker, stamp, process, job, modals,
                   published, refused, begun>>

\* the user puts the folder back from the Trash
PutBack ==
    /\ cleanup = "completed" /\ cleanup' = "returned"
    /\ UNCHANGED <<db, version, config, pack, marker, stamp, process, job, work,
                   modals, published, refused, begun>>

-----------------------------------------------------------------------------
\* The callbacks of QueryOp on the main thread.

\* _regenerate_database_finished
RegenerateFinished(w) ==
    /\ w.kind = "regenerate" /\ w.pc = "succeeded"
    /\ MaybeAutomatic(FALSE, work \ {w})
    /\ UNCHANGED <<db, version, config, pack, cleanup, stamp, process,
                   published, refused>>

\* success of the two builds: the gate is freed, then cleanup is offered
PackFinished(w) ==
    /\ w.kind \in {"build", "auto"} /\ w.pc = "succeeded"
    /\ marker' = IF w.kind = "auto" THEN Settled(w.fp, "completed") ELSE marker
    /\ begun' = begun \ {w.fp}
    /\ job' = Unclaimed /\ work' = work \ {w}
    /\ modals' = IF Eligible /\ ~Protected
                 THEN <<Dialog("cleanup", None, FALSE)>> \o modals ELSE modals
    /\ UNCHANGED <<db, version, config, pack, cleanup, stamp, process,
                   published, refused>>

\* failure of the automatic build
AutomaticFailed(w) ==
    /\ w.kind = "auto" /\ w.pc \in {"paused", "failed"}
    /\ marker' = Settled(w.fp, w.pc)
    /\ IF w.pc = "failed" THEN refused' = refused \cup {w.fp} /\ begun' = begun \ {w.fp}
                          ELSE UNCHANGED <<refused, begun>>
    /\ job' = Unclaimed /\ work' = work \ {w}
    /\ UNCHANGED <<db, version, config, pack, cleanup, stamp, process, modals,
                   published>>

\* the others: _operation_failure, _pack_operation_failure, _cleanup_failure and
\* the successes of import, cleanup and restore
OperationFinished(w) ==
    /\ w.pc \in Ended
    /\ w.kind \in {"import", "cleanup", "restore"} \/ (w.kind # "auto" /\ w.pc # "succeeded")
    /\ sources' = IF w.kind = "import" /\ w.pc = "succeeded" THEN w.coll ELSE sources
    /\ job' = Unclaimed /\ work' = work \ {w}
    /\ UNCHANGED <<disk, starts, boot, runtime, serving, modals, published, refused, begun>>

Menu == MenuRegenerate \/ MenuBuild \/ MenuAsk \/ MenuRestore
Answer == AnswerAutomatic \/ AnswerImport \/ AnswerCleanup \/ AnswerRestore
Background(w) == \/ Check(w) \/ Publish(w) \/ WriteVersion(w) \/ Persist(w)
                 \/ BuildPack(w) \/ TrashLoose(w) \/ RestoreLoose(w)
Callback(w) == \/ RegenerateFinished(w) \/ PackFinished(w) \/ AutomaticFailed(w)
               \/ OperationFinished(w)

Next == \/ Start \/ AttemptInit \/ Crash \/ PutBack
        \/ Menu \/ Answer
        \/ \E w \in work : Background(w) \/ Callback(w)

Spec == Init /\ [][Next]_vars

-----------------------------------------------------------------------------
\* Properties

\* The job gate and the work agree: never two operations at once, whether they
\* are started from the menu, at startup or by the end of another one, and the
\* gate is free exactly when nothing runs and no automatic build is being asked
\* about, however the last one ended (gui.py:54-68 and every success and failure).
AskingAutomatic == {i \in 1 .. Len(modals) : modals[i].ask = "auto"}
GateMatchesWork ==
    /\ Cardinality(work) + Cardinality(AskingAutomatic) <= 1
    /\ job = None <=> work = {} /\ AskingAutomatic = {}

\* While the originals are away no operation changes the database, the pack or
\* the source folders, also one whose dialog was opened before the cleanup began
\* (the second looks of migration.py:315-320, :372-375, db_utils.py:219-223).
PackedOnlyFrozen ==
    [][Protected /\ Protected' => UNCHANGED <<db, pack, config>>]_vars

\* The configuration names a collection's folders only when that collection's
\* database has been put in place, wherever an import fails or Anki dies
\* (migration.py:368-381).
ConfigNeverAhead == config \in published

\* The version file says current only of a database that this version wrote or
\* validated; the other way round a start regenerates (db_utils.py:267-271).
VersionNeverAhead == version = "current" => HasData /\ db.seen

\* With no operation running, the configuration on disk, ALL_SOURCES and the
\* running server name the same folders, also after a failed or cancelled import
\* and after a restart (migration.py:376-380).
LayersAgree == boot = "up" /\ work = {} => sources = config /\ serving = config

\* The state is well formed, and what the disk and the process say of the
\* collection agrees in the three ways above.
Consistent == TypeOK /\ ConfigNeverAhead /\ VersionNeverAhead /\ LayersAgree

\* An automatic build that was declined or failed is not claimed again, by this
\* process or by a later one, until the collection changes (gui.py:319).
Refuses ==
    \A fp \in refused : marker' = marker \/ marker'.fp # fp \/ marker'.status # "started"

\* A start that finds the automatic build of an unchanged collection interrupted
\* or paused, and nothing else to do first, offers to resume it
\* (migration.py:489-502, gui.py:370-378).
Unhindered == runtime /\ ~Protected /\ version = "current" /\ ~PackActive
Resumes ==
    boot = "starting" /\ boot' = "up" /\ Unhindered /\ Fingerprint \in begun
        => modals' = <<Dialog("auto", Fingerprint, TRUE)>>

\* The automatic build is remembered: what was refused is not claimed again and
\* what was interrupted is offered again, in whatever order starts, deaths,
\* answers and other operations come.
AutomaticRemembered == [][Refuses /\ Resumes]_vars

\* What migration.py:368-370 promises: once an import has committed its source
\* folders, the database is the one of the collection it imported.
ImportServes == \A w \in work : w.kind = "import" /\ w.pc = "pack" => db.coll = w.coll
=============================================================================
