---------------------------- MODULE LookupStore ----------------------------
(***************************************************************************)
(* The in-process lookup engine of the add-on (anki-addon/fast_store.py):  *)
(* HTTP worker threads (Readers) answer lookups and stream packed audio    *)
(* while lifecycle threads (Writers) publish a database, reload the audio  *)
(* pack, replace the source roots or close the store.                      *)
(*                                                                         *)
(* One action is one region under one lock.  The locks are                 *)
(*   - the state gate (_state_transition, _state_readers, _closed),        *)
(*   - the database guard (_publishing_database, _active_queries, ...),    *)
(*   - the pack guard (every pack table), held for a single action only,   *)
(*   - the operating system's build lock shared with pack build, cleanup   *)
(*     and import.                                                         *)
(*                                                                         *)
(* A database is its generation number, an audio pack is an object that    *)
(* maps a version, and a response is what it was computed from: database,  *)
(* pack version and source roots.  LRU eviction may drop any entry.        *)
(***************************************************************************)
EXTENDS Naturals, FiniteSets

CONSTANTS
    Readers,     \* worker threads of the HTTP server
    Writers,     \* threads that run lifecycle operations
    Versions,    \* pack version directories that can ever be built
    Objects,     \* identities of AudioPack objects
    DbOf,        \* DbOf[v]: generation of the database version v was built for
    None,        \* Python's None
    ReaderOps,   \* the entry points readers call
    WriterOps,   \* the lifecycle operations writers run
    InitMode,    \* the configured lookup_mode
    MaxCalls     \* bound on the lifecycle operations called

ASSUME StoreAssumption ==
    /\ IsFiniteSet(Readers)
    /\ Readers \cap Writers = {}
    /\ DbOf \in [Versions -> Nat]
    /\ None \notin Versions \cup Objects \cup Readers \cup Writers \cup Nat
    /\ ReaderOps \subseteq {"lookup", "first", "best", "path", "lease"}
    /\ WriterOps \subseteq {"publish", "invalidate", "reload", "sources",
                            "build", "close"}
    /\ InitMode \in {"sqlite", "memory"}
    /\ MaxCalls \in Nat

VARIABLES
    transition, stateReaders, closed,               \* the state gate
    dbFile, publishing, activeQueries, dbEpoch,     \* the database
    idle, memRows, legacyRows,
    pack, packEpoch, leases, retired, historical,   \* the pack tables
    ver, open,
    active, built, buildLock, protected,            \* shared with the disk
    responses, rowCache, sources,                   \* caches and roots
    pc, op, held, conn, rows, seenDb, seenPack,     \* locals of the threads
    rowEpoch, out, fresh, closing,
    calls                                           \* lifecycle calls so far

gateVars == <<transition, stateReaders, closed>>
dbVars == <<dbFile, publishing, activeQueries, dbEpoch, idle, memRows,
            legacyRows>>
packVars == <<pack, packEpoch, leases, retired, historical, ver, open>>
diskVars == <<active, built, buildLock, protected>>
cacheVars == <<responses, rowCache, sources>>
readerVars == <<held, conn, rows, seenDb, seenPack, rowEpoch, out>>
writerVars == <<fresh, calls>>
vars == <<gateVars, dbVars, packVars, diskVars, cacheVars, readerVars,
          writerVars, closing, pc, op>>

Threads == Readers \cup Writers
Payload == [db : Nat, pack : Versions \cup {None}, src : Nat]
OrNone(S) == S \cup {None}

---------------------------------------------------------------------------
(* Values and tables *)

\* Mutant: the manifest's database is not compared with the one served.
UncheckedActivePack == IF active \in built THEN active ELSE None

\* AudioPack.open_active: the active version, if it matches the database.
ActivePack == IF active \in built /\ DbOf[active] = dbFile THEN active ELSE None

VersionOf(o) == IF o = None THEN None ELSE ver[o]

\* An object nobody refers to: the identity a newly opened pack may get.
Unused(o) ==
    /\ o \notin open
    /\ \A w \in Writers : fresh[w] # o
    /\ \A t \in Threads : o \notin closing[t]

\* Mutant: the leases are not looked at.
RetirePackAtOnce(w, o) ==
    /\ closing' = [closing EXCEPT ![w] = @ \cup ({o} \ {None})]
    /\ historical' = [v \in Versions |->
                         IF historical[v] = o THEN None ELSE historical[v]]
    /\ retired' = retired \ {o}

\* Mutant: there is no set for packs whose version another object serves.
RetirePackUntracked(w, o) ==
    /\ historical' = [v \in Versions |->
                         IF o # None /\ v = VersionOf(o) /\ leases[o] > 0
                            /\ historical[v] = None
                         THEN o ELSE historical[v]]
    /\ closing' = IF o # None /\ leases[o] = 0
                  THEN [closing EXCEPT ![w] = @ \cup {o}] ELSE closing
    /\ UNCHANGED retired

\* _retire_pack_locked: o stops being the current pack.  A leased one stays
\* reachable by version, or in the retired set when another object already
\* serves that version; an unleased one is handed to w to be closed.
RetirePack(w, o) ==
    \/ /\ o = None
       /\ UNCHANGED <<historical, retired, closing>>
    \/ /\ o # None /\ leases[o] > 0
       /\ \/ /\ historical[ver[o]] = None
             /\ historical' = [historical EXCEPT ![ver[o]] = o]
             /\ UNCHANGED retired
          \/ /\ historical[ver[o]] \notin {None, o}
             /\ retired' = retired \cup {o}
             /\ UNCHANGED historical
          \/ /\ historical[ver[o]] = o
             /\ UNCHANGED <<historical, retired>>
       /\ UNCHANGED closing
    \/ /\ o # None /\ leases[o] = 0
       /\ historical' = [v \in Versions |->
                            IF historical[v] = o THEN None ELSE historical[v]]
       /\ retired' = retired \ {o}
       /\ closing' = [closing EXCEPT ![w] = @ \cup {o}]

\* LruCache.put: the entry joins the entries of other keys and, past the
\* capacity, one of those is evicted.
CachePut(others, entry) ==
    {others \cup {entry}} \cup
    {(others \ {victim}) \cup {entry} : victim \in others}

\* The database guard is held from the moment queries have drained until the
\* publication ends.
GuardPoints == {"replace", "epoch", "open", "swap", "clear", "endPublish",
                "closeEpoch"}
HoldsDbGuard(w) ==
    /\ op[w] \in {"publish", "invalidate", "close"}
    /\ pc[w] \in GuardPoints
DbGuardFree == \A w \in Writers : ~HoldsDbGuard(w)

\* A thread moves on; one that returns forgets which call it was in.
Go(t, label) ==
    /\ pc' = [pc EXCEPT ![t] = label]
    /\ op' = [op EXCEPT ![t] = IF label = "idle" THEN "none" ELSE @]

---------------------------------------------------------------------------
(* The state the constructor leaves behind *)

Init ==
    /\ transition = FALSE /\ stateReaders = 0 /\ closed = FALSE
    /\ dbFile = 0 /\ publishing = FALSE /\ activeQueries = 0 /\ dbEpoch = 0
    /\ idle = {} /\ legacyRows = None
    /\ memRows \in IF InitMode = "memory" THEN {0, None} ELSE {None}
    /\ active \in OrNone(Versions)
    /\ built = {active} \ {None}
    /\ pack \in IF ActivePack = None THEN {None} ELSE Objects
    /\ ver = [o \in Objects |-> IF o = pack THEN active ELSE None]
    /\ open = {pack} \ {None}
    /\ packEpoch = 1
    /\ leases = [o \in Objects |-> 0]
    /\ retired = {}
    /\ historical = [v \in Versions |-> None]
    /\ buildLock = None
    /\ protected = FALSE
    /\ responses = {} /\ rowCache = {} /\ sources = 0
    /\ pc = [t \in Threads |-> "idle"]
    /\ op = [t \in Threads |-> "none"]
    /\ held = [r \in Readers |-> None]
    /\ conn = [r \in Readers |-> None]
    /\ rows = [r \in Readers |-> None]
    /\ seenDb = [r \in Readers |-> 0]
    /\ seenPack = [r \in Readers |-> 0]
    /\ rowEpoch = [r \in Readers |-> 0]
    /\ out = [r \in Readers |-> None]
    /\ fresh = [w \in Writers |-> None]
    /\ calls = 0
    /\ closing = [t \in Threads |-> {}]

---------------------------------------------------------------------------
(* Readers: the state gate *)

Start(r) ==
    /\ pc[r] = "idle"
    /\ \E o \in ReaderOps :
        /\ op' = [op EXCEPT ![r] = o]
        /\ pc' = [pc EXCEPT ![r] = IF o = "lease" THEN "lease" ELSE "enter"]
    /\ UNCHANGED <<gateVars, dbVars, packVars, diskVars, cacheVars, readerVars,
                   writerVars, closing>>

\* Mutant: the reader is not counted.
EnterStateUncounted(r) ==
    /\ pc[r] = "enter" /\ ~transition /\ ~closed
    /\ Go(r, CASE op[r] = "best" -> "rows"
               [] op[r] = "path" -> "legacy"
               [] OTHER -> "epoch")
    /\ UNCHANGED <<gateVars, dbVars, packVars, diskVars, cacheVars, readerVars,
                   writerVars, closing>>

\* _leased_state, entry: wait out a transition; a closed store raises.
EnterState(r) ==
    /\ pc[r] = "enter"
    /\ ~transition \/ closed
    /\ \/ /\ closed
          /\ Go(r, "idle")
          /\ UNCHANGED stateReaders
       \/ /\ ~closed
          /\ stateReaders' = stateReaders + 1
          /\ Go(r, CASE op[r] = "best" -> "rows"
                     [] op[r] = "path" -> "legacy"
                     [] OTHER -> "epoch")
    /\ UNCHANGED <<transition, closed, dbVars, packVars, diskVars, cacheVars,
                   readerVars, writerVars, closing>>

\* _leased_state, exit.
ExitState(r) ==
    /\ pc[r] = "exit"
    /\ stateReaders' = stateReaders - 1
    /\ out' = [out EXCEPT ![r] = None]
    /\ rows' = [rows EXCEPT ![r] = None]
    /\ seenDb' = [seenDb EXCEPT ![r] = 0]
    /\ rowEpoch' = [rowEpoch EXCEPT ![r] = 0]
    /\ Go(r, "idle")
    /\ UNCHANGED <<transition, closed, dbVars, packVars, diskVars, cacheVars,
                   held, conn, seenPack, writerVars, closing>>

---------------------------------------------------------------------------
(* Readers: pack leases *)

\* _acquire_pack_snapshot_locked: lease object o, or no pack at all.
LeasePack(r, o) ==
    /\ held' = [held EXCEPT ![r] = o]
    /\ seenPack' = [seenPack EXCEPT ![r] = packEpoch]
    /\ leases' = IF o = None THEN leases ELSE [leases EXCEPT ![o] = @ + 1]

CurrentServes(v) == pack # None /\ ver[pack] = v

\* The object that serves version v, opening it from disk when no table has it.
LeaseVersion(r, v) ==
    \/ /\ CurrentServes(v)
       /\ LeasePack(r, pack)
       /\ UNCHANGED <<historical, open, ver>>
    \/ /\ ~CurrentServes(v)
       /\ historical[v] # None
       /\ LeasePack(r, historical[v])
       /\ UNCHANGED <<historical, open, ver>>
    \/ /\ ~CurrentServes(v)
       /\ historical[v] = None /\ v \in built
       /\ \E o \in Objects :
            /\ Unused(o)
            /\ open' = open \cup {o}
            /\ ver' = [ver EXCEPT ![o] = v]
            /\ historical' = [historical EXCEPT ![v] = o]
            /\ LeasePack(r, o)
    \/ /\ ~CurrentServes(v)
       /\ historical[v] = None /\ v \notin built
       /\ LeasePack(r, None)
       /\ UNCHANGED <<historical, open, ver>>

\* _leased_pack_snapshot(state_already_leased=True).
Snapshot(r) ==
    /\ pc[r] = "snapshot"
    /\ LeasePack(r, pack)
    /\ Go(r, IF op[r] = "lookup" THEN "cacheGet" ELSE "build")
    /\ UNCHANGED <<gateVars, dbVars, pack, packEpoch, retired, historical, ver,
                   open, diskVars, cacheVars, conn, rows, seenDb, rowEpoch, out,
                   writerVars, closing>>

\* _leased_pack_snapshot() as lookup_first calls it: it waits at the state gate
\* although the caller is already counted in _state_readers.
NestedSnapshot(r) ==
    /\ pc[r] = "nested"
    /\ ~transition \/ closed
    /\ \/ /\ closed
          /\ Go(r, "exit")
          /\ UNCHANGED <<leases, held, seenPack>>
       \/ /\ ~closed
          /\ LeasePack(r, pack)
          /\ Go(r, "cacheGet")
    /\ UNCHANGED <<gateVars, dbVars, pack, packEpoch, retired, historical, ver,
                   open, diskVars, cacheVars, conn, rows, seenDb, rowEpoch, out,
                   writerVars, closing>>

\* Mutant: a closed store still leases.
LeaseAudioClosed(r) ==
    /\ pc[r] = "lease"
    /\ ~transition \/ closed
    /\ \E v \in Versions : LeaseVersion(r, v)
    /\ Go(r, "release")
    /\ UNCHANGED <<gateVars, dbVars, pack, packEpoch, retired, diskVars,
                   cacheVars, conn, rows, seenDb, rowEpoch, out, writerVars,
                   closing>>

\* leased_packed_audio: the lease a response body is streamed under.  It holds
\* no state lease, so transitions proceed while it lasts.
LeaseAudio(r) ==
    /\ pc[r] = "lease"
    /\ ~transition \/ closed
    /\ \/ /\ closed
          /\ Go(r, "idle")
          /\ UNCHANGED <<leases, historical, open, ver, held, seenPack>>
       \/ /\ ~closed
          /\ \E v \in Versions : LeaseVersion(r, v)
          /\ Go(r, "release")
    /\ UNCHANGED <<gateVars, dbVars, pack, packEpoch, retired, diskVars,
                   cacheVars, conn, rows, seenDb, rowEpoch, out, writerVars,
                   closing>>

AfterRelease(r) == IF op[r] = "lease" THEN "idle" ELSE "exit"

\* _leased_pack_snapshot, exit: the last lease on a pack that is no longer
\* current takes it out of the tables and closes it.
ReleasePack(r) ==
    /\ pc[r] = "release"
    /\ LET o == held[r] IN
        \/ /\ o = None
           /\ Go(r, AfterRelease(r))
           /\ UNCHANGED <<leases, historical, retired, closing>>
        \/ /\ o # None /\ (leases[o] > 1 \/ o = pack)
           /\ leases' = [leases EXCEPT ![o] = @ - 1]
           /\ Go(r, AfterRelease(r))
           /\ UNCHANGED <<historical, retired, closing>>
        \/ /\ o # None /\ leases[o] = 1 /\ o # pack
           /\ leases' = [leases EXCEPT ![o] = 0]
           /\ historical' = [v \in Versions |->
                               IF historical[v] = o THEN None
                               ELSE historical[v]]
           /\ retired' = retired \ {o}
           /\ closing' = [closing EXCEPT ![r] = {o}]
           /\ Go(r, "closePack")
    /\ held' = [held EXCEPT ![r] = None]
    /\ seenPack' = [seenPack EXCEPT ![r] = 0]
    /\ UNCHANGED <<gateVars, dbVars, pack, packEpoch, ver, open, diskVars,
                   cacheVars, conn, rows, seenDb, rowEpoch, out, writerVars>>

\* _close_pack_safely on everything thread t was handed.
CloseHanded(t) ==
    /\ open' = open \ closing[t]
    /\ ver' = [o \in Objects |-> IF o \in closing[t] THEN None ELSE ver[o]]
    /\ closing' = [closing EXCEPT ![t] = {}]

ReaderClosesPack(r) ==
    /\ pc[r] = "closePack"
    /\ CloseHanded(r)
    /\ Go(r, AfterRelease(r))
    /\ UNCHANGED <<gateVars, dbVars, pack, packEpoch, leases, retired,
                   historical, diskVars, cacheVars, readerVars, writerVars>>

---------------------------------------------------------------------------
(* Readers: rows and responses *)

Local(r, label) ==
    /\ Go(r, label)
    /\ UNCHANGED <<gateVars, packVars, diskVars, held, seenPack, writerVars,
                   closing>>

\* lookup and lookup_first read the database epoch under the database guard.
ReadEpoch(r) ==
    /\ pc[r] = "epoch" /\ DbGuardFree
    /\ seenDb' = [seenDb EXCEPT ![r] = dbEpoch]
    /\ Local(r, IF op[r] = "first" THEN "nested" ELSE "snapshot")
    /\ UNCHANGED <<dbVars, cacheVars, conn, rows, rowEpoch, out>>

ResponseKey(r) == <<op[r], seenDb[r], seenPack[r]>>

\* response_cache.get.
CacheGet(r) ==
    /\ pc[r] = "cacheGet"
    /\ LET hits == {c \in responses : c.key = ResponseKey(r)} IN
        \/ /\ hits = {}
           /\ Local(r, IF op[r] = "lookup" THEN "rows" ELSE "connect")
           /\ UNCHANGED out
        \/ \E c \in hits :
           /\ out' = [out EXCEPT ![r] = c.payload]
           /\ Local(r, "release")
    /\ UNCHANGED <<dbVars, cacheVars, conn, rows, seenDb, rowEpoch>>

AfterRows(r) == IF op[r] = "best" THEN "snapshot" ELSE "build"

\* _rows_unleased: the epoch the rows will be cached under.
RowsGate(r) ==
    /\ pc[r] = "rows" /\ DbGuardFree /\ ~publishing
    /\ rowEpoch' = [rowEpoch EXCEPT ![r] = dbEpoch]
    /\ Local(r, "rowGet")
    /\ UNCHANGED <<dbVars, cacheVars, conn, rows, seenDb, out>>

\* row_cache.get.
RowGet(r) ==
    /\ pc[r] = "rowGet"
    /\ LET hits == {c \in rowCache : c.epoch = rowEpoch[r]} IN
        \/ /\ hits = {}
           /\ Local(r, "connect")
           /\ UNCHANGED rows
        \/ \E c \in hits :
           /\ rows' = [rows EXCEPT ![r] = c.db]
           /\ Local(r, AfterRows(r))
    /\ UNCHANGED <<dbVars, cacheVars, conn, seenDb, rowEpoch, out>>

AfterQuery(r) == IF op[r] = "first" THEN "build" ELSE "rowPut"

\* _rows_uncached: the rows kept in memory, or a pooled or new connection.  An
\* immutable connection keeps reading the file it was opened on.
Connect(r) ==
    /\ pc[r] = "connect"
    /\ \/ /\ memRows # None
          /\ rows' = [rows EXCEPT ![r] = memRows]
          /\ Local(r, AfterQuery(r))
          /\ UNCHANGED <<conn, activeQueries, idle>>
       \/ /\ memRows = None
          /\ DbGuardFree /\ ~publishing
          /\ \/ \E c \in idle : conn' = [conn EXCEPT ![r] = c]
             \/ /\ idle = {}
                /\ conn' = [conn EXCEPT ![r] = dbFile]
          /\ \E rest \in {idle, idle \ {conn'[r]}} : idle' = rest
          /\ activeQueries' = activeQueries + 1
          /\ Local(r, "query")
          /\ UNCHANGED rows
    /\ UNCHANGED <<dbFile, publishing, dbEpoch, memRows, legacyRows, cacheVars,
                   seenDb, rowEpoch, out>>

\* The query and _leased_connection's exit; past the idle limit the connection
\* is closed instead of returned.
Query(r) ==
    /\ pc[r] = "query" /\ DbGuardFree
    /\ rows' = [rows EXCEPT ![r] = conn[r]]
    /\ activeQueries' = activeQueries - 1
    /\ idle' \in IF publishing THEN {idle} ELSE {idle, idle \cup {conn[r]}}
    /\ conn' = [conn EXCEPT ![r] = None]
    /\ Local(r, AfterQuery(r))
    /\ UNCHANGED <<dbFile, publishing, dbEpoch, memRows, legacyRows, cacheVars,
                   seenDb, rowEpoch, out>>

\* row_cache.put.
RowPut(r) ==
    /\ pc[r] = "rowPut"
    /\ rowCache' \in CachePut({c \in rowCache : c.epoch # rowEpoch[r]},
                              [epoch |-> rowEpoch[r], db |-> rows[r]])
    /\ Local(r, AfterRows(r))
    /\ UNCHANGED <<dbVars, responses, sources, conn, rows, seenDb, rowEpoch,
                   out>>

\* packed_target_for_legacy_path: the path index is built once per database.
LegacyRows(r) ==
    /\ pc[r] = "legacy" /\ DbGuardFree
    /\ \/ /\ legacyRows # None
          /\ UNCHANGED <<legacyRows, idle>>
       \/ /\ legacyRows = None /\ ~publishing
          /\ legacyRows' \in IF idle = {} THEN {dbFile} ELSE idle
          /\ idle' \in {idle, idle \cup {legacyRows'}}
    /\ rows' = [rows EXCEPT ![r] = legacyRows']
    /\ Local(r, "snapshot")
    /\ UNCHANGED <<dbFile, publishing, activeQueries, dbEpoch, memRows,
                   cacheVars, conn, seenDb, rowEpoch, out>>

\* The payload or URL is built from the rows, the leased pack and the sources.
Build(r) ==
    /\ pc[r] = "build"
    /\ out' = [out EXCEPT ![r] = [db |-> rows[r], pack |-> VersionOf(held[r]),
                                  src |-> sources]]
    /\ Local(r, IF op[r] \in {"lookup", "first"} THEN "cachePut" ELSE "release")
    /\ UNCHANGED <<dbVars, cacheVars, conn, rows, seenDb, rowEpoch>>

\* response_cache.put.
CachePutResponse(r) ==
    /\ pc[r] = "cachePut"
    /\ responses' \in CachePut({c \in responses : c.key # ResponseKey(r)},
                               [key |-> ResponseKey(r), payload |-> out[r]])
    /\ Local(r, "release")
    /\ UNCHANGED <<dbVars, rowCache, sources, conn, rows, seenDb, rowEpoch, out>>

---------------------------------------------------------------------------
(* Writers: the gate and the build lock *)

WriterStep(w, label) ==
    /\ Go(w, label)
    /\ UNCHANGED readerVars

\* Mutant: the database is published without the build lock.
CallUnlocked(w) ==
    /\ pc[w] = "idle" /\ calls < MaxCalls
    /\ calls' = calls + 1
    /\ \E o \in WriterOps :
        /\ op' = [op EXCEPT ![w] = o]
        /\ \/ /\ o \in {"invalidate", "build"}
              /\ buildLock = None
              /\ buildLock' = w
              /\ pc' = [pc EXCEPT ![w] = "checkProtected"]
           \/ /\ o \in {"publish", "reload", "sources", "close"}
              /\ pc' = [pc EXCEPT ![w] = "begin"]
              /\ UNCHANGED buildLock
    /\ UNCHANGED <<gateVars, dbVars, packVars, active, built, protected,
                   cacheVars, readerVars, fresh, closing>>

\* An operation is called.  publish_database, invalidate_database and a pack
\* build take the build lock first and raise when it is busy or when cleanup
\* state is protected (a call that finds the lock busy changes nothing).
Call(w) ==
    /\ pc[w] = "idle" /\ calls < MaxCalls
    /\ calls' = calls + 1
    /\ \E o \in WriterOps :
        /\ op' = [op EXCEPT ![w] = o]
        /\ \/ /\ o \in {"publish", "invalidate", "build"}
              /\ buildLock = None
              /\ buildLock' = w
              /\ pc' = [pc EXCEPT ![w] = "checkProtected"]
           \/ /\ o \in {"reload", "sources", "close"}
              /\ pc' = [pc EXCEPT ![w] = "begin"]
              /\ UNCHANGED buildLock
    /\ UNCHANGED <<gateVars, dbVars, packVars, active, built, protected,
                   cacheVars, readerVars, fresh, closing>>

ReleaseBuildLock(w) == buildLock' = IF buildLock = w THEN None ELSE buildLock

\* protected_cleanup_state_exists, first check under the build lock.
CheckProtected(w) ==
    /\ pc[w] = "checkProtected"
    /\ \/ /\ protected
          /\ ReleaseBuildLock(w)
          /\ WriterStep(w, "idle")
       \/ /\ ~protected
          /\ WriterStep(w, IF op[w] = "build" THEN "activate" ELSE "begin")
          /\ UNCHANGED buildLock
    /\ UNCHANGED <<gateVars, dbVars, packVars, active, built, protected,
                   cacheVars, writerVars, closing>>

Unlock(w) ==
    /\ pc[w] = "unlock"
    /\ ReleaseBuildLock(w)
    /\ WriterStep(w, IF op[w] = "build" THEN "begin" ELSE "idle")
    /\ UNCHANGED <<gateVars, dbVars, packVars, active, built, protected,
                   cacheVars, writerVars, closing>>

\* _begin_state_transition up to the flag; a closed store raises.
BeginTransition(w) ==
    /\ pc[w] = "begin" /\ ~transition
    /\ \/ /\ closed
          /\ ReleaseBuildLock(w)
          /\ WriterStep(w, "idle")
          /\ UNCHANGED transition
       \/ /\ ~closed
          /\ transition' = TRUE
          /\ WriterStep(w, "drain")
          /\ UNCHANGED buildLock
    /\ UNCHANGED <<stateReaders, closed, dbVars, packVars, active, built,
                   protected, cacheVars, writerVars, closing>>

\* Mutant: the transition does not wait.
DrainReadersAtOnce(w) ==
    /\ pc[w] = "drain"
    /\ WriterStep(w, CASE op[w] = "publish" -> "recheck"
                       [] op[w] = "invalidate" -> "gate"
                       [] op[w] = "sources" -> "replaceSources"
                       [] op[w] = "close" -> "markClosed"
                       [] OTHER -> "open")
    /\ UNCHANGED <<gateVars, dbVars, packVars, diskVars, cacheVars, writerVars,
                   closing>>

\* ... and until the readers have left.
DrainReaders(w) ==
    /\ pc[w] = "drain" /\ stateReaders = 0
    /\ WriterStep(w, CASE op[w] = "publish" -> "recheck"
                       [] op[w] = "invalidate" -> "gate"
                       [] op[w] = "sources" -> "replaceSources"
                       [] op[w] = "close" -> "markClosed"
                       [] OTHER -> "open")
    /\ UNCHANGED <<gateVars, dbVars, packVars, diskVars, cacheVars, writerVars,
                   closing>>

\* Mutant: a reload leaves the flag up.
EndTransitionHeld(w) ==
    /\ pc[w] = "end"
    /\ transition' = (op[w] = "reload")
    /\ WriterStep(w, CASE op[w] = "close" -> "closePack"
                       [] buildLock = w -> "unlock"
                       [] OTHER -> "idle")
    /\ UNCHANGED <<stateReaders, closed, dbVars, packVars, diskVars, cacheVars,
                   writerVars, closing>>

\* _end_state_transition.

EndTransition(w) ==
    /\ pc[w] = "end"
    /\ transition' = FALSE
    /\ WriterStep(w, CASE op[w] = "close" -> "closePack"
                       [] buildLock = w -> "unlock"
                       [] OTHER -> "idle")
    /\ UNCHANGED <<stateReaders, closed, dbVars, packVars, diskVars, cacheVars,
                   writerVars, closing>>

---------------------------------------------------------------------------
(* Writers: what happens while the gate is closed *)

\* publish_database checks the cleanup state again before it activates.
RecheckProtected(w) ==
    /\ pc[w] = "recheck"
    /\ WriterStep(w, IF protected THEN "end" ELSE "gate")
    /\ UNCHANGED <<gateVars, dbVars, packVars, diskVars, cacheVars, writerVars,
                   closing>>

\* close sets _closed under the state guard.
MarkClosed(w) ==
    /\ pc[w] = "markClosed"
    /\ closed' = TRUE
    /\ WriterStep(w, "gate")
    /\ UNCHANGED <<transition, stateReaders, dbVars, packVars, diskVars,
                   cacheVars, writerVars, closing>>

\* _begin_database_publish: no new query may start ...
BlockQueries(w) ==
    /\ pc[w] = "gate" /\ DbGuardFree
    /\ publishing' = TRUE
    /\ WriterStep(w, "closeConnections")
    /\ UNCHANGED <<gateVars, dbFile, activeQueries, dbEpoch, idle, memRows,
                   legacyRows, packVars, diskVars, cacheVars, writerVars,
                   closing>>

\* ... and once the running ones are done every connection is closed.
CloseConnections(w) ==
    /\ pc[w] = "closeConnections" /\ DbGuardFree /\ activeQueries = 0
    /\ idle' = {}
    /\ rowCache' = {} /\ responses' = {}
    /\ WriterStep(w, CASE op[w] = "publish" -> "replace"
                       [] op[w] = "invalidate" -> "epoch"
                       [] OTHER -> "closeEpoch")
    /\ UNCHANGED <<gateVars, dbFile, publishing, activeQueries, dbEpoch,
                   memRows, legacyRows, packVars, diskVars, sources,
                   writerVars, closing>>

\* os.replace puts the temporary database in place, or raises.
ReplaceDatabase(w) ==
    /\ pc[w] = "replace"
    /\ \/ /\ dbFile' = dbFile + 1
          /\ WriterStep(w, "epoch")
       \/ /\ UNCHANGED dbFile
          /\ WriterStep(w, "endPublish")
    /\ UNCHANGED <<gateVars, publishing, activeQueries, dbEpoch, idle, memRows,
                   legacyRows, packVars, diskVars, cacheVars, writerVars,
                   closing>>

\* Memory rows (dropped for good when memory runs out), epoch, caches.
AdvanceEpoch(w) ==
    /\ pc[w] = "epoch"
    /\ memRows' \in IF memRows = None THEN {None} ELSE {dbFile, None}
    /\ dbEpoch' = dbEpoch + 1
    /\ legacyRows' = None
    /\ rowCache' = {} /\ responses' = {}
    /\ WriterStep(w, "open")
    /\ UNCHANGED <<gateVars, dbFile, publishing, activeQueries, idle, packVars,
                   diskVars, sources, writerVars, closing>>

\* _reload_pack_unleased: AudioPack.open_active.
OpenActive(w) ==
    /\ pc[w] = "open"
    /\ \/ /\ ActivePack = None
          /\ UNCHANGED <<fresh, open, ver>>
       \/ /\ ActivePack # None
          /\ \E o \in Objects :
                /\ Unused(o)
                /\ open' = open \cup {o}
                /\ ver' = [ver EXCEPT ![o] = ActivePack]
                /\ fresh' = [fresh EXCEPT ![w] = o]
    /\ WriterStep(w, "swap")
    /\ UNCHANGED <<gateVars, dbVars, pack, packEpoch, leases, retired,
                   historical, diskVars, cacheVars, closing, calls>>

\* ... the swap under the pack guard ...
SwapPack(w) ==
    /\ pc[w] = "swap"
    /\ pack' = fresh[w]
    /\ packEpoch' = packEpoch + 1
    /\ RetirePack(w, pack)
    /\ fresh' = [fresh EXCEPT ![w] = None]
    /\ WriterStep(w, "clear")
    /\ UNCHANGED <<gateVars, dbVars, leases, ver, open, diskVars, cacheVars,
                   calls>>

\* ... the response cache, and the retired pack if nobody leases it.
ClearResponses(w) ==
    /\ pc[w] = "clear"
    /\ responses' = {}
    /\ CloseHanded(w)
    /\ WriterStep(w, IF op[w] \in {"publish", "invalidate"}
                     THEN "endPublish" ELSE "end")
    /\ UNCHANGED <<gateVars, dbVars, pack, packEpoch, leases, retired,
                   historical, diskVars, rowCache, sources, writerVars>>

\* _end_database_publish.
EndPublish(w) ==
    /\ pc[w] = "endPublish"
    /\ publishing' = FALSE
    /\ WriterStep(w, "end")
    /\ UNCHANGED <<gateVars, dbFile, activeQueries, dbEpoch, idle, memRows,
                   legacyRows, packVars, diskVars, cacheVars, writerVars,
                   closing>>

\* Mutant: the responses built with the old roots are kept.
ReplaceSourcesOnly(w) ==
    /\ pc[w] = "replaceSources"
    /\ sources' = sources + 1
    /\ legacyRows' = None
    /\ WriterStep(w, "end")
    /\ UNCHANGED <<gateVars, dbFile, publishing, activeQueries, dbEpoch, idle,
                   memRows, packVars, diskVars, responses, rowCache,
                   writerVars, closing>>

\* replace_sources.
ReplaceSources(w) ==
    /\ pc[w] = "replaceSources"
    /\ sources' = sources + 1
    /\ legacyRows' = None
    /\ responses' = {}
    /\ WriterStep(w, "end")
    /\ UNCHANGED <<gateVars, dbFile, publishing, activeQueries, dbEpoch, idle,
                   memRows, packVars, diskVars, rowCache, writerVars, closing>>

\* close: rows and epoch under the database guard.
CloseEpoch(w) ==
    /\ pc[w] = "closeEpoch"
    /\ memRows' = None /\ legacyRows' = None
    /\ dbEpoch' = dbEpoch + 1
    /\ publishing' = FALSE
    /\ WriterStep(w, "retireAll")
    /\ UNCHANGED <<gateVars, dbFile, activeQueries, idle, packVars, diskVars,
                   cacheVars, writerVars, closing>>

Known == ({pack} \ {None}) \cup retired \cup
         {historical[v] : v \in {u \in Versions : historical[u] # None}}

\* close: every pack leaves the tables; leased ones wait in the retired set.
RetireAll(w) ==
    /\ pc[w] = "retireAll"
    /\ pack' = None
    /\ packEpoch' = packEpoch + 1
    /\ historical' = [v \in Versions |-> None]
    /\ retired' = {o \in Known : leases[o] > 0}
    /\ closing' = [closing EXCEPT ![w] = {o \in Known : leases[o] = 0}]
    /\ rowCache' = {} /\ responses' = {}
    /\ WriterStep(w, "end")
    /\ UNCHANGED <<gateVars, dbVars, leases, ver, open, diskVars, sources,
                   writerVars>>

WriterClosesPacks(w) ==
    /\ pc[w] = "closePack"
    /\ CloseHanded(w)
    /\ WriterStep(w, "idle")
    /\ UNCHANGED <<gateVars, dbVars, pack, packEpoch, leases, retired,
                   historical, diskVars, cacheVars, writerVars>>

---------------------------------------------------------------------------
(* What reaches the disk from the pack build and from cleanup *)

\* A build under the lock ends by activating a version made for the database
\* it read, or by failing.
ActivateBuild(w) ==
    /\ pc[w] = "activate"
    /\ \/ /\ \E v \in Versions :
                /\ DbOf[v] = dbFile
                /\ active' = v
                /\ built' = built \cup {v}
          /\ WriterStep(w, "unlock")
          /\ UNCHANGED buildLock
       \/ /\ UNCHANGED <<active, built>>
          /\ ReleaseBuildLock(w)
          /\ WriterStep(w, "idle")
    /\ UNCHANGED <<gateVars, dbVars, packVars, protected, cacheVars, writerVars,
                   closing>>

\* Cleanup and restore run under the build lock and leave the marker behind.
Cleanup ==
    /\ buildLock = None
    /\ protected' = ~protected
    /\ UNCHANGED <<gateVars, dbVars, packVars, active, built, buildLock,
                   cacheVars, readerVars, writerVars, closing, pc, op>>

---------------------------------------------------------------------------

ReaderNext(r) ==
    \/ Start(r) \/ EnterState(r) \/ ExitState(r)
    \/ Snapshot(r) \/ NestedSnapshot(r) \/ LeaseAudio(r)
    \/ ReleasePack(r) \/ ReaderClosesPack(r)
    \/ ReadEpoch(r) \/ CacheGet(r) \/ RowsGate(r) \/ RowGet(r)
    \/ Connect(r) \/ Query(r) \/ RowPut(r) \/ LegacyRows(r)
    \/ Build(r) \/ CachePutResponse(r)

WriterNext(w) ==
    \/ Call(w) \/ CheckProtected(w) \/ Unlock(w)
    \/ BeginTransition(w) \/ DrainReaders(w) \/ EndTransition(w)
    \/ RecheckProtected(w) \/ MarkClosed(w)
    \/ BlockQueries(w) \/ CloseConnections(w) \/ ReplaceDatabase(w)
    \/ AdvanceEpoch(w) \/ OpenActive(w) \/ SwapPack(w) \/ ClearResponses(w)
    \/ EndPublish(w) \/ ReplaceSources(w)
    \/ CloseEpoch(w) \/ RetireAll(w) \/ WriterClosesPacks(w)
    \/ ActivateBuild(w)

Next ==
    \/ \E r \in Readers : ReaderNext(r)
    \/ \E w \in Writers : WriterNext(w)
    \/ Cleanup

Spec == Init /\ [][Next]_vars

\* Threads are scheduled: one that can take a step of a call it is in takes it.
\* Nothing forces a client to make a call.
Fairness ==
    /\ \A r \in Readers : WF_vars(ReaderNext(r) /\ pc[r] # "idle")
    /\ \A w \in Writers : WF_vars(WriterNext(w) /\ pc[w] # "idle")

FairSpec == Spec /\ Fairness

---------------------------------------------------------------------------
(* Properties *)

\* A reader counted in _state_readers.
InState(r) == op[r] # "lease" /\ pc[r] \notin {"idle", "enter", "lease"}

\* A writer that owns the transition flag, and one past the drain.
OwnsGate(w) ==
    pc[w] \in GuardPoints \cup
              {"drain", "recheck", "markClosed", "gate", "closeConnections",
               "replaceSources", "retireAll", "end"}
InBody(w) == OwnsGate(w) /\ pc[w] # "drain"

ReaderPoints ==
    {"idle", "enter", "epoch", "nested", "snapshot", "lease", "cacheGet",
     "rows", "rowGet", "connect", "query", "rowPut", "legacy", "build",
     "cachePut", "release", "closePack", "exit"}
WriterPoints ==
    GuardPoints \cup
    {"idle", "checkProtected", "unlock", "activate", "begin", "drain",
     "recheck", "markClosed", "gate", "closeConnections", "replaceSources",
     "retireAll", "end", "closePack"}

TypeGate ==
    /\ transition \in BOOLEAN /\ stateReaders \in Nat /\ closed \in BOOLEAN
TypeDb ==
    /\ dbFile \in Nat /\ publishing \in BOOLEAN /\ activeQueries \in Nat
    /\ dbEpoch \in Nat /\ idle \subseteq Nat
    /\ memRows \in OrNone(Nat) /\ legacyRows \in OrNone(Nat)
TypePacks ==
    /\ pack \in OrNone(Objects) /\ packEpoch \in Nat
    /\ leases \in [Objects -> Nat]
    /\ retired \subseteq Objects
    /\ historical \in [Versions -> OrNone(Objects)]
    /\ ver \in [Objects -> OrNone(Versions)] /\ open \subseteq Objects
TypeDisk ==
    /\ active \in OrNone(Versions) /\ built \subseteq Versions
    /\ buildLock \in OrNone(Writers) /\ protected \in BOOLEAN
TypeCaches ==
    /\ responses \subseteq
          [key : {"lookup", "first"} \X Nat \X Nat, payload : Payload]
    /\ rowCache \subseteq [epoch : Nat, db : Nat]
    /\ sources \in Nat
TypeThreads ==
    /\ pc \in [Threads -> ReaderPoints \cup WriterPoints]
    /\ \A r \in Readers : pc[r] \in ReaderPoints
    /\ \A w \in Writers : pc[w] \in WriterPoints
    /\ op \in [Threads -> ReaderOps \cup WriterOps \cup {"none"}]
TypeReaders ==
    /\ held \in [Readers -> OrNone(Objects)]
    /\ conn \in [Readers -> OrNone(Nat)] /\ rows \in [Readers -> OrNone(Nat)]
    /\ seenDb \in [Readers -> Nat] /\ seenPack \in [Readers -> Nat]
    /\ rowEpoch \in [Readers -> Nat] /\ out \in [Readers -> OrNone(Payload)]
TypeWriters ==
    /\ fresh \in [Writers -> OrNone(Objects)] /\ calls \in Nat
    /\ closing \in [Threads -> SUBSET Objects]

\* Every variable has the type the code gives it.
TypeOK ==
    /\ TypeGate /\ TypeDb /\ TypePacks /\ TypeDisk /\ TypeCaches
    /\ TypeThreads /\ TypeReaders /\ TypeWriters

\* While a transition changes the store no reader is inside it, the reader
\* count is the number of readers inside, and transitions exclude each other.
GateExclusion ==
    /\ stateReaders = Cardinality({r \in Readers : InState(r)})
    /\ \A w \in Writers : InBody(w) => \A r \in Readers : ~InState(r)
    /\ \A w, x \in Writers : OwnsGate(w) /\ OwnsGate(x) => w = x

\* The memory map of a pack is never closed under a response that is being
\* built from it or streamed from it, whatever reloads run meanwhile.
LeasedPackOpen == \A r \in Readers : held[r] # None => held[r] \in open

\* No pack object is lost: each one still open is current, leased under its
\* version or as retired, about to become current, or about to be closed; and
\* none but the current one is kept that nobody leases.
NoPackLeak ==
    /\ open = Known \cup ({fresh[w] : w \in Writers} \ {None})
                    \cup UNION {closing[t] : t \in Threads}
    /\ \A o \in Known \ {pack} : leases[o] > 0

\* Outside a transition the current pack was built for the current database.
PackMatchesDatabase ==
    (\A w \in Writers : ~InBody(w)) =>
        (pack # None => DbOf[ver[pack]] = dbFile)

\* What a lookup answers from: a publication takes effect when the pack is
\* swapped, not when the database file is.
Served ==
    [db |-> IF \E w \in Writers : /\ op[w] = "publish"
                                  /\ pc[w] \in {"epoch", "open", "swap"}
            THEN dbFile - 1 ELSE dbFile,
     pack |-> VersionOf(pack),
     src |-> sources]

\* A cached response a lookup could still hit is what a fresh computation
\* would return, and so are cached rows and the cached path index.
CachesFresh ==
    (\A w \in Writers : ~InBody(w)) =>
        /\ \A c \in responses :
              c.key[2] = dbEpoch /\ c.key[3] = packEpoch => c.payload = Served
        /\ \A c \in rowCache : c.epoch = dbEpoch => c.db = dbFile
        /\ legacyRows \in {None, dbFile}
        /\ memRows \in {None, dbFile}

\* Once the store is closed no pack is leased any more.
NoLeaseAfterClose ==
    [][closed => \A o \in Objects : leases'[o] <= leases[o]]_vars

\* The database is replaced only by the thread that owns the build lock, while
\* no packed-only cleanup relies on the current one.
PublicationAuthorised ==
    [][dbFile' # dbFile => /\ ~protected
                           /\ buildLock \in Writers
                           /\ op[buildLock] = "publish"]_vars

\* Lookups see each publication, pack reload and source replacement as one
\* atomic change of a coherent configuration.
Service == INSTANCE LookupService WITH
    served <- Served,
    answer <- out,
    down <- closed
ImplementsService == Service!Spec

\* Every transition that starts ends.
TransitionsEnd ==
    \A w \in Writers : (pc[w] = "drain") ~> ~OwnsGate(w)
\* Every call returns, of a worker and of a lifecycle thread.
CallsReturn == \A t \in Threads : (pc[t] # "idle") ~> (pc[t] = "idle")
=============================================================================
