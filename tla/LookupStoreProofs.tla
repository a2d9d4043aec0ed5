------------------------- MODULE LookupStoreProofs -------------------------
(***************************************************************************)
(* Proofs about LookupStore.                                               *)
(***************************************************************************)
EXTENDS LookupStore, FiniteSetTheorems, TLAPS

\* What a reader's locals hold at each point of its call.
ReaderLocals ==
    \A r \in Readers :
        /\ pc[r] # "idle" => op[r] \in ReaderOps
        /\ op[r] = "lease" => pc[r] \in {"lease", "release", "closePack"}
        /\ pc[r] = "lease" => op[r] = "lease"
        /\ pc[r] = "legacy" => op[r] = "path"
        /\ pc[r] \in {"idle", "enter", "epoch", "nested", "snapshot", "lease",
                     "closePack", "exit"} => held[r] = None
        /\ op[r] \in {"best", "path"} /\ pc[r] \notin {"build", "release"} =>
              held[r] = None
        /\ pc[r] = "query" => conn[r] \in Nat
        /\ pc[r] \in {"rowPut", "build"} => rows[r] \in Nat
        /\ pc[r] = "cachePut" => out[r] \in Payload
        /\ pc[r] \in {"epoch", "nested", "cacheGet", "cachePut"} =>
              op[r] \in {"lookup", "first"}
        /\ (pc[r] = "snapshot" /\ op[r] # "lookup") => rows[r] \in Nat

\* The three counters count what they are meant to count.
GateCount == stateReaders = Cardinality({r \in Readers : InState(r)})
QueryCount == activeQueries = Cardinality({r \in Readers : pc[r] = "query"})
LeaseCount ==
    \A o \in Objects : leases[o] = Cardinality({r \in Readers : held[r] = o})

LEMMA CountAdd ==
    ASSUME NEW S, NEW T, NEW x, IsFiniteSet(S), x \notin S, T = S \cup {x}
    PROVE  Cardinality(T) = Cardinality(S) + 1 /\ IsFiniteSet(T)
BY FS_AddElement

LEMMA CountRemove ==
    ASSUME NEW S, NEW T, NEW x, IsFiniteSet(S), x \in S, T = S \ {x}
    PROVE  Cardinality(T) = Cardinality(S) - 1 /\ Cardinality(S) \in Nat \ {0}
<1>1. Cardinality(T) = Cardinality(S) - 1
    BY FS_RemoveElement
<1>2. IsFiniteSet(T) /\ Cardinality(T) \in Nat /\ Cardinality(S) \in Nat
    BY FS_RemoveElement, FS_CardinalityType
<1> QED BY <1>1, <1>2

CoreInv == TypeOK /\ ReaderLocals /\ GateCount /\ QueryCount /\ LeaseCount

\* The constructor's state.
LEMMA InitType == Init => TypeOK
<1> SUFFICES ASSUME Init PROVE TypeOK
    OBVIOUS
<1> USE StoreAssumption DEF Init
<1>1. TypeGate BY DEF TypeGate
<1>2. TypeDb
    <2>1. memRows \in {0, None}
        OBVIOUS
    <2>2. memRows \in OrNone(Nat)
        BY <2>1 DEF OrNone
    <2>3. legacyRows \in OrNone(Nat) /\ idle \subseteq Nat
        BY DEF OrNone
    <2> QED BY <2>2, <2>3 DEF TypeDb
<1>3. TypePacks
    <2>1. pack \in OrNone(Objects)
        BY DEF OrNone
    <2>2. open \subseteq Objects
        BY <2>1 DEF OrNone
    <2>3. ver \in [Objects -> OrNone(Versions)]
        BY DEF OrNone
    <2> QED BY <2>1, <2>2, <2>3 DEF TypePacks, OrNone
<1>4. TypeDisk BY DEF TypeDisk, OrNone
<1>5. TypeCaches BY DEF TypeCaches
<1>6. TypeThreads BY DEF TypeThreads, Threads, ReaderPoints, WriterPoints
<1>7. TypeReaders BY DEF TypeReaders, OrNone
<1>8. TypeWriters BY DEF TypeWriters, OrNone, Threads
<1> QED BY <1>1, <1>2, <1>3, <1>4, <1>5, <1>6, <1>7, <1>8 DEF TypeOK

\* A thread that moves on stays within its program.
LEMMA ReaderGoes ==
    ASSUME TypeThreads, NEW r \in Readers, NEW label \in ReaderPoints,
           Go(r, label)
    PROVE  TypeThreads'
BY StoreAssumption DEF TypeThreads, Go, Threads

LEMMA WriterGoes ==
    ASSUME TypeThreads, NEW w \in Writers, NEW label \in WriterPoints,
           Go(w, label)
    PROVE  TypeThreads'
BY StoreAssumption DEF TypeThreads, Go, Threads

LEMMA LeasePackTypes ==
    ASSUME TypePacks, TypeReaders, NEW r \in Readers, NEW o \in OrNone(Objects),
           LeasePack(r, o)
    PROVE  /\ held' \in [Readers -> OrNone(Objects)]
           /\ seenPack' \in [Readers -> Nat]
           /\ leases' \in [Objects -> Nat]
BY StoreAssumption DEF LeasePack, TypePacks, TypeReaders, OrNone

LEMMA LeaseVersionTypes ==
    ASSUME TypePacks, TypeReaders, NEW r \in Readers, NEW v \in Versions,
           LeaseVersion(r, v)
    PROVE  /\ held' \in [Readers -> OrNone(Objects)]
           /\ seenPack' \in [Readers -> Nat]
           /\ leases' \in [Objects -> Nat]
           /\ historical' \in [Versions -> OrNone(Objects)]
           /\ ver' \in [Objects -> OrNone(Versions)]
           /\ open' \subseteq Objects
<1>1. PICK o \in OrNone(Objects) : LeasePack(r, o)
    BY DEF LeaseVersion, TypePacks, OrNone
<1>2. /\ historical' \in [Versions -> OrNone(Objects)]
      /\ ver' \in [Objects -> OrNone(Versions)]
      /\ open' \subseteq Objects
    BY DEF LeaseVersion, TypePacks, OrNone
<1> QED BY <1>1, <1>2, LeasePackTypes

LEMMA CloseHandedTypes ==
    ASSUME TypePacks, TypeWriters, NEW t \in Threads, CloseHanded(t)
    PROVE  /\ open' \subseteq Objects
           /\ ver' \in [Objects -> OrNone(Versions)]
           /\ closing' \in [Threads -> SUBSET Objects]
BY DEF CloseHanded, TypePacks, TypeWriters, OrNone

LEMMA RetirePackTypes ==
    ASSUME TypePacks, TypeWriters, NEW w \in Writers, NEW o \in OrNone(Objects),
           RetirePack(w, o)
    PROVE  /\ historical' \in [Versions -> OrNone(Objects)]
           /\ retired' \subseteq Objects
           /\ closing' \in [Threads -> SUBSET Objects]
<1>1. CASE o = None
    BY <1>1 DEF RetirePack, TypePacks, TypeWriters
<1>2. CASE o # None /\ leases[o] > 0
    BY <1>2 DEF RetirePack, TypePacks, TypeWriters, OrNone
<1>3. CASE o # None /\ leases[o] = 0
    BY <1>3 DEF RetirePack, TypePacks, TypeWriters, OrNone, Threads
<1> QED BY <1>1, <1>2, <1>3 DEF TypePacks, OrNone, RetirePack

\* A counter is positive while one of the readers it counts is there.
LEMMA GatePositive ==
    ASSUME GateCount, NEW r \in Readers, InState(r)
    PROVE  stateReaders - 1 \in Nat
<1> DEFINE S == {q \in Readers : InState(q)}
<1>1. IsFiniteSet(S)
    BY FS_Subset, StoreAssumption
<1>2. Cardinality(S) \in Nat \ {0}
    BY <1>1, CountRemove, S \ {r} = S \ {r}
<1> QED BY <1>2 DEF GateCount

LEMMA QueryPositive ==
    ASSUME QueryCount, NEW r \in Readers, pc[r] = "query"
    PROVE  activeQueries - 1 \in Nat
<1> DEFINE S == {q \in Readers : pc[q] = "query"}
<1>1. IsFiniteSet(S)
    BY FS_Subset, StoreAssumption
<1>2. Cardinality(S) \in Nat \ {0}
    BY <1>1, CountRemove, S \ {r} = S \ {r}
<1> QED BY <1>2 DEF QueryCount

LEMMA LeasePositive ==
    ASSUME LeaseCount, NEW r \in Readers, NEW o \in Objects, held[r] = o
    PROVE  leases[o] - 1 \in Nat
<1> DEFINE S == {q \in Readers : held[q] = o}
<1>1. IsFiniteSet(S)
    BY FS_Subset, StoreAssumption
<1>2. Cardinality(S) \in Nat \ {0}
    BY <1>1, CountRemove, S \ {r} = S \ {r}
<1> QED BY <1>2 DEF LeaseCount

\* A cache put only adds the new entry.
LEMMA CachePutSubset ==
    ASSUME NEW S, NEW others \in SUBSET S, NEW entry \in S,
           NEW result \in CachePut(others, entry)
    PROVE  result \subseteq S
BY DEF CachePut

LEMMA EnterStateType ==
    ASSUME CoreInv, NEW r \in Readers, EnterState(r) PROVE TypeOK'
<1> USE DEF CoreInv, TypeOK
<1>1. TypeThreads'
    BY ReaderGoes DEF EnterState, ReaderPoints
<1>2. TypeDb' /\ TypePacks' /\ TypeDisk' /\ TypeCaches' /\ TypeReaders' /\ TypeWriters'
    BY DEF EnterState, TypeDb, TypePacks, TypeDisk, TypeCaches, TypeReaders,
       TypeWriters, dbVars, packVars, diskVars, cacheVars, readerVars,
       writerVars
<1>3. TypeGate'
    BY StoreAssumption DEF EnterState, TypeGate, gateVars
<1> QED BY <1>1, <1>2, <1>3

LEMMA ExitStateType ==
    ASSUME CoreInv, NEW r \in Readers, ExitState(r) PROVE TypeOK'
<1> USE DEF CoreInv, TypeOK
<1>1. TypeThreads'
    BY ReaderGoes DEF ExitState, ReaderPoints
<1>2. TypeDb' /\ TypePacks' /\ TypeDisk' /\ TypeCaches' /\ TypeWriters'
    BY DEF ExitState, TypeDb, TypePacks, TypeDisk, TypeCaches, TypeWriters,
       dbVars, packVars, diskVars, cacheVars, writerVars
<1>3. TypeGate'
    BY GatePositive DEF ExitState, InState, ReaderLocals, TypeGate
<1>4. TypeReaders'
    BY StoreAssumption DEF ExitState, TypeReaders, readerVars, OrNone
<1> QED BY <1>1, <1>2, <1>3, <1>4

LEMMA SnapshotType ==
    ASSUME CoreInv, NEW r \in Readers, Snapshot(r) PROVE TypeOK'
<1> USE DEF CoreInv, TypeOK
<1>1. TypeThreads'
    BY ReaderGoes DEF Snapshot, ReaderPoints
<1>2. TypeGate' /\ TypeDb' /\ TypeDisk' /\ TypeCaches' /\ TypeWriters'
    BY DEF Snapshot, TypeGate, TypeDb, TypeDisk, TypeCaches, TypeWriters,
       gateVars, dbVars, diskVars, cacheVars, writerVars
<1>3. TypePacks'
    BY LeasePackTypes DEF Snapshot, TypePacks
<1>4. TypeReaders'
    BY LeasePackTypes DEF Snapshot, TypePacks, TypeReaders
<1> QED BY <1>1, <1>2, <1>3, <1>4

LEMMA NestedSnapshotType ==
    ASSUME CoreInv, NEW r \in Readers, NestedSnapshot(r) PROVE TypeOK'
<1> USE DEF CoreInv, TypeOK
<1>1. TypeThreads'
    BY ReaderGoes DEF NestedSnapshot, ReaderPoints
<1>2. TypeGate' /\ TypeDb' /\ TypeDisk' /\ TypeCaches' /\ TypeWriters'
    BY DEF NestedSnapshot, TypeGate, TypeDb, TypeDisk, TypeCaches, TypeWriters,
       gateVars, dbVars, diskVars, cacheVars, writerVars
<1>3. TypePacks'
    BY LeasePackTypes DEF NestedSnapshot, TypePacks
<1>4. TypeReaders'
    BY LeasePackTypes DEF NestedSnapshot, TypePacks, TypeReaders
<1> QED BY <1>1, <1>2, <1>3, <1>4

LEMMA LeaseAudioType ==
    ASSUME CoreInv, NEW r \in Readers, LeaseAudio(r) PROVE TypeOK'
<1> USE DEF CoreInv, TypeOK
<1>1. TypeThreads'
    BY ReaderGoes DEF LeaseAudio, ReaderPoints
<1>2. TypeGate' /\ TypeDb' /\ TypeDisk' /\ TypeCaches' /\ TypeWriters'
    BY DEF LeaseAudio, TypeGate, TypeDb, TypeDisk, TypeCaches, TypeWriters,
       gateVars, dbVars, diskVars, cacheVars, writerVars
<1>3. TypePacks'
    BY LeaseVersionTypes DEF LeaseAudio, TypePacks
<1>4. TypeReaders'
    BY LeaseVersionTypes DEF LeaseAudio, TypeReaders
<1> QED BY <1>1, <1>2, <1>3, <1>4

LEMMA ReleasePackType ==
    ASSUME CoreInv, NEW r \in Readers, ReleasePack(r) PROVE TypeOK'
<1> USE DEF CoreInv, TypeOK
<1>1. TypeThreads'
    BY ReaderGoes DEF ReleasePack, AfterRelease, ReaderPoints
<1>2. TypeGate' /\ TypeDb' /\ TypeDisk' /\ TypeCaches'
    BY DEF ReleasePack, TypeGate, TypeDb, TypeDisk, TypeCaches, gateVars,
       dbVars, diskVars, cacheVars
<1>3. TypePacks'
    BY LeasePositive DEF ReleasePack, TypePacks, TypeReaders, OrNone
<1>4. TypeReaders'
    BY StoreAssumption DEF ReleasePack, TypeReaders, readerVars, OrNone
<1>5. TypeWriters'
    BY DEF ReleasePack, TypeWriters, TypeReaders, writerVars, OrNone, Threads
<1> QED BY <1>1, <1>2, <1>3, <1>4, <1>5

LEMMA ReaderClosesPackType ==
    ASSUME CoreInv, NEW r \in Readers, ReaderClosesPack(r) PROVE TypeOK'
<1> USE DEF CoreInv, TypeOK
<1>1. TypeThreads'
    BY ReaderGoes DEF ReaderClosesPack, AfterRelease, ReaderPoints
<1>2. TypeGate' /\ TypeDb' /\ TypeDisk' /\ TypeCaches' /\ TypeReaders'
    BY DEF ReaderClosesPack, TypeGate, TypeDb, TypeDisk, TypeCaches,
       TypeReaders, gateVars, dbVars, diskVars, cacheVars, readerVars
<1>3. TypePacks'
    BY CloseHandedTypes DEF ReaderClosesPack, TypePacks, Threads
<1>4. TypeWriters'
    BY CloseHandedTypes DEF ReaderClosesPack, TypeWriters, writerVars, Threads
<1> QED BY <1>1, <1>2, <1>3, <1>4

LEMMA ReadEpochType ==
    ASSUME CoreInv, NEW r \in Readers, ReadEpoch(r) PROVE TypeOK'
<1> USE DEF CoreInv, TypeOK
<1>1. TypeThreads'
    BY ReaderGoes DEF ReadEpoch, Local, ReaderPoints
<1>2. TypeGate' /\ TypeDb' /\ TypePacks' /\ TypeDisk' /\ TypeCaches' /\ TypeWriters'
    BY DEF ReadEpoch, Local, TypeGate, TypeDb, TypePacks, TypeDisk, TypeCaches,
       TypeWriters, gateVars, dbVars, packVars, diskVars, cacheVars,
       writerVars
<1>3. TypeReaders'
    BY DEF ReadEpoch, Local, TypeReaders, TypeDb
<1> QED BY <1>1, <1>2, <1>3

LEMMA CacheGetType ==
    ASSUME CoreInv, NEW r \in Readers, CacheGet(r) PROVE TypeOK'
<1> USE DEF CoreInv, TypeOK
<1>1. TypeThreads'
    BY ReaderGoes DEF CacheGet, Local, ReaderPoints
<1>2. TypeGate' /\ TypeDb' /\ TypePacks' /\ TypeDisk' /\ TypeCaches' /\ TypeWriters'
    BY DEF CacheGet, Local, TypeGate, TypeDb, TypePacks, TypeDisk, TypeCaches,
       TypeWriters, gateVars, dbVars, packVars, diskVars, cacheVars,
       writerVars
<1>3. TypeReaders'
    BY DEF CacheGet, Local, TypeReaders, TypeCaches, OrNone
<1> QED BY <1>1, <1>2, <1>3

LEMMA RowsGateType ==
    ASSUME CoreInv, NEW r \in Readers, RowsGate(r) PROVE TypeOK'
<1> USE DEF CoreInv, TypeOK
<1>1. TypeThreads'
    BY ReaderGoes DEF RowsGate, Local, ReaderPoints
<1>2. TypeGate' /\ TypeDb' /\ TypePacks' /\ TypeDisk' /\ TypeCaches' /\ TypeWriters'
    BY DEF RowsGate, Local, TypeGate, TypeDb, TypePacks, TypeDisk, TypeCaches,
       TypeWriters, gateVars, dbVars, packVars, diskVars, cacheVars,
       writerVars
<1>3. TypeReaders'
    BY DEF RowsGate, Local, TypeReaders, TypeDb
<1> QED BY <1>1, <1>2, <1>3

LEMMA RowGetType ==
    ASSUME CoreInv, NEW r \in Readers, RowGet(r) PROVE TypeOK'
<1> USE DEF CoreInv, TypeOK
<1>1. TypeThreads'
    BY ReaderGoes DEF RowGet, Local, AfterRows, ReaderPoints
<1>2. TypeGate' /\ TypeDb' /\ TypePacks' /\ TypeDisk' /\ TypeCaches' /\ TypeWriters'
    BY DEF RowGet, Local, TypeGate, TypeDb, TypePacks, TypeDisk, TypeCaches,
       TypeWriters, gateVars, dbVars, packVars, diskVars, cacheVars,
       writerVars
<1>3. TypeReaders'
    BY DEF RowGet, Local, TypeReaders, TypeCaches, OrNone
<1> QED BY <1>1, <1>2, <1>3

LEMMA ConnectType ==
    ASSUME CoreInv, NEW r \in Readers, Connect(r) PROVE TypeOK'
<1> USE DEF CoreInv, TypeOK
<1>1. TypeThreads'
    BY ReaderGoes DEF Connect, Local, AfterQuery, ReaderPoints
<1>2. TypeGate' /\ TypePacks' /\ TypeDisk' /\ TypeCaches' /\ TypeWriters'
    BY DEF Connect, Local, TypeGate, TypePacks, TypeDisk, TypeCaches,
       TypeWriters, gateVars, packVars, diskVars, cacheVars, writerVars
<1>3. TypeDb'
    BY StoreAssumption DEF Connect, Local, TypeDb, dbVars, OrNone
<1>4. TypeReaders'
    BY DEF Connect, Local, TypeReaders, TypeDb, OrNone
<1> QED BY <1>1, <1>2, <1>3, <1>4

LEMMA QueryType ==
    ASSUME CoreInv, NEW r \in Readers, Query(r) PROVE TypeOK'
<1> USE DEF CoreInv, TypeOK
<1>1. TypeThreads'
    BY ReaderGoes DEF Query, Local, AfterQuery, ReaderPoints
<1>2. TypeGate' /\ TypePacks' /\ TypeDisk' /\ TypeCaches' /\ TypeWriters'
    BY DEF Query, Local, TypeGate, TypePacks, TypeDisk, TypeCaches,
       TypeWriters, gateVars, packVars, diskVars, cacheVars, writerVars
<1>3. TypeDb'
    BY QueryPositive DEF Query, ReaderLocals, TypeDb
<1>4. TypeReaders'
    BY StoreAssumption DEF Query, Local, TypeReaders, readerVars, OrNone
<1> QED BY <1>1, <1>2, <1>3, <1>4

LEMMA RowPutType ==
    ASSUME CoreInv, NEW r \in Readers, RowPut(r) PROVE TypeOK'
<1> USE DEF CoreInv, TypeOK
<1>1. TypeThreads'
    BY ReaderGoes DEF RowPut, Local, AfterRows, ReaderPoints
<1>2. TypeGate' /\ TypeDb' /\ TypePacks' /\ TypeDisk' /\ TypeReaders' /\ TypeWriters'
    BY DEF RowPut, Local, TypeGate, TypeDb, TypePacks, TypeDisk, TypeReaders,
       TypeWriters, gateVars, dbVars, packVars, diskVars, readerVars,
       writerVars
<1>3. TypeCaches'
    <2> DEFINE S == [epoch : Nat, db : Nat]
                others == {c \in rowCache : c.epoch # rowEpoch[r]}
                entry == [epoch |-> rowEpoch[r], db |-> rows[r]]
    <2>1. others \in SUBSET S /\ entry \in S
        BY DEF RowPut, ReaderLocals, TypeCaches, TypeReaders
    <2>2. rowCache' \in CachePut(others, entry)
        BY DEF RowPut
    <2> HIDE DEF S, others, entry
    <2>3. rowCache' \subseteq S
        BY <2>1, <2>2, CachePutSubset
    <2> QED BY <2>3 DEF RowPut, TypeCaches, S
<1> QED BY <1>1, <1>2, <1>3

LEMMA LegacyRowsType ==
    ASSUME CoreInv, NEW r \in Readers, LegacyRows(r) PROVE TypeOK'
<1> USE DEF CoreInv, TypeOK
<1>1. TypeThreads'
    BY ReaderGoes DEF LegacyRows, Local, ReaderPoints
<1>2. TypeGate' /\ TypePacks' /\ TypeDisk' /\ TypeCaches' /\ TypeWriters'
    BY DEF LegacyRows, Local, TypeGate, TypePacks, TypeDisk, TypeCaches,
       TypeWriters, gateVars, packVars, diskVars, cacheVars, writerVars
<1>3. TypeDb'
    BY StoreAssumption DEF LegacyRows, Local, TypeDb, dbVars, OrNone
<1>4. TypeReaders'
    BY DEF LegacyRows, Local, TypeReaders, TypeDb, OrNone
<1> QED BY <1>1, <1>2, <1>3, <1>4

LEMMA BuildType ==
    ASSUME CoreInv, NEW r \in Readers, Build(r) PROVE TypeOK'
<1> USE DEF CoreInv, TypeOK
<1>1. TypeThreads'
    BY ReaderGoes DEF Build, Local, ReaderPoints
<1>2. TypeGate' /\ TypeDb' /\ TypePacks' /\ TypeDisk' /\ TypeCaches' /\ TypeWriters'
    BY DEF Build, Local, TypeGate, TypeDb, TypePacks, TypeDisk, TypeCaches,
       TypeWriters, gateVars, dbVars, packVars, diskVars, cacheVars,
       writerVars
<1>3. TypeReaders'
    <2>1. VersionOf(held[r]) \in Versions \cup {None}
        BY DEF VersionOf, TypeReaders, TypePacks, OrNone
    <2>2. out'[r] \in Payload
        BY <2>1 DEF Build, ReaderLocals, TypeReaders, TypeCaches, Payload
    <2> QED BY <2>2 DEF Build, Local, TypeReaders, OrNone
<1> QED BY <1>1, <1>2, <1>3

LEMMA CachePutResponseType ==
    ASSUME CoreInv, NEW r \in Readers, CachePutResponse(r) PROVE TypeOK'
<1> USE DEF CoreInv, TypeOK
<1>1. TypeThreads'
    BY ReaderGoes DEF CachePutResponse, Local, ReaderPoints
<1>2. TypeGate' /\ TypeDb' /\ TypePacks' /\ TypeDisk' /\ TypeReaders' /\ TypeWriters'
    BY DEF CachePutResponse, Local, TypeGate, TypeDb, TypePacks, TypeDisk,
       TypeReaders, TypeWriters, gateVars, dbVars, packVars, diskVars,
       readerVars, writerVars
<1>3. TypeCaches'
    <2> DEFINE S == [key : {"lookup", "first"} \X Nat \X Nat, payload : Payload]
                others == {c \in responses : c.key # ResponseKey(r)}
                entry == [key |-> ResponseKey(r), payload |-> out[r]]
    <2>1. others \in SUBSET S /\ entry \in S
        BY DEF CachePutResponse, ReaderLocals, ResponseKey, TypeCaches,
               TypeReaders
    <2>2. responses' \in CachePut(others, entry)
        BY DEF CachePutResponse
    <2> HIDE DEF S, others, entry
    <2>3. responses' \subseteq S
        BY <2>1, <2>2, CachePutSubset
    <2> QED BY <2>3 DEF CachePutResponse, TypeCaches, S
<1> QED BY <1>1, <1>2, <1>3

LEMMA CheckProtectedType ==
    ASSUME CoreInv, NEW w \in Writers, CheckProtected(w) PROVE TypeOK'
<1> USE DEF CoreInv, TypeOK
<1>1. TypeThreads'
    BY WriterGoes DEF CheckProtected, WriterStep, WriterPoints, GuardPoints
<1>2. TypeGate' /\ TypeDb' /\ TypePacks' /\ TypeCaches' /\ TypeReaders' /\ TypeWriters'
    BY DEF CheckProtected, WriterStep, TypeGate, TypeDb, TypePacks, TypeCaches,
       TypeReaders, TypeWriters, gateVars, dbVars, packVars, cacheVars,
       readerVars, writerVars
<1>3. TypeDisk'
    BY DEF CheckProtected, ReleaseBuildLock, TypeDisk, OrNone
<1> QED BY <1>1, <1>2, <1>3

LEMMA UnlockType ==
    ASSUME CoreInv, NEW w \in Writers, Unlock(w) PROVE TypeOK'
<1> USE DEF CoreInv, TypeOK
<1>1. TypeThreads'
    BY WriterGoes DEF Unlock, WriterStep, WriterPoints, GuardPoints
<1>2. TypeGate' /\ TypeDb' /\ TypePacks' /\ TypeCaches' /\ TypeReaders' /\ TypeWriters'
    BY DEF Unlock, WriterStep, TypeGate, TypeDb, TypePacks, TypeCaches,
       TypeReaders, TypeWriters, gateVars, dbVars, packVars, cacheVars,
       readerVars, writerVars
<1>3. TypeDisk'
    BY DEF Unlock, ReleaseBuildLock, TypeDisk, OrNone
<1> QED BY <1>1, <1>2, <1>3

LEMMA BeginTransitionType ==
    ASSUME CoreInv, NEW w \in Writers, BeginTransition(w) PROVE TypeOK'
<1> USE DEF CoreInv, TypeOK
<1>1. TypeThreads'
    BY WriterGoes DEF BeginTransition, WriterStep, WriterPoints, GuardPoints
<1>2. TypeDb' /\ TypePacks' /\ TypeCaches' /\ TypeReaders' /\ TypeWriters'
    BY DEF BeginTransition, WriterStep, TypeDb, TypePacks, TypeCaches,
       TypeReaders, TypeWriters, dbVars, packVars, cacheVars, readerVars,
       writerVars
<1>3. TypeGate'
    BY StoreAssumption DEF BeginTransition, WriterStep, TypeGate, gateVars
<1>4. TypeDisk'
    BY DEF BeginTransition, ReleaseBuildLock, TypeDisk, OrNone
<1> QED BY <1>1, <1>2, <1>3, <1>4

LEMMA DrainReadersType ==
    ASSUME CoreInv, NEW w \in Writers, DrainReaders(w) PROVE TypeOK'
<1> USE DEF CoreInv, TypeOK
<1>1. TypeThreads'
    BY WriterGoes DEF DrainReaders, WriterStep, WriterPoints, GuardPoints
<1>2. TypeGate' /\ TypeDb' /\ TypePacks' /\ TypeDisk' /\ TypeCaches' /\ TypeReaders' /\ TypeWriters'
    BY DEF DrainReaders, WriterStep, TypeGate, TypeDb, TypePacks, TypeDisk,
       TypeCaches, TypeReaders, TypeWriters, gateVars, dbVars, packVars,
       diskVars, cacheVars, readerVars, writerVars
<1> QED BY <1>1, <1>2

LEMMA EndTransitionType ==
    ASSUME CoreInv, NEW w \in Writers, EndTransition(w) PROVE TypeOK'
<1> USE DEF CoreInv, TypeOK
<1>1. TypeThreads'
    BY WriterGoes DEF EndTransition, WriterStep, WriterPoints, GuardPoints
<1>2. TypeDb' /\ TypePacks' /\ TypeDisk' /\ TypeCaches' /\ TypeReaders' /\ TypeWriters'
    BY DEF EndTransition, WriterStep, TypeDb, TypePacks, TypeDisk, TypeCaches,
       TypeReaders, TypeWriters, dbVars, packVars, diskVars, cacheVars,
       readerVars, writerVars
<1>3. TypeGate'
    BY StoreAssumption DEF EndTransition, WriterStep, TypeGate, gateVars
<1> QED BY <1>1, <1>2, <1>3

LEMMA RecheckProtectedType ==
    ASSUME CoreInv, NEW w \in Writers, RecheckProtected(w) PROVE TypeOK'
<1> USE DEF CoreInv, TypeOK
<1>1. TypeThreads'
    BY WriterGoes DEF RecheckProtected, WriterStep, WriterPoints, GuardPoints
<1>2. TypeGate' /\ TypeDb' /\ TypePacks' /\ TypeDisk' /\ TypeCaches' /\ TypeReaders' /\ TypeWriters'
    BY DEF RecheckProtected, WriterStep, TypeGate, TypeDb, TypePacks, TypeDisk,
       TypeCaches, TypeReaders, TypeWriters, gateVars, dbVars, packVars,
       diskVars, cacheVars, readerVars, writerVars
<1> QED BY <1>1, <1>2

LEMMA MarkClosedType ==
    ASSUME CoreInv, NEW w \in Writers, MarkClosed(w) PROVE TypeOK'
<1> USE DEF CoreInv, TypeOK
<1>1. TypeThreads'
    BY WriterGoes DEF MarkClosed, WriterStep, WriterPoints, GuardPoints
<1>2. TypeDb' /\ TypePacks' /\ TypeDisk' /\ TypeCaches' /\ TypeReaders' /\ TypeWriters'
    BY DEF MarkClosed, WriterStep, TypeDb, TypePacks, TypeDisk, TypeCaches,
       TypeReaders, TypeWriters, dbVars, packVars, diskVars, cacheVars,
       readerVars, writerVars
<1>3. TypeGate'
    BY StoreAssumption DEF MarkClosed, WriterStep, TypeGate, gateVars
<1> QED BY <1>1, <1>2, <1>3

LEMMA BlockQueriesType ==
    ASSUME CoreInv, NEW w \in Writers, BlockQueries(w) PROVE TypeOK'
<1> USE DEF CoreInv, TypeOK
<1>1. TypeThreads'
    BY WriterGoes DEF BlockQueries, WriterStep, WriterPoints, GuardPoints
<1>2. TypeGate' /\ TypePacks' /\ TypeDisk' /\ TypeCaches' /\ TypeReaders' /\ TypeWriters'
    BY DEF BlockQueries, WriterStep, TypeGate, TypePacks, TypeDisk, TypeCaches,
       TypeReaders, TypeWriters, gateVars, packVars, diskVars, cacheVars,
       readerVars, writerVars
<1>3. TypeDb'
    BY StoreAssumption DEF BlockQueries, WriterStep, TypeDb, dbVars, OrNone
<1> QED BY <1>1, <1>2, <1>3

LEMMA CloseConnectionsType ==
    ASSUME CoreInv, NEW w \in Writers, CloseConnections(w) PROVE TypeOK'
<1> USE DEF CoreInv, TypeOK
<1>1. TypeThreads'
    BY WriterGoes DEF CloseConnections, WriterStep, WriterPoints, GuardPoints
<1>2. TypeGate' /\ TypePacks' /\ TypeDisk' /\ TypeReaders' /\ TypeWriters'
    BY DEF CloseConnections, WriterStep, TypeGate, TypePacks, TypeDisk,
       TypeReaders, TypeWriters, gateVars, packVars, diskVars, readerVars,
       writerVars
<1>3. TypeDb'
    BY StoreAssumption DEF CloseConnections, WriterStep, TypeDb, dbVars, OrNone
<1>4. TypeCaches'
    BY StoreAssumption DEF CloseConnections, WriterStep, TypeCaches, cacheVars
<1> QED BY <1>1, <1>2, <1>3, <1>4

LEMMA ReplaceDatabaseType ==
    ASSUME CoreInv, NEW w \in Writers, ReplaceDatabase(w) PROVE TypeOK'
<1> USE DEF CoreInv, TypeOK
<1>1. TypeThreads'
    BY WriterGoes DEF ReplaceDatabase, WriterStep, WriterPoints, GuardPoints
<1>2. TypeGate' /\ TypePacks' /\ TypeDisk' /\ TypeCaches' /\ TypeReaders' /\ TypeWriters'
    BY DEF ReplaceDatabase, WriterStep, TypeGate, TypePacks, TypeDisk,
       TypeCaches, TypeReaders, TypeWriters, gateVars, packVars, diskVars,
       cacheVars, readerVars, writerVars
<1>3. TypeDb'
    BY StoreAssumption DEF ReplaceDatabase, WriterStep, TypeDb, dbVars, OrNone
<1> QED BY <1>1, <1>2, <1>3

LEMMA AdvanceEpochType ==
    ASSUME CoreInv, NEW w \in Writers, AdvanceEpoch(w) PROVE TypeOK'
<1> USE DEF CoreInv, TypeOK
<1>1. TypeThreads'
    BY WriterGoes DEF AdvanceEpoch, WriterStep, WriterPoints, GuardPoints
<1>2. TypeGate' /\ TypePacks' /\ TypeDisk' /\ TypeReaders' /\ TypeWriters'
    BY DEF AdvanceEpoch, WriterStep, TypeGate, TypePacks, TypeDisk,
       TypeReaders, TypeWriters, gateVars, packVars, diskVars, readerVars,
       writerVars
<1>3. TypeDb'
    BY StoreAssumption DEF AdvanceEpoch, WriterStep, TypeDb, dbVars, OrNone
<1>4. TypeCaches'
    BY StoreAssumption DEF AdvanceEpoch, WriterStep, TypeCaches, cacheVars
<1> QED BY <1>1, <1>2, <1>3, <1>4

LEMMA OpenActiveType ==
    ASSUME CoreInv, NEW w \in Writers, OpenActive(w) PROVE TypeOK'
<1> USE DEF CoreInv, TypeOK
<1>1. TypeThreads'
    BY WriterGoes DEF OpenActive, WriterStep, WriterPoints, GuardPoints
<1>2. TypeGate' /\ TypeDb' /\ TypeDisk' /\ TypeCaches' /\ TypeReaders'
    BY DEF OpenActive, WriterStep, TypeGate, TypeDb, TypeDisk, TypeCaches,
       TypeReaders, gateVars, dbVars, diskVars, cacheVars, readerVars
<1>3. TypePacks'
    BY DEF OpenActive, ActivePack, TypePacks, TypeDisk, OrNone
<1>4. TypeWriters'
    BY StoreAssumption DEF OpenActive, WriterStep, TypeWriters, writerVars, OrNone, Threads
<1> QED BY <1>1, <1>2, <1>3, <1>4

LEMMA SwapPackType ==
    ASSUME CoreInv, NEW w \in Writers, SwapPack(w) PROVE TypeOK'
<1> USE DEF CoreInv, TypeOK
<1>1. TypeThreads'
    BY WriterGoes DEF SwapPack, WriterStep, WriterPoints, GuardPoints
<1>2. TypeGate' /\ TypeDb' /\ TypeDisk' /\ TypeCaches' /\ TypeReaders'
    BY DEF SwapPack, WriterStep, TypeGate, TypeDb, TypeDisk, TypeCaches,
       TypeReaders, gateVars, dbVars, diskVars, cacheVars, readerVars
<1>3. TypePacks'
    BY RetirePackTypes DEF SwapPack, TypePacks, TypeWriters
<1>4. TypeWriters'
    BY RetirePackTypes DEF SwapPack, TypePacks, TypeWriters, OrNone
<1> QED BY <1>1, <1>2, <1>3, <1>4

LEMMA ClearResponsesType ==
    ASSUME CoreInv, NEW w \in Writers, ClearResponses(w) PROVE TypeOK'
<1> USE DEF CoreInv, TypeOK
<1>1. TypeThreads'
    BY WriterGoes DEF ClearResponses, WriterStep, WriterPoints, GuardPoints
<1>2. TypeGate' /\ TypeDb' /\ TypeDisk' /\ TypeReaders'
    BY DEF ClearResponses, WriterStep, TypeGate, TypeDb, TypeDisk, TypeReaders,
       gateVars, dbVars, diskVars, readerVars
<1>3. TypePacks'
    BY CloseHandedTypes DEF ClearResponses, TypePacks, Threads
<1>4. TypeCaches'
    BY StoreAssumption DEF ClearResponses, WriterStep, TypeCaches, cacheVars
<1>5. TypeWriters'
    BY CloseHandedTypes DEF ClearResponses, TypeWriters, writerVars, Threads
<1> QED BY <1>1, <1>2, <1>3, <1>4, <1>5

LEMMA EndPublishType ==
    ASSUME CoreInv, NEW w \in Writers, EndPublish(w) PROVE TypeOK'
<1> USE DEF CoreInv, TypeOK
<1>1. TypeThreads'
    BY WriterGoes DEF EndPublish, WriterStep, WriterPoints, GuardPoints
<1>2. TypeGate' /\ TypePacks' /\ TypeDisk' /\ TypeCaches' /\ TypeReaders' /\ TypeWriters'
    BY DEF EndPublish, WriterStep, TypeGate, TypePacks, TypeDisk, TypeCaches,
       TypeReaders, TypeWriters, gateVars, packVars, diskVars, cacheVars,
       readerVars, writerVars
<1>3. TypeDb'
    BY StoreAssumption DEF EndPublish, WriterStep, TypeDb, dbVars, OrNone
<1> QED BY <1>1, <1>2, <1>3

LEMMA ReplaceSourcesType ==
    ASSUME CoreInv, NEW w \in Writers, ReplaceSources(w) PROVE TypeOK'
<1> USE DEF CoreInv, TypeOK
<1>1. TypeThreads'
    BY WriterGoes DEF ReplaceSources, WriterStep, WriterPoints, GuardPoints
<1>2. TypeGate' /\ TypePacks' /\ TypeDisk' /\ TypeReaders' /\ TypeWriters'
    BY DEF ReplaceSources, WriterStep, TypeGate, TypePacks, TypeDisk,
       TypeReaders, TypeWriters, gateVars, packVars, diskVars, readerVars,
       writerVars
<1>3. TypeDb'
    BY StoreAssumption DEF ReplaceSources, WriterStep, TypeDb, dbVars, OrNone
<1>4. TypeCaches'
    BY StoreAssumption DEF ReplaceSources, WriterStep, TypeCaches, cacheVars
<1> QED BY <1>1, <1>2, <1>3, <1>4

LEMMA CloseEpochType ==
    ASSUME CoreInv, NEW w \in Writers, CloseEpoch(w) PROVE TypeOK'
<1> USE DEF CoreInv, TypeOK
<1>1. TypeThreads'
    BY WriterGoes DEF CloseEpoch, WriterStep, WriterPoints, GuardPoints
<1>2. TypeGate' /\ TypePacks' /\ TypeDisk' /\ TypeCaches' /\ TypeReaders' /\ TypeWriters'
    BY DEF CloseEpoch, WriterStep, TypeGate, TypePacks, TypeDisk, TypeCaches,
       TypeReaders, TypeWriters, gateVars, packVars, diskVars, cacheVars,
       readerVars, writerVars
<1>3. TypeDb'
    <2>1. memRows' = None /\ legacyRows' = None
        BY DEF CloseEpoch
    <2>2. None \in OrNone(Nat)
        BY DEF OrNone
    <2>3. memRows' \in OrNone(Nat) /\ legacyRows' \in OrNone(Nat)
        BY <2>1, <2>2
    <2>4. dbEpoch' \in Nat
        BY dbEpoch' = dbEpoch + 1 DEF CloseEpoch, TypeDb
    <2>6. publishing' \in BOOLEAN
        BY publishing' = FALSE DEF CloseEpoch
    <2>5. UNCHANGED <<dbFile, activeQueries, idle>>
        BY DEF CloseEpoch
    <2> QED BY <2>3, <2>4, <2>5, <2>6 DEF TypeDb
<1> QED BY <1>1, <1>2, <1>3

LEMMA RetireAllType ==
    ASSUME CoreInv, NEW w \in Writers, RetireAll(w) PROVE TypeOK'
<1> USE DEF CoreInv, TypeOK
<1>1. TypeThreads'
    BY WriterGoes DEF RetireAll, WriterStep, WriterPoints, GuardPoints
<1>2. TypeGate' /\ TypeDb' /\ TypeDisk' /\ TypeReaders'
    BY DEF RetireAll, WriterStep, TypeGate, TypeDb, TypeDisk, TypeReaders,
       gateVars, dbVars, diskVars, readerVars
<1>3. TypePacks'
    BY DEF RetireAll, Known, TypePacks, OrNone
<1>4. TypeCaches'
    BY StoreAssumption DEF RetireAll, WriterStep, TypeCaches, cacheVars
<1>5. TypeWriters'
    BY DEF RetireAll, Known, TypePacks, TypeWriters, writerVars, OrNone,
           Threads
<1> QED BY <1>1, <1>2, <1>3, <1>4, <1>5

LEMMA WriterClosesPacksType ==
    ASSUME CoreInv, NEW w \in Writers, WriterClosesPacks(w) PROVE TypeOK'
<1> USE DEF CoreInv, TypeOK
<1>1. TypeThreads'
    BY WriterGoes DEF WriterClosesPacks, WriterStep, WriterPoints, GuardPoints
<1>2. TypeGate' /\ TypeDb' /\ TypeDisk' /\ TypeCaches' /\ TypeReaders'
    BY DEF WriterClosesPacks, WriterStep, TypeGate, TypeDb, TypeDisk,
       TypeCaches, TypeReaders, gateVars, dbVars, diskVars, cacheVars,
       readerVars
<1>3. TypePacks'
    BY CloseHandedTypes DEF WriterClosesPacks, TypePacks, Threads
<1>4. TypeWriters'
    BY CloseHandedTypes DEF WriterClosesPacks, TypeWriters, writerVars, Threads
<1> QED BY <1>1, <1>2, <1>3, <1>4

LEMMA ActivateBuildType ==
    ASSUME CoreInv, NEW w \in Writers, ActivateBuild(w) PROVE TypeOK'
<1> USE DEF CoreInv, TypeOK
<1>1. TypeThreads'
    BY WriterGoes DEF ActivateBuild, WriterStep, WriterPoints, GuardPoints
<1>2. TypeGate' /\ TypeDb' /\ TypePacks' /\ TypeCaches' /\ TypeReaders' /\ TypeWriters'
    BY DEF ActivateBuild, WriterStep, TypeGate, TypeDb, TypePacks, TypeCaches,
       TypeReaders, TypeWriters, gateVars, dbVars, packVars, cacheVars,
       readerVars, writerVars
<1>3. TypeDisk'
    BY DEF ActivateBuild, ReleaseBuildLock, TypeDisk, OrNone
<1> QED BY <1>1, <1>2, <1>3

LEMMA StartType ==
    ASSUME CoreInv, NEW r \in Readers, Start(r) PROVE TypeOK'
<1> USE DEF CoreInv, TypeOK
<1>1. TypeThreads'
    BY StoreAssumption DEF Start, TypeThreads, Threads, ReaderPoints
<1>2. /\ TypeGate' /\ TypeDb' /\ TypePacks' /\ TypeDisk' /\ TypeCaches'
      /\ TypeReaders' /\ TypeWriters'
    BY DEF Start, TypeGate, TypeDb, TypePacks, TypeDisk, TypeCaches,
           TypeReaders, TypeWriters, gateVars, dbVars, packVars, diskVars,
           cacheVars, readerVars, writerVars
<1> QED BY <1>1, <1>2

LEMMA CallType ==
    ASSUME CoreInv, NEW w \in Writers, Call(w) PROVE TypeOK'
<1> USE DEF CoreInv, TypeOK
<1>1. TypeThreads'
    BY StoreAssumption DEF Call, TypeThreads, Threads, WriterPoints
<1>2. TypeDisk'
    BY DEF Call, TypeDisk, OrNone
<1>3. /\ TypeGate' /\ TypeDb' /\ TypePacks' /\ TypeCaches' /\ TypeReaders'
      /\ TypeWriters'
    BY DEF Call, TypeGate, TypeDb, TypePacks, TypeCaches, TypeReaders,
           TypeWriters, gateVars, dbVars, packVars, cacheVars, readerVars
<1> QED BY <1>1, <1>2, <1>3

LEMMA OtherTypes ==
    ASSUME CoreInv, Cleanup \/ UNCHANGED vars PROVE TypeOK'
BY DEF CoreInv, TypeOK, Cleanup, vars, TypeGate, TypeDb, TypePacks, TypeDisk,
       TypeCaches, TypeThreads, TypeReaders, TypeWriters, gateVars, dbVars,
       packVars, diskVars, cacheVars, readerVars, writerVars

---------------------------------------------------------------------------
(* The locals of readers and the counters *)

\* A lifecycle thread touches nothing a reader counts or keeps.
LEMMA WriterFrame ==
    ASSUME TypeOK, NEW w \in Writers, WriterNext(w)
    PROVE  /\ UNCHANGED <<readerVars, stateReaders, activeQueries, leases>>
           /\ \A r \in Readers : pc'[r] = pc[r] /\ op'[r] = op[r]
<1> USE StoreAssumption
        DEF TypeOK, TypeThreads, Threads, WriterStep, Go, gateVars, dbVars,
            packVars
<1>1. CASE Call(w)
    BY <1>1 DEF Call
<1>2. CASE CheckProtected(w)
    BY <1>2 DEF CheckProtected
<1>3. CASE Unlock(w)
    BY <1>3 DEF Unlock
<1>4. CASE BeginTransition(w)
    BY <1>4 DEF BeginTransition
<1>5. CASE DrainReaders(w)
    BY <1>5 DEF DrainReaders
<1>6. CASE EndTransition(w)
    BY <1>6 DEF EndTransition
<1>7. CASE RecheckProtected(w)
    BY <1>7 DEF RecheckProtected
<1>8. CASE MarkClosed(w)
    BY <1>8 DEF MarkClosed
<1>9. CASE BlockQueries(w)
    BY <1>9 DEF BlockQueries
<1>10. CASE CloseConnections(w)
    BY <1>10 DEF CloseConnections
<1>11. CASE ReplaceDatabase(w)
    BY <1>11 DEF ReplaceDatabase
<1>12. CASE AdvanceEpoch(w)
    BY <1>12 DEF AdvanceEpoch
<1>13. CASE OpenActive(w)
    BY <1>13 DEF OpenActive
<1>14. CASE SwapPack(w)
    BY <1>14 DEF SwapPack
<1>15. CASE ClearResponses(w)
    BY <1>15 DEF ClearResponses
<1>16. CASE EndPublish(w)
    BY <1>16 DEF EndPublish
<1>17. CASE ReplaceSources(w)
    BY <1>17 DEF ReplaceSources
<1>18. CASE CloseEpoch(w)
    BY <1>18 DEF CloseEpoch
<1>19. CASE RetireAll(w)
    BY <1>19 DEF RetireAll
<1>20. CASE WriterClosesPacks(w)
    BY <1>20 DEF WriterClosesPacks
<1>21. CASE ActivateBuild(w)
    BY <1>21 DEF ActivateBuild
<1> QED BY <1>1, <1>2, <1>3, <1>4, <1>5, <1>6, <1>7, <1>8, <1>9, <1>10,
           <1>11, <1>12, <1>13, <1>14, <1>15, <1>16, <1>17, <1>18, <1>19,
           <1>20, <1>21
        DEF WriterNext

LEMMA LocalsStep ==
    ASSUME CoreInv, NEW r \in Readers, ReaderNext(r) PROVE ReaderLocals'
<1> USE DEF CoreInv, TypeOK, TypeThreads, TypeReaders, Threads, Go, ReaderLocals
<1> USE StoreAssumption
<1>1. CASE Start(r)
    BY <1>1 DEF Start, readerVars
<1>2. CASE EnterState(r)
    BY <1>2 DEF EnterState, readerVars
<1>3. CASE ExitState(r)
    BY <1>3 DEF ExitState
<1>4. CASE Snapshot(r)
    BY <1>4 DEF Snapshot, LeasePack
<1>5. CASE NestedSnapshot(r)
    BY <1>5 DEF NestedSnapshot, LeasePack
<1>6. CASE LeaseAudio(r)
    BY <1>6 DEF LeaseAudio, LeaseVersion, LeasePack
<1>7. CASE ReleasePack(r)
    BY <1>7 DEF ReleasePack, AfterRelease
<1>8. CASE ReaderClosesPack(r)
    BY <1>8 DEF ReaderClosesPack, readerVars, AfterRelease
<1>9. CASE ReadEpoch(r)
    BY <1>9 DEF ReadEpoch, Local
<1>10. CASE CacheGet(r)
    BY <1>10 DEF CacheGet, Local
<1>11. CASE RowsGate(r)
    BY <1>11 DEF RowsGate, Local
<1>12. CASE RowGet(r)
    BY <1>12 DEF RowGet, Local, AfterRows, TypeCaches
<1>13. CASE Connect(r)
    BY <1>13 DEF Connect, Local, AfterQuery, TypeDb, OrNone
<1>14. CASE Query(r)
    BY <1>14 DEF Query, Local, AfterQuery
<1>15. CASE RowPut(r)
    BY <1>15 DEF RowPut, Local, AfterRows
<1>16. CASE LegacyRows(r)
    BY <1>16 DEF LegacyRows, Local, TypeDb, OrNone
<1>17. CASE Build(r)
    <2>1. VersionOf(held[r]) \in Versions \cup {None}
        BY DEF VersionOf, TypePacks, OrNone
    <2>2. out'[r] \in Payload
        BY <1>17, <2>1 DEF Build, TypeCaches, Payload
    <2> QED BY <1>17, <2>2 DEF Build, Local
<1>18. CASE CachePutResponse(r)
    BY <1>18 DEF CachePutResponse, Local
<1> QED BY <1>1, <1>2, <1>3, <1>4, <1>5, <1>6, <1>7, <1>8, <1>9, <1>10,
           <1>11, <1>12, <1>13, <1>14, <1>15, <1>16, <1>17, <1>18
        DEF ReaderNext

\* Only entering and leaving the state lease changes who is inside.
LEMMA InsideFrame ==
    ASSUME CoreInv, NEW r \in Readers, ReaderNext(r),
           ~EnterState(r), ~ExitState(r)
    PROVE  /\ UNCHANGED stateReaders
           /\ \A q \in Readers : InState(q)' <=> InState(q)
<1> USE StoreAssumption
        DEF CoreInv, TypeOK, TypeThreads, Threads, Go, ReaderLocals, InState,
            gateVars
<1>1. CASE Start(r)
    BY <1>1 DEF Start
<1>4. CASE Snapshot(r)
    BY <1>4 DEF Snapshot
<1>5. CASE NestedSnapshot(r)
    BY <1>5 DEF NestedSnapshot
<1>6. CASE LeaseAudio(r)
    BY <1>6 DEF LeaseAudio
<1>7. CASE ReleasePack(r)
    BY <1>7 DEF ReleasePack, AfterRelease
<1>8. CASE ReaderClosesPack(r)
    BY <1>8 DEF ReaderClosesPack, AfterRelease
<1>9. CASE ReadEpoch(r)
    BY <1>9 DEF ReadEpoch, Local
<1>10. CASE CacheGet(r)
    BY <1>10 DEF CacheGet, Local
<1>11. CASE RowsGate(r)
    BY <1>11 DEF RowsGate, Local
<1>12. CASE RowGet(r)
    BY <1>12 DEF RowGet, Local, AfterRows
<1>13. CASE Connect(r)
    BY <1>13 DEF Connect, Local, AfterQuery
<1>14. CASE Query(r)
    BY <1>14 DEF Query, Local, AfterQuery
<1>15. CASE RowPut(r)
    BY <1>15 DEF RowPut, Local, AfterRows
<1>16. CASE LegacyRows(r)
    BY <1>16 DEF LegacyRows, Local
<1>17. CASE Build(r)
    BY <1>17 DEF Build, Local
<1>18. CASE CachePutResponse(r)
    BY <1>18 DEF CachePutResponse, Local
<1> QED BY <1>1, <1>4, <1>5, <1>6, <1>7, <1>8, <1>9, <1>10, <1>11, <1>12,
           <1>13, <1>14, <1>15, <1>16, <1>17, <1>18
        DEF ReaderNext

LEMMA GateCountStep ==
    ASSUME CoreInv, NEW r \in Readers, ReaderNext(r) PROVE GateCount'
<1> DEFINE S == {q \in Readers : InState(q)}
<1> USE DEF CoreInv
<1>1. IsFiniteSet(S)
    BY FS_Subset, StoreAssumption
<1>2. CASE EnterState(r) /\ closed
    <2>1. S' = S /\ stateReaders' = stateReaders
        BY <1>2, StoreAssumption
        DEF EnterState, InState, Go, TypeOK, TypeThreads, Threads
    <2> QED BY <2>1 DEF GateCount
<1>3. CASE EnterState(r) /\ ~closed
    <2>1. r \notin S /\ S' = S \cup {r} /\ stateReaders' = stateReaders + 1
        BY <1>3, StoreAssumption
        DEF EnterState, InState, Go, TypeOK, TypeThreads, Threads, ReaderLocals
    <2> HIDE DEF S
    <2>2. Cardinality(S') = Cardinality(S) + 1
        BY <1>1, <2>1, CountAdd
    <2> QED BY <2>1, <2>2 DEF GateCount, S
<1>4. CASE ExitState(r)
    <2>1. r \in S /\ S' = S \ {r} /\ stateReaders' = stateReaders - 1
        BY <1>4, StoreAssumption
        DEF ExitState, InState, Go, TypeOK, TypeThreads, Threads, ReaderLocals
    <2> HIDE DEF S
    <2>2. Cardinality(S') = Cardinality(S) - 1
        BY <1>1, <2>1, CountRemove
    <2> QED BY <2>1, <2>2 DEF GateCount, S
<1>5. CASE ~EnterState(r) /\ ~ExitState(r)
    <2>1. S' = S /\ stateReaders' = stateReaders
        BY <1>5, InsideFrame
    <2> QED BY <2>1 DEF GateCount
<1> QED BY <1>2, <1>3, <1>4, <1>5

\* Only a query starting or ending changes who is querying.
LEMMA QueryFrame ==
    ASSUME CoreInv, NEW r \in Readers, ReaderNext(r),
           ~Connect(r), ~Query(r)
    PROVE  /\ UNCHANGED activeQueries
           /\ \A q \in Readers : (pc'[q] = "query") <=> (pc[q] = "query")
<1> USE StoreAssumption
        DEF CoreInv, TypeOK, TypeThreads, Threads, Go, dbVars
<1>1. CASE Start(r)
    BY <1>1 DEF Start
<1>2. CASE EnterState(r)
    BY <1>2 DEF EnterState
<1>3. CASE ExitState(r)
    BY <1>3 DEF ExitState
<1>4. CASE Snapshot(r)
    BY <1>4 DEF Snapshot
<1>5. CASE NestedSnapshot(r)
    BY <1>5 DEF NestedSnapshot
<1>6. CASE LeaseAudio(r)
    BY <1>6 DEF LeaseAudio
<1>7. CASE ReleasePack(r)
    BY <1>7 DEF ReleasePack, AfterRelease
<1>8. CASE ReaderClosesPack(r)
    BY <1>8 DEF ReaderClosesPack, AfterRelease
<1>9. CASE ReadEpoch(r)
    BY <1>9 DEF ReadEpoch, Local
<1>10. CASE CacheGet(r)
    BY <1>10 DEF CacheGet, Local
<1>11. CASE RowsGate(r)
    BY <1>11 DEF RowsGate, Local
<1>12. CASE RowGet(r)
    BY <1>12 DEF RowGet, Local, AfterRows
<1>15. CASE RowPut(r)
    BY <1>15 DEF RowPut, Local, AfterRows
<1>16. CASE LegacyRows(r)
    BY <1>16 DEF LegacyRows, Local
<1>17. CASE Build(r)
    BY <1>17 DEF Build, Local
<1>18. CASE CachePutResponse(r)
    BY <1>18 DEF CachePutResponse, Local
<1> QED BY <1>1, <1>2, <1>3, <1>4, <1>5, <1>6, <1>7, <1>8, <1>9, <1>10,
           <1>11, <1>12, <1>15, <1>16, <1>17, <1>18
        DEF ReaderNext

LEMMA QueryCountStep ==
    ASSUME CoreInv, NEW r \in Readers, ReaderNext(r) PROVE QueryCount'
<1> DEFINE S == {q \in Readers : pc[q] = "query"}
<1> USE DEF CoreInv
<1>1. IsFiniteSet(S)
    BY FS_Subset, StoreAssumption
<1>2. CASE Connect(r) /\ memRows # None
    <2>1. S' = S /\ activeQueries' = activeQueries
        BY <1>2, StoreAssumption
        DEF Connect, Local, AfterQuery, Go, TypeOK, TypeThreads, Threads
    <2> QED BY <2>1 DEF QueryCount
<1>3. CASE Connect(r) /\ memRows = None
    <2>1. r \notin S /\ S' = S \cup {r} /\ activeQueries' = activeQueries + 1
        BY <1>3, StoreAssumption
        DEF Connect, Local, Go, TypeOK, TypeThreads, Threads
    <2> HIDE DEF S
    <2>2. Cardinality(S') = Cardinality(S) + 1
        BY <1>1, <2>1, CountAdd
    <2> QED BY <2>1, <2>2 DEF QueryCount, S
<1>4. CASE Query(r)
    <2>1. r \in S /\ S' = S \ {r} /\ activeQueries' = activeQueries - 1
        BY <1>4, StoreAssumption
        DEF Query, Local, AfterQuery, Go, TypeOK, TypeThreads, Threads
    <2> HIDE DEF S
    <2>2. Cardinality(S') = Cardinality(S) - 1
        BY <1>1, <2>1, CountRemove
    <2> QED BY <2>1, <2>2 DEF QueryCount, S
<1>5. CASE ~Connect(r) /\ ~Query(r)
    <2>1. S' = S /\ activeQueries' = activeQueries
        BY <1>5, QueryFrame
    <2> QED BY <2>1 DEF QueryCount
<1> QED BY <1>2, <1>3, <1>4, <1>5

LEMMA LeasePackCount ==
    ASSUME LeaseCount, TypePacks, TypeReaders, NEW r \in Readers,
           held[r] = None, NEW o \in OrNone(Objects), LeasePack(r, o)
    PROVE  LeaseCount'
<1> SUFFICES ASSUME NEW p \in Objects
             PROVE  leases'[p] = Cardinality({q \in Readers : held'[q] = p})
    BY DEF LeaseCount
<1> DEFINE S == {q \in Readers : held[q] = p}
           T == {q \in Readers : held'[q] = p}
<1>1. IsFiniteSet(S) /\ leases[p] = Cardinality(S)
    BY FS_Subset, StoreAssumption DEF LeaseCount
<1>2. CASE p = o
    <2>1. r \notin S /\ T = S \cup {r} /\ leases'[p] = leases[p] + 1
        BY <1>2, StoreAssumption DEF LeasePack, TypePacks, TypeReaders, OrNone
    <2> HIDE DEF S, T
    <2>2. Cardinality(T) = Cardinality(S) + 1
        BY <1>1, <2>1, CountAdd
    <2> QED BY <1>1, <2>1, <2>2 DEF T
<1>3. CASE p # o
    <2>1. T = S /\ leases'[p] = leases[p]
        BY <1>3, StoreAssumption DEF LeasePack, TypePacks, TypeReaders, OrNone
    <2> QED BY <1>1, <2>1
<1> QED BY <1>2, <1>3

LEMMA ReleaseCount ==
    ASSUME CoreInv, NEW r \in Readers, ReleasePack(r)
    PROVE  LeaseCount'
<1> SUFFICES ASSUME NEW p \in Objects
             PROVE  leases'[p] = Cardinality({q \in Readers : held'[q] = p})
    BY DEF LeaseCount
<1> USE DEF CoreInv, TypeOK
<1> DEFINE S == {q \in Readers : held[q] = p}
           T == {q \in Readers : held'[q] = p}
<1>1. IsFiniteSet(S) /\ leases[p] = Cardinality(S)
    BY FS_Subset, StoreAssumption DEF LeaseCount
<1>2. CASE p = held[r]
    <2>1. r \in S /\ T = S \ {r} /\ leases'[p] = leases[p] - 1
        BY <1>2, StoreAssumption DEF ReleasePack, TypePacks, TypeReaders, OrNone
    <2> HIDE DEF S, T
    <2>2. Cardinality(T) = Cardinality(S) - 1
        BY <1>1, <2>1, CountRemove
    <2> QED BY <1>1, <2>1, <2>2 DEF T
<1>3. CASE p # held[r]
    <2>1. T = S /\ leases'[p] = leases[p]
        BY <1>3, StoreAssumption DEF ReleasePack, TypePacks, TypeReaders, OrNone
    <2> QED BY <1>1, <2>1
<1> QED BY <1>2, <1>3

LEMMA LeaseCountStep ==
    ASSUME CoreInv, NEW r \in Readers, ReaderNext(r) PROVE LeaseCount'
<1> USE DEF CoreInv, TypeOK
<1>1. CASE Snapshot(r)
    <2>1. held[r] = None /\ pack \in OrNone(Objects) /\ LeasePack(r, pack)
        BY <1>1 DEF Snapshot, ReaderLocals, TypePacks
    <2> QED BY <2>1, LeasePackCount
<1>2. CASE NestedSnapshot(r)
    <2>1. held[r] = None /\ pack \in OrNone(Objects)
        BY <1>2 DEF NestedSnapshot, ReaderLocals, TypePacks
    <2>2. LeasePack(r, pack) \/ UNCHANGED <<leases, held>>
        BY <1>2 DEF NestedSnapshot
    <2> QED BY <2>1, <2>2, LeasePackCount DEF LeaseCount
<1>3. CASE LeaseAudio(r)
    <2>1. held[r] = None
        BY <1>3 DEF LeaseAudio, ReaderLocals
    <2>2. (\E o \in OrNone(Objects) : LeasePack(r, o))
          \/ UNCHANGED <<leases, held>>
        BY <1>3 DEF LeaseAudio, LeaseVersion, TypePacks, OrNone
    <2> QED BY <2>1, <2>2, LeasePackCount DEF LeaseCount
<1>4. CASE ReleasePack(r)
    BY <1>4, ReleaseCount
<1>5. CASE ~(Snapshot(r) \/ NestedSnapshot(r) \/ LeaseAudio(r) \/ ReleasePack(r))
    <2>1. UNCHANGED <<leases, held>>
        BY <1>5 DEF ReaderNext, Start, EnterState, ExitState, ReaderClosesPack,
           ReadEpoch, CacheGet, RowsGate, RowGet, Connect, Query, RowPut,
           LegacyRows, Build, CachePutResponse, Local, packVars, readerVars
    <2> QED BY <2>1 DEF LeaseCount
<1> QED BY <1>1, <1>2, <1>3, <1>4, <1>5

---------------------------------------------------------------------------

LEMMA CoreInit == Init => CoreInv
<1> SUFFICES ASSUME Init PROVE CoreInv
    OBVIOUS
<1>1. TypeOK
    BY InitType
<1>2. ReaderLocals
    BY StoreAssumption DEF Init, ReaderLocals, Threads
<1>3. GateCount
    <2>1. {r \in Readers : InState(r)} = {}
        BY DEF Init, InState, Threads
    <2> QED BY <2>1, FS_EmptySet DEF Init, GateCount
<1>4. QueryCount
    <2>1. {r \in Readers : pc[r] = "query"} = {}
        BY DEF Init, Threads
    <2> QED BY <2>1, FS_EmptySet DEF Init, QueryCount
<1>5. LeaseCount
    <2> SUFFICES ASSUME NEW o \in Objects
                 PROVE  leases[o] = Cardinality({r \in Readers : held[r] = o})
        BY DEF LeaseCount
    <2>1. {r \in Readers : held[r] = o} = {}
        BY StoreAssumption DEF Init
    <2> QED BY <2>1, FS_EmptySet DEF Init
<1> QED BY <1>1, <1>2, <1>3, <1>4, <1>5 DEF CoreInv

LEMMA CoreStep == CoreInv /\ [Next]_vars => CoreInv'
<1> SUFFICES ASSUME CoreInv, [Next]_vars PROVE CoreInv'
    OBVIOUS
<1>1. ASSUME NEW r \in Readers, ReaderNext(r) PROVE CoreInv'
    <2>1. TypeOK'
        BY <1>1, StartType, EnterStateType, ExitStateType, SnapshotType,
           NestedSnapshotType, LeaseAudioType, ReleasePackType,
           ReaderClosesPackType, ReadEpochType, CacheGetType, RowsGateType,
           RowGetType, ConnectType, QueryType, RowPutType, LegacyRowsType,
           BuildType, CachePutResponseType DEF ReaderNext
    <2> QED BY <1>1, <2>1, LocalsStep, GateCountStep, QueryCountStep,
              LeaseCountStep DEF CoreInv
<1>2. ASSUME NEW w \in Writers, WriterNext(w) PROVE CoreInv'
    <2>1. TypeOK'
        BY <1>2, CallType, CheckProtectedType, UnlockType, BeginTransitionType,
           DrainReadersType, EndTransitionType, RecheckProtectedType,
           MarkClosedType, BlockQueriesType, CloseConnectionsType,
           ReplaceDatabaseType, AdvanceEpochType, OpenActiveType, SwapPackType,
           ClearResponsesType, EndPublishType, ReplaceSourcesType,
           CloseEpochType, RetireAllType, WriterClosesPacksType,
           ActivateBuildType DEF WriterNext
    <2>2. /\ UNCHANGED <<readerVars, stateReaders, activeQueries, leases>>
          /\ \A r \in Readers : pc'[r] = pc[r] /\ op'[r] = op[r]
        BY <1>2, WriterFrame DEF CoreInv
    <2>3. ReaderLocals'
        BY <2>2 DEF CoreInv, ReaderLocals, readerVars
    <2>4. GateCount'
        <3>1. {r \in Readers : InState(r)}' = {r \in Readers : InState(r)}
            BY <2>2 DEF InState
        <3> QED BY <2>2, <3>1 DEF CoreInv, GateCount
    <2>5. QueryCount'
        <3>1. {r \in Readers : pc'[r] = "query"} = {r \in Readers : pc[r] = "query"}
            BY <2>2
        <3> QED BY <2>2, <3>1 DEF CoreInv, QueryCount
    <2>6. LeaseCount'
        BY <2>2 DEF CoreInv, LeaseCount, readerVars
    <2> QED BY <2>1, <2>3, <2>4, <2>5, <2>6 DEF CoreInv
<1>3. ASSUME Cleanup \/ UNCHANGED vars PROVE CoreInv'
    <2>1. TypeOK'
        BY <1>3, OtherTypes
    <2>2. UNCHANGED <<pc, op, readerVars, stateReaders, activeQueries, leases>>
        BY <1>3 DEF Cleanup, vars, gateVars, dbVars, packVars
    <2>3. ReaderLocals' /\ GateCount' /\ QueryCount' /\ LeaseCount'
        BY <2>2 DEF CoreInv, ReaderLocals, GateCount, QueryCount, LeaseCount,
                    InState, readerVars
    <2> QED BY <2>1, <2>3 DEF CoreInv
<1> QED BY <1>1, <1>2, <1>3 DEF Next

\* Every variable keeps the type the code gives it, for any number of threads,
\* pack versions and pack objects; no counter is ever decremented below zero.
THEOREM TypeCorrect == Spec => []TypeOK
<1>1. CoreInv => TypeOK
    BY DEF CoreInv
<1> QED BY CoreInit, CoreStep, <1>1, PTL DEF Spec

---------------------------------------------------------------------------
(* The gate *)

\* The flag is up while a writer owns the gate, at most one does, and past the
\* drain no reader is counted.
GateInv ==
    /\ \A w \in Writers : OwnsGate(w) => transition
    /\ \A w, x \in Writers : OwnsGate(w) /\ OwnsGate(x) => w = x
    /\ \A w \in Writers : InBody(w) => stateReaders = 0

LEMMA GateReaderStep ==
    ASSUME CoreInv, GateInv, NEW r \in Readers, ReaderNext(r) PROVE GateInv'
<1> USE StoreAssumption DEF CoreInv
<1>1. \A w \in Writers : pc'[w] = pc[w]
    BY DEF TypeOK, TypeThreads, Threads, Go, Local, ReaderNext, Start, EnterState,
           ExitState, Snapshot, NestedSnapshot, LeaseAudio, ReleasePack,
           ReaderClosesPack, ReadEpoch, CacheGet, RowsGate, RowGet, Connect,
           Query, RowPut, LegacyRows, Build, CachePutResponse
<1>2. UNCHANGED transition
    BY DEF Local, gateVars, ReaderNext, Start, EnterState,
           ExitState, Snapshot, NestedSnapshot, LeaseAudio, ReleasePack,
           ReaderClosesPack, ReadEpoch, CacheGet, RowsGate, RowGet, Connect,
           Query, RowPut, LegacyRows, Build, CachePutResponse
<1>3. \A w \in Writers : /\ OwnsGate(w)' <=> OwnsGate(w)
                         /\ InBody(w)' <=> InBody(w)
    BY <1>1 DEF OwnsGate, InBody
<1>4. \A w \in Writers : InBody(w) => stateReaders' = 0
    <2> SUFFICES ASSUME NEW w \in Writers, InBody(w) PROVE stateReaders' = 0
        OBVIOUS
    <2>1. transition /\ stateReaders = 0
        BY DEF GateInv, InBody
    <2>2. CASE EnterState(r)
        BY <2>1, <2>2 DEF EnterState
    <2>3. CASE ExitState(r)
        <3>1. InState(r)
            BY <2>3 DEF ExitState, InState, ReaderLocals
        <3>2. stateReaders - 1 \in Nat
            BY <3>1, GatePositive
        <3> QED BY <2>1, <3>2
    <2>4. CASE ~EnterState(r) /\ ~ExitState(r)
        BY <2>1, <2>4, InsideFrame
    <2> QED BY <2>2, <2>3, <2>4
<1> QED BY <1>2, <1>3, <1>4 DEF GateInv

LEMMA GateWriterStep ==
    ASSUME CoreInv, GateInv, NEW w \in Writers, WriterNext(w) PROVE GateInv'
<1> USE StoreAssumption
        DEF CoreInv, TypeOK, TypeThreads, Threads, GateInv, OwnsGate, InBody,
            GuardPoints, WriterStep, Go, gateVars
<1> stateReaders' = stateReaders
    BY WriterFrame
<1>1. CASE Call(w)
    BY <1>1 DEF Call
<1>2. CASE CheckProtected(w)
    BY <1>2 DEF CheckProtected
<1>3. CASE Unlock(w)
    BY <1>3 DEF Unlock
<1>4. CASE BeginTransition(w)
    BY <1>4 DEF BeginTransition
<1>5. CASE DrainReaders(w)
    BY <1>5 DEF DrainReaders
<1>6. CASE EndTransition(w)
    BY <1>6 DEF EndTransition
<1>7. CASE RecheckProtected(w)
    BY <1>7 DEF RecheckProtected
<1>8. CASE MarkClosed(w)
    BY <1>8 DEF MarkClosed
<1>9. CASE BlockQueries(w)
    BY <1>9 DEF BlockQueries
<1>10. CASE CloseConnections(w)
    BY <1>10 DEF CloseConnections
<1>11. CASE ReplaceDatabase(w)
    BY <1>11 DEF ReplaceDatabase
<1>12. CASE AdvanceEpoch(w)
    BY <1>12 DEF AdvanceEpoch
<1>13. CASE OpenActive(w)
    BY <1>13 DEF OpenActive
<1>14. CASE SwapPack(w)
    BY <1>14 DEF SwapPack
<1>15. CASE ClearResponses(w)
    BY <1>15 DEF ClearResponses
<1>16. CASE EndPublish(w)
    BY <1>16 DEF EndPublish
<1>17. CASE ReplaceSources(w)
    BY <1>17 DEF ReplaceSources
<1>18. CASE CloseEpoch(w)
    BY <1>18 DEF CloseEpoch
<1>19. CASE RetireAll(w)
    BY <1>19 DEF RetireAll
<1>20. CASE WriterClosesPacks(w)
    BY <1>20 DEF WriterClosesPacks
<1>21. CASE ActivateBuild(w)
    BY <1>21 DEF ActivateBuild
<1> QED BY <1>1, <1>2, <1>3, <1>4, <1>5, <1>6, <1>7, <1>8, <1>9, <1>10,
           <1>11, <1>12, <1>13, <1>14, <1>15, <1>16, <1>17, <1>18, <1>19,
           <1>20, <1>21
        DEF WriterNext

LEMMA GateStep == CoreInv /\ GateInv /\ [Next]_vars => GateInv'
<1> SUFFICES ASSUME CoreInv, GateInv, [Next]_vars PROVE GateInv'
    OBVIOUS
<1>1. CASE \E r \in Readers : ReaderNext(r)
    BY <1>1, GateReaderStep
<1>2. CASE \E w \in Writers : WriterNext(w)
    BY <1>2, GateWriterStep
<1>3. CASE Cleanup \/ UNCHANGED vars
    <2>1. UNCHANGED <<pc, transition, stateReaders>>
        BY <1>3 DEF Cleanup, vars, gateVars
    <2> QED BY <2>1 DEF GateInv, OwnsGate, InBody
<1> QED BY <1>1, <1>2, <1>3 DEF Next

\* Nobody owns the gate at first.
LEMMA GateInit == Init => GateInv
BY StoreAssumption DEF Init, GateInv, OwnsGate, InBody, GuardPoints, Threads

\* However many readers and lifecycle threads there are, a transition changes
\* the store only when no reader is inside, and transitions exclude each other.
THEOREM GateSafety == Spec => []GateExclusion
<1>1. CoreInv /\ GateInv => GateExclusion
    <2> SUFFICES ASSUME CoreInv, GateInv PROVE GateExclusion
        OBVIOUS
    <2> DEFINE S == {r \in Readers : InState(r)}
    <2>1. IsFiniteSet(S) /\ stateReaders = Cardinality(S)
        BY FS_Subset, StoreAssumption DEF CoreInv, GateCount
    <2>2. stateReaders = 0 => S = {}
        BY <2>1, FS_EmptySet
    <2> QED BY <2>1, <2>2 DEF GateExclusion, GateInv
<1> QED BY CoreInit, CoreStep, GateInit, GateStep, <1>1, PTL DEF Spec

---------------------------------------------------------------------------
(* The programs of the lifecycle threads, and what they may not do *)

\* Which operations reach which step.
WriterProgram ==
    \A w \in Writers :
        /\ pc[w] = "idle" => op[w] = "none"
        /\ pc[w] \in {"checkProtected", "unlock"} =>
              op[w] \in {"publish", "invalidate", "build"}
        /\ pc[w] = "activate" => op[w] = "build"
        /\ pc[w] \in {"recheck", "replace"} => op[w] = "publish"
        /\ pc[w] \in {"epoch", "endPublish"} => op[w] \in {"publish", "invalidate"}
        /\ pc[w] \in {"gate", "closeConnections"} =>
              op[w] \in {"publish", "invalidate", "close"}
        /\ pc[w] \in {"markClosed", "closeEpoch", "retireAll", "closePack"} =>
              op[w] = "close"
        /\ pc[w] \in {"open", "swap", "clear"} =>
              op[w] \in {"publish", "invalidate", "reload", "build"}
        /\ pc[w] = "replaceSources" => op[w] = "sources"
        /\ pc[w] # "idle" => op[w] \in {"publish", "invalidate", "reload",
                                        "sources", "build", "close"}

\* publish_database and invalidate_database hold the build lock from the call to
\* the end, and a publication that has checked runs beside no protected cleanup.
LocksHeld ==
    \A w \in Writers :
        /\ buildLock = w => op[w] \in {"publish", "invalidate", "build"}
        /\ op[w] \in {"publish", "invalidate"} => buildLock = w
        /\ pc[w] \in {"checkProtected", "activate", "unlock"} => buildLock = w
        /\ op[w] = "publish" /\ pc[w] # "checkProtected" => ~protected

\* No reader is inside a closed store.
ClosedEmpty == closed => stateReaders = 0

WriterInv == WriterProgram /\ LocksHeld /\ ClosedEmpty

\* A reader changes nothing the lifecycle threads decide by.
LEMMA ReaderFrame ==
    ASSUME TypeOK, NEW r \in Readers, ReaderNext(r)
    PROVE  /\ UNCHANGED <<transition, closed, dbFile, publishing, dbEpoch,
                          memRows, pack, packEpoch, diskVars, sources,
                          writerVars>>
           /\ \A w \in Writers : pc'[w] = pc[w] /\ op'[w] = op[w]
<1>1. CASE Start(r) \/ EnterState(r) \/ ExitState(r)
    BY <1>1, StoreAssumption DEF Start, EnterState, ExitState, gateVars,
       dbVars, packVars, cacheVars, Go, TypeOK, TypeThreads, Threads
<1>3. CASE Snapshot(r) \/ NestedSnapshot(r) \/ LeaseAudio(r)
    BY <1>3, StoreAssumption DEF Snapshot, NestedSnapshot, LeaseAudio,
       gateVars, dbVars, cacheVars, Go, TypeOK, TypeThreads, Threads
<1>4. CASE ReleasePack(r) \/ ReaderClosesPack(r)
    BY <1>4, StoreAssumption DEF ReleasePack, ReaderClosesPack,
       gateVars, dbVars, cacheVars, Go, TypeOK, TypeThreads, Threads
<1>2. CASE \/ ReadEpoch(r) \/ CacheGet(r) \/ RowsGate(r) \/ RowGet(r)
           \/ Connect(r) \/ Query(r) \/ RowPut(r) \/ LegacyRows(r)
           \/ Build(r) \/ CachePutResponse(r)
    BY <1>2, StoreAssumption DEF ReadEpoch, CacheGet, RowsGate, RowGet,
       Connect, Query, RowPut, LegacyRows, Build, CachePutResponse, Local,
       gateVars, dbVars, packVars, cacheVars, Go, TypeOK, TypeThreads, Threads
<1> QED BY <1>1, <1>2, <1>3, <1>4 DEF ReaderNext

\* Each step of a lifecycle thread leads to a step of its operation.
LEMMA WriterProgramStep ==
    ASSUME CoreInv, WriterProgram, LocksHeld, NEW w \in Writers,
           WriterNext(w)
    PROVE  WriterProgram'
<1>0. buildLock = w => op[w] \in {"publish", "invalidate", "build"}
    BY DEF LocksHeld
<1> USE DEF CoreInv, TypeOK, TypeThreads, Threads, WriterProgram, WriterStep, Go
<1>1. CASE Call(w)
    BY <1>1 DEF Call
<1>2. CASE CheckProtected(w)
    BY <1>2 DEF CheckProtected
<1>3. CASE Unlock(w)
    BY <1>3 DEF Unlock
<1>4. CASE BeginTransition(w)
    BY <1>4 DEF BeginTransition
<1>5. CASE DrainReaders(w)
    BY <1>5 DEF DrainReaders
<1>6. CASE EndTransition(w)
    BY <1>0, <1>6 DEF EndTransition
<1>7. CASE RecheckProtected(w)
    BY <1>7 DEF RecheckProtected
<1>8. CASE MarkClosed(w)
    BY <1>8 DEF MarkClosed
<1>9. CASE BlockQueries(w)
    BY <1>9 DEF BlockQueries
<1>10. CASE CloseConnections(w)
    BY <1>10 DEF CloseConnections
<1>11. CASE ReplaceDatabase(w)
    BY <1>11 DEF ReplaceDatabase
<1>12. CASE AdvanceEpoch(w)
    BY <1>12 DEF AdvanceEpoch
<1>13. CASE OpenActive(w)
    BY <1>13 DEF OpenActive
<1>14. CASE SwapPack(w)
    BY <1>14 DEF SwapPack
<1>15. CASE ClearResponses(w)
    BY <1>15 DEF ClearResponses
<1>16. CASE EndPublish(w)
    BY <1>16 DEF EndPublish
<1>17. CASE ReplaceSources(w)
    BY <1>17 DEF ReplaceSources
<1>18. CASE CloseEpoch(w)
    BY <1>18 DEF CloseEpoch
<1>19. CASE RetireAll(w)
    BY <1>19 DEF RetireAll
<1>20. CASE WriterClosesPacks(w)
    BY <1>20 DEF WriterClosesPacks
<1>21. CASE ActivateBuild(w)
    BY <1>21 DEF ActivateBuild
<1> QED BY <1>1, <1>2, <1>3, <1>4, <1>5, <1>6, <1>7, <1>8, <1>9, <1>10,
           <1>11, <1>12, <1>13, <1>14, <1>15, <1>16, <1>17, <1>18, <1>19,
           <1>20, <1>21
        DEF WriterNext

\* The build lock is taken with the call and given back with the return.
LEMMA LocksHeldStep ==
    ASSUME CoreInv, WriterProgram, LocksHeld, NEW w \in Writers,
           WriterNext(w)
    PROVE  LocksHeld'
<1> USE StoreAssumption
        DEF CoreInv, TypeOK, TypeThreads, TypeDisk, Threads, WriterProgram,
            LocksHeld, WriterStep, Go, diskVars, OrNone, ReleaseBuildLock
<1>1. CASE Call(w)
    BY <1>1 DEF Call
<1>2. CASE CheckProtected(w)
    BY <1>2 DEF CheckProtected
<1>3. CASE Unlock(w)
    BY <1>3 DEF Unlock
<1>4. CASE BeginTransition(w)
    BY <1>4 DEF BeginTransition
<1>5. CASE DrainReaders(w)
    BY <1>5 DEF DrainReaders
<1>6. CASE EndTransition(w)
    BY <1>6 DEF EndTransition
<1>7. CASE RecheckProtected(w)
    BY <1>7 DEF RecheckProtected
<1>8. CASE MarkClosed(w)
    BY <1>8 DEF MarkClosed
<1>9. CASE BlockQueries(w)
    BY <1>9 DEF BlockQueries
<1>10. CASE CloseConnections(w)
    BY <1>10 DEF CloseConnections
<1>11. CASE ReplaceDatabase(w)
    BY <1>11 DEF ReplaceDatabase
<1>12. CASE AdvanceEpoch(w)
    BY <1>12 DEF AdvanceEpoch
<1>13. CASE OpenActive(w)
    BY <1>13 DEF OpenActive
<1>14. CASE SwapPack(w)
    BY <1>14 DEF SwapPack
<1>15. CASE ClearResponses(w)
    BY <1>15 DEF ClearResponses
<1>16. CASE EndPublish(w)
    BY <1>16 DEF EndPublish
<1>17. CASE ReplaceSources(w)
    BY <1>17 DEF ReplaceSources
<1>18. CASE CloseEpoch(w)
    BY <1>18 DEF CloseEpoch
<1>19. CASE RetireAll(w)
    BY <1>19 DEF RetireAll
<1>20. CASE WriterClosesPacks(w)
    BY <1>20 DEF WriterClosesPacks
<1>21. CASE ActivateBuild(w)
    BY <1>21 DEF ActivateBuild
<1> QED BY <1>1, <1>2, <1>3, <1>4, <1>5, <1>6, <1>7, <1>8, <1>9, <1>10,
           <1>11, <1>12, <1>13, <1>14, <1>15, <1>16, <1>17, <1>18, <1>19,
           <1>20, <1>21
        DEF WriterNext

\* Only MarkClosed closes the store, and it does so past the drain.
LEMMA ClosedEmptyStep ==
    ASSUME CoreInv, GateInv, ClosedEmpty, [Next]_vars PROVE ClosedEmpty'
<1>1. ASSUME NEW r \in Readers, ReaderNext(r) PROVE ClosedEmpty'
    <2>1. UNCHANGED closed
        BY <1>1, ReaderFrame DEF CoreInv
    <2>2. CASE EnterState(r)
        BY <2>1, <2>2 DEF EnterState, ClosedEmpty
    <2>3. CASE ExitState(r)
        <3>1. InState(r)
            BY <2>3 DEF ExitState, InState, CoreInv, ReaderLocals
        <3>2. stateReaders - 1 \in Nat
            BY <3>1, GatePositive DEF CoreInv
        <3> QED BY <2>1, <3>2 DEF ClosedEmpty
    <2>4. CASE ~EnterState(r) /\ ~ExitState(r)
        BY <1>1, <2>1, <2>4, InsideFrame DEF ClosedEmpty
    <2> QED BY <2>2, <2>3, <2>4
<1>2. ASSUME NEW w \in Writers, WriterNext(w) PROVE ClosedEmpty'
    <2>1. stateReaders' = stateReaders
        BY <1>2, WriterFrame DEF CoreInv
    <2>2. CASE MarkClosed(w)
        BY <2>1, <2>2 DEF MarkClosed, GateInv, InBody, OwnsGate, ClosedEmpty
    <2>3. CASE ~MarkClosed(w)
        <3>1. UNCHANGED closed
            BY <1>2, <2>3 DEF WriterNext, Call, CheckProtected, Unlock,
               BeginTransition, DrainReaders, EndTransition, RecheckProtected,
               BlockQueries, CloseConnections, ReplaceDatabase, AdvanceEpoch,
               OpenActive, SwapPack, ClearResponses, EndPublish,
               ReplaceSources, CloseEpoch, RetireAll, WriterClosesPacks,
               ActivateBuild, gateVars
        <3> QED BY <2>1, <3>1 DEF ClosedEmpty
    <2> QED BY <2>2, <2>3
<1>3. CASE Cleanup \/ UNCHANGED vars
    BY <1>3 DEF Cleanup, vars, gateVars, ClosedEmpty
<1> QED BY <1>1, <1>2, <1>3 DEF Next

\* No operation has been called at first.
LEMMA WriterInit == Init => WriterInv
BY StoreAssumption DEF Init, WriterInv, WriterProgram, LocksHeld, ClosedEmpty,
   Threads

\* Readers and cleanup change nothing here.
LEMMA WriterInvStep == CoreInv /\ GateInv /\ WriterInv /\ [Next]_vars => WriterInv'
<1> SUFFICES ASSUME CoreInv, GateInv, WriterInv, [Next]_vars PROVE WriterInv'
    OBVIOUS
<1>1. ClosedEmpty'
    BY ClosedEmptyStep DEF WriterInv
<1>2. ASSUME NEW r \in Readers, ReaderNext(r)
      PROVE  WriterProgram' /\ LocksHeld'
    BY <1>2, ReaderFrame
       DEF CoreInv, WriterInv, WriterProgram, LocksHeld, diskVars
<1>3. ASSUME NEW w \in Writers, WriterNext(w)
      PROVE  WriterProgram' /\ LocksHeld'
    BY <1>3, WriterProgramStep, LocksHeldStep DEF WriterInv
<1>4. CASE Cleanup
    BY <1>1, <1>4, StoreAssumption
       DEF Cleanup, WriterInv, WriterProgram, LocksHeld
<1>5. CASE UNCHANGED vars
    BY <1>1, <1>5 DEF vars, diskVars, WriterInv, WriterProgram, LocksHeld
<1> QED BY <1>1, <1>2, <1>3, <1>4, <1>5 DEF Next, WriterInv

\* publish_database, whatever cleanup, builds and other publications do: only
\* the owner of the build lock replaces the database, and never while a
\* packed-only cleanup relies on it.
THEOREM AuthorisedPublications == Spec => PublicationAuthorised
<1> DEFINE Authorised == dbFile' # dbFile => /\ ~protected
                                             /\ buildLock \in Writers
                                             /\ op[buildLock] = "publish"
<1>1. CoreInv /\ WriterInv /\ [Next]_vars => [Authorised]_vars
    <2> SUFFICES ASSUME CoreInv, WriterInv, Next, dbFile' # dbFile
                 PROVE  Authorised
        OBVIOUS
    <2>1. ~\E r \in Readers : ReaderNext(r)
        BY ReaderFrame DEF CoreInv
    <2>2. PICK w \in Writers : ReplaceDatabase(w)
        BY <2>1 DEF Next, Cleanup, WriterNext, Call, CheckProtected, Unlock,
           BeginTransition, DrainReaders, EndTransition, RecheckProtected,
           MarkClosed, BlockQueries, CloseConnections, AdvanceEpoch,
           OpenActive, SwapPack, ClearResponses, EndPublish,
           ReplaceSources, CloseEpoch, RetireAll, WriterClosesPacks,
           ActivateBuild, dbVars
    <2>3. op[w] = "publish" /\ pc[w] = "replace"
        BY <2>2 DEF ReplaceDatabase, WriterInv, WriterProgram
    <2> QED BY <2>3 DEF WriterInv, LocksHeld
<1> QED BY CoreInit, CoreStep, GateInit, GateStep, WriterInit, WriterInvStep,
           <1>1, PTL DEF Spec, PublicationAuthorised

\* leased_packed_audio, _leased_pack_snapshot and close: from the moment the
\* store is closed the leases only go down.
THEOREM LeasesOnlyDrain == Spec => NoLeaseAfterClose
<1> DEFINE Drains == closed => \A o \in Objects : leases'[o] <= leases[o]
<1>1. CoreInv /\ WriterInv /\ [Next]_vars => [Drains]_vars
    <2> SUFFICES ASSUME CoreInv, WriterInv, Next, closed
                 PROVE  \A o \in Objects : leases'[o] <= leases[o]
        OBVIOUS
    <2>1. leases \in [Objects -> Nat]
        BY DEF CoreInv, TypeOK, TypePacks
    <2>2. \A r \in Readers : ~InState(r)
        <3> SUFFICES ASSUME NEW r \in Readers, InState(r) PROVE FALSE
            OBVIOUS
        <3>1. stateReaders - 1 \in Nat
            BY GatePositive DEF CoreInv
        <3> QED BY <3>1 DEF WriterInv, ClosedEmpty
    <2>3. CASE leases' = leases
        BY <2>1, <2>3
    <2>4. ASSUME NEW r \in Readers, ReleasePack(r)
          PROVE  \A o \in Objects : leases'[o] <= leases[o]
        BY <2>1, <2>4 DEF ReleasePack
    <2>5. ASSUME NEW r \in Readers, ReaderNext(r), ~ReleasePack(r)
          PROVE  leases' = leases
        <3>1. ~Snapshot(r) /\ ~(NestedSnapshot(r) /\ ~closed)
              /\ ~(LeaseAudio(r) /\ ~closed)
            BY <2>2 DEF Snapshot, InState, CoreInv, ReaderLocals
        <3> QED BY <2>5, <3>1 DEF ReaderNext, Start, EnterState, ExitState,
               NestedSnapshot, LeaseAudio, ReaderClosesPack, ReadEpoch,
               CacheGet, RowsGate, RowGet, Connect, Query, RowPut, LegacyRows,
               Build, CachePutResponse, Local, packVars
    <2>6. ASSUME NEW w \in Writers, WriterNext(w) PROVE leases' = leases
        BY <2>6, WriterFrame DEF CoreInv
    <2>7. Cleanup => leases' = leases
        BY DEF Cleanup, packVars
    <2> QED BY <2>3, <2>4, <2>5, <2>6, <2>7 DEF Next
<1> QED BY CoreInit, CoreStep, GateInit, GateStep, WriterInit, WriterInvStep,
           <1>1, PTL DEF Spec, NoLeaseAfterClose
=============================================================================
