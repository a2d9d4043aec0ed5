--------------------- MODULE LookupStoreServiceProofs ---------------------
(***************************************************************************)
(* Proof that the lookup store implements LookupService, for any number of *)
(* readers, lifecycle threads, versions and pack objects.  On the way: the *)
(* memory map of a leased pack is never closed, no pack object is lost,    *)
(* and whatever a cache still holds is what a lookup would compute.        *)
(***************************************************************************)
EXTENDS LookupStoreProofs

---------------------------------------------------------------------------
(* The pack tables *)

\* Whatever a table names is open.
TablesOpen ==
    /\ pack # None => pack \in open
    /\ \A v \in Versions : historical[v] # None => historical[v] \in open
    /\ retired \subseteq open
    /\ \A w \in Writers : fresh[w] # None => fresh[w] \in open

\* No table names o.
InNoTable(o) ==
    /\ o # pack /\ o \notin retired
    /\ \A v \in Versions : historical[v] # o

\* A pack handed to a thread to be closed is in no table and has no lease.
HandedForgotten ==
    \A t \in Threads : \A o \in closing[t] :
        InNoTable(o) /\ leases[o] = 0 /\ \A w \in Writers : fresh[w] # o

\* A pack opened by a reload belongs to that reload alone until it is swapped in.
FreshPrivate ==
    \A w \in Writers : fresh[w] # None =>
        /\ InNoTable(fresh[w]) /\ leases[fresh[w]] = 0
        /\ \A x \in Writers : x # w => fresh[x] # fresh[w]

\* Invariant of the pack tables.
PackInv == TablesOpen /\ LeasedPackOpen /\ HandedForgotten /\ FreshPrivate

packState == <<pack, leases, retired, historical, open, fresh, closing, held>>

LEMMA HeldIsLeased ==
    ASSUME CoreInv, NEW r \in Readers, held[r] # None
    PROVE  held[r] \in Objects /\ leases[held[r]] > 0
<1>1. held[r] \in Objects /\ leases[held[r]] \in Nat
    BY DEF CoreInv, TypeOK, TypeReaders, TypePacks, OrNone
<1>2. leases[held[r]] - 1 \in Nat
    BY <1>1, LeasePositive DEF CoreInv
<1> QED BY <1>1, <1>2

LEMMA UnheldIsUnleased ==
    ASSUME CoreInv, NEW o \in Objects, \A r \in Readers : held[r] # o
    PROVE  leases[o] = 0
<1>1. {r \in Readers : held[r] = o} = {}
    OBVIOUS
<1> QED BY <1>1, FS_EmptySet DEF CoreInv, LeaseCount

\* A lease on a pack that is already in a table.
LEMMA LeaseKnownPack ==
    ASSUME CoreInv, PackInv, NEW r \in Readers,
           NEW o \in {None, pack} \cup {historical[v] : v \in Versions},
           LeasePack(r, o),
           UNCHANGED <<pack, retired, historical, open, fresh, closing>>
    PROVE  PackInv'
<1> USE DEF PackInv
<1>1. held \in [Readers -> OrNone(Objects)] /\ leases \in [Objects -> Nat]
    BY DEF CoreInv, TypeOK, TypeReaders, TypePacks
<1>2. o # None => o \in open
    BY DEF TablesOpen
<1>3. TablesOpen'
    BY DEF TablesOpen
<1>4. LeasedPackOpen'
    BY <1>1, <1>2 DEF LeasedPackOpen, LeasePack
<1>5. ASSUME NEW p, p # o PROVE leases'[p] = leases[p]
    BY <1>1, <1>5 DEF LeasePack
<1>6. HandedForgotten'
    <2> SUFFICES ASSUME NEW t \in Threads, NEW p \in closing[t]
                 PROVE  /\ InNoTable(p)' /\ leases'[p] = 0
                        /\ \A w \in Writers : fresh[w] # p
        BY DEF HandedForgotten
    <2>1. InNoTable(p) /\ leases[p] = 0 /\ \A w \in Writers : fresh[w] # p
        BY DEF HandedForgotten
    <2>2. o = None \/ p # o
        BY <2>1 DEF InNoTable
    <2>3. leases'[p] = leases[p]
        BY <2>2, <1>5 DEF LeasePack
    <2> QED BY <2>1, <2>3 DEF InNoTable
<1>7. FreshPrivate'
    <2> SUFFICES ASSUME NEW w \in Writers, fresh[w] # None
                 PROVE  /\ InNoTable(fresh[w])' /\ leases'[fresh[w]] = 0
                        /\ \A x \in Writers : x # w => fresh[x] # fresh[w]
        BY DEF FreshPrivate
    <2>1. /\ InNoTable(fresh[w]) /\ leases[fresh[w]] = 0
          /\ \A x \in Writers : x # w => fresh[x] # fresh[w]
        BY DEF FreshPrivate
    <2>2. fresh[w] # o
        BY <2>1 DEF InNoTable
    <2>3. leases'[fresh[w]] = leases[fresh[w]]
        BY <2>2, <1>5
    <2> QED BY <2>1, <2>3 DEF InNoTable
<1> QED BY <1>3, <1>4, <1>6, <1>7

\* An identity that may be given to a new pack is known nowhere.
LEMMA UnusedIsUnknown ==
    ASSUME CoreInv, PackInv, NEW o \in Objects, Unused(o)
    PROVE  /\ InNoTable(o) /\ leases[o] = 0 /\ o # None /\ o \notin open
           /\ \A r \in Readers : held[r] # o
           /\ \A w \in Writers : fresh[w] # o
           /\ \A t \in Threads : o \notin closing[t]
<1>1. o # None
    BY StoreAssumption
<1>2. \A r \in Readers : held[r] # o
    BY <1>1 DEF PackInv, LeasedPackOpen, Unused
<1>3. InNoTable(o)
    BY <1>1 DEF PackInv, TablesOpen, Unused, InNoTable
<1> QED BY <1>1, <1>2, <1>3, UnheldIsUnleased DEF Unused

\* A lease that opens a pack under its version.
LEMMA LeaseOpenedPack ==
    ASSUME CoreInv, PackInv, NEW r \in Readers, NEW v \in Versions,
           NEW o \in Objects, Unused(o), LeasePack(r, o),
           open' = open \cup {o},
           historical' = [historical EXCEPT ![v] = o],
           UNCHANGED <<pack, retired, fresh, closing>>
    PROVE  PackInv'
<1> USE DEF PackInv
<1>1. /\ held \in [Readers -> OrNone(Objects)] /\ leases \in [Objects -> Nat]
      /\ historical \in [Versions -> OrNone(Objects)]
    BY DEF CoreInv, TypeOK, TypeReaders, TypePacks
<1>2. /\ \A w \in Writers : fresh[w] # o
      /\ \A t \in Threads : o \notin closing[t]
    BY UnusedIsUnknown
<1>3. TablesOpen'
    BY <1>1 DEF TablesOpen
<1>4. LeasedPackOpen'
    BY <1>1 DEF LeasedPackOpen, LeasePack
<1>5. ASSUME NEW p, p # o, InNoTable(p)
      PROVE  leases'[p] = leases[p] /\ InNoTable(p)'
    BY <1>1, <1>5 DEF LeasePack, InNoTable
<1>6. HandedForgotten'
    BY <1>2, <1>5 DEF HandedForgotten
<1>7. FreshPrivate'
    BY <1>2, <1>5 DEF FreshPrivate
<1> QED BY <1>3, <1>4, <1>6, <1>7

LEMMA LeaseSteps ==
    ASSUME CoreInv, PackInv, NEW r \in Readers,
           Snapshot(r) \/ NestedSnapshot(r) \/ LeaseAudio(r)
    PROVE  PackInv'
<1>1. UNCHANGED <<pack, retired, fresh, closing>>
    BY DEF Snapshot, NestedSnapshot, LeaseAudio, writerVars
<1>2. CASE UNCHANGED <<leases, historical, open, held>>
    BY <1>1, <1>2 DEF PackInv, TablesOpen, LeasedPackOpen, HandedForgotten,
                      FreshPrivate, InNoTable
<1>3. CASE LeasePack(r, pack) /\ UNCHANGED <<historical, open>>
    BY <1>1, <1>3, LeaseKnownPack
<1>4. CASE \E v \in Versions : LeaseVersion(r, v)
    <2> PICK v \in Versions : LeaseVersion(r, v)
        BY <1>4
    <2>1. CASE CurrentServes(v) \/ historical[v] # None \/ v \notin built
        BY <1>1, <2>1, LeaseKnownPack DEF LeaseVersion
    <2>2. CASE ~CurrentServes(v) /\ historical[v] = None /\ v \in built
        BY <1>1, <2>2, LeaseOpenedPack DEF LeaseVersion
    <2> QED BY <2>1, <2>2
<1> QED BY <1>2, <1>3, <1>4 DEF Snapshot, NestedSnapshot, LeaseAudio

\* The last lease on a pack that is not current hands it to the reader.
LEMMA ReleaseStep ==
    ASSUME CoreInv, PackInv, NEW r \in Readers, ReleasePack(r)
    PROVE  PackInv'
<1> USE DEF PackInv
<1> PICK o : o = held[r]
    OBVIOUS
<1>1. /\ held \in [Readers -> OrNone(Objects)] /\ leases \in [Objects -> Nat]
      /\ historical \in [Versions -> OrNone(Objects)]
      /\ closing \in [Threads -> SUBSET Objects]
    BY DEF CoreInv, TypeOK, TypeReaders, TypePacks, TypeWriters
<1>2. UNCHANGED <<pack, open, fresh>> /\ held' = [held EXCEPT ![r] = None]
    BY DEF ReleasePack, writerVars
<1>3. LeasedPackOpen'
    BY <1>1, <1>2 DEF LeasedPackOpen
<1>4. CASE o = None
    <2>1. UNCHANGED <<leases, historical, retired, closing>>
        BY <1>4 DEF ReleasePack
    <2> QED BY <1>2, <1>3, <2>1
            DEF TablesOpen, HandedForgotten, FreshPrivate, InNoTable
<1>5. CASE o # None /\ (leases[o] > 1 \/ o = pack)
    <2>1. /\ leases' = [leases EXCEPT ![o] = @ - 1]
          /\ UNCHANGED <<historical, retired, closing>>
        BY <1>5 DEF ReleasePack
    <2>2. o \in Objects /\ leases[o] > 0
        BY <1>5, HeldIsLeased
    <2>3. ASSUME NEW p, leases[p] = 0 PROVE leases'[p] = 0
        BY <1>1, <2>1, <2>2, <2>3
    <2>4. TablesOpen'
        BY <1>2, <2>1 DEF TablesOpen
    <2>5. HandedForgotten'
        BY <1>2, <2>1, <2>3 DEF HandedForgotten, InNoTable
    <2>6. FreshPrivate'
        BY <1>2, <2>1, <2>3 DEF FreshPrivate, InNoTable
    <2> QED BY <1>3, <2>4, <2>5, <2>6
<1>6. CASE o # None /\ leases[o] = 1 /\ o # pack
    <2>1. /\ leases' = [leases EXCEPT ![o] = 0]
          /\ historical' = [v \in Versions |->
                              IF historical[v] = o THEN None ELSE historical[v]]
          /\ retired' = retired \ {o}
          /\ closing' = [closing EXCEPT ![r] = {o}]
        BY <1>6 DEF ReleasePack
    <2>2. o \in Objects /\ leases'[o] = 0
        BY <1>1, <1>6, <2>1 DEF OrNone
    <2>3. ASSUME NEW p, leases[p] = 0 PROVE leases'[p] = 0
        BY <1>1, <2>1, <2>3
    <2>4. ASSUME NEW p, InNoTable(p), p # None PROVE InNoTable(p)'
        BY <1>2, <2>1, <2>4 DEF InNoTable
    <2>5. TablesOpen'
        BY <1>2, <2>1 DEF TablesOpen
    <2>6. InNoTable(o)'
        BY <1>2, <1>6, <2>1 DEF InNoTable
    <2>7. \A w \in Writers : fresh[w] # o
        BY <1>6 DEF FreshPrivate
    <2>8. HandedForgotten'
        <3> SUFFICES ASSUME NEW t \in Threads, NEW p \in closing'[t]
                     PROVE  /\ InNoTable(p)' /\ leases'[p] = 0
                            /\ \A w \in Writers : fresh'[w] # p
            BY DEF HandedForgotten
        <3>1. p = o \/ p \in closing[t]
            BY <1>1, <2>1
        <3>2. p # None
            BY <1>1, <1>6, <3>1, StoreAssumption
        <3> QED BY <1>2, <2>2, <2>3, <2>4, <2>6, <2>7, <3>1, <3>2
                DEF HandedForgotten
    <2>9. FreshPrivate'
        BY <1>2, <2>3, <2>4 DEF FreshPrivate
    <2> QED BY <1>3, <2>5, <2>8, <2>9
<1> QED BY <1>4, <1>5, <1>6 DEF ReleasePack

\* Closing what a thread was handed closes nothing that is in use.
LEMMA CloseStep ==
    ASSUME CoreInv, PackInv, NEW t \in Threads, CloseHanded(t),
           UNCHANGED <<pack, leases, retired, historical, fresh, held>>
    PROVE  PackInv'
<1> USE DEF PackInv
<1>1. closing \in [Threads -> SUBSET Objects]
    BY DEF CoreInv, TypeOK, TypeWriters
<1>2. open' = open \ closing[t] /\ closing' = [closing EXCEPT ![t] = {}]
    BY DEF CloseHanded
<1>3. TablesOpen'
    BY <1>2 DEF TablesOpen, HandedForgotten, InNoTable
<1>4. LeasedPackOpen'
    <2> SUFFICES ASSUME NEW r \in Readers, held[r] # None
                 PROVE  held[r] \in open'
        BY DEF LeasedPackOpen
    <2>1. leases[held[r]] > 0
        BY HeldIsLeased
    <2>2. held[r] \notin closing[t]
        BY <2>1 DEF HandedForgotten
    <2> QED BY <1>2, <2>2 DEF LeasedPackOpen
<1>5. HandedForgotten'
    BY <1>1, <1>2 DEF HandedForgotten, InNoTable
<1>6. FreshPrivate'
    BY DEF FreshPrivate, InNoTable
<1> QED BY <1>3, <1>4, <1>5, <1>6

LEMMA OpenStep ==
    ASSUME CoreInv, PackInv, NEW w \in Writers, OpenActive(w)
    PROVE  PackInv'
<1> USE DEF PackInv
<1>1. UNCHANGED <<pack, leases, retired, historical, held, closing>>
    BY DEF OpenActive, WriterStep, readerVars
<1>2. CASE UNCHANGED <<fresh, open>>
    BY <1>1, <1>2 DEF TablesOpen, LeasedPackOpen, HandedForgotten,
                      FreshPrivate, InNoTable
<1>3. ASSUME NEW o \in Objects, Unused(o), open' = open \cup {o},
             fresh' = [fresh EXCEPT ![w] = o]
      PROVE  PackInv'
    <2>1. fresh \in [Writers -> OrNone(Objects)]
        BY DEF CoreInv, TypeOK, TypeWriters
    <2>2. /\ InNoTable(o) /\ leases[o] = 0
          /\ \A x \in Writers : fresh[x] # o
          /\ \A t \in Threads : o \notin closing[t]
        BY <1>3, UnusedIsUnknown
    <2>3. TablesOpen' /\ LeasedPackOpen'
        BY <1>1, <1>3, <2>1 DEF TablesOpen, LeasedPackOpen
    <2>4. HandedForgotten'
        BY <1>1, <1>3, <2>1, <2>2 DEF HandedForgotten, InNoTable
    <2>5. FreshPrivate'
        BY <1>1, <1>3, <2>1, <2>2 DEF FreshPrivate, InNoTable
    <2> QED BY <2>3, <2>4, <2>5
<1> QED BY <1>2, <1>3 DEF OpenActive

\* A swap puts the fresh pack in place and retires the old one.
LEMMA SwapStep ==
    ASSUME CoreInv, PackInv, NEW w \in Writers, SwapPack(w)
    PROVE  PackInv'
<1> USE DEF PackInv
<1>1. /\ fresh \in [Writers -> OrNone(Objects)]
      /\ pack \in OrNone(Objects) /\ leases \in [Objects -> Nat]
      /\ historical \in [Versions -> OrNone(Objects)]
      /\ closing \in [Threads -> SUBSET Objects]
      /\ None \notin Objects /\ w \in Threads
    BY StoreAssumption
       DEF CoreInv, TypeOK, TypeWriters, TypePacks, Threads
<1>2. /\ UNCHANGED <<leases, open, held>>
      /\ pack' = fresh[w] /\ fresh' = [fresh EXCEPT ![w] = None]
      /\ RetirePack(w, pack)
    BY DEF SwapPack, WriterStep, readerVars
<1>3. LeasedPackOpen'
    BY <1>2 DEF LeasedPackOpen
<1>4. /\ retired' \subseteq retired \cup ({pack} \ {None})
      /\ \A v \in Versions : historical'[v] \in {None, pack, historical[v]}
      /\ \A t \in Threads : closing'[t] \subseteq closing[t] \cup ({pack} \ {None})
    <2>1. CASE pack = None
        BY <1>1, <1>2, <2>1 DEF RetirePack
    <2>2. CASE pack # None /\ leases[pack] > 0
        BY <1>1, <1>2, <2>2 DEF RetirePack
    <2>3. CASE pack # None /\ leases[pack] = 0
        BY <1>1, <1>2, <2>3 DEF RetirePack
    <2> QED BY <1>1, <1>2, <2>1, <2>2, <2>3 DEF RetirePack
<1>5. TablesOpen'
    BY <1>1, <1>2, <1>4 DEF TablesOpen
<1>6. ASSUME NEW o, o # None, o # fresh[w], o # pack, InNoTable(o)
      PROVE  InNoTable(o)'
    BY <1>2, <1>4, <1>6 DEF InNoTable
<1>7. HandedForgotten'
    <2> SUFFICES ASSUME NEW t \in Threads, NEW o \in closing'[t]
                 PROVE  /\ InNoTable(o)' /\ leases[o] = 0
                        /\ \A x \in Writers : fresh'[x] # o
        BY <1>2 DEF HandedForgotten
    <2>1. CASE o \in closing[t]
        <3>1. /\ InNoTable(o) /\ leases[o] = 0 /\ o # None
              /\ \A x \in Writers : fresh[x] # o
            BY <1>1, <2>1 DEF HandedForgotten
        <3>2. o # pack
            BY <3>1 DEF InNoTable
        <3> QED BY <1>1, <1>2, <1>6, <3>1, <3>2
    <2>2. CASE o \notin closing[t]
        <3>1. o = pack /\ pack # None
            BY <1>4, <2>2
        <3>2. /\ leases[o] = 0 /\ retired' = retired \ {o}
              /\ historical' = [v \in Versions |->
                    IF historical[v] = o THEN None ELSE historical[v]]
            BY <1>1, <1>2, <2>2, <3>1 DEF RetirePack
        <3>3. \A x \in Writers : fresh[x] # o
            BY <3>1 DEF FreshPrivate, InNoTable
        <3>4. InNoTable(o)'
            BY <1>1, <1>2, <3>1, <3>2, <3>3 DEF InNoTable
        <3> QED BY <1>1, <1>2, <3>1, <3>2, <3>3, <3>4
    <2> QED BY <2>1, <2>2
<1>8. FreshPrivate'
    <2> SUFFICES ASSUME NEW x \in Writers, NEW o, o = fresh'[x], o # None
                 PROVE  /\ InNoTable(o)' /\ leases[o] = 0
                        /\ \A y \in Writers : y # x => fresh'[y] # o
        BY <1>2 DEF FreshPrivate
    <2>1. x # w /\ o = fresh[x]
        BY <1>1, <1>2
    <2>2. /\ InNoTable(o) /\ leases[o] = 0
          /\ \A y \in Writers : y # x => fresh[y] # o
        BY <2>1 DEF FreshPrivate
    <2>3. o # pack /\ o # fresh[w]
        BY <2>1, <2>2 DEF InNoTable
    <2> QED BY <1>1, <1>2, <1>6, <2>2, <2>3
<1> QED BY <1>3, <1>5, <1>7, <1>8

\* close empties the tables.
LEMMA RetireAllStep ==
    ASSUME CoreInv, PackInv, NEW w \in Writers, RetireAll(w)
    PROVE  PackInv'
<1> USE DEF PackInv
<1>1. /\ leases \in [Objects -> Nat]
      /\ closing \in [Threads -> SUBSET Objects]
      /\ Known \subseteq Objects /\ None \notin Objects
    BY StoreAssumption
       DEF CoreInv, TypeOK, TypeWriters, TypePacks, Known, OrNone
<1>2. /\ UNCHANGED <<leases, open, held, fresh>> /\ pack' = None
      /\ historical' = [v \in Versions |-> None]
      /\ retired' = {o \in Known : leases[o] > 0}
      /\ closing' = [closing EXCEPT ![w] = {o \in Known : leases[o] = 0}]
    BY DEF RetireAll, WriterStep, readerVars, writerVars
<1>3. Known \subseteq open
    BY DEF Known, TablesOpen
<1>4. TablesOpen' /\ LeasedPackOpen'
    BY <1>2, <1>3 DEF TablesOpen, LeasedPackOpen
<1>5. ASSUME NEW o \in Objects, o \notin Known \/ leases[o] = 0
      PROVE  InNoTable(o)'
    BY <1>1, <1>2, <1>5 DEF InNoTable
<1>6. ASSUME NEW x \in Writers, fresh[x] # None PROVE fresh[x] \notin Known
    BY <1>6 DEF FreshPrivate, InNoTable, Known
<1>7. HandedForgotten'
    <2> SUFFICES ASSUME NEW t \in Threads, NEW o \in closing'[t]
                 PROVE  /\ InNoTable(o)' /\ leases[o] = 0
                        /\ \A x \in Writers : fresh[x] # o
        BY <1>2 DEF HandedForgotten
    <2>1. o \in closing[t] \/ (o \in Known /\ leases[o] = 0)
        BY <1>1, <1>2
    <2>2. leases[o] = 0 /\ o \in Objects
        BY <1>1, <2>1 DEF HandedForgotten
    <2>3. \A x \in Writers : fresh[x] # o
        BY <1>1, <1>6, <2>1, <2>2 DEF HandedForgotten
    <2> QED BY <1>5, <2>2, <2>3
<1>8. FreshPrivate'
    <2>1. fresh \in [Writers -> OrNone(Objects)]
        BY DEF CoreInv, TypeOK, TypeWriters
    <2> QED BY <1>2, <1>5, <1>6, <2>1 DEF FreshPrivate, OrNone
<1> QED BY <1>4, <1>7, <1>8

LEMMA PackFrame ==
    ASSUME PackInv, UNCHANGED packState PROVE PackInv'
BY DEF PackInv, TablesOpen, LeasedPackOpen, HandedForgotten, FreshPrivate,
       InNoTable, packState

LEMMA PackStep == CoreInv /\ PackInv /\ [Next]_vars => PackInv'
<1> SUFFICES ASSUME CoreInv, PackInv, [Next]_vars PROVE PackInv'
    OBVIOUS
<1>1. ASSUME NEW r \in Readers, ReaderNext(r) PROVE PackInv'
    <2>1. CASE Snapshot(r) \/ NestedSnapshot(r) \/ LeaseAudio(r)
        BY <2>1, LeaseSteps
    <2>2. CASE ReleasePack(r)
        BY <2>2, ReleaseStep
    <2>3. CASE ReaderClosesPack(r)
        BY <2>3, CloseStep
        DEF ReaderClosesPack, readerVars, writerVars, Threads
    <2>4. CASE \/ Start(r) \/ EnterState(r) \/ ExitState(r)
        BY <2>4, PackFrame DEF Start, EnterState, ExitState, packState,
           packVars, readerVars, writerVars
    <2>5. CASE \/ ReadEpoch(r) \/ CacheGet(r) \/ RowsGate(r) \/ RowGet(r)
               \/ Connect(r) \/ Query(r) \/ RowPut(r) \/ LegacyRows(r)
               \/ Build(r) \/ CachePutResponse(r)
        <3>1. \E label : Local(r, label)
            BY <2>5 DEF ReadEpoch, CacheGet, RowsGate, RowGet, Connect, Query,
               RowPut, LegacyRows, Build, CachePutResponse
        <3> QED BY <3>1, PackFrame DEF Local, packState, packVars, writerVars
    <2> QED BY <1>1, <2>1, <2>2, <2>3, <2>4, <2>5 DEF ReaderNext
<1>2. ASSUME NEW w \in Writers, WriterNext(w) PROVE PackInv'
    <2>1. CASE OpenActive(w)
        BY <2>1, OpenStep
    <2>2. CASE SwapPack(w)
        BY <2>2, SwapStep
    <2>3. CASE ClearResponses(w) \/ WriterClosesPacks(w)
        BY <2>3, CloseStep DEF ClearResponses, WriterClosesPacks, WriterStep,
           readerVars, writerVars, Threads
    <2>4. CASE RetireAll(w)
        BY <2>4, RetireAllStep
    <2>5. CASE \/ Call(w) \/ CheckProtected(w) \/ Unlock(w)
               \/ BeginTransition(w) \/ DrainReaders(w) \/ EndTransition(w)
               \/ RecheckProtected(w) \/ MarkClosed(w) \/ ActivateBuild(w)
        BY <2>5, PackFrame DEF Call, CheckProtected, Unlock, BeginTransition,
           DrainReaders, EndTransition, RecheckProtected, MarkClosed,
           ActivateBuild, WriterStep, packState, packVars, readerVars,
           writerVars
    <2>6. CASE \/ BlockQueries(w) \/ CloseConnections(w) \/ ReplaceDatabase(w)
               \/ AdvanceEpoch(w) \/ EndPublish(w) \/ ReplaceSources(w)
               \/ CloseEpoch(w)
        BY <2>6, PackFrame DEF BlockQueries, CloseConnections, ReplaceDatabase,
           AdvanceEpoch, EndPublish, ReplaceSources, CloseEpoch, WriterStep,
           packState, packVars, readerVars, writerVars
    <2> QED BY <1>2, <2>1, <2>2, <2>3, <2>4, <2>5, <2>6 DEF WriterNext
<1>3. CASE Cleanup \/ UNCHANGED vars
    BY <1>3, PackFrame DEF Cleanup, vars, packState, packVars, readerVars,
       writerVars
<1> QED BY <1>1, <1>2, <1>3 DEF Next

LEMMA PackInit == Init => PackInv
<1> SUFFICES ASSUME Init PROVE PackInv
    OBVIOUS
<1> USE StoreAssumption DEF Init
<1>1. TablesOpen
    BY DEF TablesOpen
<1>2. LeasedPackOpen
    BY DEF LeasedPackOpen
<1>3. HandedForgotten
    BY DEF HandedForgotten
<1>4. FreshPrivate
    BY DEF FreshPrivate
<1> QED BY <1>1, <1>2, <1>3, <1>4 DEF PackInv

\* _leased_pack_snapshot, _retire_pack_locked and close: however reloads,
\* publications and leases interleave, a pack somebody reads from is open.
THEOREM LeasedPacks == Spec => []LeasedPackOpen
<1>1. PackInv => LeasedPackOpen
    BY DEF PackInv
<1> QED BY CoreInit, CoreStep, PackInit, PackStep, <1>1, PTL DEF Spec

---------------------------------------------------------------------------
(* No pack object is lost *)

\* Every open pack was given a version when it was opened.
VersionsKnown == \A o \in open : ver[o] \in Versions

\* A handed pack is still open, was handed to one thread, and that thread is on
\* its way to close it.
HandedOpen == \A t \in Threads : closing[t] \subseteq open
HandedOnce ==
    \A t, u \in Threads : t # u => closing[t] \cap closing[u] = {}
MayCloseAt(t) ==
    pc[t] \in {"clear", "closePack"} \/ (pc[t] = "end" /\ op[t] = "close")
HandedAt == \A t \in Threads : closing[t] # {} => MayCloseAt(t)

\* A freshly opened pack waits for the swap.
FreshAt == \A w \in Writers : fresh[w] # None => pc[w] = "swap"

\* An open pack is in a table, fresh, or handed to somebody.
Accounted ==
    \A o \in open : \/ ~InNoTable(o)
                    \/ \E w \in Writers : fresh[w] = o
                    \/ \E t \in Threads : o \in closing[t]

\* The tables keep only the current pack and leased ones.
TablesLeased ==
    \A o \in Objects : ~InNoTable(o) /\ o # pack => leases[o] > 0

\* What makes NoPackLeak inductive.
LeakInv ==
    /\ VersionsKnown /\ HandedOpen /\ HandedOnce /\ HandedAt /\ FreshAt
    /\ Accounted /\ TablesLeased

leakState == <<pack, leases, retired, historical, open, ver, fresh, closing>>

\* One thread moves and nothing is handed over: t had nothing to close.
LEMMA HandFrame ==
    ASSUME CoreInv, LeakInv, NEW t \in Threads, NEW label, Go(t, label),
           UNCHANGED <<fresh, closing>>,
           MayCloseAt(t) => label = "closePack" \/ closing[t] = {},
           t \in Writers => pc[t] # "swap"
    PROVE  HandedAt' /\ FreshAt'
<1>1. /\ pc' = [pc EXCEPT ![t] = label] /\ DOMAIN pc = Threads
      /\ op' = [op EXCEPT ![t] = IF label = "idle" THEN "none" ELSE @]
      /\ DOMAIN op = Threads
    BY DEF Go, CoreInv, TypeOK, TypeThreads
<1>2. HandedAt'
    BY <1>1 DEF LeakInv, HandedAt, MayCloseAt
<1>3. FreshAt'
    BY <1>1, StoreAssumption DEF LeakInv, FreshAt, Threads
<1> QED BY <1>2, <1>3

\* Nothing happens to the tables.
LEMMA LeakFrame ==
    ASSUME LeakInv, UNCHANGED leakState, HandedAt', FreshAt' PROVE LeakInv'
BY DEF LeakInv, VersionsKnown, HandedOpen, HandedOnce, Accounted, TablesLeased,
       InNoTable, leakState

\* What the definition of NoPackLeak says of single packs.
LEMMA LeakImplied == CoreInv /\ PackInv /\ LeakInv => NoPackLeak
<1> SUFFICES ASSUME CoreInv, PackInv, LeakInv PROVE NoPackLeak
    OBVIOUS
<1>1. /\ pack \in OrNone(Objects) /\ retired \subseteq Objects
      /\ historical \in [Versions -> OrNone(Objects)]
      /\ open \subseteq Objects /\ None \notin Objects
    BY StoreAssumption DEF CoreInv, TypeOK, TypePacks
<1>2. ASSUME NEW o \in Objects PROVE o \in Known <=> ~InNoTable(o)
    BY <1>1, <1>2 DEF Known, InNoTable
<1>3. Known \subseteq Objects
    BY <1>1 DEF Known, OrNone
<1>4. \A o \in Known \ {pack} : leases[o] > 0
    BY <1>2, <1>3 DEF LeakInv, TablesLeased
<1>5. Known \subseteq open
    BY DEF PackInv, TablesOpen, Known
<1>6. {fresh[w] : w \in Writers} \ {None} \subseteq open
    BY DEF PackInv, TablesOpen
<1>7. UNION {closing[t] : t \in Threads} \subseteq open
    BY DEF LeakInv, HandedOpen
<1>8. open \subseteq Known \cup ({fresh[w] : w \in Writers} \ {None})
                      \cup UNION {closing[t] : t \in Threads}
    BY <1>1, <1>2 DEF LeakInv, Accounted
<1> QED BY <1>4, <1>5, <1>6, <1>7, <1>8 DEF NoPackLeak

\* A lease on a pack that a table has.
LEMMA LeakLeaseKnown ==
    ASSUME CoreInv, LeakInv, NEW r \in Readers, NEW o, LeasePack(r, o),
           UNCHANGED <<pack, retired, historical, open, ver, fresh, closing>>,
           HandedAt', FreshAt'
    PROVE  LeakInv'
<1>1. \A p \in Objects : leases'[p] >= leases[p] /\ leases[p] \in Nat
                         /\ leases'[p] \in Nat
    BY DEF LeasePack, CoreInv, TypeOK, TypePacks
<1>2. TablesLeased'
    BY <1>1 DEF LeakInv, TablesLeased, InNoTable
<1> QED BY <1>2 DEF LeakInv, VersionsKnown, HandedOpen, HandedOnce, Accounted,
                    InNoTable

\* A lease that opens a pack under its version.
LEMMA LeakLeaseOpened ==
    ASSUME CoreInv, PackInv, LeakInv, NEW r \in Readers, NEW v \in Versions,
           NEW o \in Objects, Unused(o), LeasePack(r, o),
           historical[v] = None,
           open' = open \cup {o}, ver' = [ver EXCEPT ![o] = v],
           historical' = [historical EXCEPT ![v] = o],
           UNCHANGED <<pack, retired, fresh, closing>>, HandedAt', FreshAt'
    PROVE  LeakInv'
<1>1. /\ leases \in [Objects -> Nat] /\ open \subseteq Objects
      /\ historical \in [Versions -> OrNone(Objects)]
      /\ ver \in [Objects -> OrNone(Versions)] /\ None \notin Objects
    BY StoreAssumption DEF CoreInv, TypeOK, TypePacks
<1>2. o \notin open /\ o # None
    BY <1>1 DEF Unused
<1>3. leases' = [leases EXCEPT ![o] = @ + 1]
    BY <1>2 DEF LeasePack
<1>4. \A p \in Objects : p # o => InNoTable(p)' = InNoTable(p)
    BY <1>1 DEF InNoTable
<1>5. ~InNoTable(o)'
    BY <1>1 DEF InNoTable
<1>6. VersionsKnown'
    BY <1>1, <1>2 DEF LeakInv, VersionsKnown
<1>7. HandedOpen' /\ HandedOnce'
    BY DEF LeakInv, HandedOpen, HandedOnce
<1>8. Accounted'
    BY <1>1, <1>4, <1>5 DEF LeakInv, Accounted
<1>9. TablesLeased'
    BY <1>1, <1>3, <1>4 DEF LeakInv, TablesLeased
<1> QED BY <1>6, <1>7, <1>8, <1>9 DEF LeakInv

\* Every way a reader takes a lease.
LEMMA LeakLeaseSteps ==
    ASSUME CoreInv, PackInv, LeakInv, NEW r \in Readers,
           Snapshot(r) \/ NestedSnapshot(r) \/ LeaseAudio(r)
    PROVE  LeakInv'
<1>1. UNCHANGED <<pack, retired, fresh, closing>>
    BY DEF Snapshot, NestedSnapshot, LeaseAudio, writerVars
<1>2. HandedAt' /\ FreshAt'
    BY <1>1, HandFrame, StoreAssumption
       DEF Snapshot, NestedSnapshot, LeaseAudio, Threads, MayCloseAt
<1>3. CASE UNCHANGED <<leases, historical, open, ver, held>>
    BY <1>1, <1>2, <1>3, LeakFrame DEF leakState
<1>4. CASE LeasePack(r, pack) /\ UNCHANGED <<historical, open, ver>>
    BY <1>1, <1>2, <1>4, LeakLeaseKnown
<1>5. CASE \E v \in Versions : LeaseVersion(r, v)
    <2> PICK v \in Versions : LeaseVersion(r, v)
        BY <1>5
    <2>1. CASE CurrentServes(v) \/ historical[v] # None \/ v \notin built
        BY <1>1, <1>2, <2>1, LeakLeaseKnown DEF LeaseVersion
    <2>2. CASE ~CurrentServes(v) /\ historical[v] = None /\ v \in built
        BY <1>1, <1>2, <2>2, LeakLeaseOpened DEF LeaseVersion
    <2> QED BY <2>1, <2>2
<1> QED BY <1>3, <1>4, <1>5 DEF Snapshot, NestedSnapshot, LeaseAudio

\* The last lease on a pack that is not current takes it out of the tables.
LEMMA LeakReleaseStep ==
    ASSUME CoreInv, PackInv, LeakInv, NEW r \in Readers, ReleasePack(r)
    PROVE  LeakInv'
<1> PICK o : o = held[r]
    OBVIOUS
<1>1. /\ held \in [Readers -> OrNone(Objects)] /\ leases \in [Objects -> Nat]
      /\ historical \in [Versions -> OrNone(Objects)]
      /\ closing \in [Threads -> SUBSET Objects] /\ open \subseteq Objects
      /\ None \notin Objects /\ r \in Threads /\ r \notin Writers
      /\ pc \in [Threads -> ReaderPoints \cup WriterPoints]
    BY StoreAssumption DEF CoreInv, TypeOK, TypeReaders, TypePacks,
       TypeWriters, TypeThreads, Threads
<1>2. UNCHANGED <<pack, open, ver, fresh>> /\ pc[r] = "release"
    BY DEF ReleasePack, writerVars
<1>3. CASE o = None
    <2>1. UNCHANGED <<leases, historical, retired, closing>>
          /\ Go(r, AfterRelease(r))
        BY <1>3 DEF ReleasePack
    <2>2. HandedAt' /\ FreshAt'
        BY <1>1, <1>2, <2>1, HandFrame DEF MayCloseAt
    <2> QED BY <1>2, <2>1, <2>2, LeakFrame DEF leakState
<1>4. CASE o # None /\ (leases[o] > 1 \/ o = pack)
    <2>1. /\ leases' = [leases EXCEPT ![o] = @ - 1]
          /\ UNCHANGED <<historical, retired, closing>>
          /\ Go(r, AfterRelease(r))
        BY <1>4 DEF ReleasePack
    <2>2. HandedAt' /\ FreshAt'
        BY <1>1, <1>2, <2>1, HandFrame DEF MayCloseAt
    <2>3. TablesLeased'
        BY <1>1, <1>2, <1>4, <2>1 DEF LeakInv, TablesLeased, InNoTable
    <2> QED BY <1>2, <2>1, <2>2, <2>3
            DEF LeakInv, VersionsKnown, HandedOpen, HandedOnce, Accounted,
                InNoTable
<1>5. CASE o # None /\ leases[o] = 1 /\ o # pack
    <2>1. /\ leases' = [leases EXCEPT ![o] = 0]
          /\ historical' = [v \in Versions |->
                              IF historical[v] = o THEN None ELSE historical[v]]
          /\ retired' = retired \ {o}
          /\ closing' = [closing EXCEPT ![r] = {o}]
          /\ Go(r, "closePack")
        BY <1>5 DEF ReleasePack
    <2>2. o \in Objects /\ o \in open
        BY <1>1, <1>5 DEF OrNone, PackInv, LeasedPackOpen
    <2>3. closing[r] = {}
        BY <1>1, <1>2 DEF LeakInv, HandedAt, MayCloseAt
    <2>4. \A t \in Threads : o \notin closing[t]
        BY <1>5 DEF PackInv, HandedForgotten
    <2>5. pc' = [pc EXCEPT ![r] = "closePack"]
          /\ \A t \in Threads : t # r => op'[t] = op[t]
        BY <2>1 DEF Go, CoreInv, TypeOK, TypeThreads
    <2>6. HandedAt' /\ FreshAt'
        BY <1>1, <1>2, <2>1, <2>5
           DEF LeakInv, HandedAt, FreshAt, MayCloseAt, Threads
    <2>7. ASSUME NEW p \in Objects, p # o PROVE InNoTable(p)' = InNoTable(p)
        BY <1>1, <1>2, <2>1, <2>7 DEF InNoTable
    <2>8. InNoTable(o)'
        BY <1>1, <1>2, <1>5, <2>1, <2>2 DEF InNoTable
    <2>9. HandedOpen' /\ HandedOnce'
        BY <1>1, <1>2, <2>1, <2>2, <2>4 DEF LeakInv, HandedOpen, HandedOnce
    <2>10. Accounted'
        BY <1>1, <1>2, <2>1, <2>3, <2>7 DEF LeakInv, Accounted
    <2>11. TablesLeased'
        BY <1>1, <1>2, <2>1, <2>7, <2>8 DEF LeakInv, TablesLeased
    <2>12. VersionsKnown'
        BY <1>2 DEF LeakInv, VersionsKnown
    <2> QED BY <2>6, <2>9, <2>10, <2>11, <2>12 DEF LeakInv
<1> QED BY <1>1, <1>3, <1>4, <1>5 DEF ReleasePack, OrNone

\* What was handed is closed and nothing else.
LEMMA LeakCloseStep ==
    ASSUME CoreInv, PackInv, LeakInv, NEW t \in Threads, CloseHanded(t),
           NEW label, Go(t, label), t \in Writers => pc[t] # "swap",
           UNCHANGED <<pack, leases, retired, historical, fresh>>
    PROVE  LeakInv'
<1>1. /\ closing \in [Threads -> SUBSET Objects] /\ open \subseteq Objects
      /\ pc' = [pc EXCEPT ![t] = label] /\ DOMAIN pc = Threads
      /\ \A u \in Threads : u # t => op'[u] = op[u]
      /\ Writers \subseteq Threads
    BY DEF CoreInv, TypeOK, TypePacks, TypeWriters, TypeThreads, Go, Threads
<1>2. /\ open' = open \ closing[t] /\ closing' = [closing EXCEPT ![t] = {}]
      /\ ver' = [o \in Objects |-> IF o \in closing[t] THEN None ELSE ver[o]]
    BY DEF CloseHanded
<1>3. VersionsKnown'
    BY <1>1, <1>2 DEF LeakInv, VersionsKnown
<1>4. HandedOpen' /\ HandedOnce'
    BY <1>1, <1>2 DEF LeakInv, HandedOpen, HandedOnce
<1>5. HandedAt' /\ FreshAt'
    BY <1>1, <1>2 DEF LeakInv, HandedAt, FreshAt, MayCloseAt
<1>6. Accounted' /\ TablesLeased'
    BY <1>1, <1>2 DEF LeakInv, Accounted, TablesLeased, InNoTable
<1> QED BY <1>3, <1>4, <1>5, <1>6 DEF LeakInv

\* A pack opened by a reload is fresh until the swap.
LEMMA LeakOpenStep ==
    ASSUME CoreInv, PackInv, LeakInv, NEW w \in Writers, OpenActive(w)
    PROVE  LeakInv'
<1>1. /\ UNCHANGED <<pack, leases, retired, historical, closing>>
      /\ pc[w] = "open" /\ Go(w, "swap") /\ w \in Threads
    BY DEF OpenActive, WriterStep, Threads
<1>2. /\ fresh \in [Writers -> OrNone(Objects)] /\ open \subseteq Objects
      /\ ver \in [Objects -> OrNone(Versions)] /\ None \notin Versions
      /\ pc' = [pc EXCEPT ![w] = "swap"] /\ DOMAIN pc = Threads
      /\ \A u \in Threads : u # w => op'[u] = op[u]
      /\ Writers \subseteq Threads /\ built \subseteq Versions
    BY <1>1, StoreAssumption DEF CoreInv, TypeOK, TypePacks, TypeWriters,
       TypeThreads, TypeDisk, Go, Threads
<1>3. HandedAt'
    BY <1>1, <1>2 DEF LeakInv, HandedAt, MayCloseAt
<1>4. CASE UNCHANGED <<fresh, open, ver>>
    <2>1. FreshAt'
        BY <1>2, <1>4 DEF LeakInv, FreshAt
    <2> QED BY <1>1, <1>3, <1>4, <2>1, LeakFrame DEF leakState
<1>5. ASSUME NEW o \in Objects, Unused(o), ActivePack # None,
             open' = open \cup {o}, ver' = [ver EXCEPT ![o] = ActivePack],
             fresh' = [fresh EXCEPT ![w] = o]
      PROVE  LeakInv'
    <2>1. ActivePack \in Versions /\ fresh[w] = None
        BY <1>1, <1>2, <1>5 DEF ActivePack, LeakInv, FreshAt
    <2>2. o \notin open /\ \A x \in Writers : fresh[x] # o
        BY <1>5 DEF Unused
    <2>3. VersionsKnown'
        BY <1>2, <1>5, <2>1, <2>2 DEF LeakInv, VersionsKnown
    <2>4. HandedOpen' /\ HandedOnce'
        BY <1>1, <1>5 DEF LeakInv, HandedOpen, HandedOnce
    <2>5. FreshAt'
        BY <1>2, <1>5 DEF LeakInv, FreshAt
    <2>6. Accounted'
        BY <1>1, <1>2, <1>5, <2>1, StoreAssumption
           DEF LeakInv, Accounted, InNoTable
    <2>7. TablesLeased'
        BY <1>1 DEF LeakInv, TablesLeased, InNoTable
    <2> QED BY <1>3, <2>3, <2>4, <2>5, <2>6, <2>7 DEF LeakInv
<1> QED BY <1>4, <1>5 DEF OpenActive

\* The old pack keeps its place while it is leased and is handed over otherwise.
LEMMA LeakSwapStep ==
    ASSUME CoreInv, PackInv, LeakInv, NEW w \in Writers, SwapPack(w)
    PROVE  LeakInv'
<1>1. /\ fresh \in [Writers -> OrNone(Objects)]
      /\ pack \in OrNone(Objects) /\ leases \in [Objects -> Nat]
      /\ historical \in [Versions -> OrNone(Objects)]
      /\ closing \in [Threads -> SUBSET Objects]
      /\ None \notin Objects /\ w \in Threads /\ Writers \subseteq Threads
      /\ open \subseteq Objects /\ retired \subseteq Objects
    BY StoreAssumption
       DEF CoreInv, TypeOK, TypeWriters, TypePacks, Threads
<1>2. /\ UNCHANGED <<leases, open, ver>> /\ pc[w] = "swap"
      /\ pack' = fresh[w] /\ fresh' = [fresh EXCEPT ![w] = None]
      /\ RetirePack(w, pack)
    BY DEF SwapPack
<1>3. /\ pc' = [pc EXCEPT ![w] = "clear"] /\ DOMAIN pc = Threads
      /\ \A u \in Threads : u # w => op'[u] = op[u]
    BY DEF SwapPack, WriterStep, Go, CoreInv, TypeOK, TypeThreads
<1>4. FreshAt'
    BY <1>1, <1>2, <1>3 DEF LeakInv, FreshAt
<1>5. VersionsKnown'
    BY <1>2 DEF LeakInv, VersionsKnown
<1>6. ASSUME NEW o \in Objects, o # pack
      PROVE  InNoTable(o)' <=> (InNoTable(o) /\ o # fresh[w])
    <2>1. CASE pack = None
        BY <1>1, <1>2, <1>6, <2>1 DEF RetirePack, InNoTable
    <2>2. CASE pack # None /\ leases[pack] > 0
        <3>1. ver[pack] \in Versions
            BY <2>2 DEF PackInv, TablesOpen, LeakInv, VersionsKnown
        <3> QED BY <1>1, <1>2, <1>6, <2>2, <3>1 DEF RetirePack, InNoTable
    <2>3. CASE pack # None /\ leases[pack] = 0
        BY <1>1, <1>2, <1>6, <2>3 DEF RetirePack, InNoTable
    <2> QED BY <1>1, <2>1, <2>2, <2>3 DEF OrNone
<1>7. pack # None => /\ \A x \in Writers : fresh[x] # pack
                     /\ \A t \in Threads : pack \notin closing[t]
    BY DEF PackInv, FreshPrivate, HandedForgotten, InNoTable
<1>8. CASE pack = None \/ leases[pack] > 0
    <2>1. UNCHANGED closing
        BY <1>1, <1>2, <1>8 DEF RetirePack
    <2>2. ASSUME NEW o, o = pack, o # None PROVE ~InNoTable(o)'
        <3>1. ver[o] \in Versions
            BY <2>2 DEF PackInv, TablesOpen, LeakInv, VersionsKnown
        <3>2. RetirePack(w, o) /\ leases[o] > 0
            BY <1>2, <1>8, <2>2
        <3> QED BY <1>1, <2>2, <3>1, <3>2 DEF RetirePack, InNoTable
    <2>3. HandedOpen' /\ HandedOnce' /\ HandedAt'
        BY <1>1, <1>2, <1>3, <2>1
           DEF LeakInv, HandedOpen, HandedOnce, HandedAt, MayCloseAt
    <2>4. Accounted'
        <3> SUFFICES ASSUME NEW o \in open, InNoTable(o)',
                            \A t \in Threads : o \notin closing[t]
                     PROVE  \E x \in Writers : fresh'[x] = o
            BY <1>2, <2>1 DEF Accounted
        <3>1. o # pack /\ o \in Objects
            BY <1>1, <2>2
        <3>2. InNoTable(o) /\ o # fresh[w]
            BY <1>6, <3>1
        <3>3. PICK x \in Writers : fresh[x] = o
            BY <3>2 DEF LeakInv, Accounted
        <3> QED BY <1>1, <1>2, <3>2, <3>3
    <2>5. TablesLeased'
        BY <1>1, <1>2, <1>6, <1>8 DEF LeakInv, TablesLeased
    <2> QED BY <1>4, <1>5, <2>3, <2>4, <2>5 DEF LeakInv
<1>9. CASE pack # None /\ leases[pack] = 0
    <2>1. /\ closing' = [closing EXCEPT ![w] = @ \cup {pack}]
          /\ historical' = [v \in Versions |->
                IF historical[v] = pack THEN None ELSE historical[v]]
          /\ retired' = retired \ {pack}
        BY <1>1, <1>2, <1>9 DEF RetirePack
    <2>2. ~(pack' = pack \/ pack \in retired'
            \/ \E v \in Versions : historical'[v] = pack)
        BY <1>1, <1>2, <1>7, <1>9, <2>1
    <2>3. HandedOpen'
        BY <1>1, <1>2, <1>9, <2>1 DEF LeakInv, HandedOpen, PackInv, TablesOpen
    <2>4. HandedOnce'
        BY <1>1, <1>7, <1>9, <2>1 DEF LeakInv, HandedOnce
    <2>5. HandedAt'
        BY <1>1, <1>3, <2>1 DEF LeakInv, HandedAt, MayCloseAt
    <2>6. Accounted'
        BY <1>1, <1>2, <1>6, <2>1 DEF LeakInv, Accounted
    <2>7. TablesLeased'
        <3> SUFFICES ASSUME NEW o \in Objects, ~InNoTable(o)', o # pack'
                     PROVE  leases[o] > 0
            BY <1>2 DEF TablesLeased
        <3>1. o # pack
            BY <2>2 DEF InNoTable
        <3>2. ~InNoTable(o)
            BY <1>2, <1>6, <3>1
        <3> QED BY <3>1, <3>2 DEF LeakInv, TablesLeased
    <2> QED BY <1>4, <1>5, <2>3, <2>4, <2>5, <2>6, <2>7 DEF LeakInv
<1> QED BY <1>1, <1>8, <1>9 DEF OrNone

\* close keeps the leased packs and hands over the others.
LEMMA LeakRetireAllStep ==
    ASSUME CoreInv, PackInv, LeakInv, NEW w \in Writers, RetireAll(w),
           op[w] = "close"
    PROVE  LeakInv'
<1>1. /\ leases \in [Objects -> Nat] /\ open \subseteq Objects
      /\ closing \in [Threads -> SUBSET Objects]
      /\ None \notin Objects /\ w \in Threads /\ Writers \subseteq Threads
      /\ pack \in OrNone(Objects) /\ retired \subseteq Objects
      /\ historical \in [Versions -> OrNone(Objects)]
    BY StoreAssumption
       DEF CoreInv, TypeOK, TypeWriters, TypePacks, Threads
<1>2. /\ UNCHANGED <<leases, open, ver, fresh>> /\ pack' = None
      /\ pc[w] = "retireAll"
      /\ historical' = [v \in Versions |-> None]
      /\ retired' = {o \in Known : leases[o] > 0}
      /\ closing' = [closing EXCEPT ![w] = {o \in Known : leases[o] = 0}]
    BY DEF RetireAll, writerVars
<1>3. /\ pc' = [pc EXCEPT ![w] = "end"] /\ DOMAIN pc = Threads
      /\ op' = op
    BY DEF RetireAll, WriterStep, Go, CoreInv, TypeOK, TypeThreads
<1>4. ASSUME NEW o \in Objects PROVE o \in Known <=> ~InNoTable(o)
    BY <1>1, <1>4 DEF Known, InNoTable
<1>5. Known \subseteq open
    BY DEF PackInv, TablesOpen, Known
<1>6. \A t \in Threads : Known \cap closing[t] = {}
    BY <1>1, <1>4 DEF PackInv, HandedForgotten
<1>7. closing[w] = {}
    BY <1>1, <1>2 DEF LeakInv, HandedAt, MayCloseAt
<1>8. \A o \in Objects : InNoTable(o)' <=> ~(o \in Known /\ leases[o] > 0)
    BY <1>1, <1>2 DEF InNoTable
<1>9. HandedOpen' /\ HandedOnce'
    BY <1>1, <1>2, <1>5, <1>6 DEF LeakInv, HandedOpen, HandedOnce
<1>10. HandedAt' /\ FreshAt'
    BY <1>1, <1>2, <1>3 DEF LeakInv, HandedAt, FreshAt, MayCloseAt
<1>11. VersionsKnown'
    BY <1>2 DEF LeakInv, VersionsKnown
<1>12. Accounted'
    <2> SUFFICES ASSUME NEW o \in open', ~(o \in Known /\ leases[o] > 0),
                        \A x \in Writers : fresh[x] # o
                 PROVE  \E t \in Threads : o \in closing'[t]
        BY <1>1, <1>2, <1>8 DEF Accounted
    <2>1. CASE o \in Known
        BY <1>1, <1>2, <2>1
    <2>2. CASE o \notin Known
        BY <1>1, <1>2, <1>4, <1>7, <2>2 DEF LeakInv, Accounted
    <2> QED BY <2>1, <2>2
<1>13. TablesLeased'
    BY <1>2, <1>8 DEF TablesLeased
<1> QED BY <1>9, <1>10, <1>11, <1>12, <1>13 DEF LeakInv

\* At first at most the current pack is open.
LEMMA LeakInit == Init => LeakInv
<1> SUFFICES ASSUME Init PROVE LeakInv
    OBVIOUS
<1> USE StoreAssumption DEF Init
<1>1. pack \in OrNone(Objects) /\ (pack # None => active \in Versions)
    BY DEF OrNone, ActivePack
<1>2. VersionsKnown
    BY <1>1 DEF VersionsKnown, OrNone
<1>3. HandedOpen /\ HandedOnce /\ HandedAt /\ FreshAt
    BY DEF HandedOpen, HandedOnce, HandedAt, FreshAt
<1>4. Accounted
    BY DEF Accounted, InNoTable
<1>5. TablesLeased
    BY DEF TablesLeased, InNoTable
<1> QED BY <1>2, <1>3, <1>4, <1>5 DEF LeakInv

\* Every step keeps the tables complete.
LEMMA LeakStep ==
    CoreInv /\ PackInv /\ WriterInv /\ LeakInv /\ [Next]_vars => LeakInv'
<1> SUFFICES ASSUME CoreInv, PackInv, WriterInv, LeakInv, [Next]_vars
             PROVE  LeakInv'
    OBVIOUS
<1>1. ASSUME NEW r \in Readers, ReaderNext(r) PROVE LeakInv'
    <2>0. r \in Threads /\ r \notin Writers
        BY StoreAssumption DEF Threads
    <2>1. CASE Snapshot(r) \/ NestedSnapshot(r) \/ LeaseAudio(r)
        BY <2>1, LeakLeaseSteps
    <2>2. CASE ReleasePack(r)
        BY <2>2, LeakReleaseStep
    <2>3. CASE ReaderClosesPack(r)
        BY <2>0, <2>3, LeakCloseStep DEF ReaderClosesPack, writerVars
    <2>4. CASE Start(r)
        <3>1. /\ \E p, o : /\ pc' = [pc EXCEPT ![r] = p]
                           /\ op' = [op EXCEPT ![r] = o]
              /\ pc[r] = "idle" /\ UNCHANGED leakState
              /\ DOMAIN pc = Threads /\ DOMAIN op = Threads
            BY <2>4 DEF Start, leakState, packVars, writerVars, CoreInv,
               TypeOK, TypeThreads
        <3>2. HandedAt' /\ FreshAt'
            BY <2>0, <3>1 DEF leakState, LeakInv, HandedAt, FreshAt,
               MayCloseAt, Threads
        <3> QED BY <3>1, <3>2, LeakFrame
    <2>5. CASE EnterState(r) \/ ExitState(r)
        <3>1. /\ \E label : Go(r, label)
              /\ pc[r] \in {"enter", "exit"} /\ UNCHANGED leakState
            BY <2>5 DEF EnterState, ExitState, leakState, packVars, writerVars
        <3>2. HandedAt' /\ FreshAt'
            BY <2>0, <3>1, HandFrame DEF MayCloseAt, leakState
        <3> QED BY <3>1, <3>2, LeakFrame
    <2>6. CASE \/ ReadEpoch(r) \/ CacheGet(r) \/ RowsGate(r) \/ RowGet(r)
               \/ Connect(r) \/ Query(r) \/ RowPut(r) \/ LegacyRows(r)
               \/ Build(r) \/ CachePutResponse(r)
        <3>1. /\ \E label : Local(r, label)
              /\ pc[r] \notin {"clear", "closePack", "end"}
            BY <2>6 DEF ReadEpoch, CacheGet, RowsGate, RowGet, Connect, Query,
               RowPut, LegacyRows, Build, CachePutResponse
        <3>2. /\ \E label : Go(r, label)
              /\ UNCHANGED leakState
            BY <3>1 DEF Local, leakState, packVars, writerVars
        <3>3. HandedAt' /\ FreshAt'
            BY <2>0, <3>1, <3>2, HandFrame DEF MayCloseAt, leakState
        <3> QED BY <3>2, <3>3, LeakFrame
    <2> QED BY <1>1, <2>1, <2>2, <2>3, <2>4, <2>5, <2>6 DEF ReaderNext
<1>2. ASSUME NEW w \in Writers, WriterNext(w) PROVE LeakInv'
    <2>0. w \in Threads
        BY DEF Threads
    <2>1. CASE OpenActive(w)
        BY <2>1, LeakOpenStep
    <2>2. CASE SwapPack(w)
        BY <2>2, LeakSwapStep
    <2>3. CASE ClearResponses(w) \/ WriterClosesPacks(w)
        BY <2>0, <2>3, LeakCloseStep DEF ClearResponses, WriterClosesPacks,
           WriterStep, writerVars
    <2>4. CASE RetireAll(w)
        BY <2>4, LeakRetireAllStep
           DEF RetireAll, WriterInv, WriterProgram
    <2>5. CASE Call(w)
        <3>1. /\ \E p, o : /\ pc' = [pc EXCEPT ![w] = p]
                           /\ op' = [op EXCEPT ![w] = o]
              /\ pc[w] = "idle" /\ UNCHANGED leakState
              /\ DOMAIN pc = Threads /\ DOMAIN op = Threads
            BY <2>5 DEF Call, leakState, packVars, CoreInv, TypeOK, TypeThreads
        <3>2. HandedAt' /\ FreshAt'
            BY <2>0, <3>1 DEF leakState, LeakInv, HandedAt, FreshAt,
               MayCloseAt, Threads
        <3> QED BY <3>1, <3>2, LeakFrame
    <2>6. CASE EndTransition(w)
        <3>0. op[w] = "close" => buildLock # w
            BY DEF WriterInv, LocksHeld
        <3>1. /\ \E label : Go(w, label)
              /\ op[w] = "close" => Go(w, "closePack")
              /\ pc[w] = "end"
            BY <2>6, <3>0 DEF EndTransition, WriterStep
        <3>2. UNCHANGED leakState
            BY <2>6 DEF EndTransition, leakState, packVars, writerVars
        <3>3. HandedAt' /\ FreshAt'
            BY <2>0, <3>1, <3>2, HandFrame DEF MayCloseAt, leakState
        <3> QED BY <3>2, <3>3, LeakFrame
    <2>7. CASE \/ CheckProtected(w) \/ Unlock(w) \/ BeginTransition(w)
               \/ DrainReaders(w) \/ RecheckProtected(w) \/ MarkClosed(w)
               \/ ActivateBuild(w)
        <3>1. /\ \E label : Go(w, label)
              /\ pc[w] \notin {"clear", "closePack", "end", "swap"}
              /\ UNCHANGED leakState
            BY <2>7 DEF CheckProtected, Unlock, BeginTransition, DrainReaders,
               RecheckProtected, MarkClosed, ActivateBuild, WriterStep,
               leakState, packVars, writerVars
        <3>2. HandedAt' /\ FreshAt'
            BY <2>0, <3>1, HandFrame DEF MayCloseAt, leakState
        <3> QED BY <3>1, <3>2, LeakFrame
    <2>8. CASE \/ BlockQueries(w) \/ CloseConnections(w) \/ ReplaceDatabase(w)
               \/ AdvanceEpoch(w) \/ EndPublish(w) \/ ReplaceSources(w)
               \/ CloseEpoch(w)
        <3>1. /\ \E label : Go(w, label)
              /\ pc[w] \notin {"clear", "closePack", "end", "swap"}
              /\ UNCHANGED leakState
            BY <2>8 DEF BlockQueries, CloseConnections, ReplaceDatabase,
               AdvanceEpoch, EndPublish, ReplaceSources, CloseEpoch,
               WriterStep, leakState, packVars, writerVars
        <3>2. HandedAt' /\ FreshAt'
            BY <2>0, <3>1, HandFrame DEF MayCloseAt, leakState
        <3> QED BY <3>1, <3>2, LeakFrame
    <2> QED BY <1>2, <2>1, <2>2, <2>3, <2>4, <2>5, <2>6, <2>7, <2>8
            DEF WriterNext
<1>3. CASE Cleanup \/ UNCHANGED vars
    <2>1. UNCHANGED <<pc, op, leakState>>
        BY <1>3 DEF Cleanup, vars, leakState, packVars, writerVars
    <2>2. HandedAt' /\ FreshAt'
        BY <2>1 DEF leakState, LeakInv, HandedAt, FreshAt, MayCloseAt
    <2> QED BY <2>1, <2>2, LeakFrame
<1> QED BY <1>1, <1>2, <1>3 DEF Next

\* _retire_pack_locked, _leased_pack_snapshot and close: every open pack is
\* current, leased, about to become current or about to be closed.
THEOREM NoPackLost == Spec => []NoPackLeak
BY CoreInit, CoreStep, GateInit, GateStep, WriterInit, WriterInvStep, PackInit,
   PackStep, LeakInit, LeakStep, LeakImplied, PTL DEF Spec

---------------------------------------------------------------------------
(* What the caches and the readers' locals hold *)

\* Some lifecycle thread is at one of these steps.
At(labels) == \E w \in Writers : pc[w] \in labels

BodyPoints ==
    GuardPoints \cup {"recheck", "markClosed", "gate", "closeConnections",
                      "replaceSources", "retireAll", "end"}

\* What is in force while no transition is under way.
Current == [db |-> dbFile, pack |-> VersionOf(pack), src |-> sources]

\* From the drained queries to the new epoch nothing is pooled or cached.
Drained ==
    At({"replace", "epoch", "closeEpoch"}) =>
        idle = {} /\ rowCache = {} /\ responses = {}

\* Pooled connections, cached rows, the rows kept in memory and the path index
\* are the current database's; the last two are replaced with the epoch.
DatabaseCopies ==
    /\ idle \subseteq {dbFile}
    /\ \A c \in rowCache : c.epoch = dbEpoch /\ c.db = dbFile
    /\ ~At({"epoch"}) => /\ legacyRows \in {None, dbFile}
                         /\ memRows \in {None, dbFile}

\* No response outlives what it was computed from, except for the moment
\* between the swap of the pack and the clearing of the cache.
ResponsesCurrent ==
    ~At({"clear"}) =>
        \A c \in responses : /\ c.key[2] = dbEpoch /\ c.key[3] = packEpoch
                             /\ c.payload = Current

\* The pack in force, and the one about to be, fit their databases.
ServedCoherent == pack # None => DbOf[ver[pack]] = Served.db
FreshCoherent ==
    \A w \in Writers : fresh[w] # None => DbOf[ver[fresh[w]]] = dbFile

\* The calls answered from the response cache.
Answers(r) == op[r] \in {"lookup", "first"}

\* What a reader inside the store has read is still in force.
ReaderView(r) ==
    /\ pc[r] \in {"rows", "rowGet", "rowPut"} => op[r] \in {"lookup", "best"}
    /\ pc[r] \in {"connect", "query"} => op[r] \in {"lookup", "first", "best"}
    /\ Answers(r) /\ pc[r] \notin {"epoch", "release", "closePack", "exit"} =>
          seenDb[r] = dbEpoch
    /\ (pc[r] \in {"cacheGet", "build", "cachePut"} \/ (Answers(r) /\
        pc[r] \in {"rows", "rowGet", "connect", "query", "rowPut"})) =>
          held[r] = pack /\ seenPack[r] = packEpoch
    /\ pc[r] \in {"rowGet", "connect", "query", "rowPut"} /\ op[r] # "first" =>
          rowEpoch[r] = dbEpoch
    /\ pc[r] = "query" => conn[r] = dbFile
    /\ (pc[r] \in {"rowPut", "build"} \/ (pc[r] = "snapshot" /\ op[r] # "lookup")) =>
          rows[r] = dbFile
    /\ pc[r] = "cachePut" => out[r] = Current
ReaderViews == \A r \in Readers : InState(r) => ReaderView(r)

\* An answer exists from the moment it is computed until the call returns.
AnswersInside ==
    \A r \in Readers : out[r] # None =>
        op[r] # "lease" /\ pc[r] \in {"cachePut", "release", "closePack", "exit"}

DataInv ==
    /\ Drained /\ DatabaseCopies /\ ResponsesCurrent
    /\ ServedCoherent /\ FreshCoherent
    /\ ReaderViews /\ AnswersInside

StoreInv == CoreInv /\ GateInv /\ WriterInv /\ PackInv /\ LeakInv /\ DataInv

\* While a reader is inside, no transition changes the store.
LEMMA InsideAlone ==
    ASSUME StoreInv, NEW r \in Readers, InState(r)
    PROVE  /\ \A w \in Writers : ~InBody(w) /\ pc[w] \notin BodyPoints
           /\ Served = Current
<1>1. stateReaders - 1 \in Nat
    BY GatePositive DEF StoreInv, CoreInv
<1>2. ASSUME NEW w \in Writers PROVE ~InBody(w)
    BY <1>1 DEF StoreInv, GateInv
<1>3. ASSUME NEW w \in Writers PROVE pc[w] \notin BodyPoints
    BY <1>2 DEF InBody, OwnsGate, BodyPoints, GuardPoints
<1> QED BY <1>2, <1>3 DEF Served, Current, BodyPoints, GuardPoints

\* A thread in a transition is the only one.
LEMMA BodyAlone ==
    ASSUME StoreInv, NEW w \in Writers, pc[w] \in BodyPoints
    PROVE  /\ \A x \in Writers : x # w => pc[x] \notin BodyPoints
           /\ \A r \in Readers : ~InState(r)
<1>1. InBody(w)
    BY DEF InBody, OwnsGate, BodyPoints, GuardPoints
<1>2. ASSUME NEW x \in Writers, pc[x] \in BodyPoints PROVE x = w
    BY <1>1, <1>2 DEF StoreInv, GateInv, InBody, OwnsGate, BodyPoints
<1>3. \A r \in Readers : ~InState(r)
    BY <1>1, InsideAlone
<1> QED BY <1>2, <1>3

\* An open pack nobody is about to close keeps its version.
LEMMA VersionKept ==
    ASSUME CoreInv, NEW o \in open, \A t \in Threads : o \notin closing[t],
           [Next]_vars
    PROVE  ver'[o] = ver[o]
<1>1. /\ ver \in [Objects -> OrNone(Versions)] /\ o \in Objects
      /\ Readers \subseteq Threads /\ Writers \subseteq Threads
    BY DEF CoreInv, TypeOK, TypePacks, Threads
<1>2. ASSUME NEW t \in Threads, CloseHanded(t) PROVE ver'[o] = ver[o]
    BY <1>1, <1>2 DEF CloseHanded
<1>3. ASSUME NEW r \in Readers, ReaderNext(r) PROVE ver'[o] = ver[o]
    <2>1. CASE ReaderClosesPack(r)
        BY <1>1, <1>2, <2>1 DEF ReaderClosesPack
    <2>2. CASE LeaseAudio(r)
        BY <1>1, <2>2 DEF LeaseAudio, LeaseVersion, Unused
    <2>3. CASE ~ReaderClosesPack(r) /\ ~LeaseAudio(r)
        BY <1>3, <2>3 DEF ReaderNext, Start, EnterState, ExitState, Snapshot,
           NestedSnapshot, ReleasePack, ReadEpoch, CacheGet, RowsGate, RowGet,
           Connect, Query, RowPut, LegacyRows, Build, CachePutResponse, Local,
           packVars
    <2> QED BY <2>1, <2>2, <2>3
<1>4. ASSUME NEW w \in Writers, WriterNext(w) PROVE ver'[o] = ver[o]
    <2>1. CASE ClearResponses(w) \/ WriterClosesPacks(w)
        BY <1>1, <1>2, <2>1 DEF ClearResponses, WriterClosesPacks
    <2>2. CASE OpenActive(w)
        BY <1>1, <2>2 DEF OpenActive, Unused
    <2>3. CASE ~(ClearResponses(w) \/ WriterClosesPacks(w) \/ OpenActive(w))
        BY <1>4, <2>3 DEF WriterNext, Call, CheckProtected, Unlock,
           BeginTransition, DrainReaders, EndTransition, RecheckProtected,
           MarkClosed, BlockQueries, CloseConnections, ReplaceDatabase,
           AdvanceEpoch, SwapPack, EndPublish, ReplaceSources, CloseEpoch,
           RetireAll, ActivateBuild, packVars
    <2> QED BY <2>1, <2>2, <2>3
<1>5. CASE Cleanup \/ UNCHANGED vars
    BY <1>5 DEF Cleanup, vars, packVars
<1> QED BY <1>3, <1>4, <1>5 DEF Next

\* The current pack and a fresh one keep their versions.
LEMMA VersionsKept ==
    ASSUME CoreInv, PackInv, [Next]_vars
    PROVE  /\ pack # None => ver'[pack] = ver[pack]
           /\ \A w \in Writers : fresh[w] # None =>
                ver'[fresh[w]] = ver[fresh[w]]
<1>1. pack # None => pack \in open /\ \A t \in Threads : pack \notin closing[t]
    BY DEF PackInv, TablesOpen, HandedForgotten, InNoTable
<1>2. ASSUME NEW w \in Writers, fresh[w] # None
      PROVE  fresh[w] \in open /\ \A t \in Threads : fresh[w] \notin closing[t]
    BY <1>2 DEF PackInv, TablesOpen, HandedForgotten
<1> QED BY <1>1, <1>2, VersionKept

\* A reader changes no other reader's locals.
LEMMA OtherReaders ==
    ASSUME CoreInv, NEW r \in Readers, NEW q \in Readers, q # r, ReaderNext(r)
    PROVE  /\ pc'[q] = pc[q] /\ op'[q] = op[q] /\ held'[q] = held[q]
           /\ conn'[q] = conn[q] /\ rows'[q] = rows[q]
           /\ seenDb'[q] = seenDb[q] /\ seenPack'[q] = seenPack[q]
           /\ rowEpoch'[q] = rowEpoch[q] /\ out'[q] = out[q]
<1> USE DEF CoreInv, TypeOK, TypeThreads, TypeReaders, Threads, Go
<1>1. CASE Start(r) \/ EnterState(r) \/ ExitState(r)
    BY <1>1 DEF Start, EnterState, ExitState, readerVars
<1>2. CASE Snapshot(r) \/ NestedSnapshot(r)
    BY <1>2 DEF Snapshot, NestedSnapshot, LeasePack
<1>3. CASE LeaseAudio(r)
    <2>1. (\E o : LeasePack(r, o)) \/ UNCHANGED <<held, seenPack>>
        BY <1>3 DEF LeaseAudio, LeaseVersion
    <2> QED BY <1>3, <2>1 DEF LeaseAudio, LeasePack
<1>4. CASE ReleasePack(r) \/ ReaderClosesPack(r)
    BY <1>4 DEF ReleasePack, ReaderClosesPack, readerVars
<1>5. CASE \/ ReadEpoch(r) \/ CacheGet(r) \/ RowsGate(r) \/ RowGet(r)
    BY <1>5 DEF ReadEpoch, CacheGet, RowsGate, RowGet, Local
<1>6. CASE Connect(r) \/ Query(r) \/ RowPut(r)
    BY <1>6 DEF Connect, Query, RowPut, Local
<1>7. CASE LegacyRows(r) \/ Build(r) \/ CachePutResponse(r)
    BY <1>7 DEF LegacyRows, Build, CachePutResponse, Local
<1> QED BY <1>1, <1>2, <1>3, <1>4, <1>5, <1>6, <1>7 DEF ReaderNext

\* What is in force changes only with the database, the pack or the roots.
LEMMA CurrentKept ==
    ASSUME CoreInv, PackInv, [Next]_vars, UNCHANGED <<dbFile, pack, sources>>
    PROVE  Current' = Current
BY VersionsKept DEF Current, VersionOf

\* A reader inside stays inside, or leaves, or has just entered.
LEMMA InsideStep ==
    ASSUME CoreInv, NEW r \in Readers, ReaderNext(r), ~EnterState(r), ~Start(r),
           InState(r)'
    PROVE  InState(r)
BY InsideFrame DEF ExitState, InState, CoreInv, ReaderLocals, Go, TypeOK,
   TypeThreads, Threads

\* What a reader reads is in force, and stays so while it is inside.
LEMMA ReaderViewStep ==
    ASSUME StoreInv, NEW r \in Readers, ReaderNext(r), InState(r)'
    PROVE  ReaderView(r)'
<1>0. r \in Threads /\ CoreInv
    BY DEF Threads, StoreInv
<1>1. UNCHANGED <<dbFile, dbEpoch, memRows, pack, packEpoch>>
    BY <1>0, ReaderFrame DEF CoreInv
<1>2. Current' = Current
    BY <1>0, <1>1, ReaderFrame, CurrentKept DEF StoreInv, CoreInv, Next
<1>3. /\ held \in [Readers -> OrNone(Objects)]
      /\ conn \in [Readers -> OrNone(Nat)] /\ rows \in [Readers -> OrNone(Nat)]
      /\ seenDb \in [Readers -> Nat] /\ seenPack \in [Readers -> Nat]
      /\ rowEpoch \in [Readers -> Nat] /\ out \in [Readers -> OrNone(Payload)]
      /\ DOMAIN pc = Threads /\ DOMAIN op = Threads
    BY <1>0 DEF CoreInv, TypeOK, TypeReaders, TypeThreads
<1>4. /\ op[r] = "lease" => pc[r] \in {"lease", "release", "closePack"}
      /\ pc[r] = "lease" => op[r] = "lease"
      /\ pc[r] = "legacy" => op[r] = "path"
      /\ pc[r] \in {"epoch", "nested", "cacheGet", "cachePut"} => Answers(r)
      /\ pc[r] # "idle" => op[r] \in {"lookup", "first", "best", "path", "lease"}
    BY <1>0, StoreAssumption DEF CoreInv, ReaderLocals, Answers
<1>5. CASE Start(r)
    BY <1>0, <1>3, <1>5 DEF Start, InState
<1>6. CASE EnterState(r)
    BY <1>0, <1>3, <1>4, <1>6 DEF EnterState, Go, InState, ReaderView, Answers
<1>7. CASE ~Start(r) /\ ~EnterState(r)
    <2>1. InState(r)
        BY <1>0, <1>7, InsideStep
    <2>2. ReaderView(r)
        BY <2>1 DEF StoreInv, DataInv, ReaderViews
    <2>3. \A w \in Writers : pc[w] \notin BodyPoints
        BY <2>1, InsideAlone
    <2>4. /\ idle \subseteq {dbFile}
          /\ \A c \in rowCache : c.epoch = dbEpoch /\ c.db = dbFile
          /\ legacyRows \in {None, dbFile} /\ memRows \in {None, dbFile}
        BY <2>3 DEF StoreInv, DataInv, DatabaseCopies, At, BodyPoints,
           GuardPoints
    <2> USE <1>0, <1>1, <1>2, <1>3, <1>4, <2>1, <2>2
        DEF ReaderView, Answers, Go, Local
    <2>5. CASE ExitState(r)
        BY <2>5 DEF ExitState
    <2>6. CASE Snapshot(r)
        BY <2>6 DEF Snapshot, LeasePack
    <2>7. CASE NestedSnapshot(r)
        BY <2>7 DEF NestedSnapshot, LeasePack
    <2>8. CASE LeaseAudio(r)
        BY <2>8 DEF LeaseAudio, InState
    <2>9. CASE ReleasePack(r)
        BY <2>9 DEF ReleasePack, AfterRelease
    <2>10. CASE ReaderClosesPack(r)
        BY <2>10 DEF ReaderClosesPack, AfterRelease
    <2>11. CASE ReadEpoch(r)
        BY <2>11 DEF ReadEpoch
    <2>12. CASE CacheGet(r)
        BY <2>12 DEF CacheGet
    <2>13. CASE RowsGate(r)
        BY <2>13 DEF RowsGate
    <2>14. CASE RowGet(r)
        BY <2>4, <2>14 DEF RowGet, AfterRows
    <2>15. CASE Connect(r)
        BY <2>4, <2>15 DEF Connect, AfterQuery
    <2>16. CASE Query(r)
        BY <2>16 DEF Query, AfterQuery
    <2>17. CASE RowPut(r)
        BY <2>17 DEF RowPut, AfterRows
    <2>18. CASE LegacyRows(r)
        BY <2>4, <2>18 DEF LegacyRows
    <2>19. CASE Build(r)
        BY <2>19 DEF Build, Current
    <2>20. CASE CachePutResponse(r)
        BY <2>20 DEF CachePutResponse
    <2> QED BY <1>7, <2>5, <2>6, <2>7, <2>8, <2>9, <2>10, <2>11, <2>12, <2>13,
               <2>14, <2>15, <2>16, <2>17, <2>18, <2>19, <2>20 DEF ReaderNext
<1> QED BY <1>5, <1>6, <1>7

\* What a reader does to the caches.
LEMMA CachesReaderStep ==
    ASSUME StoreInv, NEW r \in Readers, ReaderNext(r)
    PROVE  Drained' /\ DatabaseCopies' /\ ResponsesCurrent'
<1>0. CoreInv /\ r \in Threads
    BY DEF StoreInv, Threads
<1>1. /\ UNCHANGED <<dbFile, dbEpoch, memRows, pack, packEpoch, sources>>
      /\ \A w \in Writers : pc'[w] = pc[w]
    BY <1>0, ReaderFrame DEF CoreInv
<1>2. Current' = Current
    BY <1>0, <1>1, CurrentKept DEF StoreInv, Next
<1>3. \A L : At(L)' <=> At(L)
    BY <1>1 DEF At
<1>4. CASE UNCHANGED <<idle, rowCache, responses, legacyRows>>
    BY <1>1, <1>2, <1>3, <1>4 DEF StoreInv, DataInv, Drained, DatabaseCopies,
       ResponsesCurrent
<1>5. CASE \/ Start(r) \/ EnterState(r) \/ ExitState(r) \/ Snapshot(r)
           \/ NestedSnapshot(r) \/ LeaseAudio(r) \/ ReleasePack(r)
           \/ ReaderClosesPack(r)
    BY <1>4, <1>5 DEF Start, EnterState, ExitState, Snapshot, NestedSnapshot,
       LeaseAudio, ReleasePack, ReaderClosesPack, dbVars, cacheVars
<1>6. CASE ReadEpoch(r) \/ CacheGet(r) \/ RowsGate(r) \/ RowGet(r) \/ Build(r)
    BY <1>4, <1>6 DEF ReadEpoch, CacheGet, RowsGate, RowGet, Build, dbVars,
       cacheVars
<1>7. CASE \/ Connect(r) \/ Query(r) \/ RowPut(r) \/ LegacyRows(r)
           \/ CachePutResponse(r)
    <2>1. InState(r)
        BY <1>0, <1>7, StoreAssumption DEF Connect, Query, RowPut, LegacyRows,
           CachePutResponse, InState, CoreInv, ReaderLocals
    <2>2. ~At({"epoch"}) /\ ~At({"clear"})
          /\ ~At({"replace", "epoch", "closeEpoch"})
        BY <2>1, InsideAlone DEF At, BodyPoints, GuardPoints
    <2>3. ReaderView(r)
        BY <2>1 DEF StoreInv, DataInv, ReaderViews
    <2>4. /\ idle \subseteq {dbFile}
          /\ \A c \in rowCache : c.epoch = dbEpoch /\ c.db = dbFile
          /\ legacyRows \in {None, dbFile} /\ memRows \in {None, dbFile}
        BY <2>2 DEF StoreInv, DataInv, DatabaseCopies
    <2>5. Drained'
        BY <1>3, <2>2 DEF Drained
    <2>6. idle' \subseteq {dbFile} /\ legacyRows' \in {None, dbFile}
        <3>1. CASE Connect(r)
            BY <2>4, <3>1 DEF Connect
        <3>2. CASE Query(r)
            BY <2>3, <2>4, <3>2 DEF Query, ReaderView
        <3>3. CASE RowPut(r) \/ CachePutResponse(r)
            BY <2>4, <3>3 DEF RowPut, CachePutResponse, dbVars
        <3>4. CASE LegacyRows(r)
            BY <2>4, <3>4 DEF LegacyRows
        <3> QED BY <1>7, <3>1, <3>2, <3>3, <3>4
    <2>7. \A c \in rowCache' : c.epoch = dbEpoch /\ c.db = dbFile
        <3>1. CASE RowPut(r)
            <4>1. rowEpoch[r] = dbEpoch /\ rows[r] = dbFile
                BY <2>3, <3>1, StoreAssumption DEF RowPut, ReaderView, CoreInv,
                   ReaderLocals
            <4>2. \A c \in rowCache' :
                    c \in rowCache \/ c = [epoch |-> dbEpoch, db |-> dbFile]
                BY <3>1, <4>1 DEF RowPut, CachePut
            <4> QED BY <2>4, <4>2
        <3>2. CASE rowCache' = rowCache
            BY <2>4, <3>2
        <3> QED BY <1>7, <3>1, <3>2 DEF Connect, Query, LegacyRows,
                CachePutResponse, cacheVars
    <2>8. \A c \in responses' : /\ c.key[2] = dbEpoch /\ c.key[3] = packEpoch
                                /\ c.payload = Current
        <3>0. \A c \in responses : /\ c.key[2] = dbEpoch /\ c.key[3] = packEpoch
                                   /\ c.payload = Current
            BY <2>2 DEF StoreInv, DataInv, ResponsesCurrent
        <3>1. CASE CachePutResponse(r)
            <4>1. /\ seenDb[r] = dbEpoch /\ seenPack[r] = packEpoch
                  /\ out[r] = Current
                BY <1>0, <2>3, <3>1 DEF CachePutResponse, ReaderView, Answers,
                   CoreInv, ReaderLocals
            <4>2. \A c \in responses' :
                    \/ c \in responses
                    \/ c = [key |-> <<op[r], dbEpoch, packEpoch>>,
                            payload |-> Current]
                BY <3>1, <4>1 DEF CachePutResponse, CachePut, ResponseKey
            <4> QED BY <3>0, <4>2
        <3>2. CASE responses' = responses
            BY <3>0, <3>2
        <3> QED BY <1>7, <3>1, <3>2 DEF Connect, Query, LegacyRows,
                RowPut, cacheVars
    <2>9. DatabaseCopies'
        BY <1>1, <2>4, <2>6, <2>7 DEF DatabaseCopies
    <2>10. ResponsesCurrent'
        BY <1>1, <1>2, <2>8 DEF ResponsesCurrent
    <2> QED BY <2>5, <2>9, <2>10
<1> QED BY <1>5, <1>6, <1>7 DEF ReaderNext

\* An answer appears with the response and goes with the return.
LEMMA AnswersReaderStep ==
    ASSUME StoreInv, NEW r \in Readers, ReaderNext(r) PROVE AnswersInside'
<1>0. CoreInv /\ r \in Threads
    BY DEF StoreInv, Threads
<1>1. ASSUME NEW q \in Readers, q # r, out'[q] # None
      PROVE  /\ op'[q] # "lease"
             /\ pc'[q] \in {"cachePut", "release", "closePack", "exit"}
    BY <1>0, <1>1, OtherReaders DEF StoreInv, DataInv, AnswersInside
<1>2. ASSUME out'[r] # None
      PROVE  /\ op'[r] # "lease"
             /\ pc'[r] \in {"cachePut", "release", "closePack", "exit"}
    <2>1. /\ out \in [Readers -> OrNone(Payload)]
          /\ DOMAIN pc = Threads /\ DOMAIN op = Threads
          /\ out[r] # None =>
                /\ op[r] # "lease"
                /\ pc[r] \in {"cachePut", "release", "closePack", "exit"}
          /\ op[r] = "lease" => pc[r] \in {"lease", "release", "closePack"}
        BY <1>0 DEF CoreInv, TypeOK, TypeReaders, TypeThreads, StoreInv,
           DataInv, AnswersInside, ReaderLocals
    <2> USE <1>0, <1>2, <2>1 DEF Go
    <2>2. CASE Start(r) \/ EnterState(r) \/ ExitState(r)
        BY <2>2 DEF Start, EnterState, ExitState, readerVars
    <2>3. CASE Snapshot(r) \/ NestedSnapshot(r) \/ LeaseAudio(r)
        BY <2>3 DEF Snapshot, NestedSnapshot, LeaseAudio
    <2>4. CASE ReleasePack(r) \/ ReaderClosesPack(r)
        BY <2>4 DEF ReleasePack, ReaderClosesPack, AfterRelease, readerVars
    <2>5. CASE ReadEpoch(r) \/ CacheGet(r) \/ RowsGate(r) \/ RowGet(r)
        BY <2>5 DEF ReadEpoch, CacheGet, RowsGate, RowGet, Local
    <2>6. CASE Connect(r) \/ Query(r) \/ RowPut(r) \/ LegacyRows(r)
        BY <2>6 DEF Connect, Query, RowPut, LegacyRows, Local
    <2>7. CASE Build(r) \/ CachePutResponse(r)
        BY <2>7 DEF Build, CachePutResponse, Local
    <2> QED BY <2>2, <2>3, <2>4, <2>5, <2>6, <2>7 DEF ReaderNext
<1> QED BY <1>1, <1>2 DEF AnswersInside

\* A reader changes nothing that is served.
LEMMA ServedReaderStep ==
    ASSUME StoreInv, NEW r \in Readers, ReaderNext(r)
    PROVE  Served' = Served /\ ServedCoherent' /\ FreshCoherent'
<1>1. /\ UNCHANGED <<dbFile, pack, sources, fresh>>
      /\ \A w \in Writers : pc'[w] = pc[w] /\ op'[w] = op[w]
    BY ReaderFrame DEF StoreInv, CoreInv, writerVars
<1>2. /\ pack # None => ver'[pack] = ver[pack]
      /\ \A w \in Writers : fresh[w] # None => ver'[fresh[w]] = ver[fresh[w]]
    BY VersionsKept DEF StoreInv, Next
<1>3. Served' = Served
    BY <1>1, <1>2 DEF Served, VersionOf
<1>4. ServedCoherent'
    BY <1>1, <1>2, <1>3 DEF StoreInv, DataInv, ServedCoherent
<1>5. FreshCoherent'
    BY <1>1, <1>2 DEF StoreInv, DataInv, FreshCoherent
<1> QED BY <1>3, <1>4, <1>5

\* A step of a reader.
LEMMA DataReaderStep ==
    ASSUME StoreInv, NEW r \in Readers, ReaderNext(r) PROVE DataInv'
<1>1. ASSUME NEW q \in Readers, q # r, InState(q)' PROVE ReaderView(q)'
    <2>1. CoreInv
        BY DEF StoreInv
    <2>2. /\ pc'[q] = pc[q] /\ op'[q] = op[q] /\ held'[q] = held[q]
          /\ conn'[q] = conn[q] /\ rows'[q] = rows[q]
          /\ seenDb'[q] = seenDb[q] /\ seenPack'[q] = seenPack[q]
          /\ rowEpoch'[q] = rowEpoch[q] /\ out'[q] = out[q]
        BY <1>1, <2>1, OtherReaders
    <2>3. UNCHANGED <<dbFile, dbEpoch, pack, packEpoch, sources>>
        BY <2>1, ReaderFrame DEF CoreInv
    <2>4. Current' = Current
        BY <2>1, <2>3, CurrentKept DEF StoreInv, Next
    <2>5. ReaderView(q)
        BY <1>1, <2>2 DEF StoreInv, DataInv, ReaderViews, InState
    <2> QED BY <2>2, <2>3, <2>4, <2>5 DEF ReaderView, Answers
<1>2. ReaderViews'
    BY <1>1, ReaderViewStep DEF ReaderViews
<1> QED BY <1>2, CachesReaderStep, AnswersReaderStep, ServedReaderStep
        DEF DataInv

\* A lifecycle thread outside a transition's body touches none of this.
LEMMA QuietWriterStep ==
    ASSUME StoreInv, NEW w \in Writers, WriterNext(w), pc[w] \notin BodyPoints
    PROVE  DataInv' /\ Served' = Served /\ UNCHANGED closed
<1>0. /\ CoreInv /\ w \in Threads /\ DOMAIN pc = Threads /\ DOMAIN op = Threads
      /\ Writers \subseteq Threads
    BY DEF StoreInv, CoreInv, TypeOK, TypeThreads, Threads
<1>1. \/ Call(w) \/ CheckProtected(w) \/ Unlock(w) \/ BeginTransition(w)
      \/ DrainReaders(w) \/ WriterClosesPacks(w) \/ ActivateBuild(w)
    BY DEF WriterNext, EndTransition, RecheckProtected, MarkClosed,
       BlockQueries, CloseConnections, ReplaceDatabase, AdvanceEpoch,
       OpenActive, SwapPack, ClearResponses, EndPublish, ReplaceSources,
       CloseEpoch, RetireAll, BodyPoints, GuardPoints
<1>2. UNCHANGED <<dbVars, pack, packEpoch, cacheVars, fresh, closed>>
    BY <1>1 DEF Call, CheckProtected, Unlock, BeginTransition, DrainReaders,
       WriterClosesPacks, ActivateBuild, packVars, writerVars, gateVars
<1>3. /\ pc'[w] \notin {"replace", "epoch", "closeEpoch", "clear"}
      /\ op'[w] = "publish" => pc'[w] \notin {"epoch", "open", "swap"}
      /\ \A x \in Writers : x # w => pc'[x] = pc[x] /\ op'[x] = op[x]
    <2>1. CASE Call(w)
        BY <1>0, <2>1 DEF Call
    <2>2. CASE DrainReaders(w)
        BY <1>0, <2>2 DEF DrainReaders, WriterStep, Go
    <2>3. CASE CheckProtected(w) \/ Unlock(w) \/ BeginTransition(w)
        BY <1>0, <2>3 DEF CheckProtected, Unlock, BeginTransition, WriterStep, Go
    <2>4. CASE WriterClosesPacks(w) \/ ActivateBuild(w)
        BY <1>0, <2>4 DEF WriterClosesPacks, ActivateBuild, WriterStep, Go
    <2> QED BY <1>1, <2>1, <2>2, <2>3, <2>4
<1>4. pc[w] \notin {"replace", "epoch", "closeEpoch", "clear", "open", "swap"}
    BY DEF BodyPoints, GuardPoints
<1>5. /\ pack # None => ver'[pack] = ver[pack]
      /\ \A x \in Writers : fresh[x] # None => ver'[fresh[x]] = ver[fresh[x]]
    BY VersionsKept DEF StoreInv, Next
<1>6. Current' = Current
    BY <1>2, CurrentKept DEF StoreInv, Next, dbVars, cacheVars
<1>7. Served' = Served
    BY <1>2, <1>3, <1>4, <1>5 DEF Served, VersionOf, dbVars, cacheVars
<1>8. /\ At({"replace", "epoch", "closeEpoch"})' <=>
            At({"replace", "epoch", "closeEpoch"})
      /\ At({"epoch"})' <=> At({"epoch"})
      /\ At({"clear"})' <=> At({"clear"})
    BY <1>3, <1>4 DEF At
<1>9. Drained' /\ DatabaseCopies' /\ ResponsesCurrent'
    BY <1>2, <1>6, <1>8 DEF StoreInv, DataInv, Drained, DatabaseCopies,
       ResponsesCurrent, dbVars, cacheVars
<1>10. ServedCoherent' /\ FreshCoherent'
    BY <1>2, <1>5, <1>7 DEF StoreInv, DataInv, ServedCoherent, FreshCoherent,
       dbVars
<1>11. ReaderViews' /\ AnswersInside'
    <2>1. /\ UNCHANGED readerVars
          /\ \A r \in Readers : pc'[r] = pc[r] /\ op'[r] = op[r]
        BY <1>0, WriterFrame DEF CoreInv
    <2> QED BY <1>2, <1>6, <2>1 DEF StoreInv, DataInv, ReaderViews, ReaderView,
            Answers, InState, AnswersInside, readerVars, dbVars
<1> QED BY <1>2, <1>7, <1>9, <1>10, <1>11 DEF DataInv

\* In the body of a transition only w counts, and no reader is inside.
LEMMA BodyFrame ==
    ASSUME StoreInv, NEW w \in Writers, WriterNext(w), pc[w] \in BodyPoints
    PROVE  /\ \A L \in SUBSET BodyPoints : /\ At(L) <=> pc[w] \in L
                                           /\ At(L)' <=> pc'[w] \in L
           /\ Served = [db |-> IF op[w] = "publish"
                                  /\ pc[w] \in {"epoch", "open", "swap"}
                               THEN dbFile - 1 ELSE dbFile,
                        pack |-> VersionOf(pack), src |-> sources]
           /\ Served' = [db |-> IF op'[w] = "publish"
                                   /\ pc'[w] \in {"epoch", "open", "swap"}
                                THEN dbFile' - 1 ELSE dbFile',
                         pack |-> VersionOf(pack)', src |-> sources']
           /\ ReaderViews' /\ AnswersInside'
           /\ \A x \in Writers : x # w => pc'[x] = pc[x] /\ op'[x] = op[x]
<1>0. CoreInv
    BY DEF StoreInv
<1>1. /\ \A x \in Writers : x # w => pc[x] \notin BodyPoints
      /\ \A r \in Readers : ~InState(r)
    BY BodyAlone
<1>2. \A x \in Writers : x # w => pc'[x] = pc[x] /\ op'[x] = op[x]
    <2>1. /\ DOMAIN pc = Threads /\ DOMAIN op = Threads
          /\ Writers \subseteq Threads
        BY <1>0 DEF CoreInv, TypeOK, TypeThreads, Threads
    <2>2. CASE Call(w)
        BY <2>1, <2>2 DEF Call
    <2>3. CASE ~Call(w)
        <3>1. \E label : Go(w, label)
            BY <2>3 DEF WriterNext, CheckProtected, Unlock, BeginTransition,
               DrainReaders, EndTransition, RecheckProtected, MarkClosed,
               BlockQueries, CloseConnections, ReplaceDatabase, AdvanceEpoch,
               OpenActive, SwapPack, ClearResponses, EndPublish,
               ReplaceSources, CloseEpoch, RetireAll, WriterClosesPacks,
               ActivateBuild, WriterStep
        <3> QED BY <2>1, <3>1 DEF Go
    <2> QED BY <2>2, <2>3
<1>3. \A L \in SUBSET BodyPoints : /\ At(L) <=> pc[w] \in L
                                   /\ At(L)' <=> pc'[w] \in L
    BY <1>1, <1>2 DEF At
<1>4. {"epoch", "open", "swap"} \subseteq BodyPoints
    BY DEF BodyPoints, GuardPoints
<1>5. /\ UNCHANGED readerVars
      /\ \A r \in Readers : pc'[r] = pc[r] /\ op'[r] = op[r]
    BY <1>0, WriterFrame DEF CoreInv
<1>6. ReaderViews'
    BY <1>1, <1>5 DEF ReaderViews, InState
<1>7. AnswersInside'
    BY <1>5 DEF StoreInv, DataInv, AnswersInside, readerVars
<1>8. Served = [db |-> IF op[w] = "publish"
                          /\ pc[w] \in {"epoch", "open", "swap"}
                       THEN dbFile - 1 ELSE dbFile,
                pack |-> VersionOf(pack), src |-> sources]
    BY <1>1, <1>4 DEF Served
<1>9. Served' = [db |-> IF op'[w] = "publish"
                           /\ pc'[w] \in {"epoch", "open", "swap"}
                        THEN dbFile' - 1 ELSE dbFile',
                 pack |-> VersionOf(pack)', src |-> sources']
    BY <1>1, <1>2, <1>4 DEF Served
<1> QED BY <1>2, <1>3, <1>6, <1>7, <1>8, <1>9

\* What a step of a transition's body leaves true.
BodyKeeps ==
    /\ Drained' /\ DatabaseCopies' /\ ResponsesCurrent'
    /\ ServedCoherent' /\ FreshCoherent'
    /\ Served'.db >= Served.db /\ Served'.src >= Served.src

\* Steps that touch neither the database, the pack, the sources nor a cache.
LEMMA BodyQuiet ==
    ASSUME StoreInv, NEW w \in Writers, WriterNext(w), pc[w] \in BodyPoints,
           \/ RecheckProtected(w) \/ MarkClosed(w) \/ BlockQueries(w)
           \/ EndPublish(w) \/ EndTransition(w)
    PROVE  BodyKeeps /\ Served' = Served
<1>1. /\ UNCHANGED <<dbFile, dbEpoch, idle, memRows, legacyRows, pack,
                    packEpoch, cacheVars, fresh>>
      /\ pc[w] \in {"recheck", "markClosed", "gate", "endPublish", "end"}
    BY DEF RecheckProtected, MarkClosed, BlockQueries, EndPublish,
       EndTransition, dbVars, packVars, writerVars
<1>2. pc'[w] \in {"end", "gate", "closeConnections", "closePack", "unlock", "idle"}
    <2>1. w \in DOMAIN pc /\ (op[w] = "close" => buildLock # w)
        BY DEF StoreInv, CoreInv, TypeOK, TypeThreads, Threads, WriterInv,
           LocksHeld
    <2> QED BY <2>1 DEF RecheckProtected, MarkClosed, BlockQueries, EndPublish,
            EndTransition, WriterStep, Go
<1>3. /\ pack # None => ver'[pack] = ver[pack]
      /\ \A x \in Writers : fresh[x] # None => ver'[fresh[x]] = ver[fresh[x]]
    BY VersionsKept DEF StoreInv, Next
<1>4. Served' = Served
    BY <1>1, <1>2, <1>3, BodyFrame DEF VersionOf, cacheVars
<1>5. Current' = Current
    BY <1>1, CurrentKept DEF StoreInv, Next, cacheVars
<1>6. /\ At({"replace", "epoch", "closeEpoch"})' <=>
            At({"replace", "epoch", "closeEpoch"})
      /\ At({"epoch"})' <=> At({"epoch"})
      /\ At({"clear"})' <=> At({"clear"})
    BY <1>1, <1>2, BodyFrame DEF BodyPoints, GuardPoints
<1>7. Drained' /\ DatabaseCopies' /\ ResponsesCurrent'
    BY <1>1, <1>5, <1>6 DEF StoreInv, DataInv, Drained, DatabaseCopies,
       ResponsesCurrent, cacheVars
<1>8. ServedCoherent' /\ FreshCoherent'
    BY <1>1, <1>3, <1>4 DEF StoreInv, DataInv, ServedCoherent, FreshCoherent
<1>9. Served.db \in Int /\ Served.src \in Int
    BY DEF StoreInv, CoreInv, TypeOK, TypeDb, TypeCaches, Served
<1> QED BY <1>4, <1>7, <1>8, <1>9 DEF BodyKeeps

\* The steps that change something, one by one.  Facts about each of them.
LEMMA BodyFacts ==
    ASSUME StoreInv, NEW w \in Writers, WriterNext(w), pc[w] \in BodyPoints
    PROVE  /\ At({"replace", "epoch", "closeEpoch"})' <=>
                pc'[w] \in {"replace", "epoch", "closeEpoch"}
           /\ At({"replace", "epoch", "closeEpoch"}) <=>
                pc[w] \in {"replace", "epoch", "closeEpoch"}
           /\ At({"epoch"})' <=> pc'[w] = "epoch"
           /\ At({"epoch"}) <=> pc[w] = "epoch"
           /\ At({"clear"})' <=> pc'[w] = "clear"
           /\ At({"clear"}) <=> pc[w] = "clear"
           /\ w \in Threads /\ DOMAIN pc = Threads /\ DOMAIN op = Threads
           /\ dbFile \in Nat /\ sources \in Nat /\ dbEpoch \in Nat
           /\ packEpoch \in Nat
           /\ pack # None => ver'[pack] = ver[pack]
           /\ \A x \in Writers : fresh[x] # None =>
                 ver'[fresh[x]] = ver[fresh[x]]
           /\ \A x \in Writers : fresh[x] # None => x = w /\ pc[w] = "swap"
<1>1. /\ w \in Threads /\ DOMAIN pc = Threads /\ DOMAIN op = Threads
      /\ dbFile \in Nat /\ sources \in Nat /\ dbEpoch \in Nat
      /\ packEpoch \in Nat
    BY DEF StoreInv, CoreInv, TypeOK, TypeThreads, TypeDb, TypePacks,
       TypeCaches, Threads
<1>2. /\ pack # None => ver'[pack] = ver[pack]
      /\ \A x \in Writers : fresh[x] # None => ver'[fresh[x]] = ver[fresh[x]]
    BY VersionsKept DEF StoreInv, Next
<1>3. \A x \in Writers : fresh[x] # None => x = w /\ pc[w] = "swap"
    BY BodyAlone DEF StoreInv, LeakInv, FreshAt, BodyPoints, GuardPoints
<1>4. /\ {"replace", "epoch", "closeEpoch"} \in SUBSET BodyPoints
      /\ {"epoch"} \in SUBSET BodyPoints /\ {"clear"} \in SUBSET BodyPoints
    BY DEF BodyPoints, GuardPoints
<1> QED BY <1>1, <1>2, <1>3, <1>4, BodyFrame

\* The pool and the caches are emptied.
LEMMA CloseConnectionsKeeps ==
    ASSUME StoreInv, NEW w \in Writers, CloseConnections(w) PROVE BodyKeeps
<1>1. WriterNext(w) /\ pc[w] = "closeConnections" /\ pc[w] \in BodyPoints
    BY DEF WriterNext, CloseConnections, BodyPoints, GuardPoints
<1>2. /\ UNCHANGED <<dbFile, dbEpoch, memRows, legacyRows, pack, packEpoch,
                    sources, fresh>>
      /\ idle' = {} /\ rowCache' = {} /\ responses' = {}
    BY DEF CloseConnections, packVars, writerVars
<1>3. pc'[w] \in {"replace", "epoch", "closeEpoch"} /\ op' = op
      /\ (pc'[w] = "epoch" => op[w] = "invalidate")
    BY <1>1, BodyFacts DEF CloseConnections, WriterStep, Go, StoreInv,
       WriterInv, WriterProgram, CoreInv, TypeOK, TypeThreads
<1>4. Served' = Served
    BY <1>1, <1>2, <1>3, BodyFacts, BodyFrame DEF VersionOf
<1>5. Drained' /\ DatabaseCopies' /\ ResponsesCurrent'
    BY <1>1, <1>2, BodyFacts DEF StoreInv, DataInv, Drained, DatabaseCopies,
       ResponsesCurrent
<1>6. ServedCoherent' /\ FreshCoherent'
    BY <1>1, <1>2, <1>4, BodyFacts
       DEF StoreInv, DataInv, ServedCoherent, FreshCoherent
<1>7. Served.db \in Int /\ Served.src \in Int
    BY <1>1, BodyFacts DEF Served
<1> QED BY <1>4, <1>5, <1>6, <1>7 DEF BodyKeeps

\* The file is replaced; the old database is served until the swap.
LEMMA ReplaceDatabaseKeeps ==
    ASSUME StoreInv, NEW w \in Writers, ReplaceDatabase(w) PROVE BodyKeeps
<1>1. WriterNext(w) /\ pc[w] = "replace" /\ pc[w] \in BodyPoints
    BY DEF WriterNext, ReplaceDatabase, BodyPoints, GuardPoints
<1>2. UNCHANGED <<dbEpoch, idle, memRows, legacyRows, pack, packEpoch,
                 cacheVars, fresh>>
    BY DEF ReplaceDatabase, packVars, writerVars
<1>3. /\ op[w] = "publish" /\ op' = op
      /\ \/ dbFile' = dbFile + 1 /\ pc'[w] = "epoch"
         \/ dbFile' = dbFile /\ pc'[w] = "endPublish"
    BY <1>1, BodyFacts DEF ReplaceDatabase, WriterStep, Go, StoreInv,
       WriterInv, WriterProgram, CoreInv, TypeOK, TypeThreads
<1>4. idle = {} /\ rowCache = {} /\ responses = {}
    BY <1>1, BodyFacts DEF StoreInv, DataInv, Drained
<1>5. Served' = Served /\ Served.db = dbFile
    BY <1>1, <1>2, <1>3, BodyFacts, BodyFrame DEF VersionOf, cacheVars
<1>6. Drained' /\ DatabaseCopies' /\ ResponsesCurrent'
    BY <1>1, <1>2, <1>3, <1>4, BodyFacts DEF StoreInv, DataInv, Drained,
       DatabaseCopies, ResponsesCurrent, cacheVars
<1>7. ServedCoherent' /\ FreshCoherent'
    BY <1>1, <1>2, <1>5, BodyFacts
       DEF StoreInv, DataInv, ServedCoherent, FreshCoherent
<1>8. Served.db \in Int /\ Served.src \in Int
    BY <1>1, BodyFacts DEF Served
<1> QED BY <1>5, <1>6, <1>7, <1>8 DEF BodyKeeps

\* The rows in memory and the path index are renewed or dropped.
LEMMA AdvanceEpochKeeps ==
    ASSUME StoreInv, NEW w \in Writers, AdvanceEpoch(w) PROVE BodyKeeps
<1>1. WriterNext(w) /\ pc[w] = "epoch" /\ pc[w] \in BodyPoints
    BY DEF WriterNext, AdvanceEpoch, BodyPoints, GuardPoints
<1>2. /\ UNCHANGED <<dbFile, idle, pack, packEpoch, sources, fresh>>
      /\ memRows' \in {dbFile, None} /\ legacyRows' = None
      /\ rowCache' = {} /\ responses' = {}
    BY DEF AdvanceEpoch, packVars, writerVars
<1>3. pc'[w] = "open" /\ op' = op
    BY <1>1, BodyFacts DEF AdvanceEpoch, WriterStep, Go, StoreInv, CoreInv,
       TypeOK, TypeThreads
<1>4. Served' = Served
    BY <1>1, <1>2, <1>3, BodyFacts, BodyFrame DEF VersionOf
<1>5. Drained' /\ DatabaseCopies' /\ ResponsesCurrent'
    BY <1>1, <1>2, <1>3, BodyFacts DEF StoreInv, DataInv, Drained,
       DatabaseCopies, ResponsesCurrent
<1>6. ServedCoherent' /\ FreshCoherent'
    BY <1>1, <1>2, <1>4, BodyFacts
       DEF StoreInv, DataInv, ServedCoherent, FreshCoherent
<1>7. Served.db \in Int /\ Served.src \in Int
    BY <1>1, BodyFacts DEF Served
<1> QED BY <1>4, <1>5, <1>6, <1>7 DEF BodyKeeps

\* The pack about to be served fits the database in place.
LEMMA OpenActiveKeeps ==
    ASSUME StoreInv, NEW w \in Writers, OpenActive(w) PROVE BodyKeeps
<1>1. WriterNext(w) /\ pc[w] = "open" /\ pc[w] \in BodyPoints
    BY DEF WriterNext, OpenActive, BodyPoints, GuardPoints
<1>2. UNCHANGED <<dbVars, pack, packEpoch, cacheVars>>
    BY DEF OpenActive
<1>3. pc'[w] = "swap" /\ op' = op
    BY <1>1, BodyFacts DEF OpenActive, WriterStep, Go, StoreInv, CoreInv,
       TypeOK, TypeThreads
<1>4. Served' = Served
    BY <1>1, <1>2, <1>3, BodyFacts, BodyFrame DEF VersionOf, dbVars, cacheVars
<1>5. Current' = Current
    BY <1>1, <1>2, CurrentKept DEF StoreInv, Next, dbVars, cacheVars
<1>6. Drained' /\ DatabaseCopies' /\ ResponsesCurrent'
    BY <1>1, <1>2, <1>3, <1>5, BodyFacts DEF StoreInv, DataInv, Drained,
       DatabaseCopies, ResponsesCurrent, dbVars, cacheVars
<1>7. ServedCoherent'
    BY <1>1, <1>2, <1>4, BodyFacts DEF StoreInv, DataInv, ServedCoherent
<1>8. FreshCoherent'
    <2>1. CASE UNCHANGED fresh
        BY <1>1, <2>1, BodyFacts DEF FreshCoherent
    <2>2. ASSUME NEW o \in Objects, ActivePack # None,
                 ver' = [ver EXCEPT ![o] = ActivePack],
                 fresh' = [fresh EXCEPT ![w] = o]
          PROVE  FreshCoherent'
        <3>1. DbOf[ActivePack] = dbFile
            BY <2>2 DEF ActivePack
        <3>2. o \in DOMAIN ver /\ DOMAIN fresh = Writers
            BY DEF StoreInv, CoreInv, TypeOK, TypePacks, TypeWriters
        <3> QED BY <1>1, <1>2, <2>2, <3>1, <3>2, BodyFacts
                DEF FreshCoherent, dbVars
    <2> QED BY <2>1, <2>2 DEF OpenActive
<1>9. Served.db \in Int /\ Served.src \in Int
    BY <1>1, BodyFacts DEF Served
<1> QED BY <1>4, <1>6, <1>7, <1>8, <1>9 DEF BodyKeeps

\* The publication takes effect.
LEMMA SwapPackKeeps ==
    ASSUME StoreInv, NEW w \in Writers, SwapPack(w) PROVE BodyKeeps
<1>1. WriterNext(w) /\ pc[w] = "swap" /\ pc[w] \in BodyPoints
    BY DEF WriterNext, SwapPack, BodyPoints, GuardPoints
<1>2. /\ UNCHANGED <<dbVars, ver, cacheVars>>
      /\ pack' = fresh[w] /\ fresh' = [fresh EXCEPT ![w] = None]
    BY DEF SwapPack
<1>3. pc'[w] = "clear" /\ op' = op
    BY <1>1, BodyFacts DEF SwapPack, WriterStep, Go, StoreInv, CoreInv,
       TypeOK, TypeThreads
<1>4. Served'.db = dbFile /\ Served'.src = sources
    BY <1>1, <1>2, <1>3, BodyFrame DEF dbVars, cacheVars
<1>5. Drained' /\ DatabaseCopies' /\ ResponsesCurrent'
    BY <1>1, <1>2, <1>3, BodyFacts DEF StoreInv, DataInv, Drained,
       DatabaseCopies, ResponsesCurrent, dbVars, cacheVars
<1>6. ServedCoherent'
    BY <1>1, <1>2, <1>4 DEF StoreInv, DataInv, ServedCoherent, FreshCoherent
<1>7. FreshCoherent'
    BY <1>1, <1>2, BodyFacts DEF StoreInv, CoreInv, TypeOK, TypeWriters,
       FreshCoherent
<1>8. Served.db \in Int /\ Served.src = sources /\ Served.db <= dbFile
    BY <1>1, BodyFacts DEF Served
<1> QED BY <1>1, <1>4, <1>5, <1>6, <1>7, <1>8, BodyFacts DEF BodyKeeps

\* The responses computed with the old pack go.
LEMMA ClearResponsesKeeps ==
    ASSUME StoreInv, NEW w \in Writers, ClearResponses(w) PROVE BodyKeeps
<1>1. WriterNext(w) /\ pc[w] = "clear" /\ pc[w] \in BodyPoints
    BY DEF WriterNext, ClearResponses, BodyPoints, GuardPoints
<1>2. /\ UNCHANGED <<dbVars, pack, packEpoch, rowCache, sources, fresh>>
      /\ responses' = {}
    BY DEF ClearResponses, writerVars
<1>3. pc'[w] \in {"endPublish", "end"} /\ op' = op
    BY <1>1, BodyFacts DEF ClearResponses, WriterStep, Go, StoreInv, CoreInv,
       TypeOK, TypeThreads
<1>4. Served' = Served
    BY <1>1, <1>2, <1>3, BodyFacts, BodyFrame DEF VersionOf, dbVars
<1>5. Drained' /\ DatabaseCopies' /\ ResponsesCurrent'
    BY <1>1, <1>2, <1>3, BodyFacts DEF StoreInv, DataInv, Drained,
       DatabaseCopies, ResponsesCurrent, dbVars
<1>6. ServedCoherent' /\ FreshCoherent'
    BY <1>1, <1>2, <1>4, BodyFacts
       DEF StoreInv, DataInv, ServedCoherent, FreshCoherent, dbVars
<1>7. Served.db \in Int /\ Served.src \in Int
    BY <1>1, BodyFacts DEF Served
<1> QED BY <1>4, <1>5, <1>6, <1>7 DEF BodyKeeps

\* The new source roots take effect with the responses dropped.
LEMMA ReplaceSourcesKeeps ==
    ASSUME StoreInv, NEW w \in Writers, ReplaceSources(w) PROVE BodyKeeps
<1>1. WriterNext(w) /\ pc[w] = "replaceSources" /\ pc[w] \in BodyPoints
    BY DEF WriterNext, ReplaceSources, BodyPoints, GuardPoints
<1>2. /\ UNCHANGED <<dbFile, dbEpoch, idle, memRows, pack, packEpoch,
                    rowCache, fresh>>
      /\ responses' = {} /\ legacyRows' = None /\ sources' = sources + 1
    BY DEF ReplaceSources, packVars, writerVars
<1>3. pc'[w] = "end" /\ op' = op
    BY <1>1, BodyFacts DEF ReplaceSources, WriterStep, Go, StoreInv, CoreInv,
       TypeOK, TypeThreads
<1>4. /\ Served'.db = dbFile /\ Served'.src = sources + 1
      /\ Served.db = dbFile /\ Served.src = sources
    BY <1>1, <1>2, <1>3, BodyFrame
<1>5. Drained' /\ DatabaseCopies' /\ ResponsesCurrent'
    BY <1>1, <1>2, <1>3, BodyFacts DEF StoreInv, DataInv, Drained,
       DatabaseCopies, ResponsesCurrent
<1>6. ServedCoherent' /\ FreshCoherent'
    BY <1>1, <1>2, <1>4, BodyFacts
       DEF StoreInv, DataInv, ServedCoherent, FreshCoherent
<1> QED BY <1>1, <1>4, <1>5, <1>6, BodyFacts DEF BodyKeeps

\* A closing store drops its rows.
LEMMA CloseEpochKeeps ==
    ASSUME StoreInv, NEW w \in Writers, CloseEpoch(w) PROVE BodyKeeps
<1>1. WriterNext(w) /\ pc[w] = "closeEpoch" /\ pc[w] \in BodyPoints
    BY DEF WriterNext, CloseEpoch, BodyPoints, GuardPoints
<1>2. /\ UNCHANGED <<dbFile, idle, pack, packEpoch, cacheVars, fresh>>
      /\ memRows' = None /\ legacyRows' = None
    BY DEF CloseEpoch, packVars, writerVars
<1>3. pc'[w] = "retireAll" /\ op' = op
    BY <1>1, BodyFacts DEF CloseEpoch, WriterStep, Go, StoreInv, CoreInv,
       TypeOK, TypeThreads
<1>4. idle = {} /\ rowCache = {} /\ responses = {}
    BY <1>1, BodyFacts DEF StoreInv, DataInv, Drained
<1>5. Served' = Served
    BY <1>1, <1>2, <1>3, BodyFacts, BodyFrame DEF VersionOf, cacheVars
<1>6. Drained' /\ DatabaseCopies' /\ ResponsesCurrent'
    BY <1>1, <1>2, <1>3, <1>4, BodyFacts DEF StoreInv, DataInv, Drained,
       DatabaseCopies, ResponsesCurrent, cacheVars
<1>7. ServedCoherent' /\ FreshCoherent'
    BY <1>1, <1>2, <1>5, BodyFacts
       DEF StoreInv, DataInv, ServedCoherent, FreshCoherent
<1>8. Served.db \in Int /\ Served.src \in Int
    BY <1>1, BodyFacts DEF Served
<1> QED BY <1>5, <1>6, <1>7, <1>8 DEF BodyKeeps

\* A closing store serves no pack.
LEMMA RetireAllKeeps ==
    ASSUME StoreInv, NEW w \in Writers, RetireAll(w) PROVE BodyKeeps
<1>1. WriterNext(w) /\ pc[w] = "retireAll" /\ pc[w] \in BodyPoints
    BY DEF WriterNext, RetireAll, BodyPoints, GuardPoints
<1>2. /\ UNCHANGED <<dbVars, sources, fresh>> /\ pack' = None
      /\ rowCache' = {} /\ responses' = {}
    BY DEF RetireAll, writerVars
<1>3. pc'[w] = "end" /\ op' = op
    BY <1>1, BodyFacts DEF RetireAll, WriterStep, Go, StoreInv, CoreInv,
       TypeOK, TypeThreads
<1>4. /\ Served'.db = dbFile /\ Served'.src = sources
      /\ Served.db = dbFile /\ Served.src = sources
    BY <1>1, <1>2, <1>3, BodyFrame DEF dbVars
<1>5. Drained' /\ DatabaseCopies' /\ ResponsesCurrent'
    BY <1>1, <1>2, <1>3, BodyFacts DEF StoreInv, DataInv, Drained,
       DatabaseCopies, ResponsesCurrent, dbVars
<1>6. ServedCoherent' /\ FreshCoherent'
    BY <1>1, <1>2, BodyFacts
       DEF StoreInv, DataInv, ServedCoherent, FreshCoherent, dbVars
<1> QED BY <1>1, <1>4, <1>5, <1>6, BodyFacts DEF BodyKeeps

\* Every step of a transition.
LEMMA BodyStep ==
    ASSUME StoreInv, NEW w \in Writers, WriterNext(w), pc[w] \in BodyPoints
    PROVE  BodyKeeps
<1>1. CASE \/ RecheckProtected(w) \/ MarkClosed(w) \/ BlockQueries(w)
           \/ EndPublish(w) \/ EndTransition(w)
    BY <1>1, BodyQuiet
<1>2. CASE \/ CloseConnections(w) \/ ReplaceDatabase(w) \/ AdvanceEpoch(w)
           \/ OpenActive(w) \/ SwapPack(w) \/ ClearResponses(w)
           \/ ReplaceSources(w) \/ CloseEpoch(w) \/ RetireAll(w)
    BY <1>2, CloseConnectionsKeeps, ReplaceDatabaseKeeps, AdvanceEpochKeeps,
       OpenActiveKeeps, SwapPackKeeps, ClearResponsesKeeps,
       ReplaceSourcesKeeps, CloseEpochKeeps, RetireAllKeeps
<1>3. CASE \/ Call(w) \/ CheckProtected(w) \/ Unlock(w) \/ BeginTransition(w)
           \/ DrainReaders(w) \/ WriterClosesPacks(w) \/ ActivateBuild(w)
    BY <1>3 DEF Call, CheckProtected, Unlock, BeginTransition, DrainReaders,
       WriterClosesPacks, ActivateBuild, BodyPoints, GuardPoints
<1> QED BY <1>1, <1>2, <1>3 DEF WriterNext

\* The constructor opens a pack only for the database it found.
LEMMA DataInit == Init => DataInv
<1> SUFFICES ASSUME Init PROVE DataInv
    OBVIOUS
<1> USE StoreAssumption DEF Init, Threads
<1>1. Drained /\ ResponsesCurrent /\ FreshCoherent /\ ReaderViews
      /\ AnswersInside
    BY DEF Drained, At, ResponsesCurrent, FreshCoherent, ReaderViews, InState,
       AnswersInside
<1>2. DatabaseCopies
    BY DEF DatabaseCopies
<1>3. ServedCoherent
    BY DEF ServedCoherent, Served, ActivePack
<1> QED BY <1>1, <1>2, <1>3 DEF DataInv

\* Every step keeps the caches and the readers' views current.
LEMMA DataStep == StoreInv /\ [Next]_vars => DataInv'
<1> SUFFICES ASSUME StoreInv, [Next]_vars PROVE DataInv'
    OBVIOUS
<1>1. CASE \E r \in Readers : ReaderNext(r)
    BY <1>1, DataReaderStep
<1>2. ASSUME NEW w \in Writers, WriterNext(w) PROVE DataInv'
    <2>1. CASE pc[w] \in BodyPoints
        BY <1>2, <2>1, BodyStep, BodyFrame DEF BodyKeeps, DataInv
    <2>2. CASE pc[w] \notin BodyPoints
        BY <1>2, <2>2, QuietWriterStep
    <2> QED BY <2>1, <2>2
<1>3. CASE Cleanup \/ UNCHANGED vars
    <2>1. UNCHANGED <<dbVars, packVars, cacheVars, readerVars, fresh, pc, op>>
        BY <1>3 DEF Cleanup, vars, writerVars
    <2> QED BY <2>1 DEF StoreInv, DataInv, Drained, At, DatabaseCopies,
            ResponsesCurrent, Current, VersionOf, ServedCoherent, Served,
            FreshCoherent, ReaderViews, ReaderView, Answers, InState,
            AnswersInside, dbVars, packVars, cacheVars, readerVars
<1> QED BY <1>1, <1>2, <1>3 DEF Next

\* The whole invariant holds of the constructor's state.
LEMMA StoreInit == Init => StoreInv
BY CoreInit, GateInit, WriterInit, PackInit, LeakInit, DataInit DEF StoreInv

\* The whole invariant is inductive.
LEMMA StoreStep == StoreInv /\ [Next]_vars => StoreInv'
BY CoreStep, GateStep, WriterInvStep, PackStep, LeakStep, DataStep DEF StoreInv

\* The parts of the invariant together hold of every reachable state.
THEOREM AlwaysStoreInv == Spec => []StoreInv
BY StoreInit, StoreStep, PTL DEF Spec

\* publish_database and _reload_pack_unleased: outside a transition the pack
\* that is served was built for the database that is served.
THEOREM PackFitsDatabase == Spec => []PackMatchesDatabase
<1>1. StoreInv => PackMatchesDatabase
    <2> SUFFICES ASSUME StoreInv, \A w \in Writers : ~InBody(w), pack # None
                 PROVE  DbOf[ver[pack]] = dbFile
        BY DEF PackMatchesDatabase
    <2>1. \A w \in Writers : pc[w] \notin {"epoch", "open", "swap"}
        BY DEF InBody, OwnsGate, GuardPoints
    <2>2. Served.db = dbFile
        BY <2>1 DEF Served
    <2> QED BY <2>2 DEF StoreInv, DataInv, ServedCoherent
<1> QED BY <1>1, AlwaysStoreInv, PTL

\* The response, row, memory and path caches: whatever a lookup could still
\* hit is what it would compute.
THEOREM CachesStayFresh == Spec => []CachesFresh
<1>1. StoreInv => CachesFresh
    <2> SUFFICES ASSUME StoreInv, \A w \in Writers : ~InBody(w)
                 PROVE  /\ \A c \in responses :
                             c.key[2] = dbEpoch /\ c.key[3] = packEpoch =>
                                 c.payload = Served
                        /\ \A c \in rowCache : c.epoch = dbEpoch => c.db = dbFile
                        /\ legacyRows \in {None, dbFile}
                        /\ memRows \in {None, dbFile}
        BY DEF CachesFresh
    <2>1. \A w \in Writers : pc[w] \notin {"epoch", "open", "swap", "clear"}
        BY DEF InBody, OwnsGate, GuardPoints
    <2>2. Served = Current /\ ~At({"epoch"}) /\ ~At({"clear"})
        BY <2>1 DEF Served, Current, At
    <2> QED BY <2>2 DEF StoreInv, DataInv, DatabaseCopies, ResponsesCurrent
<1> QED BY <1>1, AlwaysStoreInv, PTL

---------------------------------------------------------------------------
(* The store implements the service *)

\* The constructor's state is one of the service's.
LEMMA ServiceInit == Init => Service!Init
<1> SUFFICES ASSUME Init PROVE Service!Init
    OBVIOUS
<1>1. Service!Coherent(Served)
    BY StoreInit DEF StoreInv, DataInv, ServedCoherent, Service!Coherent,
       Served, VersionOf
<1> QED BY <1>1 DEF Init, Service!Init

\* A reader's answer is what is served when it is computed.
LEMMA ServiceReaderStep ==
    ASSUME StoreInv, NEW r \in Readers, ReaderNext(r)
    PROVE  [Service!Next]_Service!serviceVars
<1>1. Served' = Served /\ closed' = closed
    BY ServedReaderStep, ReaderFrame DEF StoreInv, CoreInv
<1>2. /\ out \in [Readers -> OrNone(Payload)]
      /\ r \in Threads /\ CoreInv
    BY DEF StoreInv, CoreInv, TypeOK, TypeReaders, Threads
<1>3. CASE out' = out
    BY <1>1, <1>3 DEF Service!serviceVars
<1>4. ASSUME InState(r), out[r] = None, out' = [out EXCEPT ![r] = Served]
      PROVE  Service!Next
    <2>1. ~closed
        <3>1. stateReaders - 1 \in Nat
            BY <1>2, <1>4, GatePositive DEF CoreInv
        <3> QED BY <3>1 DEF StoreInv, WriterInv, ClosedEmpty
    <2>2. Service!Answer(r)
        BY <1>1, <1>4, <2>1 DEF Service!Answer
    <2> QED BY <2>2 DEF Service!Next
<1>5. CASE CacheGet(r) /\ out' # out
    <2>1. InState(r)
        BY <1>2, <1>5 DEF CacheGet, InState, CoreInv, ReaderLocals
    <2>2. Served = Current /\ ~At({"clear"})
        BY <2>1, InsideAlone DEF At, BodyPoints, GuardPoints
    <2>3. out[r] = None
        BY <1>5 DEF CacheGet, StoreInv, DataInv, AnswersInside
    <2>4. PICK c \in responses : out' = [out EXCEPT ![r] = c.payload]
        BY <1>5 DEF CacheGet
    <2>5. c.payload = Served
        BY <2>2 DEF StoreInv, DataInv, ResponsesCurrent
    <2> QED BY <1>4, <2>1, <2>3, <2>4, <2>5
<1>6. CASE Build(r)
    <2>1. InState(r)
        BY <1>2, <1>6 DEF Build, InState, CoreInv, ReaderLocals
    <2>2. Served = Current
        BY <2>1, InsideAlone
    <2>3. out[r] = None
        BY <1>6 DEF Build, StoreInv, DataInv, AnswersInside
    <2>4. rows[r] = dbFile /\ held[r] = pack
        BY <1>6, <2>1 DEF Build, StoreInv, DataInv, ReaderViews, ReaderView
    <2>5. out' = [out EXCEPT ![r] = Current]
        BY <1>6, <2>4 DEF Build, Current
    <2> QED BY <1>4, <2>1, <2>2, <2>3, <2>5
<1>7. CASE ExitState(r) /\ out' # out
    <2>1. out' = [out EXCEPT ![r] = None]
        BY <1>7 DEF ExitState
    <2>2. out[r] # None
        BY <1>2, <1>7, <2>1
    <2>3. Service!Return(r)
        BY <1>1, <2>1, <2>2 DEF Service!Return
    <2> QED BY <2>3 DEF Service!Next
<1>8. CASE ~CacheGet(r) /\ ~Build(r) /\ ~ExitState(r)
    <2>1. out' = out
        BY <1>8 DEF ReaderNext, Start, EnterState, Snapshot, NestedSnapshot,
           LeaseAudio, ReleasePack, ReaderClosesPack, ReadEpoch, RowsGate,
           RowGet, Connect, Query, RowPut, LegacyRows, CachePutResponse,
           readerVars
    <2> QED BY <1>3, <2>1
<1> QED BY <1>3, <1>5, <1>6, <1>7, <1>8

\* A transition changes what is served in one step, to something coherent.
LEMMA ServiceWriterStep ==
    ASSUME StoreInv, NEW w \in Writers, WriterNext(w)
    PROVE  [Service!Next]_Service!serviceVars
<1>1. out' = out
    BY WriterFrame DEF StoreInv, CoreInv, readerVars
<1>2. CASE pc[w] \notin BodyPoints
    BY <1>1, <1>2, QuietWriterStep DEF Service!serviceVars
<1>3. CASE pc[w] \in BodyPoints /\ MarkClosed(w)
    <2>1. Served' = Served
        BY <1>3, BodyQuiet
    <2>2. closed' = TRUE /\ closed \in BOOLEAN
        BY <1>3 DEF MarkClosed, StoreInv, CoreInv, TypeOK, TypeGate
    <2> QED BY <1>1, <2>1, <2>2 DEF Service!serviceVars, Service!Next,
            Service!Shutdown
<1>4. CASE pc[w] \in BodyPoints /\ ~MarkClosed(w)
    <2>1. closed' = closed
        BY <1>4 DEF WriterNext, Call, CheckProtected, Unlock,
           BeginTransition, DrainReaders, EndTransition, RecheckProtected,
           BlockQueries, CloseConnections, ReplaceDatabase, AdvanceEpoch,
           OpenActive, SwapPack, ClearResponses, EndPublish, ReplaceSources,
           CloseEpoch, RetireAll, WriterClosesPacks, ActivateBuild, gateVars
    <2>2. BodyKeeps
        BY <1>4, BodyStep
    <2>3. Service!Coherent(Served')
        BY <2>2 DEF BodyKeeps, ServedCoherent, Service!Coherent, Served,
           VersionOf
    <2>4. Service!Reconfigure
        BY <1>1, <2>1, <2>2, <2>3 DEF BodyKeeps, Service!Reconfigure
    <2> QED BY <2>4 DEF Service!Next
<1> QED BY <1>2, <1>3, <1>4

\* Every step is a step of the service or changes nothing it shows.
LEMMA ServiceStep ==
    StoreInv /\ [Next]_vars => [Service!Next]_Service!serviceVars
<1> SUFFICES ASSUME StoreInv, [Next]_vars
             PROVE  [Service!Next]_Service!serviceVars
    OBVIOUS
<1>1. CASE Cleanup \/ UNCHANGED vars
    <2>1. UNCHANGED <<out, closed, dbFile, pack, ver, sources, pc, op>>
        BY <1>1 DEF Cleanup, vars, gateVars, dbVars, packVars, cacheVars,
           readerVars
    <2> QED BY <2>1 DEF Service!serviceVars, Served, VersionOf
<1> QED BY <1>1, ServiceReaderStep, ServiceWriterStep DEF Next

\* Lookups see every publication, reload, source replacement and close of the
\* store as one atomic change of a coherent configuration, whatever the readers
\* and lifecycle threads do in between.
THEOREM StoreImplementsService == Spec => ImplementsService
BY ServiceInit, ServiceStep, AlwaysStoreInv, PTL
   DEF Spec, ImplementsService, Service!Spec
===========================================================================
