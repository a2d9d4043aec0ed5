-------------------------- MODULE OperationsProofs --------------------------
(***************************************************************************)
(* Proofs about Operations, for any collections, any number of starts and   *)
(* of generated databases: one operation at a time, a gate that is freed    *)
(* when it ends, agreement of disk and process on the collection, no row    *)
(* committed while the recordings are away, and an automatic build that is  *)
(* neither begun again when it was refused nor forgotten when it was cut.   *)
(***************************************************************************)
EXTENDS Operations, TLAPS, FiniteSetTheorems

\* The gate is taken exactly by the one operation whose thread runs or whose
\* automatic build is being asked about.
Gate ==
    \/ job = None /\ work = {} /\ AskingAutomatic = {}
    \/ job # None /\ (\E w \in work : work = {w}) /\ AskingAutomatic = {}
    \/ job # None /\ work = {} /\ \E i \in 1 .. Len(modals) : AskingAutomatic = {i}

\* Nothing runs or asks before the add-on has come up.
Down == boot # "up" => job = None /\ work = {} /\ modals = <<>>

\* What an operation has done by each of its stages.
Stages ==
    \A w \in work :
        /\ w.pc \in {"inspect", "move", "restore"} => w.kind \in {"cleanup", "restore"}
        /\ w.pc = "version" => HasData /\ w.coll \in published
                             /\ (db.seen \/ (w.kind = "import" /\ w.coll = Own))
        /\ w.pc = "persist" => w.coll \in published
        /\ w.kind = "import" /\ w.pc \in {"pack", "succeeded"} => w.coll = sources

\* The configuration, ALL_SOURCES and the server name the same folders, of a
\* collection whose database was put in place.
Layers == sources = config /\ serving = config /\ config \in published /\ Own \in published

\* The invariant that every step keeps.
IInv == TypeOK /\ Gate /\ Down /\ Stages /\ Layers /\ VersionNeverAhead

\* A dialog is put on top of the others.
LEMMA PushDialog ==
    ASSUME NEW D, NEW s \in Seq(D), NEW d \in D
    PROVE  /\ <<d>> \o s \in Seq(D)
           /\ Len(<<d>> \o s) = Len(s) + 1
           /\ (<<d>> \o s)[1] = d
           /\ \A i \in 1 .. Len(s) : (<<d>> \o s)[i + 1] = s[i]
OBVIOUS

\* The topmost dialog is closed.
LEMMA PopDialog ==
    ASSUME NEW D, NEW s \in Seq(D), s # <<>>
    PROVE  /\ Tail(s) \in Seq(D) /\ Head(s) = s[1] /\ 1 \in 1 .. Len(s)
           /\ Len(Tail(s)) = Len(s) - 1
           /\ \A i \in 1 .. Len(Tail(s)) : Tail(s)[i] = s[i + 1]
OBVIOUS

\* What a new dialog on top does to the questions about an automatic build.
LEMMA AskingPushed ==
    ASSUME TypeOK, NEW d \in Dialogs, modals' = <<d>> \o modals
    PROVE  /\ modals' \in Seq(Dialogs)
           /\ d.ask = "auto" => AskingAutomatic' = {1} \cup {i + 1 : i \in AskingAutomatic}
           /\ d.ask # "auto" => AskingAutomatic' = {i + 1 : i \in AskingAutomatic}
<1> DEFINE top == <<d>> \o modals
<1>1. modals \in Seq(Dialogs)
  BY DEF TypeOK
<1>2. /\ top \in Seq(Dialogs) /\ Len(top) = Len(modals) + 1 /\ top[1] = d
      /\ \A i \in 1 .. Len(modals) : top[i + 1] = modals[i]
  BY <1>1, PushDialog
<1>3. ASSUME NEW i \in 1 .. Len(top), i # 1
      PROVE  i - 1 \in 1 .. Len(modals) /\ top[i] = modals[i - 1]
  <2>1. Len(modals) \in Nat
    BY <1>1
  <2>2. i - 1 \in 1 .. Len(modals) /\ (i - 1) + 1 = i
    BY <1>2, <1>3, <2>1
  <2> QED
    BY <1>2, <2>2
<1>4. 1 \in 1 .. Len(top)
  BY <1>1, <1>2
<1>5. ASSUME NEW i \in 1 .. Len(modals)
      PROVE  i + 1 \in 1 .. Len(top) /\ i + 1 # 1
  BY <1>1, <1>2, <1>5
<1> HIDE DEF top
<1>6. AskingAutomatic' = {i \in 1 .. Len(top) : top[i].ask = "auto"}
  BY DEF AskingAutomatic, top
<1>7. ASSUME NEW i PROVE i \in AskingAutomatic' <=>
         (i = 1 /\ d.ask = "auto") \/ (\E j \in AskingAutomatic : i = j + 1)
  <2>1. CASE i = 1
    <3>1. ~ \E j \in AskingAutomatic : i = j + 1
      BY <2>1, <1>5 DEF AskingAutomatic
    <3> QED
      BY <2>1, <3>1, <1>2, <1>4, <1>6
  <2>2. CASE i # 1
    <3>1. ASSUME i \in AskingAutomatic' PROVE \E j \in AskingAutomatic : i = j + 1
      <4>1. i \in 1 .. Len(top) /\ top[i].ask = "auto"
        BY <3>1, <1>6
      <4>2. i - 1 \in AskingAutomatic /\ i = (i - 1) + 1
        BY <4>1, <2>2, <1>3 DEF AskingAutomatic
      <4> QED
        BY <4>2
    <3>2. ASSUME NEW j \in AskingAutomatic, i = j + 1 PROVE i \in AskingAutomatic'
      BY <3>2, <1>2, <1>5, <1>6 DEF AskingAutomatic
    <3> QED
      BY <2>2, <3>1, <3>2
  <2> QED
    BY <2>1, <2>2
<1> QED
  BY <1>2, <1>7 DEF top

\* What closing the topmost dialog does to them.
LEMMA AskingPopped ==
    ASSUME TypeOK, modals # <<>>, modals' = Tail(modals)
    PROVE  /\ modals' \in Seq(Dialogs) /\ Head(modals) \in Dialogs
           /\ 1 \in AskingAutomatic <=> Head(modals).ask = "auto"
           /\ AskingAutomatic' = {i - 1 : i \in AskingAutomatic \ {1}}
<1>1. modals \in Seq(Dialogs)
  BY DEF TypeOK
<1>2. /\ Tail(modals) \in Seq(Dialogs) /\ Head(modals) = modals[1] /\ 1 \in 1 .. Len(modals)
      /\ Len(Tail(modals)) = Len(modals) - 1
      /\ \A i \in 1 .. Len(Tail(modals)) : Tail(modals)[i] = modals[i + 1]
  BY <1>1, PopDialog
<1>3. 1 \in AskingAutomatic <=> Head(modals).ask = "auto"
  BY <1>2 DEF AskingAutomatic
<1>4. ASSUME NEW i
      PROVE  i \in AskingAutomatic' <=> \E j \in AskingAutomatic \ {1} : i = j - 1
  <2>1. ASSUME i \in AskingAutomatic' PROVE \E j \in AskingAutomatic \ {1} : i = j - 1
    <3>1. i \in 1 .. Len(Tail(modals)) /\ modals[i + 1].ask = "auto"
      BY <1>2, <2>1 DEF AskingAutomatic
    <3>2. i + 1 \in 1 .. Len(modals) /\ i + 1 # 1 /\ i = (i + 1) - 1
      BY <1>1, <1>2, <3>1
    <3> QED
      BY <3>1, <3>2 DEF AskingAutomatic
  <2>2. ASSUME NEW j \in AskingAutomatic \ {1}, i = j - 1 PROVE i \in AskingAutomatic'
    <3>1. j \in 1 .. Len(modals) /\ modals[j].ask = "auto"
      BY DEF AskingAutomatic
    <3>2. i \in 1 .. Len(Tail(modals)) /\ i + 1 = j
      BY <1>1, <1>2, <2>2, <3>1
    <3> QED
      BY <1>2, <3>1, <3>2 DEF AskingAutomatic
  <2> QED
    BY <2>1, <2>2
<1>5. Head(modals) \in Dialogs
  BY <1>1, <1>2
<1> QED
  BY <1>2, <1>3, <1>4, <1>5

\* The type of the marker.
Markers == [fp : Fingerprints \cup {None}, owner : 0 .. MaxStarts,
            status : {None, "started", "paused", "failed", "declined", "completed"},
            resumed : BOOLEAN]

\* What the marker is set to has its type.
LEMMA MarkerTypes ==
    ASSUME TypeOK, NEW fp \in Fingerprints \cup {None},
           NEW status \in {"paused", "failed", "declined", "completed"}
    PROVE  Started(fp) \in Markers /\ Settled(fp, status) \in Markers
<1> DEFINE again == marker.fp = fp /\ marker.status \in {"started", "paused"}
<1>1. again \in BOOLEAN
  OBVIOUS
<1>2. Started(fp) = [fp |-> fp, status |-> "started", owner |-> starts, resumed |-> again]
  BY DEF Started
<1>3. starts \in 0 .. MaxStarts /\ 0 \in 0 .. MaxStarts
  BY OperationsAssumption DEF TypeOK
<1> HIDE DEF again
<1> QED
  BY <1>1, <1>2, <1>3 DEF Markers, Settled

\* A fingerprint is one of a database.
LEMMA FingerprintType == TypeOK => Fingerprint \in Fingerprints \cup {None}
BY DEF TypeOK, Fingerprint, Databases, Fingerprints, HasData, Stamped

\* What the menu and the callbacks put on the stack are dialogs.
LEMMA NewDialogs ==
    /\ \A ask \in {"import", "cleanup", "restore"} :
        /\ Dialog(ask, None, FALSE) \in Dialogs /\ Dialog(ask, None, FALSE).ask # "auto"
        /\ <<Dialog(ask, None, FALSE)>> \in Seq(Dialogs)
    /\ \A fp \in Fingerprints \cup {None}, r \in BOOLEAN :
        fp # None => Dialog("auto", fp, r) \in Dialogs
<1>1. ASSUME NEW ask \in {"import", "cleanup", "restore"}
      PROVE  Dialog(ask, None, FALSE) \in Dialogs /\ Dialog(ask, None, FALSE).ask # "auto"
  BY DEF Dialog, Dialogs
<1>2. ASSUME NEW fp \in Fingerprints \cup {None}, NEW r \in BOOLEAN, fp # None
      PROVE  Dialog("auto", fp, r) \in Dialogs
  BY <1>2 DEF Dialog, Dialogs
<1>3. \A d \in Dialogs : <<d>> \in Seq(Dialogs)
  OBVIOUS
<1> QED
  BY <1>1, <1>2, <1>3

\* What is launched is a thread.
LEMMA NewThreads ==
    ASSUME NEW kind \in Kinds, NEW coll \in Collections,
           NEW fp \in Fingerprints \cup {None},
           NEW pc \in {"check", "pack", "inspect", "restore"}, kind = "auto" => fp # None
    PROVE  Thread(kind, coll, fp, pc) \in Threads
BY DEF Thread, Threads

\* A thread that goes on stays a thread.
LEMMA MovedThread ==
    ASSUME NEW w \in Threads,
           NEW pc \in {"check", "publish", "version", "persist", "pack",
                       "inspect", "move", "restore"} \cup Ended
    PROVE  /\ [w EXCEPT !.pc = pc] \in Threads
           /\ [w EXCEPT !.pc = pc].pc = pc
           /\ [w EXCEPT !.pc = pc].kind = w.kind
           /\ [w EXCEPT !.pc = pc].coll = w.coll
           /\ [w EXCEPT !.pc = pc].fp = w.fp
BY DEF Threads

\* A thread is the only one, and nobody is asked about an automatic build.
LEMMA OneThread ==
    ASSUME Gate, NEW w \in work
    PROVE  work = {w} /\ job # None /\ AskingAutomatic = {}
BY DEF Gate

\* The initial states satisfy the invariant.
LEMMA InvInit == Init => IInv
<1> SUFFICES ASSUME Init PROVE IInv
  OBVIOUS
<1>1. db \in Databases \cup {None}
  <2>1. 0 \in 0 .. MaxStamp /\ (version = "current") \in BOOLEAN
    BY OperationsAssumption
  <2>2. CASE db = None
    BY <2>2
  <2>3. CASE db \in [coll : {Own}, stamp : {0}, seen : {version = "current"}]
    <3>1. /\ db = [coll |-> db.coll, stamp |-> db.stamp, seen |-> db.seen]
          /\ db.coll \in Collections /\ db.stamp \in 0 .. MaxStamp
      BY <2>1, <2>3, OperationsAssumption
    <3>2. db.seen = (version = "current")
      BY <2>3
    <3>3. db.seen \in BOOLEAN
      BY <2>1, <3>2
    <3> QED
      BY <3>1, <3>3 DEF Databases
  <2> QED
    BY <2>2, <2>3 DEF Init
<1>2. marker \in Markers
  BY OperationsAssumption DEF Init, Markers
<1>3. modals \in Seq(Dialogs) /\ AskingAutomatic = {}
  BY DEF Init, AskingAutomatic
<1>4. TypeOK
  <2>1. /\ sources \in Collections /\ serving \in Collections
        /\ config \in Collections /\ published \subseteq Collections
    BY OperationsAssumption DEF Init
  <2>2. stamp \in 0 .. MaxStamp /\ starts \in 0 .. MaxStarts
    BY OperationsAssumption DEF Init
  <2>3. /\ version \in {"old", "current"} /\ pack = None
        /\ cleanup \in {None, "started", "completed", "returned", "broken"}
        /\ boot = "off" /\ runtime = FALSE /\ job = None /\ work = {}
        /\ refused = {} /\ begun = {}
    BY DEF Init
  <2> QED
    BY <1>1, <1>2, <1>3, <2>1, <2>2, <2>3 DEF TypeOK, Markers
<1>5. Gate /\ Down /\ Stages /\ Layers
  BY <1>3 DEF Init, Gate, Down, Stages, Layers
<1>6. VersionNeverAhead
  BY OperationsAssumption DEF Init, VersionNeverAhead, HasData
<1> QED
  BY <1>4, <1>5, <1>6 DEF IInv

-----------------------------------------------------------------------------
(* Each action keeps the invariant. *)

\* Anki starts: both layers are read from the configuration.
LEMMA StartStep ==
    ASSUME IInv, Start
    PROVE  IInv'
<1> USE DEF IInv
<1>1. TypeOK'
  BY OperationsAssumption DEF Start, TypeOK, disk
<1>2. Gate'
  BY DEF Start, Gate, AskingAutomatic
<1>3. Down'
  BY DEF Start, Down
<1>4. Stages'
  BY DEF Start, Stages, Layers, disk, HasData
<1>5. Layers'
  BY DEF Start, Layers, disk
<1>6. VersionNeverAhead'
  BY DEF Start, VersionNeverAhead, disk, HasData
<1> QED
  BY <1>1, <1>2, <1>3, <1>4, <1>5, <1>6

\* The add-on comes up: it launches, asks, or does nothing.
LEMMA AttemptInitStep ==
    ASSUME IInv, AttemptInit
    PROVE  IInv'
<1> USE DEF IInv
<1>1. TypeOK'
  <2>1. Fingerprint \in Fingerprints \cup {None}
    BY FingerprintType
  <2>2. marker \in Markers /\ Started(Fingerprint) \in Markers
    BY <2>1, MarkerTypes DEF TypeOK, Markers
  <2>3. marker' \in Markers
    BY <2>2 DEF AttemptInit, MaybeAutomatic
  <2>4. job' \in Kinds \cup {None}
    BY DEF AttemptInit, MaybeAutomatic, TypeOK, Launch, Thread, Kinds, Unclaimed
  <2>5. begun' \subseteq Fingerprints
    BY <2>1 DEF AttemptInit, MaybeAutomatic, TypeOK, Claimable
  <2>6. sources \in Collections /\ None \in Fingerprints \cup {None} /\ "regenerate" \in Kinds
    BY DEF TypeOK, Kinds
  <2>7. Thread("regenerate", sources, None, "check") \in Threads
    BY <2>6, NewThreads
  <2>8. work' \subseteq Threads
    BY <2>7 DEF AttemptInit, MaybeAutomatic, TypeOK, Launch
  <2>9. modals' \in Seq(Dialogs)
    <3>1. CASE modals' = modals
      BY <3>1 DEF TypeOK
    <3>2. CASE modals' = <<Dialog("auto", Fingerprint, marker'.resumed)>> \o modals /\ Fingerprint # None
      <4>1. Dialog("auto", Fingerprint, marker'.resumed) \in Dialogs
        BY <2>1, <2>3, <3>2, NewDialogs DEF Markers
      <4> QED
        BY <3>2, <4>1, AskingPushed
    <3>3. CASE \E ask \in {"restore", "cleanup"} : modals' = <<Dialog(ask, None, FALSE)>>
      BY <3>3, NewDialogs
    <3> QED
      BY <3>1, <3>2, <3>3 DEF AttemptInit, MaybeAutomatic, Claimable
  <2> QED
    BY <2>3, <2>4, <2>5, <2>8, <2>9 DEF AttemptInit, TypeOK, Markers
<1>2. Gate'
  <2>1. work = {} /\ job = None /\ modals = <<>>
    BY DEF AttemptInit, Down
  <2>2. CASE modals' = <<>>
    <3>1. AskingAutomatic' = {}
      BY <2>2 DEF AskingAutomatic
    <3>2. ASSUME NEW t, t.kind \in Kinds, Launch(t)
          PROVE  job' # None /\ t \in work' /\ work' = {t}
      BY <2>1, <3>2, OperationsAssumption DEF Launch
    <3>3. Thread("regenerate", sources, None, "check").kind \in Kinds
      BY DEF Thread, Kinds
    <3>4. ~(modals' = <<Dialog("auto", Fingerprint, marker'.resumed)>> \o modals)
      BY <2>1, <2>2
    <3>5. \/ UNCHANGED <<job, work>>
          \/ job' = None /\ work' = work
          \/ Launch(Thread("regenerate", sources, None, "check"))
      BY <3>4 DEF AttemptInit, MaybeAutomatic, Unclaimed
    <3> QED
      BY <2>1, <3>1, <3>2, <3>3, <3>5 DEF Gate
  <2>3. ASSUME modals' = <<Dialog("auto", Fingerprint, marker'.resumed)>> \o modals
        PROVE  Gate'
    <3>1. modals' = <<Dialog("auto", Fingerprint, marker'.resumed)>>
      BY <2>1, <2>3
    <3>2. Len(modals') = 1 /\ AskingAutomatic' = {1}
      BY <3>1 DEF AskingAutomatic, Dialog
    <3>3. job' = "auto" /\ work' = {}
      BY <2>1, <3>1 DEF AttemptInit, MaybeAutomatic, Dialog
    <3> QED
      BY <3>2, <3>3, OperationsAssumption DEF Gate, Kinds
  <2>4. ASSUME NEW ask \in {"restore", "cleanup"}, modals' = <<Dialog(ask, None, FALSE)>>
        PROVE  Gate'
    <3>1. AskingAutomatic' = {}
      BY <2>4 DEF AskingAutomatic, Dialog
    <3>2. UNCHANGED <<job, work>>
      BY <2>1, <2>4 DEF AttemptInit, MaybeAutomatic, Dialog
    <3> QED
      BY <2>1, <3>1, <3>2 DEF Gate
  <2> QED
    BY <2>1, <2>2, <2>3, <2>4 DEF AttemptInit, MaybeAutomatic
<1>3. Down'
  BY DEF AttemptInit, Down
<1>4. Stages'
  BY DEF AttemptInit, Stages, HasData, Thread, Dialog, Launch, MaybeAutomatic
<1>5. Layers'
  BY DEF AttemptInit, Layers
<1>6. VersionNeverAhead'
  BY DEF AttemptInit, VersionNeverAhead, HasData
<1> QED
  BY <1>1, <1>2, <1>3, <1>4, <1>5, <1>6

\* Nothing of the process survives.
LEMMA CrashStep ==
    ASSUME IInv, Crash
    PROVE  IInv'
<1> USE DEF IInv
<1>1. TypeOK'
  BY DEF Crash, TypeOK
<1>2. Gate'
  BY DEF Crash, Gate, AskingAutomatic
<1>3. Down'
  BY DEF Crash, Down
<1>4. Stages'
  BY DEF Crash, Stages
<1>5. Layers'
  BY DEF Crash, Layers
<1>6. VersionNeverAhead'
  BY DEF Crash, VersionNeverAhead, HasData
<1> QED
  BY <1>1, <1>2, <1>3, <1>4, <1>5, <1>6

\* The user puts the folder back.
LEMMA PutBackStep ==
    ASSUME IInv, PutBack
    PROVE  IInv'
<1> USE DEF IInv
<1>1. TypeOK'
  BY DEF PutBack, TypeOK, process
<1>2. Gate'
  BY DEF PutBack, Gate, AskingAutomatic
<1>3. Down'
  BY DEF PutBack, Down, process
<1>4. Stages'
  BY DEF PutBack, Stages, process, HasData
<1>5. Layers'
  BY DEF PutBack, Layers, process
<1>6. VersionNeverAhead'
  BY DEF PutBack, VersionNeverAhead, HasData
<1> QED
  BY <1>1, <1>2, <1>3, <1>4, <1>5, <1>6

\* An operation is launched while the gate is free.
LEMMA MenuRegenerateStep ==
    ASSUME IInv, MenuRegenerate
    PROVE  IInv'
<1> USE DEF IInv
<1>1. TypeOK'
  BY DEF MenuRegenerate, TypeOK, Threads, Kinds, disk, process, Thread, Launch
<1>2. Gate'
  <2>1. job = None /\ work = {} /\ AskingAutomatic = {} /\ AskingAutomatic' = AskingAutomatic
    BY DEF MenuRegenerate, GateFree, Gate, Restorable, AskingAutomatic
  <2>2. job' \in Kinds /\ \E w \in work' : work' = {w}
    BY <2>1 DEF MenuRegenerate, Launch, Thread, Kinds
  <2> QED
    BY <2>1, <2>2, OperationsAssumption DEF Gate
<1>3. Down'
  BY DEF MenuRegenerate, Down, process, MenuUsable
<1>4. Stages'
  BY DEF MenuRegenerate, Stages, disk, process, HasData, Thread, Launch
<1>5. Layers'
  BY DEF MenuRegenerate, Layers, disk, process
<1>6. VersionNeverAhead'
  BY DEF MenuRegenerate, VersionNeverAhead, disk, HasData
<1> QED
  BY <1>1, <1>2, <1>3, <1>4, <1>5, <1>6

\* An operation is launched while the gate is free.
LEMMA MenuBuildStep ==
    ASSUME IInv, MenuBuild
    PROVE  IInv'
<1> USE DEF IInv
<1>1. TypeOK'
  BY DEF MenuBuild, TypeOK, Threads, Kinds, disk, process, Thread, Launch
<1>2. Gate'
  <2>1. job = None /\ work = {} /\ AskingAutomatic = {} /\ AskingAutomatic' = AskingAutomatic
    BY DEF MenuBuild, GateFree, Gate, Restorable, AskingAutomatic
  <2>2. job' \in Kinds /\ \E w \in work' : work' = {w}
    BY <2>1 DEF MenuBuild, Launch, Thread, Kinds
  <2> QED
    BY <2>1, <2>2, OperationsAssumption DEF Gate
<1>3. Down'
  BY DEF MenuBuild, Down, process, MenuUsable
<1>4. Stages'
  BY DEF MenuBuild, Stages, disk, process, HasData, Thread, Launch
<1>5. Layers'
  BY DEF MenuBuild, Layers, disk, process
<1>6. VersionNeverAhead'
  BY DEF MenuBuild, VersionNeverAhead, disk, HasData
<1> QED
  BY <1>1, <1>2, <1>3, <1>4, <1>5, <1>6

\* A dialog is opened; the gate is not claimed yet.
LEMMA MenuAskStep ==
    ASSUME IInv, MenuAsk
    PROVE  IInv'
<1> USE DEF IInv
<1>1. TypeOK'
  <2>1. modals' \in Seq(Dialogs)
    BY NewDialogs DEF MenuAsk
  <2> QED
    BY <2>1 DEF MenuAsk, TypeOK, disk, process
<1>2. Gate'
  BY DEF MenuAsk, Gate, Dialog, MenuUsable, AskingAutomatic
<1>3. Down'
  BY DEF MenuAsk, Down, process, MenuUsable
<1>4. Stages'
  BY DEF MenuAsk, Stages, disk, process, HasData
<1>5. Layers'
  BY DEF MenuAsk, Layers, disk, process
<1>6. VersionNeverAhead'
  BY DEF MenuAsk, VersionNeverAhead, disk, HasData
<1> QED
  BY <1>1, <1>2, <1>3, <1>4, <1>5, <1>6

\* An operation is launched while the gate is free.
LEMMA MenuRestoreStep ==
    ASSUME IInv, MenuRestore
    PROVE  IInv'
<1> USE DEF IInv
<1>1. TypeOK'
  BY DEF MenuRestore, TypeOK, Threads, Kinds, disk, process, Thread, Launch
<1>2. Gate'
  <2>1. job = None /\ work = {} /\ AskingAutomatic = {} /\ AskingAutomatic' = AskingAutomatic
    BY DEF MenuRestore, GateFree, Gate, Restorable, AskingAutomatic
  <2>2. job' \in Kinds /\ \E w \in work' : work' = {w}
    BY <2>1 DEF MenuRestore, Launch, Thread, Kinds
  <2> QED
    BY <2>1, <2>2, OperationsAssumption DEF Gate
<1>3. Down'
  BY DEF MenuRestore, Down, process, MenuUsable
<1>4. Stages'
  BY DEF MenuRestore, Stages, disk, process, HasData, Thread, Launch
<1>5. Layers'
  BY DEF MenuRestore, Layers, disk, process
<1>6. VersionNeverAhead'
  BY DEF MenuRestore, VersionNeverAhead, disk, HasData
<1> QED
  BY <1>1, <1>2, <1>3, <1>4, <1>5, <1>6

\* The one question about an automatic build is answered.
LEMMA AnswerAutomaticStep ==
    ASSUME IInv, AnswerAutomatic
    PROVE  IInv'
<1> USE DEF IInv
<1>1. TypeOK'
  <2>1. modals' \in Seq(Dialogs) /\ Head(modals) \in Dialogs
    BY AskingPopped DEF AnswerAutomatic, Top
  <2>2. Head(modals).fp \in Fingerprints
    BY <2>1 DEF AnswerAutomatic, Top, Dialogs
  <2>3. sources \in Collections /\ "auto" \in Kinds
    BY DEF TypeOK, Kinds
  <2>4. Head(modals).fp # None
    BY <2>1 DEF AnswerAutomatic, Top, Dialogs
  <2>5. Thread("auto", sources, Head(modals).fp, "pack") \in Threads
    BY <2>2, <2>3, <2>4, NewThreads
  <2>6. \A status \in {"declined", "failed"} : Settled(Head(modals).fp, status) \in Markers
    BY <2>2, MarkerTypes
  <2>7. work' \subseteq Threads /\ marker' \in Markers /\ job' \in Kinds \cup {None}
        /\ refused' \subseteq Fingerprints /\ begun' \subseteq Fingerprints
    BY <2>2, <2>5, <2>6 DEF AnswerAutomatic, TypeOK, Unclaimed, Markers
  <2> QED
    BY <2>1, <2>7 DEF AnswerAutomatic, TypeOK, Markers, process
<1>2. Gate'
  <2>1. 1 \in AskingAutomatic /\ AskingAutomatic' = {i - 1 : i \in AskingAutomatic \ {1}}
    BY AskingPopped DEF AnswerAutomatic, Top
  <2>2. work = {} /\ job # None /\ AskingAutomatic = {1}
    BY <2>1 DEF Gate
  <2>3. AskingAutomatic' = {}
    BY <2>1, <2>2
  <2>4. (job' = job /\ \E w \in work' : work' = {w}) \/ (job' = None /\ work' = {})
    BY <2>2 DEF AnswerAutomatic, Unclaimed
  <2> QED
    BY <2>2, <2>3, <2>4 DEF Gate
<1>3. Down'
  BY DEF AnswerAutomatic, Down, process, Top
<1>4. Stages'
  BY DEF AnswerAutomatic, Stages, process, HasData, Thread
<1>5. Layers'
  BY DEF AnswerAutomatic, Layers, process
<1>6. VersionNeverAhead'
  BY DEF AnswerAutomatic, VersionNeverAhead, HasData
<1> QED
  BY <1>1, <1>2, <1>3, <1>4, <1>5, <1>6

\* A dialog is answered: the gate is looked at now.
LEMMA AnswerImportStep ==
    ASSUME IInv, AnswerImport
    PROVE  IInv'
<1> USE DEF IInv
<1>1. TypeOK'
  BY DEF AnswerImport, TypeOK, Threads, Kinds, disk, process, Thread, Launch, Top
<1>2. Gate'
  <2>1. /\ 1 \notin AskingAutomatic
        /\ AskingAutomatic' = {i - 1 : i \in AskingAutomatic \ {1}}
        /\ modals' \in Seq(Dialogs)
    BY AskingPopped DEF AnswerImport, Top
  <2>2. AskingAutomatic = {} => AskingAutomatic' = {}
    BY <2>1
  <2>3. ASSUME NEW i \in 1 .. Len(modals), AskingAutomatic = {i}
        PROVE  \E j \in 1 .. Len(modals)' : AskingAutomatic' = {j}
    <3>1. AskingAutomatic' = {i - 1}
      BY <2>1, <2>3
    <3>2. i - 1 \in 1 .. Len(modals')
      BY <3>1 DEF AskingAutomatic
    <3> QED
      BY <3>1, <3>2
  <2>4. CASE UNCHANGED <<job, work>>
    BY <2>2, <2>3, <2>4 DEF Gate
  <2>5. CASE job = None /\ job' \in Kinds /\ \E w \in work' : work' = work \cup {w}
    BY <2>2, <2>5, OperationsAssumption DEF Gate
  <2> QED
    BY <2>4, <2>5 DEF AnswerImport, GateFree, Restorable, Launch, Thread, Kinds
<1>3. Down'
  BY DEF AnswerImport, Down, process, Top
<1>4. Stages'
  BY DEF AnswerImport, Stages, disk, process, HasData, Thread, Launch
<1>5. Layers'
  BY DEF AnswerImport, Layers, disk, process
<1>6. VersionNeverAhead'
  BY DEF AnswerImport, VersionNeverAhead, disk, HasData
<1> QED
  BY <1>1, <1>2, <1>3, <1>4, <1>5, <1>6

\* A dialog is answered: the gate is looked at now.
LEMMA AnswerCleanupStep ==
    ASSUME IInv, AnswerCleanup
    PROVE  IInv'
<1> USE DEF IInv
<1>1. TypeOK'
  BY DEF AnswerCleanup, TypeOK, Layers, Threads, Kinds, disk, process, Thread, Launch,
    Top
<1>2. Gate'
  <2>1. /\ 1 \notin AskingAutomatic
        /\ AskingAutomatic' = {i - 1 : i \in AskingAutomatic \ {1}}
        /\ modals' \in Seq(Dialogs)
    BY AskingPopped DEF AnswerCleanup, Top
  <2>2. AskingAutomatic = {} => AskingAutomatic' = {}
    BY <2>1
  <2>3. ASSUME NEW i \in 1 .. Len(modals), AskingAutomatic = {i}
        PROVE  \E j \in 1 .. Len(modals)' : AskingAutomatic' = {j}
    <3>1. AskingAutomatic' = {i - 1}
      BY <2>1, <2>3
    <3>2. i - 1 \in 1 .. Len(modals')
      BY <3>1 DEF AskingAutomatic
    <3> QED
      BY <3>1, <3>2
  <2>4. CASE UNCHANGED <<job, work>>
    BY <2>2, <2>3, <2>4 DEF Gate
  <2>5. CASE job = None /\ job' \in Kinds /\ \E w \in work' : work' = work \cup {w}
    BY <2>2, <2>5, OperationsAssumption DEF Gate
  <2> QED
    BY <2>4, <2>5 DEF AnswerCleanup, GateFree, Restorable, Launch, Thread, Kinds
<1>3. Down'
  BY DEF AnswerCleanup, Down, process, Top
<1>4. Stages'
  BY DEF AnswerCleanup, Stages, disk, process, HasData, Thread, Launch
<1>5. Layers'
  BY DEF AnswerCleanup, Layers, disk, process
<1>6. VersionNeverAhead'
  BY DEF AnswerCleanup, VersionNeverAhead, disk, HasData
<1> QED
  BY <1>1, <1>2, <1>3, <1>4, <1>5, <1>6

\* A dialog is answered: the gate is looked at now.
LEMMA AnswerRestoreStep ==
    ASSUME IInv, AnswerRestore
    PROVE  IInv'
<1> USE DEF IInv
<1>1. TypeOK'
  BY DEF AnswerRestore, TypeOK, Threads, Kinds, disk, process, Thread, Launch, Top
<1>2. Gate'
  <2>1. /\ 1 \notin AskingAutomatic
        /\ AskingAutomatic' = {i - 1 : i \in AskingAutomatic \ {1}}
        /\ modals' \in Seq(Dialogs)
    BY AskingPopped DEF AnswerRestore, Top
  <2>2. AskingAutomatic = {} => AskingAutomatic' = {}
    BY <2>1
  <2>3. ASSUME NEW i \in 1 .. Len(modals), AskingAutomatic = {i}
        PROVE  \E j \in 1 .. Len(modals)' : AskingAutomatic' = {j}
    <3>1. AskingAutomatic' = {i - 1}
      BY <2>1, <2>3
    <3>2. i - 1 \in 1 .. Len(modals')
      BY <3>1 DEF AskingAutomatic
    <3> QED
      BY <3>1, <3>2
  <2>4. CASE UNCHANGED <<job, work>>
    BY <2>2, <2>3, <2>4 DEF Gate
  <2>5. CASE job = None /\ job' \in Kinds /\ \E w \in work' : work' = work \cup {w}
    BY <2>2, <2>5, OperationsAssumption DEF Gate
  <2> QED
    BY <2>4, <2>5 DEF AnswerRestore, GateFree, Restorable, Launch, Thread, Kinds
<1>3. Down'
  BY DEF AnswerRestore, Down, process, Top
<1>4. Stages'
  BY DEF AnswerRestore, Stages, disk, process, HasData, Thread, Launch
<1>5. Layers'
  BY DEF AnswerRestore, Layers, disk, process
<1>6. VersionNeverAhead'
  BY DEF AnswerRestore, VersionNeverAhead, disk, HasData
<1> QED
  BY <1>1, <1>2, <1>3, <1>4, <1>5, <1>6

\* The thread goes on, or ends.
LEMMA CheckStep ==
    ASSUME IInv, NEW w \in work, Check(w)
    PROVE  IInv'
<1> USE DEF IInv
<1>0. work = {w} /\ job # None /\ AskingAutomatic = {}
  BY OneThread
<1>1. TypeOK'
  BY <1>0 DEF Check, TypeOK, Threads, Ended, disk, process, At, AfterCheck
<1>2. Gate'
  <2>1. \E v \in work' : work' = {v}
    BY <1>0 DEF Check, At
  <2>2. job' = job /\ AskingAutomatic' = AskingAutomatic
    BY DEF Check, AskingAutomatic
  <2> QED
    BY <1>0, <2>1, <2>2 DEF Gate
<1>3. Down'
  BY DEF Check, Down, process
<1>4. Stages'
  BY DEF Check, TypeOK, Gate, Stages, Layers, Threads, disk, HasData, At, AfterCheck
<1>5. Layers'
  BY DEF Check, Layers, disk, process
<1>6. VersionNeverAhead'
  BY DEF Check, VersionNeverAhead, disk, HasData
<1> QED
  BY <1>1, <1>2, <1>3, <1>4, <1>5, <1>6

\* The database is put in place, of the collection of the thread.
LEMMA PublishStep ==
    ASSUME IInv, NEW w \in work, Publish(w)
    PROVE  IInv'
<1> USE DEF IInv
<1>0. work = {w} /\ job # None /\ AskingAutomatic = {}
  BY OneThread
<1>1. TypeOK'
  <2>1. w \in Threads /\ w.coll \in Collections
    BY DEF TypeOK, Threads
  <2>2. \A e \in {"version", "failed", "paused"} : [w EXCEPT !.pc = e] \in Threads
    BY <2>1, MovedThread DEF Ended
  <2>3. work' \subseteq Threads
    BY <1>0, <2>2 DEF Publish, At
  <2>4. CASE UNCHANGED <<db, stamp, published, refused, begun>>
    BY <2>3, <2>4 DEF Publish, TypeOK, process
  <2>5. CASE published' = published \cup {w.coll} /\ refused' = {} /\ begun' = {}
             /\ db' = [coll |-> w.coll, stamp |-> 0, seen |-> TRUE] /\ stamp' = stamp
    <3>1. db' \in Databases
      BY <2>1, <2>5, OperationsAssumption DEF Databases
    <3> QED
      BY <2>1, <2>3, <2>5, <3>1 DEF Publish, TypeOK, process
  <2>6. CASE published' = published \cup {w.coll} /\ refused' = {} /\ begun' = {}
             /\ db' = [coll |-> w.coll, stamp |-> stamp', seen |-> TRUE]
             /\ stamp < MaxStamp /\ stamp' = stamp + 1
    <3>1. stamp' \in 0 .. MaxStamp
      BY <2>6, OperationsAssumption DEF TypeOK
    <3>2. db' \in Databases
      BY <2>1, <2>6, <3>1 DEF Databases
    <3> QED
      BY <2>1, <2>3, <2>6, <3>1, <3>2 DEF Publish, TypeOK, process
  <2> QED
    BY <2>4, <2>5, <2>6 DEF Publish
<1>2. Gate'
  <2>1. At(w, "version") \/ At(w, "failed") \/ At(w, "paused")
    BY DEF Publish
  <2>2. \E v \in work' : work' = {v}
    BY <1>0, <2>1 DEF At
  <2>3. job' = job /\ AskingAutomatic' = AskingAutomatic
    BY DEF Publish, AskingAutomatic
  <2> QED
    BY <1>0, <2>2, <2>3 DEF Gate
<1>3. Down'
  BY DEF Publish, Down, process
<1>4. Stages'
  <2>1. w \in Threads /\ w.coll \in Collections
    BY DEF TypeOK, Threads
  <2>2. CASE At(w, "failed") \/ At(w, "paused")
    <3>1. /\ [w EXCEPT !.pc = "failed"].pc = "failed"
          /\ [w EXCEPT !.pc = "paused"].pc = "paused"
      BY <2>1, MovedThread DEF Ended
    <3>2. ASSUME NEW v \in work' PROVE v.pc \in {"failed", "paused"}
      BY <1>0, <2>2, <3>1 DEF At
    <3> QED
      BY <3>2 DEF Stages
  <2>3. CASE At(w, "version") /\ published' = published \cup {w.coll} /\ db' \in Databases /\ db'.seen
    <3>1. /\ [w EXCEPT !.pc = "version"].pc = "version"
          /\ [w EXCEPT !.pc = "version"].coll = w.coll
      BY <2>1, MovedThread
    <3>2. ASSUME NEW v \in work' PROVE v.pc = "version" /\ v.coll = w.coll
      BY <1>0, <2>3, <3>1 DEF At
    <3> QED
      BY <2>3, <3>2, OperationsAssumption DEF Stages, HasData
  <2>4. CASE published' = published \cup {w.coll} /\ At(w, "version")
    <3>1. \/ db' = [coll |-> w.coll, stamp |-> 0, seen |-> TRUE]
          \/ db' = [coll |-> w.coll, stamp |-> stamp', seen |-> TRUE] /\ stamp < MaxStamp /\ stamp' = stamp + 1
          \/ At(w, "failed") \/ At(w, "paused")
      BY DEF Publish
    <3>2. stamp < MaxStamp /\ stamp' = stamp + 1 => stamp' \in 0 .. MaxStamp
      BY OperationsAssumption DEF TypeOK
    <3>3. CASE db' \in Databases /\ db'.seen
      BY <2>3, <2>4, <3>3
    <3>4. 0 \in 0 .. MaxStamp
      BY OperationsAssumption
    <3>5. ASSUME NEW n \in 0 .. MaxStamp, db' = [coll |-> w.coll, stamp |-> n, seen |-> TRUE]
          PROVE  db' \in Databases /\ db'.seen
      BY <2>1, <3>5 DEF Databases
    <3> QED
      BY <2>2, <3>1, <3>2, <3>3, <3>4, <3>5
  <2> QED
    BY <2>2, <2>4 DEF Publish
<1>5. Layers'
  BY DEF Publish, Layers, process
<1>6. VersionNeverAhead'
  <2>1. \/ db' = db
        \/ db' = [coll |-> w.coll, stamp |-> 0, seen |-> TRUE]
        \/ db' = [coll |-> w.coll, stamp |-> stamp', seen |-> TRUE] /\ stamp < MaxStamp /\ stamp' = stamp + 1
    BY DEF Publish
  <2>2. stamp < MaxStamp /\ stamp' = stamp + 1 => stamp' \in 0 .. MaxStamp
    BY OperationsAssumption DEF TypeOK
  <2>3. w.coll \in Collections /\ 0 \in 0 .. MaxStamp
    BY OperationsAssumption DEF TypeOK, Threads
  <2>4. ASSUME NEW n \in 0 .. MaxStamp, db' = [coll |-> w.coll, stamp |-> n, seen |-> TRUE]
        PROVE  db' \in Databases /\ db'.seen
    BY <2>3, <2>4 DEF Databases
  <2>5. version' = version
    BY DEF Publish
  <2> QED
    BY <2>1, <2>2, <2>3, <2>4, <2>5, OperationsAssumption DEF VersionNeverAhead, HasData
<1> QED
  BY <1>1, <1>2, <1>3, <1>4, <1>5, <1>6

\* The version is recorded of a database that was written or validated.
LEMMA WriteVersionStep ==
    ASSUME IInv, NEW w \in work, WriteVersion(w)
    PROVE  IInv'
<1> USE DEF IInv
<1>0. work = {w} /\ job # None /\ AskingAutomatic = {}
  BY OneThread
<1>1. TypeOK'
  <2>1. work' \subseteq Threads
    BY <1>0 DEF WriteVersion, At, TypeOK, Threads, Ended
  <2>2. db \in Databases /\ [db EXCEPT !.seen = TRUE] \in Databases
    BY DEF WriteVersion, Stages, TypeOK, HasData, Databases
  <2>3. db' \in Databases
    BY <2>2 DEF WriteVersion
  <2> QED
    BY <2>1, <2>3 DEF WriteVersion, TypeOK, Threads, process
<1>2. Gate'
  <2>1. \E v \in work' : work' = {v}
    BY <1>0 DEF WriteVersion, At
  <2>2. job' = job /\ AskingAutomatic' = AskingAutomatic
    BY DEF WriteVersion, AskingAutomatic
  <2> QED
    BY <1>0, <2>1, <2>2 DEF Gate
<1>3. Down'
  BY DEF WriteVersion, Down, process
<1>4. Stages'
  BY <1>0 DEF WriteVersion, TypeOK, Stages, Threads, At
<1>5. Layers'
  BY DEF WriteVersion, Layers, process
<1>6. VersionNeverAhead'
  <2>1. HasData /\ (db.seen \/ (w.kind = "import" /\ w.coll = Own))
    BY DEF WriteVersion, Stages
  <2>2. db \in Databases
    BY <2>1 DEF TypeOK, HasData
  <2>3. [db EXCEPT !.seen = TRUE] \in Databases /\ [db EXCEPT !.seen = TRUE].seen
    BY <2>2 DEF Databases
  <2>4. db' \in Databases /\ db'.seen
    BY <2>1, <2>2, <2>3 DEF WriteVersion
  <2> QED
    BY <2>4, OperationsAssumption DEF VersionNeverAhead, HasData
<1> QED
  BY <1>1, <1>2, <1>3, <1>4, <1>5, <1>6

\* The three layers change together.
LEMMA PersistStep ==
    ASSUME IInv, NEW w \in work, Persist(w)
    PROVE  IInv'
<1> USE DEF IInv
<1>0. work = {w} /\ job # None /\ AskingAutomatic = {}
  BY OneThread
<1>1. TypeOK'
  BY DEF Persist, TypeOK, Threads, Ended, At
<1>2. Gate'
  <2>1. \E v \in work' : work' = {v}
    BY <1>0 DEF Persist, At
  <2>2. job' = job /\ AskingAutomatic' = AskingAutomatic
    BY DEF Persist, AskingAutomatic
  <2> QED
    BY <1>0, <2>1, <2>2 DEF Gate
<1>3. Down'
  BY DEF Persist, Down
<1>4. Stages'
  BY DEF Persist, TypeOK, Gate, Stages, Threads, At
<1>5. Layers'
  BY DEF Persist, Stages, Layers
<1>6. VersionNeverAhead'
  BY DEF Persist, VersionNeverAhead, HasData
<1> QED
  BY <1>1, <1>2, <1>3, <1>4, <1>5, <1>6

\* The pack is built, or not.
LEMMA BuildPackStep ==
    ASSUME IInv, NEW w \in work, BuildPack(w)
    PROVE  IInv'
<1> USE DEF IInv
<1>0. work = {w} /\ job # None /\ AskingAutomatic = {}
  BY OneThread
<1>1. TypeOK'
  <2>1. w \in Threads
    BY DEF TypeOK
  <2>2. \A e \in Ended : [w EXCEPT !.pc = e] \in Threads
    BY <2>1, MovedThread
  <2>3. work' \subseteq Threads
    BY <1>0, <2>2 DEF BuildPack, At, Ended
  <2>4. pack' \in Fingerprints \cup {None}
    BY DEF BuildPack, TypeOK, Stamped, HasData, Databases, Fingerprints
  <2> QED
    BY <2>3, <2>4 DEF BuildPack, TypeOK, process
<1>2. Gate'
  <2>1. \E v \in work' : work' = {v}
    BY <1>0 DEF BuildPack, At
  <2>2. job' = job /\ AskingAutomatic' = AskingAutomatic
    BY DEF BuildPack, AskingAutomatic
  <2> QED
    BY <1>0, <2>1, <2>2 DEF Gate
<1>3. Down'
  BY DEF BuildPack, Down, process
<1>4. Stages'
  BY DEF BuildPack, TypeOK, Stages, Threads, process, HasData, At
<1>5. Layers'
  BY DEF BuildPack, Layers, process
<1>6. VersionNeverAhead'
  BY DEF BuildPack, VersionNeverAhead, HasData
<1> QED
  BY <1>1, <1>2, <1>3, <1>4, <1>5, <1>6

\* The thread goes on, or ends.
LEMMA TrashLooseStep ==
    ASSUME IInv, NEW w \in work, TrashLoose(w)
    PROVE  IInv'
<1> USE DEF IInv
<1>0. work = {w} /\ job # None /\ AskingAutomatic = {}
  BY OneThread
<1>1. TypeOK'
  <2>1. w \in Threads
    BY DEF TypeOK
  <2>2. \A e \in {"move", "failed", "succeeded", "paused"} : [w EXCEPT !.pc = e] \in Threads
    BY <2>1, MovedThread DEF Ended
  <2>3. work' \subseteq Threads
    BY <1>0, <2>2 DEF TrashLoose, At
  <2> QED
    BY <2>3 DEF TrashLoose, TypeOK, process
<1>2. Gate'
  <2>1. \E v \in work' : work' = {v}
    BY <1>0 DEF TrashLoose, At
  <2>2. job' = job /\ AskingAutomatic' = AskingAutomatic
    BY DEF TrashLoose, AskingAutomatic
  <2> QED
    BY <1>0, <2>1, <2>2 DEF Gate
<1>3. Down'
  BY DEF TrashLoose, Down, process
<1>4. Stages'
  BY DEF TrashLoose, TypeOK, Stages, Threads, process, HasData, At
<1>5. Layers'
  BY DEF TrashLoose, Layers, process
<1>6. VersionNeverAhead'
  BY DEF TrashLoose, VersionNeverAhead, HasData
<1> QED
  BY <1>1, <1>2, <1>3, <1>4, <1>5, <1>6

\* The thread ends.
LEMMA RestoreLooseStep ==
    ASSUME IInv, NEW w \in work, RestoreLoose(w)
    PROVE  IInv'
<1> USE DEF IInv
<1>0. work = {w} /\ job # None /\ AskingAutomatic = {}
  BY OneThread
<1>1. TypeOK'
  <2>1. w \in Threads
    BY DEF TypeOK
  <2>2. \A e \in {"move", "failed", "succeeded", "paused"} : [w EXCEPT !.pc = e] \in Threads
    BY <2>1, MovedThread DEF Ended
  <2>3. work' \subseteq Threads
    BY <1>0, <2>2 DEF RestoreLoose, At
  <2> QED
    BY <2>3 DEF RestoreLoose, TypeOK, process
<1>2. Gate'
  <2>1. \E v \in work' : work' = {v}
    BY <1>0 DEF RestoreLoose, At
  <2>2. job' = job /\ AskingAutomatic' = AskingAutomatic
    BY DEF RestoreLoose, AskingAutomatic
  <2> QED
    BY <1>0, <2>1, <2>2 DEF Gate
<1>3. Down'
  BY DEF RestoreLoose, Down, process
<1>4. Stages'
  BY DEF RestoreLoose, TypeOK, Stages, Threads, process, HasData, At
<1>5. Layers'
  BY DEF RestoreLoose, Layers, process
<1>6. VersionNeverAhead'
  BY DEF RestoreLoose, VersionNeverAhead, HasData
<1> QED
  BY <1>1, <1>2, <1>3, <1>4, <1>5, <1>6

\* The gate passes to an automatic build, or is freed.
LEMMA RegenerateFinishedStep ==
    ASSUME IInv, NEW w \in work, RegenerateFinished(w)
    PROVE  IInv'
<1> USE DEF IInv
<1>0. work = {w} /\ job # None /\ AskingAutomatic = {}
  BY OneThread
<1>1. TypeOK'
  <2>1. Fingerprint \in Fingerprints \cup {None}
    BY FingerprintType
  <2>2. marker \in Markers /\ Started(Fingerprint) \in Markers
    BY <2>1, MarkerTypes DEF TypeOK, Markers
  <2>3. marker' \in Markers
    BY <2>2 DEF RegenerateFinished, MaybeAutomatic
  <2>4. job' \in Kinds \cup {None} /\ modals' = modals
    BY DEF RegenerateFinished, MaybeAutomatic, TypeOK, Kinds, Unclaimed
  <2>5. begun' \subseteq Fingerprints
    BY <2>1 DEF RegenerateFinished, MaybeAutomatic, TypeOK, Claimable
  <2>6. sources \in Collections /\ "auto" \in Kinds
    BY DEF TypeOK, Kinds
  <2>7. Fingerprint # None => Thread("auto", sources, Fingerprint, "pack") \in Threads
    BY <2>1, <2>6, NewThreads
  <2>8. work' \subseteq Threads
    BY <1>0, <2>7 DEF RegenerateFinished, MaybeAutomatic, Claimable
  <2> QED
    BY <2>3, <2>4, <2>5, <2>8 DEF RegenerateFinished, TypeOK, Markers, process
<1>2. Gate'
  <2>1. AskingAutomatic' = {}
    BY <1>0 DEF RegenerateFinished, MaybeAutomatic, AskingAutomatic
  <2>2. (job' = None /\ work' = {}) \/ (job' = "auto" /\ \E v \in work' : work' = {v})
    BY <1>0 DEF RegenerateFinished, MaybeAutomatic, Unclaimed
  <2> QED
    BY <2>1, <2>2, OperationsAssumption DEF Gate, Kinds
<1>3. Down'
  BY DEF RegenerateFinished, Down, process
<1>4. Stages'
  BY DEF RegenerateFinished, Stages, process, HasData, Thread, MaybeAutomatic
<1>5. Layers'
  BY DEF RegenerateFinished, Layers, process
<1>6. VersionNeverAhead'
  BY DEF RegenerateFinished, VersionNeverAhead, HasData
<1> QED
  BY <1>1, <1>2, <1>3, <1>4, <1>5, <1>6

\* The gate is freed before cleanup is offered.
LEMMA PackFinishedStep ==
    ASSUME IInv, NEW w \in work, PackFinished(w)
    PROVE  IInv'
<1> USE DEF IInv
<1>0. work = {w} /\ job # None /\ AskingAutomatic = {}
  BY OneThread
<1>1. TypeOK'
  <2>1. w.fp \in Fingerprints \cup {None}
    BY DEF TypeOK, Threads
  <2>2. marker' \in Markers
    BY <2>1, MarkerTypes DEF PackFinished, TypeOK, Markers
  <2>3. modals' \in Seq(Dialogs)
    <3>1. CASE modals' = modals
      BY <3>1 DEF TypeOK
    <3>2. CASE modals' = <<Dialog("cleanup", None, FALSE)>> \o modals
      BY <3>2, NewDialogs, AskingPushed
    <3> QED
      BY <3>1, <3>2 DEF PackFinished
  <2> QED
    BY <2>2, <2>3 DEF PackFinished, TypeOK, Markers, process, Unclaimed
<1>2. Gate'
  <2>1. job' = None /\ work' = {}
    BY <1>0 DEF PackFinished, Unclaimed
  <2>2. CASE modals' = modals
    BY <1>0, <2>1, <2>2 DEF Gate, AskingAutomatic
  <2>3. CASE modals' = <<Dialog("cleanup", None, FALSE)>> \o modals
    <3>1. AskingAutomatic' = {}
      BY <1>0, <2>3, NewDialogs, AskingPushed
    <3> QED
      BY <2>1, <3>1 DEF Gate
  <2> QED
    BY <2>2, <2>3 DEF PackFinished
<1>3. Down'
  BY DEF PackFinished, Down, process
<1>4. Stages'
  BY <1>0 DEF PackFinished, Stages
<1>5. Layers'
  BY DEF PackFinished, Layers, process
<1>6. VersionNeverAhead'
  BY DEF PackFinished, VersionNeverAhead, HasData
<1> QED
  BY <1>1, <1>2, <1>3, <1>4, <1>5, <1>6

\* The gate is freed.
LEMMA AutomaticFailedStep ==
    ASSUME IInv, NEW w \in work, AutomaticFailed(w)
    PROVE  IInv'
<1> USE DEF IInv
<1>0. work = {w} /\ job # None /\ AskingAutomatic = {}
  BY OneThread
<1>1. TypeOK'
  <2>1. w.fp \in Fingerprints /\ w.pc \in {"paused", "failed"}
    BY DEF AutomaticFailed, TypeOK, Threads
  <2>2. marker' \in Markers
    BY <2>1, MarkerTypes DEF AutomaticFailed
  <2> QED
    BY <2>1, <2>2 DEF AutomaticFailed, TypeOK, Markers, process, Unclaimed
<1>2. Gate'
  BY DEF AutomaticFailed, Gate, Unclaimed, AskingAutomatic
<1>3. Down'
  BY DEF AutomaticFailed, Down, process
<1>4. Stages'
  BY <1>0 DEF AutomaticFailed, Stages
<1>5. Layers'
  BY DEF AutomaticFailed, Layers, process
<1>6. VersionNeverAhead'
  BY DEF AutomaticFailed, VersionNeverAhead, HasData
<1> QED
  BY <1>1, <1>2, <1>3, <1>4, <1>5, <1>6

\* The gate is freed.
LEMMA OperationFinishedStep ==
    ASSUME IInv, NEW w \in work, OperationFinished(w)
    PROVE  IInv'
<1> USE DEF IInv
<1>0. work = {w} /\ job # None /\ AskingAutomatic = {}
  BY OneThread
<1>1. TypeOK'
  BY DEF OperationFinished, TypeOK, Threads, disk, Unclaimed
<1>2. Gate'
  BY DEF OperationFinished, Gate, Unclaimed, AskingAutomatic
<1>3. Down'
  BY DEF OperationFinished, Down
<1>4. Stages'
  BY <1>0 DEF OperationFinished, Stages
<1>5. Layers'
  BY DEF OperationFinished, Stages, Layers, disk
<1>6. VersionNeverAhead'
  BY DEF OperationFinished, VersionNeverAhead, disk, HasData
<1> QED
  BY <1>1, <1>2, <1>3, <1>4, <1>5, <1>6

-----------------------------------------------------------------------------
\* Every step keeps the invariant.
LEMMA InvStep == IInv /\ [Next]_vars => IInv'
<1> SUFFICES ASSUME IInv, [Next]_vars PROVE IInv'
  OBVIOUS
<1>1. CASE Start \/ AttemptInit \/ Crash \/ PutBack
  BY <1>1, StartStep, AttemptInitStep, CrashStep, PutBackStep
<1>2. CASE Menu
  BY <1>2, MenuRegenerateStep, MenuBuildStep, MenuAskStep, MenuRestoreStep DEF Menu
<1>3. CASE Answer
  BY <1>3, AnswerAutomaticStep, AnswerImportStep, AnswerCleanupStep, AnswerRestoreStep
    DEF Answer
<1>4. ASSUME NEW w \in work, Background(w) PROVE IInv'
  BY <1>4, CheckStep, PublishStep, WriteVersionStep, PersistStep, BuildPackStep,
    TrashLooseStep, RestoreLooseStep DEF Background
<1>5. ASSUME NEW w \in work, Callback(w) PROVE IInv'
  BY <1>5, RegenerateFinishedStep, PackFinishedStep, AutomaticFailedStep,
    OperationFinishedStep DEF Callback
<1>6. CASE UNCHANGED vars
  BY <1>6 DEF vars, disk, process, IInv, TypeOK, Gate, Down, Stages, Layers,
    VersionNeverAhead, HasData, AskingAutomatic
<1> QED
  BY <1>1, <1>2, <1>3, <1>4, <1>5, <1>6 DEF Next

\* The invariant holds in every reachable state.
THEOREM InvAlways == Spec => []IInv
  BY InvInit, InvStep, PTL DEF Spec

\* gui.py:54-68 and every callback: never two operations at once, and the gate
\* is free exactly when nothing runs and no automatic build is being asked about.
THEOREM OneJobAtATime == Spec => []GateMatchesWork
<1>1. IInv => GateMatchesWork
  <2> SUFFICES ASSUME IInv PROVE GateMatchesWork
    OBVIOUS
  <2>1. Cardinality({}) = 0 /\ \A x : Cardinality({x}) = 1
    BY FS_EmptySet, FS_Singleton
  <2>2. CASE job = None /\ work = {} /\ AskingAutomatic = {}
    <3>1. Cardinality(work) = 0 /\ Cardinality(AskingAutomatic) = 0
      BY <2>1, <2>2
    <3> QED
      BY <2>2, <3>1 DEF GateMatchesWork
  <2>3. ASSUME job # None, NEW w \in work, work = {w}, AskingAutomatic = {}
        PROVE  GateMatchesWork
    <3>1. Cardinality(work) = 1 /\ Cardinality(AskingAutomatic) = 0
      BY <2>1, <2>3
    <3> QED
      BY <2>3, <3>1 DEF GateMatchesWork
  <2>4. ASSUME job # None, work = {},
               NEW i \in 1 .. Len(modals), AskingAutomatic = {i}
        PROVE  GateMatchesWork
    <3>1. Cardinality(work) = 0 /\ Cardinality(AskingAutomatic) = 1
      BY <2>1, <2>4
    <3> QED
      BY <2>4, <3>1 DEF GateMatchesWork
  <2> QED
    BY <2>2, <2>3, <2>4 DEF IInv, Gate
<1> QED
  BY InvAlways, <1>1, PTL

\* migration.py:368-381, db_utils.py:267-271: the state is well formed, the
\* configuration and the version file are never ahead of the database, and disk,
\* process and server name the same folders, wherever an operation fails or
\* Anki dies.
THEOREM AlwaysConsistent == Spec => []Consistent
<1>1. IInv => Consistent
  BY DEF IInv, Layers, Consistent, ConfigNeverAhead, LayersAgree
<1> QED
  BY InvAlways, <1>1, PTL

-----------------------------------------------------------------------------
(* What is remembered, and what is frozen *)

\* What was refused, or begun and not settled, is the automatic build of the
\* collection in place, and the marker says so.
Remembers ==
    /\ refused \subseteq {Fingerprint} \ {None} /\ begun \subseteq {Fingerprint} \ {None}
    /\ refused # {} => marker.fp = Fingerprint /\ marker.status \in {"failed", "declined"}
    /\ begun # {} => marker.fp = Fingerprint /\ marker.status \in {"started", "paused"}

\* An automatic build that is asked about, or runs, has the claim.
Claimed(fp) == fp = Fingerprint /\ fp # None /\ marker.fp = fp /\ marker.status = "started"
OneClaim ==
    /\ \A i \in AskingAutomatic : Claimed(modals[i].fp)
    /\ \A w \in work : w.kind = "auto" => w.pc \in {"pack"} \cup Ended /\ Claimed(w.fp)

\* The claim of an earlier process can be told from one of this process.
Owned ==
    /\ marker.owner <= starts
    /\ boot = "starting" => marker.owner < starts

\* What goes on to record a version has looked at the packed-only state, which
\* only another operation could have changed since.
Unfrozen == \A w \in work : w.pc = "version" => ~Protected

MemoryInv == Remembers /\ OneClaim /\ Owned /\ Unfrozen

\* The fingerprint is that of the database and the folders in use.
LEMMA SameFingerprint ==
    ASSUME UNCHANGED <<db, sources>>
    PROVE  Fingerprint' = Fingerprint
BY DEF Fingerprint, HasData, Stamped

\* What was refused or begun stays so while nothing it depends on changes.
LEMMA StillRemembers ==
    ASSUME Remembers, UNCHANGED <<marker, refused, begun>>, Fingerprint' = Fingerprint
    PROVE  Remembers'
BY DEF Remembers

\* The same of the claims, when no automatic build begins.
LEMMA StillClaimed ==
    ASSUME OneClaim, marker' = marker, Fingerprint' = Fingerprint,
           \A i \in AskingAutomatic' :
              \E j \in AskingAutomatic : modals'[i].fp = modals[j].fp,
           \A w \in work' : w.kind = "auto" => w \in work
    PROVE  OneClaim'
BY DEF OneClaim, Claimed

\* And of the rest.
LEMMA StillOwned ==
    ASSUME Owned, marker' = marker, starts' = starts, boot' = boot \/ boot' # "starting"
    PROVE  Owned'
BY DEF Owned

\* One thread goes on.
LEMMA ThreadGoesOn ==
    ASSUME IInv, OneClaim, Owned, NEW w \in work,
           NEW pc \in {"check", "publish", "version", "persist", "pack",
                       "inspect", "move", "restore"} \cup Ended,
           At(w, pc), modals' = modals, marker' = marker, starts' = starts, boot' = boot,
           w.kind = "auto" => Fingerprint' = Fingerprint /\ pc \in {"pack"} \cup Ended,
           pc = "version" => ~Protected'
    PROVE  OneClaim' /\ Owned' /\ Unfrozen'
<1>1. work = {w} /\ AskingAutomatic = {} /\ w \in Threads
  BY OneThread DEF IInv, TypeOK
<1>2. PICK v \in Threads : /\ v = [w EXCEPT !.pc = pc]
                           /\ v.pc = pc /\ v.kind = w.kind /\ v.fp = w.fp
  BY <1>1, MovedThread
<1>3. work' = {v}
  BY <1>1, <1>2 DEF At
<1>4. AskingAutomatic' = {}
  BY <1>1 DEF AskingAutomatic
<1>5. OneClaim'
  BY <1>1, <1>2, <1>3, <1>4 DEF OneClaim, Claimed
<1>6. Owned'
  BY DEF Owned
<1>7. Unfrozen'
  BY <1>2, <1>3 DEF Unfrozen
<1> QED
  BY <1>5, <1>6, <1>7

\* Nothing runs or is asked after the step, and the claim is settled or stays.
LEMMA NothingRuns ==
    ASSUME TypeOK, Owned, work' = {}, AskingAutomatic' = {},
           marker'.owner \in {0, marker.owner},
           starts' = starts, boot' = boot \/ boot' # "starting"
    PROVE  OneClaim' /\ Owned' /\ Unfrozen'
<1>1. marker.owner \in Nat /\ starts \in Nat
  BY OperationsAssumption DEF TypeOK
<1>2. Owned'
  BY <1>1 DEF Owned
<1> QED
  BY <1>2 DEF OneClaim, Unfrozen

\* A thread that is launched by the menu or a dialog has no claim to make.
LEMMA Launched ==
    ASSUME IInv, MemoryInv, NEW t, t.kind # "auto", t.pc # "version",
           work' = work \cup {t} \/ work' = work, UNCHANGED <<disk, process, refused, begun>>,
           \A i \in AskingAutomatic' :
              \E j \in AskingAutomatic : modals'[i].fp = modals[j].fp
    PROVE  MemoryInv'
<1> USE DEF MemoryInv
<1>1. UNCHANGED <<db, sources, marker, cleanup, starts, boot>>
  BY DEF disk, process
<1>2. Fingerprint' = Fingerprint
  BY <1>1, SameFingerprint
<1>3. Remembers'
  BY <1>1, <1>2, StillRemembers
<1>4. OneClaim'
  BY <1>1, <1>2, StillClaimed
<1>5. Unfrozen'
  BY <1>1 DEF Unfrozen, Protected
<1> QED
  BY <1>1, <1>3, <1>4, <1>5, StillOwned

\* Closing a dialog asks nothing new.
LEMMA PoppedAsks ==
    ASSUME TypeOK, modals # <<>>, modals' = Tail(modals)
    PROVE  \A i \in AskingAutomatic' :
              \E j \in AskingAutomatic : modals'[i].fp = modals[j].fp
<1> SUFFICES ASSUME NEW i \in AskingAutomatic'
             PROVE  \E j \in AskingAutomatic : modals'[i].fp = modals[j].fp
  OBVIOUS
<1>1. i \in {j - 1 : j \in AskingAutomatic \ {1}}
  BY AskingPopped
<1>2. PICK j \in AskingAutomatic \ {1} : i = j - 1
  BY <1>1
<1>3. modals \in Seq(Dialogs) /\ i \in 1 .. Len(Tail(modals))
  BY DEF TypeOK, AskingAutomatic
<1>4. Tail(modals)[i] = modals[i + 1]
  BY <1>3, PopDialog
<1>5. i + 1 = j
  BY <1>2 DEF AskingAutomatic
<1> QED
  BY <1>2, <1>4, <1>5

\* Anki starts with no work and no dialogs.
LEMMA StartRemembers ==
    ASSUME IInv, MemoryInv, Start
    PROVE  MemoryInv'
<1> USE DEF MemoryInv, IInv
<1>1. work' = {} /\ modals' = <<>> /\ starts' = starts + 1
  BY DEF Start, Down
<1>2. UNCHANGED <<db, sources, marker, refused, begun>>
  BY DEF Start, disk, Layers
<1>3. Remembers'
  BY <1>2, SameFingerprint, StillRemembers
<1>4. marker.owner \in Nat /\ starts \in Nat
  BY OperationsAssumption DEF TypeOK
<1>5. Owned'
  BY <1>1, <1>2, <1>4 DEF Owned
<1> QED
  BY <1>1, <1>3, <1>5 DEF OneClaim, Unfrozen, AskingAutomatic

\* What a claim leaves in the marker.
LEMMA ClaimMade ==
    ASSUME TypeOK, NEW fp
    PROVE  /\ Started(fp).fp = fp /\ Started(fp).status = "started"
           /\ Started(fp).owner = starts
           /\ Started(fp).resumed =
                 (marker.fp = fp /\ marker.status \in {"started", "paused"})
BY DEF Started

\* A claim is made only of what was not refused.
LEMMA ClaimFits ==
    ASSUME Remembers, Claimable(Fingerprint)
    PROVE  refused = {} /\ Fingerprint # None
BY DEF Remembers, Claimable

\* When the add-on has come up, an automatic build may have been claimed and be
\* asked about.
LEMMA ComeUpRemembers ==
    ASSUME IInv, MemoryInv, AttemptInit
    PROVE  MemoryInv'
<1> USE DEF MemoryInv, IInv
<1>0. /\ UNCHANGED <<db, sources, cleanup, starts, refused>> /\ boot = "starting"
      /\ boot' = "up" /\ work = {} /\ modals = <<>>
  BY DEF AttemptInit, Down
<1>1. Fingerprint' = Fingerprint
  BY <1>0, SameFingerprint
<1>2. CASE MaybeAutomatic(TRUE, work) /\ ~(runtime /\ ~Protected /\ Claimable(Fingerprint))
  <2>1. UNCHANGED <<marker, modals, begun>> /\ work' = {}
    BY <1>0, <1>2 DEF MaybeAutomatic
  <2>2. AskingAutomatic' = {}
    BY <1>0, <2>1 DEF AskingAutomatic
  <2> QED
    BY <1>0, <1>1, <2>1, <2>2, StillRemembers, NothingRuns
<1>3. CASE MaybeAutomatic(TRUE, work) /\ runtime /\ ~Protected /\ Claimable(Fingerprint)
  <2>1. /\ marker' = Started(Fingerprint) /\ work' = {} /\ begun' = begun
        /\ modals' = <<Dialog("auto", Fingerprint, marker'.resumed)>>
    BY <1>0, <1>3 DEF MaybeAutomatic
  <2>2. refused = {} /\ Fingerprint # None
    BY <1>3, ClaimFits
  <2>3. /\ marker'.fp = Fingerprint /\ marker'.status = "started"
        /\ marker'.owner = starts /\ starts \in Nat
    BY <2>1, ClaimMade, OperationsAssumption DEF TypeOK
  <2>4. Remembers'
    BY <1>0, <1>1, <2>1, <2>2, <2>3 DEF Remembers
  <2>5. \A i \in AskingAutomatic' : modals'[i].fp = Fingerprint
    BY <2>1 DEF AskingAutomatic, Dialog
  <2>6. OneClaim'
    BY <1>1, <2>1, <2>2, <2>3, <2>5 DEF OneClaim, Claimed
  <2> QED
    BY <1>0, <2>1, <2>3, <2>4, <2>6 DEF Owned, Unfrozen
<1>4. CASE /\ UNCHANGED <<marker, begun>>
           /\ work' = {} \/ work' = {Thread("regenerate", sources, None, "check")}
           /\ modals' = <<>> \/ \E ask \in {"restore", "cleanup"} :
                                  modals' = <<Dialog(ask, None, FALSE)>>
  <2>1. AskingAutomatic' = {}
    BY <1>4 DEF AskingAutomatic, Dialog
  <2>2. OneClaim' /\ Unfrozen'
    BY <1>4, <2>1 DEF OneClaim, Unfrozen, Thread
  <2>3. Owned'
    BY <1>0, <1>4, StillOwned
  <2> QED
    BY <1>0, <1>1, <1>4, <2>2, <2>3, StillRemembers
<1> QED
  BY <1>0, <1>2, <1>3, <1>4 DEF AttemptInit, Launch

\* The death of the process ends what runs and what is asked.
LEMMA CrashRemembers ==
    ASSUME IInv, MemoryInv, Crash
    PROVE  MemoryInv'
<1> USE DEF MemoryInv, IInv
<1>1. work' = {} /\ modals' = <<>> /\ boot' = "off"
      /\ UNCHANGED <<db, sources, marker, starts, refused, begun>>
  BY DEF Crash
<1>2. AskingAutomatic' = {}
  BY <1>1 DEF AskingAutomatic
<1> QED
  BY <1>1, <1>2, SameFingerprint, StillRemembers, NothingRuns

\* Files put back by hand leave the collection alone.
LEMMA PutBackRemembers ==
    ASSUME IInv, MemoryInv, PutBack
    PROVE  MemoryInv'
<1> USE DEF MemoryInv, IInv
<1>1. UNCHANGED <<db, sources, marker, starts, boot, work, modals, refused, begun>>
      /\ Protected
  BY OperationsAssumption DEF PutBack, process, Protected, TypeOK
<1>2. Fingerprint' = Fingerprint
  BY <1>1, SameFingerprint
<1>3. OneClaim'
  BY <1>1, <1>2 DEF OneClaim, Claimed, AskingAutomatic
<1>4. Unfrozen'
  BY <1>1 DEF Unfrozen
<1> QED
  BY <1>1, <1>2, <1>3, <1>4, StillRemembers, StillOwned

\* What the menu starts or asks has no claim.
LEMMA MenuRemembers ==
    ASSUME IInv, MemoryInv, Menu
    PROVE  MemoryInv'
<1> DEFINE r == Thread("regenerate", sources, None, "check")
           b == Thread("build", sources, None, "pack")
           p == Thread("restore", sources, None, "restore")
<1>1. r.kind # "auto" /\ b.kind # "auto" /\ p.kind # "auto"
      /\ r.pc # "version" /\ b.pc # "version" /\ p.pc # "version"
  BY DEF Thread
<1>2. UNCHANGED <<disk, process, refused, begun>>
  BY DEF Menu, MenuRegenerate, MenuBuild, MenuAsk, MenuRestore
<1>3. work' = work \/ work' = work \cup {r} \/ work' = work \cup {b}
      \/ work' = work \cup {p}
  BY DEF Menu, MenuRegenerate, MenuBuild, MenuAsk, MenuRestore, Launch
<1>4. modals' = modals \/ AskingAutomatic' = {}
  BY DEF Menu, MenuRegenerate, MenuBuild, MenuAsk, MenuRestore, AskingAutomatic, Dialog
<1>5. \A i \in AskingAutomatic' : \E j \in AskingAutomatic : modals'[i].fp = modals[j].fp
  BY <1>4 DEF AskingAutomatic
<1> HIDE DEF r, b, p
<1> QED
  BY <1>1, <1>2, <1>3, <1>5, Launched

\* Dialogs about other things start no automatic build.
LEMMA AnswerRemembers ==
    ASSUME IInv, MemoryInv, AnswerImport \/ AnswerCleanup \/ AnswerRestore
    PROVE  MemoryInv'
<1>1. modals # <<>> /\ modals' = Tail(modals) /\ UNCHANGED <<disk, process, refused, begun>>
  BY DEF AnswerImport, AnswerCleanup, AnswerRestore, Top
<1>2. PICK t : /\ t.kind # "auto" /\ t.pc # "version"
               /\ work' = work \cup {t} \/ work' = work
  <2>1. CASE work' = work
    <3>1. Thread("restore", sources, None, "restore").kind # "auto"
          /\ Thread("restore", sources, None, "restore").pc # "version"
      BY DEF Thread
    <3> QED
      BY <2>1, <3>1
  <2>2. ASSUME NEW k \in {"import", "cleanup", "restore"}, NEW c,
               NEW p \in {"check", "inspect", "restore"}, Launch(Thread(k, c, None, p))
        PROVE  \E t : /\ t.kind # "auto" /\ t.pc # "version"
                      /\ work' = work \cup {t} \/ work' = work
    <3>1. Thread(k, c, None, p).kind # "auto" /\ Thread(k, c, None, p).pc # "version"
      BY DEF Thread
    <3> QED
      BY <2>2, <3>1 DEF Launch
  <2> QED
    BY <2>1, <2>2 DEF AnswerImport, AnswerCleanup, AnswerRestore
<1> QED
  BY <1>1, <1>2, PoppedAsks, Launched DEF IInv

\* The automatic build begins, or is refused, as was asked.
LEMMA AnswerAutomaticRemembers ==
    ASSUME IInv, MemoryInv, AnswerAutomatic
    PROVE  MemoryInv'
<1> USE DEF MemoryInv, IInv
<1> DEFINE fp == Head(modals).fp
<1>1. modals # <<>> /\ modals' = Tail(modals) /\ Head(modals).ask = "auto"
      /\ UNCHANGED <<db, sources, cleanup, starts, boot>>
  BY DEF AnswerAutomatic, Top, process
<1>2. modals \in Seq(Dialogs) /\ Head(modals) = modals[1]
  BY <1>1, PopDialog DEF TypeOK
<1>3. 1 \in AskingAutomatic
  BY <1>1, AskingPopped
<1>4. AskingAutomatic = {1} /\ work = {}
  BY <1>3 DEF Gate
<1>5. Claimed(fp)
  BY <1>2, <1>3 DEF OneClaim
<1>6. AskingAutomatic' = {}
  BY <1>1, <1>4, AskingPopped
<1>7. Fingerprint' = Fingerprint
  BY <1>1, SameFingerprint
<1>8. fp = Fingerprint /\ fp # None /\ refused = {}
  BY <1>5 DEF Claimed, Remembers
<1> HIDE DEF fp
<1>9. CASE /\ work' = work \cup {Thread("auto", sources, fp, "pack")}
           /\ begun' = begun \cup {fp} /\ UNCHANGED <<marker, job, refused>>
  <2>1. Remembers'
    BY <1>5, <1>7, <1>8, <1>9 DEF Remembers, Claimed
  <2>2. Thread("auto", sources, fp, "pack").pc = "pack"
        /\ Thread("auto", sources, fp, "pack").fp = fp
    BY DEF Thread
  <2>3. OneClaim' /\ Unfrozen'
    BY <1>4, <1>5, <1>6, <1>7, <1>9, <2>2 DEF OneClaim, Claimed, Unfrozen
  <2> QED
    BY <1>1, <1>9, <2>1, <2>3, StillOwned
<1>10. CASE \E status \in {"declined", "failed"} :
                /\ marker' = Settled(fp, status)
                /\ refused' = refused \cup {fp} /\ begun' = begun \ {fp}
                /\ UNCHANGED work
  <2>1. PICK status \in {"declined", "failed"} : marker' = Settled(fp, status)
    BY <1>10
  <2>2. marker'.fp = fp /\ marker'.status \in {"declined", "failed"} /\ marker'.owner = 0
    BY <2>1 DEF Settled
  <2>3. begun' = {} /\ refused' = {fp}
    BY <1>8, <1>10 DEF Remembers
  <2>4. Remembers'
    BY <1>7, <1>8, <2>2, <2>3 DEF Remembers
  <2> QED
    BY <1>1, <1>4, <1>6, <1>10, <2>2, <2>4, NothingRuns
<1> QED
  BY <1>9, <1>10 DEF AnswerAutomatic, fp

\* The stages of an operation.
LEMMA BackgroundRemembers ==
    ASSUME IInv, MemoryInv, NEW w \in work, Background(w)
    PROVE  MemoryInv'
<1> USE DEF MemoryInv, IInv
<1>0. w \in Threads /\ modals' = modals /\ marker' = marker /\ starts' = starts
      /\ boot' = boot
  BY DEF TypeOK, Background, Check, Publish, WriteVersion, Persist, BuildPack, TrashLoose,
         RestoreLoose, disk, process
<1>1. w.kind = "auto" => w.pc \in {"pack"} \cup Ended
  BY DEF OneClaim
<1>2. CASE Check(w)
  <2>1. UNCHANGED <<db, sources, cleanup, refused, begun>> /\ w.kind # "auto"
    BY <1>1, <1>2 DEF Check, disk, process, Ended
  <2>2. PICK pc \in {"publish", "version"} \cup Ended :
           At(w, pc) /\ (pc = "version" => ~Protected)
    BY <1>2 DEF Check, AfterCheck, Blocked, Ended
  <2>3. ~Protected => ~Protected'
    BY <2>1 DEF Protected
  <2> QED
    BY <1>0, <2>1, <2>2, <2>3, SameFingerprint, StillRemembers, ThreadGoesOn
<1>3. CASE Publish(w)
  <2>1. cleanup' = cleanup /\ sources' = sources /\ w.kind # "auto"
    BY <1>1, <1>3 DEF Publish, process, Ended
  <2>2. PICK pc \in {"version"} \cup Ended :
           At(w, pc) /\ (pc = "version" => ~Protected)
           /\ (\/ pc = "version" /\ refused' = {} /\ begun' = {}
               \/ UNCHANGED <<db, refused, begun>>)
    BY <1>3 DEF Publish, Blocked, Ended
  <2>3. ~Protected => ~Protected'
    BY <2>1 DEF Protected
  <2>4. Remembers'
    <3>1. CASE refused' = {} /\ begun' = {}
      BY <3>1 DEF Remembers
    <3>2. CASE UNCHANGED <<db, refused, begun>>
      BY <1>0, <2>1, <3>2, SameFingerprint, StillRemembers
    <3> QED
      BY <2>2, <3>1, <3>2
  <2> QED
    BY <1>0, <2>1, <2>2, <2>3, <2>4, ThreadGoesOn
<1>4. CASE WriteVersion(w)
  <2>1. /\ cleanup' = cleanup /\ sources' = sources /\ w.kind # "auto"
        /\ UNCHANGED <<refused, begun>> /\ HasData
    BY <1>1, <1>4 DEF WriteVersion, process, Ended, Stages
  <2>2. PICK pc \in {"persist", "succeeded"} : At(w, pc)
    BY <1>4 DEF WriteVersion
  <2>3. HasData' /\ db'.coll = db.coll /\ db'.stamp = db.stamp
    <3>1. db \in Databases
      BY <2>1 DEF TypeOK, HasData
    <3>2. PICK d : d = [db EXCEPT !.seen = TRUE]
      OBVIOUS
    <3>3. d \in Databases /\ d.coll = db.coll /\ d.stamp = db.stamp
      BY <3>1, <3>2 DEF Databases
    <3>4. db' = d \/ db' = db
      BY <1>4, <3>2 DEF WriteVersion
    <3> QED
      BY <2>1, <3>3, <3>4, OperationsAssumption DEF HasData
  <2>4. Fingerprint' = Fingerprint
    BY <2>1, <2>3 DEF Fingerprint, Stamped
  <2> QED
    BY <1>0, <2>1, <2>2, <2>4, StillRemembers, ThreadGoesOn DEF Ended
<1>5. CASE Persist(w)
  <2>1. w.kind # "auto" /\ UNCHANGED <<db, cleanup>>
    BY <1>1, <1>5 DEF Persist, Ended
  <2>2. PICK pc \in {"pack", "failed"} :
           At(w, pc) /\ (\/ refused' = {} /\ begun' = {}
                         \/ UNCHANGED <<sources, refused, begun>>)
    BY <1>5 DEF Persist
  <2>3. Remembers'
    <3>1. CASE refused' = {} /\ begun' = {}
      BY <3>1 DEF Remembers
    <3>2. CASE UNCHANGED <<sources, refused, begun>>
      BY <1>0, <2>1, <3>2, SameFingerprint, StillRemembers
    <3> QED
      BY <2>2, <3>1, <3>2
  <2> QED
    BY <1>0, <2>1, <2>2, <2>3, ThreadGoesOn DEF Ended
<1>6. CASE BuildPack(w) \/ TrashLoose(w) \/ RestoreLoose(w)
  <2>1. UNCHANGED <<db, sources, refused, begun>>
    BY <1>6 DEF BuildPack, TrashLoose, RestoreLoose, process
  <2>2. PICK pc \in {"move"} \cup Ended :
           At(w, pc) /\ (w.kind = "auto" => pc \in {"pack"} \cup Ended)
    BY <1>1, <1>6 DEF BuildPack, TrashLoose, RestoreLoose, Ended
  <2>3. Fingerprint' = Fingerprint
    BY <2>1, SameFingerprint
  <2>4. Remembers'
    BY <1>0, <2>1, <2>3, StillRemembers
  <2>5. OneClaim' /\ Owned' /\ Unfrozen'
    BY <1>0, <2>2, <2>3, ThreadGoesOn DEF Ended
  <2> QED
    BY <2>4, <2>5
<1> QED
  BY <1>2, <1>3, <1>4, <1>5, <1>6 DEF Background

\* The end of an operation.
LEMMA CallbackRemembers ==
    ASSUME IInv, MemoryInv, NEW w \in work, Callback(w)
    PROVE  MemoryInv'
<1> USE DEF MemoryInv, IInv
<1>0. work = {w} /\ AskingAutomatic = {} /\ w \in Threads
  BY OneThread DEF TypeOK
<1>1. CASE RegenerateFinished(w)
  <2>1. UNCHANGED <<db, sources, cleanup, starts, boot, refused>> /\ modals' = modals
        /\ MaybeAutomatic(FALSE, {})
    BY <1>0, <1>1 DEF RegenerateFinished, process, MaybeAutomatic
  <2>2. Fingerprint' = Fingerprint /\ AskingAutomatic' = {}
    BY <1>0, <2>1, SameFingerprint DEF AskingAutomatic
  <2>3. CASE ~(runtime /\ ~Protected /\ Claimable(Fingerprint))
    <3>1. work' = {} /\ UNCHANGED <<marker, begun>>
      BY <2>1, <2>3 DEF MaybeAutomatic
    <3> QED
      BY <2>1, <2>2, <3>1, StillRemembers, NothingRuns
  <2>4. CASE runtime /\ ~Protected /\ Claimable(Fingerprint)
    <3>1. /\ marker' = Started(Fingerprint) /\ begun' = begun \cup {Fingerprint}
          /\ work' = {Thread("auto", sources, Fingerprint, "pack")}
      BY <2>1, <2>4 DEF MaybeAutomatic
    <3>2. refused = {} /\ Fingerprint # None
      BY <2>4, ClaimFits
    <3>3. /\ marker'.fp = Fingerprint /\ marker'.status = "started"
          /\ marker'.owner = starts /\ starts \in Nat
      BY <3>1, ClaimMade, OperationsAssumption DEF TypeOK
    <3>4. Remembers'
      BY <2>1, <2>2, <3>1, <3>2, <3>3 DEF Remembers
    <3>5. Thread("auto", sources, Fingerprint, "pack").pc = "pack"
          /\ Thread("auto", sources, Fingerprint, "pack").fp = Fingerprint
      BY DEF Thread
    <3>6. OneClaim' /\ Unfrozen'
      BY <2>2, <3>1, <3>2, <3>3, <3>5 DEF OneClaim, Claimed, Unfrozen
    <3>7. boot = "up"
      BY <1>0 DEF Down
    <3> QED
      BY <2>1, <3>3, <3>4, <3>6, <3>7 DEF Owned
  <2> QED
    BY <2>3, <2>4
<1>2. CASE PackFinished(w)
  <2>1. UNCHANGED <<db, sources, starts, boot, refused>> /\ work' = {}
        /\ begun' = begun \ {w.fp}
    BY <1>0, <1>2 DEF PackFinished, process
  <2>2. AskingAutomatic' = {}
    <3>1. CASE modals' = modals
      BY <1>0, <3>1 DEF AskingAutomatic
    <3>2. CASE modals' = <<Dialog("cleanup", None, FALSE)>> \o modals
      BY <1>0, <3>2, NewDialogs, AskingPushed
    <3> QED
      BY <1>2, <3>1, <3>2 DEF PackFinished
  <2>3. Fingerprint' = Fingerprint
    BY <2>1, SameFingerprint
  <2>4. CASE w.kind = "auto"
    <3>1. Claimed(w.fp) /\ marker' = Settled(w.fp, "completed")
      BY <1>2, <2>4 DEF OneClaim, PackFinished
    <3>2. refused' = {} /\ begun' = {} /\ marker'.owner = 0
      BY <2>1, <3>1 DEF Remembers, Claimed, Settled
    <3>3. Remembers'
      BY <3>2 DEF Remembers
    <3> QED
      BY <2>1, <2>2, <3>2, <3>3, NothingRuns
  <2>5. CASE w.kind # "auto"
    <3>1. marker' = marker /\ begun' \subseteq begun
      BY <1>2, <2>1, <2>5 DEF PackFinished
    <3>2. Remembers'
      BY <2>1, <2>3, <3>1 DEF Remembers
    <3> QED
      BY <2>1, <2>2, <3>1, <3>2, NothingRuns
  <2> QED
    BY <2>4, <2>5
<1>3. CASE AutomaticFailed(w)
  <2>1. UNCHANGED <<db, sources, starts, boot, modals>> /\ work' = {}
    BY <1>0, <1>3 DEF AutomaticFailed, process
  <2>2. AskingAutomatic' = {} /\ Fingerprint' = Fingerprint
    BY <1>0, <2>1, SameFingerprint DEF AskingAutomatic
  <2>3. Claimed(w.fp) /\ marker' = Settled(w.fp, w.pc)
    BY <1>3 DEF OneClaim, AutomaticFailed
  <2>4. marker'.fp = w.fp /\ marker'.status = w.pc /\ marker'.owner = 0 /\ refused = {}
    BY <2>3 DEF Settled, Remembers, Claimed
  <2>5. \/ w.pc = "failed" /\ refused' = {w.fp} /\ begun' = {}
        \/ w.pc = "paused" /\ refused' = {} /\ begun' = begun
    BY <1>3, <2>3, <2>4 DEF AutomaticFailed, Remembers, Claimed
  <2>6. Remembers'
    BY <2>2, <2>3, <2>4, <2>5 DEF Remembers, Claimed
  <2> QED
    BY <2>1, <2>2, <2>4, <2>6, NothingRuns
<1>4. CASE OperationFinished(w)
  <2>1. UNCHANGED <<db, marker, starts, boot, modals, refused, begun>> /\ work' = {}
    BY <1>0, <1>4 DEF OperationFinished, disk
  <2>2. sources' = sources
    BY <1>4 DEF OperationFinished, Stages
  <2>3. AskingAutomatic' = {}
    BY <1>0, <2>1 DEF AskingAutomatic
  <2> QED
    BY <2>1, <2>2, <2>3, SameFingerprint, StillRemembers, NothingRuns
<1> QED
  BY <1>1, <1>2, <1>3, <1>4 DEF Callback

\* The invariant holds first and is kept.
LEMMA MemoryInit == Init => MemoryInv
<1> SUFFICES ASSUME Init PROVE MemoryInv
  OBVIOUS
<1> QED
  BY DEF Init, MemoryInv, Remembers, OneClaim, Owned, Unfrozen, AskingAutomatic

\* Every step keeps it.
LEMMA MemoryStep == IInv /\ MemoryInv /\ [Next]_vars => MemoryInv'
<1> SUFFICES ASSUME IInv, MemoryInv, [Next]_vars PROVE MemoryInv'
  OBVIOUS
<1>1. CASE Start \/ AttemptInit \/ Crash \/ PutBack
  BY <1>1, StartRemembers, ComeUpRemembers, CrashRemembers, PutBackRemembers
<1>2. CASE Menu
  BY <1>2, MenuRemembers
<1>3. CASE Answer
  BY <1>3, AnswerRemembers, AnswerAutomaticRemembers DEF Answer
<1>4. ASSUME NEW w \in work, Background(w) \/ Callback(w) PROVE MemoryInv'
  BY <1>4, BackgroundRemembers, CallbackRemembers
<1>5. CASE UNCHANGED vars
  BY <1>5 DEF vars, disk, process, MemoryInv, Remembers, OneClaim, Owned, Unfrozen,
    Claimed, Fingerprint, HasData, Stamped, Protected, AskingAutomatic
<1> QED
  BY <1>1, <1>2, <1>3, <1>4, <1>5 DEF Next

\* What was refused or interrupted is remembered in every reachable state.
THEOREM MemoryAlways == Spec => []MemoryInv
  BY InvAlways, MemoryInit, MemoryStep, PTL DEF Spec

\* migration.py:315-320, :372-375, db_utils.py:219-223: while the originals are
\* away no operation changes the database, the pack or the source folders,
\* however long before it was started.
THEOREM FrozenWhileAway == Spec => PackedOnlyFrozen
<1>1. IInv /\ MemoryInv /\ [Next]_vars =>
        [Protected /\ Protected' => UNCHANGED <<db, pack, config>>]_vars
  <2> SUFFICES ASSUME IInv, MemoryInv, Next, Protected, Protected'
               PROVE  UNCHANGED <<db, pack, config>>
    OBVIOUS
  <2>1. CASE Start \/ AttemptInit \/ Crash \/ PutBack
    BY <2>1 DEF Start, AttemptInit, Crash, PutBack, disk
  <2>2. CASE Menu \/ Answer
    BY <2>2 DEF Menu, MenuRegenerate, MenuBuild, MenuAsk, MenuRestore, Answer,
      AnswerAutomatic, AnswerImport, AnswerCleanup, AnswerRestore, disk
  <2>3. ASSUME NEW w \in work, Callback(w) PROVE UNCHANGED <<db, pack, config>>
    BY <2>3 DEF Callback, RegenerateFinished, PackFinished, AutomaticFailed,
      OperationFinished, disk
  <2>4. ASSUME NEW w \in work, Background(w) PROVE UNCHANGED <<db, pack, config>>
    <3>1. ~WriteVersion(w)
      BY DEF MemoryInv, Unfrozen, WriteVersion
    <3> QED
      BY <2>4, <3>1 DEF Background, Check, Publish, Persist, BuildPack, TrashLoose,
        RestoreLoose, Blocked, Protected, disk
  <2> QED
    BY <2>1, <2>2, <2>3, <2>4 DEF Next
<1> QED
  BY <1>1, InvAlways, MemoryAlways, PTL DEF Spec, PackedOnlyFrozen

\* gui.py:319, :370-378, migration.py:489-502: what was declined or failed is not
\* claimed again until the collection changes, and what was interrupted is
\* offered by the next start that has nothing else to do first.
THEOREM AutomaticBuildRemembered == Spec => AutomaticRemembered
<1>1. IInv /\ MemoryInv /\ [Next]_vars => [Refuses /\ Resumes]_vars
  <2> SUFFICES ASSUME IInv, MemoryInv, Next
               PROVE  Refuses /\ Resumes
    OBVIOUS
  <2>1. Refuses
    <3>1. CASE marker' = marker \/ marker'.status # "started"
      BY <3>1 DEF Refuses
    <3>2. CASE \E confirm \in BOOLEAN : \E others : MaybeAutomatic(confirm, others)
      BY <3>2, ClaimFits DEF Refuses, MemoryInv, MaybeAutomatic
    <3>3. \/ marker' = marker \/ marker'.status # "started"
          \/ \E confirm \in BOOLEAN : \E others : MaybeAutomatic(confirm, others)
      <4>1. CASE Start \/ Crash \/ PutBack \/ Menu
        BY <4>1 DEF Start, Crash, PutBack, Menu, MenuRegenerate, MenuBuild, MenuAsk,
          MenuRestore, disk
      <4>2. CASE AttemptInit
        BY <4>2 DEF AttemptInit
      <4>3. CASE Answer
        BY <4>3 DEF Answer, AnswerAutomatic, AnswerImport, AnswerCleanup, AnswerRestore,
          disk, Settled
      <4>4. ASSUME NEW w \in work, Background(w) PROVE marker' = marker
        BY <4>4 DEF Background, Check, Publish, WriteVersion, Persist, BuildPack,
          TrashLoose, RestoreLoose, disk
      <4>5. ASSUME NEW w \in work, RegenerateFinished(w)
            PROVE  \E others : MaybeAutomatic(FALSE, others)
        BY <4>5 DEF RegenerateFinished
      <4>6. ASSUME NEW w \in work, PackFinished(w) \/ AutomaticFailed(w)
            PROVE  marker' = marker \/ marker'.status # "started"
        BY <4>6 DEF PackFinished, AutomaticFailed, Settled
      <4>7. ASSUME NEW w \in work, OperationFinished(w)
            PROVE  marker' = marker
        BY <4>7 DEF OperationFinished, disk
      <4> QED
        BY <4>1, <4>2, <4>3, <4>4, <4>5, <4>6, <4>7 DEF Next, Callback
    <3> QED
      BY <3>1, <3>2, <3>3
  <2>2. Resumes
    <3> SUFFICES ASSUME boot = "starting", boot' = "up", Unhindered, Fingerprint \in begun
                 PROVE  modals' = <<Dialog("auto", Fingerprint, TRUE)>>
      BY DEF Resumes
    <3>1. work = {} /\ modals = <<>> /\ HasData /\ Fingerprint # None
          /\ marker.fp = Fingerprint /\ marker.status \in {"started", "paused"}
          /\ marker.owner # starts
      <4>1. marker.owner < starts /\ marker.owner \in Nat /\ starts \in Nat
        BY OperationsAssumption DEF MemoryInv, Owned, IInv, TypeOK
      <4> QED
        BY <4>1 DEF IInv, Down, MemoryInv, Remembers, Fingerprint
    <3>2. Claimable(Fingerprint)
      BY <3>1 DEF Claimable, Unhindered
    <3>3. AttemptInit
      BY <3>1 DEF Next, Start, Crash, PutBack, Menu, MenuRegenerate, MenuBuild, MenuAsk,
        MenuRestore, MenuUsable, Answer, AnswerAutomatic, AnswerImport, AnswerCleanup,
        AnswerRestore, Top, process
    <3>4. MaybeAutomatic(TRUE, work)
      BY <3>1, <3>3, OperationsAssumption DEF AttemptInit, Unhindered, Protected
    <3>5. marker'.resumed = TRUE
      BY <3>1, <3>2, <3>4, ClaimMade DEF IInv, MaybeAutomatic, Unhindered
    <3>6. modals' = <<Dialog("auto", Fingerprint, marker'.resumed)>> \o modals
      BY <3>2, <3>4 DEF MaybeAutomatic, Unhindered
    <3>7. <<Dialog("auto", Fingerprint, TRUE)>> \o <<>> = <<Dialog("auto", Fingerprint, TRUE)>>
      OBVIOUS
    <3> QED
      BY <3>1, <3>5, <3>6, <3>7
  <2> QED
    BY <2>1, <2>2
<1> QED
  BY <1>1, InvAlways, MemoryAlways, PTL DEF Spec, AutomaticRemembered
=============================================================================
