----------------------------- MODULE PackBuild -----------------------------
(***************************************************************************)
(* build_audio_pack (anki-addon/fast_pack.py): one process at a time, under *)
(* the build lock, packs the audio files of entries.db in key order into a  *)
(* build directory, checkpoints, verifies, renames the directory to a       *)
(* version and activates it.  Files and the database may change at any      *)
(* moment, a build may be cancelled where it polls, and the process or the  *)
(* machine may stop between any two steps; the next build resumes.          *)
(*                                                                          *)
(* Groups are the (source, file) keys in order.  A file is the sequence of  *)
(* contents it has had: its length is the state token (inode, size, times), *)
(* None a content that cannot be packed (missing, empty, too large, of an   *)
(* unknown type).  The pack is the sequence of clips in it and an index     *)
(* cell the position of the clip, 0 for none.                               *)
(***************************************************************************)
EXTENDS Naturals, Sequences

CONSTANTS
    N,           \* number of (source, file) keys of the database
    Contents,    \* possible clips
    None,
    InitFiles,   \* contents the files may have at first
    MaxChanges,  \* bound on changes of a file or of the database
    MaxFaults    \* bound on crashes, cancellations, read errors and damage

Groups == 1 .. N
Content == Contents \cup {None}

\* The name of a version: the database and the clip of each key.
Names == [db : Nat, contents : [Groups -> Content], random : BOOLEAN]

\* build-checkpoint.json: the states of the files packed so far, the length of
\* the pack, and the name once packing has ended.
Checkpoints == [tokens : Seq(Nat), length : Nat, final : Names \cup {None}]

\* What a worker thread has of a file.
Reads == [token : Nat, data : Content, done : BOOLEAN]

ASSUME BuildAssumption ==
    /\ N \in Nat \ {0}
    /\ None \notin Contents \cup Nat
    /\ None \notin Names /\ None \notin Checkpoints /\ None \notin Reads
    /\ InitFiles \subseteq [Groups -> Content]
    /\ MaxChanges \in Nat /\ MaxFaults \in Nat

VARIABLES
    db, files, protected,      \* the database, the sources, packed-only cleanup
    stage, idx, pack, ckpt,    \* the build directory and its checkpoint
    versions, active,          \* what is published and what is served
    pc, stat, rows, tokens,    \* locals of the running build
    final, reads, scanned,
    settled,                   \* file states when packing ended (history)
    changes, faults

diskVars == <<versions, active>>
stageVars == <<stage, idx, pack, ckpt>>
worldVars == <<db, files, protected>>
localVars == <<stat, rows, tokens, final, reads, scanned, settled>>
boundVars == <<changes, faults>>
vars == <<worldVars, stageVars, diskVars, pc, localVars, boundVars>>

Token(g) == Len(files[g])
Done == Len(tokens)
Empty == [g \in Groups |-> 0]
Unread == [g \in Groups |-> None]

\* The clip each key is given by an index and a pack.
Packed(index, clips) ==
    [g \in Groups |-> IF index[g] = 0 THEN None ELSE clips[index[g]]]

Init ==
    /\ db = 0 /\ protected = FALSE
    /\ \E f \in InitFiles : files = [g \in Groups |-> <<f[g]>>]
    /\ stage = None /\ idx = Empty /\ pack = <<>> /\ ckpt = None
    /\ versions = {} /\ active = None
    /\ pc = "idle" /\ stat = 0 /\ rows = 0 /\ tokens = <<>> /\ final = None
    /\ reads = Unread /\ scanned = 0
    /\ settled = [g \in Groups |-> 1]
    /\ changes = 0 /\ faults = 0

Fault == faults < MaxFaults /\ faults' = faults + 1

\* The build ends, by returning, raising or dying.
Stop ==
    /\ pc' = "idle"
    /\ stat' = 0 /\ rows' = 0 /\ tokens' = <<>> /\ final' = None
    /\ reads' = Unread /\ scanned' = 0
    /\ UNCHANGED settled

---------------------------------------------------------------------------
(* Opening or resuming the build directory *)

\* Protected state refuses a build before it asks for the lock ...
Check ==
    /\ pc = "idle" /\ ~protected
    /\ pc' = "lock"
    /\ UNCHANGED <<worldVars, stageVars, diskVars, localVars, boundVars>>

\* Mutant: protected state is not looked at again under the lock.
StartUnchecked ==
    /\ pc = "lock"
    /\ stat' = db
    /\ pc' = "open"
    /\ UNCHANGED <<worldVars, stageVars, diskVars, rows, tokens, final, reads,
                   scanned, settled, boundVars>>

\* ... and again when it has the lock, which is free: cleanup holds it for the
\* one step it is here.
Start ==
    /\ pc = "lock"
    /\ \/ /\ protected
          /\ Stop
       \/ /\ ~protected
          /\ stat' = db
          /\ pc' = "open"
          /\ UNCHANGED <<rows, tokens, final, reads, scanned, settled>>
    /\ UNCHANGED <<worldVars, stageVars, diskVars, boundVars>>

\* An empty directory with its first checkpoint.
NewStage ==
    /\ stage' = stat /\ idx' = Empty /\ pack' = <<>>
    /\ ckpt' = [tokens |-> <<>>, length |-> 0, final |-> None]
    /\ tokens' = <<>> /\ final' = None
    /\ pc' = "pack"

\* _load_build_checkpoint: the directory has a checkpoint of this database, and
\* its pack is as long as the checkpoint says.
Resumable == stage = stat /\ ckpt.length <= Len(pack)

\* The database is opened; a directory that can be resumed is cut back to its
\* checkpoint, and any other is removed.
Prepare ==
    /\ pc = "open"
    /\ rows' = db
    /\ \/ /\ Resumable
          /\ pack' = SubSeq(pack, 1, ckpt.length)
          /\ pc' = "restore"
          /\ UNCHANGED <<stage, idx, ckpt, tokens, final>>
       \/ /\ ~Resumable
          /\ NewStage
    /\ UNCHANGED <<worldVars, diskVars, stat, reads, scanned, settled,
                   boundVars>>

\* Mutant: a changed source file ends the build instead of the resumption.
RestoreGroupRaises ==
    /\ pc = "restore" /\ scanned < Len(ckpt.tokens)
    /\ \/ /\ Token(scanned + 1) = ckpt.tokens[scanned + 1]
          /\ scanned' = scanned + 1
          /\ UNCHANGED <<pc, stat, rows, tokens, final, reads, settled>>
       \/ /\ Token(scanned + 1) # ckpt.tokens[scanned + 1]
          /\ Stop
    /\ UNCHANGED <<worldVars, stageVars, diskVars, boundVars>>

\* _restore_partial_build compares the state of each file already packed.
RestoreGroup ==
    /\ pc = "restore" /\ scanned < Len(ckpt.tokens)
    /\ \/ /\ Token(scanned + 1) = ckpt.tokens[scanned + 1]
          /\ scanned' = scanned + 1
          /\ UNCHANGED <<stageVars, tokens, final, pc>>
       \/ /\ Token(scanned + 1) # ckpt.tokens[scanned + 1]
          /\ scanned' = 0
          /\ NewStage
    /\ UNCHANGED <<worldVars, diskVars, stat, rows, reads, settled, boundVars>>

Restored ==
    /\ pc = "restore" /\ scanned = Len(ckpt.tokens)
    /\ tokens' = ckpt.tokens /\ final' = ckpt.final
    /\ scanned' = 0
    /\ pc' = "pack"
    /\ UNCHANGED <<worldVars, stageVars, diskVars, stat, rows, reads, settled,
                   boundVars>>

\* Mutant: a build cancelled before it has restored writes its checkpoint.
CancelRestoreSaved ==
    /\ pc = "restore" /\ Fault
    /\ ckpt' = [tokens |-> tokens, length |-> Len(pack), final |-> final]
    /\ Stop
    /\ UNCHANGED <<worldVars, stage, idx, pack, diskVars, changes>>

CancelRestore ==
    /\ pc = "restore" /\ Fault
    /\ Stop
    /\ UNCHANGED <<worldVars, stageVars, diskVars, changes>>

---------------------------------------------------------------------------
(* Packing *)

\* _read_group on a worker thread: the state of the file before the read ...
BeginRead(g) ==
    /\ pc = "pack" /\ g > Done /\ reads[g] = None
    /\ reads' = [reads EXCEPT ![g] =
                    [token |-> Token(g), data |-> None, done |-> FALSE]]
    /\ UNCHANGED <<worldVars, stageVars, diskVars, pc, stat, rows, tokens,
                   final, scanned, settled, boundVars>>

\* ... and its bytes, dropped when the state has changed or the read failed.
FinishRead(g) ==
    /\ pc = "pack" /\ reads[g] # None /\ ~reads[g].done
    /\ \E data \in Content :
        /\ \/ /\ Token(g) = reads[g].token
              /\ data = files[g][Token(g)]
              /\ UNCHANGED faults
           \/ /\ Token(g) # reads[g].token
              /\ data = None
              /\ UNCHANGED faults
           \/ /\ data = None
              /\ Fault
        /\ reads' = [reads EXCEPT ![g].data = data, ![g].done = TRUE]
    /\ UNCHANGED <<worldVars, stageVars, diskVars, pc, stat, rows, tokens,
                   final, scanned, settled, changes>>

\* Mutant: a clip is compared with the previous key's only.
DuplicatesOfLast(clip) ==
    {idx[h] : h \in {h \in {Done} \ {0} : idx[h] # 0 /\ pack[idx[h]] = clip}}

\* The position a clip already has in the pack, among the keys packed so far.
Duplicates(clip) ==
    {idx[h] : h \in {h \in 1 .. Done : idx[h] # 0 /\ pack[idx[h]] = clip}}

\* consume: results are taken in key order; equal clips are stored once.
Consume ==
    /\ pc = "pack" /\ Done < N
    /\ LET g == Done + 1
           clip == reads[g].data
       IN
        /\ reads[g] # None /\ reads[g].done
        /\ tokens' = Append(tokens, reads[g].token)
        /\ \/ /\ clip = None
              /\ idx' = [idx EXCEPT ![g] = 0]
              /\ UNCHANGED pack
           \/ /\ clip # None
              /\ \E p \in Duplicates(clip) : idx' = [idx EXCEPT ![g] = p]
              /\ UNCHANGED pack
           \/ /\ clip # None /\ Duplicates(clip) = {}
              /\ pack' = Append(pack, clip)
              /\ idx' = [idx EXCEPT ![g] = Len(pack) + 1]
        /\ reads' = [reads EXCEPT ![g] = None]
    /\ UNCHANGED <<worldVars, stage, ckpt, diskVars, pc, stat, rows, final,
                   scanned, settled, boundVars>>

\* Mutant: the length is read before the buffered clips are written.
WriteCheckpointEarly(version) ==
    ckpt' = [tokens |-> tokens, length |-> ckpt.length, final |-> version]

\* write_checkpoint: pack and index are synced before the checkpoint replaces
\* the previous one.
WriteCheckpoint(version) ==
    ckpt' = [tokens |-> tokens, length |-> Len(pack), final |-> version]

\* Every two seconds.
Checkpoint ==
    /\ pc = "pack"
    /\ WriteCheckpoint(None)
    /\ UNCHANGED <<worldVars, stage, idx, pack, diskVars, pc, localVars,
                   boundVars>>

CancelPacking ==
    /\ pc = "pack" /\ Fault
    /\ WriteCheckpoint(final)
    /\ Stop
    /\ UNCHANGED <<worldVars, stage, idx, pack, diskVars, changes>>

\* version_hash: the database and what was packed for each key.
Name == [db |-> stat, contents |-> Packed(idx, pack),
         random |-> FALSE]

\* Every key is packed: the database must be the one that was opened.
FinishPacking ==
    /\ pc = "pack" /\ Done = N
    /\ \/ /\ db # stat \/ final \notin {None, Name}
          /\ Stop
          /\ UNCHANGED ckpt
       \/ /\ db = stat /\ final \in {None, Name}
          /\ final' = Name
          /\ WriteCheckpoint(Name)
          /\ settled' = [g \in Groups |-> Token(g)]
          /\ pc' = "scan"
          /\ UNCHANGED <<stat, rows, tokens, reads, scanned>>
    /\ UNCHANGED <<worldVars, stage, idx, pack, diskVars, boundVars>>

---------------------------------------------------------------------------
(* Verification and publication *)

\* The state of each file is compared with the one it was packed in.
ScanGroup ==
    /\ pc = "scan" /\ scanned < N
    /\ \/ /\ Token(scanned + 1) = tokens[scanned + 1]
          /\ scanned' = scanned + 1
          /\ UNCHANGED <<pc, stat, rows, tokens, final, reads, settled>>
       \/ /\ Token(scanned + 1) # tokens[scanned + 1]
          /\ Stop
    /\ UNCHANGED <<worldVars, stageVars, diskVars, boundVars>>

\* Mutant: files are not compared again.
ScanDoneUnscanned ==
    /\ pc = "scan"
    /\ pc' = "publish"
    /\ UNCHANGED <<worldVars, stageVars, diskVars, localVars, boundVars>>

\* Mutant: the version is activated before its directory has its name.
ScanDoneActivated ==
    /\ pc = "scan" /\ scanned = N /\ db = stat
    /\ active' = final
    /\ pc' = "publish"
    /\ UNCHANGED <<worldVars, stageVars, versions, localVars, boundVars>>

\* The database is compared once more.
ScanDone ==
    /\ pc = "scan" /\ scanned = N
    /\ \/ /\ db # stat
          /\ Stop
       \/ /\ db = stat
          /\ pc' = "publish"
          /\ UNCHANGED localVars
    /\ UNCHANGED <<worldVars, stageVars, diskVars, boundVars>>

\* Hashing, scanning and the last poll before publication.
CancelVerification ==
    /\ pc \in {"scan", "publish"} /\ Fault
    /\ Stop
    /\ UNCHANGED <<worldVars, stageVars, diskVars, changes>>

Version(name) ==
    [name |-> name, idx |-> idx, pack |-> pack, rows |-> rows, intact |-> TRUE]


Namesakes == {v \in versions : v.name = Name}

\* An existing version is reused when its index and pack hash to the new ones.
Reusable == {v \in Namesakes : v.intact /\ v.idx = idx /\ v.pack = pack}

\* The directory is renamed to its version, to a random one when that name is
\* taken by other bytes, or dropped when the version is already there.  The
\* random names of one database and contents are one name here.
PublishVersion ==
    /\ pc = "publish"
    /\ \/ /\ Reusable # {}
          /\ UNCHANGED <<versions, final>>
       \/ /\ Reusable = {}
          /\ final' = [Name EXCEPT !.random = Namesakes # {}]
          /\ versions' = {v \in versions : v.name # final'} \cup
                         {Version(final')}
    /\ stage' = None /\ idx' = Empty /\ pack' = <<>> /\ ckpt' = None
    /\ pc' = "activate"
    /\ UNCHANGED <<worldVars, active, stat, rows, tokens, reads, scanned,
                   settled, boundVars>>

\* active.json is replaced atomically.
Activate ==
    /\ pc = "activate"
    /\ active' = final
    /\ Stop
    /\ UNCHANGED <<worldVars, stageVars, versions, boundVars>>

---------------------------------------------------------------------------
(* Everything around the build *)

\* The process or the machine stops.  What was written to the index after the
\* checkpoint is there or not, cell by cell, and the pack ends anywhere past it.
Crash ==
    /\ pc # "idle" /\ Fault
    /\ \/ /\ stage = None
          /\ UNCHANGED <<idx, pack>>
       \/ /\ stage # None
          /\ \E lost \in SUBSET (Len(ckpt.tokens) + 1 .. N) :
                idx' = [g \in Groups |-> IF g \in lost THEN 0 ELSE idx[g]]
          /\ \E n \in ckpt.length .. Len(pack) : pack' = SubSeq(pack, 1, n)
    /\ Stop
    /\ UNCHANGED <<worldVars, stage, ckpt, diskVars, changes>>

Change == changes < MaxChanges /\ changes' = changes + 1

\* Another program rewrites, adds or removes an audio file.
ChangeFile(g) ==
    /\ Change
    /\ \E c \in Content : files' = [files EXCEPT ![g] = Append(@, c)]
    /\ UNCHANGED <<db, protected, stageVars, diskVars, pc, localVars, faults>>

\* entries.db is replaced: by a publication, or by a program without the lock.
ChangeDatabase ==
    /\ Change
    /\ db' = db + 1
    /\ UNCHANGED <<files, protected, stageVars, diskVars, pc, localVars,
                   faults>>

\* Cleanup moves the loose files away, under the build lock, or restores them.
Cleanup ==
    /\ pc \in {"idle", "lock"}
    /\ \/ /\ ~protected /\ Fault
       \/ /\ protected /\ UNCHANGED faults
    /\ protected' = ~protected
    /\ UNCHANGED <<db, files, stageVars, diskVars, pc, localVars, changes>>

\* A published file goes bad without changing size.
Damage ==
    /\ pc \in {"idle", "lock"} /\ Fault
    /\ \E v \in versions :
        versions' = (versions \ {v}) \cup {[v EXCEPT !.intact = FALSE]}
    /\ UNCHANGED <<worldVars, stageVars, active, pc, localVars, changes>>

---------------------------------------------------------------------------

Builder ==
    \/ Prepare \/ RestoreGroup \/ Restored
    \/ \E g \in Groups : BeginRead(g) \/ FinishRead(g)
    \/ Consume \/ FinishPacking
    \/ ScanGroup \/ ScanDone \/ PublishVersion \/ Activate

Next ==
    \/ Check \/ Start \/ Builder \/ Checkpoint
    \/ CancelRestore \/ CancelPacking \/ CancelVerification
    \/ \E g \in Groups : ChangeFile(g)
    \/ ChangeDatabase \/ Cleanup \/ Damage \/ Crash

Spec == Init /\ [][Next]_vars

\* A running build is scheduled, and a build that did not finish is started
\* again, as the automatic build and the resume button do.
FairSpec == Spec /\ WF_vars(Builder) /\ WF_vars(Check) /\ WF_vars(Start)

---------------------------------------------------------------------------
(* Properties *)

\* Types of the store on disk, of the builder and of the history variables.
TypeOK ==
    /\ db \in Nat /\ protected \in BOOLEAN
    /\ files \in [Groups -> Seq(Content)]
    /\ stage \in Nat \cup {None}
    /\ idx \in [Groups -> Nat] /\ pack \in Seq(Contents)
    /\ ckpt = None <=> stage = None
    /\ ckpt # None => /\ ckpt.tokens \in Seq(Nat) /\ Len(ckpt.tokens) <= N
                      /\ ckpt.length \in Nat
    /\ pc \in {"idle", "lock", "open", "restore", "pack", "scan", "publish",
              "activate"}
    /\ stat \in Nat /\ rows \in Nat /\ tokens \in Seq(Nat) /\ Done <= N
    /\ scanned \in 0 .. N
    /\ settled \in [Groups -> Nat]

\* What a build that was never interrupted makes of the keys 1 .. n: clips are
\* stored once, in the order of the first key that has them.
Canonical(index, clips, n) ==
    /\ \A g \in 1 .. n : index[g] \in 0 .. Len(clips)
    /\ \A p, q \in 1 .. Len(clips) : clips[p] = clips[q] => p = q
    /\ \A p \in 1 .. Len(clips) : \E g \in 1 .. n : index[g] = p
    /\ \A g \in 1 .. n : \A p \in 1 .. index[g] - 1 :
          \E h \in 1 .. g - 1 : index[h] = p

\* At every moment, so also after a crash at that moment, the files hold what
\* the checkpoint says: the first keys, packed as an uninterrupted build would,
\* each with the bytes the source had in the recorded state.
CheckpointSound ==
    ckpt # None =>
        LET kept == SubSeq(pack, 1, ckpt.length)
            n == Len(ckpt.tokens)
        IN /\ ckpt.length <= Len(pack)
           /\ Canonical(idx, kept, n)
           /\ \A g \in 1 .. n :
                idx[g] # 0 => kept[idx[g]] = files[g][ckpt.tokens[g]]

\* A published version is what one uninterrupted build of one database makes,
\* however often the build was cancelled, crashed and resumed.
PublishedCanonical ==
    \A v \in versions :
        /\ Canonical(v.idx, v.pack, N)
        /\ v.name.contents = Packed(v.idx, v.pack)
        /\ v.rows = v.name.db

\* active.json never names a version that is not there.
ActivePublished == active # None => \E v \in versions : v.name = active

\* The state is well formed and active.json names a version that is there.
Consistent == TypeOK /\ ActivePublished

\* What is activated is intact, and each clip in it is one the source file had
\* at some time since packing ended: no change made before is missed.
ActivatesCurrent ==
    [][active' # active =>
        /\ \E v \in versions : v.name = active' /\ v.intact
        /\ \A g \in Groups :
              active'.contents[g] # None =>
                \E t \in settled[g] .. Token(g) :
                    active'.contents[g] = files[g][t]]_vars

\* Nothing is activated while loose files are in quarantine or gone.
BuildRespectsCleanup == [][active' # active => ~protected]_vars

\* Work saved in a checkpoint is given up only when the build it belongs to is
\* published, the database is another one, or a file already packed changed.
WorkKept ==
    [][ckpt # None /\ ckpt' # ckpt =>
        \/ versions' # versions \/ pc = "publish"
        \/ stage' # stage
        \/ \E g \in 1 .. Len(ckpt.tokens) : Token(g) # ckpt.tokens[g]
        \/ /\ ckpt' # None
           /\ Len(ckpt'.tokens) >= Len(ckpt.tokens)
           /\ \A g \in 1 .. Len(ckpt.tokens) :
                 ckpt'.tokens[g] = ckpt.tokens[g]]_vars

\* Once nothing changes and nothing fails any more, the active pack becomes and
\* stays the intact one of the current database and files.
Converges ==
    <>[](protected \/ \E v \in versions :
            /\ v.name = active /\ v.intact
            /\ v.name.db = db
            /\ \A g \in Groups : v.name.contents[g] = files[g][Token(g)])
=============================================================================
