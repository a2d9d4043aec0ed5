------------------------------ MODULE Cleanup ------------------------------
(***************************************************************************)
(* Managed cleanup (anki-addon/cleanup.py): the loose originals that the    *)
(* active pack holds are moved into a quarantine directory, which goes to   *)
(* the Trash of the operating system as one; a marker and an inventory,     *)
(* written first, say what was moved, and restore brings it back.  One      *)
(* operation runs at a time, under the build lock; the process may stop     *)
(* between any two file operations, and other programs may write the same   *)
(* files at any moment.                                                     *)
(*                                                                          *)
(* Content is a stamp: 0 for an original, a new number for every write of   *)
(* another program, so equal stamps are the same file with the same bytes.  *)
(***************************************************************************)
EXTENDS Naturals, FiniteSets

CONSTANTS
    N,           \* number of loose files the database names, in key order
    Untracked,   \* names other programs may put into the quarantine
    None,
    Batch,       \* moves between two updates of the marker (batch_size)
    MaxChanges,  \* bound on what other programs write, delete or empty
    MaxFaults    \* bound on stops, failures of the Trash and damage

Files == 1 .. N
Names == Files \cup Untracked
Stamps == 0 .. MaxChanges
Nothing == [n \in Names |-> None]
OrNone(S) == S \cup {None}

Statuses == {"staging", "paused", "quarantined", "trash-failed", "completed",
             "recovery-required"}
Clips == [Files -> OrNone(Stamps)]
Inventories == [Files -> Stamps]
Markers == [status : Statuses, moved : 0 .. N, clips : Inventories, db : 0 .. 1]
Packs == [clips : Clips, db : 0 .. 1, sound : BOOLEAN]
Jobs == [resumed : BOOLEAN, clips : Clips, db : 0 .. 1, missing : 0 .. N,
         moved : 0 .. N, since : 0 .. Batch - 1, seen : OrNone(Stamps),
         raised : BOOLEAN]

ASSUME CleanupAssumption ==
    /\ N \in Nat \ {0} /\ Batch \in Nat \ {0}
    /\ MaxChanges \in Nat /\ MaxFaults \in Nat
    /\ Untracked \cap Nat = {} /\ None \notin Nat \cup Untracked
    /\ None \notin Markers /\ None \notin Packs /\ None \notin Inventories

VARIABLES
    loose,              \* what is at the source path of each file
    stageDir, staged,   \* the quarantine directory and what is in it
    trashed,            \* what of it is in the Trash
    marker, inventory,  \* packed-only-v1.json and the recovery inventory
    active, db,         \* the active pack and the database
    pc, at, job,        \* the running operation, its cursor and its locals
    changes, faults,
    touched,            \* files other programs wrote or deleted (history)
    harmed,             \* the pack or database was damaged (history)
    late                \* names changed in the quarantine after it was
                        \* verified (history)

fileVars == <<loose, stageDir, staged, trashed>>
recordVars == <<marker, inventory>>
servingVars == <<active, db>>
jobVars == <<pc, at, job>>
boundVars == <<changes, faults>>
historyVars == <<touched, harmed, late>>
vars == <<fileVars, recordVars, servingVars, jobVars, boundVars, historyVars>>

Steps == {"idle", "verify", "plan", "inventory", "journal", "mkdir", "stage",
          "rename", "check", "quarantine", "trash", "send", "sent", "recheck",
          "restore", "before", "replace", "replaced", "tree", "final", "pack",
          "clear", "forget"}

NoJob == [resumed |-> FALSE, clips |-> [f \in Files |-> None], db |-> 0,
          missing |-> 0, moved |-> 0, since |-> 0, seen |-> None, raised |-> FALSE]

Init ==
    /\ loose = [f \in Files |-> 0]
    /\ stageDir = FALSE /\ staged = Nothing /\ trashed = Nothing
    /\ marker = None /\ inventory = None
    /\ db = 0
    /\ active = [clips |-> loose, db |-> 0, sound |-> TRUE]
    /\ pc = "idle" /\ at = 0 /\ job = NoJob
    /\ changes = 0 /\ faults = 0
    /\ touched = {} /\ harmed = FALSE /\ late = {}

Fault == faults < MaxFaults /\ faults' = faults + 1

\* The operation returns, raises or dies; its lock is free again.
End == pc' = "idle" /\ at' = 0 /\ job' = NoJob

Goto(step) == pc' = step /\ UNCHANGED <<at, job>>

\* _verified_active_pack: complete, private, hashes as recorded, and of this
\* database.
Verified == active # None /\ active.sound /\ active.db = db

\* _reverify_bound_pack: it also is the pack the marker was written for.
Bound == Verified /\ active.clips = marker.clips /\ db = marker.db

\* The inventory has the hash and the totals the marker records.
Validated == inventory # None /\ inventory = marker.clips

\* _compare_with_pack and _hash_regular_file read a file to its end.
SameBytes(place, f) == place[f] = job.clips[f]
SameHash(place, f) == place[f] = inventory[f]

Occupied == {n \in Names : staged[n] # None}

SetStatus(status, moved) ==
    marker' = [marker EXCEPT !.status = status, !.moved = moved]

---------------------------------------------------------------------------
(* Moving originals into the quarantine: trash_verified_loose_audio *)

\* inspect_managed_cleanup: what the menu lets the user start.
Eligible ==
    IF marker = None THEN ~stageDir
    ELSE marker.status \notin {"completed", "recovery-required"}

\* Mutant: a full quarantine that is gone is noticed only after a Trash failure.
LostAfterFailure ==
    marker # None /\ marker.status = "trash-failed" /\ marker.moved = N
    /\ ~stageDir

\* The quarantine the marker says is full is not here.
LostQuarantine ==
    /\ marker # None
    /\ marker.status \in {"quarantined", "trash-failed"}
    /\ marker.moved = N
    /\ ~stageDir

NoteLostQuarantine ==
    /\ pc = "idle" /\ Eligible /\ LostQuarantine
    /\ marker' = [marker EXCEPT !.status = "recovery-required"]
    /\ UNCHANGED <<fileVars, inventory, servingVars, jobVars, boundVars,
                   historyVars>>

StartCleanup ==
    /\ pc = "idle" /\ Eligible /\ ~LostQuarantine
    /\ Goto("verify")
    /\ UNCHANGED <<fileVars, recordVars, servingVars, boundVars, historyVars>>

\* The pack is hashed and stays open.
VerifyPack ==
    /\ pc = "verify"
    /\ \/ /\ Verified
          /\ pc' = "plan"
          /\ job' = [job EXCEPT !.clips = active.clips, !.db = db,
                                !.resumed = marker # None]
          /\ UNCHANGED at
       \/ ~Verified /\ End
    /\ UNCHANGED <<fileVars, recordVars, servingVars, boundVars, historyVars>>

Missing == {f \in Files : loose[f] = None}

\* A resumed cleanup has the same pack and database and its own inventory.
SameCollection ==
    marker.clips = job.clips /\ marker.db = job.db /\ Validated

\* _scan_plan: every row is in the pack; only a resumed cleanup may miss files.
Plan ==
    /\ pc = "plan"
    /\ \/ /\ IF job.resumed THEN SameCollection ELSE Missing = {}
          /\ pc' = IF job.resumed THEN "journal" ELSE "inventory"
          /\ job' = [job EXCEPT !.missing = Cardinality(Missing)]
          /\ UNCHANGED at
       \/ /\ ~(IF job.resumed THEN SameCollection ELSE Missing = {})
          /\ End
    /\ UNCHANGED <<fileVars, recordVars, servingVars, boundVars, historyVars>>

\* _create_cleanup_inventory: every file is compared with its clip and its hash
\* recorded, in a new file that replaces an old inventory.
CreateInventory ==
    /\ pc = "inventory"
    /\ \/ /\ \A f \in Files : SameBytes(loose, f)
          /\ inventory' = job.clips
          /\ Goto("journal")
       \/ /\ \E f \in Files : ~SameBytes(loose, f)
          /\ End
          /\ UNCHANGED inventory
    /\ UNCHANGED <<fileVars, marker, servingVars, boundVars, historyVars>>

\* The active manifest names the pack that was verified, and entries.db has the
\* hash it had.
SameServing ==
    /\ active # None /\ active.clips = job.clips /\ active.db = job.db
    /\ db = job.db

\* The marker is durable before the first file moves.
Journal ==
    /\ pc = "journal"
    /\ \/ /\ SameServing
          /\ marker' = [status |-> "staging", moved |-> job.missing,
                        clips |-> job.clips, db |-> job.db]
          /\ Goto("mkdir")
       \/ /\ ~SameServing
          /\ End
          /\ UNCHANGED marker
    /\ UNCHANGED <<fileVars, inventory, servingVars, boundVars, historyVars>>

MakeStage ==
    /\ pc = "mkdir"
    /\ stageDir' = TRUE
    /\ pc' = "stage" /\ at' = 1
    /\ UNCHANGED <<loose, staged, trashed, recordVars, servingVars, job,
                   boundVars, historyVars>>

\* A file that a previous run moved is compared with its clip again.
RecheckStaged ==
    /\ pc = "stage" /\ at \in Files
    /\ loose[at] = None
    /\ \/ /\ SameBytes(staged, at)
          /\ at' = at + 1
          /\ job' = [job EXCEPT !.moved = @ + 1]
          /\ UNCHANGED pc
       \/ ~SameBytes(staged, at) /\ End
    /\ UNCHANGED <<fileVars, recordVars, servingVars, boundVars, historyVars>>

\* A file that is still in place must have the bytes of its clip.
CompareLoose ==
    /\ pc = "stage" /\ at \in Files
    /\ loose[at] # None
    /\ \/ /\ staged[at] = None /\ SameBytes(loose, at)
          /\ job' = [job EXCEPT !.seen = loose[at]]
          /\ pc' = "rename" /\ UNCHANGED at
       \/ /\ staged[at] # None \/ ~SameBytes(loose, at)
          /\ End
    /\ UNCHANGED <<fileVars, recordVars, servingVars, boundVars, historyVars>>

MoveToStage ==
    /\ pc = "rename"
    /\ \/ /\ loose[at] # None
          /\ staged' = [staged EXCEPT ![at] = loose[at]]
          /\ loose' = [loose EXCEPT ![at] = None]
          /\ Goto("check")
       \/ /\ loose[at] = None
          /\ End
          /\ UNCHANGED <<loose, staged>>
    /\ UNCHANGED <<stageDir, trashed, recordVars, servingVars, boundVars,
                   historyVars>>

\* What was moved must be what was compared; the marker is updated in batches.
CheckMoved ==
    /\ pc = "check" /\ staged[at] = job.seen
    /\ pc' = "stage" /\ at' = at + 1
    /\ job' = [job EXCEPT !.seen = None, !.moved = @ + 1,
                          !.since = (@ + 1) % Batch]
    /\ IF job.since + 1 >= Batch THEN SetStatus("staging", job.moved + 1)
       ELSE UNCHANGED marker
    /\ UNCHANGED <<fileVars, inventory, servingVars, boundVars, historyVars>>

\* Otherwise it is renamed back, over whatever is at the source now.
RollBackMove ==
    /\ pc = "check" /\ staged[at] # job.seen
    /\ loose' = IF staged[at] = None THEN loose
                ELSE [loose EXCEPT ![at] = staged[at]]
    /\ staged' = [staged EXCEPT ![at] = None]
    /\ End
    /\ UNCHANGED <<stageDir, trashed, recordVars, servingVars, boundVars,
                   historyVars>>

\* Mutant: a cancelled run that moved nothing itself forgets the marker.
CancelForgets ==
    /\ pc = "stage" /\ at \in Files
    /\ Fault
    /\ IF job.moved = 0
       THEN marker' = None /\ stageDir' = (Occupied # {})
       ELSE SetStatus("paused", job.moved) /\ UNCHANGED stageDir
    /\ End
    /\ UNCHANGED <<loose, staged, trashed, inventory, servingVars, changes,
                   historyVars>>

\* Mutant: it removes the quarantine with all it holds.
CancelRemovesTree ==
    /\ pc = "stage" /\ at \in Files
    /\ Fault
    /\ IF job.moved = 0
       THEN stageDir' = FALSE /\ staged' = Nothing /\ UNCHANGED marker
       ELSE SetStatus("paused", job.moved) /\ UNCHANGED <<stageDir, staged>>
    /\ End
    /\ UNCHANGED <<loose, trashed, inventory, servingVars, changes, historyVars>>

\* Cancellation is polled before each file.
CancelStaging ==
    /\ pc = "stage" /\ at \in Files
    /\ Fault
    /\ IF job.moved = 0 /\ Occupied = {} /\ marker.moved = 0
       THEN stageDir' = FALSE /\ marker' = None
       ELSE /\ SetStatus("paused", IF job.moved > marker.moved THEN job.moved
                                   ELSE marker.moved)
            /\ UNCHANGED stageDir
    /\ End
    /\ UNCHANGED <<loose, staged, trashed, inventory, servingVars, changes,
                   historyVars>>

Quarantined ==
    /\ pc = "stage" /\ at = N + 1
    /\ SetStatus("quarantined", job.moved)
    /\ pc' = "trash" /\ UNCHANGED <<at, job>>
    /\ UNCHANGED <<fileVars, inventory, servingVars, boundVars, historyVars>>

\* Mutant: only the files the database names are looked at.
StageExactNamed == stageDir /\ \A f \in Files : SameBytes(staged, f)

\* The quarantine has exactly the files the database names, with the bytes of
\* their clips.
StageExact ==
    stageDir /\ Occupied = Files /\ \A f \in Files : SameBytes(staged, f)

\* _trash_quarantine verifies the pack and the quarantine once more.
VerifyStage ==
    /\ pc = "trash"
    /\ \/ /\ Bound /\ StageExact
          /\ Goto("send")
          /\ late' = {}
       \/ /\ ~(Bound /\ StageExact)
          /\ End
          /\ UNCHANGED late
    /\ UNCHANGED <<fileVars, recordVars, servingVars, boundVars, touched,
                   harmed>>

\* The Trash takes the directory, or fails in any of the ways it can: it may
\* leave it, take a part of it, and raise or not.
Send ==
    /\ pc = "send"
    /\ \E taken \in SUBSET Names, raised \in BOOLEAN :
        /\ IF taken = Names /\ ~raised THEN UNCHANGED faults ELSE Fault
        /\ trashed' = [n \in Names |-> IF n \in taken /\ staged[n] # None
                                       THEN staged[n] ELSE trashed[n]]
        /\ staged' = [n \in Names |-> IF n \in taken THEN None ELSE staged[n]]
        /\ stageDir' = (taken # Names)
        /\ job' = [job EXCEPT !.raised = raised]
    /\ pc' = "sent" /\ UNCHANGED at
    /\ UNCHANGED <<loose, recordVars, servingVars, changes, historyVars>>

Sent ==
    /\ pc = "sent"
    /\ \/ /\ ~job.raised /\ ~stageDir
          /\ Goto("recheck") /\ UNCHANGED marker
       \/ /\ job.raised \/ stageDir
          /\ SetStatus(IF stageDir THEN "trash-failed" ELSE "recovery-required",
                       N)
          /\ End
    /\ UNCHANGED <<fileVars, inventory, servingVars, boundVars, historyVars>>

\* The pack that is now the only copy is verified once more.
Complete ==
    /\ pc = "recheck"
    /\ SetStatus(IF Bound THEN "completed" ELSE "recovery-required", N)
    /\ End
    /\ UNCHANGED <<fileVars, inventory, servingVars, boundVars, historyVars>>

---------------------------------------------------------------------------
(* Bringing the originals back: restore_quarantined_audio *)

\* Everything in the quarantine must be named by the inventory.
StartRestore ==
    /\ pc = "idle" /\ marker # None
    /\ Validated
    /\ Occupied \subseteq Files
    /\ pc' = "restore" /\ at' = 1 /\ UNCHANGED job
    /\ UNCHANGED <<fileVars, recordVars, servingVars, boundVars, historyVars>>

\* Mutant: a file that is back already is an error.
ExamineFileOnce ==
    /\ pc = "restore" /\ at \in Files
    /\ \/ /\ SameHash(staged, at) /\ loose[at] = None
          /\ pc' = "before" /\ UNCHANGED <<at, job>>
       \/ /\ ~SameHash(staged, at) \/ loose[at] # None
          /\ End
    /\ UNCHANGED <<fileVars, recordVars, servingVars, boundVars, historyVars>>

\* Exactly one of the two paths exists, and it has the recorded hash.
ExamineFile ==
    /\ pc = "restore" /\ at \in Files
    /\ \/ /\ SameHash(staged, at) /\ loose[at] = None
          /\ pc' = "before" /\ UNCHANGED <<at, job>>
       \/ /\ staged[at] = None /\ SameHash(loose, at)
          /\ at' = at + 1 /\ UNCHANGED <<pc, job>>
       \/ /\ \/ staged[at] # None /\ loose[at] # None
             \/ staged[at] = None /\ ~SameHash(loose, at)
             \/ loose[at] = None /\ ~SameHash(staged, at)
          /\ End
    /\ UNCHANGED <<fileVars, recordVars, servingVars, boundVars, historyVars>>

\* The state of the file is taken and the destination looked at once more.
BeforeReplace ==
    /\ pc = "before"
    /\ \/ /\ loose[at] = None
          /\ job' = [job EXCEPT !.seen = staged[at]]
          /\ pc' = "replace" /\ UNCHANGED at
       \/ loose[at] # None /\ End
    /\ UNCHANGED <<fileVars, recordVars, servingVars, boundVars, historyVars>>

ReplaceLoose ==
    /\ pc = "replace"
    /\ loose' = [loose EXCEPT ![at] = staged[at]]
    /\ staged' = [staged EXCEPT ![at] = None]
    /\ Goto("replaced")
    /\ UNCHANGED <<stageDir, trashed, recordVars, servingVars, boundVars,
                   historyVars>>

CheckReplaced ==
    /\ pc = "replaced"
    /\ \/ /\ loose[at] = job.seen
          /\ pc' = "restore" /\ at' = at + 1
          /\ job' = [job EXCEPT !.seen = None]
          /\ UNCHANGED <<loose, staged>>
       \/ /\ loose[at] # job.seen
          /\ staged' = [staged EXCEPT ![at] = loose[at]]
          /\ loose' = [loose EXCEPT ![at] = None]
          /\ End
    /\ UNCHANGED <<stageDir, trashed, recordVars, servingVars, boundVars,
                   historyVars>>

\* Only an empty quarantine is removed; anything left in it ends the restore.
RemoveStage ==
    /\ pc = "restore" /\ at = N + 1
    /\ \/ /\ Occupied = {}
          /\ stageDir' = FALSE
          /\ pc' = "final" /\ UNCHANGED <<at, job>>
       \/ /\ Occupied # {}
          /\ End
          /\ UNCHANGED stageDir
    /\ UNCHANGED <<loose, staged, trashed, recordVars, servingVars, boundVars,
                   historyVars>>

\* Every destination is hashed again.
VerifyRestored ==
    /\ pc = "final"
    /\ \/ /\ \A f \in Files : SameHash(loose, f)
          /\ Goto("pack")
       \/ /\ \E f \in Files : ~SameHash(loose, f)
          /\ End
    /\ UNCHANGED <<fileVars, recordVars, servingVars, boundVars, historyVars>>

\* A pack that is not the one of the marker is switched off.
DisablePack ==
    /\ pc = "pack"
    /\ active' = IF Bound THEN active ELSE None
    /\ Goto("clear")
    /\ UNCHANGED <<fileVars, recordVars, db, boundVars, historyVars>>

ClearMarker ==
    /\ pc = "clear"
    /\ marker' = None
    /\ Goto("forget")
    /\ UNCHANGED <<fileVars, inventory, servingVars, boundVars, historyVars>>

\* The inventory goes last, if it can.
ForgetInventory ==
    /\ pc = "forget"
    /\ inventory' = None
    /\ End
    /\ UNCHANGED <<fileVars, marker, servingVars, boundVars, historyVars>>

---------------------------------------------------------------------------
(* Builds, and the world around *)

\* Mutant: a build does not ask whether the originals are in their place.
BuildUnprotected ==
    /\ pc = "idle"
    /\ active' = [clips |-> loose, db |-> db, sound |-> Missing = {}]
    /\ touched' = touched \cap Missing /\ harmed' = FALSE
    /\ UNCHANGED <<fileVars, recordVars, db, jobVars, boundVars, late>>

\* A pack build from the loose files, when nothing is protected.
Build ==
    /\ pc = "idle"
    /\ marker = None /\ ~stageDir
    /\ active' = [clips |-> loose, db |-> db, sound |-> Missing = {}]
    /\ touched' = touched \cap Missing /\ harmed' = FALSE
    /\ UNCHANGED <<fileVars, recordVars, db, jobVars, boundVars, late>>

\* Between any two steps: a crash, an error or a cancellation that leaves the
\* files as they are.
Stop ==
    /\ pc # "idle"
    /\ Fault
    /\ End
    /\ UNCHANGED <<fileVars, recordVars, servingVars, changes, historyVars>>

Change == changes < MaxChanges /\ changes' = changes + 1

\* Another program writes or deletes a file at its source path.
ChangeLoose(f) ==
    /\ Change
    /\ \E content \in {None, changes'} : loose' = [loose EXCEPT ![f] = content]
    /\ touched' = touched \cup {f}
    /\ UNCHANGED <<stageDir, staged, trashed, recordVars, servingVars, jobVars,
                   faults, harmed, late>>

\* It writes through a handle it holds, or puts a file of its own there.
ChangeStaged(n) ==
    /\ Change
    /\ stageDir /\ (n \in Untracked \/ staged[n] # None)
    /\ staged' = [staged EXCEPT ![n] = changes']
    /\ touched' = touched \cup ({n} \cap Files)
    /\ late' = late \cup {n}
    /\ UNCHANGED <<loose, stageDir, trashed, recordVars, servingVars, jobVars,
                   faults, harmed>>

\* The pack goes bad, or another program replaces the database.
Harm ==
    /\ Fault
    /\ \/ /\ active # None
          /\ active' = [active EXCEPT !.sound = FALSE]
          /\ UNCHANGED db
       \/ /\ db' = 1 - db
          /\ UNCHANGED active
    /\ harmed' = TRUE
    /\ UNCHANGED <<fileVars, recordVars, jobVars, changes, touched, late>>

EmptyTrash ==
    /\ Change
    /\ trashed # Nothing
    /\ trashed' = Nothing
    /\ touched' = touched \cup {f \in Files : trashed[f] # None}
    /\ UNCHANGED <<loose, stageDir, staged, recordVars, servingVars, jobVars,
                   faults, harmed, late>>

\* The user moves the directory back from the Trash.
PutBack ==
    /\ trashed # Nothing
    /\ \A n \in Names : trashed[n] = None \/ staged[n] = None
    /\ stageDir' = TRUE
    /\ staged' = [n \in Names |-> IF trashed[n] = None THEN staged[n]
                                  ELSE trashed[n]]
    /\ trashed' = Nothing
    /\ late' = late \cup {n \in Names : trashed[n] # None}
    /\ UNCHANGED <<loose, recordVars, servingVars, jobVars, boundVars,
                   touched, harmed>>

CleanupStep ==
    \/ VerifyPack \/ Plan \/ CreateInventory \/ Journal \/ MakeStage
    \/ RecheckStaged \/ CompareLoose \/ MoveToStage \/ CheckMoved
    \/ RollBackMove \/ Quarantined \/ VerifyStage \/ Send \/ Sent \/ Complete

RestoreStep ==
    \/ ExamineFile \/ BeforeReplace \/ ReplaceLoose \/ CheckReplaced
    \/ RemoveStage \/ VerifyRestored \/ DisablePack \/ ClearMarker
    \/ ForgetInventory

Program ==
    \/ NoteLostQuarantine \/ StartCleanup \/ CleanupStep \/ CancelStaging
    \/ StartRestore \/ RestoreStep
    \/ Build \/ Stop

Others ==
    \/ \E f \in Files : ChangeLoose(f)
    \/ \E n \in Names : ChangeStaged(n)
    \/ Harm \/ EmptyTrash \/ PutBack

Next == Program \/ Others

Spec == Init /\ [][Next]_vars

\* An operation that runs goes on, and a user who has a marker puts back what is
\* in the Trash and asks for the restore.
FairSpec ==
    /\ Spec
    /\ WF_vars(CleanupStep) /\ WF_vars(RestoreStep)
    /\ WF_vars(PutBack) /\ SF_vars(StartRestore)

---------------------------------------------------------------------------
(* Properties *)

\* Every variable has its type.
TypeOK ==
    /\ loose \in [Files -> OrNone(Stamps)]
    /\ stageDir \in BOOLEAN
    /\ staged \in [Names -> OrNone(Stamps)]
    /\ trashed \in [Names -> OrNone(Stamps)]
    /\ marker \in OrNone(Markers) /\ inventory \in OrNone(Inventories)
    /\ active \in OrNone(Packs) /\ db \in 0 .. 1
    /\ pc \in Steps /\ at \in 0 .. N + 1 /\ job \in Jobs
    /\ changes \in 0 .. MaxChanges /\ faults \in 0 .. MaxFaults
    /\ touched \subseteq Files /\ harmed \in BOOLEAN /\ late \subseteq Names

\* While an original is in the quarantine or in the Trash instead of in its
\* place, a marker blocks builds, imports and publications, and the inventory it
\* names is there.
Guarded ==
    \A f \in Files \ touched :
        loose[f] = None => marker # None /\ Validated

\* Every clip can be served: from its loose file, or else from a pack that has
\* the original, unless another program took the file or damaged the pack.
Servable ==
    \A f \in Files :
        \/ loose[f] # None
        \/ f \in touched
        \/ harmed
        \/ Verified /\ marker # None /\ active.clips[f] = marker.clips[f]

\* Nothing reaches the Trash that is not an original of the inventory with the
\* bytes its pack holds, unless it was written after the last verification.
TrashOnlyVerified ==
    [][\A n \in Names :
           trashed[n]' \notin {None, trashed[n]} =>
               \/ n \in late
               \/ n \in Files /\ marker # None /\ trashed[n]' = marker.clips[n]]_vars

\* When all the originals are in the Trash the marker does not say that the
\* cleanup is to be resumed from a local quarantine.
TrashedIsKnown ==
    (/\ marker # None /\ ~stageDir
     /\ \A f \in Files : loose[f] = None /\ trashed[f] = marker.clips[f]) =>
        marker.status \notin {"staging", "paused"}

\* The state is well formed, and a marker tells local originals from trashed ones.
Consistent == TypeOK /\ TrashedIsKnown

Places(f) == {loose[f], staged[f], trashed[f]}

\* No step of the program destroys the bytes of an original that the marker
\* accounts for: where they were, in place, in quarantine or in the Trash, they
\* are in one of the three afterwards.
OriginalsKept ==
    [][Program => \A f \in Files :
           marker # None /\ marker.clips[f] \in Places(f) =>
               marker.clips[f] \in Places(f)']_vars

\* No step of the program destroys any bytes, those other programs put at a
\* source path included.
NothingOverwritten ==
    [][Program => \A f \in Files : Places(f) \ {None} \subseteq Places(f)']_vars

\* A user who wants the originals back and no longer starts a cleanup gets them,
\* whatever stops, Trash failures and damage to the pack or database came before,
\* as long as no other program writes in the folders.
RestoreReturns ==
    (<>[][~StartCleanup]_vars /\ [](changes = 0)) =>
        <>[](marker = None /\ loose = [f \in Files |-> 0] /\ ~stageDir)
=============================================================================
