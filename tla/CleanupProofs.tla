--------------------------- MODULE CleanupProofs ---------------------------
(***************************************************************************)
(* Proofs about managed cleanup, for every number of files and every bound: *)
(* what a crash, a cancellation, a failure of the Trash or another program   *)
(* leaves, at any step, is a state in which every original is accounted for, *)
(* every clip can be served and a restore can begin.                         *)
(***************************************************************************)
EXTENDS Cleanup, TLAPS, FiniteSetTheorems

\* The steps of a cleanup once the pack is verified, those of them whose marker
\* is written, and those of a restore up to the marker's removal.
Moving == {"mkdir", "stage", "rename", "check", "trash", "send", "sent", "recheck"}
Cleaning == {"plan", "inventory", "journal"} \cup Moving
Restoring == {"restore", "before", "replace", "replaced", "final", "pack", "clear"}

\* Where the cursor is, and how many files a cleanup has dealt with.
Cursor ==
    /\ pc \in {"rename", "check", "before", "replace", "replaced"} => at \in Files
    /\ pc \in {"stage", "restore"} => at \in 1 .. N + 1
    /\ pc \in {"final", "pack", "clear"} => at = N + 1
    /\ pc \in {"idle", "verify", "plan", "inventory", "journal", "mkdir"} => at = 0
    /\ pc \in {"stage", "rename", "check"} => job.moved = at - 1
    /\ pc \notin {"stage", "rename", "check", "trash", "send", "sent", "recheck"} =>
        job.moved = 0

\* A pack that passes verification has a clip for every file, and so has what a
\* cleanup noted of it.
Whole ==
    /\ active # None /\ active.sound => active.clips \in Inventories
    /\ pc \in Cleaning => job.clips \in Inventories

\* What the marker and the inventory say at each step.
Recorded ==
    /\ pc \in Moving \cup Restoring => marker # None /\ Validated
    /\ pc \in Moving => marker.clips = job.clips
    /\ pc \in {"trash", "send", "sent", "recheck"} => marker.status = "quarantined"
    /\ pc \in {"plan", "inventory", "journal"} => (job.resumed <=> marker # None)
    /\ pc = "inventory" => ~job.resumed
    /\ pc = "journal" => /\ inventory = job.clips
                         /\ job.resumed => marker.clips = job.clips
    /\ pc = "forget" => marker = None
    /\ marker # None /\ marker.status \in {"quarantined", "trash-failed"} =>
        marker.moved = N

\* The files no other program touched are all at their source paths: before the
\* first move, and after a restore has looked at every one.
InPlace == \A f \in Files \ touched : loose[f] # None
StillInPlace ==
    /\ pc \in {"inventory", "journal"} /\ job.missing = 0 => InPlace
    /\ pc \in {"mkdir", "stage"} /\ at <= 1 /\ marker.moved = 0 => InPlace
    /\ pc \in {"pack", "clear", "forget"} => InPlace

\* Without damage, the pack a cleanup verified stays the one that is served.
PackKept ==
    ~harmed => /\ marker # None => Bound
               /\ pc \in {"plan", "inventory", "journal"} => Verified

\* No content is at two of a file's places, and none is newer than the last
\* change, so what another program writes next is equal to nothing there is.
Known(c) == c # None => c <= changes
Single ==
    \A f \in Files :
        /\ Known(loose[f]) /\ Known(staged[f]) /\ Known(trashed[f])
        /\ marker # None => Known(marker.clips[f])
        /\ inventory # None => Known(inventory[f])
        /\ active # None => Known(active.clips[f])
        /\ Known(job.clips[f])
        /\ loose[f] # None => loose[f] \notin {staged[f], trashed[f]}
        /\ staged[f] # None => staged[f] # trashed[f]

\* The quarantine exists while files are moved into it, and a local cleanup does
\* not go on from a quarantine that is in the Trash.
NotTrashed == \E f \in Files : trashed[f] # marker.clips[f]
StageKept ==
    /\ pc \in {"stage", "rename", "check", "trash", "send"} => stageDir
    /\ marker # None /\ ~stageDir /\ marker.status \in {"staging", "paused"} => NotTrashed
    /\ pc \in {"verify", "plan", "inventory", "journal"} /\ marker # None /\ ~stageDir =>
        NotTrashed
    /\ pc = "journal" /\ ~job.resumed => \A f \in Files : trashed[f] # job.clips[f]
    /\ pc \in Restoring => \A f \in Files : f < at => trashed[f] # marker.clips[f]

\* Where the original of the file being moved, or trashed, is not.
Elsewhere ==
    /\ pc = "rename" => marker.clips[at] \notin {staged[at], trashed[at]}
    /\ pc = "check" => loose[at] # marker.clips[at]
    /\ pc \in {"before", "replace"} => marker.clips[at] \notin {loose[at], trashed[at]}
    /\ pc = "replaced" => marker.clips[at] \notin {staged[at], trashed[at]}
    /\ pc = "send" => \A f \in Files : trashed[f] # marker.clips[f]

\* What is about to be sent to the Trash is what was verified.
SentVerified ==
    pc = "send" =>
        \A n \in Names \ late :
            staged[n] = None \/ (n \in Files /\ staged[n] = marker.clips[n])

IInv ==
    /\ TypeOK /\ Cursor /\ Whole /\ Recorded /\ Guarded /\ StillInPlace
    /\ PackKept /\ Servable /\ Single /\ StageKept /\ Elsewhere /\ SentVerified

\* The marker is written with another status.
LEMMA StatusSet ==
    ASSUME marker \in Markers, NEW status \in Statuses, NEW moved \in 0 .. N,
           SetStatus(status, moved)
    PROVE  /\ marker' \in Markers /\ marker' # None
           /\ marker'.status = status /\ marker'.moved = moved
           /\ marker'.clips = marker.clips /\ marker'.db = marker.db
BY CleanupAssumption DEF SetStatus, Markers

\* What is left when an operation ends.
Ended == /\ pc' = "idle" /\ at' = 0 /\ job' \in Jobs /\ job'.moved = 0
         /\ \A f \in Files : job'.clips[f] = None

LEMMA JobEnds == End => Ended
<1>1. NoJob \in Jobs
  BY CleanupAssumption DEF NoJob, Jobs, Clips, OrNone
<1> QED
  BY <1>1 DEF End, Ended, NoJob

\* The number of files that are not in their place.
LEMMA MissingCount == /\ Cardinality(Missing) \in 0 .. N
                      /\ Cardinality(Missing) = 0 => Missing = {}
<1>1. IsFiniteSet(Files) /\ Cardinality(Files) = N
  BY FS_Interval, CleanupAssumption DEF Files
<1>2. Missing \subseteq Files
  BY DEF Missing
<1>3. /\ IsFiniteSet(Missing) /\ Cardinality(Missing) <= N
      /\ Cardinality(Missing) \in Nat
  BY <1>1, <1>2, FS_Subset, FS_CardinalityType
<1> QED
  BY <1>3, FS_EmptySet, CleanupAssumption

\* What the entries of the records and functions of the state are.
LEMMA Values ==
    ASSUME TypeOK
    PROVE  /\ None \notin Stamps /\ 1 \in Files /\ changes \in Nat
           /\ \A f \in Files :
                /\ f \in Names /\ loose[f] \in OrNone(Stamps)
                /\ job.clips[f] \in OrNone(Stamps)
                /\ inventory # None => inventory[f] \in Stamps
                /\ marker # None => marker.clips[f] \in Stamps
                /\ active # None => active.clips[f] \in OrNone(Stamps)
           /\ \A n \in Names :
                staged[n] \in OrNone(Stamps) /\ trashed[n] \in OrNone(Stamps)
           /\ marker # None =>
                marker.clips \in Inventories /\ marker.status \in Statuses
<1>1. None \notin Stamps /\ 1 \in Files /\ Files \subseteq Names /\ changes \in Nat
  BY CleanupAssumption DEF TypeOK, Stamps, Files, Names
<1>2. job.clips \in Clips /\ (inventory # None => inventory \in Inventories)
  BY DEF TypeOK, Jobs, OrNone
<1>3. marker # None => marker.clips \in Inventories /\ marker.status \in Statuses
  BY DEF TypeOK, Markers, OrNone
<1>4. active # None => active.clips \in Clips
  BY DEF TypeOK, Packs, OrNone
<1> QED
  BY <1>1, <1>2, <1>3, <1>4 DEF TypeOK, Clips, Inventories

\* The original in hand is one the marker has.
LEMMA InHand ==
    ASSUME IInv
    PROVE  /\ pc \in {"rename", "check", "before", "replace", "replaced"} =>
                 /\ at \in Files /\ at \in Names /\ marker.clips[at] # None
                 /\ Known(marker.clips[at])
           /\ pc \in Moving \cup Restoring =>
                 \A f \in Files : marker.clips[f] # None
<1> USE DEF IInv
<1>1. pc \in Moving \cup Restoring => marker # None
  BY DEF Recorded
<1>2. pc \in Moving \cup Restoring => \A f \in Files : marker.clips[f] # None
  BY <1>1, Values
<1>3. pc \in {"rename", "check", "before", "replace", "replaced"} =>
        at \in Files /\ pc \in Moving \cup Restoring
  BY DEF Cursor, Moving, Restoring
<1> QED
  BY <1>1, <1>2, <1>3 DEF Single, Names

\* What is left of a number after whole batches is a count within a batch.
LEMMA BatchWrap == \A n \in Nat : n % Batch \in 0 .. Batch - 1
BY CleanupAssumption

\* An operation that ends, with nothing else changed but a fault counted, keeps
\* the invariant: what it leaves on disk is a state every later step can start from.
LEMMA EndStep ==
    ASSUME IInv, End, faults' \in 0 .. MaxFaults, changes' = changes,
           UNCHANGED <<fileVars, recordVars, servingVars, historyVars>>
    PROVE  IInv'
<1> USE DEF IInv, fileVars, recordVars, servingVars, historyVars
<1>1. Ended /\ pc' = "idle" /\ at' = 0
  BY JobEnds DEF Ended
<1>2. TypeOK'
  BY <1>1, CleanupAssumption DEF TypeOK, Steps, Ended
<1>3. Cursor' /\ Whole' /\ Recorded'
  BY <1>1 DEF Ended, Cursor, Whole, Cleaning, Moving, Restoring, Recorded, Validated
<1>4. Guarded' /\ StillInPlace' /\ InPlace' = InPlace
  BY <1>1 DEF Guarded, StillInPlace, InPlace, Validated
<1>5. PackKept' /\ Servable'
  BY <1>1 DEF PackKept, Bound, Verified, Servable
<1>6. Single'
  BY <1>1 DEF Ended, Single, Known
<1>7. StageKept' /\ Elsewhere' /\ SentVerified'
  BY <1>1 DEF StageKept, NotTrashed, Restoring, Elsewhere, SentVerified
<1> QED
  BY <1>2, <1>3, <1>4, <1>5, <1>6, <1>7

---------------------------------------------------------------------------
(* Moving originals into the quarantine *)

\* A full quarantine that is gone makes the marker ask for a recovery.
LEMMA NoteLostQuarantineStep == ASSUME IInv, NoteLostQuarantine PROVE IInv'
<1> USE DEF IInv
<1>1. /\ pc = "idle"
      /\ marker # None
      /\ marker.moved = N
      /\ ~stageDir
      /\ marker' \in Markers
      /\ marker' # None
      /\ marker'.clips = marker.clips
      /\ marker'.db = marker.db
      /\ marker'.status = "recovery-required"
      /\ marker'.moved = marker.moved
      /\ UNCHANGED <<loose, stageDir, staged, trashed, inventory, active, db, pc, at,
                     job, changes, faults, touched, harmed, late>>
  BY CleanupAssumption DEF NoteLostQuarantine, TypeOK, LostQuarantine, Statuses,
     Markers, OrNone, fileVars, servingVars, jobVars, boundVars, historyVars
<1>2. TypeOK' /\ Cursor' /\ Whole' /\ Recorded'
  BY <1>1 DEF TypeOK, OrNone, Cursor, Whole, Moving, Recorded, Restoring
<1>3. Guarded' /\ StillInPlace' /\ PackKept' /\ Servable'
  BY <1>1 DEF Guarded, Validated, StillInPlace, PackKept, Bound, Verified, Servable
<1>4. Single' /\ StageKept' /\ Elsewhere' /\ SentVerified'
  BY <1>1 DEF Single, Known, StageKept, Elsewhere, SentVerified
<1> QED
  BY <1>2, <1>3, <1>4

\* A cleanup starts, or goes on from a marker whose quarantine is still here.
LEMMA StartCleanupStep == ASSUME IInv, StartCleanup PROVE IInv'
<1> USE DEF IInv
<1>1. /\ pc = "idle"
      /\ Eligible
      /\ ~LostQuarantine
      /\ pc' = "verify"
      /\ UNCHANGED <<loose, stageDir, staged, trashed, marker, inventory, active, db, at,
                     job, changes, faults, touched, harmed, late>>
  BY DEF StartCleanup, Goto, fileVars, recordVars, servingVars, boundVars, historyVars
<1>2. TypeOK' /\ Cursor' /\ Whole' /\ Recorded'
  BY <1>1 DEF TypeOK, Steps, Cursor, Whole, Cleaning, Moving, Recorded, Restoring
<1>3. Guarded' /\ StillInPlace' /\ PackKept' /\ Servable'
  BY <1>1 DEF Guarded, Validated, StillInPlace, PackKept, Bound, Verified, Servable
<1>4. Single' /\ StageKept' /\ Elsewhere' /\ SentVerified'
  BY <1>1, Values DEF Single, Known, StageKept, Recorded, Eligible, LostQuarantine,
     Statuses, Restoring, NotTrashed, Elsewhere, SentVerified
<1> QED
  BY <1>2, <1>3, <1>4

\* The verified pack's clips are noted: every file has one.
LEMMA VerifyPackStep == ASSUME IInv, VerifyPack PROVE IInv'
<1> USE DEF IInv
<1> SUFFICES ASSUME ~End PROVE IInv'
  BY EndStep DEF VerifyPack, TypeOK, End, fileVars, recordVars, servingVars, boundVars,
     historyVars
<1>1. /\ pc = "verify"
      /\ pc' = "plan"
      /\ Verified
      /\ job' \in Jobs
      /\ job'.moved = job.moved
      /\ job'.missing = job.missing
      /\ job'.clips = active.clips
      /\ job'.db = db
      /\ job'.resumed <=> marker # None
      /\ UNCHANGED <<loose, stageDir, staged, trashed, marker, inventory, active, db, at,
                     changes, faults, touched, harmed, late>>
  <2>1. pc = "verify" /\ pc' = "plan" /\ Verified
    BY DEF VerifyPack
  <2>2. active \in Packs /\ active.clips \in Clips /\ db \in 0 .. 1 /\ job \in Jobs
    BY <2>1 DEF Verified, TypeOK, OrNone, Packs
  <2>3. PICK r \in BOOLEAN : r = (marker # None)
    OBVIOUS
  <2>4. job' = [job EXCEPT !.clips = active.clips, !.db = db, !.resumed = r]
    BY <2>3, Zenon DEF VerifyPack
  <2> QED
    BY <2>1, <2>2, <2>3, <2>4 DEF Jobs, VerifyPack, fileVars, recordVars, servingVars,
       boundVars, historyVars
<1>2. TypeOK' /\ Cursor' /\ Whole' /\ Recorded'
  BY <1>1 DEF TypeOK, Steps, Cursor, Whole, Moving, Verified, Recorded, Restoring
<1>3. Guarded' /\ StillInPlace' /\ PackKept' /\ Servable'
  BY <1>1 DEF Guarded, Validated, StillInPlace, PackKept, Bound, Verified, Servable
<1>4. Single' /\ StageKept' /\ Elsewhere' /\ SentVerified'
  BY <1>1 DEF Single, Known, Verified, StageKept, NotTrashed, Restoring, Elsewhere,
     SentVerified
<1> QED
  BY <1>2, <1>3, <1>4

\* A first cleanup finds all files in their place; a resumed one finds its own pack.
LEMMA PlanStep == ASSUME IInv, Plan PROVE IInv'
<1> USE DEF IInv
<1> SUFFICES ASSUME ~End PROVE IInv'
  BY EndStep DEF Plan, TypeOK, End, fileVars, recordVars, servingVars, boundVars,
     historyVars
<1>1. /\ pc = "plan"
      /\ job.resumed => pc' = "journal" /\ SameCollection
      /\ ~job.resumed => pc' = "inventory" /\ Missing = {}
      /\ job' \in Jobs
      /\ job'.clips = job.clips
      /\ job'.db = job.db
      /\ job'.resumed = job.resumed
      /\ job'.moved = job.moved
      /\ job'.missing = Cardinality(Missing)
      /\ UNCHANGED <<loose, stageDir, staged, trashed, marker, inventory, active, db, at,
                     changes, faults, touched, harmed, late>>
  BY MissingCount DEF Plan, TypeOK, Jobs, fileVars, recordVars, servingVars, boundVars,
     historyVars
<1>2. TypeOK' /\ Cursor' /\ Whole' /\ Recorded'
  BY <1>1 DEF TypeOK, Steps, Cursor, Whole, Cleaning, Moving, Recorded, Restoring,
     Validated, SameCollection
<1>3. Guarded' /\ StillInPlace' /\ PackKept' /\ Servable'
  BY <1>1, MissingCount DEF Guarded, Validated, StillInPlace, InPlace, Missing,
     PackKept, Bound, Verified, Servable
<1>4. Single' /\ StageKept' /\ Elsewhere' /\ SentVerified'
  BY <1>1 DEF Single, Known, StageKept, NotTrashed, Restoring, Elsewhere, SentVerified
<1> QED
  BY <1>2, <1>3, <1>4

\* The inventory is written from files that are equal to their clips, so none of
\* them is what the Trash already has.
LEMMA CreateInventoryStep == ASSUME IInv, CreateInventory PROVE IInv'
<1> USE DEF IInv
<1> SUFFICES ASSUME ~End PROVE IInv'
  BY EndStep DEF CreateInventory, TypeOK, End, Goto, fileVars, recordVars, servingVars,
     boundVars, historyVars
<1>1. /\ pc = "inventory"
      /\ pc' = "journal"
      /\ \A f \in Files : loose[f] = job.clips[f]
      /\ inventory' = job.clips
      /\ UNCHANGED <<loose, stageDir, staged, trashed, marker, active, db, at, job,
                     changes, faults, touched, harmed, late>>
  BY DEF CreateInventory, Goto, SameBytes, fileVars, servingVars, boundVars, historyVars
<1>2. TypeOK' /\ Cursor' /\ Whole' /\ Recorded'
  BY <1>1 DEF TypeOK, OrNone, Steps, Whole, Cleaning, Cursor, Moving, Recorded,
     Restoring
<1>3. Guarded' /\ StillInPlace' /\ PackKept' /\ Servable'
  BY <1>1 DEF Guarded, Recorded, StillInPlace, InPlace, PackKept, Verified, Servable
<1>4. Single' /\ StageKept' /\ Elsewhere' /\ SentVerified'
  BY <1>1, Values DEF Single, Known, StageKept, Restoring, NotTrashed, Whole, Cleaning,
     Inventories, Elsewhere, SentVerified
<1> QED
  BY <1>2, <1>3, <1>4

\* The marker comes after the inventory it relies on, for the pack that is served.
LEMMA JournalStep == ASSUME IInv, Journal PROVE IInv'
<1> USE DEF IInv
<1> SUFFICES ASSUME ~End PROVE IInv'
  BY EndStep DEF Journal, TypeOK, End, Goto, fileVars, recordVars, servingVars,
     boundVars, historyVars
<1>1. /\ pc = "journal"
      /\ pc' = "mkdir"
      /\ SameServing
      /\ marker' \in Markers
      /\ marker' # None
      /\ marker'.status = "staging"
      /\ marker'.moved = job.missing
      /\ marker'.clips = job.clips
      /\ marker'.db = job.db
      /\ UNCHANGED <<loose, stageDir, staged, trashed, inventory, active, db, at, job,
                     changes, faults, touched, harmed, late>>
  BY CleanupAssumption DEF Journal, TypeOK, Goto, Markers, Statuses, Jobs, Whole,
     Cleaning, fileVars, servingVars, boundVars, historyVars
<1>2. TypeOK' /\ Cursor' /\ Whole' /\ Recorded'
  BY <1>1, CleanupAssumption DEF TypeOK, OrNone, Steps, Cursor, Whole, Cleaning,
     Recorded, Validated
<1>3. Guarded' /\ StillInPlace' /\ PackKept' /\ Servable'
  BY <1>1 DEF Guarded, Validated, SameServing, Recorded, StillInPlace, InPlace,
     PackKept, Bound, Verified, Servable
<1>4. Single' /\ Elsewhere' /\ SentVerified'
  BY <1>1 DEF Single, Known, Elsewhere, SentVerified
<1>5. StageKept'
  BY <1>1, CleanupAssumption DEF StageKept, NotTrashed, Restoring, Recorded, Files
<1> QED
  BY <1>2, <1>3, <1>4, <1>5

\* The quarantine directory exists before a file is looked at.
LEMMA MakeStageStep == ASSUME IInv, MakeStage PROVE IInv'
<1> USE DEF IInv
<1>1. /\ pc = "mkdir"
      /\ pc' = "stage"
      /\ at' = 1
      /\ stageDir' = TRUE
      /\ UNCHANGED <<loose, staged, trashed, marker, inventory, active, db, job, changes,
                     faults, touched, harmed, late>>
  BY DEF MakeStage, recordVars, servingVars, boundVars, historyVars
<1>2. TypeOK' /\ Cursor' /\ Whole' /\ Recorded'
  BY <1>1, CleanupAssumption DEF TypeOK, OrNone, Steps, Cursor, Whole, Moving, Recorded,
     Validated
<1>3. Guarded' /\ StillInPlace' /\ PackKept' /\ Servable'
  BY <1>1 DEF Guarded, Validated, StillInPlace, InPlace, Cursor, PackKept, Bound,
     Verified, Servable
<1>4. Single' /\ StageKept' /\ Elsewhere' /\ SentVerified'
  BY <1>1 DEF Single, Known, StageKept, Restoring, Elsewhere, SentVerified
<1> QED
  BY <1>2, <1>3, <1>4

\* A file that is in the quarantine already has the bytes of its clip.
LEMMA RecheckStagedStep == ASSUME IInv, RecheckStaged PROVE IInv'
<1> USE DEF IInv
<1> SUFFICES ASSUME ~End PROVE IInv'
  BY EndStep DEF RecheckStaged, TypeOK, End, fileVars, recordVars, servingVars,
     boundVars, historyVars
<1>1. /\ pc = "stage"
      /\ at \in Files
      /\ loose[at] = None
      /\ staged[at] = job.clips[at]
      /\ at' = at + 1
      /\ UNCHANGED <<loose, stageDir, staged, trashed, marker, inventory, active, db, pc,
                     changes, faults, touched, harmed, late>>
      /\ job' \in Jobs
      /\ job'.clips = job.clips
      /\ job'.db = job.db
      /\ job'.resumed = job.resumed
      /\ job'.missing = job.missing
      /\ job'.moved = job.moved + 1
  BY CleanupAssumption DEF RecheckStaged, TypeOK, Jobs, SameBytes, Cursor, Files,
     fileVars, recordVars, servingVars, boundVars, historyVars
<1>2. Cursor' /\ Whole' /\ Recorded'
  BY <1>1, CleanupAssumption DEF Cursor, Recorded, Validated, Files, Whole
<1>3. TypeOK'
  BY <1>1, CleanupAssumption DEF TypeOK, Files
<1>4. Guarded' /\ StillInPlace' /\ PackKept' /\ Servable'
  BY <1>1 DEF Guarded, Validated, StillInPlace, Cursor, PackKept, Bound, Verified,
     Servable
<1>5. Single' /\ StageKept' /\ Elsewhere' /\ SentVerified'
  BY <1>1 DEF Single, Known, StageKept, Restoring, Elsewhere, SentVerified
<1> QED
  BY <1>2, <1>3, <1>4, <1>5

\* The file that will be moved is the original, and it is nowhere else.
LEMMA CompareLooseStep == ASSUME IInv, CompareLoose PROVE IInv'
<1> USE DEF IInv
<1> SUFFICES ASSUME ~End PROVE IInv'
  BY EndStep DEF CompareLoose, TypeOK, End, fileVars, recordVars, servingVars,
     boundVars, historyVars
<1>1. /\ pc = "stage"
      /\ at \in Files
      /\ staged[at] = None
      /\ loose[at] # None
      /\ loose[at] = job.clips[at]
      /\ pc' = "rename"
      /\ UNCHANGED <<loose, stageDir, staged, trashed, marker, inventory, active, db, at,
                     changes, faults, touched, harmed, late>>
      /\ job' \in Jobs
      /\ job'.clips = job.clips
      /\ job'.db = job.db
      /\ job'.resumed = job.resumed
      /\ job'.missing = job.missing
      /\ job'.moved = job.moved
  BY DEF CompareLoose, TypeOK, Jobs, SameBytes, fileVars, recordVars, servingVars,
     boundVars, historyVars
<1>2. TypeOK' /\ Cursor' /\ Whole' /\ Recorded'
  BY <1>1 DEF TypeOK, OrNone, Steps, Cursor, Whole, Moving, Recorded, Validated
<1>3. Guarded' /\ StillInPlace' /\ PackKept' /\ Servable'
  BY <1>1 DEF Guarded, Validated, StillInPlace, PackKept, Bound, Verified, Servable
<1>4. Single' /\ StageKept' /\ SentVerified'
  BY <1>1 DEF Single, Known, StageKept, Restoring, SentVerified
<1>5. Elsewhere'
  BY <1>1 DEF Elsewhere, Recorded, Moving, Single
<1> QED
  BY <1>2, <1>3, <1>4, <1>5

\* The moved original goes where nothing of it was, and the pack has its clip.
LEMMA MoveToStageStep == ASSUME IInv, MoveToStage PROVE IInv'
<1> USE DEF IInv
<1> SUFFICES ASSUME ~End PROVE IInv'
  BY EndStep DEF MoveToStage, TypeOK, End, Goto, fileVars, recordVars, servingVars,
     boundVars, historyVars
<1>1. /\ pc = "rename"
      /\ at \in Files
      /\ loose[at] # None
      /\ pc' = "check"
      /\ staged' \in [Names -> OrNone(Stamps)]
      /\ staged'[at] = loose[at]
      /\ \A g \in Names \ {at} : staged'[g] = staged[g]
      /\ loose' \in [Files -> OrNone(Stamps)]
      /\ loose'[at] = None
      /\ \A g \in Files \ {at} : loose'[g] = loose[g]
      /\ UNCHANGED <<stageDir, trashed, marker, inventory, active, db, at, job, changes,
                     faults, touched, harmed, late>>
  BY DEF MoveToStage, TypeOK, Goto, Cursor, Names, OrNone, recordVars, servingVars,
     boundVars, historyVars
<1>2. TypeOK' /\ Cursor' /\ Whole' /\ Recorded'
  BY <1>1 DEF TypeOK, OrNone, Steps, Cursor, Whole, Moving, Recorded, Validated
<1>3. Guarded' /\ StillInPlace' /\ PackKept'
  BY <1>1 DEF Guarded, Validated, Recorded, Moving, StillInPlace, PackKept, Bound,
     Verified
<1>4. Servable'
  BY <1>1 DEF Servable, Verified, Recorded, Moving, PackKept, Bound
<1>5. StageKept' /\ Elsewhere' /\ SentVerified'
  BY <1>1, InHand DEF StageKept, Restoring, Elsewhere, SentVerified
<1>6. Single'
  BY <1>1 DEF Single, Known, Names
<1> QED
  BY <1>2, <1>3, <1>4, <1>5, <1>6

\* A move that took what was compared counts.
LEMMA CheckMovedStep == ASSUME IInv, CheckMoved PROVE IInv'
<1> USE DEF IInv
<1>1. /\ pc = "check"
      /\ at \in Files
      /\ pc' = "stage"
      /\ at' = at + 1
      /\ job' \in Jobs
      /\ job'.clips = job.clips
      /\ job'.db = job.db
      /\ job'.resumed = job.resumed
      /\ job'.missing = job.missing
      /\ job'.moved = job.moved + 1
      /\ marker' \in Markers
      /\ marker' # None
      /\ marker'.clips = marker.clips
      /\ marker'.db = marker.db
      /\ \/ UNCHANGED marker
         \/ marker'.status = "staging" /\ marker'.moved = job.moved + 1
      /\ UNCHANGED <<loose, stageDir, staged, trashed, inventory, active, db, changes,
                     faults, touched, harmed, late>>
  <2>1. pc = "check" /\ at \in Files /\ job \in Jobs /\ marker \in Markers /\ marker # None
    BY DEF CheckMoved, TypeOK, Cursor, Recorded, Moving, OrNone
  <2>2. /\ (job.since + 1) % Batch \in 0 .. Batch - 1
        /\ None \in OrNone(Stamps) /\ job.moved + 1 \in 0 .. N
    BY <2>1, BatchWrap, CleanupAssumption DEF Jobs, OrNone, Cursor, Files
  <2>3. job' = [job EXCEPT !.seen = None, !.moved = job.moved + 1,
                           !.since = (job.since + 1) % Batch]
    BY DEF CheckMoved
  <2> DEFINE since == (job.since + 1) % Batch
  <2> HIDE DEF since
  <2>4. /\ job' \in Jobs /\ job'.moved = job.moved + 1
        /\ UNCHANGED <<job.clips, job.db, job.resumed, job.missing>>
    BY <2>1, <2>2, <2>3 DEF Jobs, since
  <2>5. \/ UNCHANGED marker
        \/ SetStatus("staging", job.moved + 1)
    BY DEF CheckMoved
  <2> QED
    BY <2>1, <2>2, <2>4, <2>5, StatusSet DEF CheckMoved, Statuses, fileVars,
       servingVars, boundVars, historyVars
<1>2. Cursor' /\ Whole' /\ Recorded'
  BY <1>1, CleanupAssumption DEF Cursor, Recorded, Moving, Cleaning, Validated, Files,
     Whole
<1>3. TypeOK'
  BY <1>1, CleanupAssumption DEF TypeOK, OrNone, Steps, Files
<1>4. Guarded' /\ StillInPlace' /\ Servable'
  BY <1>1 DEF Guarded, Validated, StillInPlace, Files, Servable, Verified
<1>5. PackKept'
  BY <1>1 DEF PackKept, Bound, Verified, Recorded, Moving
<1>6. Single' /\ StageKept' /\ Elsewhere' /\ SentVerified'
  BY <1>1 DEF Single, Known, Recorded, Moving, Restoring, StageKept, Elsewhere,
     SentVerified
<1> QED
  BY <1>2, <1>3, <1>4, <1>5, <1>6

\* A move that took something else is undone.
LEMMA RollBackMoveStep == ASSUME IInv, RollBackMove PROVE IInv'
<1> USE DEF IInv
<1>1. /\ pc = "check"
      /\ at \in Files
      /\ Ended
      /\ staged' \in [Names -> OrNone(Stamps)]
      /\ staged'[at] = None
      /\ \A g \in Names \ {at} : staged'[g] = staged[g]
      /\ loose' \in [Files -> OrNone(Stamps)]
      /\ loose'[at] = IF staged[at] = None THEN loose[at] ELSE staged[at]
      /\ \A g \in Files \ {at} : loose'[g] = loose[g]
      /\ UNCHANGED <<stageDir, trashed, marker, inventory, active, db, changes, faults,
                     touched, harmed, late>>
  BY JobEnds DEF RollBackMove, TypeOK, Cursor, Names, OrNone, recordVars, servingVars,
     boundVars, historyVars
<1>2. TypeOK' /\ Cursor' /\ Whole' /\ Recorded'
  BY <1>1, CleanupAssumption DEF TypeOK, Steps, Ended, Cursor, Whole, Cleaning, Moving,
     Recorded, Restoring
<1>3. Guarded' /\ StillInPlace' /\ PackKept' /\ Servable'
  BY <1>1 DEF Guarded, Validated, StillInPlace, Ended, PackKept, Bound, Verified,
     Servable
<1>4. StageKept' /\ Elsewhere' /\ SentVerified'
  BY <1>1 DEF StageKept, Restoring, Ended, Elsewhere, SentVerified
<1>5. Single'
  BY <1>1 DEF Single, Known, Ended, Names
<1> QED
  BY <1>2, <1>3, <1>4, <1>5

\* A cancelled cleanup drops the marker only if it has moved nothing, now or before.
LEMMA CancelStagingStep == ASSUME IInv, CancelStaging PROVE IInv'
<1> USE DEF IInv
<1>1. /\ pc = "stage"
      /\ at \in Files
      /\ Ended
      /\ faults' \in 0 .. MaxFaults
      /\ \/ /\ at = 1 /\ marker.moved = 0 /\ Occupied = {}
            /\ stageDir' = FALSE /\ marker' = None
         \/ /\ stageDir' = stageDir /\ marker' \in Markers /\ marker' # None
            /\ marker'.clips = marker.clips /\ marker'.db = marker.db
            /\ marker'.status = "paused"
      /\ UNCHANGED <<loose, staged, trashed, inventory, active, db, changes, touched,
                     harmed, late>>
  BY StatusSet, JobEnds, CleanupAssumption DEF CancelStaging, TypeOK, Jobs, Markers,
     Cursor, Recorded, Moving, OrNone, Statuses, Files, Fault, servingVars, historyVars
<1>2. Cursor' /\ Whole' /\ Recorded'
  BY <1>1 DEF Cursor, Ended, Whole, Cleaning, Moving, Recorded, Restoring
<1>3. TypeOK'
  <2>1. stageDir' \in BOOLEAN /\ marker' \in OrNone(Markers)
    BY <1>1 DEF TypeOK, OrNone
  <2> QED
    BY <1>1, <2>1, CleanupAssumption DEF TypeOK, Ended, Steps
<1>4. StillInPlace'
  BY <1>1 DEF StillInPlace, Ended
<1>5. Guarded'
  BY <1>1 DEF Guarded, Validated, StillInPlace, InPlace
<1>6. PackKept'
  BY <1>1 DEF PackKept, Bound, Verified, Recorded, Moving
<1>7. Servable'
  BY <1>1 DEF Servable, Verified, StillInPlace, InPlace
<1>8. Elsewhere' /\ SentVerified'
  BY <1>1 DEF Elsewhere, Ended, SentVerified
<1>9. Single'
  BY <1>1 DEF Single, Known, Ended, Recorded, Moving
<1>10. StageKept'
  <2>1. stageDir
     BY <1>1 DEF StageKept
  <2> QED
     BY <1>1, <2>1 DEF StageKept, Ended, Restoring
<1> QED
  BY <1>2, <1>3, <1>4, <1>5, <1>6, <1>7, <1>8, <1>9, <1>10

\* All the files are in the quarantine.
LEMMA QuarantinedStep == ASSUME IInv, Quarantined PROVE IInv'
<1> USE DEF IInv
<1>1. /\ pc = "stage"
      /\ at = N + 1
      /\ pc' = "trash"
      /\ marker' \in Markers
      /\ marker' # None
      /\ marker'.clips = marker.clips
      /\ marker'.db = marker.db
      /\ marker'.status = "quarantined"
      /\ marker'.moved = N
      /\ UNCHANGED <<loose, stageDir, staged, trashed, inventory, active, db, at, job,
                     changes, faults, touched, harmed, late>>
  BY StatusSet, CleanupAssumption DEF Quarantined, TypeOK, Cursor, Recorded, Moving,
     OrNone, Statuses, Jobs, fileVars, servingVars, boundVars, historyVars
<1>2. TypeOK' /\ Cursor' /\ Whole' /\ Recorded'
  BY <1>1 DEF TypeOK, OrNone, Steps, Cursor, Whole, Moving, Recorded, Validated
<1>3. Guarded' /\ StillInPlace' /\ Servable'
  BY <1>1 DEF Guarded, Validated, StillInPlace, Servable, Verified
<1>4. PackKept'
  BY <1>1 DEF PackKept, Bound, Verified, Recorded, Moving
<1>5. Single' /\ StageKept' /\ Elsewhere' /\ SentVerified'
  BY <1>1 DEF Single, Known, Recorded, Moving, Restoring, StageKept, Elsewhere,
     SentVerified
<1> QED
  BY <1>2, <1>3, <1>4, <1>5

\* What was verified is all there is in the quarantine, and nothing of it is in the
\* Trash.
LEMMA VerifyStageStep == ASSUME IInv, VerifyStage PROVE IInv'
<1> USE DEF IInv
<1> SUFFICES ASSUME ~End PROVE IInv'
  BY EndStep DEF VerifyStage, TypeOK, End, Goto, fileVars, recordVars, servingVars,
     boundVars, historyVars
<1>1. /\ pc = "trash"
      /\ pc' = "send"
      /\ Bound
      /\ StageExact
      /\ late' = {}
      /\ UNCHANGED <<loose, stageDir, staged, trashed, marker, inventory, active, db, at,
                     job, changes, faults, touched, harmed>>
  BY DEF VerifyStage, Goto, fileVars, recordVars, servingVars, boundVars
<1>2. TypeOK' /\ Cursor' /\ Whole' /\ Recorded'
  BY <1>1 DEF TypeOK, OrNone, Steps, Cursor, Whole, Moving, Recorded, Validated
<1>3. Guarded' /\ StillInPlace' /\ PackKept' /\ Servable'
  BY <1>1 DEF Guarded, Validated, StillInPlace, PackKept, Bound, Verified, Servable
<1>4. Single' /\ StageKept'
  BY <1>1 DEF Single, Known, StageKept, Restoring
<1>5. Elsewhere'
  BY <1>1 DEF Elsewhere, StageExact, SameBytes, Occupied, Recorded, Moving, Single
<1>6. SentVerified'
  BY <1>1 DEF SentVerified, StageExact, SameBytes, Occupied, Recorded, Moving
<1> QED
  BY <1>2, <1>3, <1>4, <1>5, <1>6

\* The Trash takes all, some or none of what was verified.
LEMMA SendStep == ASSUME IInv, Send PROVE IInv'
<1> USE DEF IInv
<1>1. /\ pc = "send"
      /\ pc' = "sent"
      /\ trashed' \in [Names -> OrNone(Stamps)]
      /\ staged' \in [Names -> OrNone(Stamps)]
      /\ stageDir' \in BOOLEAN
      /\ faults' \in 0 .. MaxFaults
      /\ job' \in Jobs
      /\ job'.clips = job.clips
      /\ job'.db = job.db
      /\ job'.resumed = job.resumed
      /\ job'.missing = job.missing
      /\ job'.moved = job.moved
      /\ \A n \in Names :
           \/ staged'[n] = staged[n] /\ trashed'[n] = trashed[n]
           \/ /\ staged'[n] = None
              /\ trashed'[n] = IF staged[n] # None THEN staged[n] ELSE trashed[n]
      /\ UNCHANGED <<loose, marker, inventory, active, db, at, changes, touched, harmed,
                     late>>
  BY CleanupAssumption DEF Send, TypeOK, Jobs, Fault, OrNone, recordVars, servingVars,
     historyVars
<1>2. TypeOK' /\ Cursor' /\ Whole' /\ Recorded'
  BY <1>1 DEF TypeOK, OrNone, Steps, Cursor, Whole, Moving, Recorded, Validated
<1>3. Guarded' /\ StillInPlace' /\ PackKept' /\ Servable'
  BY <1>1 DEF Guarded, Validated, StillInPlace, PackKept, Bound, Verified, Servable
<1>4. StageKept' /\ Elsewhere' /\ SentVerified'
  BY <1>1 DEF StageKept, Restoring, Recorded, Elsewhere, SentVerified
<1>5. Single'
  BY <1>1 DEF Single, Known, Names
<1> QED
  BY <1>2, <1>3, <1>4, <1>5

\* A Trash that failed leaves a marker that says so.
LEMMA SentStep == ASSUME IInv, Sent PROVE IInv'
<1> USE DEF IInv
<1>1. /\ pc = "sent"
      /\ \/ /\ pc' = "recheck" /\ UNCHANGED <<marker, at, job>>
         \/ /\ Ended /\ marker' \in Markers /\ marker' # None
            /\ marker'.clips = marker.clips /\ marker'.db = marker.db /\ marker'.moved = N
            /\ marker'.status \in {"trash-failed", "recovery-required"}
      /\ UNCHANGED <<loose, stageDir, staged, trashed, inventory, active, db, changes,
                     faults, touched, harmed, late>>
  BY StatusSet, JobEnds, CleanupAssumption DEF Sent, TypeOK, Recorded, Moving, OrNone,
     Statuses, Goto, fileVars, servingVars, boundVars, historyVars
<1>2. TypeOK' /\ Cursor' /\ Whole' /\ Recorded'
  BY <1>1, CleanupAssumption DEF TypeOK, OrNone, Steps, Ended, Cursor, Whole, Cleaning,
     Moving, Recorded, Validated
<1>3. Guarded' /\ StillInPlace' /\ Servable'
  BY <1>1 DEF Guarded, Validated, StillInPlace, Ended, Servable, Verified
<1>4. PackKept'
  BY <1>1 DEF PackKept, Bound, Verified, Recorded, Moving
<1>5. StageKept' /\ Elsewhere' /\ SentVerified'
  BY <1>1 DEF StageKept, NotTrashed, Restoring, Ended, Elsewhere, SentVerified
<1>6. Single'
  BY <1>1 DEF Single, Known, Ended, Recorded, Moving
<1> QED
  BY <1>2, <1>3, <1>4, <1>5, <1>6

\* The cleanup is complete, or the pack that is the only copy is bad and it says so.
LEMMA CompleteStep == ASSUME IInv, Complete PROVE IInv'
<1> USE DEF IInv
<1>1. /\ pc = "recheck"
      /\ Ended
      /\ marker' \in Markers
      /\ marker' # None
      /\ marker'.clips = marker.clips
      /\ marker'.db = marker.db
      /\ marker'.status \in {"completed", "recovery-required"}
      /\ UNCHANGED <<loose, stageDir, staged, trashed, inventory, active, db, changes,
                     faults, touched, harmed, late>>
  BY StatusSet, JobEnds, CleanupAssumption DEF Complete, TypeOK, Recorded, Moving,
     OrNone, Statuses, fileVars, servingVars, boundVars, historyVars
<1>2. TypeOK' /\ Cursor' /\ Whole' /\ Recorded'
  BY <1>1, CleanupAssumption DEF TypeOK, OrNone, Steps, Ended, Cursor, Whole, Cleaning,
     Moving, Recorded, Restoring
<1>3. Guarded' /\ StillInPlace' /\ Servable'
  BY <1>1 DEF Guarded, Validated, StillInPlace, Ended, Servable, Verified
<1>4. PackKept'
  BY <1>1 DEF PackKept, Bound, Verified, Recorded, Moving
<1>5. StageKept' /\ Elsewhere' /\ SentVerified'
  BY <1>1 DEF StageKept, Restoring, Ended, Elsewhere, SentVerified
<1>6. Single'
  BY <1>1 DEF Single, Known, Ended, Recorded, Moving
<1> QED
  BY <1>2, <1>3, <1>4, <1>5, <1>6

---------------------------------------------------------------------------
(* Bringing them back *)

\* A restore starts with the first file.
LEMMA StartRestoreStep == ASSUME IInv, StartRestore PROVE IInv'
<1> USE DEF IInv
<1>1. /\ pc = "idle"
      /\ marker # None
      /\ Validated
      /\ pc' = "restore"
      /\ at' = 1
      /\ UNCHANGED <<loose, stageDir, staged, trashed, marker, inventory, active, db,
                     job, changes, faults, touched, harmed, late>>
  BY DEF StartRestore, fileVars, recordVars, servingVars, boundVars, historyVars
<1>2. TypeOK' /\ Cursor' /\ Whole' /\ Recorded'
  BY <1>1, CleanupAssumption DEF TypeOK, Steps, Cursor, Whole, Cleaning, Moving,
     Recorded, Validated
<1>3. Guarded' /\ StillInPlace' /\ PackKept' /\ Servable'
  BY <1>1 DEF Guarded, Validated, StillInPlace, PackKept, Bound, Verified, Servable
<1>4. Single' /\ StageKept' /\ Elsewhere' /\ SentVerified'
  BY <1>1 DEF Single, Known, StageKept, NotTrashed, Files, Elsewhere, SentVerified
<1> QED
  BY <1>2, <1>3, <1>4

\* A restore goes past a file that is back, and past no file that is in the Trash.
LEMMA ExamineFileStep == ASSUME IInv, ExamineFile PROVE IInv'
<1> USE DEF IInv
<1> SUFFICES ASSUME ~End PROVE IInv'
  BY EndStep DEF ExamineFile, TypeOK, End, fileVars, recordVars, servingVars, boundVars,
     historyVars
<1>1. /\ pc = "restore"
      /\ at \in Files
      /\ \/ /\ pc' = "before" /\ at' = at
            /\ staged[at] = inventory[at] /\ loose[at] = None
         \/ /\ pc' = "restore" /\ at' = at + 1
            /\ staged[at] = None /\ loose[at] = inventory[at]
      /\ UNCHANGED <<loose, stageDir, staged, trashed, marker, inventory, active, db,
                     job, changes, faults, touched, harmed, late>>
  BY DEF ExamineFile, SameHash, fileVars, recordVars, servingVars, boundVars,
     historyVars
<1>2. Cursor' /\ Whole' /\ Recorded'
  BY <1>1, CleanupAssumption DEF Cursor, Recorded, Moving, Cleaning, Restoring,
     Validated, Files, Whole
<1>3. TypeOK'
  BY <1>1, CleanupAssumption DEF TypeOK, Steps, Files
<1>4. Guarded' /\ StillInPlace' /\ PackKept' /\ Servable'
  BY <1>1 DEF Guarded, Validated, StillInPlace, PackKept, Bound, Verified, Servable
<1>5. Single' /\ SentVerified'
  BY <1>1 DEF Single, Known, SentVerified
<1>6. StageKept'
  <2>1. pc' = "restore" => marker.clips[at] # trashed[at]
     BY <1>1, InHand, Values DEF Recorded, Restoring, Validated, Single
  <2> QED
    BY <1>1, <2>1 DEF StageKept, NotTrashed, Restoring, Files
<1>7. Elsewhere'
  <2>1. pc' = "before" => marker.clips[at] \notin {loose[at], trashed[at]}
     BY <1>1, InHand, Values DEF Recorded, Restoring, Validated, Single
  <2> QED
    BY <1>1, <2>1 DEF Elsewhere
<1> QED
  BY <1>2, <1>3, <1>4, <1>5, <1>6, <1>7

\* The destination is still free.
LEMMA BeforeReplaceStep == ASSUME IInv, BeforeReplace PROVE IInv'
<1> USE DEF IInv
<1> SUFFICES ASSUME ~End PROVE IInv'
  BY EndStep DEF BeforeReplace, TypeOK, End, fileVars, recordVars, servingVars,
     boundVars, historyVars
<1>1. /\ pc = "before"
      /\ loose[at] = None
      /\ pc' = "replace"
      /\ job' \in Jobs
      /\ job'.clips = job.clips
      /\ job'.db = job.db
      /\ job'.resumed = job.resumed
      /\ job'.missing = job.missing
      /\ job'.moved = job.moved
      /\ UNCHANGED <<loose, stageDir, staged, trashed, marker, inventory, active, db, at,
                     changes, faults, touched, harmed, late>>
  BY DEF BeforeReplace, TypeOK, Jobs, Cursor, Names, OrNone, Files, fileVars,
     recordVars, servingVars, boundVars, historyVars
<1>2. TypeOK' /\ Cursor' /\ Whole' /\ Recorded'
  BY <1>1 DEF TypeOK, Steps, Cursor, Whole, Cleaning, Moving, Recorded, Restoring,
     Validated
<1>3. Guarded' /\ StillInPlace' /\ PackKept' /\ Servable'
  BY <1>1 DEF Guarded, Validated, StillInPlace, PackKept, Bound, Verified, Servable
<1>4. Single' /\ StageKept' /\ Elsewhere' /\ SentVerified'
  BY <1>1 DEF Single, Known, StageKept, NotTrashed, Restoring, Elsewhere, SentVerified
<1> QED
  BY <1>2, <1>3, <1>4

\* The original comes back to a place that is free.
LEMMA ReplaceLooseStep == ASSUME IInv, ReplaceLoose PROVE IInv'
<1> USE DEF IInv
<1>1. /\ pc = "replace"
      /\ at \in Files
      /\ pc' = "replaced"
      /\ loose' \in [Files -> OrNone(Stamps)]
      /\ loose'[at] = staged[at]
      /\ \A g \in Files \ {at} : loose'[g] = loose[g]
      /\ staged' \in [Names -> OrNone(Stamps)]
      /\ staged'[at] = None
      /\ \A g \in Names \ {at} : staged'[g] = staged[g]
      /\ UNCHANGED <<stageDir, trashed, marker, inventory, active, db, at, job, changes,
                     faults, touched, harmed, late>>
  BY DEF ReplaceLoose, TypeOK, Goto, Cursor, Names, OrNone, recordVars, servingVars,
     boundVars, historyVars
<1>2. TypeOK' /\ Cursor' /\ Whole' /\ Recorded'
  BY <1>1 DEF TypeOK, Steps, Cursor, Whole, Cleaning, Moving, Recorded, Restoring,
     Validated
<1>3. Guarded' /\ StillInPlace' /\ PackKept'
  BY <1>1 DEF Guarded, Validated, Recorded, Restoring, StillInPlace, PackKept, Bound,
     Verified
<1>4. Servable'
  BY <1>1 DEF Servable, Verified, Recorded, Restoring, PackKept, Bound
<1>5. StageKept' /\ Elsewhere' /\ SentVerified'
  BY <1>1, InHand DEF StageKept, NotTrashed, Restoring, Elsewhere, SentVerified
<1>6. Single'
  BY <1>1 DEF Single, Known, Names
<1> QED
  BY <1>2, <1>3, <1>4, <1>5, <1>6

\* What came back is what was looked at, or is put into the quarantine again.
LEMMA CheckReplacedStep == ASSUME IInv, CheckReplaced PROVE IInv'
<1> USE DEF IInv
<1>1. /\ pc = "replaced"
      /\ at \in Files
      /\ \/ /\ loose[at] = job.seen /\ pc' = "restore" /\ at' = at + 1
            /\ job' \in Jobs /\ job'.clips = job.clips /\ job'.moved = job.moved
            /\ UNCHANGED <<loose, staged>>
         \/ /\ Ended
            /\ staged' \in [Names -> OrNone(Stamps)] /\ staged'[at] = loose[at]
            /\ \A g \in Names \ {at} : staged'[g] = staged[g]
            /\ loose' \in [Files -> OrNone(Stamps)] /\ loose'[at] = None
            /\ \A g \in Files \ {at} : loose'[g] = loose[g]
      /\ UNCHANGED <<stageDir, trashed, marker, inventory, active, db, changes, faults,
                     touched, harmed, late>>
  BY JobEnds DEF CheckReplaced, TypeOK, Jobs, Cursor, Names, OrNone, recordVars,
     servingVars, boundVars, historyVars
<1>2. Cursor' /\ Whole' /\ Recorded'
  BY <1>1, CleanupAssumption DEF Cursor, Ended, Recorded, Moving, Cleaning, Restoring,
     Validated, Files, Whole
<1>3. TypeOK'
  BY <1>1, CleanupAssumption DEF TypeOK, Steps, Ended, Files
<1>4. Guarded' /\ StillInPlace' /\ PackKept'
  BY <1>1 DEF Guarded, Validated, Ended, Recorded, Restoring, StillInPlace, PackKept,
     Bound, Verified
<1>5. Servable'
  BY <1>1 DEF Servable, Verified, Recorded, Restoring, PackKept, Bound
<1>6. StageKept' /\ Elsewhere' /\ SentVerified'
  BY <1>1 DEF StageKept, Ended, Restoring, NotTrashed, Elsewhere, Files, SentVerified
<1>7. Single'
  BY <1>1, CleanupAssumption DEF Single, Known, Ended, OrNone, Names
<1> QED
  BY <1>2, <1>3, <1>4, <1>5, <1>6, <1>7

\* An empty quarantine goes; no original is in the Trash.
LEMMA RemoveStageStep == ASSUME IInv, RemoveStage PROVE IInv'
<1> USE DEF IInv
<1> SUFFICES ASSUME ~End PROVE IInv'
  BY EndStep DEF RemoveStage, TypeOK, End, fileVars, recordVars, servingVars, boundVars,
     historyVars
<1>1. /\ pc = "restore"
      /\ at = N + 1
      /\ Occupied = {}
      /\ pc' = "final"
      /\ stageDir' = FALSE
      /\ UNCHANGED <<loose, staged, trashed, marker, inventory, active, db, at, job,
                     changes, faults, touched, harmed, late>>
  BY DEF RemoveStage, recordVars, servingVars, boundVars, historyVars
<1>2. TypeOK'
  BY <1>1 DEF TypeOK, OrNone, Steps
<1>3. Cursor'
  BY <1>1 DEF Cursor
<1>4. Whole' /\ Recorded'
  BY <1>1 DEF Whole, Cleaning, Moving, Recorded, Restoring, Validated
<1>5. Guarded' /\ StillInPlace' /\ PackKept' /\ Servable'
  BY <1>1 DEF Guarded, Validated, StillInPlace, PackKept, Bound, Verified, Servable
<1>6. Single' /\ Elsewhere' /\ SentVerified'
  BY <1>1 DEF Single, Known, Elsewhere, SentVerified
<1>7. StageKept'
  BY <1>1, CleanupAssumption DEF StageKept, NotTrashed, Restoring, Files
<1> QED
  BY <1>2, <1>3, <1>4, <1>5, <1>6, <1>7

\* All the originals are in their place before the marker goes.
LEMMA VerifyRestoredStep == ASSUME IInv, VerifyRestored PROVE IInv'
<1> USE DEF IInv
<1> SUFFICES ASSUME ~End PROVE IInv'
  BY EndStep DEF VerifyRestored, TypeOK, End, Goto, fileVars, recordVars, servingVars,
     boundVars, historyVars
<1>1. /\ pc = "final"
      /\ \A f \in Files : loose[f] = inventory[f]
      /\ pc' = "pack"
      /\ UNCHANGED <<loose, stageDir, staged, trashed, marker, inventory, active, db, at,
                     job, changes, faults, touched, harmed, late>>
  BY DEF VerifyRestored, Goto, SameHash, fileVars, recordVars, servingVars, boundVars,
     historyVars
<1>2. TypeOK' /\ Cursor' /\ Whole' /\ Recorded'
  BY <1>1 DEF TypeOK, Steps, Cursor, Whole, Cleaning, Moving, Recorded, Restoring,
     Validated
<1>3. Guarded' /\ PackKept' /\ Servable'
  BY <1>1 DEF Guarded, Validated, PackKept, Bound, Verified, Servable
<1>4. StillInPlace'
  <2>1. \A f \in Files : loose[f] # None
    BY <1>1, Values DEF Recorded, Restoring, Validated
  <2> QED
    BY <1>1, <2>1 DEF StillInPlace, InPlace
<1>5. Single' /\ StageKept' /\ Elsewhere' /\ SentVerified'
  BY <1>1 DEF Single, Known, StageKept, NotTrashed, Restoring, Elsewhere, SentVerified
<1> QED
  BY <1>2, <1>3, <1>4, <1>5

\* The pack is switched off only when every file is in its place.
LEMMA DisablePackStep == ASSUME IInv, DisablePack PROVE IInv'
<1> USE DEF IInv
<1>1. /\ pc = "pack"
      /\ active' \in {active, None}
      /\ Bound => active' = active
      /\ pc' = "clear"
      /\ UNCHANGED <<loose, stageDir, staged, trashed, marker, inventory, db, at, job,
                     changes, faults, touched, harmed, late>>
  BY DEF DisablePack, Goto, fileVars, recordVars, boundVars, historyVars
<1>2. TypeOK' /\ Cursor' /\ Whole' /\ Recorded'
  BY <1>1 DEF TypeOK, OrNone, Steps, Cursor, Whole, Cleaning, Moving, Recorded,
     Restoring, Validated
<1>3. Guarded' /\ StillInPlace' /\ PackKept'
  BY <1>1 DEF Guarded, StillInPlace, InPlace, PackKept, Bound, Verified
<1>4. Servable'
  BY <1>1 DEF Servable, StillInPlace, InPlace
<1>5. Single' /\ StageKept' /\ Elsewhere' /\ SentVerified'
  BY <1>1 DEF Single, Known, StageKept, NotTrashed, Restoring, Elsewhere, SentVerified
<1> QED
  BY <1>2, <1>3, <1>4, <1>5

\* Builds are free again with every file in its place.
LEMMA ClearMarkerStep == ASSUME IInv, ClearMarker PROVE IInv'
<1> USE DEF IInv
<1>1. /\ pc = "clear"
      /\ marker' = None
      /\ pc' = "forget"
      /\ UNCHANGED <<loose, stageDir, staged, trashed, inventory, active, db, at, job,
                     changes, faults, touched, harmed, late>>
  BY DEF ClearMarker, Goto, fileVars, servingVars, boundVars, historyVars
<1>2. TypeOK' /\ Cursor' /\ Whole' /\ Recorded'
  BY <1>1 DEF TypeOK, OrNone, Steps, Cursor, Whole, Cleaning, Moving, Recorded,
     Restoring
<1>3. StillInPlace' /\ PackKept'
  BY <1>1 DEF StillInPlace, InPlace, PackKept
<1>4. Guarded'
  BY <1>1 DEF Guarded, StillInPlace, InPlace
<1>5. Servable'
  BY <1>1 DEF Servable, StillInPlace, InPlace
<1>6. Single' /\ StageKept' /\ Elsewhere' /\ SentVerified'
  BY <1>1 DEF Single, Known, StageKept, Restoring, Elsewhere, SentVerified
<1> QED
  BY <1>2, <1>3, <1>4, <1>5, <1>6

\* The inventory goes after the marker that needs it.
LEMMA ForgetInventoryStep == ASSUME IInv, ForgetInventory PROVE IInv'
<1> USE DEF IInv
<1>1. /\ pc = "forget"
      /\ inventory' = None
      /\ Ended
      /\ UNCHANGED <<loose, stageDir, staged, trashed, marker, active, db, changes,
                     faults, touched, harmed, late>>
  BY JobEnds DEF ForgetInventory, fileVars, servingVars, boundVars, historyVars
<1>2. TypeOK' /\ Cursor' /\ Whole' /\ Recorded'
  BY <1>1, CleanupAssumption DEF TypeOK, OrNone, Steps, Ended, Cursor, Whole, Cleaning,
     Moving, Recorded, Restoring
<1>3. Guarded' /\ StillInPlace' /\ PackKept' /\ Servable'
  BY <1>1 DEF Guarded, Ended, Recorded, StillInPlace, PackKept, Servable
<1>4. Single' /\ StageKept' /\ Elsewhere' /\ SentVerified'
  BY <1>1 DEF Single, Known, Ended, StageKept, NotTrashed, Restoring, Elsewhere,
     SentVerified
<1> QED
  BY <1>2, <1>3, <1>4

---------------------------------------------------------------------------
(* Builds, and the world around *)

\* A build makes a pack of what is there; only files that others took are missing.
LEMMA BuildStep == ASSUME IInv, Build PROVE IInv'
<1> USE DEF IInv
<1>1. /\ pc = "idle"
      /\ marker = None
      /\ active' \in Packs
      /\ active' # None
      /\ active'.clips = loose
      /\ active'.db = db
      /\ active'.sound <=> Missing = {}
      /\ touched' = touched \cap Missing
      /\ harmed' = FALSE
      /\ UNCHANGED <<loose, stageDir, staged, trashed, marker, inventory, db, pc, at,
                     job, changes, faults, late>>
  <2>1. PICK s \in BOOLEAN : s = (Missing = {})
    OBVIOUS
  <2>2. active' = [clips |-> loose, db |-> db, sound |-> s]
    BY <2>1, Zenon DEF Build
  <2>3. active' \in Packs
    BY <2>2 DEF TypeOK, Packs, Clips
  <2>4. /\ pc = "idle" /\ marker = None
        /\ touched' = touched \cap Missing /\ harmed' = FALSE
        /\ UNCHANGED <<fileVars, recordVars, db, jobVars, boundVars, late>>
    BY DEF Build
  <2> QED
    BY <2>1, <2>2, <2>3, <2>4, CleanupAssumption DEF fileVars, recordVars, jobVars,
       boundVars
<1>2. TypeOK'
  BY <1>1 DEF TypeOK, OrNone, Steps
<1>3. Cursor'
  BY <1>1 DEF Cursor
<1>4. Whole' /\ Recorded'
  BY <1>1 DEF Whole, Missing, TypeOK, Inventories, OrNone, Recorded
<1>5. Guarded' /\ StillInPlace' /\ PackKept' /\ Servable'
  BY <1>1 DEF Guarded, Missing, StillInPlace, PackKept, Servable
<1>6. Single' /\ StageKept' /\ Elsewhere' /\ SentVerified'
  BY <1>1 DEF Single, Known, StageKept, Elsewhere, SentVerified
<1> QED
  BY <1>2, <1>3, <1>4, <1>5, <1>6

\* A crash at any step leaves a state every later step can start from.
LEMMA StopStep == ASSUME IInv, Stop PROVE IInv'
BY EndStep, CleanupAssumption DEF Stop, Fault, IInv, TypeOK

\* What other programs write at a source path is no original.
LEMMA ChangeLooseStep == ASSUME IInv, NEW f \in Files, ChangeLoose(f) PROVE IInv'
<1> USE DEF IInv
<1>1. /\ changes' \in Stamps
      /\ changes' = changes + 1
      /\ loose' \in [Files -> OrNone(Stamps)]
      /\ loose'[f] \in {None, changes'}
      /\ \A g \in Files \ {f} : loose'[g] = loose[g]
      /\ touched' = touched \cup {f}
      /\ UNCHANGED <<stageDir, staged, trashed, marker, inventory, active, db, pc, at,
                     job, faults, harmed, late>>
  BY CleanupAssumption DEF ChangeLoose, TypeOK, Change, Stamps, OrNone, recordVars,
     servingVars, jobVars
<1>2. TypeOK' /\ Cursor' /\ Whole' /\ Recorded'
  BY <1>1 DEF TypeOK, Stamps, Cursor, Whole, Recorded, Validated
<1>3. Guarded' /\ StillInPlace' /\ PackKept' /\ Servable'
  BY <1>1 DEF Guarded, Validated, StillInPlace, InPlace, PackKept, Bound, Verified,
     Servable
<1>4. StageKept' /\ SentVerified'
  BY <1>1 DEF StageKept, NotTrashed, SentVerified
<1>5. Single'
  <2>1. ASSUME NEW c \in OrNone(Stamps), Known(c) PROVE Known(c)' /\ c # changes'
    BY <1>1, <2>1, Values, CleanupAssumption DEF Known, OrNone, Stamps
  <2>2. ASSUME NEW g \in Files
        PROVE  /\ Known(loose[g])' /\ Known(staged[g])' /\ Known(trashed[g])'
               /\ (marker # None => Known(marker.clips[g]))'
               /\ (inventory # None => Known(inventory[g]))'
               /\ (active # None => Known(active.clips[g]))'
               /\ Known(job.clips[g])'
    <3>1. changes' <= changes'
      BY <1>1 DEF Stamps
    <3> QED
      BY <1>1, <2>1, <3>1, Values DEF Single, OrNone, Known
  <2>3. ASSUME NEW g \in Files
        PROVE  /\ (loose[g] # None => loose[g] \notin {staged[g], trashed[g]})'
               /\ (staged[g] # None => staged[g] # trashed[g])'
    BY <1>1, <2>1, Values DEF Single
  <2> QED
    BY <2>2, <2>3 DEF Single
<1>6. Elsewhere'
  <2>1. ASSUME NEW c \in OrNone(Stamps), Known(c) PROVE c # changes'
    BY <1>1, <2>1, Values, CleanupAssumption DEF Known, OrNone, Stamps
  <2> QED
    BY <1>1, <2>1, InHand, Values DEF Elsewhere, OrNone, Recorded, Moving, Restoring
<1> QED
  BY <1>2, <1>3, <1>4, <1>5, <1>6

\* What other programs write into the quarantine is no original, and it is late.
LEMMA ChangeStagedStep == ASSUME IInv, NEW n \in Names, ChangeStaged(n) PROVE IInv'
<1> USE DEF IInv
<1>1. /\ changes' \in Stamps
      /\ changes' = changes + 1
      /\ stageDir
      /\ n \in Files => staged[n] # None
      /\ staged' \in [Names -> OrNone(Stamps)]
      /\ staged'[n] = changes'
      /\ \A g \in Names \ {n} : staged'[g] = staged[g]
      /\ touched' = touched \cup ({n} \cap Files)
      /\ late' = late \cup {n}
      /\ UNCHANGED <<loose, stageDir, trashed, marker, inventory, active, db, pc, at,
                     job, faults, harmed>>
  BY CleanupAssumption DEF ChangeStaged, TypeOK, Change, Stamps, OrNone, Files,
     recordVars, servingVars, jobVars
<1>2. TypeOK' /\ Cursor' /\ Whole' /\ Recorded'
  BY <1>1 DEF TypeOK, Stamps, Cursor, Whole, Recorded, Validated
<1>3. Guarded' /\ StillInPlace' /\ PackKept' /\ Servable'
  BY <1>1 DEF Guarded, Validated, StillInPlace, InPlace, PackKept, Bound, Verified,
     Servable
<1>4. StageKept' /\ SentVerified'
  BY <1>1 DEF StageKept, SentVerified
<1>5. Single'
  <2>1. ASSUME NEW c \in OrNone(Stamps), Known(c) PROVE Known(c)' /\ c # changes'
    BY <1>1, <2>1, Values, CleanupAssumption DEF Known, OrNone, Stamps
  <2>2. ASSUME NEW g \in Files
        PROVE  /\ Known(loose[g])' /\ Known(staged[g])' /\ Known(trashed[g])'
               /\ (marker # None => Known(marker.clips[g]))'
               /\ (inventory # None => Known(inventory[g]))'
               /\ (active # None => Known(active.clips[g]))'
               /\ Known(job.clips[g])'
    <3>1. changes' <= changes'
      BY <1>1 DEF Stamps
    <3> QED
      BY <1>1, <2>1, <3>1, Values DEF Single, OrNone, Known
  <2>3. ASSUME NEW g \in Files
        PROVE  /\ (loose[g] # None => loose[g] \notin {staged[g], trashed[g]})'
               /\ (staged[g] # None => staged[g] # trashed[g])'
    BY <1>1, <2>1, Values DEF Single
  <2> QED
    BY <2>2, <2>3 DEF Single
<1>6. Elsewhere'
  BY <1>1, CleanupAssumption DEF Elsewhere, Recorded, Moving, Restoring, Cursor, TypeOK,
     Names, Single, Known
<1> QED
  BY <1>2, <1>3, <1>4, <1>5, <1>6

\* The pack goes bad, or the database is replaced.
LEMMA HarmStep == ASSUME IInv, Harm PROVE IInv'
<1> USE DEF IInv
<1>1. /\ active' \in OrNone(Packs)
      /\ db' \in 0 .. 1
      /\ faults' \in 0 .. MaxFaults
      /\ harmed' = TRUE
      /\ \/ active' = active
         \/ /\ active # None /\ active' # None
            /\ active'.clips = active.clips /\ ~active'.sound
      /\ UNCHANGED <<loose, stageDir, staged, trashed, marker, inventory, pc, at, job,
                     changes, touched, late>>
  <2>1. /\ faults' \in 0 .. MaxFaults /\ db' \in 0 .. 1 /\ harmed' = TRUE
        /\ UNCHANGED <<fileVars, recordVars, jobVars, changes, touched, late>>
    BY CleanupAssumption DEF Harm, Fault, TypeOK
  <2>2. CASE active # None /\ active' = [active EXCEPT !.sound = FALSE]
    <3>1. active \in Packs
      BY <2>2 DEF TypeOK, OrNone
    <3>2. active' \in Packs /\ active'.clips = active.clips /\ ~active'.sound
      BY <2>2, <3>1 DEF Packs
    <3> QED
      BY <2>1, <2>2, <3>2, CleanupAssumption DEF OrNone, fileVars, recordVars, jobVars
  <2>3. CASE UNCHANGED active
    BY <2>1, <2>3 DEF TypeOK, fileVars, recordVars, jobVars
  <2> QED
    BY <2>2, <2>3 DEF Harm
<1>2. TypeOK' /\ Cursor' /\ Whole' /\ Recorded'
  BY <1>1 DEF TypeOK, Cursor, Whole, Recorded, Validated
<1>3. Guarded' /\ StillInPlace' /\ PackKept' /\ Servable'
  BY <1>1 DEF Guarded, Validated, StillInPlace, InPlace, PackKept, Servable
<1>4. Single' /\ StageKept' /\ Elsewhere' /\ SentVerified'
  BY <1>1 DEF Single, Known, StageKept, NotTrashed, Elsewhere, SentVerified
<1> QED
  BY <1>2, <1>3, <1>4

\* Emptying the Trash takes nothing from the other two places.
LEMMA EmptyTrashStep == ASSUME IInv, EmptyTrash PROVE IInv'
<1> USE DEF IInv
<1>1. /\ changes' \in Stamps
      /\ changes' = changes + 1
      /\ trashed' \in [Names -> OrNone(Stamps)]
      /\ \A n \in Names : trashed'[n] = None
      /\ touched \subseteq touched'
      /\ touched' \subseteq Files
      /\ UNCHANGED <<loose, stageDir, staged, marker, inventory, active, db, pc, at, job,
                     faults, harmed, late>>
  BY CleanupAssumption DEF EmptyTrash, TypeOK, Change, Stamps, OrNone, Nothing,
     recordVars, servingVars, jobVars
<1>2. TypeOK' /\ Cursor' /\ Whole' /\ Recorded'
  BY <1>1 DEF TypeOK, Stamps, Cursor, Whole, Recorded, Validated
<1>3. Guarded' /\ StillInPlace' /\ PackKept' /\ Servable'
  BY <1>1 DEF Guarded, Validated, StillInPlace, InPlace, PackKept, Bound, Verified,
     Servable
<1>4. Elsewhere' /\ SentVerified'
  BY <1>1, InHand DEF Elsewhere, Moving, Names, SentVerified
<1>5. Single'
  <2>1. ASSUME NEW c \in OrNone(Stamps), Known(c) PROVE Known(c)' /\ c # changes'
    BY <1>1, <2>1, Values, CleanupAssumption DEF Known, OrNone, Stamps
  <2>2. ASSUME NEW g \in Files
        PROVE  /\ Known(loose[g])' /\ Known(staged[g])' /\ Known(trashed[g])'
               /\ (marker # None => Known(marker.clips[g]))'
               /\ (inventory # None => Known(inventory[g]))'
               /\ (active # None => Known(active.clips[g]))'
               /\ Known(job.clips[g])'
    <3>1. changes' <= changes'
      BY <1>1 DEF Stamps
    <3> QED
      BY <1>1, <2>1, <3>1, Values DEF Single, OrNone, Known
  <2>3. ASSUME NEW g \in Files
        PROVE  /\ (loose[g] # None => loose[g] \notin {staged[g], trashed[g]})'
               /\ (staged[g] # None => staged[g] # trashed[g])'
    BY <1>1, <2>1, Values DEF Single
  <2> QED
    BY <2>2, <2>3 DEF Single
<1>6. StageKept'
  <2>1. marker # None => \E f \in Files : marker.clips[f] # None
     BY Values
  <2>2. pc = "journal" => \A f \in Files : job.clips[f] # None
     BY Values DEF Whole, Cleaning, Inventories
  <2>3. \A f \in Files : trashed'[f] = None
     BY <1>1, Values
  <2>4. pc \in Restoring => \A f \in Files : marker.clips[f] # None
     BY InHand
  <2> QED
    BY <1>1, <2>1, <2>2, <2>3, <2>4 DEF StageKept, NotTrashed
<1> QED
  BY <1>2, <1>3, <1>4, <1>5, <1>6

\* What comes back from the Trash is late, and is no longer in the Trash.
LEMMA PutBackStep == ASSUME IInv, PutBack PROVE IInv'
<1> USE DEF IInv
<1>1. /\ stageDir' = TRUE
      /\ staged' \in [Names -> OrNone(Stamps)]
      /\ trashed' \in [Names -> OrNone(Stamps)]
      /\ \A n \in Names : trashed'[n] = None
      /\ \A n \in Names :
           \/ trashed[n] = None /\ staged'[n] = staged[n]
           \/ staged[n] = None /\ staged'[n] = trashed[n] /\ n \in late'
      /\ late \subseteq late'
      /\ late' \subseteq Names
      /\ UNCHANGED <<loose, marker, inventory, active, db, pc, at, job, changes, faults,
                     touched, harmed>>
  <2>1. /\ staged' = [n \in Names |-> IF trashed[n] = None THEN staged[n] ELSE trashed[n]]
        /\ late' = late \cup {n \in Names : trashed[n] # None}
    BY DEF PutBack
  <2>2. ASSUME NEW n \in Names
        PROVE  \/ trashed[n] = None /\ staged'[n] = staged[n]
               \/ staged[n] = None /\ staged'[n] = trashed[n] /\ n \in late'
    BY <2>1 DEF PutBack
  <2>3. staged' \in [Names -> OrNone(Stamps)]
    BY <2>1 DEF TypeOK
  <2>4. trashed' \in [Names -> OrNone(Stamps)] /\ \A n \in Names : trashed'[n] = None
    BY DEF PutBack, Nothing, OrNone
  <2> QED
    BY <2>1, <2>2, <2>3, <2>4 DEF PutBack, TypeOK, recordVars, servingVars, jobVars,
       boundVars
<1>2. TypeOK' /\ Cursor' /\ Whole' /\ Recorded'
  BY <1>1 DEF TypeOK, Cursor, Whole, Recorded, Validated
<1>3. Guarded' /\ StillInPlace' /\ PackKept' /\ Servable'
  BY <1>1 DEF Guarded, Validated, StillInPlace, InPlace, PackKept, Bound, Verified,
     Servable
<1>4. Elsewhere' /\ SentVerified'
  BY <1>1, InHand DEF Elsewhere, Moving, Names, SentVerified
<1>5. Single'
  BY <1>1 DEF Single, Known, Names
<1>6. StageKept'
  <2>2. pc = "journal" => \A f \in Files : job.clips[f] # None
     BY Values DEF Whole, Cleaning, Inventories
  <2>3. \A f \in Files : trashed'[f] = None
     BY <1>1, Values
  <2>4. pc \in Restoring => \A f \in Files : marker.clips[f] # None
     BY InHand
  <2> QED
    BY <1>1, <2>2, <2>3, <2>4 DEF StageKept, NotTrashed
<1> QED
  BY <1>2, <1>3, <1>4, <1>5, <1>6

---------------------------------------------------------------------------
(* The invariant *)

\* A first start finds every file in its place and the pack built from them.
LEMMA InvInit == Init => IInv
<1> SUFFICES ASSUME Init PROVE IInv
  OBVIOUS
<1>1. /\ 0 \in Stamps /\ None \in OrNone(Stamps) /\ Files \subseteq Names
      /\ NoJob \in Jobs /\ None # 0
  BY CleanupAssumption DEF Stamps, OrNone, Names, NoJob, Jobs, Clips
<1>2. /\ loose \in Inventories /\ loose \in Clips /\ \A f \in Files : loose[f] = 0
      /\ Nothing \in [Names -> OrNone(Stamps)] /\ \A n \in Names : Nothing[n] = None
  BY <1>1 DEF Init, Inventories, Clips, Nothing, OrNone
<1>3. /\ active \in Packs /\ active # None /\ active.clips = loose /\ active.sound
      /\ active.db = 0
  <2>1. PICK s \in BOOLEAN : s = TRUE
    OBVIOUS
  <2>2. active = [clips |-> loose, db |-> 0, sound |-> s]
    BY <2>1, Zenon DEF Init
  <2>3. active \in Packs
    BY <1>2, <2>2 DEF Packs
  <2> QED
    BY <2>1, <2>2, <2>3, CleanupAssumption
<1>4. TypeOK
  <2>1. /\ at = 0 /\ at \in 0 .. N + 1 /\ changes \in 0 .. MaxChanges
        /\ faults \in 0 .. MaxFaults /\ db \in 0 .. 1
    BY CleanupAssumption DEF Init
  <2>2. /\ loose \in [Files -> OrNone(Stamps)]
        /\ touched \subseteq Files /\ late \subseteq Names
    BY <1>2 DEF Clips, Init
  <2> QED
    BY <1>1, <1>2, <1>3, <2>1, <2>2 DEF Init, TypeOK, OrNone, Steps
<1>5. Cursor /\ Whole /\ Recorded
  BY <1>2, <1>3 DEF Init, Cursor, Whole, Recorded, Moving, Cleaning, Restoring, NoJob
<1>6. Guarded /\ StillInPlace /\ Servable
  BY <1>1, <1>2 DEF Init, Guarded, StillInPlace, InPlace, Servable
<1>7. PackKept /\ StageKept /\ Elsewhere /\ SentVerified
  BY DEF Init, PackKept, StageKept, Restoring, Elsewhere, SentVerified
<1>8. Single
  BY <1>1, <1>2, <1>3 DEF Init, Single, Known, NoJob
<1> QED
  BY <1>4, <1>5, <1>6, <1>7, <1>8 DEF IInv

\* Every step of the program and of the world around it keeps the invariant.
LEMMA InvNext == IInv /\ [Next]_vars => IInv'
<1> SUFFICES ASSUME IInv, [Next]_vars PROVE IInv'
  OBVIOUS
<1>1. CASE CleanupStep
  BY <1>1, VerifyPackStep, PlanStep, CreateInventoryStep, JournalStep, MakeStageStep,
     RecheckStagedStep, CompareLooseStep, MoveToStageStep, CheckMovedStep,
     RollBackMoveStep, QuarantinedStep, VerifyStageStep, SendStep, SentStep,
     CompleteStep DEF CleanupStep
<1>2. CASE RestoreStep
  BY <1>2, ExamineFileStep, BeforeReplaceStep, ReplaceLooseStep, CheckReplacedStep,
     RemoveStageStep, VerifyRestoredStep, DisablePackStep, ClearMarkerStep,
     ForgetInventoryStep DEF RestoreStep
<1>3. CASE Program
  BY <1>1, <1>2, <1>3, NoteLostQuarantineStep, StartCleanupStep, CancelStagingStep,
     StartRestoreStep, BuildStep, StopStep DEF Program
<1>4. CASE Others
  BY <1>4, ChangeLooseStep, ChangeStagedStep, HarmStep, EmptyTrashStep, PutBackStep
     DEF Others
<1>5. CASE UNCHANGED vars
  <2> USE <1>5 DEF vars, fileVars, recordVars, servingVars, jobVars, boundVars,
                   historyVars, IInv
  <2>1. TypeOK' /\ Cursor' /\ Whole' /\ Recorded'
    BY DEF TypeOK, Cursor, Whole, Recorded, Validated
  <2>2. Guarded' /\ StillInPlace' /\ PackKept' /\ Servable'
    BY DEF Guarded, Validated, StillInPlace, InPlace, PackKept, Bound, Verified, Servable
  <2>3. Single' /\ StageKept' /\ Elsewhere' /\ SentVerified'
    BY DEF Single, Known, StageKept, NotTrashed, Elsewhere, SentVerified
  <2> QED
    BY <2>1, <2>2, <2>3
<1> QED
  BY <1>3, <1>4, <1>5 DEF Next

\* The invariant holds in every state a cleanup, a restore or a crash can leave.
THEOREM AlwaysIInv == Spec => []IInv
<1> QED
  BY InvInit, InvNext, PTL DEF Spec

---------------------------------------------------------------------------
(* What follows from it *)

\* Consistent: the state is well formed, and when all the originals are in the Trash
\* the marker does not say that the cleanup goes on from a local quarantine.
THEOREM CleanupConsistent == Spec => []Consistent
<1>1. IInv => Consistent
  BY DEF IInv, Consistent, TrashedIsKnown, StageKept, NotTrashed
<1> QED
  BY <1>1, AlwaysIInv, PTL

\* Guarded: an original that is not in its place is accounted for by a marker, which
\* keeps builds away, and by an inventory with its hash.
THEOREM OriginalsGuarded == Spec => []Guarded
<1>1. IInv => Guarded
  BY DEF IInv
<1> QED
  BY <1>1, AlwaysIInv, PTL

\* Servable: a clip whose loose file the program moved away is in the pack that is
\* served, from the first move to the end of a restore, whatever stops in between.
THEOREM ClipsServable == Spec => []Servable
<1>1. IInv => Servable
  BY DEF IInv
<1> QED
  BY <1>1, AlwaysIInv, PTL

\* Only Send, the user and other programs change what is in the Trash.
LEMMA TrashChanges ==
    ASSUME IInv, Next, trashed' # trashed PROVE Send \/ EmptyTrash \/ PutBack
<1>1. ~CleanupStep \/ Send
  BY DEF CleanupStep, fileVars, VerifyPack, Plan, CreateInventory, Journal, MakeStage,
     RecheckStaged, CompareLoose, MoveToStage, CheckMoved, RollBackMove, Quarantined,
     VerifyStage, Sent, Complete
<1>2. ~RestoreStep
  BY DEF RestoreStep, fileVars, ExamineFile, BeforeReplace, ReplaceLoose, CheckReplaced,
     RemoveStage, VerifyRestored, DisablePack, ClearMarker, ForgetInventory
<1>3. ~Program \/ Send
  BY <1>1, <1>2 DEF Program, fileVars, NoteLostQuarantine, StartCleanup, CancelStaging,
     StartRestore, Build, Stop
<1> QED
  BY <1>3 DEF Next, Others, ChangeLoose, ChangeStaged, Harm, fileVars

\* TrashOnlyVerified: what arrives in the Trash is an original with the bytes of the
\* inventory and of the pack, or was written after the last verification.
THEOREM OnlyVerifiedTrashed == Spec => TrashOnlyVerified
<1> DEFINE Arrives(n) == trashed[n]' \notin {None, trashed[n]}
<1>1. ASSUME IInv, Next, NEW n \in Names, Arrives(n)
      PROVE  \/ n \in late
             \/ n \in Files /\ marker # None /\ trashed[n]' = marker.clips[n]
  <2>1. trashed' # trashed
    BY <1>1
  <2>2. CASE Send
    <3>1. trashed'[n] = staged[n] /\ staged[n] # None /\ pc = "send"
      BY <1>1, <2>2 DEF Send
    <3> QED
      BY <1>1, <3>1 DEF IInv, SentVerified, Recorded, Moving
  <2>3. CASE EmptyTrash \/ PutBack
    BY <1>1, <2>3 DEF EmptyTrash, PutBack, Nothing
  <2> QED
    BY <1>1, <2>1, <2>2, <2>3, TrashChanges
<1>2. IInv /\ [Next]_vars =>
        [\A n \in Names : Arrives(n) =>
            \/ n \in late
            \/ n \in Files /\ marker # None /\ trashed[n]' = marker.clips[n]]_vars
  BY <1>1
<1> QED
  BY <1>2, AlwaysIInv, PTL DEF Spec, TrashOnlyVerified

\* Steps of the program that move no file.
LEMMA FilesStay ==
    ASSUME IInv, Program, ~MoveToStage, ~RollBackMove, ~ReplaceLoose, ~CheckReplaced, ~Send
    PROVE  UNCHANGED <<loose, staged, trashed>>
<1>1. CASE CleanupStep
  BY <1>1 DEF CleanupStep, fileVars, VerifyPack, Plan, CreateInventory, Journal,
     MakeStage, RecheckStaged, CompareLoose, CheckMoved, Quarantined, VerifyStage,
     Sent, Complete
<1>2. CASE RestoreStep
  BY <1>2 DEF RestoreStep, fileVars, ExamineFile, BeforeReplace, RemoveStage,
     VerifyRestored, DisablePack, ClearMarker, ForgetInventory
<1> QED
  BY <1>1, <1>2 DEF Program, fileVars, NoteLostQuarantine, StartCleanup, CancelStaging,
     StartRestore, Build, Stop

\* OriginalsKept: a step of the program that takes the bytes of an original from one
\* of its three places puts them into another, and writes over no copy that is the
\* only one.
THEOREM OriginalsStay == Spec => OriginalsKept
<1>1. ASSUME IInv, Program, NEW f \in Files, marker # None,
             marker.clips[f] \in Places(f)
      PROVE  marker.clips[f] \in Places(f)'
  <2> DEFINE c == marker.clips[f]
  <2>1. /\ c # None /\ f \in Names /\ c \in {loose[f], staged[f], trashed[f]}
        /\ loose \in [Files -> OrNone(Stamps)] /\ staged \in [Names -> OrNone(Stamps)]
    BY <1>1, Values DEF IInv, TypeOK, Places
  <2> HIDE DEF c
  <2>2. pc \in {"rename", "check", "replace", "replaced"} => at \in Files /\ at \in Names
    BY <1>1, InHand
  <2>3. CASE MoveToStage
    <3>1. f = at => c \notin {staged[f], trashed[f]}
      BY <1>1, <2>3 DEF IInv, Elsewhere, MoveToStage, c
    <3> QED
      BY <2>1, <2>2, <2>3, <3>1 DEF MoveToStage, Places, c
  <2>4. CASE RollBackMove
    <3>1. f = at => c # loose[f]
      BY <1>1, <2>4 DEF IInv, Elsewhere, RollBackMove, c
    <3> QED
      BY <2>1, <2>2, <2>4, <3>1 DEF RollBackMove, Places, c
  <2>5. CASE ReplaceLoose
    <3>1. f = at => c \notin {loose[f], trashed[f]}
      BY <1>1, <2>5 DEF IInv, Elsewhere, ReplaceLoose, c
    <3> QED
      BY <2>1, <2>2, <2>5, <3>1 DEF ReplaceLoose, Places, c
  <2>6. CASE CheckReplaced
    <3>1. f = at => c \notin {staged[f], trashed[f]}
      BY <1>1, <2>6 DEF IInv, Elsewhere, CheckReplaced, c
    <3> QED
      BY <2>1, <2>2, <2>6, <3>1 DEF CheckReplaced, Places, c
  <2>7. CASE Send
    <3>1. c # trashed[f]
      BY <1>1, <2>7 DEF IInv, Elsewhere, Send, c
    <3> QED
      BY <2>1, <2>7, <3>1 DEF Send, Places, c
  <2> QED
    BY <1>1, <2>1, <2>3, <2>4, <2>5, <2>6, <2>7, FilesStay DEF Places, c
<1>2. IInv /\ [Next]_vars =>
        [Program => \A f \in Files :
            marker # None /\ marker.clips[f] \in Places(f) =>
                marker.clips[f] \in Places(f)']_vars
  BY <1>1
<1> QED
  BY <1>2, AlwaysIInv, PTL DEF Spec, OriginalsKept
=============================================================================
