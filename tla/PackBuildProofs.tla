-------------------------- MODULE PackBuildProofs --------------------------
(***************************************************************************)
(* Proofs about the pack build, for any number of keys, any clips and any   *)
(* bounds on changes and faults: what a build that was cancelled, crashed    *)
(* and resumed checkpoints, publishes and activates.                         *)
(***************************************************************************)
EXTENDS PackBuild, TLAPS, SequenceTheorems

\* What is published.
Versions == [name : Names, idx : [Groups -> Nat], pack : Seq(Contents),
             rows : Nat, intact : BOOLEAN]

\* The types of the world, of the build directory and of the builder.
WorldTyped ==
    /\ db \in Nat /\ protected \in BOOLEAN
    /\ files \in [Groups -> Seq(Content)]
    /\ \A g \in Groups : Token(g) >= 1

StageTyped ==
    /\ stage \in Nat \cup {None}
    /\ idx \in [Groups -> Nat] /\ pack \in Seq(Contents)
    /\ ckpt = None <=> stage = None
    /\ ckpt \in Checkpoints \cup {None}
    /\ ckpt # None => Len(ckpt.tokens) <= N

LocalTyped ==
    /\ pc \in {"idle", "lock", "open", "restore", "pack", "scan", "publish",
              "activate"}
    /\ stat \in Nat /\ rows \in Nat
    /\ tokens \in Seq(Nat) /\ Done <= N
    /\ scanned \in 0 .. N
    /\ settled \in [Groups -> Nat]
    /\ final \in Names \cup {None}
    /\ reads \in [Groups -> Reads \cup {None}]

\* An index and a pack are what an uninterrupted build makes of the first keys,
\* from the states toks of the files f.
Sound(f, index, clips, toks) ==
    /\ Canonical(index, clips, Len(toks))
    /\ \A g \in 1 .. Len(toks) :
        /\ toks[g] \in 1 .. Len(f[g])
        /\ index[g] # 0 => clips[index[g]] = f[g][toks[g]]

\* The checkpoint describes a beginning of what is on the disk.
Kept ==
    ckpt # None =>
        /\ ckpt.length <= Len(pack)
        /\ Sound(files, idx, SubSeq(pack, 1, ckpt.length), ckpt.tokens)

\* A worker thread has the bytes of the state it names, or nothing.
ReadSound ==
    \A g \in Groups : reads[g] # None =>
        /\ reads[g].token \in 1 .. Token(g)
        /\ reads[g].done =>
              reads[g].data \in {None, files[g][reads[g].token]}

\* What is checkpointed is a beginning of what is packed.
Extended(saved) ==
    /\ Len(saved) <= Done
    /\ \A g \in 1 .. Len(saved) : saved[g] = tokens[g]

\* What the running build has done by each of its stages.
Staged ==
    /\ pc \in {"restore", "pack", "scan", "publish"} => stage = stat
    /\ pc \in {"idle", "lock", "open", "pack"} => scanned = 0
    /\ pc = "restore" => Len(pack) = ckpt.length
    /\ pc \in {"pack", "scan", "publish"} =>
          /\ Sound(files, idx, pack, tokens)
          /\ Extended(ckpt.tokens)
    /\ pc \in {"scan", "publish"} => Done = N /\ final = Name

\* The files that were compared since packing ended, and what is delivered.
Settled ==
    /\ pc = "scan" => \A g \in Groups : settled[g] <= Token(g)
    /\ pc = "scan" => \A g \in 1 .. scanned : settled[g] <= tokens[g]
    /\ pc = "publish" => \A g \in Groups : settled[g] <= tokens[g]
    /\ pc = "activate" =>
        /\ final # None
        /\ \E v \in versions : v.name = final /\ v.intact
        /\ \A g \in Groups : final.contents[g] # None =>
              \E t \in 1 .. Token(g) :
                  settled[g] <= t /\ final.contents[g] = files[g][t]

\* The database is replaced, never put back, and a build that packs to the end
\* has read the one it named its directory after.
OneDatabase ==
    /\ pc \notin {"idle", "lock"} => stat <= db
    /\ pc \notin {"idle", "lock", "open"} => stat <= rows /\ rows <= db
    /\ pc \in {"scan", "publish", "activate"} => rows = stat

\* Nothing is built while cleanup is under way.
Unprotected == pc \notin {"idle", "lock"} => ~protected

\* No step takes a state from a file.
Grows(f, g) ==
    \A h \in Groups :
        /\ Len(f[h]) <= Len(g[h])
        /\ \A t \in 1 .. Len(f[h]) : g[h][t] = f[h][t]

USE BuildAssumption

---------------------------------------------------------------------------
(* The operators *)

\* Nothing is packed yet.
LEMMA SoundEmpty == \A f : Sound(f, Empty, <<>>, <<>>)
  BY DEF Sound, Canonical, Empty, Groups

\* The clips of a pack's beginning.
LEMMA Prefix ==
    ASSUME NEW clips \in Seq(Contents), NEW n \in Nat, n <= Len(clips)
    PROVE  /\ SubSeq(clips, 1, n) \in Seq(Contents)
           /\ Len(SubSeq(clips, 1, n)) = n
           /\ \A i \in 1 .. n : SubSeq(clips, 1, n)[i] = clips[i]
<1>1. \A i \in 1 .. n : clips[i] \in Contents
  BY ElementOfSeq
<1>2. QED BY <1>1, SubSeqProperties

\* Packs that agree up to a position have the same beginning.
LEMMA SamePrefix ==
    ASSUME NEW c \in Seq(Contents), NEW d \in Seq(Contents), NEW n \in Nat,
           n <= Len(c), n <= Len(d), \A i \in 1 .. n : c[i] = d[i]
    PROVE  SubSeq(c, 1, n) = SubSeq(d, 1, n)
<1>1. /\ SubSeq(c, 1, n) \in Seq(Contents) /\ Len(SubSeq(c, 1, n)) = n
      /\ \A i \in 1 .. n : SubSeq(c, 1, n)[i] = c[i]
  BY Prefix
<1>2. /\ SubSeq(d, 1, n) \in Seq(Contents) /\ Len(SubSeq(d, 1, n)) = n
      /\ \A i \in 1 .. n : SubSeq(d, 1, n)[i] = d[i]
  BY Prefix
<1>3. QED BY <1>1, <1>2, SeqEqual

\* Only the cells of the packed keys matter.
LEMMA CanonicalSame ==
    ASSUME NEW index, NEW cells, NEW clips, NEW n \in Nat,
           \A h \in 1 .. n : cells[h] = index[h],
           Canonical(index, clips, n)
    PROVE  Canonical(cells, clips, n)
<1>1. \A k \in 1 .. n : cells[k] \in 0 .. Len(clips)
  BY DEF Canonical
<1>2. \A p \in 1 .. Len(clips) : \E k \in 1 .. n : cells[k] = p
  BY DEF Canonical
<1>3. ASSUME NEW k \in 1 .. n, NEW p \in 1 .. cells[k] - 1
      PROVE  \E j \in 1 .. k - 1 : cells[j] = p
  <2>1. p \in 1 .. index[k] - 1
    OBVIOUS
  <2>2. PICK j \in 1 .. k - 1 : index[j] = p
    BY <2>1 DEF Canonical
  <2>3. j \in 1 .. n
    OBVIOUS
  <2>4. cells[j] = p
    BY <2>2, <2>3
  <2>5. QED BY <2>4
<1>4. \A p, q \in 1 .. Len(clips) : clips[p] = clips[q] => p = q
  BY DEF Canonical
<1>5. QED BY <1>1, <1>2, <1>3, <1>4 DEF Canonical

\* Only the cells of the packed keys matter, and files that grow keep it.
LEMMA SoundKept ==
    ASSUME NEW f \in [Groups -> Seq(Content)], NEW g \in [Groups -> Seq(Content)],
           Grows(f, g),
           NEW index \in [Groups -> Nat], NEW cells \in [Groups -> Nat],
           NEW clips \in Seq(Contents), NEW toks \in Seq(Nat), Len(toks) <= N,
           \A h \in 1 .. Len(toks) : cells[h] = index[h],
           Sound(f, index, clips, toks)
    PROVE  Sound(g, cells, clips, toks)
<1>1. Canonical(cells, clips, Len(toks))
  <2>1. Len(toks) \in Nat
    OBVIOUS
  <2>2. QED BY <2>1, CanonicalSame DEF Sound
<1>2. ASSUME NEW h \in 1 .. Len(toks)
      PROVE  /\ toks[h] \in 1 .. Len(g[h])
             /\ cells[h] # 0 => clips[cells[h]] = g[h][toks[h]]
  <2>1. h \in Groups
    <3>1. Len(toks) \in Nat
      OBVIOUS
    <3>2. QED BY <3>1 DEF Groups
  <2>2. f[h] \in Seq(Content) /\ g[h] \in Seq(Content)
    BY <2>1
  <2>3. Len(f[h]) \in Nat /\ Len(g[h]) \in Nat
    BY <2>2, LenProperties
  <2>4. /\ toks[h] \in 1 .. Len(f[h])
        /\ index[h] # 0 => clips[index[h]] = f[h][toks[h]]
    BY DEF Sound
  <2>5. Len(f[h]) <= Len(g[h]) /\ \A t \in 1 .. Len(f[h]) : g[h][t] = f[h][t]
    BY <2>1 DEF Grows
  <2>6. g[h][toks[h]] = f[h][toks[h]]
    BY <2>4, <2>5
  <2>7. toks[h] \in 1 .. Len(g[h])
    BY <2>3, <2>4, <2>5
  <2>8. QED BY <2>4, <2>6, <2>7
<1>3. QED BY <1>1, <1>2 DEF Sound

\* One more key: what has been said of its file, and how the index changed.
LEMMA SoundNext ==
    ASSUME NEW f \in [Groups -> Seq(Content)],
           NEW index \in [Groups -> Nat], NEW cells \in [Groups -> Nat],
           NEW clips \in Seq(Contents), NEW more \in Seq(Contents),
           NEW toks \in Seq(Nat), Len(toks) < N,
           NEW token, token \in 1 .. Len(f[Len(toks) + 1]),
           Sound(f, index, clips, toks),
           \A h \in 1 .. Len(toks) : cells[h] = index[h],
           Len(clips) <= Len(more), \A p \in 1 .. Len(clips) : more[p] = clips[p],
           Canonical(cells, more, Len(toks) + 1),
           cells[Len(toks) + 1] # 0 =>
               more[cells[Len(toks) + 1]] = f[Len(toks) + 1][token]
    PROVE  Sound(f, cells, more, Append(toks, token))
<1> DEFINE n == Len(toks)
           after == Append(toks, token)
<1>1. n \in Nat /\ n + 1 \in Groups /\ token \in Nat
  BY DEF Groups
<1>2. /\ after \in Seq(Nat) /\ Len(after) = n + 1 /\ after[n + 1] = token
      /\ \A h \in 1 .. n : after[h] = toks[h]
  BY <1>1, AppendProperties
<1>3. ASSUME NEW h \in 1 .. n
      PROVE  /\ after[h] \in 1 .. Len(f[h])
             /\ cells[h] # 0 => more[cells[h]] = f[h][after[h]]
  <2>1. /\ index[h] \in 0 .. Len(clips)
        /\ toks[h] \in 1 .. Len(f[h])
        /\ index[h] # 0 => clips[index[h]] = f[h][toks[h]]
    BY DEF Sound, Canonical
  <2>2. cells[h] = index[h] /\ after[h] = toks[h]
    BY <1>2
  <2>3. index[h] # 0 => more[index[h]] = clips[index[h]]
    BY <2>1
  <2>4. QED BY <2>1, <2>2, <2>3
<1>4. QED
  <2>1. ASSUME NEW h \in 1 .. n + 1
        PROVE  /\ after[h] \in 1 .. Len(f[h])
               /\ cells[h] # 0 => more[cells[h]] = f[h][after[h]]
    <3>1. CASE h = n + 1
      BY <3>1, <1>2
    <3>2. CASE h # n + 1
      <4>1. n \in Nat
        OBVIOUS
      <4>2. h \in 1 .. n
        BY <3>2, <4>1
      <4>3. QED BY <4>2, <1>3
    <3>3. QED BY <3>1, <3>2
  <2>2. QED BY <1>2, <2>1 DEF Sound

\* A key without a clip leaves a hole.
LEMMA CanonicalHole ==
    ASSUME NEW index \in [Groups -> Nat], NEW clips \in Seq(Contents),
           NEW n \in Nat, n < N, Canonical(index, clips, n)
    PROVE  Canonical([index EXCEPT ![n + 1] = 0], clips, n + 1)
<1> DEFINE cells == [index EXCEPT ![n + 1] = 0]
<1>1. \A k \in 1 .. n + 1 : k = n + 1 \/ k \in 1 .. n
  OBVIOUS
<1>2. cells[n + 1] = 0 /\ \A h \in 1 .. n : cells[h] = index[h]
  BY DEF Groups
<1> HIDE DEF cells
<1>3. Canonical(cells, clips, n)
  BY <1>2, CanonicalSame
<1>4. Len(clips) \in Nat
  OBVIOUS
<1>5. \A k \in 1 .. n + 1 : cells[k] \in 0 .. Len(clips)
  BY <1>1, <1>2, <1>3, <1>4 DEF Canonical
<1>6. \A p \in 1 .. Len(clips) : \E k \in 1 .. n + 1 : cells[k] = p
  BY <1>3 DEF Canonical
<1>7. \A k \in 1 .. n + 1 : \A p \in 1 .. cells[k] - 1 :
          \E j \in 1 .. k - 1 : cells[j] = p
  BY <1>1, <1>2, <1>3 DEF Canonical
<1>8. Canonical(cells, clips, n + 1)
  BY <1>3, <1>5, <1>6, <1>7 DEF Canonical
<1>9. QED BY <1>8 DEF cells

\* A key whose clip is in the pack shares it.
LEMMA CanonicalShared ==
    ASSUME NEW index \in [Groups -> Nat], NEW clips \in Seq(Contents),
           NEW n \in Nat, n < N, Canonical(index, clips, n),
           NEW h \in 1 .. n, index[h] # 0
    PROVE  Canonical([index EXCEPT ![n + 1] = index[h]], clips, n + 1)
<1> DEFINE cells == [index EXCEPT ![n + 1] = index[h]]
<1>1. \A k \in 1 .. n + 1 : k = n + 1 \/ k \in 1 .. n
  OBVIOUS
<1>2. cells[n + 1] = index[h] /\ \A k \in 1 .. n : cells[k] = index[k]
  BY DEF Groups
<1> HIDE DEF cells
<1>3. Canonical(cells, clips, n)
  BY <1>2, CanonicalSame
<1>4. Len(clips) \in Nat /\ index[h] \in 1 .. Len(clips)
  BY DEF Canonical
<1>5. \A k \in 1 .. n + 1 : cells[k] \in 0 .. Len(clips)
  BY <1>1, <1>2, <1>3, <1>4 DEF Canonical
<1>6. \A p \in 1 .. Len(clips) : \E k \in 1 .. n : cells[k] = p
  BY <1>3 DEF Canonical
<1>7. ASSUME NEW k \in 1 .. n + 1, NEW p \in 1 .. cells[k] - 1
      PROVE  \E j \in 1 .. k - 1 : cells[j] = p
  <2>1. CASE k = n + 1
    <3>1. p \in 1 .. Len(clips)
      BY <2>1, <1>2, <1>4
    <3>2. QED BY <3>1, <2>1, <1>6
  <2>2. CASE k \in 1 .. n
    BY <2>2, <1>3 DEF Canonical
  <2>3. QED BY <2>1, <2>2, <1>1
<1>8. \A p \in 1 .. Len(clips) : \E k \in 1 .. n + 1 : cells[k] = p
  BY <1>6
<1>9. Canonical(cells, clips, n + 1)
  BY <1>3, <1>5, <1>7, <1>8 DEF Canonical
<1>10. QED BY <1>9 DEF cells

\* A key whose clip is new appends it.
LEMMA CanonicalNew ==
    ASSUME NEW index \in [Groups -> Nat], NEW clips \in Seq(Contents),
           NEW n \in Nat, n < N, Canonical(index, clips, n),
           NEW clip \in Contents,
           \A h \in 1 .. n : index[h] # 0 => clips[index[h]] # clip
    PROVE  Canonical([index EXCEPT ![n + 1] = Len(clips) + 1],
                     Append(clips, clip), n + 1)
<1> DEFINE cells == [index EXCEPT ![n + 1] = Len(clips) + 1]
           more == Append(clips, clip)
           l == Len(clips)
<1>1. \A k \in 1 .. n + 1 : k = n + 1 \/ k \in 1 .. n
  OBVIOUS
<1>2. cells[n + 1] = l + 1 /\ \A k \in 1 .. n : cells[k] = index[k]
  BY DEF Groups
<1>3. /\ l \in Nat /\ Len(more) = l + 1 /\ more[l + 1] = clip
      /\ \A p \in 1 .. l : more[p] = clips[p]
  BY AppendProperties
<1>4. /\ \A k \in 1 .. n : index[k] \in 0 .. l
      /\ \A p, q \in 1 .. l : clips[p] = clips[q] => p = q
      /\ \A p \in 1 .. l : \E k \in 1 .. n : index[k] = p
      /\ \A k \in 1 .. n : \A p \in 1 .. index[k] - 1 :
            \E j \in 1 .. k - 1 : index[j] = p
  BY DEF Canonical
<1>5. ASSUME NEW p \in 1 .. l
      PROVE  clips[p] # clip
  <2>1. PICK k \in 1 .. n : index[k] = p
    BY <1>4
  <2>2. QED BY <2>1
<1>6. Canonical(cells, clips, n)
  BY <1>2, CanonicalSame
<1> HIDE DEF cells, more, l
<1>7. ASSUME NEW k \in 1 .. n + 1
      PROVE  cells[k] \in 0 .. l + 1
  <2>1. CASE k = n + 1
    BY <2>1, <1>2, <1>3
  <2>2. CASE k \in 1 .. n
    <3>1. cells[k] \in 0 .. l
      BY <2>2, <1>2, <1>4
    <3>2. QED BY <3>1, <1>3
  <2>3. QED BY <2>1, <2>2, <1>1
<1>8. \A p \in 1 .. l + 1 : p = l + 1 \/ p \in 1 .. l
  BY <1>3
<1>9. \A p, q \in 1 .. l + 1 : more[p] = more[q] => p = q
  BY <1>3, <1>4, <1>5, <1>8
<1>10. \A p \in 1 .. l : \E k \in 1 .. n : cells[k] = p
  BY <1>2, <1>4
<1>11. n + 1 \in 1 .. n + 1 /\ \A k \in 1 .. n : k \in 1 .. n + 1
  OBVIOUS
<1>12. \A p \in 1 .. l + 1 : \E k \in 1 .. n + 1 : cells[k] = p
  BY <1>2, <1>8, <1>10, <1>11
<1>13. ASSUME NEW k \in 1 .. n + 1, NEW p \in 1 .. cells[k] - 1
       PROVE  \E j \in 1 .. k - 1 : cells[j] = p
  <2>1. CASE k = n + 1
    <3>1. p \in 1 .. l
      BY <2>1, <1>2, <1>3
    <3>2. QED BY <3>1, <2>1, <1>10
  <2>2. CASE k \in 1 .. n
    BY <2>2, <1>6 DEF Canonical
  <2>3. QED BY <2>1, <2>2, <1>1
<1>14. Canonical(cells, more, n + 1)
  BY <1>3, <1>7, <1>9, <1>12, <1>13 DEF Canonical
<1>15. QED BY <1>14 DEF cells, more, l

---------------------------------------------------------------------------
(* Records *)

\* What a checkpoint written now holds.
LEMMA SavedTyped ==
    ASSUME StageTyped, LocalTyped, NEW v \in Names \cup {None}
    PROVE  /\ [tokens |-> tokens, length |-> Len(pack), final |-> v] \in Checkpoints
           /\ [tokens |-> tokens, length |-> Len(pack), final |-> v] # None
<1>1. Len(pack) \in Nat /\ tokens \in Seq(Nat)
  BY DEF StageTyped, LocalTyped
<1>2. [tokens |-> tokens, length |-> Len(pack), final |-> v] \in Checkpoints
  BY <1>1 DEF Checkpoints
<1>3. QED BY <1>2

\* The fields of a checkpoint.
LEMMA CheckpointTyped ==
    ASSUME StageTyped, ckpt # None
    PROVE  /\ ckpt.tokens \in Seq(Nat) /\ ckpt.length \in Nat
           /\ ckpt.final \in Names \cup {None} /\ Len(ckpt.tokens) <= N
  BY DEF StageTyped, Checkpoints

\* What a build that ends leaves of its locals.
LEMMA StopTyped ==
    ASSUME LocalTyped, Stop
    PROVE  LocalTyped'
<1>1. tokens' = <<>> /\ Len(tokens') = 0 /\ tokens' \in Seq(Nat)
  BY DEF Stop
<1>2. reads' \in [Groups -> Reads \cup {None}]
  BY DEF Stop, Unread
<1>3. QED BY <1>1, <1>2 DEF Stop, LocalTyped, Done

\* A complete index gives each key a clip or none.
LEMMA PackedTyped ==
    ASSUME NEW index \in [Groups -> Nat], NEW clips \in Seq(Contents),
           Canonical(index, clips, N)
    PROVE  Packed(index, clips) \in [Groups -> Content]
<1>1. ASSUME NEW g \in Groups, index[g] # 0
      PROVE  clips[index[g]] \in Contents
  <2>1. index[g] \in 1 .. Len(clips)
    BY <1>1 DEF Canonical, Groups
  <2>2. QED BY <2>1, ElementOfSeq
<1>2. QED BY <1>1 DEF Packed, Content

\* The name of what is packed, once every key is.
LEMMA NameTyped ==
    ASSUME StageTyped, LocalTyped, Canonical(idx, pack, N)
    PROVE  /\ Name \in Names
           /\ Name.db = stat /\ Name.contents = Packed(idx, pack)
           /\ Name.random = FALSE
<1>1. Packed(idx, pack) \in [Groups -> Content]
  BY PackedTyped DEF StageTyped
<1>2. QED BY <1>1 DEF Name, Names, LocalTyped

---------------------------------------------------------------------------
(* The steps keep the types *)

\* Files only get new states and the database is only replaced.
LEMMA WorldStep ==
    ASSUME WorldTyped, [Next]_vars
    PROVE  WorldTyped' /\ db <= db' /\ Grows(files, files')
<1> DEFINE Goal == WorldTyped' /\ db <= db' /\ Grows(files, files')
<1>1. ASSUME UNCHANGED <<db, files>>, protected' \in BOOLEAN
      PROVE  Goal
  BY <1>1 DEF WorldTyped, Grows, Token
<1>2. ASSUME NEW g \in Groups, ChangeFile(g)
      PROVE  Goal
  <2>1. PICK c \in Content : files' = [files EXCEPT ![g] = Append(files[g], c)]
    BY <1>2 DEF ChangeFile
  <2>2. files[g] \in Seq(Content)
    BY DEF WorldTyped
  <2>3. /\ Append(files[g], c) \in Seq(Content)
        /\ Len(Append(files[g], c)) = Len(files[g]) + 1
        /\ \A t \in 1 .. Len(files[g]) : Append(files[g], c)[t] = files[g][t]
    BY <2>2, AppendProperties
  <2>4. files' \in [Groups -> Seq(Content)]
    BY <2>1, <2>3 DEF WorldTyped
  <2>5. ASSUME NEW h \in Groups
        PROVE  /\ Len(files[h]) <= Len(files'[h]) /\ Len(files'[h]) >= 1
               /\ \A t \in 1 .. Len(files[h]) : files'[h][t] = files[h][t]
    <3>1. files[h] \in Seq(Content) /\ Len(files[h]) \in Nat /\ Len(files[h]) >= 1
      BY LenProperties DEF WorldTyped, Token
    <3>2. CASE h = g
      BY <3>1, <3>2, <2>1, <2>3 DEF WorldTyped
    <3>3. CASE h # g
      BY <3>1, <3>3, <2>1 DEF WorldTyped
    <3>4. QED BY <3>2, <3>3
  <2>6. Grows(files, files')
    BY <2>5 DEF Grows
  <2>7. db' = db /\ protected' = protected
    BY <1>2 DEF ChangeFile
  <2>8. QED BY <2>4, <2>5, <2>6, <2>7 DEF WorldTyped, Token
<1>3. ASSUME ChangeDatabase
      PROVE  Goal
  BY <1>3 DEF ChangeDatabase, WorldTyped, Grows, Token
<1>4. ASSUME Cleanup
      PROVE  Goal
  BY <1>1, <1>4 DEF Cleanup, WorldTyped
<1>5. CASE UNCHANGED worldVars
  BY <1>1, <1>5 DEF worldVars, WorldTyped
<1>6. ASSUME Check \/ Start \/ Builder \/ Checkpoint \/ CancelRestore \/ CancelPacking
             \/ CancelVerification \/ Damage \/ Crash \/ UNCHANGED vars
      PROVE  UNCHANGED worldVars
  BY <1>6 DEF Check, Start, Builder, Checkpoint, CancelRestore, CancelPacking,
     CancelVerification, Damage, Crash, vars, worldVars, Prepare, RestoreGroup,
     Restored, BeginRead, FinishRead, Consume, FinishPacking, ScanGroup,
     ScanDone, PublishVersion, Activate
<1>7. QED BY <1>2, <1>3, <1>4, <1>5, <1>6 DEF Next

\* An empty build directory with its first checkpoint.
LEMMA NewStageTyped ==
    ASSUME LocalTyped, NewStage
    PROVE  /\ StageTyped' /\ ckpt' # None /\ stage' = stat
           /\ ckpt'.tokens = <<>> /\ ckpt'.length = 0 /\ ckpt'.final = None
           /\ pack' = <<>> /\ tokens' = <<>> /\ idx' = Empty
<1> DEFINE c == [tokens |-> <<>>, length |-> 0, final |-> None]
<1>1. c \in Checkpoints /\ c # None /\ Len(c.tokens) = 0
  <2>1. <<>> \in Seq(Nat)
    OBVIOUS
  <2>2. c \in Checkpoints
    BY <2>1 DEF Checkpoints
  <2>3. QED BY <2>2
<1>2. ckpt' = c /\ stage' = stat /\ stat \in Nat
  BY DEF NewStage, LocalTyped
<1>3. idx' \in [Groups -> Nat] /\ pack' \in Seq(Contents)
  BY DEF NewStage, Empty
<1>4. QED BY <1>1, <1>2, <1>3 DEF NewStage, StageTyped

\* Writing a checkpoint records the tokens and the length of the pack.
LEMMA SaveTyped ==
    ASSUME StageTyped, LocalTyped, stage # None, UNCHANGED <<stage, idx, pack>>,
           NEW v \in Names \cup {None}, WriteCheckpoint(v)
    PROVE  /\ StageTyped' /\ ckpt' # None
           /\ ckpt'.tokens = tokens /\ ckpt'.length = Len(pack) /\ ckpt'.final = v
<1> DEFINE c == [tokens |-> tokens, length |-> Len(pack), final |-> v]
<1>1. c \in Checkpoints /\ c # None
  BY SavedTyped
<1>2. ckpt' = c /\ Len(c.tokens) <= N
  BY DEF WriteCheckpoint, LocalTyped, Done
<1>3. QED BY <1>1, <1>2 DEF StageTyped

\* A pack that is cut, to the checkpoint by the next build or past it by a
\* crash, keeps the clips the checkpoint covers.
LEMMA CutTyped ==
    ASSUME StageTyped, Kept, stage # None,
           NEW n \in ckpt.length .. Len(pack)
    PROVE  /\ SubSeq(pack, 1, n) \in Seq(Contents)
           /\ Len(SubSeq(pack, 1, n)) = n
           /\ ckpt.length \in Nat /\ ckpt.length <= Len(pack)
           /\ SubSeq(SubSeq(pack, 1, n), 1, ckpt.length) =
                SubSeq(pack, 1, ckpt.length)
<1>1. ckpt # None /\ ckpt.length \in Nat /\ ckpt.length <= Len(pack)
  BY CheckpointTyped DEF StageTyped, Kept
<1>2. pack \in Seq(Contents) /\ n \in Nat /\ n <= Len(pack) /\ ckpt.length <= n
  BY <1>1 DEF StageTyped
<1>3. /\ SubSeq(pack, 1, n) \in Seq(Contents) /\ Len(SubSeq(pack, 1, n)) = n
      /\ \A i \in 1 .. n : SubSeq(pack, 1, n)[i] = pack[i]
  BY <1>2, Prefix
<1>4. \A i \in 1 .. ckpt.length : SubSeq(pack, 1, n)[i] = pack[i]
  BY <1>1, <1>2, <1>3
<1>5. SubSeq(SubSeq(pack, 1, n), 1, ckpt.length) = SubSeq(pack, 1, ckpt.length)
  BY <1>1, <1>2, <1>3, <1>4, SamePrefix
<1>6. QED BY <1>1, <1>3, <1>5

\* What consume takes, and the three ways it takes it.
LEMMA ConsumeTyped ==
    ASSUME StageTyped, LocalTyped, Consume
    PROVE  LET g == Done + 1 IN
           /\ g \in Groups /\ Done \in Nat /\ reads[g] \in Reads
           /\ reads[g] # None /\ reads[g].done
           /\ reads[g].token \in Nat /\ reads[g].data \in Content
           /\ tokens' = Append(tokens, reads[g].token)
           /\ tokens' \in Seq(Nat) /\ Len(tokens') = Done + 1
           /\ \/ /\ reads[g].data = None
                 /\ idx' = [idx EXCEPT ![g] = 0] /\ pack' = pack
              \/ /\ reads[g].data # None
                 /\ \E h \in 1 .. Done :
                       /\ idx[h] # 0 /\ pack[idx[h]] = reads[g].data
                       /\ idx' = [idx EXCEPT ![g] = idx[h]]
                 /\ pack' = pack
              \/ /\ reads[g].data # None
                 /\ \A h \in 1 .. Done :
                       idx[h] # 0 => pack[idx[h]] # reads[g].data
                 /\ pack' = Append(pack, reads[g].data)
                 /\ idx' = [idx EXCEPT ![g] = Len(pack) + 1]
<1> DEFINE g == Done + 1
<1>1. Done \in Nat /\ g \in Groups
  BY DEF LocalTyped, Done, Consume, Groups
<1>2. reads[g] # None /\ reads[g].done /\ tokens' = Append(tokens, reads[g].token)
  BY DEF Consume
<1>3. reads[g] \in Reads
  BY <1>1, <1>2 DEF LocalTyped
<1>4. reads[g].token \in Nat /\ reads[g].data \in Content
  BY <1>3 DEF Reads
<1>5. tokens' \in Seq(Nat) /\ Len(tokens') = Done + 1
  BY <1>2, <1>4, AppendProperties DEF LocalTyped, Done
<1>6. CASE reads[g].data = None
  BY <1>1, <1>2, <1>3, <1>4, <1>5, <1>6 DEF Consume
<1>7. CASE reads[g].data # None /\ Duplicates(reads[g].data) # {}
  <2>1. PICK p \in Duplicates(reads[g].data) :
            idx' = [idx EXCEPT ![g] = p] /\ pack' = pack
    BY <1>7 DEF Consume
  <2>2. PICK h \in 1 .. Done : p = idx[h] /\ idx[h] # 0 /\ pack[idx[h]] = reads[g].data
    BY <2>1 DEF Duplicates
  <2>3. QED BY <1>1, <1>2, <1>3, <1>4, <1>5, <1>7, <2>1, <2>2
<1>8. CASE reads[g].data # None /\ Duplicates(reads[g].data) = {}
  <2>1. /\ pack' = Append(pack, reads[g].data)
        /\ idx' = [idx EXCEPT ![g] = Len(pack) + 1]
    BY <1>8 DEF Consume
  <2>2. \A h \in 1 .. Done : idx[h] # 0 => pack[idx[h]] # reads[g].data
    BY <1>8 DEF Duplicates
  <2>3. QED BY <1>1, <1>2, <1>3, <1>4, <1>5, <1>8, <2>1, <2>2
<1>9. QED BY <1>6, <1>7, <1>8

\* The directory of this database can be resumed: what its checkpoint counts is
\* in the pack, whatever a crash took of the rest.
LEMMA OwnResumable ==
    ASSUME StageTyped, LocalTyped, Kept
    PROVE  Resumable <=> stage = stat
  BY DEF Resumable, StageTyped, LocalTyped, Kept

\* Every step keeps the types of the build directory.
LEMMA StageStep ==
    ASSUME StageTyped, LocalTyped, Kept, Staged, [Next]_vars
    PROVE  StageTyped'
<1>1. CASE UNCHANGED stageVars
  BY <1>1 DEF stageVars, StageTyped
<1>2. ASSUME NewStage
      PROVE  StageTyped'
  BY <1>2, NewStageTyped
<1>3. ASSUME Prepare
      PROVE  StageTyped'
  <2>1. CASE stage # stat
    BY <2>1, <1>2, <1>3, OwnResumable DEF Prepare
  <2>2. CASE stage = stat
    <3>1. stage # None /\ ckpt.length \in ckpt.length .. Len(pack)
      BY <2>2, CheckpointTyped DEF LocalTyped, StageTyped, Kept
    <3>2. pack' \in Seq(Contents) /\ UNCHANGED <<stage, idx, ckpt>>
      BY <1>3, <2>2, <3>1, CutTyped, OwnResumable DEF Prepare
    <3>3. QED BY <3>2 DEF StageTyped
  <2>3. QED BY <2>1, <2>2
<1>4. ASSUME RestoreGroup
      PROVE  StageTyped'
  BY <1>1, <1>2, <1>4 DEF RestoreGroup
<1>5. ASSUME Consume
      PROVE  StageTyped'
  <2>1. UNCHANGED <<stage, ckpt>>
    BY <1>5 DEF Consume
  <2>2. idx' \in [Groups -> Nat] /\ pack' \in Seq(Contents)
    <3>1. Done + 1 \in Groups /\ reads[Done + 1].data \in Content
      BY <1>5, ConsumeTyped
    <3>2. CASE idx' = [idx EXCEPT ![Done + 1] = 0] /\ pack' = pack
      BY <3>2 DEF StageTyped
    <3>3. CASE /\ pack' = pack
               /\ \E h \in 1 .. Done : idx' = [idx EXCEPT ![Done + 1] = idx[h]]
      <4>1. PICK h \in 1 .. Done : idx' = [idx EXCEPT ![Done + 1] = idx[h]]
        BY <3>3
      <4>2. h \in Groups
        BY DEF LocalTyped, Done, Groups
      <4>3. QED BY <3>3, <4>1, <4>2 DEF StageTyped
    <3>4. CASE /\ reads[Done + 1].data # None
               /\ pack' = Append(pack, reads[Done + 1].data)
               /\ idx' = [idx EXCEPT ![Done + 1] = Len(pack) + 1]
      <4>1. Len(pack) \in Nat /\ reads[Done + 1].data \in Contents
        BY <3>1, <3>4 DEF StageTyped, Content
      <4>2. pack' \in Seq(Contents)
        BY <3>4, <4>1, AppendProperties DEF StageTyped
      <4>3. idx' \in [Groups -> Nat]
        <5>1. Len(pack) + 1 \in Nat /\ idx \in [Groups -> Nat]
          BY <4>1 DEF StageTyped
        <5>2. QED BY <3>4, <5>1
      <4>4. QED BY <4>2, <4>3
    <3>5. QED BY <1>5, <3>2, <3>3, <3>4, ConsumeTyped
  <2>3. QED BY <2>1, <2>2 DEF StageTyped
<1>6. ASSUME pc = "pack", NEW v \in Names \cup {None}, WriteCheckpoint(v),
             UNCHANGED <<stage, idx, pack>>
      PROVE  StageTyped'
  <2>1. stage # None
    BY <1>6 DEF Staged, LocalTyped
  <2>2. QED BY <1>6, <2>1, SaveTyped
<1>7. ASSUME Checkpoint
      PROVE  StageTyped'
  BY <1>6, <1>7 DEF Checkpoint
<1>8. ASSUME CancelPacking
      PROVE  StageTyped'
  BY <1>6, <1>8 DEF CancelPacking, LocalTyped
<1>9. ASSUME FinishPacking
      PROVE  StageTyped'
  <2>1. CASE UNCHANGED ckpt
    BY <2>1, <1>9 DEF FinishPacking, StageTyped
  <2>2. CASE WriteCheckpoint(Name)
    <3>1. Canonical(idx, pack, N)
      BY <1>9 DEF FinishPacking, Staged, Sound, Done
    <3>2. Name \in Names
      BY <3>1, NameTyped
    <3>3. pc = "pack" /\ UNCHANGED <<stage, idx, pack>>
      BY <1>9 DEF FinishPacking
    <3>4. QED BY <1>6, <2>2, <3>2, <3>3
  <2>3. QED BY <1>9, <2>1, <2>2 DEF FinishPacking
<1>10. ASSUME PublishVersion
       PROVE  StageTyped'
  <2>1. stage' = None /\ idx' = Empty /\ pack' = <<>> /\ ckpt' = None
    BY <1>10 DEF PublishVersion
  <2>2. QED BY <2>1 DEF StageTyped, Empty
<1>11. ASSUME Crash
       PROVE  StageTyped'
  <2>1. CASE stage = None
    BY <1>11, <2>1 DEF Crash, StageTyped
  <2>2. CASE stage # None
    <3>1. PICK lost \in SUBSET (Len(ckpt.tokens) + 1 .. N) :
            idx' = [g \in Groups |-> IF g \in lost THEN 0 ELSE idx[g]]
      BY <1>11, <2>2 DEF Crash
    <3>2. PICK n \in ckpt.length .. Len(pack) : pack' = SubSeq(pack, 1, n)
      BY <1>11, <2>2 DEF Crash
    <3>3. idx' \in [Groups -> Nat]
      BY <3>1 DEF StageTyped
    <3>4. pack' \in Seq(Contents)
      BY <2>2, <3>2, CutTyped
    <3>5. QED BY <1>11, <3>3, <3>4 DEF Crash, StageTyped
  <2>3. QED BY <2>1, <2>2
<1>12. ASSUME \/ Check \/ Start \/ Restored \/ CancelRestore \/ CancelVerification
              \/ \E g \in Groups : BeginRead(g) \/ FinishRead(g) \/ ChangeFile(g)
              \/ ScanGroup \/ ScanDone \/ Activate \/ ChangeDatabase \/ Cleanup
              \/ Damage \/ UNCHANGED vars
       PROVE  UNCHANGED stageVars
  BY <1>12 DEF Check, Start, Restored, CancelRestore, CancelVerification, BeginRead,
     FinishRead, ChangeFile, ScanGroup, ScanDone, Activate, ChangeDatabase,
     Cleanup, Damage, vars, stageVars
<1>13. QED
  BY <1>1, <1>3, <1>4, <1>5, <1>7, <1>8, <1>9, <1>10, <1>11, <1>12
  DEF Next, Builder

\* The version that is published, or the one that is reused.
LEMMA PublishEffect ==
    ASSUME StageTyped, LocalTyped, Staged, PublishVersion,
           \A v \in versions : v \in Versions
    PROVE  /\ Canonical(idx, pack, N)
           /\ final' \in Names /\ final'.db = stat
           /\ final'.contents = Packed(idx, pack)
           /\ \E v \in versions' : v.name = final' /\ v.intact
           /\ \A v \in versions : \E w \in versions' : w.name = v.name
           /\ \A v \in versions' :
                \/ v \in versions
                \/ /\ v \in Versions /\ v.name = final' /\ v.rows = rows
                   /\ v.idx = idx /\ v.pack = pack
<1>1. pc = "publish" /\ Done = N /\ final = Name /\ Canonical(idx, pack, N)
  BY DEF PublishVersion, Staged, Sound, Done
<1>2. /\ Name \in Names /\ Name.db = stat /\ Name.contents = Packed(idx, pack)
      /\ Name.random = FALSE
  BY <1>1, NameTyped
<1>3. CASE Reusable # {} /\ UNCHANGED <<versions, final>>
  <2>1. PICK v \in versions : v.name = Name /\ v.intact
    BY <1>3 DEF Reusable, Namesakes
  <2>2. QED BY <1>1, <1>2, <1>3, <2>1
<1>4. CASE /\ final' = [Name EXCEPT !.random = Namesakes # {}]
           /\ versions' = {v \in versions : v.name # final'} \cup {Version(final')}
  <2>1. PICK r \in BOOLEAN : r = (Namesakes # {})
    OBVIOUS
  <2>2. final' = [Name EXCEPT !.random = r]
    BY <1>4, <2>1
  <2>3. /\ final' \in Names /\ final'.db = stat
        /\ final'.contents = Packed(idx, pack)
    BY <1>2, <2>2 DEF Names
  <2>4. /\ Version(final') \in Versions /\ Version(final').name = final'
        /\ Version(final').rows = rows /\ Version(final').idx = idx
        /\ Version(final').pack = pack /\ Version(final').intact
    BY <2>3 DEF Version, Versions, StageTyped, LocalTyped
  <2>5. \A v \in versions' : v \in versions \/ v = Version(final')
    BY <1>4
  <2>6. Version(final') \in versions'
    BY <1>4
  <2>7. ASSUME NEW v \in versions
        PROVE  \E w \in versions' : w.name = v.name
    <3>1. CASE v.name = final'
      BY <3>1, <2>4, <2>6
    <3>2. CASE v.name # final'
      BY <3>2, <1>4
    <3>3. QED BY <3>1, <3>2
  <2>8. \E v \in versions' : v.name = final' /\ v.intact
    BY <2>4, <2>6
  <2>9. QED BY <1>1, <2>3, <2>4, <2>5, <2>7, <2>8
<1>5. QED BY <1>3, <1>4 DEF PublishVersion

\* Every step keeps the types of the builder.
LEMMA LocalStep ==
    ASSUME WorldTyped, StageTyped, LocalTyped, Kept, Staged, [Next]_vars,
           \A v \in versions : v \in Versions
    PROVE  LocalTyped'
<1>1. ASSUME Stop
      PROVE  LocalTyped'
  BY <1>1, StopTyped
<1>2. CASE UNCHANGED localVars /\ pc' \in {"idle", "lock", "open", "restore",
                                           "pack", "scan", "publish", "activate"}
  BY <1>2 DEF localVars, LocalTyped, Done
<1>3. ASSUME Check \/ Start
      PROVE  LocalTyped'
  <2>1. CASE Check
    BY <2>1, <1>2 DEF Check
  <2>2. CASE Start /\ Stop
    BY <2>2, <1>1
  <2>3. CASE Start /\ ~Stop
    BY <2>3 DEF Start, LocalTyped, Done, WorldTyped
  <2>4. QED BY <1>3, <2>1, <2>2, <2>3
<1>4. ASSUME Prepare
      PROVE  LocalTyped'
  <2>1. pc' \in {"restore", "pack"} /\ rows' = db
    BY <1>4 DEF Prepare, NewStage
  <2>2. \/ UNCHANGED <<tokens, final>>
        \/ tokens' = <<>> /\ final' = None
    BY <1>4 DEF Prepare, NewStage
  <2>3. UNCHANGED <<stat, reads, scanned, settled>>
    BY <1>4 DEF Prepare
  <2>4. tokens' \in Seq(Nat) /\ Len(tokens') <= N
    <3>1. tokens \in Seq(Nat) /\ Len(tokens) <= N
      BY DEF LocalTyped, Done
    <3>2. <<>> \in Seq(Nat) /\ Len(<<>>) = 0 /\ 0 <= N
      OBVIOUS
    <3>3. tokens' = tokens \/ tokens' = <<>>
      BY <2>2
    <3>4. QED BY <3>1, <3>2, <3>3
  <2>5. QED BY <2>1, <2>2, <2>3, <2>4 DEF LocalTyped, Done, WorldTyped
<1>5. ASSUME RestoreGroup
      PROVE  LocalTyped'
  <2>1. \/ UNCHANGED <<tokens, final, pc>>
        \/ tokens' = <<>> /\ final' = None /\ pc' = "pack"
    BY <1>5 DEF RestoreGroup, NewStage
  <2>2. UNCHANGED <<stat, rows, reads, settled>>
    BY <1>5 DEF RestoreGroup
  <2>3. tokens' \in Seq(Nat) /\ Len(tokens') <= N
    <3>1. tokens \in Seq(Nat) /\ Len(tokens) <= N
      BY DEF LocalTyped, Done
    <3>2. <<>> \in Seq(Nat) /\ Len(<<>>) = 0 /\ 0 <= N
      OBVIOUS
    <3>3. tokens' = tokens \/ tokens' = <<>>
      BY <2>1
    <3>4. QED BY <3>1, <3>2, <3>3
  <2>4. scanned' \in 0 .. N
    <3>1. ckpt # None
      BY <1>5 DEF RestoreGroup, Staged, StageTyped, LocalTyped
    <3>2. Len(ckpt.tokens) \in Nat /\ Len(ckpt.tokens) <= N
      BY <3>1, CheckpointTyped
    <3>3. QED BY <1>5, <3>2 DEF RestoreGroup, LocalTyped
  <2>5. QED BY <2>1, <2>2, <2>3, <2>4 DEF LocalTyped, Done
<1>6. ASSUME Restored
      PROVE  LocalTyped'
  <2>1. ckpt # None
    BY <1>6 DEF Restored, Staged, StageTyped, LocalTyped
  <2>2. /\ ckpt.tokens \in Seq(Nat) /\ Len(ckpt.tokens) <= N
        /\ ckpt.final \in Names \cup {None}
    BY <2>1, CheckpointTyped
  <2>3. QED BY <1>6, <2>2 DEF Restored, LocalTyped, Done
<1>7. ASSUME NEW g \in Groups, BeginRead(g)
      PROVE  LocalTyped'
  <2>1. Token(g) \in Nat
    BY LenProperties DEF WorldTyped, Token
  <2>2. [token |-> Token(g), data |-> None, done |-> FALSE] \in Reads
    BY <2>1 DEF Reads, Content
  <2>3. reads' \in [Groups -> Reads \cup {None}]
    BY <1>7, <2>2 DEF BeginRead, LocalTyped
  <2>4. QED BY <1>7, <2>3 DEF BeginRead, LocalTyped, Done
<1>8. ASSUME NEW g \in Groups, FinishRead(g)
      PROVE  LocalTyped'
  <2>1. PICK data \in Content :
            reads' = [reads EXCEPT ![g].data = data, ![g].done = TRUE]
    BY <1>8 DEF FinishRead
  <2>2. reads[g] \in Reads
    BY <1>8 DEF FinishRead, LocalTyped
  <2>3. PICK r : r = [reads[g] EXCEPT !.data = data, !.done = TRUE]
    OBVIOUS
  <2>4. r \in Reads
    BY <2>2, <2>3 DEF Reads
  <2>5. reads' = [reads EXCEPT ![g] = r]
    BY <2>1, <2>3
  <2>6. reads' \in [Groups -> Reads \cup {None}]
    BY <2>4, <2>5 DEF LocalTyped
  <2>7. QED BY <1>8, <2>6 DEF FinishRead, LocalTyped, Done
<1>9. ASSUME Consume
      PROVE  LocalTyped'
  <2>1. /\ Done \in Nat /\ Done + 1 \in Groups
        /\ tokens' \in Seq(Nat) /\ Len(tokens') = Done + 1
    BY <1>9, ConsumeTyped
  <2>2. reads' = [reads EXCEPT ![Done + 1] = None]
    BY <1>9 DEF Consume
  <2>3. reads' \in [Groups -> Reads \cup {None}]
    BY <2>2 DEF LocalTyped
  <2>4. Len(tokens') <= N
    BY <2>1 DEF Groups
  <2>5. QED BY <1>9, <2>1, <2>3, <2>4 DEF Consume, LocalTyped, Done
<1>10. ASSUME FinishPacking
       PROVE  LocalTyped'
  <2>1. CASE Stop
    BY <2>1, <1>1
  <2>2. CASE /\ final' = Name
             /\ settled' = [g \in Groups |-> Token(g)]
             /\ pc' = "scan"
             /\ UNCHANGED <<stat, rows, tokens, reads, scanned>>
    <3>1. Canonical(idx, pack, N)
      BY <1>10 DEF FinishPacking, Staged, Sound, Done
    <3>2. Name \in Names
      BY <3>1, NameTyped
    <3>3. \A g \in Groups : Token(g) \in Nat
      BY LenProperties DEF WorldTyped, Token
    <3>4. QED BY <2>2, <3>2, <3>3 DEF LocalTyped, Done
  <2>3. QED BY <1>10, <2>1, <2>2 DEF FinishPacking
<1>11. ASSUME ScanGroup
       PROVE  LocalTyped'
  <2>1. CASE Stop
    BY <2>1, <1>1
  <2>2. CASE /\ scanned' = scanned + 1
             /\ UNCHANGED <<pc, stat, rows, tokens, final, reads, settled>>
    <3>1. scanned' \in 0 .. N
      BY <1>11, <2>2 DEF ScanGroup, LocalTyped
    <3>2. QED BY <2>2, <3>1 DEF LocalTyped, Done
  <2>3. QED BY <1>11, <2>1, <2>2 DEF ScanGroup
<1>12. ASSUME ScanDone
       PROVE  LocalTyped'
  BY <1>1, <1>2, <1>12 DEF ScanDone
<1>13. ASSUME PublishVersion
       PROVE  LocalTyped'
  <2>1. final' \in Names
    BY <1>13, PublishEffect
  <2>2. QED BY <1>13, <2>1 DEF PublishVersion, LocalTyped, Done
<1>14. ASSUME CancelRestore \/ CancelPacking \/ CancelVerification \/ Activate
              \/ Crash
       PROVE  LocalTyped'
  BY <1>1, <1>14 DEF CancelRestore, CancelPacking, CancelVerification, Activate,
     Crash
<1>15. ASSUME Checkpoint \/ ChangeDatabase \/ Cleanup \/ Damage \/ UNCHANGED vars
              \/ \E g \in Groups : ChangeFile(g)
       PROVE  LocalTyped'
  <2>1. UNCHANGED localVars /\ pc' = pc
    BY <1>15 DEF Checkpoint, ChangeDatabase, Cleanup, Damage, vars, ChangeFile
  <2>2. QED BY <2>1, <1>2 DEF LocalTyped
<1>16. QED
  BY <1>3, <1>4, <1>5, <1>6, <1>7, <1>8, <1>9, <1>10, <1>11, <1>12, <1>13,
     <1>14, <1>15 DEF Next, Builder

\* Versions are added by publication, and damaged; nothing else touches them.
LEMMA VersionsStep ==
    ASSUME StageTyped, LocalTyped, Staged, [Next]_vars,
           \A v \in versions : v \in Versions
    PROVE  \/ UNCHANGED versions
           \/ PublishVersion
           \/ /\ Damage
              /\ \A v \in versions : \E w \in versions' : w.name = v.name
              /\ \A v \in versions' : v \in Versions /\
                    \E w \in versions : /\ v.name = w.name /\ v.idx = w.idx
                                        /\ v.pack = w.pack /\ v.rows = w.rows
<1>1. ASSUME Damage
      PROVE  /\ \A v \in versions : \E w \in versions' : w.name = v.name
             /\ \A v \in versions' : v \in Versions /\
                    \E w \in versions : /\ v.name = w.name /\ v.idx = w.idx
                                        /\ v.pack = w.pack /\ v.rows = w.rows
  <2>1. PICK u \in versions :
            versions' = (versions \ {u}) \cup {[u EXCEPT !.intact = FALSE]}
    BY <1>1 DEF Damage
  <2>2. u \in Versions
    OBVIOUS
  <2>3. PICK d : d = [u EXCEPT !.intact = FALSE]
    OBVIOUS
  <2>4. /\ d \in Versions /\ d.name = u.name /\ d.idx = u.idx
        /\ d.pack = u.pack /\ d.rows = u.rows
    BY <2>2, <2>3 DEF Versions
  <2>5. versions' = (versions \ {u}) \cup {d}
    BY <2>1, <2>3
  <2>6. QED BY <2>4, <2>5
<1>2. ASSUME ~Damage, ~PublishVersion
      PROVE  UNCHANGED versions
  BY <1>2 DEF Next, Builder, Check, Start, Checkpoint, CancelRestore, CancelPacking,
     CancelVerification, ChangeFile, ChangeDatabase, Cleanup, Crash, vars,
     diskVars, Prepare, RestoreGroup, Restored, BeginRead, FinishRead, Consume,
     FinishPacking, ScanGroup, ScanDone, Activate
<1>3. QED BY <1>1, <1>2

\* Every step keeps the types of the versions.
LEMMA VersionsTypedStep ==
    ASSUME StageTyped, LocalTyped, Staged, [Next]_vars,
           \A v \in versions : v \in Versions
    PROVE  \A v \in versions' : v \in Versions
<1>1. CASE PublishVersion
  BY <1>1, PublishEffect
<1>2. QED BY <1>1, VersionsStep

---------------------------------------------------------------------------
(* The checkpoint *)

\* A step that leaves the checkpoint, the cells it covers and the clips it
\* covers leaves it sound.
LEMMA KeptFrame ==
    ASSUME WorldTyped, WorldTyped', Grows(files, files'), StageTyped, Kept,
           ckpt # None, ckpt' = ckpt,
           idx' \in [Groups -> Nat], pack' \in Seq(Contents),
           \A h \in 1 .. Len(ckpt.tokens) : idx'[h] = idx[h],
           ckpt.length <= Len(pack'),
           SubSeq(pack', 1, ckpt.length) = SubSeq(pack, 1, ckpt.length)
    PROVE  Kept'
<1>1. /\ ckpt.tokens \in Seq(Nat) /\ Len(ckpt.tokens) <= N
      /\ ckpt.length \in Nat /\ ckpt.length <= Len(pack)
  BY CheckpointTyped DEF Kept
<1>2. PICK clips : clips = SubSeq(pack, 1, ckpt.length)
  OBVIOUS
<1>3. clips \in Seq(Contents)
  BY <1>1, <1>2, Prefix DEF StageTyped
<1>4. Sound(files, idx, clips, ckpt.tokens)
  BY <1>2 DEF Kept
<1>5. idx \in [Groups -> Nat] /\ files \in [Groups -> Seq(Content)]
      /\ files' \in [Groups -> Seq(Content)]
  BY DEF StageTyped, WorldTyped
<1>6. PICK g \in [Groups -> Seq(Content)], cells \in [Groups -> Nat] :
        g = files' /\ cells = idx'
  BY <1>5
<1>7. Sound(g, cells, clips, ckpt.tokens)
  BY <1>1, <1>3, <1>4, <1>5, <1>6, SoundKept
<1>8. Sound(files', idx', SubSeq(pack', 1, ckpt'.length), ckpt'.tokens)
  BY <1>2, <1>6, <1>7
<1>9. QED BY <1>8 DEF Kept

\* A checkpoint of everything packed so far.
LEMMA KeptSaved ==
    ASSUME StageTyped, LocalTyped, Staged, pc = "pack", UNCHANGED files,
           UNCHANGED <<stage, idx, pack>>, NEW v \in Names \cup {None},
           WriteCheckpoint(v)
    PROVE  Kept'
<1>1. stage # None
  BY DEF Staged, LocalTyped
<1>2. ckpt'.tokens = tokens /\ ckpt'.length = Len(pack)
  BY <1>1, SaveTyped
<1>3. SubSeq(pack, 1, Len(pack)) = pack
  BY SubSeqFull DEF StageTyped
<1>4. Sound(files, idx, pack, tokens)
  BY DEF Staged
<1>5. Sound(files', idx', SubSeq(pack', 1, ckpt'.length), ckpt'.tokens)
  BY <1>2, <1>3, <1>4
<1>6. ckpt'.length <= Len(pack')
  <2>1. Len(pack) \in Nat
    BY DEF StageTyped
  <2>2. QED BY <2>1, <1>2
<1>7. QED BY <1>5, <1>6 DEF Kept

\* The checkpoint stays sound whatever is packed, cut, lost or changed after it.
LEMMA KeptStep ==
    ASSUME WorldTyped, StageTyped, LocalTyped, Kept, Staged, [Next]_vars,
           \A v \in versions : v \in Versions
    PROVE  Kept'
<1>1. WorldTyped' /\ StageTyped' /\ Grows(files, files')
  BY WorldStep, StageStep
<1>2. CASE ckpt' = None
  BY <1>2 DEF Kept
<1>3. CASE UNCHANGED stageVars
  <2>1. CASE ckpt = None
    BY <1>3, <2>1 DEF stageVars, Kept
  <2>2. CASE ckpt # None
    <3>1. /\ ckpt' = ckpt /\ idx' = idx /\ pack' = pack
          /\ idx' \in [Groups -> Nat] /\ pack' \in Seq(Contents)
          /\ ckpt.length <= Len(pack')
      BY <1>1, <1>3, <2>2 DEF stageVars, StageTyped, Kept
    <3>2. QED BY <1>1, <2>2, <3>1, KeptFrame
  <2>3. QED BY <2>1, <2>2
<1>4. ASSUME NewStage
      PROVE  Kept'
  <2>1. /\ ckpt'.tokens = <<>> /\ ckpt'.length = 0 /\ pack' = <<>> /\ idx' = Empty
    BY <1>4, NewStageTyped
  <2>2. <<>> \in Seq(Contents) /\ SubSeq(<<>>, 1, 0) = <<>> /\ Len(<<>>) = 0
    BY SubSeqEmpty
  <2>3. Sound(files', Empty, <<>>, <<>>)
    BY SoundEmpty
  <2>4. Sound(files', idx', SubSeq(pack', 1, ckpt'.length), ckpt'.tokens)
    BY <2>1, <2>2, <2>3
  <2>5. ckpt'.length <= Len(pack')
    BY <2>1, <2>2
  <2>6. QED BY <2>4, <2>5 DEF Kept
<1>5. ASSUME Prepare
      PROVE  Kept'
  <2>1. CASE stage # stat
    BY <1>4, <1>5, <2>1, OwnResumable DEF Prepare
  <2>2. CASE stage = stat
    <3>1. stage # None /\ ckpt # None
      BY <2>2 DEF LocalTyped, StageTyped
    <3>2. ckpt.length \in Nat /\ ckpt.length <= Len(pack)
      BY <3>1, CheckpointTyped DEF Kept
    <3>3. ckpt.length \in ckpt.length .. Len(pack)
      BY <3>2 DEF StageTyped
    <3>4. pack' = SubSeq(pack, 1, ckpt.length) /\ UNCHANGED <<idx, ckpt>>
      BY <1>5, <2>2, OwnResumable DEF Prepare
    <3>5. /\ pack' \in Seq(Contents) /\ Len(pack') = ckpt.length
          /\ SubSeq(pack', 1, ckpt.length) = SubSeq(pack, 1, ckpt.length)
      BY <3>1, <3>3, <3>4, CutTyped
    <3>6. idx' \in [Groups -> Nat] /\ ckpt.length <= Len(pack')
      BY <1>1, <3>2, <3>5 DEF StageTyped
    <3>7. QED BY <1>1, <3>1, <3>4, <3>5, <3>6, KeptFrame
  <2>3. QED BY <2>1, <2>2
<1>6. ASSUME RestoreGroup
      PROVE  Kept'
  BY <1>3, <1>4, <1>6 DEF RestoreGroup
<1>7. ASSUME Consume
      PROVE  Kept'
  <2>1. ckpt # None /\ ckpt' = ckpt
    BY <1>7 DEF Consume, Staged, StageTyped, LocalTyped
  <2>2. /\ ckpt.tokens \in Seq(Nat) /\ Len(ckpt.tokens) <= Done
        /\ ckpt.length \in Nat /\ ckpt.length <= Len(pack)
    BY <1>7, <2>1, CheckpointTyped DEF Consume, Staged, Extended, Kept
  <2>3. Done \in Nat /\ Done + 1 \in Groups
    BY <1>7, ConsumeTyped
  <2>4. \A h \in 1 .. Len(ckpt.tokens) : h # Done + 1 /\ h \in Groups
    BY <2>2, <2>3 DEF Groups
  <2>5. \E p : idx' = [idx EXCEPT ![Done + 1] = p]
    BY <1>7, ConsumeTyped
  <2>6. \A h \in 1 .. Len(ckpt.tokens) : idx'[h] = idx[h]
    BY <2>4, <2>5 DEF StageTyped
  <2>7. pack' = pack \/ \E c \in Contents : pack' = Append(pack, c)
    BY <1>7, ConsumeTyped DEF Content
  <2>8. /\ Len(pack) <= Len(pack')
        /\ \A i \in 1 .. Len(pack) : pack'[i] = pack[i]
    <3>1. CASE pack' = pack
      BY <3>1 DEF StageTyped
    <3>2. ASSUME NEW c \in Contents, pack' = Append(pack, c)
          PROVE  /\ Len(pack) <= Len(pack')
                 /\ \A i \in 1 .. Len(pack) : pack'[i] = pack[i]
      <4>1. pack \in Seq(Contents) /\ Len(pack) \in Nat
        BY DEF StageTyped
      <4>2. QED BY <3>2, <4>1, AppendProperties
    <3>3. QED BY <2>7, <3>1, <3>2
  <2>9. pack \in Seq(Contents) /\ pack' \in Seq(Contents) /\ idx' \in [Groups -> Nat]
    BY <1>1 DEF StageTyped
  <2>10. ckpt.length <= Len(pack') /\ \A i \in 1 .. ckpt.length : pack'[i] = pack[i]
    BY <2>2, <2>8, <2>9
  <2>11. PICK more \in Seq(Contents) : more = pack'
    BY <2>9
  <2>12. SubSeq(more, 1, ckpt.length) = SubSeq(pack, 1, ckpt.length)
    BY <2>2, <2>9, <2>10, <2>11, SamePrefix
  <2>13. SubSeq(pack', 1, ckpt.length) = SubSeq(pack, 1, ckpt.length)
    BY <2>11, <2>12
  <2>14. QED BY <1>1, <2>1, <2>6, <2>9, <2>10, <2>13, KeptFrame
<1>8. ASSUME Checkpoint
      PROVE  Kept'
  BY <1>8, KeptSaved DEF Checkpoint, worldVars
<1>9. ASSUME CancelPacking
      PROVE  Kept'
  BY <1>9, KeptSaved DEF CancelPacking, worldVars, LocalTyped
<1>10. ASSUME FinishPacking
       PROVE  Kept'
  <2>1. CASE UNCHANGED ckpt
    BY <2>1, <1>3, <1>10 DEF FinishPacking, stageVars
  <2>2. CASE WriteCheckpoint(Name)
    <3>1. Canonical(idx, pack, N)
      BY <1>10 DEF FinishPacking, Staged, Sound, Done
    <3>2. Name \in Names
      BY <3>1, NameTyped
    <3>3. QED BY <1>10, <2>2, <3>2, KeptSaved DEF FinishPacking, worldVars
  <2>3. QED BY <1>10, <2>1, <2>2 DEF FinishPacking
<1>11. ASSUME PublishVersion
       PROVE  Kept'
  BY <1>2, <1>11 DEF PublishVersion
<1>12. ASSUME Crash
       PROVE  Kept'
  <2>1. CASE stage = None
    BY <1>3, <1>12, <2>1 DEF Crash, stageVars
  <2>2. CASE stage # None
    <3>1. ckpt # None /\ ckpt' = ckpt
      BY <1>12, <2>2 DEF Crash, StageTyped
    <3>2. PICK lost \in SUBSET (Len(ckpt.tokens) + 1 .. N) :
            idx' = [g \in Groups |-> IF g \in lost THEN 0 ELSE idx[g]]
      BY <1>12, <2>2 DEF Crash
    <3>3. PICK n \in ckpt.length .. Len(pack) : pack' = SubSeq(pack, 1, n)
      BY <1>12, <2>2 DEF Crash
    <3>4. /\ pack' \in Seq(Contents) /\ Len(pack') = n /\ ckpt.length \in Nat
          /\ SubSeq(pack', 1, ckpt.length) = SubSeq(pack, 1, ckpt.length)
      BY <2>2, <3>3, CutTyped
    <3>5. Len(ckpt.tokens) \in Nat /\ Len(ckpt.tokens) <= N
      BY <3>1, CheckpointTyped
    <3>6. \A h \in 1 .. Len(ckpt.tokens) : h \in Groups /\ h \notin lost
      BY <3>5 DEF Groups
    <3>7. \A h \in 1 .. Len(ckpt.tokens) : idx'[h] = idx[h]
      BY <3>2, <3>6
    <3>8. idx' \in [Groups -> Nat] /\ ckpt.length <= Len(pack')
      BY <1>1, <3>3, <3>4 DEF StageTyped
    <3>9. QED BY <1>1, <3>1, <3>4, <3>7, <3>8, KeptFrame
  <2>3. QED BY <2>1, <2>2
<1>13. ASSUME \/ Check \/ Start \/ Restored \/ CancelRestore \/ CancelVerification
              \/ \E g \in Groups : BeginRead(g) \/ FinishRead(g) \/ ChangeFile(g)
              \/ ScanGroup \/ ScanDone \/ Activate \/ ChangeDatabase \/ Cleanup
              \/ Damage \/ UNCHANGED vars
       PROVE  UNCHANGED stageVars
  BY <1>13 DEF Check, Start, Restored, CancelRestore, CancelVerification, BeginRead,
     FinishRead, ChangeFile, ScanGroup, ScanDone, Activate, ChangeDatabase,
     Cleanup, Damage, vars, stageVars
<1>14. QED
  BY <1>3, <1>5, <1>6, <1>7, <1>8, <1>9, <1>10, <1>11, <1>12, <1>13
  DEF Next, Builder

---------------------------------------------------------------------------
(* What worker threads read *)

\* A worker thread that sees its file change while it reads drops the bytes.
LEMMA ReadStep ==
    ASSUME WorldTyped, LocalTyped, ReadSound, [Next]_vars
    PROVE  ReadSound'
<1>1. WorldTyped' /\ Grows(files, files')
  BY WorldStep
<1>2. ASSUME NEW h \in Groups
      PROVE  /\ Len(files[h]) \in Nat /\ Len(files'[h]) \in Nat
             /\ Len(files[h]) <= Len(files'[h]) /\ Len(files[h]) >= 1
             /\ \A t \in 1 .. Len(files[h]) : files'[h][t] = files[h][t]
  BY <1>1, LenProperties DEF WorldTyped, Grows, Token
<1>3. ASSUME NEW h \in Groups, reads'[h] = reads[h], reads'[h] # None
      PROVE  /\ reads'[h].token \in 1 .. Len(files'[h])
             /\ reads'[h].done =>
                   reads'[h].data \in {None, files'[h][reads'[h].token]}
  <2>1. /\ reads[h].token \in 1 .. Len(files[h])
        /\ reads[h].done => reads[h].data \in {None, files[h][reads[h].token]}
    BY <1>3 DEF ReadSound, Token
  <2>2. files'[h][reads[h].token] = files[h][reads[h].token]
    BY <1>2, <2>1
  <2>3. QED BY <1>2, <1>3, <2>1, <2>2
<1>4. CASE UNCHANGED reads
  BY <1>3, <1>4 DEF ReadSound, Token
<1>5. ASSUME Stop
      PROVE  ReadSound'
  BY <1>5 DEF Stop, Unread, ReadSound
<1>6. ASSUME NEW g \in Groups, BeginRead(g)
      PROVE  ReadSound'
  <2>1. PICK r : r = [token |-> Token(g), data |-> None, done |-> FALSE]
    OBVIOUS
  <2>2. reads' = [reads EXCEPT ![g] = r] /\ UNCHANGED files
    BY <1>6, <2>1 DEF BeginRead, worldVars
  <2>3. r.token \in 1 .. Len(files[g]) /\ ~r.done
    BY <1>2, <2>1 DEF Token
  <2>4. ASSUME NEW h \in Groups, reads'[h] # None
        PROVE  /\ reads'[h].token \in 1 .. Len(files'[h])
               /\ reads'[h].done =>
                     reads'[h].data \in {None, files'[h][reads'[h].token]}
    <3>1. CASE h = g
      BY <3>1, <2>2, <2>3 DEF LocalTyped
    <3>2. CASE h # g
      BY <3>2, <2>2, <2>4, <1>3 DEF LocalTyped
    <3>3. QED BY <3>1, <3>2
  <2>5. QED BY <2>4 DEF ReadSound, Token
<1>7. ASSUME NEW g \in Groups, FinishRead(g)
      PROVE  ReadSound'
  <2>1. PICK data \in Content :
            /\ reads' = [reads EXCEPT ![g].data = data, ![g].done = TRUE]
            /\ \/ Token(g) = reads[g].token /\ data = files[g][Token(g)]
               \/ data = None
    BY <1>7 DEF FinishRead
  <2>2. reads[g] \in Reads /\ reads[g] # None
    BY <1>7 DEF FinishRead, LocalTyped
  <2>3. PICK r : r = [reads[g] EXCEPT !.data = data, !.done = TRUE]
    OBVIOUS
  <2>4. r.token = reads[g].token /\ r.data = data
    BY <2>2, <2>3 DEF Reads
  <2>5. reads' = [reads EXCEPT ![g] = r] /\ UNCHANGED files
    BY <1>7, <2>1, <2>3 DEF FinishRead, worldVars
  <2>6. r.token \in 1 .. Len(files[g]) /\ r.data \in {None, files[g][r.token]}
    BY <2>1, <2>2, <2>4 DEF ReadSound, Token
  <2>7. ASSUME NEW h \in Groups, reads'[h] # None
        PROVE  /\ reads'[h].token \in 1 .. Len(files'[h])
               /\ reads'[h].done =>
                     reads'[h].data \in {None, files'[h][reads'[h].token]}
    <3>1. CASE h = g
      BY <3>1, <2>5, <2>6 DEF LocalTyped
    <3>2. CASE h # g
      BY <3>2, <2>5, <2>7, <1>3 DEF LocalTyped
    <3>3. QED BY <3>1, <3>2
  <2>8. QED BY <2>7 DEF ReadSound, Token
<1>8. ASSUME Consume
      PROVE  ReadSound'
  <2>1. reads' = [reads EXCEPT ![Done + 1] = None]
    BY <1>8 DEF Consume
  <2>2. \A h \in Groups : reads'[h] # None => reads'[h] = reads[h]
    BY <2>1 DEF LocalTyped
  <2>3. QED BY <2>2, <1>3 DEF ReadSound, Token
<1>9. ASSUME Check \/ Start \/ Prepare \/ RestoreGroup \/ Restored \/ Checkpoint
             \/ CancelRestore \/ CancelPacking \/ CancelVerification
             \/ FinishPacking \/ ScanGroup \/ ScanDone \/ PublishVersion
             \/ Activate \/ Crash \/ ChangeDatabase \/ Cleanup \/ Damage
             \/ UNCHANGED vars \/ \E g \in Groups : ChangeFile(g)
      PROVE  UNCHANGED reads \/ Stop
  BY <1>9 DEF Check, Start, Prepare, RestoreGroup, Restored, Checkpoint, CancelRestore,
     CancelPacking, CancelVerification, FinishPacking, ScanGroup, ScanDone,
     PublishVersion, Activate, Crash, ChangeDatabase, Cleanup, Damage, vars,
     ChangeFile, localVars
<1>10. QED BY <1>4, <1>5, <1>6, <1>7, <1>8, <1>9 DEF Next, Builder

---------------------------------------------------------------------------
(* The stages of a build *)

\* A step that changes nothing of the build keeps what it has done.
LEMMA StagedFrame ==
    ASSUME WorldTyped, WorldTyped', Grows(files, files'), StageTyped, LocalTyped,
           Staged, UNCHANGED stageVars,
           UNCHANGED <<stat, tokens, final, pc>>, pc # "scan" => UNCHANGED scanned
    PROVE  Staged'
<1>1. /\ stage' = stage /\ idx' = idx /\ pack' = pack /\ ckpt' = ckpt
      /\ stat' = stat /\ tokens' = tokens /\ final' = final /\ pc' = pc
  BY DEF stageVars
<1>2. ASSUME pc \in {"pack", "scan", "publish"}
      PROVE  Sound(files', idx', pack', tokens')
  <2>1. /\ files \in [Groups -> Seq(Content)] /\ idx \in [Groups -> Nat]
        /\ pack \in Seq(Contents) /\ tokens \in Seq(Nat) /\ Len(tokens) <= N
        /\ Sound(files, idx, pack, tokens)
    BY <1>2 DEF WorldTyped, StageTyped, LocalTyped, Staged, Done
  <2>2. PICK g \in [Groups -> Seq(Content)] : g = files'
    BY DEF WorldTyped
  <2>3. Sound(g, idx, pack, tokens)
    BY <2>1, <2>2, SoundKept
  <2>4. QED BY <2>2, <2>3, <1>1
<1>3. Name' = Name /\ Done' = Done
  BY <1>1 DEF Name, Packed, Done
<1>4. pc \in {"pack", "scan", "publish"} => Extended(ckpt.tokens)'
  BY <1>1 DEF Staged, Extended, Done
<1>5. QED BY <1>1, <1>2, <1>3, <1>4 DEF Staged

\* A build that starts afresh has packed nothing.
LEMMA StagedNew ==
    ASSUME LocalTyped, NewStage, scanned' = 0, stat' = stat
    PROVE  Staged'
<1>1. /\ stage' = stat /\ ckpt'.tokens = <<>> /\ pack' = <<>> /\ tokens' = <<>>
      /\ idx' = Empty /\ pc' = "pack"
  BY NewStageTyped DEF NewStage
<1>2. Sound(files', idx', pack', tokens')
  BY <1>1, SoundEmpty
<1>3. Extended(ckpt.tokens)'
  BY <1>1 DEF Extended, Done
<1>4. QED BY <1>1, <1>2, <1>3 DEF Staged

\* consume packs one more key as an uninterrupted build would.
LEMMA StagedConsume ==
    ASSUME WorldTyped, StageTyped, StageTyped', LocalTyped, ReadSound, Staged, Consume
    PROVE  Staged'
<1> DEFINE g == Done + 1
           clip == reads[g].data
           token == reads[g].token
<1>1. /\ g \in Groups /\ Done \in Nat /\ Done < N /\ tokens \in Seq(Nat)
      /\ reads[g] # None /\ reads[g].done /\ clip \in Content
      /\ tokens' = Append(tokens, token) /\ Len(tokens') = Done + 1
  BY ConsumeTyped DEF Consume, LocalTyped
<1>2. token \in 1 .. Len(files[g]) /\ clip \in {None, files[g][token]}
  BY <1>1 DEF ReadSound, Token
<1>3. /\ files \in [Groups -> Seq(Content)]
      /\ idx \in [Groups -> Nat] /\ pack \in Seq(Contents) /\ Len(pack) \in Nat
      /\ idx' \in [Groups -> Nat] /\ pack' \in Seq(Contents)
  BY DEF WorldTyped, StageTyped
<1>4. Sound(files, idx, pack, tokens) /\ Canonical(idx, pack, Done)
  BY DEF Consume, Staged, Sound, Done
<1>5. /\ Canonical(idx', pack', Done + 1)
      /\ Len(pack) <= Len(pack') /\ \A p \in 1 .. Len(pack) : pack'[p] = pack[p]
      /\ idx'[g] # 0 => pack'[idx'[g]] = files[g][token]
      /\ \E p : idx' = [idx EXCEPT ![g] = p]
  <2>1. CASE clip = None /\ idx' = [idx EXCEPT ![g] = 0] /\ pack' = pack
    <3>1. Canonical([idx EXCEPT ![Done + 1] = 0], pack, Done + 1)
      BY <1>1, <1>3, <1>4, CanonicalHole
    <3>2. Canonical(idx', pack', Done + 1)
      BY <2>1, <3>1
    <3>3. idx'[g] = 0
      BY <2>1, <1>1, <1>3
    <3>4. Len(pack) <= Len(pack') /\ \A p \in 1 .. Len(pack) : pack'[p] = pack[p]
      BY <2>1, <1>3
    <3>5. QED BY <2>1, <3>2, <3>3, <3>4
  <2>2. CASE /\ clip # None /\ pack' = pack
             /\ \E h \in 1 .. Done : /\ idx[h] # 0 /\ pack[idx[h]] = clip
                                     /\ idx' = [idx EXCEPT ![g] = idx[h]]
    <3>1. PICK h \in 1 .. Done : /\ idx[h] # 0 /\ pack[idx[h]] = clip
                                 /\ idx' = [idx EXCEPT ![g] = idx[h]]
      BY <2>2
    <3>2. Canonical([idx EXCEPT ![Done + 1] = idx[h]], pack, Done + 1)
      BY <3>1, <1>1, <1>3, <1>4, CanonicalShared
    <3>3. idx'[g] = idx[h]
      BY <3>1, <1>1, <1>3
    <3>4. Canonical(idx', pack', Done + 1)
      BY <2>2, <3>1, <3>2
    <3>5. Len(pack) <= Len(pack') /\ \A p \in 1 .. Len(pack) : pack'[p] = pack[p]
      BY <2>2, <1>3
    <3>6. pack'[idx'[g]] = files[g][token]
      BY <2>2, <3>1, <3>3, <1>2
    <3>7. QED BY <3>1, <3>4, <3>5, <3>6
  <2>3. CASE /\ clip # None /\ pack' = Append(pack, clip)
             /\ idx' = [idx EXCEPT ![g] = Len(pack) + 1]
             /\ \A h \in 1 .. Done : idx[h] # 0 => pack[idx[h]] # clip
    <3>1. clip \in Contents
      BY <1>1, <2>3 DEF Content
    <3>2. Canonical([idx EXCEPT ![Done + 1] = Len(pack) + 1],
                    Append(pack, clip), Done + 1)
      BY <3>1, <2>3, <1>1, <1>3, <1>4, CanonicalNew
    <3>3. /\ Len(Append(pack, clip)) = Len(pack) + 1
          /\ \A p \in 1 .. Len(pack) : Append(pack, clip)[p] = pack[p]
          /\ Append(pack, clip)[Len(pack) + 1] = clip
      BY <3>1, <1>3, AppendProperties
    <3>4. idx'[g] = Len(pack) + 1
      BY <2>3, <1>1, <1>3
    <3>5. Canonical(idx', pack', Done + 1)
      BY <2>3, <3>2
    <3>6. Len(pack) <= Len(pack') /\ \A p \in 1 .. Len(pack) : pack'[p] = pack[p]
      BY <2>3, <3>3, <1>3
    <3>7. pack'[idx'[g]] = files[g][token]
      BY <2>3, <3>3, <3>4, <1>2
    <3>8. QED BY <2>3, <3>5, <3>6, <3>7
  <2>4. QED BY <2>1, <2>2, <2>3, ConsumeTyped
<1>6. Sound(files, idx', pack', tokens')
  <2>1. PICK cells \in [Groups -> Nat], more \in Seq(Contents) :
            cells = idx' /\ more = pack'
    BY <1>3
  <2>2. \A h \in 1 .. Len(tokens) : cells[h] = idx[h]
    <3>1. \A h \in 1 .. Done : h \in Groups /\ h # g
      BY <1>1 DEF Groups
    <3>2. QED BY <3>1, <1>3, <1>5, <2>1 DEF Done
  <2>3. /\ Canonical(cells, more, Len(tokens) + 1)
        /\ Len(pack) <= Len(more) /\ \A p \in 1 .. Len(pack) : more[p] = pack[p]
        /\ cells[Len(tokens) + 1] # 0 =>
              more[cells[Len(tokens) + 1]] = files[Len(tokens) + 1][token]
    BY <1>5, <2>1 DEF Done
  <2>4. token \in 1 .. Len(files[Len(tokens) + 1]) /\ Len(tokens) < N
    BY <1>1, <1>2 DEF Done
  <2>5. Sound(files, cells, more, Append(tokens, token))
    BY <1>1, <1>3, <1>4, <2>2, <2>3, <2>4, SoundNext
  <2>6. QED BY <1>1, <2>1, <2>5
<1>7. Sound(files', idx', pack', tokens')
  BY <1>6 DEF Consume, worldVars
<1>8. Extended(ckpt.tokens)'
  <2>1. ckpt' = ckpt /\ Extended(ckpt.tokens) /\ ckpt # None
    BY DEF Consume, Staged, StageTyped, LocalTyped
  <2>2. Len(ckpt.tokens) \in Nat /\ Len(ckpt.tokens) <= Done
    BY <2>1, CheckpointTyped DEF Extended
  <2>3. \A h \in 1 .. Done : tokens'[h] = tokens[h]
    <3>1. token \in Nat
      BY <1>1, ConsumeTyped
    <3>2. QED BY <3>1, <1>1, AppendProperties DEF Done
  <2>4. /\ Len(ckpt'.tokens) <= Len(tokens')
        /\ \A h \in 1 .. Len(ckpt'.tokens) : ckpt'.tokens[h] = tokens'[h]
    BY <1>1, <2>1, <2>2, <2>3 DEF Extended
  <2>5. QED BY <2>4 DEF Extended, Done
<1>9. QED BY <1>7, <1>8 DEF Consume, Staged

\* Every step keeps what the build has done by each of its stages.
LEMMA StagedStep ==
    ASSUME WorldTyped, StageTyped, LocalTyped, Kept, ReadSound, Staged, [Next]_vars,
           \A v \in versions : v \in Versions
    PROVE  Staged'
<1>1. WorldTyped' /\ StageTyped' /\ Grows(files, files')
  BY WorldStep, StageStep
<1>2. ASSUME Stop
      PROVE  Staged'
  BY <1>2 DEF Stop, Staged
<1>3. ASSUME UNCHANGED <<stageVars, pc, localVars>>
      PROVE  Staged'
  BY <1>1, <1>3, StagedFrame DEF localVars
<1>4. ASSUME Check \/ Start
      PROVE  Staged'
  <2>1. CASE Check
    BY <2>1 DEF Check, Staged, localVars
  <2>2. CASE Start /\ Stop
    BY <2>2, <1>2
  <2>3. CASE Start /\ ~Stop
    BY <2>3 DEF Start, Staged
  <2>4. QED BY <1>4, <2>1, <2>2, <2>3
<1>5. ASSUME Prepare
      PROVE  Staged'
  <2>1. CASE stage # stat
    BY <1>5, <2>1, StagedNew, OwnResumable DEF Prepare, Staged
  <2>2. CASE stage = stat
    <3>1. stage # None /\ ckpt.length \in ckpt.length .. Len(pack)
      BY <2>2, CheckpointTyped DEF LocalTyped, StageTyped, Kept
    <3>2. Len(pack') = ckpt.length /\ ckpt' = ckpt /\ pc' = "restore"
      BY <1>5, <2>2, <3>1, CutTyped, OwnResumable DEF Prepare
    <3>3. QED BY <1>5, <2>2, <3>2, OwnResumable DEF Prepare, Staged
  <2>3. QED BY <2>1, <2>2
<1>6. ASSUME RestoreGroup
      PROVE  Staged'
  <2>1. CASE scanned' = 0 /\ NewStage
    BY <1>6, <2>1, StagedNew DEF RestoreGroup
  <2>2. CASE UNCHANGED <<stageVars, tokens, final, pc>>
    BY <1>6, <2>2 DEF RestoreGroup, stageVars, Staged
  <2>3. QED BY <1>6, <2>1, <2>2 DEF RestoreGroup
<1>7. ASSUME Restored
      PROVE  Staged'
  <2>1. ckpt # None /\ ckpt.length = Len(pack)
    BY <1>7 DEF Restored, Staged, StageTyped, LocalTyped
  <2>2. SubSeq(pack, 1, Len(pack)) = pack
    BY SubSeqFull DEF StageTyped
  <2>3. Sound(files, idx, pack, ckpt.tokens)
    BY <2>1, <2>2 DEF Kept
  <2>4. /\ UNCHANGED <<files, idx, pack, ckpt, stage, stat>>
        /\ tokens' = ckpt.tokens /\ scanned' = 0 /\ pc' = "pack" /\ stage = stat
    BY <1>7 DEF Restored, worldVars, stageVars, Staged
  <2>5. Sound(files', idx', pack', tokens')
    BY <2>3, <2>4
  <2>6. Len(ckpt.tokens) \in Nat
    BY <2>1, CheckpointTyped
  <2>7. Extended(ckpt.tokens)'
    BY <2>4, <2>6 DEF Extended, Done
  <2>8. QED BY <2>4, <2>5, <2>7 DEF Staged
<1>8. ASSUME NEW g \in Groups, BeginRead(g) \/ FinishRead(g)
      PROVE  Staged'
  <2>1. UNCHANGED stageVars /\ UNCHANGED <<stat, tokens, final, pc, scanned>>
    BY <1>8 DEF BeginRead, FinishRead
  <2>2. QED BY <1>1, <2>1, StagedFrame
<1>9. ASSUME Consume
      PROVE  Staged'
  BY <1>1, <1>9, StagedConsume
<1>10. ASSUME pc = "pack", NEW v \in Names \cup {None}, WriteCheckpoint(v),
              UNCHANGED <<stage, idx, pack, files, tokens, stat>>
       PROVE  /\ Sound(files', idx', pack', tokens') /\ Extended(ckpt.tokens)'
              /\ stage' = stat'
  <2>1. stage # None /\ stage = stat
    BY <1>10 DEF Staged, LocalTyped
  <2>2. ckpt'.tokens = tokens
    BY <1>10, <2>1, SaveTyped
  <2>3. Sound(files, idx, pack, tokens)
    BY <1>10 DEF Staged
  <2>4. Len(tokens) \in Nat
    BY DEF LocalTyped
  <2>5. Extended(ckpt.tokens)'
    BY <1>10, <2>2, <2>4 DEF Extended, Done
  <2>6. QED BY <1>10, <2>1, <2>3, <2>5
<1>11. ASSUME Checkpoint
       PROVE  Staged'
  <2>1. /\ pc = "pack" /\ pc' = "pack" /\ scanned' = scanned /\ scanned = 0
        /\ UNCHANGED <<stage, idx, pack, files, tokens, stat>>
    BY <1>11 DEF Checkpoint, localVars, worldVars, Staged
  <2>2. WriteCheckpoint(None)
    BY <1>11 DEF Checkpoint
  <2>3. QED BY <2>1, <2>2, <1>10 DEF Staged
<1>12. ASSUME FinishPacking
       PROVE  Staged'
  <2>1. CASE Stop
    BY <2>1, <1>2
  <2>2. CASE /\ final' = Name /\ WriteCheckpoint(Name) /\ pc' = "scan"
             /\ UNCHANGED <<stat, rows, tokens, reads, scanned>>
    <3>1. Canonical(idx, pack, N) /\ pc = "pack" /\ Done = N
      BY <1>12 DEF FinishPacking, Staged, Sound, Done
    <3>2. Name \in Names
      BY <3>1, NameTyped
    <3>3. UNCHANGED <<stage, idx, pack, files, tokens, stat>>
      BY <1>12, <2>2 DEF FinishPacking, worldVars
    <3>4. Name' = Name /\ Done' = Done
      BY <3>3 DEF Name, Packed, Done
    <3>5. /\ Sound(files', idx', pack', tokens') /\ Extended(ckpt.tokens)'
          /\ stage' = stat'
      BY <2>2, <3>1, <3>2, <3>3, <1>10
    <3>6. QED BY <2>2, <3>1, <3>4, <3>5 DEF Staged
  <2>3. QED BY <1>12, <2>1, <2>2 DEF FinishPacking
<1>13. ASSUME ScanGroup
       PROVE  Staged'
  <2>1. CASE Stop
    BY <2>1, <1>2
  <2>2. CASE UNCHANGED <<pc, stat, rows, tokens, final, reads, settled>>
    <3>1. pc = "scan" /\ UNCHANGED stageVars
      BY <1>13 DEF ScanGroup
    <3>2. QED BY <1>1, <2>2, <3>1, StagedFrame
  <2>3. QED BY <1>13, <2>1, <2>2 DEF ScanGroup
<1>14. ASSUME ScanDone
       PROVE  Staged'
  <2>1. CASE Stop
    BY <2>1, <1>2
  <2>2. CASE pc' = "publish" /\ UNCHANGED localVars
    <3>1. /\ pc = "scan" /\ UNCHANGED <<stage, idx, pack, ckpt, files>>
          /\ UNCHANGED <<tokens, stat, final>>
      BY <1>14, <2>2 DEF ScanDone, stageVars, worldVars, localVars
    <3>2. Name' = Name /\ Done' = Done
      BY <3>1 DEF Name, Packed, Done
    <3>3. Sound(files', idx', pack', tokens') /\ Extended(ckpt.tokens)'
      BY <3>1 DEF Staged, Extended, Done
    <3>4. QED BY <2>2, <3>1, <3>2, <3>3 DEF Staged
  <2>3. QED BY <1>14, <2>1, <2>2 DEF ScanDone
<1>15. ASSUME PublishVersion
       PROVE  Staged'
  BY <1>15 DEF PublishVersion, Staged
<1>16. ASSUME CancelRestore \/ CancelPacking \/ CancelVerification \/ Activate
              \/ Crash
       PROVE  Staged'
  BY <1>2, <1>16 DEF CancelRestore, CancelPacking, CancelVerification, Activate,
     Crash
<1>17. ASSUME ChangeDatabase \/ Cleanup \/ Damage \/ UNCHANGED vars
              \/ \E g \in Groups : ChangeFile(g)
       PROVE  UNCHANGED <<stageVars, pc, localVars>>
  BY <1>17 DEF ChangeDatabase, Cleanup, Damage, vars, ChangeFile
<1>18. QED
  BY <1>3, <1>4, <1>5, <1>6, <1>7, <1>8, <1>9, <1>11, <1>12, <1>13, <1>14,
     <1>15, <1>16, <1>17 DEF Next, Builder

---------------------------------------------------------------------------
(* What is compared, and what is delivered *)

\* What a file held in a state stays known when it gets new ones.
LEMMA TokensGrow ==
    ASSUME WorldTyped, [Next]_vars, NEW g \in Groups
    PROVE  /\ Token(g) \in Nat /\ Token(g)' \in Nat /\ Token(g) <= Token(g)'
           /\ \A t \in 1 .. Token(g) : files'[g][t] = files[g][t]
  BY WorldStep, LenProperties DEF WorldTyped, Token, Grows

\* A step that changes neither the builder nor the versions keeps what was
\* compared and what is delivered, although files may change.
LEMMA SettledFrame ==
    ASSUME WorldTyped, StageTyped, LocalTyped, Staged, Settled, [Next]_vars,
           \A v \in versions : v \in Versions,
           UNCHANGED <<pc, settled, tokens, final>>,
           pc = "scan" => UNCHANGED scanned, ~PublishVersion, ~Damage
    PROVE  Settled'
<1>1. UNCHANGED versions
  BY VersionsStep
<1>2. CASE pc = "scan"
  <2>1. ASSUME NEW g \in Groups
        PROVE  settled[g] <= Token(g)'
    BY <1>2, TokensGrow DEF Settled, LocalTyped
  <2>2. QED BY <1>2, <2>1 DEF Settled
<1>3. CASE pc = "activate"
  <2>1. final # None /\ \E v \in versions : v.name = final /\ v.intact
    BY <1>3 DEF Settled
  <2>2. ASSUME NEW g \in Groups, final.contents[g] # None
        PROVE  \E t \in 1 .. Token(g)' :
                   settled[g] <= t /\ final.contents[g] = files'[g][t]
    <3>1. PICK t \in 1 .. Token(g) :
              settled[g] <= t /\ final.contents[g] = files[g][t]
      BY <1>3, <2>2 DEF Settled
    <3>2. t \in 1 .. Token(g)' /\ files'[g][t] = files[g][t]
      BY TokensGrow
    <3>3. QED BY <3>1, <3>2
  <2>3. QED BY <1>1, <1>3, <2>1, <2>2 DEF Settled
<1>4. CASE pc = "publish"
  BY <1>4 DEF Settled
<1>5. CASE pc \notin {"scan", "publish", "activate"}
  BY <1>5 DEF Settled
<1>6. QED BY <1>2, <1>3, <1>4, <1>5

\* A version is delivered with clips in states no older than those packing ended
\* with: every file was compared since.
LEMMA SettledPublish ==
    ASSUME WorldTyped, StageTyped, LocalTyped, Staged, Settled, PublishVersion,
           [Next]_vars, \A v \in versions : v \in Versions
    PROVE  Settled'
<1>1. /\ final' \in Names /\ final'.contents = Packed(idx, pack)
      /\ \E v \in versions' : v.name = final' /\ v.intact
  BY PublishEffect
<1>2. /\ pc = "publish" /\ pc' = "activate" /\ Done = N
      /\ UNCHANGED <<files, settled>> /\ Sound(files, idx, pack, tokens)
  BY DEF PublishVersion, worldVars, Staged
<1>3. ASSUME NEW g \in Groups, final'.contents[g] # None
      PROVE  \E t \in 1 .. Token(g)' :
                 settled'[g] <= t /\ final'.contents[g] = files'[g][t]
  <2>1. idx[g] # 0 /\ final'.contents[g] = pack[idx[g]]
    BY <1>1, <1>3 DEF Packed
  <2>2. g \in 1 .. Len(tokens)
    BY <1>2 DEF Done, Groups
  <2>3. tokens[g] \in 1 .. Len(files[g]) /\ pack[idx[g]] = files[g][tokens[g]]
    BY <1>2, <2>1, <2>2 DEF Sound
  <2>4. settled[g] <= tokens[g]
    BY <1>2 DEF Settled
  <2>5. QED BY <1>2, <2>1, <2>3, <2>4 DEF Token
<1>4. final' # None
  BY <1>1
<1>5. QED BY <1>1, <1>2, <1>3, <1>4 DEF Settled

\* Every step keeps what was compared and what is delivered.
LEMMA SettledStep ==
    ASSUME WorldTyped, StageTyped, LocalTyped, Staged, Settled, [Next]_vars,
           \A v \in versions : v \in Versions
    PROVE  Settled'
<1>1. CASE pc' \notin {"scan", "publish", "activate"}
  BY <1>1 DEF Settled
<1>2. ASSUME UNCHANGED <<pc, settled, tokens, final>>,
             pc = "scan" => UNCHANGED scanned, ~PublishVersion, ~Damage
      PROVE  Settled'
  BY <1>2, SettledFrame
<1>3. ASSUME FinishPacking
      PROVE  Settled'
  <2>1. CASE Stop
    BY <1>1, <2>1 DEF Stop
  <2>2. CASE /\ settled' = [g \in Groups |-> Token(g)]
             /\ pc' = "scan" /\ UNCHANGED scanned
    <3>1. scanned' = 0 /\ UNCHANGED files
      BY <1>3, <2>2 DEF FinishPacking, Staged, worldVars
    <3>2. \A g \in Groups : settled'[g] <= Token(g)'
      BY <2>2, <3>1, TokensGrow
    <3>3. QED BY <2>2, <3>1, <3>2 DEF Settled
  <2>3. QED BY <1>3, <2>1, <2>2 DEF FinishPacking
<1>4. ASSUME ScanGroup
      PROVE  Settled'
  <2>1. CASE Stop
    BY <1>1, <2>1 DEF Stop
  <2>2. CASE /\ Token(scanned + 1) = tokens[scanned + 1]
             /\ scanned' = scanned + 1
             /\ UNCHANGED <<pc, stat, rows, tokens, final, reads, settled>>
    <3>1. pc = "scan" /\ UNCHANGED files /\ scanned + 1 \in Groups
      BY <1>4 DEF ScanGroup, worldVars, LocalTyped, Groups
    <3>2. settled[scanned + 1] <= tokens[scanned + 1]
      BY <2>2, <3>1 DEF Settled
    <3>3. \A g \in 1 .. scanned + 1 : g = scanned + 1 \/ g \in 1 .. scanned
      BY DEF LocalTyped
    <3>4. \A g \in 1 .. scanned' : settled'[g] <= tokens'[g]
      BY <2>2, <3>1, <3>2, <3>3 DEF Settled
    <3>5. \A g \in Groups : settled'[g] <= Token(g)'
      BY <2>2, <3>1 DEF Settled, Token
    <3>6. QED BY <2>2, <3>1, <3>4, <3>5 DEF Settled
  <2>3. QED BY <1>4, <2>1, <2>2 DEF ScanGroup
<1>5. ASSUME ScanDone
      PROVE  Settled'
  <2>1. CASE Stop
    BY <1>1, <2>1 DEF Stop
  <2>2. CASE pc' = "publish" /\ UNCHANGED localVars
    <3>1. /\ pc = "scan" /\ 1 .. scanned = Groups /\ settled' = settled
          /\ tokens' = tokens
      BY <1>5, <2>2 DEF ScanDone, Groups, localVars
    <3>2. QED BY <2>2, <3>1 DEF Settled
  <2>3. QED BY <1>5, <2>1, <2>2 DEF ScanDone
<1>6. ASSUME PublishVersion
      PROVE  Settled'
  BY <1>6, SettledPublish
<1>7. ASSUME \/ Check \/ Start \/ Prepare \/ RestoreGroup \/ Restored \/ Consume
             \/ Checkpoint \/ CancelRestore \/ CancelPacking
             \/ CancelVerification \/ Activate \/ Crash \/ Damage \/ Cleanup
             \/ \E g \in Groups : BeginRead(g) \/ FinishRead(g)
      PROVE  pc' \notin {"scan", "publish", "activate"}
  BY <1>7 DEF Check, Start, Prepare, NewStage, RestoreGroup, Restored, Consume,
     Checkpoint, CancelRestore, CancelPacking, CancelVerification, Activate,
     Crash, Stop, Damage, Cleanup, BeginRead, FinishRead
<1>8. ASSUME ChangeDatabase \/ UNCHANGED vars \/ \E g \in Groups : ChangeFile(g)
      PROVE  Settled'
  <2>1. UNCHANGED <<versions, pc, localVars>>
    BY <1>8 DEF ChangeDatabase, vars, ChangeFile, diskVars
  <2>2. CASE PublishVersion \/ Damage
    BY <2>2, <1>1, <1>6, <1>7
  <2>3. CASE ~PublishVersion /\ ~Damage
    BY <1>2, <2>1, <2>3 DEF localVars
  <2>4. QED BY <2>2, <2>3
<1>9. QED
  BY <1>1, <1>3, <1>4, <1>5, <1>6, <1>7, <1>8 DEF Next, Builder

\* A build that finds its database replaced ends before it names a version.
LEMMA OneDatabaseStep ==
    ASSUME WorldTyped, LocalTyped, OneDatabase, [Next]_vars
    PROVE  OneDatabase'
<1>1. db \in Nat /\ db' \in Nat /\ db <= db' /\ stat \in Nat /\ rows \in Nat
  BY WorldStep DEF WorldTyped, LocalTyped
<1>2. ASSUME pc' = "idle"
      PROVE  OneDatabase'
  BY <1>2 DEF OneDatabase
<1>3. ASSUME UNCHANGED <<stat, rows, pc>>
      PROVE  OneDatabase'
  BY <1>1, <1>3 DEF OneDatabase
<1>4. ASSUME Check \/ Start
      PROVE  OneDatabase'
  <2>1. CASE pc' \in {"idle", "lock"}
    BY <2>1 DEF OneDatabase
  <2>2. CASE pc' = "open" /\ stat' = db /\ db' = db
    BY <1>1, <2>2 DEF OneDatabase
  <2>3. QED BY <1>4, <2>1, <2>2 DEF Check, Start, Stop, worldVars
<1>5. ASSUME Prepare
      PROVE  OneDatabase'
  <2>1. pc = "open" /\ rows' = db /\ UNCHANGED <<stat, db>>
    BY <1>5 DEF Prepare, worldVars
  <2>2. pc' \in {"restore", "pack"}
    BY <1>5 DEF Prepare, NewStage
  <2>3. QED BY <1>1, <2>1, <2>2 DEF OneDatabase
<1>6. ASSUME FinishPacking \/ ScanDone
      PROVE  OneDatabase'
  <2>1. CASE Stop
    BY <1>2, <2>1 DEF Stop
  <2>2. CASE /\ db = stat /\ UNCHANGED <<db, stat, rows>>
             /\ pc \in {"pack", "scan"} /\ pc' \in {"scan", "publish"}
    BY <2>2, <1>1 DEF OneDatabase
  <2>3. QED
    BY <1>6, <2>1, <2>2 DEF FinishPacking, ScanDone, worldVars, localVars
<1>7. ASSUME RestoreGroup \/ Restored \/ PublishVersion
      PROVE  OneDatabase'
  <2>1. UNCHANGED <<stat, rows>> /\ UNCHANGED db
    BY <1>7 DEF RestoreGroup, Restored, PublishVersion, worldVars
  <2>2. \/ pc = "restore" /\ pc' \in {"restore", "pack"}
        \/ pc = "publish" /\ pc' = "activate"
    BY <1>7 DEF RestoreGroup, NewStage, Restored, PublishVersion
  <2>3. QED BY <2>1, <2>2 DEF OneDatabase
<1>8. ASSUME \/ ScanGroup \/ CancelRestore \/ CancelPacking
             \/ CancelVerification \/ Activate \/ Crash \/ Consume \/ Checkpoint
             \/ \E g \in Groups : BeginRead(g) \/ FinishRead(g) \/ ChangeFile(g)
             \/ ChangeDatabase \/ Cleanup \/ Damage \/ UNCHANGED vars
      PROVE  pc' = "idle" \/ UNCHANGED <<stat, rows, pc>>
  BY <1>8 DEF ScanGroup, CancelRestore, CancelPacking, CancelVerification,
     Activate, Crash, Consume, Checkpoint, BeginRead, FinishRead, ChangeFile,
     ChangeDatabase, Cleanup, Damage, vars, localVars, Stop
<1>9. QED
  BY <1>2, <1>3, <1>4, <1>5, <1>6, <1>7, <1>8 DEF Next, Builder

\* Cleanup has the build lock to itself, and a build that has it looks again.
LEMMA UnprotectedStep ==
    ASSUME Unprotected, [Next]_vars
    PROVE  Unprotected'
<1>1. ASSUME Start
      PROVE  Unprotected'
  BY <1>1 DEF Start, Stop, Unprotected, worldVars
<1>2. ASSUME Cleanup
      PROVE  Unprotected'
  BY <1>2 DEF Cleanup, Unprotected
<1>3. ASSUME ~Start, ~Cleanup
      PROVE  /\ protected' = protected
             /\ pc' \notin {"idle", "lock"} => pc \notin {"idle", "lock"}
  BY <1>3 DEF Next, Builder, Check, Checkpoint, CancelRestore, CancelPacking,
     CancelVerification, ChangeFile, ChangeDatabase, Damage, Crash, vars,
     worldVars, Prepare, RestoreGroup, Restored, BeginRead, FinishRead, Consume,
     FinishPacking, ScanGroup, ScanDone, PublishVersion, Activate, Stop
<1>4. QED BY <1>1, <1>2, <1>3 DEF Unprotected

---------------------------------------------------------------------------
(* The invariant, and what follows from it *)

BuildInv ==
    /\ WorldTyped /\ StageTyped /\ LocalTyped
    /\ \A v \in versions : v \in Versions
    /\ Kept /\ ReadSound /\ Staged /\ Settled /\ OneDatabase /\ Unprotected
    /\ PublishedCanonical /\ ActivePublished

\* The invariant holds before the first build.
LEMMA BuildInit == Init => BuildInv
<1> SUFFICES ASSUME Init PROVE BuildInv
  OBVIOUS
<1>1. PICK f \in InitFiles : files = [g \in Groups |-> <<f[g]>>]
  BY DEF Init
<1>2. \A g \in Groups : f[g] \in Content
  OBVIOUS
<1>3. \A g \in Groups : <<f[g]>> \in Seq(Content) /\ Len(<<f[g]>>) = 1
  BY <1>2
<1>4. WorldTyped
  <2>1. \A g \in Groups : files[g] = <<f[g]>>
    BY <1>1
  <2>2. files \in [Groups -> Seq(Content)]
    BY <1>1, <1>3
  <2>3. \A g \in Groups : Token(g) = 1
    BY <2>1, <1>3 DEF Token
  <2>4. \A g \in Groups : Token(g) >= 1
    BY <2>3
  <2>5. db \in Nat /\ protected \in BOOLEAN
    BY DEF Init
  <2>6. QED BY <2>2, <2>4, <2>5 DEF WorldTyped
<1>5. StageTyped
  BY DEF Init, StageTyped, Empty
<1>6. LocalTyped
  BY EmptySeq DEF Init, LocalTyped, Done, Unread
<1>7. Kept /\ ReadSound /\ Staged /\ Settled /\ OneDatabase /\ Unprotected
  BY DEF Init, Kept, ReadSound, Unread, Staged, Settled, OneDatabase, Unprotected
<1>8. PublishedCanonical /\ ActivePublished /\ \A v \in versions : v \in Versions
  BY DEF Init, PublishedCanonical, ActivePublished
<1>9. QED BY <1>4, <1>5, <1>6, <1>7, <1>8 DEF BuildInv

\* Publication adds a canonical version of one database; damage changes no bytes
\* that are recorded.
LEMMA PublishedStep ==
    ASSUME BuildInv, [Next]_vars
    PROVE  PublishedCanonical'
<1> USE DEF BuildInv
<1>1. CASE PublishVersion
  <2>1. /\ Canonical(idx, pack, N) /\ final'.db = stat
        /\ final'.contents = Packed(idx, pack)
        /\ \A v \in versions' :
             \/ v \in versions
             \/ v.name = final' /\ v.rows = rows /\ v.idx = idx /\ v.pack = pack
    BY <1>1, PublishEffect
  <2>2. rows = stat
    BY <1>1 DEF PublishVersion, OneDatabase
  <2>3. ASSUME NEW v \in versions'
        PROVE  /\ Canonical(v.idx, v.pack, N)
               /\ v.name.contents = Packed(v.idx, v.pack)
               /\ v.rows = v.name.db
    <3>1. CASE v \in versions
      BY <3>1 DEF PublishedCanonical
    <3>2. CASE v.name = final' /\ v.rows = rows /\ v.idx = idx /\ v.pack = pack
      BY <3>2, <2>1, <2>2
    <3>3. QED BY <2>1, <2>3, <3>1, <3>2
  <2>4. QED BY <2>3 DEF PublishedCanonical
<1>2. CASE UNCHANGED versions
  BY <1>2 DEF PublishedCanonical
<1>3. CASE \A v \in versions' : \E w \in versions :
              /\ v.name = w.name /\ v.idx = w.idx
              /\ v.pack = w.pack /\ v.rows = w.rows
  <2>1. ASSUME NEW v \in versions'
        PROVE  /\ Canonical(v.idx, v.pack, N)
               /\ v.name.contents = Packed(v.idx, v.pack)
               /\ v.rows = v.name.db
    BY <1>3 DEF PublishedCanonical
  <2>2. QED BY <2>1 DEF PublishedCanonical
<1>4. QED BY <1>1, <1>2, <1>3, VersionsStep

\* active.json keeps naming a version: none is removed without one of its name.
LEMMA ActiveStep ==
    ASSUME BuildInv, [Next]_vars
    PROVE  ActivePublished'
<1> USE DEF BuildInv
<1>1. CASE Activate
  <2>1. /\ active' = final /\ UNCHANGED versions
        /\ \E v \in versions : v.name = final
    BY <1>1 DEF Activate, Settled
  <2>2. QED BY <2>1 DEF ActivePublished
<1>2. CASE ~Activate
  <2>1. UNCHANGED active
    BY <1>2 DEF Next, Builder, Check, Start, Checkpoint, CancelRestore, CancelPacking,
       CancelVerification, ChangeFile, ChangeDatabase, Cleanup, Crash, Damage,
       vars, diskVars, Prepare, RestoreGroup, Restored, BeginRead, FinishRead,
       Consume, FinishPacking, ScanGroup, ScanDone, PublishVersion
  <2>2. \A v \in versions : \E w \in versions' : w.name = v.name
    BY PublishEffect, VersionsStep
  <2>3. QED BY <2>1, <2>2 DEF ActivePublished
<1>3. QED BY <1>1, <1>2

\* Every step keeps the invariant.
LEMMA BuildStep == BuildInv /\ [Next]_vars => BuildInv'
<1> SUFFICES ASSUME BuildInv, [Next]_vars PROVE BuildInv'
  OBVIOUS
<1>1. WorldTyped' /\ StageTyped' /\ LocalTyped'
  BY WorldStep, StageStep, LocalStep DEF BuildInv
<1>2. \A v \in versions' : v \in Versions
  BY VersionsTypedStep DEF BuildInv
<1>3. Kept' /\ ReadSound' /\ Staged' /\ Settled'
  BY KeptStep, ReadStep, StagedStep, SettledStep DEF BuildInv
<1>4. OneDatabase' /\ Unprotected'
  BY OneDatabaseStep, UnprotectedStep DEF BuildInv
<1>5. PublishedCanonical' /\ ActivePublished'
  BY PublishedStep, ActiveStep
<1>6. QED BY <1>1, <1>2, <1>3, <1>4, <1>5 DEF BuildInv

\* The invariant of the pack build: types, a sound checkpoint, sound reads, what
\* each stage has done, one database, no build under cleanup, and what is published.
THEOREM AlwaysBuildInv == Spec => []BuildInv
  BY BuildInit, BuildStep, PTL DEF Spec

\* The invariant implies the types and that active.json names a version.
LEMMA InvConsistent == BuildInv => Consistent
<1> SUFFICES ASSUME BuildInv PROVE Consistent
  OBVIOUS
<1>1. ckpt # None => ckpt.tokens \in Seq(Nat) /\ ckpt.length \in Nat
  BY CheckpointTyped DEF BuildInv
<1>2. TypeOK
  BY <1>1 DEF BuildInv, WorldTyped, StageTyped, LocalTyped, TypeOK
<1>3. QED BY <1>2 DEF BuildInv, Consistent

\* Consistent: the state is well formed and active.json names a version that is
\* there, at every step of builds, crashes, cancellations and resumptions.
THEOREM BuildConsistent == Spec => []Consistent
  BY AlwaysBuildInv, InvConsistent, PTL

\* CheckpointSound: whatever a crash at that moment would leave, the files hold the
\* keys of the checkpoint as an uninterrupted build would have packed them.
THEOREM CheckpointsAreSound == Spec => []CheckpointSound
<1>1. BuildInv => CheckpointSound
  BY DEF BuildInv, Kept, Sound, CheckpointSound
<1>2. QED BY <1>1, AlwaysBuildInv, PTL

\* PublishedCanonical: a published version is what one uninterrupted build of one
\* database makes, however often the build was interrupted and resumed.
THEOREM VersionsAreCanonical == Spec => []PublishedCanonical
<1>1. BuildInv => PublishedCanonical
  BY DEF BuildInv
<1>2. QED BY <1>1, AlwaysBuildInv, PTL

\* Only Activate changes what is served.
LEMMA OnlyActivate ==
    ASSUME [Next]_vars, active' # active
    PROVE  Activate
  BY DEF Next, Builder, Check, Start, Checkpoint, CancelRestore, CancelPacking,
     CancelVerification, ChangeFile, ChangeDatabase, Cleanup, Crash, Damage,
     vars, diskVars, Prepare, RestoreGroup, Restored, BeginRead, FinishRead,
     Consume, FinishPacking, ScanGroup, ScanDone, PublishVersion

\* ActivatesCurrent: what is activated is intact and misses no change that was made
\* to a file before packing ended.
THEOREM ActivationIsCurrent == Spec => ActivatesCurrent
<1>1. ASSUME BuildInv, [Next]_vars, active' # active
      PROVE  /\ \E v \in versions : v.name = active' /\ v.intact
             /\ \A g \in Groups : active'.contents[g] # None =>
                   \E t \in settled[g] .. Token(g) :
                       active'.contents[g] = files[g][t]
  <2>1. pc = "activate" /\ active' = final
    BY <1>1, OnlyActivate DEF Activate
  <2>2. ASSUME NEW g \in Groups, final.contents[g] # None
        PROVE  \E t \in settled[g] .. Token(g) : final.contents[g] = files[g][t]
    <3>1. PICK t \in 1 .. Token(g) :
              settled[g] <= t /\ final.contents[g] = files[g][t]
      BY <1>1, <2>1, <2>2 DEF BuildInv, Settled
    <3>2. settled[g] \in Nat /\ Token(g) \in Nat
      BY <1>1, TokensGrow DEF BuildInv, LocalTyped
    <3>3. QED BY <3>1, <3>2
  <2>3. QED BY <1>1, <2>1, <2>2 DEF BuildInv, Settled
<1>2. BuildInv /\ [Next]_vars =>
        [active' # active =>
            /\ \E v \in versions : v.name = active' /\ v.intact
            /\ \A g \in Groups :
                  active'.contents[g] # None =>
                    \E t \in settled[g] .. Token(g) :
                        active'.contents[g] = files[g][t]]_vars
  BY <1>1
<1>3. QED BY <1>2, AlwaysBuildInv, PTL DEF Spec, ActivatesCurrent

\* BuildRespectsCleanup: nothing is activated while loose files are in quarantine.
THEOREM CleanupIsRespected == Spec => BuildRespectsCleanup
<1>1. BuildInv /\ [Next]_vars => [active' # active => ~protected]_vars
  BY OnlyActivate DEF Activate, BuildInv, Unprotected
<1>2. QED BY <1>1, AlwaysBuildInv, PTL DEF Spec, BuildRespectsCleanup

\* What a step may do to a checkpoint.
LEMMA CheckpointStep ==
    ASSUME BuildInv, [Next]_vars, ckpt # None, ckpt' # ckpt
    PROVE  \/ versions' # versions \/ pc = "publish"
           \/ stage' # stage
           \/ \E g \in 1 .. Len(ckpt.tokens) : Token(g) # ckpt.tokens[g]
           \/ /\ ckpt' # None
              /\ Len(ckpt'.tokens) >= Len(ckpt.tokens)
              /\ \A g \in 1 .. Len(ckpt.tokens) :
                    ckpt'.tokens[g] = ckpt.tokens[g]
<1> DEFINE Goal ==
        \/ versions' # versions \/ pc = "publish"
        \/ stage' # stage
        \/ \E g \in 1 .. Len(ckpt.tokens) : Token(g) # ckpt.tokens[g]
        \/ /\ ckpt' # None
           /\ Len(ckpt'.tokens) >= Len(ckpt.tokens)
           /\ \A g \in 1 .. Len(ckpt.tokens) :
                 ckpt'.tokens[g] = ckpt.tokens[g]
<1>1. CASE Prepare
  <2>1. stage # stat
    BY <1>1, OwnResumable DEF Prepare, BuildInv
  <2>2. QED BY <1>1, <2>1 DEF Prepare, NewStage
<1>2. CASE RestoreGroup
  <2>1. /\ scanned < Len(ckpt.tokens) /\ Token(scanned + 1) # ckpt.tokens[scanned + 1]
    BY <1>2 DEF RestoreGroup, stageVars
  <2>2. scanned + 1 \in 1 .. Len(ckpt.tokens)
    <3>1. ckpt.tokens \in Seq(Nat)
      BY CheckpointTyped DEF BuildInv
    <3>2. QED BY <2>1, <3>1 DEF BuildInv, LocalTyped
  <2>3. QED BY <2>1, <2>2
<1>3. ASSUME pc = "pack", NEW v \in Names \cup {None}, WriteCheckpoint(v),
             UNCHANGED <<stage, idx, pack>>
      PROVE  Goal
  <2>1. stage # None /\ Extended(ckpt.tokens) /\ ckpt.tokens \in Seq(Nat)
    BY <1>3, CheckpointTyped DEF BuildInv, Staged, LocalTyped
  <2>2. ckpt' # None /\ ckpt'.tokens = tokens
    BY <1>3, <2>1, SaveTyped DEF BuildInv
  <2>3. QED BY <2>1, <2>2 DEF Extended, Done, BuildInv, LocalTyped
<1>4. CASE Checkpoint
  BY <1>3, <1>4 DEF Checkpoint
<1>5. CASE CancelPacking
  BY <1>3, <1>5 DEF CancelPacking, BuildInv, LocalTyped
<1>6. CASE FinishPacking
  <2>1. WriteCheckpoint(Name)
    BY <1>6 DEF FinishPacking
  <2>2. Canonical(idx, pack, N)
    BY <1>6 DEF FinishPacking, BuildInv, Staged, Sound, Done
  <2>3. Name \in Names
    BY <2>2, NameTyped DEF BuildInv
  <2>4. QED BY <1>3, <1>6, <2>1, <2>3 DEF FinishPacking
<1>7. CASE PublishVersion
  BY <1>7 DEF PublishVersion
<1>8. ASSUME \/ Check \/ Start \/ Restored \/ CancelRestore \/ CancelVerification
             \/ \E g \in Groups : BeginRead(g) \/ FinishRead(g) \/ ChangeFile(g)
             \/ ScanGroup \/ ScanDone \/ Activate \/ ChangeDatabase \/ Cleanup
             \/ Damage \/ Crash \/ Consume \/ UNCHANGED vars
      PROVE  UNCHANGED ckpt
  BY <1>8 DEF Check, Start, Restored, CancelRestore, CancelVerification, BeginRead,
     FinishRead, ChangeFile, ScanGroup, ScanDone, Activate, ChangeDatabase,
     Cleanup, Damage, Crash, Consume, vars, stageVars
<1>9. QED
  BY <1>1, <1>2, <1>4, <1>5, <1>6, <1>7, <1>8 DEF Next, Builder

\* WorkKept: a checkpoint is given up only for a publication, another database or a
\* changed file; otherwise it is only extended.
THEOREM SavedWorkIsKept == Spec => WorkKept
<1>1. BuildInv /\ [Next]_vars =>
        [ckpt # None /\ ckpt' # ckpt =>
            \/ versions' # versions \/ pc = "publish"
            \/ stage' # stage
            \/ \E g \in 1 .. Len(ckpt.tokens) : Token(g) # ckpt.tokens[g]
            \/ /\ ckpt' # None
               /\ Len(ckpt'.tokens) >= Len(ckpt.tokens)
               /\ \A g \in 1 .. Len(ckpt.tokens) :
                     ckpt'.tokens[g] = ckpt.tokens[g]]_vars
  BY CheckpointStep
<1>2. QED BY <1>1, AlwaysBuildInv, PTL DEF Spec, WorkKept
=============================================================================
