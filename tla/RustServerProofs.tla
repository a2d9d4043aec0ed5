-------------------------- MODULE RustServerProofs --------------------------
EXTENDS RustServer, Integers, Sequences, TLAPS, FiniteSetTheorems, FunctionTheorems,
        SequenceTheorems

(***************************************************************************)
(* The Rust server keeps its promises, for all values of the constants:    *)
(* each part has an inductive invariant, IInv for the publication of       *)
(* versions, IndexInv for the compiled index, ImportInv for the import of  *)
(* a bundle and ChoiceInv for the selection among the rows of a term, and  *)
(* PartsInv is that of the part that was chosen.                           *)
(***************************************************************************)

-----------------------------------------------------------------------------
(* The publication: compilers that race to name a version, and servers     *)
(* that map its files.                                                     *)

\* A compiler's build is whole until it is renamed, and the version it is
\* about to name, or has written in its draft, is published and whole.
CompilerInv ==
    \A p \in Compilers :
        /\ pc[p] # "idle" => built[p] \in Contents
        /\ pc[p] \in {"compiled", "rename"} => temp[p] = Whole(built[p])
        /\ pc[p] \in {"write", "replace", "remove", "place"} =>
            versions[built[p]] = Whole(built[p])
        /\ pc[p] \in {"replace", "remove", "place"} => draft[p] = built[p]

\* A server that read a manifest finds its version whole, and what it has
\* mapped is of that version.
ServerInv ==
    \A s \in Servers :
        /\ at[s] # "down" => named[s] \in Contents /\ versions[named[s]] = Whole(named[s])
        /\ at[s] \in {"pack", "up"} => maps[s].lookup = named[s]
        /\ at[s] = "up" => maps[s].pack = named[s]

\* The invariant of the publication.
IInv == TypeOK /\ CompilerInv /\ ManifestWhole /\ ServerInv

\* What is whole stays: a version directory is never changed once it exists.
Kept == \A c \in Contents : versions[c] # None => versions'[c] = versions[c]

\* A whole version is a published one.
LEMMA WholeExists ==
  \A c \in Contents : Whole(c) # None /\ Whole(c) \in [lookup : Parts, pack : Parts]
BY RustPublishAssumption DEF Whole, Parts, Torn

\* The initial states satisfy the invariant.
LEMMA InvInit == Init => IInv
<1> SUFFICES ASSUME Init PROVE IInv
  OBVIOUS
<1>1. TypeOK
  BY RustPublishAssumption DEF Init, TypeOK, Parts, Whole, Torn
<1>2. CompilerInv /\ ManifestWhole /\ ServerInv
  BY DEF Init, CompilerInv, ManifestWhole, ServerInv
<1> QED
  BY <1>1, <1>2 DEF IInv

\* Only Rename writes a version directory, and only one that does not exist.
LEMMA VersionsKept == TypeOK /\ [Next]_vars => Kept
<1> SUFFICES ASSUME TypeOK, [Next]_vars PROVE Kept
  OBVIOUS
<1>1. ASSUME NEW p \in Compilers, Rename(p) PROVE Kept
  <2>1. CASE Missing(p)
    BY <1>1, <2>1 DEF Rename, Missing, Kept, TypeOK
  <2>2. CASE ~Missing(p)
    BY <1>1, <2>2 DEF Rename, Missing, Kept
  <2> QED
    BY <2>1, <2>2
<1>2. CASE UNCHANGED versions
  BY <1>2 DEF Kept
<1> QED
  BY <1>1, <1>2 DEF Next, CompileSteps, Compile, Reuse, SeeFree, WriteDraft, SeeManifest,
    RemoveManifest, PlaceManifest, Crash, ReadManifest, MapLookup, MapPack, StopServer,
    ChangeCollection, vars, diskVars

\* What is whole stays whole.
LEMMA WholeKept ==
    ASSUME TypeOK, [Next]_vars, NEW c \in Contents, versions[c] = Whole(c)
    PROVE  versions'[c] = Whole(c)
  BY VersionsKept, WholeExists DEF Kept

\* Every step keeps the types.
LEMMA TypeStep == TypeOK /\ CompilerInv /\ ServerInv /\ [Next]_vars => TypeOK'
<1> SUFFICES ASSUME TypeOK, CompilerInv, ServerInv, [Next]_vars PROVE TypeOK'
  OBVIOUS
<1>1. ASSUME NEW p \in Compilers, CompileSteps(p) PROVE TypeOK'
  <2>1. CASE Compile(p)
    BY <2>1 DEF Compile, Goto, TypeOK, diskVars, serverVars
  <2>2. CASE Reuse(p)
    BY <2>2 DEF Reuse, TypeOK, diskVars, serverVars
  <2>3. CASE SeeFree(p)
    BY <2>3 DEF SeeFree, Goto, TypeOK, diskVars, serverVars
  <2>4. CASE Rename(p)
    <3>1. pc[p] = "rename" /\ built[p] \in Contents /\ temp[p] = Whole(built[p])
      BY <2>4 DEF Rename, CompilerInv
    <3>2. temp[p] \in [lookup : Parts, pack : Parts]
      BY <3>1, WholeExists
    <3>3. versions' \in [Contents -> {None} \cup [lookup : Parts, pack : Parts]]
      BY <2>4, <3>1, <3>2 DEF Rename, TypeOK
    <3> QED
      BY <2>4, <3>3 DEF Rename, TypeOK, serverVars
  <2>5. CASE WriteDraft(p)
    <3>1. built[p] \in Contents
      BY <2>5 DEF WriteDraft, Goto, CompilerInv
    <3> QED
      BY <2>5, <3>1 DEF WriteDraft, Goto, TypeOK, diskVars, serverVars
  <2>6. CASE SeeManifest(p)
    BY <2>6 DEF SeeManifest, TypeOK, diskVars, serverVars
  <2>7. CASE RemoveManifest(p)
    BY <2>7 DEF RemoveManifest, TypeOK, serverVars
  <2>8. CASE PlaceManifest(p)
    BY <2>8 DEF PlaceManifest, Goto, TypeOK, serverVars
  <2> QED
    BY <1>1, <2>1, <2>2, <2>3, <2>4, <2>5, <2>6, <2>7, <2>8 DEF CompileSteps
<1>2. ASSUME NEW p \in Compilers, Crash(p) PROVE TypeOK'
  BY <1>2, RustPublishAssumption DEF Crash, TypeOK, diskVars, serverVars
<1>3. ASSUME NEW s \in Servers, ReadManifest(s) PROVE TypeOK'
  BY <1>3 DEF ReadManifest, TypeOK, diskVars, compilerVars
<1>4. ASSUME NEW s \in Servers, MapLookup(s) \/ MapPack(s) PROVE TypeOK'
  <2>1. versions[named[s]] \in [lookup : Parts, pack : Parts]
    BY <1>4, WholeExists DEF MapLookup, MapPack, ServerInv
  <2>2. maps[s] \in [lookup : Parts, pack : Parts] /\ None \in Parts
    BY DEF TypeOK, Parts
  <2>3. CASE MapLookup(s)
    <3>1. maps' \in [Servers -> [lookup : Parts, pack : Parts]]
      BY <2>1, <2>2, <2>3 DEF MapLookup, TypeOK
    <3> QED
      BY <2>3, <3>1 DEF MapLookup, TypeOK, diskVars, compilerVars
  <2>4. CASE MapPack(s)
    <3>1. maps' \in [Servers -> [lookup : Parts, pack : Parts]]
      BY <2>1, <2>2, <2>4 DEF MapPack, TypeOK
    <3> QED
      BY <2>4, <3>1 DEF MapPack, TypeOK, diskVars, compilerVars
  <2> QED
    BY <1>4, <2>3, <2>4
<1>5. ASSUME NEW s \in Servers, StopServer(s) PROVE TypeOK'
  BY <1>5 DEF StopServer, TypeOK, diskVars, compilerVars, Parts
<1>6. CASE ChangeCollection
  BY <1>6 DEF ChangeCollection, TypeOK, diskVars, compilerVars, serverVars
<1>7. CASE UNCHANGED vars
  BY <1>7 DEF TypeOK, vars, diskVars, compilerVars, serverVars
<1> QED
  BY <1>1, <1>2, <1>3, <1>4, <1>5, <1>6, <1>7 DEF Next

\* What a compiler is about to publish stays ready, whatever others do.
LEMMA CompilerStep == TypeOK /\ CompilerInv /\ [Next]_vars => CompilerInv'
<1> SUFFICES ASSUME TypeOK, CompilerInv, [Next]_vars PROVE CompilerInv'
  OBVIOUS
<1> DEFINE Ready(p) ==
        /\ pc[p] # "idle" => built[p] \in Contents
        /\ pc[p] \in {"compiled", "rename"} => temp[p] = Whole(built[p])
        /\ pc[p] \in {"write", "replace", "remove", "place"} =>
            versions[built[p]] = Whole(built[p])
        /\ pc[p] \in {"replace", "remove", "place"} => draft[p] = built[p]
<1>1. ASSUME NEW p \in Compilers PROVE Ready(p)
  BY DEF CompilerInv
\* A compiler that does not move keeps its own, and its version.
<1>2. ASSUME NEW p \in Compilers, pc'[p] = pc[p], built'[p] = built[p],
             temp'[p] = temp[p], draft'[p] = draft[p]
      PROVE  Ready(p)'
  <2>1. pc[p] \in {"write", "replace", "remove", "place"} =>
            versions'[built[p]] = Whole(built[p])
    BY <1>1, WholeKept
  <2> QED
    BY <1>1, <1>2, <2>1
<1>3. ASSUME NEW p \in Compilers, CompileSteps(p) PROVE Ready(p)'
  <2>0. p \in DOMAIN pc /\ p \in DOMAIN built /\ p \in DOMAIN temp /\ p \in DOMAIN draft
        /\ pc[p] \in {"idle", "compiled", "rename", "write", "replace", "remove", "place"}
    BY DEF TypeOK
  <2>1. CASE Compile(p)
    <3>1. pc'[p] = "compiled" /\ built'[p] = collection /\ temp'[p] = Whole(collection)
      BY <2>0, <2>1 DEF Compile, Goto
    <3> QED
      BY <3>1 DEF TypeOK, Whole
  <2>2. CASE Reuse(p)
    <3>1. built[p] \in Contents /\ built'[p] = built[p] /\ versions' = versions
      BY <1>1, <2>2 DEF Reuse, diskVars
    <3>2. CASE versions[built[p]] = Whole(built[p])
      <4>1. pc'[p] = "write"
        BY <2>2, <3>2 DEF Reuse, TypeOK
      <4> QED
        BY <3>1, <3>2, <4>1
    <3>3. CASE versions[built[p]] # Whole(built[p])
      <4>1. pc'[p] = "idle"
        BY <2>2, <3>3 DEF Reuse, TypeOK
      <4> QED
        BY <4>1
    <3> QED
      BY <3>2, <3>3
  <2>3. CASE SeeFree(p)
    <3>1. pc[p] = "compiled" /\ pc'[p] = "rename" /\ built' = built /\ temp' = temp
      BY <2>0, <2>3 DEF SeeFree, Goto
    <3> QED
      BY <1>1, <3>1
  <2>4. CASE Rename(p)
    <3>1. pc[p] = "rename" /\ built' = built
      BY <2>4 DEF Rename
    <3>2. CASE Missing(p)
      <4>1. built[p] \in Contents /\ temp[p] = Whole(built[p])
        BY <1>1, <3>1
      <4>2. pc'[p] = "write" /\ versions'[built[p]] = temp[p]
        BY <2>4, <3>2, <4>1 DEF Rename, TypeOK
      <4> QED
        BY <3>1, <4>1, <4>2
    <3>3. CASE ~Missing(p)
      <4>1. pc'[p] = "idle"
        BY <2>4, <3>3 DEF Rename, TypeOK
      <4> QED
        BY <4>1
    <3> QED
      BY <3>2, <3>3
  <2>5. CASE WriteDraft(p)
    <3>1. pc[p] = "write" /\ pc'[p] = "replace" /\ built' = built /\ versions' = versions
          /\ draft'[p] = built[p]
      BY <2>0, <2>5 DEF WriteDraft, Goto, diskVars
    <3> QED
      BY <1>1, <3>1
  <2>6. CASE SeeManifest(p) \/ RemoveManifest(p)
    <3>1. pc[p] \in {"replace", "remove"} /\ pc'[p] \in {"idle", "remove", "place"}
          /\ built' = built /\ versions' = versions /\ draft' = draft
      BY <2>0, <2>6 DEF SeeManifest, RemoveManifest, diskVars
    <3> QED
      BY <1>1, <3>1
  <2>7. CASE PlaceManifest(p)
    <3>1. pc'[p] = "idle"
      BY <2>0, <2>7 DEF PlaceManifest, Goto
    <3> QED
      BY <3>1
  <2> QED
    BY <1>3, <2>1, <2>2, <2>3, <2>4, <2>5, <2>6, <2>7 DEF CompileSteps
<1>4. ASSUME NEW p \in Compilers, Crash(p) PROVE Ready(p)'
  <2>1. pc'[p] = "idle"
    BY <1>4 DEF Crash, TypeOK
  <2> QED
    BY <2>1
\* A step of another compiler leaves a compiler's variables alone.
<1>5. ASSUME NEW p \in Compilers, NEW q \in Compilers, q # p, CompileSteps(q) \/ Crash(q)
      PROVE  Ready(p)'
  <2>1. pc'[p] = pc[p] /\ built'[p] = built[p] /\ temp'[p] = temp[p]
        /\ draft'[p] = draft[p]
    BY <1>5 DEF TypeOK, CompileSteps, Compile, Reuse, SeeFree, Rename, WriteDraft,
      SeeManifest, RemoveManifest, PlaceManifest, Crash, Goto
  <2> QED
    BY <1>2, <2>1
<1>6. ASSUME UNCHANGED compilerVars, NEW p \in Compilers PROVE Ready(p)'
  BY <1>2, <1>6 DEF compilerVars
<1>7. ASSUME NEW p \in Compilers PROVE Ready(p)'
  <2>1. ASSUME NEW q \in Compilers, CompileSteps(q) \/ Crash(q) PROVE Ready(p)'
    BY <1>3, <1>4, <1>5, <2>1
  <2>2. ASSUME NEW s \in Servers,
               ReadManifest(s) \/ MapLookup(s) \/ MapPack(s) \/ StopServer(s)
        PROVE  UNCHANGED compilerVars
    BY <2>2 DEF ReadManifest, MapLookup, MapPack, StopServer
  <2>3. CASE ChangeCollection
    BY <1>6, <2>3 DEF ChangeCollection
  <2>4. CASE UNCHANGED vars
    BY <1>6, <2>4 DEF vars
  <2> QED
    BY <1>6, <2>1, <2>2, <2>3, <2>4 DEF Next
<1> QED
  BY <1>7 DEF CompilerInv

\* Only a placed draft becomes the manifest.
LEMMA ManifestStep == IInv /\ [Next]_vars => ManifestWhole'
<1> SUFFICES ASSUME IInv, [Next]_vars, manifest' # None
             PROVE  versions'[manifest'] = Whole(manifest')
  BY DEF ManifestWhole
<1> USE DEF IInv
<1>1. CASE manifest' = manifest
  <2>1. manifest \in Contents /\ versions[manifest] = Whole(manifest)
    BY <1>1 DEF ManifestWhole, TypeOK
  <2> QED
    BY <1>1, <2>1, WholeKept
<1>2. ASSUME NEW p \in Compilers, PlaceManifest(p)
      PROVE versions'[manifest'] = Whole(manifest')
  <2>1. pc[p] = "place" /\ manifest' = draft[p] /\ versions' = versions
    BY <1>2 DEF PlaceManifest, Goto
  <2> QED
    BY <2>1 DEF CompilerInv
<1>3. manifest' = manifest \/ \E p \in Compilers : PlaceManifest(p)
  BY DEF Next, CompileSteps, Compile, Reuse, SeeFree, Rename, WriteDraft, SeeManifest,
    RemoveManifest, Crash, ReadManifest, MapLookup, MapPack, StopServer,
    ChangeCollection, vars, diskVars
<1> QED
  BY <1>1, <1>2, <1>3

\* A server maps files of the version it has read of.
LEMMA ServerStep == IInv /\ [Next]_vars => ServerInv'
<1> SUFFICES ASSUME IInv, [Next]_vars PROVE ServerInv'
  OBVIOUS
<1> USE DEF IInv
<1> DEFINE Sound(s) ==
        /\ at[s] # "down" => named[s] \in Contents /\ versions[named[s]] = Whole(named[s])
        /\ at[s] \in {"pack", "up"} => maps[s].lookup = named[s]
        /\ at[s] = "up" => maps[s].pack = named[s]
<1>1. ASSUME NEW s \in Servers PROVE Sound(s)
  BY DEF ServerInv
<1>2. ASSUME NEW s \in Servers, at'[s] = at[s], named'[s] = named[s], maps'[s] = maps[s]
      PROVE  Sound(s)'
  <2>1. at[s] # "down" => versions'[named[s]] = Whole(named[s])
    BY <1>1, WholeKept
  <2> QED
    BY <1>1, <1>2, <2>1
<1>3. ASSUME NEW s \in Servers, ReadManifest(s) PROVE Sound(s)'
  <2>1. at'[s] = "lookup" /\ named'[s] = manifest /\ versions' = versions
    BY <1>3 DEF ReadManifest, TypeOK, diskVars
  <2>2. manifest \in Contents /\ versions[manifest] = Whole(manifest)
    BY <1>3 DEF ReadManifest, ManifestWhole, TypeOK
  <2> QED
    BY <2>1, <2>2
<1>4. ASSUME NEW s \in Servers, MapLookup(s) PROVE Sound(s)'
  <2>1. at'[s] = "pack" /\ named' = named /\ versions' = versions
        /\ maps'[s].lookup = versions[named[s]].lookup
    BY <1>4 DEF MapLookup, TypeOK, diskVars
  <2>2. named[s] \in Contents /\ versions[named[s]] = Whole(named[s])
    BY <1>1, <1>4 DEF MapLookup
  <2> QED
    BY <2>1, <2>2 DEF Whole
<1>5. ASSUME NEW s \in Servers, MapPack(s) PROVE Sound(s)'
  <2>1. at'[s] = "up" /\ named' = named /\ versions' = versions
        /\ maps'[s].pack = versions[named[s]].pack /\ maps'[s].lookup = maps[s].lookup
    BY <1>5 DEF MapPack, TypeOK, diskVars
  <2>2. named[s] \in Contents /\ versions[named[s]] = Whole(named[s])
        /\ maps[s].lookup = named[s]
    BY <1>1, <1>5 DEF MapPack
  <2> QED
    BY <2>1, <2>2 DEF Whole
<1>6. ASSUME NEW s \in Servers, StopServer(s) PROVE Sound(s)'
  <2>1. at'[s] = "down"
    BY <1>6 DEF StopServer, TypeOK
  <2> QED
    BY <2>1
<1>7. ASSUME NEW s \in Servers PROVE Sound(s)'
  <2>1. ASSUME NEW r \in Servers, r # s,
               ReadManifest(r) \/ MapLookup(r) \/ MapPack(r) \/ StopServer(r)
        PROVE  at'[s] = at[s] /\ named'[s] = named[s] /\ maps'[s] = maps[s]
    BY <2>1 DEF ReadManifest, MapLookup, MapPack, StopServer, TypeOK
  <2>2. ASSUME NEW p \in Compilers, CompileSteps(p) \/ Crash(p) PROVE UNCHANGED serverVars
    BY <2>2 DEF CompileSteps, Compile, Reuse, SeeFree, Rename, WriteDraft, SeeManifest,
      RemoveManifest, PlaceManifest, Crash
  <2>3. CASE UNCHANGED serverVars
    BY <1>2, <2>3 DEF serverVars
  <2>4. CASE ChangeCollection \/ UNCHANGED vars
    BY <2>3, <2>4 DEF ChangeCollection, vars
  <2>5. ASSUME NEW r \in Servers,
               ReadManifest(r) \/ MapLookup(r) \/ MapPack(r) \/ StopServer(r)
        PROVE  Sound(s)'
    BY <1>2, <1>3, <1>4, <1>5, <1>6, <2>1, <2>5
  <2> QED
    BY <2>2, <2>3, <2>4, <2>5 DEF Next
<1> QED
  BY <1>7 DEF ServerInv

\* Every step of the publication keeps the invariant.
LEMMA InvStep == IInv /\ [Next]_vars => IInv'
BY TypeStep, CompilerStep, ManifestStep, ServerStep DEF IInv

-----------------------------------------------------------------------------
(* The modules of the parts extend FiniteSets, each with its own name for   *)
(* these operators.                                                        *)

\* The modules of the parts count like this one.
LEMMA SameCardinality ==
    \A S : /\ Index!Cardinality(S) = Cardinality(S)
           /\ Port!Cardinality(S) = Cardinality(S)
           /\ Choice!Cardinality(S) = Cardinality(S)
<1>1. \A S : Index!Cardinality(S) = Cardinality(S)
  BY Zenon DEF Index!Cardinality, Cardinality
<1>2. \A S : Port!Cardinality(S) = Cardinality(S)
  BY Zenon DEF Port!Cardinality, Cardinality
<1>3. \A S : Choice!Cardinality(S) = Cardinality(S)
  BY Zenon DEF Choice!Cardinality, Cardinality
<1> QED
  BY <1>1, <1>2, <1>3

\* And the finite sets are the same.
LEMMA SameFiniteSets ==
    \A S : Index!IsFiniteSet(S) = IsFiniteSet(S) /\ Port!IsFiniteSet(S) = IsFiniteSet(S)
<1>1. \A S : Index!IsFiniteSet(S) = IsFiniteSet(S)
  BY DEF Index!IsFiniteSet, IsFiniteSet
<1>2. \A S : Port!IsFiniteSet(S) = IsFiniteSet(S)
  BY DEF Port!IsFiniteSet, IsFiniteSet
<1> QED
  BY <1>1, <1>2

-----------------------------------------------------------------------------
(* The index: numbers. *)

\* A set of numbers that is not empty has a least one.
LEMMA LeastNumber ==
    ASSUME NEW S \in SUBSET Nat, S # {}
    PROVE  \E n \in S : \A m \in S : n <= m
<1>1. PICK n \in S : \A m \in S : ~ (<<m, n>> \in OpToRel(<, Nat))
  BY NatLessThanWellFounded, WFMin
<1>2. \A m \in S : ~ (m < n)
  BY <1>1 DEF OpToRel
<1> QED
  BY <1>2

\* A larger hash is in no smaller bucket of the fanout table.
LEMMA DivisionMonotone ==
    ASSUME NEW x \in Nat, NEW y \in Nat, NEW w \in Nat \ {0}
    PROVE  /\ x \div w \in Nat
           /\ x <= y => x \div w <= y \div w
OBVIOUS

\* And the largest hash is in the last one.
LEMMA DivisionBounded ==
    ASSUME NEW x \in Nat, NEW n \in Nat, NEW w \in Nat \ {0}, x < n * w
    PROVE  x \div w < n
OBVIOUS

\* The bucket of a hash is an entry of the table, and so is the next one.
LEMMA BucketInTable ==
    ASSUME NEW h \in Index!Hashes
    PROVE  h \in Nat /\ h \div Width \in 0 .. Fanout - 1
<1>1. Fanout \in Nat \ {0} /\ Width \in Nat \ {0}
  BY IndexParameters DEF Index!Parameters
<1>2. h \in Nat /\ h < Fanout * Width
  BY <1>1 DEF Index!Hashes
<1>3. h \div Width \in Nat /\ h \div Width < Fanout
  BY <1>1, <1>2, DivisionMonotone, DivisionBounded
<1> QED
  BY <1>1, <1>2, <1>3

-----------------------------------------------------------------------------
(* The index: the fanout table. *)

\* None marks what no term is.
LEMMA NoneIsNoKey == None \notin Keys
<1>1. Keys \subseteq Int /\ None \notin Int
  BY IndexParameters DEF Index!Parameters
<1> QED
  BY <1>1, Zenon

\* What is compiled: terms that differ.
Terms ==
    /\ hash \in [Keys -> Index!Hashes] /\ terms \in Seq(Keys)
    /\ \A i, j \in DOMAIN terms : terms[i] = terms[j] => i = j

\* The order of the terms once they are sorted.
InOrder ==
    \A i, j \in 0 .. Index!N - 1 : i <= j => hash[Index!Term(i)] <= hash[Index!Term(j)]

\* A sorted term is a compiled key, and its hash is a number.
LEMMA TermTypes ==
    ASSUME Terms
    PROVE  /\ Index!N \in Nat
           /\ \A i \in 0 .. Index!N - 1 :
                /\ Index!Term(i) \in Index!Compiled /\ Index!Term(i) \in Keys
                /\ hash[Index!Term(i)] \in Index!Hashes
           /\ \A k \in Index!Compiled : \E i \in 0 .. Index!N - 1 : Index!Term(i) = k
           /\ Index!Compiled \subseteq Keys
<1>1. Index!N \in Nat /\ DOMAIN terms = 1 .. Index!N
  BY DEF Terms, Index!N
<1>2. \A i \in 0 .. Index!N - 1 : i + 1 \in DOMAIN terms
  BY <1>1
<1>3. ASSUME NEW k \in Index!Compiled PROVE \E i \in 0 .. Index!N - 1 : Index!Term(i) = k
  <2>1. PICK j \in DOMAIN terms : terms[j] = k
    BY DEF Index!Compiled
  <2>2. j - 1 \in 0 .. Index!N - 1 /\ (j - 1) + 1 = j
    BY <1>1, <2>1
  <2> QED
    BY <2>1, <2>2 DEF Index!Term
<1> QED
  BY <1>1, <1>2, <1>3 DEF Terms, Index!Term, Index!Compiled

\* An entry is the first term of its bucket or of a later one.
LEMMA EntryOfFanout ==
    ASSUME Terms, NEW b \in 0 .. Fanout
    PROVE  LET j == Index!FanoutTable[b] IN
           /\ j \in 0 .. Index!N
           /\ j = Index!N \/ hash[Index!Term(j)] \div Width >= b
           /\ \A m \in 0 .. j - 1 : hash[Index!Term(m)] \div Width < b
<1> DEFINE S == {j \in 0 .. Index!N : j = Index!N \/ hash[Index!Term(j)] \div Width >= b}
<1>1. Index!N \in S /\ S \in SUBSET Nat /\ Index!N \in Nat
  BY TermTypes
<1>2. PICK j \in S : \A m \in S : j <= m
  BY <1>1, LeastNumber
<1>3. ASSUME NEW m \in 0 .. j - 1 PROVE hash[Index!Term(m)] \div Width < b
  <2>1. m \in 0 .. Index!N - 1 /\ m \notin S
    BY <1>1, <1>2
  <2>2. hash[Index!Term(m)] \div Width \in 0 .. Fanout - 1
    BY <2>1, TermTypes, BucketInTable
  <2>3. ~(hash[Index!Term(m)] \div Width >= b)
    BY <1>1, <2>1
  <2> QED
    BY <2>2, <2>3, IndexParameters DEF Index!Parameters
<1>4. \E k \in 0 .. Index!N :
        /\ k = Index!N \/ hash[Index!Term(k)] \div Width >= b
        /\ \A m \in 0 .. k - 1 : hash[Index!Term(m)] \div Width < b
  BY <1>2, <1>3
<1> QED
  BY <1>4 DEF Index!FanoutTable, Index!SkipUntil

\* The terms of a bucket are between its entry and the next one; the others
\* have smaller or larger hashes.
LEMMA BucketBounds ==
    ASSUME Terms, InOrder, NEW k \in Keys
    PROVE  LET b == hash[k] \div Width IN
           /\ Index!FanoutTable[b] \in 0 .. Index!N
              /\ Index!FanoutTable[b + 1] \in 0 .. Index!N
           /\ \A i \in 0 .. Index!FanoutTable[b] - 1 : hash[Index!Term(i)] < hash[k]
           /\ \A i \in Index!FanoutTable[b + 1] .. Index!N - 1 :
              hash[Index!Term(i)] > hash[k]
           /\ \A i \in 0 .. Index!N - 1 : Index!Term(i) = k =>
                Index!FanoutTable[b] <= i /\ i < Index!FanoutTable[b + 1]
<1> DEFINE b == hash[k] \div Width
           l == Index!FanoutTable[b]
           r == Index!FanoutTable[b + 1]
<1>1. hash[k] \in Nat /\ b \in 0 .. Fanout - 1 /\ Fanout \in Nat /\ Width \in Nat \ {0}
      /\ b \in 0 .. Fanout /\ b + 1 \in 0 .. Fanout /\ Index!N \in Nat
  BY BucketInTable, TermTypes, IndexParameters DEF Terms, Index!Parameters
<1>2. l \in 0 .. Index!N /\ \A m \in 0 .. l - 1 : hash[Index!Term(m)] \div Width < b
  BY <1>1, EntryOfFanout
<1>3. r \in 0 .. Index!N /\ (r = Index!N \/ hash[Index!Term(r)] \div Width >= b + 1)
  BY <1>1, EntryOfFanout
<1>4. \A i \in 0 .. Index!N - 1 : hash[Index!Term(i)] \in Nat
      /\ hash[Index!Term(i)] \div Width \in Nat
  BY TermTypes, BucketInTable
<1>5. ASSUME NEW i \in 0 .. l - 1 PROVE hash[Index!Term(i)] < hash[k]
  <2>1. i \in 0 .. Index!N - 1 /\ hash[Index!Term(i)] \div Width < b
    BY <1>1, <1>2
  <2> QED
    BY <1>1, <1>4, <2>1, DivisionMonotone
<1>6. ASSUME NEW i \in r .. Index!N - 1 PROVE hash[Index!Term(i)] > hash[k]
  <2>1. i \in 0 .. Index!N - 1 /\ r \in 0 .. Index!N - 1 /\ r <= i
    BY <1>1, <1>3
  <2>2. hash[Index!Term(r)] \div Width >= b + 1
        /\ hash[Index!Term(r)] <= hash[Index!Term(i)]
    BY <1>3, <2>1 DEF InOrder
  <2>3. hash[Index!Term(i)] \div Width >= b + 1
    BY <1>1, <1>4, <2>1, <2>2, DivisionMonotone
  <2> QED
    BY <1>1, <1>4, <2>1, <2>3, DivisionMonotone
<1>7. ASSUME NEW i \in 0 .. Index!N - 1, Index!Term(i) = k PROVE l <= i /\ i < r
  <2>1. CASE ~(l <= i)
    <3>1. i \in 0 .. l - 1
      BY <1>1, <1>2, <2>1
    <3> QED
      BY <1>1, <1>5, <1>7, <3>1
  <2>2. CASE ~(i < r)
    <3>1. i \in r .. Index!N - 1
      BY <1>1, <1>3, <2>2
    <3> QED
      BY <1>1, <1>6, <1>7, <3>1
  <2> QED
    BY <2>1, <2>2
<1> QED
  BY <1>2, <1>3, <1>5, <1>6, <1>7

-----------------------------------------------------------------------------
(* The index: its build. *)

\* The buckets of the perfect hash; each term is in one of them.
BucketOf(k) == hash[k] % Index!BucketCount

\* There are finitely many terms, and each is in exactly one bucket.
LEMMA BucketTypes ==
    ASSUME Terms, Index!N # 0
    PROVE  /\ Index!BucketCount \in Nat \ {0}
           /\ \A k \in Index!Compiled : BucketOf(k) \in Index!Buckets
           /\ \A b : Index!Members(b) = {k \in Index!Compiled : BucketOf(k) = b}
           /\ IsFiniteSet(Index!Compiled) /\ Cardinality(Index!Compiled) = Index!N
           /\ \A b : IsFiniteSet(Index!Members(b))
<1>1. Index!N \in Nat \ {0} /\ Load \in Nat \ {0}
  BY TermTypes, IndexParameters DEF Index!Parameters
<1>2. Index!BucketCount \in Nat \ {0}
  BY <1>1 DEF Index!BucketCount
<1>3. ASSUME NEW k \in Index!Compiled PROVE BucketOf(k) \in Index!Buckets
  <2>1. hash[k] \in Nat
    BY TermTypes, BucketInTable DEF Terms
  <2> QED
    BY <1>2, <2>1 DEF BucketOf, Index!Buckets
<1>4. IsFiniteSet(Index!Compiled) /\ Cardinality(Index!Compiled) = Index!N
  <2>1. terms \in Surjection(1 .. Index!N, Index!Compiled)
        /\ terms \in Injection(1 .. Index!N, Index!Compiled)
    BY DEF Terms, Index!N, Index!Compiled, Surjection, Injection, IsInjective
  <2>2. IsFiniteSet(1 .. Index!N) /\ Cardinality(1 .. Index!N) = Index!N
    BY <1>1, FS_Interval
  <2> QED
    BY <2>1, <2>2, FS_Surjection
<1>5. \A b : Index!Members(b) \in SUBSET Index!Compiled
  BY DEF Index!Members
<1> QED
  BY <1>2, <1>3, <1>4, <1>5, FS_Subset DEF Index!Members, BucketOf

\* Placed terms: a term of no bucket that is still to come.
Left == UNION {Index!Members(order[i]) : i \in DOMAIN order}
Placed == Index!Compiled \ Left

\* Where the perfect hash sends a placed term.
Home(k) ==
    LET d == shift[BucketOf(k)] IN
    /\ d \in Int
    /\ d < 0 => -d - 1 \in 0 .. Index!N - 1 /\ slots[-d - 1] = k
    /\ d >= 0 => <<k, d>> \in DOMAIN seeded /\ slots[seeded[<<k, d>>]] = k

\* While buckets are placed and after it.
Slotted ==
    /\ slots \in [0 .. Index!N - 1 -> Index!Compiled \cup {None}]
    /\ shift \in [Index!Buckets -> Int \cup {None}]
    /\ \A i, j \in 0 .. Index!N - 1 : slots[i] = slots[j] /\ slots[i] # None => i = j

\* Each bucket that is still to come comes once.
Ordered ==
    /\ order \in Seq(Index!Buckets)
    /\ \A i, j \in DOMAIN order : order[i] = order[j] => i = j

\* A seed is drawn for a placed term, and sends it to a slot.
Seeded ==
    \A p \in DOMAIN seeded :
        p \in Keys \X Index!Seeds /\ p[1] \in Placed /\ seeded[p] \in 0 .. Index!N - 1

\* The slots are those of the placed terms.
Homes ==
    /\ \A i \in 0 .. Index!N - 1 : slots[i] # None => slots[i] \in Placed
    /\ \A k \in Placed : Home(k)

\* The invariant of the build.
BuildInv ==
    /\ Terms /\ seed \in Index!Seeds
    /\ step = "sort" => order = <<>> /\ slots = <<>> /\ seeded = <<>>
    /\ step # "sort" => InOrder
    /\ step # "sort" /\ Index!N # 0 => Slotted /\ Ordered /\ Seeded /\ Homes
    /\ step # "sort" /\ Index!N = 0 => order = <<>> /\ slots = <<>> /\ seeded = <<>>
    /\ step \notin {"sort", "place", "failed"} => order = <<>>
    /\ step \in {"place", "failed"} => Index!N # 0
    /\ step \in {"sort", "place", "serve", "search", "scan", "found", "failed"}

\* It holds before the terms are sorted.
LEMMA InitBuild == Index!Init => BuildInv
<1> SUFFICES ASSUME Index!Init PROVE BuildInv
  OBVIOUS
<1>1. PICK T \in SUBSET Keys :
        terms \in {s \in Index!SetToSeqs(T) : \A i, j \in DOMAIN s : i < j => s[i] < s[j]}
  BY DEF Index!Init
<1>2. IsFiniteSet(T) /\ Cardinality(T) \in Nat
  BY IndexParameters, SameFiniteSets, FS_Subset, FS_CardinalityType DEF Index!Parameters
<1>3. /\ terms \in [1 .. Cardinality(T) -> T]
      /\ \A i, j \in 1 .. Cardinality(T) : i # j => terms[i] # terms[j]
  BY <1>1, SameCardinality DEF Index!SetToSeqs
<1>4. terms \in Seq(Keys) /\ \A i, j \in DOMAIN terms : terms[i] = terms[j] => i = j
  BY <1>2, <1>3
<1>5. seed \in Index!Seeds
  BY IndexParameters DEF Index!Init, Index!Seeds, Index!Parameters
<1> QED
  BY <1>4, <1>5 DEF Index!Init, BuildInv, Terms

\* An arrangement of a finite set names each of its elements once.
LEMMA Arrangement ==
    ASSUME NEW S, IsFiniteSet(S), NEW s \in Index!SetToSeqs(S)
    PROVE  /\ s \in Seq(S) /\ DOMAIN s = 1 .. Cardinality(S) /\ Len(s) = Cardinality(S)
           /\ \A i, j \in DOMAIN s : s[i] = s[j] => i = j
           /\ {s[i] : i \in DOMAIN s} = S
<1> DEFINE n == Cardinality(S)
<1>1. n \in Nat
  BY FS_CardinalityType
<1>2. s \in [1 .. n -> S] /\ \A i, j \in 1 .. n : i # j => s[i] # s[j]
  BY SameCardinality DEF Index!SetToSeqs
<1>3. s \in Injection(1 .. n, S)
  BY <1>2 DEF Injection, IsInjective
<1>4. IsFiniteSet(1 .. n) /\ Cardinality(1 .. n) = n
  BY <1>1, FS_Interval
<1>5. s \in Surjection(1 .. n, S)
  BY <1>3, <1>4, FS_Injection
<1>6. {s[i] : i \in DOMAIN s} = S
  BY <1>2, <1>5 DEF Surjection
<1>7. s \in Seq(S) /\ Len(s) = n
  BY <1>1, <1>2
<1> QED
  BY <1>2, <1>6, <1>7

\* Sorting loses no term and leaves every bucket to be placed.
LEMMA SortStep ==
    ASSUME BuildInv, Index!Sort
    PROVE  BuildInv' /\ Index!Compiled' = Index!Compiled /\ Index!N' = Index!N
<1> USE DEF BuildInv
<1>1. UNCHANGED <<hash, seeded, seed>> /\ step = "sort" /\ Terms
      /\ order = <<>> /\ slots = <<>> /\ seeded = <<>>
  BY DEF Index!Sort
<1>2. /\ terms' \in Index!SetToSeqs(Index!Compiled)
      /\ \A i, j \in DOMAIN terms' : i < j => Index!Before(terms'[i], terms'[j])
  BY DEF Index!Sort
<1>3. IsFiniteSet(Index!Compiled) /\ Cardinality(Index!Compiled) = Index!N
      /\ Index!N \in Nat
  <2>1. CASE Index!N = 0
    <3>1. Index!Compiled = {}
      BY <1>1, <2>1, TermTypes
    <3> QED
      BY <2>1, <3>1, FS_EmptySet
  <2>2. CASE Index!N # 0
    BY <1>1, <2>2, BucketTypes, TermTypes
  <2> QED
    BY <2>1, <2>2
<1>4. /\ terms' \in Seq(Index!Compiled) /\ DOMAIN terms' = 1 .. Index!N
         /\ Len(terms') = Index!N
      /\ \A i, j \in DOMAIN terms' : terms'[i] = terms'[j] => i = j
      /\ {terms'[i] : i \in DOMAIN terms'} = Index!Compiled
  BY <1>2, <1>3, Arrangement
<1>5. Index!Compiled' = Index!Compiled /\ Index!N' = Index!N
  BY <1>4 DEF Index!Compiled, Index!N
<1>6. Terms'
  BY <1>1, <1>4, TermTypes DEF Terms
<1>7. InOrder'
  <2> SUFFICES ASSUME NEW i \in 0 .. Index!N - 1, NEW j \in 0 .. Index!N - 1, i <= j
               PROVE  hash[terms'[i + 1]] <= hash[terms'[j + 1]]
    BY <1>1, <1>5 DEF InOrder, Index!Term
  <2>1. terms'[i + 1] \in Keys /\ terms'[j + 1] \in Keys /\ i + 1 \in DOMAIN terms'
        /\ j + 1 \in DOMAIN terms'
    BY <1>3, <1>4, <1>1, TermTypes
  <2>2. hash[terms'[i + 1]] \in Nat /\ hash[terms'[j + 1]] \in Nat
    BY <1>1, <2>1, BucketInTable DEF Terms
  <2>3. CASE i = j
    BY <2>2, <2>3
  <2>4. CASE i < j
    <3>1. Index!Before(terms'[i + 1], terms'[j + 1])
      BY <1>2, <2>1, <2>4
    <3> QED
      BY <2>2, <3>1 DEF Index!Before
  <2> QED
    BY <2>3, <2>4
<1>8. CASE terms = <<>>
  <2>1. UNCHANGED <<order, slots>> /\ step' = "serve" /\ Index!N = 0
    BY <1>8 DEF Index!Sort, Index!N
  <2> QED
    BY <1>1, <1>5, <1>6, <1>7, <2>1
<1>9. CASE terms # <<>>
  <2>1. /\ order' \in Index!Orders /\ slots' = [i \in 0 .. Index!N - 1 |-> None]
           /\ Index!N # 0
        /\ shift' = [b \in Index!Buckets |-> None] /\ step' = "place"
    BY <1>1, <1>9 DEF Index!Sort, Index!N, Terms
  <2>2. Index!BucketCount' = Index!BucketCount /\ Index!Buckets' = Index!Buckets
        /\ \A b : Index!Members(b)' = Index!Members(b)
    BY <1>1, <1>5 DEF Index!BucketCount, Index!Buckets, Index!Members
  <2>3. IsFiniteSet(Index!Buckets)
    BY <1>1, <2>1, BucketTypes, FS_Interval DEF Index!Buckets
  <2>4. /\ order' \in Seq(Index!Buckets)
           /\ {order'[i] : i \in DOMAIN order'} = Index!Buckets
        /\ \A i, j \in DOMAIN order' : order'[i] = order'[j] => i = j
    BY <2>1, <2>3, Arrangement DEF Index!Orders
  <2>5. Placed' = {}
    <3> SUFFICES ASSUME NEW k \in Index!Compiled PROVE k \in Left'
      BY <1>5 DEF Placed
    <3>1. BucketOf(k) \in Index!Buckets /\ k \in Index!Members(BucketOf(k))
      BY <1>1, <2>1, BucketTypes
    <3>2. PICK i \in DOMAIN order' : order'[i] = BucketOf(k)
      BY <2>4, <3>1
    <3> QED
      BY <2>2, <3>1, <3>2 DEF Left
  <2>6. slots' \in [0 .. Index!N - 1 -> Index!Compiled \cup {None}]
    BY <2>1
  <2>7. Slotted'
    BY <1>5, <2>1, <2>2, <2>6 DEF Slotted
  <2>8. Ordered' /\ Seeded'
    BY <1>1, <2>2, <2>4 DEF Ordered, Seeded
  <2>9. Homes'
    BY <1>5, <2>1, <2>5 DEF Homes
  <2> QED
    BY <1>1, <1>5, <1>6, <1>7, <2>1, <2>7, <2>8, <2>9
<1> QED
  BY <1>5, <1>8, <1>9

\* The first bucket of the order is taken off: its terms are the ones that are
\* no longer left.
LEMMA TakeBucket ==
    ASSUME Terms, Index!N # 0, Ordered, order # <<>>, UNCHANGED <<hash, terms>>,
           order' = Tail(order)
    PROVE  /\ Head(order) \in Index!Buckets /\ Ordered' /\ Index!Buckets' = Index!Buckets
           /\ Index!N' = Index!N /\ Index!Compiled' = Index!Compiled
           /\ \A k : BucketOf(k)' = BucketOf(k)
           /\ Left = Index!Members(Head(order)) \cup Left'
           /\ Index!Members(Head(order)) \cap Left' = {}
           /\ Placed' = Placed \cup Index!Members(Head(order))
           /\ \A k \in Placed : BucketOf(k) # Head(order)
<1>1. /\ Index!N' = Index!N /\ Index!Compiled' = Index!Compiled
         /\ Index!BucketCount' = Index!BucketCount /\ Index!Buckets' = Index!Buckets
      /\ \A k : BucketOf(k)' = BucketOf(k)
      /\ \A b : Index!Members(b)' = Index!Members(b)
  BY DEF Index!N, Index!Compiled, Index!BucketCount, Index!Buckets, BucketOf,
     Index!Members
<1>2. order \in Seq(Index!Buckets) /\ Len(order) \in Nat /\ Len(order) > 0
      /\ DOMAIN order = 1 .. Len(order)
  BY DEF Ordered
<1>3. order' \in Seq(Index!Buckets) /\ DOMAIN order' = 1 .. Len(order) - 1
      /\ \A i \in 1 .. Len(order) - 1 : order'[i] = order[i + 1]
  BY <1>2
<1>4. Head(order) = order[1] /\ Head(order) \in Index!Buckets
  BY <1>2
<1>5. Ordered'
  <2>1. ASSUME NEW i \in DOMAIN order', NEW j \in DOMAIN order', order'[i] = order'[j]
        PROVE  i = j
    <3>1. i + 1 \in DOMAIN order /\ j + 1 \in DOMAIN order /\ order[i + 1] = order[j + 1]
      BY <1>2, <1>3, <2>1
    <3> QED
      BY <1>2, <1>3, <3>1 DEF Ordered
  <2> QED
    BY <1>1, <1>3, <2>1 DEF Ordered
<1>6. \A i \in DOMAIN order' : order'[i] # Head(order)
  <2> SUFFICES ASSUME NEW i \in DOMAIN order' PROVE order'[i] # order[1]
    BY <1>4
  <2>1. i + 1 \in DOMAIN order /\ 1 \in DOMAIN order /\ i + 1 # 1
        /\ order'[i] = order[i + 1]
    BY <1>2, <1>3
  <2> QED
    BY <2>1 DEF Ordered
<1>7. \A b : Index!Members(b) = {k \in Index!Compiled : BucketOf(k) = b}
  BY DEF Index!Members, BucketOf
<1>8. \A k : k \in Left' <=> \E i \in DOMAIN order' : k \in Index!Members(order'[i])
  BY <1>1 DEF Left
<1>9. \A k : k \in Left <=> \E i \in DOMAIN order : k \in Index!Members(order[i])
  BY DEF Left
<1>10. \A k : k \in Left <=> k \in Index!Members(Head(order)) \/ k \in Left'
  <2>1. ASSUME NEW k, NEW i \in DOMAIN order, k \in Index!Members(order[i])
        PROVE  k \in Index!Members(Head(order)) \/ k \in Left'
    <3>1. CASE i = 1
      BY <1>4, <2>1, <3>1
    <3>2. CASE i # 1
      <4>1. i - 1 \in DOMAIN order' /\ order'[i - 1] = order[i]
        BY <1>2, <1>3, <3>2
      <4> QED
        BY <1>8, <2>1, <4>1
    <3> QED
      BY <3>1, <3>2
  <2>2. ASSUME NEW k, NEW i \in DOMAIN order', k \in Index!Members(order'[i])
        PROVE  k \in Left
    <3>1. i + 1 \in DOMAIN order /\ order[i + 1] = order'[i]
      BY <1>2, <1>3
    <3> QED
      BY <1>9, <2>2, <3>1
  <2>3. ASSUME NEW k, k \in Index!Members(Head(order)) PROVE k \in Left
    BY <1>2, <1>4, <1>9, <2>3
  <2> QED
    BY <1>8, <1>9, <2>1, <2>2, <2>3
<1>11. \A k \in Left' : k \notin Index!Members(Head(order))
  BY <1>6, <1>7, <1>8
<1>12. Index!Members(Head(order)) \subseteq Index!Compiled
  BY <1>7
<1>13. Placed' = Placed \cup Index!Members(Head(order))
  BY <1>1, <1>10, <1>11, <1>12 DEF Placed
<1>14. \A k \in Placed : BucketOf(k) # Head(order)
  BY <1>7, <1>10 DEF Placed
<1> QED
  BY <1>1, <1>4, <1>5, <1>10, <1>11, <1>13, <1>14

\* The terms of a bucket get free slots that differ.
LEMMA PlaceStep ==
    ASSUME BuildInv, Index!Place
    PROVE  BuildInv'
<1> USE DEF BuildInv
<1> DEFINE b == Head(order)
<1>1. /\ step = "place" /\ Index!N # 0 /\ Terms /\ InOrder /\ Slotted /\ Ordered
         /\ Seeded /\ Homes
      /\ order # <<>> /\ UNCHANGED <<hash, terms>> /\ seed \in Index!Seeds
  BY DEF Index!Place
<1>2. PICK chosen \in Index!SlotsOf(b) :
        IF Index!Fits(chosen)
          THEN /\ Index!Remember(chosen, seed)
               /\ slots' = [i \in DOMAIN slots |->
                    IF \E k \in DOMAIN chosen : chosen[k] = i
                      THEN CHOOSE k \in DOMAIN chosen : chosen[k] = i
                      ELSE slots[i]]
               /\ shift' = [shift EXCEPT ![b] = seed]
               /\ order' = Tail(order) /\ seed' = 0 /\ UNCHANGED step
          ELSE /\ seed' = IF Index!Overflow THEN seed ELSE seed + 1
               /\ step' = IF Index!Overflow THEN "failed" ELSE step
               /\ UNCHANGED <<seeded, slots, shift, order>>
  BY DEF Index!Place
<1>3. Index!N' = Index!N /\ Index!Compiled' = Index!Compiled /\ Terms' /\ InOrder'
      /\ Index!BucketCount' = Index!BucketCount
      /\ Index!Buckets' = Index!Buckets /\ (\A k : BucketOf(k)' = BucketOf(k))
      /\ \A x : Index!Members(x)' = Index!Members(x)
  BY <1>1 DEF Index!N, Index!Compiled, Terms, InOrder, Index!Term, Index!BucketCount,
     Index!Buckets, BucketOf, Index!Members
<1>4. CASE ~Index!Fits(chosen)
  <2>1. /\ UNCHANGED <<seeded, slots, shift, order>> /\ step' \in {"place", "failed"}
        /\ seed' = IF Index!Overflow THEN seed ELSE seed + 1
    BY <1>1, <1>2, <1>4
  <2>2. seed' \in Index!Seeds
    BY <1>1, <2>1, IndexParameters DEF Index!Seeds, Index!Overflow, Index!Parameters
  <2>3. Left' = Left /\ Placed' = Placed
    BY <1>3, <2>1 DEF Left, Placed
  <2>4. Slotted' /\ Ordered' /\ Seeded'
    BY <1>1, <1>3, <2>1, <2>3 DEF Slotted, Ordered, Seeded
  <2>5. Homes'
    BY <1>1, <1>3, <2>1, <2>3 DEF Homes, Home
  <2> QED
    BY <1>1, <1>3, <2>1, <2>2, <2>4, <2>5
<1>5. CASE Index!Fits(chosen)
  <2>1. /\ Index!Remember(chosen, seed) /\ order' = Tail(order) /\ seed' = 0
           /\ step' = step
        /\ shift' = [shift EXCEPT ![b] = seed]
        /\ slots' = [i \in DOMAIN slots |->
              IF \E k \in DOMAIN chosen : chosen[k] = i
                THEN CHOOSE k \in DOMAIN chosen : chosen[k] = i ELSE slots[i]]
    BY <1>2, <1>5
  <2>2. /\ b \in Index!Buckets /\ Ordered' /\ Placed' = Placed \cup Index!Members(b)
        /\ Index!Members(b) \cap Left' = {} /\ Left = Index!Members(b) \cup Left'
        /\ \A k \in Placed : BucketOf(k) # b
    BY <1>1, <2>1, TakeBucket
  <2>3. /\ chosen \in [Index!Members(b) -> 0 .. Index!N - 1]
        /\ \A k \in Index!Members(b) : slots[chosen[k]] = None
        /\ \A k, l \in Index!Members(b) : k # l => chosen[k] # chosen[l]
    BY <1>5 DEF Index!SlotsOf, Index!Fits
  <2>4. \A k \in Index!Members(b) : k \in Index!Compiled /\ k \in Keys /\ BucketOf(k) = b
    BY <1>1, TermTypes DEF Index!Members, BucketOf
  <2>5. /\ DOMAIN slots = 0 .. Index!N - 1
        /\ slots' = [i \in 0 .. Index!N - 1 |->
              IF \E k \in Index!Members(b) : chosen[k] = i
                THEN CHOOSE k \in Index!Members(b) : chosen[k] = i ELSE slots[i]]
    BY <1>1, <2>1, <2>3 DEF Slotted
  <2>6. /\ \A k \in Index!Members(b) : slots'[chosen[k]] = k
        /\ \A i \in 0 .. Index!N - 1 : (\A k \in Index!Members(b) : chosen[k] # i)
           => slots'[i] = slots[i]
    BY <2>3, <2>5
  <2>7. /\ \A i \in 0 .. Index!N - 1 : slots[i] # None => slots'[i] = slots[i]
        /\ \A i \in 0 .. Index!N - 1 : slots'[i] = slots[i]
                \/ \E k \in Index!Members(b) : chosen[k] = i /\ slots'[i] = k
    BY <2>3, <2>6
  <2>8. Placed \cap Index!Members(b) = {}
    BY <2>2 DEF Placed
  <2>9. shift' \in [Index!Buckets -> Int \cup {None}] /\ shift'[b] = seed
        /\ (\A x \in Index!Buckets \ {b} : shift'[x] = shift[x]) /\ seed \in Nat
    BY <1>1, <2>1, <2>2, IndexParameters DEF Slotted, Index!Seeds, Index!Parameters
  <2>10. None \notin Keys
    BY NoneIsNoKey
  <2>11. Slotted'
    <3>1. slots' \in [0 .. Index!N - 1 -> Index!Compiled \cup {None}]
      <4>1. \A i \in 0 .. Index!N - 1 : slots'[i] \in Index!Compiled \cup {None}
        BY <1>1, <2>4, <2>7 DEF Slotted
      <4> QED
        BY <2>5, <4>1
    <3>2. ASSUME NEW i \in 0 .. Index!N - 1, NEW j \in 0 .. Index!N - 1,
                 slots'[i] = slots'[j],
                 slots'[i] # None
          PROVE  i = j
      <4>1. CASE slots'[i] = slots[i] /\ slots'[j] = slots[j]
        BY <1>1, <3>2, <4>1 DEF Slotted
      <4>2. CASE slots'[i] \in Index!Members(b)
        <5>1. slots[i] # slots'[i] /\ slots[j] # slots'[i]
          BY <1>1, <2>4, <2>8, <2>10, <4>2 DEF Homes
        <5> QED
          BY <2>7, <3>2, <5>1
      <4> QED
        BY <2>7, <3>2, <4>1, <4>2
    <3> QED
      BY <1>3, <2>9, <3>1, <3>2 DEF Slotted
  <2>12. /\ DOMAIN seeded' = (DOMAIN seeded) \cup (Index!Members(b) \X {seed})
         /\ \A p \in DOMAIN seeded : seeded'[p] = seeded[p]
         /\ \A k \in Index!Members(b) : /\ <<k, seed>> \in DOMAIN seeded'
                                        /\ seeded'[<<k, seed>>] = chosen[k]
    <3>1. seeded' = [p \in (DOMAIN seeded) \cup (Index!Members(b) \X {seed}) |->
                      IF p \in DOMAIN seeded THEN seeded[p] ELSE chosen[p[1]]]
      BY <2>1, <2>3 DEF Index!Remember
    <3>2. \A k \in Index!Members(b) : <<k, seed>> \notin DOMAIN seeded
      BY <1>1, <2>8 DEF Seeded
    <3> QED
      BY <3>1, <3>2
  <2>13. Seeded'
    <3> SUFFICES ASSUME NEW p \in DOMAIN seeded'
                 PROVE  p \in Keys \X Index!Seeds /\ p[1] \in Placed'
                        /\ seeded'[p] \in 0 .. Index!N - 1
      BY <1>3 DEF Seeded
    <3>1. CASE p \in DOMAIN seeded
      BY <1>1, <2>2, <2>12, <3>1 DEF Seeded
    <3>2. CASE p \in Index!Members(b) \X {seed}
      <4>1. PICK k \in Index!Members(b) : p = <<k, seed>>
        BY <3>2
      <4> QED
        BY <1>1, <2>2, <2>3, <2>4, <2>12, <4>1
    <3> QED
      BY <2>12, <3>1, <3>2
  <2>14. \A i \in 0 .. Index!N - 1 : slots'[i] # None => slots'[i] \in Placed'
    BY <1>1, <2>2, <2>7 DEF Homes
  <2>15. ASSUME NEW k \in Placed PROVE Home(k)'
    <3>1. Home(k) /\ BucketOf(k)' = BucketOf(k) /\ BucketOf(k) \in Index!Buckets \ {b}
          /\ k \in Index!Compiled /\ k # None
      BY <1>1, <1>3, <2>2, <2>10, BucketTypes, TermTypes DEF Homes, Placed
    <3>2. shift'[BucketOf(k)'] = shift[BucketOf(k)]
      BY <2>9, <3>1
    <3>3. \A i \in 0 .. Index!N - 1 : slots[i] = k => slots'[i] = k
      BY <2>7, <3>1
    <3>4. \A p \in DOMAIN seeded : seeded[p] \in 0 .. Index!N - 1 /\ p \in DOMAIN seeded'
                                  /\ seeded'[p] = seeded[p]
      BY <1>1, <2>12 DEF Seeded
    <3> QED
      BY <1>3, <3>1, <3>2, <3>3, <3>4 DEF Home
  <2>16. ASSUME NEW k \in Index!Members(b) PROVE Home(k)'
    <3>1. BucketOf(k)' = b /\ shift'[b] = seed /\ seed \in Int /\ ~(seed < 0)
      BY <1>3, <2>4, <2>9
    <3>2. <<k, seed>> \in DOMAIN seeded' /\ slots'[seeded'[<<k, seed>>]] = k
      BY <2>6, <2>12
    <3> QED
      BY <3>1, <3>2 DEF Home
  <2>17. Homes'
    BY <1>3, <2>2, <2>14, <2>15, <2>16 DEF Homes
  <2>18. seed' \in Index!Seeds
    BY <2>1, IndexParameters DEF Index!Seeds, Index!Parameters
  <2> QED
    BY <1>1, <1>3, <2>1, <2>2, <2>11, <2>13, <2>17, <2>18
<1> QED
  BY <1>4, <1>5

\* The slots in use are as many as the placed terms.
LEMMA UsedSlots ==
    ASSUME Terms, Index!N # 0, Slotted, Seeded, Homes
    PROVE  LET used == {i \in 0 .. Index!N - 1 : slots[i] # None} IN
           /\ {slots[i] : i \in used} = Placed
           /\ Cardinality(used) = Cardinality(Placed)
           /\ IsFiniteSet(Placed) /\ Cardinality(Placed) \in Nat
           /\ Cardinality(Placed) = Index!N => used = 0 .. Index!N - 1
              /\ Placed = Index!Compiled
           /\ used = 0 .. Index!N - 1 => Placed = Index!Compiled
<1> DEFINE used == {i \in 0 .. Index!N - 1 : slots[i] # None}
<1>1. Index!N \in Nat /\ IsFiniteSet(Index!Compiled)
      /\ Cardinality(Index!Compiled) = Index!N
  BY TermTypes, BucketTypes
<1>2. IsFiniteSet(0 .. Index!N - 1) /\ Cardinality(0 .. Index!N - 1) = Index!N
  BY <1>1, FS_Interval
<1>3. /\ Placed \in SUBSET Index!Compiled /\ IsFiniteSet(Placed)
         /\ Cardinality(Placed) \in Nat
      /\ Cardinality(Index!Compiled) = Cardinality(Placed) => Index!Compiled = Placed
  BY <1>1, FS_Subset, FS_CardinalityType DEF Placed
<1>4. /\ IsFiniteSet(used) /\ used \in SUBSET (0 .. Index!N - 1)
      /\ Cardinality(0 .. Index!N - 1) = Cardinality(used) => 0 .. Index!N - 1 = used
  BY <1>2, FS_Subset
<1>5. \A k \in Placed : \E i \in used : slots[i] = k
  <2> SUFFICES ASSUME NEW k \in Placed PROVE \E i \in used : slots[i] = k
    OBVIOUS
  <2>1. Home(k) /\ k \in Index!Compiled /\ BucketOf(k) \in Index!Buckets /\ k # None
    BY <1>3, BucketTypes, TermTypes, NoneIsNoKey DEF Homes
  <2>2. \E i \in DOMAIN slots : slots[i] = k
    <3>1. DOMAIN slots = 0 .. Index!N - 1
          /\ \A p \in DOMAIN seeded : seeded[p] \in 0 .. Index!N - 1
      BY DEF Slotted, Seeded
    <3> QED
      BY <2>1, <3>1 DEF Home
  <2> QED
    BY <2>1, <2>2 DEF Slotted
<1>6. {slots[i] : i \in used} = Placed
  BY <1>5 DEF Homes
<1> DEFINE f == [i \in used |-> slots[i]]
<1>7. f \in Bijection(used, Placed)
  <2>1. f \in [used -> Placed]
    BY <1>6
  <2>2. \A i, j \in used : f[i] = f[j] => i = j
    BY DEF Slotted
  <2>3. \A k \in Placed : \E i \in used : f[i] = k
    BY <1>5
  <2> QED
    BY <2>1, <2>2, <2>3 DEF Bijection, Injection, Surjection, IsInjective
<1>8. Cardinality(used) = Cardinality(Placed)
  BY <1>4, <1>7, FS_Bijection DEF ExistsBijection
<1> QED
  BY <1>1, <1>2, <1>3, <1>4, <1>6, <1>8

\* A bucket of one term finds a free slot.
LEMMA SingleStep ==
    ASSUME BuildInv, Index!Single
    PROVE  BuildInv'
<1> USE DEF BuildInv
<1> DEFINE b == Head(order)
           used == {i \in 0 .. Index!N - 1 : slots[i] # None}
           free == {i \in DOMAIN slots : slots[i] = None}
           slot == CHOOSE i \in free : \A j \in free : i <= j
<1>1. /\ step = "place" /\ Index!N # 0 /\ Terms /\ InOrder /\ Slotted /\ Ordered
         /\ Seeded /\ Homes
      /\ order # <<>> /\ UNCHANGED <<hash, terms, seeded, seed>> /\ seed \in Index!Seeds
      /\ order' = Tail(order) /\ Cardinality(Index!Members(b)) <= 1
  BY SameCardinality DEF Index!Single
<1>2. /\ Index!N' = Index!N /\ Index!Compiled' = Index!Compiled /\ Terms' /\ InOrder'
         /\ Index!Buckets' = Index!Buckets
      /\ \A k : BucketOf(k)' = BucketOf(k)
  BY <1>1, TakeBucket DEF Terms, InOrder, Index!Term, Index!N
<1>3. /\ b \in Index!Buckets /\ Ordered' /\ Placed' = Placed \cup Index!Members(b)
      /\ Index!Members(b) \cap Left' = {} /\ Left = Index!Members(b) \cup Left'
      /\ \A k \in Placed : BucketOf(k) # b
  BY <1>1, TakeBucket
<1>4. CASE Index!Members(b) = {}
  <2>1. UNCHANGED <<slots, shift, step>>
    BY <1>4 DEF Index!Single
  <2>2. Placed' = Placed
    BY <1>3, <1>4
  <2>3. Slotted' /\ Seeded'
    BY <1>1, <1>2, <2>1, <2>2 DEF Slotted, Seeded
  <2>4. Homes'
    BY <1>1, <1>2, <2>1, <2>2 DEF Homes, Home
  <2> QED
    BY <1>1, <1>2, <1>3, <2>1, <2>3, <2>4
<1>5. CASE Index!Members(b) # {}
  <2>1. PICK k : Index!Members(b) = {k}
    <3>1. IsFiniteSet(Index!Members(b)) /\ Cardinality(Index!Members(b)) \in Nat
          /\ Cardinality(Index!Members(b)) # 0
      BY <1>1, <1>5, BucketTypes, FS_CardinalityType, FS_EmptySet
    <3>2. Cardinality(Index!Members(b)) = 1
      BY <1>1, <3>1
    <3> QED
      BY <3>1, <3>2, FS_Singleton
  <2>2. k \in Index!Compiled /\ k \in Keys /\ BucketOf(k) = b /\ k \in Left
        /\ k \notin Placed
        /\ k # None
    BY <1>1, <1>3, <2>1, TermTypes, NoneIsNoKey DEF Index!Members, BucketOf, Placed
  <2>3. free # {} /\ free \in SUBSET Nat /\ free = (0 .. Index!N - 1) \ used
    <3>1. Placed # Index!Compiled
      BY <2>2
    <3>2. used # 0 .. Index!N - 1
      BY <1>1, <3>1, UsedSlots
    <3>3. free = (0 .. Index!N - 1) \ used
      BY <1>1 DEF Slotted
    <3> QED
      BY <3>2, <3>3
  <2>4. slot \in free
    <3>1. \E i \in free : \A j \in free : i <= j
      BY <2>3, LeastNumber
    <3> QED
      BY <3>1
  <2>5. slot \in 0 .. Index!N - 1 /\ slots[slot] = None /\ slot \in Nat
    BY <2>3, <2>4
  <2>6. /\ slots' = [slots EXCEPT ![slot] = k] /\ step' = step
        /\ shift' = [shift EXCEPT ![b] = -(slot + 1)]
    BY <1>5, <2>1, <2>3 DEF Index!Single
  <2>7. slots' \in [0 .. Index!N - 1 -> Index!Compiled \cup {None}] /\ slots'[slot] = k
        /\ \A i \in 0 .. Index!N - 1 : i # slot => slots'[i] = slots[i]
    BY <1>1, <2>2, <2>5, <2>6 DEF Slotted
  <2>8. shift' \in [Index!Buckets -> Int \cup {None}] /\ shift'[b] = -(slot + 1)
        /\ \A x \in Index!Buckets : x # b => shift'[x] = shift[x]
    BY <1>1, <1>3, <2>5, <2>6 DEF Slotted
  <2>9. Slotted'
    <3>1. ASSUME NEW i \in 0 .. Index!N - 1, NEW j \in 0 .. Index!N - 1,
                 slots'[i] = slots'[j],
                 slots'[i] # None
          PROVE  i = j
      <4>1. \A m \in 0 .. Index!N - 1 : slots[m] # k
        BY <1>1, <2>2 DEF Homes
      <4> QED
        BY <1>1, <2>7, <3>1, <4>1 DEF Slotted
    <3> QED
      BY <1>2, <2>7, <2>8, <3>1 DEF Slotted
  <2>10. Seeded'
    BY <1>1, <1>2, <1>3 DEF Seeded
  <2>11. \A i \in 0 .. Index!N - 1 : slots'[i] # None => slots'[i] \in Placed'
    BY <1>1, <1>3, <2>1, <2>7 DEF Homes
  <2>12. ASSUME NEW l \in Placed PROVE Home(l)'
    <3>1. Home(l) /\ BucketOf(l)' = BucketOf(l) /\ BucketOf(l) \in Index!Buckets
          /\ BucketOf(l) # b
          /\ l # None
      BY <1>1, <1>2, <1>3, BucketTypes, TermTypes, NoneIsNoKey DEF Homes, Placed
    <3>2. shift'[BucketOf(l)'] = shift[BucketOf(l)]
      BY <2>8, <3>1
    <3>3. \A i \in 0 .. Index!N - 1 : slots[i] = l => slots'[i] = l
      BY <2>5, <2>7, <3>1
    <3>4. \A p \in DOMAIN seeded : seeded[p] \in 0 .. Index!N - 1
      BY <1>1 DEF Seeded
    <3> QED
      BY <1>1, <1>2, <3>1, <3>2, <3>3, <3>4 DEF Home
  <2>13. Home(k)'
    <3>1. BucketOf(k)' = b /\ shift'[b] = -(slot + 1) /\ -(slot + 1) \in Int
          /\ -(slot + 1) < 0 /\ -(-(slot + 1)) - 1 = slot
      <4>1. \A n \in Nat : -(n + 1) \in Int /\ -(n + 1) < 0 /\ -(-(n + 1)) - 1 = n
        OBVIOUS
      <4>2. BucketOf(k)' = b
        BY <1>2, <2>2
      <4> QED
        BY <2>5, <2>8, <4>1, <4>2, Zenon
    <3> QED
      BY <1>2, <2>5, <2>7, <3>1 DEF Home
  <2>14. Homes'
    BY <1>2, <1>3, <2>1, <2>11, <2>12, <2>13 DEF Homes
  <2> QED
    BY <1>1, <1>2, <1>3, <2>6, <2>9, <2>10, <2>14
<1> QED
  BY <1>4, <1>5

\* When all buckets are placed every slot is filled and every term resolves.
LEMMA CheckStep ==
    ASSUME BuildInv, Index!Check
    PROVE  BuildInv' /\ step' = "serve"
<1> USE DEF BuildInv
<1>1. /\ step = "place" /\ order = <<>> /\ Index!N # 0 /\ Terms /\ Slotted /\ Seeded
         /\ Homes
      /\ UNCHANGED Index!buildVars
  BY DEF Index!Check
<1>2. Placed = Index!Compiled
  BY <1>1 DEF Placed, Left
<1>3. \A i \in DOMAIN slots : slots[i] # None
  <2>1. Cardinality(Placed) = Index!N
    BY <1>1, <1>2, BucketTypes
  <2>2. {i \in 0 .. Index!N - 1 : slots[i] # None} = 0 .. Index!N - 1
    BY <1>1, <2>1, UsedSlots
  <2> QED
    BY <1>1, <2>2 DEF Slotted
<1>4. ASSUME NEW k \in Index!Compiled
      PROVE  /\ shift[BucketOf(k)] # None
             /\ \A i \in DOMAIN slots : Index!Sent(k, i) => slots[i] = k
  <2>1. Home(k) /\ None \notin Int
    BY <1>1, <1>2, IndexParameters DEF Homes, Index!Parameters
  <2>2. shift[BucketOf(k)] # None
    BY <2>1, Zenon DEF Home
  <2>3. \A i : Index!Sent(k, i) => slots[i] = k
    BY <2>1 DEF Home, Index!Sent, Index!SlotSeed, BucketOf
  <2> QED
    BY <2>2, <2>3
<1>5. step' = "serve"
  BY <1>1, <1>3, <1>4 DEF Index!Check, BucketOf
<1>6. UNCHANGED <<hash, seeded, terms, order, seed, slots, shift>>
  BY <1>1 DEF Index!buildVars
<1> QED
  BY <1>1, <1>5, <1>6 DEF Terms, InOrder, Index!Term, Index!N, Slotted, Ordered, Seeded,
     Homes, Home, Placed, Left, Index!Compiled, Index!Members, Index!BucketCount,
     Index!Buckets, BucketOf

-----------------------------------------------------------------------------
(* The index: lookups. *)

\* While the index is in use: every term resolves, and a binary search keeps
\* its term between its ends.
LookupInv ==
    /\ asked \in Keys \cup {None} /\ result \in Keys \cup {None}
    /\ low \in 0 .. Index!N /\ high \in 0 .. Index!N
    /\ step \in {"search", "scan", "found"} => asked \in Keys
    /\ step = "search" =>
        /\ \A i \in 0 .. low - 1 : hash[Index!Term(i)] < hash[asked]
        /\ \A i \in high .. Index!N - 1 : hash[Index!Term(i)] >= hash[asked]
    /\ step = "scan" =>
        /\ \A i \in 0 .. low - 1 : Index!Term(i) # asked
        /\ \A i \in low .. Index!N - 1 : hash[Index!Term(i)] >= hash[asked]
    /\ step = "found" => result = (IF asked \in Index!Compiled THEN asked ELSE None)

\* The invariant of the index.
IndexInv == BuildInv /\ LookupInv

\* A lookup leaves the index alone.
LEMMA LookupKeepsBuild ==
    ASSUME BuildInv, UNCHANGED Index!buildVars,
           step \in {"serve", "search", "scan", "found"},
             step' \in {"serve", "search", "scan", "found"}
    PROVE  BuildInv' /\ Index!N' = Index!N /\ Index!Compiled' = Index!Compiled
           /\ hash' = hash
           /\ \A i : Index!Term(i)' = Index!Term(i)
<1>1. UNCHANGED <<hash, seeded, terms, order, seed, slots, shift>>
  BY DEF Index!buildVars
<1>2. /\ Index!N' = Index!N /\ Index!Compiled' = Index!Compiled
      /\ \A i : Index!Term(i)' = Index!Term(i)
  BY <1>1 DEF Index!N, Index!Compiled, Index!Term
<1>3. /\ Index!Buckets' = Index!Buckets
      /\ \A k : BucketOf(k)' = BucketOf(k) /\ \A b : Index!Members(b)' = Index!Members(b)
  BY <1>1, <1>2 DEF Index!BucketCount, Index!Buckets, BucketOf, Index!Members
<1>4. Terms' = Terms /\ InOrder' = InOrder
  BY <1>1, <1>2 DEF Terms, InOrder
<1>5. Placed' = Placed
  BY <1>1, <1>2, <1>3 DEF Placed, Left
<1>6. \A k : Home(k)' = Home(k)
  BY <1>1, <1>2, <1>3 DEF Home
<1>7. Slotted' = Slotted /\ Ordered' = Ordered
  BY <1>1, <1>2, <1>3 DEF Slotted, Ordered
<1>8. Seeded' = Seeded /\ Homes' = Homes
  BY <1>1, <1>2, <1>5, <1>6 DEF Seeded, Homes
<1> QED
  BY <1>1, <1>2, <1>4, <1>7, <1>8 DEF BuildInv

\* The build looks nothing up.
LEMMA BuildStep ==
    ASSUME IndexInv, Index!Sort \/ Index!Place \/ Index!Single \/ Index!Check
    PROVE  IndexInv'
<1>1. BuildInv' /\ Index!N' = Index!N /\ step' \in {"place", "serve", "failed"}
  <2>1. CASE Index!Sort
    <3>1. BuildInv' /\ Index!N' = Index!N
      BY <2>1, SortStep DEF IndexInv
    <3>2. step' \in {"place", "serve"}
      BY <2>1 DEF Index!Sort
    <3> QED
      BY <3>1, <3>2
  <2>2. CASE Index!Place
    BY <2>2, PlaceStep DEF IndexInv, Index!Place, Index!N
  <2>3. CASE Index!Single
    <3>1. BuildInv' /\ Index!N' = Index!N /\ step' # "sort"
      BY <2>3, SingleStep DEF IndexInv, Index!Single, Index!N
    <3> QED
      BY <2>3, <3>1 DEF IndexInv, BuildInv, Index!Single
  <2>4. CASE Index!Check
    BY <2>4, CheckStep DEF IndexInv, Index!Check, Index!buildVars, Index!N
  <2> QED
    BY <2>1, <2>2, <2>3, <2>4
<1>2. UNCHANGED Index!lookupVars
  BY DEF Index!Sort, Index!Place, Index!Single, Index!Check
<1> QED
  BY <1>1, <1>2 DEF IndexInv, LookupInv, Index!lookupVars

\* A search begins between two entries of the fanout table.
LEMMA AskSortedStep ==
    ASSUME IndexInv, Index!AskSorted
    PROVE  IndexInv'
<1> USE DEF IndexInv, LookupInv
<1>1. PICK k \in Keys : /\ asked' = k /\ result' = None
                        /\ low' = Index!FanoutTable[hash[k] \div Width]
                        /\ high' = Index!FanoutTable[hash[k] \div Width + 1]
  BY DEF Index!AskSorted, Index!Ask
<1>2. UNCHANGED Index!buildVars /\ step = "serve" /\ step' = "search"
  BY DEF Index!AskSorted
<1>3. BuildInv' /\ Index!N' = Index!N /\ hash' = hash
      /\ \A i : Index!Term(i)' = Index!Term(i)
  BY <1>2, LookupKeepsBuild
<1>4. Terms /\ InOrder
  BY <1>2, <1>3 DEF BuildInv
<1>5. /\ low' \in 0 .. Index!N /\ high' \in 0 .. Index!N
      /\ \A i \in 0 .. low' - 1 : hash[Index!Term(i)] < hash[k]
      /\ \A i \in high' .. Index!N - 1 : hash[Index!Term(i)] > hash[k]
  BY <1>1, <1>4, BucketBounds
<1>6. hash[k] \in Nat /\ \A i \in 0 .. Index!N - 1 : hash[Index!Term(i)] \in Nat
  BY <1>4, TermTypes, BucketInTable DEF Terms
<1>7. \A i \in high' .. Index!N - 1 : hash[Index!Term(i)] >= hash[k]
  BY <1>4, <1>5, <1>6, TermTypes
<1> QED
  BY <1>1, <1>2, <1>3, <1>5, <1>7

\* A probe moves one end to the middle.
LEMMA ProbeStep ==
    ASSUME IndexInv, Index!Probe
    PROVE  IndexInv'
<1> USE DEF IndexInv, LookupInv
<1> DEFINE mid == low + (high - low) \div 2
<1>1. /\ step = "search" /\ low < high
         /\ UNCHANGED <<Index!buildVars, step, asked, result>>
      /\ \/ hash[Index!Term(mid)] < hash[asked] /\ low' = mid + 1 /\ high' = high
         \/ ~(hash[Index!Term(mid)] < hash[asked]) /\ high' = mid /\ low' = low
  BY DEF Index!Probe
<1>2. BuildInv' /\ Index!N' = Index!N /\ hash' = hash
      /\ \A i : Index!Term(i)' = Index!Term(i)
  BY <1>1, LookupKeepsBuild
<1>3. Terms /\ InOrder /\ asked \in Keys /\ Index!N \in Nat
  BY <1>1, TermTypes DEF BuildInv
<1>4. low \in Nat /\ high \in Nat /\ mid \in low .. high - 1
      /\ mid \in 0 .. Index!N - 1 /\ mid \in Nat
  BY <1>1, <1>3
<1>5. hash[asked] \in Nat /\ \A i \in 0 .. Index!N - 1 : hash[Index!Term(i)] \in Nat
  BY <1>3, TermTypes, BucketInTable DEF Terms
<1> HIDE DEF mid
<1>6. CASE hash[Index!Term(mid)] < hash[asked] /\ low' = mid + 1 /\ high' = high
  <2>1. \A i \in 0 .. mid : hash[Index!Term(i)] < hash[asked]
    <3> SUFFICES ASSUME NEW i \in 0 .. mid PROVE hash[Index!Term(i)] < hash[asked]
      OBVIOUS
    <3>1. i \in 0 .. Index!N - 1 /\ hash[Index!Term(i)] <= hash[Index!Term(mid)]
      BY <1>3, <1>4 DEF InOrder
    <3> QED
      BY <1>4, <1>5, <1>6, <3>1
  <2>2. low' \in 0 .. Index!N /\ 0 .. low' - 1 = 0 .. mid
    BY <1>3, <1>4, <1>6
  <2> QED
    BY <1>1, <1>2, <1>6, <2>1, <2>2
<1>7. CASE ~(hash[Index!Term(mid)] < hash[asked]) /\ high' = mid /\ low' = low
  <2>1. \A i \in mid .. Index!N - 1 : hash[Index!Term(i)] >= hash[asked]
    <3> SUFFICES ASSUME NEW i \in mid .. Index!N - 1
        PROVE hash[Index!Term(i)] >= hash[asked]
      OBVIOUS
    <3>1. i \in 0 .. Index!N - 1 /\ hash[Index!Term(mid)] <= hash[Index!Term(i)]
      BY <1>3, <1>4 DEF InOrder
    <3> QED
      BY <1>4, <1>5, <1>7, <3>1
  <2>2. high' \in 0 .. Index!N
    BY <1>3, <1>4, <1>7
  <2> QED
    BY <1>1, <1>2, <1>7, <2>1, <2>2
<1> QED
  BY <1>1, <1>6, <1>7 DEF mid

\* The scan ends at the key, or where no term can have it any more.
LEMMA ScanStep ==
    ASSUME IndexInv, Index!Scan
    PROVE  IndexInv'
<1> USE DEF IndexInv, LookupInv
<1> DEFINE r == Index!FanoutTable[hash[asked] \div Width + 1]
<1>1. /\ step \in {"search", "scan"} /\ (step = "search" => low >= high)
      /\ UNCHANGED <<Index!buildVars, asked, high>>
      /\ \/ /\ low < r /\ hash[Index!Term(low)] = hash[asked] /\ Index!Term(low) = asked
            /\ result' = asked /\ step' = "found" /\ low' = low
         \/ /\ low < r /\ hash[Index!Term(low)] = hash[asked] /\ Index!Term(low) # asked
            /\ low' = low + 1 /\ step' = "scan" /\ result' = result
         \/ /\ ~(low < r /\ hash[Index!Term(low)] = hash[asked])
            /\ result' = None /\ step' = "found" /\ low' = low
  BY DEF Index!Scan, Index!Answer
<1>2. BuildInv' /\ Index!N' = Index!N /\ Index!Compiled' = Index!Compiled
      /\ hash' = hash /\ \A i : Index!Term(i)' = Index!Term(i)
  BY <1>1, LookupKeepsBuild
<1>3. Terms /\ InOrder /\ asked \in Keys /\ Index!N \in Nat
  BY <1>1, TermTypes DEF BuildInv
<1>4. hash[asked] \in Nat /\ \A i \in 0 .. Index!N - 1 : hash[Index!Term(i)] \in Nat
  BY <1>3, TermTypes, BucketInTable DEF Terms
<1>5. r \in 0 .. Index!N /\ \A i \in 0 .. Index!N - 1 : Index!Term(i) = asked => i < r
  BY <1>3, BucketBounds
<1> HIDE DEF r
<1>6. \A i \in 0 .. low - 1 : Index!Term(i) # asked
  <2>1. CASE step = "search"
    <3> SUFFICES ASSUME NEW i \in 0 .. low - 1, Index!Term(i) = asked PROVE FALSE
      OBVIOUS
    <3>1. hash[Index!Term(i)] < hash[asked]
      BY <2>1
    <3> QED
      BY <1>4, <3>1
  <2> QED
    BY <1>1, <2>1
<1>7. \A i \in low .. Index!N - 1 : hash[Index!Term(i)] >= hash[asked]
  <2>1. CASE step = "search"
    <3>1. \A i \in low .. Index!N - 1 : i \in high .. Index!N - 1
      BY <1>1, <1>3, <2>1
    <3> QED
      BY <2>1, <3>1
  <2> QED
    BY <1>1, <2>1
<1>8. CASE low < r /\ Index!Term(low) = asked /\ result' = asked /\ step' = "found"
      /\ low' = low
  <2>1. low \in 0 .. Index!N - 1
    BY <1>3, <1>5, <1>8
  <2>2. asked \in Index!Compiled
    BY <1>3, <1>8, <2>1, TermTypes
  <2> QED
    BY <1>1, <1>2, <1>3, <1>8, <2>2
<1>9. CASE low < r /\ Index!Term(low) # asked /\ low' = low + 1 /\ step' = "scan"
      /\ result' = result
  <2>1. low' \in 0 .. Index!N /\ \A i \in low' .. Index!N - 1 : i \in low .. Index!N - 1
    BY <1>3, <1>5, <1>9
  <2>2. \A i \in 0 .. low' - 1 : i = low \/ i \in 0 .. low - 1
    BY <1>3, <1>9
  <2>3. /\ \A i \in 0 .. low' - 1 : Index!Term(i) # asked
        /\ \A i \in low' .. Index!N - 1 : hash[Index!Term(i)] >= hash[asked]
    BY <1>6, <1>7, <1>9, <2>1, <2>2
  <2> QED
    BY <1>1, <1>2, <1>3, <1>9, <2>1, <2>3
<1>10. CASE ~(low < r /\ hash[Index!Term(low)] = hash[asked]) /\ result' = None
       /\ step' = "found"
            /\ low' = low
  <2>1. asked \notin Index!Compiled
    <3> SUFFICES ASSUME asked \in Index!Compiled PROVE FALSE
      OBVIOUS
    <3>1. PICK i \in 0 .. Index!N - 1 : Index!Term(i) = asked
      BY <1>3, TermTypes
    <3>2. i < r /\ i >= low
      BY <1>3, <1>5, <1>6, <3>1
    <3>3. low < r /\ low \in 0 .. Index!N - 1
      BY <1>3, <1>5, <3>2
    <3>4. hash[Index!Term(low)] <= hash[Index!Term(i)]
          /\ hash[Index!Term(low)] >= hash[asked]
      BY <1>3, <1>7, <3>2, <3>3 DEF InOrder
    <3> QED
      BY <1>4, <1>10, <3>1, <3>3, <3>4
  <2> QED
    BY <1>1, <1>2, <1>3, <1>10, <2>1
<1> QED
  BY <1>1, <1>8, <1>9, <1>10

\* The slot of a compiled key holds it; the slot of another key holds a
\* compiled one.
LEMMA AskMphStep ==
    ASSUME IndexInv, Index!AskMph
    PROVE  IndexInv'
<1> USE DEF IndexInv, LookupInv
<1>1. PICK k \in Keys :
        /\ asked' = k
        /\ IF Index!N = 0 THEN Index!Answer(None)
           ELSE IF shift[hash[k] % Index!BucketCount] = None THEN Index!Answer(None)
           ELSE \E i \in 0 .. Index!N - 1 : Index!Sent(k, i)
             /\ Index!Answer(IF slots[i] = k THEN k ELSE None)
  BY DEF Index!AskMph
<1>2. UNCHANGED <<Index!buildVars, low, high>> /\ step = "serve" /\ step' = "found"
  BY DEF Index!AskMph, Index!Answer
<1>3. BuildInv' /\ Index!N' = Index!N /\ Index!Compiled' = Index!Compiled
  BY <1>2, LookupKeepsBuild
<1>4. Terms /\ order = <<>> /\ (Index!N # 0 => Slotted /\ Homes)
  BY <1>2 DEF BuildInv
<1>5. result' = (IF k \in Index!Compiled THEN k ELSE None)
  <2>1. CASE Index!N = 0
    <3>1. Index!Compiled = {}
      BY <1>4, <2>1, TermTypes
    <3> QED
      BY <1>1, <2>1, <3>1 DEF Index!Answer
  <2>2. CASE Index!N # 0 /\ k \in Index!Compiled
    <3>1. k \in Placed
      BY <1>4, <2>2 DEF Placed, Left
    <3>2. Home(k) /\ None \notin Int
      BY <1>4, <2>2, <3>1, IndexParameters DEF Homes, Index!Parameters
    <3>3. shift[BucketOf(k)] # None
      BY <3>2, Zenon DEF Home
    <3>4. \A i : Index!Sent(k, i) => slots[i] = k
      BY <3>2 DEF Home, Index!Sent, Index!SlotSeed, BucketOf
    <3> QED
      BY <1>1, <2>2, <3>3, <3>4 DEF Index!Answer, BucketOf
  <2>3. CASE Index!N # 0 /\ k \notin Index!Compiled
    <3>1. \A i \in 0 .. Index!N - 1 : slots[i] # k
      BY <1>4, <2>3, NoneIsNoKey DEF Slotted
    <3> QED
      BY <1>1, <2>3, <3>1 DEF Index!Answer
  <2> QED
    BY <2>1, <2>2, <2>3
<1> QED
  BY <1>1, <1>2, <1>3, <1>5

\* The preloaded map and the end of a lookup.
LEMMA OtherLookupStep ==
    ASSUME IndexInv, Index!AskPreload \/ Index!Return
    PROVE  IndexInv'
<1> USE DEF IndexInv, LookupInv
<1>1. CASE Index!AskPreload
  <2>1. PICK k \in Keys : asked' = k
        /\ Index!Answer(IF k \in Index!Compiled THEN k ELSE None)
    BY <1>1 DEF Index!AskPreload
  <2>2. UNCHANGED <<Index!buildVars, low, high>> /\ step = "serve" /\ step' = "found"
        /\ result' = (IF k \in Index!Compiled THEN k ELSE None)
    BY <1>1, <2>1 DEF Index!AskPreload, Index!Answer
  <2>3. BuildInv' /\ Index!N' = Index!N /\ Index!Compiled' = Index!Compiled
    BY <2>2, LookupKeepsBuild
  <2> QED
    BY <2>1, <2>2, <2>3
<1>2. CASE Index!Return
  <2>1. UNCHANGED Index!buildVars /\ step = "found" /\ step' = "serve" /\ asked' = None
        /\ result' = None /\ low' = 0 /\ high' = 0
    BY <1>2 DEF Index!Return
  <2>2. BuildInv' /\ Index!N' = Index!N
    BY <2>1, LookupKeepsBuild
  <2>3. Index!N \in Nat
    BY TermTypes DEF BuildInv
  <2> QED
    BY <2>1, <2>2, <2>3
<1> QED
  BY <1>1, <1>2

-----------------------------------------------------------------------------
(* The index as a whole. *)

\* The invariant holds before the terms are sorted.
LEMMA InitIndex == Index!Init => IndexInv
<1> SUFFICES ASSUME Index!Init PROVE IndexInv
  OBVIOUS
<1>1. BuildInv
  BY InitBuild
<1>2. Index!N \in Nat
  BY <1>1, TermTypes DEF BuildInv
<1> QED
  BY <1>1, <1>2 DEF Index!Init, IndexInv, LookupInv

\* It is kept by the build, by the lookups and by a step of another part.
LEMMA StepIndex == IndexInv /\ [Index!Next]_indexVars => IndexInv'
<1> SUFFICES ASSUME IndexInv, [Index!Next]_indexVars PROVE IndexInv'
  OBVIOUS
<1>1. CASE Index!Sort \/ Index!Place \/ Index!Single \/ Index!Check
  BY <1>1, BuildStep
<1>2. CASE Index!AskSorted
  BY <1>2, AskSortedStep
<1>3. CASE Index!Probe
  BY <1>3, ProbeStep
<1>4. CASE Index!Scan
  BY <1>4, ScanStep
<1>5. CASE Index!AskMph
  BY <1>5, AskMphStep
<1>6. CASE Index!AskPreload \/ Index!Return
  BY <1>6, OtherLookupStep
<1>7. CASE UNCHANGED indexVars
  BY <1>7 DEF IndexInv, LookupInv, indexVars, Index!buildVars, Index!lookupVars, BuildInv,
     Terms, InOrder, Index!Term, Index!N, Slotted, Ordered, Seeded, Homes, Home, Placed,
     Left, Index!Compiled, Index!Members, Index!BucketCount, Index!Buckets, BucketOf
<1> QED
  BY <1>1, <1>2, <1>3, <1>4, <1>5, <1>6, <1>7 DEF Index!Next

\* The properties of the index follow from it.
LEMMA IndexCorrect ==
    ASSUME IndexInv
    PROVE  Index!TypeOK /\ Index!LookupExact /\ Index!BuildSound /\ Index!Placement
           /\ Index!SearchNarrows
<1> USE DEF IndexInv
<1>1. Index!LookupExact /\ Index!BuildSound
  BY DEF BuildInv, LookupInv, Index!LookupExact, Index!BuildSound
<1>2. Index!Placement
  <2> SUFFICES ASSUME step = "place"
               PROVE  LET used == {i \in DOMAIN slots : slots[i] # None} IN
                      /\ {slots[i] : i \in used} = Placed
                      /\ Cardinality(used) = Cardinality(Placed)
    BY SameCardinality DEF Index!Placement, Placed, Left
  <2>1. Terms /\ Index!N # 0 /\ Slotted /\ Seeded /\ Homes
    BY DEF BuildInv
  <2>2. DOMAIN slots = 0 .. Index!N - 1
    BY <2>1 DEF Slotted
  <2> QED
    BY <2>1, <2>2, UsedSlots
<1>3. Index!SearchNarrows
  <2> SUFFICES ASSUME step = "search"
               PROVE  LET bucket == hash[asked] \div Width IN
                      \A i \in 0 .. Index!N - 1 : Index!Term(i) = asked =>
                        Index!FanoutTable[bucket] <= i
                          /\ i < Index!FanoutTable[bucket + 1]
    BY DEF Index!SearchNarrows, LookupInv
  <2>1. Terms /\ InOrder /\ asked \in Keys
    BY DEF BuildInv, LookupInv
  <2> QED
    BY <2>1, BucketBounds
<1>4. Index!TypeOK
  <2>1. Terms /\ seed \in Index!Seeds /\ Index!N \in Nat
    BY TermTypes DEF BuildInv
  <2>2. /\ \A p \in DOMAIN seeded : p \in Keys \X Index!Seeds
           /\ seeded[p] \in 0 .. Index!N - 1
        /\ order \in Seq(Nat)
        /\ \A i \in DOMAIN slots : slots[i] \in Keys \cup {None}
    <3>1. CASE step = "sort" \/ Index!N = 0
      <4>1. order = <<>> /\ slots = <<>> /\ seeded = <<>>
        BY <3>1 DEF BuildInv
      <4>2. DOMAIN slots = {} /\ DOMAIN seeded = {} /\ order \in Seq(Nat)
        BY <4>1
      <4> QED
        BY <4>2
    <3>2. CASE step # "sort" /\ Index!N # 0
      <4>1. Slotted /\ Ordered /\ Seeded /\ Index!Compiled \subseteq Keys
        BY <2>1, <3>2, TermTypes DEF BuildInv
      <4>2. Index!Buckets \subseteq Nat
        BY <2>1, <3>2, BucketTypes DEF Index!Buckets
      <4>3. order \in Seq(Nat)
        <5>1. order \in Seq(Index!Buckets) /\ Len(order) \in Nat
              /\ DOMAIN order = 1 .. Len(order)
          BY <4>1 DEF Ordered
        <5>2. \A i \in 1 .. Len(order) : order[i] \in Nat
          <6>1. \A i \in 1 .. Len(order) : order[i] \in Index!Buckets
            BY <5>1
          <6> QED
            BY <4>2, <6>1
        <5>3. order = [i \in 1 .. Len(order) |-> order[i]]
          BY <5>1
        <5> QED
          BY <5>1, <5>2, <5>3
      <4>4. \A i \in DOMAIN slots : slots[i] \in Keys \cup {None}
        BY <4>1 DEF Slotted
      <4> QED
        BY <4>1, <4>3, <4>4 DEF Seeded
    <3> QED
      BY <3>1, <3>2
  <2> QED
    BY <2>1, <2>2 DEF Index!TypeOK, Terms, BuildInv, LookupInv
<1> QED
  BY <1>1, <1>2, <1>3, <1>4

-----------------------------------------------------------------------------
(* The import: what it has read and noted at each stage. *)

FromPublish == {"publish", "activate"}
FromLinked == {"linked"} \cup FromPublish
FromSee == {"see", "link"} \cup FromLinked
FromAgain == {"again"} \cup FromSee
FromDatabase == {"database"} \cup FromAgain
FromMerge == {"merge"} \cup FromDatabase
FromOpen == {"open"} \cup FromMerge
FromStat == {"stat"} \cup FromOpen
FromPack == {"pack"} \cup FromStat
FromLookup == {"lookup"} \cup FromPack
Stages == {"idle", "lock", "manifest"} \cup FromLookup

\* The types: what changes has been counted.
Indexes == UNION {[DOMAIN r -> Nat] : r \in Tables}
FileStates == [state : Nat, whole : BOOLEAN]
Notes == [lookup : Nat \cup {None}, pack : (Port!Inodes \X Nat) \cup {None},
  db : Nat \cup {None}]
Counted(f) == \A x \in DOMAIN f : f[x].state <= changes
ImportTypes ==
    /\ dbs \in Seq(Tables) /\ 1 <= Len(dbs) /\ Len(dbs) <= changes + 1
    /\ bundle \in Bundles /\ sidecar \in Bundles
    /\ lookup \in [Bundles -> FileStates] /\ Counted(lookup)
    /\ inode \in [Port!Inodes -> FileStates] /\ Counted(inode)
    /\ packAt \in [Bundles -> Port!Inodes]
    /\ published \in [Bundles \X (1 .. MaxChanges + 1)
                        -> [index : Indexes \cup {Port!Torn},
                          pack : Port!Inodes] \cup {None}]
    /\ active # None => active.bundle \in Bundles /\ active.db \in 1 .. Len(dbs)
    /\ protected \in BOOLEAN /\ late \in BOOLEAN /\ phase \in Stages
    /\ found \in Bundles \cup {None} /\ noted \in Notes
       /\ link \in Port!Inodes \cup {None}
    /\ changes \in 0 .. MaxChanges /\ importFaults \in 0 .. MaxStops

\* A file in a state that was noted still holds what was verified then.
Held(file, state) ==
    state <= file.state /\ (file.state = state => file.whole)

\* The cells of an index lead through a table to the assets of the rows.
Leads(cells, table, r) ==
    /\ DOMAIN cells = DOMAIN r
    /\ \A id \in DOMAIN r : table[cells[id]] = r[id]

\* So does a pack, of which the inode was noted as well.
PackHeld(note) ==
    note \in Port!Inodes \X Nat /\ Held(inode[note[1]], note[2])

\* The bundle that was found, and the states its files were verified in.
VerifiedInv ==
    /\ phase \notin {"idle", "lock"} => ~protected
    /\ phase \in FromLookup => found \in Bundles
    /\ phase \in FromPack => noted.lookup \in Nat /\ Held(lookup[found], noted.lookup)
    /\ phase \in FromStat => PackHeld(noted.pack)

\* The rows that were read are those of the noted database.
ReadInv ==
    /\ phase \in FromOpen => noted.db \in 1 .. Len(dbs)
    /\ phase \in FromMerge => fetched \in Tables
    /\ phase \in FromMerge /\ Len(dbs) = noted.db => fetched = dbs[noted.db]
    /\ phase \in FromAgain => fetched = dbs[noted.db]

\* The index made from the rows leads to their assets.
IndexedInv ==
    /\ phase \in FromDatabase => index \in [DOMAIN fetched -> Nat]
    /\ phase \in FromDatabase /\ lookup[found].state = noted.lookup
         => Leads(index, found.table, fetched)
    /\ phase \in FromSee => Leads(index, found.table, fetched)

\* A pack is linked while it is whole, unless it was damaged since.
LinkedInv ==
    /\ phase \in FromLinked => link \in Port!Inodes
    /\ phase = "publish" => inode[link].whole \/ late
    /\ phase = "activate" =>
        /\ published[Port!Version] # None /\ published[Port!Version].index = index
        /\ inode[published[Port!Version].pack].whole \/ late

\* The invariant of the import.
ImportInv == ImportTypes /\ VerifiedInv /\ ReadInv /\ IndexedInv /\ LinkedInv

\* Inodes are numbers, and bundles can be counted.
LEMMA InodesOf == Port!Inodes \subseteq Nat /\ Cardinality(Bundles) \in Nat
BY FS_CardinalityType, ImportParameters, SameFiniteSets, SameCardinality
   DEF Port!Inodes, Port!Parameters

\* It holds before the first import.
LEMMA ImportInit == Port!Init => ImportInv
<1> SUFFICES ASSUME Port!Init PROVE ImportInv
  OBVIOUS
<1> USE ImportParameters DEF Port!Parameters
<1>1. packAt \in [Bundles -> 1 .. Cardinality(Bundles)]
  <2>1. PICK g : g \in Bijection(1 .. Cardinality(Bundles), Bundles)
    BY FS_CardinalityType, SameFiniteSets DEF ExistsBijection
  <2>2. Inverse(g, 1 .. Cardinality(Bundles), Bundles)
        \in Bijection(Bundles, 1 .. Cardinality(Bundles))
    BY <2>1, Fun_BijInverse
  <2>3. \E f \in [Bundles -> 1 .. Cardinality(Bundles)] :
           \A b, c \in Bundles : f[b] = f[c] => b = c
    BY <2>2 DEF Bijection, Injection, IsInjective
  <2> QED
    BY <2>3, SameCardinality DEF Port!Init
<1>2. packAt \in [Bundles -> Port!Inodes]
  BY <1>1, InodesOf, SameCardinality DEF Port!Inodes
<1>3. dbs \in Seq(Tables) /\ Len(dbs) = 1
  BY DEF Port!Init
<1>4. lookup \in [Bundles -> FileStates] /\ Counted(lookup)
  BY DEF Port!Init, FileStates, Counted
<1>5. inode \in [Port!Inodes -> FileStates] /\ Counted(inode)
  BY DEF Port!Init, FileStates, Counted
<1>6. ImportTypes
  <2>1. noted \in Notes
    BY DEF Port!Init, Notes, Port!Nothing
  <2>2. published \in [Bundles \X (1 .. MaxChanges + 1)
                        -> [index : Indexes \cup {Port!Torn},
                          pack : Port!Inodes] \cup {None}]
    BY DEF Port!Init
  <2>3. /\ bundle \in Bundles /\ sidecar = bundle /\ active = None /\ protected = FALSE
        /\ phase = "idle" /\ found = None /\ link = None /\ late = FALSE
        /\ changes = 0 /\ importFaults = 0
    BY DEF Port!Init
  <2>4. changes \in 0 .. MaxChanges /\ importFaults \in 0 .. MaxStops
    BY <2>3
  <2>5. dbs \in Seq(Tables) /\ 1 <= Len(dbs) /\ Len(dbs) <= changes + 1
    BY <1>3, <2>3
  <2> QED
    BY <1>2, <1>4, <1>5, <2>1, <2>2, <2>3, <2>4, <2>5 DEF ImportTypes, Stages
<1> QED
  BY <1>6 DEF Port!Init, ImportInv, VerifiedInv, ReadInv, IndexedInv, LinkedInv,
     FromLookup, FromPack, FromStat, FromOpen, FromMerge, FromDatabase, FromAgain,
     FromSee, FromLinked, FromPublish

-----------------------------------------------------------------------------
(* The import: what others do meanwhile. *)

\* What a change by others may do: databases are added, and a file that is
\* rewritten or made again has another state.
Moves(old, new) == \A x \in DOMAIN old :
    old[x].state < new[x].state \/ new[x] = old[x]

\* A file that was held is held while files only move on.
LEMMA StillHeld ==
    ASSUME NEW S, NEW old \in [S -> FileStates], NEW new \in [S -> FileStates],
           Moves(old, new),
           NEW x \in S, NEW n \in Nat, Held(old[x], n)
    PROVE  Held(new[x], n) /\ (new[x].state = n => old[x].state = n)
BY DEF Moves, Held, FileStates

\* A file that is rewritten or made again moves on by one.
LEMMA Rewritten ==
    ASSUME NEW S, NEW f \in [S -> FileStates], NEW x \in S, NEW n \in Nat,
           \A y \in DOMAIN f : f[y].state <= n,
           NEW g \in [S -> FileStates], g[x].state = f[x].state + 1,
           \A y \in S \ {x} : g[y] = f[y]
    PROVE  Moves(f, g) /\ \A y \in DOMAIN g : g[y].state <= n + 1
<1>3. Moves(f, g)
  BY DEF Moves, FileStates
<1>4. \A y \in DOMAIN g : g[y].state <= n + 1
  <2> SUFFICES ASSUME NEW y \in S PROVE g[y].state <= n + 1
    OBVIOUS
  <2>1. f[y].state <= n /\ f[y].state \in Nat /\ f[x].state <= n /\ f[x].state \in Nat
    BY DEF FileStates
  <2> QED
    BY <2>1
<1> QED
  BY <1>3, <1>4

\* The count of changes bounds the states of what does not change.
LEMMA StillCounted ==
    ASSUME ImportTypes, changes' \in Nat, changes <= changes'
    PROVE  /\ lookup' = lookup => Counted(lookup)'
           /\ inode' = inode => Counted(inode)'
<1>1. \A y \in DOMAIN lookup : lookup[y].state <= changes /\ lookup[y].state \in Nat
  BY DEF ImportTypes, Counted, FileStates
<1>2. \A y \in DOMAIN inode : inode[y].state <= changes /\ inode[y].state \in Nat
  BY DEF ImportTypes, Counted, FileStates
<1>3. \A n \in Nat : n <= changes => n <= changes'
  BY DEF ImportTypes
<1> QED
  BY <1>1, <1>2, <1>3 DEF Counted

\* And the state of what does by one.
LEMMA RewrittenCounted ==
    ASSUME ImportTypes, changes' = changes + 1, NEW w \in BOOLEAN
    PROVE  /\ \A b \in Bundles :
                lookup' = [lookup EXCEPT ![b] = [state |-> lookup[b].state + 1,
                  whole |-> w]]
                => lookup' \in [Bundles -> FileStates] /\ Moves(lookup, lookup')
                   /\ Counted(lookup)'
           /\ \A i \in Port!Inodes :
                inode' = [inode EXCEPT ![i] = [state |-> inode[i].state + 1, whole |-> w]]
                => inode' \in [Port!Inodes -> FileStates] /\ Moves(inode, inode')
                   /\ Counted(inode)'
<1>1. /\ lookup \in [Bundles -> FileStates]
         /\ \A y \in DOMAIN lookup : lookup[y].state <= changes
      /\ inode \in [Port!Inodes -> FileStates]
         /\ \A y \in DOMAIN inode : inode[y].state <= changes
      /\ changes \in Nat
  BY DEF ImportTypes, Counted
<1>2. ASSUME NEW b \in Bundles,
             lookup' = [lookup EXCEPT ![b] = [state |-> lookup[b].state + 1, whole |-> w]]
      PROVE  lookup' \in [Bundles -> FileStates] /\ Moves(lookup, lookup')
             /\ Counted(lookup)'
  <2>0. [state |-> lookup[b].state + 1, whole |-> w] \in FileStates
    BY <1>1 DEF FileStates
  <2>1. /\ lookup' \in [Bundles -> FileStates] /\ lookup'[b].state = lookup[b].state + 1
        /\ \A y \in Bundles \ {b} : lookup'[y] = lookup[y]
    BY <1>1, <1>2, <2>0
  <2>2. Moves(lookup, lookup')
        /\ \A y \in DOMAIN lookup' : lookup'[y].state <= changes + 1
    BY <1>1, <2>1, Rewritten
  <2> QED
    BY <2>1, <2>2 DEF Counted
<1>3. ASSUME NEW i \in Port!Inodes,
             inode' = [inode EXCEPT ![i] = [state |-> inode[i].state + 1, whole |-> w]]
      PROVE  inode' \in [Port!Inodes -> FileStates] /\ Moves(inode, inode')
             /\ Counted(inode)'
  <2>0. [state |-> inode[i].state + 1, whole |-> w] \in FileStates
    BY <1>1 DEF FileStates
  <2>1. /\ inode' \in [Port!Inodes -> FileStates] /\ inode'[i].state = inode[i].state + 1
        /\ \A y \in Port!Inodes \ {i} : inode'[y] = inode[y]
    BY <1>1, <1>3, <2>0
  <2>2. Moves(inode, inode') /\ \A y \in DOMAIN inode' : inode'[y].state <= changes + 1
    BY <1>1, <2>1, Rewritten
  <2> QED
    BY <2>1, <2>2 DEF Counted
<1> QED
  BY <1>2, <1>3

\* Another program's step that moves files on keeps what the import holds.
LEMMA WorldKeeps ==
    ASSUME ImportInv, ImportTypes',
           UNCHANGED <<active, phase, found, noted, fetched, index, link>>,
           \E s \in Seq(Tables) : dbs' = dbs \o s,
           Moves(lookup, lookup'), Moves(inode, inode'),
           phase \notin {"idle", "lock"} => protected' = protected
             /\ published' = published,
           late => late',
           inode' = inode \/ late' \/ phase \notin FromPublish
    PROVE  ImportInv'
<1> USE DEF ImportInv
<1>0. Port!Inodes' = Port!Inodes
  BY DEF Port!Inodes
<1>1. Len(dbs') >= Len(dbs) /\ \A n \in 1 .. Len(dbs) : dbs'[n] = dbs[n]
  BY DEF ImportTypes
<1>2. VerifiedInv'
  <2>1. ASSUME phase \in FromPack PROVE Held(lookup'[found], noted.lookup)
    <3>1. found \in Bundles /\ noted.lookup \in Nat /\ Held(lookup[found], noted.lookup)
      BY <2>1 DEF VerifiedInv, FromLookup
    <3> QED
      BY <3>1, StillHeld DEF ImportTypes
  <2>2. ASSUME phase \in FromStat PROVE PackHeld(noted.pack)'
    <3>1. noted.pack \in Port!Inodes \X Nat /\ Held(inode[noted.pack[1]], noted.pack[2])
      BY <2>2 DEF VerifiedInv, PackHeld
    <3> QED
      <4>1. inode \in [Port!Inodes -> FileStates]
            /\ inode' \in [Port!Inodes -> FileStates]
            /\ noted.pack[1] \in Port!Inodes /\ noted.pack[2] \in Nat
        BY <1>0, <3>1 DEF ImportTypes
      <4>2. Held(inode'[noted.pack[1]], noted.pack[2])
        BY <3>1, <4>1, StillHeld
      <4> QED
        BY <1>0, <3>1, <4>2 DEF PackHeld
  <2> QED
    BY <2>1, <2>2 DEF VerifiedInv, FromLookup
<1>3. ReadInv'
  BY <1>1 DEF ReadInv, ImportTypes, FromOpen, FromMerge, FromDatabase, FromAgain
<1>4. IndexedInv'
  <2>1. ASSUME phase \in FromDatabase, lookup'[found].state = noted.lookup
        PROVE  lookup[found].state = noted.lookup
    <3>1. found \in Bundles /\ noted.lookup \in Nat /\ Held(lookup[found], noted.lookup)
      BY <2>1 DEF VerifiedInv, FromLookup, FromPack, FromStat, FromOpen, FromMerge
    <3>2. lookup \in [Bundles -> FileStates] /\ lookup' \in [Bundles -> FileStates]
      BY DEF ImportTypes
    <3> QED
      BY <2>1, <3>1, <3>2, StillHeld
  <2> QED
    BY <2>1 DEF IndexedInv
<1>5. LinkedInv'
  <2>1. CASE phase \in FromPublish
    <3>1. inode' = inode \/ late'
      BY <2>1
    <3>2. protected' = protected /\ published' = published
      BY <2>1 DEF FromPublish
    <3> QED
      BY <1>0, <3>1, <3>2 DEF LinkedInv, Port!Version
  <2>2. CASE phase \notin FromPublish
    BY <1>0, <2>2 DEF LinkedInv, FromPublish
  <2> QED
    BY <2>1, <2>2
<1> QED
  BY <1>2, <1>3, <1>4, <1>5

\* Every step of another program is such a step.
LEMMA WorldStep ==
    ASSUME ImportInv, Port!World
    PROVE  ImportInv'
<1> USE ImportParameters DEF Port!Parameters
<1>0. ImportTypes /\ changes \in Nat /\ MaxChanges \in Nat /\ Port!Inodes' = Port!Inodes
  BY DEF ImportInv, ImportTypes, Port!Inodes
<1>1. CASE Port!ReplaceDatabase
  <2>1. PICK t \in Tables : dbs' = Append(dbs, t)
    BY <1>1 DEF Port!ReplaceDatabase
  <2>2. <<t>> \in Seq(Tables) /\ dbs' = dbs \o <<t>> /\ dbs' \in Seq(Tables)
        /\ Len(dbs') = Len(dbs) + 1
    BY <1>0, <2>1 DEF ImportTypes
  <2>3. UNCHANGED <<bundle, sidecar, lookup, packAt, inode, protected, published, late>>
    BY <1>1 DEF Port!ReplaceDatabase, Port!bundleVars
  <2>4. /\ UNCHANGED <<active, phase, found, noted, fetched, index, link, importFaults>>
        /\ changes' = changes + 1 /\ changes' \in 0 .. MaxChanges
    BY <1>0, <1>1 DEF Port!ReplaceDatabase, Port!ImportKept, Port!Change
  <2>5. Counted(lookup)' /\ Counted(inode)'
    BY <1>0, <2>3, <2>4, StillCounted DEF ImportTypes
  <2>6. ImportTypes'
    BY <1>0, <2>2, <2>3, <2>4, <2>5 DEF ImportTypes
  <2> QED
    BY <2>2, <2>3, <2>4, <2>6, WorldKeeps DEF Moves
<1>2. CASE Port!Compile \/ Port!WriteSidecar
  <2>1. UNCHANGED <<dbs, lookup, packAt, inode, protected, published, late>>
        /\ bundle' \in Bundles /\ sidecar' \in Bundles
    BY <1>0, <1>2 DEF ImportTypes, Port!Compile, Port!WriteSidecar
  <2>2. /\ UNCHANGED <<active, phase, found, noted, fetched, index, link, importFaults>>
        /\ changes' \in {changes, changes + 1} /\ changes' \in 0 .. MaxChanges
    BY <1>0, <1>2 DEF Port!Compile, Port!WriteSidecar, Port!ImportKept, Port!Change,
       ImportTypes
  <2>3. Counted(lookup)' /\ Counted(inode)'
    BY <1>0, <2>1, <2>2, StillCounted DEF ImportTypes
  <2>4. ImportTypes'
    BY <1>0, <2>1, <2>2, <2>3 DEF ImportTypes
  <2>5. dbs' = dbs \o <<>> /\ <<>> \in Seq(Tables)
    BY <1>0, <2>1 DEF ImportTypes
  <2> QED
    BY <2>1, <2>2, <2>4, <2>5, WorldKeeps DEF Moves
<1>3. ASSUME NEW b \in Bundles, Port!CompileAgain(b) PROVE ImportInv'
  <2>1. UNCHANGED <<dbs, bundle, sidecar, inode, protected, published, late>>
    BY <1>3 DEF Port!CompileAgain
  <2>2. /\ UNCHANGED <<active, phase, found, noted, fetched, index, link, importFaults>>
        /\ changes' = changes + 1 /\ changes' \in 0 .. MaxChanges
    BY <1>0, <1>3 DEF Port!CompileAgain, Port!ImportKept, Port!Change
  <2>3. lookup' = [lookup EXCEPT ![b] = [state |-> lookup[b].state + 1, whole |-> TRUE]]
    BY <1>3 DEF Port!CompileAgain
  <2>4. lookup' \in [Bundles -> FileStates] /\ Moves(lookup, lookup') /\ Counted(lookup)'
    BY <1>0, <2>2, <2>3, RewrittenCounted
  <2>5. packAt' \in [Bundles -> Port!Inodes]
    BY <1>0, <1>3, <2>2, InodesOf, SameCardinality
      DEF Port!CompileAgain, ImportTypes, Port!Inodes
  <2>6. Counted(inode)'
    BY <1>0, <2>1, <2>2, StillCounted DEF ImportTypes
  <2>7. ImportTypes'
    BY <1>0, <2>1, <2>2, <2>4, <2>5, <2>6 DEF ImportTypes
  <2>8. dbs' = dbs \o <<>> /\ <<>> \in Seq(Tables)
    BY <1>0, <2>1 DEF ImportTypes
  <2> QED
    BY <2>1, <2>2, <2>4, <2>7, <2>8, WorldKeeps DEF Moves
<1>4. ASSUME NEW b \in Bundles, Port!Rewrite(b) PROVE ImportInv'
  <2>1. UNCHANGED <<dbs, bundle, sidecar, packAt, protected, published>>
    BY <1>4 DEF Port!Rewrite
  <2>2. /\ UNCHANGED <<active, phase, found, noted, fetched, index, link, importFaults>>
        /\ changes' = changes + 1 /\ changes' \in 0 .. MaxChanges
    BY <1>0, <1>4 DEF Port!Rewrite, Port!ImportKept, Port!Change
  <2>3. \/ /\ lookup' = [lookup EXCEPT ![b] = [state |-> lookup[b].state + 1,
              whole |-> FALSE]]
           /\ UNCHANGED <<inode, late>>
        \/ /\ inode' = [inode EXCEPT ![packAt[b]] = [state |-> inode[packAt[b]].state + 1,
                whole |-> FALSE]]
           /\ late' = (late \/ phase \in {"publish", "activate"}) /\ lookup' = lookup
    BY <1>4 DEF Port!Rewrite
  <2>4. Counted(lookup) /\ Counted(inode) /\ late' \in BOOLEAN /\ (late => late')
        /\ (inode' = inode \/ late' \/ phase \notin FromPublish)
    BY <1>0, <2>3 DEF ImportTypes, FromPublish
  <2>5. lookup' \in [Bundles -> FileStates] /\ Moves(lookup, lookup') /\ Counted(lookup)'
    <3>1. CASE lookup' = lookup
      BY <1>0, <2>2, <2>4, <3>1 DEF ImportTypes, Counted, FileStates, Moves
    <3>2. CASE lookup' # lookup
      BY <1>0, <2>2, <2>3, <3>2, RewrittenCounted
    <3> QED
      BY <3>1, <3>2
  <2>6. inode' \in [Port!Inodes -> FileStates] /\ Moves(inode, inode') /\ Counted(inode)'
    <3>1. CASE inode' = inode
      BY <1>0, <2>2, <2>4, <3>1 DEF ImportTypes, Counted, FileStates, Moves
    <3>2. CASE inode' # inode
      <4>1. packAt[b] \in Port!Inodes
        BY <1>0 DEF ImportTypes
      <4> QED
        BY <1>0, <2>2, <2>3, <3>2, <4>1, RewrittenCounted
    <3> QED
      BY <3>1, <3>2
  <2>8. ImportTypes'
    BY <1>0, <2>1, <2>2, <2>4, <2>5, <2>6 DEF ImportTypes
  <2>9. dbs' = dbs \o <<>> /\ <<>> \in Seq(Tables)
    BY <1>0, <2>1 DEF ImportTypes
  <2> QED
    BY <2>1, <2>2, <2>4, <2>5, <2>6, <2>8, <2>9, WorldKeeps
<1>5. ASSUME NEW v \in DOMAIN published, Port!DamageIndex(v) PROVE ImportInv'
  <2>1. UNCHANGED <<dbs, bundle, sidecar, lookup, packAt, inode, protected, late>>
        /\ phase = "idle"
    BY <1>5 DEF Port!DamageIndex, Port!worldVars, Port!bundleVars
  <2>2. /\ UNCHANGED <<active, phase, found, noted, fetched, index, link, importFaults>>
        /\ changes' = changes + 1 /\ changes' \in 0 .. MaxChanges
    BY <1>0, <1>5 DEF Port!DamageIndex, Port!ImportKept, Port!Change
  <2>3. Counted(lookup)' /\ Counted(inode)'
    BY <1>0, <2>1, <2>2, StillCounted DEF ImportTypes
  <2>4. published' \in [Bundles \X (1 .. MaxChanges + 1)
                        -> [index : Indexes \cup {Port!Torn},
                          pack : Port!Inodes] \cup {None}]
    <3>1. published[v] \in [index : Indexes \cup {Port!Torn}, pack : Port!Inodes]
      BY <1>0, <1>5 DEF ImportTypes, Port!DamageIndex
    <3>2. [published[v] EXCEPT !.index = Port!Torn]
          \in [index : Indexes \cup {Port!Torn}, pack : Port!Inodes]
      BY <3>1
    <3>3. published' = [published EXCEPT ![v] = [published[v] EXCEPT !.index = Port!Torn]]
      BY <1>0, <1>5 DEF Port!DamageIndex, ImportTypes
    <3> QED
      BY <1>0, <3>2, <3>3 DEF ImportTypes
  <2>5. ImportTypes'
    BY <1>0, <2>1, <2>2, <2>3, <2>4 DEF ImportTypes
  <2>6. dbs' = dbs \o <<>> /\ <<>> \in Seq(Tables)
    BY <1>0, <2>1 DEF ImportTypes
  <2> QED
    BY <2>1, <2>2, <2>5, <2>6, WorldKeeps DEF Moves
<1>6. CASE Port!Protect
  <2>1. UNCHANGED <<dbs, bundle, sidecar, lookup, packAt, inode, published, late>>
        /\ phase \in {"idle", "lock"} /\ protected' \in BOOLEAN
    BY <1>6 DEF Port!Protect, Port!bundleVars
  <2>2. /\ UNCHANGED <<active, phase, found, noted, fetched, index, link, importFaults>>
        /\ changes' = changes + 1 /\ changes' \in 0 .. MaxChanges
    BY <1>0, <1>6 DEF Port!Protect, Port!ImportKept, Port!Change
  <2>3. Counted(lookup)' /\ Counted(inode)'
    BY <1>0, <2>1, <2>2, StillCounted DEF ImportTypes
  <2>4. ImportTypes'
    BY <1>0, <2>1, <2>2, <2>3 DEF ImportTypes
  <2>5. dbs' = dbs \o <<>> /\ <<>> \in Seq(Tables)
    BY <1>0, <2>1 DEF ImportTypes
  <2> QED
    BY <2>1, <2>2, <2>4, <2>5, WorldKeeps DEF Moves
<1> QED
  BY <1>1, <1>2, <1>3, <1>4, <1>5, <1>6 DEF Port!World

-----------------------------------------------------------------------------
(* The import: its own steps. *)

\* An import that ends or fails has read nothing.
LEMMA QuitKeeps ==
    ASSUME ImportInv, Port!Quit, UNCHANGED <<Port!worldVars, published, changes>>,
           active' # None => active'.bundle \in Bundles /\ active'.db \in 1 .. Len(dbs),
           importFaults' \in 0 .. MaxStops
    PROVE  ImportInv'
<1>1. /\ UNCHANGED <<dbs, bundle, sidecar, lookup, packAt, inode, protected>>
      /\ phase' = "idle" /\ found' = None /\ noted' = Port!Nothing /\ link' = None
         /\ late' = FALSE
      /\ UNCHANGED <<published, changes>>
  BY DEF Port!worldVars, Port!bundleVars, Port!Quit
<1>2. noted' \in Notes /\ Notes' = Notes /\ Port!Inodes' = Port!Inodes
  BY <1>1 DEF Port!Nothing, Notes, Port!Inodes
<1>3. ImportTypes'
  BY <1>1, <1>2 DEF ImportInv, ImportTypes, Stages, Counted
<1> QED
  BY <1>1, <1>3 DEF ImportInv, VerifiedInv, ReadInv, IndexedInv, LinkedInv, FromLookup,
     FromPack, FromStat, FromOpen, FromMerge, FromDatabase, FromAgain, FromSee,
     FromLinked, FromPublish

\* A step that goes on leaves the disk alone.
LEMMA Goes ==
    ASSUME ImportInv, NEW to \in Stages,
           phase' = to, UNCHANGED <<Port!worldVars, published, active, changes,
             importFaults>>,
           late' = late, found' \in Bundles \cup {None}, noted' \in Notes,
           link' \in Port!Inodes \cup {None}
    PROVE  /\ UNCHANGED <<dbs, lookup, packAt, inode, protected, published>>
           /\ ImportTypes' /\ Port!Inodes' = Port!Inodes
<1>1. UNCHANGED <<dbs, bundle, sidecar, lookup, packAt, inode, protected>>
  BY DEF Port!worldVars, Port!bundleVars
<1>2. Notes' = Notes /\ Port!Inodes' = Port!Inodes
  BY DEF Notes, Port!Inodes
<1> QED
  BY <1>1, <1>2 DEF ImportInv, ImportTypes, Counted

\* A step that does not find what it needs ends the import.
LEMMA Ends ==
    ASSUME ImportInv, Port!Quit,
           UNCHANGED <<Port!worldVars, published, active, changes, importFaults>>
    PROVE  ImportInv'
<1>1. importFaults' \in 0 .. MaxStops
      /\ (active' # None => active'.bundle \in Bundles /\ active'.db \in 1 .. Len(dbs))
  BY DEF ImportInv, ImportTypes
<1> QED
  BY <1>1, QuitKeeps

\* Steps that only look, and change nothing.
LEMMA LookStep ==
    ASSUME ImportInv, Port!CheckProtected \/ Port!TakeLock \/ Port!RecheckDatabase
           \/ Port!RecheckLookup
                 \/ Port!SeePack \/ Port!CheckLink
    PROVE  ImportInv'
<1> USE DEF FromLookup, FromPack, FromStat, FromOpen, FromMerge, FromDatabase, FromAgain,
            FromSee, FromLinked, FromPublish
<1> SUFFICES ASSUME UNCHANGED <<Port!worldVars, published, active, changes,
                    importFaults>>,
                    UNCHANGED Port!localVars, phase' \in Stages,
                    \/ phase = "idle" /\ ~protected /\ phase' = "lock"
                    \/ phase = "lock" /\ ~protected /\ phase' = "manifest"
                    \/ phase = "database" /\ Port!Stamp = noted.db /\ phase' = "again"
                    \/ phase = "again" /\ lookup[found].state = noted.lookup
                       /\ phase' = "see"
                    \/ phase = "see" /\ phase' = "link"
                    \/ phase = "linked" /\ link = packAt[found]
                       /\ Port!PackState(link) = noted.pack
                       /\ phase' = "publish"
             PROVE  ImportInv'
  BY Ends DEF Port!CheckProtected, Port!TakeLock, Port!RecheckDatabase,
     Port!RecheckLookup, Port!SeePack, Port!CheckLink, Port!Step, Port!Keep, Stages
<1>1. UNCHANGED <<found, noted, fetched, index, link, late>>
  BY DEF Port!localVars
<1>2. /\ UNCHANGED <<dbs, lookup, packAt, inode, protected, published>>
      /\ ImportTypes' /\ Port!Inodes' = Port!Inodes
  BY <1>1, Goes DEF ImportInv, ImportTypes
<1>3. VerifiedInv'
  BY <1>1, <1>2 DEF ImportInv, VerifiedInv, PackHeld
<1>4. ReadInv'
  BY <1>1, <1>2 DEF ImportInv, ReadInv, Port!Stamp
<1>5. IndexedInv'
  BY <1>1, <1>2 DEF ImportInv, IndexedInv
<1>6. LinkedInv'
  <2>1. CASE phase = "linked"
    <3>1. noted.pack \in Port!Inodes \X Nat /\ Held(inode[noted.pack[1]], noted.pack[2])
      BY <2>1 DEF ImportInv, VerifiedInv, PackHeld
    <3>2. noted.pack[1] = link /\ noted.pack[2] = inode[link].state
      BY <2>1 DEF Port!PackState
    <3>3. inode[link].whole
      BY <3>1, <3>2 DEF Held
    <3> QED
      BY <1>1, <1>2, <2>1, <3>3 DEF ImportInv, LinkedInv
  <2> QED
    BY <1>1, <1>2, <2>1 DEF ImportInv, LinkedInv
<1> QED
  BY <1>2, <1>3, <1>4, <1>5, <1>6 DEF ImportInv

\* Steps that read the manifest and hash the files.
LEMMA HashStep ==
    ASSUME ImportInv, Port!ReadManifest \/ Port!HashLookup \/ Port!HashPack
           \/ Port!StatDatabase
    PROVE  ImportInv'
<1> USE DEF FromLookup, FromPack, FromStat, FromOpen, FromMerge, FromDatabase, FromAgain,
            FromSee, FromLinked, FromPublish
<1> SUFFICES ASSUME UNCHANGED <<Port!worldVars, published, active, changes,
                    importFaults>>,
                    UNCHANGED <<fetched, index, link, late>>,
                    \/ phase = "manifest" /\ phase' = "lookup" /\ found' = bundle
                       /\ noted' = noted
                    \/ /\ phase = "lookup" /\ lookup[found].whole /\ phase' = "pack"
                       /\ noted' = [noted EXCEPT !.lookup = lookup[found].state]
                       /\ found' = found
                    \/ /\ phase = "pack" /\ inode[packAt[found]].whole /\ phase' = "stat"
                       /\ noted' = [noted EXCEPT !.pack = Port!PackState(packAt[found])]
                       /\ found' = found
                    \/ /\ phase = "stat" /\ phase' = "open"
                       /\ noted' = [noted EXCEPT !.db = Port!Stamp] /\ found' = found
             PROVE  ImportInv'
  BY Ends DEF Port!ReadManifest, Port!HashLookup, Port!HashPack, Port!StatDatabase,
     Port!Step, Port!Keep, Port!Note
<1> USE DEF ImportInv
<1>0. /\ ImportTypes /\ UNCHANGED <<dbs, lookup, packAt, inode, protected, published>>
      /\ Port!Inodes' = Port!Inodes /\ Port!Stamp \in Nat
  BY DEF Port!worldVars, Port!bundleVars, ImportTypes, Port!Inodes, Port!Stamp
<1>1. CASE phase = "manifest"
  <2>1. ImportTypes'
    BY <1>1, Goes DEF ImportTypes, Stages
  <2> QED
    BY <1>0, <1>1, <2>1 DEF VerifiedInv, ReadInv, IndexedInv, LinkedInv, ImportTypes
<1>2. CASE phase = "lookup"
  <2>1. found \in Bundles /\ lookup[found].state \in Nat
    BY <1>0, <1>2 DEF VerifiedInv, ImportTypes, FileStates
  <2>2. noted' \in Notes /\ noted'.lookup = lookup[found].state
    <3>1. noted' = [noted EXCEPT !.lookup = lookup[found].state]
      BY <1>2
    <3> QED
      BY <1>0, <2>1, <3>1 DEF ImportTypes, Notes
  <2>3. ImportTypes'
    BY <1>0, <1>2, <2>2, Goes DEF ImportTypes, Stages
  <2>4. VerifiedInv'
    BY <1>0, <1>2, <2>1, <2>2 DEF VerifiedInv, Held
  <2> QED
    BY <1>0, <1>2, <2>3, <2>4 DEF ReadInv, IndexedInv, LinkedInv
<1>3. CASE phase = "pack"
  <2>1. /\ found \in Bundles /\ packAt[found] \in Port!Inodes
           /\ inode[packAt[found]].state \in Nat
        /\ Port!PackState(packAt[found]) \in Port!Inodes \X Nat
    BY <1>0, <1>3 DEF VerifiedInv, ImportTypes, FileStates, Port!PackState
  <2>2. noted' \in Notes /\ noted'.pack = Port!PackState(packAt[found])
        /\ noted'.lookup = noted.lookup
    <3>1. noted' = [noted EXCEPT !.pack = Port!PackState(packAt[found])]
      BY <1>3
    <3> QED
      BY <1>0, <2>1, <3>1 DEF ImportTypes, Notes
  <2>3. ImportTypes'
    BY <1>0, <1>3, <2>2, Goes DEF ImportTypes, Stages
  <2>4. PackHeld(noted'.pack)
    BY <1>3, <2>1, <2>2 DEF PackHeld, Held, Port!PackState
  <2>5. VerifiedInv'
    BY <1>0, <1>3, <2>1, <2>2, <2>4 DEF VerifiedInv, PackHeld
  <2> QED
    BY <1>0, <1>3, <2>3, <2>5 DEF ReadInv, IndexedInv, LinkedInv
<1>4. CASE phase = "stat"
  <2>1. noted' \in Notes /\ noted'.db = Port!Stamp /\ noted'.pack = noted.pack
        /\ noted'.lookup = noted.lookup
    <3>1. noted' = [noted EXCEPT !.db = Port!Stamp]
      BY <1>4
    <3> QED
      BY <1>0, <3>1 DEF ImportTypes, Notes
  <2>2. ImportTypes'
    BY <1>0, <1>4, <2>1, Goes DEF ImportTypes, Stages
  <2>3. VerifiedInv'
    BY <1>0, <1>4, <2>1 DEF VerifiedInv, PackHeld
  <2>4. ReadInv'
    BY <1>0, <1>4, <2>1 DEF ReadInv, ImportTypes, Port!Stamp
  <2> QED
    BY <1>0, <1>4, <2>2, <2>3, <2>4 DEF IndexedInv, LinkedInv
<1> QED
  BY <1>1, <1>2, <1>3, <1>4

\* The rows are read, and merged with the table.
LEMMA MergeStep ==
    ASSUME ImportInv, Port!OpenDatabase \/ Port!Merge
    PROVE  ImportInv'
<1> USE DEF FromLookup, FromPack, FromStat, FromOpen, FromMerge, FromDatabase, FromAgain,
            FromSee, FromLinked, FromPublish
<1> DEFINE Cells(table) == [id \in DOMAIN fetched |->
                              CHOOSE i \in DOMAIN table : table[i] = fetched[id]]
<1> SUFFICES ASSUME UNCHANGED <<Port!worldVars, published, active, changes,
                    importFaults>>,
                    UNCHANGED <<found, noted, link, late>>,
                    \/ phase = "open" /\ phase' = "merge" /\ fetched' = dbs[Port!Stamp]
                    \/ /\ phase = "merge" /\ phase' = "database" /\ fetched' = fetched
                       /\ \E table \in Port!TableRead :
                            Port!Enumerates(table, fetched) /\ index' = Cells(table)
             PROVE  ImportInv'
  BY Ends DEF Port!OpenDatabase, Port!Merge, Port!Step, Port!Keep
<1> USE DEF ImportInv
<1>0. /\ ImportTypes' /\ ImportTypes
         /\ UNCHANGED <<dbs, lookup, packAt, inode, protected, published>>
      /\ Port!Inodes' = Port!Inodes
  BY Goes DEF ImportTypes, Stages
<1>1. VerifiedInv'
  BY <1>0 DEF VerifiedInv, PackHeld
<1>2. CASE phase = "open"
  <2>1. ReadInv'
    BY <1>0, <1>2 DEF ReadInv, ImportTypes, Port!Stamp
  <2> QED
    BY <1>0, <1>1, <1>2, <2>1 DEF IndexedInv, LinkedInv
<1>3. CASE phase = "merge"
  <2>1. PICK table \in Port!TableRead : Port!Enumerates(table, fetched)
        /\ index' = Cells(table)
    BY <1>3
  <2>2. fetched \in Tables /\ found \in Bundles
    BY <1>3 DEF ReadInv, VerifiedInv
  <2>3. table \in Seq(Nat)
    BY <2>1, <2>2, ImportParameters DEF Port!TableRead, Port!Parameters
  <2>4. \A id \in DOMAIN fetched : \E i \in DOMAIN table : table[i] = fetched[id]
    BY <2>1 DEF Port!Enumerates, Port!Assets
  <2>5. \A id \in DOMAIN fetched :
           index'[id] \in DOMAIN table /\ table[index'[id]] = fetched[id]
    BY <2>1, <2>4
  <2>6. index' \in [DOMAIN fetched -> Nat]
    <3>1. DOMAIN table \subseteq Nat
      BY <2>3
    <3>2. index' = [id \in DOMAIN fetched |-> index'[id]]
      BY <2>1
    <3> QED
      BY <2>5, <3>1, <3>2
  <2>7. Leads(index', table, fetched)
    BY <2>5, <2>6 DEF Leads
  <2>8. lookup[found].state = noted.lookup => table = found.table
    BY <1>3, <2>1 DEF VerifiedInv, Held, Port!TableRead
  <2>9. IndexedInv'
    BY <1>0, <1>3, <2>6, <2>7, <2>8 DEF IndexedInv
  <2>10. ReadInv'
    BY <1>0, <1>3 DEF ReadInv
  <2> QED
    BY <1>0, <1>1, <1>3, <2>9, <2>10 DEF LinkedInv
<1> QED
  BY <1>2, <1>3

\* The pack is linked.
LEMMA LinkStep ==
    ASSUME ImportInv, Port!LinkPack
    PROVE  ImportInv'
<1> USE DEF FromLookup, FromPack, FromStat, FromOpen, FromMerge, FromDatabase, FromAgain,
            FromSee, FromLinked, FromPublish
<1>1. /\ UNCHANGED <<Port!worldVars, published, active, changes, importFaults>>
      /\ UNCHANGED <<found, noted, fetched, index, late>>
      /\ phase = "link" /\ phase' = "linked" /\ link' = packAt[found]
  BY DEF Port!LinkPack, Port!Step, Port!Keep
<1> USE DEF ImportInv
<1>2. link' \in Port!Inodes
  BY <1>1 DEF VerifiedInv, ImportTypes
<1>3. /\ ImportTypes' /\ UNCHANGED <<dbs, lookup, packAt, inode, protected, published>>
      /\ Port!Inodes' = Port!Inodes
  BY <1>1, <1>2, Goes DEF ImportTypes, Stages
<1> QED
  BY <1>1, <1>2, <1>3 DEF VerifiedInv, PackHeld, ReadInv, IndexedInv, LinkedInv

\* The version is published, or found as it would have been.
LEMMA PublishStep ==
    ASSUME ImportInv, Port!Publish
    PROVE  ImportInv'
<1> USE DEF ImportInv
<1>0. /\ UNCHANGED <<Port!worldVars, active, changes, importFaults>>
         /\ phase = "publish" /\ ImportTypes
      /\ phase \in FromLinked /\ phase \in FromSee /\ phase \in FromAgain
         /\ phase \in FromDatabase
      /\ phase \in FromMerge /\ phase \in FromOpen /\ phase \in FromStat
         /\ phase \in FromPack
      /\ phase \in FromLookup
  BY DEF Port!Publish, FromLookup, FromPack, FromStat, FromOpen, FromMerge, FromDatabase,
     FromAgain, FromSee, FromLinked, FromPublish
<1>1. /\ found \in Bundles /\ noted.db \in 1 .. Len(dbs) /\ link \in Port!Inodes
      /\ fetched \in Tables /\ index \in [DOMAIN fetched -> Nat]
      /\ inode[link].whole \/ late
      /\ noted.pack \in Port!Inodes \X Nat /\ Held(inode[noted.pack[1]], noted.pack[2])
  BY <1>0 DEF VerifiedInv, ReadInv, IndexedInv, LinkedInv, PackHeld
<1>2. Port!Version \in DOMAIN published /\ MaxChanges \in Nat
  BY <1>0, <1>1, ImportParameters DEF Port!Version, ImportTypes, Port!Parameters
<1>3. /\ UNCHANGED <<dbs, bundle, sidecar, lookup, packAt, inode, protected>>
      /\ Port!Inodes' = Port!Inodes /\ Notes' = Notes
  BY <1>0 DEF Port!worldVars, Port!bundleVars, Port!Inodes, Notes
<1>4. ASSUME phase' = "activate", UNCHANGED <<found, noted, fetched, index, link>>,
             late' \in BOOLEAN,
             published' \in [Bundles \X (1 .. MaxChanges + 1)
                        -> [index : Indexes \cup {Port!Torn},
                          pack : Port!Inodes] \cup {None}],
             published'[Port!Version] # None, published'[Port!Version].index = index,
             inode[published'[Port!Version].pack].whole \/ late'
      PROVE  ImportInv'
  <2>1. ImportTypes'
    BY <1>0, <1>3, <1>4 DEF ImportTypes, Counted, Stages, FromLookup, FromPack, FromStat,
       FromOpen, FromMerge, FromDatabase, FromAgain, FromSee, FromLinked, FromPublish
  <2>2. VerifiedInv'
    BY <1>0, <1>3, <1>4 DEF VerifiedInv, PackHeld
  <2>3. ReadInv'
    BY <1>0, <1>3, <1>4 DEF ReadInv
  <2>4. IndexedInv'
    BY <1>0, <1>3, <1>4 DEF IndexedInv
  <2>5. LinkedInv'
    BY <1>0, <1>1, <1>3, <1>4 DEF LinkedInv, Port!Version
  <2> QED
    BY <2>1, <2>2, <2>3, <2>4, <2>5
<1>5. CASE published[Port!Version] = None
  <2>1. /\ published' = [published EXCEPT ![Port!Version] = Port!Built]
           /\ phase' = "activate"
        /\ UNCHANGED <<found, noted, fetched, index, link, late>>
    BY <1>5 DEF Port!Publish, Port!localVars
  <2>2. index \in Indexes
    BY <1>1 DEF Indexes
  <2>3. Port!Built \in [index : Indexes \cup {Port!Torn}, pack : Port!Inodes]
        /\ Port!Built # None
    BY <1>1, <2>2, InodesOf, ImportParameters DEF Port!Built, Port!Parameters, Indexes
  <2>4. published'[Port!Version] = Port!Built
    BY <1>0, <1>2, <2>1 DEF ImportTypes
  <2>5. published' \in [Bundles \X (1 .. MaxChanges + 1)
                        -> [index : Indexes \cup {Port!Torn},
                          pack : Port!Inodes] \cup {None}]
    BY <1>0, <2>1, <2>3 DEF ImportTypes
  <2> QED
    BY <1>0, <1>1, <1>4, <2>1, <2>3, <2>4, <2>5 DEF Port!Built, ImportTypes
<1>6. CASE published[Port!Version] # None /\ Port!Compatible
  <2>1. /\ published' = published /\ phase' = "activate" /\ late' = FALSE
        /\ UNCHANGED <<found, noted, fetched, index, link>>
    BY <1>6 DEF Port!Publish
  <2>2. inode[packAt[found]].whole /\ published[Port!Version].index = index
        /\ published[Port!Version].pack = packAt[found]
    BY <1>1, <1>6 DEF Port!Compatible, Port!PackState, Held
  <2> QED
    BY <1>0, <1>4, <1>6, <2>1, <2>2 DEF ImportTypes
<1>7. CASE published[Port!Version] # None /\ ~Port!Compatible
  BY <1>0, <1>7, Ends DEF Port!Publish
<1> QED
  BY <1>5, <1>6, <1>7

\* The version is named, or the program stops.
LEMMA EndStep ==
    ASSUME ImportInv, Port!Activate \/ Port!Stop
    PROVE  ImportInv'
<1> USE DEF ImportInv
<1>1. CASE Port!Activate
  <2>1. /\ found \in Bundles /\ noted.db \in 1 .. Len(dbs)
        /\ active' = [bundle |-> found, db |-> noted.db]
    BY <1>1 DEF Port!Activate, VerifiedInv, ReadInv, FromLookup, FromPack, FromStat,
       FromOpen, FromMerge, FromDatabase, FromAgain, FromSee, FromLinked, FromPublish
  <2> QED
    BY <1>1, <2>1, QuitKeeps DEF Port!Activate, ImportTypes
<1>2. CASE Port!Stop
  <2>1. importFaults' \in 0 .. MaxStops
    BY <1>2, ImportParameters DEF Port!Stop, ImportTypes, Port!Parameters
  <2> QED
    BY <1>2, <2>1, QuitKeeps DEF Port!Stop, ImportTypes
<1> QED
  BY <1>1, <1>2

\* Every step of the import, and of others, keeps the invariant.
LEMMA ImportStep == ImportInv /\ [Port!Next]_importVars => ImportInv'
<1> SUFFICES ASSUME ImportInv, [Port!Next]_importVars PROVE ImportInv'
  OBVIOUS
<1>1. CASE Port!Next
  BY <1>1, LookStep, HashStep, MergeStep, LinkStep, PublishStep, EndStep, WorldStep
     DEF Port!Next, Port!Import
<1>2. CASE UNCHANGED importVars
  <2>1. /\ UNCHANGED <<dbs, bundle, sidecar, lookup, packAt, inode, protected>>
        /\ UNCHANGED <<found, noted, fetched, index, link, late>>
        /\ UNCHANGED <<published, active, phase, changes, importFaults>>
        /\ Port!Inodes' = Port!Inodes /\ Notes' = Notes
    BY <1>2 DEF importVars, Port!worldVars, Port!bundleVars, Port!localVars, Port!Inodes,
       Notes
  <2>2. ImportTypes' /\ VerifiedInv'
    BY <2>1 DEF ImportInv, ImportTypes, Counted, VerifiedInv, PackHeld
  <2>3. ReadInv' /\ IndexedInv' /\ LinkedInv'
    BY <2>1 DEF ImportInv, ReadInv, IndexedInv, LinkedInv, Port!Version
  <2> QED
    BY <2>2, <2>3 DEF ImportInv
<1> QED
  BY <1>1, <1>2

\* Only a version that was verified is made active.
LEMMA Activates == ImportInv /\ [Port!Next]_importVars => Port!ActivatesVerified
<1> SUFFICES ASSUME ImportInv, [Port!Next]_importVars, active' # active
    PROVE Port!ActivatesVerified
  BY DEF Port!ActivatesVerified
<1>1. Port!Activate
  BY DEF Port!Next, Port!Import, Port!World, importVars, Port!ReplaceDatabase,
     Port!Compile, Port!WriteSidecar, Port!CompileAgain, Port!Rewrite, Port!DamageIndex,
     Port!Protect, Port!ImportKept, Port!Stop, Port!CheckProtected, Port!TakeLock,
     Port!ReadManifest, Port!HashLookup, Port!HashPack, Port!StatDatabase,
     Port!OpenDatabase, Port!Merge, Port!RecheckDatabase, Port!RecheckLookup,
     Port!SeePack, Port!LinkPack, Port!CheckLink, Port!Publish, Port!Step
<1>2. /\ phase = "activate" /\ active' = [bundle |-> found, db |-> noted.db]
      /\ UNCHANGED <<dbs, published, inode>>
  BY <1>1 DEF Port!Activate, Port!worldVars, Port!bundleVars
<1>3. /\ ~protected /\ found \in Bundles /\ noted.db \in 1 .. Len(dbs)
      /\ fetched = dbs[noted.db] /\ Leads(index, found.table, fetched)
      /\ published[Port!Version] # None /\ published[Port!Version].index = index
      /\ inode[published[Port!Version].pack].whole \/ late
  BY <1>2 DEF ImportInv, VerifiedInv, ReadInv, IndexedInv, LinkedInv, FromLookup,
     FromPack, FromStat, FromOpen, FromMerge, FromDatabase, FromAgain, FromSee,
     FromLinked, FromPublish
<1>4. <<active'.bundle, active'.db>> = Port!Version /\ active'.db = noted.db
      /\ dbs[active'.db] = fetched /\ Port!Version[1] = found
  BY <1>2, <1>3 DEF Port!Version
<1>5. Port!LeadsToClips(Port!Version, fetched) /\ Port!PackVerified(Port!Version)
  BY <1>3, <1>4 DEF Port!LeadsToClips, Port!PackVerified, Leads
<1> QED
  BY <1>3, <1>4, <1>5 DEF Port!ActivatesVerified

-----------------------------------------------------------------------------
(* The selection: sorting. *)

\* A finite set whose elements are in order can be listed in that order: each
\* element is put after those that are below it.
LEMMA Arrangeable ==
    ASSUME NEW S, IsFiniteSet(S), NEW R,
           \A x, y \in S : x # y => <<x, y>> \in R \/ <<y, x>> \in R,
           \A x, y \in S : ~(<<x, y>> \in R /\ <<y, x>> \in R),
           \A x, y, z \in S : <<x, y>> \in R /\ <<y, z>> \in R => <<x, z>> \in R
    PROVE  \E s \in Choice!SetToSeqs(S) : \A i, j \in DOMAIN s : i < j
           => <<s[i], s[j]>> \in R
<1> DEFINE n == Cardinality(S)
           below(x) == {y \in S : <<y, x>> \in R}
           pos == [x \in S |-> Cardinality(below(x)) + 1]
<1>1. n \in Nat
  BY FS_CardinalityType
<1>2. ASSUME NEW x \in S
      PROVE  /\ IsFiniteSet(below(x)) /\ Cardinality(below(x)) \in Nat
             /\ pos[x] \in 1 .. n
  <2>1. below(x) \in SUBSET (S \ {x}) /\ pos[x] = Cardinality(below(x)) + 1
    OBVIOUS
  <2> HIDE DEF below, pos
  <2>2. IsFiniteSet(S \ {x}) /\ Cardinality(S \ {x}) = n - 1
    BY FS_RemoveElement
  <2>3. IsFiniteSet(below(x)) /\ Cardinality(below(x)) <= n - 1
    BY <2>1, <2>2, FS_Subset
  <2>4. Cardinality(below(x)) \in Nat
    BY <2>3, FS_CardinalityType
  <2> QED
    BY <1>1, <2>1, <2>3, <2>4
<1>3. ASSUME NEW x \in S, NEW y \in S, <<x, y>> \in R
      PROVE  pos[x] < pos[y]
  <2>1. below(x) \in SUBSET below(y) /\ x \in below(y) /\ x \notin below(x)
        /\ pos[x] = Cardinality(below(x)) + 1 /\ pos[y] = Cardinality(below(y)) + 1
    BY <1>3
  <2> HIDE DEF below, pos
  <2>2. Cardinality(below(x)) <= Cardinality(below(y))
        /\ Cardinality(below(y)) # Cardinality(below(x))
    BY <1>2, <2>1, FS_Subset
  <2>3. Cardinality(below(x)) \in Nat /\ Cardinality(below(y)) \in Nat
    BY <1>2
  <2> QED
    BY <2>1, <2>2, <2>3
<1>4. \A x, y \in S : pos[x] = pos[y] => x = y
  <2> SUFFICES ASSUME NEW x \in S, NEW y \in S, x # y PROVE pos[x] # pos[y]
    OBVIOUS
  <2> HIDE DEF pos, below
  <2>1. pos[x] < pos[y] \/ pos[y] < pos[x]
    BY <1>3
  <2>2. pos[x] \in 1 .. n /\ pos[y] \in 1 .. n
    BY <1>2
  <2> HIDE DEF n
  <2> QED
    BY <1>1, <2>1, <2>2
<1>5. pos \in [S -> 1 .. n]
  BY <1>2
<1> HIDE DEF pos, below
<1>6. \A i \in 1 .. n : \E x \in S : pos[x] = i
  <2>1. pos \in Injection(S, 1 .. n)
    BY <1>4, <1>5 DEF Injection, IsInjective
  <2>2. IsFiniteSet(1 .. n) /\ Cardinality(1 .. n) = n
    BY <1>1, FS_Interval
  <2>3. pos \in Surjection(S, 1 .. n)
    BY <2>1, <2>2, FS_Injection
  <2> QED
    BY <2>3 DEF Surjection
<1> DEFINE s == [i \in 1 .. n |-> CHOOSE x \in S : pos[x] = i]
<1>7. \A i \in 1 .. n : s[i] \in S /\ pos[s[i]] = i
  BY <1>6
<1>8. s \in Choice!SetToSeqs(S)
  <2>1. s \in [1 .. n -> S]
    BY <1>7
  <2>2. \A i, j \in 1 .. n : i # j => s[i] # s[j]
    BY <1>7
  <2> QED
    BY <2>1, <2>2, SameCardinality DEF Choice!SetToSeqs
<1>9. ASSUME NEW i \in DOMAIN s, NEW j \in DOMAIN s, i < j PROVE <<s[i], s[j]>> \in R
  <2>1. i \in 1 .. n /\ j \in 1 .. n
    OBVIOUS
  <2>2. s[i] \in S /\ s[j] \in S /\ pos[s[i]] = i /\ pos[s[j]] = j
    BY <1>7, <2>1
  <2> HIDE DEF s
  <2>3. s[i] # s[j]
    BY <1>9, <2>1, <2>2
  <2>4. <<s[i], s[j]>> \in R \/ <<s[j], s[i]>> \in R
    BY <2>2, <2>3
  <2>5. CASE <<s[j], s[i]>> \in R
    <3>1. pos[s[j]] < pos[s[i]]
      BY <1>3, <2>2, <2>5
    <3> QED
      BY <1>9, <2>1, <2>2, <3>1
  <2> QED
    BY <2>4, <2>5
<1> HIDE DEF s
<1> QED
  BY <1>8, <1>9

\* Keys of the same length compare like numbers do.
Keyed(S, n, key) ==
    /\ IsFiniteSet(S) /\ n \in Nat /\ key \in [S -> [1 .. n -> Nat]]
    /\ \A x, y \in S : key[x] = key[y] => x = y

\* Such keys are in a strict order in which any two things compare.
LEMMA LessOrders ==
    ASSUME NEW S, NEW n, NEW key, Keyed(S, n, key)
    PROVE  /\ \A x, y \in S : x # y => Choice!Less(key[x], key[y])
              \/ Choice!Less(key[y], key[x])
           /\ \A x, y \in S :
              ~(Choice!Less(key[x], key[y]) /\ Choice!Less(key[y], key[x]))
           /\ \A x, y, z \in S : Choice!Less(key[x], key[y])
              /\ Choice!Less(key[y], key[z])
                                   => Choice!Less(key[x], key[z])
<1> USE DEF Keyed
<1>1. ASSUME NEW x \in S, NEW y \in S, x # y
      PROVE  Choice!Less(key[x], key[y]) \/ Choice!Less(key[y], key[x])
  <2> DEFINE D == {i \in 1 .. n : key[x][i] # key[y][i]}
  <2>1. D # {} /\ D \in SUBSET Nat
    <3>1. key[x] \in [1 .. n -> Nat] /\ key[y] \in [1 .. n -> Nat] /\ key[x] # key[y]
      BY <1>1
    <3> QED
      BY <3>1
  <2>2. PICK i \in D : \A j \in D : i <= j
    BY <2>1, LeastNumber
  <2>3. i \in 1 .. n /\ key[x][i] # key[y][i]
        /\ \A j \in 1 .. i - 1 : key[x][j] = key[y][j]
    BY <2>2
  <2>4. key[x][i] \in Nat /\ key[y][i] \in Nat /\ i \in DOMAIN key[x]
        /\ i \in DOMAIN key[y]
    BY <2>3
  <2>5. key[x][i] < key[y][i] \/ key[y][i] < key[x][i]
    BY <2>3, <2>4
  <2>6. CASE key[x][i] < key[y][i]
    BY <2>3, <2>4, <2>6 DEF Choice!Less
  <2>7. CASE key[y][i] < key[x][i]
    BY <2>3, <2>4, <2>7 DEF Choice!Less
  <2> QED
    BY <2>5, <2>6, <2>7
<1>2. ASSUME NEW x \in S, NEW y \in S, Choice!Less(key[x], key[y]),
             Choice!Less(key[y], key[x])
      PROVE  FALSE
  <2>1. PICK i \in 1 .. n : key[x][i] < key[y][i]
        /\ \A j \in 1 .. i - 1 : key[x][j] = key[y][j]
    BY <1>2 DEF Choice!Less
  <2>2. PICK k \in 1 .. n : key[y][k] < key[x][k]
        /\ \A j \in 1 .. k - 1 : key[y][j] = key[x][j]
    BY <1>2 DEF Choice!Less
  <2>3. /\ key[x][i] \in Nat /\ key[y][i] \in Nat /\ key[x][k] \in Nat
           /\ key[y][k] \in Nat
    OBVIOUS
  <2>4. CASE i < k
    BY <2>1, <2>2, <2>3, <2>4
  <2>5. CASE k < i
    BY <2>1, <2>2, <2>3, <2>5
  <2>6. CASE k = i
    BY <2>1, <2>2, <2>3, <2>6
  <2> QED
    BY <2>4, <2>5, <2>6
<1>3. ASSUME NEW x \in S, NEW y \in S, NEW z \in S,
             Choice!Less(key[x], key[y]), Choice!Less(key[y], key[z])
      PROVE  Choice!Less(key[x], key[z])
  <2>1. PICK i \in 1 .. n : key[x][i] < key[y][i]
        /\ \A j \in 1 .. i - 1 : key[x][j] = key[y][j]
    BY <1>3 DEF Choice!Less
  <2>2. PICK k \in 1 .. n : key[y][k] < key[z][k]
        /\ \A j \in 1 .. k - 1 : key[y][j] = key[z][j]
    BY <1>3 DEF Choice!Less
  <2>3. /\ key[x][i] \in Nat /\ key[y][i] \in Nat /\ key[z][i] \in Nat
        /\ key[x][k] \in Nat /\ key[y][k] \in Nat /\ key[z][k] \in Nat
        /\ DOMAIN key[x] = 1 .. n
    OBVIOUS
  <2>4. CASE i <= k
    <3>1. key[x][i] < key[z][i]
      <4>1. i = k \/ i \in 1 .. k - 1
        BY <2>4
      <4>2. key[y][i] <= key[z][i]
        BY <2>2, <2>3, <4>1
      <4> QED
        BY <2>1, <2>3, <4>2
    <3>2. \A j \in 1 .. i - 1 : key[x][j] = key[z][j]
      <4>1. 1 .. i - 1 \subseteq 1 .. k - 1
        BY <2>4
      <4> QED
        BY <2>1, <2>2, <4>1
    <3> QED
      BY <2>3, <3>1, <3>2 DEF Choice!Less
  <2>5. CASE k < i
    <3>1. key[x][k] < key[z][k] /\ \A j \in 1 .. k - 1 : key[x][j] = key[z][j]
      BY <2>1, <2>2, <2>3, <2>5
    <3> QED
      BY <2>3, <3>1 DEF Choice!Less
  <2> QED
    BY <2>4, <2>5
<1> QED
  BY <1>1, <1>2, <1>3

\* What has a key is listed once, in the order of the keys.
LEMMA SortedLists ==
    ASSUME NEW S, NEW n, NEW key, Keyed(S, n, key)
    PROVE  LET s == Choice!Sorted(key) IN
           /\ s \in Seq(S) /\ s \in [1 .. Cardinality(S) -> S] /\ Len(s) = Cardinality(S)
           /\ DOMAIN s = 1 .. Cardinality(S) /\ Cardinality(S) \in Nat
           /\ \A x \in S : \E i \in DOMAIN s : s[i] = x
           /\ \A i, j \in DOMAIN s : i < j => Choice!Less(key[s[i]], key[s[j]])
<1> DEFINE R == {p \in S \X S : Choice!Less(key[p[1]], key[p[2]])}
           s == Choice!Sorted(key)
           c == Cardinality(S)
<1>1. c \in Nat /\ IsFiniteSet(S) /\ DOMAIN key = S
  BY FS_CardinalityType DEF Keyed
<1>2. \A x, y \in S : <<x, y>> \in R <=> Choice!Less(key[x], key[y])
  OBVIOUS
<1> HIDE DEF R
<1>3. \E t \in Choice!SetToSeqs(S) : \A i, j \in DOMAIN t : i < j => <<t[i], t[j]>> \in R
  <2>1. /\ \A x, y \in S : x # y => <<x, y>> \in R \/ <<y, x>> \in R
        /\ \A x, y \in S : ~(<<x, y>> \in R /\ <<y, x>> \in R)
        /\ \A x, y, z \in S : <<x, y>> \in R /\ <<y, z>> \in R => <<x, z>> \in R
    BY <1>2, LessOrders
  <2> QED
    BY <1>1, <2>1, Arrangeable
<1>4. \A t \in Choice!SetToSeqs(S) : DOMAIN t = 1 .. c /\ \A i \in DOMAIN t : t[i] \in S
  BY SameCardinality DEF Choice!SetToSeqs
<1>5. Choice!Arranged(key) # {}
  BY <1>1, <1>2, <1>3, <1>4 DEF Choice!Arranged
<1>6. s \in Choice!Arranged(key)
  BY <1>5 DEF Choice!Sorted
<1> HIDE DEF s
<1>7. /\ s \in [1 .. c -> S] /\ \A i, j \in 1 .. c : i # j => s[i] # s[j]
      /\ \A i, j \in DOMAIN s : i < j => Choice!Less(key[s[i]], key[s[j]])
  BY <1>1, <1>6, SameCardinality DEF Choice!Arranged, Choice!SetToSeqs
<1>8. s \in Injection(1 .. c, S)
  BY <1>7 DEF Injection, IsInjective
<1>9. IsFiniteSet(1 .. c) /\ Cardinality(1 .. c) = c
  BY <1>1, FS_Interval
<1>10. s \in Surjection(1 .. c, S)
  BY <1>1, <1>8, <1>9, FS_Injection
<1>11. \A x \in S : \E i \in DOMAIN s : s[i] = x
  BY <1>7, <1>10 DEF Surjection
<1>12. s \in Seq(S) /\ Len(s) = c
  BY <1>1, <1>7
<1> QED
  BY <1>1, <1>7, <1>11, <1>12 DEF s

\* What is least comes first.
Least(S, key, b) ==
    \/ S = {} /\ b = None
    \/ b \in S /\ \A x \in S : x = b \/ Choice!Less(key[b], key[x])

\* So it is the head of the sorted list.
LEMMA FirstIsLeast ==
    ASSUME NEW S, NEW n, NEW key, Keyed(S, n, key), NEW b, Least(S, key, b)
    PROVE  Choice!FirstOf(Choice!Sorted(key)) = b
<1> DEFINE s == Choice!Sorted(key)
<1>1. /\ s \in Seq(S) /\ DOMAIN s = 1 .. Cardinality(S) /\ Len(s) = Cardinality(S)
      /\ \A x \in S : \E i \in DOMAIN s : s[i] = x
      /\ \A i, j \in DOMAIN s : i < j => Choice!Less(key[s[i]], key[s[j]])
      /\ Cardinality(S) \in Nat
  BY SortedLists
<1> HIDE DEF s
<1>2. CASE S = {} /\ b = None
  <2>1. Cardinality(S) = 0
    BY <1>2, FS_EmptySet
  <2>2. s = <<>>
    BY <1>1, <2>1
  <2> QED
    BY <1>2, <2>2 DEF Choice!FirstOf, s
<1>3. CASE b \in S /\ \A x \in S : x = b \/ Choice!Less(key[b], key[x])
  <2>1. PICK i \in 1 .. Cardinality(S) : s[i] = b
    BY <1>1, <1>3
  <2>2. 1 \in DOMAIN s /\ s[1] \in S /\ s # <<>>
    BY <1>1, <2>1
  <2>3. s[1] = b
    <3> SUFFICES ASSUME s[1] # b PROVE FALSE
      OBVIOUS
    <3>1. Choice!Less(key[b], key[s[1]])
      BY <1>3, <2>2
    <3>2. Choice!Less(key[s[1]], key[b])
      BY <1>1, <2>1, <2>2
    <3> QED
      BY <1>3, <2>2, <3>1, <3>2, LessOrders
  <2> QED
    BY <2>2, <2>3 DEF Choice!FirstOf, s
<1> QED
  BY <1>2, <1>3 DEF Least

\* Keys that put the same things in the same order sort them alike.
LEMMA SortedAlike ==
    ASSUME NEW key, NEW other, IsFiniteSet(DOMAIN key), DOMAIN other = DOMAIN key,
           \A x, y \in DOMAIN key : Choice!Less(key[x], key[y]) <=>
                 Choice!Less(other[x], other[y])
    PROVE  Choice!Sorted(key) = Choice!Sorted(other)
<1>1. \A s \in Choice!SetToSeqs(DOMAIN key) : \A i \in DOMAIN s : s[i] \in DOMAIN key
  BY DEF Choice!SetToSeqs
<1>2. Choice!Arranged(key) = Choice!Arranged(other)
  BY <1>1 DEF Choice!Arranged
<1> QED
  BY <1>2 DEF Choice!Sorted

-----------------------------------------------------------------------------
(* The selection: ranks and lists. *)

\* The sizes are positive, and None is none of the numbers.
LEMMA NoneIsNoNumber == None \notin Nat /\ RowCount \in Nat \ {0} /\ Sources \in Nat \ {0}
BY SelectionParameters DEF Choice!Parameters

\* A listed value has the rank of its first place, another one comes last.
LEMMA RankTypes ==
    ASSUME NEW list \in Seq(Nat), NEW x
    PROVE  /\ Choice!Rank(list, x) \in 1 .. Len(list) + 1
           /\ Choice!Listed(list, x) <=>
                  Choice!Rank(list, x) \in DOMAIN list /\ list[Choice!Rank(list, x)] = x
           /\ ~Choice!Listed(list, x) => Choice!Rank(list, x) = Len(list) + 1
<1>1. Len(list) \in Nat /\ DOMAIN list = 1 .. Len(list)
  OBVIOUS
<1>2. CASE Choice!Places(list, x) = {}
  <2>1. \A i \in DOMAIN list : list[i] # x
    BY <1>2 DEF Choice!Places
  <2> QED
    BY <1>1, <1>2, <2>1 DEF Choice!Rank, Choice!Listed
<1>3. CASE Choice!Places(list, x) # {}
  <2>1. Choice!Places(list, x) \in SUBSET Nat
        /\ Choice!Places(list, x) \in SUBSET DOMAIN list
    BY <1>1 DEF Choice!Places
  <2>2. \E i \in Choice!Places(list, x) : \A j \in Choice!Places(list, x) : i <= j
    BY <1>3, <2>1, LeastNumber
  <2>3. Choice!Rank(list, x) \in Choice!Places(list, x)
    BY <1>3, <2>2 DEF Choice!Rank
  <2> QED
    BY <1>1, <1>3, <2>1, <2>3 DEF Choice!Listed, Choice!Places
<1> QED
  BY <1>2, <1>3

\* Sources that are not named rank as they are configured.
LEMMA RankOfAll ==
    /\ Choice!AllSources \in Seq(Nat)
    /\ \A x \in 1 .. Sources : Choice!Rank(Choice!AllSources, x) = x
       /\ Choice!Listed(Choice!AllSources, x)
<1>1. Choice!AllSources \in Seq(Nat) /\ DOMAIN Choice!AllSources = 1 .. Sources
      /\ \A i \in 1 .. Sources : Choice!AllSources[i] = i
  BY NoneIsNoNumber DEF Choice!AllSources
<1>2. ASSUME NEW x \in 1 .. Sources PROVE Choice!Listed(Choice!AllSources, x)
  BY <1>1 DEF Choice!Listed, Choice!Places
<1>3. ASSUME NEW x \in 1 .. Sources PROVE Choice!Rank(Choice!AllSources, x) = x
  <2>1. Choice!Rank(Choice!AllSources, x) \in DOMAIN Choice!AllSources
        /\ Choice!AllSources[Choice!Rank(Choice!AllSources, x)] = x
    BY <1>1, <1>2, RankTypes
  <2> QED
    BY <1>1, <2>1
<1> QED
  BY <1>1, <1>2, <1>3

\* A sequence of numbers in ascending order that leaves out none up to n.
LEMMA CountsUp ==
    ASSUME NEW n \in Nat, NEW s \in [1 .. n -> 1 .. n],
           \A i, j \in 1 .. n : i < j => s[i] < s[j],
           \A x \in 1 .. n : \E i \in 1 .. n : s[i] = x
    PROVE  \A i \in 1 .. n : s[i] = i
<1> DEFINE D == {i \in 1 .. n : s[i] # i}
<1> SUFFICES ASSUME D # {} PROVE FALSE
  OBVIOUS
<1>1. D \in SUBSET Nat
  OBVIOUS
<1>2. PICK i \in D : \A j \in D : i <= j
  BY <1>1, LeastNumber
<1>3. i \in 1 .. n /\ s[i] # i /\ \A j \in 1 .. n : j < i => s[j] = j
  BY <1>2
<1> HIDE DEF D
<1>4. s[i] \in 1 .. n
  BY <1>3
<1>5. s[i] > i
  <2> SUFFICES ASSUME s[i] < i PROVE FALSE
    BY <1>3, <1>4
  <2>1. s[s[i]] = s[i]
    BY <1>3, <1>4
  <2>2. s[s[i]] < s[i]
    BY <1>3, <1>4
  <2> QED
    BY <1>4, <2>1, <2>2
<1>6. PICK k \in 1 .. n : s[k] = i
  BY <1>3
<1>7. CASE k < i
  BY <1>3, <1>6, <1>7
<1>8. CASE k = i
  BY <1>3, <1>6, <1>8
<1>9. CASE i < k
  <2>1. s[i] < s[k]
    BY <1>3, <1>9
  <2> QED
    BY <1>3, <1>4, <1>5, <1>6, <2>1
<1> QED
  BY <1>3, <1>6, <1>7, <1>8, <1>9

\* A list without blanks is kept as it is, and an absent one is empty.
LEMMA NamedLists ==
    /\ Choice!Named(None) = <<>>
    /\ \A list \in Seq(Nat) : ~Choice!Listed(list, 0) /\ list # None
       => Choice!Named(list) = list
<1> DEFINE key(K) == [i \in K |-> <<i>>]
<1>1. ASSUME NEW n \in Nat PROVE Keyed(1 .. n, 1, key(1 .. n)) /\ IsFiniteSet(1 .. n)
                                 /\ Cardinality(1 .. n) = n
  <2>1. IsFiniteSet(1 .. n) /\ Cardinality(1 .. n) = n
    BY FS_Interval
  <2>2. \A i \in 1 .. n : <<i>> \in [1 .. 1 -> Nat]
    OBVIOUS
  <2> QED
    BY <2>1, <2>2 DEF Keyed
<1>2. ASSUME NEW n \in Nat
      PROVE  LET s == Choice!Sorted(key(1 .. n)) IN DOMAIN s = 1 .. n
             /\ \A i \in 1 .. n : s[i] = i
  <2> DEFINE s == Choice!Sorted(key(1 .. n))
             S == 1 .. n
             k == key(1 .. n)
  <2>1. Keyed(S, 1, k) /\ Cardinality(S) = n /\ \A i \in S : k[i] = <<i>>
    BY <1>1
  <2>2. s = Choice!Sorted(k)
    OBVIOUS
  <2> HIDE DEF s, S, k
  <2>3. /\ s \in [1 .. n -> S] /\ DOMAIN s = 1 .. n
        /\ \A x \in S : \E i \in DOMAIN s : s[i] = x
        /\ \A i, j \in DOMAIN s : i < j => Choice!Less(k[s[i]], k[s[j]])
    BY <2>1, <2>2, SortedLists
  <2>4. s \in [1 .. n -> 1 .. n]
    BY <2>3 DEF S
  <2>5. ASSUME NEW i \in 1 .. n, NEW j \in 1 .. n, i < j PROVE s[i] < s[j]
    <3>0. i \in DOMAIN s /\ j \in DOMAIN s /\ s[i] \in S /\ s[j] \in S
      BY <2>3
    <3>1. Choice!Less(<<s[i]>>, <<s[j]>>)
      BY <2>1, <2>3, <2>5, <3>0
    <3> QED
      BY <3>1, <2>4 DEF Choice!Less
  <2>6. \A i \in 1 .. n : s[i] = i
    <3>1. \A x \in 1 .. n : \E i \in 1 .. n : s[i] = x
      BY <2>3 DEF S
    <3> QED
      BY <2>4, <2>5, <3>1, CountsUp
  <2> QED
    BY <2>3, <2>6 DEF s
<1> HIDE DEF key
<1>3. Choice!Named(None) = <<>>
  <2>1. Choice!Kept(None) = 1 .. 0
    BY DEF Choice!Kept
  <2>2. DOMAIN Choice!Sorted(key(1 .. 0)) = 1 .. 0
    BY <1>2
  <2> QED
    BY <2>1, <2>2 DEF Choice!Named, key
<1>4. ASSUME NEW list \in Seq(Nat), ~Choice!Listed(list, 0), list # None
      PROVE Choice!Named(list) = list
  <2>1. Len(list) \in Nat /\ DOMAIN list = 1 .. Len(list)
    OBVIOUS
  <2>2. Choice!Kept(list) = 1 .. Len(list)
    BY <1>4, <2>1 DEF Choice!Kept, Choice!Listed, Choice!Places
  <2> DEFINE s == Choice!Sorted(key(1 .. Len(list)))
  <2>3. DOMAIN s = 1 .. Len(list) /\ \A i \in 1 .. Len(list) : s[i] = i
    BY <1>2, <2>1
  <2>4. Choice!Named(list) = [i \in DOMAIN s |-> list[s[i]]]
    BY <2>2 DEF Choice!Named, key
  <2> HIDE DEF s
  <2>5. Choice!Named(list) = [i \in 1 .. Len(list) |-> list[i]]
    BY <2>3, <2>4
  <2> QED
    BY <2>1, <2>5
<1> QED
  BY <1>3, <1>4

-----------------------------------------------------------------------------
(* Tuples *)

\* A sequence is a function on its places.
LEMMA SequenceOf ==
  ASSUME NEW S, NEW n, NEW s \in Seq(S), Len(s) = n
  PROVE  s \in [1 .. n -> S]
OBVIOUS

\* What a tuple that is joined from two has at its places.
LEMMA Joined ==
  ASSUME NEW m \in Nat, NEW n \in Nat, NEW s \in [1 .. m -> Nat],
         NEW t \in [1 .. n -> Nat]
  PROVE  /\ s \o t \in [1 .. m + n -> Nat]
         /\ \A i \in 1 .. m : (s \o t)[i] = s[i]
         /\ \A i \in 1 .. n : (s \o t)[m + i] = t[i]
<1>1. s \in Seq(Nat) /\ t \in Seq(Nat) /\ Len(s) = m /\ Len(t) = n
  OBVIOUS
<1>2. /\ s \o t \in Seq(Nat) /\ Len(s \o t) = m + n
      /\ \A i \in 1 .. m + n : (s \o t)[i] = IF i <= m THEN s[i] ELSE t[i - m]
  BY <1>1, ConcatProperties
<1> DEFINE u == s \o t
<1> HIDE DEF u
<1>3. u \in [1 .. m + n -> Nat]
  <2>1. u \in Seq(Nat) /\ Len(u) = m + n
    BY <1>2 DEF u
  <2> QED
    BY <2>1, SequenceOf
<1>4. /\ \A i \in 1 .. m : i \in 1 .. m + n /\ i <= m
      /\ \A i \in 1 .. n : m + i \in 1 .. m + n /\ ~(m + i <= m) /\ (m + i) - m = i
  OBVIOUS
<1> QED
  BY <1>2, <1>3, <1>4 DEF u

\* Joined tuples compare by their first parts, then by their second ones.
LEMMA LessJoined ==
    ASSUME NEW m \in Nat, NEW n \in Nat,
           NEW s \in [1 .. m -> Nat], NEW t \in [1 .. n -> Nat],
           NEW u \in [1 .. m -> Nat], NEW v \in [1 .. n -> Nat]
    PROVE  Choice!Less(s \o t, u \o v) <=>
               Choice!Less(s, u) \/ (s = u /\ Choice!Less(t, v))
<1> DEFINE a == s \o t
           b == u \o v
<1>1. /\ a \in [1 .. m + n -> Nat] /\ b \in [1 .. m + n -> Nat]
      /\ \A i \in 1 .. m : a[i] = s[i] /\ b[i] = u[i]
      /\ \A i \in 1 .. n : a[m + i] = t[i] /\ b[m + i] = v[i]
  <2>1. /\ a \in [1 .. m + n -> Nat] /\ \A i \in 1 .. m : a[i] = s[i]
        /\ \A i \in 1 .. n : a[m + i] = t[i]
    BY Joined
  <2>2. /\ b \in [1 .. m + n -> Nat] /\ \A i \in 1 .. m : b[i] = u[i]
        /\ \A i \in 1 .. n : b[m + i] = v[i]
    BY Joined
  <2> QED
    BY <2>1, <2>2
<1> HIDE DEF a, b
<1>2. ASSUME Choice!Less(s, u) PROVE Choice!Less(a, b)
  <2>1. PICK i \in 1 .. m : s[i] < u[i] /\ \A j \in 1 .. i - 1 : s[j] = u[j]
    BY <1>2 DEF Choice!Less
  <2>2. i \in DOMAIN a /\ \A j \in 1 .. i - 1 : j \in 1 .. m
    BY <1>1
  <2> QED
    BY <1>1, <2>1, <2>2 DEF Choice!Less
<1>3. ASSUME s = u, Choice!Less(t, v) PROVE Choice!Less(a, b)
  <2>1. PICK i \in 1 .. n : t[i] < v[i] /\ \A j \in 1 .. i - 1 : t[j] = v[j]
    BY <1>3 DEF Choice!Less
  <2>2. m + i \in DOMAIN a /\ a[m + i] < b[m + i]
    BY <1>1, <2>1
  <2>3. ASSUME NEW j \in 1 .. (m + i) - 1 PROVE a[j] = b[j]
    <3>1. CASE j \in 1 .. m
      BY <1>1, <1>3, <3>1
    <3>2. CASE j \notin 1 .. m
      <4>1. j - m \in 1 .. i - 1 /\ j - m \in 1 .. n /\ m + (j - m) = j
        BY <3>2
      <4> QED
        BY <1>1, <2>1, <4>1
    <3> QED
      BY <3>1, <3>2
  <2> QED
    BY <2>2, <2>3 DEF Choice!Less
<1>4. ASSUME Choice!Less(a, b) PROVE Choice!Less(s, u) \/ (s = u /\ Choice!Less(t, v))
  <2>1. PICK i \in 1 .. m + n : a[i] < b[i] /\ \A j \in 1 .. i - 1 : a[j] = b[j]
    BY <1>1, <1>4 DEF Choice!Less
  <2>2. CASE i \in 1 .. m
    <3>1. \A j \in 1 .. i - 1 : j \in 1 .. m
      BY <2>2
    <3>2. s[i] < u[i] /\ \A j \in 1 .. i - 1 : s[j] = u[j]
      BY <1>1, <2>1, <2>2, <3>1
    <3>3. i \in DOMAIN s
      BY <2>2
    <3> QED
      BY <3>2, <3>3 DEF Choice!Less
  <2>3. CASE i \notin 1 .. m
    <3>1. i - m \in 1 .. n /\ m + (i - m) = i
      BY <2>3
    <3>2. \A j \in 1 .. m : j \in 1 .. i - 1
      BY <2>3
    <3>3. s = u
      <4>1. \A j \in 1 .. m : s[j] = u[j]
        BY <1>1, <2>1, <3>2
      <4> QED
        BY <4>1
    <3>4. t[i - m] < v[i - m]
      <4>1. a[m + (i - m)] = t[i - m] /\ b[m + (i - m)] = v[i - m]
        BY <1>1, <3>1
      <4> QED
        BY <2>1, <3>1, <4>1
    <3>5. ASSUME NEW j \in 1 .. (i - m) - 1 PROVE t[j] = v[j]
      <4>1. j \in 1 .. n /\ m + j \in 1 .. i - 1
        BY <3>1
      <4> QED
        BY <1>1, <2>1, <4>1
    <3> QED
      BY <3>1, <3>3, <3>4, <3>5 DEF Choice!Less
  <2> QED
    BY <2>2, <2>3
<1> QED
  BY <1>2, <1>3, <1>4 DEF a, b

\* One number, and two.
LEMMA LessOfOne ==
    ASSUME NEW a \in Nat, NEW b \in Nat
    PROVE  /\ <<a>> \in [1 .. 1 -> Nat]
           /\ Choice!Less(<<a>>, <<b>>) <=> a < b
           /\ <<a>> = <<b>> <=> a = b
<1>1. DOMAIN <<a>> = {1} /\ <<a>>[1] = a /\ <<b>>[1] = b /\ 1 .. 1 - 1 = {}
  OBVIOUS
<1>2. Choice!Less(<<a>>, <<b>>) <=> a < b
  BY <1>1 DEF Choice!Less
<1> QED
  BY <1>2

\* Pairs of numbers compare by the first, then by the second.
LEMMA LessOfTwo ==
    ASSUME NEW a \in Nat, NEW b \in Nat, NEW c \in Nat, NEW d \in Nat
    PROVE  /\ <<a, b>> \in [1 .. 2 -> Nat]
           /\ Choice!Less(<<a, b>>, <<c, d>>) <=> a < c \/ (a = c /\ b < d)
           /\ <<a, b>> = <<c, d>> <=> a = c /\ b = d
<1>1. /\ DOMAIN <<a, b>> = {1, 2} /\ <<a, b>>[1] = a /\ <<c, d>>[1] = c
      /\ <<a, b>>[2] = b /\ <<c, d>>[2] = d /\ 1 .. 1 - 1 = {} /\ 1 .. 2 - 1 = {1}
  OBVIOUS
<1> DEFINE x == <<a, b>>
           y == <<c, d>>
<1>2. x[1] = a /\ x[2] = b /\ y[1] = c /\ y[2] = d /\ DOMAIN x = {1, 2}
  BY <1>1
<1> HIDE DEF x, y
<1>3. Choice!Less(x, y) <=> a < c \/ (a = c /\ b < d)
  <2> DEFINE up(i) == x[i] < y[i] /\ \A j \in 1 .. i - 1 : x[j] = y[j]
  <2>1. Choice!Less(x, y) <=> up(1) \/ up(2)
    BY <1>2 DEF Choice!Less
  <2>2. up(1) <=> a < c
    BY <1>1, <1>2
  <2>3. up(2) <=> a = c /\ b < d
    <3>1. (\A j \in {1} : x[j] = y[j]) <=> a = c
      BY <1>2
    <3> QED
      BY <1>1, <1>2, <3>1
  <2> QED
    BY <2>1, <2>2, <2>3
<1> QED
  BY <1>3 DEF x, y

\* Equality, for facts that are instantiated with tuples.
Same(a, b) == a = b

\* Joined tuples are the same when their parts are.
LEMMA JoinedSame ==
    ASSUME NEW m \in Nat, NEW n \in Nat,
           NEW s \in [1 .. m -> Nat], NEW t \in [1 .. n -> Nat],
           NEW u \in [1 .. m -> Nat], NEW v \in [1 .. n -> Nat],
           Same(s \o t, u \o v)
    PROVE  Same(s, u) /\ Same(t, v)
<1> SUFFICES s = u /\ t = v
  BY DEF Same
<1> USE DEF Same
<1>1. (\A i \in 1 .. m : s[i] = u[i]) /\ \A i \in 1 .. n : t[i] = v[i]
  <2>1. /\ \A i \in 1 .. m : (s \o t)[i] = s[i]
        /\ \A i \in 1 .. n : (s \o t)[m + i] = t[i]
    BY Joined
  <2>2. /\ \A i \in 1 .. m : (u \o v)[i] = u[i]
        /\ \A i \in 1 .. n : (u \o v)[m + i] = v[i]
    BY Joined
  <2> QED
    BY <2>1, <2>2
<1> QED
  BY <1>1

\* Texts by themselves, the absent one first.
LEMMA TextKeys ==
    ASSUME NEW t \in Nat, NEW u \in Nat
    PROVE  /\ Choice!TextKey(t) \in [1 .. 2 -> Nat]
           /\ Choice!Less(Choice!TextKey(t), Choice!TextKey(u)) <=> t < u
           /\ Choice!TextKey(t) = Choice!TextKey(u) <=> t = u
<1>1. Choice!Bit(t # 0) \in Nat /\ Choice!Bit(u # 0) \in Nat
  BY DEF Choice!Bit
<1>2. /\ Choice!TextKey(t) \in [1 .. 2 -> Nat]
      /\ Choice!Less(Choice!TextKey(t), Choice!TextKey(u)) <=>
            Choice!Bit(t # 0) < Choice!Bit(u # 0)
              \/ (Choice!Bit(t # 0) = Choice!Bit(u # 0) /\ t < u)
      /\ Choice!TextKey(t) = Choice!TextKey(u) <=>
            Choice!Bit(t # 0) = Choice!Bit(u # 0) /\ t = u
  BY <1>1, LessOfTwo DEF Choice!TextKey
<1> QED
  BY <1>2 DEF Choice!Bit

\* One key is below another when its head is, or its reading, or its number.
Before(h, g, t, u, x, y) == Choice!Less(h, g) \/ (h = g /\ (t < u \/ (t = u /\ x < y)))

\* Every key ends with a reading and a number: two keys compare by their heads,
\* then by these.
LEMMA KeyOrder ==
    ASSUME NEW m \in Nat, NEW h \in [1 .. m -> Nat], NEW g \in [1 .. m -> Nat],
           NEW t \in Nat, NEW u \in Nat, NEW x \in Nat, NEW y \in Nat
    PROVE  /\ h \o Choice!TextKey(t) \o <<x>> \in [1 .. m + 3 -> Nat]
           /\ Choice!Less(h \o Choice!TextKey(t) \o <<x>>,
              g \o Choice!TextKey(u) \o <<y>>) <=>
                Before(h, g, t, u, x, y)
<1>1. /\ Choice!TextKey(t) \in [1 .. 2 -> Nat] /\ Choice!TextKey(u) \in [1 .. 2 -> Nat]
      /\ Choice!Less(Choice!TextKey(t), Choice!TextKey(u)) <=> t < u
      /\ Choice!TextKey(t) = Choice!TextKey(u) <=> t = u
  BY TextKeys
<1>2. /\ <<x>> \in [1 .. 1 -> Nat] /\ <<y>> \in [1 .. 1 -> Nat]
      /\ Choice!Less(<<x>>, <<y>>) <=> x < y
      /\ <<x>> = <<y>> <=> x = y
  BY LessOfOne
<1> DEFINE a == h \o Choice!TextKey(t)
           b == g \o Choice!TextKey(u)
<1>3. /\ a \in [1 .. m + 2 -> Nat] /\ b \in [1 .. m + 2 -> Nat]
      /\ Choice!Less(a, b) <=> Choice!Less(h, g) \/ (h = g /\ t < u)
      /\ a = b <=> h = g /\ t = u
  <2>1. a \in [1 .. m + 2 -> Nat] /\ b \in [1 .. m + 2 -> Nat]
    BY <1>1, Joined
  <2>2. Choice!Less(a, b) <=>
            Choice!Less(h, g)
              \/ (h = g /\ Choice!Less(Choice!TextKey(t), Choice!TextKey(u)))
    BY <1>1, 2 \in Nat, LessJoined, Zenon
  <2>3. Same(a, b) <=> Same(h, g) /\ Same(Choice!TextKey(t), Choice!TextKey(u))
    <3>1. Choice!TextKey(t) \in [1 .. 2 -> Nat] /\ Choice!TextKey(u) \in [1 .. 2 -> Nat]
      BY <1>1
    <3>2. Same(h \o Choice!TextKey(t), g \o Choice!TextKey(u))
          => Same(h, g) /\ Same(Choice!TextKey(t), Choice!TextKey(u))
      BY <3>1, 2 \in Nat, JoinedSame, Zenon
    <3> QED
      BY <3>2 DEF Same
  <2> QED
    BY <1>1, <2>1, <2>2, <2>3 DEF Same
<1> HIDE DEF a, b
<1>4. m + 2 \in Nat /\ (m + 2) + 1 = m + 3
  OBVIOUS
<1>5. /\ a \o <<x>> \in [1 .. m + 3 -> Nat]
      /\ Choice!Less(a \o <<x>>, b \o <<y>>) <=> Choice!Less(a, b) \/ (a = b /\ x < y)
  <2>1. a \o <<x>> \in [1 .. m + 3 -> Nat]
    <3>1. a \o <<x>> \in [1 .. (m + 2) + 1 -> Nat]
      BY <1>2, <1>3, <1>4, Joined
    <3> QED
      BY <1>4, <3>1
  <2>2. Choice!Less(a \o <<x>>, b \o <<y>>) <=>
            Choice!Less(a, b) \/ (a = b /\ Choice!Less(<<x>>, <<y>>))
    BY <1>2, <1>3, <1>4, LessJoined
  <2> QED
    BY <1>2, <2>1, <2>2
<1> QED
  BY <1>3, <1>5 DEF a, b, Before

-----------------------------------------------------------------------------
(* The selection: the keys of rows, records and candidates. *)

\* The type of the rows.
RowsTyped == rows \in [Choice!Ids -> Values]

\* The numbers of a row.
LEMMA RowTypes ==
    ASSUME RowsTyped, NEW r \in Choice!Ids
    PROVE  /\ rows[r].source \in 1 .. Sources /\ rows[r].source \in Nat
           /\ rows[r].reading \in Nat /\ rows[r].speaker \in Nat /\ r \in Nat
           /\ \A t \in Choice!Ids : rows[r].source = rows[t].source =>
                (rows[r].speaker = 0) = (rows[t].speaker = 0)
<1>1. \A t \in Choice!Ids : rows[t] \in Values
  BY DEF RowsTyped
<1>2. rows[r] \in [reading : Nat, source : 1 .. Sources, speaker : Nat]
  BY <1>1, SelectionParameters DEF Choice!Parameters
<1>3. \A t \in Choice!Ids : rows[r].source = rows[t].source =>
            (rows[r].speaker = 0) = (rows[t].speaker = 0)
  BY <1>1, SelectionParameters DEF Choice!Parameters
<1> QED
  BY <1>2, <1>3, SelectionParameters DEF Choice!Parameters, Choice!Ids

\* Readings in order, then the ids.
TextOrder(x, y) ==
    \/ rows[x].reading < rows[y].reading
    \/ rows[x].reading = rows[y].reading /\ x < y

\* The order of the records of a term.
LEMMA RecordOrder ==
    ASSUME RowsTyped, NEW x \in Choice!Ids, NEW y \in Choice!Ids
    PROVE  /\ Choice!RecordKey(x) \in [1 .. 4 -> Nat]
           /\ Choice!Less(Choice!RecordKey(x), Choice!RecordKey(y)) <=>
                \/ rows[x].source < rows[y].source
                \/ rows[x].source = rows[y].source /\ TextOrder(x, y)
<1> DEFINE h == <<rows[x].source>>
           g == <<rows[y].source>>
<1>1. /\ h \in [1 .. 1 -> Nat] /\ g \in [1 .. 1 -> Nat]
      /\ Choice!Less(h, g) <=> rows[x].source < rows[y].source
      /\ h = g <=> rows[x].source = rows[y].source
  BY RowTypes, LessOfOne
<1>2. /\ Choice!RecordKey(x) = h \o Choice!TextKey(rows[x].reading) \o <<x>>
      /\ Choice!RecordKey(y) = g \o Choice!TextKey(rows[y].reading) \o <<y>>
  BY DEF Choice!RecordKey
<1>3. /\ rows[x].reading \in Nat /\ rows[y].reading \in Nat /\ x \in Nat /\ y \in Nat
  BY RowTypes
<1> HIDE DEF h, g
<1>4. /\ Choice!RecordKey(x) \in [1 .. 1 + 3 -> Nat]
      /\ Choice!Less(Choice!RecordKey(x), Choice!RecordKey(y)) <=>
            \/ Choice!Less(h, g)
            \/ h = g /\ (rows[x].reading < rows[y].reading
                         \/ (rows[x].reading = rows[y].reading /\ x < y))
  <2> DEFINE t == rows[x].reading
             u == rows[y].reading
  <2>1. t \in Nat /\ u \in Nat /\ x \in Nat /\ y \in Nat /\ 1 \in Nat
    BY <1>3
  <2>2. /\ Choice!RecordKey(x) = h \o Choice!TextKey(t) \o <<x>>
        /\ Choice!RecordKey(y) = g \o Choice!TextKey(u) \o <<y>>
    BY <1>2
  <2> HIDE DEF t, u
  <2>3. h \o Choice!TextKey(t) \o <<x>> \in [1 .. 1 + 3 -> Nat]
    BY <1>1, <2>1, KeyOrder, Zenon
  <2>4. Choice!Less(h \o Choice!TextKey(t) \o <<x>>, g \o Choice!TextKey(u) \o <<y>>) <=>
            Before(h, g, t, u, x, y)
    BY <1>1, <2>1, KeyOrder, Zenon
  <2> QED
    BY <2>2, <2>3, <2>4 DEF t, u, Before
<1> QED
  BY <1>1, <1>4 DEF TextOrder

\* A source that is compared first, with no speaker before speakers.
LEMMA FirstOrder ==
    ASSUME RowsTyped, NEW x \in Choice!Ids, NEW y \in Choice!Ids
    PROVE  /\ Choice!FirstKey(x) \in [1 .. 5 -> Nat]
           /\ Choice!Less(Choice!FirstKey(x), Choice!FirstKey(y)) <=>
                \/ rows[x].source < rows[y].source
                \/ rows[x].source = rows[y].source /\ TextOrder(x, y)
<1> DEFINE c == Choice!Bit(rows[x].speaker # 0)
           d == Choice!Bit(rows[y].speaker # 0)
           t == rows[x].reading
           u == rows[y].reading
           h == <<rows[x].source, c>>
           g == <<rows[y].source, d>>
<1>1. /\ rows[x].source \in Nat /\ rows[y].source \in Nat /\ t \in Nat /\ u \in Nat
      /\ x \in Nat /\ y \in Nat /\ 2 \in Nat
      /\ rows[x].source = rows[y].source => (rows[x].speaker = 0) = (rows[y].speaker = 0)
  BY RowTypes
<1>2. c \in Nat /\ d \in Nat /\ (rows[x].source = rows[y].source => c = d)
  BY <1>1 DEF Choice!Bit
<1>3. Choice!FirstKey(x) = h \o Choice!TextKey(t) \o <<x>>
      /\ Choice!FirstKey(y) = g \o Choice!TextKey(u) \o <<y>>
  BY DEF Choice!FirstKey
<1> HIDE DEF c, d, t, u
<1>4. /\ h \in [1 .. 2 -> Nat] /\ g \in [1 .. 2 -> Nat]
      /\ Choice!Less(h, g) <=> rows[x].source < rows[y].source
                          \/ (rows[x].source = rows[y].source /\ c < d)
      /\ h = g <=> rows[x].source = rows[y].source /\ c = d
  BY <1>1, <1>2, LessOfTwo
<1> HIDE DEF h, g
<1>5. h \o Choice!TextKey(t) \o <<x>> \in [1 .. 2 + 3 -> Nat]
  BY <1>1, <1>4, KeyOrder, Zenon
<1>6. Choice!Less(h \o Choice!TextKey(t) \o <<x>>, g \o Choice!TextKey(u) \o <<y>>) <=>
          Before(h, g, t, u, x, y)
  BY <1>1, <1>4, KeyOrder, Zenon
<1>7. Choice!Less(h, g) <=> rows[x].source < rows[y].source
  BY <1>1, <1>2, <1>4
<1>8. h = g <=> rows[x].source = rows[y].source
  BY <1>2, <1>4
<1>9. Choice!FirstKey(x) \in [1 .. 5 -> Nat]
  <2>1. h \o Choice!TextKey(t) \o <<x>> \in [1 .. 5 -> Nat]
    BY <1>5
  <2> QED
    BY <1>3, <2>1
<1>10. TextOrder(x, y) <=> t < u \/ (t = u /\ x < y)
  BY DEF TextOrder, t, u
<1>11. Choice!Less(Choice!FirstKey(x), Choice!FirstKey(y)) <=> Before(h, g, t, u, x, y)
  BY <1>3, <1>6
<1> QED
  BY <1>7, <1>8, <1>9, <1>10, <1>11 DEF Before

\* The second place of a selection: no speaker first, then the users as named.
SpeakerPlace(users, speaker) == IF speaker = 0 THEN 0 ELSE Choice!Rank(users, speaker)

\* The order of the lists of the add-on.
LEMMA SelectOrder ==
    ASSUME RowsTyped, NEW q, q.sources \in Seq(Nat), q.users \in Seq(Nat),
           NEW x \in Choice!Ids, NEW y \in Choice!Ids
    PROVE  LET a == Choice!Rank(q.sources, rows[x].source)
               b == Choice!Rank(q.sources, rows[y].source)
               c == SpeakerPlace(q.users, rows[x].speaker)
               d == SpeakerPlace(q.users, rows[y].speaker)
           IN  /\ Choice!SelectKey(q, x) \in [1 .. 5 -> Nat]
               /\ Choice!Less(Choice!SelectKey(q, x), Choice!SelectKey(q, y)) <=>
                    a < b \/ (a = b /\ (c < d \/ (c = d /\ TextOrder(x, y))))
<1> DEFINE a == Choice!Rank(q.sources, rows[x].source)
           b == Choice!Rank(q.sources, rows[y].source)
           c == SpeakerPlace(q.users, rows[x].speaker)
           d == SpeakerPlace(q.users, rows[y].speaker)
           t == rows[x].reading
           u == rows[y].reading
           h == <<a, c>>
           g == <<b, d>>
<1>1. /\ t \in Nat /\ u \in Nat /\ x \in Nat /\ y \in Nat /\ 2 \in Nat
  BY RowTypes
<1>2. a \in Nat /\ b \in Nat /\ c \in Nat /\ d \in Nat
  BY RankTypes DEF SpeakerPlace
<1>3. Choice!SelectKey(q, x) = h \o Choice!TextKey(t) \o <<x>>
      /\ Choice!SelectKey(q, y) = g \o Choice!TextKey(u) \o <<y>>
  BY DEF Choice!SelectKey, SpeakerPlace
<1> HIDE DEF a, b, c, d, t, u
<1>4. /\ h \in [1 .. 2 -> Nat] /\ g \in [1 .. 2 -> Nat]
      /\ Choice!Less(h, g) <=> a < b \/ (a = b /\ c < d)
      /\ h = g <=> a = b /\ c = d
  BY <1>2, LessOfTwo
<1> HIDE DEF h, g
<1>5. h \o Choice!TextKey(t) \o <<x>> \in [1 .. 2 + 3 -> Nat]
  BY <1>1, <1>4, KeyOrder, Zenon
<1>6. Choice!Less(h \o Choice!TextKey(t) \o <<x>>, g \o Choice!TextKey(u) \o <<y>>) <=>
          Before(h, g, t, u, x, y)
  BY <1>1, <1>4, KeyOrder, Zenon
<1>7. Choice!Less(Choice!SelectKey(q, x), Choice!SelectKey(q, y)) <=>
        a < b \/ (a = b /\ (c < d \/ (c = d /\ TextOrder(x, y))))
  BY <1>2, <1>3, <1>4, <1>6 DEF t, u, Before, TextOrder
<1>8. Choice!SelectKey(q, x) \in [1 .. 5 -> Nat]
  <2>1. h \o Choice!TextKey(t) \o <<x>> \in [1 .. 5 -> Nat]
    BY <1>5
  <2> QED
    BY <1>3, <2>1
<1> QED
  BY <1>7, <1>8 DEF a, b, c, d

\* The ordinal of a record.
Ordinal(r) == CHOOSE o \in DOMAIN records : records[o] = r

\* The order of the candidates of the Rust server.
LEMMA CandidateOrder ==
    ASSUME RowsTyped, NEW q, Choice!RequestedSources(q) \in Seq(Nat),
           q.users \in Seq(Nat),
           NEW x \in Choice!Ids, NEW y \in Choice!Ids, Ordinal(x) \in Nat,
             Ordinal(y) \in Nat
    PROVE  LET a == Choice!Rank(Choice!RequestedSources(q), rows[x].source)
               b == Choice!Rank(Choice!RequestedSources(q), rows[y].source)
               c == Choice!SpeakerSort(q.users, rows[x].speaker)
               d == Choice!SpeakerSort(q.users, rows[y].speaker)
               t == rows[x].reading
               u == rows[y].reading
           IN  /\ Choice!CandidateKey(q, x) \in [1 .. 6 -> Nat]
               /\ Choice!Less(Choice!CandidateKey(q, x), Choice!CandidateKey(q, y)) <=>
                    \/ a < b
                    \/ a = b /\ Choice!Less(c, d)
                    \/ a = b /\ c = d /\ (t < u \/ (t = u /\ Ordinal(x) < Ordinal(y)))
<1> DEFINE a == Choice!Rank(Choice!RequestedSources(q), rows[x].source)
           b == Choice!Rank(Choice!RequestedSources(q), rows[y].source)
           c == Choice!SpeakerSort(q.users, rows[x].speaker)
           d == Choice!SpeakerSort(q.users, rows[y].speaker)
           t == rows[x].reading
           u == rows[y].reading
           i == Ordinal(x)
           j == Ordinal(y)
           h == <<a>> \o c
           g == <<b>> \o d
<1>1. t \in Nat /\ u \in Nat /\ i \in Nat /\ j \in Nat /\ 1 \in Nat /\ 2 \in Nat
      /\ 3 \in Nat
  BY RowTypes
<1>2. a \in Nat /\ b \in Nat
  BY RankTypes
<1>3. c \in [1 .. 2 -> Nat] /\ d \in [1 .. 2 -> Nat]
  <2>1. Choice!Rank(q.users, rows[x].speaker) \in Nat
        /\ Choice!Rank(q.users, rows[y].speaker) \in Nat
    BY RankTypes
  <2>2. \A n \in Nat : <<1, n>> \in [1 .. 2 -> Nat]
    BY LessOfTwo
  <2>3. <<0, 0>> \in [1 .. 2 -> Nat] /\ <<1, 0>> \in [1 .. 2 -> Nat]
    BY LessOfTwo
  <2> QED
    BY <2>1, <2>2, <2>3 DEF Choice!SpeakerSort
<1>4. /\ Choice!CandidateKey(q, x) = h \o Choice!TextKey(t) \o <<i>>
      /\ Choice!CandidateKey(q, y) = g \o Choice!TextKey(u) \o <<j>>
  BY DEF Choice!CandidateKey, Ordinal
<1> HIDE DEF a, b, c, d, t, u, i, j
<1>5. /\ <<a>> \in [1 .. 1 -> Nat] /\ <<b>> \in [1 .. 1 -> Nat]
      /\ Choice!Less(<<a>>, <<b>>) <=> a < b
      /\ <<a>> = <<b>> <=> a = b
  BY <1>2, LessOfOne
<1>6. Choice!Less(h, g) <=>
          Choice!Less(<<a>>, <<b>>) \/ (<<a>> = <<b>> /\ Choice!Less(c, d))
  BY <1>1, <1>3, <1>5, LessJoined, Zenon
<1>7. h = g <=> a = b /\ c = d
  <2>0. <<a>> \in [1 .. 1 -> Nat] /\ <<b>> \in [1 .. 1 -> Nat] /\ 1 \in Nat /\ 2 \in Nat
    BY <1>5
  <2>1. Same(h, g) => Same(<<a>>, <<b>>) /\ Same(c, d)
    BY <2>0, <1>3, JoinedSame, Zenon
  <2> QED
    BY <1>5, <2>1 DEF Same
<1>8. h \in [1 .. 3 -> Nat] /\ g \in [1 .. 3 -> Nat]
  <2>1. h \in [1 .. 1 + 2 -> Nat] /\ g \in [1 .. 1 + 2 -> Nat]
    BY <1>1, <1>3, <1>5, Joined, Zenon
  <2> QED
    BY <2>1
<1> HIDE DEF h, g
<1>9. h \o Choice!TextKey(t) \o <<i>> \in [1 .. 3 + 3 -> Nat]
  BY <1>1, <1>8, KeyOrder, Zenon
<1>10. Choice!Less(h \o Choice!TextKey(t) \o <<i>>, g \o Choice!TextKey(u) \o <<j>>) <=>
           Before(h, g, t, u, i, j)
  BY <1>1, <1>8, KeyOrder, Zenon
<1>11. Choice!Less(Choice!CandidateKey(q, x), Choice!CandidateKey(q, y)) <=>
        \/ a < b
        \/ a = b /\ Choice!Less(c, d)
        \/ a = b /\ c = d /\ (t < u \/ (t = u /\ i < j))
  BY <1>4, <1>5, <1>6, <1>7, <1>10 DEF Before
<1> QED
  BY <1>4, <1>9, <1>11 DEF a, b, c, d, t, u, i, j

-----------------------------------------------------------------------------
(* The selection: keys that put the rows in one order. *)

\* A term has finitely many rows.
LEMMA IdsFinite == IsFiniteSet(Choice!Ids) /\ Cardinality(Choice!Ids) = RowCount
  /\ Choice!Ids \subseteq Nat
<1>1. RowCount \in Nat
  BY NoneIsNoNumber
<1>2. IsFiniteSet(1 .. RowCount) /\ Cardinality(1 .. RowCount) = RowCount
  BY <1>1, FS_Interval
<1> QED
  BY <1>2 DEF Choice!Ids

\* No tuple is below itself.
LEMMA LessIrreflexive ==
    ASSUME NEW n \in Nat, NEW a \in [1 .. n -> Nat]
    PROVE  ~Choice!Less(a, a)
<1>1. \A i \in DOMAIN a : ~(a[i] < a[i])
  OBVIOUS
<1> QED
  BY <1>1 DEF Choice!Less

\* Keys that compare whenever their rows differ are different.
LEMMA KeyedBy ==
    ASSUME NEW S, IsFiniteSet(S), NEW n \in Nat, NEW key \in [S -> [1 .. n -> Nat]],
           \A x, y \in S : x # y => Choice!Less(key[x], key[y])
             \/ Choice!Less(key[y], key[x])
    PROVE  Keyed(S, n, key)
<1>1. ASSUME NEW x \in S, NEW y \in S, key[x] = key[y] PROVE x = y
  <2>1. key[x] \in [1 .. n -> Nat]
    OBVIOUS
  <2>2. ~Choice!Less(key[x], key[x])
    BY <2>1, LessIrreflexive
  <2> QED
    BY <1>1, <2>2
<1> QED
  BY <1>1 DEF Keyed

\* The keys of some of the rows.
LEMMA KeyedPart ==
    ASSUME NEW S, NEW n, NEW key, Keyed(S, n, key), NEW T \in SUBSET S
    PROVE  Keyed(T, n, [x \in T |-> key[x]])
<1>1. IsFiniteSet(T)
  BY FS_Subset DEF Keyed
<1> QED
  BY <1>1 DEF Keyed

\* Tuples of the same length that differ are one below the other.
LEMMA LessDecides ==
    ASSUME NEW n \in Nat, NEW a \in [1 .. n -> Nat], NEW b \in [1 .. n -> Nat], a # b
    PROVE  Choice!Less(a, b) \/ Choice!Less(b, a)
<1> DEFINE S == {a, b}
           key == [x \in S |-> x]
<1>1. Keyed(S, n, key)
  <2>1. IsFiniteSet({a}) /\ S = {a} \cup {b}
    BY FS_Singleton
  <2>2. IsFiniteSet(S)
    <3> HIDE DEF S
    <3> QED
      BY <2>1, FS_AddElement
  <2> QED
    BY <2>2 DEF Keyed
<1>2. a \in S /\ b \in S /\ key[a] = a /\ key[b] = b
  OBVIOUS
<1> HIDE DEF S, key
<1> QED
  BY <1>1, <1>2, LessOrders

\* What is looked at next is put in its place.
LEMMA Better ==
    ASSUME NEW n, NEW key, Keyed(Choice!Ids, n, key), NEW S \in SUBSET Choice!Ids,
           NEW r \in Choice!Ids,
           NEW b, Least(S, key, b), NEW c,
           c = IF b = None \/ Choice!Less(key[r], key[b]) THEN r ELSE b
    PROVE  Least(S \cup {r}, key, c)
<1>1. None \notin Choice!Ids
  BY NoneIsNoNumber, IdsFinite
<1>2. CASE S = {} /\ b = None
  BY <1>2 DEF Least
<1>3. CASE b \in S /\ \A x \in S : x = b \/ Choice!Less(key[b], key[x])
  <2>1. b # None /\ b \in Choice!Ids
    BY <1>1, <1>3
  <2>2. CASE Choice!Less(key[r], key[b])
    <3>1. \A x \in S : Choice!Less(key[r], key[x])
      BY <1>3, <2>1, <2>2, LessOrders
    <3> QED
      BY <2>2, <3>1 DEF Least
  <2>3. CASE ~Choice!Less(key[r], key[b])
    <3>1. r = b \/ Choice!Less(key[b], key[r])
      BY <2>1, <2>3, LessOrders
    <3> QED
      BY <1>3, <2>1, <2>3, <3>1 DEF Least
  <2> QED
    BY <2>2, <2>3
<1> QED
  BY <1>2, <1>3 DEF Least

-----------------------------------------------------------------------------
(* The selection: the records and their ordinals. *)

\* The keys of the records, and the records as the compiler sorts them.
RecordKeys == [r \in Choice!Ids |-> Choice!RecordKey(r)]
Recorded == records = Choice!Sorted(RecordKeys)

\* The keys of the records are those of an order.
LEMMA RecordsKeyed ==
    ASSUME RowsTyped
    PROVE  Keyed(Choice!Ids, 4, RecordKeys)
<1>1. \A r \in Choice!Ids : Choice!RecordKey(r) \in [1 .. 4 -> Nat]
  BY RecordOrder
<1>2. RecordKeys \in [Choice!Ids -> [1 .. 4 -> Nat]]
  BY <1>1 DEF RecordKeys
<1>3. ASSUME NEW x \in Choice!Ids, NEW y \in Choice!Ids, x # y
      PROVE  Choice!Less(RecordKeys[x], RecordKeys[y])
             \/ Choice!Less(RecordKeys[y], RecordKeys[x])
  <2>1. /\ Choice!Less(Choice!RecordKey(x), Choice!RecordKey(y)) <=>
            \/ rows[x].source < rows[y].source
            \/ rows[x].source = rows[y].source /\ TextOrder(x, y)
        /\ Choice!Less(Choice!RecordKey(y), Choice!RecordKey(x)) <=>
            \/ rows[y].source < rows[x].source
            \/ rows[y].source = rows[x].source /\ TextOrder(y, x)
    BY RecordOrder
  <2>2. /\ rows[x].source \in Nat /\ rows[x].reading \in Nat /\ x \in Nat
        /\ rows[y].source \in Nat /\ rows[y].reading \in Nat /\ y \in Nat
    BY RowTypes
  <2>3. Choice!Less(Choice!RecordKey(x), Choice!RecordKey(y))
        \/ Choice!Less(Choice!RecordKey(y), Choice!RecordKey(x))
    BY <1>3, <2>1, <2>2 DEF TextOrder
  <2> QED
    BY <2>3 DEF RecordKeys
<1> QED
  BY <1>2, <1>3, IdsFinite, KeyedBy

\* Each row has one record, and ordinals go up with the keys.
LEMMA Ordinals ==
    ASSUME RowsTyped, Recorded
    PROVE  /\ DOMAIN records = 1 .. RowCount /\ records \in Seq(Choice!Ids)
           /\ \A r \in Choice!Ids : Ordinal(r) \in 1 .. RowCount
              /\ records[Ordinal(r)] = r
           /\ \A o \in 1 .. RowCount : records[o] \in Choice!Ids
              /\ Ordinal(records[o]) = o
           /\ \A x, y \in Choice!Ids :
                Ordinal(x) < Ordinal(y) <=>
                      Choice!Less(Choice!RecordKey(x), Choice!RecordKey(y))
<1>1. /\ records \in Seq(Choice!Ids) /\ records \in [1 .. RowCount -> Choice!Ids]
      /\ DOMAIN records = 1 .. RowCount
      /\ \A r \in Choice!Ids : \E o \in DOMAIN records : records[o] = r
      /\ \A i, j \in DOMAIN records :
            i < j => Choice!Less(RecordKeys[records[i]], RecordKeys[records[j]])
  BY RecordsKeyed, SortedLists, IdsFinite DEF Recorded
<1>2. \A r \in Choice!Ids : Ordinal(r) \in 1 .. RowCount /\ records[Ordinal(r)] = r
  BY <1>1 DEF Ordinal
<1>3. RowCount \in Nat
  BY NoneIsNoNumber
<1>4. ASSUME NEW i \in 1 .. RowCount, NEW j \in 1 .. RowCount
      PROVE  i < j <=>
                Choice!Less(Choice!RecordKey(records[i]), Choice!RecordKey(records[j]))
  <2>1. records[i] \in Choice!Ids /\ records[j] \in Choice!Ids
    BY <1>1
  <2>2. /\ RecordKeys[records[i]] = Choice!RecordKey(records[i])
        /\ RecordKeys[records[j]] = Choice!RecordKey(records[j])
    BY <2>1 DEF RecordKeys
  <2>3. /\ i < j =>
            Choice!Less(Choice!RecordKey(records[i]), Choice!RecordKey(records[j]))
        /\ j < i =>
            Choice!Less(Choice!RecordKey(records[j]), Choice!RecordKey(records[i]))
    BY <1>1, <2>2
  <2>4. /\ ~(Choice!Less(Choice!RecordKey(records[i]), Choice!RecordKey(records[j]))
             /\ Choice!Less(Choice!RecordKey(records[j]), Choice!RecordKey(records[i])))
    BY <2>1, <2>2, RecordsKeyed, LessOrders
  <2>5. i = j => ~Choice!Less(Choice!RecordKey(records[i]), Choice!RecordKey(records[j]))
    <3>1. Choice!RecordKey(records[i]) \in [1 .. 4 -> Nat] /\ 4 \in Nat
      BY <2>1, RecordOrder
    <3> QED
      BY <3>1, LessIrreflexive
  <2> QED
    BY <1>3, <2>3, <2>4, <2>5
<1>5. ASSUME NEW o \in 1 .. RowCount
      PROVE records[o] \in Choice!Ids /\ Ordinal(records[o]) = o
  <2>1. records[o] \in Choice!Ids
    BY <1>1
  <2> DEFINE i == Ordinal(records[o])
  <2>2. i \in 1 .. RowCount /\ records[i] = records[o]
    BY <1>2, <2>1
  <2> HIDE DEF i
  <2>3. i < o <=> Choice!Less(Choice!RecordKey(records[o]), Choice!RecordKey(records[o]))
    BY <1>4, <2>2
  <2>4. o < i <=> Choice!Less(Choice!RecordKey(records[o]), Choice!RecordKey(records[o]))
    BY <1>4, <2>2
  <2>5. ~Choice!Less(Choice!RecordKey(records[o]), Choice!RecordKey(records[o]))
    <3>1. Choice!RecordKey(records[o]) \in [1 .. 4 -> Nat] /\ 4 \in Nat
      BY <2>1, RecordOrder
    <3> QED
      BY <3>1, LessIrreflexive
  <2>6. i = o
    BY <1>3, <2>2, <2>3, <2>4, <2>5
  <2> QED
    BY <2>1, <2>6 DEF i
<1>6. ASSUME NEW x \in Choice!Ids, NEW y \in Choice!Ids
      PROVE  Ordinal(x) < Ordinal(y) <=>
                 Choice!Less(Choice!RecordKey(x), Choice!RecordKey(y))
  <2>1. Ordinal(x) \in 1 .. RowCount /\ Ordinal(y) \in 1 .. RowCount
        /\ records[Ordinal(x)] = x /\ records[Ordinal(y)] = y
    BY <1>2
  <2> QED
    BY <1>4, <2>1
<1> QED
  BY <1>1, <1>2, <1>5, <1>6

-----------------------------------------------------------------------------
(* The selection: what is asked. *)

\* What the Rust server makes of a request.
LEMMA LookupsTyped ==
    ASSUME NEW q \in Requests
    PROVE  /\ Choice!RequestedSources(Choice!ParseQuery(q)) \in Seq(Nat)
           /\ Choice!ParseQuery(q).users \in Seq(Nat)
           /\ Choice!ParseQuery(q).sources = q.sources
              /\ Choice!ParseQuery(q).reading = q.reading
           /\ Choice!ParseQuery(q).users = (IF q.users = None THEN <<>> ELSE q.users)
<1>1. q \in [reading : {None} \cup Nat, sources : {None} \cup Choice!Lists,
             users : {None} \cup Choice!Lists]
  BY SelectionParameters DEF Choice!Parameters
<1>2. /\ Choice!ParseQuery(q).sources = q.sources
         /\ Choice!ParseQuery(q).reading = q.reading
      /\ Choice!ParseQuery(q).users = (IF q.users = None THEN <<>> ELSE q.users)
  BY <1>1 DEF Choice!ParseQuery
<1>3. q.sources = None \/ q.sources \in Seq(Nat)
  BY <1>1 DEF Choice!Lists
<1>4. q.users = None \/ q.users \in Seq(Nat)
  BY <1>1 DEF Choice!Lists
<1>5. <<>> \in Seq(Nat)
  OBVIOUS
<1> QED
  BY <1>2, <1>3, <1>4, <1>5, RankOfAll DEF Choice!RequestedSources

\* Without blanks both servers understand the same.
LEMMA ReadAlike ==
    ASSUME NEW q \in Requests, ~Choice!Blank(q)
    PROVE  /\ Choice!ParseLookup(q).reading = Choice!ParseQuery(q).reading
           /\ Choice!ParseLookup(q).users = Choice!ParseQuery(q).users
           /\ Choice!ParseLookup(q).sources =
                Choice!RequestedSources(Choice!ParseQuery(q))
<1>1. q \in [reading : {None} \cup Nat, sources : {None} \cup Choice!Lists,
             users : {None} \cup Choice!Lists]
  BY SelectionParameters DEF Choice!Parameters
<1>2. Choice!ParseLookup(q).reading = Choice!ParseQuery(q).reading
  BY LookupsTyped DEF Choice!Blank, Choice!ParseLookup
<1>3. Choice!ParseLookup(q).users = Choice!ParseQuery(q).users
  <2>1. Choice!ParseLookup(q).users = Choice!Named(q.users)
    BY DEF Choice!ParseLookup
  <2>2. CASE q.users = None
    BY <2>1, <2>2, LookupsTyped, NamedLists
  <2>3. CASE q.users # None
    <3>1. q.users \in Seq(Nat) /\ ~Choice!Listed(q.users, 0)
      BY <1>1, <2>3 DEF Choice!Lists, Choice!Blank
    <3> QED
      BY <2>1, <2>3, <3>1, LookupsTyped, NamedLists
  <2> QED
    BY <2>2, <2>3
<1>4. Choice!ParseLookup(q).sources = Choice!RequestedSources(Choice!ParseQuery(q))
  <2>1. Choice!ParseLookup(q).sources =
            IF Choice!Named(q.sources) = <<>> THEN Choice!AllSources
              ELSE Choice!Named(q.sources)
    BY DEF Choice!ParseLookup
  <2>2. CASE q.sources = None
    BY <2>1, <2>2, LookupsTyped, NamedLists DEF Choice!RequestedSources
  <2>3. CASE q.sources # None
    <3>1. q.sources \in Seq(Nat) /\ q.sources # <<>> /\ ~Choice!Listed(q.sources, 0)
      BY <1>1, <2>3 DEF Choice!Lists, Choice!Blank
    <3> QED
      BY <2>1, <2>3, <3>1, LookupsTyped, NamedLists DEF Choice!RequestedSources
  <2> QED
    BY <2>2, <2>3
<1> QED
  BY <1>2, <1>3, <1>4

\* A lookup that names nothing asks for all sources and all users.
LEMMA AskedOfAll ==
    ASSUME NEW q \in Requests
    PROVE  LET p == Choice!ParseLookup([q EXCEPT !.sources = None, !.users = None])
           IN  /\ p.sources = Choice!AllSources /\ p.users = <<>>
               /\ p.reading = Choice!ParseLookup(q).reading
<1>1. q \in [reading : {None} \cup Nat, sources : {None} \cup Choice!Lists,
             users : {None} \cup Choice!Lists]
  BY SelectionParameters DEF Choice!Parameters
<1> DEFINE o == [q EXCEPT !.sources = None, !.users = None]
<1>2. o.sources = None /\ o.users = None /\ o.reading = q.reading
  BY <1>1
<1> HIDE DEF o
<1>3. /\ Choice!ParseLookup(o).sources = Choice!AllSources
         /\ Choice!ParseLookup(o).users = <<>>
      /\ Choice!ParseLookup(o).reading = Choice!ParseLookup(q).reading
  BY <1>2, NamedLists DEF Choice!ParseLookup
<1> QED
  BY <1>3 DEF o

-----------------------------------------------------------------------------
(* The selection: the lists of both servers. *)

\* The keys of the candidates, and of the scan of /v1/first.
CandidateKeys(q) == [r \in Choice!Ids |-> Choice!CandidateKey(q, r)]
FirstKeys == [r \in Choice!Ids |-> Choice!FirstKey(r)]

\* The place of a speaker is a pair of numbers.
LEMMA SpeakerSorts ==
    ASSUME NEW users \in Seq(Nat), NEW speaker
    PROVE  Choice!SpeakerSort(users, speaker) \in [1 .. 2 -> Nat]
<1>1. Choice!Rank(users, speaker) \in Nat
  BY RankTypes
<1>2. \A n \in Nat : <<1, n>> \in [1 .. 2 -> Nat]
  BY LessOfTwo
<1>3. <<0, 0>> \in [1 .. 2 -> Nat] /\ <<1, 0>> \in [1 .. 2 -> Nat]
  BY LessOfTwo
<1> QED
  BY <1>1, <1>2, <1>3 DEF Choice!SpeakerSort

\* The keys of the scan of /v1/first are those of an order.
LEMMA FirstKeyed ==
    ASSUME RowsTyped
    PROVE  Keyed(Choice!Ids, 5, FirstKeys)
<1>1. \A r \in Choice!Ids : Choice!FirstKey(r) \in [1 .. 5 -> Nat]
  BY FirstOrder
<1>2. FirstKeys \in [Choice!Ids -> [1 .. 5 -> Nat]]
  BY <1>1 DEF FirstKeys
<1>3. ASSUME NEW x \in Choice!Ids, NEW y \in Choice!Ids, x # y
      PROVE  Choice!Less(FirstKeys[x], FirstKeys[y])
             \/ Choice!Less(FirstKeys[y], FirstKeys[x])
  <2>1. /\ Choice!Less(Choice!FirstKey(x), Choice!FirstKey(y)) <=>
            \/ rows[x].source < rows[y].source
            \/ rows[x].source = rows[y].source /\ TextOrder(x, y)
        /\ Choice!Less(Choice!FirstKey(y), Choice!FirstKey(x)) <=>
            \/ rows[y].source < rows[x].source
            \/ rows[y].source = rows[x].source /\ TextOrder(y, x)
    BY FirstOrder
  <2>2. /\ rows[x].source \in Nat /\ rows[x].reading \in Nat /\ x \in Nat
        /\ rows[y].source \in Nat /\ rows[y].reading \in Nat /\ y \in Nat
    BY RowTypes
  <2>3. Choice!Less(Choice!FirstKey(x), Choice!FirstKey(y))
        \/ Choice!Less(Choice!FirstKey(y), Choice!FirstKey(x))
    BY <1>3, <2>1, <2>2 DEF TextOrder
  <2> QED
    BY <2>3 DEF FirstKeys
<1> QED
  BY <1>2, <1>3, IdsFinite, KeyedBy

\* So are the keys of the candidates: records that agree in the rest differ in
\* their ordinals.
LEMMA CandidatesKeyed ==
    ASSUME RowsTyped, Recorded, NEW q, Choice!RequestedSources(q) \in Seq(Nat),
           q.users \in Seq(Nat)
    PROVE  Keyed(Choice!Ids, 6, CandidateKeys(q))
<1>0. \A r \in Choice!Ids : Ordinal(r) \in Nat
  BY Ordinals, NoneIsNoNumber
<1>1. \A r \in Choice!Ids : Choice!CandidateKey(q, r) \in [1 .. 6 -> Nat]
  BY <1>0, CandidateOrder
<1>2. CandidateKeys(q) \in [Choice!Ids -> [1 .. 6 -> Nat]]
  BY <1>1 DEF CandidateKeys
<1>3. ASSUME NEW x \in Choice!Ids, NEW y \in Choice!Ids, x # y
      PROVE  \/ Choice!Less(CandidateKeys(q)[x], CandidateKeys(q)[y])
             \/ Choice!Less(CandidateKeys(q)[y], CandidateKeys(q)[x])
  <2> DEFINE a == Choice!Rank(Choice!RequestedSources(q), rows[x].source)
             b == Choice!Rank(Choice!RequestedSources(q), rows[y].source)
             c == Choice!SpeakerSort(q.users, rows[x].speaker)
             d == Choice!SpeakerSort(q.users, rows[y].speaker)
             t == rows[x].reading
             u == rows[y].reading
             i == Ordinal(x)
             j == Ordinal(y)
  <2>1. /\ Choice!Less(Choice!CandidateKey(q, x), Choice!CandidateKey(q, y)) <=>
            \/ a < b
            \/ a = b /\ Choice!Less(c, d)
            \/ a = b /\ c = d /\ (t < u \/ (t = u /\ i < j))
        /\ Choice!Less(Choice!CandidateKey(q, y), Choice!CandidateKey(q, x)) <=>
            \/ b < a
            \/ b = a /\ Choice!Less(d, c)
            \/ b = a /\ d = c /\ (u < t \/ (u = t /\ j < i))
    BY <1>0, CandidateOrder
  <2>2. a \in Nat /\ b \in Nat /\ t \in Nat /\ u \in Nat /\ i \in Nat /\ j \in Nat
    BY <1>0, RowTypes, RankTypes
  <2>3. i # j
    BY <1>3, Ordinals
  <2>4. c # d => Choice!Less(c, d) \/ Choice!Less(d, c)
    <3>1. c \in [1 .. 2 -> Nat] /\ d \in [1 .. 2 -> Nat] /\ 2 \in Nat
      BY SpeakerSorts
    <3> HIDE DEF c, d
    <3> QED
      BY <3>1, LessDecides
  <2> HIDE DEF a, b, c, d, t, u, i, j
  <2>5. Choice!Less(Choice!CandidateKey(q, x), Choice!CandidateKey(q, y))
        \/ Choice!Less(Choice!CandidateKey(q, y), Choice!CandidateKey(q, x))
    BY <2>1, <2>2, <2>3, <2>4
  <2> QED
    BY <2>5 DEF CandidateKeys
<1> QED
  BY <1>2, <1>3, IdsFinite, KeyedBy

\* A source that is listed has one rank, and one kind of speakers.
LEMMA OneKind ==
    ASSUME RowsTyped, NEW list \in Seq(Nat), NEW x \in Choice!Ids, NEW y \in Choice!Ids,
           Choice!Listed(list, rows[x].source), Choice!Listed(list, rows[y].source)
    PROVE  /\ Choice!Rank(list, rows[x].source) = Choice!Rank(list, rows[y].source) <=>
                rows[x].source = rows[y].source
           /\ rows[x].source = rows[y].source =>
                (rows[x].speaker = 0) = (rows[y].speaker = 0)
<1>1. /\ list[Choice!Rank(list, rows[x].source)] = rows[x].source
      /\ list[Choice!Rank(list, rows[y].source)] = rows[y].source
  BY RankTypes
<1> QED
  BY <1>1, RowTypes

\* Speakers compare alike in both servers when both rows have one or none.
LEMMA SpeakersAlike ==
    ASSUME NEW users \in Seq(Nat), NEW s \in Nat, NEW t \in Nat, (s = 0) = (t = 0)
    PROVE  /\ Choice!Less(Choice!SpeakerSort(users, s), Choice!SpeakerSort(users, t)) <=>
                SpeakerPlace(users, s) < SpeakerPlace(users, t)
           /\ Choice!SpeakerSort(users, s) = Choice!SpeakerSort(users, t) <=>
                SpeakerPlace(users, s) = SpeakerPlace(users, t)
<1>1. Choice!Rank(users, s) \in Nat /\ Choice!Rank(users, t) \in Nat
  BY RankTypes
<1>2. CASE s = 0
  <2>1. /\ Choice!SpeakerSort(users, s) = <<0, 0>>
           /\ Choice!SpeakerSort(users, t) = <<0, 0>>
        /\ SpeakerPlace(users, s) = 0 /\ SpeakerPlace(users, t) = 0
    BY <1>2 DEF Choice!SpeakerSort, SpeakerPlace
  <2>2. ~Choice!Less(<<0, 0>>, <<0, 0>>)
    BY LessOfTwo
  <2> QED
    BY <2>1, <2>2
<1>3. CASE s # 0 /\ users = <<>>
  <2>1. /\ Choice!SpeakerSort(users, s) = <<1, 0>>
           /\ Choice!SpeakerSort(users, t) = <<1, 0>>
        /\ SpeakerPlace(users, s) = Choice!Rank(users, s)
        /\ SpeakerPlace(users, t) = Choice!Rank(users, t)
    BY <1>3 DEF Choice!SpeakerSort, SpeakerPlace
  <2>2. ~Choice!Less(<<1, 0>>, <<1, 0>>)
    BY LessOfTwo
  <2>3. Choice!Rank(users, s) = 1 /\ Choice!Rank(users, t) = 1
    <3>1. /\ Choice!Rank(users, s) \in 1 .. Len(users) + 1
          /\ Choice!Rank(users, t) \in 1 .. Len(users) + 1
      BY RankTypes
    <3>2. Len(users) = 0
      BY <1>3
    <3> QED
      BY <3>1, <3>2
  <2> QED
    BY <2>1, <2>2, <2>3
<1>4. CASE s # 0 /\ users # <<>>
  <2>1. /\ Choice!SpeakerSort(users, s) = <<1, Choice!Rank(users, s)>>
        /\ Choice!SpeakerSort(users, t) = <<1, Choice!Rank(users, t)>>
        /\ SpeakerPlace(users, s) = Choice!Rank(users, s)
        /\ SpeakerPlace(users, t) = Choice!Rank(users, t)
    BY <1>4 DEF Choice!SpeakerSort, SpeakerPlace
  <2>2. /\ Choice!Less(<<1, Choice!Rank(users, s)>>, <<1, Choice!Rank(users, t)>>) <=>
            Choice!Rank(users, s) < Choice!Rank(users, t)
        /\ <<1, Choice!Rank(users, s)>> = <<1, Choice!Rank(users, t)>> <=>
            Choice!Rank(users, s) = Choice!Rank(users, t)
    BY <1>1, LessOfTwo
  <2> QED
    BY <2>1, <2>2
<1> QED
  BY <1>2, <1>3, <1>4

\* The candidates are the rows the add-on selects.
LEMMA ResolvesAlike ==
    ASSUME NEW q, NEW p, p.reading = q.reading, p.users = q.users,
           p.sources = Choice!RequestedSources(q)
    PROVE  Choice!Resolved(q) = Choice!Selected(p)
BY DEF Choice!Resolved, Choice!Resolves, Choice!Selected, Choice!ReadingRows

\* Two rows are in the order of the lists of the add-on when their candidates
\* are in that of the Rust server.
LEMMA OrderedAlike ==
    ASSUME RowsTyped, Recorded, NEW q, NEW p, p.users = q.users,
           p.sources = Choice!RequestedSources(q),
           p.sources \in Seq(Nat), p.users \in Seq(Nat),
           NEW x \in Choice!Ids, NEW y \in Choice!Ids,
           Choice!Listed(p.sources, rows[x].source),
           Choice!Listed(p.sources, rows[y].source)
    PROVE  Choice!Less(Choice!CandidateKey(q, x), Choice!CandidateKey(q, y)) <=>
                Choice!Less(Choice!SelectKey(p, x), Choice!SelectKey(p, y))
<1> DEFINE a == Choice!Rank(p.sources, rows[x].source)
           b == Choice!Rank(p.sources, rows[y].source)
           c == Choice!SpeakerSort(p.users, rows[x].speaker)
           d == Choice!SpeakerSort(p.users, rows[y].speaker)
           e == SpeakerPlace(p.users, rows[x].speaker)
           f == SpeakerPlace(p.users, rows[y].speaker)
           t == rows[x].reading
           u == rows[y].reading
           i == Ordinal(x)
           j == Ordinal(y)
<1>1. i \in Nat /\ j \in Nat
  BY Ordinals, NoneIsNoNumber
<1>2. Choice!Less(Choice!CandidateKey(q, x), Choice!CandidateKey(q, y)) <=>
            \/ a < b
            \/ a = b /\ Choice!Less(c, d)
            \/ a = b /\ c = d /\ (t < u \/ (t = u /\ i < j))
  <2>1. Choice!RequestedSources(q) \in Seq(Nat) /\ q.users \in Seq(Nat)
    OBVIOUS
  <2>2. LET a2 == Choice!Rank(Choice!RequestedSources(q), rows[x].source)
            b2 == Choice!Rank(Choice!RequestedSources(q), rows[y].source)
            c2 == Choice!SpeakerSort(q.users, rows[x].speaker)
            d2 == Choice!SpeakerSort(q.users, rows[y].speaker)
        IN  Choice!Less(Choice!CandidateKey(q, x), Choice!CandidateKey(q, y)) <=>
                \/ a2 < b2
                \/ a2 = b2 /\ Choice!Less(c2, d2)
                \/ a2 = b2 /\ c2 = d2 /\ (t < u \/ (t = u /\ i < j))
    BY <1>1, <2>1, CandidateOrder
  <2>3. /\ a = Choice!Rank(Choice!RequestedSources(q), rows[x].source)
        /\ b = Choice!Rank(Choice!RequestedSources(q), rows[y].source)
        /\ c = Choice!SpeakerSort(q.users, rows[x].speaker)
        /\ d = Choice!SpeakerSort(q.users, rows[y].speaker)
    OBVIOUS
  <2> HIDE DEF a, b, c, d, t, u, i, j
  <2> QED
    BY <2>2, <2>3
<1>3. Choice!Less(Choice!SelectKey(p, x), Choice!SelectKey(p, y)) <=>
            a < b \/ (a = b /\ (e < f \/ (e = f /\ TextOrder(x, y))))
  BY SelectOrder
<1>4. a = b => rows[x].source = rows[y].source /\ (Choice!Less(c, d) <=> e < f)
      /\ (c = d <=> e = f)
  <2> SUFFICES ASSUME a = b
               PROVE rows[x].source = rows[y].source /\ (Choice!Less(c, d) <=> e < f)
                     /\ (c = d <=> e = f)
    OBVIOUS
  <2>1. /\ rows[x].source = rows[y].source
        /\ (rows[x].speaker = 0) = (rows[y].speaker = 0)
    BY OneKind
  <2>2. rows[x].speaker \in Nat /\ rows[y].speaker \in Nat
    BY RowTypes
  <2> QED
    BY <2>1, <2>2, SpeakersAlike
<1>5. rows[x].source = rows[y].source /\ t = u => (i < j <=> x < y)
  <2>1. i < j <=> Choice!Less(Choice!RecordKey(x), Choice!RecordKey(y))
    BY Ordinals
  <2>2. /\ rows[x].source \in Nat /\ rows[x].reading \in Nat /\ x \in Nat
        /\ rows[y].source \in Nat /\ rows[y].reading \in Nat /\ y \in Nat
    BY RowTypes
  <2>3. Choice!Less(Choice!RecordKey(x), Choice!RecordKey(y)) <=>
            \/ rows[x].source < rows[y].source
            \/ rows[x].source = rows[y].source /\ TextOrder(x, y)
    BY RecordOrder
  <2> HIDE DEF i, j
  <2> QED
    BY <2>1, <2>2, <2>3 DEF TextOrder
<1>6. TextOrder(x, y) <=> t < u \/ (t = u /\ x < y)
  BY DEF TextOrder
<1>7. a \in Nat /\ b \in Nat /\ e \in Nat /\ f \in Nat /\ t \in Nat /\ u \in Nat
  <2>1. \A list \in Seq(Nat) : \A s : Choice!Rank(list, s) \in Nat
    BY RankTypes
  <2>2. a \in Nat /\ b \in Nat
    BY <2>1
  <2>3. e \in Nat /\ f \in Nat
    BY <2>1 DEF SpeakerPlace
  <2> QED
    BY <2>2, <2>3, RowTypes
<1> HIDE DEF a, b, c, d, e, f, t, u, i, j
<1> QED
  BY <1>1, <1>2, <1>3, <1>4, <1>5, <1>6, <1>7

\* Both servers give the same list for a request without blanks.
LEMMA ListsAgree ==
    ASSUME RowsTyped, Recorded, NEW q \in Requests, ~Choice!Blank(q)
    PROVE  Choice!Agree(q)
<1> DEFINE r == Choice!ParseQuery(q)
           p == Choice!ParseLookup(q)
<1>1. /\ p.reading = r.reading /\ p.users = r.users
         /\ p.sources = Choice!RequestedSources(r)
      /\ p.sources \in Seq(Nat) /\ p.users \in Seq(Nat)
  BY ReadAlike, LookupsTyped
<1> HIDE DEF r, p
<1>2. Choice!Resolved(r) = Choice!Selected(p)
  BY <1>1, ResolvesAlike
<1>3. Choice!Selected(p) \in SUBSET Choice!Ids
      /\ \A x \in Choice!Selected(p) : Choice!Listed(p.sources, rows[x].source)
  BY DEF Choice!Selected, Choice!ReadingRows
<1>4. \A x, y \in Choice!Selected(p) :
        Choice!Less(Choice!CandidateKey(r, x), Choice!CandidateKey(r, y)) <=>
            Choice!Less(Choice!SelectKey(p, x), Choice!SelectKey(p, y))
  BY <1>1, <1>3, OrderedAlike
<1>5. IsFiniteSet(Choice!Selected(p))
  BY <1>3, IdsFinite, FS_Subset
<1> DEFINE key == [x \in Choice!Selected(p) |-> Choice!CandidateKey(r, x)]
           other == [x \in Choice!Selected(p) |-> Choice!SelectKey(p, x)]
<1>6. /\ DOMAIN key = Choice!Selected(p) /\ DOMAIN other = DOMAIN key
      /\ \A x, y \in DOMAIN key : Choice!Less(key[x], key[y]) <=>
             Choice!Less(other[x], other[y])
  BY <1>4
<1>7. Choice!Candidates(r) = Choice!Sorted(key) /\ Choice!Select(p) = Choice!Sorted(other)
  BY <1>2 DEF Choice!Candidates, Choice!Select
<1> HIDE DEF key, other
<1>8. Choice!Sorted(key) = Choice!Sorted(other)
  BY <1>5, <1>6, SortedAlike
<1> QED
  BY <1>7, <1>8 DEF Choice!Agree, r, p

-----------------------------------------------------------------------------
(* The selection: the heads of the lists. *)

\* What is least among the rows of a reading heads the list of the add-on for
\* all sources and users.
LEMMA FirstIsHead ==
    ASSUME RowsTyped, NEW q \in Requests, NEW b,
           Least(Choice!ReadingRows(Choice!ParseLookup(q)), FirstKeys, b)
    PROVE  b = Choice!FirstOf(Choice!Select(
                   Choice!ParseLookup([q EXCEPT !.sources = None, !.users = None])))
<1> DEFINE p == Choice!ParseLookup([q EXCEPT !.sources = None, !.users = None])
           S == Choice!ReadingRows(Choice!ParseLookup(q))
<1>1. p.sources = Choice!AllSources /\ p.users = <<>>
      /\ p.reading = Choice!ParseLookup(q).reading
  BY AskedOfAll
<1> HIDE DEF p
<1>2. S \in SUBSET Choice!Ids /\ S = Choice!ReadingRows(p)
  BY <1>1 DEF Choice!ReadingRows
<1>3. Choice!Selected(p) = S
  <2>1. \A r \in Choice!Ids : Choice!Listed(Choice!AllSources, rows[r].source)
    BY RowTypes, RankOfAll
  <2> QED
    BY <1>1, <1>2, <2>1 DEF Choice!Selected
<1> HIDE DEF S
<1>4. ASSUME NEW x \in Choice!Ids, NEW y \in Choice!Ids
      PROVE  Choice!Less(Choice!FirstKey(x), Choice!FirstKey(y)) <=>
                 Choice!Less(Choice!SelectKey(p, x), Choice!SelectKey(p, y))
  <2> DEFINE a == Choice!Rank(p.sources, rows[x].source)
             b2 == Choice!Rank(p.sources, rows[y].source)
             e == SpeakerPlace(p.users, rows[x].speaker)
             f == SpeakerPlace(p.users, rows[y].speaker)
  <2>1. a = rows[x].source /\ b2 = rows[y].source
    BY <1>1, RowTypes, RankOfAll
  <2>2. rows[x].source = rows[y].source => e = f
    <3>1. \A s : Choice!Rank(<<>>, s) = 1
      <4>1. \A s : Choice!Rank(<<>>, s) \in 1 .. Len(<<>>) + 1
        <5>1. <<>> \in Seq(Nat)
          OBVIOUS
        <5> QED
          BY <5>1, RankTypes
      <4>2. Len(<<>>) = 0
        OBVIOUS
      <4> QED
        BY <4>1, <4>2
    <3> QED
      BY <1>1, <3>1, RowTypes DEF SpeakerPlace
  <2>3. p.sources \in Seq(Nat) /\ p.users \in Seq(Nat)
    BY <1>1, RankOfAll
  <2>4. Choice!Less(Choice!SelectKey(p, x), Choice!SelectKey(p, y)) <=>
            a < b2 \/ (a = b2 /\ (e < f \/ (e = f /\ TextOrder(x, y))))
    BY <2>3, SelectOrder
  <2>5. Choice!Less(Choice!FirstKey(x), Choice!FirstKey(y)) <=>
            \/ rows[x].source < rows[y].source
            \/ rows[x].source = rows[y].source /\ TextOrder(x, y)
    BY FirstOrder
  <2>6. e \in Nat /\ f \in Nat
    <3>1. \A s : Choice!Rank(p.users, s) \in Nat
      BY <2>3, RankTypes
    <3> QED
      BY <3>1 DEF SpeakerPlace
  <2> HIDE DEF a, b2, e, f
  <2> QED
    BY <2>1, <2>2, <2>4, <2>5, <2>6
<1> DEFINE key == [x \in S |-> FirstKeys[x]]
           other == [x \in S |-> Choice!SelectKey(p, x)]
<1>5. /\ DOMAIN key = S /\ DOMAIN other = DOMAIN key
      /\ \A x, y \in DOMAIN key : Choice!Less(key[x], key[y]) <=>
             Choice!Less(other[x], other[y])
  BY <1>2, <1>4 DEF FirstKeys
<1>6. Keyed(S, 5, key)
  BY <1>2, FirstKeyed, KeyedPart
<1>7. Least(S, key, b)
  <2>1. Least(S, FirstKeys, b)
    BY DEF S
  <2> QED
    BY <2>1 DEF Least
<1>8. Choice!Select(p) = Choice!Sorted(other)
  BY <1>3 DEF Choice!Select
<1>9. IsFiniteSet(S)
  BY <1>2, IdsFinite, FS_Subset
<1> HIDE DEF key, other
<1>10. Choice!Sorted(key) = Choice!Sorted(other)
  BY <1>5, <1>9, SortedAlike
<1> QED
  BY <1>6, <1>7, <1>8, <1>10, FirstIsLeast DEF p

\* What is least among the candidates heads their list.
LEMMA PlayIsHead ==
    ASSUME RowsTyped, Recorded, NEW q, Choice!RequestedSources(q) \in Seq(Nat),
           q.users \in Seq(Nat), NEW b, Least(Choice!Resolved(q), CandidateKeys(q), b)
    PROVE  Choice!FirstOf(Choice!Candidates(q)) = b
<1> DEFINE S == Choice!Resolved(q)
           key == [x \in S |-> CandidateKeys(q)[x]]
<1>1. S \in SUBSET Choice!Ids
  BY DEF Choice!Resolved
<1>2. Keyed(S, 6, key)
  BY <1>1, CandidatesKeyed, KeyedPart
<1>3. Least(S, key, b)
  BY DEF Least
<1>4. Choice!Candidates(q) = Choice!Sorted(key)
  <2>1. key = [x \in S |-> Choice!CandidateKey(q, x)]
    BY <1>1 DEF CandidateKeys
  <2> QED
    BY <2>1 DEF Choice!Candidates
<1> HIDE DEF S, key
<1> QED
  BY <1>2, <1>3, <1>4, FirstIsLeast

\* Without filters the candidates are in the order of their records, though that
\* leaves the speaker out.
LEMMA RecordsFirst ==
    ASSUME RowsTyped, Recorded, NEW q, Choice!DefaultFastPath(q), NEW x \in Choice!Ids,
           NEW y \in Choice!Ids,
           Ordinal(x) < Ordinal(y)
    PROVE  Choice!Less(Choice!CandidateKey(q, x), Choice!CandidateKey(q, y))
<1> DEFINE a == Choice!Rank(Choice!RequestedSources(q), rows[x].source)
           b == Choice!Rank(Choice!RequestedSources(q), rows[y].source)
           c == Choice!SpeakerSort(q.users, rows[x].speaker)
           d == Choice!SpeakerSort(q.users, rows[y].speaker)
           t == rows[x].reading
           u == rows[y].reading
           i == Ordinal(x)
           j == Ordinal(y)
<1>1. i \in Nat /\ j \in Nat
  BY Ordinals, NoneIsNoNumber
<1>2. Choice!RequestedSources(q) = Choice!AllSources /\ q.users = <<>>
      /\ Choice!AllSources \in Seq(Nat)
      /\ q.users \in Seq(Nat) /\ Choice!RequestedSources(q) \in Seq(Nat)
  BY RankOfAll DEF Choice!RequestedSources, Choice!DefaultFastPath
<1>3. Choice!Less(Choice!CandidateKey(q, x), Choice!CandidateKey(q, y)) <=>
            \/ a < b
            \/ a = b /\ Choice!Less(c, d)
            \/ a = b /\ c = d /\ (t < u \/ (t = u /\ i < j))
  BY <1>1, <1>2, CandidateOrder
<1>4. a = rows[x].source /\ b = rows[y].source
  BY <1>2, RowTypes, RankOfAll
<1>5. rows[x].source = rows[y].source => c = d
  BY <1>2, RowTypes DEF Choice!SpeakerSort
<1>6. i < j
  OBVIOUS
<1>7. \/ rows[x].source < rows[y].source
      \/ rows[x].source = rows[y].source /\ (t < u \/ (t = u /\ x < y))
  BY Ordinals, RecordOrder DEF TextOrder
<1> HIDE DEF a, b, c, d, t, u, i, j
<1> QED
  BY <1>3, <1>4, <1>5, <1>6, <1>7

-----------------------------------------------------------------------------
(* The selection: the scans. *)

\* The rows whose records the Rust server has looked at.
Seen == {r \in Choice!Ids : Ordinal(r) < ordinal}

\* The scan of /v1/first has the least of the rows it has seen.
FirstInv ==
    scan = "first" =>
        LET S == Choice!ReadingRows(Choice!ParseLookup(request))
        IN  left \subseteq S /\ Least(S \ left, FirstKeys, best)

\* The scan of /v1/play has the least of the candidates it has seen, and the default
\* path none before it ends; at its end the least of all is known.
PlayInv ==
    LET q == Choice!ParseQuery(request) IN
    /\ scan = "play" =>
        /\ Least(Seen \cap Choice!Resolved(q), CandidateKeys(q), best)
        /\ Choice!DefaultFastPath(q) => best = None
    /\ scan = "done" /\ ordinal > 1 => Least(Choice!Resolved(q), CandidateKeys(q), best)

\* The types, with records in the order of the compiler and the request in progress.
ChoiceTypes ==
    /\ Choice!TypeOK
    /\ scan # "compile" => Recorded
    /\ scan \in {"first", "play", "done"} => request \in Requests
    /\ scan \notin {"play", "done"} => ordinal = 1

\* The invariant of the selection.
ChoiceInv == ChoiceTypes /\ FirstInv /\ PlayInv

\* It holds before the bundle is compiled.
LEMMA ChoiceInit == Choice!Init => ChoiceInv
<1> SUFFICES ASSUME Choice!Init PROVE ChoiceInv
  OBVIOUS
<1>1. <<>> \in Seq(Choice!Ids) /\ 1 \in 1 .. RowCount + 1
  BY NoneIsNoNumber
<1>2. ChoiceTypes
  BY <1>1 DEF Choice!Init, ChoiceTypes, Choice!TypeOK
<1> QED
  BY <1>2 DEF Choice!Init, ChoiceInv, FirstInv, PlayInv

\* Rows and records stay, and with them all keys.
LEMMA KeysStay ==
    ASSUME rows' = rows
    PROVE  /\ RowsTyped' <=> RowsTyped
           /\ RecordKeys' = RecordKeys /\ FirstKeys' = FirstKeys
           /\ \A q : Choice!ReadingRows(q)' = Choice!ReadingRows(q)
              /\ Choice!Resolved(q)' = Choice!Resolved(q)
BY DEF RowsTyped, RecordKeys, Choice!RecordKey, FirstKeys, Choice!FirstKey,
   Choice!ReadingRows, Choice!Resolved, Choice!Resolves

\* So do the ordinals and the keys of candidates.
LEMMA RecordsStay ==
    ASSUME rows' = rows, records' = records
    PROVE  /\ Recorded' <=> Recorded
           /\ \A r : Ordinal(r)' = Ordinal(r)
           /\ \A q : CandidateKeys(q)' = CandidateKeys(q)
BY KeysStay DEF Recorded, Ordinal, CandidateKeys, Choice!CandidateKey

\* The compiler sorts the records.
LEMMA CompileChoice ==
    ASSUME ChoiceInv, Choice!Compile
    PROVE  ChoiceInv'
<1> USE DEF Choice!Compile
<1>1. RowsTyped
  BY DEF ChoiceInv, ChoiceTypes, Choice!TypeOK, RowsTyped
<1>2. records' = Choice!Sorted(RecordKeys)
  BY DEF RecordKeys
<1>3. records' \in Seq(Choice!Ids)
  BY <1>1, <1>2, RecordsKeyed, SortedLists
<1>4. Recorded'
  BY <1>2, KeysStay DEF Recorded
<1>5. ChoiceTypes'
  BY <1>3, <1>4 DEF ChoiceInv, ChoiceTypes, Choice!TypeOK
<1> QED
  BY <1>5 DEF ChoiceInv, FirstInv, PlayInv

\* A request starts a scan that has seen nothing.
LEMMA AskChoice ==
    ASSUME ChoiceInv, Choice!AskFirst \/ Choice!AskPlay
    PROVE  ChoiceInv'
<1>1. RowsTyped /\ Recorded /\ rows' = rows /\ records' = records
  BY DEF ChoiceInv, ChoiceTypes, Choice!TypeOK, RowsTyped, Choice!AskFirst, Choice!AskPlay
<1>2. \A q : Choice!ReadingRows(q) \subseteq Choice!Ids
  BY DEF Choice!ReadingRows
<1>3. CASE Choice!AskFirst
  <2>1. PICK q \in Requests : request' = q
        /\ left' = Choice!ReadingRows(Choice!ParseLookup(q))
    BY <1>3 DEF Choice!AskFirst
  <2>2. ChoiceTypes'
    BY <1>1, <1>2, <1>3, <2>1, RecordsStay DEF ChoiceInv, ChoiceTypes, Choice!TypeOK,
       Choice!AskFirst
  <2>3. FirstInv'
    BY <1>1, <1>3, <2>1, KeysStay DEF Choice!AskFirst, FirstInv, Least
  <2>4. PlayInv'
    BY <1>3 DEF Choice!AskFirst, PlayInv
  <2> QED
    BY <2>2, <2>3, <2>4 DEF ChoiceInv
<1>4. CASE Choice!AskPlay
  <2>1. 1 \in 1 .. RowCount + 1
    BY NoneIsNoNumber
  <2>2. ChoiceTypes'
    BY <1>1, <1>4, <2>1, RecordsStay DEF ChoiceInv, ChoiceTypes, Choice!TypeOK,
       Choice!AskPlay
  <2>3. FirstInv'
    BY <1>4 DEF Choice!AskPlay, FirstInv
  <2>4. Seen' = {}
    <3>1. \A r \in Choice!Ids : Ordinal(r)' \in 1 .. RowCount
      BY <1>1, Ordinals, RecordsStay
    <3> QED
      BY <1>4, <3>1, NoneIsNoNumber DEF Choice!AskPlay, Seen
  <2>5. PlayInv'
    BY <1>4, <2>4 DEF Choice!AskPlay, PlayInv, Least
  <2> QED
    BY <2>2, <2>3, <2>5 DEF ChoiceInv
<1> QED
  BY <1>3, <1>4

\* The scan of /v1/first keeps the better of two rows.
LEMMA ScanFirstStep ==
    ASSUME ChoiceInv, Choice!ScanFirst
    PROVE  ChoiceInv'
<1>1. RowsTyped /\ rows' = rows /\ records' = records /\ request' = request
      /\ scan = "first" /\ scan' = scan /\ ordinal' = ordinal
  BY DEF ChoiceInv, ChoiceTypes, Choice!TypeOK, RowsTyped, Choice!ScanFirst
<1> DEFINE S == Choice!ReadingRows(Choice!ParseLookup(request))
<1>2. S \in SUBSET Choice!Ids /\ left \subseteq S /\ Least(S \ left, FirstKeys, best)
  BY <1>1 DEF ChoiceInv, FirstInv, Choice!ReadingRows
<1>3. PICK r \in left : left' = left \ {r}
        /\ best' = IF best = None
           \/ Choice!Less(Choice!FirstKey(r), Choice!FirstKey(best)) THEN r ELSE best
  BY DEF Choice!ScanFirst
<1>4. r \in Choice!Ids /\ best \in Choice!Ids \cup {None}
  BY <1>2, <1>3 DEF ChoiceInv, ChoiceTypes, Choice!TypeOK
<1>5. S' = S
  BY <1>1, KeysStay
<1> HIDE DEF S
<1>6. best' = IF best = None \/ Choice!Less(FirstKeys[r], FirstKeys[best]) THEN r
      ELSE best
  BY <1>3, <1>4 DEF FirstKeys
<1>7. Least((S \ left) \cup {r}, FirstKeys, best')
  <2>1. S \ left \in SUBSET Choice!Ids
    BY <1>2
  <2> QED
    BY <1>1, <1>2, <1>4, <1>6, <2>1, FirstKeyed, Better
<1>8. (S \ left) \cup {r} = S \ left' /\ left' \subseteq S
  BY <1>2, <1>3
<1>9. Least(S \ left', FirstKeys, best')
  BY <1>7, <1>8
<1>10. FirstInv'
  <2>1. FirstKeys' = FirstKeys
    BY <1>1, KeysStay
  <2> QED
    BY <1>5, <1>8, <1>9, <2>1 DEF FirstInv, S
<1>11. ChoiceTypes'
  <2>1. best' \in Choice!Ids \cup {None} /\ left' \subseteq Choice!Ids
    BY <1>2, <1>3, <1>4
  <2> QED
    BY <1>1, <2>1, RecordsStay DEF ChoiceInv, ChoiceTypes, Choice!TypeOK
<1> QED
  BY <1>1, <1>10, <1>11 DEF ChoiceInv, PlayInv

\* So does that of /v1/play; the default path ends at the first candidate, for the
\* records behind it have larger keys.
LEMMA ScanPlayStep ==
    ASSUME ChoiceInv, Choice!ScanPlay
    PROVE  ChoiceInv'
<1> DEFINE q == Choice!ParseQuery(request)
           r == records[ordinal]
<1>1. /\ RowsTyped /\ Recorded /\ rows' = rows /\ records' = records
      /\ request' = request /\ request \in Requests
      /\ scan = "play" /\ ordinal \in DOMAIN records /\ ordinal' = ordinal + 1
  BY DEF ChoiceInv, ChoiceTypes, Choice!TypeOK, RowsTyped, Choice!ScanPlay
<1>2. q' = q /\ Choice!RequestedSources(q) \in Seq(Nat) /\ q.users \in Seq(Nat)
  BY <1>1, LookupsTyped
<1>3. /\ Least(Seen \cap Choice!Resolved(q), CandidateKeys(q), best)
      /\ Choice!DefaultFastPath(q) => best = None
  BY <1>1 DEF ChoiceInv, PlayInv
<1>4. /\ ~Choice!Resolves(q, r) => UNCHANGED <<best, scan>>
      /\ Choice!Resolves(q, r) /\ Choice!DefaultFastPath(q) => best' = r /\ scan' = "done"
      /\ Choice!Resolves(q, r) /\ ~Choice!DefaultFastPath(q) =>
            /\ scan' = scan
            /\ best' = IF best = None
               \/ Choice!Less(Choice!CandidateKey(q, r), Choice!CandidateKey(q, best))
                         THEN r ELSE best
      /\ left' = left
  BY DEF Choice!ScanPlay
<1>5. r \in Choice!Ids /\ Ordinal(r) = ordinal /\ ordinal \in 1 .. RowCount
      /\ best \in Choice!Ids \cup {None} /\ RowCount \in Nat /\ None \notin Choice!Ids
  BY <1>1, Ordinals, NoneIsNoNumber, IdsFinite DEF ChoiceInv, ChoiceTypes, Choice!TypeOK
<1>6. Seen' = Seen \cup {r}
  <2>1. ASSUME NEW x \in Choice!Ids PROVE Ordinal(x) < ordinal + 1 <=>
                   Ordinal(x) < ordinal \/ x = r
    <3>1. Ordinal(x) \in 1 .. RowCount /\ records[Ordinal(x)] = x
      BY <1>1, Ordinals
    <3>2. Ordinal(x) < ordinal + 1 <=> Ordinal(x) < ordinal \/ Ordinal(x) = ordinal
      BY <1>5, <3>1
    <3> QED
      BY <1>5, <3>1, <3>2
  <2>2. \A x : Ordinal(x)' = Ordinal(x)
    BY <1>1, RecordsStay
  <2> HIDE DEF r
  <2> QED
    BY <1>1, <1>5, <2>1, <2>2 DEF Seen
<1>7. CandidateKeys(q)' = CandidateKeys(q) /\ Choice!Resolved(q)' = Choice!Resolved(q)
      /\ (Recorded' <=> Recorded)
  BY <1>1, <1>2, KeysStay, RecordsStay
<1>8. ChoiceTypes'
  <2>1. best' \in Choice!Ids \cup {None} /\ scan' \in {"play", "done"}
    BY <1>1, <1>4, <1>5
  <2>2. ordinal' \in 1 .. RowCount + 1
    BY <1>1, <1>5
  <2> QED
    BY <1>1, <1>4, <1>7, <2>1, <2>2 DEF ChoiceInv, ChoiceTypes, Choice!TypeOK
<1>9. r \in Choice!Resolved(q) <=> Choice!Resolves(q, r)
  BY <1>5 DEF Choice!Resolved
<1>10. PlayInv'
  <2> HIDE DEF r
  <2>1. CASE ~Choice!Resolves(q, r)
    <3>1. Seen' \cap Choice!Resolved(q) = Seen \cap Choice!Resolved(q)
      BY <1>6, <1>9, <2>1
    <3>2. best' = best /\ scan' = "play"
      BY <1>1, <1>4, <2>1
    <3> QED
      BY <1>2, <1>3, <1>7, <3>1, <3>2 DEF PlayInv
  <2>2. CASE Choice!Resolves(q, r) /\ ~Choice!DefaultFastPath(q)
    <3>1. (Seen \cap Choice!Resolved(q)) \cup {r} = Seen' \cap Choice!Resolved(q)
      BY <1>6, <1>9, <2>2
    <3>2. best' = IF best = None
          \/ Choice!Less(CandidateKeys(q)[r], CandidateKeys(q)[best])
                    THEN r ELSE best
      BY <1>4, <1>5, <2>2 DEF CandidateKeys
    <3>3. Keyed(Choice!Ids, 6, CandidateKeys(q))
      BY <1>1, <1>2, CandidatesKeyed
    <3>4. Least((Seen \cap Choice!Resolved(q)) \cup {r}, CandidateKeys(q), best')
      <4>1. Seen \cap Choice!Resolved(q) \in SUBSET Choice!Ids
        BY DEF Seen
      <4> HIDE DEF q
      <4> QED
        BY <1>3, <1>5, <3>2, <3>3, <4>1, Better
    <3>5. Least(Seen' \cap Choice!Resolved(q), CandidateKeys(q), best') /\ scan' = "play"
      BY <1>1, <1>4, <2>2, <3>1, <3>4
    <3> QED
      BY <1>2, <1>7, <2>2, <3>5 DEF PlayInv
  <2>3. CASE Choice!Resolves(q, r) /\ Choice!DefaultFastPath(q)
    <3>1. best' = r /\ scan' = "done" /\ Seen \cap Choice!Resolved(q) = {}
      BY <1>3, <1>4, <1>5, <2>3 DEF Least, Seen
    <3>2. ASSUME NEW x \in Choice!Resolved(q), x # r
          PROVE Choice!Less(CandidateKeys(q)[r], CandidateKeys(q)[x])
      <4>1. x \in Choice!Ids
        BY DEF Choice!Resolved
      <4>2. Ordinal(x) \in 1 .. RowCount /\ records[Ordinal(x)] = x
        BY <1>1, <4>1, Ordinals
      <4>3. ~(Ordinal(x) < ordinal) /\ Ordinal(x) # ordinal
        BY <3>1, <3>2, <4>1, <4>2 DEF Seen, r
      <4>4. Ordinal(r) < Ordinal(x)
        BY <1>5, <4>2, <4>3
      <4>5. Choice!Less(Choice!CandidateKey(q, r), Choice!CandidateKey(q, x))
        BY <1>1, <1>5, <2>3, <4>1, <4>4, RecordsFirst
      <4> QED
        BY <1>5, <4>1, <4>5 DEF CandidateKeys
    <3>3. Least(Choice!Resolved(q), CandidateKeys(q), r)
      BY <1>9, <2>3, <3>2 DEF Least
    <3> QED
      BY <1>2, <1>7, <3>1, <3>3 DEF PlayInv
  <2> QED
    BY <2>1, <2>2, <2>3
<1>11. FirstInv'
  <2>1. scan' # "first"
    BY <1>1, <1>4
  <2> QED
    BY <2>1 DEF FirstInv
<1> QED
  BY <1>8, <1>10, <1>11 DEF ChoiceInv

\* A scan that ends has seen all.
LEMMA EndChoice ==
    ASSUME ChoiceInv, Choice!EndScan
    PROVE  ChoiceInv'
<1> DEFINE q == Choice!ParseQuery(request)
<1>1. /\ RowsTyped /\ Recorded /\ rows' = rows /\ records' = records
      /\ request' = request /\ request \in Requests /\ best' = best
      /\ scan \in {"first", "play"} /\ scan' = "done" /\ ordinal' = ordinal
         /\ left' = left
  BY DEF ChoiceInv, ChoiceTypes, Choice!TypeOK, RowsTyped, Choice!EndScan
<1>2. ChoiceTypes'
  BY <1>1, RecordsStay DEF ChoiceInv, ChoiceTypes, Choice!TypeOK
<1>3. CASE scan = "first"
  <2>1. ordinal' = 1
    BY <1>1, <1>3 DEF ChoiceInv, ChoiceTypes
  <2> QED
    BY <1>1, <1>2, <2>1 DEF ChoiceInv, FirstInv, PlayInv
<1>4. CASE scan = "play"
  <2>1. ordinal \notin DOMAIN records /\ ordinal \in 1 .. RowCount + 1 /\ RowCount \in Nat
    BY <1>4, NoneIsNoNumber DEF Choice!EndScan, ChoiceInv, ChoiceTypes, Choice!TypeOK
  <2>2. DOMAIN records = 1 .. RowCount
        /\ \A r \in Choice!Ids : Ordinal(r) \in 1 .. RowCount
    BY <1>1, Ordinals
  <2>3. Seen = Choice!Ids
    BY <2>1, <2>2 DEF Seen
  <2>4. Seen \cap Choice!Resolved(q) = Choice!Resolved(q)
    BY <2>3 DEF Choice!Resolved
  <2>5. Least(Choice!Resolved(q), CandidateKeys(q), best)
    BY <1>4, <2>4 DEF ChoiceInv, PlayInv
  <2>6. CandidateKeys(q)' = CandidateKeys(q)
        /\ Choice!Resolved(q)' = Choice!Resolved(q) /\ q' = q
    BY <1>1, KeysStay, RecordsStay
  <2>7. PlayInv'
    BY <1>1, <2>5, <2>6 DEF PlayInv
  <2> QED
    BY <1>1, <1>2, <2>7 DEF ChoiceInv, FirstInv
<1> QED
  BY <1>1, <1>3, <1>4

\* An answer and the steps of others change none of it.
LEMMA OtherChoice ==
    ASSUME ChoiceInv, Choice!Answer \/ UNCHANGED choiceVars
    PROVE  ChoiceInv'
<1>1. rows' = rows /\ records' = records
  BY DEF Choice!Answer, choiceVars
<1>2. CASE Choice!Answer
  <2>1. 1 \in 1 .. RowCount + 1
    BY NoneIsNoNumber
  <2>2. ChoiceTypes'
    BY <1>1, <1>2, <2>1, RecordsStay DEF ChoiceInv, ChoiceTypes, Choice!TypeOK,
       Choice!Answer
  <2> QED
    BY <1>2, <2>2 DEF ChoiceInv, FirstInv, PlayInv, Choice!Answer
<1>3. CASE UNCHANGED choiceVars
  <2>1. /\ scan' = scan /\ request' = request /\ left' = left /\ ordinal' = ordinal
        /\ best' = best
    BY <1>3 DEF choiceVars
  <2>2. ChoiceTypes'
    BY <1>1, <2>1, RecordsStay DEF ChoiceInv, ChoiceTypes, Choice!TypeOK
  <2>3. FirstInv'
    BY <1>1, <2>1, KeysStay DEF ChoiceInv, FirstInv
  <2>4. Seen' = Seen
    BY <1>1, <2>1, RecordsStay DEF Seen
  <2>5. PlayInv'
    BY <1>1, <2>1, <2>4, KeysStay, RecordsStay DEF ChoiceInv, PlayInv
  <2> QED
    BY <2>2, <2>3, <2>5 DEF ChoiceInv
<1> QED
  BY <1>2, <1>3

\* Every step of the selection keeps the invariant.
LEMMA ChoiceStep == ChoiceInv /\ [Choice!Next]_choiceVars => ChoiceInv'
BY CompileChoice, AskChoice, ScanFirstStep, ScanPlayStep, EndChoice, OtherChoice
   DEF Choice!Next

\* The properties of the selection follow from it.
LEMMA ChoiceCorrect == ChoiceInv => Choice!ServersAgree /\ Choice!FirstHeadsTheList
  /\ Choice!PlayIsFirst
<1> SUFFICES ASSUME ChoiceInv PROVE Choice!ServersAgree /\ Choice!FirstHeadsTheList
                    /\ Choice!PlayIsFirst
  OBVIOUS
<1>1. RowsTyped /\ (scan # "compile" => Recorded)
      /\ (scan \in {"first", "play", "done"} => request \in Requests)
  BY DEF ChoiceInv, ChoiceTypes, Choice!TypeOK, RowsTyped
<1>2. Choice!ServersAgree
  BY <1>1, ListsAgree DEF Choice!ServersAgree
<1>3. Choice!FirstHeadsTheList
  <2> SUFFICES ASSUME scan = "first", left = {}
               PROVE best = Choice!FirstOf(Choice!Select(Choice!ParseLookup(
                        [request EXCEPT !.sources = None, !.users = None])))
    BY DEF Choice!FirstHeadsTheList
  <2>1. Least(Choice!ReadingRows(Choice!ParseLookup(request)), FirstKeys, best)
    BY DEF ChoiceInv, FirstInv
  <2> QED
    BY <1>1, <2>1, FirstIsHead
<1>4. Choice!PlayIsFirst
  <2> SUFFICES ASSUME scan = "done", ordinal > 1
               PROVE best = Choice!FirstOf(Choice!Candidates(Choice!ParseQuery(request)))
    BY DEF Choice!PlayIsFirst
  <2> DEFINE q == Choice!ParseQuery(request)
  <2>1. Least(Choice!Resolved(q), CandidateKeys(q), best)
    BY DEF ChoiceInv, PlayInv
  <2>2. Choice!RequestedSources(q) \in Seq(Nat) /\ q.users \in Seq(Nat)
    BY <1>1, LookupsTyped
  <2> HIDE DEF q
  <2>3. best = Choice!FirstOf(Choice!Candidates(q))
    BY <1>1, <2>1, <2>2, PlayIsHead
  <2> QED
    BY <2>3 DEF q
<1> QED
  BY <1>2, <1>3, <1>4

-----------------------------------------------------------------------------
(* The server's parts together. *)

\* The invariant of the part that was chosen.
PartsInv ==
    /\ IInv
    /\ part = "index" => IndexInv
    /\ part = "choice" => ChoiceInv
    /\ part = "import" => ImportInv

\* It holds in every reachable state.
LEMMA PartsInitial == AllInit => PartsInv
BY InvInit, InitIndex, ChoiceInit, ImportInit DEF AllInit, PartsInv

\* A step of a part is one of the part that was chosen.
LEMMA PartSteps ==
    ASSUME [AllNext]_allVars
    PROVE  /\ part' = part /\ [Next]_vars
           /\ part = "index" => [Index!Next]_indexVars
           /\ part = "choice" => [Choice!Next]_choiceVars
           /\ part = "import" => [Port!Next]_importVars
BY DEF AllNext, allVars, publishVars, Publishing, Importing

\* However its steps interleave, each part keeps its invariant.
THEOREM AlwaysPartsInv == AllSpec => []PartsInv
<1>1. PartsInv /\ [AllNext]_allVars => PartsInv'
  BY PartSteps, InvStep, StepIndex, ChoiceStep, ImportStep DEF PartsInv
<1> QED
  BY PartsInitial, <1>1, PTL DEF AllSpec

\* compiler.rs:174-200, 880-900: however compilers race, stop or meet damaged
\* versions, the manifest names a version whose two files are whole.
THEOREM ManifestsAreWhole == AllSpec => []ManifestWhole
<1>1. PartsInv => ManifestWhole
  BY DEF IInv, PartsInv
<1> QED
  BY AlwaysPartsInv, <1>1, PTL

\* bundle.rs:182-239: an open server maps both files of the version it read of.
THEOREM ServersMapOneVersion == AllSpec => []ServerMapsOneVersion
<1>1. PartsInv => ServerMapsOneVersion
  <2> SUFFICES ASSUME PartsInv, NEW s \in Servers, at[s] = "up"
      PROVE maps[s] = Whole(named[s])
    BY DEF ServerMapsOneVersion
  <2>1. maps[s] \in [lookup : Parts, pack : Parts]
    BY DEF PartsInv, IInv, TypeOK
  <2>2. maps[s].lookup = named[s] /\ maps[s].pack = named[s]
    BY DEF PartsInv, IInv, ServerInv
  <2> QED
    BY <2>1, <2>2 DEF Whole
<1> QED
  BY AlwaysPartsInv, <1>1, PTL

\* bundle.rs:253-316, 426-437: a lookup ends with the asked term when it was compiled, and
\* with none otherwise, by each of the three kinds of index.
THEOREM LookupsAreExact == AllSpec => []LookupExact
<1>1. PartsInv => LookupExact
  BY IndexCorrect DEF PartsInv, LookupExact
<1> QED
  BY AlwaysPartsInv, <1>1, PTL

\* fast_pack.py:589-936: what an import makes active leads every row to its clip in
\* the table and the pack it verified, whatever changed on the disk meanwhile.
THEOREM ActivationsAreVerified == AllSpec => ActivatesVerified
<1>1. PartsInv /\ [AllNext]_allVars => [part = "import" => Port!ActivatesVerified]_allVars
  BY PartSteps, Activates DEF PartsInv
<1> QED
  BY AlwaysPartsInv, <1>1, PTL DEF AllSpec, ActivatesVerified

\* fast_store.py:258-403, query.rs:92-272: both servers list the same rows of a term
\* in the same order, and the single scans of each find the heads of the lists.
THEOREM ServersSelectAlike == AllSpec => []SelectionsAgree
<1>1. PartsInv => SelectionsAgree
  BY ChoiceCorrect DEF PartsInv, SelectionsAgree
<1> QED
  BY AlwaysPartsInv, <1>1, PTL

\* The types of the import hold: the states of its files are counted changes.
LEMMA ImportTypesHold == ImportInv => Port!TypeOK
<1> SUFFICES ASSUME ImportInv PROVE Port!TypeOK
  OBVIOUS
<1>1. changes \in 0 .. MaxChanges /\ MaxChanges \in Nat
  BY ImportParameters DEF ImportInv, ImportTypes, Port!Parameters
<1>2. lookup \in [Bundles -> Port!Files] /\ inode \in [Port!Inodes -> Port!Files]
  BY <1>1 DEF ImportInv, ImportTypes, Counted, FileStates, Port!Files
<1>3. \A n \in DOMAIN dbs : dbs[n] \in Tables
  BY DEF ImportInv, ImportTypes
<1>4. active # None => active.bundle \in Bundles /\ active.db \in DOMAIN dbs
  BY DEF ImportInv, ImportTypes
<1> QED
  BY <1>2, <1>3, <1>4 DEF ImportInv, ImportTypes, Port!TypeOK

\* All variables keep their types, and the index is consistent at each step of its
\* construction and of its searches.
THEOREM AlwaysConsistent == AllSpec => []Consistent
<1>1. PartsInv => Consistent
  <2>1. IndexInv => Index!TypeOK /\ Index!BuildSound /\ Index!Placement
        /\ Index!SearchNarrows
    BY IndexCorrect
  <2> QED
    BY <2>1, ImportTypesHold DEF PartsInv, IInv, Consistent, ChoiceInv, ChoiceTypes
<1> QED
  BY AlwaysPartsInv, <1>1, PTL
=============================================================================
