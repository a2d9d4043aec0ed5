----------------------------- MODULE RustImport -----------------------------
(***************************************************************************)
(* import_rust_bundle of fast_pack.py: the add-on takes the pack of a       *)
(* compiled Rust bundle as its own, by a hard link, and makes the index of  *)
(* its rows from the audio table of the bundle and the entries of the       *)
(* database, without reading the audio again.  Bundle, database and         *)
(* published versions may change between any two of its file operations,    *)
(* and the program may stop; it holds the build lock while it works.        *)
(*                                                                         *)
(* A database is its rows, each with the asset (source and file) it names.  *)
(* A bundle is the number of records it was compiled from and its table of  *)
(* assets, which are numbered in the order of their keys; the clip of the   *)
(* i-th asset is the i-th of its pack.  Contents determine its version.     *)
(***************************************************************************)
EXTENDS Naturals, Sequences, FiniteSets

CONSTANTS
    Tables,      \* the rows databases may have: functions from ids to assets
    Bundles,     \* [count, table]: the bundles that may be compiled
    MaxChanges,  \* bound on what others do to bundle, database and index
    MaxFaults,   \* bound on imports that stop
    None

Parameters ==
    /\ MaxChanges \in Nat /\ MaxFaults \in Nat
    /\ \A rows \in Tables : \A id \in DOMAIN rows : rows[id] \in Nat
    /\ IsFiniteSet(Bundles)
    /\ \A b \in Bundles : b.count \in Nat /\ b.table \in Seq(Nat)
    /\ None \notin Bundles \cup Nat
    /\ None \notin [index : UNION {[DOMAIN r -> Nat] : r \in Tables}, pack : Nat]

VARIABLES
    dbs,         \* the databases there were; the last one is installed
    bundle,      \* manifest.json of the bundle: its version
    sidecar,     \* integrity.sha256.json: the version whose digests it holds
    lookup,      \* lookup.bin of each version: its state and whether it is whole
    packAt,      \* the inode of audio.pack of each version
    inode,       \* state of each inode and whether its bytes are whole
    published,   \* version of the add-on -> its index and the inode of its pack
    active,      \* active.json: bundle and database it was imported from
    protected,   \* cleanup state on the disk
    pc,          \* where the import is
    found, noted, fetched, index, link,   \* what it has read, noted and made
    late,        \* history: a pack was rewritten after the last look at it
    changes, importFaults

bundleVars == <<bundle, sidecar, lookup, packAt, inode>>
worldVars == <<dbs, bundleVars, protected>>
localVars == <<found, noted, fetched, index, link, late>>
vars == <<worldVars, published, active, pc, localVars, changes, importFaults>>

Stamp == Len(dbs)
Inodes == 1 .. Cardinality(Bundles) + MaxChanges
Torn == <<>>      \* an index gone bad
Nothing == [lookup |-> None, pack |-> None, db |-> None]

Init ==
    /\ \E t \in Tables : dbs = <<t>>
    /\ bundle \in Bundles /\ sidecar = bundle
    /\ lookup = [b \in Bundles |-> [state |-> 0, whole |-> TRUE]]
    /\ packAt = CHOOSE f \in [Bundles -> 1 .. Cardinality(Bundles)] :
                    \A b, c \in Bundles : f[b] = f[c] => b = c
    /\ inode = [i \in Inodes |-> [state |-> 0, whole |-> TRUE]]
    /\ published = [v \in Bundles \X (1 .. MaxChanges + 1) |-> None]
    /\ active = None /\ protected = FALSE
    /\ pc = "idle" /\ found = None /\ noted = Nothing
    /\ fetched = None /\ index = None /\ link = None /\ late = FALSE
    /\ changes = 0 /\ importFaults = 0

-----------------------------------------------------------------------------
(* The import *)

Quit == /\ pc' = "idle" /\ found' = None /\ noted' = Nothing
        /\ fetched' = None /\ index' = None /\ link' = None /\ late' = FALSE

\* A step that finds what it needs goes on, otherwise the import fails and
\* what it built aside is removed.
Step(from, good, to, A) ==
    /\ pc = from
    /\ IF good THEN pc' = to /\ A ELSE Quit
    /\ UNCHANGED <<worldVars, published, active, changes, importFaults>>

Keep(v) == UNCHANGED v
Note(field, value) == noted' = [noted EXCEPT ![field] = value]

\* The cleanup state is looked at before and after the lock is taken.
CheckProtected == Step("idle", ~protected, "lock", Keep(localVars))
TakeLock == Step("lock", ~protected, "manifest", Keep(localVars))

\* The bundle's manifest names a version, and the files of that version.
ReadManifest ==
    Step("manifest", TRUE, "lookup",
         found' = bundle /\ Keep(<<noted, fetched, index, link, late>>))

\* The sidecar must be of this version, and the bytes of both files, stable
\* while they are hashed, must have its digests.  Their state is noted.
HashLookup ==
    Step("lookup", sidecar = found /\ lookup[found].whole, "pack",
         Note("lookup", lookup[found].state) /\ Keep(<<found, fetched, index, link, late>>))

PackState(i) == <<i, inode[i].state>>
HashPack ==
    Step("pack", inode[packAt[found]].whole, "stat",
         Note("pack", PackState(packAt[found])) /\ Keep(<<found, fetched, index, link, late>>))

StatDatabase ==
    Step("stat", TRUE, "open", Note("db", Stamp) /\ Keep(<<found, fetched, index, link, late>>))

\* The connection reads the file it was opened on to its end.
OpenDatabase ==
    Step("open", Cardinality(DOMAIN dbs[Stamp]) = found.count, "merge",
         fetched' = dbs[Stamp] /\ Keep(<<found, noted, index, link, late>>))

\* _group_rows: the assets of the rows, in order.
Assets(r) == {r[id] : id \in DOMAIN r}
Ascending(s) == \A i, j \in DOMAIN s : i < j => s[i] < s[j]
Enumerates(s, r) == Ascending(s) /\ {s[i] : i \in DOMAIN s} = Assets(r)

\* Both streams are followed to their ends; each row gets the cell of its
\* asset.  A lookup file that was rewritten may hold any table.
TableRead == IF lookup[found].whole THEN {found.table} ELSE {b.table : b \in Bundles}
Merge ==
    /\ pc = "merge"
    /\ \E table \in TableRead :
        Step("merge", table # <<>> /\ Enumerates(table, fetched), "database",
             /\ index' = [id \in DOMAIN fetched |->
                            CHOOSE i \in DOMAIN table : table[i] = fetched[id]]
             /\ Keep(<<found, noted, fetched, link, late>>))

\* The database, the lookup file and the pack must be the ones noted.
RecheckDatabaseNot == \* Mutant: the database is not looked at again.
    Step("database", TRUE, "again", Keep(localVars))
RecheckDatabase == Step("database", Stamp = noted.db, "again", Keep(localVars))

RecheckLookup ==
    Step("again", lookup[found].state = noted.lookup, "see", Keep(localVars))

\* The pack is looked at, linked, and looked at again through the link.
SeePack ==
    Step("see", PackState(packAt[found]) = noted.pack, "link", Keep(localVars))

LinkPack ==
    Step("link", TRUE, "linked",
         link' = packAt[found] /\ Keep(<<found, noted, fetched, index, late>>))

CheckLink ==
    Step("linked", link = packAt[found] /\ PackState(link) = noted.pack, "publish",
         Keep(localVars))

\* The version is named for bundle and database.  One that exists is used only
\* with the same index and the same, unchanged, file as its pack.
Version == <<found, noted.db>>
Built == [index |-> index, pack |-> link]
Compatible ==
    /\ published[Version].index = index
    /\ published[Version].pack = packAt[found] /\ PackState(packAt[found]) = noted.pack
Publish ==
    /\ pc = "publish"
    /\ IF published[Version] = None
         THEN /\ published' = [published EXCEPT ![Version] = Built]
              /\ pc' = "activate" /\ UNCHANGED localVars
         ELSE /\ IF Compatible
                   THEN /\ pc' = "activate" /\ late' = FALSE
                        /\ UNCHANGED <<found, noted, fetched, index, link>>
                   ELSE Quit
              /\ UNCHANGED published
    /\ UNCHANGED <<worldVars, active, changes, importFaults>>

Activate ==
    /\ pc = "activate"
    /\ active' = [bundle |-> found, db |-> noted.db]
    /\ Quit
    /\ UNCHANGED <<worldVars, published, changes, importFaults>>

\* The program stops: the lock is released, what it has published stays.
Stop ==
    /\ pc # "idle" /\ importFaults < MaxFaults
    /\ importFaults' = importFaults + 1
    /\ Quit
    /\ UNCHANGED <<worldVars, published, active, changes>>

Import ==
    \/ CheckProtected \/ TakeLock \/ ReadManifest \/ HashLookup \/ HashPack
    \/ StatDatabase \/ OpenDatabase \/ Merge \/ RecheckDatabase \/ RecheckLookup
    \/ SeePack \/ LinkPack \/ CheckLink \/ Publish \/ Activate

-----------------------------------------------------------------------------
(* Others *)

Change == changes < MaxChanges /\ changes' = changes + 1
ImportKept == UNCHANGED <<active, pc, found, noted, fetched, index, link, importFaults>>

ReplaceDatabase ==
    /\ Change /\ \E t \in Tables : dbs' = Append(dbs, t)
    /\ ImportKept /\ UNCHANGED <<bundleVars, protected, published, late>>

\* The compiler publishes another version, then its digests are written.
Compile ==
    /\ Change /\ \E b \in Bundles \ {bundle} : bundle' = b
    /\ ImportKept
    /\ UNCHANGED <<dbs, sidecar, lookup, packAt, inode, protected, published, late>>

WriteSidecar ==
    /\ sidecar # bundle /\ sidecar' = bundle
    /\ ImportKept
    /\ UNCHANGED <<dbs, bundle, lookup, packAt, inode, protected, published, changes, late>>

\* A version was deleted and compiled again: new files with the same bytes.
CompileAgain(b) ==
    /\ Change
    /\ lookup' = [lookup EXCEPT ![b] = [state |-> @.state + 1, whole |-> TRUE]]
    /\ packAt' = [packAt EXCEPT ![b] = Cardinality(Bundles) + changes']
    /\ ImportKept
    /\ UNCHANGED <<dbs, bundle, sidecar, inode, protected, published, late>>

\* A file of the bundle is rewritten in place.
Rewrite(b) ==
    /\ Change
    /\ \/ /\ lookup' = [lookup EXCEPT ![b] = [state |-> @.state + 1, whole |-> FALSE]]
          /\ UNCHANGED <<inode, late>>
       \/ /\ inode' = [inode EXCEPT ![packAt[b]] = [state |-> @.state + 1, whole |-> FALSE]]
          /\ late' = (late \/ pc \in {"publish", "activate"})
          /\ UNCHANGED lookup
    /\ ImportKept /\ UNCHANGED <<dbs, bundle, sidecar, packAt, protected, published>>

\* The index of a published version goes bad between two imports.
DamageIndex(v) ==
    /\ Change /\ pc = "idle" /\ published[v] # None
    /\ published' = [published EXCEPT ![v].index = Torn]
    /\ ImportKept /\ UNCHANGED <<worldVars, late>>

\* Cleanup and restore, which hold the lock.
Protect ==
    /\ Change /\ pc \in {"idle", "lock"}
    /\ protected' = ~protected
    /\ ImportKept /\ UNCHANGED <<dbs, bundleVars, published, late>>

World ==
    \/ ReplaceDatabase \/ Compile \/ WriteSidecar \/ Protect
    \/ \E b \in Bundles : CompileAgain(b) \/ Rewrite(b)
    \/ \E v \in DOMAIN published : DamageIndex(v)

Next == Import \/ Stop \/ World

Spec == Init /\ [][Next]_vars

-----------------------------------------------------------------------------
(* Properties *)

\* Every variable has its type.
Files == [state : 0 .. MaxChanges, whole : BOOLEAN]
TypeOK ==
    /\ \A n \in DOMAIN dbs : dbs[n] \in Tables
    /\ bundle \in Bundles /\ sidecar \in Bundles
    /\ lookup \in [Bundles -> Files] /\ inode \in [Inodes -> Files]
    /\ packAt \in [Bundles -> Inodes]
    /\ active # None => active.bundle \in Bundles /\ active.db \in DOMAIN dbs
    /\ protected \in BOOLEAN /\ late \in BOOLEAN /\ found \in Bundles \cup {None}
    /\ link \in Inodes \cup {None}
    /\ changes \in 0 .. MaxChanges /\ importFaults \in 0 .. MaxFaults

\* What an import activates leads from every row of the database it names, and
\* from no other row, to the clip of that row's asset in the pack of the bundle
\* it names; the pack has the bytes that were verified unless it was rewritten
\* after the last look; and the originals are not away (fast_pack.py:593-936).
LeadsToClips(v, r) ==
    /\ published[v] # None
    /\ DOMAIN published[v].index = DOMAIN r
    /\ \A id \in DOMAIN r : v[1].table[published[v].index[id]] = r[id]
PackVerified(v) == inode[published[v].pack].whole \/ late
ActivatesVerified ==
    active' # active =>
        LET v == <<active'.bundle, active'.db>> IN
        ~protected /\ LeadsToClips(v, dbs[active'.db]) /\ PackVerified(v)

\* A bundle that fits the database and stays as it is becomes the active pack
\* again and again, although imports stop: what they left on the disk is used or
\* replaced, except a version of the same name that differs.
Fits ==
    /\ sidecar = bundle /\ lookup[bundle].whole /\ inode[packAt[bundle]].whole
    /\ Cardinality(DOMAIN dbs[Stamp]) = bundle.count
    /\ bundle.table # <<>> /\ Enumerates(bundle.table, dbs[Stamp])
    /\ ~protected
InTheWay ==
    LET v == published[<<bundle, Stamp>>] IN
    v # None /\ (v.index = Torn \/ v.pack # packAt[bundle])
Imported == active = [bundle |-> bundle, db |-> Stamp] \/ ~Fits \/ InTheWay
=============================================================================
