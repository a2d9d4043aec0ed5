---------------------------- MODULE RustPublish ----------------------------
(***************************************************************************)
(* How the Rust compiler publishes a bundle (compiler.rs compile and        *)
(* publish_manifest) and how a server opens one (bundle.rs Bundle::open).   *)
(* A bundle is built aside, renamed to the directory of its version, which  *)
(* its contents determine, and named by the manifest, which replaces the    *)
(* one before.  Compilers run one after another or at once, may stop        *)
(* between any two file operations, and the collection changes.             *)
(***************************************************************************)
EXTENDS Naturals, FiniteSets

CONSTANTS
    Compilers, Servers,
    Contents,     \* collections; the version of a bundle is its contents
    Damaged,      \* contents whose version directory may exist, damaged
    MaxFaults,    \* bound on compilers that stop
    None

ASSUME RustPublishAssumption ==
    /\ MaxFaults \in Nat /\ None \notin Contents /\ Damaged \subseteq Contents
    /\ "torn" \notin Contents
    /\ None \notin [lookup : Contents \cup {"torn"}, pack : Contents \cup {"torn"}]

\* A version directory holds the index and the pack of its contents; "torn"
\* is a file whose bytes are not those that were compiled.
Torn == "torn"

VARIABLES
    collection,   \* what a compiler would read
    versions,     \* version -> [lookup, pack] or None: the published directories
    temp,         \* compiler -> what it has built aside, or None
    draft,        \* compiler -> its manifest.json.tmp.<pid>, or None
    manifest,     \* manifest.json: a version, or None
    pc, built,    \* compiler: where it is and what it compiled
    at, named, maps,  \* server: where it is, the manifest it read, its mappings
    faults

compilerVars == <<pc, built, temp, draft>>
serverVars == <<at, named, maps>>
diskVars == <<versions, manifest>>
vars == <<collection, diskVars, compilerVars, serverVars, faults>>

Whole(c) == [lookup |-> c, pack |-> c]

Init ==
    /\ collection \in Contents
    /\ \E D \in SUBSET Damaged :
        versions = [c \in Contents |->
            IF c \in D THEN [lookup |-> c, pack |-> Torn] ELSE None]
    /\ manifest = None
    /\ temp = [p \in Compilers |-> None] /\ draft = [p \in Compilers |-> None]
    /\ pc = [p \in Compilers |-> "idle"] /\ built = [p \in Compilers |-> None]
    /\ at = [s \in Servers |-> "down"] /\ named = [s \in Servers |-> None]
    /\ maps = [s \in Servers |-> [lookup |-> None, pack |-> None]]
    /\ faults = 0

Goto(p, from, to) == pc[p] = from /\ pc' = [pc EXCEPT ![p] = to]

-----------------------------------------------------------------------------
(* compile *)

\* compile_inner builds into .build-<pid>-<time>; an error there removes it.
Compile(p) ==
    /\ Goto(p, "idle", "compiled")
    /\ built' = [built EXCEPT ![p] = collection]
    /\ temp' = [temp EXCEPT ![p] = Whole(collection)]
    /\ UNCHANGED <<collection, diskVars, draft, serverVars, faults>>

\* The version exists already: it is used if its files have the digests of
\* what was just built, otherwise compile fails, leaving the build aside.
Reuse(p) ==
    /\ pc[p] = "compiled" /\ versions[built[p]] # None
    /\ IF versions[built[p]] = Whole(built[p])
         THEN temp' = [temp EXCEPT ![p] = None] /\ pc' = [pc EXCEPT ![p] = "write"]
         ELSE pc' = [pc EXCEPT ![p] = "idle"] /\ UNCHANGED temp
    /\ UNCHANGED <<collection, diskVars, built, draft, serverVars, faults>>

Missing(p) == versions[built[p]] = None

\* It does not exist: the build is renamed, unless another compiler renamed
\* the same version first, which fails.
SeeFree(p) ==
    /\ Goto(p, "compiled", "rename")
    /\ Missing(p)
    /\ UNCHANGED <<collection, diskVars, built, temp, draft, serverVars, faults>>

Rename(p) ==
    /\ pc[p] = "rename"
    /\ IF Missing(p)
         THEN /\ versions' = [versions EXCEPT ![built[p]] = temp[p]]
              /\ temp' = [temp EXCEPT ![p] = None] /\ pc' = [pc EXCEPT ![p] = "write"]
         ELSE pc' = [pc EXCEPT ![p] = "idle"] /\ UNCHANGED <<versions, temp>>
    /\ UNCHANGED <<collection, manifest, built, draft, serverVars, faults>>

\* publish_manifest: the draft is written and synced.
WriteDraft(p) ==
    /\ Goto(p, "write", "replace")
    /\ draft' = [draft EXCEPT ![p] = built[p]]
    /\ UNCHANGED <<collection, diskVars, built, temp, serverVars, faults>>

\* The manifest in place is removed before the draft takes its name.
SeeManifestBlind(p) == \* Mutant: it is removed without a look.
    /\ Goto(p, "replace", "remove")
    /\ UNCHANGED <<collection, diskVars, built, temp, draft, serverVars, faults>>
SeeManifest(p) ==
    /\ pc[p] = "replace"
    /\ pc' = [pc EXCEPT ![p] = IF manifest = None THEN "place" ELSE "remove"]
    /\ UNCHANGED <<collection, diskVars, built, temp, draft, serverVars, faults>>

\* Another compiler may have removed it meanwhile: then compile fails.
RemoveManifest(p) ==
    /\ pc[p] = "remove"
    /\ pc' = [pc EXCEPT ![p] = IF manifest = None THEN "idle" ELSE "place"]
    /\ manifest' = None
    /\ UNCHANGED <<collection, versions, built, temp, draft, serverVars, faults>>

PlaceManifest(p) ==
    /\ Goto(p, "place", "idle")
    /\ manifest' = draft[p] /\ draft' = [draft EXCEPT ![p] = None]
    /\ UNCHANGED <<collection, versions, built, temp, serverVars, faults>>

-----------------------------------------------------------------------------
(* Bundle::open and the server's life *)

ReadManifest(s) ==
    /\ at[s] = "down" /\ manifest # None
    /\ named' = [named EXCEPT ![s] = manifest] /\ at' = [at EXCEPT ![s] = "lookup"]
    /\ UNCHANGED <<collection, diskVars, compilerVars, maps, faults>>

MapLookup(s) ==
    /\ at[s] = "lookup" /\ versions[named[s]] # None
    /\ maps' = [maps EXCEPT ![s] = [lookup |-> versions[named[s]].lookup, pack |-> None]]
    /\ at' = [at EXCEPT ![s] = "pack"]
    /\ UNCHANGED <<collection, diskVars, compilerVars, named, faults>>

MapPackCurrent(s) == \* Mutant: the pack of the manifest that is there now.
    /\ at[s] = "pack" /\ manifest # None
    /\ maps' = [maps EXCEPT ![s] = [lookup |-> maps[s].lookup,
                                pack |-> versions[manifest].pack]]
    /\ at' = [at EXCEPT ![s] = "up"]
    /\ UNCHANGED <<collection, diskVars, compilerVars, named, faults>>
MapPack(s) ==
    /\ at[s] = "pack" /\ versions[named[s]] # None
    /\ maps' = [maps EXCEPT ![s] = [lookup |-> maps[s].lookup,
                                pack |-> versions[named[s]].pack]]
    /\ at' = [at EXCEPT ![s] = "up"]
    /\ UNCHANGED <<collection, diskVars, compilerVars, named, faults>>

StopServer(s) ==
    /\ at[s] = "up"
    /\ at' = [at EXCEPT ![s] = "down"] /\ named' = [named EXCEPT ![s] = None]
    /\ maps' = [maps EXCEPT ![s] = [lookup |-> None, pack |-> None]]
    /\ UNCHANGED <<collection, diskVars, compilerVars, faults>>

-----------------------------------------------------------------------------
ChangeCollection ==
    /\ \E c \in Contents \ {collection} : collection' = c
    /\ UNCHANGED <<diskVars, compilerVars, serverVars, faults>>

\* A compiler stops: what it has on the disk stays there.
Crash(p) ==
    /\ pc[p] # "idle" /\ faults < MaxFaults
    /\ faults' = faults + 1
    /\ pc' = [pc EXCEPT ![p] = "idle"] /\ built' = [built EXCEPT ![p] = None]
    /\ UNCHANGED <<collection, diskVars, temp, draft, serverVars>>

CompileSteps(p) ==
    Compile(p) \/ Reuse(p) \/ SeeFree(p) \/ Rename(p) \/ WriteDraft(p)
    \/ SeeManifest(p) \/ RemoveManifest(p) \/ PlaceManifest(p)

Next ==
    \/ \E p \in Compilers : CompileSteps(p) \/ Crash(p)
    \/ \E s \in Servers :
        ReadManifest(s) \/ MapLookup(s) \/ MapPack(s) \/ StopServer(s)
    \/ ChangeCollection

Spec == Init /\ [][Next]_vars

\* Somebody runs the compiler again, and it runs to its end.
FairSpec == Spec /\ \A p \in Compilers : WF_vars(CompileSteps(p))

-----------------------------------------------------------------------------
(* Properties *)

Parts == Contents \cup {Torn, None}

\* Every variable has its type.
TypeOK ==
    /\ collection \in Contents
    /\ versions \in [Contents -> {None} \cup [lookup : Parts, pack : Parts]]
    /\ temp \in [Compilers -> {None} \cup {Whole(c) : c \in Contents}]
    /\ draft \in [Compilers -> Contents \cup {None}]
    /\ manifest \in Contents \cup {None}
    /\ pc \in [Compilers -> {"idle", "compiled", "rename", "write", "replace",
                             "remove", "place"}]
    /\ built \in [Compilers -> Contents \cup {None}]
    /\ at \in [Servers -> {"down", "lookup", "pack", "up"}]
    /\ named \in [Servers -> Contents \cup {None}]
    /\ maps \in [Servers -> [lookup : Parts, pack : Parts]]
    /\ faults \in 0 .. MaxFaults

\* Whatever compilers crash, race or find on the disk, the manifest names a
\* version whose directory is there with both of its files whole.
ManifestWhole == manifest # None => versions[manifest] = Whole(manifest)

\* A server that opened a bundle while compilers replaced the manifest maps an
\* index and a pack of one version, the one whose manifest it read.
ServerMapsOneVersion ==
    \A s \in Servers : at[s] = "up" => maps[s] = Whole(named[s])

\* A compiler that stopped between removing the manifest and placing its own
\* leaves nothing a later run cannot repair, unless a damaged version is in
\* its way: again and again there is a manifest.
DamagedVersion == \E c \in Contents : versions[c] \notin {None, Whole(c)}
Manifested == manifest # None \/ DamagedVersion
=============================================================================
