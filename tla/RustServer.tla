---------------------------- MODULE RustServer ------------------------------
(***************************************************************************)
(* The four parts of the Rust server and its bundles, as one specification: *)
(* publication of bundles (RustPublish), the index of one (RustIndex), the *)
(* selection among the rows of a term (Selection) and the import of a      *)
(* bundle by the add-on (RustImport).  They share no state: a behaviour is *)
(* one of the part chosen at first; the variables of the others are None,  *)
(* and publication rests in an initial state.                              *)
(***************************************************************************)
EXTENDS RustPublish

CONSTANTS
    Keys, Fanout, Width, Load, MaxSeed,      \* of RustIndex
    RowCount, Sources, Values, Requests,     \* of Selection
    Tables, Bundles, MaxChanges, MaxStops    \* of RustImport; MaxStops is its MaxFaults

VARIABLES
    part,
    hash, seeded, terms, order, seed, slots, shift, step, asked, low, high, result,
    rows, records, request, scan, left, ordinal, best,
    dbs, bundle, sidecar, lookup, packAt, inode, published, active, protected,
    phase, found, noted, fetched, index, link, late, changes,
    importFaults

Index == INSTANCE RustIndex WITH pc <- step
Choice == INSTANCE Selection WITH pc <- scan
Port == INSTANCE RustImport WITH pc <- phase, MaxFaults <- MaxStops

ASSUME IndexParameters == Index!Parameters
ASSUME SelectionParameters == Choice!Parameters
ASSUME ImportParameters == Port!Parameters

publishVars == vars
indexVars == <<hash, seeded, terms, order, seed, slots, shift, step, asked, low, high,
               result>>
choiceVars == <<rows, records, request, scan, left, ordinal, best>>
importVars == <<dbs, bundle, sidecar, lookup, packAt, inode, published, active,
                protected, phase, found, noted, fetched, index, link, late, changes,
                importFaults>>
allVars == <<part, publishVars, indexVars, choiceVars, importVars>>

IndexUnused ==
    /\ hash = None /\ seeded = None /\ terms = None /\ order = None /\ seed = None
    /\ slots = None /\ shift = None /\ step = None /\ asked = None /\ low = None
    /\ high = None /\ result = None
ChoiceUnused ==
    /\ rows = None /\ records = None /\ request = None /\ scan = None /\ left = None
    /\ ordinal = None /\ best = None
ImportUnused ==
    /\ dbs = None /\ bundle = None /\ sidecar = None /\ lookup = None /\ packAt = None
    /\ inode = None /\ published = None /\ active = None /\ protected = None
    /\ phase = None /\ found = None /\ noted = None /\ fetched = None /\ index = None
    /\ link = None /\ late = None /\ changes = None /\ importFaults = None

AllInit ==
    /\ Init
    /\ \/ part = "publish" /\ IndexUnused /\ ChoiceUnused /\ ImportUnused
       \/ part = "index" /\ Index!Init /\ ChoiceUnused /\ ImportUnused
       \/ part = "choice" /\ Choice!Init /\ IndexUnused /\ ImportUnused
       \/ part = "import" /\ Port!Init /\ IndexUnused /\ ChoiceUnused
    /\ part # "publish" =>
        collection = (CHOOSE c \in Contents : TRUE) /\ versions = [c \in Contents |-> None]

Publishing(A) ==
    part = "publish" /\ A /\ UNCHANGED <<part, indexVars, choiceVars, importVars>>
Importing(A) ==
    part = "import" /\ A /\ UNCHANGED <<part, publishVars, indexVars, choiceVars>>

AllNext ==
    \/ Publishing(Next)
    \/ part = "index" /\ Index!Next /\ UNCHANGED <<part, publishVars, choiceVars, importVars>>
    \/ part = "choice" /\ Choice!Next /\ UNCHANGED <<part, publishVars, indexVars, importVars>>
    \/ Importing(Port!Next)

AllSpec ==
    /\ AllInit /\ [][AllNext]_allVars
    /\ \A p \in Compilers : WF_allVars(Publishing(CompileSteps(p)))
    /\ WF_allVars(Importing(Port!Import))

-----------------------------------------------------------------------------
(* The properties of the parts *)

\* The variables have their types, the manifest names a whole version, placed
\* terms and used slots correspond, an index is refused only when the
\* displacements are used up, and a binary search keeps its term between its ends.
Consistent ==
    /\ TypeOK /\ ManifestWhole
    /\ part = "index" => /\ Index!TypeOK /\ Index!BuildSound
                         /\ Index!Placement /\ Index!SearchNarrows
    /\ part = "choice" => Choice!TypeOK
    /\ part = "import" => Port!TypeOK

\* RustPublish, RustImport: what a stopped compiler left is repaired by a later
\* one, and what a stopped import left does not keep a later one from activating
\* the bundle.
PublicationsComeBack ==
    []<>(/\ part = "publish" => Manifested
         /\ part = "import" => Port!Imported)

\* RustIndex: whatever the hashes collide on, each of the three lookups finds
\* exactly the compiled keys.
LookupExact == part = "index" => Index!LookupExact

\* Selection: the Rust server and the add-on select the same rows of a term in
\* the same order, and the single scans of /v1/first and of /v1/play, which order
\* by other keys than the lists, find the heads of the lists.
SelectionsAgree ==
    part = "choice" =>
        Choice!ServersAgree /\ Choice!FirstHeadsTheList /\ Choice!PlayIsFirst

\* RustImport: an import activates an index that leads from each row of the
\* database it names to the clip of that row in the pack it verified.
ActivatesVerified == [][part = "import" => Port!ActivatesVerified]_allVars
=============================================================================
