----------------------------- MODULE Selection -----------------------------
(***************************************************************************)
(* Which recording a lookup selects: the filter and order of the rows of    *)
(* one term in the add-on (fast_store.py) and in the Rust server            *)
(* (compiler.rs, query.rs).  The add-on sorts per request or, for           *)
(* /v1/first, scans once for the best row; the Rust server scans records    *)
(* that the compiler ordered.  Both serve the same collection.              *)
(*                                                                          *)
(* Texts are numbers whose order is the order of the texts.  In a row 0 is  *)
(* an absent reading or speaker; in a request 0 is the blank text and None  *)
(* an absent parameter.  Source s is the s-th of the configuration.         *)
(***************************************************************************)
EXTENDS Naturals, Sequences, FiniteSets, SequencesExt

CONSTANTS
    RowCount,  \* number of rows of the term, numbered by id
    Values,    \* what a row may hold: [reading, source, speaker]
    Sources,   \* number of configured sources
    Requests,  \* what a client may ask: [reading, sources, users]
    None

Ids == 1 .. RowCount

\* What a client may list; a parameter that is given has a value.
Lists == Seq(Nat) \ {<<>>}

\* What holds of collections and requests.
Parameters ==
    /\ RowCount \in Nat \ {0} /\ Sources \in Nat \ {0} /\ None \notin Nat
    /\ Values \subseteq [reading : Nat, source : 1 .. Sources, speaker : Nat]
    \* A source names a speaker in each of its rows (forvo) or in none.
    /\ \A v, w \in Values :
        v.source = w.source => (v.speaker = 0) = (w.speaker = 0)
    /\ Requests \subseteq [reading : {None} \cup Nat,
                           sources : {None} \cup Lists, users : {None} \cup Lists]

VARIABLES
    rows,     \* the entries of the term: id -> value
    records,  \* the compiled postings: ids in record order
    request,  \* the request in progress
    pc,       \* "compile", "idle", "first", "play" or "done"
    left,     \* rows the add-on has still to see
    ordinal,  \* the next posting the Rust server looks at
    best      \* the best so far

vars == <<rows, records, request, pc, left, ordinal, best>>

-----------------------------------------------------------------------------
(* Order and rank *)

\* Tuples compare by their first different component.
Less(a, b) ==
    \E i \in DOMAIN a : a[i] < b[i] /\ \A j \in 1 .. i - 1 : a[j] = b[j]

\* What has a key, in the order of the keys.
Arranged(key) ==
    {s \in SetToSeqs(DOMAIN key) :
        \A i, j \in DOMAIN s : i < j => Less(key[s[i]], key[s[j]])}
Sorted(key) == CHOOSE s \in Arranged(key) : TRUE

Bit(b) == IF b THEN 1 ELSE 0

\* None sorts before every text.
TextKey(t) == <<Bit(t # 0), t>>

\* The rank of a value in a request's list is its first place there; values
\* that are not listed come last.
Places(list, x) == {i \in DOMAIN list : list[i] = x}
Rank(list, x) ==
    IF Places(list, x) = {} THEN Len(list) + 1
    ELSE CHOOSE i \in Places(list, x) : \A j \in Places(list, x) : i <= j

Listed(list, x) == Places(list, x) # {}

AllSources == [s \in 1 .. Sources |-> s]

\* _parse_lookup drops blank values; a list with no other is no filter.
Kept(list) == IF list = None THEN {} ELSE {i \in DOMAIN list : list[i] # 0}
Named(list) ==
    LET places == Sorted([i \in Kept(list) |-> <<i>>])
    IN  [i \in DOMAIN places |-> list[places[i]]]
ParseLookup(q) ==
    [reading |-> IF q.reading = 0 THEN None ELSE q.reading,
     sources |-> IF Named(q.sources) = <<>> THEN AllSources ELSE Named(q.sources),
     users   |-> Named(q.users)]

\* parse_query keeps what the client sent.
ParseQuery(q) == [q EXCEPT !.users = IF @ = None THEN <<>> ELSE @]

-----------------------------------------------------------------------------
(* The add-on: _rows_uncached and _select_rows *)

ReadingRows(q) ==
    {r \in Ids : q.reading = None \/ rows[r].reading \in {0, q.reading}}

SelectKey(q, r) ==
    LET v == rows[r] IN
    <<Rank(q.sources, v.source),
      IF v.speaker = 0 THEN 0 ELSE Rank(q.users, v.speaker)>>
    \o TextKey(v.reading) \o <<r>>

Selected(q) ==
    {r \in ReadingRows(q) :
        /\ Listed(q.sources, rows[r].source)
        /\ \/ q.users = <<>>
           \/ rows[r].speaker = 0
           \/ Listed(q.users, rows[r].speaker)}
Select(q) == Sorted([r \in Selected(q) |-> SelectKey(q, r)])

\* The key of the single scan of _first_row_unleased.
FirstKey(r) ==
    LET v == rows[r] IN
    <<v.source, Bit(v.speaker # 0)>> \o TextKey(v.reading) \o <<r>>

-----------------------------------------------------------------------------
(* The Rust server: flush_term, resolve_record and compare_candidates *)

RecordKeyUnsourced(r) == \* Mutant: records leave their source out.
    TextKey(rows[r].reading) \o <<r>>
RecordKey(r) == <<rows[r].source>> \o TextKey(rows[r].reading) \o <<r>>

\* The tuple of speaker_sort: no speaker first, then the rank of the user.
SpeakerSort(users, speaker) ==
    IF speaker = 0 THEN <<0, 0>>
    ELSE IF users = <<>> THEN <<1, 0>>
    ELSE <<1, Rank(users, speaker)>>

\* source_rank ranks every source of the manifest when none is requested.
RequestedSources(q) == IF q.sources = None THEN AllSources ELSE q.sources

Resolves(q, r) ==
    LET v == rows[r] IN
    /\ Listed(RequestedSources(q), v.source)
    /\ q.reading # None => v.reading \in {0, q.reading}
    /\ q.users # <<>> => v.speaker = 0 \/ Listed(q.users, v.speaker)

\* The last component stands for the ordinal of the record.
CandidateKey(q, r) ==
    LET v == rows[r] IN
    <<Rank(RequestedSources(q), v.source)>> \o SpeakerSort(q.users, v.speaker)
    \o TextKey(v.reading) \o <<CHOOSE o \in DOMAIN records : records[o] = r>>

Resolved(q) == {r \in Ids : Resolves(q, r)}
Candidates(q) == Sorted([r \in Resolved(q) |-> CandidateKey(q, r)])

DefaultFastPath(q) == q.sources = None /\ q.users = <<>>

-----------------------------------------------------------------------------
Init ==
    /\ rows \in [Ids -> Values]
    /\ records = <<>> /\ request = None /\ pc = "compile"
    /\ left = {} /\ ordinal = 1 /\ best = None

\* collect_records: the bundle is compiled from the same database.
Compile ==
    /\ pc = "compile"
    /\ records' = Sorted([r \in Ids |-> RecordKey(r)])
    /\ pc' = "idle"
    /\ UNCHANGED <<rows, request, left, ordinal, best>>

\* /v1/first takes no filter but the reading.
AskFirst ==
    /\ pc = "idle"
    /\ \E q \in Requests :
        /\ request' = q
        /\ left' = ReadingRows(ParseLookup(q))
    /\ pc' = "first" /\ best' = None
    /\ UNCHANGED <<rows, records, ordinal>>

AskPlay ==
    /\ pc = "idle"
    /\ \E q \in Requests : request' = q
    /\ pc' = "play" /\ ordinal' = 1 /\ best' = None
    /\ UNCHANGED <<rows, records, left>>

\* The rows come in the order of the database, which is none in particular.
ScanFirst ==
    /\ pc = "first"
    /\ \E r \in left :
        /\ left' = left \ {r}
        /\ best' = IF best = None \/ Less(FirstKey(r), FirstKey(best))
                     THEN r ELSE best
    /\ UNCHANGED <<rows, records, request, pc, ordinal>>

\* best_candidate looks at one record after the other; the first that
\* resolves is the answer when nothing is filtered.
ScanPlay ==
    /\ pc = "play" /\ ordinal \in DOMAIN records
    /\ LET r == records[ordinal]
           q == ParseQuery(request)
       IN
       IF ~Resolves(q, r) THEN UNCHANGED <<best, pc>>
       ELSE IF DefaultFastPath(q) THEN best' = r /\ pc' = "done"
       ELSE /\ best' = IF \/ best = None
                          \/ Less(CandidateKey(q, r), CandidateKey(q, best))
                         THEN r ELSE best
            /\ UNCHANGED pc
    /\ ordinal' = ordinal + 1
    /\ UNCHANGED <<rows, records, request, left>>
EndScan ==
    /\ \/ pc = "first" /\ left = {}
       \/ pc = "play" /\ ordinal \notin DOMAIN records
    /\ pc' = "done"
    /\ UNCHANGED <<rows, records, request, left, ordinal, best>>

Answer ==
    /\ pc = "done"
    /\ pc' = "idle" /\ request' = None /\ best' = None /\ left' = {} /\ ordinal' = 1
    /\ UNCHANGED <<rows, records>>

Next ==
    \/ Compile \/ AskFirst \/ AskPlay \/ ScanFirst \/ ScanPlay \/ EndScan \/ Answer

Spec == Init /\ [][Next]_vars

-----------------------------------------------------------------------------
(* Properties *)

\* Every variable has its type.
TypeOK ==
    /\ rows \in [Ids -> Values] /\ records \in Seq(Ids)
    /\ request \in Requests \cup {None}
    /\ pc \in {"compile", "idle", "first", "play", "done"}
    /\ left \subseteq Ids /\ ordinal \in 1 .. RowCount + 1
    /\ best \in Ids \cup {None}

\* The candidates of the Rust server, which sorts records by source index,
\* speaker, reading and ordinal, are the rows the add-on selects for the same
\* request, in the same order: ordinals stand for row ids among equals, and
\* sources and users that are listed twice or unknown rank alike.
Agree(q) == Candidates(ParseQuery(q)) = Select(ParseLookup(q))
Blank(q) ==
    \/ q.reading = 0
    \/ q.sources # None /\ Listed(q.sources, 0)
    \/ q.users # None /\ Listed(q.users, 0)
ServersAgree == pc = "play" /\ ~Blank(request) => Agree(request)

FirstOf(list) == IF list = <<>> THEN None ELSE list[1]

\* The single scan of /v1/first answers with the head of the list the root
\* endpoint gives for the same term and reading, in whatever order the
\* database returns the rows.
FirstHeadsTheList ==
    pc = "first" /\ left = {} =>
        best = FirstOf(Select(ParseLookup(
                   [request EXCEPT !.sources = None, !.users = None])))

\* The Rust /v1/play plays the first of its candidates for every request.  The
\* default path stops at the first record that resolves, in an order that
\* leaves the speaker out: right, because the sources put first compare first
\* in both orders and no source mixes rows with and without speaker.
PlayIsFirst ==
    pc = "done" /\ ordinal > 1 =>
        best = FirstOf(Candidates(ParseQuery(request)))
=============================================================================
