----------------------------- MODULE ByteRange -----------------------------
(***************************************************************************)
(* Byte ranges of both servers (server.py _range, server.rs parse_range):   *)
(* a Range header and the size of a file give the first byte and the length *)
(* to send, or None when the range cannot be satisfied (416).  A header is  *)
(* split already: None, "bad" when it is not one byte range with numbers    *)
(* that int() of the add-on reads, first-last with last None in "first-",   *)
(* or the last count bytes in "-count".  The numbers are written in digits  *)
(* alone; they may be larger than a u64, which the Rust server parses.      *)
(***************************************************************************)
EXTENDS Integers

CONSTANTS
    None,
    MaxU64    \* the largest u64, 2^64 - 1

ASSUME ByteRangeAssumption ==
    /\ None \notin [first : Int, length : Int]
    /\ MaxU64 \in Nat

Headers(Numbers) ==
    {None, [kind |-> "bad"]}
    \cup [kind : {"bytes"}, first : Numbers, last : Numbers \cup {None}]
    \cup [kind : {"suffix"}, count : Numbers]

Smaller(a, b) == IF a < b THEN a ELSE b
Larger(a, b) == IF a > b THEN a ELSE b

\* LocalAudioHandler._range
PythonRangeUnclipped(h, size) == \* Mutant: the end is not cut at the file's end.
    IF h = None THEN [first |-> 0, length |-> size]
    ELSE IF size <= 0 \/ h.kind = "bad" THEN None
    ELSE IF h.kind = "suffix" THEN
        IF h.count <= 0 THEN None
        ELSE LET first == Larger(0, size - h.count)
             IN  [first |-> first, length |-> size - first]
    ELSE LET end == IF h.last = None THEN size - 1 ELSE h.last
         IN  IF end < h.first \/ h.first >= size THEN None
             ELSE [first |-> h.first, length |-> end - h.first + 1]
PythonRange(h, size) ==
    IF h = None THEN [first |-> 0, length |-> size]
    ELSE IF size <= 0 \/ h.kind = "bad" THEN None
    ELSE IF h.kind = "suffix" THEN
        IF h.count <= 0 THEN None
        ELSE LET first == Larger(0, size - h.count)
             IN  [first |-> first, length |-> size - first]
    ELSE LET end == IF h.last = None THEN size - 1 ELSE h.last
         IN  IF end < h.first \/ h.first >= size THEN None
             ELSE [first |-> h.first,
                   length |-> Smaller(end, size - 1) - h.first + 1]

\* parse_range and the arithmetic of audio_response, on u64: a number that does
\* not fit is refused like one that is none, and subtractions saturate at 0.
Parses(n) == n <= MaxU64
Saturating(a, b) == Larger(0, a - b)
RustRange(h, size) ==
    IF h = None THEN [first |-> 0, length |-> size]
    ELSE IF size = 0 \/ h.kind = "bad" THEN None
    ELSE IF h.kind = "suffix" THEN
        IF ~Parses(h.count) \/ h.count = 0 THEN None
        ELSE LET first == Saturating(size, h.count)
             IN  [first |-> first, length |-> (size - 1) - first + 1]
    ELSE IF ~Parses(h.first) \/ h.first >= size THEN None
    ELSE IF h.last # None /\ ~Parses(h.last) THEN None
    ELSE LET end == IF h.last = None THEN size - 1 ELSE Smaller(h.last, size - 1)
         IN  IF end < h.first THEN None
             ELSE [first |-> h.first, length |-> end - h.first + 1]

\* The bytes of a file that a header names.
Satisfied(h, size) ==
    IF h = None THEN 0 .. size - 1
    ELSE IF h.kind = "bad" THEN {}
    ELSE IF h.kind = "suffix" THEN {b \in 0 .. size - 1 : b >= size - h.count}
    ELSE {b \in 0 .. size - 1 : h.first <= b /\ (h.last = None \/ b <= h.last)}

Bytes(r) == r.first .. r.first + r.length - 1

\* Every number of the header fits in a u64.
Fits(h) ==
    /\ h.kind = "suffix" => Parses(h.count)
    /\ h.kind = "bytes" => Parses(h.first) /\ (h.last # None => Parses(h.last))

\* The add-on answers a range with exactly the bytes it names and refuses one
\* that names no byte; without a header the whole file is sent, which may be
\* empty.  The Rust server does the same with numbers that fit in a u64, and
\* refuses every other range, those that name bytes included.
RangeExact(h, size) ==
    /\ h = None => PythonRange(h, size) = [first |-> 0, length |-> size]
    /\ h # None => (PythonRange(h, size) = None <=> Satisfied(h, size) = {})
    /\ PythonRange(h, size) # None =>
          Bytes(PythonRange(h, size)) = Satisfied(h, size)
    /\ RustRange(h, size) =
          IF h = None \/ Fits(h) THEN PythonRange(h, size) ELSE None
=============================================================================
