----------------------------- MODULE RustIndex -----------------------------
(***************************************************************************)
(* The term index of the Rust server: the compiler (compiler.rs) sorts the  *)
(* terms by hash, makes the fanout table and places every term in a slot    *)
(* by compress-hash-displace; the server (bundle.rs) finds a term by binary *)
(* search between two fanout entries, by its slot, or in a preloaded map.   *)
(*                                                                          *)
(* Keys are numbers in the order their bytes are interned.  The first hash  *)
(* is any function; the seeded hash is any function too, chosen key by key  *)
(* and seed by seed when it is computed; what is not looked at again is     *)
(* forgotten.                                                               *)
(***************************************************************************)
EXTENDS Integers, Sequences, FiniteSets, SequencesExt

CONSTANTS
    Keys,     \* terms that may be compiled or asked for, numbers
    Fanout,   \* buckets of the fanout table (65536)
    Width,    \* hashes to a bucket of the fanout table (2^48)
    Load,     \* terms to a bucket of the perfect hash (4)
    MaxSeed,  \* the last displacement (i32::MAX)
    None

Hashes == 0 .. Fanout * Width - 1
Seeds == 0 .. MaxSeed

\* What the code guarantees of its parameters.
Parameters ==
    /\ Keys \subseteq Nat /\ IsFiniteSet(Keys) /\ Fanout \in Nat \ {0} /\ Width \in Nat \ {0}
    /\ Load \in Nat \ {0} /\ MaxSeed \in Nat /\ None \notin Int

VARIABLES
    hash,     \* xxh3_64 of every key
    seeded,   \* the seeded hash where a lookup needs it: <<key, seed>> -> slot
    terms,    \* compiled terms, a sequence indexed from 0 by Term
    order,    \* buckets still to be placed, the largest first
    seed,     \* displacement that is tried for the first of them
    slots,    \* slot -> key, or None
    shift,    \* displacement of each bucket: a seed, -(slot + 1), or None
    pc,       \* "sort", "place", "single", "check", "serve", "search",
              \* "scan", "found" or "failed"
    asked,    \* key that is looked up
    low, high,
    result

buildVars == <<hash, seeded, terms, order, seed, slots, shift>>
lookupVars == <<asked, low, high, result>>
vars == <<buildVars, pc, lookupVars>>

N == Len(terms)
Term(i) == terms[i + 1]
Compiled == {terms[i] : i \in DOMAIN terms}

Init ==
    /\ hash \in [Keys -> Hashes]
    /\ \E T \in SUBSET Keys :
        terms \in {s \in SetToSeqs(T) : \A i, j \in DOMAIN s : i < j => s[i] < s[j]}
    /\ seeded = <<>> /\ order = <<>> /\ seed = 0 /\ slots = <<>> /\ shift = <<>>
    /\ pc = "sort" /\ asked = None /\ low = 0 /\ high = 0 /\ result = None

-----------------------------------------------------------------------------
(* compile_inner, make_fanout and build_mph *)

\* The terms by hash, equal hashes in the order of their strings.
Before(k, l) == hash[k] < hash[l] \/ (hash[k] = hash[l] /\ k < l)

BucketCount == (N + Load - 1) \div Load
Buckets == 0 .. BucketCount - 1
Members(b) == {k \in Compiled : hash[k] % BucketCount = b}

\* The larger buckets first; sort_unstable leaves the order of equal ones open.
Orders ==
    {o \in SetToSeqs(Buckets) : \A i, j \in DOMAIN o :
        i < j => Cardinality(Members(o[i])) >= Cardinality(Members(o[j]))}

Sort ==
    /\ pc = "sort"
    /\ terms' \in {s \in SetToSeqs(Compiled) :
                    \A i, j \in DOMAIN s : i < j => Before(s[i], s[j])}
    /\ IF terms = <<>> THEN pc' = "serve" /\ UNCHANGED <<order, slots, shift>>
       ELSE /\ order' \in Orders
            /\ slots' = [i \in 0 .. N - 1 |-> None]
            /\ shift' = [b \in Buckets |-> None]
            /\ pc' = "place"
    /\ UNCHANGED <<hash, seeded, seed, lookupVars>>

\* The loop that skips the terms of buckets below b.  It is resumed at each
\* bucket, and what it skipped before is below b too.
SkipUntil(b) ==
    CHOOSE j \in 0 .. N :
        /\ j = N \/ hash[Term(j)] \div Width >= b
        /\ \A m \in 0 .. j - 1 : hash[Term(m)] \div Width < b

FanoutTable == [b \in 0 .. Fanout |-> SkipUntil(b)]

\* The slots of a bucket's terms under a seed: what the hash turns out to be.
SlotsOf(b) == [Members(b) -> 0 .. N - 1]

FitsUsed(chosen) == \* Mutant: slots of earlier buckets are not looked at.
    \A k, l \in DOMAIN chosen : k # l => chosen[k] # chosen[l]
Fits(chosen) ==
    /\ \A k \in DOMAIN chosen : slots[chosen[k]] = None
    /\ \A k, l \in DOMAIN chosen : k # l => chosen[k] # chosen[l]

Remember(chosen, d) ==
    seeded' = [p \in (DOMAIN seeded) \cup ((DOMAIN chosen) \X {d}) |->
                 IF p \in DOMAIN seeded THEN seeded[p] ELSE chosen[p[1]]]

Overflow == seed = MaxSeed

\* One displacement is tried for the next bucket of several terms.
Place ==
    /\ pc = "place"
    /\ order # <<>> /\ Cardinality(Members(Head(order))) > 1
    /\ \E chosen \in SlotsOf(Head(order)) :
        /\ IF Fits(chosen)
             THEN /\ Remember(chosen, seed)
                  /\ slots' = [i \in DOMAIN slots |->
                        IF \E k \in DOMAIN chosen : chosen[k] = i
                          THEN CHOOSE k \in DOMAIN chosen : chosen[k] = i
                          ELSE slots[i]]
                  /\ shift' = [shift EXCEPT ![Head(order)] = seed]
                  /\ order' = Tail(order) /\ seed' = 0 /\ UNCHANGED pc
             ELSE /\ seed' = IF Overflow THEN seed ELSE seed + 1
                  /\ pc' = IF Overflow THEN "failed" ELSE pc
                  /\ UNCHANGED <<seeded, slots, shift, order>>
    /\ UNCHANGED <<hash, terms, lookupVars>>

\* The buckets of one term take the free slots in order; empty ones stay
\* without a displacement.
Single ==
    /\ pc = "place"
    /\ order # <<>> /\ Cardinality(Members(Head(order))) <= 1
    /\ LET free == {i \in DOMAIN slots : slots[i] = None}
           slot == CHOOSE i \in free : \A j \in free : i <= j
       IN
       IF Members(Head(order)) = {} THEN UNCHANGED <<slots, shift, pc>>
       ELSE IF free = {} THEN pc' = "ran out" /\ UNCHANGED <<slots, shift>>
       ELSE /\ slots' = [slots EXCEPT ![slot] = CHOOSE k \in Members(Head(order)) : TRUE]
            /\ shift' = [shift EXCEPT ![Head(order)] = -(slot + 1)]
            /\ UNCHANGED pc
    /\ order' = Tail(order)
    /\ UNCHANGED <<hash, seeded, terms, seed, lookupVars>>

\* Where the perfect hash sends a key; a key that was never compiled may be
\* sent to any slot.
SlotSeed(k, d, slot) ==
    IF d < 0 THEN slot = -d - 1
    ELSE IF <<k, d>> \in DOMAIN seeded THEN slot = seeded[<<k, d>>]
    ELSE slot \in 0 .. N - 1
Sent(k, slot) == SlotSeed(k, shift[hash[k] % BucketCount], slot)

\* Every slot must be filled and every term resolve before the index is
\* published, and again when it is opened (validate_structure).
Check ==
    /\ pc = "place" /\ order = <<>>
    /\ pc' = IF /\ \A i \in DOMAIN slots : slots[i] # None
                /\ \A k \in Compiled :
                    /\ shift[hash[k] % BucketCount] # None
                    /\ \A i \in DOMAIN slots : Sent(k, i) => slots[i] = k
               THEN "serve" ELSE "invalid"
    /\ UNCHANGED <<buildVars, lookupVars>>

-----------------------------------------------------------------------------
(* lookup_term, lookup_term_mph and the preloaded map *)

Ask(k) == asked' = k /\ result' = None
Answer(entry) == result' = entry /\ pc' = "found"

AskSorted ==
    /\ pc = "serve"
    /\ \E k \in Keys :
        LET bucket == hash[k] \div Width IN
        /\ Ask(k)
        /\ low' = FanoutTable[bucket] /\ high' = FanoutTable[bucket + 1]
    /\ pc' = "search"
    /\ UNCHANGED buildVars

\* One probe of the binary search for the first term with the hash.
Probe ==
    /\ pc = "search" /\ low < high
    /\ LET mid == low + (high - low) \div 2 IN
       IF hash[Term(mid)] < hash[asked] THEN low' = mid + 1 /\ UNCHANGED high
       ELSE high' = mid /\ UNCHANGED low
    /\ UNCHANGED <<buildVars, pc, asked, result>>

\* The terms with the same hash are compared byte for byte up to the end of
\* the fanout bucket.
Scan ==
    /\ pc \in {"search", "scan"} /\ (pc = "search" => low >= high)
    /\ IF low < FanoutTable[hash[asked] \div Width + 1] /\ hash[Term(low)] = hash[asked]
         THEN IF Term(low) = asked THEN Answer(asked) /\ UNCHANGED low
              ELSE low' = low + 1 /\ pc' = "scan" /\ UNCHANGED result
         ELSE Answer(None) /\ UNCHANGED low
    /\ UNCHANGED <<buildVars, asked, high>>

AskMphUnchecked == \* Mutant: the key in the slot is not compared.
    /\ pc = "serve"
    /\ \E k \in Keys :
        /\ asked' = k
        /\ IF N = 0 THEN Answer(None)
           ELSE IF shift[hash[k] % BucketCount] = None THEN Answer(None)
           ELSE \E i \in 0 .. N - 1 : Sent(k, i) /\ Answer(slots[i])
    /\ UNCHANGED <<buildVars, low, high>>
AskMph ==
    /\ pc = "serve"
    /\ \E k \in Keys :
        /\ asked' = k
        /\ IF N = 0 THEN Answer(None)
           ELSE IF shift[hash[k] % BucketCount] = None THEN Answer(None)
           ELSE \E i \in 0 .. N - 1 :
                    Sent(k, i) /\ Answer(IF slots[i] = k THEN k ELSE None)
    /\ UNCHANGED <<buildVars, low, high>>

AskPreload ==
    /\ pc = "serve"
    /\ \E k \in Keys : asked' = k /\ Answer(IF k \in Compiled THEN k ELSE None)
    /\ UNCHANGED <<buildVars, low, high>>

Return ==
    /\ pc = "found"
    /\ pc' = "serve" /\ asked' = None /\ result' = None /\ low' = 0 /\ high' = 0
    /\ UNCHANGED buildVars

Next ==
    \/ Sort \/ Place \/ Single \/ Check
    \/ AskSorted \/ Probe \/ Scan \/ AskMph \/ AskPreload \/ Return

Spec == Init /\ [][Next]_vars

-----------------------------------------------------------------------------
(* Properties *)

\* Every variable has its type.
TypeOK ==
    /\ hash \in [Keys -> Hashes] /\ terms \in Seq(Keys)
    /\ \A p \in DOMAIN seeded : p \in Keys \X Seeds /\ seeded[p] \in 0 .. N - 1
    /\ order \in Seq(Nat) /\ seed \in Seeds
    /\ \A i \in DOMAIN slots : slots[i] \in Keys \cup {None}
    /\ pc \in {"sort", "place", "serve", "search", "scan", "found", "failed",
               "ran out", "invalid"}
    /\ asked \in Keys \cup {None} /\ result \in Keys \cup {None}
    /\ low \in 0 .. N /\ high \in 0 .. N

\* Whatever the hashes collide on, each of the three lookups finds a compiled
\* key and nothing for any other key.
LookupExact ==
    pc = "found" => result = (IF asked \in Compiled THEN asked ELSE None)

\* The build fails only when the displacements are used up: buckets of one
\* term always find a slot, every slot is filled and every term resolves.
BuildSound == pc \notin {"ran out", "invalid"}

\* While buckets are placed each placed term has exactly one slot and there
\* are as many free slots as terms left.
Placement ==
    pc = "place" =>
        LET left == UNION {Members(order[i]) : i \in DOMAIN order}
            used == {i \in DOMAIN slots : slots[i] # None}
        IN  /\ {slots[i] : i \in used} = Compiled \ left
            /\ Cardinality(used) = Cardinality(Compiled \ left)

\* During a binary search every term before low has a smaller hash and every
\* term of the bucket from high on has one that is not smaller.
SearchNarrows ==
    pc = "search" =>
        LET bucket == hash[asked] \div Width IN
        /\ \A i \in 0 .. low - 1 : hash[Term(i)] < hash[asked]
        /\ \A i \in high .. N - 1 : hash[Term(i)] >= hash[asked]
        /\ \A i \in 0 .. N - 1 : Term(i) = asked =>
              FanoutTable[bucket] <= i /\ i < FanoutTable[bucket + 1]
=============================================================================
