-------------------------- MODULE ServeAudioProofs --------------------------
(***************************************************************************)
(* Byte ranges are exact for files of every size and for every header: the   *)
(* add-on's for all numbers, the Rust server's for those of a u64.  And      *)
(* what a connection carries is what ServeAudio promises, for files, reads  *)
(* and changes of every number.  The inductive invariant ServeInv says what *)
(* holds between two steps of a handler: where the row's content is, what   *)
(* was sent and remains to be sent, and which content each tag stands for.  *)
(***************************************************************************)
EXTENDS ServeAudio, SequenceTheorems, TLAPS

-----------------------------------------------------------------------------
(* Byte ranges *)

\* A header is a bad one, a first-last range or a suffix.
LEMMA HeaderKinds ==
    ASSUME NEW h \in Headers(Nat), h # None
    PROVE  \/ h.kind = "bad"
           \/ h.kind = "bytes" /\ h.first \in Nat /\ h.last \in Nat \cup {None}
           \/ h.kind = "suffix" /\ h.count \in Nat
  BY DEF Headers

\* A range starts at its first byte and has its length.
LEMMA BytesOf ==
    ASSUME NEW a \in Int, NEW n \in Int
    PROVE  /\ Bytes([first |-> a, length |-> n]) = a .. a + n - 1
           /\ [first |-> a, length |-> n] # None
  BY ByteRangeAssumption DEF Bytes

\* Without a header both servers send the whole file, which may be empty.
LEMMA WholeFile ==
    ASSUME NEW size \in Nat
    PROVE  RangeExact(None, size)
<1>1. PythonRange(None, size) = [first |-> 0, length |-> size]
  BY DEF PythonRange
<1>2. RustRange(None, size) = [first |-> 0, length |-> size]
  BY DEF RustRange
<1>3. Satisfied(None, size) = 0 .. size - 1
  BY DEF Satisfied
<1> QED
  BY <1>1, <1>2, <1>3, BytesOf DEF RangeExact

\* The last bytes of a file, of which it may have fewer.
LEMMA SuffixExact ==
    ASSUME NEW size \in Nat, NEW h, h # None, h.kind = "suffix", h.count \in Nat
    PROVE  RangeExact(h, size)
<1> DEFINE r == [first |-> Larger(0, size - h.count),
                 length |-> size - Larger(0, size - h.count)]
<1>0. Larger(0, size - h.count) \in Nat
  BY DEF Larger
<1>1. Satisfied(h, size) = {b \in 0 .. size - 1 : b >= size - h.count}
  BY DEF Satisfied
<1>2. CASE size = 0 \/ h.count = 0
  <2>1. PythonRange(h, size) = None /\ RustRange(h, size) = None
    BY <1>2 DEF PythonRange, RustRange
  <2>2. Satisfied(h, size) = {}
    BY <1>1, <1>2
  <2> QED
    BY <2>1, <2>2 DEF RangeExact
<1>3. CASE size > 0 /\ h.count > 0
  <2>1. PythonRange(h, size) = r
    BY <1>3 DEF PythonRange
  <2>2. RustRange(h, size) = IF Fits(h) THEN r ELSE None
    <3>1. Saturating(size, h.count) = Larger(0, size - h.count)
      BY DEF Saturating
    <3>2. (size - 1) - Larger(0, size - h.count) + 1 = size - Larger(0, size - h.count)
      BY <1>0
    <3>3. Fits(h) <=> Parses(h.count)
      BY DEF Fits
    <3> QED
      BY <1>3, <3>1, <3>2, <3>3 DEF RustRange
  <2>3. r # None /\ Bytes(r) = r.first .. r.first + r.length - 1
    BY <1>0, BytesOf DEF Bytes
  <2>4. Larger(0, size - h.count) .. size - 1 = Satisfied(h, size)
    BY <1>1 DEF Larger
  <2>5. Bytes(r) = Satisfied(h, size)
    BY <2>3, <2>4, <1>0
  <2>6. size - 1 \in Satisfied(h, size)
    BY <1>1, <1>3
  <2> QED
    BY <2>1, <2>2, <2>3, <2>5, <2>6 DEF RangeExact
<1> QED
  BY <1>2, <1>3

\* From a first to a last byte, which may lie beyond the end.
LEMMA FirstLastExact ==
    ASSUME NEW size \in Nat, NEW h, h # None, h.kind = "bytes",
           h.first \in Nat, h.last \in Nat \cup {None}
    PROVE  RangeExact(h, size)
<1> DEFINE end == IF h.last = None THEN size - 1 ELSE h.last
           r == [first |-> h.first, length |-> Smaller(end, size - 1) - h.first + 1]
<1>0. end \in Int /\ Smaller(end, size - 1) \in Int
  BY DEF Smaller
<1>1. Satisfied(h, size) =
        {b \in 0 .. size - 1 : h.first <= b /\ (h.last = None \/ b <= h.last)}
  BY DEF Satisfied
<1>2. CASE size = 0 \/ h.first >= size \/ end < h.first
  <2>1. PythonRange(h, size) = None
    BY <1>2 DEF PythonRange
  <2>2. RustRange(h, size) = None
    BY <1>2 DEF RustRange, Smaller
  <2>3. Satisfied(h, size) = {}
    BY <1>1, <1>2
  <2> QED
    BY <2>1, <2>2, <2>3 DEF RangeExact
<1>3. CASE size > 0 /\ h.first < size /\ h.first <= end
  <2>1. PythonRange(h, size) = r
    BY <1>3 DEF PythonRange
  <2>2. RustRange(h, size) = IF Fits(h) THEN r ELSE None
    <3>1. Fits(h) <=> Parses(h.first) /\ (h.last # None => Parses(h.last))
      BY DEF Fits
    <3> QED
      BY <1>3, <3>1 DEF RustRange, Smaller
  <2>3. r # None /\ Bytes(r) = r.first .. r.first + r.length - 1
    BY <1>0, BytesOf DEF Bytes
  <2>4. h.first .. Smaller(end, size - 1) = Satisfied(h, size)
    BY <1>1, <1>3 DEF Smaller
  <2>5. Bytes(r) = Satisfied(h, size)
    BY <2>3, <2>4, <1>0
  <2>6. h.first \in Satisfied(h, size)
    BY <1>1, <1>3
  <2> QED
    BY <2>1, <2>2, <2>3, <2>5, <2>6 DEF RangeExact
<1> QED
  BY <1>0, <1>2, <1>3

\* For a file of any size and any Range header, the add-on sends exactly the
\* bytes the header names, and refuses it when it names none.  The Rust server
\* computes the same range when the header's numbers are u64, and refuses every
\* header with a larger one.
THEOREM RangesAreExact ==
    ASSUME NEW size \in Nat, NEW h \in Headers(Nat)
    PROVE  RangeExact(h, size)
<1>1. CASE h = None
  BY <1>1, WholeFile
<1>2. CASE h # None /\ h.kind = "bad"
  <2>1. PythonRange(h, size) = None /\ RustRange(h, size) = None
    BY <1>2 DEF PythonRange, RustRange
  <2>2. Satisfied(h, size) = {}
    BY <1>2 DEF Satisfied
  <2> QED
    BY <1>2, <2>1, <2>2 DEF RangeExact
<1>3. CASE h # None /\ h.kind # "bad"
  BY <1>3, HeaderKinds, SuffixExact, FirstLastExact
<1> QED
  BY <1>1, <1>2, <1>3

\* A range that is answered starts and ends within the file.
LEMMA RangeBounds ==
    ASSUME NEW size \in Nat, NEW h \in Headers(Nat), PythonRange(h, size) # None
    PROVE  /\ PythonRange(h, size).first \in 0 .. size
           /\ PythonRange(h, size).length \in 0 .. size
<1>1. CASE h = None
  BY <1>1 DEF PythonRange
<1>2. CASE h # None /\ h.kind = "bad"
  BY <1>2 DEF PythonRange
<1>3. CASE h # None /\ h.kind = "suffix" /\ h.count \in Nat
  <2>1. Larger(0, size - h.count) \in 0 .. size
    BY <1>3 DEF Larger
  <2>2. PythonRange(h, size) = [first |-> Larger(0, size - h.count),
                                length |-> size - Larger(0, size - h.count)]
    BY <1>3 DEF PythonRange
  <2> QED
    BY <2>1, <2>2
<1>4. CASE h # None /\ h.kind = "bytes" /\ h.first \in Nat /\ h.last \in Nat \cup {None}
  <2> DEFINE end == IF h.last = None THEN size - 1 ELSE h.last
             n == Smaller(end, size - 1) - h.first + 1
  <2>1. h.first < size /\ h.first <= end /\ size > 0
    BY <1>4 DEF PythonRange
  <2>2. PythonRange(h, size) = [first |-> h.first, length |-> n]
    BY <1>4, <2>1 DEF PythonRange
  <2>3. end \in Int
    BY <1>4
  <2>4. n \in 0 .. size
    BY <1>4, <2>1, <2>3 DEF Smaller
  <2> QED
    BY <1>4, <2>1, <2>2, <2>4
<1> QED
  BY <1>1, <1>2, <1>3, <1>4, HeaderKinds

-----------------------------------------------------------------------------
(* The inductive invariant *)

\* The stamp of the newest content of the row's file, also while it is moved away.
Live == IF loose # None THEN loose.stamp ELSE moved.stamp

\* A file that is gone is the one that was moved away, and the pack in use
\* holds the row.
FilesKept ==
    /\ loose \in File \cup {None} /\ moved \in File \cup {None}
    /\ clips \in Seq(File \cup {None}) /\ active \in 0 .. Len(clips)
    /\ changes \in 0 .. MaxChanges
    /\ loose = None => moved # None /\ HasClip(active)
    /\ Live <= changes

\* A request that /v1/play sent to a pack names a pack that holds the row.
Asked ==
    /\ pc \in {"idle", "select", "packed", "stat", "target", "open", "read", "done"}
    /\ pc = "idle" => request = None
    /\ pc # "idle" => request \in Requests
    /\ request # None /\ request.condition = "cached" => cached # None
    /\ version \in 0 .. Len(clips)
    /\ pc = "packed" /\ request.url.path = "play" => HasClip(version)

Handles == [file : File, at : Nat, remaining : 0 .. MaxSize]
Responses == [status : Statuses, first : 0 .. MaxSize, length : 0 .. MaxSize,
              size : 0 .. MaxSize, etag : Tags \cup {None}]
Bodies == [bytes : 0 .. MaxSize, from : SUBSET (0 .. MaxChanges)]

\* What was sent and what remains to be sent are together what was promised.
Answered ==
    /\ response \in Responses /\ body \in Bodies /\ closed \in BOOLEAN
    /\ pc \in {"idle", "select", "packed", "stat", "target"} => response = NoResponse
    /\ pc \notin {"read", "done"} => body = NothingSent
    /\ pc # "done" => closed = FALSE
    /\ pc \in {"open", "read"} => HasBody(response)
    /\ pc = "read" => /\ handle \in Handles
                      /\ body.bytes + handle.remaining = response.length
    /\ pc # "read" => handle = None
    /\ ExactLength /\ RangeAnswered

\* Bytes with stamps from were sent under etag: they are the clip's that the
\* tag names, or the file's, or the file was written again since.
SourcedIn(etag, from, packs, live) ==
    \/ \E v \in DOMAIN packs : etag = ClipTag(v) /\ from \subseteq {packs[v].stamp}
    \/ \E f \in File : /\ etag = FileTag(f) /\ f.stamp <= live
                       /\ from \subseteq {f.stamp} \/ f.stamp < live
Sourced(etag, from) == SourcedIn(etag, from, clips, Live)

\* The client's copy, and the answer that may become it, have a source; an
\* open file is no older than the tag that was sent for it.
CopySourced ==
    /\ cached # None => cached.etag \in Tags /\ Sourced(cached.etag, cached.from)
    /\ pc \in {"open", "read", "done"} /\ response.status \in {200, 206} =>
          response.etag \in Tags /\ Sourced(response.etag, body.from)
    /\ pc \in {"open", "read"} => \E f \in File : response.etag = FileTag(f)
    /\ pc = "read" => /\ handle.file.stamp <= Live
                      /\ \A f \in File : response.etag = FileTag(f) =>
                            f.stamp <= handle.file.stamp

ServeInv == FilesKept /\ Asked /\ Answered /\ CopySourced

-----------------------------------------------------------------------------
(* The answer's header *)

\* The tags of files and of clips tell apart what they name.
LEMMA TagsDiffer ==
    /\ \A f, g \in File : FileTag(f) = FileTag(g) => f = g
    /\ \A f, v : FileTag(f) # ClipTag(v)
    /\ \A v, w : ClipTag(v) = ClipTag(w) => v = w
<1>1. \A f, g \in File : FileTag(f) = FileTag(g) => f = g
  BY DEF FileTag, File
<1>2. \A f, v : FileTag(f) # ClipTag(v)
  <2> SUFFICES ASSUME NEW f, NEW v, FileTag(f) = ClipTag(v)
               PROVE  FALSE
    OBVIOUS
  <2>1. DOMAIN <<"file", f.stamp, f.size>> = 1 .. 3 /\ DOMAIN <<"clip", v>> = 1 .. 2
    OBVIOUS
  <2> QED
    BY <2>1 DEF FileTag, ClipTag
<1>3. \A v, w : ClipTag(v) = ClipTag(w) => v = w
  BY DEF ClipTag
<1> QED
  BY <1>1, <1>2, <1>3

\* An answer with bytes, or that refuses its range, has the range that was asked.
InRange(r, h) ==
    r.status \in {200, 206, 416} =>
        /\ RangeExact(h, r.size)
        /\ (r.status = 416) = (h # None /\ Satisfied(h, r.size) = {})
        /\ r.status = 206 => Bytes(r) = Satisfied(h, r.size)

\* The range of a request is a header.
LEMMA RequestParts ==
    ASSUME NEW q \in Requests
    PROVE  q.range \in Headers(Nat) /\ q.head \in BOOLEAN
<1>1. Numbers \subseteq Nat
  BY ByteRangeAssumption DEF Numbers
<1>2. Headers(Numbers) \subseteq Headers(Nat)
  BY <1>1 DEF Headers
<1> QED
  BY <1>2 DEF Requests

\* The header of an answer is well formed and has the range that was asked; it
\* is 304 only when the condition holds.
LEMMA AnswerGood ==
    ASSUME request \in Requests, NEW n \in 0 .. MaxSize, NEW tag \in Tags
    PROVE  /\ Answer(n, tag) \in Responses
           /\ Answer(n, tag).status \in {200, 206, 304, 416}
           /\ Answer(n, tag).status \in {200, 206} => Answer(n, tag).etag = tag
           /\ Answer(n, tag).status = 304 => NotModified(tag)
           /\ InRange(Answer(n, tag), request.range)
<1> DEFINE h == request.range
           s == PythonRange(h, n)
           a == Answer(n, tag)
<1>0. h \in Headers(Nat) /\ n \in Nat /\ MaxSize \in Nat
  BY RequestParts, ServeAudioAssumption
<1>1. RangeExact(h, n)
  BY <1>0, RangesAreExact
<1>2. CASE NotModified(tag)
  <2>1. a = [status |-> 304, first |-> 0, length |-> 0, size |-> n, etag |-> tag]
    BY <1>2 DEF Answer
  <2> QED
    BY <2>1, <1>2, <1>0 DEF Responses, Statuses, InRange
<1>3. CASE ~NotModified(tag) /\ s = None
  <2>1. a = [status |-> 416, first |-> 0, length |-> 0, size |-> n, etag |-> None]
    BY <1>3 DEF Answer
  <2>2. h # None
    BY <1>3, ByteRangeAssumption, <1>0 DEF PythonRange
  <2>3. Satisfied(h, n) = {}
    BY <1>1, <1>3, <2>2 DEF RangeExact
  <2> QED
    BY <2>1, <2>2, <2>3, <1>1, <1>0 DEF Responses, Statuses, InRange
<1>4. CASE ~NotModified(tag) /\ s # None
  <2>1. a = [status |-> IF h = None THEN 200 ELSE 206, first |-> s.first,
             length |-> s.length, size |-> n, etag |-> tag]
    BY <1>4 DEF Answer
  <2>2. s.first \in 0 .. MaxSize /\ s.length \in 0 .. MaxSize
    <3>1. s.first \in 0 .. n /\ s.length \in 0 .. n
      BY <1>4, <1>0, RangeBounds
    <3> QED
      BY <3>1, <1>0
  <2>3. a \in Responses
    BY <2>1, <2>2 DEF Responses, Statuses
  <2>4. h # None => Satisfied(h, n) # {}
    BY <1>1, <1>4 DEF RangeExact
  <2>5. Bytes(a) = Bytes(s)
    BY <2>1 DEF Bytes
  <2>6. Bytes(s) = Satisfied(h, n)
    BY <1>1, <1>4 DEF RangeExact
  <2>7. a.status \in {200, 206} /\ a.size = n /\ a.etag = tag
    BY <2>1
  <2> QED
    BY <2>3, <2>4, <2>5, <2>6, <2>7, <1>1 DEF InRange
<1> QED
  BY <1>2, <1>3, <1>4

-----------------------------------------------------------------------------
(* The files and the packs *)

\* A file that is written now is newer than what there was.
LEMMA NewFile ==
    ASSUME FilesKept, Change, NEW n \in 0 .. MaxSize
    PROVE  /\ [stamp |-> changes', size |-> n] \in File
           /\ changes' \in 0 .. MaxChanges /\ Live \in Nat /\ Live < changes'
<1>1. changes' \in 0 .. MaxChanges /\ changes' = changes + 1
  BY ServeAudioAssumption DEF Change, FilesKept
<1>2. Live \in Nat
  BY ServeAudioAssumption DEF FilesKept, Live, File, HasClip
<1> QED
  BY <1>1, <1>2, ServeAudioAssumption DEF File, FilesKept

\* Packs are only added, and the row's content is only written again.
Grown ==
    /\ \A v \in DOMAIN clips : v \in DOMAIN clips' /\ clips'[v] = clips[v]
    /\ Len(clips) \in Nat /\ Len(clips') \in Nat /\ Len(clips) <= Len(clips')
    /\ Live \in Nat /\ Live' \in Nat /\ Live <= Live'

\* The newest content has a stamp.
LEMMA LiveStamp ==
    ASSUME FilesKept
    PROVE  Live \in 0 .. MaxChanges
  BY ServeAudioAssumption DEF FilesKept, Live, File, HasClip

\* Without a new pack only the content grows newer.
LEMMA SamePacks ==
    ASSUME FilesKept, clips' = clips, Live' \in Nat, Live <= Live'
    PROVE  Grown
  BY LiveStamp DEF Grown, FilesKept

\* A program writes or replaces the file.
LEMMA RewriteFiles ==
    ASSUME FilesKept, Rewrite \/ Replace
    PROVE  FilesKept' /\ Grown /\ Live' = changes' /\ changes' # Live
<1>1. PICK n \in 0 .. MaxSize : loose' = [stamp |-> changes', size |-> n]
  BY DEF Rewrite, Replace
<1>2. Change /\ clips' = clips /\ active' = active /\ moved' = moved
  BY DEF Rewrite, Replace
<1>3. loose' \in File /\ loose' # None /\ loose'.stamp = changes'
  BY <1>1, <1>2, NewFile, ServeAudioAssumption
<1>4. Live' = changes' /\ changes' \in 0 .. MaxChanges /\ Live < changes'
  BY <1>2, <1>3, NewFile, ServeAudioAssumption DEF Live
<1>5. FilesKept'
  BY <1>2, <1>3, <1>4 DEF FilesKept
<1>6. Grown
  BY <1>2, <1>4, LiveStamp, SamePacks
<1> QED
  BY <1>4, <1>5, <1>6, LiveStamp

\* A pack is built and used.
LEMMA BuildFiles ==
    ASSUME FilesKept, BuildPack
    PROVE  FilesKept' /\ Grown
<1> DEFINE clip == IF loose.size = 0 THEN None ELSE loose
<1>1. loose # None /\ loose' = loose /\ moved' = moved /\ Change
  BY DEF BuildPack
<1>2. clip \in File \cup {None} /\ clips' = Append(clips, clip) /\ active' = Len(clips')
  BY DEF BuildPack, FilesKept
<1>3. /\ clips' \in Seq(File \cup {None}) /\ Len(clips') = Len(clips) + 1
      /\ Len(clips) \in Nat
      /\ \A v \in 1 .. Len(clips) : clips'[v] = clips[v]
  BY <1>2 DEF FilesKept
<1>4. Live' = Live /\ Live \in Nat
  BY <1>1, LiveStamp DEF Live
<1>5. changes' \in 0 .. MaxChanges /\ changes' = changes + 1
  BY <1>1, ServeAudioAssumption DEF Change, FilesKept
<1>6. FilesKept'
  BY <1>1, <1>2, <1>3, <1>4, <1>5 DEF FilesKept
<1>7. DOMAIN clips = 1 .. Len(clips) /\ DOMAIN clips' = 1 .. Len(clips')
  BY <1>3 DEF FilesKept
<1>8. \A v \in DOMAIN clips : v \in DOMAIN clips' /\ clips'[v] = clips[v]
  BY <1>3, <1>7
<1>9. Grown
  BY <1>3, <1>4, <1>8 DEF Grown
<1> QED
  BY <1>6, <1>9

\* The file is moved away or comes back, or the pack is put out of use.
LEMMA MoveFiles ==
    ASSUME FilesKept, MoveAway \/ BringBack \/ Deactivate
    PROVE  FilesKept' /\ Grown
<1>1. clips' = clips /\ changes' = changes + 1 /\ changes' \in 0 .. MaxChanges
  BY ServeAudioAssumption DEF MoveAway, BringBack, Deactivate, Change, FilesKept
<1>2. CASE MoveAway
  <2>1. Live' = Live
    BY <1>2 DEF Live, MoveAway
  <2>2. FilesKept'
    BY <1>1, <1>2, <2>1, LiveStamp DEF FilesKept, MoveAway, HasClip, Versions
  <2> QED
    BY <2>1, <2>2, <1>1, LiveStamp, SamePacks
<1>3. CASE BringBack
  <2>1. loose' = moved /\ loose' # None /\ moved' = None
    BY <1>3 DEF BringBack, FilesKept
  <2>2. Live' = Live
    BY <1>3, <2>1 DEF Live, BringBack
  <2>3. FilesKept'
    BY <1>1, <1>3, <2>1, <2>2, LiveStamp DEF FilesKept, BringBack
  <2> QED
    BY <2>2, <2>3, <1>1, LiveStamp, SamePacks
<1>4. CASE Deactivate
  <2>1. Live' = Live
    BY <1>4 DEF Live, Deactivate
  <2>2. FilesKept'
    BY <1>1, <1>4, <2>1, LiveStamp DEF FilesKept, Deactivate
  <2> QED
    BY <2>1, <2>2, <1>1, LiveStamp, SamePacks
<1> QED
  BY <1>2, <1>3, <1>4

\* A source stays one when packs are added and the row is written again.
LEMMA StillSourced ==
    ASSUME Grown, NEW etag, NEW from, Sourced(etag, from)
    PROVE  SourcedIn(etag, from, clips', Live')
<1>1. CASE \E v \in DOMAIN clips : etag = ClipTag(v) /\ from \subseteq {clips[v].stamp}
  BY <1>1 DEF Grown, SourcedIn
<1>2. CASE \E f \in File : /\ etag = FileTag(f) /\ f.stamp <= Live
                           /\ from \subseteq {f.stamp} \/ f.stamp < Live
  <2>1. PICK f \in File : /\ etag = FileTag(f) /\ f.stamp <= Live
                          /\ from \subseteq {f.stamp} \/ f.stamp < Live
    BY <1>2
  <2>2. f.stamp \in Int
    BY ServeAudioAssumption DEF File
  <2> QED
    BY <2>1, <2>2 DEF Grown, SourcedIn
<1> QED
  BY <1>1, <1>2 DEF Sourced, SourcedIn

\* Tags that exist go on existing.
LEMMA TagsStay ==
    ASSUME Grown
    PROVE  Tags \subseteq Tags'
  BY DEF Grown, Tags, Versions

\* What other programs do leaves the request as it is, except that a program
\* that writes an open file makes the handle see the new content.
LEMMA EnvironmentFrame ==
    ASSUME Environment
    PROVE  /\ pc' = pc /\ request' = request /\ version' = version
           /\ response' = response /\ body' = body /\ closed' = closed
           /\ cached' = cached
           /\ \/ handle' = handle
              \/ /\ handle # None /\ handle.file = loose /\ Rewrite
                 /\ handle' = [handle EXCEPT !.file = loose']
  BY DEF Environment, Rewrite, Replace, BuildPack, MoveAway, BringBack, Deactivate,
         requestVars

\* Whatever other programs do keeps the row where it can be found.
LEMMA EnvironmentFiles ==
    ASSUME FilesKept, Environment
    PROVE  FilesKept' /\ Grown
  BY RewriteFiles, BuildFiles, MoveFiles DEF Environment

\* What other programs do keeps the invariant.
LEMMA EnvironmentStep ==
    ASSUME ServeInv, Environment
    PROVE  ServeInv'
<1> USE DEF ServeInv
<1>1. FilesKept' /\ Grown
  BY EnvironmentFiles
<1>2. /\ pc' = pc /\ request' = request /\ version' = version
      /\ response' = response /\ body' = body /\ closed' = closed /\ cached' = cached
  BY EnvironmentFrame
<1>3. Asked'
  BY <1>1, <1>2 DEF Asked, Grown, HasClip, Versions
<1>4. pc = "read" => /\ handle' \in Handles /\ handle'.remaining = handle.remaining
                     /\ handle.file.stamp <= handle'.file.stamp
                     /\ handle'.file.stamp <= Live'
  <2> SUFFICES ASSUME pc = "read"
               PROVE  /\ handle' \in Handles /\ handle'.remaining = handle.remaining
                      /\ handle.file.stamp <= handle'.file.stamp
                      /\ handle'.file.stamp <= Live'
    OBVIOUS
  <2>1. handle \in Handles /\ handle.file.stamp <= Live /\ handle.file.stamp \in Nat
    BY ServeAudioAssumption DEF Answered, CopySourced, Handles, File
  <2>2. CASE handle' = handle
    BY <2>1, <2>2, <1>1 DEF Grown
  <2>3. CASE Rewrite /\ handle' = [handle EXCEPT !.file = loose']
    <3>1. loose' \in File /\ loose'.stamp = changes' /\ Live' = changes' /\ changes' \in Nat
      <4>1. PICK n \in 0 .. MaxSize : loose' = [stamp |-> changes', size |-> n]
        BY <2>3 DEF Rewrite
      <4> QED
        BY <4>1, <2>3, NewFile, RewriteFiles, ServeAudioAssumption DEF Rewrite
    <3>2. handle'.file = loose' /\ handle' \in Handles
          /\ handle'.remaining = handle.remaining
      BY <2>1, <2>3, <3>1 DEF Handles
    <3> QED
      BY <3>1, <3>2, <2>1, <1>1 DEF Grown
  <2> QED
    BY <2>2, <2>3, EnvironmentFrame
<1>5. pc # "read" => handle' = None
  BY EnvironmentFrame DEF Answered
<1>6. Answered'
  <2>1. response' \in Responses' /\ body' \in Bodies
    BY <1>1, <1>2, TagsStay DEF Answered, Responses
  <2>2. ExactLength' /\ RangeAnswered'
    BY <1>2 DEF Answered, ExactLength, RangeAnswered, HasBody
  <2>3. pc = "read" => body'.bytes + handle'.remaining = response'.length
    BY <1>2, <1>4 DEF Answered
  <2>4. pc' \in {"open", "read"} => HasBody(response)'
    BY <1>2 DEF Answered, HasBody
  <2> QED
    BY <2>1, <2>2, <2>3, <2>4, <1>2, <1>4, <1>5 DEF Answered
<1>7. CopySourced'
  <2>1. cached # None => cached.etag \in Tags'
                         /\ SourcedIn(cached.etag, cached.from, clips', Live')
    BY <1>1, StillSourced, TagsStay DEF CopySourced
  <2>2. pc \in {"open", "read", "done"} /\ response.status \in {200, 206} =>
            response.etag \in Tags'
            /\ SourcedIn(response.etag, body.from, clips', Live')
    BY <1>1, StillSourced, TagsStay DEF CopySourced
  <2>3. pc = "read" => \A f \in File : response.etag = FileTag(f) =>
                          f.stamp <= handle'.file.stamp
    <3> SUFFICES ASSUME pc = "read", NEW f \in File, response.etag = FileTag(f)
                 PROVE  f.stamp <= handle'.file.stamp
      OBVIOUS
    <3>1. f.stamp <= handle.file.stamp /\ handle.file.stamp <= handle'.file.stamp
      BY <1>4 DEF CopySourced
    <3>2. f.stamp \in Int /\ handle.file.stamp \in Int /\ handle'.file.stamp \in Int
      BY <1>4, ServeAudioAssumption DEF Answered, Handles, File
    <3> QED
      BY <3>1, <3>2
  <2> QED
    BY <1>2, <1>4, <2>1, <2>2, <2>3 DEF CopySourced, Sourced
<1> QED
  BY <1>1, <1>3, <1>6, <1>7

-----------------------------------------------------------------------------
(* The handler's steps *)

\* Steps of the handler leave the files and the packs alone.
LEMMA SameFiles ==
    ASSUME FilesKept, UNCHANGED fileVars
    PROVE  /\ FilesKept' /\ Live' = Live /\ clips' = clips /\ active' = active
           /\ loose' = loose /\ Tags' = Tags /\ Responses' = Responses
<1>1. loose' = loose /\ clips' = clips /\ active' = active /\ moved' = moved
      /\ changes' = changes
  BY DEF fileVars
<1>2. Live' = Live /\ Versions' = Versions
  BY <1>1 DEF Live, Versions
<1>3. Tags' = Tags
  BY <1>2 DEF Tags
<1>4. FilesKept'
  BY <1>1, <1>2 DEF FilesKept, HasClip
<1> QED
  BY <1>1, <1>2, <1>3, <1>4 DEF Responses

\* The first answers and the empty body.
LEMMA BeforeAnswers ==
    /\ NoResponse \in Responses /\ NoResponse.status = 0 /\ NothingSent \in Bodies
    /\ NotFound \in Responses /\ NotFound.status = 404 /\ NothingSent.bytes = 0
    /\ NothingSent.from = {}
  BY ServeAudioAssumption
     DEF NoResponse, NothingSent, NotFound, Responses, Bodies, Statuses

\* Answers whose range was not asked for have no range to keep.
LEMMA NoRange ==
    ASSUME NEW r, r.status \notin {200, 206, 416}
    PROVE  InRange(r, request.range)
  BY DEF InRange

\* A request begins.
LEMMA AskStep ==
    ASSUME ServeInv, Ask
    PROVE  ServeInv'
<1> USE DEF ServeInv
<1>1. PICK u \in Urls, h \in BOOLEAN, r \in Headers(Numbers), c \in Conditions :
        /\ c = "cached" => cached # None
        /\ request' = [url |-> u, head |-> h, range |-> r, condition |-> c]
        /\ version' = IF u.path = "pack" THEN u.version ELSE 0
        /\ pc' = CASE u.path = "play" -> "select"
                   [] u.path = "loose" -> "stat"
                   [] u.path = "pack" -> "packed"
  BY DEF Ask
<1>2. /\ response' = NoResponse /\ body' = NothingSent /\ handle' = handle
      /\ closed' = closed /\ cached' = cached /\ pc = "idle"
  BY DEF Ask
<1>3. /\ FilesKept' /\ Live' = Live /\ clips' = clips /\ Responses' = Responses
      /\ Tags' = Tags
  BY SameFiles DEF Ask
<1>4. \/ u.path = "play" /\ version' = 0 /\ pc' = "select"
      \/ u.path = "loose" /\ version' = 0 /\ pc' = "stat"
      \/ u.path = "pack" /\ version' = u.version /\ u.version \in DOMAIN clips
         /\ pc' = "packed"
  BY <1>1 DEF Urls, Paths, PackPaths, Versions
<1>5. DOMAIN clips = 1 .. Len(clips) /\ Len(clips) \in Nat
  BY DEF FilesKept
<1>6. u \in Paths \cup PackPaths(Nat)
  BY <1>5 DEF Urls, PackPaths, Versions
<1>7. request' \in Requests /\ request'.url = u /\ request'.condition = c
  BY <1>1, <1>6 DEF Requests
<1>8. Asked'
  BY <1>1, <1>2, <1>3, <1>4, <1>5, <1>7 DEF Asked
<1>9. Answered'
  BY <1>2, <1>3, <1>4, BeforeAnswers DEF Answered, ExactLength, RangeAnswered
<1>10. CopySourced'
  BY <1>2, <1>3, <1>4 DEF CopySourced, Sourced
<1> QED
  BY <1>3, <1>8, <1>9, <1>10

\* Before its answer a request has sent nothing, and a step to the next look
\* keeps it so.
LEMMA LookStep ==
    ASSUME ServeInv,
           UNCHANGED <<fileVars, request, response, handle, body, closed, cached>>,
           pc \in {"select", "stat", "target"}, pc' \in {"packed", "stat", "target"},
           version' \in 0 .. Len(clips),
           pc' = "packed" => HasClip(version)'
    PROVE  ServeInv'
<1> USE DEF ServeInv
<1>1. /\ FilesKept' /\ Live' = Live /\ clips' = clips /\ Responses' = Responses
      /\ Tags' = Tags
  BY SameFiles
<1>2. Asked'
  BY <1>1 DEF Asked
<1>3. Answered'
  BY <1>1 DEF Answered, ExactLength, RangeAnswered, HasBody
<1>4. CopySourced'
  BY <1>1 DEF CopySourced, Sourced
<1> QED
  BY <1>1, <1>2, <1>3, <1>4

\* An answer r with nothing in its body ends a request, or opens the file.
LEMMA HeadStep ==
    ASSUME ServeInv, UNCHANGED <<fileVars, request, version, handle, body, closed, cached>>,
           pc \in {"packed", "stat", "target"}, response' \in Responses,
           InRange(response', request.range),
           response'.status \in {200, 206} =>
              response'.etag \in Tags /\ Sourced(response'.etag, {}),
           pc' \in {"open", "done"},
           pc' = "open" => /\ HasBody(response)'
                           /\ \E f \in File : response'.etag = FileTag(f),
           pc' = "done" => ~HasBody(response)'
    PROVE  ServeInv'
<1> USE DEF ServeInv
<1>1. /\ FilesKept' /\ Live' = Live /\ clips' = clips /\ Responses' = Responses
      /\ Tags' = Tags
  BY SameFiles
<1>2. Asked'
  BY <1>1 DEF Asked
<1>3. RangeAnswered'
  BY DEF RangeAnswered, InRange
<1>4. body' = NothingSent /\ closed' = FALSE /\ handle' = None
  BY DEF Answered
<1>5. ExactLength'
  BY <1>4, BeforeAnswers DEF ExactLength
<1>6. Answered'
  BY <1>1, <1>3, <1>4, <1>5, BeforeAnswers DEF Answered
<1>7. CopySourced'
  BY <1>1, <1>4, BeforeAnswers DEF CopySourced, Sourced
<1> QED
  BY <1>1, <1>2, <1>6, <1>7

\* /v1/play selects the URL.
LEMMA SelectStep ==
    ASSUME ServeInv, Select
    PROVE  ServeInv'
<1>1. active \in 0 .. Len(clips) /\ 0 \in 0 .. Len(clips)
  BY DEF ServeInv, FilesKept
<1>2. pc' = "packed" => HasClip(version)'
  BY SameFiles DEF ServeInv, Select, HasClip, Versions
<1> QED
  BY <1>1, <1>2, LookStep DEF Select

\* The pack is asked for a file that is gone.
LEMMA TargetStep ==
    ASSUME ServeInv, Target
    PROVE  ServeInv'
<1>1. active \in 0 .. Len(clips)
  BY DEF ServeInv, FilesKept
<1>2. CASE HasClip(active)
  <2>1. HasClip(version)'
    BY <1>2, SameFiles DEF ServeInv, Target, HasClip, Versions
  <2> QED
    BY <1>1, <1>2, <2>1, LookStep DEF Target
<1>3. CASE ~HasClip(active)
  BY <1>3, HeadStep, BeforeAnswers, NoRange DEF Target, HasBody
<1> QED
  BY <1>2, <1>3

\* The tag of the row's file names its bytes.
LEMMA FileSource ==
    ASSUME FilesKept, loose # None
    PROVE  /\ FileTag(loose) \in Tags /\ loose.size \in 0 .. MaxSize
           /\ Sourced(FileTag(loose), {})
<1>1. loose \in File /\ Live = loose.stamp /\ loose.stamp \in Nat
  BY ServeAudioAssumption DEF FilesKept, Live, File
<1> QED
  BY <1>1 DEF Tags, Sourced, SourcedIn, File

\* The tags of the row's clips name their bytes.
LEMMA ClipSource ==
    ASSUME FilesKept, NEW v, HasClip(v)
    PROVE  /\ ClipTag(v) \in Tags /\ clips[v] \in File /\ clips[v].size \in 0 .. MaxSize
           /\ \A from : from \subseteq {clips[v].stamp} => Sourced(ClipTag(v), from)
<1>1. v \in DOMAIN clips /\ clips[v] \in File
  BY DEF FilesKept, HasClip, Versions
<1> QED
  BY <1>1 DEF Tags, Sourced, SourcedIn, File, Versions

\* The file is looked at, and the header follows from what was seen.
LEMMA StatStep ==
    ASSUME ServeInv, Stat
    PROVE  ServeInv'
<1>1. CASE loose = None
  BY <1>1, LookStep DEF Stat, ServeInv, Asked
<1>2. CASE loose # None
  <2>1. FileTag(loose) \in Tags /\ loose.size \in 0 .. MaxSize
        /\ Sourced(FileTag(loose), {}) /\ request \in Requests /\ loose \in File
    BY <1>2, FileSource DEF ServeInv, Stat, Asked, FilesKept
  <2>2. response' = Answer(loose.size, FileTag(loose))
    BY <1>2 DEF Stat
  <2>3. /\ response' \in Responses /\ InRange(response', request.range)
        /\ response'.status \in {200, 206} => response'.etag = FileTag(loose)
    BY <2>1, <2>2, AnswerGood
  <2>4. pc' = IF HasBody(response') THEN "open" ELSE "done"
    BY <1>2 DEF Stat
  <2>5. request' = request
    BY DEF Stat
  <2>6. HasBody(response)' <=> HasBody(response')
    BY <2>5 DEF HasBody
  <2>7. HasBody(response)' => response'.status \in {200, 206}
    BY DEF HasBody
  <2> QED
    BY <2>1, <2>3, <2>4, <2>6, <2>7, HeadStep DEF Stat
<1> QED
  BY <1>1, <1>2

\* The clip is sent as a whole from one pack, or the connection ends.
LEMMA PackedStep ==
    ASSUME ServeInv, Packed
    PROVE  ServeInv'
<1> USE DEF ServeInv
<1>0. /\ UNCHANGED <<fileVars, request, version, handle, cached>> /\ pc = "packed"
      /\ pc' = "done" /\ request \in Requests /\ response = NoResponse
      /\ body = NothingSent /\ closed = FALSE /\ handle = None
  BY DEF Packed, Asked, Answered
<1>1. CASE ~HasClip(version)
  BY <1>0, <1>1, HeadStep, BeforeAnswers, NoRange DEF Packed, HasBody
<1>2. CASE HasClip(version)
  <2> DEFINE tag == ClipTag(version)
  <2>1. /\ tag \in Tags /\ clips[version].size \in 0 .. MaxSize
        /\ clips[version] \in File
        /\ \A from : from \subseteq {clips[version].stamp} => Sourced(tag, from)
    BY <1>2, ClipSource
  <2>2. response' = Answer(clips[version].size, tag)
    BY <1>2 DEF Packed
  <2>3. /\ response' \in Responses /\ InRange(response', request.range)
        /\ response'.status \in {200, 206} => response'.etag = tag
    BY <1>0, <2>1, <2>2, AnswerGood
  <2>4. HasBody(response)' <=> HasBody(response')
    BY <1>0 DEF HasBody
  <2>5. CASE ~HasBody(response')
    <3>1. UNCHANGED <<body, closed>>
      BY <1>2, <2>2, <2>5 DEF Packed
    <3>2. Sourced(tag, {})
      BY <2>1
    <3> QED
      BY <1>0, <2>1, <2>3, <2>4, <2>5, <3>1, <3>2, HeadStep
  <2>6. CASE HasBody(response')
    <3>1. \/ /\ body' = [bytes |-> response'.length, from |-> {clips[version].stamp}]
             /\ closed' = closed
          \/ closed' = TRUE /\ body' = body
      BY <1>2, <2>2, <2>6 DEF Packed
    <3>2. /\ FilesKept' /\ Live' = Live /\ clips' = clips /\ Responses' = Responses
          /\ Tags' = Tags
      BY <1>0, SameFiles
    <3>3. Asked'
      BY <1>0, <3>2 DEF Asked
    <3>4. body' \in Bodies /\ closed' \in BOOLEAN
      <4>1. /\ response'.length \in 0 .. MaxSize
            /\ {clips[version].stamp} \subseteq 0 .. MaxChanges
        BY <2>1, <2>3 DEF Responses, File
      <4>2. CASE closed' = TRUE /\ body' = body
        BY <1>0, <4>2, BeforeAnswers
      <4>3. CASE closed' = closed /\ body' = [bytes |-> response'.length,
                                            from |-> {clips[version].stamp}]
        BY <1>0, <4>1, <4>3 DEF Bodies
      <4> QED
        BY <3>1, <4>2, <4>3
    <3>5. ExactLength'
      BY <1>0, <2>4, <2>6, <3>1 DEF ExactLength
    <3>6. RangeAnswered'
      BY <1>0, <2>3 DEF RangeAnswered, InRange
    <3>7. Answered'
      BY <1>0, <2>3, <3>2, <3>4, <3>5, <3>6 DEF Answered
    <3>8. Sourced(tag, body'.from)
      BY <1>0, <2>1, <3>1, BeforeAnswers
    <3>9. CopySourced'
      BY <1>0, <2>1, <2>3, <3>2, <3>8 DEF CopySourced, Sourced
    <3> QED
      BY <3>2, <3>3, <3>7, <3>9
  <2> QED
    BY <2>5, <2>6
<1> QED
  BY <1>1, <1>2

\* The file is opened after its size and tag were taken.
LEMMA OpenStep ==
    ASSUME ServeInv, Open
    PROVE  ServeInv'
<1> USE DEF ServeInv
<1>0. /\ UNCHANGED <<fileVars, request, version, response, body, cached>> /\ pc = "open"
      /\ request \in Requests /\ HasBody(response) /\ body = NothingSent
      /\ closed = FALSE /\ handle = None /\ response \in Responses
  BY DEF Open, Asked, Answered
<1>1. /\ FilesKept' /\ Live' = Live /\ clips' = clips /\ Responses' = Responses
      /\ Tags' = Tags
  BY <1>0, SameFiles
<1>2. HasBody(response)' /\ (response'.status \in {200, 206})
  BY <1>0 DEF HasBody
<1>3. RangeAnswered'
  BY <1>0 DEF RangeAnswered, Answered
<1>4. CASE loose = None
  <2>1. pc' = "done" /\ closed' = TRUE /\ handle' = handle
    BY <1>4 DEF Open
  <2>2. Asked'
    BY <1>0, <1>1, <2>1 DEF Asked
  <2>3. ExactLength'
    BY <2>1 DEF ExactLength
  <2>4. Answered'
    BY <1>0, <1>1, <1>3, <2>1, <2>3, BeforeAnswers DEF Answered
  <2>5. CopySourced'
    BY <1>0, <1>1, <2>1 DEF CopySourced, Sourced
  <2> QED
    BY <1>1, <2>2, <2>4, <2>5
<1>5. CASE loose # None
  <2>1. /\ pc' = "read" /\ closed' = closed
        /\ handle' = [file |-> loose, at |-> response.first,
                      remaining |-> response.length]
    BY <1>5 DEF Open
  <2>2. Asked'
    BY <1>0, <1>1, <2>1 DEF Asked
  <2>3. ExactLength'
    BY <2>1 DEF ExactLength
  <2>4. handle' \in Handles
    BY <1>0, <1>5, <2>1, ServeAudioAssumption DEF Handles, Responses, FilesKept
  <2>5. body'.bytes + handle'.remaining = response'.length
    BY <1>0, <2>1, BeforeAnswers, ServeAudioAssumption DEF Responses
  <2>6. Answered'
    BY <1>0, <1>1, <1>2, <1>3, <2>1, <2>3, <2>4, <2>5, BeforeAnswers DEF Answered
  <2>7. loose.stamp = Live /\ Live \in Nat
    BY <1>5, LiveStamp DEF Live
  <2>8. \A f \in File : response.etag = FileTag(f) => f.stamp <= loose.stamp
    <3> SUFFICES ASSUME NEW f \in File, response.etag = FileTag(f)
                 PROVE  f.stamp <= loose.stamp
      OBVIOUS
    <3>1. Sourced(FileTag(f), body.from)
      BY <1>0, <1>2 DEF CopySourced
    <3>2. f.stamp <= Live
      BY <3>1, TagsDiffer DEF Sourced, SourcedIn
    <3> QED
      BY <2>7, <3>2
  <2>9. CopySourced'
    BY <1>0, <1>1, <2>1, <2>7, <2>8 DEF CopySourced, Sourced
  <2> QED
    BY <1>1, <2>2, <2>6, <2>9
<1> QED
  BY <1>4, <1>5

\* Bytes of an open file that was written again since its tag was sent make the
\* tag an old one.
LEMMA ReadSource ==
    ASSUME NEW etag, NEW from, NEW f \in File, etag = FileTag(f), Sourced(etag, from),
           NEW g \in File, f.stamp <= g.stamp, g.stamp <= Live, Live \in Nat
    PROVE  Sourced(etag, from \cup {g.stamp})
<1>1. f.stamp <= Live /\ (from \subseteq {f.stamp} \/ f.stamp < Live)
  BY TagsDiffer DEF Sourced, SourcedIn
<1>2. f.stamp \in Nat /\ g.stamp \in Nat
  BY ServeAudioAssumption DEF File
<1>3. from \cup {g.stamp} \subseteq {f.stamp} \/ f.stamp < Live
  BY <1>1, <1>2
<1> QED
  BY <1>1, <1>3 DEF Sourced, SourcedIn

\* A piece is read and written.
LEMMA ReadStep ==
    ASSUME ServeInv, Read
    PROVE  ServeInv'
<1> USE DEF ServeInv
<1>0. /\ UNCHANGED <<fileVars, request, version, response, cached>> /\ pc = "read"
      /\ request \in Requests /\ HasBody(response) /\ closed = FALSE
      /\ response \in Responses /\ handle \in Handles /\ body \in Bodies
      /\ body.bytes + handle.remaining = response.length
      /\ response.status \in {200, 206}
  BY DEF Read, Asked, Answered, HasBody
<1>1. /\ FilesKept' /\ Live' = Live /\ clips' = clips /\ Responses' = Responses
      /\ Tags' = Tags
  BY <1>0, SameFiles
<1>2. HasBody(response)' <=> HasBody(response)
  BY <1>0 DEF HasBody
<1>3. RangeAnswered'
  BY <1>0 DEF RangeAnswered, Answered
<1>4. CASE pc' = "done" /\ handle' = None /\ body' = body
           /\ (closed' = TRUE \/ (handle.remaining = 0 /\ closed' = closed))
  <2>1. Asked'
    BY <1>0, <1>1, <1>4 DEF Asked
  <2>2. ExactLength'
    BY <1>0, <1>2, <1>4 DEF ExactLength, Bodies, Responses
  <2>3. Answered'
    BY <1>0, <1>1, <1>3, <1>4, <2>2 DEF Answered
  <2>4. CopySourced'
    BY <1>0, <1>1, <1>4 DEF CopySourced, Sourced
  <2> QED
    BY <1>1, <2>1, <2>3, <2>4
<1>5. CASE /\ handle.remaining # 0 /\ Count > 0 /\ pc' = pc /\ closed' = closed
           /\ handle' = [handle EXCEPT !.at = @ + Count, !.remaining = @ - Count]
           /\ body' = [bytes |-> body.bytes + Count,
                       from |-> body.from \cup {handle.file.stamp}]
  <2>1. Asked'
    BY <1>0, <1>1, <1>5 DEF Asked
  <2>2. /\ handle.remaining \in 0 .. MaxSize /\ handle.at \in Nat /\ handle.file \in File
        /\ body.bytes \in 0 .. MaxSize /\ response.length \in 0 .. MaxSize
        /\ handle.file.size \in Nat /\ handle.file.stamp \in 0 .. MaxChanges
        /\ body.from \subseteq 0 .. MaxChanges /\ MaxSize \in Nat /\ Buffer \in Nat
    BY <1>0, ServeAudioAssumption DEF Handles, Bodies, Responses, File
  <2>3. Count \in 1 .. handle.remaining
    <3>1. Available \in Int
      BY <2>2 DEF Available, Larger
    <3> QED
      BY <1>5, <2>2, <3>1 DEF Count, Smaller
  <2>4. handle' \in Handles /\ handle'.file = handle.file
        /\ handle'.remaining = handle.remaining - Count
    <3>1. handle.at + Count \in Nat /\ handle.remaining - Count \in 0 .. MaxSize
      BY <2>2, <2>3
    <3> QED
      BY <1>0, <1>5, <3>1 DEF Handles
  <2>5. body' \in Bodies /\ body'.bytes + handle'.remaining = response.length
    <3>1. body.bytes + Count \in 0 .. MaxSize
      BY <1>0, <2>2, <2>3
    <3>2. body.bytes + Count + (handle.remaining - Count) = response.length
      BY <1>0, <2>2, <2>3
    <3> QED
      BY <1>5, <2>2, <2>4, <3>1, <3>2 DEF Bodies
  <2>6. ExactLength'
    BY <1>0, <1>5 DEF ExactLength
  <2>7. Answered'
    BY <1>0, <1>1, <1>2, <1>3, <1>5, <2>4, <2>5, <2>6 DEF Answered
  <2>8. PICK f \in File : response.etag = FileTag(f)
    BY <1>0 DEF CopySourced
  <2>9. Sourced(response.etag, body'.from)
    <3>1. f.stamp <= handle.file.stamp /\ handle.file.stamp <= Live
          /\ Sourced(response.etag, body.from)
      BY <1>0, <2>8 DEF CopySourced
    <3> QED
      BY <1>5, <2>2, <2>8, <3>1, LiveStamp, ReadSource, ServeAudioAssumption
  <2>10. CopySourced'
    BY <1>0, <1>1, <1>5, <2>4, <2>9 DEF CopySourced, Sourced
  <2> QED
    BY <1>1, <2>1, <2>7, <2>10
<1> QED
  BY <1>0, <1>4, <1>5 DEF Read

\* The client keeps a complete answer.
LEMMA FinishStep ==
    ASSUME ServeInv, Finish
    PROVE  ServeInv'
<1> USE DEF ServeInv
<1>0. /\ pc = "done" /\ pc' = "idle" /\ request' = None /\ version' = 0
      /\ response' = NoResponse /\ body' = NothingSent /\ closed' = FALSE
      /\ handle' = None
  BY DEF Finish, Answered
<1>1. /\ FilesKept' /\ Live' = Live /\ clips' = clips /\ Responses' = Responses
      /\ Tags' = Tags
  BY SameFiles DEF Finish
<1>2. 0 \in 0 .. Len(clips)
  BY DEF FilesKept
<1>3. Asked'
  BY <1>0, <1>1, <1>2 DEF Asked
<1>4. Answered'
  <2>1. ExactLength' /\ RangeAnswered'
    BY <1>0, BeforeAnswers DEF ExactLength, RangeAnswered
  <2> QED
    BY <1>0, <1>1, <2>1, BeforeAnswers DEF Answered
<1>5. cached' # None => cached'.etag \in Tags /\ Sourced(cached'.etag, cached'.from)
  <2>1. CASE cached' = cached
    BY <2>1 DEF CopySourced
  <2>2. CASE response.status = 200
             /\ cached' = [etag |-> response.etag, from |-> body.from]
    BY <1>0, <2>2 DEF CopySourced
  <2> QED
    BY <2>1, <2>2 DEF Finish
<1>6. CopySourced'
  BY <1>0, <1>1, <1>5 DEF CopySourced, Sourced
<1> QED
  BY <1>1, <1>3, <1>4, <1>6

\* The first states satisfy the invariant.
LEMMA StartInv ==
    ASSUME Init
    PROVE  ServeInv
<1>1. loose \in [stamp : {0}, size : 0 .. MaxSize] /\ clips = <<>> /\ Len(clips) = 0
  BY EmptySeq DEF Init
<1>2. loose \in File /\ loose # None /\ loose.stamp = 0
  BY <1>1, ServeAudioAssumption DEF File
<1>3. clips \in Seq(File \cup {None})
  BY <1>1, EmptySeq
<1>4. FilesKept
  BY <1>1, <1>2, <1>3, ServeAudioAssumption DEF Init, FilesKept, Live
<1>5. Asked
  BY <1>1 DEF Init, Asked
<1>6. Answered
  <2>1. ExactLength /\ RangeAnswered
    BY BeforeAnswers DEF Init, ExactLength, RangeAnswered
  <2> QED
    BY <2>1, BeforeAnswers DEF Init, Answered
<1>7. CopySourced
  BY DEF Init, CopySourced
<1> QED
  BY <1>4, <1>5, <1>6, <1>7 DEF ServeInv

\* Every step keeps the invariant.
LEMMA StepKeepsInv ==
    ASSUME ServeInv, [Next]_vars
    PROVE  ServeInv'
<1>1. CASE UNCHANGED vars
  <2>1. FilesKept' /\ Tags' = Tags /\ Responses' = Responses /\ Live' = Live
        /\ clips' = clips
    BY <1>1, SameFiles DEF ServeInv, vars
  <2>2. Asked'
    BY <1>1, <2>1 DEF ServeInv, Asked, vars, requestVars, HasClip, Versions
  <2>3. Answered'
    BY <1>1, <2>1 DEF ServeInv, Answered, vars, requestVars, ExactLength,
                      RangeAnswered, HasBody
  <2>4. CopySourced'
    BY <1>1, <2>1 DEF ServeInv, CopySourced, Sourced, vars, requestVars
  <2> QED
    BY <2>1, <2>2, <2>3, <2>4 DEF ServeInv
<1>2. CASE Environment
  BY <1>2, EnvironmentStep
<1>3. CASE Ask
  BY <1>3, AskStep
<1>4. CASE Handler
  BY <1>4, SelectStep, PackedStep, StatStep, TargetStep, OpenStep, ReadStep, FinishStep
     DEF Handler
<1> QED
  BY <1>1, <1>2, <1>3, <1>4 DEF Next

-----------------------------------------------------------------------------
(* The theorems *)

\* The invariant holds in every state of every run.
THEOREM AlwaysServeInv == Spec => []ServeInv
<1>1. Init => ServeInv
  BY StartInv
<1>2. ServeInv /\ [Next]_vars => ServeInv'
  BY StepKeepsInv
<1> QED
  BY <1>1, <1>2, PTL DEF Spec

\* The state is well formed, and every answer has exactly the range that was asked.
THEOREM AnswersConsistent == Spec => []Consistent
<1>1. ServeInv => TypeOK
  <2> SUFFICES ASSUME ServeInv
               PROVE  TypeOK
    OBVIOUS
  <2>1. FilesKept /\ Asked /\ Answered /\ CopySourced
    BY DEF ServeInv
  <2>2. request = None <=> pc = "idle"
    BY <2>1, ServeAudioAssumption DEF Asked
  <2>3. /\ response.status \in Statuses /\ response.etag \in Tags \cup {None}
        /\ response.first \in 0 .. MaxSize /\ response.length \in 0 .. MaxSize
        /\ body.bytes \in 0 .. MaxSize /\ body.from \subseteq 0 .. MaxChanges
        /\ closed \in BOOLEAN
    BY <2>1 DEF Answered, Responses, Bodies
  <2>4. handle # None => handle.file \in File /\ handle.remaining \in 0 .. MaxSize
    BY <2>1 DEF Answered, Handles
  <2> QED
    BY <2>1, <2>2, <2>3, <2>4 DEF TypeOK, FilesKept, Asked, CopySourced
<1>2. ServeInv => RangeAnswered
  BY DEF ServeInv, Answered
<1> QED
  BY <1>1, <1>2, AlwaysServeInv, PTL DEF Consistent

\* A connection that stays open has carried exactly the bytes that were promised.
THEOREM AnswersHaveExactLength == Spec => []ExactLength
<1>1. ServeInv => ExactLength
  BY DEF ServeInv, Answered
<1> QED
  BY <1>1, AlwaysServeInv, PTL

\* /v1/play only misses a file that came back after the look at it.
THEOREM RecordingIsFound == Spec => PlayFound
<1>1. ServeInv /\ [Next]_vars => [Missed => pc = "target" /\ loose # None]_vars
  <2> SUFFICES ASSUME ServeInv, Next, Missed
               PROVE  pc = "target" /\ loose # None
    OBVIOUS
  <2>1. pc # "done" /\ pc' = "done" /\ response'.status = 404
        /\ request.url.path = "play" /\ FilesKept /\ Asked /\ Answered
    BY DEF Missed, ServeInv
  <2>2. CASE Packed
    <3>1. HasClip(version) /\ request \in Requests
      BY <2>1, <2>2 DEF Asked, Packed
    <3>2. response' = Answer(clips[version].size, ClipTag(version))
      BY <2>2, <3>1 DEF Packed
    <3> QED
      BY <2>1, <3>1, <3>2, ClipSource, AnswerGood
  <2>3. CASE Stat
    <3>1. loose # None /\ request \in Requests
      BY <2>1, <2>3 DEF Stat, Asked
    <3>2. response' = Answer(loose.size, FileTag(loose))
      BY <2>3, <3>1 DEF Stat
    <3> QED
      BY <2>1, <3>1, <3>2, FileSource, AnswerGood
  <2>4. CASE Target
    <3>1. pc = "target" /\ ~HasClip(active)
      BY <2>1, <2>4 DEF Target
    <3> QED
      BY <2>1, <3>1 DEF FilesKept
  <2>5. CASE Open \/ Read
    <3>1. HasBody(response) /\ response' = response
      BY <2>1, <2>5 DEF Open, Read, Answered
    <3> QED
      BY <2>1, <3>1 DEF HasBody
  <2>6. ~Environment /\ ~Ask /\ ~Select /\ ~Finish
    BY <2>1, EnvironmentFrame DEF Ask, Select, Finish, Asked, Urls, Paths, PackPaths
  <2> QED
    BY <2>2, <2>3, <2>4, <2>5, <2>6 DEF Next, Handler
<1> QED
  BY <1>1, AlwaysServeInv, PTL DEF Spec, PlayFound

\* A client that is told its copy is current holds the bytes that are there now.
THEOREM ConfirmedCopiesAreCurrent == Spec => CopyConfirmed
<1>1. ServeInv /\ [Next]_vars => [CopyIsCurrent]_vars
  <2> SUFFICES ASSUME ServeInv, Next, Confirms
               PROVE  cached.from \subseteq
                        {IF pc = "stat" THEN loose.stamp ELSE clips[version].stamp}
    BY DEF CopyIsCurrent
  <2>1. /\ pc \in {"stat", "packed"} /\ pc' = "done" /\ response'.status = 304
        /\ request.condition = "cached" /\ request \in Requests
        /\ FilesKept /\ cached # None /\ Sourced(cached.etag, cached.from)
        /\ response = NoResponse
    BY ServeAudioAssumption DEF Confirms, ServeInv, Asked, CopySourced, Answered
  <2>2. request.condition # "any"
    BY <2>1
  <2>3. CASE Stat
    <3>1. loose # None /\ response' = Answer(loose.size, FileTag(loose))
      BY <2>1, <2>3 DEF Stat
    <3>2. NotModified(FileTag(loose))
      BY <2>1, <3>1, FileSource, AnswerGood
    <3>3. cached.etag = FileTag(loose) /\ loose \in File /\ Live = loose.stamp
          /\ loose.stamp \in Nat
      BY <2>1, <2>2, <3>1, <3>2, ServeAudioAssumption
         DEF NotModified, FilesKept, Live, File
    <3>4. cached.from \subseteq {loose.stamp}
      BY <2>1, <3>3, TagsDiffer DEF Sourced, SourcedIn
    <3> QED
      BY <2>3, <3>4 DEF Stat
  <2>4. CASE Packed
    <3>1. HasClip(version)
      BY <2>1, <2>4, BeforeAnswers DEF Packed
    <3>2. response' = Answer(clips[version].size, ClipTag(version))
      BY <2>4, <3>1 DEF Packed
    <3>3. NotModified(ClipTag(version))
      BY <2>1, <3>1, <3>2, ClipSource, AnswerGood
    <3>4. cached.etag = ClipTag(version)
      BY <2>1, <2>2, <3>3 DEF NotModified
    <3>5. cached.from \subseteq {clips[version].stamp}
      BY <2>1, <3>4, TagsDiffer DEF Sourced, SourcedIn
    <3> QED
      BY <2>4, <3>5 DEF Packed
  <2>5. ~Environment /\ ~Ask /\ ~Select /\ ~Finish /\ ~Target /\ ~Open /\ ~Read
    BY <2>1, EnvironmentFrame DEF Ask, Select, Finish, Target, Open, Read
  <2> QED
    BY <2>3, <2>4, <2>5 DEF Next, Handler
<1> QED
  BY <1>1, AlwaysServeInv, PTL DEF Spec, CopyConfirmed
=============================================================================
