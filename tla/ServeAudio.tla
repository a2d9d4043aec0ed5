----------------------------- MODULE ServeAudio -----------------------------
(***************************************************************************)
(* How the add-on's server answers a request for the audio of one row       *)
(* (server.py): /v1/play selects a URL and serves it in a second step; a    *)
(* versioned URL is served from a leased pack; a loose URL is served from   *)
(* the file, whose size is taken before it is opened and which is read in   *)
(* pieces, or, when it is gone, from the pack.  Meanwhile other programs    *)
(* rewrite the file, packs are built, and cleanup moves the file away.      *)
(* One connection stays open from request to request.                       *)
(***************************************************************************)
EXTENDS ByteRange, Sequences, FiniteSets

CONSTANTS
    MaxSize,     \* bound on the size of a file
    Buffer,      \* bytes read at once (STREAM_BUFFER_SIZE)
    MaxChanges   \* bound on what happens to the file and the packs

\* A file is the stamp of the write that made it, which stands for its
\* modification time and its bytes, and its size.  A clip is the file it was
\* packed from.  A file only disappears through cleanup.
File == [stamp : 0 .. MaxChanges, size : 0 .. MaxSize]

\* What a client asks for, and under which condition.
Paths == {[path |-> "play"], [path |-> "loose"]}
PackPaths(S) == [path : {"pack"}, version : S]
Conditions == {None, "cached", "any"}

\* Numbers of a Range header: up to the first that is no u64.
Numbers == 0 .. MaxU64 + 1
Requests == [url : Paths \cup PackPaths(Nat), head : BOOLEAN,
             range : Headers(Numbers), condition : Conditions]

ASSUME ServeAudioAssumption ==
    /\ MaxSize \in 0 .. MaxU64 /\ Buffer \in Nat \ {0} /\ MaxChanges \in Nat
    /\ None \notin File /\ None \notin Requests

VARIABLES
    loose,    \* the file of the row, or None
    clips,    \* the packs built so far: the clip of the row in each, or None
    active,   \* the pack in use, 0 for none
    moved,    \* the original that cleanup moved away
    changes,
    pc,
    request,  \* [url, head, range, condition]
    version,  \* the pack of the URL that is served
    response, \* the header: [status, first, length, size, etag]
    handle,   \* the open file, its position and what remains to be sent
    body,     \* what the client received: bytes, from the files with stamps from
    closed,   \* close_connection
    cached    \* the client's last complete answer: [etag, from]

fileVars == <<loose, clips, active, moved, changes>>
requestVars == <<request, version, response, handle, body, closed, cached>>
vars == <<fileVars, pc, requestVars>>

Versions == DOMAIN clips
HasClip(v) == v \in Versions /\ clips[v] # None

FileTagSized(f) == <<"file", f.size>> \* Mutant: the time is left out.
FileTag(f) == <<"file", f.stamp, f.size>>
ClipTag(v) == <<"clip", v>>

NoResponse == [status |-> 0, first |-> 0, length |-> 0, size |-> 0, etag |-> None]
NothingSent == [bytes |-> 0, from |-> {}]

Init ==
    /\ loose \in [stamp : {0}, size : 0 .. MaxSize]
    /\ clips = <<>> /\ active = 0 /\ moved = None /\ changes = 0 /\ pc = "idle"
    /\ request = None /\ version = 0 /\ response = NoResponse
    /\ handle = None /\ body = NothingSent /\ closed = FALSE /\ cached = None

-----------------------------------------------------------------------------
(* The file and the packs *)

Change == changes < MaxChanges /\ changes' = changes + 1

\* Another program writes the file in place: an open handle sees it.
Rewrite ==
    /\ Change
    /\ \E n \in 0 .. MaxSize :
        LET f == [stamp |-> changes', size |-> n] IN
        /\ loose' = f
        /\ handle' = IF handle # None /\ handle.file = loose
                       THEN [handle EXCEPT !.file = f] ELSE handle
    /\ UNCHANGED <<clips, active, moved, pc, request, version, response, body, closed,
                   cached>>

\* It is replaced by a new file: an open handle keeps the old one.
Replace ==
    /\ Change
    /\ \E n \in 0 .. MaxSize :
        loose' = [stamp |-> changes', size |-> n]
    /\ UNCHANGED <<clips, active, moved, pc, requestVars>>

\* A pack is built from the file and activated.  Empty files are not packed.
BuildPack ==
    /\ Change /\ loose # None
    /\ clips' = Append(clips, IF loose.size = 0 THEN None ELSE loose)
    /\ active' = Len(clips')
    /\ UNCHANGED <<loose, moved, pc, requestVars>>

\* Cleanup moves the original away when the active pack holds it, and restore
\* brings it back.
MoveAway ==
    /\ Change /\ loose # None /\ HasClip(active)
    /\ clips[active] = loose
    /\ loose' = None /\ moved' = loose
    /\ UNCHANGED <<clips, active, pc, requestVars>>

BringBack ==
    /\ Change /\ loose = None
    /\ loose' = moved /\ moved' = None
    /\ UNCHANGED <<clips, active, pc, requestVars>>

\* The pack no longer fits the database; its version stays on the disk.
Deactivate ==
    /\ Change /\ loose # None /\ active # 0
    /\ active' = 0
    /\ UNCHANGED <<loose, clips, moved, pc, requestVars>>

-----------------------------------------------------------------------------
(* The request *)

\* A versioned URL is one a lookup once returned.  A condition comes alone or
\* beside a suffix; beside other ranges it is looked at in the same way.
Urls == Paths \cup PackPaths(Versions)

Ask ==
    /\ pc = "idle"
    /\ \E u \in Urls, h \in BOOLEAN, r \in Headers(Numbers), c \in Conditions :
        /\ c = "cached" => cached # None
        /\ c # None /\ r # None => r.kind = "suffix"
        /\ request' = [url |-> u, head |-> h, range |-> r, condition |-> c]
        /\ version' = IF u.path = "pack" THEN u.version ELSE 0
        /\ pc' = CASE u.path = "play" -> "select"
                   [] u.path = "loose" -> "stat"
                   [] u.path = "pack" -> "packed"
    /\ response' = NoResponse /\ body' = NothingSent
    /\ UNCHANGED <<fileVars, handle, closed, cached>>

\* best_audio_url: one step under the store's lease; the URL is opened later.
Select ==
    /\ pc = "select"
    /\ version' = IF HasClip(active) THEN active ELSE 0
    /\ pc' = IF HasClip(active) THEN "packed" ELSE "stat"
    /\ UNCHANGED <<fileVars, request, response, handle, body, closed, cached>>

NotModified(etag) ==
    /\ request.range = None
    /\ \/ request.condition = "any"
       \/ request.condition = "cached" /\ cached.etag = etag
\* The header of an answer from size bytes under etag.
Answer(size, etag) ==
    LET selected == PythonRange(request.range, size) IN
    IF NotModified(etag) THEN
        [status |-> 304, first |-> 0, length |-> 0, size |-> size, etag |-> etag]
    ELSE IF selected = None THEN
        [status |-> 416, first |-> 0, length |-> 0, size |-> size, etag |-> None]
    ELSE [status |-> IF request.range = None THEN 200 ELSE 206,
          first |-> selected.first, length |-> selected.length,
          size |-> size, etag |-> etag]

HasBody(r) == r.status \in {200, 206} /\ ~request.head

NotFound == [NoResponse EXCEPT !.status = 404]

\* _packed_audio: the pack of the version is leased from its opening to the
\* last byte, so the clip is the version's whatever happens to the active
\* pack.  The client may be gone when it is written.
Packed ==
    /\ pc = "packed"
    /\ IF ~HasClip(version)
         THEN response' = NotFound /\ UNCHANGED <<body, closed>>
         ELSE LET r == Answer(clips[version].size, ClipTag(version)) IN
              /\ response' = r
              /\ IF ~HasBody(r) THEN UNCHANGED <<body, closed>>
                 ELSE \/ /\ body' = [bytes |-> r.length, from |-> {clips[version].stamp}]
                         /\ UNCHANGED closed
                      \/ closed' = TRUE /\ UNCHANGED body
    /\ pc' = "done"
    /\ UNCHANGED <<fileVars, request, version, handle, cached>>

\* _legacy_audio up to the header: the size and the tag are those of the
\* file before it is opened.  Without the file the pack is asked.
Stat ==
    /\ pc = "stat"
    /\ IF loose = None THEN pc' = "target" /\ UNCHANGED response
       ELSE LET r == Answer(loose.size, FileTag(loose)) IN
            /\ response' = r
            /\ pc' = IF HasBody(r) THEN "open" ELSE "done"
    /\ UNCHANGED <<fileVars, request, version, handle, body, closed, cached>>

TargetLost == \* Mutant: a file that is gone is not looked for in the pack.
    /\ pc = "target"
    /\ response' = NotFound /\ pc' = "done"
    /\ UNCHANGED <<fileVars, request, version, handle, body, closed, cached>>

\* packed_target_for_legacy_path
Target ==
    /\ pc = "target"
    /\ IF HasClip(active) THEN version' = active /\ pc' = "packed" /\ UNCHANGED response
       ELSE response' = NotFound /\ pc' = "done" /\ UNCHANGED version
    /\ UNCHANGED <<fileVars, request, handle, body, closed, cached>>

OpenLost == \* Mutant: a file that is gone ends the answer, not the connection.
    /\ pc = "open"
    /\ IF loose = None THEN pc' = "done" /\ UNCHANGED handle
       ELSE /\ handle' = [file |-> loose, at |-> response.first,
                          remaining |-> response.length]
            /\ pc' = "read"
    /\ UNCHANGED <<fileVars, request, version, response, body, closed, cached>>

\* The header is sent; a file that cannot be opened now ends the connection.
Open ==
    /\ pc = "open"
    /\ IF loose = None
         THEN pc' = "done" /\ closed' = TRUE /\ UNCHANGED handle
         ELSE /\ handle' = [file |-> loose, at |-> response.first,
                            remaining |-> response.length]
              /\ pc' = "read" /\ UNCHANGED closed
    /\ UNCHANGED <<fileVars, request, version, response, body, cached>>
Available == Larger(0, handle.file.size - handle.at)
Count == Smaller(Smaller(Buffer, handle.remaining), Available)

\* One readinto and write, until nothing remains; a file that ends early, or
\* a client that is gone, ends the connection.
Read ==
    /\ pc = "read"
    /\ IF handle.remaining = 0
         THEN pc' = "done" /\ handle' = None /\ UNCHANGED <<body, closed>>
       ELSE \/ /\ Count > 0
               /\ handle' = [handle EXCEPT !.at = @ + Count, !.remaining = @ - Count]
               /\ body' = [bytes |-> body.bytes + Count,
                           from |-> body.from \cup {handle.file.stamp}]
               /\ UNCHANGED <<pc, closed>>
            \/ /\ closed' = TRUE /\ pc' = "done" /\ handle' = None
               /\ UNCHANGED body
    /\ UNCHANGED <<fileVars, request, version, response, cached>>

\* The client has the answer and keeps a complete one; it opens another
\* connection when this one ended.
Finish ==
    /\ pc = "done"
    /\ cached' = IF response.status = 200 /\ HasBody(response) /\ ~closed
                   THEN [etag |-> response.etag, from |-> body.from] ELSE cached
    /\ pc' = "idle" /\ request' = None /\ version' = 0
    /\ response' = NoResponse /\ body' = NothingSent /\ closed' = FALSE
    /\ UNCHANGED <<fileVars, handle>>

Environment == Rewrite \/ Replace \/ BuildPack \/ MoveAway \/ BringBack \/ Deactivate
Handler == Select \/ Packed \/ Stat \/ Target \/ Open \/ Read \/ Finish
Next == Environment \/ Ask \/ Handler

Spec == Init /\ [][Next]_vars

-----------------------------------------------------------------------------
(* Properties *)

Statuses == {0, 200, 206, 304, 404, 416}
Tags == {FileTag(f) : f \in File} \cup {ClipTag(v) : v \in Versions}

\* Every variable has its type.
TypeOK ==
    /\ loose \in File \cup {None} /\ moved \in File \cup {None}
    /\ clips \in Seq(File \cup {None}) /\ active \in 0 .. Len(clips)
    /\ changes \in 0 .. MaxChanges
    /\ pc \in {"idle", "select", "packed", "stat", "target", "open", "read", "done"}
    /\ request = None <=> pc = "idle"
    /\ version \in 0 .. Len(clips)
    /\ response.status \in Statuses /\ response.etag \in Tags \cup {None}
    /\ response.first \in 0 .. MaxSize /\ response.length \in 0 .. MaxSize
    /\ handle # None => handle.file \in File /\ handle.remaining \in 0 .. MaxSize
    /\ body.bytes \in 0 .. MaxSize /\ body.from \subseteq 0 .. MaxChanges
    /\ closed \in BOOLEAN
    /\ cached # None => cached.etag \in Tags

\* An answer with a range has exactly the bytes the header names, 416 is the
\* answer when it names none, and the Rust server answers the same as long as
\* the header's numbers are u64.
RangeAnswered ==
    response.status \in {200, 206, 416} =>
        /\ RangeExact(request.range, response.size)
        /\ (response.status = 416) =
              (request.range # None /\ Satisfied(request.range, response.size) = {})
        /\ response.status = 206 =>
              Bytes(response) = Satisfied(request.range, response.size)

\* The state is well formed, and every answer given has the right range.
Consistent == TypeOK /\ RangeAnswered

\* README: exact lengths.  A connection that stays open has carried exactly
\* the bytes its header promised, though the file was replaced, cut short or
\* moved away after its size was taken: otherwise the next answer on the
\* connection would be read as the rest of this one.
ExactLength ==
    pc = "done" /\ ~closed =>
        body.bytes = (IF HasBody(response) THEN response.length ELSE 0)

\* /v1/play finds the recording: whatever is packed, cleaned up, restored or
\* deactivated between the selection of its URL, the look at the file and the
\* look into the pack, the row's audio is where one of the steps looks.  It only
\* misses a file that came back after the look at it, and that is in no pack in
\* use when the pack is asked.
Missed ==
    /\ pc # "done" /\ pc' = "done" /\ request.url.path = "play"
    /\ response'.status = 404
PlayFound == [][Missed => pc = "target" /\ loose # None]_vars

\* A client that is told its copy is current (304) holds the bytes of the
\* file or clip that is there now, even if the copy was read from a file that
\* was replaced while it was sent.
Confirms ==
    /\ pc \in {"stat", "packed"} /\ pc' = "done" /\ response'.status = 304
    /\ request.condition = "cached"
CopyIsCurrent ==
    Confirms => cached.from \subseteq
        {IF pc = "stat" THEN loose.stamp ELSE clips[version].stamp}
CopyConfirmed == [][CopyIsCurrent]_vars

=============================================================================
