----------------------------- MODULE Container -----------------------------
(***************************************************************************)
(* The end-to-end container (web/static/e2e.js): a file is read slice by   *)
(* slice and sealed chunk by chunk, stored, served, and opened again.      *)
(*                                                                         *)
(* An object is a sequence of cells.  A sealed chunk is the cells of its   *)
(* plaintext and TAG more, and opens only as a whole and only under the    *)
(* key, nonce and additional data it was sealed with.  What is served is   *)
(* any header and any chunks that were ever sealed, in any order, cut      *)
(* anywhere, under any version and listed manifest: storage and transport  *)
(* are not believed.                                                       *)
(***************************************************************************)
EXTENDS Integers, SequencesExt

CONSTANTS
    Files,      \* files, each named by its manifest id and sealed under its key
    Size,       \* length of each, in cells
    CHUNK, TAG, \* cells of plaintext in a chunk, and cells a tag adds
    WORD,       \* values of half a chunk counter
    FLUSH,      \* cells of ciphertext handed to the blob store at once
    MaxPieces   \* chunks served at most

VARIABLES
    file,       \* the file this is about
    version,    \* container version it is written in
    phase,      \* "reading", "stored", "opened"; "gone" and "aborted" for good
    chunk,      \* index of the chunk being read
    attempt,    \* times it has been read before
    reader,     \* "direct" or "fallback"
    parts, flushed, pending, \* cells in the heap, cells handed over, and a count
    stop,       \* the cancellation token
    blob        \* what opening the object gave: cells and the version claimed

vars == <<file, version, phase, chunk, attempt, reader, parts, flushed,
          pending, stop, blob>>

VERSION == 5
ATTEMPTS == 4
Versions == 1 .. VERSION
Smaller(a, b) == IF a <= b THEN a ELSE b
Larger(a, b) == IF a >= b THEN a ELSE b
Plain(f) == [k \in 1 .. Size[f] |-> <<f, k>>]

\* chunkCount: one at least, so that an empty file has a tag to check.
ChunkCount(size) == Larger(1, (size + CHUNK - 1) \div CHUNK)

(* Mutant: the high half of the counter is left out.                       *)
ChunkNonceLow(i) == <<0, i % WORD>>

\* chunkNonce: two halves of a counter; no two indices share one.
ChunkNonce(i) == <<(i \div WORD) % WORD, i % WORD>>

\* buildManifest.  Nothing is sealed against one before version 2.
NoManifest == [v |-> 1, id |-> "", size |-> 0, chunks |-> 0, chunk |-> 0]
BuildManifest(f, v) ==
    [v |-> v, id |-> f, size |-> Size[f], chunks |-> ChunkCount(Size[f]), chunk |-> CHUNK]
ParseManifest(m) ==
    /\ m.v \in 2 .. VERSION /\ m.size >= 0
    /\ m.chunk = CHUNK /\ m.chunks = ChunkCount(m.size)

\* No file has as many chunks as there are counters.
ContainerAssumption ==
    /\ Size \in [Files -> Nat] /\ MaxPieces \in Nat
    /\ {CHUNK, TAG, WORD, FLUSH} \subseteq Nat \ {0}
    /\ \A f \in Files : ChunkCount(Size[f]) < WORD * WORD

AAD(f, v) == IF v = 1 THEN NoManifest ELSE BuildManifest(f, v)

-----------------------------------------------------------------------------
(* Cells, sealing and opening one chunk.                                   *)

SealChunk(f, i, aad, plain) ==
    LET seal == [key |-> f, nonce |-> ChunkNonce(i), aad |-> aad, plain |-> plain]
    IN [k \in 1 .. Len(plain) + TAG |-> [kind |-> "chunk", seal |-> seal, at |-> k]]

Whole(cells) ==
    /\ cells # <<>> /\ cells[1].kind = "chunk"
    /\ Len(cells) = Len(cells[1].seal.plain) + TAG
    /\ \A k \in DOMAIN cells :
          cells[k].kind = "chunk" /\ cells[k].at = k /\ cells[k].seal = cells[1].seal
OpensChunk(cells, f, i, aad) ==
    Whole(cells) /\ LET s == cells[1].seal
                    IN s.key = f /\ s.nonce = ChunkNonce(i) /\ s.aad = aad

\* writeHeader and readHeader: magic and length, then the manifest.
WriteHeader(m) == <<[kind |-> "magic", v |-> m.v], [kind |-> "manifest", m |-> m]>>
HEADER == 2
HasHeader(ct) ==
    /\ Len(ct) >= HEADER
    /\ ct[1].kind = "magic" /\ ct[1].v \in 3 .. VERSION /\ ct[2].kind = "manifest"

Slice(f, i) == SubSeq(Plain(f), i * CHUNK + 1, Smaller((i + 1) * CHUNK, Size[f]))
SealedChunk(f, v, i) == SealChunk(f, i, AAD(f, v), Slice(f, i))

SealedFile(f, v) ==
    (IF v >= 3 THEN WriteHeader(AAD(f, v)) ELSE <<>>)
        \o FlattenSeq([i \in 1 .. ChunkCount(Size[f]) |-> SealedChunk(f, v, i - 1)])

-----------------------------------------------------------------------------
(* Reading and sealing (encryptFile, readSlice).                           *)

Want == Len(Slice(file, chunk))

StartChunk == reader' = "direct" /\ attempt' = 0

\* A slice of the right length is sealed, and handed over in lots of FLUSH;
\* after the last one what is left in the heap follows it.
EncryptChunk(buf) ==
    LET ct == SealChunk(file, chunk, AAD(file, VERSION), buf)
        full == pending + Len(ct) >= FLUSH
        last == chunk + 1 = ChunkCount(Size[file])
    IN  /\ parts' = IF full \/ last THEN <<>> ELSE parts \o ct
        /\ flushed' = IF full \/ last THEN flushed \o parts \o ct ELSE flushed
        /\ pending' = IF full THEN 0 ELSE pending + Len(ct)
        /\ chunk' = chunk + 1
        /\ phase' = IF last THEN "stored" ELSE phase
        /\ StartChunk

\* What was sealed so far goes with the frame of encryptFile.
Drop == parts' = <<>> /\ flushed' = <<>>

\* A read that fails or comes back short is taken up by the other reader, then
\* by another attempt; after the last attempt the file is given up.
NextReader ==
    /\ IF reader = "direct"
       THEN reader' = "fallback" /\ UNCHANGED <<attempt, phase, parts, flushed>>
       ELSE IF attempt + 1 < ATTEMPTS
            THEN reader' = "direct" /\ attempt' = attempt + 1 /\ UNCHANGED <<phase, parts, flushed>>
            ELSE phase' = "gone" /\ Drop /\ UNCHANGED <<reader, attempt>>
    /\ UNCHANGED <<pending, chunk>>

Sized(buf) == Len(buf) = Want

\* The token is looked at before each chunk and before each attempt.
Checks == reader = "direct"

ReadSlice ==
    /\ phase = "reading" /\ ~(Checks /\ stop)
    /\ \/ \E got \in 0 .. Want :
             LET buf == SubSeq(Slice(file, chunk), 1, got)
             IN IF Sized(buf) THEN EncryptChunk(buf) ELSE NextReader
       \/ NextReader
    /\ UNCHANGED <<file, version, stop, blob>>

Aborted ==
    /\ phase = "reading" /\ Checks /\ stop
    /\ phase' = "aborted" /\ Drop
    /\ UNCHANGED <<file, version, chunk, attempt, reader, pending, stop, blob>>

Cancel ==
    /\ phase = "reading" /\ ~stop /\ stop' = TRUE
    /\ UNCHANGED <<file, version, phase, chunk, attempt, reader, parts, flushed,
                   pending, blob>>

-----------------------------------------------------------------------------
(* Opening (openFile and the readers behind it).                           *)

Refused == [ok |-> FALSE, cells |-> <<>>]

\* The chunks of ct behind offset, n of them: all must open.
OpenChunks(ct, offset, n, f, aad) ==
    LET piece(i) == SubSeq(ct, offset + i * (CHUNK + TAG) + 1,
                           Smaller(offset + (i + 1) * (CHUNK + TAG), Len(ct)))
    IN IF \A i \in 0 .. n - 1 : OpensChunk(piece(i), f, i, aad)
       THEN [ok |-> TRUE, cells |-> FlattenSeq([i \in 1 .. n |-> piece(i - 1)[1].seal.plain])]
       ELSE Refused

LengthFits(ct, offset, m) == Len(ct) = offset + m.size + m.chunks * TAG
DecryptChunks(ct, offset, f, m) ==
    IF ParseManifest(m) /\ LengthFits(ct, offset, m)
    THEN LET out == OpenChunks(ct, offset, m.chunks, f, m)
         IN IF Len(out.cells) = m.size THEN out ELSE Refused
    ELSE Refused

\* A listed manifest has to be the embedded one, which alone is believed.
DecryptFile(ct, f, listed) ==
    IF HasHeader(ct) /\ listed \in {NoManifest, ct[2].m}
    THEN DecryptChunks(ct, HEADER, f, ct[2].m) ELSE Refused
DecryptV2(ct, f, listed) ==
    IF listed = NoManifest THEN Refused ELSE DecryptChunks(ct, 0, f, listed)
DecryptLegacy(ct, f) ==
    OpenChunks(ct, 0, (Len(ct) + CHUNK + TAG - 1) \div (CHUNK + TAG), f, NoManifest)
OpenFile(v, ct, f, listed) ==
    CASE v >= 3 -> DecryptFile(ct, f, listed)
      [] v = 2 -> DecryptV2(ct, f, listed)
      [] v = 1 -> DecryptLegacy(ct, f)

\* Everything that was ever sealed with the file, and its neighbours' objects.
Ever == {<<file, version>>} \cup ((Files \ {file}) \X {VERSION})
Pieces == UNION {{SealedChunk(e[1], e[2], i) : i \in 0 .. ChunkCount(Size[e[1]]) - 1} : e \in Ever}
Manifests == {AAD(e[1], e[2]) : e \in Ever}
Headers == {<<>>} \cup {WriteHeader(m) : m \in Manifests}
Bodies == {FlattenSeq(p) : p \in UNION {[1 .. n -> Pieces] : n \in 0 .. MaxPieces}}

\* One visit: whatever is served is opened under whatever version is claimed.
Visit(head, body, cut, v, listed) ==
    LET ct == head \o body
        served == SubSeq(ct, 1, Len(ct) - Smaller(cut, Len(ct)))
        out == OpenFile(v, served, file, listed)
    IN [claimed |-> v, ok |-> out.ok, cells |-> out.cells]

Open ==
    /\ phase = "stored" /\ phase' = "opened"
    /\ blob' \in {Visit(head, body, cut, v, listed) :
                     head \in Headers, body \in Bodies, cut \in 0 .. TAG, v \in Versions,
                     listed \in Manifests \cup {NoManifest}}
    /\ UNCHANGED <<file, version, chunk, attempt, reader, parts, flushed, pending, stop>>

-----------------------------------------------------------------------------
Unopened == [claimed |-> 0, ok |-> FALSE, cells |-> <<>>]

\* A file being uploaded by this build, or an object of any version in store.
Init ==
    /\ file \in Files /\ version \in Versions /\ phase \in {"reading", "stored"}
    /\ phase = "reading" => version = VERSION
    /\ chunk = 0 /\ attempt = 0 /\ reader = "direct" /\ pending = 0
    /\ stop = FALSE /\ blob = Unopened
    /\ IF phase = "reading"
       THEN parts = WriteHeader(AAD(file, version)) /\ flushed = <<>>
       ELSE parts = <<>> /\ flushed = SealedFile(file, version)

Next == ReadSlice \/ Cancel \/ Aborted \/ Open

Spec == Init /\ [][Next]_vars

-----------------------------------------------------------------------------
TypeOK ==
    /\ file \in Files /\ version \in Versions
    /\ phase \in {"reading", "stored", "opened", "gone", "aborted"}
    /\ chunk \in 0 .. ChunkCount(Size[file]) /\ attempt \in 0 .. ATTEMPTS - 1
    /\ reader \in {"direct", "fallback"} /\ pending \in 0 .. FLUSH - 1
    /\ stop \in BOOLEAN /\ blob.ok \in BOOLEAN /\ blob.claimed \in 0 .. VERSION

\* Whatever reads failed or came back short on the way, an object that reaches
\* the store opens, in the version it was written in, to the file it was made
\* of; and a cancelled or unreadable one leaves nothing (readSlice, encryptFile).
StoredOpens ==
    /\ phase = "stored" =>
          OpenFile(version, flushed, file, IF version = 1 THEN NoManifest ELSE AAD(file, version))
              = [ok |-> TRUE, cells |-> Plain(file)]
    /\ phase \in {"aborted", "gone"} => flushed \o parts = <<>>

\* Whatever is served, whatever version it is said to be of: what opens is the
\* whole file, unless it is said to be of the first version, which counts no
\* chunks.  A file of that version then opens up to any of its chunks, and a file
\* of a later one, though only where nothing at all is served, as an empty one:
\* version confusion does not "fail closed" there (e2e.js:773).
OpenedIsSealed ==
    blob.ok => \/ blob.cells = Plain(file)
               \/ /\ blob.claimed = 1
                  /\ \E n \in 0 .. (IF version = 1 THEN ChunkCount(Size[file]) ELSE 0) :
                        blob.cells = SubSeq(Plain(file), 1, n * CHUNK)
=============================================================================
