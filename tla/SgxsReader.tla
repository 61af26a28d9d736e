----------------------------- MODULE SgxsReader -----------------------------
(***************************************************************************)
(* Reading an enclave from an SGXS stream (sgxs/src/sgxs.rs): the          *)
(* CanonicalSgxsReader, which refuses streams that are not canonical, and  *)
(* the PageReader on top of it, which collects the blobs of a page and     *)
(* hands pages to a loader.  The stream is a sequence of measurement blobs *)
(* made by whoever fills `stream': anything at all, one blob whenever the  *)
(* reader asks for the next, or in SgxsRoundTrip the CanonicalSgxsWriter.  *)
(* A loader gives up at the first error, so that ends the run.             *)
(*                                                                         *)
(* A page has PageChunks chunks of ChunkSize bytes (16 and 256 in the      *)
(* code); what a chunk holds is a value, 0 for the zeros of a new page.    *)
(***************************************************************************)
EXTENDS Integers, Sequences, FiniteSets

CONSTANTS
    PageChunks,  \* chunks in a page
    ChunkSize,   \* bytes in a chunk
    MaxBlobOffset, \* bound: offsets of blobs
    MaxBlobs,    \* bound: blobs in a stream
    Data,        \* what a chunk may hold
    None

ASSUME SizesAssumption == PageChunks \in Nat \ {0} /\ ChunkSize \in Nat \ {0}
ASSUME BlobBoundsAssumption == MaxBlobOffset \in Nat /\ MaxBlobs \in Nat
ASSUME DataAssumption == 0 \in Data

PageSize == PageChunks * ChunkSize
Chunks == 0 .. PageChunks - 1

\* enum Meas.  A TCS page may have no permission bits.
CreateBlobs == [tag : {"ECREATE", "UNSIZED"}]
AddBlobs == [tag : {"EADD"}, offset : 0 .. MaxBlobOffset, secinfo : {"reg", "tcs", "tcs_rwx"}]
ChunkBlobs == [tag : {"EEXTEND", "UNMEASRD"}, offset : 0 .. MaxBlobOffset, data : Data]
\* A tag that read_meas does not know, a blob that is cut off, a read that fails.
InvalidBlobs == [tag : {"invalid"}]
Blobs == CreateBlobs \union AddBlobs \union ChunkBlobs \union InvalidBlobs

\* None is neither an offset nor an EADD blob.
ASSUME NoneAssumption == None \notin Nat /\ None \notin AddBlobs

VARIABLES
    stream,          \* the blobs of the stream
    ended,           \* whether the stream is complete
    pos,             \* how many of them were read
    \* CanonicalSgxsReader
    got_ecreate, last_offset, chunks_measured, chunks_seen,
    \* PageReader
    last_eadd,       \* the EADD blob of the page being read
    page,            \* its contents, by chunk
    pages,           \* the pages returned
    status           \* "new", "reading", "error" or "end"

canonicalVars == <<got_ecreate, last_offset, chunks_measured, chunks_seen>>
pageVars == <<last_eadd, page, pages, status>>
readerVars == <<pos, canonicalVars, pageVars>>
streamVars == <<stream, ended, readerVars>>

EmptyPage == [c \in Chunks |-> 0]

ReaderInit ==
    /\ pos = 0
    /\ got_ecreate = FALSE
    /\ last_offset = None
    /\ chunks_measured = {}
    /\ chunks_seen = {}
    /\ last_eadd = None
    /\ page = EmptyPage
    /\ pages = <<>>
    /\ status = "new"

-----------------------------------------------------------------------------
(***************************************************************************)
(* CanonicalSgxsReader                                                     *)
(***************************************************************************)
\* The chunk of the current page that an offset belongs to.
Chunk(offset) == (offset - last_offset) \div ChunkSize

\* check_chunk_offset.  chunks_seen & chunk_bit equals 1 only for chunk 0.
CheckChunkOffset(offset) ==
    /\ offset % ChunkSize = 0
    /\ last_offset # None
    /\ offset >= last_offset
    /\ Chunk(offset) < PageChunks
    /\ ~(Chunk(offset) = 0 /\ 0 \in chunks_seen)

\* Mutant: an EADD blob may have the offset of the previous one.
AcceptsSameOffset(b) ==
    \/ b \in CreateBlobs /\ ~got_ecreate
    \/ /\ b \in AddBlobs
       /\ got_ecreate
       /\ b.offset % PageSize = 0
       /\ last_offset # None => b.offset >= last_offset
       /\ b.secinfo # "tcs_rwx"
    \/ b \in ChunkBlobs /\ got_ecreate /\ CheckChunkOffset(b.offset)
\* Whether read_meas returns the blob.
Accepts(b) ==
    \/ b \in CreateBlobs /\ ~got_ecreate
    \/ /\ b \in AddBlobs
       /\ got_ecreate
       /\ b.offset % PageSize = 0
       /\ last_offset # None => b.offset > last_offset
       /\ b.secinfo # "tcs_rwx"
    \/ b \in ChunkBlobs /\ got_ecreate /\ CheckChunkOffset(b.offset)

NextBlob == stream[pos + 1]

-----------------------------------------------------------------------------
(***************************************************************************)
(* PageReader                                                              *)
(***************************************************************************)
GiveUp ==
    /\ status' = "error"
    /\ UNCHANGED <<stream, ended, pos, canonicalVars, last_eadd, page, pages>>

\* PageReader::new: the first blob has to create the enclave.
NewReader ==
    /\ status = "new"
    /\ stream # <<>> \/ ended
    /\ IF stream # <<>> /\ NextBlob \in CreateBlobs
       THEN /\ pos' = 1
            /\ got_ecreate' = TRUE
            /\ status' = "reading"
            /\ UNCHANGED <<stream, ended, last_offset, chunks_measured, chunks_seen,
                           last_eadd, page, pages>>
       ELSE GiveUp

\* read_page gives up on a blob that is refused.  (A second ECREATE is one.)
RefuseBlob ==
    /\ status = "reading"
    /\ pos < Len(stream)
    /\ ~Accepts(NextBlob)
    /\ GiveUp

\* read_page returns the page that it has collected.
ReturnPage ==
    /\ pages' = Append(pages, [eadd |-> last_eadd, measured |-> chunks_measured, data |-> page])
    /\ page' = EmptyPage

\* Mutant: returns the chunks of the page that comes next.
ReadEAddLate ==
    /\ status = "reading"
    /\ pos < Len(stream)
    /\ NextBlob \in AddBlobs
    /\ Accepts(NextBlob)
    /\ pos' = pos + 1
    /\ last_offset' = NextBlob.offset
    /\ chunks_measured' = {}
    /\ chunks_seen' = {}
    /\ last_eadd' = NextBlob
    /\ \/ /\ last_eadd # None
          /\ pages' = Append(pages, [eadd |-> last_eadd, measured |-> {}, data |-> page])
          /\ page' = EmptyPage
       \/ last_eadd = None /\ UNCHANGED <<page, pages>>
    /\ UNCHANGED <<stream, ended, got_ecreate, status>>
\* read_page meets an EADD blob, which ends the page before it.
ReadEAdd ==
    /\ status = "reading"
    /\ pos < Len(stream)
    /\ NextBlob \in AddBlobs
    /\ Accepts(NextBlob)
    /\ pos' = pos + 1
    /\ last_offset' = NextBlob.offset
    /\ chunks_measured' = {}
    /\ chunks_seen' = {}
    /\ last_eadd' = NextBlob
    /\ \/ last_eadd # None /\ ReturnPage
       \/ last_eadd = None /\ UNCHANGED <<page, pages>>
    /\ UNCHANGED <<stream, ended, got_ecreate, status>>

\* read_page meets a chunk of the page it is collecting.
ReadChunk ==
    /\ status = "reading"
    /\ pos < Len(stream)
    /\ NextBlob \in ChunkBlobs
    /\ Accepts(NextBlob)
    /\ pos' = pos + 1
    /\ LET chunk == Chunk(NextBlob.offset)
       IN  /\ chunks_seen' = chunks_seen \union {chunk}
           /\ chunks_measured' = IF NextBlob.tag = "EEXTEND"
                                 THEN chunks_measured \union {chunk} ELSE chunks_measured
    /\ page' = [page EXCEPT ![(NextBlob.offset % PageSize) \div ChunkSize] = NextBlob.data]
    /\ UNCHANGED <<stream, ended, got_ecreate, last_offset, last_eadd, pages, status>>

\* read_page meets the end of the stream: the last page, then None.
ReadEnd ==
    /\ status = "reading"
    /\ ended
    /\ pos = Len(stream)
    /\ last_eadd' = None
    /\ \/ last_eadd # None /\ ReturnPage /\ UNCHANGED status
       \/ last_eadd = None /\ status' = "end" /\ UNCHANGED <<page, pages>>
    /\ UNCHANGED <<stream, ended, pos, canonicalVars>>

ReaderNext == NewReader \/ RefuseBlob \/ ReadEAdd \/ ReadChunk \/ ReadEnd

-----------------------------------------------------------------------------
(***************************************************************************)
(* A stream of arbitrary blobs                                             *)
(***************************************************************************)
AppendBlob(b) ==
    /\ ~ended
    /\ status # "error"
    /\ pos = Len(stream)
    /\ Len(stream) < MaxBlobs
    /\ stream' = Append(stream, b)
    /\ UNCHANGED <<ended, readerVars>>

EndStream ==
    /\ ~ended
    /\ status # "error"
    /\ ended' = TRUE
    /\ UNCHANGED <<stream, readerVars>>

-----------------------------------------------------------------------------
(***************************************************************************)
(* Properties                                                              *)
(***************************************************************************)
\* Positions of the stream, as far as it was read, that hold an EADD blob, and
\* the positions of the chunks that follow the one at i.
Adds == {i \in 1 .. pos : stream[i] \in AddBlobs}
ChunksOf(i) ==
    {j \in i + 1 .. pos : stream[j] \in ChunkBlobs /\ \A k \in Adds : i < k => j < k}

\* What the reader lets through is canonical as doc/SGXS.md:20-31 defines it, but
\* for the chunks being unique.  Chunks are aligned to chunks (8 bits, as in
\* SGXS.md:27 and in the code, 231), and not to pages, which is what the comment at
\* sgxs.rs:208 asks for.
Canonical ==
    /\ \A i \in 1 .. pos : stream[i] \in CreateBlobs <=> i = 1
    /\ \A i \in Adds : stream[i].offset % PageSize = 0 /\ stream[i].secinfo # "tcs_rwx"
    /\ \A i, j \in Adds : i < j => stream[i].offset < stream[j].offset
    /\ \A j \in 1 .. pos : stream[j] \in ChunkBlobs =>
        /\ stream[j].offset % ChunkSize = 0
        /\ \E i \in Adds : /\ j \in ChunksOf(i)
                           /\ stream[j].offset \div PageSize = stream[i].offset \div PageSize

\* The page that the EADD blob at i and the chunks after it describe: the last
\* chunk of an address counts, and chunks that are not there are zero.
ChunkIn(j) == (stream[j].offset % PageSize) \div ChunkSize
PageAt(i) ==
    [eadd |-> stream[i],
     measured |-> {ChunkIn(j) : j \in {k \in ChunksOf(i) : stream[k].tag = "EEXTEND"}},
     data |-> [c \in Chunks |->
        LET js == {j \in ChunksOf(i) : ChunkIn(j) = c}
        IN  IF js = {} THEN 0 ELSE stream[CHOOSE j \in js : \A k \in js : k <= j].data]]

\* The n-th position in Adds.
Add(n) == CHOOSE i \in Adds : Cardinality({j \in Adds : j <= i}) = n

\* Every page comes out once, in order and with its own chunks, although
\* read_page only learns from the next page that a page is complete
\* (sgxs.rs:331-358).
PagesComplete ==
    /\ \A n \in 1 .. Len(pages) : pages[n] = PageAt(Add(n))
    /\ status = "end" => Len(pages) = Cardinality(Adds)
=============================================================================
