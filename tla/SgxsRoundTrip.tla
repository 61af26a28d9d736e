--------------------------- MODULE SgxsRoundTrip ----------------------------
(***************************************************************************)
(* The CanonicalSgxsWriter (sgxs/src/sgxs.rs) writes an enclave page by    *)
(* page and blob by blob, and the readers of SgxsReader read it back; or   *)
(* they read a stream of arbitrary blobs.  The writer does not look at a   *)
(* page's permissions; a TCS page has none in the streams that the tools   *)
(* write.                                                                  *)
(***************************************************************************)
EXTENDS SgxsReader

CONSTANT MaxPages    \* bound: pages written by one call of write_pages

ASSUME MaxPagesAssumption == MaxPages \in Nat

VARIABLES
    writing,         \* whether the stream is made by the writer
    next_offset,     \* where the next page goes
    call,            \* the call of write_page or write_pages that is running
    written          \* history: the pages written, as a PageReader returns them

writerVars == <<writing, next_offset, call, written>>
roundTripVars == <<streamVars, writerVars>>

PageChunk == {"Skipped", "Included", "IncludedMeasured"}

\* No call: there are no pages, or all were written.
NoCall == [n |-> 0, page |-> 0, next |-> -1, secinfo |-> "reg",
           chunk |-> [c \in Chunks |-> "Skipped"], data |-> EmptyPage]
Idle == call.page = call.n

\* CanonicalSgxsWriter::new
WriterInit ==
    /\ writing
    /\ \E tag \in {"ECREATE", "UNSIZED"} : stream = <<[tag |-> tag]>>

\* Mutant: a page may start anywhere behind the one before it.
CheckOffsetUnaligned(offset) == offset # None => offset >= next_offset
\* check_offset accepts the offset, and the next page starts at Start(offset).
CheckOffset(offset) == offset # None => offset % PageSize = 0 /\ offset >= next_offset
Start(offset) == IF offset = None THEN next_offset ELSE offset

\* Bound: there is room for n more pages of k blobs.
Fits(n, offset, k) ==
    /\ Start(offset) + n * PageSize <= MaxBlobOffset + 1
    /\ Len(stream) + n * k <= MaxBlobs

\* write_page or write_pages is called for n pages with the given chunks.
Write(n, offset, secinfo, chunk) ==
    /\ writing /\ ~ended
    /\ Idle
    /\ CheckOffset(offset)
    /\ Fits(n, offset, 1 + Cardinality({c \in Chunks : chunk[c] # "Skipped"}))
    /\ next_offset' = Start(offset)
    /\ call' = [NoCall EXCEPT !.n = n, !.secinfo = secinfo, !.chunk = chunk]
    /\ UNCHANGED <<streamVars, writing, written>>

\* One page, with any mix of chunks; or pages that are all measured, or without data.
WritePage(offset, secinfo, chunk) == Write(1, offset, secinfo, chunk)
WritePages(n, offset, secinfo, some) ==
    Write(n, offset, secinfo,
          [c \in Chunks |-> IF some THEN "IncludedMeasured" ELSE "Skipped"])

\* Where the page is that is being written.
PageOffset == next_offset + call.page * PageSize

EAdd(offset, secinfo) == [tag |-> "EADD", offset |-> offset, secinfo |-> secinfo]
\* The page that the caller wants there; d[c] is what the data reader has next
\* when chunk c is written: a chunk that is skipped takes nothing from it.
Written(offset, secinfo, chunk, d) ==
    [eadd |-> EAdd(offset, secinfo),
     measured |-> {c \in Chunks : chunk[c] = "IncludedMeasured"},
     data |-> [c \in Chunks |-> IF chunk[c] = "Skipped" THEN 0 ELSE d[c]]]

WriteEAdd(d) ==
    /\ ~Idle
    /\ call.next = -1
    /\ stream' = Append(stream, EAdd(PageOffset, call.secinfo))
    /\ written' = Append(written, Written(PageOffset, call.secinfo, call.chunk, d))
    /\ call' = [call EXCEPT !.next = 0, !.data = d]
    /\ UNCHANGED <<ended, readerVars, writing, next_offset>>

ChunkBlob(c) ==
    [tag |-> IF call.chunk[c] = "IncludedMeasured" THEN "EEXTEND" ELSE "UNMEASRD",
     offset |-> PageOffset + c * ChunkSize, data |-> call.data[c]]

\* The next round of the loop over the chunks, in which chunk c is written or
\* skipped.  After the last chunk comes the next page, after the last page the
\* end of the call, which skips what it has written.
WriteChunkAt(c) ==
    /\ ~Idle
    /\ call.next # -1
    /\ stream' = IF call.chunk[c] = "Skipped" THEN stream ELSE Append(stream, ChunkBlob(c))
    /\ \/ /\ call.next < PageChunks - 1
          /\ call' = [call EXCEPT !.next = call.next + 1]
          /\ UNCHANGED next_offset
       \/ /\ call.next = PageChunks - 1 /\ call.page + 1 < call.n
          /\ call' = [call EXCEPT !.page = call.page + 1, !.next = -1]
          /\ UNCHANGED next_offset
       \/ /\ call.next = PageChunks - 1 /\ call.page + 1 = call.n
          /\ call' = NoCall
          /\ next_offset' = next_offset + call.n * PageSize
    /\ UNCHANGED <<ended, readerVars, writing, written>>
\* Mutant: the chunks of a page are written from its end.
WriteChunkBackwards == WriteChunkAt(PageChunks - 1 - call.next)
WriteChunk == WriteChunkAt(call.next)

SkipPages(n) ==
    /\ writing /\ ~ended
    /\ Idle
    /\ next_offset + n * PageSize <= MaxBlobOffset
    /\ next_offset' = next_offset + n * PageSize
    /\ UNCHANGED <<streamVars, writing, call, written>>

\* The file is complete, and is read from here on.
Finish == Idle /\ EndStream /\ UNCHANGED writerVars

RoundTripInit ==
    /\ writing \in BOOLEAN
    /\ WriterInit \/ (~writing /\ stream = <<>>)
    /\ next_offset = 0
    /\ call = NoCall
    /\ written = <<>>
    /\ ended = FALSE
    /\ ReaderInit

RoundTripNext ==
    \/ \E offset \in 0 .. MaxBlobOffset \union {None}, secinfo \in {"reg", "tcs"} :
        \/ \E chunk \in [Chunks -> PageChunk] : WritePage(offset, secinfo, chunk)
        \/ \E n \in 0 .. MaxPages, some \in BOOLEAN : WritePages(n, offset, secinfo, some)
    \/ \E d \in [Chunks -> Data] : WriteEAdd(d)
    \/ WriteChunk
    \/ \E n \in 1 .. MaxPages : SkipPages(n)
    \/ ~writing /\ (\E b \in Blobs : AppendBlob(b)) /\ UNCHANGED writerVars
    \/ Finish
    \/ (writing => ended) /\ ReaderNext /\ UNCHANGED writerVars

RoundTripSpec == RoundTripInit /\ [][RoundTripNext]_roundTripVars

-----------------------------------------------------------------------------
\* What the writer writes is never refused, and comes back page by page as it
\* was written: offsets, measured chunks and contents, whatever offsets were
\* given, left out or refused in between (sgxs.rs:517-566, 331-358).
RoundTrip ==
    writing =>
        /\ status # "error"
        /\ pages = SubSeq(written, 1, Len(pages))
        /\ status = "end" => pages = written

\* "hashing an SGXS file with SHA-256 will produce MRENCLAVE" (doc/SGXS.md:7-9)
\* for the streams of the writer: adding the pages and extending the measured
\* chunks of each in ascending order, as the drivers do with the set of chunks
\* they get, makes the records of the stream in their order.
MeasurementPreserved ==
    writing /\ status = "end" =>
        \A n \in 1 .. Len(pages) :
            LET records == {j \in ChunksOf(Add(n)) : stream[j].tag = "EEXTEND"}
            IN  /\ {ChunkIn(j) : j \in records} = pages[n].measured
                /\ \A j \in records : stream[j].data = pages[n].data[ChunkIn(j)]
                /\ \A j, k \in records : j < k => ChunkIn(j) < ChunkIn(k)
=============================================================================
