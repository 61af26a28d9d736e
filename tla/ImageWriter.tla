---------------------------- MODULE ImageWriter -----------------------------
(***************************************************************************)
(* What the tools that make enclave images share: the sizes of             *)
(* sgxs/src/util.rs and the CanonicalSgxsWriter, here as a value that each *)
(* call returns anew (SgxsRoundTrip has the stream that it writes).        *)
(*                                                                         *)
(* Addresses count bytes; a page, a chunk and a u64 are smaller than in    *)
(* the code.  A byte <<what, v, i>> is the i-th byte of the value v.       *)
(***************************************************************************)
EXTENDS Integers, Sequences, FiniteSets, SequencesExt

CONSTANTS
    PageSize,    \* 0x1000
    ChunkSize,   \* 0x100
    WordSize,    \* bytes of a u64
    Width,       \* bits of a u64
    Width32,     \* bits of a u32
    GuardSize,   \* 0x10000: what is left free around stacks
    None

ASSUME ImageSizesAssumption ==
    /\ ChunkSize \in Nat \ {0} /\ WordSize \in Nat \ {0} /\ GuardSize \in Nat
    /\ PageSize % ChunkSize = 0 /\ ChunkSize % WordSize = 0

LOCAL INSTANCE Bitwise

\* size_fit_page
SizeFitPage(size) ==
    IF size % PageSize = 0 THEN size ELSE size + (PageSize - (size % PageSize))

\* size_fit_natural: the bits below the highest one are set, in wrapping arithmetic.
Shifts == [k \in 1 .. Cardinality({k \in 1 .. Width : 2 ^ (k - 1) < Width}) |-> 2 ^ (k - 1)]
SizeFitNatural(size) ==
    LET smear(v, k) == v | (v \div 2 ^ k)
    IN  (FoldLeft(smear, (size - 1) % 2 ^ Width, Shifts) + 1) % 2 ^ Width

Chunks == 0 .. (PageSize \div ChunkSize) - 1
Zero == <<"zero", 0, 0>>
Fill(byte, n) == [i \in 1 .. n |-> byte]
\* to_le_bytes
Word(v) == [i \in 1 .. WordSize |-> <<"word", v, i>>]
RW == {"R", "W"}

\* write_page of a Write: every chunk that is not skipped takes the next bytes
\* of the data, with zeros behind their end; a skipped chunk takes none.
PageOf(data, chunks, addr, flags) ==
    LET before(c) == Cardinality({d \in Chunks : d < c /\ chunks[d] # "Skipped"})
        next(c, b) == before(c) * ChunkSize + b + 1
        byte(c, b) == IF chunks[c] = "Skipped" \/ next(c, b) > Len(data) THEN Zero
                      ELSE data[next(c, b)]
    IN  [addr |-> addr, flags |-> flags, chunks |-> chunks,
         data |-> [a \in 0 .. PageSize - 1 |-> byte(a \div ChunkSize, a % ChunkSize)]]

\* CanonicalSgxsWriter::new.  An image also says how making it went.
NewWriter(size, ssaframesize, sized) ==
    [size |-> size, ssaframesize |-> ssaframesize, sized |-> sized,
     next_offset |-> 0, pages |-> <<>>, status |-> "ok"]

Failed(w, status) == [w EXCEPT !.status = status]

\* write_pages, after check_offset; write_page is the same for one page.
WritePages(w, data, n, offset, flags) ==
    LET at == IF offset = None THEN w.next_offset ELSE offset
        chunks == [c \in Chunks |-> IF data = None THEN "Skipped" ELSE "IncludedMeasured"]
        part(i) == IF data = None THEN <<>>
                   ELSE SubSeq(data, (i - 1) * PageSize + 1,
                               IF i * PageSize < Len(data) THEN i * PageSize ELSE Len(data))
    IN  IF w.status # "ok" THEN w
        ELSE IF offset # None /\ (offset % PageSize # 0 \/ offset < w.next_offset)
        THEN Failed(w, "error")
        ELSE [w EXCEPT !.next_offset = at + n * PageSize,
                       !.pages = @ \o [i \in 1 .. n |->
                            PageOf(part(i), chunks, at + (i - 1) * PageSize, flags)]]

\* The pages that an image has at address a: one at most, if they do not overlap.
PagesAt(image, a) ==
    {image.pages[i] : i \in {i \in 1 .. Len(image.pages) :
        image.pages[i].addr <= a /\ a < image.pages[i].addr + PageSize}}
ByteAt(image, a) == LET p == CHOOSE p \in PagesAt(image, a) : TRUE IN p.data[a - p.addr]
\* The u64 at address a, if there is one.
HasWord(image, a) ==
    \A i \in 1 .. WordSize : /\ PagesAt(image, a + i - 1) # {}
                             /\ LET b == ByteAt(image, a + i - 1)
                                IN  b[1] = "word" /\ b[3] = i
WordAt(image, a) == ByteAt(image, a)[2]
=============================================================================
