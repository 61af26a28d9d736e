----------------------------- MODULE SgxsAppend -----------------------------
(***************************************************************************)
(* Making an enclave image: one of the tools writes it, and sgxs-append    *)
(* adds files to an image of unknown size (ftxsgx-elf2sgxs --unsized), for *)
(* instance the configuration that the enclave finds at CFGDATA_BASE.      *)
(*                                                                         *)
(* An operation of sgxs-append is [kind |-> "file", perm, measured, size]  *)
(* or [kind |-> "align", n].  The k-th byte of the o-th operation's file   *)
(* is <<"file", o, k>>.                                                    *)
(***************************************************************************)
EXTENDS Elf2Sgxs, Pe2Sgxs

CONSTANTS
    ElfInputs,          \* what ftxsgx-elf2sgxs is given: an elf and options
    Pes,                \* what isgx-pe2sgx is given
    BlockLists,         \* what sgxs-build is given
    Operations,         \* the operations of sgxs-append
    MaxOps              \* bound: operations of one call

LOCAL INSTANCE Bitwise

VARIABLES
    input,              \* what the image was made of
    f0,                 \* the image
    pc,                 \* of sgxs-append
    op, ops,            \* the operation at work, how many there were
    cur_addr, page_addr, page, chunks, last_mode,
    rest,               \* how many bytes of the file were read
    placed              \* history: where every byte of a file was put

appendVars == <<pc, op, ops, cur_addr, page_addr, page, chunks, last_mode, rest, placed>>
vars == <<input, f0, appendVars>>

EmptyPage == Fill(Zero, PageSize)
EmptyChunks == [c \in Chunks |-> "Skipped"]

\* The image is made by one of the tools.
Init ==
    /\ \/ \E in \in ElfInputs :
            /\ input = [tool |-> "elf2sgxs", elf |-> in.elf, opt |-> in.opt]
            /\ f0 = ConvertElf(in.elf, in.opt)
       \/ \E pe \in Pes :
            /\ input = [tool |-> "pe2sgx", pe |-> pe]
            /\ f0 = ConvertPe(pe)
       \/ \E blocks \in BlockLists, n \in 1 .. 2 :
            /\ input = [tool |-> "build", blocks |-> blocks]
            /\ f0 = BuildBlocks(blocks, n)
    /\ pc = "start"
    /\ op = None /\ ops = 0
    /\ cur_addr = 0 /\ page_addr = 0 /\ page = EmptyPage /\ chunks = EmptyChunks
    /\ last_mode = None
    /\ rest = 0
    /\ placed = {}

-----------------------------------------------------------------------------
\* The EEXTEND that has the place of the enclave size
SizeChunk(image) ==
    {i \in 1 .. Len(image.pages) :
        /\ image.pages[i].addr <= image.size /\ image.size < image.pages[i].addr + PageSize
        /\ image.pages[i].chunks[(image.size - image.pages[i].addr) \div ChunkSize]
            = "IncludedMeasured"}

Stop(how) == pc' = how /\ UNCHANGED <<input, f0, op, ops, cur_addr, page_addr, page, chunks,
                                      last_mode, rest, placed>>

\* The first read of the image: an unsized one gives the place where its size
\* belongs, and the new data goes behind the last page.
ReadImage ==
    /\ pc = "start"
    /\ f0.status = "ok"
    /\ IF f0.sized \/ f0.size % WordSize # 0 \/ f0.pages = <<>> \/ SizeChunk(f0) = {}
       THEN Stop("error")
       ELSE /\ pc' = "next"
            /\ cur_addr' = Last(f0.pages).addr + PageSize
            /\ page_addr' = cur_addr'
            /\ UNCHANGED <<input, f0, op, ops, page, chunks, last_mode, rest, placed>>

\* align_to
AlignTo(value, align) ==
    IF value & (align - 1) = 0 THEN value ELSE value - (value & (align - 1)) + align

Align(n) ==
    /\ pc = "next" /\ ops < MaxOps
    /\ ops' = ops + 1
    /\ cur_addr' = AlignTo(cur_addr, n)
    /\ UNCHANGED <<input, f0, pc, op, page_addr, page, chunks, last_mode, rest, placed>>

\* Mutant: data that is measured shares a chunk with data that is not.
DefaultAlignPerm(o) ==
    IF last_mode # None /\ last_mode.perm = o.perm THEN 1 ELSE PageSize
DefaultAlign(o) ==
    IF last_mode = [perm |-> o.perm, measured |-> o.measured] THEN 1
    ELSE IF last_mode # None /\ last_mode.perm = o.perm THEN ChunkSize
    ELSE PageSize

File(o) ==
    /\ pc = "next" /\ ops < MaxOps
    /\ ops' = ops + 1
    /\ op' = o
    /\ rest' = 0
    /\ cur_addr' = AlignTo(cur_addr, DefaultAlign(o))
    /\ last_mode' = [perm |-> o.perm, measured |-> o.measured]
    /\ pc' = "copy"
    /\ UNCHANGED <<input, f0, page_addr, page, chunks, placed>>

\* write_page without a check of the offset
Flush(perm) == [f0 EXCEPT !.pages = Append(@, PageOf(page, chunks, page_addr, perm))]

\* One turn of the loop over a file: a page that is left behind is written
\* with the permissions of the file at hand; then the page is filled up.
Copy ==
    LET moved == cur_addr >= page_addr + PageSize
        flush == moved /\ chunks # EmptyChunks
        from == cur_addr % PageSize
        space == PageSize - from
        n == IF op.size - rest < space THEN op.size - rest ELSE space
        old == IF moved THEN EmptyPage ELSE page
        marks == IF moved THEN EmptyChunks ELSE chunks
        filled == (from \div ChunkSize) .. ((from + n + ChunkSize - 1) \div ChunkSize) - 1
    IN  /\ pc = "copy"
        /\ IF moved /\ from # 0 THEN Stop("panic")
           ELSE /\ f0' = IF flush THEN Flush(op.perm) ELSE f0
                /\ page_addr' = IF moved THEN cur_addr ELSE page_addr
                /\ page' = [i \in 1 .. PageSize |-> IF from < i /\ i <= from + n
                                THEN <<"file", ops, rest + i - from>> ELSE old[i]]
                /\ chunks' = [c \in Chunks |-> IF n > 0 /\ c \in filled
                                THEN IF op.measured THEN "IncludedMeasured" ELSE "Included"
                                ELSE marks[c]]
                /\ cur_addr' = cur_addr + n
                /\ rest' = rest + n
                /\ placed' = placed \union
                    {[addr |-> cur_addr + k, byte |-> <<"file", ops, rest + k + 1>>, op |-> op] :
                        k \in 0 .. n - 1}
                /\ pc' = IF n = 0 THEN "next" ELSE "copy"
                /\ UNCHANGED <<input, op, ops, last_mode>>

FilledSize ==
    SizeFitNatural(IF chunks # EmptyChunks THEN page_addr + PageSize ELSE page_addr)

\* The word v at address a of a page
PutWord(pg, a, v) ==
    [pg EXCEPT !.data = [i \in 0 .. PageSize - 1 |->
        IF i >= a - pg.addr /\ i < a - pg.addr + WordSize
        THEN Word(v)[i - (a - pg.addr) + 1] ELSE pg.data[i]]]

\* The last page, and the size: in the ECREATE and in the image.
Finish ==
    /\ pc = "next"
    /\ LET image == IF chunks # EmptyChunks THEN Flush(last_mode.perm) ELSE f0
           size == FilledSize
           at == Max(SizeChunk(f0))
       IN  f0' = [image EXCEPT !.sized = TRUE, !.size = size,
                               !.pages[at] = PutWord(@, f0.size, size)]
    /\ pc' = "done"
    /\ UNCHANGED <<input, op, ops, cur_addr, page_addr, page, chunks, last_mode, rest, placed>>

Next ==
    \/ ReadImage
    \/ \E o \in Operations : (o.kind = "align" /\ Align(o.n)) \/ (o.kind = "file" /\ File(o))
    \/ Copy
    \/ Finish

Spec == Init /\ [][Next]_vars

-----------------------------------------------------------------------------
(***************************************************************************)
(* Properties                                                              *)
(***************************************************************************)
PageNumbers == 1 .. Len(f0.pages)
Threads == {i \in PageNumbers : f0.pages[i].flags = {"Tcs"}}
IsRW(a) == \E p \in PagesAt(f0, a) : p.flags = RW
Field(addr, fields, name) ==
    WordAt(f0, addr + ((CHOOSE i \in 1 .. Len(fields) : fields[i] = name) - 1) * WordSize)
TcsField(i, name) == Field(f0.pages[i].addr, TcsFields, name)
Ssa(i) ==
    LET ossa == TcsField(i, "ossa")
    IN  ossa .. ossa + TcsField(i, "nssa") * f0.ssaframesize * PageSize - 1
\* The end of a thread's stack, as the enclave learns it from its TLS page or,
\* in a PE file, from the .tls section; and the size that was asked for.
StackEnd(i) ==
    IF input.tool = "elf2sgxs" THEN WordAt(f0, TcsField(i, "ofsbasgx"))
    ELSE f0.pages[i].addr + Field(TlsSection(input.pe).addr, TlsFields, "tos")
StackBytes ==
    IF input.tool = "elf2sgxs" THEN input.opt.stack_size ELSE input.pe.sgxmeta.stack_size
Complete == f0.status = "ok" /\ (f0.sized \/ pc = "done")

\* In every image that a tool completes the pages ascend without overlap and
\* lie inside the enclave, and every TCS has what it points to: SSA frames of
\* its own, thread-local storage and a stack of the size asked for, all of
\* which can be written, and nothing right below the stack
\* (ftxsgx-elf2sgxs.rs:614-671, isgx-pe2sgx.rs:325-346, sgxs-build.rs:101-140).
ImageSound ==
    Complete =>
        /\ \A i \in PageNumbers :
            /\ f0.pages[i].addr + PageSize <= f0.size
            /\ i > 1 => f0.pages[i].addr >= f0.pages[i - 1].addr + PageSize
        /\ \A i \in Threads :
            /\ \A a \in Ssa(i) : IsRW(a)
            /\ \A j \in Threads \ {i} : Ssa(i) \intersect Ssa(j) = {}
            /\ input.tool # "build" =>
                /\ IsRW(TcsField(i, "ofsbasgx"))
                /\ \A a \in 1 .. StackBytes : IsRW(StackEnd(i) - a)
                /\ \A a \in 1 .. GuardSize :
                    PagesAt(f0, StackEnd(i) - SizeFitPage(StackBytes) - a) = {}

\* Every byte of a segment is in the image as the linker put it there, but for
\* the values spliced in, which are all there, and .text_no_sgx; every place of
\* a relocation, which the start code applies in the enclave, can be written
\* (ftxsgx-elf2sgxs.rs:422-559, 334-381, isgx-pe2sgx.rs:361-379).
BytesAsLinked ==
    f0.status = "ok" /\ pc = "start" =>
        /\ input.tool = "elf2sgxs" /\ WellLinked(input.elf, input.opt) =>
            \A i \in 1 .. Len(input.elf.segments) :
                LET seg == input.elf.segments[i]
                IN  \A a \in seg.addr .. SegEnd(seg) - 1 :
                        LET byte == LinkedByte(input.elf, input.opt, seg, a)
                        IN  \/ /\ byte[1] = "nop"
                               /\ PagesAt(f0, a) = {} \/ ByteAt(f0, a) \in {byte, Zero}
                            \/ PagesAt(f0, a) # {} /\ ByteAt(f0, a) = byte
        /\ input.tool = "elf2sgxs" =>
            \A r \in input.elf.relocs : \A a \in r.offset .. r.offset + WordSize - 1 :
                \E p \in PagesAt(f0, a) : "W" \in p.flags
        /\ input.tool = "pe2sgx" =>
            \A n \in input.pe.relocs : \A p \in PagesAt(f0, n * PageSize) : "W" \in p.flags

\* Whether a page has a chunk behind one that was skipped.
Gap(p) == \E c, d \in Chunks : c < d /\ p.chunks[c] = "Skipped" /\ p.chunks[d] # "Skipped"

\* After sgxs-append the enclave finds its own size where it looks for it, the
\* first file is where CFGDATA_BASE says and the others are behind it, and every
\* byte of a file is in the image at its place, measured as it was asked for;
\* except in a page in which -align left out a chunk (sgxs-append.rs:249-340).
AppendSound ==
    pc = "done" /\ WellLinked(input.elf, input.opt) =>
        LET size == Sym(input.elf, "ENCLAVE_SIZE").value
            base == WordAt(f0, Sym(input.elf, "CFGDATA_BASE").value)
        IN  /\ HasWord(f0, size) /\ WordAt(f0, size) = f0.size
            /\ \A b \in placed :
                /\ b.addr >= base
                /\ b.byte = <<"file", 1, 1>> => b.addr = base
                /\ \E p \in PagesAt(f0, b.addr) : Gap(p) \/
                    /\ p.data[b.addr - p.addr] = b.byte
                    /\ p.chunks[(b.addr - p.addr) \div ChunkSize]
                        = (IF b.op.measured THEN "IncludedMeasured" ELSE "Included")

\* "r, w, and x indicate the page permissions" of the file that they are given
\* for (sgxs-append.rs:361-362).
AppendedModes ==
    pc = "done" => \A b \in placed : \A p \in PagesAt(f0, b.addr) : p.flags = b.op.perm
=============================================================================
