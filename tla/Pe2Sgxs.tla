------------------------------ MODULE Pe2Sgxs -------------------------------
(***************************************************************************)
(* Two more tools that make enclave images: isgx-pe2sgx, from a PE file of *)
(* Intel's SDK, and sgxs-build, from the blocks on its command line.       *)
(*                                                                         *)
(* A pe has the fields header (its bytes, and where the checksum and the   *)
(* certificate directory are in it), sections (name, addr, size, raw,      *)
(* flags; in the order of the file), relocs (the numbers of the pages that *)
(* have relocations; None if they cannot be read), entry (None if it is    *)
(* not exported or the exports cannot be read), is64bit, and sgxmeta:      *)
(* whether its magic numbers are right (magic), heap_size, stack_size,     *)
(* tcs_nssa, threads.  The 32-bit form of the thread data has the same     *)
(* fields, each a u32.                                                     *)
(***************************************************************************)
EXTENDS ImageWriter

SsaFrameSize == 1
TlsWords == 6        \* the words of Tls64 that the tool fills in
MetaSize == 5        \* bytes of Sgxmeta

Sections(pe, name) == SelectSeq(pe.sections, LAMBDA s : s.name = name)
TlsSection(pe) == Sections(pe, ".tls")[1]
\* The sections that are laid out: not sgxmeta, which the tool itself reads.
LaidOut(pe) == SelectSeq(pe.sections, LAMBDA s : s.name # "sgxmeta")

\* The early returns of LayoutInfo::new
PeOk(pe) ==
    /\ Len(Sections(pe, "sgxmeta")) = 1
    /\ Len(Sections(pe, "sgxmeta")[1].raw) >= MetaSize
    /\ Len(Sections(pe, ".tls")) = 1
    /\ Len(TlsSection(pe).raw) >= TlsWords * WordSize
    /\ pe.sgxmeta.magic
    /\ pe.relocs # None
    /\ pe.entry # None

TlsSize(pe) == SizeFitPage(TlsSection(pe).size)
SsaSize(pe) == pe.sgxmeta.tcs_nssa * SsaFrameSize * PageSize
StackSize(pe) == SizeFitPage(pe.sgxmeta.stack_size)
HeapOffset(pe) == LET last == Last(LaidOut(pe)) IN last.addr + SizeFitPage(last.size)
PeThreadSize(pe) ==
    PageSize + TlsSize(pe) + GuardSize + SsaSize(pe) + GuardSize + StackSize(pe)
TcsOffset(pe, i) ==
    HeapOffset(pe) + SizeFitPage(pe.sgxmeta.heap_size) + GuardSize + i * PeThreadSize(pe)
PeSize(pe) == SizeFitNatural(TcsOffset(pe, pe.sgxmeta.threads))

\* PeHeader::splice: the checksum and the certificate directory are zero.
SpliceHeader(header) ==
    [i \in 1 .. Len(header.data) |->
        IF \E r \in {header.checksum, header.certdir} : r.offset < i /\ i <= r.offset + r.size
        THEN Zero ELSE header.data[i]]

\* tls_splice: the offsets from a thread's TCS to its stack and SSA, the place
\* and the size of the heap and the size of the enclave.  The size of the heap is
\* cast to u32, and in a 32-bit file so is everything else.
TlsSplice(pe) ==
    LET ssa == PageSize + TlsSize(pe) + GuardSize
        bos == ssa + SsaSize(pe) + GuardSize
        tos == bos + StackSize(pe)
        usize(v) == Word(IF pe.is64bit THEN v ELSE v % 2 ^ Width32)
    IN  usize(tos) \o usize(bos) \o usize(ssa) \o usize(HeapOffset(pe)) \o usize(PeSize(pe)) \o
        Word(SizeFitPage(pe.sgxmeta.heap_size) % 2 ^ Width32)
TlsFields == <<"tos", "bos", "ssa", "heap_base", "enclave_size", "heap_size">>

\* write_pe_section, page by page; the .tls section begins with the splice.
WritePeSection(w, pe, s) ==
    LET first == s.addr \div PageSize
        n == (SizeFitPage(s.addr + s.size) \div PageSize) - first
        data == IF s.name = ".tls"
                THEN TlsSplice(pe) \o SubSeq(s.raw, TlsWords * WordSize + 1, Len(s.raw)) ELSE s.raw
        part(k) == SubSeq(data, (k - 1) * PageSize + 1,
                          IF k * PageSize < Len(data) THEN k * PageSize ELSE Len(data))
        flags(p) == s.flags \union (IF p \in pe.relocs THEN {"W"} ELSE {})
        page(v, k) == LET p == first + k - 1
                      IN  WritePages(v, part(k), 1, p * PageSize, flags(p))
    IN  FoldLeft(page, w, [k \in 1 .. n |-> k])

\* The TCS, thread-local storage, SSA and stack of the i-th thread
WritePeThread(w, pe, i) ==
    LET tcs_offset == TcsOffset(pe, i)
        tls_offset == tcs_offset + PageSize
        ssa_offset == tls_offset + TlsSize(pe) + GuardSize
        stack_offset == ssa_offset + SsaSize(pe) + GuardSize
        tcs == Word(ssa_offset) \o Word(pe.sgxmeta.tcs_nssa) \o Word(pe.entry) \o
               Word(tls_offset) \o Word(tls_offset)
        w1 == WritePages(w, tcs, 1, tcs_offset, {"Tcs"})
        w2 == WritePages(w1, <<>>, TlsSize(pe) \div PageSize, tls_offset, RW)
        w3 == WritePages(w2, <<>>, SsaSize(pe) \div PageSize, ssa_offset, RW)
    IN  WritePages(w3, Fill(<<"0xcc", 0, 0>>, StackSize(pe)), StackSize(pe) \div PageSize,
                   stack_offset, RW)

\* LayoutInfo::new and write
ConvertPe(pe) ==
    LET header == WritePages(NewWriter(PeSize(pe), SsaFrameSize, TRUE), SpliceHeader(pe.header),
                             SizeFitPage(Len(pe.header.data)) \div PageSize, 0, {"R"})
        section(w, s) == WritePeSection(w, pe, s)
        heap == WritePages(FoldLeft(section, header, LaidOut(pe)), None,
                           SizeFitPage(pe.sgxmeta.heap_size) \div PageSize, HeapOffset(pe), RW)
        thread(w, i) == WritePeThread(w, pe, i - 1)
    IN  IF ~PeOk(pe) THEN Failed(NewWriter(0, SsaFrameSize, TRUE), "error")
        ELSE FoldLeft(thread, heap, [i \in 1 .. pe.sgxmeta.threads |-> i])

-----------------------------------------------------------------------------
(***************************************************************************)
(* sgxs-build.  A block is a blob (data, flags) or a TCS (nssa).           *)
(***************************************************************************)
BlockPages(b, ssaframesize) ==
    IF b.kind = "blob" THEN SizeFitPage(Len(b.data)) \div PageSize ELSE 1 + b.nssa * ssaframesize

WriteBlock(w, b, ssaframesize) ==
    IF b.kind = "blob" THEN WritePages(w, b.data, BlockPages(b, ssaframesize), None, b.flags)
    ELSE LET tcs == Word(w.next_offset + PageSize) \o Word(b.nssa) \o Word(0) \o Word(0) \o Word(0)
         IN  WritePages(WritePages(w, tcs, 1, None, {"Tcs"}), <<>>, b.nssa * ssaframesize, None, RW)

BuildBlocks(blocks, ssaframesize) ==
    LET add(n, b) == n + BlockPages(b, ssaframesize)
        block(w, b) == WriteBlock(w, b, ssaframesize)
        size == SizeFitNatural(FoldLeft(add, 0, blocks) * PageSize)
    IN  FoldLeft(block, NewWriter(size, ssaframesize, TRUE), blocks)
=============================================================================
