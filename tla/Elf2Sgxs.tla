------------------------------ MODULE Elf2Sgxs ------------------------------
(***************************************************************************)
(* ftxsgx-elf2sgxs: an ELF file of the x86_64-fortanix-unknown-sgx target  *)
(* becomes an enclave image.  The tool checks the file, writes the load    *)
(* segments with the values that the enclave's start code needs spliced    *)
(* into them, and lays out heap and threads behind them.                   *)
(*                                                                         *)
(* An elf has the fields class64, version (of the toolchain note, None if  *)
(* there is no valid one), syms (the dynamic symbols: name, value, size,   *)
(* defined), dynamic (tag, val; None without a dynamic section), relocs    *)
(* (offset, relative), sections (offset and size by name) and segments     *)
(* (addr, file, mem, flags: those of type PT_LOAD).  The options are       *)
(* ssaframesize, heap_size, stack_size, threads, debug, library, sized.    *)
(***************************************************************************)
EXTENDS ImageWriter, TLC

MaxSupportedVersion == 1

-----------------------------------------------------------------------------
(***************************************************************************)
(* The checks of LayoutInfo::new                                           *)
(***************************************************************************)
Mandatory == {"sgx_entry", "HEAP_BASE", "HEAP_SIZE", "RELA", "RELACOUNT", "ENCLAVE_SIZE",
              "CFGDATA_BASE", "DEBUG", "TEXT_BASE", "TEXT_SIZE"}
OldEhFrame == {"EH_FRM_HDR_BASE", "EH_FRM_HDR_SIZE"}
NewEhFrame == {"EH_FRM_OFFSET", "EH_FRM_LEN", "EH_FRM_HDR_OFFSET", "EH_FRM_HDR_LEN"}

Named(elf, name) == {i \in 1 .. Len(elf.syms) : elf.syms[i].name = name}
Found(elf) == {elf.syms[i].name : i \in 1 .. Len(elf.syms)}
Sym(elf, name) == elf.syms[CHOOSE i \in Named(elf, name) : TRUE]
SymSize(name) == IF name = "DEBUG" THEN 1 ELSE WordSize

CheckSymbols(elf) ==
    LET used == Mandatory \union
                (IF OldEhFrame \subseteq Found(elf) THEN OldEhFrame ELSE NewEhFrame)
    IN  /\ \A i \in 1 .. Len(elf.syms) : elf.syms[i].defined
        /\ used \subseteq Found(elf)
        /\ \A s \in Mandatory \union OldEhFrame \union NewEhFrame :
            Cardinality(Named(elf, s)) <= 1
        /\ \A s \in used \ {"sgx_entry"} : Sym(elf, s).size = SymSize(s)
        /\ Sym(elf, "ENCLAVE_SIZE").value % WordSize = 0

Tagged(elf, tag) == SelectSeq(elf.dynamic, LAMBDA d : d.tag = tag)
CheckDynamic(elf) ==
    /\ elf.dynamic # None
    /\ Tagged(elf, "unsupported") = <<>>
    /\ Len(Tagged(elf, "RELA")) <= 1
    /\ Len(Tagged(elf, "RELACOUNT")) = Len(Tagged(elf, "RELA"))
\* The entry's value, 0 without one.
DynVal(elf, tag) == IF Tagged(elf, tag) = <<>> THEN 0 ELSE Tagged(elf, tag)[1].val

CheckRelocs(elf) ==
    /\ \A r \in elf.relocs :
        /\ r.relative
        /\ \E i \in 1 .. Len(elf.segments) :
            LET s == elf.segments[i]
            IN  /\ "W" \in s.flags
                /\ r.offset >= s.addr
                /\ r.offset + WordSize <= s.addr + s.mem
    /\ Cardinality(elf.relocs) = DynVal(elf, "RELACOUNT")

LayoutOk(elf) ==
    /\ elf.class64
    /\ elf.version # None /\ elf.version <= MaxSupportedVersion
    /\ CheckSymbols(elf) /\ CheckDynamic(elf) /\ CheckRelocs(elf)
    /\ {".eh_frame", ".eh_frame_hdr", ".text"} \subseteq DOMAIN elf.sections

-----------------------------------------------------------------------------
(***************************************************************************)
(* write: where everything goes                                            *)
(***************************************************************************)
Base(addr) == addr - (addr % PageSize)
SegEnd(s) == s.addr + s.mem
MaxAddr(elf) ==
    CHOOSE m \in {SegEnd(elf.segments[i]) : i \in 1 .. Len(elf.segments)} :
        \A i \in 1 .. Len(elf.segments) : SegEnd(elf.segments[i]) <= m
HeapAddr(elf) == SizeFitPage(MaxAddr(elf))
\* nssa is 1, TLS_SIZE a page.
ThreadSize(opt) ==
    GuardSize + opt.stack_size + PageSize + (1 + opt.ssaframesize) * PageSize
MemorySize(elf, opt) == HeapAddr(elf) + opt.heap_size + opt.threads * ThreadSize(opt)
EnclaveSize(elf, opt) == IF opt.sized THEN SizeFitNatural(MemorySize(elf, opt)) ELSE None

\* The values that write_elf_segments splices in, by symbol.
SymValues(elf, opt) ==
    LET hdr == elf.sections[".eh_frame_hdr"]
        frame == elf.sections[".eh_frame"]
        text == elf.sections[".text"]
        eh == IF OldEhFrame \subseteq Found(elf)
              THEN "EH_FRM_HDR_BASE" :> hdr.offset @@ "EH_FRM_HDR_SIZE" :> hdr.size
              ELSE "EH_FRM_OFFSET" :> frame.offset @@ "EH_FRM_LEN" :> frame.size @@
                   "EH_FRM_HDR_OFFSET" :> hdr.offset @@ "EH_FRM_HDR_LEN" :> hdr.size
        size == IF opt.sized THEN "ENCLAVE_SIZE" :> EnclaveSize(elf, opt) ELSE <<>>
    IN  "HEAP_BASE" :> HeapAddr(elf) @@ "HEAP_SIZE" :> opt.heap_size @@
        "RELA" :> DynVal(elf, "RELA") @@ "RELACOUNT" :> DynVal(elf, "RELACOUNT") @@
        "CFGDATA_BASE" :> MemorySize(elf, opt) @@ "DEBUG" :> opt.debug @@
        "TEXT_BASE" :> text.offset @@ "TEXT_SIZE" :> text.size @@ eh @@ size

Splices(elf, opt) ==
    LET values == SymValues(elf, opt)
        splice(name) == [address |-> Sym(elf, name).value, truncate |-> FALSE,
                         value |-> SubSeq(Word(values[name]), 1, SymSize(name))]
        nop == IF ".text_no_sgx" \in DOMAIN elf.sections
               THEN LET s == elf.sections[".text_no_sgx"]
                    IN  <<[address |-> s.offset, truncate |-> TRUE,
                           value |-> Fill(<<"nop", 0, 0>>, s.size)]>>
               ELSE <<>>
        used == SelectSeq(elf.syms, LAMBDA s : s.name \in DOMAIN values)
    IN  SortSeq([i \in 1 .. Len(used) |-> splice(used[i].name)] \o nop,
                LAMBDA s, t : s.address < t.address)

-----------------------------------------------------------------------------
(***************************************************************************)
(* write_elf_segments                                                      *)
(***************************************************************************)
\* Mutant: the rest of the file follows as if the splice had been inserted.
SpliceInserts(seg, st, s) ==
    LET base == Base(seg.addr)
        upTo == SubSeq(st.data, 1, s.address - base)
        rest == SubSeq(st.data, s.address - base + 1, Len(st.data))
    IN  IF st.panic \/ st.stop \/ s.address < base \/ s.address + Len(s.value) > st.end
        THEN [st EXCEPT !.stop = TRUE]
        ELSE [st EXCEPT !.left = Tail(@), !.data = upTo \o s.value \o rest]

\* One turn of the loop over the splices that lie in the segment: what was read
\* up to the splice, its value, and the file from behind it on.
ApplySplice(seg, st, s) ==
    LET base == Base(seg.addr)
        cur == s.address + Len(s.value)
        upTo == SubSeq(st.data, 1, IF s.address - base < Len(st.data)
                                   THEN s.address - base ELSE Len(st.data))
    IN  IF st.panic \/ st.stop \/ s.address < base \/ cur > st.end
        THEN [st EXCEPT !.stop = TRUE]
        ELSE IF s.truncate /\ cur = st.end
        THEN [st EXCEPT !.left = Tail(@), !.data = upTo, !.end = s.address]
        ELSE IF cur > seg.addr + Len(seg.file)
        THEN [st EXCEPT !.panic = TRUE]          \* slice of base_data
        ELSE [st EXCEPT !.left = Tail(@), !.data = upTo \o s.value \o
                (IF cur < seg.addr THEN Fill(Zero, seg.addr - cur) \o seg.file
                 ELSE SubSeq(seg.file, cur - seg.addr + 1, Len(seg.file)))]

\* One segment; acc has the writer and the splices that are left.
WriteSegment(acc, seg) ==
    LET base == Base(seg.addr)
        start == [data |-> Fill(Zero, seg.addr - base) \o seg.file, end |-> SegEnd(seg),
                  left |-> acc.left, stop |-> FALSE, panic |-> FALSE]
        apply(st, s) == ApplySplice(seg, st, s)
        st == FoldLeft(apply, start, acc.left)
    IN  IF acc.w.status # "ok" THEN acc
        ELSE IF base = 0 /\ "X" \in seg.flags THEN [acc EXCEPT !.w = Failed(@, "error")]
        ELSE IF st.panic THEN [acc EXCEPT !.w = Failed(@, "panic")]
        ELSE [left |-> st.left,
              w |-> WritePages(acc.w, st.data, SizeFitPage(st.end - base) \div PageSize,
                               base, seg.flags)]

-----------------------------------------------------------------------------
\* The stack, thread-local storage, TCS and SSA of the i-th thread.
TcsPage(ossa, nssa, oentry, ofsbasgx, ogsbasgx) ==
    Word(ossa) \o Word(nssa) \o Word(oentry) \o Word(ofsbasgx) \o Word(ogsbasgx)
TcsFields == <<"ossa", "nssa", "oentry", "ofsbasgx", "ogsbasgx">>

\* Mutant: the stack does not leave a guard below it.
WriteThreadUnguarded(w, elf, opt, i) ==
    LET start == HeapAddr(elf) + opt.heap_size + i * ThreadSize(opt)
        tos == start + opt.stack_size
        tcs == TcsPage(tos + GuardSize + 2 * PageSize, 1, Sym(elf, "sgx_entry").value, tos, tos)
        w1 == WritePages(w, None, opt.stack_size \div PageSize, start, RW)
        w2 == WritePages(w1, Word(tos), 1, tos, RW)
        w3 == WritePages(w2, tcs, 1, tos + GuardSize + PageSize, {"Tcs"})
    IN  WritePages(w3, None, opt.ssaframesize, None, RW)
WriteThread(w, elf, opt, i) ==
    LET stack_addr == HeapAddr(elf) + opt.heap_size + i * ThreadSize(opt) + GuardSize
        stack_tos == stack_addr + opt.stack_size
        tls_addr == stack_tos
        tcs_addr == tls_addr + PageSize
        secondary == IF opt.library \/ i = 0 THEN 0 ELSE 1
        tls == Word(stack_tos) \o Word(secondary) \o Word(0) \o Word(0)
        tcs == TcsPage(tcs_addr + PageSize, 1, Sym(elf, "sgx_entry").value, tls_addr, stack_tos)
        w1 == WritePages(w, None, opt.stack_size \div PageSize, stack_addr, RW)
        w2 == WritePages(w1, tls, 1, tls_addr, RW)
        w3 == WritePages(w2, tcs, 1, tcs_addr, {"Tcs"})
    IN  WritePages(w3, None, opt.ssaframesize, None, RW)

\* LayoutInfo::new and write
ConvertElf(elf, opt) ==
    LET new == NewWriter(IF opt.sized THEN EnclaveSize(elf, opt)
                         ELSE Sym(elf, "ENCLAVE_SIZE").value, opt.ssaframesize, opt.sized)
        loaded == FoldLeft(WriteSegment, [w |-> new, left |-> Splices(elf, opt)], elf.segments).w
        heap == WritePages(loaded, None, opt.heap_size \div PageSize, HeapAddr(elf), RW)
        thread(w, i) == WriteThread(w, elf, opt, i - 1)
    IN  IF ~LayoutOk(elf) \/ elf.segments = <<>>
        THEN Failed(NewWriter(0, opt.ssaframesize, opt.sized), "error")
        ELSE FoldLeft(thread, heap, [i \in 1 .. opt.threads |-> i])

-----------------------------------------------------------------------------
\* What the linker guarantees: every symbol has its bytes in the file part of
\* some segment, clear of the other symbols and of .text_no_sgx.
WellLinked(elf, opt) ==
    LET ss == Splices(elf, opt)
        in(s, seg) == s.address >= seg.addr /\ s.address + Len(s.value) <= seg.addr + Len(seg.file)
    IN  /\ \A n \in 1 .. Len(ss) : \E i \in 1 .. Len(elf.segments) : in(ss[n], elf.segments[i])
        /\ \A n \in 1 .. Len(ss) - 1 : ss[n].address + Len(ss[n].value) <= ss[n + 1].address

\* The byte that the enclave has to find at address a of a segment.
LinkedByte(elf, opt, seg, a) ==
    LET ss == Splices(elf, opt)
        over == {n \in 1 .. Len(ss) : ss[n].address <= a /\ a < ss[n].address + Len(ss[n].value)}
    IN  IF over # {} THEN LET s == ss[CHOOSE n \in over : TRUE] IN s.value[a - s.address + 1]
        ELSE IF a - seg.addr < Len(seg.file) THEN seg.file[a - seg.addr + 1] ELSE Zero
=============================================================================
