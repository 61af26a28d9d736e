---------------------------- MODULE MCSgxsAppend ----------------------------
(***************************************************************************)
(* An instance of SgxsAppend for TLC: pages of two chunks of four u64      *)
(* each.  A well-linked ELF file in several shapes, the same file with one *)
(* thing wrong at a time, PE files, lists of blocks, and sequences of      *)
(* operations on the unsized images.                                       *)
(***************************************************************************)
EXTENDS SgxsAppend

Bytes(addr, n) == [i \in 1 .. n |-> <<"linked", addr + i - 1, 0>>]

MCOption ==
    [heap_size |-> 16, stack_size |-> 16, threads |-> 1, ssaframesize |-> 1, debug |-> 0,
     library |-> FALSE, sized |-> TRUE]
MCOptions ==
    [heap_size : {0, 24, 32}, stack_size : {16, 32}, threads : {1, 2}, ssaframesize : {1, 2},
     debug : {1}, library : {TRUE}, sized : {TRUE}]

\* The symbols follow each other from address at on; DEBUG is the last.
Order(eh) ==
    <<"HEAP_BASE", "ENCLAVE_SIZE", "HEAP_SIZE", "RELA", "RELACOUNT", "CFGDATA_BASE", "TEXT_BASE",
      "TEXT_SIZE">> \o eh \o <<"DEBUG">>
Old == <<"EH_FRM_HDR_BASE", "EH_FRM_HDR_SIZE">>
New == <<"EH_FRM_OFFSET", "EH_FRM_LEN", "EH_FRM_HDR_OFFSET", "EH_FRM_HDR_LEN">>
Symbol(n, v, s) == [name |-> n, value |-> v, size |-> s, defined |-> TRUE]
Table(entry, at, eh) ==
    <<Symbol("sgx_entry", entry, 0)>> \o
    [i \in 1 .. Len(Order(eh)) |-> Symbol(Order(eh)[i], at + WordSize * (i - 1), SymSize(Order(eh)[i]))]

\* Text at t, 20 bytes of it; data at d, with bss; .text_no_sgx at 4 from x on.
MCElf(t, d, bss, at, eh, x) ==
    [class64 |-> TRUE, version |-> 1, syms |-> Table(t, d + at, eh),
     dynamic |-> <<[tag |-> "other", val |-> 0], [tag |-> "RELA", val |-> t],
                   [tag |-> "RELACOUNT", val |-> 1]>>,
     relocs |-> {[offset |-> d, relative |-> TRUE]},
     sections |-> ".eh_frame" :> [offset |-> t, size |-> 3] @@
                  ".eh_frame_hdr" :> [offset |-> t + 3, size |-> 2] @@
                  ".text" :> [offset |-> t + 5, size |-> 15] @@
                  (IF x = None THEN <<>> ELSE ".text_no_sgx" :> [offset |-> t + x, size |-> 4]),
     segments |-> <<[addr |-> t, file |-> Bytes(t, 20), mem |-> 20, flags |-> {"R", "X"}],
                    [addr |-> d, file |-> Bytes(d, 30), mem |-> 30 + bss, flags |-> RW]>>]

Shapes ==
    {MCElf(t, d, bss, at, eh, x) :
        t \in {16, 22}, d \in {48, 52}, bss \in {0, 20}, at \in {2, 4}, eh \in {Old, New},
        x \in {None, 8, 16}}
Good == MCElf(20, 48, 20, 2, New, 16)
Wrong ==
    {[Good EXCEPT !.class64 = FALSE], [Good EXCEPT !.version = 2], [Good EXCEPT !.version = None],
     [Good EXCEPT !.syms[2].defined = FALSE], [Good EXCEPT !.syms[2].size = 1],
     [Good EXCEPT !.syms[2].name = "HEAP_SIZE"], [Good EXCEPT !.syms[3].value = @ + 1],
     [Good EXCEPT !.syms[10].name = "other"], [Good EXCEPT !.syms[11].name = "EH_FRM_HDR_SIZE"],
     [Good EXCEPT !.syms[2].value = 110], [Good EXCEPT !.syms[14].value = 90],
     [Good EXCEPT !.dynamic = None], [Good EXCEPT !.dynamic = <<>>],
     [Good EXCEPT !.dynamic[1].tag = "unsupported"], [Good EXCEPT !.dynamic[1].tag = "RELA"],
     [Good EXCEPT !.dynamic[2].tag = "other"], [Good EXCEPT !.dynamic[3].val = 2],
     [Good EXCEPT !.relocs = {[offset |-> 48, relative |-> FALSE]}],
     [Good EXCEPT !.relocs = {[offset |-> 97, relative |-> TRUE]}],
     [Good EXCEPT !.relocs = {[offset |-> 95, relative |-> TRUE]}],
     [Good EXCEPT !.segments[2].mem = 48, !.relocs = {[offset |-> 95, relative |-> TRUE]}],
     [Good EXCEPT !.relocs = {[offset |-> 24, relative |-> TRUE]}],
     [Good EXCEPT !.segments = <<>>, !.relocs = {}, !.dynamic = <<>>],
     MCElf(4, 48, 0, 2, New, 16), MCElf(20, 44, 0, 2, New, None), MCElf(20, 36, 0, 2, New, None)}

MCElfInputs ==
    [elf : {Good}, opt : MCOptions] \union [elf : Shapes \union Wrong, opt : {MCOption}] \union
    [elf : {Good, MCElf(22, 52, 0, 4, Old, None)},
     opt : {[MCOption EXCEPT !.sized = FALSE], [MCOption EXCEPT !.sized = FALSE, !.threads = 2]}]

Section(name, addr, size, raw, flags) ==
    [name |-> name, addr |-> addr, size |-> size, raw |-> Bytes(addr, raw), flags |-> flags]
MCPe(tls, meta, nssa, threads, stack, heap) ==
    [header |-> [data |-> Bytes(0, 18), checksum |-> [offset |-> 3, size |-> 2],
                 certdir |-> [offset |-> 15, size |-> 2]],
     sections |-> <<Section(".text", 32, 20, 18, {"R", "X"}),
                    Section(".tls", 64, 20, tls, RW)>> \o meta,
     relocs |-> {2, 4}, entry |-> 33, is64bit |-> TRUE,
     sgxmeta |-> [magic |-> TRUE, heap_size |-> heap, stack_size |-> stack, tcs_nssa |-> nssa,
                  threads |-> threads]]
Meta == Section("sgxmeta", 96, 16, 16, {"R"})
GoodPe == MCPe(20, <<Meta>>, 2, 2, 17, 16)
MCPes ==
    {MCPe(12, meta, nssa, threads, stack, heap) :
        meta \in {<<Meta>>, <<Meta, Section(".rsrc", 112, 8, 8, {"R"})>>},
        nssa \in {1, 2}, threads \in {1, 2}, stack \in {16, 17}, heap \in {0, 20}}
    \union {GoodPe, [GoodPe EXCEPT !.sgxmeta.magic = FALSE], [GoodPe EXCEPT !.entry = None],
            [GoodPe EXCEPT !.relocs = None], [GoodPe EXCEPT !.is64bit = FALSE],
            MCPe(20, <<Section("sgxmeta", 96, 16, 4, {"R"})>>, 1, 1, 16, 16),
            MCPe(20, <<>>, 1, 1, 16, 16), MCPe(20, <<Meta, Meta>>, 1, 1, 16, 16),
            MCPe(5, <<Meta>>, 1, 1, 16, 16),
            [GoodPe EXCEPT !.sections[1].addr = 80], [GoodPe EXCEPT !.sections[2].name = ".data"]}

Blocks ==
    {[kind |-> "blob", data |-> Bytes(0, 20), flags |-> {"R", "X"}],
     [kind |-> "blob", data |-> <<>>, flags |-> RW],
     [kind |-> "tcs", nssa |-> 1], [kind |-> "tcs", nssa |-> 2]}
MCBlockLists == UNION {[1 .. n -> Blocks] : n \in 0 .. 3}

MCOperations ==
    [kind : {"file"}, perm : {{"R"}, RW}, measured : {TRUE}, size : {5, 20}] \union
    [kind : {"file"}, perm : {{"R"}}, measured : {FALSE}, size : {0, 5}] \union
    [kind : {"align"}, n : {4, 16, 24, 32}]
=============================================================================
