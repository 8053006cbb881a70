-------------------------------- MODULE Fdt --------------------------------
(***************************************************************************)
(* The device-tree parser (kernel/dev/fdt.c).  The boot loader's blob is a *)
(* sequence of tokens; fdt_build_blob_info() makes a tree of nodes and     *)
(* properties of it, __fdt_build_indexes() two tables of its nodes,        *)
(* fdt_extract_platform_info() fills `platform', and                       *)
(* fdt_apply_platform_config() the kernel's own variables (`config').      *)
(* A node's key is its base name and unit address; properties share the    *)
(* children tree of their node and have no address.  The tree maps the     *)
(* path of keys from the root to the data.  Data are 32-bit cells, or the  *)
(* strings of a compatible property, of which only the kind of device they *)
(* name is kept.  The environment picks the next token as it is read.      *)
(***************************************************************************)
EXTENDS Integers, Sequences, FiniteSets, TLC, SequencesExt, FiniteSetsExt

CONSTANTS CellMod,           \* the range of a cell, 2^32 in the code
          MaxTokens,         \* bound on the length of a blob
          FDT_MAX_DEPTH, MAX_MEM_REGIONS, PCIE_REG_MAX,
          MaxVirtio,         \* entries of platform.virtio_base
          N_VIRTIO,          \* entries of __virtio_mmio_base
          HZ, PageBytes      \* ticks per second, bytes per page

VARIABLES topic,             \* the part of a device tree the blob describes
          blob,              \* the tokens read so far
          fdtStack,          \* node_stack[1..depth], as the path of the open node
          fdtTree,           \* path -> [data, phandle, has_phandle, fdt_type]
          fdtState,          \* "parse", "failed", "done", "applied"
          fdtIndex,          \* compat_table and phandle_table
          platform,
          config             \* the kernel's addresses, sizes and intervals
fdtVars == <<topic, blob, fdtStack, fdtTree, fdtState, fdtIndex, platform, config>>

NoAddr == -1
RootKey == <<"", NoAddr>>
BeginNode(name, addr) == [tok |-> "begin", key |-> <<name, addr>>, data |-> <<>>]
Prop(name, data) == [tok |-> "prop", key |-> <<name, NoAddr>>, data |-> data]
EndNode == [tok |-> "end", key |-> RootKey, data |-> <<>>]
Nop == [EndNode EXCEPT !.tok = "nop"]

(***************************************************************************)
(* The blobs a boot loader passes: what may stand inside the node of each  *)
(* name.                                                                   *)
(***************************************************************************)
RsvMap == IF topic = "other" THEN <<[base |-> 5, size |-> 1]>> ELSE <<>>   \* the memory reservation map
DevTokens ==
    CASE topic = "uart" -> {Prop("compatible", <<"uart">>), Prop("reg", <<0, 2, 1>>), Prop("clock-frequency", <<4>>)}
      [] topic = "pcie" -> {Prop("compatible", <<"pcie">>), Prop("reg", <<0, 1, 2, 3, 4, 5>>),
                            Prop("reg-names", <<"dbi", "config">>)}
      [] OTHER -> {Prop("compatible", c) : c \in {<<"uart">>, <<"virtio", "plic">>, <<"pcie">>}} \cup
                  {Prop("reg", <<1, 2, 1>>), Prop("interrupts", <<3>>)}
Topics == {"memory", "devices", "uart", "pcie", "cpus", "other"}
RootContent ==
    CASE topic = "memory" -> {Prop("#address-cells", <<1>>), Prop("#size-cells", <<2>>), BeginNode("memory", 1), BeginNode("memory", 2)}
      [] topic \in {"devices", "uart", "pcie"} -> {BeginNode("soc", NoAddr)}
      [] topic = "cpus" -> {BeginNode("cpus", NoAddr), Prop("phandle", <<1>>), Nop}
      [] topic = "other" -> {BeginNode("chosen", NoAddr), BeginNode("reserved-memory", NoAddr)}
Content(name) ==
    CASE name = "" -> RootContent
      [] name = "memory" -> {Prop("reg", <<1, 2, 3>>), Prop("reg", <<0, 1, 2, 1, 3, 1>>)}
      [] name = "cpus" -> {Prop("timebase-frequency", <<1, 2>>), BeginNode("cpu", 1), BeginNode("cpu", 2)}
      [] name = "soc" -> {Prop("#address-cells", <<1>>), BeginNode("dev", 1)} \cup
                          (IF topic = "devices" THEN {BeginNode("dev", 2)} ELSE {})
      [] name = "dev" -> DevTokens
      [] name = "chosen" -> {Prop("linux,initrd-start", <<2>>), Prop("linux,initrd-end", <<3>>)}
      [] name = "reserved-memory" -> {BeginNode("rsv", 1), Prop("ranges", <<>>), BeginNode("ranges", NoAddr)}
      [] name = "rsv" -> {Prop("reg", <<0, 1, 2>>)}
      [] OTHER -> {BeginNode("rsv", 1)}
\* The next token; a phandle or a no-op comes once.
NextTokens ==
    IF blob = <<>> THEN {BeginNode("", NoAddr)}
    ELSE IF fdtStack = <<>> THEN {}
    ELSE {t \in Content(Last(fdtStack)[1]) : t = Nop \/ t.key[1] = "phandle" => t \notin Range(blob)}

(***************************************************************************)
(* The order of a children tree: by the hash of the name, which is some    *)
(* fixed order, then without address, then by address.                     *)
(***************************************************************************)
Ranked == <<"", "soc", "#size-cells", "memory", "chosen", "cpus", "reserved-memory", "dev", "cpu", "rsv",
            "reg", "ranges", "compatible", "interrupts", "#address-cells", "timebase-frequency",
            "clock-frequency", "current-speed", "reg-shift", "reg-io-width", "reg-names",
            "linux,initrd-start", "linux,initrd-end">>
Rank(name) == CHOOSE i \in 1..Len(Ranked) : Ranked[i] = name
KeyBefore(k, l) == Rank(k[1]) < Rank(l[1]) \/ (k[1] = l[1] /\ k[2] < l[2])

\* Building the tree, one token of the loop of fdt_build_blob_info at a time.

Reading(token) ==
    /\ fdtState = "parse" /\ Len(blob) < MaxTokens
    /\ blob' = Append(blob, token)
    /\ UNCHANGED <<topic, fdtIndex, platform, config>>

\* __fdt_create_node clears the node, and no code sets its fdt_type.
CreateNode(data) == [data |-> data, phandle |-> 0, has_phandle |-> FALSE, fdt_type |-> 0]
Insert(path, data) == fdtTree' = fdtTree @@ (path :> CreateNode(data))

FdtBegin ==
    \E token \in NextTokens :
      /\ token.tok = "begin" /\ Reading(token)
      /\ LET path == Append(fdtStack, token.key)
         IN \/ /\ path \in DOMAIN fdtTree
               /\ fdtState' = "failed" /\ UNCHANGED <<fdtTree, fdtStack>>
            \/ /\ path \notin DOMAIN fdtTree
               /\ Insert(path, <<>>)
               /\ fdtState' = IF Len(path) >= FDT_MAX_DEPTH THEN "failed" ELSE fdtState
               /\ fdtStack' = IF Len(path) >= FDT_MAX_DEPTH THEN fdtStack ELSE path

\* The root of a blob is never empty.
FdtEnd ==
    /\ fdtStack # <<>> /\ (Len(fdtStack) = 1 => Cardinality(DOMAIN fdtTree) > 1) /\ Reading(EndNode)
    /\ fdtStack' = Front(fdtStack)
    /\ UNCHANGED <<fdtTree, fdtState>>

\* A phandle property sets a field of its node; the others become children.
FdtProp ==
    \E token \in NextTokens :
      /\ token.tok = "prop" /\ Reading(token)
      /\ LET path == Append(fdtStack, token.key)
         IN \/ /\ token.key[1] = "phandle"
               /\ fdtTree' = [fdtTree EXCEPT ![fdtStack].phandle = token.data[1], ![fdtStack].has_phandle = TRUE] /\ UNCHANGED fdtState
            \/ /\ token.key[1] # "phandle" /\ path \in DOMAIN fdtTree
               /\ fdtState' = "failed" /\ UNCHANGED fdtTree
            \/ /\ token.key[1] # "phandle" /\ path \notin DOMAIN fdtTree
               /\ Insert(path, token.data) /\ UNCHANGED fdtState
      /\ UNCHANGED fdtStack

FdtNop == Nop \in NextTokens /\ Reading(Nop) /\ UNCHANGED <<fdtTree, fdtStack, fdtState>>

\* Looking up in the tree.

NoNode == <<>>
Children(p) == {q \in DOMAIN fdtTree : Len(q) = Len(p) + 1 /\ Front(q) = p}
ChildSeq(p) == SetToSortSeq(Children(p), LAMBDA a, b : KeyBefore(Last(a), Last(b)))
Lookup(p, name) ==
    LET q == Append(p, <<name, NoAddr>>) IN IF p # NoNode /\ q \in DOMAIN fdtTree THEN q ELSE NoNode
SameName(p, name) == IF p = NoNode THEN <<>> ELSE SelectSeq(ChildSeq(p), LAMBDA q : Last(q)[1] = name)

DataOf(prop) == IF prop = NoNode THEN <<>> ELSE fdtTree[prop].data
PropU32(prop, i) == IF Len(DataOf(prop)) < i + 1 THEN 0 ELSE DataOf(prop)[i + 1]
Pair(hi, lo) == hi * CellMod + lo
PropU64(prop, i) ==
    IF Len(DataOf(prop)) < 2 * (i + 1) THEN 0 ELSE Pair(DataOf(prop)[2 * i + 1], DataOf(prop)[2 * i + 2])
Number(prop) == IF Len(DataOf(prop)) = 2 THEN PropU64(prop, 0) ELSE PropU32(prop, 0)
IsCompat(prop, kind) == \E i \in 1..Len(DataOf(prop)) : DataOf(prop)[i] = kind

Cells(p, name, default) == LET prop == Lookup(p, name) IN IF prop = NoNode THEN default ELSE PropU32(prop, 0)
Addr(prop, off, cells) == IF cells = 2 THEN Pair(PropU32(prop, off), PropU32(prop, off + 1)) ELSE PropU32(prop, off)

\* The tables of compatible strings and phandles, of the nodes of type FDT_BEGIN_NODE.

FDT_BEGIN_NODE == 1
Indexed == {p \in DOMAIN fdtTree : fdtTree[p].fdt_type = FDT_BEGIN_NODE}
CompatIndex ==
    LET Strings(p) == Range(DataOf(Lookup(p, "compatible")))
    IN [c \in UNION {Strings(p) : p \in Indexed} |-> {p \in Indexed : c \in Strings(p)}]
PhandleIndex ==
    LET Of(h) == {p \in Indexed : fdtTree[p].has_phandle /\ fdtTree[p].phandle = h}
    IN [h \in {fdtTree[p].phandle : p \in {q \in Indexed : fdtTree[q].has_phandle}} \ {0} |-> CHOOSE p \in Of(h) : TRUE]
BuildIndexes == [compat |-> CompatIndex, phandle |-> PhandleIndex]

\* Filling `platform'.

Root == <<RootKey>>
RootAddr == Cells(Root, "#address-cells", 2)
RootSize == Cells(Root, "#size-cells", 1)

Ncpu == Max({1, Len(SameName(Lookup(Root, "cpus"), "cpu"))})
Timebase ==
    LET prop == Lookup(Lookup(Root, "cpus"), "timebase-frequency")
    IN IF Len(DataOf(prop)) \in {1, 2} THEN Number(prop) ELSE 0

\* Bug: the entries of a reg property are taken to be as long as the address.
RegionsByAddress(reg) ==
    LET n == Len(DataOf(reg)) \div (RootAddr + RootSize)
    IN [i \in 1..n |-> [base |-> Addr(reg, (i - 1) * RootAddr, RootAddr),
                        size |-> Addr(reg, (i - 1) * RootAddr + RootAddr, RootSize)]]

Regions(reg) ==
    LET cells == RootAddr + RootSize
        n == Len(DataOf(reg)) \div cells
    IN [i \in 1..n |-> [base |-> Addr(reg, (i - 1) * cells, RootAddr),
                        size |-> Addr(reg, (i - 1) * cells + RootAddr, RootSize)]]

AllRegions == FlattenSeq([i \in 1..Len(SameName(Root, "memory")) |->
                 LET reg == Lookup(SameName(Root, "memory")[i], "reg") IN IF reg = NoNode THEN <<>> ELSE Regions(reg)])
Memory == SubSeq(AllRegions, 1, Min({MAX_MEM_REGIONS, Len(AllRegions)}))
TotalMem == FoldLeft(LAMBDA sum, region : sum + region.size, 0, Memory)

Ramdisk ==
    LET start == Number(Lookup(Lookup(Root, "chosen"), "linux,initrd-start"))
        end == Number(Lookup(Lookup(Root, "chosen"), "linux,initrd-end"))
        has == start # 0 /\ end > start
    IN [base |-> start, size |-> IF has THEN end - start ELSE 0, has |-> has]

\* One child of the device node: the first UART, PLIC and PCIe host with an
\* address win, virtio devices are collected.
DeviceParent == IF Lookup(Root, "soc") = NoNode THEN Root ELSE Lookup(Root, "soc")
SocAddr == IF DeviceParent = Root THEN RootAddr ELSE Cells(DeviceParent, "#address-cells", RootAddr)
SocSize == IF DeviceParent = Root THEN RootSize ELSE Cells(DeviceParent, "#size-cells", RootSize)
RegBase(reg) == IF SocAddr = 2 THEN PropU64(reg, 0) ELSE PropU32(reg, 0)
RegSize(reg) == Addr(reg, SocAddr, SocSize)

UartStep(pl, node, compat, reg, irq) ==
    LET Kept(prop, old) == IF prop = NoNode THEN old ELSE PropU32(prop, 0)
    IN IF pl.uart.base # 0 \/ ~IsCompat(compat, "uart") THEN pl
       ELSE [pl EXCEPT !.uart = [base |-> RegBase(reg), irq |-> Kept(irq, pl.uart.irq),
                                 clock |-> Kept(Lookup(node, "clock-frequency"), pl.uart.clock),
                                 baud |-> Kept(Lookup(node, "current-speed"), pl.uart.baud),
                                 shift |-> Kept(Lookup(node, "reg-shift"), 0),
                                 width |-> Kept(Lookup(node, "reg-io-width"), 1)]]
PlicStep(pl, compat, reg) ==
    IF pl.plic.base # 0 \/ ~IsCompat(compat, "plic") \/ reg = NoNode THEN pl
    ELSE [pl EXCEPT !.plic = [base |-> RegBase(reg), size |-> RegSize(reg)]]
\* The base of each entry is read with the entry's offset in cells as index.
PcieRegs(node, reg) ==
    LET cells == SocAddr + SocSize
        names == DataOf(Lookup(node, "reg-names"))
    IN [i \in 1..Min({PCIE_REG_MAX, Len(DataOf(reg)) \div cells}) |->
          [base |-> IF SocAddr = 2 THEN PropU64(reg, (i - 1) * cells) ELSE PropU32(reg, (i - 1) * cells),
           size |-> Addr(reg, (i - 1) * cells + SocAddr, SocSize),
           name |-> IF i <= Len(names) THEN names[i] ELSE ""]]
PcieStep(pl, node, compat, reg) ==
    IF pl.has_pcie \/ ~IsCompat(compat, "pcie") \/ reg = NoNode THEN pl
    ELSE [pl EXCEPT !.has_pcie = TRUE, !.pcie = PcieRegs(node, reg)]
VirtioStep(pl, compat, reg, irq) ==
    IF ~IsCompat(compat, "virtio") \/ Len(pl.virtio) >= MaxVirtio THEN pl
    ELSE [pl EXCEPT !.virtio = Append(@, [base |-> RegBase(reg), irq |-> PropU32(irq, 0)])]

DeviceStep(pl, node) ==
    LET compat == Lookup(node, "compatible")
        reg == Lookup(node, "reg")
        irq == Lookup(node, "interrupts")
    IN VirtioStep(PcieStep(PlicStep(UartStep(pl, node, compat, reg, irq), compat, reg), node, compat, reg), compat, reg, irq)

\* The reservation map, and the children of /reserved-memory that have a reg property.
Reserved ==
    LET rsvmem == Lookup(Root, "reserved-memory")
        nodes == IF rsvmem = NoNode THEN <<>> ELSE SelectSeq(ChildSeq(rsvmem), LAMBDA q : Lookup(q, "reg") # NoNode)
        ac == Cells(rsvmem, "#address-cells", RootAddr)
        sc == Cells(rsvmem, "#size-cells", RootSize)
    IN RsvMap \o [i \in 1..Len(nodes) |-> [base |-> Addr(Lookup(nodes[i], "reg"), 0, ac), size |-> Addr(Lookup(nodes[i], "reg"), ac, sc)]]

NoPlatform ==
    [ncpu |-> 0, timebase |-> 0, mem |-> <<>>, total_mem |-> 0, ramdisk |-> [base |-> 0, size |-> 0, has |-> FALSE],
     uart |-> [base |-> 0, irq |-> 0, clock |-> 0, baud |-> 0, shift |-> 0, width |-> 0],
     plic |-> [base |-> 0, size |-> 0], has_pcie |-> FALSE, pcie |-> <<>>, virtio |-> <<>>, reserved |-> <<>>]

\* The end of the blob; the rest of fdt_init.
FdtEndBlob ==
    /\ fdtState = "parse" /\ fdtStack = <<>> /\ blob # <<>>
    /\ fdtState' = "done"
    /\ fdtIndex' = BuildIndexes
    /\ platform' = FoldLeft(DeviceStep,
                      [NoPlatform EXCEPT !.ncpu = Ncpu, !.timebase = Timebase, !.mem = Memory, !.total_mem = TotalMem,
                                         !.ramdisk = Ramdisk, !.reserved = Reserved],
                      ChildSeq(DeviceParent))
    /\ UNCHANGED <<topic, blob, fdtStack, fdtTree, config>>

(***************************************************************************)
(* start_kernel: what the kernel runs with.  The early scan reads the      *)
(* tokens without a tree and stops at the first reg inside a memory node;  *)
(* without it the memory is the one of the emulator.  fdt_init()'s result  *)
(* is not looked at.  Addresses the kernel is built with are small numbers.*)
(***************************************************************************)
EarlyStep(s, t) ==
    LET Cell(i) == t.data[i + 1]
        At(off, cells) == IF cells = 2 THEN Pair(Cell(off), Cell(off + 1)) ELSE Cell(off)
    IN CASE s.found \/ t.tok = "nop" -> s
         [] ~s.found /\ t.tok = "begin" ->
              [s EXCEPT !.depth = @ + 1, !.inMemory = @ \/ (s.depth + 1 = 1 /\ t.key[1] = "memory")]
         [] ~s.found /\ t.tok = "end" -> [s EXCEPT !.depth = @ - 1, !.inMemory = @ /\ s.depth # 1]
         [] ~s.found /\ t.tok = "prop" ->
              IF s.inMemory /\ t.key[1] = "reg"
              THEN [s EXCEPT !.found = TRUE, !.base = At(0, s.ac), !.size = At(s.ac, s.sc)]
              ELSE [s EXCEPT !.ac = IF s.depth = 1 /\ t.key[1] = "#address-cells" THEN Cell(0) ELSE @,
                             !.sc = IF s.depth = 1 /\ t.key[1] = "#size-cells" THEN Cell(0) ELSE @]
EarlyScan ==
    FoldLeft(EarlyStep, [depth |-> 0, inMemory |-> FALSE, ac |-> 2, sc |-> 1, found |-> FALSE, base |-> 8, size |-> 4], blob)

MemConfig(base, size) == [base |-> base, end |-> base + size, pages |-> size \div PageBytes]
BuiltIn ==
    [mem |-> MemConfig(EarlyScan.base, EarlyScan.size), uart |-> [NoPlatform.uart EXCEPT !.base = 1, !.irq = 10, !.width = 1],
     plic |-> 12, ecam |-> 3, virtio |-> [i \in 1..N_VIRTIO |-> [base |-> 1, irq |-> i]], ticks |-> HZ]

\* The region named config; the first one only if the kernel was built with no address.
EcamBase(built) ==
    LET named == {i \in 1..Len(platform.pcie) : platform.pcie[i].name = "config"}
        base == IF named = {} THEN built ELSE platform.pcie[Min(named)].base
    IN IF base = 0 /\ platform.pcie # <<>> THEN platform.pcie[1].base ELSE base

FdtApply ==
    /\ fdtState \in {"failed", "done"} /\ fdtState' = "applied"
    /\ config' =
         LET built == BuiltIn
         IN [mem |-> IF platform.mem # <<>> /\ platform.mem[1].size > 0
                     THEN MemConfig(platform.mem[1].base, platform.mem[1].size) ELSE built.mem,
             uart |-> IF platform.uart.base # 0 THEN platform.uart ELSE built.uart,
             plic |-> IF platform.plic.base # 0 THEN platform.plic.base ELSE built.plic,
             ecam |-> IF platform.has_pcie THEN EcamBase(built.ecam) ELSE built.ecam,
             virtio |-> [i \in 1..N_VIRTIO |-> IF i <= Len(platform.virtio) THEN platform.virtio[i] ELSE built.virtio[i]],
             ticks |-> IF platform.timebase # 0 THEN platform.timebase \div HZ ELSE built.ticks]
    /\ UNCHANGED <<topic, blob, fdtStack, fdtTree, fdtIndex, platform>>

NoIndex == [compat |-> <<>>, phandle |-> <<>>]
FdtInit ==
    /\ topic \in Topics /\ blob = <<>> /\ fdtStack = <<>> /\ fdtTree = <<>> /\ fdtState = "parse"
    /\ fdtIndex = NoIndex /\ platform = NoPlatform /\ config = BuiltIn
FdtNext == FdtBegin \/ FdtEnd \/ FdtProp \/ FdtNop \/ FdtEndBlob \/ FdtApply

(***************************************************************************)
(* What the blob says, read off the positions of its tokens.               *)
(***************************************************************************)
Count(kind, i, j) == Cardinality({k \in i..j : blob[k].tok = kind})
OpenAt(j, i) == blob[j].tok = "begin" /\ \A k \in j..(i - 1) : Count("begin", j, k) > Count("end", j, k)
Enclosing(i) == SetToSortSeq({j \in 1..(i - 1) : OpenAt(j, i)}, <)
Named == {i \in 1..Len(blob) : blob[i].tok \in {"begin", "prop"} /\ blob[i].key[1] # "phandle"}
Paths == [i \in Named |-> LET e == Enclosing(i) IN [k \in 1..Len(e) |-> blob[e[k]].key] \o <<blob[i].key>>]

\* The tree holds each node and property of the blob under the nodes that enclose it,
\* and parsing fails only for two siblings of one name and address or one that is
\* nested too deep (fdt_build_blob_info).
TreeIsNesting ==
    fdtState \in {"failed", "done"} =>
       LET paths == Paths
           last == Len(blob)
           repeated == last \in Named /\ \E i \in Named \ {last} : paths[i] = paths[last]
           deep == last \in Named /\ blob[last].tok = "begin" /\ Len(paths[last]) >= FDT_MAX_DEPTH
       IN /\ DOMAIN fdtTree = Range(paths)
          /\ fdtState = "done" =>  /\ \A i \in Named : fdtTree[paths[i]].data = blob[i].data
                                   /\ Cardinality(DOMAIN fdtTree) = Cardinality(Named)
          /\ fdtState = "failed" <=> repeated \/ deep

\* Whatever the order in the blob, every memory region is reported once and in address
\* order up to the table's size, every CPU, virtio device and reservation is counted, and
\* a UART or a PCIe host is found when the blob describes one with an address
\* (fdt_extract_platform_info).
PlatformIsExact ==
    fdtState = "done" =>
       LET paths == Paths
           In(name) == {i \in Named : Len(paths[i]) = 3 /\ paths[i][2][1] = name}
           cells == RootAddr + RootSize
           mems == {i \in In("memory") : blob[i].key[1] = "reg"}
           Unit(i) == paths[i][2][2]
           Entries(i) == Len(blob[i].data) \div cells
           Before(i) == MapThenSumSet(Entries, {j \in mems : Unit(j) < Unit(i)})
           total == MapThenSumSet(Entries, mems)
           Reserving == {i \in Named : Len(paths[i]) = 4 /\ paths[i][2][1] = "reserved-memory" /\ blob[i].key[1] = "reg"}
           HasReg(i) == Append(Front(paths[i]), <<"reg", NoAddr>>) \in DOMAIN fdtTree
           Compat(kind) == {i \in Named : blob[i].key[1] = "compatible" /\ kind \in Range(blob[i].data)}
       IN /\ Len(platform.mem) = Min({MAX_MEM_REGIONS, total})
          /\ \A i \in mems : \A e \in 1..Entries(i) :
               Before(i) + e <= MAX_MEM_REGIONS =>
                 LET region == platform.mem[Before(i) + e]
                     Cell(k) == blob[i].data[(e - 1) * cells + k]
                 IN /\ region.base = IF RootAddr = 2 THEN Pair(Cell(1), Cell(2)) ELSE Cell(1)
                    /\ region.size % CellMod = Cell(cells)
          /\ platform.ncpu = Max({1, Cardinality({i \in In("cpus") : blob[i].key[1] = "cpu"})})
          /\ Len(platform.virtio) = Min({MaxVirtio, Cardinality(Compat("virtio"))})
          /\ platform.uart.base # 0 <=> \E i \in Compat("uart") : HasReg(i) /\ RegBase(Append(Front(paths[i]), <<"reg", NoAddr>>)) # 0
          /\ platform.has_pcie <=> \E i \in Compat("pcie") : HasReg(i)
          /\ Len(platform.reserved) = Len(RsvMap) + Cardinality(Reserving)
=============================================================================
