----------------------------- MODULE Descriptors -----------------------------
(***************************************************************************)
(* The descriptor tables: how gdt.c and idt_minimal.c spread addresses     *)
(* over the fields of their entries, and how the processor puts them       *)
(* together again.  An address is eight bytes, lowest first; the address   *)
(* of a symbol is made of bytes that tell the symbol and their place in    *)
(* it, so that a byte in the wrong field shows.  Access and granularity    *)
(* bytes are sets of flags, a limit is its low 16 and its high 4 bits.     *)
(***************************************************************************)
EXTENDS Integers, Sequences

AddressOf(symbol) == [k \in 1 .. 8 |-> <<symbol, k>>]
NullAddress == [k \in 1 .. 8 |-> 0]

KCODE_SEL == 8      \* 0x08
KDATA_SEL == 16     \* 0x10
UCODE_SEL == 24     \* 0x18
UDATA_SEL == 32     \* 0x20
TSS_SEL == 40       \* 0x28

-----------------------------------------------------------------------------
gdt_entry(base, limit, access, granularity) ==
  [base_low    |-> SubSeq(base, 1, 2),
   base_mid    |-> base[3],
   base_high   |-> base[4],
   limit_low   |-> limit[1],
   granularity |-> <<limit[2], granularity>>,
   access      |-> access]

gdt_set_entry(g, index, base, limit, access, granularity) ==
  [g EXCEPT ![index] = gdt_entry(base, limit, access, granularity)]

\* The second half of a TSS descriptor with its words exchanged.
tss_high_swapped(base) ==
  [gdt_entry(NullAddress, <<SubSeq(base, 7, 8), 0>>, {}, {}) EXCEPT
     !.base_low = SubSeq(base, 5, 6)]

\* The second half of a TSS descriptor: the high 32 bits of the base.
tss_high(base) ==
  [gdt_entry(NullAddress, <<SubSeq(base, 5, 6), 0>>, {}, {}) EXCEPT
     !.base_low = SubSeq(base, 7, 8)]

gdt_set_tss(g, index, base, limit, access) ==
  [gdt_set_entry(g, index, base, limit, access, {}) EXCEPT ![index + 1] = tss_high(base)]

Code == {"P", "S", "X", "RW"}
Data == {"P", "S", "RW"}
DPL3 == {"DPL3"}
NullEntry == gdt_entry(NullAddress, <<0, 0>>, {}, {})
Segment(access, granularity) == gdt_entry(NullAddress, <<"FFFF", "F">>, access, granularity)

\* The table that gdt_init writes.
SegmentTable ==
  [i \in 0 .. 9 |->
    CASE i = 1 -> Segment(Code, {"4K", "64BIT"})
      [] i = 2 -> Segment(Data, {"4K"})
      [] i = 3 -> Segment(Code \cup DPL3, {"4K", "64BIT"})
      [] i = 4 -> Segment(Data \cup DPL3, {"4K"})
      [] OTHER -> NullEntry]

-----------------------------------------------------------------------------
\* The processor's reading of the entry a selector names.
Entry(g, sel) == IF sel \div 8 \in DOMAIN g THEN g[sel \div 8] ELSE NullEntry
Flags64(e) == e.granularity[2]

IsKernelCode(g, sel) ==
  LET e == Entry(g, sel) IN e.access = Code /\ "64BIT" \in Flags64(e)
IsUserCode(g, sel) ==
  LET e == Entry(g, sel) IN
  sel % 8 = 3 /\ e.access = Code \cup DPL3 /\ "64BIT" \in Flags64(e)
IsUserData(g, sel) ==
  sel % 8 = 3 /\ Entry(g, sel).access = Data \cup DPL3
IsFreeTss(g, sel) == Entry(g, sel).access = {"P", "TSS"}

\* The base of the TSS whose descriptor begins at a selector.
TssBase(g, sel) ==
  LET low == Entry(g, sel)
      high == Entry(g, sel + 8)
  IN  low.base_low \o <<low.base_mid, low.base_high>> \o high.limit_low \o high.base_low

-----------------------------------------------------------------------------
\* An entry of the IDT; no gate uses an interrupt stack.
gate(base, sel, flags) ==
  [offset_low |-> SubSeq(base, 1, 2), offset_mid |-> SubSeq(base, 3, 4),
   offset_high |-> SubSeq(base, 5, 8),
   selector |-> sel, ist |-> 0, type_attr |-> flags]

IsGate(e) == "P" \in e.type_attr
GateOffset(e) == e.offset_low \o e.offset_mid \o e.offset_high
=============================================================================
