-------------------------------- MODULE Gdt --------------------------------
(***************************************************************************)
(* The descriptor tables of the hardware threads: configure_hwthread's     *)
(* GlobalDescriptorTable::init (a singleton, built by the first thread)    *)
(* and load_static, then TaskStateSegment::load_local, which builds the    *)
(* TSS descriptor with SystemSegmentDescriptor::from_tss, appends it to a  *)
(* temporary copy of the GDT and loads it with ltr.  The processor's side *)
(* (the descriptor fields ltr decodes, the IST stack an exception entry   *)
(* takes through TR) is the x86-64 descriptor format.                      *)
(*                                                                         *)
(* A descriptor or address is the set of its 1 bits, so get_bits and      *)
(* set_bits over a bit range are set operations and words keep their full *)
(* 64 or 128 bits.                                                          *)
(***************************************************************************)
EXTENDS Naturals, FiniteSets

CONSTANTS
  Threads,     \* the hardware threads running configure_hwthread
  Probes       \* address bits that may be set in a TSS the allocator returns

ASSUME Probes \subseteq 0 .. 46

-----------------------------------------------------------------------------
(* Bit ranges, a Range<usize> lo..hi.                                       *)
Bits(lo, hi) == lo .. (hi - 1)

(* BitField::get_bits and set_bits.  set_bits asserts the value fits the   *)
(* range; every call below passes a value read from a range of its width.  *)
GetBits(w, lo, hi) == {i - lo : i \in w \cap Bits(lo, hi)}
SetBits(w, lo, hi, v) == (w \ Bits(lo, hi)) \cup {lo + i : i \in v}

(* A small number as its bit set.                                          *)
NumBits(n) == {i \in 0 .. 7 : (n \div 2^i) % 2 = 1}

(* The kernel heap lies in the higher half: bits 47..63 are set.  The TSS *)
(* addresses are the higher-half addresses with any of the probe bits.    *)
Addresses == {Bits(47, 64) \cup s : s \in SUBSET Probes}

PrivilegeLevel == [Ring0 |-> 0, Ring3 |-> 3]

(* SegmentSelector::new(index, rpl) == index << 3 | rpl.                    *)
Selector(index, rpl) == index * 8 + rpl
SelectorIndex(s) == s \div 8

(* COMMON_BITS: limit 0..16 and 48..52, present 47, granularity 55.        *)
CommonBits == Bits(0, 16) \cup Bits(48, 52) \cup {47, 55}

(* GenericSegmentDescriptor::new: accessed, read/write, non-system; code  *)
(* adds executable and long mode, data the 32-bit size; DPL in 45..47.     *)
GenericSegmentDescriptor(isCode, pl) ==
  SetBits(CommonBits \cup {40, 41, 44} \cup (IF isCode THEN {43, 53} ELSE {54}),
          45, 47, NumBits(pl))

(* SystemSegmentDescriptor's BASE_BIT_RANGE_1..4, in the order from_tss    *)
(* writes them, each with the address bits it takes.                        *)
BaseRanges ==
  << [to |-> <<16, 32>>, from |-> <<0, 16>>],
     [to |-> <<56, 64>>, from |-> <<16, 24>>],
     [to |-> <<56, 64>>, from |-> <<24, 32>>],
     [to |-> <<64, 96>>, from |-> <<32, 64>>] >>

(* SystemSegmentDescriptor::from_tss: type 0x9 (available 64-bit TSS) in  *)
(* 40..44, Ring0, then the four base ranges in order.                       *)
RECURSIVE WithBase(_, _, _)
WithBase(w, a, k) ==
  IF k > 4 THEN w
  ELSE LET r == BaseRanges[k]
       IN WithBase(SetBits(w, r.to[1], r.to[2], GetBits(a, r.from[1], r.from[2])), a, k + 1)

FromTss(a) ==
  WithBase(SetBits(SetBits(CommonBits, 40, 44, NumBits(9)), 45, 47, {}), a, 1)

(* append_entries of a system descriptor: the low and the high u64.        *)
LowWord(w) == w \cap Bits(0, 64)
HighWord(w) == GetBits(w, 64, 128)

(* What ltr reads from a TSS descriptor: its type, and the base from bits  *)
(* 16..40, 56..64 and 64..96.                                               *)
DescriptorType(lo) == GetBits(lo, 40, 45)
DescriptorBase(lo, hi) ==
  GetBits(lo, 16, 40) \cup {24 + i : i \in GetBits(lo, 56, 64)}
    \cup {32 + i : i \in GetBits(hi, 0, 32)}

(* InterruptStackTableIndex and the IDT entries made with new_with_stack; *)
(* set_stack_index stores index + 1, the hardware's 1-based IST slot.      *)
IstIndex == [Debug |-> 0, NonMaskableInterrupt |-> 1, DoubleFault |-> 2, MachineCheck |-> 3]
IstSlot(x) == IstIndex[x] + 1

(* Nothing yet: no TSS address (every kernel address has bits 47..63),   *)
(* no exception stack, and the singleton's Once not yet run.              *)
NoAddr == {}
NoStack == <<"none", 0>>
NoGdt == [table |-> [i \in 0 .. 6 |-> {}], len |-> 0]

VARIABLES
  gdt,     \* the static GDT singleton: its table and len, or NoGdt
  stage,   \* each thread's bring-up: "configure", "tss", "up", "halted"
  tss,     \* the address of the TSS each thread allocated, or NoAddr
  tr,      \* the TSS base each thread's TR holds, or NoAddr
  stack    \* the owner and IST index of the stack an exception entry took

vars == <<gdt, stage, tss, tr, stack>>

-----------------------------------------------------------------------------
(* GlobalDescriptorTable::init under call_once: the null entry, then       *)
(* kernel code, kernel data, user data, user code appended one by one.     *)
StaticGdt ==
  [table |-> [i \in 0 .. 6 |->
                CASE i = 1 -> GenericSegmentDescriptor(TRUE, PrivilegeLevel.Ring0)
                  [] i = 2 -> GenericSegmentDescriptor(FALSE, PrivilegeLevel.Ring0)
                  [] i = 3 -> GenericSegmentDescriptor(FALSE, PrivilegeLevel.Ring3)
                  [] i = 4 -> GenericSegmentDescriptor(TRUE, PrivilegeLevel.Ring3)
                  [] OTHER -> {}],
   len |-> 5]

(* configure_hwthread: GlobalDescriptorTable::init, then load_static     *)
(* (lgdt, the far return into the kernel code segment, SS and the data    *)
(* segment registers), which change no state the model keeps.            *)
ConfigureHwthread(t) ==
  /\ stage[t] = "configure"
  /\ gdt' = IF gdt = NoGdt THEN StaticGdt ELSE gdt
  /\ stage' = [stage EXCEPT ![t] = "tss"]
  /\ UNCHANGED <<tss, tr, stack>>

(* TaskStateSegment::load_local: allocate the TSS and its stacks, then    *)
(* with_temporary: clone the static GDT, append_segment(from_tss(tss)) at  *)
(* index len, ltr with that selector, and load the static GDT again.  ltr *)
(* raises #GP unless the descriptor is an available TSS.                    *)
LoadLocal(t) ==
  /\ stage[t] = "tss"
  /\ \E a \in Addresses \ {tss[u] : u \in Threads} :
       LET d   == FromTss(a)
           sel == Selector(gdt.len, PrivilegeLevel.Ring0)
           tmp == [gdt.table EXCEPT ![gdt.len] = LowWord(d), ![gdt.len + 1] = HighWord(d)]
           lo  == tmp[SelectorIndex(sel)]
           hi  == tmp[SelectorIndex(sel) + 1]
       IN /\ tss' = [tss EXCEPT ![t] = a]
          /\ IF DescriptorType(lo) = NumBits(9)
               THEN /\ tr' = [tr EXCEPT ![t] = DescriptorBase(lo, hi)]
                    /\ stage' = [stage EXCEPT ![t] = "up"]
               ELSE /\ stage' = [stage EXCEPT ![t] = "halted"]
                    /\ UNCHANGED tr
  /\ UNCHANGED <<gdt, stack>>

(* An exception whose IDT entry has an IST slot (#DB, NMI, #DF, #MC): the *)
(* processor loads RSP from interrupt_stack_table[slot - 1] of the TSS at  *)
(* TR's base; memory there is some thread's TSS or not a TSS at all.       *)
(* exceptions::handle then panics on every one of them.                     *)
IstException(t) ==
  /\ stage[t] = "up"
  /\ \E x \in DOMAIN IstIndex :
       stack' = [stack EXCEPT ![t] =
                   IF \E u \in Threads : tss[u] = tr[t]
                     THEN <<CHOOSE u \in Threads : tss[u] = tr[t], IstSlot(x) - 1>>
                     ELSE <<"garbage", IstSlot(x) - 1>>]
  /\ stage' = [stage EXCEPT ![t] = "halted"]
  /\ UNCHANGED <<gdt, tss, tr>>

-----------------------------------------------------------------------------
Init ==
  /\ gdt = NoGdt
  /\ stage = [t \in Threads |-> "configure"]
  /\ tss = [t \in Threads |-> NoAddr]
  /\ tr = [t \in Threads |-> NoAddr]
  /\ stack = [t \in Threads |-> NoStack]

Next ==
  \E t \in Threads : ConfigureHwthread(t) \/ LoadLocal(t) \/ IstException(t)

Spec == Init /\ [][Next]_vars

-----------------------------------------------------------------------------
(* Spec section 2 (TSS): each thread has its own TSS with distinct IST     *)
(* stacks for Debug, NonMaskableInterrupt, DoubleFault and MachineCheck.   *)
(* An exception that switches stacks through the TSS load_local put in TR  *)
(* runs on one of the stacks that thread allocated for it.                 *)
IstStacksOwn ==
  \A t \in Threads : stack[t] # NoStack => stack[t][1] = t
=============================================================================
