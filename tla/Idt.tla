-------------------------------- MODULE Idt --------------------------------
(***************************************************************************)
(* One hardware thread's interrupt path: the end of its bring-up in        *)
(* cpu/mod.rs (x2Apic::reset, set_enabled, the debugging breakpoint,       *)
(* interrupts::enable, wait_indefinite), the local APIC delivering its     *)
(* LVT vectors by priority class, the IDT of idt/mod.rs sending a vector   *)
(* to its __irq_N_stub, the stub passing N to __irq_handler, and the       *)
(* handler's dispatch through Vector::from, ending with the EOI.           *)
(*                                                                         *)
(* Interrupt gates clear IF on entry and no handler sets it again, so a    *)
(* handler runs to its end (or its panic) before the next delivery; the    *)
(* iretq restores the IF of the interrupted idle loop.                     *)
(***************************************************************************)
EXTENDS Naturals, Sequences, FiniteSets, FiniteSetsExt

CONSTANTS
  Breakpoint,     \* core::arch::breakpoint() is compiled into the bring-up
  MaxLvtEntries   \* the values VERSION bits 16..24 may hold on this processor

ASSUME Breakpoint \in BOOLEAN
ASSUME MaxLvtEntries \subseteq 3 .. 6

(* interrupts::Vector, #[repr(u8)], with Unknown as FromPrimitive default. *)
VectorValue ==
  [Watchdog |-> 32, Timer |-> 33, Error |-> 34, PerformanceCounter |-> 35,
   ThermalSensor |-> 36, CMCI |-> 37, External |-> 38, Syscall |-> 128,
   Spurious |-> 255, Unknown |-> 0]

(* Vector::from(u8): the variant of that value, or Unknown.              *)
FromVector(n) ==
  IF \E x \in DOMAIN VectorValue : VectorValue[x] = n
    THEN CHOOSE x \in DOMAIN VectorValue : VectorValue[x] = n
    ELSE "Unknown"

(* The stubs listed in the `interrupts` array of init, entry i being the   *)
(* IDT entry of vector 32 + i - 1.                                          *)
Interrupts ==
  <<128>> \o [i \in 1 .. 6 |-> 31 + i] \o <<39, 38>>
    \o [i \in 1 .. 88 |-> 39 + i] \o [i \in 1 .. 127 |-> 128 + i]

(* IDT[v] for v in 32..=255 (the Index impl) leads to __irq_N_stub, which  *)
(* does `mov rdi, N` before `call __irq_handler`: the irq_number seen.    *)
IrqNumber(v) == Interrupts[v - 32 + 1]

(* Slip: the LVT vectors written as offsets from the interrupt base 0x20.  *)
LvtVectorUnbased ==
  [Timer |-> 1, Error |-> 2, PerformanceCounter |-> 3, ThermalSensor |-> 4, CMCI |-> 5]

(* The LVT entries x2Apic::reset programs, with the vector each gets.      *)
LvtVector ==
  [Timer |-> VectorValue.Timer, Error |-> VectorValue.Error,
   PerformanceCounter |-> VectorValue.PerformanceCounter,
   ThermalSensor |-> VectorValue.ThermalSensor, CMCI |-> VectorValue.CMCI]

(* An x2APIC register value: a bit range lo..hi as get_bits reads it and  *)
(* set_bits writes it (read_register, modify, write_register).           *)
Field(x, lo, hi) == (x \div 2^lo) % 2^(hi - lo)
WithField(x, lo, hi, v) == x - Field(x, lo, hi) * 2^lo + v * 2^lo
Flag(b) == IF b THEN 1 ELSE 0

(* LocalVector: the vector in bits 0..8, the mask in bit 16.              *)
GetVector(w) == Field(w, 0, 8)
SetVector(w, v) == WithField(w, 0, 8, v)
GetMasked(w) == Field(w, 16, 17) = 1
SetMasked(w, b) == WithField(w, 16, 17, Flag(b))

(* The spurious vector register: the vector in bits 0..8, the software     *)
(* enable in bit 8.                                                        *)
GetSpuriousVector(s) == Field(s, 0, 8)
SetSpuriousVector(s, v) == WithField(s, 0, 8, v)
GetEnabled(s) == Field(s, 8, 9) = 1
SetEnabled(s, b) == WithField(s, 8, 9, Flag(b))

(* lvt_performance_counter, lvt_thermal_monitor and lvt_cmci exist when    *)
(* max_lvt_entry is at least 4, 5 and 6; Error and Timer always do.        *)
MinMaxLvt == [Timer |-> 0, Error |-> 0, PerformanceCounter |-> 4, ThermalSensor |-> 5, CMCI |-> 6]
Present(l, maxLvt) == maxLvt >= MinMaxLvt[l]

(* The LVT's value after reset and the power-up spurious vector register. *)
LvtResetValue == 2^16
SvrResetValue == 255

(* The local APIC's priority class of a vector.                            *)
Class(v) == v \div 16

None == [vec |-> 0, irq |-> 0]

VARIABLES
  step,      \* bring-up: "reset", "enable", "breakpoint", "sti", "idle", "halted"
  maxLvt,    \* max_lvt_entry, VERSION bits 16..24
  svr,       \* the spurious vector register
  lvt,       \* each LVT register
  ifl,       \* RFLAGS.IF
  irr,       \* vectors the APIC holds pending
  isr,       \* vectors in service (delivered, not yet EOI'd)
  handling   \* the vector being handled and the irq_number its stub passed

vars == <<step, maxLvt, svr, lvt, ifl, irr, isr, handling>>

-----------------------------------------------------------------------------
(* Reset's set_vector(..).set_masked(..) on one LVT entry, if it exists:  *)
(* Timer masked, every other one unmasked.                                 *)
ResetLvt(l) ==
  IF Present(l, maxLvt)
    THEN SetMasked(SetVector(lvt[l], LvtVector[l]), l = "Timer")
    ELSE lvt[l]

(* x2Apic::reset: set_enabled(false), set_spurious_vector(Spurious), then *)
(* the Error, Timer and optional LVT entries.                              *)
Reset ==
  /\ step = "reset"
  /\ svr' = SetSpuriousVector(SetEnabled(svr, FALSE), VectorValue.Spurious)
  /\ lvt' = [l \in DOMAIN LvtVector |-> ResetLvt(l)]
  /\ step' = "enable"
  /\ UNCHANGED <<maxLvt, ifl, irr, isr, handling>>

(* x2Apic::set_enabled(true).                                             *)
ApicEnable ==
  /\ step = "enable"
  /\ svr' = SetEnabled(svr, TRUE)
  /\ step' = "breakpoint"
  /\ UNCHANGED <<maxLvt, lvt, ifl, irr, isr, handling>>

(* core::arch::breakpoint(): #BP through __bp_stub to exceptions::handle,  *)
(* whose match panics on every exception but a page fault.                *)
BreakpointTrap ==
  /\ step = "breakpoint"
  /\ step' = IF Breakpoint THEN "halted" ELSE "sti"
  /\ UNCHANGED <<maxLvt, svr, lvt, ifl, irr, isr, handling>>

(* interrupts::enable, then wait_indefinite.                               *)
Sti ==
  /\ step = "sti"
  /\ ifl' = TRUE
  /\ step' = "idle"
  /\ UNCHANGED <<maxLvt, svr, lvt, irr, isr, handling>>

-----------------------------------------------------------------------------
(* An unmasked LVT source of the enabled APIC signals the vector its      *)
(* register holds.                                                          *)
Raise ==
  /\ GetEnabled(svr) /\ step # "halted"
  /\ \E l \in DOMAIN LvtVector :
       /\ Present(l, maxLvt) /\ ~GetMasked(lvt[l])
       /\ irr' = irr \cup {GetVector(lvt[l])}
  /\ UNCHANGED <<step, maxLvt, svr, lvt, ifl, isr, handling>>

(* The vectors the APIC may deliver: pending and of a higher class than    *)
(* any in service.                                                          *)
Deliverable == {v \in irr : \A w \in isr : Class(v) > Class(w)}

(* With IF set the APIC delivers its highest deliverable vector, marks it *)
(* in service, and the interrupt gate clears IF.                           *)
Deliver ==
  /\ step = "idle" /\ ifl /\ Deliverable # {}
  /\ LET v == Max(Deliverable)
     IN /\ irr' = irr \ {v}
        /\ isr' = isr \cup {v}
        /\ handling' = [vec |-> v, irq |-> IrqNumber(v)]
  /\ ifl' = FALSE
  /\ UNCHANGED <<step, maxLvt, svr, lvt>>

(* The APIC's spurious vector, from its register: delivered without an    *)
(* ISR bit.                                                                  *)
SpuriousInterrupt ==
  /\ step = "idle" /\ ifl /\ GetEnabled(svr)
  /\ handling' = [vec |-> GetSpuriousVector(svr), irq |-> IrqNumber(GetSpuriousVector(svr))]
  /\ ifl' = FALSE
  /\ UNCHANGED <<step, maxLvt, svr, lvt, irr, isr>>

(* x2Apic::end_of_interrupt: the APIC clears the highest ISR bit.          *)
Eoi == IF isr = {} THEN isr ELSE isr \ {Max(isr)}

(* Slip: the handler returns without end_of_interrupt.                    *)
IrqHandlerWithoutEoi ==
  /\ handling # None /\ step = "idle"
  /\ IF FromVector(handling.irq) \in {"Timer", "Syscall"}
       THEN /\ handling' = None
            /\ ifl' = TRUE
            /\ UNCHANGED <<step, isr>>
       ELSE /\ step' = "halted"
            /\ UNCHANGED <<isr, handling, ifl>>
  /\ UNCHANGED <<maxLvt, svr, lvt, irr>>

(* __irq_handler(irq_number): the Timer arm (interrupt_task) and the       *)
(* Syscall arm (process) return, followed by the EOI and the stub's iretq; *)
(* any other Vector::from(irq_number) hits unimplemented! and the thread   *)
(* panics.                                                                  *)
IrqHandler ==
  /\ handling # None /\ step = "idle"
  /\ IF FromVector(handling.irq) \in {"Timer", "Syscall"}
       THEN /\ isr' = Eoi
            /\ handling' = None
            /\ ifl' = TRUE
            /\ UNCHANGED step
       ELSE /\ step' = "halted"
            /\ UNCHANGED <<isr, handling, ifl>>
  /\ UNCHANGED <<maxLvt, svr, lvt, irr>>

-----------------------------------------------------------------------------
Init ==
  /\ step = "reset"
  /\ maxLvt \in MaxLvtEntries
  /\ svr \in {SvrResetValue, SetEnabled(SvrResetValue, TRUE)}
  /\ lvt = [l \in DOMAIN LvtVector |-> LvtResetValue]
  /\ ifl = FALSE
  /\ irr = {}
  /\ isr = {}
  /\ handling = None

BringUp == Reset \/ ApicEnable \/ BreakpointTrap \/ Sti

Next ==
  \/ BringUp
  \/ Raise \/ Deliver \/ SpuriousInterrupt \/ IrqHandler

(* The bring-up code and a handler run on once started; the APIC delivers *)
(* a pending vector it may deliver while IF is set.  Sources raising       *)
(* vectors, spurious ones included, are the environment and not assumed.   *)
Fairness == WF_vars(BringUp) /\ WF_vars(Deliver) /\ WF_vars(IrqHandler)

Spec == Init /\ [][Next]_vars /\ Fairness
-----------------------------------------------------------------------------
(* Properties.                                                             *)

TypeOK ==
  /\ step \in {"reset", "enable", "breakpoint", "sti", "idle", "halted"}
  /\ maxLvt \in MaxLvtEntries /\ svr \in 0 .. 2^13 - 1 /\ ifl \in BOOLEAN
  /\ lvt \in [DOMAIN LvtVector -> 0 .. 2^19 - 1]
  /\ irr \subseteq 32 .. 255 /\ isr \subseteq 32 .. 255
  /\ handling \in [vec : 0 .. 255, irq : 0 .. 255]

(* Every vector the local APIC holds pending is eventually delivered, or   *)
(* the thread has stopped: each __irq_handler that returns acknowledges    *)
(* its vector with end_of_interrupt, so no in-service vector keeps the     *)
(* later ones of its priority class waiting for ever.                      *)
PendingServed ==
  \A v \in {LvtVector[l] : l \in DOMAIN LvtVector} :
    v \in irr ~> (v \notin irr \/ step = "halted")

(* The IDT's comment and spec 4.8 (the IRQ router): the handler for a      *)
(* vector is called with that vector, so __irq_handler takes the arm of    *)
(* the interrupt the APIC delivered.                                        *)
DispatchedAsRaised ==
  handling # None => handling.irq = handling.vec
=============================================================================
