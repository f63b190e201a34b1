----------------------------- MODULE Stopwatch -----------------------------
(***************************************************************************)
(* Stopwatch::spin_wait (time/stopwatch.rs) against the ACPI power         *)
(* management timer, a free-running counter of CounterBits bits that      *)
(* ticks at 3,579,545 Hz and wraps to zero after MaxValue.                *)
(*                                                                         *)
(* The hardware counter advances by Tick steps, interleaved with the      *)
(* loop's reads.  At least MinGap and at most MaxGap ticks separate two   *)
(* reads: a port read (AcpiIo) takes about a microsecond, longer than a   *)
(* tick, while an MMIO read (AcpiMmio) can return the same value twice.   *)
(* real counts the ticks since the first read (the time really waited);   *)
(* counted is the sum of the elapsed_ticks the loop computed.             *)
(***************************************************************************)
EXTENDS Naturals

CONSTANTS
  CounterBits,  \* counter width (24 or 32 on hardware, small here)
  DurationsUs,  \* durations spin_wait may be asked for, in microseconds
  MinGap,       \* fewest ticks between two reads of the source
  MaxGap        \* most ticks between two reads of the source

ASSUME CounterBits \in Nat \ {0} /\ DurationsUs \subseteq Nat
ASSUME MinGap \in Nat /\ MaxGap \in Nat /\ MinGap <= MaxGap

(* Source::max_value: 0x00FF_FFFF or 0xFFFF_FFFF, here 2^CounterBits - 1. *)
MaxValue == 2^CounterBits - 1
Period == MaxValue + 1

(* Stopwatch::init: the fixed PM timer frequency and its integer scalings. *)
TicksPerSec == 3579545
TicksPerUs == (TicksPerSec \div 1000) \div 1000

VARIABLES
  pc,          \* "start", "loop" or "done"
  duration,    \* the requested duration in microseconds
  hw,          \* the counter's current value
  lastTick,    \* last_tick_count
  waitTicks,   \* wait_ticks
  sinceRead,   \* ticks since the last read of the source
  real,        \* ticks since the first read
  counted      \* sum of elapsed_ticks subtracted so far

vars == <<pc, duration, hw, lastTick, waitTicks, sinceRead, real, counted>>

-----------------------------------------------------------------------------
(* The counter ticks while spin_wait runs.                                 *)
Tick ==
  /\ pc = "loop"
  /\ sinceRead < MaxGap
  /\ hw' = (hw + 1) % Period
  /\ sinceRead' = sinceRead + 1
  /\ real' = real + 1
  /\ UNCHANGED <<pc, duration, lastTick, waitTicks, counted>>

(* wait_ticks = duration_us * ticks_per_us; last_tick_count = read().     *)
Start ==
  /\ pc = "start"
  /\ waitTicks' = duration * TicksPerUs
  /\ lastTick' = hw
  /\ pc' = "loop"
  /\ UNCHANGED <<duration, hw, sinceRead, real, counted>>

(* Slip: the wrap branch counts one tick too many.                          *)
ElapsedTicksOverWrap(last, current) ==
  IF last < current THEN current - last ELSE MaxValue - last + current + 2

(* The elapsed_ticks block: a reading not above the last one is taken to   *)
(* be a wrap, and max_value - last + current ticks are counted.             *)
ElapsedTicks(last, current) ==
  IF last < current THEN current - last ELSE MaxValue - last + current

(* Slip: a plain subtraction where the code saturates.                    *)
ReadSourceUnsaturated ==
  /\ pc = "loop"
  /\ waitTicks > 0
  /\ sinceRead >= MinGap
  /\ LET elapsed == ElapsedTicks(lastTick, hw)
     IN /\ waitTicks' = waitTicks - elapsed
        /\ counted' = counted + elapsed
  /\ lastTick' = hw
  /\ sinceRead' = 0
  /\ UNCHANGED <<pc, duration, hw, real>>

(* One iteration of `while wait_ticks > 0`.                                *)
ReadSource ==
  /\ pc = "loop"
  /\ waitTicks > 0
  /\ sinceRead >= MinGap
  /\ LET elapsed == ElapsedTicks(lastTick, hw)
     IN /\ waitTicks' = IF waitTicks > elapsed THEN waitTicks - elapsed ELSE 0
        /\ counted' = counted + elapsed
  /\ lastTick' = hw
  /\ sinceRead' = 0
  /\ UNCHANGED <<pc, duration, hw, real>>

(* The loop condition fails: spin_wait returns.                            *)
Return ==
  /\ pc = "loop"
  /\ waitTicks = 0
  /\ pc' = "done"
  /\ UNCHANGED <<duration, hw, lastTick, waitTicks, sinceRead, real, counted>>

Done ==
  /\ pc = "done"
  /\ UNCHANGED vars

Init ==
  /\ pc = "start"
  /\ duration \in DurationsUs
  /\ hw \in 0 .. MaxValue
  /\ lastTick = 0
  /\ waitTicks = 0
  /\ sinceRead = 0
  /\ real = 0
  /\ counted = 0

Next == Tick \/ Start \/ ReadSource \/ Return \/ Done

(* The counter runs on its own clock and the loop never blocks.           *)
Spec == Init /\ [][Next]_vars /\ WF_vars(Tick) /\ WF_vars(Start \/ ReadSource \/ Return)

-----------------------------------------------------------------------------
(* Properties.                                                             *)

TypeOK ==
  /\ pc \in {"start", "loop", "done"}
  /\ duration \in DurationsUs
  /\ hw \in 0 .. MaxValue /\ lastTick \in 0 .. MaxValue
  /\ waitTicks \in Nat /\ sinceRead \in 0 .. MaxGap
  /\ real \in Nat /\ counted \in Nat

(* The wrap-aware elapsed computation never credits more ticks than the    *)
(* counter really advanced, across any number of wraps: spin_wait cannot   *)
(* be cut short by its own accounting.                                      *)
ElapsedNotOvercounted == counted <= real

(* Spec property 9: spin_wait(d) returns only after d has passed, less one *)
(* PM timer tick of slop: real ticks >= d * 3.579545 - 1.                  *)
SpinWaitsAtLeastDuration ==
  pc = "done" => (real + 1) * 1000000 >= duration * TicksPerSec

=============================================================================
