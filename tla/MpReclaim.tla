----------------------------- MODULE MpReclaim -----------------------------
(***************************************************************************)
(* The multiprocessing bring-up and bootloader-memory reclaim protocol of  *)
(* cpu::synchronize (src/src/kernel/src/cpu/mod.rs).                       *)
(*                                                                         *)
(* The bootstrap thread (BSP) starts every other hardware thread (AP) by   *)
(* writing its goto address, creates the two spin::Barriers ENTRY_READY    *)
(* and ENTRY_PROCESSED, then walks the BOOTLOADER_RECLAIMABLE entries of   *)
(* the memory map.  For each entry that does not hold its own stack it     *)
(* publishes the entry in ENTRY_TO_CHECK, clears IS_ENTRY_USED, and meets  *)
(* the APs at both barriers; between them every AP sets IS_ENTRY_USED if   *)
(* its stack lies in the entry.  The BSP then frees the entry's frames in  *)
(* the physical memory manager when the filter keeps the entry.  Finally   *)
(* it publishes None, which releases the APs from their loop.             *)
(*                                                                         *)
(* Data abstraction: an entry is one unit of the frame bitmap (all its     *)
(* frames are locked or freed together, as the loop frees them with no     *)
(* other step of any thread in between); a stack position is the entry    *)
(* that contains it, or NoEntry.                                           *)
(***************************************************************************)
EXTENDS Naturals, FiniteSets

CONSTANTS
  NCpu,         \* number of hardware threads in the MP response
  NEntries,     \* number of BOOTLOADER_RECLAIMABLE memory map entries
  MpResponse,   \* the bootloader answered the multiprocessing request
  UseMP         \* params::use_multiprocessing() (FALSE with --nomp)

ASSUME NCpu \in Nat \ {0} /\ NEntries \in Nat
ASSUME MpResponse \in BOOLEAN /\ UseMP \in BOOLEAN

Cpus    == 0 .. (NCpu - 1)
BSP     == 0                      \* the thread running _entry
APs     == Cpus \ {BSP}
Entries == 1 .. NEntries          \* in memory map order
NoEntry == 0
None    == 0                      \* ENTRY_TO_CHECK = None
Barriers == {"ready", "processed"}

VARIABLES
  pc,            \* program location of each hardware thread
  stackIn,       \* entry holding each thread's stack (bootloader-chosen)
  entryToCheck,  \* ENTRY_TO_CHECK
  isEntryUsed,   \* IS_ENTRY_USED
  syncReady,     \* ENTRY_READY_SYNC / ENTRY_PROCESSED_SYNC initialised
  parties,       \* the thread count both barriers were created with
  count,         \* spin::Barrier lock.count, per barrier
  gen,           \* spin::Barrier lock.generation_id, per barrier
  localGen,      \* generation a waiting thread observed when it arrived
  nextAp,        \* begin_multiprocessing: next AP whose goto is written
  idx,           \* BSP: index of the memory map entry being filtered
  locked         \* PMM bitmap bits of each reclaimable entry

vars == <<pc, stackIn, entryToCheck, isEntryUsed, syncReady, parties,
          count, gen, localGen, nextAp, idx, locked>>

Labels == {"absent", "parked", "idle_forever", "ap_entry", "ap_await_sync",
           "ap_ready", "ap_ready_spin", "ap_check", "ap_processed",
           "ap_processed_spin", "bsp_begin_mp", "bsp_start_ap",
           "bsp_make_sync", "bsp_filter", "bsp_ready",
           "bsp_ready_spin", "bsp_processed", "bsp_processed_spin",
           "bsp_load", "bsp_release", "bsp_final_spin",
           "local_init", "halted"}

-----------------------------------------------------------------------------
(* Slip: the last arrival bumps the generation but never resets count.    *)
BarrierArriveWithoutReset(c, b, spin, next) ==
  IF count[b] + 1 < parties
    THEN /\ count' = [count EXCEPT ![b] = @ + 1]
         /\ localGen' = [localGen EXCEPT ![c] = gen[b]]
         /\ pc' = [pc EXCEPT ![c] = spin]
         /\ UNCHANGED gen
    ELSE /\ count' = [count EXCEPT ![b] = @ + 1]
         /\ gen' = [gen EXCEPT ![b] = @ + 1]
         /\ pc' = [pc EXCEPT ![c] = next]
         /\ UNCHANGED localGen

(* spin::Barrier::wait, split at its spin loop.  The thread that makes the *)
(* count reach the party size resets it and bumps the generation; the     *)
(* others spin until the generation changes.                               *)
BarrierArrive(c, b, spin, next) ==
  IF count[b] + 1 < parties
    THEN /\ count' = [count EXCEPT ![b] = @ + 1]
         /\ localGen' = [localGen EXCEPT ![c] = gen[b]]
         /\ pc' = [pc EXCEPT ![c] = spin]
         /\ UNCHANGED gen
    ELSE /\ count' = [count EXCEPT ![b] = 0]
         /\ gen' = [gen EXCEPT ![b] = @ + 1]
         /\ pc' = [pc EXCEPT ![c] = next]
         /\ UNCHANGED localGen

BarrierLeave(c, b, next) ==
  /\ gen[b] # localGen[c]
  /\ pc' = [pc EXCEPT ![c] = next]
  /\ UNCHANGED <<count, gen, localGen>>

At(c, l) == pc[c] = l
Goto(c, l) == pc' = [pc EXCEPT ![c] = l]

-----------------------------------------------------------------------------
(* begin_multiprocessing: without a response no AP runs and no barrier is *)
(* created; otherwise each AP's goto address is written in turn.          *)
BeginMultiprocessing ==
  /\ At(BSP, "bsp_begin_mp")
  /\ Goto(BSP, IF ~MpResponse THEN "bsp_filter"
               ELSE IF APs # {} THEN "bsp_start_ap" ELSE "bsp_make_sync")
  /\ UNCHANGED <<stackIn, entryToCheck, isEntryUsed, syncReady, parties,
                 count, gen, localGen, nextAp, idx, locked>>

(* goto_address.write(_mp_entry) or, with --nomp, _idle_forever.          *)
StartAp ==
  /\ At(BSP, "bsp_start_ap")
  /\ pc' = [pc EXCEPT ![BSP] = IF nextAp + 1 < NCpu THEN "bsp_start_ap"
                                                     ELSE "bsp_make_sync",
                      ![nextAp] = IF UseMP THEN "ap_entry" ELSE "idle_forever"]
  /\ nextAp' = nextAp + 1
  /\ UNCHANGED <<stackIn, entryToCheck, isEntryUsed, syncReady, parties,
                 count, gen, localGen, idx, locked>>

(* Some(response.cpus().len()): both barriers sized by every CPU.         *)
MakeSync ==
  /\ At(BSP, "bsp_make_sync")
  /\ syncReady' = TRUE
  /\ parties' = NCpu
  /\ Goto(BSP, "bsp_filter")
  /\ UNCHANGED <<stackIn, entryToCheck, isEntryUsed, count, gen, localGen,
                 nextAp, idx, locked>>
-----------------------------------------------------------------------------
(* The reclaim iterator of the BSP, one memory map entry at a time.       *)

(* First filter: an entry holding the BSP's own stack is never freed.     *)
SkipBspStackEntry ==
  /\ At(BSP, "bsp_filter")
  /\ idx \in Entries
  /\ stackIn[BSP] = idx
  /\ idx' = idx + 1
  /\ UNCHANGED <<pc, stackIn, entryToCheck, isEntryUsed, syncReady, parties,
                 count, gen, localGen, nextAp, locked>>

(* PhysicalMemoryManager::free_frame(frame).unwrap() on every frame of the *)
(* entry; a frame that is not locked makes the unwrap panic (no step).    *)
FreeEntry(e) ==
  /\ locked[e]
  /\ locked' = [locked EXCEPT ![e] = FALSE]

(* Slip in the no-barrier path: the entry dropped from the free loop.      *)
ReclaimWithoutSyncNotFreeing ==
  /\ At(BSP, "bsp_filter")
  /\ idx \in Entries
  /\ stackIn[BSP] # idx
  /\ ~syncReady
  /\ idx' = idx + 1
  /\ UNCHANGED <<pc, stackIn, entryToCheck, isEntryUsed, syncReady, parties,
                 count, gen, localGen, nextAp, locked>>

(* Second filter without barriers (no MP response): keep, hence free.     *)
ReclaimWithoutSync ==
  /\ At(BSP, "bsp_filter")
  /\ idx \in Entries
  /\ stackIn[BSP] # idx
  /\ ~syncReady
  /\ FreeEntry(idx)
  /\ idx' = idx + 1
  /\ UNCHANGED <<pc, stackIn, entryToCheck, isEntryUsed, syncReady, parties,
                 count, gen, localGen, nextAp>>

(* Slip: the consensus left over from the previous entry is not reset.   *)
PublishEntryKeepingConsensus ==
  /\ At(BSP, "bsp_filter")
  /\ idx \in Entries
  /\ stackIn[BSP] # idx
  /\ syncReady
  /\ entryToCheck' = idx
  /\ Goto(BSP, "bsp_ready")
  /\ UNCHANGED <<stackIn, isEntryUsed, syncReady, parties, count, gen,
                 localGen, nextAp, idx, locked>>

(* Second filter with barriers: publish the entry, then reset consensus.  *)
PublishEntry ==
  /\ At(BSP, "bsp_filter")
  /\ idx \in Entries
  /\ stackIn[BSP] # idx
  /\ syncReady
  /\ entryToCheck' = idx
  /\ isEntryUsed' = FALSE
  /\ Goto(BSP, "bsp_ready")
  /\ UNCHANGED <<stackIn, syncReady, parties, count, gen, localGen, nextAp,
                 idx, locked>>

BspWaitReady ==
  \/ At(BSP, "bsp_ready") /\ BarrierArrive(BSP, "ready", "bsp_ready_spin",
                                           "bsp_processed")
  \/ At(BSP, "bsp_ready_spin") /\ BarrierLeave(BSP, "ready", "bsp_processed")

BspWaitProcessed ==
  \/ At(BSP, "bsp_processed") /\ BarrierArrive(BSP, "processed",
                                   "bsp_processed_spin", "bsp_load")
  \/ At(BSP, "bsp_processed_spin") /\ BarrierLeave(BSP, "processed", "bsp_load")

BspWaitBarrier ==
  /\ BspWaitReady \/ BspWaitProcessed
  /\ UNCHANGED <<stackIn, entryToCheck, isEntryUsed, syncReady, parties,
                 nextAp, idx, locked>>

(* IS_ENTRY_USED.load(): the filter keeps the entry, so its frames are    *)
(* freed, exactly when some AP reported that the entry holds its stack.   *)
LoadEntryUsed ==
  /\ At(BSP, "bsp_load")
  /\ IF isEntryUsed THEN FreeEntry(idx) ELSE UNCHANGED locked
  /\ idx' = idx + 1
  /\ Goto(BSP, "bsp_filter")
  /\ UNCHANGED <<stackIn, entryToCheck, isEntryUsed, syncReady, parties,
                 count, gen, localGen, nextAp>>

(* Slip: the APs are never handed the terminating None.                  *)
FinishReclaimWithoutRelease ==
  /\ At(BSP, "bsp_filter")
  /\ idx \notin Entries
  /\ Goto(BSP, "local_init")
  /\ UNCHANGED <<stackIn, entryToCheck, isEntryUsed, syncReady, parties,
                 count, gen, localGen, nextAp, idx, locked>>

(* The list is exhausted: publish None and release the APs once more.     *)
FinishReclaim ==
  /\ At(BSP, "bsp_filter")
  /\ idx \notin Entries
  /\ IF syncReady THEN /\ entryToCheck' = None
                       /\ Goto(BSP, "bsp_release")
                  ELSE /\ Goto(BSP, "local_init")
                       /\ UNCHANGED entryToCheck
  /\ UNCHANGED <<stackIn, isEntryUsed, syncReady, parties, count, gen,
                 localGen, nextAp, idx, locked>>

BspRelease ==
  /\ \/ At(BSP, "bsp_release") /\ BarrierArrive(BSP, "ready", "bsp_final_spin",
                                                "local_init")
     \/ At(BSP, "bsp_final_spin") /\ BarrierLeave(BSP, "ready", "local_init")
  /\ UNCHANGED <<stackIn, entryToCheck, isEntryUsed, syncReady, parties,
                 nextAp, idx, locked>>

-----------------------------------------------------------------------------
(* The AP side: _mp_entry, then the else branch of synchronize.           *)

(* configure() and the swap into the kernel page tables.                  *)
ApEntry(c) ==
  /\ At(c, "ap_entry")
  /\ Goto(c, "ap_await_sync")
  /\ UNCHANGED <<stackIn, entryToCheck, isEntryUsed, syncReady, parties,
                 count, gen, localGen, nextAp, idx, locked>>

(* Slip: the AP reads ENTRY_TO_CHECK without first meeting the BSP at     *)
(* ENTRY_READY_SYNC.                                                       *)
ApAwaitSyncSkippingReady(c) ==
  /\ At(c, "ap_await_sync")
  /\ syncReady
  /\ Goto(c, "ap_check")
  /\ UNCHANGED <<stackIn, entryToCheck, isEntryUsed, syncReady, parties,
                 count, gen, localGen, nextAp, idx, locked>>

(* ENTRY_READY_SYNC.wait() / ENTRY_PROCESSED_SYNC.wait() on the Once.     *)
ApAwaitSync(c) ==
  /\ At(c, "ap_await_sync")
  /\ syncReady
  /\ Goto(c, "ap_ready")
  /\ UNCHANGED <<stackIn, entryToCheck, isEntryUsed, syncReady, parties,
                 count, gen, localGen, nextAp, idx, locked>>

ApWaitBarrier(c) ==
  /\ \/ At(c, "ap_ready") /\ BarrierArrive(c, "ready", "ap_ready_spin", "ap_check")
     \/ At(c, "ap_ready_spin") /\ BarrierLeave(c, "ready", "ap_check")
     \/ At(c, "ap_processed") /\ BarrierArrive(c, "processed",
                                    "ap_processed_spin", "ap_ready")
     \/ At(c, "ap_processed_spin") /\ BarrierLeave(c, "processed", "ap_ready")
  /\ UNCHANGED <<stackIn, entryToCheck, isEntryUsed, syncReady, parties,
                 nextAp, idx, locked>>

(* Under the ENTRY_TO_CHECK read lock: None ends the loop; otherwise the  *)
(* stack check may set IS_ENTRY_USED.                                      *)
ApCheckEntry(c) ==
  /\ At(c, "ap_check")
  /\ IF entryToCheck = None
       THEN /\ Goto(c, "local_init")
            /\ UNCHANGED isEntryUsed
       ELSE /\ Goto(c, "ap_processed")
            /\ IF stackIn[c] = entryToCheck THEN isEntryUsed' = TRUE
                                           ELSE UNCHANGED isEntryUsed
  /\ UNCHANGED <<stackIn, entryToCheck, syncReady, parties, count, gen,
                 localGen, nextAp, idx, locked>>

(* TSS load, x2APIC reset and enable, LocalState::init, then              *)
(* core::arch::breakpoint(): the #BP reaches exceptions::handle, which     *)
(* panics on every exception but a page fault, and the panic handler halts *)
(* the thread (halt_and_catch_fire).  interrupts::enable and               *)
(* wait_indefinite are never reached; no state of this module changes.     *)
LocalBringUp(c) ==
  /\ At(c, "local_init")
  /\ Goto(c, "halted")
  /\ UNCHANGED <<stackIn, entryToCheck, isEntryUsed, syncReady, parties,
                 count, gen, localGen, nextAp, idx, locked>>

(* Every thread has parked for good: the bring-up is over.                *)
Terminated ==
  /\ \A c \in Cpus : pc[c] \in {"halted", "idle_forever", "absent"}
  /\ UNCHANGED vars

-----------------------------------------------------------------------------
Init ==
  /\ pc = [c \in Cpus |-> IF c = BSP THEN "bsp_begin_mp"
                          ELSE IF MpResponse THEN "parked" ELSE "absent"]
  /\ stackIn \in {s \in [Cpus -> Entries \cup {NoEntry}] :
                    \A c \in APs : ~MpResponse => s[c] = NoEntry}
  /\ entryToCheck = None
  /\ isEntryUsed = FALSE
  /\ syncReady = FALSE
  /\ parties = 0
  /\ count = [b \in Barriers |-> 0]
  /\ gen = [b \in Barriers |-> 0]
  /\ localGen = [c \in Cpus |-> 0]
  /\ nextAp = 1
  /\ idx = 1
  /\ locked = [e \in Entries |-> TRUE]

Next ==
  \/ BeginMultiprocessing \/ StartAp \/ MakeSync
  \/ SkipBspStackEntry \/ ReclaimWithoutSync \/ PublishEntry
  \/ BspWaitBarrier \/ LoadEntryUsed \/ FinishReclaim \/ BspRelease
  \/ \E c \in APs : ApEntry(c) \/ ApAwaitSync(c) \/ ApWaitBarrier(c)
                    \/ ApCheckEntry(c)
  \/ \E c \in Cpus : LocalBringUp(c)
  \/ Terminated

(* Every started hardware thread keeps executing (spin loops included).   *)
BspSteps == BeginMultiprocessing \/ StartAp \/ MakeSync \/ SkipBspStackEntry
            \/ ReclaimWithoutSync \/ PublishEntry \/ BspWaitBarrier
            \/ LoadEntryUsed \/ FinishReclaim \/ BspRelease \/ LocalBringUp(BSP)
ApSteps(c) == ApEntry(c) \/ ApAwaitSync(c) \/ ApWaitBarrier(c)
              \/ ApCheckEntry(c) \/ LocalBringUp(c)

Fairness == WF_vars(BspSteps) /\ \A c \in APs : WF_vars(ApSteps(c))

Spec == Init /\ [][Next]_vars /\ Fairness
-----------------------------------------------------------------------------
(* Properties.                                                             *)

TypeOK ==
  /\ pc \in [Cpus -> Labels]
  /\ stackIn \in [Cpus -> Entries \cup {NoEntry}]
  /\ entryToCheck \in Entries \cup {None}
  /\ isEntryUsed \in BOOLEAN /\ syncReady \in BOOLEAN
  /\ parties \in {0, NCpu}
  /\ count \in [Barriers -> 0 .. NCpu]
  /\ gen \in [Barriers -> Nat] /\ localGen \in [Cpus -> Nat]
  /\ nextAp \in 1 .. NCpu /\ idx \in 1 .. (NEntries + 1)
  /\ locked \in [Entries -> BOOLEAN]

(* A thread that has not been left out of the bring-up runs on its stack. *)
Running(c) == pc[c] # "absent"

(* When the BSP loads IS_ENTRY_USED after ENTRY_PROCESSED_SYNC, the flag is *)
(* true exactly when some AP's stack lies in the published entry: every AP *)
(* has checked this entry, and no stale consensus from the previous entry *)
(* survives the reset in the filter closure.                                *)
UsedFlagExact ==
  At(BSP, "bsp_load") =>
    (isEntryUsed <=> \E c \in APs : stackIn[c] = entryToCheck)

(* An AP leaves its stack check loop only after the BSP has gone through  *)
(* the whole memory map: it can never mistake the initial None of          *)
(* ENTRY_TO_CHECK for the end of the list.                                 *)
ApExitOnlyAtEnd ==
  \A c \in APs : pc[c] \in {"local_init", "halted"} => idx \notin Entries

(* synchronize's reclaim phase ends: every started thread gets past it     *)
(* (an AP with --nomp idles forever by design).                             *)
ReclaimTerminates ==
  <>(\A c \in Cpus : pc[c] \in {"halted", "idle_forever", "absent"})

(* Spec S6: memory holding a running hardware thread's stack is never      *)
(* freed by the reclaim loop (free_frame in the for_each).                 *)
StackFramesStayLocked ==
  \A c \in Cpus : Running(c) /\ stackIn[c] \in Entries => locked[stackIn[c]]

(* Every reclaimable entry that holds no running thread's stack ends up    *)
(* freed to the physical memory manager.                                    *)
UnusedEntriesReclaimed ==
  <>[](\A e \in Entries :
          (\A c \in Cpus : Running(c) => stackIn[c] # e) => ~locked[e])
=============================================================================
