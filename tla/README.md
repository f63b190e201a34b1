# TLA+ models of the linuiz kernel

This directory holds TLA+ models of the x86_64 kernel in `src/src/kernel/src`,
the TLC configurations that check them, and `PROJECT.json`. `PROJECT.json`
records the components, the runs, the mutants, the source lines each definition
models, the findings and the hazards.

## The system

The kernel is started by Limine. `_entry` (`main.rs`) runs on the bootstrap
hardware thread (BSP) and does the following, in order:

1. configures the thread: control registers, GDT, TSS and IDT;
2. parses the command line;
3. initialises the higher-half direct map and the physical memory manager;
4. builds the kernel page tables (`mem::init`);
5. calibrates the stopwatch;
6. calls `cpu::synchronize`.

Loading drivers, and so creating tasks, is commented out in the current code.

| Part | Source | State | Operations | Interacts with |
|---|---|---|---|---|
| MP bring-up / reclaim | `cpu/mod.rs` | `ENTRY_TO_CHECK` (RwLock), `IS_ENTRY_USED` (atomic), two `Once<Barrier>` | `begin_multiprocessing`, `_mp_entry`, `synchronize` (BSP and AP branches) | PMM (`free_frame`), kernel mapper (`swap_into`), local state |
| Physical memory manager | `mem/pmm.rs` | a bitmap of locked frames behind a `spin::RwLock` | `init`, `next_frame`, `next_frames`, `lock_frame`, `free_frame`, `is_locked` | allocator, mapper, reclaim |
| Kernel allocator | `mem/alloc.rs` | none beyond the PMM | `allocate`, `deallocate` in whole frames | PMM |
| Mapper | `mem/mapper.rs`, `mem/paging` | a 4-level page table tree rooted at a frame | `map`, `unmap`, `auto_map`, `set_page_attributes`, `swap_into` | PMM, CR3 |
| Kernel page tables | `mem/mod.rs` | `KERNEL_MAPPER` | `init`, `with_kernel_mapper`, `copy_kernel_page_table` | mapper |
| Address space | `task/address_space.rs` | a mapper per task | `new_userspace`, `mmap` (`map_exact`), `set_flags`, `swap_into` | mapper, kernel page tables |
| Scheduler | `task/scheduling.rs`, `cpu/local_state.rs` | global `PROCESSES` queue, per-thread running task and idle stack | `interrupt_task`, `yield_task`, `kill_task`, `next_task` | timer interrupt, syscalls, address spaces |
| Timers | `time/stopwatch.rs`, `time/local_timer` | counter source, calibrated frequency | `spin_wait`, `set_wait` | scheduler (preemption) |
| Interrupts | `structures/idt`, `interrupts/` | IDT vector → stub table | `__irq_handler`, exception `handle`, `syscall::process` | scheduler, x2APIC EOI |
| Descriptor tables | `structures/gdt.rs`, `structures/tss.rs` | the static GDT (`Once`), each thread's TSS and TR | `GlobalDescriptorTable::init`, `load_static`, `TaskStateSegment::load_local`, `SystemSegmentDescriptor::from_tss` | IDT (IST stacks), every exception entry |
| x2APIC | `devices/x2apic` | the SVR and LVT registers | `reset`, `set_enabled`, `send_interrupt_command`, EOI | timer, interrupts |

Several behaviours are hard to test. Hardware threads interleave at the
reclaim barriers and on the global process queue. A flag is read across a
barrier. Frame bits are tested and set under a read lock. Multi-page mappings
can fail partway. Counters wrap. `PROJECT.json` lists each hazard at the line
where it bites.

## Modules

### `MpReclaim` — `cpu/mod.rs` `begin_multiprocessing`, `_mp_entry`, `synchronize`

State:
- `pc`: the position of each hardware thread.
- `stackIn`: the reclaimable entry that holds each thread's stack. The
  bootloader chooses it, so it is a nondeterministic initial state.
- `entryToCheck` and `isEntryUsed`: the two statics.
- `count`, `gen` and `localGen`: the state of each `spin::Barrier`, whose
  `wait` is split at its spin loop (`BarrierArrive`, `BarrierLeave`).
- `locked`: the PMM bits of each entry.

The BSP's iterator chain is lazy, so each entry goes through both filters and
its frames are freed before the next entry is looked at. The model runs the
chain one entry at a time (`idx`) for this reason.

An entry is the unit of locking. The loop frees all of an entry's frames with
no barrier in between, so no other thread can observe a partly freed entry.
A failed `free_frame(..).unwrap()` is a panic. The model shows it as a disabled
step, which TLC reports as a deadlock.

After the loop each thread does `LocalState::init`, then
`core::arch::breakpoint()`. The `#BP` exception panics in `exceptions::handle`,
so the thread halts (`"halted"`).

Fairness: weak fairness for each hardware thread, because every started thread
keeps executing (spin loops included). An AP sent to `_idle_forever` takes no
more steps.

### `Scheduler` / `MCScheduler` — `task/scheduling.rs`, `__irq_handler` (`idt/stubs.rs`), `syscall::process`

State:
- `queue`: the shared `PROCESSES` deque. Its initial value is every ordering
  of the task set, because task creation (`load_drivers`) is commented out.
- `running`: each thread's `Scheduler.task`.
- `saved`: each task's saved context.
- `regs`: the register file the thread's interrupt returns to.
- `cr3`: each thread's CR3.
- `dead`: tasks dropped by `kill_task`.
- `truth`: a ghost holding the registers each task's own code last produced.

A handler runs with interrupts off and holds the `PROCESSES` mutex for its
whole queue manipulation, so each handler is one atomic step of its thread:
- `TimerInterrupt`: `interrupt_task` followed by `next_task`.
- `SyscallYield` and `SyscallExit`: `yield_task` / `kill_task` and
  `next_task`, then `__irq_handler`'s write of the result into `regs`.
- `SyscallNoSwitch`: the other syscalls.
- `TaskRuns`: the task's own code.

A register file is abstracted to the two result registers (`ret`) and the
rest (`gp`). An address space is named by its task.

No fairness is assumed, and every property is a safety property. Nothing
in the current kernel makes the timer fire:
- `x2Apic::reset` masks the LVT timer, and `begin_scheduling`, which would
  unmask it, is commented out;
- vector 0x21 would reach `__irq_handler` as irq 0x20 (the `idt_route`
  finding);
- `set_wait` writes a relative TSC deadline.

So no run claims that a queued task is eventually run. `TimerUnmasked` says
whether a timer interrupt can be taken at all. The runs set it to TRUE, as
`begin_scheduling` intends, so that what a preemption does is checked when
one happens.

### `Stopwatch` — `time/stopwatch.rs`

- `spin_wait`'s loop against a `CounterBits`-bit counter that wraps.
- `Tick` is the hardware.
- Between two reads at least `MinGap` and at most `MaxGap` ticks pass: port
  IO is slower than a tick, and MMIO can read the same value twice.
- The ghosts `real` and `counted` compare the ticks really elapsed with
  those the loop subtracted.
- Fairness: the counter runs on its own clock, and the loop never blocks.

### `Pmm` / `MCPmm` — `mem/pmm.rs`, `mem/alloc.rs`

`init` is an operator, `InitTable(map)`, of the memory map, built exactly as
the code builds it:
- `total_frames` from the last entry's end, rounded up;
- the slice length in whole words, and the table area;
- the first USABLE entry that fits;
- then the padding bits, the table's frames, the gaps between entries and the
  non-USABLE entries are set, each range `start/page .. end/page`.

`MCPmm` enumerates every memory map of up to three entries below address 6
that has the shape Limine reports: sorted, not overlapping, USABLE entries
page aligned. Pages are 2 units and words 2 bits, so that padding bits, gaps,
partial frames and a table frame all occur in maps this small. Maps where no
region can hold the table are left out, because `init` panics on them
(`expect`) before anything else runs.

After `init`, threads act as the kernel allocator's callers:
- `NextFrame` and `NextFrames` take the write lock and are one step each, and
  `NoneFree` leaves all state as it was.
- `Deallocate` queues the frames of one live allocation.
- `FreeFrameCheck`/`FreeFrameSet` and `LockFrameCheck`/`LockFrameSet` are the
  read-locked test and the atomic bit write. They are separate steps, so
  other readers can run between them. A writer waits until no thread is
  between the two.
- `owned` is a ghost: the frames each thread holds.
- `MaxAllocs` bounds the live allocations per thread. Since freed frames can
  be allocated again, behaviours do not end.

`LockCallers` is the set of threads that call `lock_frame` on a frame of
their choosing. No current caller passes `lock_frame = true` to
`Mapper::map`, so `pmm_frames` gives it to one thread only. With two such
threads, TLC finds both calls succeeding on the same free frame
(`OwnershipExclusive` fails after two `LockFrameCheck` steps). With one
caller the race cannot happen, so no run checks `OwnershipExclusive`. The
latent race is recorded as a hazard at `pmm.rs:257`.

No fairness is assumed: the properties are invariants.

### `PmmAbs` and the refinement of `Pmm`

`PmmAbs` is what the PMM promises its callers, with no bitmap: a set `free`
of frames, and the frames `held` by each thread. A thread acquires a
non-empty set of free frames or releases one frame it holds.

`Pmm` implements it under this mapping:
- `free` is the set of frames whose bit is clear;
- `held` is the ghost `owned`.

`AbsSpec == Abs!Spec` is checked as a property of `pmm_frames`. The steps
that refine no abstract step must leave both sets as they are. These steps are
`NoneFree`, a failed lock or free, the test half of a read-locked operation,
and a deallocation still queued. A bit set outside an allocation, or a frame
counted freed before its bit is cleared, breaks the refinement. TLC finds
that when `next_frames` is made to set one bit fewer than it hands out.

### `SchedulerAbs` and the refinement of `Scheduler`

`SchedulerAbs` is what round-robin preemption promises a task:
- each task has one register file, `ctx`, which only its own code changes;
- the tasks take turns on the threads in FIFO order (`Preempt`).

Only safety is stated, because the kernel does not arm the timer (see
`Scheduler`).

`Scheduler` implements it under one mapping: the `ctx` of a task is the
live `regs` of the thread that runs it, or its `saved` context otherwise.
`queue` and `running` map to themselves. Checked in `sched_timer`,
`AbsSpec` says the following together:
- a context switch saves and restores exactly;
- the queue rotates FIFO, whichever thread is preempted.

TLC finds it broken when `interrupt_task` puts the preempted task at the
front of the queue (`push_front`), so that it runs again ahead of the tasks
waiting. `ContextPreserved` does not notice that slip.

### `Idt` — `idt/mod.rs`, `idt/stubs.rs` `__irq_handler`, `devices/x2apic`, the end of `cpu/mod.rs` bring-up

One hardware thread from `x2Apic::reset` on.

State:
- `step`: the bring-up position. The steps are `reset`, `set_enabled(true)`,
  the debugging `breakpoint()`, `interrupts::enable` and the idle loop.
- `maxLvt`: the processor's `max_lvt_entry`, chosen in `Init` from 3 to 6.
  The performance-counter, thermal and CMCI entries exist when it is at
  least 4, 5 and 6 (`lvt_performance_counter` and the others).
- `svr` and `lvt`: the spurious-vector register and each LVT register as
  numbers. `GetVector`/`SetVector` (bits 0..8), `GetMasked`/`SetMasked`
  (bit 16) and `GetEnabled`/`SetEnabled` (SVR bit 8) are `LocalVector`'s and
  `x2Apic`'s accessors over `read_register`/`write_register`. The LVT
  registers start at their architectural reset value (masked, vector 0),
  and the SVR at 0xFF with the enable bit either way, since firmware may
  have left the APIC enabled.
- `ifl`: RFLAGS.IF.
- `irr` and `isr`: the APIC's pending and in-service vectors.
- `handling`: the vector being handled, together with the `irq_number` its
  stub passed.

Data:
- `Interrupts` is the `interrupts` array of `idt::init`, entry by entry.
  `IrqNumber(v)` is the number that vector `v`'s stub passes.
- `VectorValue` and `FromVector` are `Vector` and its `FromPrimitive`
  conversion, with `Unknown` as the default.

Actions:
- `Reset`: `x2Apic::reset` disables the APIC, sets the spurious vector and
  writes each present LVT entry's vector and mask (the timer masked).
- `Raise`: a present LVT entry whose mask bit is clear fires its vector
  field, while the SVR enable bit is set.
- `Deliver`: the highest pending vector whose priority class (`v \div 16`)
  is above every in-service one is delivered. The interrupt gate clears IF.
- `SpuriousInterrupt`: the APIC delivers 0xFF without an ISR bit.
- `IrqHandler`: `__irq_handler` as one step.
  - It dispatches on `Vector::from(irq_number)`.
  - The Timer and Syscall arms end with `end_of_interrupt`, which clears the
    highest in-service vector, and return.
  - The `unimplemented!()` default arm panics, and the thread halts.

The constant `Breakpoint` says whether `core::arch::breakpoint()` is compiled
into the bring-up. The code has it, and then the thread halts before
`interrupts::enable`. The runs take `Breakpoint = FALSE`, the spec's boot
order, so that the dispatch the breakpoint hides is checked.

Fairness:
- `BringUp`: the thread keeps executing.
- `Deliver`: the APIC delivers a pending vector whenever IF and the
  priority allow it.
- `IrqHandler`: a handler runs to completion, since nothing in it blocks.

### `Paging` / `MCPaging` — `mem/mod.rs` `init`, `mem/mapper.rs`, `task/address_space.rs`

The kernel page tables that `mem::init` builds on the BSP, then one user
`AddressSpace` driven through the kernel's `Mapper`. Everything runs on one
thread under the kernel mapper's mutex, so each call is one step.

Geometry: a table has `IndexSize` entries, and the root has depth
`MaxDepth`. An entry at depth `d` covers `Span(d)` pages: depth 1 is a 4 KiB
page, depth 2 a mega page, depth 3 a giga page. Addresses are page numbers.
`mem[f]` is the page table held in pool frame `f`. Frames that the memory map
describes are only ever targets of a translation.

State:
- `pc`: where the BSP is in `init`: `new`, `map`, `swap`, `done` or
  `panicked`.
- `memmap` and `image`: the bootloader's inputs, chosen in `Init`.
- `todo` and `rem`: the `map_range` calls still to make, and the current
  call's `remaining_length`.
- `mem` and `free`: the tables and the PMM's free frames.
- `kroot`, `cr3` and `uroot`: the kernel root, CR3 and the user root.

Actions:
- `MapperNew`: `Mapper::new` takes a zeroed root, or panics. Then one
  `map_range` is queued per memory-map entry (`EntryFlags` is the type
  match) and one per PT_LOAD segment, with length
  `max(p_memsz, p_align)`.
- `UnrecognizedEntry`: the `unreachable!()` arm.
- `MapRangeStep`: one iteration of `map_range`'s loop. It chooses the page
  size (`PageDepth`: giga, then mega, then 4K; only `from`'s alignment is
  tested), calls `mapper.map`, and panics on an error (the `expect`).
- `SwapInto`: CR3 gets the kernel root.
- `NewUserspace`: `copy_kernel_page_table` copies the root's entries.
- `Mmap`: `map_exact` then `invoke_mapper`: an `auto_map` per page that
  stops at the first error. `MmapAny` is `map_any`'s `todo!()`.
- `SetFlags`: `set_page_attributes` in Set mode, page by page; it stops at
  the first page with no leaf.
- `Unmap`: `Mapper::unmap`, with or without `free_frame`.

`with_entry_create` and `with_entry_mut` (`mem/paging/mod.rs`) and the
`TableEntryFlags` groups are not in the source tree. `WithEntryCreate`,
`LeafSlot` and the flag groups follow spec 4.4 and 4.5 and are marked
`spec_modelled`. `WithEntryCreate` allocates each missing table with
`next_frame`, zeroes it and links it `PRESENT | USER | WRITE`. A HUGE entry
on the way, or an empty pool, is an error, and the links already made stay.

`MCPaging` enumerates the inputs:
- every memory map of one or two sorted entries below frame 4, of types
  USABLE, RESERVED and BAD_MEMORY (BAD_MEMORY in one-entry maps only);
- kernel images at physical base 0 or 2, with a text segment (RX) and an
  optional data segment (RW), of alignment 1 or 2.

Properties (`paging_init`):
- `KernelMapTranslates`: once `init` is done, every page translates to
  exactly what the last `map_range` covering it asked for, and pages that no
  call covered are unmapped.
- `FreeFramesUnreferenced`: no free frame is a table or a mapped page of
  either tree.
- `UserPagesNotTables`: no user page translates to a frame that holds a page
  table. `auto_map` locks its data frame before `map` takes frames for the
  tables on the way.
- `AbsSpec`: the refinement of `AddressSpaceAbs`, described below.
- `InitTerminates`: `init` ends, in `done` or `panicked`. Every branch of
  `map_range` subtracts what it mapped (`Remaining`).

Fairness: `FairSpec` adds weak fairness of `init`'s steps (`InitSteps`).
`_entry` calls `mem::init` directly, and `init` waits on nothing. The user
phase gets no fairness, because no code in `src` calls it.

`CHECK_DEADLOCK FALSE`: a panic ends the thread, so a panicked state has no
successor. That is the only reason the model may stop: in `done`, `Mmap`
is always enabled, and it fails once the pool is empty.

### `AddressSpaceAbs` and the refinement of `Paging`

`AddressSpaceAbs` is what a user address space promises its client. There
are no page tables: `amap` says, for each lower-half page, that it is
unmapped or gives its frame and flags. The steps are:
- `MapPrefix`: the first `k` of `n` requested pages (possibly none, when
  the frames run out) are mapped with the given flags, each to a frame that
  no page maps and no other new page shares;
- `SetPrefix`: the pages from the start of the range up to the first
  unmapped one get the new flags;
- `UnmapPage`: a mapped page becomes unmapped.

`Paging` implements it with `amap` as `UserView`: what each user page
translates to through `uroot`, or nothing before `new_userspace`. `AbsSpec`
checks each of these:
- `mem::init` and `new_userspace` leave the lower half empty;
- `invoke_mapper`'s `try_for_each` leaves exactly a prefix mapped;
- `auto_map`'s frames are fresh and distinct;
- `set_flags` and `unmap` change only what they promise.

TLC finds the refinement broken when `next_frame` hands out a frame without
locking it. `MapPrefix` is stated as a condition on `amap'`, so the module is
checked as a property and not run. The stuttering case is tested first, which
keeps the run to about two minutes.

The abstract maps an already-mapped page again, as `map_exact` does:
`with_entry_create` overwrites the entry, and the old frame is neither
mapped nor freed. Spec 4.5 says `mmap` with an address fails if any page is
already mapped. `PROJECT.json` lists this as a hazard, without a run slot.

### `Gdt` — `structures/gdt.rs`, `structures/tss.rs`, `configure_hwthread`

The descriptor tables each hardware thread sets up in `configure_hwthread`.
A descriptor, a table entry and an address are each the set of their 1 bits.
So `get_bits` and `set_bits` over a range are set operations, and 64- and
128-bit words keep their full width.

State:
- `gdt`: the `GlobalDescriptorTable` singleton, or `NoGdt` before its `Once`
  runs.
- `stage`: each thread's position: `configure`, `tss`, `up` or `halted`.
- `tss`: the address of the TSS each thread allocated.
- `tr`: the base each thread's TR holds after `ltr`.
- `stack`: the owner and IST index of the stack an exception entry took.

Actions:
- `ConfigureHwthread`: `GlobalDescriptorTable::init` builds `StaticGdt` on
  the first call: null, kernel code, kernel data, user data, user code. The
  entries are `GenericSegmentDescriptor::new`'s bits.
- `LoadLocal`: `TaskStateSegment::load_local`. A fresh higher-half address is
  chosen, and `from_tss` builds the 128-bit descriptor (`WithBase` writes the
  four `BaseRanges` in the code's order). The descriptor is appended to a
  copy of the table at `len`, and `ltr` decodes its type and base the way
  the processor does. A type other than 0x9 is a #GP.
- `IstException`: #DB, NMI, #DF or #MC. The processor takes the stack from
  `interrupt_stack_table[slot - 1]` of the TSS at TR's base. That memory
  belongs to whichever thread's TSS is there, or to none ("garbage").

There is no fairness; `IstStacksOwn` is an invariant. The threads' steps are
separate so that the `Once` and the two allocations interleave.

## Runs

The run budget is twelve. Earlier violation runs are now kept as hazard
notes in `PROJECT.json`:
- `nomp_hang`: `ReclaimTerminates` fails with `--nomp` (`cpu/mod.rs:133`);
- `stopwatch_short`: `ticks_per_us` truncates (`stopwatch.rs:84`);
- `sched_syscall_clobber`: with the syscall vector enabled, `ContextPreserved`
  fails, because a yield's result is written into the next task's registers
  (`idt/stubs.rs:194`). It gave way to `paging_init`.
- `pmm_reserved`: a last reserved entry ending inside a page leaves that frame
  free (`pmm.rs:163`, spec 4.2 (b)). `Pmm` still defines
  `ReservedFramesLocked`; the run gave way to `gdt_tss`.

| Run | Config | Expect | What it shows |
|---|---|---|---|
| `mp_reclaim` | `MpReclaim_mp.cfg` | pass | 3 threads, 3 entries. `UsedFlagExact`: when the BSP loads the flag, it says exactly whether some AP's stack is in the entry. `ApExitOnlyAtEnd`: no AP leaves early. `ReclaimTerminates`: every thread gets through. |
| `mp_stack_freed` | `MpReclaim_mp_stack.cfg` | violation | `StackFramesStayLocked` (spec S6) fails. The filter returns `IS_ENTRY_USED.load()`, so the entry with an AP's stack is the one freed (`cpu/mod.rs:184`). |
| `single_reclaim` | `MpReclaim_single.cfg` | pass | With no MP response the BSP alone eventually frees every entry except its own stack's (`UnusedEntriesReclaimed`). |
| `sched_timer` | `Scheduler_timer.cfg` | pass | 2 threads, 3 tasks, preemption only. Contexts are restored exactly (`ContextPreserved`). `AbsSpec`: every preemption is one FIFO rotation of `SchedulerAbs` (safety only). |
| `sched_syscalls` | `Scheduler_syscalls.cfg` | pass | With yields, exits and other syscalls too, a live task is in exactly one place (`TaskExclusive`). Symmetry over threads and tasks is used; the run is safety only. |
| `paging_init` | `Paging_init.cfg` | pass | Over every input, `mem::init` either panics or builds tables that translate exactly as requested. A user address space stays faithful to its last successful calls. No free frame is in use, and no user page is a page table. Under fairness of `init`'s steps, `init` always ends. |
| `stopwatch_io` | `Stopwatch_io.cfg` | pass | With reads at least one tick apart, the elapsed accounting never credits more ticks than passed, across wraps. |
| `stopwatch_mmio` | `Stopwatch_mmio.cfg` | violation | Two equal reads are counted as a wrap, so the wait ends at once (`stopwatch.rs:146`). |
| `pmm_frames` | `Pmm_frames.cfg` | pass | Over every map, `init` never locks a frame wholly in USABLE memory outside the table (`UsableFramesFree`). With two threads allocating, freeing and, for one of them, locking, the set bits stay exactly `init`'s plus the frames held (`FramesAccounted`, spec 4.2 property 1). `AbsSpec`: the PMM refines `PmmAbs`. |
| `idt_dispatch` | `Idt_dispatch.cfg` | pass | For every `max_lvt_entry` from 3 to 6, a vector raised and pending is eventually delivered and EOI'd, or the thread has halted in a panicking arm (`PendingServed`). A missing EOI blocks the whole priority class 0x20..0x2F. |
| `idt_route` | `Idt_route.cfg` | violation | `DispatchedAsRaised` fails. The Error vector 0x22 reaches `__irq_handler` as irq 0x21 (Timer), because the `interrupts` array is shifted by its leading entry 128 (`idt/mod.rs:482`). |
| `gdt_tss` | `Gdt_tss.cfg` | violation | `IstStacksOwn` fails. `from_tss` writes base bits 16..23 into descriptor bits 56..64 and then overwrites them with bits 24..31 (`BASE_BIT_RANGE_2`, `gdt.rs:381`). TR then points at the wrong memory, and #DB, NMI, #DF and #MC switch to a stack that is not the thread's own. |

Bounds:
- **Three threads** give two APs. Two APs can arrive at a barrier in either
  order relative to the BSP, and each can be last.
- **Three entries** let an entry hold an AP's stack, the BSP's stack or none,
  and make each barrier round repeat, so generation reuse is exercised.
- **Nine entries** in the single-thread run. This path has no interleaving,
  so the length of the memory map is its only dimension.
- **Two threads and three tasks** in the scheduler. A task can wait while the
  others run on both threads, and a task can move from one thread to the
  other. Two register values tell a restored context from a clobbered one.
- **A 3-bit counter** in the stopwatch wraps within a few reads. Durations of
  1 to 3 µs cover waits shorter and longer than one period.
- **Maps below address 6 with up to three entries** cover:
  - leading and middle gaps;
  - contiguous and separated entries;
  - odd ends of reserved entries;
  - the table in the first or a later USABLE entry.
- **One thread, `max_lvt_entry` 3 to 6** in `Idt`. Every combination of
  optional entries a processor can report occurs, and with 6 every vector
  the APIC can raise. Error and the optional vectors share
  class 2, so delivery order and EOI blocking within a class both happen.
  Vectors are delivered one at a time per thread, so a second thread adds
  nothing.
- **Two threads holding at most two allocations each** exhaust the two or
  three free frames of these maps. This reaches `NoneFree`, makes 2-frame
  windows fragment, and makes frames freed by one thread get reallocated by
  the other.

- **Paging: two-entry tables, four levels**, so 16 pages, with mega pages of
  2 and giga pages of 4. Every page size and every alignment case of
  `map_range` occurs. The HHDM is at 8 and the kernel at 12, so the two share
  no giga entry. The pool has nine frames, which `init` uses part of, so the
  user phase reaches an empty pool partway through an `mmap`. The user pages
  0..2 with counts 1 and 2 let a range straddle a mega boundary.

- **Gdt: two threads, 16 TSS addresses.** Each address is in the higher
  half (bits 47..63 set) with or without one bit in each of the four base
  ranges (bits 4, 20, 28 and 40). So a TSS differs from another in any one
  range, and the two threads' TSSs can differ only in the lost bits 16..23.

## Not modelled

- CR0/CR3/CR4, EFER and the other MSRs, and CPUID in `configure_hwthread`.
  These are straight-line writes at start-up.
- `load_static`'s segment register loads and the far return, which change no
  state the `Gdt` model keeps.
- `process_klog`'s page walk (`syscall.rs:64`). Its `step_by` from an
  unaligned start can skip the string's last page. What a skipped page does
  depends on `task::demand_map` and `exceptions/page_fault.rs`, and neither
  is in the tree. It is kept as a hazard.
- The SDM rule that LVT writes cannot clear a mask while the APIC is
  software-disabled. `x2Apic::reset` programs the LVT with the APIC disabled,
  so on hardware every entry stays masked. `Idt` follows the code's intent
  and lets the writes take effect.
- Logging, panic tracing and ACPI table lookup, which are formatting and
  lookup.
- `rand`.
- The host build tooling in `xtask`.
- `LocalTimer` (`time/local_timer`). Its frequencies (10^6 to 10^10 Hz)
  and products exceed TLC's 32-bit integers. Its defects are arithmetic
  and are listed as hazards in `PROJECT.json`:
  - kHz used as Hz;
  - the CPUID leaf 0x16 formula, which gives 0;
  - a relative TSC deadline;
  - truncation to 0.
  `Scheduler` therefore makes no claim that the preemption timer fires.
- The exception entries of the IDT (vectors 0..31) and `exceptions::handle`.
  Every exception except the page fault panics. `page_fault.rs` is not in the
  sources. Vectors 21 and 28..30 have no entry, although spec property 7
  lists them.
- The x2APIC's interrupt command register and timer modes. These are
  register writes with no caller that changes state in the current code.
- `paging/walker.rs`. Its only user, `map_any`, is commented out and ends
  in `todo!()`. It would descend into HUGE entries as if they were tables.
- `mmap`'s page-range overrun (`Address::from_index` failing) and the upper
  half from a user address space. No code in `src` calls `mmap`, and the
  `libsys` address types are not in the tree. The model's clients stay in
  `UserPages`.
- The generated assembly stubs in `idt/stubs.rs`, apart from the handler they
  call.
