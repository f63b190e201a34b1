------------------------------ MODULE Paging --------------------------------
(***************************************************************************)
(* The kernel page tables built by mem::init on the bootstrap thread, and  *)
(* the page-table Mapper of mem/mapper.rs as the AddressSpace of           *)
(* task/address_space.rs drives it for one user address space.             *)
(*                                                                         *)
(* Addresses are in pages.  A table holds IndexSize entries; an entry at   *)
(* depth d covers Span(d) pages (depth 1: 4 KiB pages, 2: mega, 3: giga),  *)
(* and the root table has depth MaxDepth.  Page tables live in frames of   *)
(* the PMM's free pool, the only frames whose contents the model keeps:    *)
(* mem[f] is the table in frame f.  The frames the bootloader's memory map *)
(* describes are only ever targets of a translation.                       *)
(*                                                                         *)
(* Everything here runs on one thread, with the kernel mapper's mutex      *)
(* held, so each call is one step.                                         *)
(***************************************************************************)
EXTENDS Naturals, Sequences, FiniteSets, FiniteSetsExt

CONSTANTS
  IndexSize,    \* table_index_size()
  MaxDepth,     \* TableDepth::max()
  UseMega,      \* paging::use_mega_pages()
  UseGiga,      \* paging::use_giga_pages()
  Hhdm,         \* the higher-half direct map's base
  KernelBase,   \* kernel_virtual_address
  Pool,         \* frames free in the PMM when mem::init starts
  Maps,         \* memory maps the bootloader may report
  Images,       \* kernel executables: physical base and PT_LOAD segments
  UserPages,    \* pages of the lower half a client of AddressSpace uses
  Counts,       \* page counts a client passes
  Perms         \* MmapPermissions a client passes

ASSUME IndexSize >= 2 /\ MaxDepth >= 3 /\ Pool \subseteq Nat \ {0}

Span(d) == IndexSize ^ (d - 1)
Pages == 0 .. Span(MaxDepth + 1) - 1

(* The table index of a page at a depth: its address bits for that level. *)
Index(p, d) == (p \div Span(d)) % IndexSize

(* TableEntryFlags and its permission groups.                              *)
RW == {"PRESENT", "WRITE", "NO_EXECUTE"}
RO == {"PRESENT", "NO_EXECUTE"}
RX == {"PRESENT"}
TableLink == {"PRESENT", "USER", "WRITE"}
Flags == {"PRESENT", "WRITE", "USER", "NO_EXECUTE", "HUGE"}

Empty == [frame |-> 0, flags |-> {}]
EmptyTable == [i \in 0 .. IndexSize - 1 |-> Empty]
NoFrame == 0
Unmapped == [frame |-> 0, flags |-> {}]
Unrecognized == {"unreachable"}

(* The match on entry.entry_type in init's for_each.                       *)
EntryFlags(type) ==
  CASE type \in {"USABLE", "ACPI_NVS", "ACPI_RECLAIMABLE",
                 "BOOTLOADER_RECLAIMABLE", "FRAMEBUFFER"} -> RW
    [] type \in {"RESERVED", "EXECUTABLE_AND_MODULES"} -> RO
    [] OTHER -> Unrecognized

(* The map_range call for each memory map entry: HHDM page to its frame.   *)
MemoryMapRanges(m) ==
  [i \in 1 .. Len(m) |->
     [from |-> Hhdm + m[i].base, to |-> m[i].base, len |-> m[i].len,
      flags |-> EntryFlags(m[i].type)]]

(* The map_range call for each PT_LOAD segment, of length                  *)
(* max(p_memsz, p_align), at the same offset from both bases.              *)
SegmentRanges(img) ==
  [i \in 1 .. Len(img.segments) |->
     LET s == img.segments[i]
     IN [from |-> KernelBase + s.offset, to |-> img.phys + s.offset,
         len |-> Max({s.memsz, s.align}), flags |-> s.flags]]

(* map_range's choice for the next page: giga if enabled, at least a giga  *)
(* page remains and `from` is aligned to one, else mega likewise, else 4K. *)
(* Mutant: the giga branch without the remaining-length check.            *)
PageDepthNoSize(from, rem) ==
  CASE UseGiga /\ from % Span(3) = 0 -> 3
    [] UseMega /\ rem >= Span(2) /\ from % Span(2) = 0 -> 2
    [] OTHER -> 1

(* Mutant: the mega branch without the alignment check on `from`.         *)
PageDepthUnaligned(from, rem) ==
  CASE UseGiga /\ rem >= Span(3) /\ from % Span(3) = 0 -> 3
    [] UseMega /\ rem >= Span(2) -> 2
    [] OTHER -> 1

PageDepth(from, rem) ==
  CASE UseGiga /\ rem >= Span(3) /\ from % Span(3) = 0 -> 3
    [] UseMega /\ rem >= Span(2) /\ from % Span(2) = 0 -> 2
    [] OTHER -> 1

(* Mutant: the mega branch forgets `remaining_length -= mega_page_size()`. *)
RemainingMegaKept(rem, d) ==
  CASE d = 2 -> rem
    [] d = 1 -> rem - Min({Span(1), rem})
    [] OTHER -> rem - Span(d)

(* remaining_length after one page of depth d: a whole giga or mega page,  *)
(* or min(page_size(), remaining_length) for a 4K page.                    *)
Remaining(rem, d) ==
  IF d = 1 THEN rem - Min({Span(1), rem}) ELSE rem - Span(d)

-----------------------------------------------------------------------------
(* The table walks.  A present entry above depth 1 without HUGE points to  *)
(* the next table; with HUGE, or at depth 1, it is the leaf.              *)

(* with_entry_create(page, depth, f): descend from the root to `target`,   *)
(* allocating each missing table with next_frame, zeroing it and linking   *)
(* it PRESENT | USER | WRITE; then f sets the entry.  A huge leaf above    *)
(* the target cannot be descended through and is an error, as is an empty  *)
(* pool.  Tables linked before an error stay linked.                       *)
RECURSIVE WithEntryCreate(_, _, _, _, _, _, _)
WithEntryCreate(m, fr, t, d, p, target, e) ==
  LET i == Index(p, d)
      x == m[t][i]
  IN CASE d = target ->
            [mem |-> [m EXCEPT ![t][i] = e], free |-> fr, err |-> "none"]
       [] "PRESENT" \in x.flags /\ "HUGE" \in x.flags ->
            [mem |-> m, free |-> fr, err |-> "huge"]
       [] "PRESENT" \in x.flags ->
            WithEntryCreate(m, fr, x.frame, d - 1, p, target, e)
       [] fr = {} ->
            [mem |-> m, free |-> fr, err |-> "NoneFree"]
       [] OTHER ->
            LET n == Min(fr)
            IN WithEntryCreate([m EXCEPT ![t][i] = [frame |-> n, flags |-> TableLink],
                                         ![n] = EmptyTable],
                               fr \ {n}, n, d - 1, p, target, e)

(* The present leaf entry of a page, as [table, depth], or NoSlot: the     *)
(* walk of with_entry / with_entry_mut with no depth given.               *)
NoSlot == [table |-> NoFrame, depth |-> 0]
RECURSIVE LeafSlot(_, _, _, _)
LeafSlot(m, t, d, p) ==
  LET x == m[t][Index(p, d)]
  IN CASE "PRESENT" \notin x.flags -> NoSlot
       [] d = 1 \/ "HUGE" \in x.flags -> [table |-> t, depth |-> d]
       [] OTHER -> LeafSlot(m, x.frame, d - 1, p)

(* get_mapped_to and get_page_attributes: the frame a page reaches and    *)
(* the attributes of its leaf, or Unmapped.                                *)
Translate(m, root, p) ==
  LET s == LeafSlot(m, root, MaxDepth, p)
      x == m[s.table][Index(p, s.depth)]
  IN IF s = NoSlot THEN Unmapped
     ELSE [frame |-> x.frame + (p % Span(s.depth)), flags |-> x.flags \ {"HUGE"}]

-----------------------------------------------------------------------------
VARIABLES
  pc,       \* the BSP in mem::init: "new", "map", "swap", "done", "panicked"
  memmap,   \* the memory map the bootloader reported
  image,    \* the kernel executable it loaded
  todo,     \* map_range calls still to make, the current one first
  rem,      \* remaining_length of the current map_range
  mem,      \* the page tables, by frame
  free,     \* frames the PMM still has free
  kroot,    \* KERNEL_MAPPER's root frame
  cr3,      \* CR3's root frame
  uroot     \* the user AddressSpace's root frame, or NoFrame

vars == <<pc, memmap, image, todo, rem, mem, free, kroot, cr3, uroot>>

(* The start of the next map_range call: its remaining_length.             *)
Start(q) == IF q = <<>> THEN 0 ELSE Head(q).len

Init ==
  /\ memmap \in Maps
  /\ image \in Images
  /\ pc = "new"
  /\ todo = <<>>
  /\ rem = 0
  /\ mem = [f \in Pool |-> EmptyTable]
  /\ free = Pool
  /\ kroot = NoFrame
  /\ cr3 = NoFrame
  /\ uroot = NoFrame

(* Mapper::new(TableDepth::max()): a zeroed root from next_frame, or the  *)
(* expect's panic; then init queues one map_range per memory map entry,    *)
(* in map order, and one per PT_LOAD segment.                              *)
MapperNew ==
  /\ pc = "new"
  /\ IF free = {}
       THEN /\ pc' = "panicked"
            /\ UNCHANGED <<todo, rem, mem, free, kroot>>
       ELSE LET n == Min(free)
                q == MemoryMapRanges(memmap) \o SegmentRanges(image)
            IN /\ kroot' = n
               /\ free' = free \ {n}
               /\ mem' = [mem EXCEPT ![n] = EmptyTable]
               /\ todo' = q
               /\ rem' = Start(q)
               /\ pc' = "map"
  /\ UNCHANGED <<memmap, image, cr3, uroot>>

(* An entry type outside the match reaches unreachable!().                 *)
UnrecognizedEntry ==
  /\ pc = "map"
  /\ todo # <<>>
  /\ Head(todo).flags = Unrecognized
  /\ pc' = "panicked"
  /\ UNCHANGED <<memmap, image, todo, rem, mem, free, kroot, cr3, uroot>>

(* One iteration of map_range's loop: the page size for what remains,      *)
(* mapper.map(from, depth, to, false, flags [| HUGE]) with the expect's    *)
(* panic on an error, and remaining_length reduced by the page size.  The *)
(* next call starts when nothing remains (the usize is 0).                 *)
MapRangeStep ==
  /\ pc = "map"
  /\ todo # <<>>
  /\ Head(todo).flags # Unrecognized
  /\ LET r == Head(todo)
         off == r.len - rem
         d == PageDepth(r.from + off, rem)
         attrs == IF d > 1 THEN r.flags \cup {"HUGE"} ELSE r.flags
         res == WithEntryCreate(mem, free, kroot, MaxDepth, r.from + off, d,
                                [frame |-> r.to + off, flags |-> attrs])
         left == Remaining(rem, d)
     IN IF res.err # "none"
          THEN /\ pc' = "panicked"
               /\ UNCHANGED <<todo, rem, mem, free>>
          ELSE /\ mem' = res.mem
               /\ free' = res.free
               /\ IF left # 0
                    THEN /\ rem' = left
                         /\ UNCHANGED <<todo, pc>>
                    ELSE /\ todo' = Tail(todo)
                         /\ rem' = Start(Tail(todo))
                         /\ pc' = IF Tail(todo) = <<>> THEN "swap" ELSE "map"
  /\ UNCHANGED <<memmap, image, kroot, cr3, uroot>>

(* kernel_mapper.swap_into(): CR3 gets the kernel root; KERNEL_MAPPER is  *)
(* set and init returns.                                                    *)
SwapInto ==
  /\ pc = "swap"
  /\ cr3' = kroot
  /\ pc' = "done"
  /\ UNCHANGED <<memmap, image, todo, rem, mem, free, kroot, uroot>>

-----------------------------------------------------------------------------
(* The user AddressSpace.  A client stays in the lower half (UserPages).   *)

(* From<MmapPermissions> for TableEntryFlags.                              *)
MmapFlags == [ReadExecute |-> RX, ReadWrite |-> RW, ReadOnly |-> RO]

(* copy_kernel_page_table: a frame from next_frame filled with the kernel  *)
(* root's entries, under the kernel mapper's lock; new_userspace unwraps.  *)
NewUserspace ==
  /\ pc = "done"
  /\ uroot = NoFrame
  /\ IF free = {}
       THEN /\ pc' = "panicked"
            /\ UNCHANGED <<mem, free, uroot>>
       ELSE LET n == Min(free)
            IN /\ uroot' = n
               /\ free' = free \ {n}
               /\ mem' = [mem EXCEPT ![n] = mem[kroot]]
               /\ pc' = pc
  /\ UNCHANGED <<memmap, image, todo, rem, kroot, cr3>>

(* Mutant: map's tables are taken from the pool as it was before        *)
(* next_frame locked the data frame.                                       *)
AutoMapUnlocked(m, fr, p, flags) ==
  IF fr = {} THEN [mem |-> m, free |-> fr, err |-> "NoneFree", frame |-> NoFrame]
  ELSE LET n == Min(fr)
           res == WithEntryCreate(m, fr, uroot, MaxDepth, p, 1,
                                  [frame |-> n, flags |-> flags])
       IN [mem |-> res.mem, free |-> res.free \ {n}, err |-> res.err, frame |-> n]

(* Mutant: next_frame hands out the frame without setting its bit.        *)
AutoMapNotLocked(m, fr, p, flags) ==
  IF fr = {} THEN [mem |-> m, free |-> fr, err |-> "NoneFree", frame |-> NoFrame]
  ELSE LET n == Min(fr)
           res == WithEntryCreate(m, fr, uroot, MaxDepth, p, 1,
                                  [frame |-> n, flags |-> flags])
       IN [mem |-> res.mem, free |-> res.free, err |-> res.err, frame |-> n]

(* auto_map(page, flags): next_frame, then map at the leaf depth.  A      *)
(* failing map returns its error with the frame taken.                     *)
AutoMap(m, fr, p, flags) ==
  IF fr = {} THEN [mem |-> m, free |-> fr, err |-> "NoneFree", frame |-> NoFrame]
  ELSE LET n == Min(fr)
           res == WithEntryCreate(m, fr \ {n}, uroot, MaxDepth, p, 1,
                                  [frame |-> n, flags |-> flags])
       IN [mem |-> res.mem, free |-> res.free, err |-> res.err, frame |-> n]

(* invoke_mapper: auto_map each page in turn; try_for_each stops at the    *)
(* first error and leaves the pages before it mapped.                      *)
RECURSIVE InvokeMapper(_, _, _, _)
InvokeMapper(m, fr, ps, flags) ==
  IF ps = <<>> THEN [mem |-> m, free |-> fr]
  ELSE LET res == AutoMap(m, fr, Head(ps), flags)
       IN IF res.err # "none"
            THEN [mem |-> res.mem, free |-> res.free]
            ELSE InvokeMapper(res.mem, res.free, Tail(ps), flags)

(* mmap(Some(address), count, permissions), through map_exact: the pages   *)
(* get PRESENT | USER | the permission's flags.                            *)
Mmap(a, n, perm) ==
  /\ pc = "done"
  /\ uroot # NoFrame
  /\ \A i \in 0 .. n - 1 : a + i \in UserPages
  /\ LET res == InvokeMapper(mem, free, [i \in 1 .. n |-> a + i - 1],
                             {"PRESENT", "USER"} \cup MmapFlags[perm])
     IN /\ mem' = res.mem
        /\ free' = res.free
  /\ UNCHANGED <<pc, memmap, image, todo, rem, kroot, cr3, uroot>>

(* mmap(None, ..) goes to map_any, which is todo!().                       *)
MmapAny ==
  /\ pc = "done"
  /\ uroot # NoFrame
  /\ pc' = "panicked"
  /\ UNCHANGED <<memmap, image, todo, rem, mem, free, kroot, cr3, uroot>>

(* set_flags: set_page_attributes(page, None, flags, Set) on each page in  *)
(* turn, through with_entry_mut, which fails with NotMapped on a page with *)
(* no present leaf; the `?` stops the loop there.                          *)
RECURSIVE SetAttributesAll(_, _, _)
SetAttributesAll(m, ps, fl) ==
  LET s == LeafSlot(m, uroot, MaxDepth, Head(ps))
  IN IF ps = <<>> \/ s = NoSlot THEN m
     ELSE SetAttributesAll([m EXCEPT ![s.table][Index(Head(ps), s.depth)].flags = fl],
                           Tail(ps), fl)

SetFlags(a, n, perm) ==
  /\ pc = "done"
  /\ uroot # NoFrame
  /\ \A i \in 0 .. n - 1 : a + i \in UserPages
  /\ mem' = SetAttributesAll(mem, [i \in 1 .. n |-> a + i - 1],
                             {"PRESENT", "USER"} \cup MmapFlags[perm])
  /\ UNCHANGED <<pc, memmap, image, todo, rem, free, kroot, cr3, uroot>>

(* Mutant: the frame is freed but the entry is left present.              *)
UnmapKeep(p, freeFrame) ==
  /\ pc = "done"
  /\ uroot # NoFrame
  /\ LET s == LeafSlot(mem, uroot, MaxDepth, p)
         x == mem[s.table][Index(p, s.depth)]
     IN /\ s # NoSlot
        /\ free' = IF freeFrame /\ x.frame \in Pool \ free THEN free \cup {x.frame} ELSE free
  /\ UNCHANGED <<pc, memmap, image, todo, rem, mem, kroot, cr3, uroot>>

(* Mapper::unmap(page, None, free_frame): through with_entry_mut, clear    *)
(* PRESENT and the frame, then free_frame, whose error is returned after   *)
(* the entry was already cleared.                                           *)
Unmap(p, freeFrame) ==
  /\ pc = "done"
  /\ uroot # NoFrame
  /\ LET s == LeafSlot(mem, uroot, MaxDepth, p)
         i == Index(p, s.depth)
         x == mem[s.table][i]
     IN /\ s # NoSlot
        /\ mem' = [mem EXCEPT ![s.table][i] = [frame |-> 0, flags |-> x.flags \ {"PRESENT"}]]
        /\ free' = IF freeFrame /\ x.frame \in Pool \ free THEN free \cup {x.frame} ELSE free
  /\ UNCHANGED <<pc, memmap, image, todo, rem, kroot, cr3, uroot>>

Next ==
  \/ MapperNew
  \/ UnrecognizedEntry
  \/ MapRangeStep
  \/ SwapInto
  \/ NewUserspace
  \/ MmapAny
  \/ \E a \in UserPages, n \in Counts, perm \in Perms :
       Mmap(a, n, perm) \/ SetFlags(a, n, perm)
  \/ \E p \in UserPages, b \in BOOLEAN : Unmap(p, b)

Spec == Init /\ [][Next]_vars

(* mem::init runs on the BSP from _entry with nothing to wait for: each of *)
(* its steps is taken once enabled.  The user phase has no such promise.   *)
InitSteps == MapperNew \/ UnrecognizedEntry \/ MapRangeStep \/ SwapInto

FairSpec == Spec /\ WF_vars(InitSteps)

-----------------------------------------------------------------------------
Entries == [frame : Nat, flags : SUBSET Flags]

TypeOK ==
  /\ pc \in {"new", "map", "swap", "done", "panicked"}
  /\ mem \in [Pool -> [0 .. IndexSize - 1 -> Entries]]
  /\ free \subseteq Pool
  /\ {kroot, cr3, uroot} \subseteq Pool \cup {NoFrame}
  /\ rem \in Nat

(* The translation the map_range calls ask for: a page in the range of    *)
(* some call reaches that call's frame at the same offset, with its flags; *)
(* where calls overlap the later one is the one that holds.                *)
Requested(p) ==
  LET rs == MemoryMapRanges(memmap) \o SegmentRanges(image)
      hits == {i \in 1 .. Len(rs) : rs[i].from <= p /\ p < rs[i].from + rs[i].len}
  IN IF hits = {} THEN Unmapped
     ELSE LET r == rs[Max(hits)]
          IN [frame |-> r.to + (p - r.from), flags |-> r.flags]

(* When mem::init has built the kernel page tables, every page translates *)
(* as the memory map and the kernel's segments ask and no other page is    *)
(* mapped: map_range's choice of page size, its remaining-length           *)
(* arithmetic and the table creation under it add up to exactly the        *)
(* requested ranges (spec 4.4, page-size policy; S2).                      *)
KernelMapTranslates ==
  pc = "done" => \A p \in Pages : Translate(mem, kroot, p) = Requested(p)

(* The frames reachable from a table: the tables below it and the frames  *)
(* its leaves point to.                                                     *)
RECURSIVE Reachable(_, _, _)
Reachable(m, t, d) ==
  {t} \cup
  UNION {IF d = 1 \/ "HUGE" \in m[t][i].flags THEN {m[t][i].frame}
         ELSE Reachable(m, m[t][i].frame, d - 1) :
           i \in {j \in 0 .. IndexSize - 1 : "PRESENT" \in m[t][j].flags}}

InUse == UNION {Reachable(mem, r, MaxDepth) : r \in {kroot, uroot} \ {NoFrame}}

(* No frame the PMM counts as free is a table or a mapped page of the      *)
(* kernel or the user address space: next_frame's frames for new tables,   *)
(* auto_map's frames and unmap's free_frame never hand out or return a     *)
(* frame that is still in use.                                              *)
FreeFramesUnreferenced == free \cap InUse = {}

(* The page tables that hold a present entry of either tree.               *)
RECURSIVE Tables(_, _, _)
Tables(m, t, d) ==
  {t} \cup
  UNION {IF d = 1 \/ "HUGE" \in m[t][i].flags THEN {} ELSE Tables(m, m[t][i].frame, d - 1) :
           i \in {j \in 0 .. IndexSize - 1 : "PRESENT" \in m[t][j].flags}}

(* No user page translates to a frame that holds a page table of the user  *)
(* or the kernel tree: the frame auto_map takes from next_frame is locked  *)
(* before map allocates the tables on the way, so a client writing its own *)
(* page can never rewrite a translation.                                    *)
UserPagesNotTables ==
  uroot # NoFrame =>
    \A p \in UserPages :
      Translate(mem, uroot, p).frame \notin
        UNION {Tables(mem, r, MaxDepth) : r \in {kroot, uroot}}

(* mem::init ends: map_range's remaining-length arithmetic brings every    *)
(* call to zero, so the BSP reaches swap_into and returns, or panics.      *)
InitTerminates == <>(pc \in {"done", "panicked"})

(* The lower half as its client sees it: what each page translates to     *)
(* through the user root, or nothing before new_userspace.                 *)
UserView ==
  [p \in UserPages |-> IF uroot = NoFrame THEN Unmapped ELSE Translate(mem, uroot, p)]

Abs == INSTANCE AddressSpaceAbs
         WITH amap <- UserView, Frames <- Pool,
              FlagSets <- {{"PRESENT", "USER"} \cup MmapFlags[perm] : perm \in Perms}

(* Every step of the kernel and of the AddressSpace implements what an     *)
(* address space promises (AddressSpaceAbs): invoke_mapper's try_for_each  *)
(* leaves a mapped prefix of fresh frames, set_flags stops at the first    *)
(* unmapped page, unmap clears the page, and mem::init and new_userspace   *)
(* leave the lower half empty (spec 4.5, property 3).                      *)
AbsSpec == Abs!Init /\ [][UNCHANGED UserView \/ Abs!Next]_UserView

=============================================================================
