------------------------------- MODULE Pmm ---------------------------------
(***************************************************************************)
(* The physical memory manager of mem/pmm.rs and the kernel allocator of  *)
(* mem/alloc.rs that is its main client.                                   *)
(*                                                                         *)
(* init builds a bitmap of frames from the bootloader's memory map; a set *)
(* bit means locked.  The map is a sequence of entries [base, len,        *)
(* usable] in address units, and a page is 2^PageShift units.  The table  *)
(* is a slice of usize words of 2^WordShift bits and WordBytes units each. *)
(*                                                                         *)
(* After init, hardware threads allocate and free frames concurrently.    *)
(* next_frame / next_frames take the table's write lock and are one step; *)
(* lock_frame / free_frame take the read lock, test the bit and then set  *)
(* or clear it with an atomic bit operation: two steps, between which     *)
(* other readers run.  A thread holding the read lock is at "lock_set" or *)
(* "free_set"; the write lock is acquired only when no thread is.         *)
(***************************************************************************)
EXTENDS Naturals, Sequences, SequencesExt, FiniteSets

CONSTANTS
  Maps,           \* memory maps the bootloader may report
  PageShift,      \* page_shift()
  WordShift,      \* usize::BITS.trailing_zeros()
  WordBytes,      \* size_of::<usize>() in address units
  Threads,        \* hardware threads using the allocator
  Sizes,          \* allocation sizes, in frames
  MaxAllocs,      \* live allocations one thread may hold
  LockCallers     \* threads that call lock_frame on frames of their choosing

ASSUME PageShift \in Nat /\ WordShift \in Nat /\ WordBytes \in Nat \ {0}
ASSUME Sizes \subseteq Nat \ {0} /\ MaxAllocs \in Nat /\ LockCallers \subseteq Threads

PageSize == 2^PageShift

(* libsys::align_up_div: value / 2^shift, rounded up.                     *)
AlignUpDiv(v, s) == (v + 2^s - 1) \div 2^s

EntryEnd(e) == e.base + e.len

(* Frames base / page_size() .. end / page_size(): the range the code     *)
(* fills for a byte range, both ends rounded down.                        *)
FramesOf(a, b) == (a \div PageSize) .. ((b \div PageSize) - 1)

-----------------------------------------------------------------------------
(* init's sizes.                                                           *)

TotalFrames(m) == AlignUpDiv(EntryEnd(Last(m)), PageShift)
SliceLen(m) == AlignUpDiv(TotalFrames(m), WordShift)
TableBits(m) == SliceLen(m) * 2^WordShift
TableAreaBytes(m) == AlignUpDiv(SliceLen(m) * WordBytes, PageShift) * PageSize

(* The first USABLE entry long enough for the table; the table takes its   *)
(* first TableAreaBytes units.                                             *)
FitsTable(m, e) == e.usable /\ e.len >= TableAreaBytes(m)
HasTableRegion(m) == \E i \in 1 .. Len(m) : FitsTable(m, m[i])
TableStart(m) == Head(SelectSeq(m, LAMBDA e : FitsTable(m, e))).base
TableFrames(m) == FramesOf(TableStart(m), TableStart(m) + TableAreaBytes(m))

(* The space between consecutive entries, locked when prev_end < start.   *)
GapFrames(m) ==
  UNION {FramesOf(EntryEnd(m[i - 1]), m[i].base) :
           i \in {j \in 2 .. Len(m) : EntryEnd(m[j - 1]) < m[j].base}}

(* Slip: the entry-type test is lost and every entry is locked.            *)
EntryFramesAll(m) == UNION {FramesOf(m[i].base, EntryEnd(m[i])) : i \in 1 .. Len(m)}

(* The non-USABLE entries.                                                 *)
EntryFrames(m) ==
  UNION {FramesOf(m[i].base, EntryEnd(m[i])) : i \in {j \in 1 .. Len(m) : ~m[j].usable}}

(* Slip: the table is sized by frames, not by whole words.                 *)
InitTableUnpadded(m) ==
  [f \in 0 .. TotalFrames(m) - 1 |->
     f \in TableFrames(m) \cup GapFrames(m) \cup EntryFrames(m)]

(* The bitmap init leaves: zeroed, then the padding bits, the table's own  *)
(* frames, the gaps and the non-USABLE entries filled with true.           *)
InitTable(m) ==
  [f \in 0 .. TableBits(m) - 1 |->
     f \in (TotalFrames(m) .. TableBits(m) - 1) \cup TableFrames(m)
             \cup GapFrames(m) \cup EntryFrames(m)]

-----------------------------------------------------------------------------
VARIABLES
  map,      \* the memory map init was given
  table,    \* the frame bitmap
  pc,       \* "idle", "lock_set", "free_set" or "panicked" per thread
  arg,      \* the frame a thread's lock_frame / free_frame is about
  pending,  \* frames a thread's deallocate still has to free, in order
  multi,    \* that deallocate is of more than one page
  allocs,   \* the allocator's live allocations per thread: [start, count]
  owned     \* ghost: frames each thread holds by a successful lock

vars == <<map, table, pc, arg, pending, multi, allocs, owned>>

(* Threads inside a read-locked section.                                   *)
Readers == {t \in Threads : pc[t] \in {"lock_set", "free_set"}}

(* The allocator calls: a thread not in a call and not deallocating.       *)
Ready(t) == pc[t] = "idle" /\ pending[t] = <<>>

(* Record a successful allocation of count frames from start.             *)
Allocated(t, start, count) ==
  /\ allocs' = [allocs EXCEPT ![t] = @ \cup {[start |-> start, count |-> count]}]
  /\ owned' = [owned EXCEPT ![t] = @ \cup (start .. start + count - 1)]

(* allocate of one page: next_frame under the write lock sets the first   *)
(* zero bit, or fails with NoneFree and alloc returns null.               *)
NextFrame(t) ==
  /\ Ready(t) /\ 1 \in Sizes /\ Cardinality(allocs[t]) < MaxAllocs
  /\ Readers = {}
  /\ IF \E f \in DOMAIN table : ~table[f]
       THEN LET f == Min({g \in DOMAIN table : ~table[g]})
            IN /\ table' = [table EXCEPT ![f] = TRUE]
               /\ Allocated(t, f, 1)
       ELSE UNCHANGED <<table, allocs, owned>>
  /\ UNCHANGED <<map, pc, arg, pending, multi>>

(* next_frames' stride with align_bits = None: max(1, 1 >> page_shift).   *)
Stride == IF (1 \div PageSize) > 1 THEN 1 \div PageSize ELSE 1

(* Starts of the windows of count clear bits, visited every Stride.       *)
FreeWindows(count) ==
  {i \in 0 .. TableBits(map) - count :
     i % Stride = 0 /\ \A j \in i .. i + count - 1 : ~table[j]}

(* Slip: the window is filled one frame short.                             *)
NextFramesShort(t) ==
  /\ Ready(t) /\ Cardinality(allocs[t]) < MaxAllocs
  /\ Readers = {}
  /\ \E count \in Sizes \ {1} :
       IF FreeWindows(count) # {}
         THEN LET i == Min(FreeWindows(count))
              IN /\ table' = [f \in DOMAIN table |->
                                IF f \in i .. i + count - 2 THEN TRUE ELSE table[f]]
                 /\ Allocated(t, i, count)
         ELSE UNCHANGED <<table, allocs, owned>>
  /\ UNCHANGED <<map, pc, arg, pending, multi>>

(* allocate of several pages: next_frames(count, None) under the write     *)
(* lock fills the first window of count clear bits.                        *)
NextFrames(t) ==
  /\ Ready(t) /\ Cardinality(allocs[t]) < MaxAllocs
  /\ Readers = {}
  /\ \E count \in Sizes \ {1} :
       IF FreeWindows(count) # {}
         THEN LET i == Min(FreeWindows(count))
              IN /\ table' = [f \in DOMAIN table |->
                                IF f \in i .. i + count - 1 THEN TRUE ELSE table[f]]
                 /\ Allocated(t, i, count)
         ELSE UNCHANGED <<table, allocs, owned>>
  /\ UNCHANGED <<map, pc, arg, pending, multi>>


(* deallocate (or Mapper::unmap with free_frame = true for a frame taken  *)
(* by lock_frame): the first frame and the following ones are freed one   *)
(* free_frame call at a time.                                              *)
Deallocate(t) ==
  /\ Ready(t)
  /\ \E a \in allocs[t] :
       /\ allocs' = [allocs EXCEPT ![t] = @ \ {a}]
       /\ pending' = [pending EXCEPT ![t] = [k \in 1 .. a.count |-> a.start + k - 1]]
       /\ multi' = [multi EXCEPT ![t] = a.count > 1]
  /\ UNCHANGED <<map, table, pc, arg, owned>>

(* The error a free_frame result turns into: ignored by .ok() for one     *)
(* page, a panic of .expect for several.                                   *)
FreeFailed(t) ==
  /\ pc' = [pc EXCEPT ![t] = IF multi[t] THEN "panicked" ELSE "idle"]
  /\ pending' = [pending EXCEPT ![t] = <<>>]

(* free_frame, first half: read lock, bounds check, test of the bit.      *)
FreeFrameCheck(t) ==
  /\ pc[t] = "idle" /\ pending[t] # <<>>
  /\ LET f == Head(pending[t])
     IN IF f < TotalFrames(map) /\ table[f]
          THEN /\ pc' = [pc EXCEPT ![t] = "free_set"]
               /\ arg' = [arg EXCEPT ![t] = f]
               /\ UNCHANGED pending
          ELSE /\ FreeFailed(t)
               /\ UNCHANGED arg
  /\ UNCHANGED <<map, table, multi, allocs, owned>>

(* free_frame, second half: set_aliased_unchecked(index, false), unlock.  *)
FreeFrameSet(t) ==
  /\ pc[t] = "free_set"
  /\ table' = [table EXCEPT ![arg[t]] = FALSE]
  /\ owned' = [owned EXCEPT ![t] = @ \ {arg[t]}]
  /\ pc' = [pc EXCEPT ![t] = "idle"]
  /\ pending' = [pending EXCEPT ![t] = Tail(@)]
  /\ UNCHANGED <<map, arg, multi, allocs>>

(* lock_frame, first half, on a frame the caller names (Mapper::map with   *)
(* lock_frame = true): read lock, bounds check, test of the bit; an        *)
(* OutOfBounds or NotFree error ends the call.                             *)
LockFrameCheck(t) ==
  /\ t \in LockCallers
  /\ Ready(t) /\ Cardinality(allocs[t]) < MaxAllocs
  /\ \E f \in 0 .. TableBits(map) - 1 :
       IF f < TotalFrames(map) /\ ~table[f]
         THEN /\ pc' = [pc EXCEPT ![t] = "lock_set"]
              /\ arg' = [arg EXCEPT ![t] = f]
         ELSE UNCHANGED <<pc, arg>>
  /\ UNCHANGED <<map, table, pending, multi, allocs, owned>>

(* lock_frame, second half: set_aliased_unchecked(index, true), Ok(()).   *)
LockFrameSet(t) ==
  /\ pc[t] = "lock_set"
  /\ table' = [table EXCEPT ![arg[t]] = TRUE]
  /\ Allocated(t, arg[t], 1)
  /\ pc' = [pc EXCEPT ![t] = "idle"]
  /\ UNCHANGED <<map, arg, pending, multi>>

-----------------------------------------------------------------------------
Init ==
  /\ map \in {m \in Maps : HasTableRegion(m)}
  /\ table = InitTable(map)
  /\ pc = [t \in Threads |-> "idle"]
  /\ arg = [t \in Threads |-> 0]
  /\ pending = [t \in Threads |-> <<>>]
  /\ multi = [t \in Threads |-> FALSE]
  /\ allocs = [t \in Threads |-> {}]
  /\ owned = [t \in Threads |-> {}]

Next ==
  \E t \in Threads :
    \/ NextFrame(t) \/ NextFrames(t) \/ Deallocate(t)
    \/ FreeFrameCheck(t) \/ FreeFrameSet(t)
    \/ LockFrameCheck(t) \/ LockFrameSet(t)

Spec == Init /\ [][Next]_vars

-----------------------------------------------------------------------------
(* Properties.                                                             *)

TypeOK ==
  /\ map \in Maps
  /\ table \in [0 .. TableBits(map) - 1 -> BOOLEAN]
  /\ pc \in [Threads -> {"idle", "lock_set", "free_set", "panicked"}]
  /\ arg \in [Threads -> 0 .. TableBits(map) - 1]
  /\ pending \in [Threads -> Seq(0 .. TableBits(map) - 1)]
  /\ owned \in [Threads -> SUBSET (0 .. TableBits(map) - 1)]

(* A frame wholly inside a USABLE entry. *)
WhollyUsable(m, f) ==
  \E i \in 1 .. Len(m) :
    m[i].usable /\ m[i].base <= f * PageSize /\ (f + 1) * PageSize <= EntryEnd(m[i])

(* A frame sharing at least one unit with [a, b). *)
Overlaps(f, a, b) == a < (f + 1) * PageSize /\ f * PageSize < b

(* init leaves every frame that lies wholly in USABLE memory, and is not   *)
(* the bitmap's own, free: the gap and entry rounding in init never locks  *)
(* usable memory away.                                                      *)
UsableFramesFree ==
  \A f \in 0 .. TotalFrames(map) - 1 :
    WhollyUsable(map, f) /\ f \notin TableFrames(map) => ~InitTable(map)[f]

(* Spec 4.2 construction (5), invariants (b) and (d): after init every     *)
(* frame holding any part of a non-USABLE entry or of a gap between        *)
(* entries is locked.                                                       *)
ReservedFramesLocked ==
  \A f \in 0 .. TotalFrames(map) - 1 :
    (\/ \E i \in 1 .. Len(map) : ~map[i].usable /\ Overlaps(f, map[i].base, EntryEnd(map[i]))
     \/ \E i \in 2 .. Len(map) : Overlaps(f, EntryEnd(map[i - 1]), map[i].base))
      => InitTable(map)[f]

(* No frame is held by two threads at once, whatever the interleaving of   *)
(* next_frame, next_frames, lock_frame and free_frame calls: the bitmap   *)
(* test and the bit write never let two callers win the same frame.        *)
OwnershipExclusive ==
  \A t, u \in Threads : t # u => owned[t] \cap owned[u] = {}

(* Spec 4.2 property 1, conservation: the set bits are exactly those init  *)
(* set plus the frames the threads hold; a frame is locked exactly when   *)
(* init reserved it or some caller's lock of it has not been undone.       *)
FramesAccounted ==
  {f \in DOMAIN table : table[f]}
    = {f \in DOMAIN table : InitTable(map)[f]} \cup UNION {owned[t] : t \in Threads}
-----------------------------------------------------------------------------
(* Refinement: the clear bits of the table are the abstract free pool and  *)
(* the frames a caller won by a lock are its holdings.                     *)
Abs == INSTANCE PmmAbs WITH
         free <- {f \in DOMAIN table : ~table[f]},
         held <- owned

(* Every allocator step is an acquisition of free frames, a release of a   *)
(* held one, or leaves pool and holdings alone: next_frame, next_frames,   *)
(* lock_frame and free_frame never hand out a frame that is not free, and  *)
(* never free or lose one they were not given.                             *)
AbsSpec == Abs!Spec
=============================================================================
