--------------------------- MODULE AddressSpaceAbs ---------------------------
(***************************************************************************)
(* What a user AddressSpace promises its client, with no page tables: each *)
(* page of the lower half is unmapped or translates to a frame with flags. *)
(*                                                                         *)
(*  - mmap(Some(address), n, perms) maps a prefix of the n pages, the      *)
(*    whole range unless the frames run out, each to a frame of its own    *)
(*    that no page maps;                                                   *)
(*  - set_flags re-flags the pages of the range up to the first unmapped   *)
(*    one;                                                                 *)
(*  - unmap of a mapped page leaves it unmapped;                           *)
(*  - nothing else changes the lower half.                                 *)
(*                                                                         *)
(* A mapped page in the range is mapped again, as map_exact does; spec 4.5 *)
(* asks mmap to fail on it instead.                                        *)
(***************************************************************************)
EXTENDS Naturals, Functions

CONSTANTS
  UserPages,    \* the pages a client uses
  Counts,       \* page counts it passes
  Frames,       \* frames the PMM may hand out
  FlagSets      \* the flags a mapping may get

VARIABLE amap

Unmapped == [frame |-> 0, flags |-> {}]

Mapped(p) == amap[p] # Unmapped

MappedFrames == {amap[p].frame : p \in {q \in UserPages : Mapped(q)}}

(* The first k pages from a, all of them pages of the client.             *)
Run(a, k) == {p \in UserPages : a <= p /\ p < a + k}

Init == amap = [p \in UserPages |-> Unmapped]

(* The first k pages from a mapped with fl, to frames no page mapped and  *)
(* no two of them share.  Stated of amap' rather than as a choice of       *)
(* frames: the module is checked as a property of Paging, not run.         *)
MapPrefix(a, n, fl) ==
  /\ \A i \in 0 .. n - 1 : a + i \in UserPages
  /\ \E k \in 0 .. n :
       LET f == [p \in Run(a, k) |-> amap'[p].frame]
       IN /\ amap' = [p \in UserPages |->
                       IF p \in Run(a, k) THEN [frame |-> f[p], flags |-> fl] ELSE amap[p]]
          /\ IsInjective(f)
          /\ \A p \in Run(a, k) : f[p] \in Frames \ MappedFrames

(* The length of the mapped run that starts at a, at most n.               *)
MappedRun(a, n) ==
  LET ks == {k \in 0 .. n : \A p \in Run(a, k) : Mapped(p)}
  IN CHOOSE k \in ks : \A j \in ks : j <= k

SetPrefix(a, n, fl) ==
  /\ \A i \in 0 .. n - 1 : a + i \in UserPages
  /\ amap' = [p \in UserPages |->
                IF p \in Run(a, MappedRun(a, n)) THEN [amap[p] EXCEPT !.flags = fl]
                ELSE amap[p]]

UnmapPage(p) ==
  /\ Mapped(p)
  /\ amap' = [amap EXCEPT ![p] = Unmapped]

Next ==
  \/ \E p \in UserPages : UnmapPage(p)
  \/ \E a \in UserPages, n \in Counts, fl \in FlagSets :
       SetPrefix(a, n, fl) \/ MapPrefix(a, n, fl)

Spec == Init /\ [][Next]_amap

=============================================================================
