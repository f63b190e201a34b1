----------------------------- MODULE MCPaging -------------------------------
(***************************************************************************)
(* Inputs for Paging: a four-level tree of two-entry tables (16 pages,     *)
(* mega pages of 2 and giga pages of 4), the HHDM at the start of the      *)
(* upper half and the kernel at its last giga page, four frames of         *)
(* physical memory.                                                         *)
(*                                                                         *)
(* Memory maps are every map of up to two entries below frame PhysEnd in   *)
(* Limine's shape (sorted, not overlapping), with one type of each flag    *)
(* group; one-entry maps may also have a type the match does not know.    *)
(* Kernel images have a text segment and possibly a data segment after it, *)
(* of one alignment and not overlapping, and a physical base aligned like  *)
(* the virtual one, as an ELF loader places it.                            *)
(***************************************************************************)
EXTENDS Paging

PhysEnd == 4

MCTypes == {"USABLE", "RESERVED", "BAD_MEMORY"}

MapEntries ==
  {[base |-> b, len |-> l, type |-> t] :
     b \in 0 .. PhysEnd - 1, l \in 1 .. PhysEnd, t \in MCTypes}

Fits(e) == e.base + e.len <= PhysEnd

MCMaps ==
  {<<e>> : e \in {x \in MapEntries : Fits(x)}} \cup
  {<<e, f>> \in {x \in MapEntries : Fits(x) /\ x.type # "BAD_MEMORY"}
                 \X {x \in MapEntries : Fits(x) /\ x.type # "BAD_MEMORY"} :
     e.base + e.len <= f.base}

Segments(al, fl) ==
  {[offset |-> o, memsz |-> s, align |-> al, flags |-> fl] : o \in 0 .. 3, s \in 1 .. 2}

Extent(s) == s.offset + Max({s.memsz, s.align})

Placed(img) ==
  /\ \A i \in 1 .. Len(img.segments) : img.phys + Extent(img.segments[i]) <= PhysEnd
  /\ \A i \in 1 .. Len(img.segments) - 1 :
       img.segments[i].offset + img.segments[i].memsz <= img.segments[i + 1].offset

MCImages ==
  {img \in
     UNION {{[phys |-> ph, segments |-> <<s>>] : s \in Segments(al, RX)} \cup
            {[phys |-> ph, segments |-> <<s, t>>] :
               s \in Segments(al, RX), t \in Segments(al, RW)} :
              ph \in {0, 2}, al \in {1, 2}} :
   Placed(img) /\ img.phys % img.segments[1].align = 0}

=============================================================================
