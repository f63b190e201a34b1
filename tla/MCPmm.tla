------------------------------ MODULE MCPmm ---------------------------------
(***************************************************************************)
(* Memory maps for Pmm: every map of up to MaxEntries entries that ends    *)
(* by address MaxAddr, in the shape Limine reports them: sorted by base,  *)
(* not overlapping, USABLE entries aligned to the page.                    *)
(***************************************************************************)
EXTENDS Pmm, TLC

CONSTANTS th1, th2, th3

MCThreads == {th1, th2, th3}
MCTwoThreads == {th1, th2}
MCOneThread == {th1}

MaxAddr == 6
MaxEntries == 3

Entries ==
  {[base |-> b, len |-> l, usable |-> u] :
     b \in 0 .. MaxAddr - 1, l \in 1 .. MaxAddr, u \in BOOLEAN}

LimineShaped(m) ==
  /\ EntryEnd(m[Len(m)]) <= MaxAddr
  /\ \A i \in 1 .. Len(m) - 1 : EntryEnd(m[i]) <= m[i + 1].base
  /\ \A i \in 1 .. Len(m) :
       m[i].usable => m[i].base % PageSize = 0 /\ m[i].len % PageSize = 0

(* Built one entry at a time so that only sorted prefixes are extended.    *)
RECURSIVE MapsUpTo(_)
MapsUpTo(n) ==
  IF n = 1 THEN {<<e>> : e \in {x \in Entries : EntryEnd(x) <= MaxAddr}}
  ELSE LET shorter == MapsUpTo(n - 1)
       IN shorter \cup
            UNION {{m \o <<e>> :
                      e \in {x \in Entries : EntryEnd(Last(m)) <= x.base /\ EntryEnd(x) <= MaxAddr}} :
                     m \in shorter}

MCMaps == {m \in MapsUpTo(MaxEntries) : LimineShaped(m)}

=============================================================================
