------------------------------ MODULE PmmAbs -------------------------------
(***************************************************************************)
(* What the physical memory manager promises its callers, without the     *)
(* bitmap: a pool of free frames from which a thread acquires some frames *)
(* and to which it returns frames it holds.  Every other call (a failed    *)
(* lock, NoneFree, a deallocate not yet at its free_frame) leaves the pool *)
(* and the holdings as they are.                                           *)
(***************************************************************************)
EXTENDS FiniteSets

CONSTANTS Threads

VARIABLES
  free,   \* frames no one holds and init did not reserve
  held    \* frames each thread holds

vars == <<free, held>>

Init == held = [t \in Threads |-> {}]

(* A thread takes a non-empty set of free frames for itself.              *)
Acquire(t) ==
  \E S \in SUBSET free \ {{}} :
    /\ free' = free \ S
    /\ held' = [held EXCEPT ![t] = @ \cup S]

(* A thread returns one frame it holds.                                    *)
Release(t) ==
  \E f \in held[t] :
    /\ free' = free \cup {f}
    /\ held' = [held EXCEPT ![t] = @ \ {f}]

Next == \E t \in Threads : Acquire(t) \/ Release(t)

Spec == Init /\ [][Next]_vars
=============================================================================
