------------------------------ MODULE Allocator ------------------------------
(***************************************************************************)
(* What the kernel's callers may assume of kmalloc and kfree: a region of  *)
(* memory that is handed out is not part of any region still handed out,   *)
(* and stays exactly as it was until its holder frees it.  Nothing is said *)
(* of where a region lies or of how the free memory is organised.          *)
(***************************************************************************)
EXTENDS Naturals

CONSTANT Sizes      \* the sizes callers ask for

VARIABLE live       \* the regions handed out: a set of [p, sz] records

Region == [p : Nat, sz : Sizes]

\* The bytes of two regions have none in common, and their pointers differ
\* (a region of no bytes still has a pointer of its own).
Disjoint(r, s) == \/ r.p + r.sz <= s.p /\ r.p < s.p
                  \/ s.p + s.sz <= r.p /\ s.p < r.p

Init == live = {}

\* One region that was not there appears, away from all the others.
Malloc == \E r \in live' \ live :
             /\ r \in Region
             /\ live' = live \cup {r}
             /\ \A s \in live : Disjoint(r, s)

\* One of the regions handed out disappears.
Free == \E r \in live : live' = live \ {r}

Next == Malloc \/ Free

Spec == Init /\ [][Next]_live
==============================================================================
