--------------------------- MODULE BlockAllocator ---------------------------
(***************************************************************************)
(* What the kernel heap promises its callers: kmalloc hands out runs of    *)
(* blocks none of which a caller holds already, and kfree takes back       *)
(* exactly the run its pointer was given.  Which run a request gets, and   *)
(* how the heap records it, is not said here.                              *)
(***************************************************************************)
EXTENDS Integers

CONSTANTS
  Total,    \* blocks in the heap, numbered from 0
  Lengths   \* the lengths of the runs callers ask for

VARIABLE live \* live[b]: length of the run held at block b, 0 if none

Blocks == 0 .. Total - 1

Covers(b, c) == b <= c /\ c < b + live[b]

Init == live = [b \in Blocks |-> 0]

Allocate(b, n) ==
  /\ \A c \in Blocks : b <= c /\ c < b + n => \A a \in Blocks : ~Covers(a, c)
  /\ live' = [live EXCEPT ![b] = n]

Release(b) ==
  /\ live[b] > 0
  /\ live' = [live EXCEPT ![b] = 0]

Next ==
  \/ \E b \in Blocks, n \in Lengths : Allocate(b, n)
  \/ \E b \in Blocks : Release(b)

Spec == Init /\ [][Next]_live

=============================================================================
