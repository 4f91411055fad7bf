-------------------------------- MODULE Measure --------------------------------
(***************************************************************************)
(* The order of the measures that show a call to end: triples of numbers,  *)
(* of which the first that differs decides.  It cannot have gone below     *)
(* zero, and so a triple cannot get less for ever.                         *)
(***************************************************************************)
EXTENDS Integers

Less(a, b) ==
  \E j \in 1 .. 3 : /\ 0 <= a[j] /\ a[j] < b[j]
                   /\ \A k \in 1 .. j - 1 : a[k] = b[k]
=============================================================================
