------------------------------- MODULE MCHeap -------------------------------
(***************************************************************************)
(* The heap on a table of five two-byte blocks.  The sizes ask for no      *)
(* block, for one, two, three and four blocks, exact and inexact multiples *)
(* among them, and for one block more than the table has.                  *)
(***************************************************************************)
EXTENDS Heap

MCSizes == {0, 1, 2, 3, 4, 7, 11}
=============================================================================
