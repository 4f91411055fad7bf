------------------------------- MODULE MCPaging -------------------------------
(***************************************************************************)
(* Tables of three entries, so nine pages.  The heap has any of five       *)
(* frames free: all that a directory, its tables and their struct need, or *)
(* too few from some point on.  As in main, a page is mapped to a frame    *)
(* that is also accessed at its own address.                               *)
(***************************************************************************)
EXTENDS Paging

MCHeapFrames == {3, 4, 5, 6, 7}
MCRemapped == {1, 2}
MCTargets == {8}
MCAccessed == {1, 8}
=============================================================================
