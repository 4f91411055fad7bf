---------------------------- MODULE MCFat16Read ----------------------------
(***************************************************************************)
(* Files on a disk of three clusters of two two-byte sectors, with every   *)
(* table: chains of each length in each order, cyclic ones, and each kind  *)
(* of mark.  Records of less than a sector, a sector, a sector and a half, *)
(* a cluster, more than a cluster, and two clusters.                       *)
(***************************************************************************)
EXTENDS Fat16Read

MCSizes == {1, 2, 3, 4, 5, 8}
=============================================================================
