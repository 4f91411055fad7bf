-------------------------------- MODULE MCMount --------------------------------
(***************************************************************************)
(* Two entries in a sector.  An int reaches eight sectors, the drive's     *)
(* four registers 32.  The disk may be smaller than an int reaches, just   *)
(* as large, or larger.  The root directory may begin at the second        *)
(* sector, close to where the disk or ints end, or behind it; it has one   *)
(* to four entries, so that it may fill its sectors or not; and it may be  *)
(* full, with any entries behind it, and no empty one on the disk.         *)
(***************************************************************************)
EXTENDS Mount

MCDisks == {4, 8, 12}
MCVolumes ==
  [reserved_sectors : {1}, fat_count : {1, 2}, sectors_per_fat : {1, 3, 5},
   root_entry_count : 1 .. 4, signed : BOOLEAN]
=============================================================================
