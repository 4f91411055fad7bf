--------------------------------- MODULE MCGdt ---------------------------------
(***************************************************************************)
(* Digits of base 2: a byte is 0 to 3, a page 8, limits and bases are 0 to *)
(* 255, and a limit above 16 is counted in pages.  Every limit occurs, and *)
(* bases all of whose bytes differ.  Two segments, so that a refused one   *)
(* may follow another.                                                     *)
(***************************************************************************)
EXTENDS Gdt

MCLimits == 0 .. 255
MCBases == {27, 228}
MCTypes == {"code"}
=============================================================================
