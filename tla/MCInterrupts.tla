----------------------------- MODULE MCInterrupts -----------------------------
(***************************************************************************)
(* The timer, the keyboard, the floppy drive, and two lines of the slave,  *)
(* the clock and the disk; main divides by zero at some point.             *)
(***************************************************************************)
EXTENDS Interrupts

MCLines == {0, 1, 6, 8, 14}
=============================================================================
