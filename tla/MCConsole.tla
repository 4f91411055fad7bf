------------------------------ MODULE MCConsole ------------------------------
(***************************************************************************)
(* A screen of two rows of three cells, whose cursor needs both bytes, of  *)
(* four values each; the kernel prints every character put_char            *)
(* distinguishes, in any order, and a key is pressed once at any moment.   *)
(***************************************************************************)
EXTENDS Console

MCText == {"x", "newline", "return", "backspace", "tab", "vtab"}
MCKeyText == <<"x", "newline">>
=============================================================================
