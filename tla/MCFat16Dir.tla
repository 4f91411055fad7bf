----------------------------- MODULE MCFat16Dir -----------------------------
(***************************************************************************)
(* Directories of three entries, followed on the disk by two more, with    *)
(* every content: a name shorter than the two characters the lookup        *)
(* compares, names that differ behind them, deleted and empty entries.     *)
(***************************************************************************)
EXTENDS Fat16Dir

MCNames == {<<"a">>, <<"a", "b">>, <<"a", "b", "a">>}
MCParts == MCNames \cup {<<"b", "a">>}
MCBytes == {NUL, "a", "b"}
=============================================================================
