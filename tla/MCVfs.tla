------------------------------- MODULE MCVfs -------------------------------
(***************************************************************************)
(* The file layer on a disk with a file f, a directory d with a file d/f,  *)
(* and a damaged directory e, and on a disk without file system.  The      *)
(* paths name a file in the root and one in a directory, the directory,    *)
(* nothing, something below a file, something in the damaged directory,    *)
(* the root; some have two slashes in a row, before a part, after a file   *)
(* and after a directory; one has no valid drive, one another drive, one   *)
(* is too long.  Each letter stands for a name of five characters or more. *)
(***************************************************************************)
EXTENDS Vfs

EINVAPTH == 4

MCFiles == {<<"f">>, <<"d", "f">>}
MCDirs == {<<"d">>, <<"e">>}
MCDamaged == {<<"e">>}

OnDisk(parts_) == [drive |-> 0, parts |-> parts_, long |-> FALSE]

MCPaths ==
  {OnDisk(s) : s \in {<<>>, <<"f">>, <<"d">>, <<"d", "f">>, <<"d", "m">>, <<"f", "f">>, <<"m">>,
                       <<"e", "f">>, <<EMPTY, "f">>, <<"f", EMPTY, "m">>, <<"d", EMPTY, "f">>}}
    \cup {[OnDisk(<<"f">>) EXCEPT !.drive = -EINVAPTH],
          [OnDisk(<<"f">>) EXCEPT !.drive = 1],
          [OnDisk(<<"f">>) EXCEPT !.long = TRUE]}
=============================================================================
