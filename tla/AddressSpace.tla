----------------------------- MODULE AddressSpace -----------------------------
(***************************************************************************)
(* What a caller of mm/page.c may rely on: each page has one translation,  *)
(* changed for that page only; an access goes where it says, or where it   *)
(* has said since the directory was last loaded.                           *)
(***************************************************************************)
CONSTANTS Pages, Frames, NONE

VARIABLES
  map,   \* the translation of each page, NONE if it has none
  past,  \* its earlier ones since the directory was loaded
  last   \* the last access: a page, and the frame it went to

vars == <<map, past, last>>

NoAccess == <<NONE, NONE>>

Init ==
  /\ map = [v \in Pages |-> NONE]
  /\ past = [v \in Pages |-> {}]
  /\ last = NoAccess

\* A directory is loaded, and what was before is forgotten.
Load ==
  /\ map' \in [Pages -> Frames \cup {NONE}]
  /\ past' = [v \in Pages |-> {}]
  /\ UNCHANGED last

Remap(v) ==
  /\ \E f \in Frames \cup {NONE} : map' = [map EXCEPT ![v] = f]
  /\ past' = [past EXCEPT ![v] = @ \cup {map[v]}]
  /\ UNCHANGED last

Access(v) ==
  /\ \E f \in Frames \cap ({map[v]} \cup past[v]) : last' = <<v, f>>
  /\ UNCHANGED <<map, past>>

Next == Load \/ \E v \in Pages : Remap(v) \/ Access(v)

Spec == Init /\ [][Next]_vars
=============================================================================
