---------------------------------- MODULE Gdt ----------------------------------
(***************************************************************************)
(* Segment descriptors: gdt_structure_to_gdt_entry (gdt/gdt_c.c), which    *)
(* packs main's table of bases, limits and types into the processor's      *)
(* eight bytes each, and how the processor unpacks them.                   *)
(*                                                                         *)
(* A byte is two digits of base N, where the code's are hexadecimal: a     *)
(* limit or base has eight digits, a page's size and a byte offset in it   *)
(* three, the limit's field five.                                          *)
(***************************************************************************)
EXTENDS Integers, Sequences

CONSTANTS
  N,                    \* the base of a digit, 16 in the code
  Limits, Bases, Types, \* the segments main may ask for
  TOTAL                 \* TOTAL_GDT_SEGMENTS

BYTE == N * N
BYTE2 == BYTE * BYTE
BYTE3 == BYTE2 * BYTE
BITS == BYTE3 * BYTE
PAGE == BYTE * N
MORE == BYTE2           \* a limit above it is counted in pages

ASSUME BaseAssumption == N \in Nat \ {0, 1}
ASSUME SegmentsAssumption == Limits \subseteq 0 .. BITS - 1 /\ Bases \subseteq 0 .. BITS - 1
ASSUME TotalAssumption == TOTAL \in Nat

VARIABLES
  gdt,       \* structured_gdt
  entry,     \* real_gdt: the entries encoded, each by its bytes 0 to 7
  progress   \* "encoding", "panic", "done"

gdt_vars == <<gdt, entry, progress>>

Structures == [limit : Limits, base : Bases, type : Types]

-----------------------------------------------------------------------------
(* The byte of a number whose lowest bit has value unit.                   *)

Byte(n, unit) == (n \div unit) % BYTE

\* A limit that is to be counted in pages, and is not whole pages, is refused.
refused(src) == src.limit > MORE /\ src.limit % PAGE # PAGE - 1

in_pages(src) == src.limit > MORE

encoded_limit_unshifted(src) == src.limit  \* mutant: the limit is encoded as it was before the shift

\* The limit that is encoded, of which byte 6 has the fifth digit only.
encoded_limit(src) == IF in_pages(src) THEN src.limit \div PAGE ELSE src.limit

\* Byte 6 is the granularity and a digit of the limit, byte 5 the type.
encode_gdt_entry(src) ==
  LET limit == encoded_limit(src)
  IN  [b0 |-> Byte(limit, 1), b1 |-> Byte(limit, BYTE),
       b2 |-> Byte(src.base, 1), b3 |-> Byte(src.base, BYTE), b4 |-> Byte(src.base, BYTE2),
       b5 |-> src.type,
       b6 |-> [pages |-> in_pages(src), digit |-> Byte(limit, BYTE2) % N],
       b7 |-> Byte(src.base, BYTE3)]

-----------------------------------------------------------------------------
GdtInit ==
  /\ gdt \in [1 .. TOTAL -> Structures]
  /\ entry = <<>>
  /\ progress = "encoding"

\* The loop's next entry.
encode ==
  /\ progress = "encoding" /\ Len(entry) < TOTAL
  /\ LET src == gdt[Len(entry) + 1]
     IN  IF refused(src)
         THEN progress' = "panic" /\ UNCHANGED entry
         ELSE entry' = Append(entry, encode_gdt_entry(src)) /\ UNCHANGED progress
  /\ UNCHANGED gdt

load_gdt ==
  /\ progress = "encoding" /\ Len(entry) = TOTAL
  /\ progress' = "done"
  /\ UNCHANGED <<gdt, entry>>

\* panic does not return; main goes on with other things.
GdtStopped ==
  /\ progress \in {"panic", "done"}
  /\ UNCHANGED gdt_vars

GdtNext == encode \/ load_gdt \/ GdtStopped

GdtSpec == GdtInit /\ [][GdtNext]_gdt_vars

-----------------------------------------------------------------------------
(* The processor.                                                          *)

Limit(e) ==
  LET limit == e.b0 + e.b1 * BYTE + e.b6.digit * BYTE2
  IN  IF e.b6.pages THEN limit * PAGE + PAGE - 1 ELSE limit

Base(e) == e.b2 + e.b3 * BYTE + e.b4 * BYTE2 + e.b7 * BYTE3

Decoded(e) == [limit |-> Limit(e), base |-> Base(e), type |-> e.b5]

-----------------------------------------------------------------------------
(* Properties.                                                             *)

\* The processor finds in each descriptor the segment main has asked for:
\* also at the limits around 65536, where the unit changes, and whether the
\* digits of the limit that are kept are the low or the high ones.  Only a
\* limit that is not whole pages stops the kernel, before the table is loaded.
DecodesAsAsked ==
  /\ \A k \in 1 .. Len(entry) : Decoded(entry[k]) = gdt[k]
  /\ progress = "done" => Len(entry) = TOTAL
  /\ progress = "panic" =>
       \A n \in 1 .. BITS \div PAGE : gdt[Len(entry) + 1].limit # n * PAGE - 1
=============================================================================
