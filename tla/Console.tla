-------------------------------- MODULE Console --------------------------------
(***************************************************************************)
(* The console of lib/print.c, and the keyboard handler of int/ printing   *)
(* to it while the kernel does.  The cursor lives in two registers of the  *)
(* VGA controller, reached through an index port and a data port, and the  *)
(* handler may be entered between any two port accesses of the kernel.     *)
(*                                                                         *)
(* The handler runs with interrupts off, and only once: it never reads the *)
(* key, and the keyboard controller raises no interrupt for another before *)
(* that.  Interrupts of other devices do not print.                        *)
(*                                                                         *)
(* A step is a port access, a row of roll_up, or what put_char does in     *)
(* between.                                                                *)
(***************************************************************************)
EXTENDS Integers, Sequences

CONSTANTS
  VGA_WIDTH, VGA_HEIGHT, TAB_SIZE,
  BYTE,      \* the values of a byte, 256
  Text,      \* the characters the kernel prints
  KeyText    \* what the handler prints, a sequence of characters

Cells == VGA_WIDTH * VGA_HEIGHT
WORD == BYTE * BYTE
LastRow == (VGA_HEIGHT - 1) * VGA_WIDTH

ASSUME SizeAssumption == {VGA_WIDTH, VGA_HEIGHT, TAB_SIZE} \subseteq Nat \ {0}
ASSUME ByteAssumption ==
  /\ BYTE \in Nat \ {0} /\ VGA_HEIGHT <= BYTE
  /\ Cells + VGA_WIDTH <= WORD /\ Cells + TAB_SIZE <= WORD
ASSUME KeyTextAssumption == KeyText \in Seq(STRING)

Contexts == {"kernel", "keyboard"}
Screen == 0 .. Cells - 1
Blank == "blank"
Nowhere == [video |-> <<>>, cursor |-> 0]

VARIABLES
  video,    \* the characters on the screen; none behind it is ever read
  index,    \* the register selected at port 0x3d4, "low" or "high"
  low, high,\* the two bytes of the cursor
  key,      \* the handler: "waiting" for a key, "running" or "done"
  keys,     \* the characters it has still to print
  pc, ch, cursor, row,  \* put_char in each context: its step, its argument,
                        \*   its cursor, roll_up's row
  before,   \* the screen and the cursor when put_char was called
  whole,    \* no interrupt has entered since
  torn,     \* one has, between the accesses to the two registers
  stray     \* a cell further behind the screen than roll_up's was written

ports == <<index, low, high>>
history == <<before, whole, torn, stray>>
locals == <<ch, cursor, row>>
vars == <<video, ports, key, keys, pc, locals, history>>

Cursor == high * BYTE + low

-----------------------------------------------------------------------------
\* clear_screen and set_cursor(0).
Init ==
  /\ video = [a \in Screen |-> Blank]
  /\ index = "high" /\ low = 0 /\ high = 0
  /\ key = "waiting" /\ keys = KeyText
  /\ pc = [c \in Contexts |-> "idle"]
  /\ ch = [c \in Contexts |-> Blank]
  /\ cursor = [c \in Contexts |-> 0]
  /\ row = [c \in Contexts |-> 1]
  /\ before = [c \in Contexts |-> Nowhere]
  /\ whole = [c \in Contexts |-> TRUE]
  /\ torn = FALSE
  /\ stray = FALSE

\* The context the processor is in.
running == IF key = "running" THEN "keyboard" ELSE "kernel"

At(c, step) == c = running /\ pc[c] = step
Go(c, step) == pc' = [pc EXCEPT ![c] = step]
Local(c, x) == cursor' = [cursor EXCEPT ![c] = x]

\* put_char returns, and its locals are gone.
Return(c) ==
  /\ Go(c, "idle")
  /\ Local(c, 0)
  /\ ch' = [ch EXCEPT ![c] = Blank]
  /\ before' = [before EXCEPT ![c] = Nowhere]
  /\ whole' = [whole EXCEPT ![c] = TRUE]

put_char(c, char) ==
  /\ Go(c, "get_select_low")
  /\ ch' = [ch EXCEPT ![c] = char]
  /\ before' = [before EXCEPT ![c] = [video |-> video, cursor |-> Cursor]]
  /\ UNCHANGED <<video, ports, key, cursor, row, whole, torn, stray>>

kernel_print ==
  /\ At("kernel", "idle")
  /\ \E char \in Text : put_char("kernel", char)
  /\ UNCHANGED keys

keyboard_print ==
  /\ At("keyboard", "idle")
  /\ keys # <<>>
  /\ put_char("keyboard", Head(keys))
  /\ keys' = Tail(keys)

-----------------------------------------------------------------------------
(* get_cursor and set_cursor.                                              *)

\* outb(0x3d4, ...): the next access to port 0x3d5 is to this register.
select(c, step, register, next) ==
  /\ At(c, step)
  /\ index' = register
  /\ Go(c, next)
  /\ UNCHANGED <<video, low, high, key, keys, locals, history>>

get_select_low(c) == select(c, "get_select_low", "low", "get_low")
get_select_high(c) == select(c, "get_select_high", "high", "get_high")
set_select_low(c) == select(c, "set_select_low", "low", "set_low")
set_select_high(c) == select(c, "set_select_high", "high", "set_high")

\* inb(0x3d5) and outb(0x3d5, ...), whatever is selected.
in == IF index = "low" THEN low ELSE high
out(byte) == IF index = "low" THEN low' = byte /\ UNCHANGED high
             ELSE high' = byte /\ UNCHANGED low

get_low(c) ==
  /\ At(c, "get_low")
  /\ Local(c, in)
  /\ Go(c, "get_select_high")
  /\ UNCHANGED <<video, ports, key, keys, ch, row, history>>

get_high(c) ==
  /\ At(c, "get_high")
  /\ Local(c, cursor[c] + in * BYTE)
  /\ Go(c, "switch")
  /\ UNCHANGED <<video, ports, key, keys, ch, row, history>>

lower_unmasked(x) == x  \* mutant
lower(x) == x % BYTE

set_low(c) ==
  /\ At(c, "set_low")
  /\ out(lower(cursor[c]))
  /\ Go(c, "set_select_high")
  /\ UNCHANGED <<video, index, key, keys, locals, history>>

set_high(c) ==
  /\ At(c, "set_high")
  /\ out(cursor[c] \div BYTE)
  /\ Return(c)
  /\ UNCHANGED <<video, index, key, keys, row, torn, stray>>

\* The argument of set_cursor: a uint16_t, brought back to the screen.
onto_screen_unbounded(x) == x % WORD  \* mutant
onto_screen(x) == (x % WORD) % Cells

set_cursor(c, x) == Local(c, onto_screen(x)) /\ Go(c, "set_select_low")

\* Its row is a uint8_t.
set_cursor_r_c(c, r, column) == set_cursor(c, (r % BYTE) * VGA_WIDTH + column)

-----------------------------------------------------------------------------
(* put_char, from its switch on.                                           *)

\* Behind the screen lies memory the console never reads.
write_video(a, char) ==
  /\ video' = [b \in Screen |-> IF b = a THEN char ELSE video[b]]
  /\ stray' = (stray \/ a > Cells)

Controls == {"newline", "return", "backspace", "tab", "vtab"}

roll_up_later(c) == Go(c, "roll_up") /\ UNCHANGED cursor

new_line(c) ==
  /\ At(c, "switch") /\ ch[c] = "newline"
  /\ IF cursor[c] \div VGA_WIDTH + 1 = VGA_HEIGHT THEN roll_up_later(c)
     ELSE set_cursor_r_c(c, cursor[c] \div VGA_WIDTH + 1, 0)
  /\ UNCHANGED <<video, ports, key, keys, ch, row, history>>

carriage_return(c) ==
  /\ At(c, "switch") /\ ch[c] = "return"
  /\ set_cursor(c, (cursor[c] \div VGA_WIDTH) * VGA_WIDTH)
  /\ UNCHANGED <<video, ports, key, keys, ch, row, history>>

backspace(c) ==
  /\ At(c, "switch") /\ ch[c] = "backspace"
  /\ write_video(cursor[c], Blank)
  /\ IF cursor[c] # 0 THEN set_cursor(c, cursor[c] - 1) /\ UNCHANGED <<ch, before, whole>>
     ELSE Return(c)
  /\ UNCHANGED <<ports, key, keys, row, torn>>

tab(c) ==
  /\ At(c, "switch") /\ ch[c] = "tab"
  /\ set_cursor(c, (cursor[c] \div TAB_SIZE + 1) * TAB_SIZE)
  /\ UNCHANGED <<video, ports, key, keys, ch, row, history>>

vertical_tab(c) ==
  /\ At(c, "switch") /\ ch[c] = "vtab"
  /\ set_cursor(c, cursor[c] + VGA_WIDTH)
  /\ UNCHANGED <<video, ports, key, keys, ch, row, history>>

character(c) ==
  /\ At(c, "switch") /\ ch[c] \notin Controls
  /\ write_video(cursor[c], ch[c])
  /\ IF (cursor[c] + 1) % WORD = Cells THEN roll_up_later(c)
     ELSE set_cursor(c, cursor[c] + 1)
  /\ UNCHANGED <<ports, key, keys, ch, row, before, whole, torn>>

copied_half(c) ==  \* mutant: a character is taken for one byte, not two
  [a \in Screen |-> IF a \div VGA_WIDTH = row[c] - 1 /\ 2 * (a % VGA_WIDTH) < VGA_WIDTH
                   THEN video[a + VGA_WIDTH] ELSE video[a]]

\* One row is copied to the one above.
copied(c) ==
  [a \in Screen |-> IF a \div VGA_WIDTH = row[c] - 1 THEN video[a + VGA_WIDTH] ELSE video[a]]

roll_row_stuck(c) ==  \* mutant: the row is not counted
  /\ At(c, "roll_up")
  /\ row[c] < VGA_HEIGHT
  /\ video' = copied(c)
  /\ UNCHANGED <<ports, key, keys, pc, locals, history>>

roll_row(c) ==
  /\ At(c, "roll_up")
  /\ row[c] < VGA_HEIGHT
  /\ video' = copied(c)
  /\ row' = [row EXCEPT ![c] = row[c] + 1]
  /\ UNCHANGED <<ports, key, keys, pc, ch, cursor, history>>

cleared == LastRow + 1 .. LastRow + VGA_WIDTH

\* The last row is cleared from its second cell to one behind it, and the
\* cursor is put at its start.
roll_end(c) ==
  /\ At(c, "roll_up")
  /\ row[c] = VGA_HEIGHT
  /\ video' = [a \in Screen |-> IF a \in cleared THEN Blank ELSE video[a]]
  /\ row' = [row EXCEPT ![c] = 1]
  /\ set_cursor_r_c(c, VGA_HEIGHT - 1, 0)
  /\ UNCHANGED <<ports, key, keys, ch, history>>

-----------------------------------------------------------------------------
(* The interrupt.                                                          *)

\* The kernel is between two accesses that belong together.
Between == {"get_low", "get_select_high", "get_high", "set_low", "set_select_high", "set_high"}

int21h ==
  /\ key = "waiting"
  /\ key' = "running"
  /\ whole' = [whole EXCEPT !["kernel"] = (pc["kernel"] = "idle")]
  /\ torn' = (pc["kernel"] \in Between)
  /\ UNCHANGED <<video, ports, keys, pc, locals, before, stray>>

\* The handler has acknowledged the interrupt and returns.
iret ==
  /\ At("keyboard", "idle")
  /\ keys = <<>>
  /\ key' = "done"
  /\ UNCHANGED <<video, ports, keys, pc, locals, history>>

PutCharStep(c) ==
  \/ get_select_low(c)
  \/ get_low(c)
  \/ get_select_high(c)
  \/ get_high(c)
  \/ new_line(c)
  \/ carriage_return(c)
  \/ backspace(c)
  \/ tab(c)
  \/ vertical_tab(c)
  \/ character(c)
  \/ roll_row(c)
  \/ roll_end(c)
  \/ set_select_low(c)
  \/ set_low(c)
  \/ set_select_high(c)
  \/ set_high(c)

Next ==
  \/ kernel_print
  \/ keyboard_print
  \/ \E c \in Contexts : PutCharStep(c)
  \/ int21h
  \/ iret

Spec == Init /\ [][Next]_vars

\* The processor executes put_char and the handler once it has entered them.
FairSpec ==
  Spec /\ WF_vars(keyboard_print \/ iret \/ \E c \in Contexts : PutCharStep(c))

-----------------------------------------------------------------------------
(* What put_char is for, as one step on a screen and a cursor on it.       *)

Result(v, x) == [video |-> v, cursor |-> x]

\* The screen moves up one row, and an empty one comes up.
Rolled(v) ==
  Result([a \in Screen |-> IF a < LastRow THEN v[a + VGA_WIDTH] ELSE Blank], LastRow)

Printed(v, x, char) ==
  LET w == [v EXCEPT ![x] = char]
  IN  IF x = Cells - 1 THEN Rolled(w) ELSE Result(w, x + 1)

Put(v, x, char) ==
  CASE char = "newline" -> IF x >= LastRow THEN Rolled(v)
                      ELSE Result(v, x - (x % VGA_WIDTH) + VGA_WIDTH)
    [] char = "return" -> Result(v, x - (x % VGA_WIDTH))
    [] char = "backspace" -> Result([v EXCEPT ![x] = Blank], IF x = 0 THEN 0 ELSE x - 1)
    [] char = "tab" -> Result(v, (x - (x % TAB_SIZE) + TAB_SIZE) % Cells)
    [] char = "vtab" -> Result(v, (x + VGA_WIDTH) % Cells)
    [] OTHER -> Printed(v, x, char)

-----------------------------------------------------------------------------
(* Properties.                                                             *)

Steps == {"idle", "get_select_low", "switch", "roll_up", "set_select_low"} \cup Between
Characters == Text \cup {KeyText[j] : j \in 1 .. Len(KeyText)} \cup {Blank}

\* The type invariant.
TypeOK ==
  /\ video \in [Screen -> Characters]
  /\ index \in {"low", "high"} /\ low \in 0 .. BYTE - 1 /\ high \in 0 .. BYTE - 1
  /\ key \in {"waiting", "running", "done"}
  /\ pc \in [Contexts -> Steps]
  /\ ch \in [Contexts -> Characters]
  /\ cursor \in [Contexts -> 0 .. WORD - 1]
  /\ row \in [Contexts -> 1 .. VGA_HEIGHT]
  /\ stray \in BOOLEAN

\* This call of put_char returns.
Returns(c) == pc[c] # "idle" /\ pc'[c] = "idle"

\* The character makes the screen roll up.
Rolls(x, char) ==
  \/ char = "newline" /\ x >= LastRow
  \/ char \notin Controls /\ x = Cells - 1

\* The result is what the character is for, but for the cell of a screen that
\* has rolled up which roll_end leaves out: the first of its last row.
Matches(result, v, x, char) ==
  LET meant == Put(v, x, char)
  IN  /\ result.cursor = meant.cursor
      /\ \A a \in Screen : result.video[a] = meant.video[a] \/ (Rolls(x, char) /\ a = LastRow)

\* A put_char that no interrupt entered does to a screen with the cursor on
\* it what the character is for, but for the cell roll_up leaves out: in the
\* handler, whose own cursor accesses fall between those of the kernel, and in
\* the kernel, after an earlier interruption too.
PutIsWhole ==
  [][\A c \in Contexts :
       Returns(c) /\ whole[c] /\ before[c].cursor \in Screen =>
         Matches(Result(video', Cursor'), before[c].video, before[c].cursor, ch[c])]_vars

\* Such a put_char brings the cursor back to the screen from wherever an
\* interrupted one has left it.
CursorReturns ==
  [][\A c \in Contexts : Returns(c) /\ whole[c] => Cursor' \in Screen]_vars

\* Memory behind the screen, but for the one cell roll_up clears, is written
\* only after a key press between two accesses that belong together; one at
\* any other moment, in the middle of roll_up even, does no such harm.
StraysOnlyWhenTorn == stray => torn

\* Every put_char returns, and so does the handler.
PutReturns == \A c \in Contexts : pc[c] # "idle" ~> pc[c] = "idle"
=============================================================================
