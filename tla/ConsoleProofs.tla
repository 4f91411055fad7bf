----------------------------- MODULE ConsoleProofs -----------------------------
(***************************************************************************)
(* Proofs about the console, for screens, tabs and bytes of every size,    *)
(* and every text of the kernel and of the handler.  The index port is     *)
(* shared, so what a context finds at the data port is its own register    *)
(* only while no interrupt has come in between: the invariant says for     *)
(* each access what the ports hold then, and for each step of put_char how *)
(* far it has come with what the character is for.                         *)
(***************************************************************************)
EXTENDS Console, SequenceTheorems, TLAPS

-----------------------------------------------------------------------------
(* The inductive invariant.                                                *)

Moments == [video : [Screen -> Characters] \cup {<<>>}, cursor : 0 .. WORD - 1]

\* The types of what TypeOK leaves out.
HistoryOK ==
  /\ keys \in Seq(Characters)
  /\ before \in [Contexts -> Moments]
  /\ whole \in [Contexts -> BOOLEAN]
  /\ torn \in BOOLEAN

\* The handler prints only when it runs, and is never interrupted; the kernel
\* was interrupted in a put_char only if that is recorded.
ContextInv ==
  /\ key # "running" => pc["keyboard"] = "idle"
  /\ whole["keyboard"]
  /\ key = "waiting" => whole["kernel"] /\ ~torn
  /\ key = "running" => /\ whole["kernel"] => pc["kernel"] = "idle"
                        /\ ~torn => pc["kernel"] \notin Between

SetSteps == {"set_select_low", "set_low", "set_select_high", "set_high"}

\* A context's own variables, whatever was printed by the other.
LocalInv ==
  \A c \in Contexts :
    /\ pc[c] # "roll_up" => row[c] = 1
    /\ pc[c] \in {"get_select_high", "get_high"} => cursor[c] < BYTE
    /\ pc[c] \in SetSteps => cursor[c] \in Screen

\* The ports are as the running context has left them, unless an interrupt has
\* come between two accesses that belong together.
PortsInv ==
  \A c \in Contexts : c = running /\ (whole[c] \/ ~torn) =>
    /\ pc[c] \in {"get_low", "set_low"} => index = "low"
    /\ pc[c] \in {"get_high", "set_high"} => index = "high"
    /\ pc[c] \in {"get_select_high", "get_high"} => cursor[c] = low
    /\ pc[c] \in {"set_select_high", "set_high"} => low = lower(cursor[c])

\* Without such an interrupt the cursor is on the screen, and so is what
\* put_char has read of it.
SteadyInv ==
  ~torn =>
    /\ \A c \in Contexts : pc[c] \in {"switch", "roll_up"} => cursor[c] \in Screen
    /\ pc[running] \notin {"set_select_high", "set_high"} => Cursor \in Screen

IInv ==
  TypeOK /\ HistoryOK /\ ContextInv /\ LocalInv /\ PortsInv /\ SteadyInv /\ StraysOnlyWhenTorn

\* The screen that put_char rolls up.
Unrolled(c) ==
  IF ch[c] = "newline" THEN before[c].video
  ELSE [before[c].video EXCEPT ![before[c].cursor] = ch[c]]

\* What has become of the rows above row r.
RolledTo(v, r) == [a \in Screen |-> IF a \div VGA_WIDTH < r - 1 THEN v[a + VGA_WIDTH] ELSE v[a]]

\* How far a put_char that no interrupt entered has come.
Progress(c) ==
  /\ pc[c] \in {"get_select_low", "get_low", "get_select_high", "get_high", "switch"} =>
       before[c] = [video |-> video, cursor |-> Cursor]
  /\ pc[c] = "switch" => cursor[c] = Cursor
  /\ before[c].cursor \in Screen =>
       /\ pc[c] = "roll_up" =>
            /\ video = RolledTo(Unrolled(c), row[c])
            /\ Put(before[c].video, before[c].cursor, ch[c]) = Rolled(Unrolled(c))
            /\ Rolls(before[c].cursor, ch[c])
       /\ pc[c] \in SetSteps =>
            Matches(Result(video, cursor[c]), before[c].video, before[c].cursor, ch[c])

WholeInv == \A c \in Contexts : whole[c] /\ pc[c] # "idle" => Progress(c)

-----------------------------------------------------------------------------
(* Numbers.                                                                *)

\* Division with remainder has one result.
LEMMA Division ==
  ASSUME NEW a \in Nat, NEW m \in Nat \ {0}
  PROVE  /\ a \div m \in Nat /\ a % m \in Nat /\ a % m < m
         /\ a = (a \div m) * m + (a % m)
BY SMT

LEMMA DivisionUnique ==
  ASSUME NEW m \in Nat \ {0}, NEW q \in Nat, NEW r \in Nat, r < m
  PROVE  (q * m + r) \div m = q /\ (q * m + r) % m = r
<1> DEFINE a == q * m + r
           p == a \div m
           s == a % m
<1>1. a \in Nat
  BY SMT
<1>2. p \in Nat /\ s \in Nat /\ s < m /\ a = p * m + s
  <2> HIDE DEF a
  <2> QED
    BY <1>1, Division
<1>3. q * m + r = p * m + s
  BY <1>2
<1> HIDE DEF a, p, s
<1>4. ~(p < q)
  <2> SUFFICES ASSUME p < q PROVE FALSE
    OBVIOUS
  <2>1. (q - p - 1) * m >= 0
    BY <1>2, SMT
  <2>2. (q - p - 1) * m = q * m - p * m - m
    BY <1>2, SMT
  <2>3. q * m \in Nat /\ p * m \in Nat
    BY <1>2, SMT
  <2> QED
    BY <1>2, <1>3, <2>1, <2>2, <2>3
<1>5. ~(q < p)
  <2> SUFFICES ASSUME q < p PROVE FALSE
    OBVIOUS
  <2>1. (p - q - 1) * m >= 0
    BY <1>2, SMT
  <2>2. (p - q - 1) * m = p * m - q * m - m
    BY <1>2, SMT
  <2>3. q * m \in Nat /\ p * m \in Nat
    BY <1>2, SMT
  <2> QED
    BY <1>2, <1>3, <2>1, <2>2, <2>3
<1>6. p = q
  BY <1>2, <1>4, <1>5
<1>7. s = r
  <2>1. q * m \in Nat
    BY SMT
  <2> QED
    BY <1>2, <1>3, <1>6, <2>1
<1> QED
  BY <1>6, <1>7 DEF p, s, a

\* Within a block of m the quotient stays, and the remainder counts.

LEMMA ProductNat ==
  ASSUME NEW a \in Nat, NEW b \in Nat
  PROVE  a * b \in Nat
BY SMT

\* A smaller block starts a block or more below.
LEMMA BlockBelow ==
  ASSUME NEW m \in Nat \ {0}, NEW p \in Nat, NEW q \in Nat, p < q
  PROVE  p * m + m <= q * m
<1>1. (q - p - 1) * m >= 0
  BY SMT
<1>2. (q - p - 1) * m = q * m - p * m - m
  BY SMT
<1>3. q * m \in Nat /\ p * m \in Nat
  BY ProductNat
<1> QED
  BY <1>1, <1>2, <1>3

\* A number lies below a block exactly if the block it is in does.
LEMMA BlockOf ==
  ASSUME NEW a \in Nat, NEW m \in Nat \ {0}, NEW q \in Nat
  PROVE  a \div m < q <=> a < q * m
<1> DEFINE p == a \div m
           r == a % m
<1>1. p \in Nat /\ r \in Nat /\ r < m /\ a = p * m + r
  BY Division
<1>2. p * m \in Nat /\ q * m \in Nat
  BY <1>1, ProductNat
<1> HIDE DEF p, r
<1>3. p < q => a < q * m
  <2> SUFFICES ASSUME p < q PROVE a < q * m
    OBVIOUS
  <2>1. p * m + m <= q * m
    BY <1>1, BlockBelow
  <2> QED
    BY <1>1, <1>2, <2>1
<1>4. q < p => q * m <= a
  <2> SUFFICES ASSUME q < p PROVE q * m <= a
    OBVIOUS
  <2>1. q * m + m <= p * m
    BY <1>1, BlockBelow
  <2> QED
    BY <1>1, <1>2, <2>1
<1>5. q = p => q * m <= a
  BY <1>1, <1>2
<1> QED
  BY <1>1, <1>2, <1>3, <1>4, <1>5 DEF p

LEMMA Small ==
  ASSUME NEW a \in Nat, NEW m \in Nat \ {0}, a < m
  PROVE  a \div m = 0 /\ a % m = a
<1>1. (0 * m + a) \div m = 0 /\ (0 * m + a) % m = a
  BY DivisionUnique
<1>2. 0 * m + a = a
  BY SMT
<1> QED
  BY <1>1, <1>2

LEMMA Sizes ==
  /\ VGA_WIDTH \in Nat \ {0} /\ VGA_HEIGHT \in Nat \ {0} /\ TAB_SIZE \in Nat \ {0}
  /\ BYTE \in Nat \ {0} /\ VGA_HEIGHT <= BYTE /\ BYTE <= WORD
  /\ Cells \in Nat \ {0} /\ WORD \in Nat \ {0} /\ LastRow \in Nat
  /\ LastRow + VGA_WIDTH = Cells
  /\ Cells + VGA_WIDTH <= WORD /\ Cells + TAB_SIZE <= WORD
<1>1. /\ VGA_WIDTH \in Nat \ {0} /\ VGA_HEIGHT \in Nat \ {0} /\ TAB_SIZE \in Nat \ {0}
      /\ BYTE \in Nat \ {0} /\ VGA_HEIGHT <= BYTE
      /\ Cells + VGA_WIDTH <= WORD /\ Cells + TAB_SIZE <= WORD
  BY SizeAssumption, ByteAssumption
<1>2. Cells \in Nat /\ WORD \in Nat /\ LastRow \in Nat
  BY <1>1, SMT DEF Cells, WORD, LastRow
<1>3. LastRow + VGA_WIDTH = Cells
  BY <1>1, SMT DEF Cells, LastRow
<1>4. Cells # 0 /\ WORD # 0
  BY <1>1, <1>2, <1>3
<1>5. BYTE <= WORD
  <2>1. (BYTE - 1) * BYTE >= 0
    BY <1>1, SMT
  <2>2. (BYTE - 1) * BYTE = WORD - BYTE
    BY <1>1, SMT DEF WORD
  <2> QED
    BY <1>1, <1>2, <2>1, <2>2
<1> QED
  BY <1>1, <1>2, <1>3, <1>4, <1>5

\* The two bytes of a word, and a word of two bytes.
LEMMA Bytes ==
  ASSUME NEW x \in 0 .. WORD - 1
  PROVE  /\ x \div BYTE \in 0 .. BYTE - 1 /\ lower(x) \in 0 .. BYTE - 1
         /\ (x \div BYTE) * BYTE + lower(x) = x
<1>1. x \in Nat /\ x < WORD
  BY Sizes
<1>2. x \div BYTE < BYTE
  BY <1>1, Sizes, BlockOf DEF WORD
<1>3. /\ x \div BYTE \in Nat /\ x % BYTE \in Nat /\ x % BYTE < BYTE
      /\ x = (x \div BYTE) * BYTE + (x % BYTE)
  BY <1>1, Sizes, Division
<1> QED
  BY <1>2, <1>3, Sizes DEF lower

LEMMA Word ==
  ASSUME NEW h \in 0 .. BYTE - 1, NEW l \in 0 .. BYTE - 1
  PROVE  h * BYTE + l \in 0 .. WORD - 1
<1>1. h \in Nat /\ l \in Nat /\ h < BYTE /\ l < BYTE
  BY Sizes
<1>2. h * BYTE + BYTE <= BYTE * BYTE
  BY <1>1, Sizes, BlockBelow
<1>3. h * BYTE \in Nat
  BY <1>1, Sizes, ProductNat
<1> QED
  BY <1>1, <1>2, <1>3, Sizes DEF WORD

LEMMA OntoScreen ==
  ASSUME NEW x \in Nat
  PROVE  /\ onto_screen(x) \in Screen
         /\ x < WORD => onto_screen(x) = x % Cells
         /\ x < Cells => onto_screen(x) = x
<1>1. x % WORD \in Nat
  BY Sizes, Division
<1>2. (x % WORD) % Cells \in Nat /\ (x % WORD) % Cells < Cells
  BY <1>1, Sizes, Division
<1>3. x < WORD => x % WORD = x
  BY Sizes, Small
<1>4. x < Cells => x % Cells = x /\ x < WORD
  BY Sizes, Small
<1> QED
  BY <1>2, <1>3, <1>4, Sizes DEF onto_screen, Screen

LEMMA ScreenIsWords == Screen \subseteq 0 .. WORD - 1 /\ 0 \in Screen /\ LastRow \in Screen
BY Sizes DEF Screen

\* The row of a cell, and the start of it and of the next.
LEMMA Rows ==
  ASSUME NEW x \in Nat
  PROVE  LET q == x \div VGA_WIDTH
         IN  /\ q \in Nat
             /\ q * VGA_WIDTH = x - (x % VGA_WIDTH)
             /\ (q + 1) * VGA_WIDTH = x - (x % VGA_WIDTH) + VGA_WIDTH
             /\ q * VGA_WIDTH \in Nat
             /\ q * VGA_WIDTH <= x
             /\ x \in Screen => q < VGA_HEIGHT
             /\ q + 1 = VGA_HEIGHT => x \in Screen
             /\ x \in Screen => (q + 1 = VGA_HEIGHT <=> x >= LastRow)
             /\ x \in Screen /\ q + 1 # VGA_HEIGHT => (q + 1) * VGA_WIDTH < Cells
<1> DEFINE q == x \div VGA_WIDTH
           r == x % VGA_WIDTH
<1>1. q \in Nat /\ r \in Nat /\ r < VGA_WIDTH /\ x = q * VGA_WIDTH + r
  BY Sizes, Division
<1>2. q < VGA_HEIGHT <=> x < VGA_HEIGHT * VGA_WIDTH
  BY Sizes, BlockOf
<1>3. VGA_HEIGHT * VGA_WIDTH = Cells
  BY Sizes, SMT DEF Cells
<1>4. q < VGA_HEIGHT - 1 <=> x < LastRow
  BY Sizes, BlockOf DEF LastRow
<1>5. q + 1 < VGA_HEIGHT => (q + 1) * VGA_WIDTH + VGA_WIDTH <= VGA_HEIGHT * VGA_WIDTH
  BY <1>1, Sizes, BlockBelow
<1> HIDE DEF q, r
<1>6. (q + 1) * VGA_WIDTH = q * VGA_WIDTH + VGA_WIDTH /\ q * VGA_WIDTH \in Nat
  BY <1>1, Sizes, SMT
<1>7. q * VGA_WIDTH = x - r /\ q * VGA_WIDTH <= x
  BY <1>1, <1>6, Sizes
<1>8. (q + 1) * VGA_WIDTH = x - r + VGA_WIDTH
  BY <1>6, <1>7
<1>9. (x \in Screen => q < VGA_HEIGHT) /\ (q + 1 = VGA_HEIGHT => x \in Screen)
  BY <1>1, <1>2, <1>3, Sizes DEF Screen
<1>10. x \in Screen => (q + 1 = VGA_HEIGHT <=> x >= LastRow)
  BY <1>1, <1>4, <1>9, Sizes
<1>11. x \in Screen /\ q + 1 # VGA_HEIGHT => (q + 1) * VGA_WIDTH < Cells
  BY <1>1, <1>3, <1>5, <1>6, <1>9, Sizes
<1> QED
  BY <1>1, <1>6, <1>7, <1>8, <1>9, <1>10, <1>11 DEF q, r

-----------------------------------------------------------------------------
(* The invariant and the steps of put_char that only access the ports.     *)

LEMMA Types ==
  ASSUME TypeOK, HistoryOK, NEW c \in Contexts
  PROVE  /\ low \in Nat /\ low < BYTE /\ high \in Nat /\ high < BYTE /\ BYTE \in Nat
         /\ cursor[c] \in Nat /\ cursor[c] < WORD /\ row[c] \in Nat
         /\ in \in 0 .. BYTE - 1
         /\ Cursor \in 0 .. WORD - 1 /\ Cursor \in Nat
<1>1. /\ low \in 0 .. BYTE - 1 /\ high \in 0 .. BYTE - 1
      /\ cursor[c] \in 0 .. WORD - 1 /\ row[c] \in 1 .. VGA_HEIGHT
  BY DEF TypeOK
<1>2. in \in 0 .. BYTE - 1
  BY <1>1 DEF in
<1>3. Cursor \in 0 .. WORD - 1
  BY <1>1, Word DEF Cursor
<1> QED
  BY <1>1, <1>2, <1>3, Sizes

\* The steps leave alone what the context of the other is made of.
LEMMA SelectKeeps ==
  ASSUME IInv, NEW c \in Contexts,
         get_select_low(c) \/ get_select_high(c) \/ set_select_low(c) \/ set_select_high(c)
  PROVE  IInv'
<1> USE DEF get_select_low, get_select_high, set_select_low, set_select_high,
            select, ports, locals, history, At, Go
<1>1. /\ running' = running /\ c = running /\ Cursor' = Cursor
      /\ UNCHANGED <<video, low, high, key, keys, ch, cursor, row, before, whole, torn, stray>>
  BY DEF running, Cursor
<1>2. TypeOK' /\ HistoryOK'
  BY <1>1 DEF IInv, TypeOK, HistoryOK, Steps, Between
<1>3. ContextInv'
  BY <1>1 DEF IInv, ContextInv, Contexts, Between, running, TypeOK
<1>4. LocalInv'
  BY <1>1 DEF IInv, LocalInv, SetSteps, TypeOK
<1>5. PortsInv'
  BY <1>1 DEF IInv, PortsInv, TypeOK
<1>6. SteadyInv'
  BY <1>1 DEF IInv, SteadyInv, TypeOK
<1>7. StraysOnlyWhenTorn'
  BY <1>1 DEF IInv, StraysOnlyWhenTorn
<1> QED
  BY <1>2, <1>3, <1>4, <1>5, <1>6, <1>7 DEF IInv

LEMMA GetLowKeeps ==
  ASSUME IInv, NEW c \in Contexts, get_low(c)
  PROVE  IInv'
<1> USE DEF get_low, ports, history, At, Go, Local
<1>1. /\ running' = running /\ c = running /\ Cursor' = Cursor
      /\ UNCHANGED <<video, index, low, high, key, keys, ch, row, before, whole, torn, stray>>
  BY DEF running, Cursor
<1>2. in \in 0 .. BYTE - 1 /\ in \in Nat /\ in < BYTE /\ in \in 0 .. WORD - 1
  BY Types, Sizes DEF IInv
<1>3. TypeOK' /\ HistoryOK'
  BY <1>1, <1>2 DEF IInv, TypeOK, HistoryOK, Steps, Between
<1>4. ContextInv'
  BY <1>1 DEF IInv, ContextInv, Contexts, Between, running, TypeOK
<1>5. LocalInv'
  BY <1>1, <1>2 DEF IInv, LocalInv, SetSteps, TypeOK
<1>6. PortsInv'
  BY <1>1 DEF IInv, PortsInv, TypeOK, in
<1>7. SteadyInv'
  BY <1>1 DEF IInv, SteadyInv, TypeOK
<1>8. StraysOnlyWhenTorn'
  BY <1>1 DEF IInv, StraysOnlyWhenTorn
<1> QED
  BY <1>3, <1>4, <1>5, <1>6, <1>7, <1>8 DEF IInv

\* What was read is the cursor, if nothing has come in between.
LEMMA GetHighKeeps ==
  ASSUME IInv, NEW c \in Contexts, get_high(c)
  PROVE  /\ IInv'
         /\ whole[c] \/ ~torn => cursor'[c] = Cursor
<1> USE DEF get_high, ports, history, At, Go, Local
<1>1. /\ running' = running /\ c = running /\ Cursor' = Cursor
      /\ UNCHANGED <<video, index, low, high, key, keys, ch, row, before, whole, torn, stray>>
  BY DEF running, Cursor
<1>2. cursor[c] \in 0 .. BYTE - 1
  BY Types, Sizes DEF IInv, LocalInv
<1>3. in * BYTE + cursor[c] \in 0 .. WORD - 1
  BY <1>2, Types, Word DEF IInv
<1>4. in * BYTE \in Nat
  BY Types, Sizes, ProductNat DEF IInv
<1>5. cursor[c] + in * BYTE = in * BYTE + cursor[c]
  BY <1>2, <1>4, Sizes
<1>6. cursor' = [cursor EXCEPT ![c] = in * BYTE + cursor[c]]
  BY <1>5
<1>7. whole[c] \/ ~torn => in * BYTE + cursor[c] = Cursor
  BY <1>1 DEF IInv, PortsInv, in, Cursor
<1> DEFINE x == in * BYTE + cursor[c]
<1> HIDE DEF x
<1>8. x \in 0 .. WORD - 1 /\ cursor' = [cursor EXCEPT ![c] = x] /\ (whole[c] \/ ~torn => x = Cursor)
  BY <1>3, <1>6, <1>7 DEF x
<1>9. TypeOK' /\ HistoryOK'
  BY <1>1, <1>8 DEF IInv, TypeOK, HistoryOK, Steps, Between
<1>10. ContextInv'
  BY <1>1 DEF IInv, ContextInv, Contexts, Between, running, TypeOK
<1>11. LocalInv'
  BY <1>1, <1>8 DEF IInv, LocalInv, SetSteps, TypeOK
<1>12. PortsInv'
  BY <1>1, <1>8 DEF IInv, PortsInv, TypeOK
<1>13. SteadyInv'
  BY <1>1, <1>8 DEF IInv, SteadyInv, TypeOK
<1>14. StraysOnlyWhenTorn'
  BY <1>1 DEF IInv, StraysOnlyWhenTorn
<1>15. whole[c] \/ ~torn => cursor'[c] = Cursor
  BY <1>8 DEF IInv, TypeOK
<1> QED
  BY <1>9, <1>10, <1>11, <1>12, <1>13, <1>14, <1>15 DEF IInv

LEMMA SetLowKeeps ==
  ASSUME IInv, NEW c \in Contexts, set_low(c)
  PROVE  IInv'
<1> USE DEF set_low, locals, history, At, Go
<1>1. /\ running' = running /\ c = running
      /\ UNCHANGED <<video, index, key, keys, ch, cursor, row, before, whole, torn, stray>>
  BY DEF running
<1>2. cursor[c] \in 0 .. WORD - 1
  BY DEF IInv, TypeOK
<1>3. lower(cursor[c]) \in 0 .. BYTE - 1
  BY <1>2, Bytes
<1>4. /\ low' \in 0 .. BYTE - 1 /\ high' \in 0 .. BYTE - 1
      /\ index = "low" => low' = lower(cursor[c])
  BY <1>3 DEF out, IInv, TypeOK
<1>5. TypeOK' /\ HistoryOK'
  BY <1>1, <1>4 DEF IInv, TypeOK, HistoryOK, Steps, Between
<1>6. ContextInv'
  BY <1>1 DEF IInv, ContextInv, Contexts, Between, running, TypeOK
<1>7. LocalInv'
  BY <1>1 DEF IInv, LocalInv, SetSteps, TypeOK
<1>8. PortsInv'
  <2>1. (lower(cursor[c]))' = lower(cursor[c])
    BY <1>1
  <2> QED
    BY <1>1, <1>4, <2>1 DEF IInv, PortsInv, TypeOK
<1>9. SteadyInv'
  BY <1>1 DEF IInv, SteadyInv, TypeOK
<1>10. StraysOnlyWhenTorn'
  BY <1>1 DEF IInv, StraysOnlyWhenTorn
<1> QED
  BY <1>5, <1>6, <1>7, <1>8, <1>9, <1>10 DEF IInv

\* The two bytes make the cursor, if nothing has come in between.
LEMMA SetHighKeeps ==
  ASSUME IInv, NEW c \in Contexts, set_high(c)
  PROVE  /\ IInv'
         /\ whole[c] \/ ~torn => Cursor' = cursor[c]
<1> USE DEF set_high, At, Go, Local, Return
<1>1. /\ running' = running /\ c = running
      /\ UNCHANGED <<video, index, key, keys, row, torn, stray>>
  BY DEF running
<1>2. cursor[c] \in 0 .. WORD - 1 /\ cursor[c] \in Screen
  BY DEF IInv, TypeOK, LocalInv, SetSteps
<1>3. /\ cursor[c] \div BYTE \in 0 .. BYTE - 1
      /\ (cursor[c] \div BYTE) * BYTE + lower(cursor[c]) = cursor[c]
  BY <1>2, Bytes
<1>4. /\ low' \in 0 .. BYTE - 1 /\ high' \in 0 .. BYTE - 1
      /\ index = "high" => high' = cursor[c] \div BYTE /\ low' = low
  BY <1>3 DEF out, IInv, TypeOK
<1>5. whole[c] \/ ~torn => index = "high" /\ low = lower(cursor[c])
  BY <1>1 DEF IInv, PortsInv
<1>6. whole[c] \/ ~torn => Cursor' = cursor[c]
  BY <1>3, <1>4, <1>5 DEF Cursor
<1>7. TypeOK' /\ HistoryOK'
  <2>1. 0 \in 0 .. WORD - 1 /\ Nowhere \in Moments /\ Blank \in Characters
    BY Sizes DEF Nowhere, Moments, Characters
  <2> QED
    BY <1>1, <1>4, <2>1 DEF IInv, TypeOK, HistoryOK, Steps, Between
<1>8. ContextInv'
  BY <1>1 DEF IInv, ContextInv, Contexts, Between, running, TypeOK, HistoryOK
<1>9. LocalInv'
  BY <1>1 DEF IInv, LocalInv, SetSteps, TypeOK
<1>10. PortsInv'
  BY <1>1 DEF IInv, PortsInv, TypeOK
<1>11. SteadyInv'
  BY <1>1, <1>2, <1>6 DEF IInv, SteadyInv, TypeOK
<1>12. StraysOnlyWhenTorn'
  BY <1>1 DEF IInv, StraysOnlyWhenTorn
<1> QED
  BY <1>6, <1>7, <1>8, <1>9, <1>10, <1>11, <1>12 DEF IInv

-----------------------------------------------------------------------------
(* The invariant and the steps of put_char in between.                     *)

\* A step that is about to move the cursor to a cell of the screen.
LEMMA MoveKeeps ==
  ASSUME IInv, NEW c \in Contexts, c = running, pc[c] \in {"switch", "roll_up"},
         NEW y \in Screen, Local(c, y), Go(c, "set_select_low"),
         UNCHANGED <<ports, key, keys, ch, before, whole, torn>>,
         row' = [row EXCEPT ![c] = 1],
         video' \in [Screen -> Characters], stray' \in BOOLEAN, StraysOnlyWhenTorn'
  PROVE  IInv'
<1> USE DEF Go, Local, ports
<1>1. running' = running /\ Cursor' = Cursor /\ UNCHANGED <<index, low, high>>
  BY DEF running, Cursor
<1>2. y \in 0 .. WORD - 1 /\ 1 \in 1 .. VGA_HEIGHT
  BY Sizes, ScreenIsWords
<1>3. TypeOK' /\ HistoryOK'
  BY <1>1, <1>2 DEF IInv, TypeOK, HistoryOK, Steps, Between
<1>4. ContextInv'
  BY <1>1 DEF IInv, ContextInv, Contexts, Between, running, TypeOK
<1>5. LocalInv'
  BY <1>1 DEF IInv, LocalInv, SetSteps, TypeOK
<1>6. PortsInv'
  BY <1>1 DEF IInv, PortsInv, TypeOK
<1>7. SteadyInv'
  BY <1>1 DEF IInv, SteadyInv, TypeOK
<1> QED
  BY <1>3, <1>4, <1>5, <1>6, <1>7 DEF IInv

\* A step that is about to roll the screen up, or has rolled a row.
LEMMA RollKeeps ==
  ASSUME IInv, NEW c \in Contexts, c = running, pc[c] \in {"switch", "roll_up"},
         UNCHANGED <<ports, key, keys, ch, cursor, before, whole, torn>>,
         Go(c, "roll_up"),
         NEW r \in 1 .. VGA_HEIGHT, row' = [row EXCEPT ![c] = r],
         video' \in [Screen -> Characters], stray' \in BOOLEAN, StraysOnlyWhenTorn'
  PROVE  IInv'
<1> USE DEF Go, ports
<1>1. running' = running /\ Cursor' = Cursor /\ UNCHANGED <<index, low, high>>
  BY DEF running, Cursor
<1>2. TypeOK' /\ HistoryOK'
  BY <1>1 DEF IInv, TypeOK, HistoryOK, Steps, Between
<1>3. ContextInv'
  BY <1>1 DEF IInv, ContextInv, Contexts, Between, running, TypeOK
<1>4. LocalInv'
  BY <1>1 DEF IInv, LocalInv, SetSteps, TypeOK
<1>5. PortsInv'
  BY <1>1 DEF IInv, PortsInv, TypeOK
<1>6. SteadyInv'
  BY <1>1 DEF IInv, SteadyInv, TypeOK
<1> QED
  BY <1>2, <1>3, <1>4, <1>5, <1>6 DEF IInv

\* What is written is a character, and on the screen unless the context was torn.
LEMMA WriteKeeps ==
  ASSUME IInv, NEW c \in Contexts, c = running, pc[c] = "switch",
         NEW char \in Characters, write_video(cursor[c], char), UNCHANGED torn
  PROVE  /\ video' \in [Screen -> Characters] /\ stray' \in BOOLEAN
         /\ StraysOnlyWhenTorn'
<1>1. ~torn => cursor[c] \in Screen
  BY DEF IInv, SteadyInv
<1>2. ~torn => ~(cursor[c] > Cells)
  BY <1>1, Sizes DEF Screen
<1>3. video' \in [Screen -> Characters]
  BY DEF write_video, IInv, TypeOK
<1>4. stray' = (stray \/ cursor[c] > Cells)
  BY DEF write_video
<1>5. stray' \in BOOLEAN
  BY <1>4 DEF IInv, TypeOK
<1>6. StraysOnlyWhenTorn'
  BY <1>2, <1>4 DEF IInv, StraysOnlyWhenTorn
<1> QED
  BY <1>3, <1>5, <1>6

LEMMA StillOnlyWhenTorn ==
  ASSUME IInv, UNCHANGED <<stray, torn>>
  PROVE  stray' \in BOOLEAN /\ StraysOnlyWhenTorn'
BY DEF IInv, TypeOK, StraysOnlyWhenTorn

\* The characters that only move the cursor, to cell x before it is brought
\* back to the screen.
LEMMA SetCursorKeeps ==
  ASSUME IInv, NEW c \in Contexts, At(c, "switch"), NEW x \in Nat, set_cursor(c, x),
         UNCHANGED <<ports, key, keys, ch, row, before, whole, torn>>,
         video' \in [Screen -> Characters], stray' \in BOOLEAN, StraysOnlyWhenTorn'
  PROVE  IInv'
<1>1. onto_screen(x) \in Screen
  BY OntoScreen
<1>2. row' = [row EXCEPT ![c] = 1]
  BY DEF IInv, TypeOK, LocalInv, At
<1> QED
  BY <1>1, <1>2, MoveKeeps DEF set_cursor, At

LEMMA RollLaterKeeps ==
  ASSUME IInv, NEW c \in Contexts, At(c, "switch"), roll_up_later(c),
         UNCHANGED <<ports, key, keys, ch, row, before, whole, torn>>,
         video' \in [Screen -> Characters], stray' \in BOOLEAN, StraysOnlyWhenTorn'
  PROVE  IInv'
<1>1. row' = [row EXCEPT ![c] = 1] /\ 1 \in 1 .. VGA_HEIGHT
  BY Sizes DEF IInv, TypeOK, LocalInv, At
<1> QED
  BY <1>1, RollKeeps DEF roll_up_later, At

LEMMA NewLineKeeps ==
  ASSUME IInv, NEW c \in Contexts, new_line(c)
  PROVE  IInv'
<1> DEFINE q == cursor[c] \div VGA_WIDTH
<1>1. /\ video' \in [Screen -> Characters] /\ stray' \in BOOLEAN /\ StraysOnlyWhenTorn'
      /\ UNCHANGED <<ports, key, keys, ch, row, before, whole, torn>> /\ At(c, "switch")
  BY StillOnlyWhenTorn DEF new_line, history, IInv, TypeOK
<1>2. cursor[c] \in Nat
  BY Types DEF IInv
<1>3. q \in Nat
  BY <1>2, Sizes, Division
<1> HIDE DEF q
<1>4. (q + 1) % BYTE \in Nat
  BY <1>3, Sizes, Division
<1>5. ((q + 1) % BYTE) * VGA_WIDTH \in Nat
  BY <1>4, Sizes, ProductNat
<1>6. ((q + 1) % BYTE) * VGA_WIDTH + 0 \in Nat
  BY <1>5
<1>7. CASE q + 1 = VGA_HEIGHT
  BY <1>1, <1>7, RollLaterKeeps DEF new_line, q
<1>8. CASE q + 1 # VGA_HEIGHT
  BY <1>1, <1>6, <1>8, SetCursorKeeps DEF new_line, set_cursor_r_c, q
<1> QED
  BY <1>7, <1>8

LEMMA CursorOnlyKeeps ==
  ASSUME IInv, NEW c \in Contexts, carriage_return(c) \/ tab(c) \/ vertical_tab(c)
  PROVE  IInv'
<1>1. /\ video' \in [Screen -> Characters] /\ stray' \in BOOLEAN /\ StraysOnlyWhenTorn'
      /\ UNCHANGED <<ports, key, keys, ch, row, before, whole, torn>> /\ At(c, "switch")
  BY StillOnlyWhenTorn DEF carriage_return, tab, vertical_tab, history, IInv, TypeOK
<1>2. cursor[c] \in Nat
  BY Types DEF IInv
<1>3. CASE carriage_return(c)
  <2>1. cursor[c] \div VGA_WIDTH \in Nat
    BY <1>2, Sizes, Division
  <2>2. (cursor[c] \div VGA_WIDTH) * VGA_WIDTH \in Nat
    BY <2>1, Sizes, ProductNat
  <2> QED
    BY <1>1, <1>3, <2>2, SetCursorKeeps DEF carriage_return
<1>4. CASE tab(c)
  <2>1. cursor[c] \div TAB_SIZE \in Nat
    BY <1>2, Sizes, Division
  <2>2. (cursor[c] \div TAB_SIZE + 1) * TAB_SIZE \in Nat
    BY <2>1, Sizes, ProductNat
  <2> QED
    BY <1>1, <1>4, <2>2, SetCursorKeeps DEF tab
<1>5. CASE vertical_tab(c)
  <2>1. cursor[c] + VGA_WIDTH \in Nat
    BY <1>2, Sizes
  <2> QED
    BY <1>1, <1>5, <2>1, SetCursorKeeps DEF vertical_tab
<1> QED
  BY <1>3, <1>4, <1>5

LEMMA BackspaceKeeps ==
  ASSUME IInv, NEW c \in Contexts, backspace(c)
  PROVE  IInv'
<1>1. Blank \in Characters
  BY DEF Characters
<1>2. /\ video' \in [Screen -> Characters] /\ stray' \in BOOLEAN /\ StraysOnlyWhenTorn'
      /\ UNCHANGED <<ports, key, keys, row, torn>> /\ At(c, "switch") /\ c = running
  BY <1>1, WriteKeeps DEF backspace, At
<1>3. cursor[c] \in Nat
  BY Types DEF IInv
<1>4. CASE cursor[c] # 0
  <2>1. cursor[c] - 1 \in Nat
    BY <1>3, <1>4
  <2>2. set_cursor(c, cursor[c] - 1) /\ UNCHANGED <<ch, before, whole>>
    BY <1>4 DEF backspace
  <2> QED
    BY <1>2, <2>1, <2>2, SetCursorKeeps
<1>5. CASE cursor[c] = 0
  <2> USE DEF Return, Go, Local, ports
  <2>1. Return(c)
    BY <1>5 DEF backspace
  <2>2. running' = running /\ Cursor' = Cursor /\ UNCHANGED <<index, low, high>>
    BY <1>2 DEF running, Cursor
  <2>3. TypeOK' /\ HistoryOK'
    <3>1. 0 \in 0 .. WORD - 1 /\ Nowhere \in Moments /\ Blank \in Characters
      BY Sizes DEF Nowhere, Moments, Characters
    <3> QED
      BY <1>2, <2>1, <2>2, <3>1 DEF IInv, TypeOK, HistoryOK, Steps, Between
  <2>4. ContextInv'
    BY <1>2, <2>1, <2>2 DEF IInv, ContextInv, Contexts, Between, running, TypeOK, HistoryOK, At
  <2>5. LocalInv'
    BY <1>2, <2>1 DEF IInv, LocalInv, SetSteps, TypeOK, At
  <2>6. PortsInv'
    BY <1>2, <2>1, <2>2 DEF IInv, PortsInv, TypeOK
  <2>7. SteadyInv'
    BY <1>2, <2>1, <2>2 DEF IInv, SteadyInv, TypeOK, At
  <2> QED
    BY <1>2, <2>3, <2>4, <2>5, <2>6, <2>7 DEF IInv
<1> QED
  BY <1>4, <1>5

LEMMA CharacterKeeps ==
  ASSUME IInv, NEW c \in Contexts, character(c)
  PROVE  IInv'
<1>1. ch[c] \in Characters
  BY DEF IInv, TypeOK
<1>2. /\ video' \in [Screen -> Characters] /\ stray' \in BOOLEAN /\ StraysOnlyWhenTorn'
      /\ UNCHANGED <<ports, key, keys, ch, row, before, whole, torn>> /\ At(c, "switch")
  BY <1>1, WriteKeeps DEF character, At
<1>3. cursor[c] + 1 \in Nat
  BY Types DEF IInv
<1>4. CASE (cursor[c] + 1) % WORD = Cells
  BY <1>2, <1>4, RollLaterKeeps DEF character
<1>5. CASE (cursor[c] + 1) % WORD # Cells
  BY <1>2, <1>3, <1>5, SetCursorKeeps DEF character
<1> QED
  BY <1>4, <1>5

\* A cell of a row that has one below it.
LEMMA CellBelow ==
  ASSUME NEW a \in Screen, a \div VGA_WIDTH < VGA_HEIGHT - 1
  PROVE  a + VGA_WIDTH \in Screen /\ a < LastRow
<1>1. a \in Nat
  BY Sizes DEF Screen
<1>2. a < (VGA_HEIGHT - 1) * VGA_WIDTH
  BY <1>1, Sizes, BlockOf
<1> QED
  BY <1>1, <1>2, Sizes DEF LastRow, Screen

LEMMA RollRowKeeps ==
  ASSUME IInv, NEW c \in Contexts, roll_row(c)
  PROVE  IInv'
<1>1. row[c] \in 1 .. VGA_HEIGHT /\ row[c] < VGA_HEIGHT /\ video' = copied(c)
  BY DEF IInv, TypeOK, roll_row
<1>2. row[c] + 1 \in 1 .. VGA_HEIGHT
  BY <1>1, Sizes
<1>3. ASSUME NEW a \in Screen
      PROVE  (IF a \div VGA_WIDTH = row[c] - 1
                THEN video[a + VGA_WIDTH]
                ELSE video[a]) \in Characters
  <2>1. a \div VGA_WIDTH = row[c] - 1 => a + VGA_WIDTH \in Screen
    BY <1>1, Sizes, CellBelow
  <2> QED
    BY <2>1 DEF IInv, TypeOK
<1>4. video' \in [Screen -> Characters]
  BY <1>1, <1>3 DEF copied
<1>5. stray' \in BOOLEAN /\ StraysOnlyWhenTorn'
  BY StillOnlyWhenTorn DEF roll_row, history
<1>6. pc' = [pc EXCEPT ![c] = "roll_up"]
  BY DEF roll_row, At, IInv, TypeOK
<1> QED
  BY <1>2, <1>4, <1>5, <1>6, RollKeeps DEF roll_row, At, Go, history

LEMMA RollEndKeeps ==
  ASSUME IInv, NEW c \in Contexts, roll_end(c)
  PROVE  IInv'
<1>1. video' \in [Screen -> Characters]
  BY DEF roll_end, IInv, TypeOK, Characters
<1>2. stray' \in BOOLEAN /\ StraysOnlyWhenTorn'
  BY StillOnlyWhenTorn DEF roll_end, history
<1>3. (VGA_HEIGHT - 1) % BYTE \in Nat
  BY Sizes, Division
<1>4. ((VGA_HEIGHT - 1) % BYTE) * VGA_WIDTH \in Nat
  BY <1>3, Sizes, ProductNat
<1>5. ((VGA_HEIGHT - 1) % BYTE) * VGA_WIDTH + 0 \in Nat
  BY <1>4
<1>6. onto_screen(((VGA_HEIGHT - 1) % BYTE) * VGA_WIDTH + 0) \in Screen
  BY <1>5, OntoScreen
<1> QED
  BY <1>1, <1>2, <1>6, MoveKeeps DEF roll_end, set_cursor_r_c, set_cursor, At, history

-----------------------------------------------------------------------------
(* The invariant and the calls of put_char, the interrupt and its return.  *)

LEMMA PutCharKeeps ==
  ASSUME IInv, NEW c \in Contexts, At(c, "idle"), NEW char \in Characters,
         put_char(c, char), keys' \in Seq(Characters)
  PROVE  IInv'
<1> USE DEF put_char, At, Go, ports
<1>1. /\ running' = running /\ c = running /\ Cursor' = Cursor
      /\ UNCHANGED <<video, index, low, high, key, cursor, row, whole, torn, stray>>
  BY DEF running, Cursor
<1>2. [video |-> video, cursor |-> Cursor] \in Moments
  BY Types DEF Moments, IInv, TypeOK
<1>3. TypeOK' /\ HistoryOK'
  BY <1>1, <1>2 DEF IInv, TypeOK, HistoryOK, Steps
<1>4. ContextInv'
  BY <1>1 DEF IInv, ContextInv, Contexts, Between, running, TypeOK
<1>5. LocalInv'
  BY <1>1 DEF IInv, LocalInv, SetSteps, TypeOK
<1>6. PortsInv'
  BY <1>1 DEF IInv, PortsInv, TypeOK
<1>7. SteadyInv'
  BY <1>1 DEF IInv, SteadyInv, TypeOK
<1>8. StraysOnlyWhenTorn'
  BY <1>1 DEF IInv, StraysOnlyWhenTorn
<1> QED
  BY <1>3, <1>4, <1>5, <1>6, <1>7, <1>8 DEF IInv

LEMMA KernelPrintKeeps ==
  ASSUME IInv, kernel_print
  PROVE  IInv'
<1>1. PICK char \in Text : put_char("kernel", char)
  BY DEF kernel_print
<1>2. char \in Characters /\ "kernel" \in Contexts
  BY DEF Characters, Contexts
<1>3. keys' \in Seq(Characters) /\ At("kernel", "idle")
  BY DEF kernel_print, IInv, HistoryOK
<1> QED
  BY <1>1, <1>2, <1>3, PutCharKeeps

LEMMA KeyboardPrintKeeps ==
  ASSUME IInv, keyboard_print
  PROVE  IInv'
<1>1. keys \in Seq(Characters) /\ keys # <<>>
  BY DEF keyboard_print, IInv, HistoryOK
<1>2. Head(keys) \in Characters /\ Tail(keys) \in Seq(Characters)
  BY <1>1, HeadTailProperties
<1>3. /\ keys' = Tail(keys) /\ At("keyboard", "idle") /\ put_char("keyboard", Head(keys))
      /\ "keyboard" \in Contexts
  BY DEF keyboard_print, Contexts
<1> QED
  BY <1>2, <1>3, PutCharKeeps

\* The processor enters the handler.
LEMMA InterruptKeeps ==
  ASSUME IInv, int21h
  PROVE  IInv'
<1> USE DEF int21h, ports, locals
<1>1. /\ running = "kernel" /\ running' = "keyboard" /\ Cursor' = Cursor
      /\ pc["keyboard"] = "idle" /\ ~torn
  BY DEF running, Cursor, IInv, ContextInv
<1>2. TypeOK' /\ HistoryOK'
  BY DEF IInv, TypeOK, HistoryOK, Contexts
<1>3. ContextInv'
  BY DEF IInv, ContextInv, HistoryOK, Contexts
<1>4. LocalInv'
  BY DEF IInv, LocalInv
<1>5. PortsInv'
  BY <1>1 DEF PortsInv
<1>6. SteadyInv'
  BY <1>1 DEF IInv, SteadyInv, Between
<1>7. StraysOnlyWhenTorn'
  BY <1>1 DEF IInv, StraysOnlyWhenTorn
<1> QED
  BY <1>2, <1>3, <1>4, <1>5, <1>6, <1>7 DEF IInv

\* The kernel resumes, and is in the middle of an access only if that is known.
LEMMA ReturnKeeps ==
  ASSUME IInv, iret
  PROVE  IInv'
<1> USE DEF iret, ports, locals, history, At
<1>1. /\ running = "keyboard" /\ running' = "kernel" /\ Cursor' = Cursor
      /\ pc["keyboard"] = "idle" /\ key = "running"
  BY DEF running, Cursor
<1>2. TypeOK' /\ HistoryOK'
  BY DEF IInv, TypeOK, HistoryOK
<1>3. ContextInv'
  BY <1>1 DEF IInv, ContextInv
<1>4. LocalInv'
  BY DEF IInv, LocalInv
<1>5. PortsInv'
  BY <1>1 DEF IInv, PortsInv, ContextInv, Between
<1>6. SteadyInv'
  BY <1>1 DEF IInv, SteadyInv
<1>7. StraysOnlyWhenTorn'
  BY <1>1 DEF IInv, StraysOnlyWhenTorn
<1> QED
  BY <1>2, <1>3, <1>4, <1>5, <1>6, <1>7 DEF IInv

LEMMA StutterKeeps ==
  ASSUME IInv, UNCHANGED vars
  PROVE  IInv'
<1> USE DEF vars, ports, locals, history
<1>1. running' = running /\ Cursor' = Cursor
  BY DEF running, Cursor
<1> QED
  BY <1>1 DEF IInv, TypeOK, HistoryOK, ContextInv, LocalInv, PortsInv, SteadyInv,
              StraysOnlyWhenTorn

LEMMA InitIInv == Init => IInv
<1> SUFFICES ASSUME Init PROVE IInv
  OBVIOUS
<1>1. KeyText \in Seq(Characters)
  <2>1. KeyText \in [1 .. Len(KeyText) -> STRING] /\ Len(KeyText) \in Nat
    BY KeyTextAssumption, LenProperties
  <2>2. \A j \in 1 .. Len(KeyText) : KeyText[j] \in Characters
    BY DEF Characters
  <2>3. KeyText \in [1 .. Len(KeyText) -> Characters]
    BY <2>1, <2>2
  <2> QED
    BY <2>1, <2>3, SeqDef
<1>2. /\ 0 \in 0 .. WORD - 1 /\ 0 \in 0 .. BYTE - 1 /\ Nowhere \in Moments
      /\ Blank \in Characters /\ 1 \in 1 .. VGA_HEIGHT
  BY Sizes DEF Nowhere, Moments, Characters
<1>3. Cursor = 0 /\ running = "kernel" /\ 0 \in Screen
  BY Sizes, ScreenIsWords DEF Init, Cursor, running
<1>4. TypeOK /\ HistoryOK
  BY <1>1, <1>2 DEF Init, TypeOK, HistoryOK, Steps
<1>5. ContextInv /\ LocalInv /\ PortsInv /\ SteadyInv /\ StraysOnlyWhenTorn
  BY <1>3 DEF Init, ContextInv, LocalInv, PortsInv, SteadyInv, StraysOnlyWhenTorn,
              Contexts, SetSteps
<1> QED
  BY <1>4, <1>5 DEF IInv

LEMMA StepIInv == IInv /\ [Next]_vars => IInv'
<1> SUFFICES ASSUME IInv, [Next]_vars PROVE IInv'
  OBVIOUS
<1>1. CASE kernel_print
  BY <1>1, KernelPrintKeeps
<1>2. CASE keyboard_print
  BY <1>2, KeyboardPrintKeeps
<1>3. CASE \E c \in Contexts : PutCharStep(c)
  <2>1. PICK c \in Contexts : PutCharStep(c)
    BY <1>3
  <2>2. CASE get_select_low(c) \/ get_select_high(c) \/ set_select_low(c) \/ set_select_high(c)
    BY <2>2, SelectKeeps
  <2>3. CASE get_low(c)
    BY <2>3, GetLowKeeps
  <2>4. CASE get_high(c)
    BY <2>4, GetHighKeeps
  <2>5. CASE new_line(c)
    BY <2>5, NewLineKeeps
  <2>6. CASE carriage_return(c) \/ tab(c) \/ vertical_tab(c)
    BY <2>6, CursorOnlyKeeps
  <2>7. CASE backspace(c)
    BY <2>7, BackspaceKeeps
  <2>8. CASE character(c)
    BY <2>8, CharacterKeeps
  <2>9. CASE roll_row(c)
    BY <2>9, RollRowKeeps
  <2>10. CASE roll_end(c)
    BY <2>10, RollEndKeeps
  <2>11. CASE set_low(c)
    BY <2>11, SetLowKeeps
  <2>12. CASE set_high(c)
    BY <2>12, SetHighKeeps
  <2> QED
    BY <2>1, <2>2, <2>3, <2>4, <2>5, <2>6, <2>7, <2>8, <2>9, <2>10, <2>11, <2>12
       DEF PutCharStep
<1>4. CASE int21h
  BY <1>4, InterruptKeeps
<1>5. CASE iret
  BY <1>5, ReturnKeeps
<1>6. CASE UNCHANGED vars
  BY <1>6, StutterKeeps
<1> QED
  BY <1>1, <1>2, <1>3, <1>4, <1>5, <1>6 DEF Next

LEMMA Invariance == Spec => []IInv
BY InitIInv, StepIInv, PTL DEF Spec

\* Every variable of the console has its type, at every moment, for screens,
\* bytes and texts of every size.
THEOREM TypeCorrect == Spec => []TypeOK
<1>1. IInv => TypeOK
  BY DEF IInv
<1> QED
  BY <1>1, Invariance, PTL

\* Whatever is printed and whenever the key is pressed, memory behind the
\* screen is written only after a press between two accesses that belong
\* together: write_video itself checks nothing.
THEOREM Strays == Spec => []StraysOnlyWhenTorn
<1>1. IInv => StraysOnlyWhenTorn
  BY DEF IInv
<1> QED
  BY <1>1, Invariance, PTL

-----------------------------------------------------------------------------
(* What the steps of put_char compute.                                     *)

\* The cells of set_cursor are those of Put.
LEMMA NewLineCell ==
  ASSUME NEW x \in Screen, x \div VGA_WIDTH + 1 # VGA_HEIGHT
  PROVE  /\ onto_screen(((x \div VGA_WIDTH + 1) % BYTE) * VGA_WIDTH + 0)
              = x - (x % VGA_WIDTH) + VGA_WIDTH
         /\ ~(x >= LastRow)
<1> DEFINE q == x \div VGA_WIDTH
           y == x - (x % VGA_WIDTH) + VGA_WIDTH
<1>1. x \in Nat
  BY Sizes DEF Screen
<1>2. /\ q \in Nat /\ q < VGA_HEIGHT /\ (q + 1) * VGA_WIDTH = y
      /\ (q + 1) * VGA_WIDTH < Cells /\ ~(x >= LastRow)
  BY <1>1, Rows
<1> HIDE DEF q, y
<1>3. q + 1 \in Nat /\ q + 1 < BYTE
  BY <1>2, Sizes DEF q
<1>4. (q + 1) % BYTE = q + 1
  BY <1>3, Sizes, Small
<1>5. (q + 1) * VGA_WIDTH \in Nat
  BY <1>3, Sizes, ProductNat
<1>6. (q + 1) * VGA_WIDTH + 0 = (q + 1) * VGA_WIDTH
  BY <1>5
<1>7. onto_screen((q + 1) * VGA_WIDTH) = (q + 1) * VGA_WIDTH
  BY <1>2, <1>5, OntoScreen
<1> QED
  BY <1>2, <1>4, <1>6, <1>7 DEF q, y

LEMMA ReturnCell ==
  ASSUME NEW x \in Screen
  PROVE  onto_screen((x \div VGA_WIDTH) * VGA_WIDTH) = x - (x % VGA_WIDTH)
<1> DEFINE y == (x \div VGA_WIDTH) * VGA_WIDTH
<1>1. x \in Nat /\ x < Cells
  BY Sizes DEF Screen
<1>2. y \in Nat /\ y <= x /\ y = x - (x % VGA_WIDTH)
  BY <1>1, Rows
<1> HIDE DEF y
<1>3. onto_screen(y) = y
  BY <1>1, <1>2, Sizes, OntoScreen
<1> QED
  BY <1>2, <1>3 DEF y

LEMMA TabCell ==
  ASSUME NEW x \in Screen
  PROVE  onto_screen((x \div TAB_SIZE + 1) * TAB_SIZE) = (x - (x % TAB_SIZE) + TAB_SIZE) % Cells
<1> DEFINE q == x \div TAB_SIZE
           r == x % TAB_SIZE
<1>1. x \in Nat /\ x < Cells
  BY Sizes DEF Screen
<1>2. q \in Nat /\ r \in Nat /\ x = q * TAB_SIZE + r
  BY <1>1, Sizes, Division
<1> HIDE DEF q, r
<1>3. (q + 1) * TAB_SIZE = q * TAB_SIZE + TAB_SIZE /\ q * TAB_SIZE \in Nat
  BY <1>2, Sizes, SMT
<1>4. (q + 1) * TAB_SIZE = x - r + TAB_SIZE
  BY <1>1, <1>2, <1>3
<1>5. x - r + TAB_SIZE \in Nat /\ x - r + TAB_SIZE < WORD
  BY <1>1, <1>2, <1>3, Sizes
<1>6. onto_screen(x - r + TAB_SIZE) = (x - r + TAB_SIZE) % Cells
  BY <1>5, OntoScreen
<1> QED
  BY <1>4, <1>6 DEF q, r

LEMMA VerticalTabCell ==
  ASSUME NEW x \in Screen
  PROVE  onto_screen(x + VGA_WIDTH) = (x + VGA_WIDTH) % Cells
<1>1. x + VGA_WIDTH \in Nat /\ x + VGA_WIDTH < WORD
  BY Sizes DEF Screen
<1> QED
  BY <1>1, OntoScreen

\* put_char tests for the last cell of the screen.
LEMMA LastCell ==
  ASSUME NEW x \in Screen
  PROVE  /\ (x + 1) % WORD = Cells <=> x = Cells - 1
         /\ x # Cells - 1 => onto_screen(x + 1) = x + 1
<1>1. x + 1 \in Nat /\ x + 1 <= Cells /\ x + 1 < WORD
  BY Sizes DEF Screen
<1>2. (x + 1) % WORD = x + 1
  BY <1>1, Sizes, Small
<1>3. x + 1 < Cells => onto_screen(x + 1) = x + 1
  BY <1>1, OntoScreen
<1> QED
  BY <1>1, <1>2, <1>3, Sizes DEF Screen

LEMMA LastRowCell == onto_screen(((VGA_HEIGHT - 1) % BYTE) * VGA_WIDTH + 0) = LastRow
<1>1. (VGA_HEIGHT - 1) % BYTE = VGA_HEIGHT - 1
  <2>1. VGA_HEIGHT - 1 \in Nat /\ VGA_HEIGHT - 1 < BYTE
    BY Sizes
  <2> QED
    BY <2>1, Sizes, Small
<1>2. (VGA_HEIGHT - 1) * VGA_WIDTH + 0 = LastRow
  BY Sizes, SMT DEF LastRow
<1>3. onto_screen(LastRow) = LastRow
  BY Sizes, OntoScreen
<1> QED
  BY <1>1, <1>2, <1>3

\* Before the first row no row is rolled, and after the last all are.
LEMMA NoneRolled ==
  ASSUME NEW T, NEW v \in [Screen -> T]
  PROVE  RolledTo(v, 1) = v
<1>1. ASSUME NEW a \in Screen PROVE ~(a \div VGA_WIDTH < 1 - 1)
  <2>1. a \in Nat
    BY Sizes DEF Screen
  <2>2. a \div VGA_WIDTH \in Nat
    BY <2>1, Sizes, Division
  <2> QED
    BY <2>2
<1> QED
  BY <1>1 DEF RolledTo

LEMMA RowBelow ==
  ASSUME NEW a \in Screen
  PROVE  /\ a \in Nat /\ a \div VGA_WIDTH \in Nat
         /\ (a + VGA_WIDTH) \div VGA_WIDTH = a \div VGA_WIDTH + 1
<1> DEFINE q == a \div VGA_WIDTH
           r == a % VGA_WIDTH
<1>1. a \in Nat
  BY Sizes DEF Screen
<1>2. q \in Nat /\ r \in Nat /\ r < VGA_WIDTH /\ a = q * VGA_WIDTH + r
  BY <1>1, Sizes, Division
<1> HIDE DEF q, r
<1>3. q + 1 \in Nat
  BY <1>2
<1>4. ((q + 1) * VGA_WIDTH + r) \div VGA_WIDTH = q + 1
  BY <1>2, <1>3, Sizes, DivisionUnique
<1>5. (q + 1) * VGA_WIDTH = q * VGA_WIDTH + VGA_WIDTH /\ q * VGA_WIDTH \in Nat
  BY <1>2, Sizes, SMT
<1>6. (q + 1) * VGA_WIDTH + r = a + VGA_WIDTH
  BY <1>2, <1>5, Sizes
<1> QED
  BY <1>1, <1>2, <1>4, <1>6 DEF q

LEMMA RowRolled ==
  ASSUME NEW v, NEW r \in Nat, 1 <= r, r < VGA_HEIGHT
  PROVE  [a \in Screen |-> IF a \div VGA_WIDTH = r - 1 THEN RolledTo(v, r)[a + VGA_WIDTH]
                           ELSE RolledTo(v, r)[a]]
           = RolledTo(v, r + 1)
<1>1. ASSUME NEW a \in Screen
      PROVE  (IF a \div VGA_WIDTH = r - 1 THEN RolledTo(v, r)[a + VGA_WIDTH]
                ELSE RolledTo(v, r)[a])
               = IF a \div VGA_WIDTH < r + 1 - 1 THEN v[a + VGA_WIDTH] ELSE v[a]
  <2> DEFINE q == a \div VGA_WIDTH
  <2>1. q \in Nat /\ (a + VGA_WIDTH) \div VGA_WIDTH = q + 1
    BY RowBelow
  <2>2. q = r - 1 => a + VGA_WIDTH \in Screen
    BY Sizes, CellBelow
  <2> HIDE DEF q
  <2>3. CASE q = r - 1
    <3>1. RolledTo(v, r)[a + VGA_WIDTH] = v[a + VGA_WIDTH]
      BY <2>1, <2>2, <2>3 DEF RolledTo
    <3> QED
      BY <2>1, <2>3, <3>1 DEF q
  <2>4. CASE q # r - 1
    <3>1. RolledTo(v, r)[a] = IF q < r - 1 THEN v[a + VGA_WIDTH] ELSE v[a]
      BY DEF RolledTo, q
    <3>2. q < r - 1 <=> q < r + 1 - 1
      BY <2>1, <2>4
    <3> QED
      BY <2>4, <3>1, <3>2 DEF q
  <2> QED
    BY <2>3, <2>4
<1>2. RolledTo(v, r + 1) =
        [a \in Screen |-> IF a \div VGA_WIDTH < r + 1 - 1 THEN v[a + VGA_WIDTH] ELSE v[a]]
  BY DEF RolledTo
<1> QED
  BY <1>1, <1>2

LEMMA AllRolled ==
  ASSUME NEW v, NEW w, NEW x, NEW char, Put(w, x, char) = Rolled(v), Rolls(x, char)
  PROVE  Matches(Result([a \in Screen |-> IF a \in cleared THEN Blank
                                          ELSE RolledTo(v, VGA_HEIGHT)[a]], LastRow),
                 w, x, char)
<1> DEFINE r == [a \in Screen |-> IF a \in cleared THEN Blank ELSE RolledTo(v, VGA_HEIGHT)[a]]
           m == [a \in Screen |-> IF a < LastRow THEN v[a + VGA_WIDTH] ELSE Blank]
<1>1. ASSUME NEW a \in Screen, a # LastRow
      PROVE  (IF a \in cleared THEN Blank ELSE RolledTo(v, VGA_HEIGHT)[a])
               = IF a < LastRow THEN v[a + VGA_WIDTH] ELSE Blank
  <2>1. a \in Nat /\ a < Cells
    BY Sizes DEF Screen
  <2>2. a \div VGA_WIDTH < VGA_HEIGHT - 1 <=> a < LastRow
    BY <2>1, Sizes, BlockOf DEF LastRow
  <2>3. RolledTo(v, VGA_HEIGHT)[a] = IF a < LastRow THEN v[a + VGA_WIDTH] ELSE v[a]
    BY <2>2 DEF RolledTo
  <2>4. a \in cleared <=> a > LastRow
    BY <2>1, Sizes DEF cleared
  <2> QED
    BY <1>1, <2>1, <2>3, <2>4, Sizes
<1>2. \A a \in Screen : r[a] = m[a] \/ a = LastRow
  BY <1>1
<1>3. Put(w, x, char).cursor = LastRow /\ Put(w, x, char).video = m
  BY DEF Rolled, Result
<1>4. Result(r, LastRow).cursor = LastRow /\ Result(r, LastRow).video = r
  BY DEF Result
<1> HIDE DEF r, m
<1>5. Matches(Result(r, LastRow), w, x, char)
  BY <1>2, <1>3, <1>4 DEF Matches
<1> QED
  BY <1>5 DEF r

LEMMA Exactly ==
  ASSUME NEW r, NEW v, NEW x, NEW char, r = Put(v, x, char)
  PROVE  Matches(r, v, x, char)
BY DEF Matches

-----------------------------------------------------------------------------
(* A put_char that no interrupt enters comes as far as Progress says.      *)

\* The context that does not run prints nothing, or was interrupted.
LEMMA OnlyRunning ==
  ASSUME IInv, WholeInv, NEW c \in Contexts, c = running, UNCHANGED key,
         \A d \in Contexts \ {c} : pc'[d] = pc[d] /\ whole'[d] = whole[d],
         whole'[c] /\ pc'[c] # "idle" => Progress(c)'
  PROVE  WholeInv'
<1>1. \A d \in Contexts \ {c} : whole[d] => pc[d] = "idle"
  BY DEF IInv, ContextInv, running, Contexts
<1> QED
  BY <1>1 DEF WholeInv

\* A step of the running context after which it is still in put_char.
LEMMA StepKeepsWhole ==
  ASSUME IInv, WholeInv, NEW c \in Contexts, c = running, NEW step, Go(c, step),
         UNCHANGED <<key, whole>>,
         whole[c] /\ (pc[c] # "idle" => Progress(c)) /\ pc'[c] = step => Progress(c)'
  PROVE  WholeInv'
<1>1. \A d \in Contexts \ {c} : pc'[d] = pc[d] /\ whole'[d] = whole[d]
  BY DEF Go, IInv, TypeOK
<1>2. pc'[c] = step
  BY DEF Go, IInv, TypeOK
<1>3. whole[c] /\ pc[c] # "idle" => Progress(c)
  BY DEF WholeInv
<1>4. whole'[c] => Progress(c)'
  BY <1>2, <1>3
<1> QED
  BY <1>1, <1>4, OnlyRunning

LEMMA PortsKeepWhole ==
  ASSUME IInv, WholeInv, NEW c \in Contexts,
         \/ get_select_low(c) \/ get_low(c) \/ get_select_high(c) \/ get_high(c)
         \/ set_select_low(c) \/ set_low(c) \/ set_select_high(c)
  PROVE  WholeInv'
<1>1. CASE get_select_low(c) \/ get_select_high(c) \/ set_select_low(c) \/ set_select_high(c)
  <2>1. /\ c = running /\ Cursor' = Cursor /\ UNCHANGED <<key, whole, video, before, ch, cursor>>
        /\ pc[c] \in {"get_select_low", "get_select_high", "set_select_low", "set_select_high"}
    BY <1>1 DEF get_select_low, get_select_high, set_select_low, set_select_high, select,
                locals, history, At, Cursor
  <2>2. CASE get_select_low(c) \/ get_select_high(c)
    <3>1. PICK step \in {"get_low", "get_high"} : Go(c, step)
      BY <2>2 DEF get_select_low, get_select_high, select
    <3>2. Progress(c) /\ pc[c] \in {"get_select_low", "get_select_high"} /\ pc'[c] = step
            => Progress(c)'
      BY <2>1, <3>1 DEF Progress, SetSteps
    <3>3. pc[c] \in {"get_select_low", "get_select_high"}
      BY <2>2 DEF get_select_low, get_select_high, select, At
    <3> QED
      BY <2>1, <3>1, <3>2, <3>3, StepKeepsWhole
  <2>3. CASE set_select_low(c) \/ set_select_high(c)
    <3>1. PICK step \in {"set_low", "set_high"} : Go(c, step)
      BY <2>3 DEF set_select_low, set_select_high, select
    <3>2. pc[c] \in {"set_select_low", "set_select_high"}
      BY <2>3 DEF set_select_low, set_select_high, select, At
    <3>3. Progress(c) /\ pc'[c] = step => Progress(c)'
      BY <2>1, <3>1, <3>2 DEF Progress, SetSteps
    <3> QED
      BY <2>1, <3>1, <3>2, <3>3, StepKeepsWhole
  <2> QED
    BY <1>1, <2>2, <2>3
<1>2. CASE get_low(c)
  <2>1. /\ c = running /\ Cursor' = Cursor /\ UNCHANGED <<key, whole, video, before, ch>>
        /\ pc[c] = "get_low" /\ Go(c, "get_select_high")
    BY <1>2 DEF get_low, ports, history, At, Cursor
  <2>2. Progress(c) /\ pc'[c] = "get_select_high" => Progress(c)'
    BY <2>1 DEF Progress, SetSteps
  <2> QED
    BY <2>1, <2>2, StepKeepsWhole
<1>3. CASE get_high(c)
  <2>1. /\ c = running /\ Cursor' = Cursor /\ UNCHANGED <<key, whole, video, before, ch>>
        /\ pc[c] = "get_high" /\ Go(c, "switch")
    BY <1>3 DEF get_high, ports, history, At, Cursor
  <2>2. whole[c] => cursor'[c] = Cursor
    BY <1>3, GetHighKeeps
  <2>3. whole[c] /\ Progress(c) /\ pc'[c] = "switch" => Progress(c)'
    BY <2>1, <2>2 DEF Progress, SetSteps
  <2> QED
    BY <2>1, <2>3, StepKeepsWhole
<1>4. CASE set_low(c)
  <2>1. /\ c = running /\ UNCHANGED <<key, whole, video, before, ch, cursor>>
        /\ pc[c] = "set_low" /\ Go(c, "set_select_high")
    BY <1>4 DEF set_low, locals, history, At
  <2>2. Progress(c) /\ pc'[c] = "set_select_high" => Progress(c)'
    BY <2>1 DEF Progress, SetSteps
  <2> QED
    BY <2>1, <2>2, StepKeepsWhole
<1> QED
  BY <1>1, <1>2, <1>3, <1>4

\* What the switch finds: the screen and the cursor of the call.
LEMMA AtSwitch ==
  ASSUME IInv, NEW c \in Contexts, At(c, "switch"), Progress(c)
  PROVE  /\ before[c] = [video |-> video, cursor |-> cursor[c]]
         /\ before[c].video = video /\ before[c].cursor = cursor[c]
         /\ video \in [Screen -> Characters] /\ row[c] = 1
         /\ cursor[c] = Cursor
BY DEF Progress, At, IInv, TypeOK, LocalInv

\* The screen and the cursor are those put_char is for.
LEMMA MoveMatches ==
  ASSUME IInv, WholeInv, NEW c \in Contexts, c = running, NEW x, set_cursor(c, x),
         UNCHANGED <<key, whole, before, ch>>,
         whole[c] /\ pc[c] # "idle" /\ Progress(c) /\ before[c].cursor \in Screen =>
           Matches(Result(video', onto_screen(x)), before[c].video, before[c].cursor, ch[c]),
         pc[c] # "idle"
  PROVE  WholeInv'
<1>1. Go(c, "set_select_low") /\ cursor'[c] = onto_screen(x)
  BY DEF set_cursor, Local, IInv, TypeOK
<1>2. whole[c] /\ Progress(c) /\ pc'[c] = "set_select_low" => Progress(c)'
  BY <1>1 DEF Progress, SetSteps
<1> QED
  BY <1>1, <1>2, StepKeepsWhole

LEMMA MoveKeepsWhole ==
  ASSUME IInv, WholeInv, NEW c \in Contexts, c = running, NEW x, set_cursor(c, x),
         UNCHANGED <<key, whole, before, ch>>,
         whole[c] /\ pc[c] # "idle" /\ Progress(c) /\ before[c].cursor \in Screen =>
           Result(video', onto_screen(x)) = Put(before[c].video, before[c].cursor, ch[c]),
         pc[c] # "idle"
  PROVE  WholeInv'
BY MoveMatches, Exactly

\* The screen is still to be rolled up.
LEMMA RollKeepsWhole ==
  ASSUME IInv, WholeInv, NEW c \in Contexts, c = running, Go(c, "roll_up"),
         UNCHANGED <<key, whole, before, ch>>, pc[c] # "idle",
         whole[c] /\ Progress(c) /\ before[c].cursor \in Screen =>
           /\ video' = RolledTo(Unrolled(c), row'[c])
           /\ Put(before[c].video, before[c].cursor, ch[c]) = Rolled(Unrolled(c))
           /\ Rolls(before[c].cursor, ch[c])
  PROVE  WholeInv'
<1>1. Unrolled(c)' = Unrolled(c)
  BY DEF Unrolled
<1>2. whole[c] /\ Progress(c) /\ pc'[c] = "roll_up" => Progress(c)'
  BY <1>1 DEF Progress, SetSteps
<1> QED
  BY <1>2, StepKeepsWhole

LEMMA NewLineKeepsWhole ==
  ASSUME IInv, WholeInv, NEW c \in Contexts, new_line(c)
  PROVE  WholeInv'
<1> DEFINE x == cursor[c]
           q == x \div VGA_WIDTH
           y == ((q + 1) % BYTE) * VGA_WIDTH + 0
<1>1. /\ c = running /\ At(c, "switch") /\ pc[c] # "idle" /\ ch[c] = "newline"
      /\ UNCHANGED <<key, whole, before, ch, row, video>>
  BY DEF new_line, At, history
<1>2. CASE q + 1 = VGA_HEIGHT
  <2>1. Go(c, "roll_up")
    BY <1>2 DEF new_line, roll_up_later
  <2>2. ASSUME whole[c], Progress(c), before[c].cursor \in Screen
        PROVE  /\ video' = RolledTo(Unrolled(c), row'[c])
               /\ Put(before[c].video, before[c].cursor, ch[c]) = Rolled(Unrolled(c))
               /\ Rolls(before[c].cursor, ch[c])
    <3>1. /\ before[c].video = video /\ before[c].cursor = x /\ x \in Screen
          /\ video \in [Screen -> Characters] /\ row[c] = 1
      BY <1>1, <2>2, AtSwitch
    <3>2. x \in Nat
      BY <3>1, Sizes DEF Screen
    <3>3. x >= LastRow
      BY <1>2, <3>1, <3>2, Rows
    <3>4. Unrolled(c) = video
      BY <1>1, <3>1 DEF Unrolled
    <3>5. RolledTo(video, 1) = video
      BY <3>1, NoneRolled
    <3>6. Put(video, x, "newline") = Rolled(video) /\ Rolls(x, "newline")
      BY <3>3 DEF Put, Rolls
    <3> QED
      BY <1>1, <3>1, <3>4, <3>5, <3>6
  <2> QED
    BY <1>1, <2>1, <2>2, RollKeepsWhole
<1>3. CASE q + 1 # VGA_HEIGHT
  <2>1. set_cursor(c, y)
    BY <1>3 DEF new_line, set_cursor_r_c
  <2>2. ASSUME whole[c], Progress(c), before[c].cursor \in Screen
        PROVE  Result(video', onto_screen(y)) = Put(before[c].video, before[c].cursor, ch[c])
    <3>1. before[c].video = video /\ before[c].cursor = x /\ x \in Screen
      BY <1>1, <2>2, AtSwitch
    <3>2. onto_screen(y) = x - (x % VGA_WIDTH) + VGA_WIDTH /\ ~(x >= LastRow)
      BY <1>3, <3>1, NewLineCell
    <3> HIDE DEF y
    <3>3. Put(video, x, "newline") = Result(video, x - (x % VGA_WIDTH) + VGA_WIDTH)
      BY <3>2 DEF Put
    <3> QED
      BY <1>1, <3>1, <3>2, <3>3
  <2> HIDE DEF y
  <2> QED
    BY <1>1, <2>1, <2>2, MoveKeepsWhole
<1> QED
  BY <1>2, <1>3

LEMMA CursorOnlyKeepsWhole ==
  ASSUME IInv, WholeInv, NEW c \in Contexts, carriage_return(c) \/ tab(c) \/ vertical_tab(c)
  PROVE  WholeInv'
<1> DEFINE x == cursor[c]
<1>1. /\ c = running /\ At(c, "switch") /\ pc[c] # "idle"
      /\ UNCHANGED <<key, whole, before, ch, video>>
  BY DEF carriage_return, tab, vertical_tab, At, history
<1>2. whole[c] /\ Progress(c) /\ before[c].cursor \in Screen =>
        before[c].video = video /\ before[c].cursor = x /\ x \in Screen
  BY <1>1, AtSwitch
<1>3. CASE carriage_return(c)
  <2> DEFINE y == (x \div VGA_WIDTH) * VGA_WIDTH
  <2>1. set_cursor(c, y) /\ ch[c] = "return"
    BY <1>3 DEF carriage_return
  <2>2. x \in Screen => onto_screen(y) = x - (x % VGA_WIDTH)
    BY ReturnCell
  <2> HIDE DEF y
  <2>3. Put(video, x, "return") = Result(video, x - (x % VGA_WIDTH))
    BY DEF Put
  <2> QED
    BY <1>1, <1>2, <2>1, <2>2, <2>3, MoveKeepsWhole
<1>4. CASE tab(c)
  <2> DEFINE y == (x \div TAB_SIZE + 1) * TAB_SIZE
             z == (x - (x % TAB_SIZE) + TAB_SIZE) % Cells
  <2>1. set_cursor(c, y) /\ ch[c] = "tab"
    BY <1>4 DEF tab
  <2>2. x \in Screen => onto_screen(y) = z
    BY TabCell
  <2> HIDE DEF y
  <2>3. Put(video, x, "tab") = Result(video, z)
    BY DEF Put
  <2> HIDE DEF z
  <2> QED
    BY <1>1, <1>2, <2>1, <2>2, <2>3, MoveKeepsWhole
<1>5. CASE vertical_tab(c)
  <2> DEFINE z == (x + VGA_WIDTH) % Cells
  <2>1. set_cursor(c, x + VGA_WIDTH) /\ ch[c] = "vtab"
    BY <1>5 DEF vertical_tab
  <2>2. x \in Screen => onto_screen(x + VGA_WIDTH) = z
    BY VerticalTabCell
  <2>3. Put(video, x, "vtab") = Result(video, z)
    BY DEF Put
  <2> HIDE DEF z
  <2> QED
    BY <1>1, <1>2, <2>1, <2>2, <2>3, MoveKeepsWhole
<1> QED
  BY <1>3, <1>4, <1>5

\* What write_video makes of the screen of the call.
LEMMA Written ==
  ASSUME NEW v \in [Screen -> Characters], NEW x \in Screen, NEW char
  PROVE  [b \in Screen |-> IF b = x THEN char ELSE v[b]] = [v EXCEPT ![x] = char]
OBVIOUS

LEMMA BackspaceKeepsWhole ==
  ASSUME IInv, WholeInv, NEW c \in Contexts, backspace(c)
  PROVE  WholeInv'
<1> DEFINE x == cursor[c]
<1>1. /\ c = running /\ At(c, "switch") /\ pc[c] # "idle" /\ ch[c] = "backspace"
      /\ UNCHANGED key
      /\ video' = [b \in Screen |-> IF b = x THEN Blank ELSE video[b]]
  BY DEF backspace, At, write_video
<1>2. CASE x # 0
  <2>1. set_cursor(c, x - 1) /\ UNCHANGED <<ch, before, whole>>
    BY <1>2 DEF backspace
  <2>2. ASSUME whole[c], Progress(c), before[c].cursor \in Screen
        PROVE  Result(video', onto_screen(x - 1)) = Put(before[c].video, before[c].cursor, ch[c])
    <3>1. /\ before[c].video = video /\ before[c].cursor = x /\ x \in Screen
          /\ video \in [Screen -> Characters]
      BY <1>1, <2>2, AtSwitch
    <3>2. x - 1 \in Nat /\ x - 1 < Cells
      BY <1>2, <3>1, Sizes DEF Screen
    <3>3. onto_screen(x - 1) = x - 1
      BY <3>2, OntoScreen
    <3>4. video' = [video EXCEPT ![x] = Blank]
      BY <1>1, <3>1, Written
    <3>5. Put(video, x, "backspace") = Result([video EXCEPT ![x] = Blank], x - 1)
      BY <1>2 DEF Put
    <3> QED
      BY <1>1, <3>1, <3>3, <3>4, <3>5
  <2> QED
    BY <1>1, <2>1, <2>2, MoveKeepsWhole
<1>3. CASE x = 0
  <2>1. \A d \in Contexts \ {c} : pc'[d] = pc[d] /\ whole'[d] = whole[d]
    BY <1>3 DEF backspace, Return, Go, IInv, TypeOK, HistoryOK
  <2>2. pc'[c] = "idle"
    BY <1>3 DEF backspace, Return, Go, IInv, TypeOK
  <2> QED
    BY <1>1, <2>1, <2>2, OnlyRunning
<1> QED
  BY <1>2, <1>3

LEMMA CharacterKeepsWhole ==
  ASSUME IInv, WholeInv, NEW c \in Contexts, character(c)
  PROVE  WholeInv'
<1> DEFINE x == cursor[c]
           w == [video EXCEPT ![x] = ch[c]]
<1>1. /\ c = running /\ At(c, "switch") /\ pc[c] # "idle" /\ ch[c] \notin Controls
      /\ UNCHANGED <<key, whole, before, ch, row>>
      /\ video' = [b \in Screen |-> IF b = x THEN ch[c] ELSE video[b]]
  BY DEF character, At, write_video
<1>2. ASSUME whole[c], Progress(c), before[c].cursor \in Screen
      PROVE  /\ before[c].video = video /\ before[c].cursor = x /\ x \in Screen
             /\ video' = w /\ w \in [Screen -> Characters] /\ row[c] = 1
             /\ Put(before[c].video, before[c].cursor, ch[c]) = Printed(video, x, ch[c])
  <2>1. /\ before[c].video = video /\ before[c].cursor = x /\ x \in Screen
        /\ video \in [Screen -> Characters] /\ row[c] = 1
    BY <1>1, <1>2, AtSwitch
  <2>2. video' = w
    BY <1>1, <2>1, Written
  <2>3. w \in [Screen -> Characters]
    BY <2>1 DEF IInv, TypeOK
  <2>4. Put(video, x, ch[c]) = Printed(video, x, ch[c])
    BY <1>1 DEF Put, Controls
  <2> QED
    BY <2>1, <2>2, <2>3, <2>4
<1>3. CASE (x + 1) % WORD = Cells
  <2>1. Go(c, "roll_up")
    BY <1>3 DEF character, roll_up_later
  <2>2. ASSUME whole[c], Progress(c), before[c].cursor \in Screen
        PROVE  /\ video' = RolledTo(Unrolled(c), row'[c])
               /\ Put(before[c].video, before[c].cursor, ch[c]) = Rolled(Unrolled(c))
               /\ Rolls(before[c].cursor, ch[c])
    <3>1. Unrolled(c) = w
      BY <1>1, <1>2, <2>2 DEF Unrolled, Controls
    <3>2. RolledTo(w, 1) = w
      BY <1>2, <2>2, NoneRolled
    <3>3. x = Cells - 1
      BY <1>2, <1>3, <2>2, LastCell
    <3>4. Printed(video, x, ch[c]) = Rolled(w)
      BY <3>3 DEF Printed
    <3>5. Rolls(before[c].cursor, ch[c])
      BY <1>1, <1>2, <2>2, <3>3 DEF Rolls
    <3> HIDE DEF w, x
    <3> QED
      BY <1>1, <1>2, <2>2, <3>1, <3>2, <3>4, <3>5
  <2> QED
    BY <1>1, <2>1, <2>2, RollKeepsWhole
<1>4. CASE (x + 1) % WORD # Cells
  <2>1. set_cursor(c, x + 1)
    BY <1>4 DEF character
  <2>2. ASSUME whole[c], Progress(c), before[c].cursor \in Screen
        PROVE  Result(video', onto_screen(x + 1)) = Put(before[c].video, before[c].cursor, ch[c])
    <3>1. x # Cells - 1 /\ onto_screen(x + 1) = x + 1
      BY <1>2, <1>4, <2>2, LastCell
    <3>2. Printed(video, x, ch[c]) = Result(w, x + 1)
      BY <3>1 DEF Printed
    <3> QED
      BY <1>2, <2>2, <3>1, <3>2
  <2> QED
    BY <1>1, <2>1, <2>2, MoveKeepsWhole
<1> QED
  BY <1>3, <1>4

LEMMA RollRowKeepsWhole ==
  ASSUME IInv, WholeInv, NEW c \in Contexts, roll_row(c)
  PROVE  WholeInv'
<1> DEFINE u == Unrolled(c)
           r == row[c]
<1>1. /\ c = running /\ pc[c] = "roll_up"
      /\ UNCHANGED <<key, whole, before, ch, pc>> /\ video' = copied(c)
  BY DEF roll_row, At, history
<1>2. r \in Nat /\ 1 <= r /\ r < VGA_HEIGHT /\ row'[c] = r + 1
  BY Sizes DEF roll_row, IInv, TypeOK
<1>3. Go(c, "roll_up")
  BY <1>1 DEF Go, IInv, TypeOK
<1>4. ASSUME whole[c], Progress(c), before[c].cursor \in Screen
      PROVE  /\ video' = RolledTo(u, r + 1)
             /\ Put(before[c].video, before[c].cursor, ch[c]) = Rolled(u)
             /\ Rolls(before[c].cursor, ch[c])
  <2>1. /\ video = RolledTo(u, r) /\ Put(before[c].video, before[c].cursor, ch[c]) = Rolled(u)
        /\ Rolls(before[c].cursor, ch[c])
    BY <1>1, <1>4 DEF Progress
  <2> HIDE DEF u
  <2>2. copied(c) = [a \in Screen |-> IF a \div VGA_WIDTH = r - 1 THEN RolledTo(u, r)[a + VGA_WIDTH]
                                      ELSE RolledTo(u, r)[a]]
    BY <2>1 DEF copied
  <2>3. copied(c) = RolledTo(u, r + 1)
    <3> HIDE DEF r
    <3> QED
      BY <1>2, <2>2, RowRolled
  <2> QED
    BY <1>1, <2>1, <2>3
<1> QED
  BY <1>1, <1>2, <1>3, <1>4, RollKeepsWhole

LEMMA RollEndKeepsWhole ==
  ASSUME IInv, WholeInv, NEW c \in Contexts, roll_end(c)
  PROVE  WholeInv'
<1> DEFINE u == Unrolled(c)
           y == ((VGA_HEIGHT - 1) % BYTE) * VGA_WIDTH + 0
<1>1. /\ c = running /\ pc[c] = "roll_up" /\ row[c] = VGA_HEIGHT
      /\ UNCHANGED <<key, whole, before, ch>>
      /\ video' = [a \in Screen |-> IF a \in cleared THEN Blank ELSE video[a]]
      /\ set_cursor(c, y)
  BY DEF roll_end, At, history, set_cursor_r_c
<1>2. onto_screen(y) = LastRow
  BY LastRowCell
<1> HIDE DEF y
<1>3. ASSUME whole[c], Progress(c), before[c].cursor \in Screen
      PROVE  Matches(Result(video', onto_screen(y)), before[c].video, before[c].cursor, ch[c])
  <2>1. /\ video = RolledTo(u, VGA_HEIGHT)
        /\ Put(before[c].video, before[c].cursor, ch[c]) = Rolled(u)
        /\ Rolls(before[c].cursor, ch[c])
    BY <1>1, <1>3 DEF Progress
  <2> HIDE DEF u
  <2>2. Matches(Result(video', LastRow), before[c].video, before[c].cursor, ch[c])
    BY <1>1, <2>1, AllRolled
  <2> QED
    BY <1>2, <2>2
<1> QED
  BY <1>1, <1>3, MoveMatches

LEMMA SetHighKeepsWhole ==
  ASSUME IInv, WholeInv, NEW c \in Contexts, set_high(c)
  PROVE  WholeInv'
<1>1. c = running /\ UNCHANGED key
  BY DEF set_high, At
<1>2. \A d \in Contexts \ {c} : pc'[d] = pc[d] /\ whole'[d] = whole[d]
  BY DEF set_high, Return, Go, IInv, TypeOK, HistoryOK
<1>3. pc'[c] = "idle"
  BY DEF set_high, Return, Go, IInv, TypeOK
<1> QED
  BY <1>1, <1>2, <1>3, OnlyRunning

LEMMA CallKeepsWhole ==
  ASSUME IInv, WholeInv, NEW c \in Contexts, At(c, "idle"), NEW char, put_char(c, char)
  PROVE  WholeInv'
<1>1. /\ c = running /\ Go(c, "get_select_low") /\ UNCHANGED <<key, whole, video>>
      /\ Cursor' = Cursor /\ before'[c] = [video |-> video, cursor |-> Cursor]
  BY DEF put_char, At, ports, Cursor, IInv, HistoryOK
<1>2. pc'[c] = "get_select_low" => Progress(c)'
  BY <1>1 DEF Progress, SetSteps
<1> QED
  BY <1>1, <1>2, StepKeepsWhole

\* When the processor enters or leaves the handler, neither context is in a
\* put_char that no interrupt entered.
LEMMA InterruptKeepsWhole ==
  ASSUME IInv, WholeInv, int21h \/ iret
  PROVE  WholeInv'
<1>1. \A c \in Contexts : whole'[c] => pc'[c] = "idle"
  <2>1. CASE int21h
    BY <2>1 DEF int21h, locals, IInv, ContextInv, HistoryOK, Contexts
  <2>2. CASE iret
    BY <2>2 DEF iret, locals, history, At, running, IInv, ContextInv, Contexts
  <2> QED
    BY <2>1, <2>2
<1> QED
  BY <1>1 DEF WholeInv

LEMMA StepWholeInv == IInv /\ WholeInv /\ [Next]_vars => WholeInv'
<1> SUFFICES ASSUME IInv, WholeInv, [Next]_vars PROVE WholeInv'
  OBVIOUS
<1>1. CASE kernel_print
  <2>1. "kernel" \in Contexts
    BY DEF Contexts
  <2> QED
    BY <1>1, <2>1, CallKeepsWhole DEF kernel_print
<1>2. CASE keyboard_print
  <2>1. "keyboard" \in Contexts
    BY DEF Contexts
  <2> QED
    BY <1>2, <2>1, CallKeepsWhole DEF keyboard_print
<1>3. CASE \E c \in Contexts : PutCharStep(c)
  <2>1. PICK c \in Contexts : PutCharStep(c)
    BY <1>3
  <2>2. CASE \/ get_select_low(c) \/ get_low(c) \/ get_select_high(c) \/ get_high(c)
             \/ set_select_low(c) \/ set_low(c) \/ set_select_high(c)
    BY <2>2, PortsKeepWhole
  <2>3. CASE new_line(c)
    BY <2>3, NewLineKeepsWhole
  <2>4. CASE carriage_return(c) \/ tab(c) \/ vertical_tab(c)
    BY <2>4, CursorOnlyKeepsWhole
  <2>5. CASE backspace(c)
    BY <2>5, BackspaceKeepsWhole
  <2>6. CASE character(c)
    BY <2>6, CharacterKeepsWhole
  <2>7. CASE roll_row(c)
    BY <2>7, RollRowKeepsWhole
  <2>8. CASE roll_end(c)
    BY <2>8, RollEndKeepsWhole
  <2>9. CASE set_high(c)
    BY <2>9, SetHighKeepsWhole
  <2> QED
    BY <2>1, <2>2, <2>3, <2>4, <2>5, <2>6, <2>7, <2>8, <2>9 DEF PutCharStep
<1>4. CASE int21h \/ iret
  BY <1>4, InterruptKeepsWhole
<1>5. CASE UNCHANGED vars
  <2>1. UNCHANGED <<video, ports, pc, ch, cursor, row, before, whole>> /\ Cursor' = Cursor
    BY <1>5 DEF vars, ports, locals, history, Cursor
  <2> QED
    BY <2>1 DEF WholeInv, Progress, Unrolled
<1> QED
  BY <1>1, <1>2, <1>3, <1>4, <1>5 DEF Next

LEMMA WholeInvariance == Spec => [](IInv /\ WholeInv)
<1>1. Init => WholeInv
  BY DEF Init, WholeInv
<1> QED
  BY <1>1, InitIInv, StepIInv, StepWholeInv, PTL DEF Spec

\* put_char returns from set_cursor, and from a backspace at cell 0.
LEMMA WhereItReturns ==
  ASSUME IInv, [Next]_vars, NEW c \in Contexts, Returns(c)
  PROVE  \/ set_high(c)
         \/ backspace(c) /\ cursor[c] = 0
<1> USE DEF Returns
<1>1. CASE kernel_print \/ keyboard_print
  BY <1>1 DEF kernel_print, keyboard_print, put_char, At, Go, IInv, TypeOK, Contexts
<1>2. CASE \E d \in Contexts : PutCharStep(d)
  <2>1. PICK d \in Contexts : PutCharStep(d)
    BY <1>2
  <2>2. CASE set_high(d)
    <3>1. d = c
      BY <2>2 DEF set_high, Return, Go, IInv, TypeOK
    <3> QED
      BY <2>2, <3>1
  <2>3. CASE backspace(d)
    <3>1. d = c /\ cursor[c] = 0
      BY <2>3 DEF backspace, Return, set_cursor, Go, IInv, TypeOK
    <3> QED
      BY <2>3, <3>1
  <2>4. CASE \/ get_select_low(d) \/ get_low(d) \/ get_select_high(d) \/ get_high(d)
             \/ set_select_low(d) \/ set_low(d) \/ set_select_high(d)
    BY <2>4 DEF get_select_low, get_low, get_select_high, get_high, set_select_low, set_low,
                set_select_high, select, Go, IInv, TypeOK
  <2>5. CASE new_line(d) \/ carriage_return(d) \/ tab(d) \/ vertical_tab(d) \/ character(d)
    BY <2>5 DEF new_line, carriage_return, tab, vertical_tab, character, set_cursor_r_c,
                set_cursor, roll_up_later, Go, IInv, TypeOK
  <2>6. CASE roll_row(d) \/ roll_end(d)
    BY <2>6 DEF roll_row, roll_end, set_cursor_r_c, set_cursor, Go, IInv, TypeOK
  <2> QED
    BY <2>1, <2>2, <2>3, <2>4, <2>5, <2>6 DEF PutCharStep
<1>3. CASE int21h \/ iret
  BY <1>3 DEF int21h, iret, locals
<1>4. CASE UNCHANGED vars
  BY <1>4 DEF vars
<1> QED
  BY <1>1, <1>2, <1>3, <1>4 DEF Next

\* How a put_char that no interrupt entered leaves the screen and the cursor.
LEMMA HowItReturns ==
  ASSUME IInv, WholeInv, [Next]_vars, NEW c \in Contexts, Returns(c), whole[c]
  PROVE  /\ Cursor' \in Screen
         /\ before[c].cursor \in Screen =>
              Matches(Result(video', Cursor'), before[c].video, before[c].cursor, ch[c])
<1>1. Progress(c)
  BY DEF WholeInv, Returns
<1>2. CASE set_high(c)
  <2>1. Cursor' = cursor[c] /\ video' = video /\ pc[c] \in SetSteps
    BY <1>2, SetHighKeeps DEF set_high, At, SetSteps
  <2>2. cursor[c] \in Screen
    BY <2>1 DEF IInv, LocalInv
  <2>3. before[c].cursor \in Screen =>
          Matches(Result(video, cursor[c]), before[c].video, before[c].cursor, ch[c])
    BY <1>1, <2>1 DEF Progress
  <2> QED
    BY <2>1, <2>2, <2>3
<1>3. CASE backspace(c) /\ cursor[c] = 0
  <2>1. /\ At(c, "switch") /\ Cursor' = Cursor /\ ch[c] = "backspace"
        /\ video' = [b \in Screen |-> IF b = 0 THEN Blank ELSE video[b]]
    BY <1>3 DEF backspace, ports, Cursor, write_video
  <2>2. /\ Cursor = 0 /\ before[c].video = video /\ before[c].cursor = 0
        /\ video \in [Screen -> Characters] /\ 0 \in Screen
    BY <1>1, <1>3, <2>1, AtSwitch, ScreenIsWords
  <2>3. video' = [video EXCEPT ![0] = Blank]
    BY <2>1, <2>2, Written
  <2>4. Put(video, 0, "backspace") = Result([video EXCEPT ![0] = Blank], 0)
    BY DEF Put
  <2>5. Result(video', Cursor') = Put(before[c].video, before[c].cursor, ch[c])
    BY <2>1, <2>2, <2>3, <2>4
  <2> QED
    BY <2>1, <2>2, <2>5, Exactly
<1> QED
  BY <1>2, <1>3, WhereItReturns

\* A put_char that no interrupt entered brings the cursor back to the screen,
\* from wherever an interrupted one has left it.
THEOREM ReturnsCursor == Spec => CursorReturns
<1>1. IInv /\ WholeInv /\ [Next]_vars
        => [\A c \in Contexts : Returns(c) /\ whole[c] => Cursor' \in Screen]_vars
  BY HowItReturns
<1> QED
  BY <1>1, WholeInvariance, PTL DEF Spec, CursorReturns

\* A put_char that no interrupt entered, in the handler or in the kernel, is
\* one step of what its character is for, but for the cell roll_up leaves out, for
\* screens, tabs and texts of every size: the two reads, the rows of roll_up and
\* the two writes are as one.
THEOREM PutsWhole == Spec => PutIsWhole
<1>1. IInv /\ WholeInv /\ [Next]_vars
        => [\A c \in Contexts :
              Returns(c) /\ whole[c] /\ before[c].cursor \in Screen =>
                Matches(Result(video', Cursor'), before[c].video, before[c].cursor, ch[c])]_vars
  BY HowItReturns
<1> QED
  BY <1>1, WholeInvariance, PTL DEF Spec, PutIsWhole

=============================================================================
