--------------------------- MODULE InterruptsProofs ---------------------------
(***************************************************************************)
(* Proofs about interrupts, for every set of lines and every number of     *)
(* requests that vanish.  Whoever interrupted whom, each handler on the    *)
(* stack still owes one end-of-interrupt command to each controller until  *)
(* it has given it, and the controllers never have more lines in service   *)
(* than they are owed commands.  As long as no request vanishes, what is   *)
(* in service at the master is exactly what the handlers on the stack were *)
(* entered for, by priority, and whatever is in service at the slave has a *)
(* handler that has given the slave no command yet.                        *)
(***************************************************************************)
EXTENDS Interrupts, FiniteSetTheorems, SequenceTheorems, TLAPS

\* The handlers that have yet to end an interrupt at the master, and at the
\* slave: all, but for the innermost when it has.
OwedMaster == IF At("iret") THEN Len(stack) - 1 ELSE Len(stack)
OwedSlave == IF At("end_master") \/ At("iret") THEN Len(stack) - 1 ELSE Len(stack)

Balanced ==
  /\ IsFiniteSet(master) /\ Cardinality(master) <= OwedMaster
  /\ IsFiniteSet(slave) /\ Cardinality(slave) <= OwedSlave

\* Before idt_init nothing interrupts.
Boot == main = "boot" => stack = <<>> /\ ~IF_flag

IInv == TypeOK /\ HandlersExclude /\ Balanced

\* The handlers on the stack were entered for lines of rising priority; only
\* the outermost may be an exception's.
Ordered ==
  spurious = 0 =>
    \A j, k \in 1 .. Len(stack) :
      j < k => /\ stack[k].line # NoLine
               /\ stack[j].line # NoLine => level(stack[k].line) < level(stack[j].line)

\* The line of the k-th handler is still in service at the master.
InService(k) == stack[k].line # NoLine /\ stack[k].at # "iret"

\* The master has the lines of the handlers in service that owe it a command,
\* and no others.
Matched ==
  spurious = 0 =>
    /\ \A k \in 1 .. Len(stack) : InService(k) => level(stack[k].line) \in master
    /\ \A m \in master : \E k \in 1 .. Len(stack) : InService(k) /\ m = level(stack[k].line)

\* The commands owed to the master outnumber its lines in service by those of
\* one exception and of the requests that have vanished.
Covered == OwedMaster <= Cardinality(master) + 1 + spurious

\* The stack is no deeper than there are priorities.
Shallow == Len(stack) <= Cardinality(Levels) + 1 + spurious

NestInv == Ordered /\ Matched /\ Covered /\ Shallow

\* The k-th handler has yet to give the slave a command.
OwesSlave(k) == stack[k].at \in {"cli", "print", "end_slave"}

\* Every line in service at the slave has a handler that owes it a command.
SlaveHandled ==
  spurious = 0 =>
    \A m \in slave : \E k \in 1 .. Len(stack) : stack[k].line = m /\ OwesSlave(k)

-----------------------------------------------------------------------------
(* The end-of-interrupt command.                                           *)

\* A non-empty set of line numbers has a highest line.
LEMMA HighestIsIn ==
  ASSUME NEW S, S \subseteq 0 .. 15, S # {}
  PROVE  Highest(S) \in S
<1>1. \E l \in S : \A m \in S : l <= m
  <2> SUFFICES ASSUME \A l \in S : \E m \in S : m < l
               PROVE  FALSE
    BY SMT
  <2>0. 0 \notin S /\ 1 \notin S /\ 2 \notin S /\ 3 \notin S
    BY SMT
  <2>1. 4 \notin S /\ 5 \notin S /\ 6 \notin S /\ 7 \notin S
    BY <2>0, SMT
  <2>2. 8 \notin S /\ 9 \notin S /\ 10 \notin S /\ 11 \notin S
    BY <2>0, <2>1, SMT
  <2>3. 12 \notin S /\ 13 \notin S /\ 14 \notin S /\ 15 \notin S
    BY <2>0, <2>1, <2>2, SMT
  <2>4. PICK x \in S : TRUE
    OBVIOUS
  <2>5. x \in Int /\ 0 <= x /\ x <= 15
    BY <2>4
  <2> QED
    BY <2>0, <2>1, <2>2, <2>3, <2>4, <2>5, SMT
<1> QED
  BY <1>1 DEF Highest

\* The command takes one line out of service, if any is in it.
LEMMA EndedIsSmaller ==
  ASSUME NEW S, S \subseteq 0 .. 15, IsFiniteSet(S)
  PROVE  /\ Ended(S) \subseteq S
         /\ IsFiniteSet(Ended(S))
         /\ Cardinality(S) \in Nat
         /\ IF S = {} THEN Cardinality(Ended(S)) = 0
                      ELSE Cardinality(Ended(S)) = Cardinality(S) - 1
<1>1. Cardinality(S) \in Nat
  BY FS_CardinalityType
<1>2. CASE S = {}
  <2>1. Ended(S) = {}
    BY <1>2 DEF Ended
  <2> QED
    BY <1>1, <1>2, <2>1, FS_EmptySet
<1>3. CASE S # {}
  <2>1. Highest(S) \in S
    BY <1>3, HighestIsIn
  <2>2. Ended(S) = S \ {Highest(S)}
    BY <2>1 DEF Ended
  <2>3. IsFiniteSet(S \ {Highest(S)}) /\ Cardinality(S \ {Highest(S)}) = Cardinality(S) - 1
    BY <2>1, FS_RemoveElement
  <2> QED
    BY <1>1, <1>3, <2>2, <2>3
<1> QED
  BY <1>2, <1>3

\* A line more in service.
LEMMA OneMore ==
  ASSUME NEW S, IsFiniteSet(S), NEW x
  PROVE  /\ IsFiniteSet(S \cup {x})
         /\ Cardinality(S \cup {x}) <= Cardinality(S) + 1
<1>1. Cardinality(S) \in Nat
  BY FS_CardinalityType
<1> QED
  BY <1>1, FS_AddElement

-----------------------------------------------------------------------------
(* The stack of handlers.                                                  *)

\* A gate puts a handler that has executed nothing yet on the stack.
LEMMA EnterFrame ==
  ASSUME TypeOK, NEW v, NEW l \in Lines \cup {NoLine}, enter(v, l)
  PROVE  /\ stack' \in Seq(Frames)
         /\ Len(stack') = Len(stack) + 1
         /\ \A k \in 1 .. Len(stack) : stack'[k] = stack[k]
         /\ stack'[Len(stack')].at = "cli" /\ stack'[Len(stack')].line = l
<1>1. stack \in Seq(Frames) /\ IF_flag \in BOOLEAN
  BY DEF TypeOK
<1>2. gate(v) \in {"int21h", "ignore_int"}
  BY DEF gate
<1> DEFINE f == [handler |-> gate(v), line |-> l, at |-> "cli", IF_flag |-> IF_flag]
<1>3. f \in Frames /\ f.at = "cli" /\ f.line = l
  BY <1>1, <1>2 DEF Frames, Steps
<1>4. stack' = Append(stack, f)
  BY DEF enter
<1> HIDE DEF f
<1> QED
  BY <1>1, <1>3, <1>4, SMT

\* A step of the innermost handler leaves the others where they are.
LEMMA GoFrame ==
  ASSUME TypeOK, NEW step \in Steps, stack # <<>>, Go(step)
  PROVE  /\ stack' \in Seq(Frames)
         /\ Len(stack) \in Nat \ {0} /\ Len(stack') = Len(stack)
         /\ \A k \in 1 .. Len(stack) :
              /\ stack'[k].at = IF k = Len(stack) THEN step ELSE stack[k].at
              /\ stack'[k].line = stack[k].line
<1>1. stack \in Seq(Frames)
  BY DEF TypeOK
<1>2. Len(stack) \in Nat \ {0} /\ stack[Len(stack)] \in Frames
  BY <1>1, SMT
<1> DEFINE n == Len(stack)
           f == [stack[n] EXCEPT !.at = step]
<1>3. f \in Frames /\ f.at = step /\ f.line = stack[n].line
  BY <1>2 DEF Frames
<1>4. stack' = [stack EXCEPT ![n] = f]
  BY DEF Go
<1> HIDE DEF f
<1> QED
  BY <1>1, <1>2, <1>3, <1>4, SMT

\* The return of the innermost handler leaves the others.
LEMMA PopFrame ==
  ASSUME TypeOK, stack # <<>>, stack' = SubSeq(stack, 1, Len(stack) - 1)
  PROVE  /\ stack' \in Seq(Frames)
         /\ Len(stack) \in Nat \ {0} /\ Len(stack') = Len(stack) - 1
         /\ \A k \in 1 .. Len(stack') : stack'[k] = stack[k]
<1>0. stack \in Seq(Frames) /\ Len(stack) \in Nat \ {0}
  BY DEF TypeOK
<1> DEFINE n == Len(stack) - 1
<1>1. n \in Nat /\ \A k \in 1 .. n : stack[k] \in Frames
  BY <1>0, SMT
<1>2. /\ SubSeq(stack, 1, n) \in Seq(Frames)
      /\ Len(SubSeq(stack, 1, n)) = IF 1 <= n THEN n - 1 + 1 ELSE 0
      /\ \A k \in 1 .. n - 1 + 1 : SubSeq(stack, 1, n)[k] = stack[1 + k - 1]
  <2> HIDE DEF n
  <2> QED
    BY <1>1, SubSeqProperties, SMT
<1>3. stack' = SubSeq(stack, 1, n)
  OBVIOUS
<1>4. stack' \in Seq(Frames)
  BY <1>2, <1>3
<1>5. Len(stack') = Len(stack) - 1
  <2>1. Len(stack') = IF 1 <= n THEN n - 1 + 1 ELSE 0
    BY <1>2, <1>3, Zenon
  <2>2. (IF 1 <= n THEN n - 1 + 1 ELSE 0) = n
    <3> HIDE DEF n
    <3> QED
      BY <1>1
  <2> QED
    BY <2>1, <2>2, Zenon
<1>6. \A k \in 1 .. n - 1 + 1 : stack'[k] = stack[1 + k - 1]
  <2> HIDE DEF n
  <2> QED
    BY <1>2, <1>3, Zenon
<1>7. \A k \in 1 .. Len(stack') : stack'[k] = stack[k]
  BY <1>0, <1>5, <1>6, SMT
<1> QED
  BY <1>0, <1>4, <1>5, <1>7

\* While interrupts are on, no handler on the stack has executed anything.
LEMMA EnabledAtCli ==
  ASSUME HandlersExclude, IF_flag \/ stack = <<>>
  PROVE  \A k \in 1 .. Len(stack) : stack[k].at = "cli"
BY DEF HandlersExclude

\* What the steps of the innermost handler say of the commands owed.
LEMMA Owed ==
  ASSUME TypeOK
  PROVE  /\ Len(stack) \in Nat
         /\ stack = <<>> => OwedMaster = 0 /\ OwedSlave = 0
         /\ At("cli") \/ At("print") \/ At("end_slave") =>
              OwedMaster = Len(stack) /\ OwedSlave = Len(stack)
         /\ At("end_master") => OwedMaster = Len(stack) /\ OwedSlave = Len(stack) - 1
         /\ At("iret") => OwedMaster = Len(stack) - 1 /\ OwedSlave = Len(stack) - 1
<1>1. stack \in Seq(Frames)
  BY DEF TypeOK
<1> QED
  BY <1>1, SMT DEF OwedMaster, OwedSlave, At, Top

\* The same after a step.
LEMMA OwedNext ==
  ASSUME TypeOK'
  PROVE  /\ At("cli")' \/ At("print")' \/ At("end_slave")' =>
              OwedMaster' = Len(stack') /\ OwedSlave' = Len(stack')
         /\ At("end_master")' => OwedMaster' = Len(stack') /\ OwedSlave' = Len(stack') - 1
         /\ At("iret")' => OwedMaster' = Len(stack') - 1 /\ OwedSlave' = Len(stack') - 1
<1>1. stack' \in Seq(Frames)
  BY DEF TypeOK
<1> QED
  BY <1>1, SMT DEF OwedMaster, OwedSlave, At, Top

-----------------------------------------------------------------------------
(* Each step preserves the invariant.                                      *)

LEMMA LineNumbers ==
  ASSUME TypeOK
  PROVE  /\ master \subseteq 0 .. 15 /\ slave \subseteq 0 .. 15
         /\ \A l \in Lines : l \in 0 .. 15 /\ level(l) \in Levels
<1>1. Lines \subseteq 0 .. 15
  BY LinesAssumption
<1>2. Levels \subseteq 0 .. 15
  BY <1>1, SMT DEF Levels, level, CASCADE
<1> QED
  BY <1>1, <1>2 DEF TypeOK, Levels

LEMMA InitInv == Init => IInv
<1> SUFFICES ASSUME Init
             PROVE  IInv
  OBVIOUS
<1>1. stack = <<>> /\ Len(stack) = 0 /\ stack \in Seq(Frames)
  BY DEF Init
<1>2. TypeOK
  <2>1. 0 \in 0 .. MaxSpurious
    BY SpuriousAssumption, SMT
  <2> QED
    BY <1>1, <2>1 DEF Init, TypeOK
<1>3. HandlersExclude
  BY <1>1, SMT DEF HandlersExclude
<1>4. Balanced
  <2>1. OwedMaster = 0 /\ OwedSlave = 0
    BY <1>2, <1>1, Owed
  <2>2. master = {} /\ slave = {}
    BY DEF Init
  <2> QED
    BY <2>1, <2>2, FS_EmptySet, SMT DEF Balanced
<1> QED
  BY <1>2, <1>3, <1>4 DEF IInv

\* A handler is entered where all others have not begun: it owes a command to
\* each controller, and so do they.
LEMMA EnterInv ==
  ASSUME IInv, NEW v, NEW l \in Lines \cup {NoLine}, enter(v, l),
         IF_flag \/ stack = <<>>
  PROVE  /\ stack' \in Seq(Frames)
         /\ HandlersExclude'
         /\ Len(stack) \in Nat
         /\ OwedMaster = Len(stack) /\ OwedSlave = Len(stack)
         /\ OwedMaster' = Len(stack) + 1 /\ OwedSlave' = Len(stack) + 1
<1>1. TypeOK /\ HandlersExclude
  BY DEF IInv
<1>2. \A k \in 1 .. Len(stack) : stack[k].at = "cli"
  BY <1>1, EnabledAtCli
<1>3. /\ stack' \in Seq(Frames)
      /\ Len(stack') = Len(stack) + 1
      /\ \A k \in 1 .. Len(stack) : stack'[k] = stack[k]
      /\ stack'[Len(stack')].at = "cli"
  BY <1>1, EnterFrame
<1>4. stack \in Seq(Frames) /\ Len(stack) \in Nat
  BY <1>1 DEF TypeOK
<1>5. \A k \in 1 .. Len(stack') : stack'[k].at = "cli"
  BY <1>2, <1>3, <1>4, SMT
<1>6. HandlersExclude'
  BY <1>5 DEF HandlersExclude
<1>7. OwedMaster = Len(stack) /\ OwedSlave = Len(stack)
  BY <1>2, <1>4, SMT DEF OwedMaster, OwedSlave, At, Top
<1>8. OwedMaster' = Len(stack') /\ OwedSlave' = Len(stack')
  BY <1>3, SMT DEF OwedMaster, OwedSlave, At, Top
<1> QED
  BY <1>3, <1>4, <1>6, <1>7, <1>8

LEMMA AcceptInv ==
  ASSUME IInv, NEW l \in Lines, accept(l)
  PROVE  IInv'
<1>1. TypeOK /\ Balanced
  BY DEF IInv
<1>2. enter(vector(l), l) /\ IF_flag
  BY DEF accept
<1>3. /\ stack' \in Seq(Frames)
      /\ HandlersExclude'
      /\ Len(stack) \in Nat
      /\ OwedMaster = Len(stack) /\ OwedSlave = Len(stack)
      /\ OwedMaster' = Len(stack) + 1 /\ OwedSlave' = Len(stack) + 1
  BY <1>2, EnterInv
<1>4. TypeOK'
  BY <1>1, <1>3 DEF TypeOK, accept, devices, Levels
<1>5. IsFiniteSet(master') /\ Cardinality(master') <= OwedMaster'
  <2>1. master' = master \cup {level(l)}
    BY DEF accept
  <2>2. IsFiniteSet(master) /\ Cardinality(master) \in Nat /\ Cardinality(master) <= Len(stack)
    BY <1>1, <1>3, FS_CardinalityType DEF Balanced
  <2>3. IsFiniteSet(master') /\ Cardinality(master') <= Cardinality(master) + 1
    BY <2>1, <2>2, OneMore
  <2>4. Cardinality(master') \in Nat
    BY <2>3, FS_CardinalityType
  <2> QED
    BY <1>3, <2>2, <2>3, <2>4, SMT
<1>6. IsFiniteSet(slave') /\ Cardinality(slave') <= OwedSlave'
  <2>1. slave' = slave \/ slave' = slave \cup {l}
    BY DEF accept
  <2>2. IsFiniteSet(slave) /\ Cardinality(slave) \in Nat /\ Cardinality(slave) <= Len(stack)
    BY <1>1, <1>3, FS_CardinalityType DEF Balanced
  <2>3. IsFiniteSet(slave') /\ Cardinality(slave') <= Cardinality(slave) + 1
    <3>1. CASE slave' = slave
      BY <3>1, <2>2, SMT
    <3>2. CASE slave' = slave \cup {l}
      BY <3>2, <2>2, OneMore
    <3> QED
      BY <2>1, <3>1, <3>2
  <2>4. Cardinality(slave') \in Nat
    BY <2>3, FS_CardinalityType
  <2> QED
    BY <1>3, <2>2, <2>3, <2>4, SMT
<1> QED
  BY <1>3, <1>4, <1>5, <1>6 DEF IInv, Balanced

\* A gate is entered without a line: nothing more is in service.
LEMMA EnterWithoutLineInv ==
  ASSUME IInv, NEW v, enter(v, NoLine), IF_flag \/ stack = <<>>,
         TypeOK /\ stack' \in Seq(Frames) => TypeOK',
         master' = master, slave' = slave
  PROVE  IInv'
<1>1. TypeOK /\ Balanced
  BY DEF IInv
<1>2. /\ stack' \in Seq(Frames)
      /\ HandlersExclude'
      /\ Len(stack) \in Nat
      /\ OwedMaster = Len(stack) /\ OwedSlave = Len(stack)
      /\ OwedMaster' = Len(stack) + 1 /\ OwedSlave' = Len(stack) + 1
  BY EnterInv
<1>3. /\ IsFiniteSet(master) /\ Cardinality(master) \in Nat
      /\ IsFiniteSet(slave) /\ Cardinality(slave) \in Nat
  BY <1>1, FS_CardinalityType DEF Balanced
<1>4. Cardinality(master) <= OwedMaster' /\ Cardinality(slave) <= OwedSlave'
  BY <1>1, <1>2, <1>3, SMT DEF Balanced
<1> QED
  BY <1>1, <1>2, <1>3, <1>4 DEF IInv, Balanced

LEMMA AcceptSpuriousInv ==
  ASSUME IInv, accept_spurious
  PROVE  IInv'
<1>1. enter(vector(7), NoLine) /\ IF_flag /\ master' = master /\ slave' = slave
  BY DEF accept_spurious
<1>2. TypeOK /\ stack' \in Seq(Frames) => TypeOK'
  <2> SUFFICES ASSUME TypeOK, stack' \in Seq(Frames)
               PROVE  TypeOK'
    OBVIOUS
  <2>1. spurious' \in 0 .. MaxSpurious
    BY SpuriousAssumption, SMT DEF TypeOK, accept_spurious
  <2>2. requested' \subseteq Lines
    BY DEF TypeOK, accept_spurious
  <2> QED
    BY <2>1, <2>2 DEF TypeOK, accept_spurious, devices
<1> QED
  BY <1>1, <1>2, EnterWithoutLineInv

\* The slave has put no line in service, but the master has.
LEMMA AcceptSpuriousSlaveInv ==
  ASSUME IInv, accept_spurious_slave
  PROVE  IInv'
<1>1. TypeOK /\ Balanced
  BY DEF IInv
<1>2. /\ enter(vector(15), NoLine) /\ IF_flag
      /\ master' = master \cup {CASCADE} /\ slave' = slave
  BY DEF accept_spurious_slave
<1>3. /\ stack' \in Seq(Frames)
      /\ HandlersExclude'
      /\ Len(stack) \in Nat
      /\ OwedMaster = Len(stack) /\ OwedSlave = Len(stack)
      /\ OwedMaster' = Len(stack) + 1 /\ OwedSlave' = Len(stack) + 1
  BY <1>2, EnterInv
<1>4. TypeOK'
  <2>1. CASCADE \in Levels
    <3>1. PICK l \in Lines : ~IsMaster(l)
      BY DEF accept_spurious_slave
    <3>2. level(l) = CASCADE
      BY <3>1 DEF level
    <3> QED
      BY <3>2 DEF Levels
  <2>2. spurious' \in 0 .. MaxSpurious
    BY <1>1, SpuriousAssumption, SMT DEF TypeOK, accept_spurious_slave
  <2>3. requested' \subseteq Lines
    BY <1>1 DEF TypeOK, accept_spurious_slave
  <2> QED
    BY <1>1, <1>2, <1>3, <2>1, <2>2, <2>3 DEF TypeOK, accept_spurious_slave, devices
<1>5. IsFiniteSet(master') /\ Cardinality(master') <= OwedMaster'
  <2>1. IsFiniteSet(master) /\ Cardinality(master) \in Nat /\ Cardinality(master) <= Len(stack)
    BY <1>1, <1>3, FS_CardinalityType DEF Balanced
  <2>2. IsFiniteSet(master') /\ Cardinality(master') <= Cardinality(master) + 1
    BY <1>2, <2>1, OneMore
  <2>3. Cardinality(master') \in Nat
    BY <2>2, FS_CardinalityType
  <2> QED
    BY <1>3, <2>1, <2>2, <2>3, SMT
<1>6. IsFiniteSet(slave') /\ Cardinality(slave') <= OwedSlave'
  <2>1. IsFiniteSet(slave) /\ Cardinality(slave) \in Nat /\ Cardinality(slave) <= Len(stack)
    BY <1>1, <1>3, FS_CardinalityType DEF Balanced
  <2> QED
    BY <1>2, <1>3, <2>1, SMT
<1> QED
  BY <1>3, <1>4, <1>5, <1>6 DEF IInv, Balanced

LEMMA DivideErrorInv ==
  ASSUME IInv, divide_error
  PROVE  IInv'
<1>1. enter(0, NoLine) /\ stack = <<>> /\ master' = master /\ slave' = slave
  BY DEF divide_error, Quiet, controllers
<1>2. TypeOK /\ stack' \in Seq(Frames) => TypeOK'
  BY DEF TypeOK, divide_error, controllers
<1> QED
  BY <1>1, <1>2, EnterWithoutLineInv

\* The innermost handler goes on with interrupts off.
LEMMA HandlerGoes ==
  ASSUME IInv, NEW step \in Steps, stack # <<>>, Go(step), ~IF_flag',
         stack' \in Seq(Frames) => TypeOK'
  PROVE  /\ TypeOK' /\ HandlersExclude'
         /\ Len(stack') = Len(stack) /\ Len(stack) \in Nat \ {0}
         /\ At(step)'
<1>1. TypeOK /\ HandlersExclude
  BY DEF IInv
<1>2. /\ stack' \in Seq(Frames)
      /\ Len(stack) \in Nat \ {0} /\ Len(stack') = Len(stack)
      /\ \A k \in 1 .. Len(stack) :
           stack'[k].at = IF k = Len(stack) THEN step ELSE stack[k].at
  BY <1>1, GoFrame
<1>3. HandlersExclude'
  <2> SUFFICES ASSUME NEW k \in 1 .. Len(stack'), stack'[k].at # "cli"
               PROVE  k = Len(stack')
    BY DEF HandlersExclude
  <2> QED
    BY <1>1, <1>2, SMT DEF HandlersExclude
<1>4. At(step)'
  BY <1>2, SMT DEF At, Top
<1> QED
  BY <1>2, <1>3, <1>4

\* Only a handler past its cli does more, and then interrupts are off.
LEMMA PastCli ==
  ASSUME IInv, NEW step \in Steps, step # "cli", At(step)
  PROVE  ~IF_flag /\ stack # <<>>
<1>1. TypeOK /\ HandlersExclude
  BY DEF IInv
<1>2. stack # <<>> /\ stack \in Seq(Frames) /\ stack[Len(stack)].at = step
  BY <1>1 DEF At, Top, TypeOK
<1>3. Len(stack) \in 1 .. Len(stack)
  BY <1>2, SMT
<1> QED
  BY <1>1, <1>2, <1>3 DEF HandlersExclude

LEMMA CliInv ==
  ASSUME IInv, cli
  PROVE  IInv'
<1>1. TypeOK /\ Balanced
  BY DEF IInv
<1>2. PICK step \in {"print", "end_slave"} : Go(step)
  BY DEF cli
<1>3. stack # <<>> /\ ~IF_flag'
  BY DEF cli, At
<1>4. stack' \in Seq(Frames) => TypeOK'
  BY <1>1 DEF TypeOK, cli, controllers, devices
<1>5. TypeOK' /\ HandlersExclude' /\ Len(stack') = Len(stack) /\ At(step)'
  BY <1>2, <1>3, <1>4, HandlerGoes DEF Steps
<1>6. OwedMaster = Len(stack) /\ OwedSlave = Len(stack)
  BY <1>1, Owed DEF cli
<1>7. OwedMaster' = Len(stack') /\ OwedSlave' = Len(stack')
  BY <1>5, OwedNext
<1> QED
  BY <1>1, <1>5, <1>6, <1>7 DEF IInv, Balanced, cli, controllers

LEMMA PrintInv ==
  ASSUME IInv, int21h_print
  PROVE  IInv'
<1>1. TypeOK /\ Balanced
  BY DEF IInv
<1>2. At("print") /\ Go("end_slave")
  BY DEF int21h_print
<1>3. stack # <<>> /\ ~IF_flag /\ IF_flag' = IF_flag
  BY <1>2, PastCli DEF Steps, int21h_print
<1>4. stack' \in Seq(Frames) => TypeOK'
  BY <1>1 DEF TypeOK, int21h_print, controllers, devices
<1>5. TypeOK' /\ HandlersExclude' /\ Len(stack') = Len(stack) /\ At("end_slave")'
  BY <1>2, <1>3, <1>4, HandlerGoes DEF Steps
<1>6. OwedMaster = Len(stack) /\ OwedSlave = Len(stack)
  BY <1>1, <1>2, Owed
<1>7. OwedMaster' = Len(stack') /\ OwedSlave' = Len(stack')
  BY <1>5, OwedNext
<1> QED
  BY <1>1, <1>5, <1>6, <1>7 DEF IInv, Balanced, int21h_print, controllers

\* The slave is given a command, and one less is owed to it.
LEMMA EndSlaveInv ==
  ASSUME IInv, end_slave
  PROVE  IInv'
<1>1. TypeOK /\ Balanced
  BY DEF IInv
<1>2. At("end_slave") /\ Go("end_master") /\ slave' = Ended(slave) /\ master' = master
  BY DEF end_slave
<1>3. stack # <<>> /\ ~IF_flag /\ IF_flag' = IF_flag
  BY <1>2, PastCli DEF Steps, end_slave
<1>4. /\ slave' \subseteq slave
      /\ IsFiniteSet(slave')
      /\ Cardinality(slave) \in Nat
      /\ IF slave = {} THEN Cardinality(slave') = 0
                       ELSE Cardinality(slave') = Cardinality(slave) - 1
  BY <1>1, <1>2, LineNumbers, EndedIsSmaller DEF Balanced
<1>5. stack' \in Seq(Frames) => TypeOK'
  BY <1>1, <1>4 DEF TypeOK, end_slave, devices
<1>6. /\ TypeOK' /\ HandlersExclude' /\ At("end_master")'
      /\ Len(stack') = Len(stack) /\ Len(stack) \in Nat \ {0}
  BY <1>2, <1>3, <1>5, HandlerGoes DEF Steps
<1>7. OwedMaster = Len(stack) /\ OwedSlave = Len(stack)
  BY <1>1, <1>2, Owed
<1>8. OwedMaster' = Len(stack') /\ OwedSlave' = Len(stack') - 1
  BY <1>6, OwedNext
<1>9. Cardinality(slave') <= OwedSlave'
  BY <1>1, <1>4, <1>6, <1>7, <1>8, SMT DEF Balanced
<1> QED
  BY <1>1, <1>2, <1>4, <1>6, <1>7, <1>8, <1>9 DEF IInv, Balanced

\* And the master.
LEMMA EndMasterInv ==
  ASSUME IInv, end_master
  PROVE  IInv'
<1>1. TypeOK /\ Balanced
  BY DEF IInv
<1>2. At("end_master") /\ Go("iret") /\ master' = Ended(master) /\ slave' = slave
  BY DEF end_master
<1>3. stack # <<>> /\ ~IF_flag /\ IF_flag' = IF_flag
  BY <1>2, PastCli DEF Steps, end_master
<1>4. /\ master' \subseteq master
      /\ IsFiniteSet(master')
      /\ Cardinality(master) \in Nat
      /\ IF master = {} THEN Cardinality(master') = 0
                        ELSE Cardinality(master') = Cardinality(master) - 1
  BY <1>1, <1>2, LineNumbers, EndedIsSmaller DEF Balanced
<1>5. stack' \in Seq(Frames) => TypeOK'
  BY <1>1, <1>4 DEF TypeOK, end_master, devices
<1>6. /\ TypeOK' /\ HandlersExclude' /\ At("iret")'
      /\ Len(stack') = Len(stack) /\ Len(stack) \in Nat \ {0}
  BY <1>2, <1>3, <1>5, HandlerGoes DEF Steps
<1>7. OwedMaster = Len(stack) /\ OwedSlave = Len(stack) - 1
  BY <1>1, <1>2, Owed
<1>8. OwedMaster' = Len(stack') - 1 /\ OwedSlave' = Len(stack') - 1
  BY <1>6, OwedNext
<1>9. Cardinality(master') <= OwedMaster'
  BY <1>1, <1>4, <1>6, <1>7, <1>8, SMT DEF Balanced
<1> QED
  BY <1>1, <1>2, <1>4, <1>6, <1>7, <1>8, <1>9 DEF IInv, Balanced

\* The handlers below the one that returns have not begun.
LEMMA IretInv ==
  ASSUME IInv, iret
  PROVE  IInv'
<1>1. TypeOK /\ HandlersExclude /\ Balanced
  BY DEF IInv
<1>2. At("iret") /\ stack' = SubSeq(stack, 1, Len(stack) - 1) /\ IF_flag' = Top.IF_flag
  BY DEF iret
<1>3. stack \in Seq(Frames) /\ stack # <<>>
  BY <1>1, <1>2 DEF TypeOK, At
<1>4. Len(stack) \in Nat \ {0} /\ Top \in Frames
  BY <1>3, SMT DEF Top
<1>5. /\ stack' \in Seq(Frames) /\ Len(stack') = Len(stack) - 1
      /\ \A k \in 1 .. Len(stack') : stack'[k] = stack[k]
  BY <1>1, <1>2, <1>3, PopFrame
<1>6. \A k \in 1 .. Len(stack') : stack'[k].at = "cli"
  BY <1>1, <1>4, <1>5, SMT DEF HandlersExclude
<1>7. HandlersExclude'
  BY <1>6 DEF HandlersExclude
<1>8. TypeOK'
  <2>1. IF_flag' \in BOOLEAN
    BY <1>2, <1>4 DEF Frames
  <2> QED
    BY <1>1, <1>5, <2>1 DEF TypeOK, iret, controllers, devices
<1>9. OwedMaster = Len(stack') /\ OwedSlave = Len(stack')
  BY <1>1, <1>2, <1>5, Owed
<1>10. OwedMaster' = Len(stack') /\ OwedSlave' = Len(stack')
  BY <1>5, <1>6, SMT DEF OwedMaster, OwedSlave, At, Top
<1> QED
  BY <1>1, <1>7, <1>8, <1>9, <1>10 DEF IInv, Balanced, iret, controllers

\* The other steps touch neither the stack nor what is in service.
LEMMA OtherInv ==
  ASSUME IInv, Boot,
         idt_init \/ main_step \/ (\E l \in Lines : raise(l)) \/ UNCHANGED vars
  PROVE  IInv'
<1>1. TypeOK /\ HandlersExclude /\ Balanced
  BY DEF IInv
<1>2. stack' = stack /\ master' = master /\ slave' = slave
  BY DEF idt_init, main_step, raise, vars, controllers
<1>3. TypeOK'
  <2>1. CASE idt_init
    BY <1>1, <2>1 DEF TypeOK, idt_init, controllers
  <2>2. CASE main_step
    BY <1>1, <2>2 DEF TypeOK, main_step, controllers
  <2>3. CASE \E l \in Lines : raise(l)
    BY <1>1, <2>3 DEF TypeOK, raise
  <2>4. CASE UNCHANGED vars
    BY <1>1, <2>4 DEF TypeOK, vars, controllers, devices
  <2> QED
    BY <2>1, <2>2, <2>3, <2>4
<1>4. HandlersExclude'
  <2>1. CASE IF_flag' = IF_flag
    BY <1>1, <1>2, <2>1 DEF HandlersExclude
  <2>2. CASE idt_init
    <3>1. stack' = <<>>
      BY <1>2, <2>2 DEF Boot, idt_init
    <3> QED
      BY <3>1, SMT DEF HandlersExclude
  <2> QED
    BY <2>1, <2>2 DEF main_step, raise, vars
<1>5. Balanced'
  BY <1>1, <1>2 DEF Balanced, OwedMaster, OwedSlave, At, Top
<1> QED
  BY <1>3, <1>4, <1>5 DEF IInv

\* idt_init comes first.
LEMMA BootInv == Spec => []Boot
<1>1. Init => Boot
  BY DEF Init, Boot
<1>2. Boot /\ [Next]_vars => Boot'
  <2> SUFFICES ASSUME Boot, [Next]_vars, main' = "boot"
               PROVE  stack' = <<>> /\ ~IF_flag'
    BY DEF Boot
  <2>1. ~idt_init /\ ~main_step
    BY DEF idt_init, main_step
  <2>2. main = "boot" /\ stack = <<>> /\ ~IF_flag
    BY <2>1 DEF Boot, Next, ProcessorStep, HandlerStep, vars, accept, accept_spurious,
       accept_spurious_slave, raise, divide_error, cli, int21h_print, end_slave, end_master, iret
  <2>3. UNCHANGED vars \/ \E l \in Lines : raise(l)
    BY <2>1, <2>2 DEF Next, ProcessorStep, HandlerStep, accept, accept_spurious,
       accept_spurious_slave, divide_error, cli, int21h_print, end_slave, end_master, iret, At
  <2> QED
    BY <2>2, <2>3 DEF raise, vars
<1> QED
  BY <1>1, <1>2, PTL DEF Spec

LEMMA StepInv == IInv /\ Boot /\ [Next]_vars => IInv'
<1> SUFFICES ASSUME IInv, Boot, [Next]_vars
             PROVE  IInv'
  OBVIOUS
<1>1. CASE \E l \in Lines : accept(l)
  BY <1>1, AcceptInv
<1>2. CASE accept_spurious
  BY <1>2, AcceptSpuriousInv
<1>10. CASE accept_spurious_slave
  BY <1>10, AcceptSpuriousSlaveInv
<1>3. CASE divide_error
  BY <1>3, DivideErrorInv
<1>4. CASE cli
  BY <1>4, CliInv
<1>5. CASE int21h_print
  BY <1>5, PrintInv
<1>6. CASE end_slave
  BY <1>6, EndSlaveInv
<1>7. CASE end_master
  BY <1>7, EndMasterInv
<1>8. CASE iret
  BY <1>8, IretInv
<1>9. CASE idt_init \/ main_step \/ (\E l \in Lines : raise(l)) \/ UNCHANGED vars
  BY <1>9, OtherInv
<1> QED
  BY <1>1, <1>2, <1>3, <1>4, <1>5, <1>6, <1>7, <1>8, <1>9, <1>10
     DEF Next, ProcessorStep, HandlerStep

-----------------------------------------------------------------------------
(* Nesting by priority.                                                    *)

LEMMA Numbers ==
  ASSUME TypeOK
  PROVE  /\ spurious \in Nat /\ Len(stack) \in Nat
         /\ IsFiniteSet(Levels) /\ Cardinality(Levels) \in Nat
         /\ IsFiniteSet(master) /\ Cardinality(master) \in Nat
         /\ Cardinality(master) <= Cardinality(Levels)
<1>1. Levels \subseteq 0 .. 15
  <2>0. Lines \subseteq 0 .. 15
    BY LinesAssumption
  <2>1. \A l \in Lines : level(l) \in 0 .. 15
    BY <2>0, SMT DEF level, CASCADE
  <2> QED
    BY <2>1 DEF Levels
<1>2. IsFiniteSet(0 .. 15)
  <2>1. 0 \in Int /\ 15 \in Int
    OBVIOUS
  <2> QED
    BY <2>1, FS_Interval, Zenon
<1>3. IsFiniteSet(Levels) /\ Cardinality(Levels) \in Nat
  BY <1>1, <1>2, FS_Subset, FS_CardinalityType
<1>4. IsFiniteSet(master) /\ Cardinality(master) \in Nat /\ Cardinality(master) <= Cardinality(Levels)
  BY <1>3, FS_Subset, FS_CardinalityType DEF TypeOK
<1>5. spurious \in Nat /\ Len(stack) \in Nat
  BY SpuriousAssumption DEF TypeOK
<1> QED
  BY <1>3, <1>4, <1>5

\* The levels of lines and of handlers are numbers.
LEMMA LevelNumber ==
  ASSUME TypeOK, NEW k \in 1 .. Len(stack)
  PROVE  /\ stack[k].line \in Lines \cup {NoLine}
         /\ level(stack[k].line) \in Int
<1>1. stack[k] \in Frames
  BY DEF TypeOK
<1>2. stack[k].line \in Lines \cup {NoLine} /\ stack[k].line \in Int
  BY <1>1, LinesAssumption DEF Frames, NoLine
<1> QED
  BY <1>2 DEF level, CASCADE

LEMMA InitNest == Init => NestInv
<1> SUFFICES ASSUME Init PROVE NestInv
  OBVIOUS
<1>1. TypeOK
  BY InitInv DEF IInv
<1>2. stack = <<>> /\ Len(stack) = 0 /\ 1 .. Len(stack) = {} /\ master = {} /\ spurious = 0
  BY DEF Init
<1>3. Ordered /\ Matched
  BY <1>2 DEF Ordered, Matched
<1>4. OwedMaster = 0
  BY <1>1, <1>2, Owed
<1> QED
  BY <1>1, <1>2, <1>3, <1>4, Numbers DEF NestInv, Covered, Shallow

\* The line accepted is of higher priority than all in service, hence than all
\* whose handlers are on the stack.
LEMMA AcceptNest ==
  ASSUME IInv, IInv', NestInv, NEW l \in Lines, accept(l)
  PROVE  NestInv'
<1> TypeOK /\ TypeOK' /\ HandlersExclude
  BY DEF IInv
<1>1. /\ enter(vector(l), l) /\ IF_flag /\ master' = master \cup {level(l)} /\ spurious' = spurious
      /\ \A m \in master : level(l) < m
  BY DEF accept, Next_line, Passed
<1>2. \A k \in 1 .. Len(stack) : stack[k].at = "cli"
  BY <1>1, EnabledAtCli
<1>3. /\ Len(stack') = Len(stack) + 1
      /\ \A k \in 1 .. Len(stack) : stack'[k] = stack[k]
      /\ stack'[Len(stack')].at = "cli" /\ stack'[Len(stack')].line = l
  BY <1>1, EnterFrame
<1>4. OwedMaster = Len(stack) /\ OwedMaster' = Len(stack) + 1
  BY <1>1, EnterInv
<1>5. /\ spurious \in Nat /\ Len(stack) \in Nat /\ Cardinality(Levels) \in Nat
      /\ IsFiniteSet(master) /\ Cardinality(master) \in Nat
  BY Numbers
<1>6. level(l) \in Int /\ l # NoLine
  BY LinesAssumption DEF level, CASCADE, NoLine
<1>7. level(l) \notin master
  BY <1>1, <1>6
<1>8. Ordered'
  <2> SUFFICES ASSUME spurious = 0, NEW j \in 1 .. Len(stack'), NEW k \in 1 .. Len(stack'), j < k
               PROVE  /\ stack'[k].line # NoLine
                      /\ stack'[j].line # NoLine => level(stack'[k].line) < level(stack'[j].line)
    BY <1>1 DEF Ordered
  <2>1. j \in 1 .. Len(stack) /\ stack'[j] = stack[j]
    BY <1>3, <1>5
  <2>2. CASE k \in 1 .. Len(stack)
    BY <1>3, <2>1, <2>2 DEF NestInv, Ordered
  <2>3. CASE k \notin 1 .. Len(stack)
    <3>1. stack'[k].line = l
      BY <1>3, <1>5, <2>3
    <3>2. stack[j].line # NoLine => level(stack[j].line) \in master
      BY <1>2, <2>1 DEF NestInv, Matched, InService
    <3> QED
      BY <1>1, <1>6, <2>1, <3>1, <3>2
  <2> QED
    BY <2>2, <2>3
<1>9. Matched'
  <2> SUFFICES ASSUME spurious = 0
               PROVE  /\ \A k \in 1 .. Len(stack') : InService(k)' => level(stack'[k].line) \in master'
                      /\ \A m \in master' : \E k \in 1 .. Len(stack') :
                           InService(k)' /\ m = level(stack'[k].line)
    BY <1>1 DEF Matched
  <2>1. \A k \in 1 .. Len(stack) : InService(k)' = InService(k)
    BY <1>3 DEF InService
  <2>2. stack'[Len(stack')].line # NoLine /\ stack'[Len(stack')].at # "iret"
    BY <1>3, <1>6
  <2>3. ASSUME NEW k \in 1 .. Len(stack'), InService(k)'
        PROVE  level(stack'[k].line) \in master'
    <3>1. CASE k \in 1 .. Len(stack)
      BY <1>1, <1>3, <2>1, <2>3, <3>1 DEF NestInv, Matched
    <3>2. CASE k \notin 1 .. Len(stack)
      <4>1. k = Len(stack')
        BY <1>3, <1>5, <3>2
      <4> QED
        BY <1>1, <1>3, <4>1
    <3> QED
      BY <3>1, <3>2
  <2>4. ASSUME NEW m \in master'
        PROVE  \E k \in 1 .. Len(stack') : InService(k)' /\ m = level(stack'[k].line)
    <3>1. CASE m \in master
      <4>1. PICK k \in 1 .. Len(stack) : InService(k) /\ m = level(stack[k].line)
        BY <3>1 DEF NestInv, Matched
      <4>2. k \in 1 .. Len(stack') /\ InService(k)' /\ m = level(stack'[k].line)
        BY <1>3, <1>5, <2>1, <4>1
      <4> QED
        BY <4>2
    <3>2. CASE m = level(l)
      <4>1. Len(stack') \in 1 .. Len(stack') /\ m = level(stack'[Len(stack')].line)
        BY <1>3, <1>5, <3>2
      <4> QED
        BY <2>2, <4>1 DEF InService
    <3> QED
      BY <1>1, <3>1, <3>2
  <2> QED
    BY <2>3, <2>4
<1>10. Covered'
  <2>1. Cardinality(master') = Cardinality(master) + 1
    BY <1>1, <1>5, <1>7, FS_AddElement
  <2> QED
    BY <1>1, <1>4, <1>5, <2>1 DEF NestInv, Covered
<1>11. Shallow'
  <2>1. Cardinality(master') \in Nat /\ Cardinality(master') <= Cardinality(Levels)
    <3>1. master' \subseteq Levels
      BY DEF TypeOK
    <3> QED
      BY <3>1, Numbers, FS_Subset, FS_CardinalityType
  <2> QED
    BY <1>1, <1>3, <1>4, <1>5, <1>10, <2>1 DEF Covered, Shallow
<1> QED
  BY <1>8, <1>9, <1>10, <1>11 DEF NestInv

LEMMA AcceptSpuriousNest ==
  ASSUME IInv, NestInv, accept_spurious
  PROVE  NestInv'
<1>1. enter(vector(7), NoLine) /\ IF_flag /\ master' = master /\ spurious' = spurious + 1
  BY DEF accept_spurious
<1>2. Len(stack') = Len(stack) + 1
  BY <1>1, EnterFrame DEF IInv
<1>3. OwedMaster = Len(stack) /\ OwedMaster' = Len(stack) + 1
  BY <1>1, EnterInv
<1>4. /\ spurious \in Nat /\ Len(stack) \in Nat /\ Cardinality(Levels) \in Nat
      /\ Cardinality(master) \in Nat
  BY Numbers DEF IInv
<1>5. spurious' # 0
  BY <1>1, <1>4
<1>6. Covered' /\ Shallow'
  BY <1>1, <1>2, <1>3, <1>4 DEF NestInv, Covered, Shallow
<1> QED
  BY <1>5, <1>6 DEF NestInv, Ordered, Matched

LEMMA AcceptSpuriousSlaveNest ==
  ASSUME IInv, IInv', NestInv, accept_spurious_slave
  PROVE  NestInv'
<1>1. /\ enter(vector(15), NoLine) /\ IF_flag
      /\ master' = master \cup {CASCADE} /\ spurious' = spurious + 1
  BY DEF accept_spurious_slave
<1>2. Len(stack') = Len(stack) + 1
  BY <1>1, EnterFrame DEF IInv
<1>3. OwedMaster = Len(stack) /\ OwedMaster' = Len(stack) + 1
  BY <1>1, EnterInv
<1>4. /\ spurious \in Nat /\ Len(stack) \in Nat /\ Cardinality(Levels) \in Nat
      /\ IsFiniteSet(master) /\ Cardinality(master) \in Nat
  BY Numbers DEF IInv
<1>5. Cardinality(master') \in Nat /\ Cardinality(master) <= Cardinality(master')
  <2>1. IsFiniteSet(master')
    BY DEF IInv, Balanced
  <2>2. master \subseteq master'
    BY <1>1
  <2> QED
    BY <2>1, <2>2, FS_Subset, FS_CardinalityType
<1>6. spurious' # 0
  BY <1>1, <1>4
<1>7. Covered' /\ Shallow'
  BY <1>1, <1>2, <1>3, <1>4, <1>5 DEF NestInv, Covered, Shallow
<1> QED
  BY <1>6, <1>7 DEF NestInv, Ordered, Matched

\* An exception finds the stack empty and nothing in service.
LEMMA DivideErrorNest ==
  ASSUME IInv, NestInv, divide_error
  PROVE  NestInv'
<1>1. enter(0, NoLine) /\ stack = <<>> /\ master' = master /\ spurious' = spurious
  BY DEF divide_error, Quiet, controllers
<1>2. /\ Len(stack') = Len(stack) + 1 /\ Len(stack) = 0
      /\ stack'[Len(stack')].line = NoLine
  BY <1>1, EnterFrame DEF IInv
<1>3. OwedMaster = 0 /\ OwedMaster' = 1
  BY <1>1, <1>2, EnterInv
<1>4. /\ spurious \in Nat /\ Cardinality(Levels) \in Nat
      /\ IsFiniteSet(master) /\ Cardinality(master) \in Nat
  BY Numbers DEF IInv
<1>5. master = {}
  <2>1. Cardinality(master) = 0
    BY <1>3, <1>4 DEF IInv, Balanced
  <2> QED
    BY <1>4, <2>1, FS_EmptySet
<1>6. 1 .. Len(stack') = {1} /\ stack'[1].line = NoLine
  BY <1>2
<1>7. Ordered' /\ Matched'
  BY <1>1, <1>5, <1>6 DEF Ordered, Matched, InService
<1>8. Covered' /\ Shallow'
  BY <1>1, <1>2, <1>3, <1>4 DEF Covered, Shallow
<1> QED
  BY <1>7, <1>8 DEF NestInv

\* A step of the innermost handler other than its command to the master.
LEMMA GoNest ==
  ASSUME IInv, IInv', NestInv,
         cli \/ int21h_print \/ end_slave
  PROVE  NestInv'
<1> TypeOK /\ TypeOK'
  BY DEF IInv
<1>1. PICK step \in Steps : step \in {"print", "end_slave", "end_master"} /\ Go(step)
  BY DEF cli, int21h_print, end_slave, Steps
<1>2. /\ stack # <<>> /\ Top.at # "iret" /\ master' = master /\ spurious' = spurious
      /\ At("cli") \/ At("print") \/ At("end_slave")
  BY DEF cli, int21h_print, end_slave, At, controllers
<1>3. /\ Len(stack) \in Nat \ {0} /\ Len(stack') = Len(stack)
      /\ \A k \in 1 .. Len(stack) :
           /\ stack'[k].at = IF k = Len(stack) THEN step ELSE stack[k].at
           /\ stack'[k].line = stack[k].line
  BY <1>1, <1>2, GoFrame
<1>4. \A k \in 1 .. Len(stack) : InService(k)' = InService(k)
  BY <1>1, <1>2, <1>3 DEF InService, Top
<1>5. Ordered'
  BY <1>2, <1>3 DEF NestInv, Ordered
<1>6. Matched'
  BY <1>2, <1>3, <1>4 DEF NestInv, Matched
<1>7. OwedMaster' = OwedMaster
  <2>1. OwedMaster = Len(stack)
    BY <1>2, Owed
  <2>2. At(step)'
    BY <1>3 DEF At, Top
  <2>3. OwedMaster' = Len(stack')
    BY <1>1, <2>2, OwedNext
  <2> QED
    BY <1>3, <2>1, <2>3
<1>8. Covered' /\ Shallow'
  BY <1>2, <1>3, <1>7 DEF NestInv, Covered, Shallow
<1> QED
  BY <1>5, <1>6, <1>8 DEF NestInv

\* The highest of a set is the one that no other is above.
LEMMA HighestIs ==
  ASSUME NEW S, NEW h \in S, h \in Int, \A m \in S : m \in Int, \A m \in S : h <= m
  PROVE  Highest(S) = h /\ Ended(S) = S \ {h}
<1>1. Highest(S) \in S /\ \A m \in S : Highest(S) <= m
  BY DEF Highest
<1>2. Highest(S) <= h /\ h <= Highest(S) /\ Highest(S) \in Int
  BY <1>1
<1>3. Highest(S) = h
  BY <1>2
<1> QED
  BY <1>3 DEF Ended

\* The command to the master ends the line that the innermost handler was
\* entered for, and nothing if it was entered for none.
LEMMA EndsTop ==
  ASSUME IInv, NestInv, spurious = 0, At("end_master")
  PROVE  IF Top.line = NoLine
         THEN Len(stack) = 1 /\ master = {}
         ELSE /\ level(Top.line) \in master
              /\ Ended(master) = master \ {level(Top.line)}
<1> TypeOK
  BY DEF IInv
<1> DEFINE n == Len(stack)
<1>1. n \in Nat \ {0} /\ n \in 1 .. n /\ stack[n].at = "end_master" /\ Top = stack[n]
  BY DEF TypeOK, At, Top
<1>2. \A j \in 1 .. n : j < n =>
        /\ Top.line # NoLine
        /\ stack[j].line # NoLine => level(Top.line) < level(stack[j].line)
  BY <1>1 DEF NestInv, Ordered
<1>3. \A m \in master : \E k \in 1 .. n : InService(k) /\ m = level(stack[k].line)
  BY DEF NestInv, Matched
<1> HIDE DEF n
<1>4. CASE Top.line = NoLine
  <2>1. n = 1
    <3>1. ~(1 < n)
      BY <1>1, <1>2, <1>4
    <3> QED
      BY <1>1, <3>1
  <2>2. \A k \in 1 .. n : ~InService(k)
    BY <1>1, <1>4, <2>1 DEF InService
  <2> QED
    BY <1>3, <1>4, <2>1, <2>2 DEF n
<1>5. CASE Top.line # NoLine
  <2>1. level(Top.line) \in master
    BY <1>1, <1>5 DEF NestInv, Matched, InService, n
  <2>2. \A m \in master : m \in Int
    BY LineNumbers
  <2>3. ASSUME NEW m \in master
        PROVE  level(Top.line) <= m
    <3>1. PICK k \in 1 .. n : InService(k) /\ m = level(stack[k].line)
      BY <1>3
    <3>2. CASE k = n
      BY <1>1, <2>1, <2>2, <3>1, <3>2
    <3>3. CASE k # n
      <4>1. k < n
        BY <1>1, <3>3
      <4> QED
        BY <1>2, <2>1, <2>2, <3>1, <4>1 DEF InService
    <3> QED
      BY <3>2, <3>3
  <2> QED
    BY <1>5, <2>1, <2>2, <2>3, HighestIs
<1> QED
  BY <1>4, <1>5

LEMMA EndMasterNest ==
  ASSUME IInv, IInv', NestInv, end_master
  PROVE  NestInv'
<1> TypeOK /\ TypeOK'
  BY DEF IInv
<1>1. At("end_master") /\ Go("iret") /\ master' = Ended(master) /\ spurious' = spurious
  BY DEF end_master
<1>2. stack # <<>> /\ Top.at = "end_master" /\ "iret" \in Steps
  BY <1>1 DEF At, Steps
<1>3. /\ Len(stack) \in Nat \ {0} /\ Len(stack') = Len(stack)
      /\ \A k \in 1 .. Len(stack) :
           /\ stack'[k].at = IF k = Len(stack) THEN "iret" ELSE stack[k].at
           /\ stack'[k].line = stack[k].line
  BY <1>1, <1>2, GoFrame
<1>4. \A k \in 1 .. Len(stack) : InService(k)' = (k # Len(stack) /\ InService(k))
  BY <1>3 DEF InService
<1>5. Ordered'
  BY <1>1, <1>3 DEF NestInv, Ordered
<1>6. Matched'
  <2> SUFFICES ASSUME spurious = 0
               PROVE  /\ \A k \in 1 .. Len(stack) :
                           k # Len(stack) /\ InService(k) => level(stack[k].line) \in master'
                      /\ \A m \in master' : \E k \in 1 .. Len(stack) :
                           k # Len(stack) /\ InService(k) /\ m = level(stack[k].line)
    BY <1>1, <1>3, <1>4 DEF Matched
  <2>1. CASE Top.line = NoLine
    <3>1. Len(stack) = 1 /\ master = {}
      BY <1>1, <2>1, EndsTop
    <3>2. master' = {}
      BY <1>1, <3>1 DEF Ended
    <3>3. \A k \in 1 .. Len(stack) : k = Len(stack)
      BY <3>1
    <3> QED
      BY <3>2, <3>3
  <2>2. CASE Top.line # NoLine
    <3>1. master' = master \ {level(Top.line)}
      BY <1>1, <2>2, EndsTop
    <3>2. ASSUME NEW k \in 1 .. Len(stack), k # Len(stack), InService(k)
          PROVE  level(stack[k].line) \in master'
      <4>1. level(stack[k].line) \in master
        BY <3>2 DEF NestInv, Matched
      <4>2. k < Len(stack) /\ Len(stack) \in 1 .. Len(stack)
        BY <1>3, <3>2
      <4>3. level(Top.line) < level(stack[k].line)
        BY <3>2, <4>2 DEF NestInv, Ordered, InService, Top
      <4>4. level(Top.line) \in Int /\ level(stack[k].line) \in Int
        BY <4>2, LevelNumber DEF Top
      <4> QED
        BY <3>1, <4>1, <4>3, <4>4
    <3>3. ASSUME NEW m \in master'
          PROVE  \E k \in 1 .. Len(stack) :
                   k # Len(stack) /\ InService(k) /\ m = level(stack[k].line)
      <4>1. PICK k \in 1 .. Len(stack) : InService(k) /\ m = level(stack[k].line)
        BY <3>1, <3>3 DEF NestInv, Matched
      <4>2. k # Len(stack)
        BY <3>1, <3>3, <4>1 DEF Top
      <4> QED
        BY <4>1, <4>2
    <3> QED
      BY <3>2, <3>3
  <2> QED
    BY <2>1, <2>2
<1>7. OwedMaster = Len(stack) /\ OwedMaster' = Len(stack) - 1
  <2>1. At("iret")'
    BY <1>3 DEF At, Top
  <2> QED
    BY <1>1, <1>3, <2>1, Owed, OwedNext
<1>8. /\ Cardinality(master) \in Nat
      /\ IF master = {} THEN Cardinality(master') = 0
                        ELSE Cardinality(master') = Cardinality(master) - 1
  BY <1>1, LineNumbers, EndedIsSmaller DEF IInv, Balanced
<1>9. spurious \in Nat /\ Cardinality({}) = 0
  BY FS_EmptySet, Numbers
<1>10. Covered'
  <2>1. OwedMaster <= Cardinality(master) + 1 + spurious
    BY DEF NestInv, Covered
  <2>2. CASE master = {}
    <3>1. Cardinality(master) = 0 /\ Cardinality(master') = 0
      BY <1>8, <1>9, <2>2
    <3> QED
      BY <1>1, <1>3, <1>7, <1>9, <2>1, <3>1 DEF Covered
  <2>3. CASE master # {}
    BY <1>1, <1>3, <1>7, <1>8, <1>9, <2>1, <2>3 DEF Covered
  <2> QED
    BY <2>2, <2>3
<1>11. Shallow'
  BY <1>1, <1>3 DEF NestInv, Shallow
<1> QED
  BY <1>5, <1>6, <1>10, <1>11 DEF NestInv

\* The handler that returns has ended its line.
LEMMA IretNest ==
  ASSUME IInv, IInv', NestInv, iret
  PROVE  NestInv'
<1> TypeOK /\ TypeOK'
  BY DEF IInv
<1>1. /\ At("iret") /\ stack' = SubSeq(stack, 1, Len(stack) - 1)
      /\ master' = master /\ spurious' = spurious
  BY DEF iret, controllers
<1>2. /\ Len(stack) \in Nat \ {0} /\ Len(stack') = Len(stack) - 1
      /\ \A k \in 1 .. Len(stack') : stack'[k] = stack[k]
  BY <1>1, PopFrame DEF At
<1>3. stack[Len(stack)].at = "iret"
  BY <1>1 DEF At, Top
<1>4. \A k \in 1 .. Len(stack) : InService(k) => k \in 1 .. Len(stack')
  BY <1>2, <1>3 DEF InService
<1>5. \A k \in 1 .. Len(stack') : k \in 1 .. Len(stack) /\ InService(k)' = InService(k)
  BY <1>2 DEF InService
<1>6. Ordered'
  BY <1>1, <1>2, <1>5 DEF NestInv, Ordered
<1>7. Matched'
  <2> SUFFICES ASSUME spurious = 0
               PROVE  /\ \A k \in 1 .. Len(stack') : InService(k) => level(stack[k].line) \in master
                      /\ \A m \in master : \E k \in 1 .. Len(stack') :
                           InService(k) /\ m = level(stack[k].line)
    BY <1>1, <1>2, <1>5 DEF Matched
  <2>1. /\ \A k \in 1 .. Len(stack) : InService(k) => level(stack[k].line) \in master
        /\ \A m \in master : \E k \in 1 .. Len(stack) : InService(k) /\ m = level(stack[k].line)
    BY DEF NestInv, Matched
  <2> QED
    BY <1>4, <1>5, <2>1
<1>8. OwedMaster' = OwedMaster
  <2>1. OwedMaster = Len(stack) - 1
    BY <1>1, Owed
  <2>2. \A k \in 1 .. Len(stack') : stack'[k].at = "cli"
    BY <1>2 DEF IInv, HandlersExclude
  <2>3. OwedMaster' = Len(stack')
    BY <1>2, <2>2 DEF OwedMaster, At, Top, TypeOK
  <2> QED
    BY <1>2, <2>1, <2>3
<1>9. Covered'
  BY <1>1, <1>8 DEF NestInv, Covered
<1>10. Shallow'
  BY <1>1, <1>2, Numbers DEF NestInv, Shallow
<1> QED
  BY <1>6, <1>7, <1>9, <1>10 DEF NestInv

LEMMA StepNest == IInv /\ IInv' /\ NestInv /\ [Next]_vars => NestInv'
<1> SUFFICES ASSUME IInv, IInv', NestInv, [Next]_vars
             PROVE  NestInv'
  OBVIOUS
<1>1. CASE \E l \in Lines : accept(l)
  BY <1>1, AcceptNest
<1>2. CASE accept_spurious
  BY <1>2, AcceptSpuriousNest
<1>8. CASE accept_spurious_slave
  BY <1>8, AcceptSpuriousSlaveNest
<1>3. CASE divide_error
  BY <1>3, DivideErrorNest
<1>4. CASE cli \/ int21h_print \/ end_slave
  BY <1>4, GoNest
<1>5. CASE end_master
  BY <1>5, EndMasterNest
<1>6. CASE iret
  BY <1>6, IretNest
<1>7. CASE idt_init \/ main_step \/ (\E l \in Lines : raise(l)) \/ UNCHANGED vars
  <2>1. stack' = stack /\ master' = master /\ spurious' = spurious
    BY <1>7 DEF idt_init, main_step, raise, vars, controllers
  <2>2. OwedMaster' = OwedMaster /\ \A k : InService(k)' = InService(k)
    BY <2>1 DEF OwedMaster, At, Top, InService
  <2> QED
    BY <2>1, <2>2 DEF NestInv, Ordered, Matched, Covered, Shallow
<1> QED
  BY <1>1, <1>2, <1>3, <1>4, <1>5, <1>6, <1>7, <1>8 DEF Next, ProcessorStep, HandlerStep

-----------------------------------------------------------------------------
(* What is in service at the slave.                                        *)

\* The handlers that owe the slave a command stay, and still owe it.
LEMMA SlaveKeeps ==
  ASSUME SlaveHandled, slave' \subseteq slave, spurious' = 0 => spurious = 0,
         \A k \in 1 .. Len(stack) : OwesSlave(k) =>
           /\ k \in 1 .. Len(stack') /\ OwesSlave(k)'
           /\ stack'[k].line = stack[k].line
  PROVE  SlaveHandled'
<1> SUFFICES ASSUME spurious' = 0, NEW m \in slave'
             PROVE  \E k \in 1 .. Len(stack') : stack'[k].line = m /\ OwesSlave(k)'
  BY DEF SlaveHandled
<1>1. PICK k \in 1 .. Len(stack) : stack[k].line = m /\ OwesSlave(k)
  BY DEF SlaveHandled
<1> QED
  BY <1>1

\* A line that is put in service at the slave has its handler entered.
LEMMA AcceptSlave ==
  ASSUME IInv, SlaveHandled, NEW l \in Lines, accept(l)
  PROVE  SlaveHandled'
<1>1. /\ enter(vector(l), l) /\ spurious' = spurious
      /\ slave' \subseteq slave \cup {l}
  BY DEF accept
<1>2. /\ Len(stack') = Len(stack) + 1
      /\ \A k \in 1 .. Len(stack) : stack'[k] = stack[k]
      /\ stack'[Len(stack')].at = "cli" /\ stack'[Len(stack')].line = l
  BY <1>1, EnterFrame DEF IInv
<1>3. Len(stack) \in Nat
  BY Numbers DEF IInv
<1> SUFFICES ASSUME spurious = 0, NEW m \in slave'
             PROVE  \E k \in 1 .. Len(stack') : stack'[k].line = m /\ OwesSlave(k)'
  BY <1>1 DEF SlaveHandled
<1>4. CASE m \in slave
  <2>1. PICK k \in 1 .. Len(stack) : stack[k].line = m /\ OwesSlave(k)
    BY <1>4 DEF SlaveHandled
  <2>2. k \in 1 .. Len(stack') /\ stack'[k] = stack[k]
    BY <1>2, <1>3
  <2> QED
    BY <2>1, <2>2 DEF OwesSlave
<1>5. CASE m = l
  <2>1. Len(stack') \in 1 .. Len(stack')
    BY <1>2, <1>3
  <2> QED
    BY <1>2, <1>5, <2>1 DEF OwesSlave
<1> QED
  BY <1>1, <1>4, <1>5

\* Lines of the slave have one level, and handlers different ones: if the
\* handler that gives the command was entered for a line in service at the
\* slave, it is the only one there.
LEMMA OnlyOne ==
  ASSUME IInv, NestInv, SlaveHandled, spurious = 0, stack # <<>>, Top.line \in slave
  PROVE  slave = {Top.line} /\ Ended(slave) = {}
<1> TypeOK
  BY DEF IInv
<1> DEFINE n == Len(stack)
<1>1. n \in Nat \ {0} /\ n \in 1 .. n /\ Top = stack[n]
  BY DEF TypeOK, Top
<1>2. \A m \in slave : level(m) = CASCADE /\ m # NoLine
  BY LineNumbers DEF TypeOK, level, NoLine
<1>3. ASSUME NEW m \in slave
      PROVE  m = Top.line
  <2>1. PICK k \in 1 .. n : stack[k].line = m
    BY DEF SlaveHandled
  <2>2. CASE k < n
    <3>1. level(Top.line) < level(m)
      BY <1>1, <1>2, <2>1, <2>2 DEF NestInv, Ordered
    <3>2. level(Top.line) = 2 /\ level(m) = 2
      BY <1>2 DEF CASCADE
    <3> QED
      BY <3>1, <3>2
  <2>3. CASE k = n
    BY <1>1, <2>1, <2>3
  <2> QED
    BY <1>1, <2>1, <2>2, <2>3
<1>4. slave = {Top.line}
  BY <1>3
<1>5. Highest(slave) = Top.line
  BY <1>4, LineNumbers, HighestIsIn
<1> QED
  BY <1>4, <1>5 DEF Ended

LEMMA EndSlaveSlave ==
  ASSUME IInv, NestInv, SlaveHandled, end_slave
  PROVE  SlaveHandled'
<1> TypeOK
  BY DEF IInv
<1>1. /\ At("end_slave") /\ Go("end_master") /\ slave' = Ended(slave) /\ spurious' = spurious
      /\ stack # <<>>
  BY DEF end_slave, At
<1>2. /\ Len(stack) \in Nat \ {0} /\ Len(stack') = Len(stack)
      /\ \A k \in 1 .. Len(stack) :
           /\ stack'[k].at = IF k = Len(stack) THEN "end_master" ELSE stack[k].at
           /\ stack'[k].line = stack[k].line
  BY <1>1, GoFrame DEF Steps
<1> SUFFICES ASSUME spurious = 0, NEW m \in slave'
             PROVE  \E k \in 1 .. Len(stack') : stack'[k].line = m /\ OwesSlave(k)'
  BY <1>1 DEF SlaveHandled
<1>3. m \in slave /\ m \in Ended(slave)
  BY <1>1 DEF Ended
<1>4. PICK k \in 1 .. Len(stack) : stack[k].line = m /\ OwesSlave(k)
  BY <1>3 DEF SlaveHandled
<1>5. k # Len(stack)
  BY <1>1, <1>3, <1>4, OnlyOne DEF Top
<1> QED
  BY <1>2, <1>4, <1>5 DEF OwesSlave

LEMMA StepSlave == IInv /\ NestInv /\ SlaveHandled /\ [Next]_vars => SlaveHandled'
<1> SUFFICES ASSUME IInv, NestInv, SlaveHandled, [Next]_vars
             PROVE  SlaveHandled'
  OBVIOUS
<1> TypeOK
  BY DEF IInv
<1>1. CASE \E l \in Lines : accept(l)
  BY <1>1, AcceptSlave
<1>2. CASE accept_spurious \/ accept_spurious_slave
  <2>1. spurious' # 0
    BY <1>2, Numbers DEF accept_spurious, accept_spurious_slave
  <2> QED
    BY <2>1 DEF SlaveHandled
<1>3. CASE divide_error
  <2>1. slave' = slave /\ stack = <<>> /\ spurious' = spurious /\ Len(stack) = 0
    BY <1>3 DEF divide_error, Quiet, controllers
  <2> QED
    BY <2>1, SlaveKeeps
<1>4. CASE cli \/ int21h_print
  <2>1. PICK step \in {"print", "end_slave"} : Go(step)
    BY <1>4 DEF cli, int21h_print
  <2>2. stack # <<>> /\ slave' = slave /\ spurious' = spurious
    BY <1>4 DEF cli, int21h_print, At, controllers
  <2>3. /\ Len(stack') = Len(stack)
        /\ \A k \in 1 .. Len(stack) :
             /\ stack'[k].at = IF k = Len(stack) THEN step ELSE stack[k].at
             /\ stack'[k].line = stack[k].line
    BY <2>1, <2>2, GoFrame DEF Steps
  <2> QED
    BY <2>1, <2>2, <2>3, SlaveKeeps DEF OwesSlave
<1>8. CASE end_master
  <2>1. /\ Go("iret") /\ stack # <<>> /\ stack[Len(stack)].at = "end_master"
        /\ slave' = slave /\ spurious' = spurious
    BY <1>8 DEF end_master, At, Top
  <2>2. /\ Len(stack') = Len(stack)
        /\ \A k \in 1 .. Len(stack) :
             /\ stack'[k].at = IF k = Len(stack) THEN "iret" ELSE stack[k].at
             /\ stack'[k].line = stack[k].line
    BY <2>1, GoFrame DEF Steps
  <2> QED
    BY <2>1, <2>2, SlaveKeeps DEF OwesSlave
<1>5. CASE end_slave
  BY <1>5, EndSlaveSlave
<1>6. CASE iret
  <2>1. /\ stack # <<>> /\ stack' = SubSeq(stack, 1, Len(stack) - 1)
        /\ slave' = slave /\ spurious' = spurious /\ stack[Len(stack)].at = "iret"
    BY <1>6 DEF iret, At, Top, controllers
  <2>2. /\ Len(stack) \in Nat \ {0} /\ Len(stack') = Len(stack) - 1
        /\ \A k \in 1 .. Len(stack') : stack'[k] = stack[k]
    BY <2>1, PopFrame
  <2>3. \A k \in 1 .. Len(stack) : OwesSlave(k) => k \in 1 .. Len(stack')
    BY <2>1, <2>2 DEF OwesSlave
  <2> QED
    BY <2>1, <2>2, <2>3, SlaveKeeps DEF OwesSlave
<1>7. CASE idt_init \/ main_step \/ (\E l \in Lines : raise(l)) \/ UNCHANGED vars
  <2>1. stack' = stack /\ slave' = slave /\ spurious' = spurious
    BY <1>7 DEF idt_init, main_step, raise, vars, controllers
  <2> QED
    BY <2>1 DEF SlaveHandled, OwesSlave
<1> QED
  BY <1>1, <1>2, <1>3, <1>4, <1>5, <1>6, <1>7, <1>8 DEF Next, ProcessorStep, HandlerStep

-----------------------------------------------------------------------------
(* The theorems.                                                           *)

\* The inductive invariant holds throughout: no controller has more lines in
\* service than the handlers on the stack still owe it commands.
THEOREM Invariance == Spec => []IInv
<1>1. Init => IInv
  BY InitInv
<1>2. IInv /\ Boot /\ [Next]_vars => IInv'
  BY StepInv
<1> QED
  BY <1>1, <1>2, BootInv, PTL DEF Spec

\* The state of the controllers and of the stack is always of its type.
THEOREM TypeCorrect == Spec => []TypeOK
<1>1. IInv => TypeOK
  BY DEF IInv
<1> QED
  BY <1>1, Invariance, PTL

\* At most one handler is past its cli, with interrupts off, though the gates
\* leave interrupts on.
THEOREM Exclusion == Spec => []HandlersExclude
<1>1. IInv => HandlersExclude
  BY DEF IInv
<1> QED
  BY <1>1, Invariance, PTL

\* When main goes on, neither controller has a line in service, whatever lines
\* there are, however the handlers nested, and however many requests vanished.
THEOREM Acknowledged == Spec => []AllAcknowledged
<1>1. IInv => AllAcknowledged
  <2> SUFFICES ASSUME IInv, stack = <<>>
               PROVE  master = {} /\ slave = {}
    BY DEF AllAcknowledged
  <2>1. TypeOK /\ Balanced
    BY DEF IInv
  <2>2. OwedMaster = 0 /\ OwedSlave = 0
    BY <2>1, Owed
  <2>3. /\ IsFiniteSet(master) /\ Cardinality(master) \in Nat /\ Cardinality(master) <= 0
        /\ IsFiniteSet(slave) /\ Cardinality(slave) \in Nat /\ Cardinality(slave) <= 0
    BY <2>1, <2>2, FS_CardinalityType DEF Balanced
  <2>4. Cardinality(master) = 0 /\ Cardinality(slave) = 0
    BY <2>3, SMT
  <2> QED
    BY <2>3, <2>4, FS_EmptySet
<1> QED
  BY <1>1, Invariance, PTL

\* NestInv is an invariant.
LEMMA NestInvariance == Spec => []NestInv
<1>1. Init => NestInv
  BY InitNest
<1> QED
  BY <1>1, StepNest, Invariance, PTL DEF Spec

\* NestsByPriority: whatever lines there are, a handler is interrupted only by
\* a line of higher priority, and the stack of handlers is no deeper than there
\* are priorities, an exception and the vanished requests apart.
THEOREM Nesting == Spec => []NestsByPriority
<1>1. NestInv => NestsByPriority
  BY DEF NestInv, Ordered, Shallow, NestsByPriority
<1> QED
  BY <1>1, NestInvariance, PTL

\* EndsWhatIsHandled: as long as no request vanishes, the blind command to the
\* master ends the interrupt its handler was entered for, and that of an
\* exception's handler none; the one to the slave ends that, or the line of a
\* handler that was interrupted before its cli.
THEOREM EndsHandled == Spec => EndsWhatIsHandled
<1>1. Init => SlaveHandled
  BY DEF Init, SlaveHandled
<1>2. ASSUME IInv, NestInv, SlaveHandled, [Next]_vars
      PROVE  [spurious = 0 =>
                /\ \A m \in master \ master' : Top.line # NoLine /\ m = level(Top.line)
                /\ \A m \in slave \ slave' :
                     \/ m = Top.line
                     \/ \E k \in 1 .. Len(stack) - 1 :
                          stack[k].line = m /\ stack[k].at = "cli"]_vars
  <2> SUFFICES ASSUME spurious = 0
               PROVE  /\ \A m \in master \ master' : Top.line # NoLine /\ m = level(Top.line)
                      /\ \A m \in slave \ slave' :
                           \/ m = Top.line
                           \/ \E k \in 1 .. Len(stack) - 1 :
                                stack[k].line = m /\ stack[k].at = "cli"
    OBVIOUS
  <2>1. ASSUME NEW m \in master, m \notin master'
        PROVE  Top.line # NoLine /\ m = level(Top.line)
    <3>1. end_master
      BY <1>2, <2>1
         DEF Next, ProcessorStep, HandlerStep, idt_init, accept, main_step, divide_error, cli,
             int21h_print, end_slave, iret, accept_spurious, accept_spurious_slave, raise,
             vars, controllers
    <3>2. At("end_master") /\ master' = Ended(master)
      BY <3>1 DEF end_master
    <3> QED
      BY <1>2, <2>1, <3>2, EndsTop
  <2>2. ASSUME NEW m \in slave
        PROVE  \/ m = Top.line
               \/ \E k \in 1 .. Len(stack) - 1 : stack[k].line = m /\ stack[k].at = "cli"
    <3>1. PICK k \in 1 .. Len(stack) : stack[k].line = m
      BY <1>2 DEF SlaveHandled
    <3>2. Len(stack) \in Nat
      BY <1>2, Numbers DEF IInv
    <3>3. CASE k = Len(stack)
      BY <3>1, <3>3 DEF Top
    <3>4. CASE k # Len(stack)
      <4>1. k \in 1 .. Len(stack) - 1
        BY <3>2, <3>4
      <4>2. stack[k].at = "cli"
        BY <1>2, <3>4 DEF IInv, HandlersExclude
      <4> QED
        BY <3>1, <4>1, <4>2
    <3> QED
      BY <3>3, <3>4
  <2> QED
    BY <2>1, <2>2
<1>3. Spec => []SlaveHandled
  BY <1>1, StepSlave, Invariance, NestInvariance, PTL DEF Spec
<1> QED
  BY <1>2, <1>3, Invariance, NestInvariance, PTL DEF Spec, EndsWhatIsHandled
=============================================================================
