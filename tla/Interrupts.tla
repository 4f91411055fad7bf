------------------------------ MODULE Interrupts ------------------------------
(***************************************************************************)
(* Interrupts: the two interrupt controllers as head.S programs them, the  *)
(* gates of int/interrupt.c, and the two handlers of int/int.S.            *)
(*                                                                         *)
(* All gates are trap gates: a handler is entered with interrupts enabled  *)
(* and disables them with its first instruction, before which a line of    *)
(* higher priority may interrupt it.  The sti at its end takes effect      *)
(* after the iret that follows, so both are one step.  Each handler ends   *)
(* an interrupt at both controllers, whoever caused it, and neither looks  *)
(* at what it ends: the command clears the highest line in service.        *)
(***************************************************************************)
EXTENDS Integers, Sequences, FiniteSets

CONSTANTS
  Lines,        \* the lines devices are connected to, 0 .. 15
  KEYBOARD,     \* the line of the keyboard controller, 1
  MaxSpurious   \* bound on the requests that vanish

CASCADE == 2  \* the master's line the slave is connected to

ASSUME LinesAssumption == Lines \subseteq (0 .. 15) \ {CASCADE} /\ KEYBOARD \in Lines
ASSUME SpuriousAssumption == MaxSpurious \in Nat

VARIABLES
  requested,  \* the lines whose interrupt is requested
  master,     \* the lines in service at the master,
  slave,      \*   and at the slave
  main,       \* what is interrupted: "boot" before idt_init, "running", or
              \*   "dividing" when its next instruction divides by zero
  IF_flag,    \* the processor accepts interrupts
  stack,      \* the handlers entered and not left, the innermost last
  key_unread, \* a key waits at port 0x60, and no other can be signalled
  raised,     \* the lines raised since main last executed an instruction
  spurious    \* requests that have vanished

controllers == <<requested, master, slave>>
devices == <<key_unread, raised>>
vars == <<controllers, main, IF_flag, stack, devices, spurious>>

-----------------------------------------------------------------------------
(* The controllers.                                                        *)

IsMaster(l) == l < 8
level(l) == IF IsMaster(l) THEN l ELSE CASCADE

\* The vectors head.S gives to the lines, and the gates idt_init sets.
vector(l) == IF IsMaster(l) THEN 32 + l ELSE 40 + (l - 8)
gate_unset(v) == IF v = 33 THEN "int21h" ELSE "unset"  \* mutant
gate(v) == IF v = 33 THEN "int21h" ELSE "ignore_int"

Highest(S) == CHOOSE l \in S : \A m \in S : l <= m

\* The end-of-interrupt command.
Ended(S) == S \ {l \in S : l = Highest(S)}

\* A line is passed on if none of its priority or above is in service.
Passed(l) ==
  /\ l \in requested
  /\ \A m \in master : level(l) < m
  /\ ~IsMaster(l) => \A m \in slave : l < m

Before(l, m) == level(l) < level(m) \/ (level(l) = level(m) /\ l <= m)
Next_line(l) == Passed(l) /\ \A m \in Lines : Passed(m) => Before(l, m)

-----------------------------------------------------------------------------
Init ==
  /\ requested = {} /\ master = {} /\ slave = {}
  /\ main = "boot"
  /\ IF_flag = FALSE
  /\ stack = <<>>
  /\ key_unread = FALSE
  /\ raised = {}
  /\ spurious = 0

\* idt_init sets the gates and then enables interrupts.
idt_init ==
  /\ main = "boot"
  /\ main' = "running"
  /\ IF_flag' = TRUE
  /\ raised' = {}
  /\ UNCHANGED <<controllers, stack, key_unread, spurious>>

\* A device requests an interrupt: at most once per instruction of main,
\* since devices are slower than handlers; the keyboard only if its last key
\* has been read, which no handler does.
raise(l) ==
  /\ l \notin requested \cup raised
  /\ l = KEYBOARD => ~key_unread
  /\ requested' = requested \cup {l}
  /\ raised' = raised \cup {l}
  /\ key_unread' = (key_unread \/ l = KEYBOARD)
  /\ UNCHANGED <<master, slave, main, IF_flag, stack, spurious>>

\* The processor enters the gate of a vector; the gate leaves the interrupt
\* flag alone.
enter(v, l) ==
  stack' = Append(stack, [handler |-> gate(v), line |-> l, at |-> "cli", IF_flag |-> IF_flag])

NoLine == -1

accept(l) ==
  /\ IF_flag
  /\ Next_line(l)
  /\ requested' = requested \ {l}
  /\ master' = master \cup {level(l)}
  /\ slave' = IF IsMaster(l) THEN slave ELSE slave \cup {l}
  /\ enter(vector(l), l)
  /\ UNCHANGED <<main, IF_flag, devices, spurious>>

\* The request of a device vanishes before the processor asks for its vector;
\* the controller answers with that of its last line, and puts none in service.
accept_spurious ==
  /\ IF_flag
  /\ \E l \in Lines \ {KEYBOARD} : Next_line(l) /\ requested' = requested \ {l}
  /\ spurious < MaxSpurious
  /\ spurious' = spurious + 1
  /\ enter(vector(7), NoLine)
  /\ UNCHANGED <<master, slave, main, IF_flag, devices>>

\* A request that has reached the slave vanishes: the slave answers with the
\* vector of its own last line and puts none in service, but the master has put
\* the slave in service.
accept_spurious_slave ==
  /\ IF_flag
  /\ \E l \in Lines : ~IsMaster(l) /\ Next_line(l) /\ requested' = requested \ {l}
  /\ master' = master \cup {CASCADE}
  /\ spurious < MaxSpurious
  /\ spurious' = spurious + 1
  /\ enter(vector(15), NoLine)
  /\ UNCHANGED <<slave, main, IF_flag, devices>>

\* An instruction of main: interrupts come first.
Quiet == stack = <<>> /\ (IF_flag => \A l \in Lines : ~Passed(l))

main_step ==
  /\ main = "running" /\ Quiet
  /\ \/ main' = main
     \/ main' = "dividing"
  /\ raised' = {}
  /\ UNCHANGED <<controllers, IF_flag, stack, key_unread, spurious>>

\* Its handler returns to the instruction that caused it.
divide_error ==
  /\ main = "dividing" /\ Quiet
  /\ enter(0, NoLine)
  /\ raised' = {}
  /\ UNCHANGED <<controllers, main, IF_flag, key_unread, spurious>>

-----------------------------------------------------------------------------
(* int21h and ignore_int.                                                  *)

Top == stack[Len(stack)]
At(step) == stack # <<>> /\ Top.at = step
Go(step) == stack' = [stack EXCEPT ![Len(stack)].at = step]

cli_dropped ==  \* mutant
  /\ At("cli")
  /\ Go(IF Top.handler = "int21h" THEN "print" ELSE "end_slave")
  /\ UNCHANGED <<controllers, main, IF_flag, devices, spurious>>

cli ==
  /\ At("cli")
  /\ IF_flag' = FALSE
  /\ Go(IF Top.handler = "int21h" THEN "print" ELSE "end_slave")
  /\ UNCHANGED <<controllers, main, devices, spurious>>

\* "Keyboard pressed!", the key is not read.
int21h_print ==
  /\ At("print")
  /\ Go("end_slave")
  /\ UNCHANGED <<controllers, main, IF_flag, devices, spurious>>

end_slave_and_master ==  \* mutant: the master is told twice
  /\ At("end_slave")
  /\ slave' = Ended(slave)
  /\ master' = Ended(master)
  /\ Go("end_master")
  /\ UNCHANGED <<requested, main, IF_flag, devices, spurious>>

end_slave ==
  /\ At("end_slave")
  /\ slave' = Ended(slave)
  /\ Go("end_master")
  /\ UNCHANGED <<requested, master, main, IF_flag, devices, spurious>>

end_master_not_slave ==  \* mutant: only for interrupts that did not come through the slave
  /\ At("end_master")
  /\ master' = IF Top.line > 7 THEN master ELSE Ended(master)
  /\ Go("iret")
  /\ UNCHANGED <<requested, slave, main, IF_flag, devices, spurious>>

end_master_enabling ==  \* mutant: sti before the stack is restored
  /\ At("end_master")
  /\ master' = Ended(master)
  /\ IF_flag' = TRUE
  /\ Go("iret")
  /\ UNCHANGED <<requested, slave, main, devices, spurious>>

end_master ==
  /\ At("end_master")
  /\ master' = Ended(master)
  /\ Go("iret")
  /\ UNCHANGED <<requested, slave, main, IF_flag, devices, spurious>>

\* sti and iret.
iret ==
  /\ At("iret")
  /\ IF_flag' = Top.IF_flag
  /\ stack' = SubSeq(stack, 1, Len(stack) - 1)
  /\ UNCHANGED <<controllers, main, devices, spurious>>

HandlerStep == cli \/ int21h_print \/ end_slave \/ end_master \/ iret
ProcessorStep ==
  idt_init \/ (\E l \in Lines : accept(l)) \/ main_step \/ divide_error \/ HandlerStep

Next ==
  \/ ProcessorStep
  \/ accept_spurious
  \/ accept_spurious_slave
  \/ \E l \in Lines : raise(l)

Spec == Init /\ [][Next]_vars

\* The processor goes on executing; no device has to request anything.
FairSpec == Spec /\ WF_vars(ProcessorStep)

-----------------------------------------------------------------------------
(* Properties.                                                             *)

Levels == {level(l) : l \in Lines}
Steps == {"cli", "print", "end_slave", "end_master", "iret"}
Frames == [handler : {"int21h", "ignore_int"}, line : Lines \cup {NoLine},
           at : Steps, IF_flag : BOOLEAN]

\* The type invariant.
TypeOK ==
  /\ requested \subseteq Lines
  /\ master \subseteq Levels
  /\ slave \subseteq {l \in Lines : ~IsMaster(l)}
  /\ main \in {"boot", "running", "dividing"}
  /\ IF_flag \in BOOLEAN
  /\ stack \in Seq(Frames)
  /\ key_unread \in BOOLEAN
  /\ raised \subseteq Lines
  /\ spurious \in 0 .. MaxSpurious

\* Only the innermost handler has executed its cli: no handler's work, the
\* keyboard's printing in particular, is ever interrupted by another's, and
\* interrupts are off while it goes on.
HandlersExclude ==
  \A k \in 1 .. Len(stack) : stack[k].at # "cli" => k = Len(stack) /\ ~IF_flag

\* A handler is interrupted, before its cli, only by a line of higher
\* priority, so that the stack of handlers is never deeper than there are
\* priorities; only an exception, and a request that vanished, add to that.
\* sti before iret, and the blind end-of-interrupt commands of the inner
\* handlers, let no line interrupt itself.
NestsByPriority ==
  /\ spurious = 0 =>
       \A j, k \in 1 .. Len(stack) :
         j < k => /\ stack[k].line # NoLine
                  /\ stack[j].line # NoLine => level(stack[k].line) < level(stack[j].line)
  /\ Len(stack) <= Cardinality(Levels) + 1 + spurious

\* When all handlers have returned, no line is left in service, where it
\* would block itself and those below it for ever.
AllAcknowledged == stack = <<>> => master = {} /\ slave = {}

\* As long as no request vanishes, the command to the master ends the line its
\* handler was entered for, and in an exception's handler none.  The one to the
\* slave may end another's: that of a handler interrupted before its cli, which
\* then finds nothing to end there, but never a line without a handler.
EndsWhatIsHandled ==
  [][spurious = 0 =>
       /\ \A m \in master \ master' : Top.line # NoLine /\ m = level(Top.line)
       /\ \A m \in slave \ slave' :
            \/ m = Top.line
            \/ \E k \in 1 .. Len(stack) - 1 : stack[k].line = m /\ stack[k].at = "cli"]_vars

\* Every request is served: of the lines of the slave too, whose interrupts a
\* handler of the master may have ended before their own.
RequestsServed == \A l \in Lines : l \in requested ~> l \notin requested
=============================================================================
