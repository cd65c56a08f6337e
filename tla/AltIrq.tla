------------------------------- MODULE AltIrq -------------------------------
(***************************************************************************)
(* Interrupts and exceptions of the HAL: the registration of handlers      *)
(* (HAL/src/alt_irq_register.c, alt_iic.c, alt_iic_isr_register.c), the    *)
(* enabling and nesting of interrupts (HAL/inc/priv/alt_legacy_irq.h,      *)
(* HAL/inc/sys/alt_irq.h), the dispatcher (alt_irq_handler.c) and the      *)
(* instruction exceptions (alt_instruction_exception_entry.c).             *)
(*                                                                         *)
(* The processor runs one stack of frames: the program at the bottom, and  *)
(* above it an alt_irq_handler for every interrupt that was taken.  It     *)
(* takes one between any two steps when status.PIE is set and a requested  *)
(* line is enabled in ienable.                                             *)
(***************************************************************************)
EXTENDS Integers, Sequences, SequencesExt, FiniteSets

CONSTANTS
  NIRQ,         \* ALT_NIRQ, the interrupt lines
  Isrs,         \* the service routines of the drivers
  ContextOf,    \* ContextOf[r]: the context routine r is written for
  NULL

VARIABLES
  table,      \* alt_irq
  active,     \* alt_irq_active
  priorities, \* alt_priority_mask
  ienable,    \* the control register
  irq_pie,    \* status.PIE
  lines,      \* external: the lines that request an interrupt
  exception,  \* alt_instruction_exception_handler
  stack       \* the frames of the processor, the running one last

irqVars == <<table, active, priorities, ienable, irq_pie, lines, exception, stack>>

Irq == 0 .. NIRQ - 1
ipending == lines \cap ienable

Lowest(S) == CHOOSE i \in S : \A j \in S : i <= j

-----------------------------------------------------------------------------
(* Frames                                                                  *)

Top == stack[Len(stack)]
Program == [pc |-> "run"]
Becomes(frame) == stack' = [stack EXCEPT ![Len(stack)] = frame]

altera_nios2_qsys_irq_init == ienable = {}

Init ==
  /\ table = [i \in Irq |-> [handler |-> NULL, context |-> NULL]]
  /\ active = {}
  /\ priorities = Irq
  /\ altera_nios2_qsys_irq_init
  /\ irq_pie = TRUE           \* alt_irq_cpu_enable_interrupts
  /\ lines = {}
  /\ exception = NULL
  /\ stack = <<Program>>

\* External: a device asks for service, and keeps asking until it gets it.
Request ==
  /\ \E i \in Irq \ lines : lines' = lines \cup {i}
  /\ UNCHANGED <<table, active, priorities, ienable, irq_pie, exception, stack>>

-----------------------------------------------------------------------------
(* Registration, by the program                                            *)

\* alt_irq_register and alt_ic_isr_register; handler NULL takes one away, and
\* an id out of range is refused with -EINVAL.
CallRegister ==
  /\ Top = Program
  /\ \E id \in 0 .. NIRQ, r \in Isrs \cup {NULL} :
       Becomes(IF id < NIRQ THEN [pc |-> "disable", id |-> id, handler |-> r] ELSE Program)
  /\ UNCHANGED <<table, active, priorities, ienable, irq_pie, lines, exception>>

\* Mutant: the interrupts stay enabled.
RegisterOpen ==
  /\ Top.pc = "disable"
  /\ Becomes([pc |-> "handler", id |-> Top.id, handler |-> Top.handler, saved |-> irq_pie])
  /\ UNCHANGED <<table, active, priorities, ienable, irq_pie, lines, exception>>

RegisterDisable ==
  /\ Top.pc = "disable"
  /\ irq_pie' = FALSE
  /\ Becomes([pc |-> "handler", id |-> Top.id, handler |-> Top.handler, saved |-> irq_pie])
  /\ UNCHANGED <<table, active, priorities, ienable, lines, exception>>

RegisterHandler ==
  /\ Top.pc = "handler"
  /\ table' = [table EXCEPT ![Top.id].handler = Top.handler]
  /\ Becomes([Top EXCEPT !.pc = "context"])
  /\ UNCHANGED <<active, priorities, ienable, irq_pie, lines, exception>>

RegisterContext ==
  /\ Top.pc = "context"
  /\ table' = [table EXCEPT ![Top.id].context =
                 IF Top.handler = NULL THEN NULL ELSE ContextOf[Top.handler]]
  /\ Becomes([Top EXCEPT !.pc = "enable"])
  /\ UNCHANGED <<active, priorities, ienable, irq_pie, lines, exception>>

\* alt_irq_enable and alt_irq_disable, which restore the status they find.
alt_irq_enable(id) == active' = active \cup {id} /\ ienable' = active'
alt_irq_disable(id) == active' = active \ {id} /\ ienable' = active'

RegisterEnable ==
  /\ Top.pc = "enable"
  /\ IF Top.handler # NULL THEN alt_irq_enable(Top.id) ELSE alt_irq_disable(Top.id)
  /\ Becomes([Top EXCEPT !.pc = "restore"])
  /\ UNCHANGED <<table, priorities, irq_pie, lines, exception>>

RegisterDone ==
  /\ Top.pc = "restore"
  /\ irq_pie' = Top.saved
  /\ Becomes(Program)
  /\ UNCHANGED <<table, active, priorities, ienable, lines, exception>>

\* The program turns a registered line off and on again.
alt_ic_irq_enable ==
  /\ Top = Program
  /\ \E i \in Irq : table[i].handler # NULL /\ alt_irq_enable(i)
  /\ UNCHANGED <<table, priorities, irq_pie, lines, exception, stack>>

alt_ic_irq_disable ==
  /\ Top = Program
  /\ \E i \in Irq : alt_irq_disable(i)
  /\ UNCHANGED <<table, priorities, irq_pie, lines, exception, stack>>

alt_ic_irq_enabled(i) == IF i \in ienable THEN 1 ELSE 0

-----------------------------------------------------------------------------
(* The dispatcher                                                          *)

\* The processor saves status in estatus and clears PIE; alt_irq_entry goes to
\* alt_irq_handler because ipending is not zero.
TakeInterrupt ==
  /\ irq_pie /\ ipending # {}
  /\ irq_pie' = FALSE
  /\ stack' = Append(stack, [pc |-> "scan", pending |-> ipending])
  /\ UNCHANGED <<table, active, priorities, ienable, lines, exception>>

\* The lowest pending line first.
Dispatch ==
  /\ Top.pc = "scan"
  /\ LET i == Lowest(Top.pending)
     IN  Becomes([pc |-> "serve", id |-> i, handler |-> table[i].handler,
                  context |-> table[i].context])
  /\ UNCHANGED <<table, active, priorities, ienable, irq_pie, lines, exception>>

\* Mutant: the routine lets every interrupt in.
InterruptibleByAll ==
  /\ Top.pc = "serve"
  /\ ienable' = active
  /\ irq_pie' = TRUE
  /\ Becomes([pc |-> "open", id |-> Top.id, handler |-> Top.handler,
              context |-> Top.context, old |-> priorities])
  /\ UNCHANGED <<table, active, priorities, lines, exception>>

\* A routine may let interrupts of a higher priority in for a while.
alt_irq_interruptible ==
  /\ Top.pc = "serve"
  /\ priorities' = 0 .. Top.id - 1
  /\ ienable' = active \cap priorities'
  /\ irq_pie' = TRUE
  /\ Becomes([pc |-> "open", id |-> Top.id, handler |-> Top.handler,
              context |-> Top.context, old |-> priorities])
  /\ UNCHANGED <<table, active, lines, exception>>

alt_irq_non_interruptible ==
  /\ Top.pc = "open"
  /\ irq_pie' = FALSE
  /\ priorities' = Top.old
  /\ ienable' = Top.old \cap active
  /\ Becomes([pc |-> "clear", id |-> Top.id, handler |-> Top.handler,
              context |-> Top.context])
  /\ UNCHANGED <<table, active, lines, exception>>

\* The routine gives its device what it asked for and returns; alt_irq_handler
\* looks again, until nothing is pending.
Serve ==
  /\ Top.pc \in {"serve", "clear"}
  /\ lines' = lines \ {Top.id}
  /\ LET again == lines' \cap ienable
     IN  IF again # {} THEN Becomes([pc |-> "scan", pending |-> again]) /\ UNCHANGED irq_pie
         ELSE stack' = Front(stack) /\ irq_pie' = TRUE
  /\ UNCHANGED <<table, active, priorities, ienable, exception>>

-----------------------------------------------------------------------------
(* Instruction exceptions                                                  *)

alt_instruction_exception_register ==
  /\ Top = Program
  /\ exception' \in {"handler", NULL}
  /\ UNCHANGED <<table, active, priorities, ienable, irq_pie, lines, stack>>

\* The program's next instruction faults.  Its handler has the instruction
\* tried again or skipped; without one the processor breaks or spins.
alt_instruction_exception_entry ==
  /\ Top = Program
  /\ IF exception = NULL THEN Becomes([pc |-> "broken"]) /\ irq_pie' = FALSE
     ELSE UNCHANGED <<stack, irq_pie>>      \* reissued or skipped
  /\ UNCHANGED <<table, active, priorities, ienable, lines, exception>>

Broken == Top.pc = "broken" /\ UNCHANGED irqVars

Next ==
  \/ Request \/ TakeInterrupt \/ Dispatch \/ Serve
  \/ CallRegister \/ RegisterDisable \/ RegisterHandler \/ RegisterContext
  \/ RegisterEnable \/ RegisterDone \/ alt_ic_irq_enable \/ alt_ic_irq_disable
  \/ alt_irq_interruptible \/ alt_irq_non_interruptible
  \/ alt_instruction_exception_register \/ alt_instruction_exception_entry \/ Broken

Spec == Init /\ [][Next]_irqVars

-----------------------------------------------------------------------------

Serving == {n \in DOMAIN stack : stack[n].pc \in {"serve", "open", "clear"}}

\* No interrupt is dispatched to a line without a routine, or to a routine
\* with the context of another, whenever it comes during a registration.
HandlerMatches ==
  \A n \in Serving :
    /\ stack[n].handler # NULL
    /\ stack[n].context = ContextOf[stack[n].handler]

\* A routine is interrupted only by routines of a higher priority, and when all
\* have returned every registered line is enabled as it was.
NestingKept ==
  /\ \A m, n \in Serving : m < n => stack[n].id < stack[m].id
  /\ Len(stack) = 1 => /\ priorities = Irq
                       /\ \A i \in Irq : alt_ic_irq_enabled(i) = 1 <=> i \in active

=============================================================================
