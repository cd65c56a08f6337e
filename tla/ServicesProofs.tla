--------------------------- MODULE ServicesProofs ---------------------------
(***************************************************************************)
(* Proofs about the services of the HAL, for every value of their          *)
(* constants.                                                              *)
(***************************************************************************)
EXTENDS MCServices, TLAPS, WellFoundedInduction
-----------------------------------------------------------------------------
(* Interrupts: the inductive invariant                                     *)

Routines == Isrs \cup {NULL}
Critical == {"handler", "context", "enable", "restore"}
RoutinePcs == {"serve", "open", "clear"}

Frames ==
  [pc : {"run", "broken"}]
  \cup [pc : {"disable"}, id : Irqs!Irq, handler : Routines]
  \cup [pc : Critical, id : Irqs!Irq, handler : Routines, saved : BOOLEAN]
  \cup [pc : {"scan"}, pending : SUBSET Irqs!Irq]
  \cup [pc : {"serve", "clear"}, id : Irqs!Irq, handler : Routines, context : Routines]
  \cup [pc : {"open"}, id : Irqs!Irq, handler : Routines, context : Routines,
        old : SUBSET Irqs!Irq]

IrqTypes ==
  /\ table \in [Irqs!Irq -> [handler : Routines, context : Routines]]
  /\ active \in SUBSET Irqs!Irq
  /\ priorities \in SUBSET Irqs!Irq
  /\ irq_pie \in BOOLEAN
  /\ stack \in Seq(Frames)
  /\ Len(stack) >= 1

\* The program is below all interrupts; those that are interrupted are open.
\* Nothing interrupts a registration once it has disabled the interrupts, which
\* were enabled before.
IrqShape ==
  /\ stack[1].pc \in {"run", "disable", "broken"} \cup Critical
  /\ \A n \in 2 .. Len(stack) : stack[n].pc \in {"scan"} \cup RoutinePcs
  /\ \A n \in 2 .. Len(stack) : n < Len(stack) => stack[n].pc = "open"
  /\ Len(stack) >= 2 => stack[1].pc \in {"run", "disable"}
  /\ irq_pie <=> stack[Len(stack)].pc \in {"run", "disable", "open"}
  /\ stack[1].pc \in Critical => stack[1].saved

\* The lines that may interrupt what is below frame n.
Admitted(n) == IF n = 2 THEN Irqs!Irq ELSE 0 .. stack[n - 1].id - 1

\* Every frame was let in by the mask below it, which it gives back.
IrqMasks ==
  /\ ienable = active \cap priorities
  /\ priorities = IF Len(stack) = 1 THEN Irqs!Irq
                  ELSE IF stack[Len(stack)].pc = "open" THEN 0 .. stack[Len(stack)].id - 1
                  ELSE Admitted(Len(stack))
  /\ \A n \in 2 .. Len(stack) :
       /\ stack[n].pc = "open" => stack[n].old = Admitted(n)
       /\ stack[n].pc \in RoutinePcs => stack[n].id \in Admitted(n)
       /\ stack[n].pc = "scan" => stack[n].pending \subseteq ienable /\ stack[n].pending # {}

\* The routines that run have ever higher priorities.
IrqNest == \A m, n \in Irqs!Serving : m < n => stack[n].id < stack[m].id

\* Handlers and contexts match and active lines have handlers, but for the line
\* that is being registered.
IrqTable ==
  /\ \A i \in Irqs!Irq :
       /\ \/ table[i].handler = NULL
          \/ table[i].context = ContextOf[table[i].handler]
          \/ stack[1].pc = "context" /\ i = stack[1].id
       /\ \/ i \notin active
          \/ table[i].handler # NULL
          \/ stack[1].pc \in {"context", "enable"} /\ i = stack[1].id
  /\ stack[1].pc \in {"context", "enable"} => table[stack[1].id].handler = stack[1].handler

IrqInv == IrqTypes /\ IrqShape /\ IrqMasks /\ IrqNest /\ IrqTable /\ Irqs!HandlerMatches

\* Every set of numbers that is not empty has a least element.
LEMMA LeastNumber ==
  ASSUME NEW S \in SUBSET Nat, S # {}
  PROVE  \E x \in S : \A y \in S : x <= y
  <1> DEFINE R == {ss \in Nat \X Nat : ss[1] < ss[2]}
  <1>1. OpToRel(<, Nat) = R
    BY Zenon DEF OpToRel
  <1>2. IsWellFoundedOn(R, Nat)
    BY <1>1, NatLessThanWellFounded, Zenon
  <1> HIDE DEF R
  <1>3. PICK x \in S : \A y \in S : ~(<<y, x>> \in R)
    BY <1>2, WFMin
  <1>4. \A a, b \in Nat : b < a => <<b, a>> \in R
    BY DEF R
  <1>5. ASSUME NEW y \in S PROVE x <= y
    <2>1. x \in Nat /\ y \in Nat /\ ~(y < x)
      BY <1>3, <1>4
    <2>2. QED
      BY <2>1
  <1>6. QED
    BY <1>5

\* The first numbers.
LEMMA FirstNumbers ==
  ASSUME NEW n \in Nat
  PROVE  /\ n >= 1 => n = 1 \/ n >= 2
         /\ n >= 2 => n = 2 \/ (n >= 3 /\ n # 2)
  OBVIOUS

\* The lowest of the pending lines is one of them.
LEMMA LowestIsIn ==
  ASSUME NEW S \in SUBSET Irqs!Irq, S # {}
  PROVE  Irqs!Lowest(S) \in S
  <1>1. S \in SUBSET Nat
    BY IrqAssumption DEF Irqs!Irq
  <1>2. QED
    BY <1>1, LeastNumber DEF Irqs!Lowest

\* What the kinds of frames hold.
LEMMA FrameFields ==
  ASSUME NEW f \in Frames
  PROVE  /\ f.pc \in {"run", "broken"} => f = [pc |-> f.pc]
         /\ f.pc \in {"disable"} \cup Critical \cup RoutinePcs =>
              f.id \in Irqs!Irq /\ f.handler \in Routines
         /\ f.pc \in Critical => f.saved \in BOOLEAN
         /\ f.pc = "scan" => f.pending \in SUBSET Irqs!Irq
         /\ f.pc \in RoutinePcs => f.context \in Routines
         /\ f.pc = "open" => f.old \in SUBSET Irqs!Irq
  BY DEF Frames, Critical, RoutinePcs

\* A step of the frame on top.
LEMMA BecomesFrame ==
  ASSUME IrqTypes, NEW f \in Frames, Irqs!Becomes(f)
  PROVE  /\ stack' \in Seq(Frames) /\ Len(stack') = Len(stack)
         /\ stack'[Len(stack)] = f
         /\ \A n \in 1 .. Len(stack) : n # Len(stack) => stack'[n] = stack[n]
  BY DEF IrqTypes, Irqs!Becomes

\* What the program does it does alone on the stack.
LEMMA ProgramAlone ==
  ASSUME IrqInv, stack[Len(stack)].pc \in {"run", "disable", "broken"} \cup Critical
  PROVE  Len(stack) = 1 /\ stack[1] \in Frames /\ priorities = Irqs!Irq /\ ienable = active
  <1>1. Len(stack) \in Nat /\ Len(stack) >= 1 /\ (\A n \in 1 .. Len(stack) : stack[n] \in Frames)
    BY DEF IrqInv, IrqTypes
  <1>2. CASE Len(stack) >= 2
    <2>1. stack[Len(stack)].pc \in {"scan"} \cup RoutinePcs
      BY <1>1, <1>2 DEF IrqInv, IrqShape
    <2>2. QED
      BY <2>1 DEF Critical, RoutinePcs
  <1>3. CASE Len(stack) = 1
    BY <1>1, <1>3 DEF IrqInv, IrqMasks, IrqTypes
  <1>4. Len(stack) >= 2 \/ Len(stack) = 1
    <2>1. PICK l : l = Len(stack)
      OBVIOUS
    <2>2. l \in Nat /\ l >= 1
      BY <1>1, <2>1
    <2>3. l = 1 \/ l >= 2
      BY <2>2
    <2>4. QED
      BY <2>1, <2>3
  <1>5. QED
    BY <1>2, <1>3, <1>4

\* A step of the program that keeps the masks, the table and the active lines
\* in order.
LEMMA ProgramStep ==
  ASSUME IrqTypes', Len(stack') = 1,
         stack'[1].pc \in {"run", "disable", "broken"} \cup Critical,
         irq_pie' <=> stack'[1].pc \in {"run", "disable"},
         stack'[1].pc \in Critical => stack'[1].saved,
         ienable' = active', priorities' = Irqs!Irq, IrqTable'
  PROVE  IrqInv'
  <1>1. Irqs!Serving' = {}
    BY DEF Irqs!Serving, Critical, IrqTypes
  <1>2. IrqShape'
    BY DEF IrqShape, Critical
  <1>3. IrqMasks'
    BY DEF IrqMasks, IrqTypes
  <1>4. IrqNest' /\ Irqs!HandlerMatches'
    BY <1>1 DEF IrqNest, Irqs!HandlerMatches
  <1>5. QED
    BY <1>2, <1>3, <1>4 DEF IrqInv


-----------------------------------------------------------------------------
(* Interrupts: steps of the program                                        *)

\* A registration begins.
LEMMA CallRegisterKeeps == IrqInv /\ Irqs!CallRegister => IrqInv'
  <1> SUFFICES ASSUME IrqInv, Irqs!CallRegister PROVE IrqInv'
    OBVIOUS
  <1>1. stack[Len(stack)] = [pc |-> "run"]
    BY DEF Irqs!CallRegister, Irqs!Top, Irqs!Program
  <1>2. Len(stack) = 1 /\ priorities = Irqs!Irq /\ ienable = active
    BY <1>1, ProgramAlone
  <1>3. PICK id \in 0 .. NIRQ, r \in Isrs \cup {NULL} :
          Irqs!Becomes(IF id < NIRQ THEN [pc |-> "disable", id |-> id, handler |-> r]
                       ELSE Irqs!Program)
    BY DEF Irqs!CallRegister
  <1> DEFINE f == IF id < NIRQ THEN [pc |-> "disable", id |-> id, handler |-> r]
                  ELSE Irqs!Program
  <1>4. f \in Frames /\ f.pc \in {"run", "disable"}
    <2>1. CASE id < NIRQ
      <3>1. id \in Irqs!Irq
        BY <2>1, IrqAssumption DEF Irqs!Irq
      <3>2. QED
        BY <2>1, <3>1 DEF Frames, Routines
    <2>2. CASE ~(id < NIRQ)
      BY <2>2 DEF Frames, Irqs!Program
    <2>3. QED
      BY <2>1, <2>2
  <1> HIDE DEF f
  <1>5. Irqs!Becomes(f)
    BY <1>3 DEF f
  <1>6. stack' \in Seq(Frames) /\ Len(stack') = 1 /\ stack'[1] = f
    BY <1>2, <1>4, <1>5, BecomesFrame DEF IrqInv
  <1>7. /\ table' = table /\ active' = active /\ priorities' = priorities
        /\ ienable' = ienable /\ irq_pie' = irq_pie
    BY DEF Irqs!CallRegister
  <1>8. irq_pie
    BY <1>1, <1>2 DEF IrqInv, IrqShape
  <1>9. IrqTypes'
    BY <1>6, <1>7 DEF IrqInv, IrqTypes
  <1>10. IrqTable'
    BY <1>1, <1>2, <1>4, <1>6, <1>7 DEF IrqInv, IrqTable
  <1>11. QED
    BY <1>2, <1>4, <1>6, <1>7, <1>8, <1>9, <1>10, ProgramStep DEF Critical

\* A step of the program's own frame.
LEMMA ProgramBecomes ==
  ASSUME IrqInv, stack[Len(stack)].pc \in {"run", "disable", "broken"} \cup Critical,
         NEW f \in Frames, Irqs!Becomes(f)
  PROVE  /\ Len(stack) = 1 /\ stack[1] \in Frames
         /\ priorities = Irqs!Irq /\ ienable = active
         /\ stack' \in Seq(Frames) /\ Len(stack') = 1 /\ stack'[1] = f
  <1>1. /\ Len(stack) = 1 /\ stack[1] \in Frames
        /\ priorities = Irqs!Irq /\ ienable = active
    BY ProgramAlone
  <1>2. stack' \in Seq(Frames) /\ Len(stack') = 1 /\ stack'[1] = f
    BY <1>1, BecomesFrame DEF IrqInv
  <1>3. QED
    BY <1>1, <1>2

\* The interrupts are disabled.
LEMMA RegisterDisableKeeps == IrqInv /\ Irqs!RegisterDisable => IrqInv'
  <1> SUFFICES ASSUME IrqInv, Irqs!RegisterDisable PROVE IrqInv'
    OBVIOUS
  <1> DEFINE f == [pc |-> "handler", id |-> stack[1].id, handler |-> stack[1].handler,
                   saved |-> irq_pie]
  <1>1. stack[Len(stack)].pc = "disable"
    BY DEF Irqs!RegisterDisable, Irqs!Top
  <1>2. Len(stack) = 1 /\ stack[1] \in Frames
    BY <1>1, ProgramAlone
  <1>3. irq_pie
    BY <1>1, <1>2 DEF IrqInv, IrqShape
  <1>4. f \in Frames
    BY <1>1, <1>2, <1>3, FrameFields DEF Frames, Critical
  <1>5. Irqs!Becomes(f)
    BY <1>2 DEF Irqs!RegisterDisable, Irqs!Top
  <1>6. f.pc = "handler" /\ f.saved
    BY <1>3
  <1> HIDE DEF f
  <1>7. /\ priorities = Irqs!Irq /\ ienable = active
        /\ stack' \in Seq(Frames) /\ Len(stack') = 1 /\ stack'[1] = f
    BY <1>1, <1>4, <1>5, ProgramBecomes
  <1>8. /\ table' = table /\ active' = active /\ priorities' = priorities
        /\ ienable' = ienable /\ irq_pie' = FALSE
    BY DEF Irqs!RegisterDisable
  <1>9. IrqTypes'
    <2>1. irq_pie' \in BOOLEAN
      BY <1>8
    <2>2. Len(stack') >= 1
      BY <1>7
    <2>3. QED
      BY <1>7, <1>8, <2>1, <2>2, Zenon DEF IrqInv, IrqTypes
  <1>10. IrqTable'
    BY <1>1, <1>2, <1>6, <1>7, <1>8 DEF IrqInv, IrqTable
  <1>11. QED
    BY <1>6, <1>7, <1>8, <1>9, <1>10, ProgramStep DEF Critical

\* A step of a registration from one of its critical points to the next.
LEMMA RegisterGoes ==
  ASSUME IrqInv, stack[Len(stack)].pc \in Critical, NEW pc \in Critical,
         Irqs!Becomes([Irqs!Top EXCEPT !.pc = pc])
  PROVE  /\ Len(stack) = 1 /\ stack[1] \in Frames
         /\ stack[1].id \in Irqs!Irq /\ stack[1].handler \in Routines
         /\ priorities = Irqs!Irq /\ ienable = active /\ ~irq_pie
         /\ stack' \in Seq(Frames) /\ Len(stack') = 1
         /\ stack'[1].pc = pc /\ stack'[1].id = stack[1].id
         /\ stack'[1].handler = stack[1].handler /\ stack'[1].saved
  <1> DEFINE f == [stack[1] EXCEPT !.pc = pc]
  <1>1. Len(stack) = 1 /\ stack[1] \in Frames
    BY ProgramAlone
  <1>2. stack[1].saved /\ ~irq_pie
    BY <1>1 DEF IrqInv, IrqShape, Critical
  <1>3. stack[1] \in [pc : Critical, id : Irqs!Irq, handler : Routines, saved : BOOLEAN]
    BY <1>1 DEF Frames, Critical
  <1>4. f \in Frames /\ f.pc = pc /\ f.id = stack[1].id /\ f.handler = stack[1].handler
        /\ f.saved = stack[1].saved
    BY <1>3 DEF Frames
  <1>5. Irqs!Becomes(f)
    BY <1>1 DEF Irqs!Top
  <1> HIDE DEF f
  <1>6. /\ priorities = Irqs!Irq /\ ienable = active
        /\ stack' \in Seq(Frames) /\ Len(stack') = 1 /\ stack'[1] = f
    BY <1>4, <1>5, ProgramBecomes
  <1>7. QED
    BY <1>1, <1>2, <1>3, <1>4, <1>6

\* The handler is stored.
LEMMA RegisterHandlerKeeps == IrqInv /\ Irqs!RegisterHandler => IrqInv'
  <1> SUFFICES ASSUME IrqInv, Irqs!RegisterHandler PROVE IrqInv'
    OBVIOUS
  <1> DEFINE id == stack[1].id
             r == stack[1].handler
  <1>1. stack[Len(stack)].pc = "handler" /\ Irqs!Becomes([Irqs!Top EXCEPT !.pc = "context"])
    BY DEF Irqs!RegisterHandler, Irqs!Top
  <1>2. /\ Len(stack) = 1 /\ id \in Irqs!Irq /\ r \in Routines
        /\ priorities = Irqs!Irq /\ ienable = active /\ ~irq_pie
        /\ stack' \in Seq(Frames) /\ Len(stack') = 1
        /\ stack'[1].pc = "context" /\ stack'[1].id = id
        /\ stack'[1].handler = r /\ stack'[1].saved
    BY <1>1, RegisterGoes DEF Critical
  <1>3. /\ table' = [table EXCEPT ![id].handler = r] /\ active' = active
        /\ priorities' = priorities /\ ienable' = ienable /\ irq_pie' = irq_pie
    BY <1>2 DEF Irqs!RegisterHandler, Irqs!Top
  <1> HIDE DEF id, r
  <1>4. /\ table' \in [Irqs!Irq -> [handler : Routines, context : Routines]]
        /\ table'[id].handler = r
        /\ \A i \in Irqs!Irq : i # id => table'[i] = table[i]
    BY <1>2, <1>3 DEF IrqInv, IrqTypes
  <1>5. IrqTypes'
    BY <1>2, <1>3, <1>4 DEF IrqInv, IrqTypes
  <1>6. \A i \in Irqs!Irq :
          /\ table[i].handler = NULL \/ table[i].context = ContextOf[table[i].handler]
          /\ i \notin active \/ table[i].handler # NULL
    BY <1>1, <1>2 DEF IrqInv, IrqTable
  <1>7. IrqTable'
    BY <1>2, <1>3, <1>4, <1>6 DEF IrqTable
  <1>8. QED
    BY <1>2, <1>3, <1>5, <1>7, ProgramStep DEF Critical

\* The context is stored: both match again.
LEMMA RegisterContextKeeps == IrqInv /\ Irqs!RegisterContext => IrqInv'
  <1> SUFFICES ASSUME IrqInv, Irqs!RegisterContext PROVE IrqInv'
    OBVIOUS
  <1> DEFINE id == stack[1].id
             r == stack[1].handler
             c == IF r = NULL THEN NULL ELSE ContextOf[r]
  <1>1. stack[Len(stack)].pc = "context" /\ Irqs!Becomes([Irqs!Top EXCEPT !.pc = "enable"])
    BY DEF Irqs!RegisterContext, Irqs!Top
  <1>2. /\ Len(stack) = 1 /\ id \in Irqs!Irq /\ r \in Routines
        /\ priorities = Irqs!Irq /\ ienable = active /\ ~irq_pie
        /\ stack' \in Seq(Frames) /\ Len(stack') = 1
        /\ stack'[1].pc = "enable" /\ stack'[1].id = id
        /\ stack'[1].handler = r /\ stack'[1].saved
    BY <1>1, RegisterGoes DEF Critical
  <1>3. /\ table' = [table EXCEPT ![id].context = c] /\ active' = active
        /\ priorities' = priorities /\ ienable' = ienable /\ irq_pie' = irq_pie
    BY <1>2 DEF Irqs!RegisterContext, Irqs!Top
  <1>4. c \in Routines
    BY <1>2 DEF ContextOf, Routines
  <1>5. table[id].handler = r
    BY <1>1, <1>2 DEF IrqInv, IrqTable
  <1>6. r = NULL \/ c = ContextOf[r]
    OBVIOUS
  <1>7. \A i \in Irqs!Irq : i # id =>
          /\ table[i].handler = NULL \/ table[i].context = ContextOf[table[i].handler]
          /\ i \notin active \/ table[i].handler # NULL
    BY <1>1, <1>2 DEF IrqInv, IrqTable
  <1> HIDE DEF id, r, c
  <1>8. /\ table' \in [Irqs!Irq -> [handler : Routines, context : Routines]]
        /\ table'[id].handler = r /\ table'[id].context = c
        /\ \A i \in Irqs!Irq : i # id => table'[i] = table[i]
    BY <1>2, <1>3, <1>4, <1>5 DEF IrqInv, IrqTypes
  <1>9. IrqTypes'
    BY <1>2, <1>3, <1>8 DEF IrqInv, IrqTypes
  <1>10. IrqTable'
    BY <1>2, <1>3, <1>6, <1>7, <1>8 DEF IrqTable
  <1>11. QED
    BY <1>2, <1>3, <1>9, <1>10, ProgramStep DEF Critical

\* The line is enabled if it has a handler.
LEMMA RegisterEnableKeeps == IrqInv /\ Irqs!RegisterEnable => IrqInv'
  <1> SUFFICES ASSUME IrqInv, Irqs!RegisterEnable PROVE IrqInv'
    OBVIOUS
  <1> DEFINE id == stack[1].id
             r == stack[1].handler
  <1>1. stack[Len(stack)].pc = "enable" /\ Irqs!Becomes([Irqs!Top EXCEPT !.pc = "restore"])
    BY DEF Irqs!RegisterEnable, Irqs!Top
  <1>2. /\ Len(stack) = 1 /\ id \in Irqs!Irq /\ r \in Routines
        /\ priorities = Irqs!Irq /\ ienable = active /\ ~irq_pie
        /\ stack' \in Seq(Frames) /\ Len(stack') = 1
        /\ stack'[1].pc = "restore" /\ stack'[1].id = id
        /\ stack'[1].handler = r /\ stack'[1].saved
    BY <1>1, RegisterGoes DEF Critical
  <1>3. /\ table' = table /\ priorities' = priorities /\ irq_pie' = irq_pie
        /\ ienable' = active'
        /\ active' = IF r # NULL THEN active \cup {id} ELSE active \ {id}
    BY <1>2 DEF Irqs!RegisterEnable, Irqs!Top, Irqs!alt_irq_enable, Irqs!alt_irq_disable
  <1>4. table[id].handler = r
    BY <1>1, <1>2 DEF IrqInv, IrqTable
  <1>5. \A i \in Irqs!Irq :
          /\ table[i].handler = NULL \/ table[i].context = ContextOf[table[i].handler]
          /\ i # id => i \notin active \/ table[i].handler # NULL
    BY <1>1, <1>2 DEF IrqInv, IrqTable
  <1> HIDE DEF id, r
  <1>6. IrqTypes'
    BY <1>2, <1>3 DEF IrqInv, IrqTypes
  <1>7. IrqTable'
    BY <1>2, <1>3, <1>4, <1>5 DEF IrqTable
  <1>8. QED
    BY <1>2, <1>3, <1>6, <1>7, ProgramStep DEF Critical

\* The interrupts are enabled again.
LEMMA RegisterDoneKeeps == IrqInv /\ Irqs!RegisterDone => IrqInv'
  <1> SUFFICES ASSUME IrqInv, Irqs!RegisterDone PROVE IrqInv'
    OBVIOUS
  <1>1. /\ stack[Len(stack)].pc = "restore" /\ Irqs!Becomes(Irqs!Program)
        /\ irq_pie' = stack[Len(stack)].saved
        /\ table' = table /\ active' = active /\ priorities' = priorities
        /\ ienable' = ienable
    BY DEF Irqs!RegisterDone, Irqs!Top
  <1>2. Irqs!Program \in Frames /\ Irqs!Program.pc = "run"
    BY DEF Irqs!Program, Frames
  <1>3. /\ Len(stack) = 1 /\ priorities = Irqs!Irq /\ ienable = active
        /\ stack' \in Seq(Frames) /\ Len(stack') = 1 /\ stack'[1] = Irqs!Program
    BY <1>1, <1>2, ProgramBecomes DEF Critical
  <1>4. irq_pie' = TRUE
    BY <1>1, <1>3, FrameFields DEF IrqInv, IrqShape, IrqTypes, Critical
  <1>5. IrqTypes'
    BY <1>1, <1>3, <1>4 DEF IrqInv, IrqTypes
  <1>6. IrqTable'
    BY <1>1, <1>2, <1>3 DEF IrqInv, IrqTable
  <1>7. QED
    BY <1>1, <1>2, <1>3, <1>4, <1>5, <1>6, ProgramStep DEF Critical

\* The program turns lines on and off.
LEMMA LinesKeep ==
  IrqInv /\ (Irqs!alt_ic_irq_enable \/ Irqs!alt_ic_irq_disable) => IrqInv'
  <1> SUFFICES ASSUME IrqInv, Irqs!alt_ic_irq_enable \/ Irqs!alt_ic_irq_disable
               PROVE  IrqInv'
    OBVIOUS
  <1>1. /\ stack[Len(stack)] = [pc |-> "run"] /\ stack' = stack
        /\ table' = table /\ priorities' = priorities /\ irq_pie' = irq_pie
    BY DEF Irqs!alt_ic_irq_enable, Irqs!alt_ic_irq_disable, Irqs!Top, Irqs!Program
  <1>2. Len(stack) = 1 /\ priorities = Irqs!Irq /\ ienable = active
    BY <1>1, ProgramAlone
  <1>3. PICK i \in Irqs!Irq :
          /\ ienable' = active'
          /\ \/ table[i].handler # NULL /\ active' = active \cup {i}
             \/ active' = active \ {i}
    BY DEF Irqs!alt_ic_irq_enable, Irqs!alt_ic_irq_disable,
           Irqs!alt_irq_enable, Irqs!alt_irq_disable
  <1>4. IrqTypes'
    BY <1>1, <1>3 DEF IrqInv, IrqTypes
  <1>5. irq_pie
    BY <1>1, <1>2 DEF IrqInv, IrqShape
  <1>6. IrqTable'
    BY <1>1, <1>2, <1>3 DEF IrqInv, IrqTable
  <1>7. QED
    BY <1>1, <1>2, <1>3, <1>4, <1>5, <1>6, ProgramStep DEF Critical

\* Instruction exceptions, and the processor that broke.
LEMMA ExceptionKeeps ==
  IrqInv /\ (Irqs!alt_instruction_exception_entry) => IrqInv'
  <1> SUFFICES ASSUME IrqInv, Irqs!alt_instruction_exception_entry PROVE IrqInv'
    OBVIOUS
  <1>1. /\ stack[Len(stack)] = [pc |-> "run"]
        /\ table' = table /\ priorities' = priorities
        /\ active' = active /\ ienable' = ienable
    BY DEF Irqs!alt_instruction_exception_entry, Irqs!Top, Irqs!Program
  <1>2. Len(stack) = 1 /\ priorities = Irqs!Irq /\ ienable = active
    BY <1>1, ProgramAlone
  <1>3. CASE Irqs!Becomes([pc |-> "broken"]) /\ irq_pie' = FALSE
    <2>1. [pc |-> "broken"] \in Frames
      BY DEF Frames
    <2>2. stack' \in Seq(Frames) /\ Len(stack') = 1 /\ stack'[1] = [pc |-> "broken"]
      BY <1>1, <1>3, <2>1, ProgramBecomes
    <2>3. IrqTypes'
      <3>1. irq_pie' \in BOOLEAN
        BY <1>3
      <3>2. Len(stack') >= 1
        BY <2>2
      <3>3. QED
        BY <1>1, <2>2, <3>1, <3>2, Zenon DEF IrqInv, IrqTypes
    <2>4. IrqTable'
      BY <1>1, <1>2, <2>2 DEF IrqInv, IrqTable
    <2>5. QED
      BY <1>1, <1>2, <1>3, <2>2, <2>3, <2>4, ProgramStep DEF Critical
  <1>4. CASE stack' = stack /\ irq_pie' = irq_pie
    <2>1. IrqTypes'
      BY <1>1, <1>4 DEF IrqInv, IrqTypes
    <2>2. IrqTable' /\ irq_pie
      BY <1>1, <1>2, <1>4 DEF IrqInv, IrqTable, IrqShape
    <2>3. QED
      BY <1>1, <1>2, <1>4, <2>1, <2>2, ProgramStep DEF Critical
  <1>5. QED
    BY <1>3, <1>4 DEF Irqs!alt_instruction_exception_entry

-----------------------------------------------------------------------------
(* Interrupts: steps of the interrupts                                     *)

\* What lies below frame l does not move while frame l does.
Below(l) ==
  /\ l \in Nat /\ l >= 2 /\ l - 1 <= Len(stack)
  /\ stack[1].pc \in {"run", "disable"}
  /\ \A n \in 2 .. l - 1 : stack[n].pc = "open"

\* Frame l is on top of the stack, and what it is is right.
OnTop(l) ==
  /\ stack' \in Seq(Frames) /\ Len(stack') = l
  /\ \A n \in 1 .. l - 1 : stack'[n] = stack[n]
  /\ stack'[l].pc \in {"scan"} \cup RoutinePcs
  /\ stack'[l].pc = "open" => stack'[l].old = Admitted(l)
  /\ stack'[l].pc \in RoutinePcs =>
       /\ stack'[l].id \in Admitted(l)
       /\ stack'[l].handler # NULL
       /\ stack'[l].context = ContextOf[stack'[l].handler]
  /\ stack'[l].pc = "scan" => stack'[l].pending \subseteq ienable' /\ stack'[l].pending # {}

\* A step of a frame that keeps its place.
LEMMA InterruptStep ==
  ASSUME IrqInv, NEW l, Below(l), OnTop(l), table' = table, active' = active,
         irq_pie' \in BOOLEAN, irq_pie' <=> stack'[l].pc = "open",
         ienable' = active \cap priorities',
         priorities' = IF stack'[l].pc = "open" THEN 0 .. stack'[l].id - 1 ELSE Admitted(l)
  PROVE  IrqInv'
  <1>1. /\ l \in Nat /\ l >= 2 /\ Len(stack') = l /\ stack'[1] = stack[1]
        /\ \A n \in 2 .. l - 1 : stack'[n] = stack[n] /\ stack'[n].pc = "open"
        /\ stack'[1].pc \in {"run", "disable"}
    BY DEF Below, OnTop
  <1>2. Len(stack) \in Nat /\ \A n \in 1 .. Len(stack) : stack[n] \in Frames
    BY DEF IrqInv, IrqTypes
  <1>3. \A n \in 2 .. l - 1 : stack[n].pc = "open" /\ n \in 1 .. Len(stack) /\ n \in 2 .. Len(stack)
    BY <1>2 DEF Below
  <1>4. \A n \in 2 .. l - 1 : stack[n].id \in Irqs!Irq
    BY <1>2, <1>3, FrameFields DEF RoutinePcs
  <1>5. \A n \in 2 .. l : Admitted(n)' = Admitted(n)
    BY <1>1 DEF Admitted, OnTop
  <1>6. Admitted(l) \subseteq Irqs!Irq
    <2>1. CASE l = 2
      BY <2>1 DEF Admitted
    <2>2. CASE l # 2
      <3>1. l - 1 \in 2 .. l - 1
        BY <1>1, <2>2
      <3>2. stack[l - 1].id \in Irqs!Irq
        BY <1>4, <3>1
      <3>3. QED
        BY <2>2, <3>2, IrqAssumption DEF Admitted, Irqs!Irq
    <2>3. QED
      BY <2>1, <2>2
  <1>7. IrqTypes'
    <2>1. priorities' \subseteq Irqs!Irq
      <3>1. CASE stack'[l].pc = "open"
        <4>1. stack'[l].id \in Irqs!Irq
          BY <1>6, <3>1 DEF OnTop, RoutinePcs
        <4>2. QED
          BY <3>1, <4>1, IrqAssumption DEF Irqs!Irq
      <3>2. CASE stack'[l].pc # "open"
        BY <1>6, <3>2
      <3>3. QED
        BY <3>1, <3>2
    <2>2. Len(stack') >= 1 /\ stack' \in Seq(Frames)
      BY <1>1 DEF OnTop
    <2>3. QED
      BY <2>1, <2>2, Zenon DEF IrqInv, IrqTypes
  <1>8. IrqShape'
    <2>1. \A n \in 2 .. l : stack'[n].pc \in {"scan"} \cup RoutinePcs
      BY <1>1 DEF OnTop, RoutinePcs
    <2>2. \A n \in 2 .. l : n < l => stack'[n].pc = "open"
      BY <1>1
    <2>3. irq_pie' <=> stack'[l].pc \in {"run", "disable", "open"}
      BY DEF OnTop, RoutinePcs
    <2>4. stack'[1].pc \notin Critical
      BY <1>1 DEF Critical
    <2>5. QED
      BY <1>1, <2>1, <2>2, <2>3, <2>4 DEF IrqShape
  <1>9. IrqMasks'
    <2>1. priorities' = IF Len(stack') = 1 THEN Irqs!Irq
                        ELSE IF stack'[Len(stack')].pc = "open"
                             THEN 0 .. stack'[Len(stack')].id - 1
                             ELSE Admitted(Len(stack))'
      <3>1. Admitted(Len(stack))' = Admitted(l)'
        BY <1>1 DEF Admitted
      <3>2. Admitted(l)' = Admitted(l) /\ Len(stack') # 1
        BY <1>1, <1>5
      <3>3. QED
        BY <1>1, <3>1, <3>2
    <2>2. ASSUME NEW n \in 2 .. l
          PROVE  /\ stack'[n].pc = "open" => stack'[n].old = Admitted(n)
                 /\ stack'[n].pc \in RoutinePcs => stack'[n].id \in Admitted(n)
                 /\ stack'[n].pc = "scan" =>
                      stack'[n].pending \subseteq ienable' /\ stack'[n].pending # {}
      <3>1. CASE n = l
        BY <3>1 DEF OnTop
      <3>2. CASE n # l
        <4>1. n \in 2 .. l - 1
          BY <1>1, <3>2
        <4>2. stack'[n] = stack[n] /\ stack[n].pc = "open" /\ n \in 2 .. Len(stack)
          BY <1>1, <1>3, <4>1
        <4>3. QED
          BY <4>2 DEF IrqInv, IrqMasks, RoutinePcs
      <3>3. QED
        BY <3>1, <3>2
    <2>3. \A n \in 2 .. Len(stack') :
             /\ stack'[n].pc = "open" => stack'[n].old = Admitted(n)'
             /\ stack'[n].pc \in RoutinePcs => stack'[n].id \in Admitted(n)'
             /\ stack'[n].pc = "scan" =>
                  stack'[n].pending \subseteq ienable' /\ stack'[n].pending # {}
      BY <1>1, <1>5, <2>2
    <2>4. QED
      BY <2>1, <2>3 DEF IrqMasks
  <1>10. Irqs!Serving' \subseteq 2 .. l
    <2>1. DOMAIN stack' = 1 .. l
      BY <1>1 DEF OnTop
    <2>2. QED
      BY <1>1, <2>1 DEF Irqs!Serving
  <1>11. \A n \in Irqs!Serving' : n = l \/ (n \in 2 .. l - 1 /\ n \in Irqs!Serving
                                             /\ stack'[n] = stack[n])
    <2>1. DOMAIN stack = 1 .. Len(stack)
      BY DEF IrqInv, IrqTypes
    <2>2. QED
      BY <1>1, <1>3, <1>10, <2>1 DEF Irqs!Serving
  <1>12. l \in Irqs!Serving' => stack'[l].pc \in RoutinePcs
    BY DEF Irqs!Serving, RoutinePcs
  <1>13. IrqNest'
    <2>1. ASSUME NEW m \in Irqs!Serving', NEW n \in Irqs!Serving', m < n
          PROVE  stack'[n].id < stack'[m].id
      <3>1. m \in 2 .. l - 1 /\ m \in Irqs!Serving /\ stack'[m] = stack[m]
        BY <1>1, <1>10, <1>11, <2>1
      <3>2. CASE n = l
        <4>1. stack'[l].id \in Admitted(l)
          BY <1>12, <3>2 DEF OnTop
        <4>2. l # 2 /\ l - 1 \in 2 .. l - 1
          BY <1>1, <3>1
        <4>3. stack'[l].id \in 0 .. stack[l - 1].id - 1 /\ stack[l - 1].id \in Irqs!Irq
              /\ stack[m].id \in Irqs!Irq
          BY <1>4, <3>1, <4>1, <4>2 DEF Admitted
        <4>4. stack[l - 1].id <= stack[m].id
          <5>1. CASE m = l - 1
            BY <4>3, <5>1, IrqAssumption DEF Irqs!Irq
          <5>2. CASE m # l - 1
            <6>1. l - 1 \in Irqs!Serving /\ m < l - 1
              <7>1. DOMAIN stack = 1 .. Len(stack)
                BY DEF IrqInv, IrqTypes
              <7>2. QED
                BY <1>3, <3>1, <4>2, <5>2, <7>1 DEF Irqs!Serving
            <6>2. stack[l - 1].id < stack[m].id
              BY <3>1, <6>1 DEF IrqInv, IrqNest
            <6>3. QED
              BY <4>3, <6>2, IrqAssumption DEF Irqs!Irq
          <5>3. QED
            BY <5>1, <5>2
        <4>5. QED
          BY <3>1, <3>2, <4>3, <4>4, IrqAssumption DEF Irqs!Irq
      <3>3. CASE n # l
        BY <1>11, <2>1, <3>1, <3>3 DEF IrqInv, IrqNest
      <3>4. QED
        BY <3>2, <3>3
    <2>2. QED
      BY <2>1 DEF IrqNest
  <1>14. IrqTable'
    BY <1>1 DEF IrqInv, IrqTable
  <1>15. Irqs!HandlerMatches'
    BY <1>11, <1>12 DEF IrqInv, Irqs!HandlerMatches, OnTop
  <1>16. QED
    BY <1>7, <1>8, <1>9, <1>13, <1>14, <1>15 DEF IrqInv

\* What the invariant says of the frame on top when it belongs to an interrupt.
LEMMA TopInterrupt ==
  ASSUME IrqInv, stack[Len(stack)].pc \in {"scan"} \cup RoutinePcs
  PROVE  /\ Len(stack) \in Nat /\ Len(stack) >= 2
         /\ stack[Len(stack)] \in Frames
         /\ Below(Len(stack)) /\ Len(stack) \in 2 .. Len(stack)
         /\ (irq_pie <=> stack[Len(stack)].pc = "open")
         /\ ienable = active \cap priorities
         /\ priorities = IF stack[Len(stack)].pc = "open" THEN 0 .. stack[Len(stack)].id - 1
                         ELSE Admitted(Len(stack))
  <1>1. Len(stack) \in Nat /\ Len(stack) >= 1 /\ (\A n \in 1 .. Len(stack) : stack[n] \in Frames)
    BY DEF IrqInv, IrqTypes
  <1>2. Len(stack) # 1
    BY DEF IrqInv, IrqShape, RoutinePcs, Critical
  <1>3. Len(stack) >= 2 /\ stack[Len(stack)] \in Frames /\ Len(stack) \in 2 .. Len(stack)
    BY <1>1, <1>2
  <1>4. Below(Len(stack))
    BY <1>1, <1>3 DEF Below, IrqInv, IrqShape
  <1>5. irq_pie <=> stack[Len(stack)].pc = "open"
    BY DEF IrqInv, IrqShape, RoutinePcs
  <1>6. QED
    BY <1>1, <1>2, <1>3, <1>4, <1>5 DEF IrqInv, IrqMasks

\* An interrupt is taken: what is pending was let in.
LEMMA TakeInterruptKeeps == IrqInv /\ Irqs!TakeInterrupt => IrqInv'
  <1> SUFFICES ASSUME IrqInv, Irqs!TakeInterrupt PROVE IrqInv'
    OBVIOUS
  <1> DEFINE f == [pc |-> "scan", pending |-> Irqs!ipending]
             l == Len(stack) + 1
  <1>1. Len(stack) \in Nat /\ Len(stack) >= 1 /\ stack \in Seq(Frames)
    BY DEF IrqInv, IrqTypes
  <1>2. Len(stack) \in Nat /\ Len(stack) >= 1
    BY <1>1
  <1>3. Len(stack) = 1 \/ Len(stack) >= 2
    BY <1>2, FirstNumbers, Zenon
  <1>4. /\ irq_pie /\ Irqs!ipending # {} /\ irq_pie' = FALSE /\ stack' = Append(stack, f)
        /\ table' = table /\ active' = active /\ priorities' = priorities
        /\ ienable' = ienable
    BY DEF Irqs!TakeInterrupt
  <1>5. Irqs!ipending \subseteq ienable /\ ienable = active \cap priorities
        /\ ienable \subseteq Irqs!Irq
    BY DEF Irqs!ipending, IrqInv, IrqMasks, IrqTypes
  <1>6. f \in Frames /\ f.pc = "scan" /\ f.pending \subseteq ienable /\ f.pending # {}
    BY <1>4, <1>5 DEF Frames
  <1>7. stack[Len(stack)].pc \in {"run", "disable", "open"}
    BY <1>4 DEF IrqInv, IrqShape
  <1> HIDE DEF f
  <1>8. /\ stack' \in Seq(Frames) /\ Len(stack') = l /\ stack'[l] = f
        /\ \A n \in 1 .. l - 1 : stack'[n] = stack[n]
    BY <1>1, <1>4, <1>6
  <1>9. Below(l)
    <2>1. stack[1].pc \in {"run", "disable"}
      <3>1. CASE Len(stack) = 1
        BY <1>7, <3>1 DEF IrqInv, IrqShape, Critical
      <3>2. CASE Len(stack) >= 2
        BY <3>2 DEF IrqInv, IrqShape
      <3>3. QED
        BY <1>3, <3>1, <3>2
    <2>2. \A n \in 2 .. l - 1 : stack[n].pc = "open"
      <3>1. ASSUME NEW n \in 2 .. l - 1 PROVE stack[n].pc = "open"
        <4>1. n \in 2 .. Len(stack) /\ stack[n].pc \in {"scan"} \cup RoutinePcs
          BY <1>1 DEF IrqInv, IrqShape
        <4>2. CASE n = Len(stack)
          BY <1>7, <4>1, <4>2 DEF RoutinePcs
        <4>3. CASE n # Len(stack)
          BY <1>1, <4>1, <4>3 DEF IrqInv, IrqShape
        <4>4. QED
          BY <4>2, <4>3
      <3>2. QED
        BY <3>1
    <2>3. QED
      BY <1>1, <2>1, <2>2 DEF Below
  <1>10. priorities = Admitted(l)
    <2>1. CASE Len(stack) = 1
      BY <2>1 DEF IrqInv, IrqMasks, Admitted
    <2>2. CASE Len(stack) >= 2
      <3>1. Len(stack) \in 2 .. l - 1
        BY <1>1, <2>2
      <3>2. stack[Len(stack)].pc = "open"
        BY <1>9, <3>1 DEF Below
      <3>3. l # 2 /\ l - 1 = Len(stack)
        BY <1>1, <2>2
      <3>4. Admitted(l) = 0 .. stack[Len(stack)].id - 1
        BY <3>3 DEF Admitted
      <3>5. QED
        BY <2>2, <3>2, <3>4 DEF IrqInv, IrqMasks
    <2>3. QED
      BY <1>3, <2>1, <2>2
  <1>11. OnTop(l)
    BY <1>4, <1>6, <1>8 DEF OnTop, RoutinePcs
  <1> HIDE DEF l
  <1>12. irq_pie' \in BOOLEAN
    BY <1>4
  <1>13. ~irq_pie'
    BY <1>4
  <1>14. stack'[l].pc # "open"
    BY <1>6, <1>8
  <1>15. ienable' = active \cap priorities'
    BY <1>4, <1>5
  <1>16. priorities' = IF stack'[l].pc = "open" THEN 0 .. stack'[l].id - 1 ELSE Admitted(l)
    BY <1>4, <1>10, <1>14
  <1>17. irq_pie' <=> stack'[l].pc = "open"
    BY <1>13, <1>14, Zenon
  <1>18. QED
    BY <1>4, <1>9, <1>11, <1>12, <1>15, <1>16, <1>17, InterruptStep

\* The dispatcher picks the lowest line, which has its handler and context.
LEMMA DispatchKeeps == IrqInv /\ Irqs!Dispatch => IrqInv'
  <1> SUFFICES ASSUME IrqInv, Irqs!Dispatch PROVE IrqInv'
    OBVIOUS
  <1> DEFINE l == Len(stack)
             i == Irqs!Lowest(stack[l].pending)
             f == [pc |-> "serve", id |-> i, handler |-> table[i].handler,
                   context |-> table[i].context]
  <1>1. /\ stack[l].pc = "scan" /\ Irqs!Becomes(f)
        /\ table' = table /\ active' = active /\ priorities' = priorities
        /\ ienable' = ienable /\ irq_pie' = irq_pie
    BY DEF Irqs!Dispatch, Irqs!Top
  <1>2. /\ l \in Nat /\ l >= 2 /\ stack[l] \in Frames /\ Below(l) /\ l \in 2 .. Len(stack)
        /\ ~irq_pie /\ ienable = active \cap priorities /\ priorities = Admitted(l)
    BY <1>1, TopInterrupt
  <1>3. stack[l].pending \in SUBSET Irqs!Irq /\ stack[l].pending # {}
        /\ stack[l].pending \subseteq ienable
    BY <1>1, <1>2, FrameFields DEF IrqInv, IrqMasks
  <1>4. i \in stack[l].pending
    BY <1>3, LowestIsIn
  <1>5. i \in Irqs!Irq /\ i \in active /\ i \in Admitted(l)
    BY <1>2, <1>3, <1>4
  <1>6. stack[1].pc \notin {"context", "enable"}
    BY <1>2 DEF Below
  <1>7. table[i].handler # NULL /\ table[i].context = ContextOf[table[i].handler]
    BY <1>5, <1>6 DEF IrqInv, IrqTable
  <1>8. table[i].handler \in Routines /\ table[i].context \in Routines
    BY <1>5 DEF IrqInv, IrqTypes
  <1>9. f \in Frames /\ f.pc = "serve" /\ f.id = i /\ f.handler = table[i].handler
        /\ f.context = table[i].context
    BY <1>5, <1>8 DEF Frames
  <1> HIDE DEF f, i
  <1>10. /\ stack' \in Seq(Frames) /\ Len(stack') = l /\ stack'[l] = f
         /\ \A n \in 1 .. l : n # l => stack'[n] = stack[n]
    BY <1>1, <1>9, BecomesFrame DEF IrqInv
  <1> HIDE DEF l
  <1>11. \A n \in 1 .. l - 1 : stack'[n] = stack[n]
    BY <1>2, <1>10
  <1>12. OnTop(l)
    BY <1>5, <1>7, <1>9, <1>10, <1>11 DEF OnTop, RoutinePcs
  <1>13. irq_pie' \in BOOLEAN
    BY <1>1 DEF IrqInv, IrqTypes
  <1>14. stack'[l].pc # "open"
    BY <1>9, <1>10
  <1>15. ienable' = active \cap priorities'
    BY <1>1, <1>2
  <1>16. priorities' = IF stack'[l].pc = "open" THEN 0 .. stack'[l].id - 1 ELSE Admitted(l)
    BY <1>1, <1>2, <1>14
  <1>17. irq_pie' <=> stack'[l].pc = "open"
    BY <1>1, <1>2, <1>14, Zenon
  <1>18. QED
    BY <1>1, <1>2, <1>12, <1>13, <1>15, <1>16, <1>17, InterruptStep

\* A routine lets higher priorities in.
LEMMA InterruptibleKeeps == IrqInv /\ Irqs!alt_irq_interruptible => IrqInv'
  <1> SUFFICES ASSUME IrqInv, Irqs!alt_irq_interruptible PROVE IrqInv'
    OBVIOUS
  <1> DEFINE l == Len(stack)
             t == stack[l]
             f == [pc |-> "open", id |-> t.id, handler |-> t.handler,
                   context |-> t.context, old |-> priorities]
  <1>1. /\ t.pc = "serve" /\ Irqs!Becomes(f)
        /\ table' = table /\ active' = active /\ priorities' = 0 .. t.id - 1
        /\ ienable' = active \cap priorities' /\ irq_pie' = TRUE
    BY DEF Irqs!alt_irq_interruptible, Irqs!Top
  <1>2. /\ l \in Nat /\ l >= 2 /\ t \in Frames /\ Below(l) /\ l \in 2 .. Len(stack)
        /\ priorities = Admitted(l)
    BY <1>1, TopInterrupt DEF RoutinePcs
  <1>3. /\ t.id \in Irqs!Irq /\ t.handler \in Routines /\ t.context \in Routines
        /\ priorities \in SUBSET Irqs!Irq
    BY <1>1, <1>2, FrameFields DEF RoutinePcs, IrqInv, IrqTypes
  <1>4. t.id \in Admitted(l)
    BY <1>1, <1>2 DEF IrqInv, IrqMasks, RoutinePcs
  <1>5. t.handler # NULL /\ t.context = ContextOf[t.handler]
    <2>1. l \in Irqs!Serving
      BY <1>1, <1>2 DEF Irqs!Serving, IrqInv, IrqTypes
    <2>2. QED
      BY <2>1 DEF IrqInv, Irqs!HandlerMatches
  <1>6. /\ f \in Frames /\ f.pc = "open" /\ f.id = t.id /\ f.handler = t.handler
        /\ f.context = t.context /\ f.old = priorities
    BY <1>3 DEF Frames
  <1> HIDE DEF f
  <1>7. /\ stack' \in Seq(Frames) /\ Len(stack') = l /\ stack'[l] = f
        /\ \A n \in 1 .. l : n # l => stack'[n] = stack[n]
    BY <1>1, <1>6, BecomesFrame DEF IrqInv
  <1> HIDE DEF l, t
  <1>8. \A n \in 1 .. l - 1 : stack'[n] = stack[n]
    BY <1>2, <1>7
  <1>9. OnTop(l)
    BY <1>2, <1>4, <1>5, <1>6, <1>7, <1>8 DEF OnTop, RoutinePcs
  <1>10. irq_pie' \in BOOLEAN
    BY <1>1
  <1>11. stack'[l].pc = "open"
    BY <1>6, <1>7
  <1>12. ienable' = active \cap priorities'
    BY <1>1
  <1>13. priorities' = IF stack'[l].pc = "open" THEN 0 .. stack'[l].id - 1 ELSE Admitted(l)
    BY <1>1, <1>6, <1>7
  <1>14. irq_pie' <=> stack'[l].pc = "open"
    BY <1>1, <1>11, Zenon
  <1>15. QED
    BY <1>1, <1>2, <1>9, <1>10, <1>12, <1>13, <1>14, InterruptStep

\* It shuts them out again, and restores the mask it found.
LEMMA NonInterruptibleKeeps == IrqInv /\ Irqs!alt_irq_non_interruptible => IrqInv'
  <1> SUFFICES ASSUME IrqInv, Irqs!alt_irq_non_interruptible PROVE IrqInv'
    OBVIOUS
  <1> DEFINE l == Len(stack)
             t == stack[l]
             f == [pc |-> "clear", id |-> t.id, handler |-> t.handler, context |-> t.context]
  <1>1. /\ t.pc = "open" /\ Irqs!Becomes(f)
        /\ table' = table /\ active' = active /\ priorities' = t.old
        /\ ienable' = t.old \cap active /\ irq_pie' = FALSE
    BY DEF Irqs!alt_irq_non_interruptible, Irqs!Top
  <1>2. l \in Nat /\ l >= 2 /\ t \in Frames /\ Below(l) /\ l \in 2 .. Len(stack)
    BY <1>1, TopInterrupt DEF RoutinePcs
  <1>3. t.id \in Irqs!Irq /\ t.handler \in Routines /\ t.context \in Routines
    BY <1>1, <1>2, FrameFields DEF RoutinePcs
  <1>4. t.id \in Admitted(l) /\ t.old = Admitted(l)
    BY <1>1, <1>2 DEF IrqInv, IrqMasks, RoutinePcs
  <1>5. t.handler # NULL /\ t.context = ContextOf[t.handler]
    <2>1. l \in Irqs!Serving
      BY <1>1, <1>2 DEF Irqs!Serving, IrqInv, IrqTypes
    <2>2. QED
      BY <2>1 DEF IrqInv, Irqs!HandlerMatches
  <1>6. /\ f \in Frames /\ f.pc = "clear" /\ f.id = t.id /\ f.handler = t.handler
        /\ f.context = t.context
    BY <1>3 DEF Frames
  <1> HIDE DEF f
  <1>7. /\ stack' \in Seq(Frames) /\ Len(stack') = l /\ stack'[l] = f
        /\ \A n \in 1 .. l : n # l => stack'[n] = stack[n]
    BY <1>1, <1>6, BecomesFrame DEF IrqInv
  <1> HIDE DEF l, t
  <1>8. \A n \in 1 .. l - 1 : stack'[n] = stack[n]
    BY <1>2, <1>7
  <1>9. OnTop(l)
    BY <1>2, <1>4, <1>5, <1>6, <1>7, <1>8 DEF OnTop, RoutinePcs
  <1>10. irq_pie' \in BOOLEAN
    BY <1>1
  <1>11. stack'[l].pc # "open"
    BY <1>6, <1>7
  <1>12. ienable' = active \cap priorities'
    BY <1>1
  <1>13. priorities' = IF stack'[l].pc = "open" THEN 0 .. stack'[l].id - 1 ELSE Admitted(l)
    BY <1>1, <1>4, <1>11
  <1>14. irq_pie' <=> stack'[l].pc = "open"
    BY <1>1, <1>11, Zenon
  <1>15. QED
    BY <1>1, <1>2, <1>9, <1>10, <1>12, <1>13, <1>14, InterruptStep

\* What is left of the stack when an interrupt returns.
LEMMA FrontOfStack ==
  ASSUME stack \in Seq(Frames), Len(stack) >= 2, stack' = Irqs!Front(stack)
  PROVE  /\ stack' \in Seq(Frames) /\ Len(stack') = Len(stack) - 1
         /\ \A n \in 1 .. Len(stack) - 1 : stack'[n] = stack[n]
  BY DEF Irqs!Front

\* A routine returns to the dispatcher, and that, when nothing is pending, to
\* what it interrupted.
LEMMA ServeKeeps == IrqInv /\ Irqs!Serve => IrqInv'
  <1> SUFFICES ASSUME IrqInv, Irqs!Serve PROVE IrqInv'
    OBVIOUS
  <1> DEFINE l == Len(stack)
             again == lines' \cap ienable
             f == [pc |-> "scan", pending |-> again]
  <1>1. /\ stack[l].pc \in {"serve", "clear"}
        /\ table' = table /\ active' = active /\ priorities' = priorities
        /\ ienable' = ienable
    BY DEF Irqs!Serve, Irqs!Top
  <1>2. /\ l \in Nat /\ l >= 2 /\ Below(l) /\ stack \in Seq(Frames)
        /\ ~irq_pie /\ ienable = active \cap priorities /\ priorities = Admitted(l)
    BY <1>1, TopInterrupt DEF RoutinePcs, IrqInv, IrqTypes
  <1>3. l \in Nat /\ l >= 2
    BY <1>2
  <1>4. l = 2 \/ (l >= 3 /\ l # 2)
    BY <1>3, FirstNumbers, Zenon
  <1>5. CASE again # {} /\ Irqs!Becomes(f) /\ irq_pie' = irq_pie
    <2>1. again \subseteq Irqs!Irq /\ again \subseteq ienable'
      BY <1>1, <1>2 DEF IrqInv, IrqTypes
    <2>2. f \in Frames /\ f.pc = "scan" /\ f.pending = again
      BY <2>1 DEF Frames
    <2> HIDE DEF f, again
    <2>3. /\ stack' \in Seq(Frames) /\ Len(stack') = l /\ stack'[l] = f
          /\ \A n \in 1 .. l : n # l => stack'[n] = stack[n]
      BY <1>5, <2>2, BecomesFrame DEF IrqInv
    <2> HIDE DEF l
    <2>4. \A n \in 1 .. l - 1 : stack'[n] = stack[n]
      BY <1>2, <2>3
    <2>5. OnTop(l)
      BY <1>5, <2>1, <2>2, <2>3, <2>4 DEF OnTop, RoutinePcs
    <2>6. irq_pie' \in BOOLEAN
      BY <1>5 DEF IrqInv, IrqTypes
    <2>7. stack'[l].pc # "open"
      BY <2>2, <2>3
    <2>8. ienable' = active \cap priorities'
      BY <1>1, <1>2
    <2>9. priorities' = IF stack'[l].pc = "open" THEN 0 .. stack'[l].id - 1 ELSE Admitted(l)
      BY <1>1, <1>2, <2>7
    <2>10. irq_pie' <=> stack'[l].pc = "open"
      BY <1>2, <1>5, <2>7, Zenon
    <2>11. QED
      BY <1>1, <1>2, <2>5, <2>6, <2>8, <2>9, <2>10, InterruptStep
  <1>6. CASE stack' = Irqs!Front(stack) /\ irq_pie' = TRUE
    <2>1. /\ stack' \in Seq(Frames) /\ Len(stack') = l - 1
          /\ \A n \in 1 .. l - 1 : stack'[n] = stack[n]
      BY <1>2, <1>6, FrontOfStack
    <2> HIDE DEF f, again
    <2>2. CASE l = 2
      <3>1. Len(stack') = 1 /\ stack'[1] = stack[1] /\ stack'[1].pc \in {"run", "disable"}
        BY <1>2, <2>1, <2>2 DEF Below
      <3>2. priorities' = Irqs!Irq /\ ienable' = active'
        BY <1>1, <1>2, <2>2 DEF Admitted, IrqInv, IrqTypes
      <3>3. IrqTypes'
        <4>1. irq_pie' \in BOOLEAN
          BY <1>6
        <4>2. Len(stack') >= 1
          BY <3>1
        <4>3. QED
          BY <1>1, <2>1, <4>1, <4>2, Zenon DEF IrqInv, IrqTypes
      <3>4. IrqTable'
        BY <1>1, <3>1 DEF IrqInv, IrqTable
      <3>5. irq_pie' <=> stack'[1].pc \in {"run", "disable"}
        BY <1>6, <3>1, Zenon
      <3>6. stack'[1].pc \notin Critical
        BY <3>1 DEF Critical
      <3>7. QED
        BY <3>1, <3>2, <3>3, <3>4, <3>5, <3>6, ProgramStep
    <2>3. CASE l >= 3 /\ l # 2
      <3> DEFINE k == l - 1
      <3>1. /\ k \in Nat /\ k >= 2 /\ k \in 2 .. l - 1 /\ k \in 1 .. l - 1 /\ k \in 2 .. Len(stack)
            /\ k \in 1 .. Len(stack)
        BY <1>3, <2>3
      <3>2. stack[k].pc = "open" /\ stack'[k] = stack[k]
        BY <1>2, <2>1, <3>1 DEF Below
      <3>3. Below(k)
        BY <1>2, <3>1 DEF Below
      <3>4. priorities = 0 .. stack[k].id - 1
        BY <1>2, <2>3 DEF Admitted
      <3>5. stack[k].old = Admitted(k) /\ stack[k].id \in Admitted(k)
        BY <3>1, <3>2 DEF IrqInv, IrqMasks, RoutinePcs
      <3>6. stack[k].handler # NULL /\ stack[k].context = ContextOf[stack[k].handler]
        <4>1. k \in Irqs!Serving
          BY <1>2, <3>1, <3>2 DEF Irqs!Serving
        <4>2. QED
          BY <4>1 DEF IrqInv, Irqs!HandlerMatches
      <3>7. \A n \in 1 .. k - 1 : stack'[n] = stack[n]
        BY <1>2, <2>1
      <3>8. Len(stack') = k
        BY <2>1
      <3> HIDE DEF k, l
      <3>9. OnTop(k)
        BY <2>1, <3>2, <3>5, <3>6, <3>7, <3>8 DEF OnTop, RoutinePcs
      <3>10. irq_pie' \in BOOLEAN
        BY <1>6
      <3>11. ienable' = active \cap priorities'
        BY <1>1, <1>2
      <3>12. priorities' = IF stack'[k].pc = "open" THEN 0 .. stack'[k].id - 1 ELSE Admitted(k)
        BY <1>1, <3>2, <3>4
      <3>13. irq_pie' <=> stack'[k].pc = "open"
        BY <1>6, <3>2, Zenon
      <3>14. QED
        BY <1>1, <3>3, <3>9, <3>10, <3>11, <3>12, <3>13, InterruptStep
    <2>4. QED
      BY <1>4, <2>2, <2>3
  <1>7. QED
    BY <1>5, <1>6 DEF Irqs!Serve

\* Steps that change neither the stack nor the registers.
LEMMA QuietKeeps ==
  ASSUME IrqInv,
         UNCHANGED <<table, active, priorities, ienable, irq_pie, stack>>
  PROVE  IrqInv'
  BY Zenon DEF IrqInv, IrqTypes, IrqShape, IrqMasks, IrqNest, IrqTable, Admitted,
               Irqs!HandlerMatches, Irqs!Serving

\* The invariant holds at first.
LEMMA IrqFirst == Irqs!Init => IrqInv
  <1> SUFFICES ASSUME Irqs!Init PROVE IrqInv
    OBVIOUS
  <1>1. /\ table = [i \in Irqs!Irq |-> [handler |-> NULL, context |-> NULL]]
        /\ active = {} /\ priorities = Irqs!Irq /\ ienable = {} /\ irq_pie = TRUE
        /\ stack = <<Irqs!Program>>
    BY DEF Irqs!Init, Irqs!altera_nios2_qsys_irq_init
  <1>2. Irqs!Program \in Frames /\ Irqs!Program.pc = "run"
    BY DEF Irqs!Program, Frames
  <1>3. stack \in Seq(Frames) /\ Len(stack) = 1 /\ stack[1].pc = "run"
    BY <1>1, <1>2
  <1>4. IrqTypes
    <2>1. irq_pie \in BOOLEAN
      BY <1>1
    <2>2. table \in [Irqs!Irq -> [handler : Routines, context : Routines]]
      BY <1>1 DEF Routines
    <2>3. Len(stack) >= 1
      BY <1>3
    <2>4. QED
      BY <1>1, <1>3, <2>1, <2>2, <2>3, Zenon DEF IrqTypes
  <1>5. IrqShape
    <2>1. irq_pie <=> stack[Len(stack)].pc \in {"run", "disable", "open"}
      BY <1>1, <1>3, Zenon
    <2>2. 2 .. Len(stack) = {} /\ ~(Len(stack) >= 2)
      BY <1>3
    <2>3. QED
      BY <1>3, <2>1, <2>2 DEF IrqShape, Critical
  <1>6. IrqMasks
    BY <1>1, <1>3 DEF IrqMasks
  <1>7. Irqs!Serving = {}
    BY <1>3 DEF Irqs!Serving
  <1>8. IrqTable
    BY <1>1, <1>3 DEF IrqTable
  <1>9. QED
    BY <1>4, <1>5, <1>6, <1>7, <1>8 DEF IrqInv, IrqNest, Irqs!HandlerMatches

\* Every step of the interrupts keeps the invariant.
LEMMA IrqKeeps == IrqInv /\ Irqs!Next => IrqInv'
  <1> SUFFICES ASSUME IrqInv, Irqs!Next PROVE IrqInv'
    OBVIOUS
  <1>1. CASE Irqs!Request \/ Irqs!alt_instruction_exception_register \/ Irqs!Broken
    BY <1>1, QuietKeeps DEF Irqs!Request, Irqs!alt_instruction_exception_register,
                            Irqs!Broken, Irqs!irqVars
  <1>2. QED
    BY <1>1, TakeInterruptKeeps, DispatchKeeps, ServeKeeps, CallRegisterKeeps,
       RegisterDisableKeeps, RegisterHandlerKeeps, RegisterContextKeeps,
       RegisterEnableKeeps, RegisterDoneKeeps, LinesKeep, InterruptibleKeeps,
       NonInterruptibleKeeps, ExceptionKeeps DEF Irqs!Next

\* The invariant holds in every state of the services that exercises interrupts.
LEMMA IrqAlways == MCSpec => [](which = "irq" => IrqInv)
  <1> DEFINE P == which = "irq" => IrqInv
  <1>1. MCInit => P
    BY IrqFirst DEF MCInit
  <1>2. P /\ [MCNext]_vars => P'
    <2> SUFFICES ASSUME P, [MCNext]_vars, which' = "irq" PROVE IrqInv'
      OBVIOUS
    <2>1. CASE which = "irq" /\ Irqs!Next
      BY <2>1, IrqKeeps
    <2>2. CASE which' = which /\ UNCHANGED irqVars
      BY <2>2, QuietKeeps DEF irqVars
    <2>3. QED
      BY <2>1, <2>2 DEF MCNext, vars
  <1>3. QED
    BY <1>1, <1>2, PTL DEF MCSpec

\* No interrupt is dispatched to a line without a routine, or with the context of
\* another, whatever registration alt_irq_register is in the middle of.
THEOREM IrqHandlersMatch == MCSpec => []IrqHandlerMatches
  <1>1. (which = "irq" => IrqInv) => IrqHandlerMatches
    BY DEF IrqInv, IrqHandlerMatches
  <1>2. QED
    BY <1>1, IrqAlways, PTL

\* Interrupts nest by priority, and the enabled lines are the registered ones
\* again when the last has returned.
THEOREM IrqNestingIsKept == MCSpec => []IrqNestingKept
  <1>1. (which = "irq" => IrqInv) => IrqNestingKept
    BY DEF IrqInv, IrqNest, IrqMasks, IrqTypes, IrqNestingKept, Irqs!NestingKept,
           Irqs!alt_ic_irq_enabled
  <1>2. QED
    BY <1>1, IrqAlways, PTL

-----------------------------------------------------------------------------
(* Alarms: the inductive invariant                                         *)

Closed == {"arm", "entry", "insert", "unlink", "self", "enable"}

Threads ==
  [pc : {"idle"}]
  \cup [pc : {"disable"}, op : {"start"}, alarm : Alarms, nticks : Delays]
  \cup [pc : {"disable"}, op : {"stop"}, alarm : Alarms]
  \cup [pc : {"arm", "entry", "insert"}, op : {"start"}, alarm : Alarms, saved : {TRUE},
        nticks : Delays]
  \cup [pc : {"unlink", "self"}, op : {"stop"}, alarm : Alarms, saved : {TRUE}, nticks : {0}]
  \cup [pc : {"enable"}, op : {"start", "stop"}, alarm : Alarms, saved : {TRUE},
        nticks : Delays \cup {0}]

Ticks ==
  [pc : {"idle"}] \cup [pc : {"walk"}, alarm : Nodes]
  \cup [pc : {"callback"}, alarm : Alarms, next : Nodes]

Links == [next : Nodes \cup {"NULL"}, previous : Nodes \cup {"NULL"}]

LinksOfStarted == [next : Nodes, previous : Nodes]
ToItself(n) == [next |-> n, previous |-> n]

AlarmTypes ==
  /\ careful \in BOOLEAN
  /\ rate \in Nat
  /\ nticks \in 0 .. TickMod - 1
  /\ alarm \in [Alarms -> [time : 0 .. TickMod - 1, rollover : BOOLEAN]]
  /\ link \in [Nodes -> Links]
  /\ pie \in BOOLEAN
  /\ thread \in Threads
  /\ isr \in Ticks
  /\ wait \in [Alarms -> Int]

\* l chains the entries R into one ring through the head, in both directions.
RingOn(l, R) ==
  /\ R \subseteq Nodes /\ ListHead \in R
  /\ \A n \in R : /\ l[n].next \in R /\ l[n].previous \in R
                  /\ l[l[n].next].previous = n /\ l[l[n].previous].next = n
  /\ \A S \in SUBSET R : ListHead \in S /\ (\A n \in S : l[n].next \in S) => S = R

\* The alarm whose links the program is changing.
Half == IF thread.pc \in {"insert", "self"} THEN {thread.alarm} ELSE {}
Members == {n \in Nodes : n = ListHead \/ Linked(n)} \ Half

Started(n) == link[n].next # "NULL"

\* The clock interrupts neither a change of the list nor itself; every alarm
\* that is not in the ring was never started, or points to itself.
AlarmLists ==
  /\ pie <=> isr.pc = "idle" /\ thread.pc \in {"idle", "disable"}
  /\ thread.pc \in Closed => isr.pc = "idle"
  /\ RingOn(link, Members)
  /\ \A n \in Nodes : \/ n \in Members \/ n \in Half
                      \/ link[n] = [next |-> "NULL", previous |-> "NULL"]
                      \/ link[n] = ToItself(n)
  /\ thread.pc \in {"disable", "arm", "entry"} /\ thread.op = "start" => ~Linked(thread.alarm)
  /\ thread.pc \in {"disable", "unlink"} /\ thread.op = "stop" => Started(thread.alarm)
  /\ thread.pc = "insert" =>
       link[thread.alarm] = [next |-> link[ListHead].next, previous |-> ListHead]
  /\ thread.pc = "self" => link[thread.alarm] \in LinksOfStarted
  /\ isr.pc \in {"walk", "callback"} => Started(isr.alarm)
  /\ isr.pc = "callback" => Started(isr.next)

\* What alt_tick reads of an alarm, and what it takes the rollover flag to be
\* before and after it has come by.
Good(b) == wait[b] \in 0 .. TickMod - 1 /\ alarm[b].time = (nticks + wait[b]) % TickMod
Wraps(b) == nticks + wait[b] >= TickMod
Due(b) == Good(b) /\ wait[b] > 0 /\ (alarm[b].rollover <=> Wraps(b))

\* The walk will come to b before it comes to the head: it is in every set that
\* holds the rest of the walk from n.
InRest(n, b) ==
  \A T \in SUBSET Nodes :
    n \in T /\ (\A m \in T : m # ListHead => link[m].next \in T) => b \in T
ToCome(n, b) == InRest(n, b) /\ Good(b) /\ (alarm[b].rollover /\ nticks # 0 <=> Wraps(b))

AlarmTimes ==
  /\ isr.pc = "idle" => \A b \in Alarms : Linked(b) => Due(b)
  /\ thread.pc = "entry" => Due(thread.alarm)
  /\ isr.pc = "walk" =>
       /\ isr.alarm \in Members
       /\ \A b \in Alarms : Linked(b) => Due(b) \/ ToCome(isr.alarm, b)
  /\ isr.pc = "callback" =>
       /\ isr.next \in Members /\ isr.next = link[isr.alarm].next
       /\ Linked(isr.alarm) /\ wait[isr.alarm] = 0
       /\ alarm[isr.alarm] = [time |-> nticks, rollover |-> FALSE]
       /\ \A b \in Alarms : Linked(b) /\ b # isr.alarm => Due(b) \/ ToCome(isr.next, b)

AlarmInv == AlarmTypes /\ AlarmLists /\ (careful => AlarmTimes)

-----------------------------------------------------------------------------
(* Alarms: rings                                                           *)

\* What is between an entry and the head's successor after an insertion.
LEMMA InsertedLinks ==
  ASSUME NEW l \in [Nodes -> Links], NEW b \in Alarms, l[ListHead].next \in Nodes
  PROVE  LET k == InsertList(l, ListHead, b) IN
         /\ k \in [Nodes -> Links]
         /\ k[ListHead].next = b
         /\ k[l[ListHead].next].previous = b
         /\ \A n \in Nodes : n # ListHead => k[n].next = l[n].next
         /\ \A n \in Nodes : n # l[ListHead].next => k[n].previous = l[n].previous
  <1> DEFINE s == l[ListHead].next
             backed == [l EXCEPT ![s].previous = b]
             k == [backed EXCEPT ![ListHead].next = b]
  <1>1. ListHead \in Nodes /\ b \in Nodes /\ s \in Nodes
    BY DEF Nodes
  <1>2. /\ backed \in [Nodes -> Links]
        /\ backed[s].previous = b
        /\ \A n \in Nodes : backed[n].next = l[n].next
        /\ \A n \in Nodes : n # s => backed[n].previous = l[n].previous
    BY <1>1 DEF Links
  <1>3. k = InsertList(l, ListHead, b)
    BY DEF InsertList
  <1> HIDE DEF backed
  <1>4. /\ k \in [Nodes -> Links]
        /\ k[ListHead].next = b
        /\ \A n \in Nodes : k[n].previous = backed[n].previous
        /\ \A n \in Nodes : n # ListHead => k[n].next = backed[n].next
    BY <1>1, <1>2 DEF Links
  <1> HIDE DEF k
  <1>5. QED
    BY <1>1, <1>2, <1>3, <1>4

\* alt_llist_insert puts the alarm behind the head.
LEMMA InsertRing ==
  ASSUME NEW l \in [Nodes -> Links], NEW R, RingOn(l, R), NEW b \in Alarms, b \notin R,
         l[b] = [next |-> l[ListHead].next, previous |-> ListHead]
  PROVE  /\ InsertList(l, ListHead, b) \in [Nodes -> Links]
         /\ RingOn(InsertList(l, ListHead, b), R \cup {b})
         /\ \A n \in Nodes \ (R \cup {b}) : InsertList(l, ListHead, b)[n] = l[n]
  <1> DEFINE s == l[ListHead].next
             k == InsertList(l, ListHead, b)
             Q == R \cup {b}
  <1>1. R \subseteq Nodes /\ ListHead \in R /\ s \in R /\ b \in Nodes /\ b # ListHead
        /\ s # b /\ s \in Nodes
    BY HeadAssumption DEF RingOn, Nodes
  <1>2. /\ k \in [Nodes -> Links] /\ k[ListHead].next = b /\ k[s].previous = b
        /\ \A n \in Nodes : n # ListHead => k[n].next = l[n].next
        /\ \A n \in Nodes : n # s => k[n].previous = l[n].previous
    BY <1>1, InsertedLinks
  <1>3. k[b].next = s /\ k[b].previous = ListHead
    BY <1>1, <1>2
  <1>4. \A n \in R : /\ l[n].next \in R /\ l[n].previous \in R
                     /\ l[l[n].next].previous = n /\ l[l[n].previous].next = n
    BY DEF RingOn
  <1>5. \A S \in SUBSET R : ListHead \in S /\ (\A n \in S : l[n].next \in S) => S = R
    BY DEF RingOn
  <1> HIDE DEF k, s
  <1>6. \A n \in R : n # ListHead => l[n].next # s
    BY <1>1, <1>4 DEF s
  <1>7. \A n \in R : n # s => l[n].previous # ListHead
    BY <1>1, <1>4 DEF s
  <1>8. ASSUME NEW n \in Q
        PROVE  /\ k[n].next \in Q /\ k[n].previous \in Q
               /\ k[k[n].next].previous = n /\ k[k[n].previous].next = n
    <2>1. k[n].next \in Q /\ k[k[n].next].previous = n
      <3>1. CASE n = ListHead
        BY <1>1, <1>2, <1>3, <3>1
      <3>2. CASE n = b
        BY <1>1, <1>2, <1>3, <3>2
      <3>3. CASE n \in R /\ n # ListHead
        <4>1. k[n].next = l[n].next /\ l[n].next \in R /\ l[n].next # s
          BY <1>1, <1>2, <1>4, <1>6, <3>3
        <4>2. k[l[n].next].previous = n
          BY <1>1, <1>2, <1>4, <3>3, <4>1
        <4>3. QED
          BY <4>1, <4>2
      <3>4. QED
        BY <3>1, <3>2, <3>3
    <2>2. k[n].previous \in Q /\ k[k[n].previous].next = n
      <3>1. CASE n = s
        BY <1>1, <1>2, <1>3, <3>1
      <3>2. CASE n = b
        BY <1>1, <1>2, <1>3, <3>2
      <3>3. CASE n \in R /\ n # s
        <4>1. k[n].previous = l[n].previous /\ l[n].previous \in R /\ l[n].previous # ListHead
          BY <1>1, <1>2, <1>4, <1>7, <3>3
        <4>2. k[l[n].previous].next = n
          BY <1>1, <1>2, <1>4, <3>3, <4>1
        <4>3. QED
          BY <4>1, <4>2
      <3>4. QED
        BY <3>1, <3>2, <3>3
    <2>3. QED
      BY <2>1, <2>2
  <1>9. ASSUME NEW S \in SUBSET Q, ListHead \in S, \A n \in S : k[n].next \in S PROVE S = Q
    <2> DEFINE T == S \ {b}
    <2>1. b \in S /\ s \in S
      BY <1>2, <1>3, <1>9
    <2>2. T \in SUBSET R /\ ListHead \in T
      BY <1>1, <1>9
    <2>3. \A n \in T : l[n].next \in T
      <3>1. ASSUME NEW n \in T PROVE l[n].next \in T
        <4>1. CASE n = ListHead
          BY <1>1, <2>1, <4>1 DEF s
        <4>2. CASE n # ListHead
          BY <1>1, <1>2, <1>4, <1>9, <2>2, <4>2
        <4>3. QED
          BY <4>1, <4>2
      <3>2. QED
        BY <3>1
    <2>4. T = R
      BY <1>5, <2>2, <2>3
    <2>5. QED
      BY <2>1, <2>4
  <1>10. RingOn(k, Q)
    BY <1>1, <1>8, <1>9 DEF RingOn
  <1>11. ASSUME NEW n \in Nodes \ Q PROVE k[n] = l[n]
    <2>1. k[n].next = l[n].next /\ k[n].previous = l[n].previous
      BY <1>1, <1>2
    <2>2. k[n] \in Links /\ l[n] \in Links
      BY <1>2
    <2>3. QED
      BY <2>1, <2>2 DEF Links
  <1>12. QED
    BY <1>2, <1>10, <1>11 DEF k

\* The first half of alt_llist_remove joins the neighbours.
LEMMA JoinedLinks ==
  ASSUME NEW l \in [Nodes -> Links], NEW b \in Nodes,
         l[b].next \in Nodes, l[b].previous \in Nodes, l[b].next # b
  PROVE  LET k == RemoveNeighbours(l, b) IN
         /\ k \in [Nodes -> Links]
         /\ k[l[b].previous].next = l[b].next
         /\ k[l[b].next].previous = l[b].previous
         /\ \A n \in Nodes : n # l[b].previous => k[n].next = l[n].next
         /\ \A n \in Nodes : n # l[b].next => k[n].previous = l[n].previous
  <1> DEFINE s == l[b].next
             p == l[b].previous
             backed == [l EXCEPT ![s].previous = p]
             k == [backed EXCEPT ![backed[b].previous].next = backed[b].next]
  <1>1. s \in Nodes /\ p \in Nodes /\ s # b
    OBVIOUS
  <1>2. /\ backed \in [Nodes -> Links]
        /\ backed[s].previous = p
        /\ \A n \in Nodes : backed[n].next = l[n].next
        /\ \A n \in Nodes : n # s => backed[n].previous = l[n].previous
    BY <1>1 DEF Links
  <1>3. k = RemoveNeighbours(l, b)
    BY DEF RemoveNeighbours
  <1> HIDE DEF backed
  <1>4. backed[b].previous = p /\ backed[b].next = s
    BY <1>1, <1>2
  <1>5. k = [backed EXCEPT ![p].next = s]
    BY <1>4
  <1> HIDE DEF k
  <1>6. /\ k \in [Nodes -> Links]
        /\ k[p].next = s
        /\ \A n \in Nodes : k[n].previous = backed[n].previous
        /\ \A n \in Nodes : n # p => k[n].next = backed[n].next
    BY <1>1, <1>2, <1>5 DEF Links
  <1>7. QED
    BY <1>1, <1>2, <1>3, <1>6

\* k is the ring R of l without b.
Joined(l, R, b, k) ==
  /\ k \in [Nodes -> Links]
  /\ RingOn(k, R \ {b})
  /\ k[b] = l[b] /\ l[b] \in LinksOfStarted
  /\ \A n \in Nodes : n \notin R => k[n] = l[n]
  /\ \A n \in R : n # b => l[n].next = k[n].next \/ l[n].next = b

\* A ring without one of its alarms is a ring.
LEMMA RemoveRing ==
  ASSUME NEW l \in [Nodes -> Links], NEW R, RingOn(l, R), NEW b \in R, b # ListHead,
         NEW k, k = RemoveNeighbours(l, b)
  PROVE  Joined(l, R, b, k)
  <1> DEFINE s == l[b].next
             p == l[b].previous
             Q == R \ {b}
  <1>1. R \subseteq Nodes /\ ListHead \in R /\ s \in R /\ p \in R /\ s \in Nodes /\ p \in Nodes
        /\ b \in Nodes
    BY DEF RingOn
  <1>2. \A n \in R : /\ l[n].next \in R /\ l[n].previous \in R
                     /\ l[l[n].next].previous = n /\ l[l[n].previous].next = n
    BY DEF RingOn
  <1>3. \A S \in SUBSET R : ListHead \in S /\ (\A n \in S : l[n].next \in S) => S = R
    BY DEF RingOn
  <1>4. s # b /\ p # b
    <2>1. SUFFICES ASSUME s = b \/ p = b PROVE FALSE
      OBVIOUS
    <2>2. s = b /\ p = b
      BY <1>1, <1>2, <2>1
    <2>3. \A n \in Q : l[n].next \in Q
      BY <1>2, <2>2
    <2>4. Q \in SUBSET R /\ ListHead \in Q
      BY <1>1
    <2>5. Q = R
      BY <1>3, <2>3, <2>4
    <2>6. QED
      BY <2>5
  <1>5. /\ k \in [Nodes -> Links] /\ k[p].next = s /\ k[s].previous = p
        /\ \A n \in Nodes : n # p => k[n].next = l[n].next
        /\ \A n \in Nodes : n # s => k[n].previous = l[n].previous
    BY <1>1, <1>4, JoinedLinks
  <1>6. \A n \in R : n # p => l[n].next # b
    BY <1>1, <1>2
  <1>7. \A n \in R : n # s => l[n].previous # b
    BY <1>1, <1>2
  <1>8. l[p].next = b /\ l[s].previous = b
    BY <1>1, <1>2
  <1> HIDE DEF s, p
  <1>9. ASSUME NEW n \in Q
         PROVE  /\ k[n].next \in Q /\ k[n].previous \in Q
                /\ k[k[n].next].previous = n /\ k[k[n].previous].next = n
    <2>1. k[n].next \in Q /\ k[k[n].next].previous = n
      <3>1. CASE n = p
        BY <1>1, <1>4, <1>5, <3>1
      <3>2. CASE n # p
        <4>1. k[n].next = l[n].next /\ l[n].next \in Q
          BY <1>1, <1>2, <1>5, <1>6, <3>2
        <4>2. l[n].next # s
          BY <1>1, <1>2, <1>8
        <4>3. k[l[n].next].previous = n
          BY <1>1, <1>2, <1>5, <4>1, <4>2
        <4>4. QED
          BY <4>1, <4>3
      <3>3. QED
        BY <3>1, <3>2
    <2>2. k[n].previous \in Q /\ k[k[n].previous].next = n
      <3>1. CASE n = s
        BY <1>1, <1>4, <1>5, <3>1
      <3>2. CASE n # s
        <4>1. k[n].previous = l[n].previous /\ l[n].previous \in Q
          BY <1>1, <1>2, <1>5, <1>7, <3>2
        <4>2. l[n].previous # p
          BY <1>1, <1>2, <1>8
        <4>3. k[l[n].previous].next = n
          BY <1>1, <1>2, <1>5, <4>1, <4>2
        <4>4. QED
          BY <4>1, <4>3
      <3>3. QED
        BY <3>1, <3>2
    <2>3. QED
      BY <2>1, <2>2
  <1>10. ASSUME NEW S \in SUBSET Q, ListHead \in S, \A n \in S : k[n].next \in S PROVE S = Q
    <2>1. CASE p \in S
      <3> DEFINE T == S \cup {b}
      <3>1. T \in SUBSET R /\ ListHead \in T
        BY <1>10
      <3>2. \A n \in T : l[n].next \in T
        <4>1. ASSUME NEW n \in T PROVE l[n].next \in T
          <5>1. CASE n = b
            BY <1>5, <1>10, <2>1, <5>1 DEF s
          <5>2. CASE n = p
            BY <1>8, <5>2
          <5>3. CASE n \in S /\ n # p
            BY <1>1, <1>5, <1>10, <5>3
          <5>4. QED
            BY <5>1, <5>2, <5>3
        <4>2. QED
          BY <4>1
      <3>3. T = R
        BY <1>3, <3>1, <3>2
      <3>4. QED
        BY <3>3
    <2>2. CASE p \notin S
      <3>1. S \in SUBSET R /\ \A n \in S : l[n].next \in S
        BY <1>1, <1>5, <1>10, <2>2
      <3>2. S = R
        BY <1>3, <1>10, <3>1
      <3>3. QED
        BY <1>10, <3>2
    <2>3. QED
      BY <2>1, <2>2
  <1>11. RingOn(k, Q)
    BY <1>1, <1>9, <1>10 DEF RingOn
  <1>12. \A n \in Nodes : k[n] \in Links /\ l[n] \in Links
    BY <1>5
  <1>13. ASSUME NEW n \in Nodes, n \notin R \/ n = b PROVE k[n] = l[n]
    <2>1. k[n].next = l[n].next /\ k[n].previous = l[n].previous
      BY <1>1, <1>4, <1>5, <1>13
    <2>2. QED
      BY <1>12, <2>1 DEF Links
  <1>14. l[b] \in LinksOfStarted
    <2>1. l[b] \in Links /\ l[b].next \in Nodes /\ l[b].previous \in Nodes
      BY <1>1, <1>12 DEF s, p
    <2>2. QED
      BY <2>1 DEF Links, LinksOfStarted
  <1>15. \A n \in R : n # b => l[n].next = k[n].next \/ l[n].next = b
    BY <1>1, <1>5, <1>8
  <1>16. k[b] = l[b] /\ \A n \in Nodes : n \notin R => k[n] = l[n]
    BY <1>1, <1>13
  <1>17. QED
    BY <1>5, <1>11, <1>14, <1>15, <1>16 DEF Joined

\* Entries outside a ring do not matter to it.
LEMMA RingSame ==
  ASSUME NEW l, NEW k, NEW R, RingOn(l, R), \A n \in R : k[n] = l[n]
  PROVE  RingOn(k, R)
  BY DEF RingOn

\* An alarm in the ring has a successor that is not itself.
LEMMA RingIsLinked ==
  ASSUME NEW l, NEW R, RingOn(l, R), NEW n \in R, n # ListHead
  PROVE  l[n].next \notin {"NULL", n}
  <1>1. l[n].next \in Nodes
    BY DEF RingOn
  <1>2. l[n].next # n
    <2>1. SUFFICES ASSUME l[n].next = n PROVE FALSE
      OBVIOUS
    <2> DEFINE S == R \ {n}
    <2>2. l[n].previous = n
      BY <2>1 DEF RingOn
    <2>3. \A m \in S : l[m].next \in S
      BY <2>2 DEF RingOn
    <2>4. S \in SUBSET R /\ ListHead \in S
      BY DEF RingOn
    <2>5. S = R
      BY <2>3, <2>4 DEF RingOn
    <2>6. QED
      BY <2>5
  <1>3. QED
    BY <1>1, <1>2, NullAssumption DEF Nodes

\* The first half of alt_llist_remove takes an alarm out of the ring it is in, and
\* does nothing to one that points to itself.
LEMMA RemoveHalf ==
  ASSUME NEW l \in [Nodes -> Links], NEW R, RingOn(l, R), NEW b \in Alarms,
         b \in R \/ l[b] = ToItself(b),
         NEW j, j = RemoveNeighbours(l, b)
  PROVE  Joined(l, R, b, j)
  <1>1. b \in Nodes /\ b # ListHead
    BY HeadAssumption DEF Nodes
  <1>2. CASE b \in R
    BY <1>1, <1>2, RemoveRing
  <1>3. CASE b \notin R
    <2>1. l[b].next = b /\ l[b].previous = b /\ l[b] \in LinksOfStarted
      BY <1>1, <1>3 DEF LinksOfStarted, ToItself
    <2>2. j = l
      <3>1. j = [[l EXCEPT ![b].previous = b] EXCEPT ![[l EXCEPT ![b].previous = b][b].previous].next
                  = [l EXCEPT ![b].previous = b][b].next]
        BY <2>1 DEF RemoveNeighbours
      <3>2. [l EXCEPT ![b].previous = b] = l
        BY <1>1, <2>1 DEF Links
      <3>3. j = [l EXCEPT ![b].next = b]
        BY <2>1, <3>1, <3>2
      <3>4. [l EXCEPT ![b].next = b] = l
        BY <1>1, <2>1 DEF Links
      <3>5. QED
        BY <3>3, <3>4
    <2>3. R \ {b} = R
      BY <1>3
    <2>4. QED
      BY <2>1, <2>2, <2>3 DEF Joined
  <1>4. QED
    BY <1>2, <1>3

\* Every entry is in the ring R, was never started, or points to itself.
ListState(l, R) ==
  /\ l \in [Nodes -> Links]
  /\ RingOn(l, R)
  /\ \A n \in Nodes : \/ n \in R
                      \/ l[n] = [next |-> "NULL", previous |-> "NULL"]
                      \/ l[n] = ToItself(n)

\* alt_llist_remove keeps it so, for an alarm that was started.
LEMMA RemoveAny ==
  ASSUME NEW l, NEW R, ListState(l, R), NEW b \in Alarms, l[b].next # "NULL",
         NEW k, k = alt_llist_remove(l, b)
  PROVE  /\ ListState(k, R \ {b})
         /\ \A n \in Nodes : l[n].next # "NULL" => k[n].next # "NULL"
         /\ \A n \in Nodes : n # b => l[n].next = k[n].next \/ l[n].next = b
  <1> DEFINE j == RemoveNeighbours(l, b)
             self == ToItself(b)
  <1>1. /\ b \in Nodes /\ b # ListHead /\ R \subseteq Nodes /\ l \in [Nodes -> Links]
        /\ RingOn(l, R)
    BY HeadAssumption DEF Nodes, RingOn, ListState
  <1>2. b \in R \/ l[b] = self
    BY <1>1 DEF ListState
  <1>3. j = RemoveNeighbours(l, b)
    OBVIOUS
  <1> HIDE DEF j
  <1>4. /\ j \in [Nodes -> Links] /\ RingOn(j, R \ {b})
        /\ \A n \in Nodes : n \notin R => j[n] = l[n]
        /\ \A n \in R : n # b => l[n].next = j[n].next \/ l[n].next = b
    <2>1. Joined(l, R, b, j)
      BY <1>1, <1>2, <1>3, RemoveHalf
    <2>2. QED
      BY <2>1 DEF Joined
  <1>5. self \in Links
    BY <1>1 DEF Links, ToItself
  <1>6. k = [j EXCEPT ![b] = self]
    BY <1>3 DEF alt_llist_remove, RemoveEntry, ToItself
  <1>7. self.next = b
    BY DEF ToItself
  <1> HIDE DEF self
  <1>8. /\ k \in [Nodes -> Links] /\ k[b] = self
        /\ \A n \in Nodes : n # b => k[n] = j[n]
    BY <1>1, <1>4, <1>5, <1>6
  <1>9. RingOn(k, R \ {b})
    BY <1>1, <1>4, <1>8, RingSame
  <1>10. \A n \in Nodes : n \notin R /\ n # b => k[n] = l[n]
    BY <1>4, <1>8
  <1>11. \A n \in Nodes : n # b => l[n].next = k[n].next \/ l[n].next = b
    BY <1>1, <1>4, <1>8, <1>10
  <1>12. ListState(k, R \ {b})
    BY <1>8, <1>9, <1>10 DEF ListState, self
  <1>13. ASSUME NEW n \in Nodes, l[n].next # "NULL" PROVE k[n].next # "NULL"
    <2>1. CASE n = b
      BY <1>1, <1>7, <1>8, <2>1, NullAssumption DEF Nodes
    <2>2. CASE n \in R /\ n # b
      BY <1>9, <2>2, NullAssumption DEF RingOn, Nodes
    <2>3. CASE n \notin R /\ n # b
      BY <1>10, <1>13, <2>3
    <2>4. QED
      BY <2>1, <2>2, <2>3
  <1>14. QED
    BY <1>11, <1>12, <1>13

-----------------------------------------------------------------------------
(* Alarms: steps that leave the list alone                                 *)

\* What the points of the program and of the clock interrupt hold.
LEMMA ThreadFields ==
  ASSUME NEW t \in Threads
  PROVE  /\ t.pc \in {"idle", "disable"} \cup Closed
         /\ t.pc = "idle" => t = Idle
         /\ t.pc # "idle" => t.alarm \in Alarms /\ t.op \in {"start", "stop"}
         /\ t.pc = "disable" /\ t.op = "start" => t.nticks \in Delays
         /\ t.pc \in {"arm", "entry", "insert"} => t.op = "start" /\ t.nticks \in Delays
         /\ t.pc \in {"unlink", "self"} => t.op = "stop"
         /\ t.pc \in Closed => t.saved = TRUE
  BY DEF Threads, Closed, Idle

\* The next point of an operation.
LEMMA ThreadGoes ==
  ASSUME NEW t \in Threads, NEW to, NEW u, u = [t EXCEPT !.pc = to],
         \/ t.pc = "arm" /\ to = "entry"
         \/ t.pc = "entry" /\ to = "insert"
         \/ t.pc = "unlink" /\ to = "self"
         \/ t.pc \in {"insert", "self"} /\ to = "enable"
  PROVE  u \in Threads /\ u.pc = to /\ u.alarm = t.alarm /\ u.op = t.op
  <1>1. CASE t.pc \in {"arm", "entry", "insert"}
    <2>1. t \in [pc : {"arm", "entry", "insert"}, op : {"start"}, alarm : Alarms,
                 saved : {TRUE}, nticks : Delays]
      BY <1>1 DEF Threads
    <2>2. QED
      BY <1>1, <2>1 DEF Threads
  <1>2. CASE t.pc \in {"unlink", "self"}
    <2>1. t \in [pc : {"unlink", "self"}, op : {"stop"}, alarm : Alarms, saved : {TRUE},
                 nticks : {0}]
      BY <1>2 DEF Threads
    <2>2. QED
      BY <1>2, <2>1 DEF Threads
  <1>3. QED
    BY <1>1, <1>2

\* What the walk carries, at each of its places.
LEMMA TickFields ==
  ASSUME NEW t \in Ticks
  PROVE  /\ t.pc \in {"idle", "walk", "callback"}
         /\ t.pc = "idle" => t = Idle
         /\ t.pc = "walk" => t.alarm \in Nodes
         /\ t.pc = "callback" => t.alarm \in Alarms /\ t.next \in Nodes
  BY DEF Ticks, Idle

\* The ring is what the program takes for the running alarms.
LEMMA MembersAre ==
  ASSUME NEW R, RingOn(link', R), R \cap Half' = {},
         \A n \in Nodes : n \in R \/ n \in Half' \/ ~Linked(n)'
  PROVE  Members' = R
  <1>1. R \subseteq Nodes /\ ListHead \in R
    BY DEF RingOn
  <1>2. \A n \in R : n # ListHead => Linked(n)'
    BY RingIsLinked DEF Linked
  <1>3. QED
    BY <1>1, <1>2 DEF Members

\* Without a change of the links the same alarms are in the ring.
LEMMA SameLists ==
  ASSUME AlarmInv, link' = link, Half = {}, thread'.pc \notin {"insert", "self"},
         pie' <=> isr'.pc = "idle" /\ thread'.pc \in {"idle", "disable"},
         thread'.pc \in Closed => isr'.pc = "idle",
         thread'.pc \in {"disable", "arm", "entry"} /\ thread'.op = "start" =>
           ~Linked(thread'.alarm),
         thread'.pc \in {"disable", "unlink"} /\ thread'.op = "stop" => Started(thread'.alarm),
         isr'.pc \in {"walk", "callback"} => Started(isr'.alarm),
         isr'.pc = "callback" => Started(isr'.next)
  PROVE  AlarmLists' /\ Members' = Members
  <1>1. Half' = {}
    BY DEF Half
  <1>2. Members' = Members
    BY <1>1 DEF Members, Linked
  <1>3. RingOn(link', Members')
    BY <1>2 DEF AlarmInv, AlarmLists
  <1>4. \A n \in Nodes : \/ n \in Members' \/ n \in Half'
                         \/ link'[n] = [next |-> "NULL", previous |-> "NULL"]
                         \/ link'[n] = ToItself(n)
    BY <1>1, <1>2 DEF AlarmInv, AlarmLists
  <1>5. QED
    BY <1>2, <1>3, <1>4 DEF AlarmLists, Linked, Started

\* Without a change of the links and the times the same alarms are due.
LEMMA SameTimes ==
  ASSUME UNCHANGED <<link, nticks, alarm, wait>>
  PROVE  /\ \A b : Linked(b)' = Linked(b) /\ Due(b)' = Due(b)
         /\ \A n, b : ToCome(n, b)' = ToCome(n, b)
  BY DEF Linked, Due, Good, Wraps, ToCome, InRest

\* The invariant of a step that changes no link and no time, from what it makes
\* of the program and of the interrupt.
LEMMA QuietAlarm ==
  ASSUME AlarmInv, UNCHANGED <<careful, nticks, alarm, link, wait>>,
         rate' \in Nat, pie' \in BOOLEAN, thread' \in Threads, isr' \in Ticks,
         AlarmLists', Members' = Members,
         thread'.pc # "entry",
         \/ isr' = isr
         \/ /\ isr'.pc = "idle"
            /\ careful => \A b \in Alarms : Linked(b) => Due(b)
  PROVE  AlarmInv'
  <1>1. AlarmTypes'
    BY DEF AlarmInv, AlarmTypes
  <1>2. /\ \A b : Linked(b)' = Linked(b) /\ Due(b)' = Due(b)
        /\ \A n, b : ToCome(n, b)' = ToCome(n, b)
    BY SameTimes
  <1>3. ASSUME careful PROVE AlarmTimes'
    <2>1. AlarmTimes
      BY <1>3 DEF AlarmInv
    <2>2. CASE isr' = isr
      BY <1>2, <2>1, <2>2 DEF AlarmTimes
    <2>3. CASE isr'.pc = "idle" /\ \A b \in Alarms : Linked(b) => Due(b)
      BY <1>2, <2>1, <2>3 DEF AlarmTimes
    <2>4. QED
      BY <1>3, <2>2, <2>3
  <1>4. QED
    BY <1>1, <1>3 DEF AlarmInv

\* The clock driver registers; the program calls alt_alarm_start or alt_alarm_stop.
LEMMA CallsKeep == AlarmInv /\ (alt_sysclk_init \/ CallStart \/ CallStop) => AlarmInv'
  <1> SUFFICES ASSUME AlarmInv, alt_sysclk_init \/ CallStart \/ CallStop PROVE AlarmInv'
    OBVIOUS
  <1>1. /\ thread = Idle /\ isr = Idle /\ isr' = isr /\ pie' = pie
        /\ UNCHANGED <<careful, nticks, alarm, link, wait>>
    BY DEF alt_sysclk_init, CallStart, CallStop
  <1>2. AlarmTypes /\ AlarmLists
    BY DEF AlarmInv
  <1>3. rate' \in Nat
    BY <1>2, RateAssumption DEF alt_sysclk_init, CallStart, CallStop, AlarmTypes
  <1>4. /\ thread' \in Threads /\ thread'.pc \in {"idle", "disable"}
        /\ thread'.pc = "disable" /\ thread'.op = "start" => ~Linked(thread'.alarm)
        /\ thread'.pc = "disable" /\ thread'.op = "stop" => Started(thread'.alarm)
    <2>1. CASE alt_sysclk_init
      BY <1>1, <2>1 DEF alt_sysclk_init, Idle, Threads
    <2>2. CASE CallStart
      <3>1. PICK a \in Alarms, n \in Delays :
              /\ ~Linked(a)
              /\ thread' = IF rate = 0 THEN Idle
                           ELSE [pc |-> "disable", op |-> "start", alarm |-> a, nticks |-> n]
        BY <2>2 DEF CallStart
      <3>2. CASE thread' = Idle
        BY <3>2 DEF Idle, Threads
      <3>3. CASE thread' = [pc |-> "disable", op |-> "start", alarm |-> a, nticks |-> n]
        <4>1. thread' \in Threads
          BY <3>3 DEF Threads
        <4>2. thread'.pc = "disable" /\ thread'.op = "start" /\ thread'.alarm = a
          BY <3>3
        <4>3. QED
          BY <3>1, <4>1, <4>2
      <3>4. QED
        BY <3>1, <3>2, <3>3
    <2>3. CASE CallStop
      <3>1. PICK a \in Alarms :
              /\ link[a].next # "NULL"
              /\ thread' = [pc |-> "disable", op |-> "stop", alarm |-> a]
        BY <2>3 DEF CallStop
      <3>2. QED
        BY <3>1 DEF Threads, Started
    <2>4. QED
      BY <2>1, <2>2, <2>3
  <1>5. Half = {} /\ thread.pc = "idle" /\ isr.pc = "idle"
    BY <1>1 DEF Half, Idle
  <1>6. pie' <=> isr'.pc = "idle" /\ thread'.pc \in {"idle", "disable"}
    BY <1>1, <1>2, <1>4, <1>5 DEF AlarmLists
  <1>7. thread'.pc \notin Closed /\ thread'.pc \notin {"insert", "self"}
        /\ thread'.pc \notin {"arm", "entry", "unlink"}
    BY <1>4 DEF Closed
  <1>8. isr'.pc \notin {"walk", "callback"}
    BY <1>1, <1>5
  <1>9. AlarmLists' /\ Members' = Members
    BY <1>1, <1>4, <1>5, <1>6, <1>7, <1>8, SameLists
  <1>10. pie' \in BOOLEAN /\ isr' \in Ticks
    BY <1>1, <1>2, Zenon DEF AlarmTypes
  <1>11. thread'.pc # "entry"
    BY <1>7
  <1>12. QED
    BY <1>1, <1>3, <1>4, <1>9, <1>10, <1>11, QuietAlarm

\* The interrupts are disabled.
LEMMA DisableKeeps == AlarmInv /\ alt_irq_disable_all => AlarmInv'
  <1> SUFFICES ASSUME AlarmInv, alt_irq_disable_all PROVE AlarmInv'
    OBVIOUS
  <1> DEFINE t == [pc |-> IF thread.op = "start" THEN "arm" ELSE "unlink",
                   op |-> thread.op, alarm |-> thread.alarm, saved |-> pie,
                   nticks |-> IF thread.op = "start" THEN thread.nticks ELSE 0]
  <1>1. /\ thread.pc = "disable" /\ isr = Idle /\ isr' = isr /\ pie' = FALSE /\ thread' = t
        /\ UNCHANGED <<careful, rate, nticks, alarm, link, wait>>
    BY DEF alt_irq_disable_all, Runs
  <1>2. AlarmTypes /\ AlarmLists
    BY DEF AlarmInv
  <1>3. thread.alarm \in Alarms /\ thread.op \in {"start", "stop"}
        /\ (thread.op = "start" => thread.nticks \in Delays)
    BY <1>1, <1>2, ThreadFields DEF AlarmTypes
  <1>4. isr.pc = "idle" /\ Half = {}
    BY <1>1 DEF Idle, Half
  <1>5. pie = TRUE
    BY <1>1, <1>2, <1>4 DEF AlarmLists, AlarmTypes
  <1>6. /\ t \in Threads /\ t.op = thread.op /\ t.alarm = thread.alarm
        /\ t.pc = IF thread.op = "start" THEN "arm" ELSE "unlink"
    <2>1. CASE thread.op = "start"
      BY <1>3, <1>5, <2>1 DEF Threads
    <2>2. CASE thread.op = "stop"
      BY <1>3, <1>5, <2>2 DEF Threads
    <2>3. QED
      BY <1>3, <2>1, <2>2
  <1> HIDE DEF t
  <1>7. thread'.pc \in {"arm", "unlink"}
    BY <1>1, <1>6
  <1>8. thread'.op = "start" => ~Linked(thread'.alarm)
    BY <1>1, <1>2, <1>6 DEF AlarmLists
  <1>9. thread'.op = "stop" => Started(thread'.alarm)
    BY <1>1, <1>2, <1>6 DEF AlarmLists
  <1>10. ~pie' /\ thread'.pc \notin {"idle", "disable"} /\ thread'.pc \notin {"insert", "self"}
         /\ thread'.pc # "entry"
    BY <1>1, <1>7
  <1>11. isr'.pc \notin {"walk", "callback"} /\ isr'.pc = "idle"
    BY <1>1, <1>4
  <1>12. AlarmLists' /\ Members' = Members
    BY <1>1, <1>4, <1>8, <1>9, <1>10, <1>11, SameLists
  <1>13. rate' \in Nat /\ isr' \in Ticks
    BY <1>1, <1>2 DEF AlarmTypes
  <1>14. pie' \in BOOLEAN
    BY <1>1
  <1>15. thread' \in Threads
    BY <1>1, <1>6
  <1>16. QED
    BY <1>1, <1>10, <1>12, <1>13, <1>14, <1>15, QuietAlarm

\* They are enabled again, as they were.
LEMMA EnableKeeps == AlarmInv /\ alt_irq_enable_all => AlarmInv'
  <1> SUFFICES ASSUME AlarmInv, alt_irq_enable_all PROVE AlarmInv'
    OBVIOUS
  <1>1. /\ thread.pc = "enable" /\ isr = Idle /\ isr' = isr /\ pie' = thread.saved
        /\ thread' = Idle
        /\ UNCHANGED <<careful, rate, nticks, alarm, link, wait>>
    BY DEF alt_irq_enable_all, Runs
  <1>2. AlarmTypes /\ AlarmLists
    BY DEF AlarmInv
  <1>3. pie' = TRUE
    BY <1>1, <1>2, ThreadFields DEF AlarmTypes, Closed
  <1>4. isr'.pc = "idle" /\ Half = {} /\ thread'.pc = "idle" /\ thread' \in Threads
    BY <1>1 DEF Idle, Half, Threads
  <1>5. thread'.pc \notin Closed
    BY <1>4 DEF Closed
  <1>6. AlarmLists' /\ Members' = Members
    BY <1>1, <1>3, <1>4, <1>5, SameLists
  <1>7. rate' \in Nat /\ isr' \in Ticks
    BY <1>1, <1>2 DEF AlarmTypes
  <1>8. pie' \in BOOLEAN
    BY <1>3
  <1>9. thread'.pc # "entry"
    BY <1>4
  <1>10. QED
    BY <1>1, <1>4, <1>6, <1>7, <1>8, <1>9, QuietAlarm

\* The walk has come back to the head: nothing is to come.
LEMMA TickEndKeeps == AlarmInv /\ TickEnd => AlarmInv'
  <1> SUFFICES ASSUME AlarmInv, TickEnd PROVE AlarmInv'
    OBVIOUS
  <1>1. /\ isr.pc = "walk" /\ isr.alarm = ListHead /\ isr' = Idle /\ pie' = TRUE
        /\ thread' = thread /\ UNCHANGED <<careful, rate, nticks, alarm, link, wait>>
    BY DEF TickEnd
  <1>2. AlarmTypes /\ AlarmLists
    BY DEF AlarmInv
  <1>3. thread.pc \in {"idle", "disable"} /\ Half = {}
    <2>1. thread.pc \notin Closed
      BY <1>1, <1>2 DEF AlarmLists
    <2>2. thread.pc \in {"idle", "disable"} \cup Closed
      BY <1>2, ThreadFields DEF AlarmTypes
    <2>3. QED
      BY <2>1, <2>2 DEF Half, Closed
  <1>4. isr'.pc = "idle" /\ isr' \in Ticks
    BY <1>1 DEF Idle, Ticks
  <1>5. thread'.pc \notin Closed /\ thread'.pc \notin {"insert", "self", "arm", "entry", "unlink"}
    BY <1>1, <1>3 DEF Closed
  <1>6. /\ thread'.pc = "disable" /\ thread'.op = "start" => ~Linked(thread'.alarm)
        /\ thread'.pc = "disable" /\ thread'.op = "stop" => Started(thread'.alarm)
    BY <1>1, <1>2 DEF AlarmLists
  <1>7. pie' <=> isr'.pc = "idle" /\ thread'.pc \in {"idle", "disable"}
    BY <1>1, <1>3, <1>4
  <1>8. AlarmLists' /\ Members' = Members
    BY <1>1, <1>3, <1>4, <1>5, <1>6, <1>7, SameLists
  <1>9. ASSUME careful, NEW b \in Alarms, Linked(b) PROVE Due(b)
    <2>1. Due(b) \/ InRest(ListHead, b)
      BY <1>1, <1>9 DEF AlarmInv, AlarmTimes, ToCome
    <2>2. ~InRest(ListHead, b)
      <3>1. {ListHead} \in SUBSET Nodes /\ b \notin {ListHead}
        BY HeadAssumption DEF Nodes
      <3>2. QED
        BY <3>1 DEF InRest
    <2>3. QED
      BY <2>1, <2>2
  <1>10. rate' \in Nat /\ thread' \in Threads /\ thread'.pc # "entry"
    BY <1>1, <1>2, <1>5 DEF AlarmTypes
  <1>11. pie' \in BOOLEAN
    BY <1>1
  <1>12. QED
    BY <1>1, <1>4, <1>8, <1>9, <1>10, <1>11, QuietAlarm

\* The remainder of a sum of two numbers below m.
LEMMA SumMod ==
  ASSUME NEW m \in Nat \ {0}, NEW x \in 0 .. m - 1, NEW y \in 0 .. m - 1
  PROVE  /\ x + y < m => ((x + y) % m) = x + y
         /\ x + y >= m => ((x + y) % m) = x + y - m
         /\ ((x + y) % m) \in 0 .. m - 1
         /\ (x % m) = x
  OBVIOUS

\* A time that is y ticks away is before the present one if the clock wraps.
LEMMA WrapMod ==
  ASSUME NEW m \in Nat \ {0}, NEW x \in 0 .. m - 1, NEW y \in 1 .. m - 1
  PROVE  ((x + y) % m) < x <=> x + y >= m
  BY SumMod

-----------------------------------------------------------------------------
(* Alarms: steps that change times                                         *)

\* alt_alarm_start computes when the alarm is due and whether the clock wraps
\* before.
LEMMA ArmKeeps == AlarmInv /\ Arm => AlarmInv'
  <1> SUFFICES ASSUME AlarmInv, Arm PROVE AlarmInv'
    OBVIOUS
  <1>1. AlarmTypes /\ AlarmLists /\ thread.pc = "arm"
    BY DEF AlarmInv, Arm, Runs
  <1>2. PICK a \in Alarms, d \in Delays : a = thread.alarm /\ d = thread.nticks
    BY <1>1, ThreadFields DEF AlarmTypes
  <1>3. PICK time, wraps : time = ((d + nticks + 1) % TickMod) /\ wraps = (time < nticks)
    OBVIOUS
  <1>4. /\ isr = Idle /\ isr' = isr /\ pie' = pie
        /\ UNCHANGED <<careful, rate, nticks, link>>
        /\ alarm' = [alarm EXCEPT ![a] = [time |-> time, rollover |-> wraps]]
        /\ wait' = [wait EXCEPT ![a] = d + 1]
        /\ thread' = [thread EXCEPT !.pc = "entry"]
    BY <1>2, <1>3 DEF Arm, Runs
  <1>5. /\ thread.op = "start" /\ thread' \in Threads /\ thread'.pc = "entry"
        /\ thread'.alarm = a /\ thread'.op = "start"
    <2>1. thread \in Threads /\ thread.op = "start"
      BY <1>1, ThreadFields DEF AlarmTypes
    <2>2. /\ thread' \in Threads /\ thread'.pc = "entry"
          /\ thread'.alarm = thread.alarm /\ thread'.op = thread.op
      BY <1>1, <1>4, <2>1, ThreadGoes
    <2>3. QED
      BY <1>2, <2>1, <2>2
  <1>6. isr.pc = "idle" /\ Half = {}
    BY <1>1, <1>4 DEF Idle, Half
  <1>7. ~Linked(a) /\ ~pie
    BY <1>1, <1>2, <1>5 DEF AlarmLists
  <1>8. /\ TickMod \in Nat \ {0} /\ nticks \in 0 .. TickMod - 1
        /\ d + 1 \in 1 .. TickMod - 1 /\ d + 1 \in 0 .. TickMod - 1 /\ d \in Nat
    BY <1>1, DelaysAssumption DEF AlarmTypes
  <1>9. time = ((nticks + (d + 1)) % TickMod)
    <2>1. d + nticks + 1 = nticks + (d + 1)
      BY <1>8
    <2>2. QED
      BY <1>3, <2>1
  <1>10. time \in 0 .. TickMod - 1
    BY <1>8, <1>9, SumMod
  <1>11. wraps <=> nticks + (d + 1) >= TickMod
    BY <1>3, <1>8, <1>9, WrapMod
  <1>12. wraps \in BOOLEAN
    BY <1>3
  <1>13. AlarmLists' /\ Members' = Members
    BY <1>4, <1>5, <1>6, <1>7, SameLists
  <1>14. /\ alarm'[a] = [time |-> time, rollover |-> wraps] /\ wait'[a] = d + 1
         /\ \A b \in Alarms : b # a => alarm'[b] = alarm[b] /\ wait'[b] = wait[b]
    BY <1>1, <1>4 DEF AlarmTypes
  <1>15. AlarmTypes'
    <2>1. [time |-> time, rollover |-> wraps] \in [time : 0 .. TickMod - 1, rollover : BOOLEAN]
      BY <1>10, <1>12
    <2>2. alarm' \in [Alarms -> [time : 0 .. TickMod - 1, rollover : BOOLEAN]]
      BY <1>1, <1>4, <2>1 DEF AlarmTypes
    <2>3. wait' \in [Alarms -> Int]
      BY <1>1, <1>4, <1>8 DEF AlarmTypes
    <2>4. QED
      BY <1>1, <1>4, <1>5, <2>2, <2>3, Zenon DEF AlarmTypes
  <1>16. Due(a)'
    <2>1. alarm'[a].time = time /\ alarm'[a].rollover = wraps
      BY <1>14
    <2>2. wait'[a] \in 0 .. TickMod - 1 /\ wait'[a] > 0 /\ nticks' = nticks
      BY <1>4, <1>8, <1>14
    <2>3. Good(a)'
      BY <1>9, <1>14, <2>1, <2>2 DEF Good
    <2>4. Wraps(a)' <=> nticks + (d + 1) >= TickMod
      BY <1>14, <2>2 DEF Wraps
    <2>5. QED
      BY <1>11, <2>1, <2>2, <2>3, <2>4 DEF Due
  <1>17. ASSUME careful PROVE AlarmTimes'
    <2>1. \A b \in Alarms : Linked(b)' => b # a /\ Linked(b)
      BY <1>4, <1>7 DEF Linked
    <2>2. \A b \in Alarms : Linked(b)' => Due(b)
      BY <1>6, <1>17, <2>1 DEF AlarmInv, AlarmTimes
    <2>3. \A b \in Alarms : Linked(b)' => Due(b)'
      BY <1>4, <1>14, <2>1, <2>2 DEF Due, Good, Wraps
    <2>4. Due(thread.alarm)'
      BY <1>5, <1>16 DEF Due, Good, Wraps
    <2>5. isr'.pc = "idle"
      BY <1>4, <1>6
    <2>6. QED
      BY <2>3, <2>4, <2>5 DEF AlarmTimes
  <1>18. QED
    BY <1>4, <1>13, <1>15, <1>17 DEF AlarmInv

\* From the first entry of the list the walk comes to every running alarm.
LEMMA RestIsRing ==
  ASSUME AlarmInv, NEW b \in Alarms, b \in Members
  PROVE  InRest(link[ListHead].next, b)
  <1> SUFFICES ASSUME NEW T \in SUBSET Nodes, link[ListHead].next \in T,
                      \A m \in T : m # ListHead => link[m].next \in T
               PROVE  b \in T
    BY DEF InRest
  <1> DEFINE S == (T \cup {ListHead}) \cap Members
  <1>1. RingOn(link, Members) /\ b # ListHead
    BY HeadAssumption DEF AlarmInv, AlarmLists
  <1>2. S \in SUBSET Members /\ ListHead \in S
    BY <1>1 DEF RingOn
  <1>3. \A n \in S : link[n].next \in S
    BY <1>1 DEF RingOn
  <1>4. S = Members
    BY <1>1, <1>2, <1>3 DEF RingOn
  <1>5. QED
    BY <1>1, <1>4

\* The clock ticks: every running alarm is one tick nearer.
LEMMA TickKeeps == AlarmInv /\ alt_tick => AlarmInv'
  <1> SUFFICES ASSUME AlarmInv, alt_tick PROVE AlarmInv'
    OBVIOUS
  <1>1. /\ pie /\ isr = Idle /\ pie' = FALSE
        /\ nticks' = (nticks + 1) % TickMod
        /\ wait' = [a \in Alarms |-> IF Linked(a) THEN wait[a] - 1 ELSE wait[a]]
        /\ isr' = [pc |-> "walk", alarm |-> link[ListHead].next]
        /\ UNCHANGED <<careful, rate, alarm, link, thread>>
    BY DEF alt_tick
  <1>2. AlarmTypes /\ AlarmLists
    BY DEF AlarmInv
  <1>3. thread.pc \in {"idle", "disable"} /\ isr.pc = "idle"
    BY <1>1, <1>2 DEF AlarmLists
  <1>4. Half = {} /\ thread'.pc \notin Closed
        /\ thread'.pc \notin {"insert", "self", "arm", "entry", "unlink"}
    BY <1>1, <1>3 DEF Half, Closed
  <1>5. RingOn(link, Members) /\ ListHead \in Members /\ link[ListHead].next \in Members
    BY <1>2 DEF AlarmLists, RingOn
  <1>6. \A n \in Members : n \in Nodes /\ link[n].next \in Nodes /\ Started(n)
    BY <1>5, NullAssumption DEF RingOn, Started, Nodes
  <1>7. isr'.pc = "walk" /\ isr'.alarm = link[ListHead].next /\ isr' \in Ticks
    BY <1>1, <1>5, <1>6 DEF Ticks
  <1>8. Started(isr'.alarm)
    BY <1>5, <1>6, <1>7
  <1>9. AlarmLists' /\ Members' = Members
    <2>1. /\ thread'.pc = "disable" /\ thread'.op = "start" => ~Linked(thread'.alarm)
          /\ thread'.pc = "disable" /\ thread'.op = "stop" => Started(thread'.alarm)
      BY <1>1, <1>2 DEF AlarmLists
    <2>2. pie' <=> isr'.pc = "idle" /\ thread'.pc \in {"idle", "disable"}
      BY <1>1, <1>7
    <2>3. QED
      BY <1>1, <1>4, <1>7, <1>8, <2>1, <2>2, SameLists
  <1>10. TickMod \in Nat \ {0} /\ nticks \in 0 .. TickMod - 1
    BY <1>2, DelaysAssumption DEF AlarmTypes
  <1>11. \/ nticks' = nticks + 1 /\ nticks + 1 < TickMod
         \/ nticks' = 0 /\ nticks + 1 = TickMod
    BY <1>1, <1>10
  <1>12. AlarmTypes'
    <2>1. nticks' \in 0 .. TickMod - 1
      BY <1>10, <1>11
    <2>2. pie' \in BOOLEAN
      BY <1>1
    <2>3. wait' \in [Alarms -> Int]
      BY <1>1, <1>2 DEF AlarmTypes
    <2>4. QED
      BY <1>1, <1>2, <1>7, <2>1, <2>2, <2>3, Zenon DEF AlarmTypes
  <1>13. ASSUME careful, NEW b \in Alarms, Linked(b)
         PROVE  Due(b)' \/ ToCome(isr.alarm, b)'
    <2>1. Due(b)
      BY <1>3, <1>13 DEF AlarmInv, AlarmTimes
    <2>2. b \in Members
      BY <1>4, <1>13 DEF Members, Nodes
    <2>3. InRest(isr.alarm, b)'
      <3>1. InRest(link[ListHead].next, b)
        BY <2>2, RestIsRing
      <3>2. QED
        BY <1>1, <1>7, <3>1 DEF InRest
    <2>4. wait'[b] = wait[b] - 1 /\ alarm'[b] = alarm[b]
      BY <1>1, <1>13
    <2> DEFINE w == wait[b]
    <2>5. /\ w \in 1 .. TickMod - 1 /\ alarm[b].time = (nticks + w) % TickMod
          /\ (alarm[b].rollover <=> nticks + w >= TickMod)
      BY <2>1, <1>10 DEF Due, Good, Wraps
    <2>6. wait'[b] = w - 1
      BY <2>4
    <2> HIDE DEF w
    <2>7. CASE nticks' = nticks + 1 /\ nticks + 1 < TickMod
      <3>1. nticks' + wait'[b] = nticks + w /\ wait'[b] \in 0 .. TickMod - 1 /\ nticks' # 0
        BY <1>10, <2>5, <2>6, <2>7
      <3>2. Good(b)'
        BY <2>4, <2>5, <3>1 DEF Good
      <3>3. Wraps(b)' <=> nticks + w >= TickMod
        BY <3>1 DEF Wraps
      <3>4. alarm'[b].rollover /\ nticks' # 0 <=> Wraps(b)'
        BY <2>4, <2>5, <3>1, <3>3
      <3>5. QED
        BY <2>3, <3>2, <3>4 DEF ToCome
    <2>8. CASE nticks' = 0 /\ nticks + 1 = TickMod
      <3>1. /\ nticks' + wait'[b] = w - 1 /\ wait'[b] \in 0 .. TickMod - 1
            /\ nticks + w = TickMod + (w - 1) /\ w - 1 \in 0 .. TickMod - 2
        BY <1>10, <2>5, <2>6, <2>8
      <3>2. ((nticks + w) % TickMod) = w - 1 /\ ((w - 1) % TickMod) = w - 1
        <4>1. w \in 0 .. TickMod - 1 /\ w - 1 \in 0 .. TickMod - 1 /\ nticks + w >= TickMod
              /\ nticks + w - TickMod = w - 1
          BY <1>10, <2>5, <3>1
        <4>2. QED
          BY <1>10, <4>1, SumMod
      <3>3. Good(b)'
        BY <2>4, <2>5, <3>1, <3>2 DEF Good
      <3>4. ~Wraps(b)'
        BY <1>10, <3>1 DEF Wraps
      <3>5. alarm'[b].rollover /\ nticks' # 0 <=> Wraps(b)'
        BY <2>8, <3>4
      <3>6. QED
        BY <2>3, <3>3, <3>5 DEF ToCome
    <2>9. QED
      BY <1>11, <2>7, <2>8
  <1>14. ASSUME careful PROVE AlarmTimes'
    <2>1. isr'.alarm \in Members'
      BY <1>5, <1>7, <1>9
    <2>2. \A b \in Alarms : Linked(b)' => Due(b)' \/ ToCome(isr.alarm, b)'
      BY <1>1, <1>13, <1>14 DEF Linked
    <2>3. QED
      BY <1>4, <1>7, <2>1, <2>2 DEF AlarmTimes
  <1>15. QED
    BY <1>1, <1>9, <1>12, <1>14 DEF AlarmInv

-----------------------------------------------------------------------------
(* Alarms: steps that change the list                                      *)

\* A step of the program from one of its points to the next, with interrupts
\* disabled.
LEMMA RelinkGoes ==
  ASSUME AlarmInv, NEW pc \in Closed, NEW l, NEW to, Relink(pc, l, to),
         \/ pc = "entry" /\ to = "insert"
         \/ pc = "unlink" /\ to = "self"
         \/ pc \in {"insert", "self"} /\ to = "enable"
  PROVE  /\ thread.pc = pc /\ isr.pc = "idle" /\ isr' = isr /\ ~pie /\ pie' = pie
         /\ UNCHANGED <<careful, rate, nticks, alarm, wait>> /\ link' = l
         /\ thread.alarm \in Alarms
         /\ thread' \in Threads /\ thread'.pc = to /\ thread'.alarm = thread.alarm
         /\ thread'.op = thread.op
         /\ (pc \in {"entry", "insert"} => thread.op = "start")
         /\ (pc \in {"unlink", "self"} => thread.op = "stop")
  <1>1. /\ thread.pc = pc /\ isr = Idle /\ isr' = isr /\ pie' = pie
        /\ UNCHANGED <<careful, rate, nticks, alarm, wait>> /\ link' = l
        /\ thread' = [thread EXCEPT !.pc = to]
    BY DEF Relink, Runs
  <1>2. thread \in Threads
    BY DEF AlarmInv, AlarmTypes
  <1>3. thread.alarm \in Alarms /\ (pc \in {"entry", "insert"} => thread.op = "start")
        /\ (pc \in {"unlink", "self"} => thread.op = "stop")
    BY <1>1, <1>2, ThreadFields DEF Closed
  <1>4. /\ thread' \in Threads /\ thread'.pc = to /\ thread'.alarm = thread.alarm
        /\ thread'.op = thread.op
    BY <1>1, <1>2, ThreadGoes
  <1>5. isr.pc = "idle" /\ ~pie
    BY <1>1 DEF AlarmInv, AlarmLists, Closed, Idle
  <1>6. QED
    BY <1>1, <1>3, <1>4, <1>5

\* The rest of the invariant, once the links are in order.
LEMMA RelinkKeeps ==
  ASSUME AlarmInv, isr.pc = "idle", isr' = isr, ~pie, pie' = pie,
         UNCHANGED <<careful, rate, nticks, alarm, wait>>,
         link' \in [Nodes -> Links], thread' \in Threads,
         thread'.pc \in {"insert", "self", "enable"},
         RingOn(link', Members'),
         \A n \in Nodes : \/ n \in Members' \/ n \in Half'
                          \/ link'[n] = [next |-> "NULL", previous |-> "NULL"]
                          \/ link'[n] = ToItself(n),
         thread'.pc = "insert" => link'[thread'.alarm] =
                                    [next |-> link'[ListHead].next, previous |-> ListHead],
         thread'.pc = "self" => link'[thread'.alarm] \in LinksOfStarted,
         careful => \A b \in Alarms : Linked(b)' => Due(b)
  PROVE  AlarmInv'
  <1>1. AlarmTypes'
    BY Zenon DEF AlarmInv, AlarmTypes
  <1>2. isr'.pc = "idle" /\ ~pie'
    OBVIOUS
  <1>3. AlarmLists'
    BY <1>2 DEF AlarmLists
  <1>4. ASSUME careful PROVE AlarmTimes'
    <2>1. \A b \in Alarms : Linked(b)' => Due(b)'
      BY <1>4 DEF Due, Good, Wraps
    <2>2. QED
      BY <1>2, <2>1 DEF AlarmTimes
  <1>5. QED
    BY <1>1, <1>3, <1>4 DEF AlarmInv

\* The entry's own links are stored: the list does not know it yet.
LEMMA InsertFirstKeeps == AlarmInv /\ InsertFirst => AlarmInv'
  <1> SUFFICES ASSUME AlarmInv, InsertFirst PROVE AlarmInv'
    OBVIOUS
  <1>1. Relink("entry", InsertEntry(link, ListHead, thread.alarm), "insert")
    BY DEF InsertFirst
  <1>2. /\ thread.pc = "entry" /\ isr.pc = "idle" /\ isr' = isr /\ ~pie /\ pie' = pie
        /\ UNCHANGED <<careful, rate, nticks, alarm, wait>>
        /\ link' = InsertEntry(link, ListHead, thread.alarm)
        /\ thread.alarm \in Alarms
        /\ thread' \in Threads /\ thread'.pc = "insert" /\ thread'.alarm = thread.alarm
        /\ thread.op = "start"
    BY <1>1, RelinkGoes DEF Closed
  <1>3. AlarmTypes /\ AlarmLists
    BY DEF AlarmInv
  <1>4. PICK a \in Alarms : a = thread.alarm
    BY <1>2
  <1>5. a \in Nodes /\ a # ListHead /\ ListHead \in Nodes /\ ~Linked(a) /\ Half = {} /\ Half' = {a}
    BY <1>2, <1>3, <1>4, HeadAssumption DEF Nodes, Half, AlarmLists
  <1>6. RingOn(link, Members) /\ a \notin Members
    BY <1>3, <1>5 DEF AlarmLists, Members
  <1>7. link[ListHead].next \in Members /\ link[ListHead].next \in Nodes
    BY <1>6 DEF RingOn
  <1> DEFINE f == [next |-> link[ListHead].next, previous |-> ListHead]
  <1>8. f \in Links
    BY <1>5, <1>7 DEF Links
  <1> HIDE DEF f
  <1>9. /\ link' \in [Nodes -> Links] /\ link'[a] = f
        /\ \A n \in Nodes : n # a => link'[n] = link[n]
    BY <1>2, <1>3, <1>4, <1>5, <1>8 DEF AlarmTypes, InsertEntry, f
  <1>10. Members' = Members
    BY <1>5, <1>6, <1>9 DEF Members, Linked
  <1>11. RingOn(link', Members')
    <2>1. \A n \in Members : link'[n] = link[n]
      BY <1>6, <1>9 DEF Members
    <2>2. QED
      BY <1>6, <1>10, <2>1, RingSame
  <1>12. \A n \in Nodes : \/ n \in Members' \/ n \in Half'
                          \/ link'[n] = [next |-> "NULL", previous |-> "NULL"]
                          \/ link'[n] = ToItself(n)
    BY <1>3, <1>5, <1>9, <1>10 DEF AlarmLists
  <1>13. link'[thread'.alarm] = [next |-> link'[ListHead].next, previous |-> ListHead]
    BY <1>2, <1>4, <1>5, <1>9 DEF f
  <1>14. ASSUME careful, NEW b \in Alarms, Linked(b)' PROVE Due(b)
    <2>1. CASE b = a
      BY <1>2, <1>4, <1>14, <2>1 DEF AlarmInv, AlarmTimes
    <2>2. CASE b # a
      <3>1. Linked(b)
        BY <1>9, <1>14, <2>2 DEF Linked, Nodes
      <3>2. QED
        BY <1>2, <1>14, <3>1 DEF AlarmInv, AlarmTimes
    <2>3. QED
      BY <2>1, <2>2
  <1>15. thread'.pc \in {"insert", "self", "enable"} /\ thread'.pc # "self"
    BY <1>2
  <1>16. QED
    BY <1>2, <1>9, <1>11, <1>12, <1>13, <1>14, <1>15, RelinkKeeps

\* The list takes the entry in.
LEMMA InsertSecondKeeps == AlarmInv /\ InsertSecond => AlarmInv'
  <1> SUFFICES ASSUME AlarmInv, InsertSecond PROVE AlarmInv'
    OBVIOUS
  <1>1. Relink("insert", InsertList(link, ListHead, thread.alarm), "enable")
    BY DEF InsertSecond
  <1>2. /\ thread.pc = "insert" /\ isr.pc = "idle" /\ isr' = isr /\ ~pie /\ pie' = pie
        /\ UNCHANGED <<careful, rate, nticks, alarm, wait>>
        /\ link' = InsertList(link, ListHead, thread.alarm)
        /\ thread.alarm \in Alarms
        /\ thread' \in Threads /\ thread'.pc = "enable"
    BY <1>1, RelinkGoes DEF Closed
  <1>3. AlarmTypes /\ AlarmLists
    BY DEF AlarmInv
  <1>4. PICK a \in Alarms : a = thread.alarm
    BY <1>2
  <1>5. a \in Nodes /\ a # ListHead /\ ListHead \in Nodes /\ Half = {a} /\ Half' = {}
    BY <1>2, <1>4, HeadAssumption DEF Nodes, Half
  <1>6. RingOn(link, Members) /\ a \notin Members /\ link \in [Nodes -> Links]
    BY <1>3, <1>5 DEF AlarmLists, Members, AlarmTypes
  <1>7. link[a] = [next |-> link[ListHead].next, previous |-> ListHead]
    BY <1>2, <1>3, <1>4 DEF AlarmLists
  <1> DEFINE k == InsertList(link, ListHead, a)
             M == Members
  <1>8. /\ k \in [Nodes -> Links] /\ RingOn(k, M \cup {a})
        /\ \A n \in Nodes \ (M \cup {a}) : k[n] = link[n]
    BY <1>6, <1>7, InsertRing
  <1>9. link' = k
    BY <1>2, <1>4
  <1>10. \A n \in Nodes : n \notin M /\ n # a => ~Linked(n)
    BY <1>5 DEF Members
  <1>11. \A n \in M \cup {a} : n # ListHead => Linked(n)'
    BY <1>8, <1>9, RingIsLinked DEF Linked
  <1> HIDE DEF k, M
  <1>12. Members' = M \cup {a}
    <2>1. M \cup {a} \subseteq Nodes /\ ListHead \in M \cup {a}
      BY <1>8 DEF RingOn
    <2>2. \A n \in Nodes : n \notin M \cup {a} => ~Linked(n)'
      BY <1>8, <1>9, <1>10 DEF Linked
    <2>3. QED
      BY <1>5, <1>11, <2>1, <2>2 DEF Members
  <1>13. RingOn(link', Members')
    BY <1>8, <1>9, <1>12
  <1>14. \A n \in Nodes : \/ n \in Members' \/ n \in Half'
                          \/ link'[n] = [next |-> "NULL", previous |-> "NULL"]
                          \/ link'[n] = ToItself(n)
    BY <1>3, <1>5, <1>8, <1>9, <1>12 DEF AlarmLists, M
  <1>15. ASSUME careful, NEW b \in Alarms, Linked(b)' PROVE Due(b)
    <2>1. Linked(b)
      <3>1. CASE b = a
        <4>1. link[a].next \in Members /\ link[a].next \in Nodes
          BY <1>6, <1>7 DEF RingOn
        <4>2. QED
          BY <1>6, <3>1, <4>1, NullAssumption DEF Linked, Nodes
      <3>2. CASE b \in M
        BY <3>2, HeadAssumption DEF M, Members
      <3>3. CASE b # a /\ b \notin M
        BY <1>8, <1>9, <1>15, <3>3 DEF Linked, Nodes
      <3>4. QED
        BY <3>1, <3>2, <3>3
    <2>2. QED
      BY <1>2, <1>15, <2>1 DEF AlarmInv, AlarmTimes
  <1>16. thread'.pc \in {"insert", "self", "enable"} /\ thread'.pc # "self"
         /\ thread'.pc # "insert"
    BY <1>2
  <1>17. link' \in [Nodes -> Links]
    BY <1>8, <1>9
  <1>18. QED
    BY <1>2, <1>13, <1>14, <1>15, <1>16, <1>17, RelinkKeeps

\* The neighbours of the entry are joined.
LEMMA RemoveFirstKeeps == AlarmInv /\ RemoveFirst => AlarmInv'
  <1> SUFFICES ASSUME AlarmInv, RemoveFirst PROVE AlarmInv'
    OBVIOUS
  <1>1. Relink("unlink", RemoveNeighbours(link, thread.alarm), "self")
    BY DEF RemoveFirst
  <1>2. /\ thread.pc = "unlink" /\ isr.pc = "idle" /\ isr' = isr /\ ~pie /\ pie' = pie
        /\ UNCHANGED <<careful, rate, nticks, alarm, wait>>
        /\ link' = RemoveNeighbours(link, thread.alarm)
        /\ thread.alarm \in Alarms /\ thread.op = "stop"
        /\ thread' \in Threads /\ thread'.pc = "self" /\ thread'.alarm = thread.alarm
    BY <1>1, RelinkGoes DEF Closed
  <1>3. AlarmTypes /\ AlarmLists
    BY DEF AlarmInv
  <1>4. PICK a \in Alarms : a = thread.alarm
    BY <1>2
  <1>5. a \in Nodes /\ Half = {} /\ Half' = {a} /\ Started(a)
    BY <1>2, <1>3, <1>4 DEF Nodes, Half, AlarmLists
  <1>6. RingOn(link, Members) /\ link \in [Nodes -> Links]
    BY <1>3 DEF AlarmLists, AlarmTypes
  <1>7. a \in Members \/ link[a] = ToItself(a)
    BY <1>3, <1>5 DEF AlarmLists, Started
  <1>8. PICK M, k : M = Members /\ k = link'
    OBVIOUS
  <1>9. Joined(link, M, a, k)
    BY <1>2, <1>4, <1>6, <1>7, <1>8, RemoveHalf
  <1>10. /\ k \in [Nodes -> Links] /\ RingOn(k, M \ {a})
         /\ k[a] = link[a] /\ link[a] \in LinksOfStarted
         /\ \A n \in Nodes : n \notin M => k[n] = link[n]
    BY <1>9 DEF Joined
  <1>11. \A n \in Nodes : n \notin M => ~Linked(n)
    BY <1>5, <1>8 DEF Members
  <1>12. Members' = M \ {a}
    <2>1. \A n \in Nodes : n \in M \ {a} \/ n \in Half' \/ ~Linked(n)'
      BY <1>5, <1>8, <1>10, <1>11 DEF Linked
    <2>2. RingOn(link', M \ {a}) /\ (M \ {a}) \cap Half' = {}
      BY <1>5, <1>8, <1>10
    <2>3. QED
      BY <2>1, <2>2, MembersAre
  <1>13. RingOn(link', Members')
    BY <1>8, <1>10, <1>12
  <1>14. \A n \in Nodes : \/ n \in Members' \/ n \in Half'
                          \/ link'[n] = [next |-> "NULL", previous |-> "NULL"]
                          \/ link'[n] = ToItself(n)
    BY <1>3, <1>5, <1>8, <1>10, <1>12 DEF AlarmLists
  <1>15. link'[thread'.alarm] \in LinksOfStarted
    BY <1>2, <1>4, <1>8, <1>10
  <1>16. ASSUME careful, NEW b \in Alarms, Linked(b)' PROVE Due(b)
    <2>1. Linked(b)
      <3>1. CASE b = a \/ b \notin M
        BY <1>8, <1>10, <1>16, <3>1 DEF Linked, Nodes
      <3>2. CASE b \in M
        BY <1>8, <3>2, HeadAssumption DEF Members
      <3>3. QED
        BY <3>1, <3>2
    <2>2. QED
      BY <1>2, <1>16, <2>1 DEF AlarmInv, AlarmTimes
  <1>17. thread'.pc \in {"insert", "self", "enable"} /\ thread'.pc # "insert"
    BY <1>2
  <1>18. link' \in [Nodes -> Links]
    BY <1>8, <1>10
  <1>19. QED
    BY <1>2, <1>13, <1>14, <1>15, <1>16, <1>17, <1>18, RelinkKeeps

\* The entry points to itself.
LEMMA RemoveSecondKeeps == AlarmInv /\ RemoveSecond => AlarmInv'
  <1> SUFFICES ASSUME AlarmInv, RemoveSecond PROVE AlarmInv'
    OBVIOUS
  <1>1. Relink("self", RemoveEntry(link, thread.alarm), "enable")
    BY DEF RemoveSecond
  <1>2. /\ thread.pc = "self" /\ isr.pc = "idle" /\ isr' = isr /\ ~pie /\ pie' = pie
        /\ UNCHANGED <<careful, rate, nticks, alarm, wait>>
        /\ link' = RemoveEntry(link, thread.alarm)
        /\ thread.alarm \in Alarms
        /\ thread' \in Threads /\ thread'.pc = "enable"
    BY <1>1, RelinkGoes DEF Closed
  <1>3. AlarmTypes /\ AlarmLists
    BY DEF AlarmInv
  <1>4. PICK a \in Alarms : a = thread.alarm
    BY <1>2
  <1>5. a \in Nodes /\ Half = {a} /\ Half' = {}
    BY <1>2, <1>4 DEF Nodes, Half
  <1>6. RingOn(link, Members) /\ link \in [Nodes -> Links] /\ a \notin Members
    BY <1>3, <1>5 DEF AlarmLists, AlarmTypes, Members
  <1>7. ToItself(a) \in Links /\ ToItself(a).next = a
    BY <1>5 DEF ToItself, Links
  <1>8. link' = [link EXCEPT ![a] = ToItself(a)]
    BY <1>2, <1>4 DEF RemoveEntry, ToItself
  <1>9. /\ link' \in [Nodes -> Links] /\ link'[a] = ToItself(a)
        /\ \A n \in Nodes : n # a => link'[n] = link[n]
    BY <1>5, <1>6, <1>7, <1>8
  <1>10. PICK M : M = Members
    OBVIOUS
  <1>11. RingOn(link', M)
    <2>1. \A n \in M : link'[n] = link[n]
      BY <1>6, <1>9, <1>10 DEF Members
    <2>2. QED
      BY <1>6, <1>10, <2>1, RingSame
  <1>12. Members' = M
    <2>1. \A n \in Nodes : n \in M \/ n \in Half' \/ ~Linked(n)'
      BY <1>5, <1>7, <1>9, <1>10 DEF Linked, Members
    <2>2. M \cap Half' = {}
      BY <1>5
    <2>3. QED
      BY <1>11, <2>1, <2>2, MembersAre
  <1>13. \A n \in Nodes : \/ n \in Members' \/ n \in Half'
                          \/ link'[n] = [next |-> "NULL", previous |-> "NULL"]
                          \/ link'[n] = ToItself(n)
    BY <1>3, <1>5, <1>9, <1>10, <1>12 DEF AlarmLists
  <1>14. ASSUME careful, NEW b \in Alarms, Linked(b)' PROVE Due(b)
    <2>1. Linked(b)
      BY <1>7, <1>9, <1>14 DEF Linked, Nodes
    <2>2. QED
      BY <1>2, <1>14, <2>1 DEF AlarmInv, AlarmTimes
  <1>15. thread'.pc \in {"insert", "self", "enable"} /\ thread'.pc # "insert"
         /\ thread'.pc # "self"
    BY <1>2
  <1>16. RingOn(link', Members')
    BY <1>11, <1>12
  <1>17. QED
    BY <1>2, <1>9, <1>13, <1>14, <1>15, <1>16, RelinkKeeps

-----------------------------------------------------------------------------
(* Alarms: the walk of alt_tick                                            *)

\* What the clock interrupt finds.
LEMMA InTick ==
  ASSUME AlarmInv, isr.pc \in {"walk", "callback"}
  PROVE  /\ thread.pc \in {"idle", "disable"} /\ Half = {} /\ ~pie
         /\ thread.pc \notin Closed /\ ListState(link, Members)
         /\ \A n \in Nodes : Started(n) => link[n].next \in Nodes /\ Started(link[n].next)
         /\ \A b \in Alarms : b \in Members <=> Linked(b)
  <1>1. AlarmTypes /\ AlarmLists
    BY DEF AlarmInv
  <1>2. thread.pc \notin Closed /\ ~pie
    BY <1>1 DEF AlarmLists
  <1>3. thread.pc \in {"idle", "disable"} \cup Closed
    BY <1>1, ThreadFields DEF AlarmTypes
  <1>4. thread.pc \in {"idle", "disable"} /\ Half = {}
    BY <1>2, <1>3 DEF Half, Closed
  <1>5. ListState(link, Members)
    BY <1>1, <1>4 DEF AlarmLists, AlarmTypes, ListState
  <1>6. ASSUME NEW n \in Nodes, Started(n) PROVE link[n].next \in Nodes /\ Started(link[n].next)
    <2>1. CASE n \in Members
      <3>1. link[n].next \in Members /\ link[link[n].next].next \in Members
            /\ Members \subseteq Nodes
        BY <1>5, <2>1 DEF ListState, RingOn
      <3>2. QED
        BY <3>1, NullAssumption DEF Started, Nodes
    <2>2. CASE link[n] = ToItself(n)
      BY <1>6, <2>2 DEF ToItself, Started
    <2>3. QED
      BY <1>5, <1>6, <2>1, <2>2 DEF ListState, Started
  <1>7. \A b \in Alarms : b \in Members <=> Linked(b)
    BY <1>4, HeadAssumption DEF Members, Nodes
  <1>8. QED
    BY <1>2, <1>4, <1>5, <1>6, <1>7

\* The walk leaves nothing but the entry it is at behind.
LEMMA RestGoesOn ==
  ASSUME NEW n \in Nodes, n # ListHead, link[n].next \in Nodes, NEW b, b # n, InRest(n, b)
  PROVE  InRest(link[n].next, b)
  <1> SUFFICES ASSUME NEW T \in SUBSET Nodes, link[n].next \in T,
                      \A m \in T : m # ListHead => link[m].next \in T
               PROVE  b \in T
    BY DEF InRest
  <1>1. T \cup {n} \in SUBSET Nodes /\ n \in T \cup {n}
        /\ \A m \in T \cup {n} : m # ListHead => link[m].next \in T \cup {n}
    OBVIOUS
  <1>2. b \in T \cup {n}
    BY <1>1 DEF InRest
  <1>3. QED
    BY <1>2

\* Whether the walk calls an alarm: if and only if it is due now.
LEMMA CalledIfDue ==
  ASSUME NEW m \in Nat \ {0}, NEW x \in 0 .. m - 1, NEW w \in 0 .. m - 1, NEW r \in BOOLEAN,
         r <=> x + w >= m
  PROVE  ((x + w) % m) <= x /\ ~r <=> w = 0
  <1>1. CASE r
    BY <1>1
  <1>2. CASE ~r
    <2>1. x + w < m
      BY <1>2
    <2>2. ((x + w) % m) = x + w
      BY <2>1, SumMod
    <2>3. QED
      BY <1>2, <2>2
  <1>3. QED
    BY <1>1, <1>2

\* An entry of the list is looked at.
LEMMA WalkKeeps == AlarmInv /\ Walk => AlarmInv'
  <1> SUFFICES ASSUME AlarmInv, Walk PROVE AlarmInv'
    OBVIOUS
  <1>1. AlarmTypes /\ AlarmLists /\ isr.pc = "walk" /\ isr.alarm # ListHead
    BY DEF AlarmInv, Walk
  <1>2. PICK a \in Alarms : a = isr.alarm
    BY <1>1, TickFields DEF AlarmTypes, Nodes
  <1>3. PICK r, next : r = (alarm[a].rollover /\ nticks # 0) /\ next = link[a].next
    OBVIOUS
  <1>4. r \in BOOLEAN
    BY <1>3
  <1>5. /\ alarm' = [alarm EXCEPT ![a].rollover = r]
        /\ UNCHANGED <<careful, rate, nticks, link, pie, thread, wait>>
        /\ isr' = IF alarm[a].time <= nticks /\ ~r
                  THEN [pc |-> "callback", alarm |-> a, next |-> next]
                  ELSE [pc |-> "walk", alarm |-> next]
    BY <1>2, <1>3 DEF Walk
  <1>6. /\ thread.pc \in {"idle", "disable"} /\ Half = {} /\ ~pie
        /\ thread.pc \notin Closed /\ ListState(link, Members)
        /\ \A n \in Nodes : Started(n) => link[n].next \in Nodes /\ Started(link[n].next)
        /\ \A b \in Alarms : b \in Members <=> Linked(b)
    BY <1>1, InTick
  <1>7. a \in Nodes /\ a # ListHead /\ Started(a) /\ next \in Nodes /\ Started(next)
    BY <1>1, <1>2, <1>3, <1>6 DEF Nodes, AlarmLists
  <1>8. /\ isr' \in Ticks /\ isr'.pc \in {"walk", "callback"}
        /\ isr'.pc = "callback" => isr'.alarm = a /\ isr'.next = next
        /\ isr'.pc = "walk" => isr'.alarm = next
    <2>1. CASE isr' = [pc |-> "callback", alarm |-> a, next |-> next]
      BY <1>7, <2>1 DEF Ticks
    <2>2. CASE isr' = [pc |-> "walk", alarm |-> next]
      BY <1>7, <2>2 DEF Ticks
    <2>3. QED
      BY <1>5, <2>1, <2>2
  <1>9. AlarmLists' /\ Members' = Members
    <2>1. /\ thread'.pc \in {"idle", "disable"} /\ thread'.pc \notin Closed
          /\ thread'.pc \notin {"insert", "self", "arm", "entry", "unlink"}
      BY <1>5, <1>6
    <2>2. /\ thread'.pc = "disable" /\ thread'.op = "start" => ~Linked(thread'.alarm)
          /\ thread'.pc = "disable" /\ thread'.op = "stop" => Started(thread'.alarm)
      BY <1>1, <1>5 DEF AlarmLists
    <2>3. Started(isr'.alarm) /\ (isr'.pc = "callback" => Started(isr'.next))
      BY <1>7, <1>8
    <2>4. ~pie' /\ isr'.pc # "idle"
      BY <1>5, <1>6, <1>8
    <2>5. QED
      BY <1>5, <1>6, <2>1, <2>2, <2>3, <2>4, SameLists
  <1>10. /\ alarm' \in [Alarms -> [time : 0 .. TickMod - 1, rollover : BOOLEAN]]
         /\ alarm'[a] = [time |-> alarm[a].time, rollover |-> r]
         /\ \A b \in Alarms : b # a => alarm'[b] = alarm[b]
    BY <1>1, <1>4, <1>5 DEF AlarmTypes
  <1>11. AlarmTypes'
    BY <1>1, <1>5, <1>8, <1>10, Zenon DEF AlarmTypes
  <1>12. ASSUME careful PROVE AlarmTimes'
    <2>1. AlarmTimes
      BY <1>12 DEF AlarmInv
    <2>2. a \in Members /\ Linked(a) /\ next \in Members
      BY <1>1, <1>2, <1>3, <1>6, <2>1 DEF AlarmTimes, ListState, RingOn
    <2>3. TickMod \in Nat \ {0} /\ nticks \in 0 .. TickMod - 1 /\ nticks' = nticks
      BY <1>1, <1>5, DelaysAssumption DEF AlarmTypes
    <2>4. Due(a) \/ ToCome(a, a)
      BY <1>1, <1>2, <2>1, <2>2 DEF AlarmTimes
    <2>5. Good(a) /\ (r <=> Wraps(a))
      <3>1. CASE Due(a)
        <4>1. Good(a) /\ (alarm[a].rollover <=> Wraps(a))
          BY <3>1 DEF Due
        <4>2. nticks = 0 => ~Wraps(a)
          BY <2>3, <4>1 DEF Good, Wraps
        <4>3. QED
          BY <1>3, <4>1, <4>2
      <3>2. CASE ToCome(a, a)
        BY <1>3, <3>2 DEF ToCome
      <3>3. QED
        BY <2>4, <3>1, <3>2
    <2>6. wait[a] \in 0 .. TickMod - 1 /\ alarm[a].time = ((nticks + wait[a]) % TickMod)
          /\ (r <=> nticks + wait[a] >= TickMod)
      BY <2>5 DEF Good, Wraps
    <2>7. alarm[a].time <= nticks /\ ~r <=> wait[a] = 0
      <3>1. ((nticks + wait[a]) % TickMod) <= nticks /\ ~r <=> wait[a] = 0
        BY <1>4, <2>3, <2>6, CalledIfDue
      <3>2. QED
        BY <2>6, <3>1
    <2>8. ASSUME NEW b \in Alarms, Linked(b)', b # a
          PROVE  Due(b)' \/ ToCome(next, b)'
      <3>1. Linked(b)
        BY <1>5, <2>8 DEF Linked
      <3>2. Due(b) \/ ToCome(a, b)
        BY <1>1, <1>2, <2>1, <3>1 DEF AlarmTimes
      <3>3. Due(b) => Due(b)'
        BY <1>5, <1>10, <2>8 DEF Due, Good, Wraps
      <3>4. ASSUME ToCome(a, b) PROVE ToCome(next, b)'
        <4>1. InRest(next, b)
          BY <1>3, <1>7, <2>8, <3>4, RestGoesOn DEF ToCome
        <4>2. InRest(next, b)'
          BY <1>5, <4>1 DEF InRest
        <4>3. QED
          BY <1>5, <1>10, <2>8, <3>4, <4>2 DEF ToCome, Good, Wraps
      <3>5. QED
        BY <3>2, <3>3, <3>4
    <2>9. thread'.pc # "entry"
      BY <1>5, <1>6
    <2>10. CASE wait[a] = 0
      <3>1. isr' = [pc |-> "callback", alarm |-> a, next |-> next]
        BY <1>5, <2>7, <2>10
      <3>2. isr'.pc = "callback" /\ isr'.alarm = a /\ isr'.next = next
        BY <3>1
      <3>3. ~r /\ ((nticks + wait[a]) % TickMod) = nticks
        BY <2>3, <2>6, <2>10, SumMod
      <3>4. alarm[a].time = nticks /\ r = FALSE
        BY <1>4, <2>6, <3>3
      <3>5. alarm'[a] = [time |-> nticks, rollover |-> FALSE]
        BY <1>10, <3>4
      <3>6. Linked(a)' /\ wait'[a] = 0 /\ next = link'[a].next /\ next \in Members'
        BY <1>3, <1>5, <1>9, <2>2, <2>10 DEF Linked
      <3>7. alarm'[isr'.alarm] = [time |-> nticks', rollover |-> FALSE]
        BY <2>3, <3>2, <3>5
      <3>8. Linked(isr.alarm)' /\ wait'[isr'.alarm] = 0 /\ isr'.next = link'[isr'.alarm].next
            /\ isr'.next \in Members'
        BY <3>2, <3>6 DEF Linked
      <3>9. \A b \in Alarms : Linked(b)' /\ b # isr'.alarm => Due(b)' \/ ToCome(isr.next, b)'
        BY <2>8, <3>2 DEF ToCome, InRest, Good, Wraps
      <3>10. isr'.pc \notin {"idle", "walk"}
        BY <3>2
      <3>11. QED
        BY <2>9, <3>7, <3>8, <3>9, <3>10 DEF AlarmTimes
    <2>11. CASE wait[a] # 0
      <3>1. isr' = [pc |-> "walk", alarm |-> next]
        BY <1>5, <2>7, <2>11
      <3>2. isr'.pc = "walk" /\ isr'.alarm = next
        BY <3>1
      <3>3. wait[a] > 0
        BY <2>6, <2>11
      <3>4. Due(a)'
        <4>1. alarm'[a].time = alarm[a].time /\ alarm'[a].rollover = r
          BY <1>10
        <4>2. Good(a)' /\ (Wraps(a)' <=> Wraps(a)) /\ wait'[a] > 0
          BY <1>5, <2>5, <3>3, <4>1 DEF Good, Wraps
        <4>3. QED
          BY <2>5, <4>1, <4>2 DEF Due
      <3>5. next \in Members'
        BY <1>9, <2>2
      <3>6. \A b \in Alarms : Linked(b)' => Due(b)' \/ ToCome(isr.alarm, b)'
        BY <2>8, <3>2, <3>4 DEF ToCome, InRest, Good, Wraps
      <3>7. QED
        BY <2>9, <3>2, <3>5, <3>6 DEF AlarmTimes
    <2>12. QED
      BY <2>10, <2>11
  <1>13. QED
    BY <1>5, <1>9, <1>11, <1>12 DEF AlarmInv

\* The links after a callback that stops alarms, and returns n.
AfterCallback(n, a, stops) ==
  LET l == IF stops = {} THEN link ELSE alt_llist_remove(link, CHOOSE b \in stops : TRUE)
  IN  IF n = 0 THEN alt_llist_remove(l, a) ELSE l

\* A step that takes alarms out of the ring M, a among them if n is 0, and no other
\* if stops holds no other.
TakesOut(M, n, a, stops) ==
  /\ \E R : /\ ListState(link', R) /\ R \subseteq M
            /\ (n = 0 => a \notin R)
            /\ (stops \subseteq {a} => M \ {a} \subseteq R)
  /\ \A m \in Nodes : Started(m) => Started(m)'
  /\ stops \subseteq {a} =>
       \A m \in Nodes : m # a => link'[m].next = link[m].next \/ link[m].next = a

\* The removals of a callback: of an alarm it stops, and of its own if it is done.
LEMMA CallbackRemoves ==
  ASSUME NEW M, ListState(link, M), NEW a \in Alarms, Started(a), NEW n,
         NEW stops \in SUBSET Alarms, \A b \in stops : link[b].next # "NULL",
         link' = AfterCallback(n, a, stops)
  PROVE  TakesOut(M, n, a, stops)
  <1> DEFINE b == CHOOSE b \in stops : TRUE
             l == IF stops = {} THEN link ELSE alt_llist_remove(link, b)
             Q == IF stops = {} THEN M ELSE M \ {b}
  <1>1. link' = IF n = 0 THEN alt_llist_remove(l, a) ELSE l
    BY DEF AfterCallback
  <1>2. /\ ListState(l, Q)
        /\ \A m \in Nodes : link[m].next # "NULL" => l[m].next # "NULL"
        /\ stops \subseteq {a} =>
             \A m \in Nodes : m # a => link[m].next = l[m].next \/ link[m].next = a
    <2>1. CASE stops = {}
      BY <2>1
    <2>2. CASE stops # {}
      <3>1. b \in stops
        BY <2>2
      <3>2. b \in Alarms /\ link[b].next # "NULL" /\ l = alt_llist_remove(link, b)
            /\ Q = M \ {b}
        BY <2>2, <3>1
      <3> HIDE DEF b, l, Q
      <3>3. /\ ListState(l, M \ {b})
            /\ \A m \in Nodes : link[m].next # "NULL" => l[m].next # "NULL"
            /\ \A m \in Nodes : m # b => link[m].next = l[m].next \/ link[m].next = b
        BY <3>2, RemoveAny
      <3>4. stops \subseteq {a} => b = a
        BY <3>1
      <3>5. QED
        BY <3>2, <3>3, <3>4
    <2>3. QED
      BY <2>1, <2>2
  <1>3. Q \subseteq M /\ (stops \subseteq {a} => M \ {a} \subseteq Q)
    <2>1. CASE stops = {}
      BY <2>1
    <2>2. CASE stops # {}
      <3>1. b \in stops
        BY <2>2
      <3>2. QED
        BY <2>2, <3>1
    <2>3. QED
      BY <2>1, <2>2
  <1> HIDE DEF b, l, Q
  <1>4. CASE n = 0
    <2>1. l[a].next # "NULL" /\ link' = alt_llist_remove(l, a)
      BY <1>1, <1>2, <1>4 DEF Started, Nodes
    <2>2. PICK k : k = link'
      OBVIOUS
    <2>3. /\ ListState(k, Q \ {a})
          /\ \A m \in Nodes : l[m].next # "NULL" => k[m].next # "NULL"
          /\ \A m \in Nodes : m # a => l[m].next = k[m].next \/ l[m].next = a
      BY <1>2, <2>1, <2>2, RemoveAny
    <2>4. Q \ {a} \subseteq M /\ a \notin Q \ {a}
          /\ (stops \subseteq {a} => M \ {a} \subseteq Q \ {a})
      BY <1>3
    <2>5. \A m \in Nodes : Started(m) => Started(m)'
      BY <1>2, <2>2, <2>3 DEF Started
    <2>6. stops \subseteq {a} =>
            \A m \in Nodes : m # a => k[m].next = link[m].next \/ link[m].next = a
      BY <1>2, <2>3
    <2>7. ListState(link', Q \ {a})
      BY <2>2, <2>3
    <2>8. QED
      BY <1>4, <2>2, <2>4, <2>5, <2>6, <2>7 DEF TakesOut
  <1>5. CASE n # 0
    <2>1. link' = l
      BY <1>1, <1>5
    <2>2. ListState(link', Q)
      BY <1>2, <2>1
    <2>3. \A m \in Nodes : Started(m) => Started(m)'
      BY <1>2, <2>1 DEF Started
    <2>4. stops \subseteq {a} =>
            \A m \in Nodes : m # a => link'[m].next = link[m].next \/ link[m].next = a
      BY <1>2, <2>1
    <2>5. QED
      BY <1>3, <1>5, <2>2, <2>3, <2>4 DEF TakesOut
  <1>6. QED
    BY <1>4, <1>5

\* The alarm is called, stops alarms, and is started again or ends.
LEMMA CallbackKeeps == AlarmInv /\ Callback => AlarmInv'
  <1> SUFFICES ASSUME AlarmInv, Callback PROVE AlarmInv'
    OBVIOUS
  <1>1. AlarmTypes /\ AlarmLists /\ isr.pc = "callback"
    BY DEF AlarmInv, Callback
  <1>2. PICK a \in Alarms, next \in Nodes : a = isr.alarm /\ next = isr.next
    BY <1>1, TickFields DEF AlarmTypes
  <1>3. PICK n \in Intervals, stops \in SUBSET (IF careful THEN {a} ELSE Alarms) :
          /\ \A b \in stops : link[b].next # "NULL"
          /\ link' = AfterCallback(n, a, stops)
          /\ alarm' = IF n = 0 THEN alarm
                      ELSE [alarm EXCEPT ![a] =
                              [time |-> (alarm[a].time + n) % TickMod,
                               rollover |-> @.rollover
                                            \/ ((alarm[a].time + n) % TickMod) < nticks]]
          /\ wait' = [wait EXCEPT ![a] = n]
          /\ isr' = [pc |-> "walk", alarm |-> next]
    BY <1>2 DEF Callback, AfterCallback
  <1>4. UNCHANGED <<careful, rate, nticks, pie, thread>>
    BY DEF Callback
  <1>5. PICK M : M = Members
    OBVIOUS
  <1>6. /\ thread.pc \in {"idle", "disable"} /\ Half = {} /\ ~pie
        /\ thread.pc \notin Closed /\ ListState(link, M)
        /\ \A b \in Alarms : b \in M <=> Linked(b)
    BY <1>1, <1>5, InTick
  <1>7. a \in Nodes /\ a # ListHead /\ Started(a) /\ Started(next)
    BY <1>1, <1>2, HeadAssumption DEF Nodes, AlarmLists
  <1>8. TakesOut(M, n, a, stops)
    <2>1. stops \in SUBSET Alarms
      BY <1>3
    <2>2. QED
      BY <1>3, <1>6, <1>7, <2>1, CallbackRemoves
  <1>9. PICK R : /\ ListState(link', R) /\ R \subseteq M
                 /\ (n = 0 => a \notin R)
                 /\ (stops \subseteq {a} => M \ {a} \subseteq R)
    BY <1>8 DEF TakesOut
  <1>10. Half' = {} /\ thread'.pc \in {"idle", "disable"} /\ thread'.pc \notin Closed
         /\ thread'.pc \notin {"insert", "self", "arm", "entry", "unlink"}
    BY <1>4, <1>6 DEF Half
  <1>11. \A m \in Nodes : m \in R \/ ~Linked(m)'
    BY <1>9 DEF ListState, Linked, ToItself
  <1>12. Members' = R
    <2>1. RingOn(link', R) /\ R \cap Half' = {}
      BY <1>9, <1>10 DEF ListState
    <2>2. QED
      BY <1>11, <2>1, MembersAre
  <1>13. \A b \in Alarms : Linked(b)' => b \in R
    BY <1>11 DEF Nodes
  <1>14. isr'.pc = "walk" /\ isr'.alarm = next /\ isr' \in Ticks
    BY <1>3 DEF Ticks
  <1>15. AlarmLists'
    <2>1. ~pie' /\ isr'.pc \notin {"idle", "callback"}
      BY <1>4, <1>6, <1>14
    <2>2. RingOn(link', Members')
      BY <1>9, <1>12 DEF ListState
    <2>3. \A m \in Nodes : \/ m \in Members' \/ m \in Half'
                           \/ link'[m] = [next |-> "NULL", previous |-> "NULL"]
                           \/ link'[m] = ToItself(m)
      BY <1>9, <1>12 DEF ListState
    <2>4. ASSUME thread'.pc = "disable", thread'.op = "start" PROVE ~Linked(thread.alarm)'
      <3>1. thread.alarm \in Alarms /\ ~Linked(thread.alarm)
        BY <1>1, <1>4, <2>4, ThreadFields DEF AlarmTypes, AlarmLists
      <3>2. thread.alarm \notin R
        BY <1>6, <1>9, <3>1
      <3>3. thread'.alarm \in Alarms /\ thread'.alarm \notin R
        BY <1>4, <3>1, <3>2
      <3>4. QED
        BY <1>13, <3>3 DEF Linked
    <2>5. ASSUME thread'.pc = "disable", thread'.op = "stop" PROVE Started(thread.alarm)'
      <3>1. thread.alarm \in Nodes /\ Started(thread.alarm)
        BY <1>1, <1>4, <2>5, ThreadFields DEF AlarmTypes, AlarmLists, Nodes
      <3>2. QED
        BY <1>4, <1>8, <3>1 DEF Started, TakesOut
    <2>6. Started(isr.alarm)'
      BY <1>7, <1>8, <1>14 DEF Started, TakesOut
    <2>7. QED
      BY <1>10, <2>1, <2>2, <2>3, <2>4, <2>5, <2>6 DEF AlarmLists
  <1>16. TickMod \in Nat \ {0} /\ nticks \in 0 .. TickMod - 1 /\ n \in 0 .. TickMod - 1
         /\ alarm[a].time \in 0 .. TickMod - 1
    BY <1>1, DelaysAssumption DEF AlarmTypes
  <1>17. PICK time, wraps : /\ time = ((alarm[a].time + n) % TickMod)
                            /\ wraps = (alarm[a].rollover \/ time < nticks)
    OBVIOUS
  <1>18. time \in 0 .. TickMod - 1
    BY <1>16, <1>17, SumMod
  <1>19. wraps \in BOOLEAN
    BY <1>17
  <1>20. alarm' = IF n = 0 THEN alarm
                  ELSE [alarm EXCEPT ![a] = [time |-> time, rollover |-> wraps]]
    BY <1>3, <1>17
  <1>21. /\ alarm' \in [Alarms -> [time : 0 .. TickMod - 1, rollover : BOOLEAN]]
         /\ (n # 0 => alarm'[a] = [time |-> time, rollover |-> wraps])
         /\ \A b \in Alarms : b # a => alarm'[b] = alarm[b]
    BY <1>1, <1>18, <1>19, <1>20 DEF AlarmTypes
  <1>22. wait' \in [Alarms -> Int] /\ wait'[a] = n /\ \A b \in Alarms : b # a => wait'[b] = wait[b]
    BY <1>1, <1>3, <1>16 DEF AlarmTypes
  <1>23. AlarmTypes'
    <2>1. link' \in [Nodes -> Links]
      BY <1>9 DEF ListState
    <2>2. QED
      BY <1>1, <1>4, <1>14, <1>21, <1>22, <2>1, Zenon DEF AlarmTypes
  <1>24. ASSUME careful PROVE AlarmTimes'
    <2>1. AlarmTimes /\ stops \subseteq {a}
      BY <1>3, <1>24 DEF AlarmInv
    <2>2. /\ next \in M /\ next = link[a].next /\ Linked(a)
          /\ alarm[a] = [time |-> nticks, rollover |-> FALSE]
      BY <1>1, <1>2, <1>5, <2>1 DEF AlarmTimes
    <2>3. next \in R
      BY <1>9, <2>1, <2>2 DEF Linked
    <2>4. ASSUME NEW b \in Alarms, Linked(b)', b # a PROVE Due(b)' \/ ToCome(next, b)'
      <3>1. Linked(b)
        BY <1>6, <1>9, <1>13, <2>4
      <3>2. Due(b) \/ ToCome(next, b)
        BY <1>1, <1>2, <2>1, <2>4, <3>1 DEF AlarmTimes
      <3>3. Due(b) => Due(b)'
        BY <1>4, <1>21, <1>22, <2>4 DEF Due, Good, Wraps
      <3>4. ASSUME ToCome(next, b) PROVE ToCome(next, b)'
        <4>1. ASSUME NEW T \in SUBSET Nodes, next \in T,
                     \A m \in T : m # ListHead => link'[m].next \in T
              PROVE  b \in T
          <5>1. T \cup {a} \in SUBSET Nodes /\ next \in T \cup {a}
            BY <1>7, <4>1
          <5>2. \A m \in T \cup {a} : m # ListHead => link[m].next \in T \cup {a}
            BY <1>8, <2>1, <2>2, <4>1 DEF TakesOut
          <5>3. b \in T \cup {a}
            BY <3>4, <5>1, <5>2 DEF ToCome, InRest
          <5>4. QED
            BY <2>4, <5>3
        <4>2. InRest(next, b)'
          BY <4>1 DEF InRest
        <4>3. QED
          BY <1>4, <1>21, <1>22, <2>4, <3>4, <4>2 DEF ToCome, Good, Wraps
      <3>5. QED
        BY <3>2, <3>3, <3>4
    <2>5. ASSUME Linked(a)' PROVE Due(a)'
      <3>1. n # 0 /\ n \in 1 .. TickMod - 1
        BY <1>9, <1>13, <1>16, <2>5
      <3>2. time = ((nticks + n) % TickMod) /\ (wraps <=> time < nticks)
        <4>1. alarm[a].time = nticks /\ alarm[a].rollover = FALSE
          BY <2>2
        <4>2. QED
          BY <1>17, <4>1
      <3>3. wraps <=> nticks + n >= TickMod
        BY <1>16, <3>1, <3>2, WrapMod
      <3>4. alarm'[a].time = time /\ alarm'[a].rollover = wraps
        BY <1>21, <3>1
      <3>5. Good(a)' /\ wait'[a] > 0
        BY <1>4, <1>16, <1>22, <3>1, <3>2, <3>4 DEF Good
      <3>6. Wraps(a)' <=> nticks + n >= TickMod
        BY <1>4, <1>22 DEF Wraps
      <3>7. QED
        BY <3>3, <3>4, <3>5, <3>6 DEF Due
    <2>6. \A b \in Alarms : Linked(b)' => Due(b)' \/ ToCome(isr.alarm, b)'
      BY <1>14, <2>4, <2>5 DEF ToCome, InRest, Good, Wraps
    <2>7. isr'.alarm \in Members'
      BY <1>12, <1>14, <2>3
    <2>8. QED
      BY <1>10, <1>14, <2>6, <2>7 DEF AlarmTimes
  <1>25. QED
    BY <1>4, <1>15, <1>23, <1>24 DEF AlarmInv

-----------------------------------------------------------------------------
(* Alarms: the theorems                                                    *)

\* The invariant holds at first.
LEMMA AlarmFirst == Init => AlarmInv
  <1> SUFFICES ASSUME Init PROVE AlarmInv
    OBVIOUS
  <1>1. /\ careful \in BOOLEAN /\ rate = 0 /\ nticks = 0
        /\ alarm = [a \in Alarms |-> [time |-> 0, rollover |-> FALSE]]
        /\ link = [n \in Nodes |-> IF n = ListHead
                                   THEN [next |-> ListHead, previous |-> ListHead]
                                   ELSE [next |-> "NULL", previous |-> "NULL"]]
        /\ pie = TRUE /\ thread = Idle /\ isr = Idle /\ wait = [a \in Alarms |-> 0]
    BY DEF Init
  <1>2. /\ thread \in Threads /\ isr \in Ticks /\ thread.pc = "idle" /\ isr.pc = "idle"
        /\ Half = {} /\ ListHead \in Nodes
    BY <1>1 DEF Idle, Threads, Ticks, Half, Nodes
  <1>3. AlarmTypes
    <2>1. nticks \in 0 .. TickMod - 1 /\ rate \in Nat
      BY <1>1, DelaysAssumption
    <2>2. alarm \in [Alarms -> [time : 0 .. TickMod - 1, rollover : BOOLEAN]]
      BY <1>1, <2>1
    <2>3. link \in [Nodes -> Links]
      BY <1>1, <1>2 DEF Links
    <2>4. pie \in BOOLEAN
      BY <1>1
    <2>5. wait \in [Alarms -> Int]
      BY <1>1
    <2>6. QED
      BY <1>1, <1>2, <2>1, <2>2, <2>3, <2>4, <2>5, Zenon DEF AlarmTypes
  <1>4. /\ link[ListHead].next = ListHead /\ link[ListHead].previous = ListHead
        /\ \A n \in Nodes : n # ListHead => link[n] = [next |-> "NULL", previous |-> "NULL"]
    BY <1>1, <1>2
  <1>5. \A n \in Nodes : n # ListHead => ~Linked(n)
    BY <1>4 DEF Linked
  <1>6. Members = {ListHead}
    BY <1>2, <1>5 DEF Members
  <1>7. RingOn(link, Members)
    BY <1>2, <1>4, <1>6 DEF RingOn
  <1>8. AlarmLists
    <2>1. pie <=> isr.pc = "idle" /\ thread.pc \in {"idle", "disable"}
      BY <1>1, <1>2
    <2>2. QED
      BY <1>2, <1>4, <1>6, <1>7, <2>1 DEF AlarmLists, Closed
  <1>9. AlarmTimes
    BY <1>2, <1>5, HeadAssumption DEF AlarmTimes, Nodes
  <1>10. QED
    BY <1>3, <1>8, <1>9 DEF AlarmInv

\* The invariant holds in every state of the services that exercises alarms.
LEMMA AlarmAlways == MCSpec => [](which = "alarm" => AlarmInv)
  <1> DEFINE P == which = "alarm" => AlarmInv
  <1>1. MCInit => P
    BY AlarmFirst DEF MCInit
  <1>2. P /\ [MCNext]_vars => P'
    <2> SUFFICES ASSUME P, [MCNext]_vars, which' = "alarm" PROVE AlarmInv'
      OBVIOUS
    <2>1. CASE which = "alarm" /\ Next
      BY <2>1, CallsKeep, DisableKeeps, ArmKeeps, InsertFirstKeeps, InsertSecondKeeps,
         RemoveFirstKeeps, RemoveSecondKeeps, EnableKeeps, TickKeeps, WalkKeeps,
         CallbackKeeps, TickEndKeeps DEF Next
    <2>2. CASE which' = which /\ UNCHANGED alarmVars
      BY <2>2 DEF alarmVars, AlarmInv, AlarmTypes, AlarmLists, AlarmTimes, Members, Half,
                  Linked, Started, Due, Good, Wraps, ToCome, InRest
    <2>3. QED
      BY <2>1, <2>2 DEF MCNext, vars
  <1>3. QED
    BY <1>1, <1>2, PTL DEF MCSpec

\* The ring of running alarms is never broken, whatever the clock interrupts, and
\* even by callbacks that stop other alarms.
THEOREM AlarmListIsIntact == MCSpec => []AlarmList
  <1>1. (which = "alarm" => AlarmInv) => AlarmList
    <2> SUFFICES ASSUME AlarmInv, thread.pc \in {"idle", "disable"} PROVE ListIntact
      BY DEF AlarmList, ListIntact
    <2>1. Half = {}
      BY DEF Half
    <2>2. Members = {n \in Nodes : n = ListHead \/ Linked(n)}
      BY <2>1 DEF Members
    <2>3. RingOn(link, {n \in Nodes : n = ListHead \/ Linked(n)})
      BY <2>2 DEF AlarmInv, AlarmLists
    <2>4. QED
      BY <2>3 DEF ListIntact, RingOn
  <1>2. QED
    BY <1>1, AlarmAlways, PTL

\* If callbacks stop no alarm but their own, every running alarm is called in the
\* tick it is due, across every wrap of the clock, and no other is called.
THEOREM AlarmsAreOnTime == MCSpec => []AlarmOnTime
  <1>1. (which = "alarm" => AlarmInv) => AlarmOnTime
    BY DEF AlarmInv, AlarmTimes, AlarmOnTime, OnTime, Due
  <1>2. QED
    BY <1>1, AlarmAlways, PTL

-----------------------------------------------------------------------------
(* The heap and the profiler: the inductive invariant                      *)

Names == Functions \cup InterruptFns \cup {"none"}
Addresses == 0 .. HeapLimit
Entries == [addr : Addresses, self : Names]
FromNames == Callers \cup {"none"}
Recording == {"fn", "cutfn", "linkfn", "arc", "cutarc", "linkarc", "enable"}
LookedUp == {"init", "clear", "sampler", "disable"}

HeapRecords == [end : Nat, limit : Int, reported : BOOLEAN]
SlabRecords == [ptr : Int, size : Nat]
ListRecords == [fns : Seq(Entries), arcs : [Addresses -> Seq(FromNames)]]
SamplerRecords == [need_init : BOOLEAN, samples : Int, rate : Nat]
ActorRecords ==
  [pc : {"ready", "call", "return"} \cup LookedUp \cup Recording,
   fn : Names, caller : FromNames, entry : Int, saved : BOOLEAN, data : Int,
   rest : Seq(Entries) \cup Seq(FromNames)]
GhostRecords ==
  [pieces : SUBSET [lo : Nat, hi : Nat], overlap : BOOLEAN,
   taken : SUBSET (Names \X FromNames), sampled : SUBSET Int,
   odd : BOOLEAN, wild : BOOLEAN]

HeapTypes ==
  /\ heap \in HeapRecords
  /\ slab \in SlabRecords
  /\ lists \in ListRecords
  /\ sampler \in SamplerRecords
  /\ heap_pie \in BOOLEAN
  /\ frame \in [Heap!Actors -> ActorRecords]
  /\ ghost \in GhostRecords

\* A thread that extends the lists is not interrupted.
HeapLock ==
  frame["thread"].pc \in Recording => ~heap_pie /\ frame["interrupt"] = Heap!Ready

\* What was handed out is below the end of the heap and nobody else's.
HeapPieces ==
  /\ ~ghost.overlap
  /\ \A p \in ghost.pieces : p.hi <= heap.end

\* The rest of the slab is in the heap and nobody else's.
HeapSlab ==
  ~ghost.wild =>
    /\ slab.ptr \in Nat
    /\ slab.ptr + slab.size <= HeapLimit
    /\ slab.ptr + slab.size <= heap.end
    /\ \A p \in ghost.pieces : p.hi <= slab.ptr \/ slab.ptr + slab.size <= p.lo

\* Who is about to cut an entry from the slab has found it large enough, and
\* nobody has cut from it since.
HeapCut ==
  ~ghost.wild =>
    \A x \in Heap!Actors :
      frame[x].pc \in {"cutfn", "cutarc"} =>
        frame[x].data = slab.ptr /\ slab.size >= EntrySize

\* The entry of actor f is in the list, for its function.
InList(f, fns) == \E i \in DOMAIN fns : fns[i].addr = f.entry /\ fns[i].self = f.fn

HeapEntry ==
  \A x \in Heap!Actors :
    /\ frame[x].pc \in LookedUp => frame[x].entry = Heap!Failed \/ InList(frame[x], lists.fns)
    /\ frame[x].pc \in {"arc", "cutarc", "linkarc"} => InList(frame[x], lists.fns)

\* Who is about to link an entry at the head of a list has the whole list for
\* the rest.
HeapLink ==
  \A x \in Heap!Actors :
    /\ frame[x].pc = "linkfn" => frame[x].data \in Addresses /\ frame[x].rest = lists.fns
    /\ frame[x].pc = "linkarc" => frame[x].rest = lists.arcs[frame[x].entry]

\* The histogram was handed out, with a bucket for every BucketSize bytes.
HeapSamples ==
  sampler.samples # Heap!Failed =>
    \E p \in ghost.pieces :
      p.lo = sampler.samples /\ p.hi = sampler.samples + (TextSize \div BucketSize)

Whole(n) == \E k \in Int : n = Align * k

\* The stack is watched: its limit is the end of the heap, at a word, and an
\* overflow was reported.
Watched(h) ==
  /\ Whole(h.end)
  /\ h.limit = h.end
  /\ h.end < StackPointer \/ h.reported

\* While only whole words were asked for, it is.
HeapStack == ghost.odd \/ Watched(heap)

HeapInv ==
  /\ HeapTypes /\ HeapLock /\ HeapPieces /\ HeapSlab /\ HeapCut /\ HeapEntry /\ HeapLink
  /\ HeapSamples /\ Heap!SamplesKept /\ HeapStack /\ Heap!ArcsKept

\* Division with remainder.
LEMMA Division ==
  ASSUME NEW a \in Int, NEW d \in Nat \ {0}
  PROVE  /\ a = d * (a \div d) + (a % d)
         /\ a % d \in 0 .. d - 1
         /\ a \div d \in Int
         /\ a \in Nat => a \div d \in Nat
  OBVIOUS

\* A larger multiple is larger by the factor or more.
LEMMA BehindMultiple ==
  ASSUME NEW d \in Nat, NEW q \in Nat, NEW k \in Nat, k > q
  PROVE  d * k >= d * q + d
  <1>1. PICK n \in Nat : k = q + 1 + n
    <2>1. k - q - 1 \in Nat
      OBVIOUS
    <2>2. k = q + 1 + (k - q - 1)
      OBVIOUS
    <2>3. QED
      BY <2>1, <2>2
  <1>2. d * k = d * q + d + d * n
    BY <1>1
  <1>3. d * q \in Nat /\ d * n \in Nat
    BY <1>1
  <1>4. QED
    BY <1>2, <1>3

\* Rounding up to a word goes up, to a word, and leaves one where it is.
LEMMA AlignedUp ==
  ASSUME NEW a \in Nat
  PROVE  /\ Heap!Aligned(a) \in Nat
         /\ Heap!Aligned(a) >= a
         /\ Whole(Heap!Aligned(a))
         /\ Whole(a) => Heap!Aligned(a) = a
  <1>1. Align \in Nat /\ Align > 0 /\ Align \in Nat \ {0}
    BY HeapAssumption
  <1>2. PICK m : m = a + Align - 1
    OBVIOUS
  <1>3. PICK q : q = m \div Align
    OBVIOUS
  <1>4. PICK r : r = m % Align
    OBVIOUS
  <1>5. m \in Int /\ q \in Int /\ r \in 0 .. Align - 1 /\ m = Align * q + r
    BY <1>1, <1>2, <1>3, <1>4, Division
  <1>6. Heap!Aligned(a) = q * Align
    BY <1>1, <1>2, <1>3 DEF Heap!Aligned
  <1>7. q * Align = Align * q /\ Align * q \in Int
    BY <1>1, <1>5
  <1>8. Align * q = a + Align - 1 - r
    BY <1>1, <1>2, <1>5, <1>7
  <1>9. Align * q >= a
    BY <1>1, <1>5, <1>8
  <1>10. ASSUME NEW k \in Int, a = Align * k PROVE q = k
    <2>1. Align * q = Align * k + Align - 1 - r
      BY <1>1, <1>8, <1>10
    <2>2. CASE q < k
      <3>1. k - q \in Nat /\ k - q >= 1
        BY <1>5, <2>2
      <3>2. Align * (k - q) >= Align
        BY <1>1, <3>1
      <3>3. QED
        BY <1>1, <1>5, <2>1, <3>2
    <2>3. CASE q > k
      <3>1. q - k \in Nat /\ q - k >= 1
        BY <1>5, <2>3
      <3>2. Align * (q - k) >= Align
        BY <1>1, <3>1
      <3>3. QED
        BY <1>1, <1>5, <2>1, <3>2
    <2>4. QED
      BY <1>5, <2>2, <2>3
  <1>11. QED
    BY <1>5, <1>6, <1>7, <1>9, <1>10 DEF Whole

\* sbrk fails, or hands out what lies above the old end of the heap and below the
\* limit; the end of the heap never goes down.
LEMMA SbrkGives ==
  ASSUME NEW h \in HeapRecords, NEW n \in Nat, NEW k, k = Heap!ALT_SBRK(h, n)
  PROVE  /\ k.heap \in HeapRecords
         /\ k.heap.end >= h.end
         /\ k.ret \in Int
         /\ \/ k.ret = Heap!Failed
            \/ /\ k.ret \in Nat
               /\ k.ret # Heap!Failed
               /\ k.ret >= h.end
               /\ k.heap.end = k.ret + n
               /\ k.ret + n <= HeapLimit
  <1>1. PICK prev : prev = Heap!Aligned(h.end)
    OBVIOUS
  <1>2. h.end \in Nat
    BY DEF HeapRecords
  <1>3. prev \in Nat /\ prev >= h.end
    BY <1>1, <1>2, AlignedUp
  <1>4. CASE prev + n > HeapLimit
    <2>1. k = [heap |-> [h EXCEPT !.end = prev], ret |-> Heap!Failed]
      BY <1>1, <1>4 DEF Heap!ALT_SBRK
    <2>2. QED
      BY <1>3, <2>1 DEF HeapRecords, Heap!Failed
  <1>5. CASE ~(prev + n > HeapLimit)
    <2>1. PICK g : g = [h EXCEPT !.end = prev + n]
      OBVIOUS
    <2>2. g \in HeapRecords /\ g.end = prev + n
      BY <1>3, <2>1 DEF HeapRecords
    <2>3. k = [heap |-> Heap!StackCheck(g, prev), ret |-> prev]
      BY <1>1, <1>5, <2>1 DEF Heap!ALT_SBRK
    <2>4. Heap!StackCheck(g, prev) \in HeapRecords /\ Heap!StackCheck(g, prev).end = prev + n
      <3>1. PICK w : w = IF StackPointer <= g.end THEN [g EXCEPT !.reported = TRUE] ELSE g
        OBVIOUS
      <3>2. w \in HeapRecords /\ w.end = g.end
        BY <2>2, <3>1 DEF HeapRecords
      <3>3. \/ Heap!StackCheck(g, prev) = g
            \/ Heap!StackCheck(g, prev) = [w EXCEPT !.limit = g.end]
        BY <3>1 DEF Heap!StackCheck, Heap!alt_stack_limit, Heap!alt_set_stack_limit,
           Heap!alt_report_stack_overflow
      <3>4. PICK v : v = [w EXCEPT !.limit = g.end]
        OBVIOUS
      <3>5. v \in HeapRecords /\ v.end = g.end
        BY <2>2, <3>2, <3>4 DEF HeapRecords
      <3>6. QED
        BY <2>2, <3>3, <3>4, <3>5
    <2>5. k.heap \in HeapRecords /\ k.heap.end = prev + n /\ k.ret = prev
      BY <2>3, <2>4
    <2>6. prev + n <= HeapLimit /\ prev # -1
      BY <1>3, <1>5, HeapAssumption
    <2>7. QED
      BY <1>2, <1>3, <2>5, <2>6 DEF Heap!Failed
  <1>6. QED
    BY <1>4, <1>5

\* A sum of whole words is one.
LEMMA WholeSum ==
  ASSUME NEW a \in Int, NEW b \in Int, Whole(a), Whole(b)
  PROVE  Whole(a + b)
  <1>1. PICK i \in Int : a = Align * i
    BY DEF Whole
  <1>2. PICK j \in Int : b = Align * j
    BY DEF Whole
  <1>3. a + b = Align * (i + j) /\ i + j \in Int
    BY <1>1, <1>2, HeapAssumption
  <1>4. QED
    BY <1>3 DEF Whole

\* What leaves no remainder is a whole number of words.
LEMMA WholeIf ==
  ASSUME NEW n \in Nat, n % Align = 0
  PROVE  Whole(n)
  <1>1. n = Align * (n \div Align) + (n % Align) /\ n \div Align \in Int
    BY HeapAssumption, Division
  <1>2. Align * (n \div Align) \in Int
    BY <1>1, HeapAssumption
  <1>3. n = Align * (n \div Align)
    BY <1>1, <1>2
  <1>4. QED
    BY <1>1, <1>3 DEF Whole

\* sbrk goes on watching the stack when it is asked for whole words.
LEMMA SbrkWatches ==
  ASSUME NEW h \in HeapRecords, NEW n \in Nat, NEW k, k = Heap!ALT_SBRK(h, n),
         Watched(h), k.ret = Heap!Failed \/ Whole(n)
  PROVE  Watched(k.heap)
  <1>1. PICK prev : prev = Heap!Aligned(h.end)
    OBVIOUS
  <1>2. h.end \in Nat
    BY DEF HeapRecords
  <1>3. prev = h.end
    BY <1>1, <1>2, AlignedUp DEF Watched
  <1>4. CASE prev + n > HeapLimit
    <2>1. k = [heap |-> [h EXCEPT !.end = prev], ret |-> Heap!Failed]
      BY <1>1, <1>4 DEF Heap!ALT_SBRK
    <2>2. k.heap = h
      BY <1>3, <2>1 DEF HeapRecords
    <2>3. QED
      BY <2>2
  <1>5. CASE ~(prev + n > HeapLimit)
    <2>1. PICK g : g = [h EXCEPT !.end = prev + n]
      OBVIOUS
    <2>2. g \in HeapRecords /\ g.end = prev + n /\ g.limit = h.limit
      BY <1>2, <1>3, <2>1 DEF HeapRecords
    <2>3. k = [heap |-> Heap!StackCheck(g, prev), ret |-> prev]
      BY <1>1, <1>5, <2>1 DEF Heap!ALT_SBRK
    <2>4. g.limit = prev
      BY <1>3, <2>2 DEF Watched
    <2>5. PICK w : w = IF StackPointer <= g.end THEN [g EXCEPT !.reported = TRUE] ELSE g
      OBVIOUS
    <2>6. k.heap = [w EXCEPT !.limit = g.end]
      BY <2>3, <2>4, <2>5 DEF Heap!StackCheck, Heap!alt_stack_limit, Heap!alt_set_stack_limit,
         Heap!alt_report_stack_overflow
    <2>7. w \in HeapRecords /\ w.end = g.end /\ (StackPointer <= g.end => w.reported)
      BY <2>2, <2>5 DEF HeapRecords
    <2>8. /\ k.heap.end = g.end
          /\ k.heap.limit = g.end
          /\ StackPointer <= g.end => k.heap.reported
      BY <2>6, <2>7 DEF HeapRecords
    <2>9. Whole(n)
      <3>1. k.ret = prev /\ prev # -1
        BY <1>2, <1>3, <2>3
      <3>2. QED
        BY <3>1 DEF Heap!Failed
    <2>10. Whole(g.end)
      <3>1. Whole(prev) /\ prev \in Int /\ n \in Int
        BY <1>2, <1>3 DEF Watched
      <3>2. QED
        BY <3>1, <2>2, <2>9, WholeSum
    <2>11. StackPointer <= g.end \/ g.end < StackPointer
      BY <1>2, <1>3, <2>2, HeapAssumption
    <2>12. QED
      BY <2>8, <2>10, <2>11 DEF Watched
  <1>6. QED
    BY <1>4, <1>5

\* Memory that nobody has is handed out.
LEMMA TakeApart ==
  ASSUME NEW g \in GhostRecords, NEW a \in Nat, NEW size \in Nat, a + size <= HeapLimit,
         \A p \in g.pieces : p.hi <= a \/ a + size <= p.lo,
         ~g.overlap, NEW t, t = Heap!Take(g, a, size)
  PROVE  /\ t \in GhostRecords
         /\ t.pieces = g.pieces \cup {[lo |-> a, hi |-> a + size]}
         /\ ~t.overlap
         /\ t.taken = g.taken
         /\ t.sampled = g.sampled
         /\ t.odd = g.odd
         /\ t.wild = g.wild
  <1>1. ~(a + size > HeapLimit)
    BY HeapAssumption
  <1>2. ASSUME NEW p \in g.pieces PROVE ~(p.lo < a + size /\ a < p.hi)
    <2>1. p.lo \in Nat /\ p.hi \in Nat
      BY DEF GhostRecords
    <2>2. QED
      BY <2>1
  <1>3. (g.overlap \/ a + size > HeapLimit
                   \/ \E p \in g.pieces : p.lo < a + size /\ a < p.hi) = FALSE
    BY <1>1, <1>2
  <1>4. t = [g EXCEPT !.pieces = g.pieces \cup {[lo |-> a, hi |-> a + size]},
                      !.overlap = FALSE]
    BY <1>3 DEF Heap!Take, GhostRecords
  <1>5. g.pieces \cup {[lo |-> a, hi |-> a + size]} \in SUBSET [lo : Nat, hi : Nat]
    BY DEF GhostRecords
  <1>6. QED
    BY <1>4, <1>5 DEF GhostRecords

\* The fields of what an actor is doing.
LEMMA ActorFields ==
  ASSUME NEW f \in ActorRecords
  PROVE  /\ f.pc \in {"ready", "call", "return"} \cup LookedUp \cup Recording
         /\ f.fn \in Names
         /\ f.caller \in FromNames
         /\ f.entry \in Int
         /\ f.saved \in BOOLEAN
         /\ f.data \in Int
         /\ f.rest \in Seq(Entries) \cup Seq(FromNames)
         /\ f = [pc |-> f.pc, fn |-> f.fn, caller |-> f.caller, entry |-> f.entry,
                 saved |-> f.saved, data |-> f.data, rest |-> f.rest]
  BY DEF ActorRecords

\* The actor that steps, and the other.
LEMMA ActorStep ==
  ASSUME HeapTypes, NEW x \in Heap!Actors, NEW f \in ActorRecords,
         frame' = [frame EXCEPT ![x] = f]
  PROVE  /\ frame' \in [Heap!Actors -> ActorRecords]
         /\ frame'[x] = f
         /\ \A y \in Heap!Actors : y # x => frame'[y] = frame[y]
  BY DEF HeapTypes

\* A step that changes only where the actor is.
LEMMA ActorGoes ==
  ASSUME HeapTypes, NEW x \in Heap!Actors, NEW to,
         to \in {"ready", "call", "return"} \cup LookedUp \cup Recording,
         Heap!Goes(x, to)
  PROVE  \E f \in ActorRecords :
           /\ frame' = [frame EXCEPT ![x] = f]
           /\ f.pc = to
           /\ f.fn = frame[x].fn
           /\ f.caller = frame[x].caller
           /\ f.entry = frame[x].entry
           /\ f.saved = frame[x].saved
           /\ f.data = frame[x].data
           /\ f.rest = frame[x].rest
  <1>1. frame[x] \in ActorRecords
    BY DEF HeapTypes
  <1>2. PICK f : f = [frame[x] EXCEPT !.pc = to]
    OBVIOUS
  <1>3. f \in ActorRecords
    BY <1>1, <1>2 DEF ActorRecords
  <1>4. /\ f.pc = to
        /\ f.fn = frame[x].fn
        /\ f.caller = frame[x].caller
        /\ f.entry = frame[x].entry
        /\ f.saved = frame[x].saved
        /\ f.data = frame[x].data
        /\ f.rest = frame[x].rest
    BY <1>1, <1>2 DEF ActorRecords
  <1>5. frame' = [frame EXCEPT ![x] = f]
    BY <1>2 DEF Heap!Goes
  <1>6. QED
    BY <1>3, <1>4, <1>5

\* The state of the other actor: it extends no list.
LEMMA OtherIsOut ==
  ASSUME HeapInv, NEW x \in Heap!Actors, NEW at, Heap!At(x, at), at = "ready" => x = "thread",
         NEW y \in Heap!Actors, y # x
  PROVE  frame[y].pc \notin Recording
  <1>1. CASE x = "thread"
    <2>1. y = "interrupt" /\ frame["interrupt"] = Heap!Ready
      BY <1>1 DEF Heap!At, Heap!Actors
    <2>2. QED
      BY <2>1 DEF Heap!Ready, Recording
  <1>2. CASE x = "interrupt"
    <2>1. y = "thread" /\ frame["interrupt"] # Heap!Ready
      BY <1>2 DEF Heap!At, Heap!Actors, Heap!Ready
    <2>2. QED
      BY <2>1 DEF HeapInv, HeapLock
  <1>3. QED
    BY <1>1, <1>2 DEF Heap!Actors

\* The lock is kept by an actor that was let in.
LEMMA LockKept ==
  ASSUME HeapInv, NEW x \in Heap!Actors, NEW at, Heap!At(x, at), at = "ready" => x = "thread",
         NEW f \in ActorRecords, frame' = [frame EXCEPT ![x] = f],
         x = "thread" /\ f.pc \in Recording => ~heap_pie'
  PROVE  HeapLock'
  <1>1. /\ frame'[x] = f
        /\ \A y \in Heap!Actors : y # x => frame'[y] = frame[y]
    BY ActorStep DEF HeapInv
  <1>2. CASE x = "thread"
    <2>1. frame'["interrupt"] = frame["interrupt"] /\ frame["interrupt"] = Heap!Ready
      BY <1>1, <1>2 DEF Heap!At, Heap!Actors
    <2>2. QED
      BY <1>1, <1>2, <2>1 DEF HeapLock, Heap!Ready
  <1>3. CASE x = "interrupt"
    <2>1. frame'["thread"] = frame["thread"] /\ frame["thread"].pc \notin Recording
      BY <1>1, <1>3, OtherIsOut DEF Heap!Actors
    <2>2. QED
      BY <2>1 DEF HeapLock
  <1>4. QED
    BY <1>2, <1>3 DEF Heap!Actors

\* A step of actor x that leaves memory and lists alone.
LEMMA QuietActor ==
  ASSUME HeapInv, NEW x \in Heap!Actors, NEW f \in ActorRecords,
         frame' = [frame EXCEPT ![x] = f],
         UNCHANGED <<heap, slab, lists, ghost>>,
         sampler' \in SamplerRecords, sampler'.samples = sampler.samples,
         heap_pie' \in BOOLEAN, HeapLock',
         f.pc \notin {"cutfn", "cutarc", "linkfn", "linkarc"},
         f.pc \in LookedUp => f.entry = Heap!Failed \/ InList(f, lists.fns),
         f.pc = "arc" => InList(f, lists.fns)
  PROVE  HeapInv'
  <1>1. /\ frame' \in [Heap!Actors -> ActorRecords]
        /\ frame'[x] = f
        /\ \A y \in Heap!Actors : y # x => frame'[y] = frame[y]
    BY ActorStep DEF HeapInv
  <1>2. HeapTypes'
    BY <1>1 DEF HeapInv, HeapTypes
  <1>3. HeapPieces' /\ HeapSlab' /\ Heap!SamplesKept' /\ HeapStack' /\ Heap!ArcsKept'
    BY DEF HeapInv, HeapPieces, HeapSlab, Heap!SamplesKept, HeapStack, Watched, Heap!ArcsKept
  <1>4. HeapSamples'
    BY DEF HeapInv, HeapSamples
  <1>5. HeapCut'
    BY <1>1 DEF HeapInv, HeapCut
  <1>6. HeapEntry'
    <2> SUFFICES ASSUME NEW y \in Heap!Actors
                 PROVE  /\ frame'[y].pc \in LookedUp =>
                             frame'[y].entry = Heap!Failed \/ InList(frame'[y], lists.fns)
                        /\ frame'[y].pc \in {"arc", "cutarc", "linkarc"} =>
                             InList(frame'[y], lists.fns)
      BY DEF HeapEntry, InList
    <2>1. CASE y = x
      BY <1>1, <2>1
    <2>2. CASE y # x
      BY <1>1, <2>2 DEF HeapInv, HeapEntry
    <2>3. QED
      BY <2>1, <2>2
  <1>7. HeapLink'
    BY <1>1 DEF HeapInv, HeapLink
  <1>8. QED
    BY <1>2, <1>3, <1>4, <1>5, <1>6, <1>7 DEF HeapInv

\* The processor takes an interrupt.
LEMMA InterruptKeeps == HeapInv /\ Heap!Interrupt => HeapInv'
  <1> SUFFICES ASSUME HeapInv, Heap!Interrupt PROVE HeapInv'
    OBVIOUS
  <1>1. "interrupt" \in Heap!Actors
    BY DEF Heap!Actors
  <1>2. PICK f \in ActorRecords : frame' = [frame EXCEPT !["interrupt"] = f] /\ f.pc = "call"
    BY <1>1, ActorGoes DEF HeapInv, Heap!Interrupt
  <1>3. HeapLock'
    <2>1. frame'["thread"] = frame["thread"]
      BY <1>1, <1>2, ActorStep DEF HeapInv, Heap!Actors
    <2>2. frame["thread"].pc \notin Recording
      BY DEF HeapInv, HeapLock, Heap!Interrupt
    <2>3. QED
      BY <2>1, <2>2 DEF HeapLock
  <1>4. heap_pie' \in BOOLEAN /\ sampler' = sampler /\ UNCHANGED <<heap, slab, lists, ghost>>
    BY DEF Heap!Interrupt
  <1>5. sampler' \in SamplerRecords /\ sampler'.samples = sampler.samples
    BY <1>4 DEF HeapInv, HeapTypes
  <1>6. f.pc \notin {"cutfn", "cutarc", "linkfn", "linkarc"} \cup LookedUp /\ f.pc # "arc"
    BY <1>2 DEF LookedUp
  <1>7. QED
    BY <1>1, <1>2, <1>3, <1>4, <1>5, <1>6, QuietActor

\* mcount looks the function up, as it is then.
LEMMA McountKeeps ==
  ASSUME HeapInv, NEW x \in Heap!Actors, Heap!Mcount(x)
  PROVE  HeapInv'
  <1> DEFINE Mine(f) == {i \in DOMAIN lists.fns : lists.fns[i].self = f}
             Entry(f) == IF Mine(f) = {} THEN Heap!Failed
                         ELSE lists.fns[CHOOSE i \in Mine(f) : \A j \in Mine(f) : i <= j].addr
             Known(f, c) == Mine(f) # {} /\ \E i \in DOMAIN lists.arcs[Entry(f)] :
                                              lists.arcs[Entry(f)][i] = c
  <1>1. PICK f \in Functions \cup InterruptFns, c \in Callers :
          frame' = [frame EXCEPT ![x] =
            IF Known(f, c) THEN [frame[x] EXCEPT !.pc = "return"]
            ELSE [frame[x] EXCEPT !.pc = "init", !.fn = f, !.caller = c, !.entry = Entry(f)]]
    BY Zenon DEF Heap!Mcount
  <1>2. PICK mine : mine = Mine(f)
    OBVIOUS
  <1>3. PICK entry : entry = Entry(f)
    <2> HIDE DEF Entry
    <2>1. QED
      OBVIOUS
  <1>4. PICK g : g = [frame[x] EXCEPT !.pc = "return"]
    OBVIOUS
  <1>5. PICK h : h = [frame[x] EXCEPT !.pc = "init", !.fn = f, !.caller = c, !.entry = entry]
    OBVIOUS
  <1>6. frame[x] \in ActorRecords /\ lists.fns \in Seq(Entries)
    BY DEF HeapInv, HeapTypes, ListRecords
  <1>7. \/ entry = Heap!Failed
        \/ \E i \in DOMAIN lists.fns : lists.fns[i].addr = entry /\ lists.fns[i].self = f
    <2>1. CASE mine = {}
      BY <1>2, <1>3, <2>1
    <2>2. CASE mine # {}
      <3>1. mine \in SUBSET Nat
        BY <1>2, <1>6
      <3>2. PICK i \in mine : \A j \in mine : i <= j
        BY <2>2, <3>1, LeastNumber
      <3>3. PICK k : k = CHOOSE i_1 \in mine : \A j \in mine : i_1 <= j
        OBVIOUS
      <3>4. k \in mine
        BY <3>2, <3>3
      <3>5. entry = lists.fns[k].addr
        BY <1>2, <1>3, <2>2, <3>3
      <3>6. k \in DOMAIN lists.fns /\ lists.fns[k].self = f
        BY <1>2, <3>4
      <3>7. QED
        BY <3>5, <3>6
    <2>3. QED
      BY <2>1, <2>2
  <1>8. entry \in Int
    <2>1. \A i \in DOMAIN lists.fns : lists.fns[i] \in Entries
      BY <1>6
    <2>2. \A i \in DOMAIN lists.fns : lists.fns[i].addr \in Int
      BY <2>1, HeapAssumption DEF Entries, Addresses
    <2>3. Heap!Failed \in Int
      BY DEF Heap!Failed
    <2>4. QED
      BY <1>7, <2>2, <2>3
  <1>9. g \in ActorRecords /\ g.pc = "return"
    BY <1>4, <1>6 DEF ActorRecords
  <1>10. /\ h \in ActorRecords
         /\ h.pc = "init"
         /\ h.entry = entry
         /\ h.fn = f
    BY <1>5, <1>6, <1>8 DEF ActorRecords, Names, FromNames, LookedUp
  <1>11. frame' = [frame EXCEPT ![x] = g] \/ frame' = [frame EXCEPT ![x] = h]
    <2> HIDE DEF Known, Entry
    <2>1. CASE Known(f, c)
      BY <1>1, <1>4, <2>1
    <2>2. CASE ~Known(f, c)
      BY <1>1, <1>3, <1>5, <2>2
    <2>3. QED
      BY <2>1, <2>2
  <1>12. PICK z \in ActorRecords :
           /\ frame' = [frame EXCEPT ![x] = z]
           /\ z = g \/ z = h
    BY <1>9, <1>10, <1>11
  <1>13. HeapLock'
    <2>1. PICK at : at = IF x = "thread" THEN "ready" ELSE "call"
      OBVIOUS
    <2>2. Heap!At(x, at) /\ (at = "ready" => x = "thread")
      BY <2>1, Zenon DEF Heap!Mcount
    <2>3. z.pc = "return" \/ z.pc = "init"
      BY <1>9, <1>10, <1>12
    <2>4. z.pc \notin Recording
      BY <2>3 DEF Recording
    <2>5. QED
      BY <1>12, <2>2, <2>4, LockKept
  <1>14. /\ heap_pie' \in BOOLEAN
         /\ UNCHANGED <<heap, slab, lists, ghost>>
         /\ sampler' \in SamplerRecords
         /\ sampler'.samples = sampler.samples
    BY Zenon DEF Heap!Mcount, HeapInv, HeapTypes
  <1>15. z.pc \notin {"cutfn", "cutarc", "linkfn", "linkarc"} /\ z.pc # "arc"
    BY <1>9, <1>10, <1>12
  <1>16. z.pc \in LookedUp => z.entry = Heap!Failed \/ InList(z, lists.fns)
    BY <1>7, <1>9, <1>10, <1>12 DEF LookedUp, InList
  <1>17. QED
    BY <1>12, <1>13, <1>14, <1>15, <1>16, QuietActor

\* __mcount_record until it disables interrupts, and from when it enables them.
LEMMA NeedInitKeeps ==
  ASSUME HeapInv, NEW x \in Heap!Actors, Heap!NeedInit(x) \/ Heap!ClearNeedInit(x)
  PROVE  HeapInv'
  <1>1. PICK to \in {"clear", "disable", "sampler"} : Heap!Goes(x, to)
    BY DEF Heap!NeedInit, Heap!ClearNeedInit
  <1>2. PICK at \in {"init", "clear"} : Heap!At(x, at)
    BY DEF Heap!NeedInit, Heap!ClearNeedInit
  <1>3. PICK f \in ActorRecords :
          /\ frame' = [frame EXCEPT ![x] = f]
          /\ f.pc = to
          /\ f.fn = frame[x].fn
          /\ f.entry = frame[x].entry
    BY <1>1, ActorGoes DEF HeapInv, LookedUp
  <1>4. /\ heap_pie' \in BOOLEAN
        /\ UNCHANGED <<heap, slab, lists, ghost>>
        /\ sampler' \in SamplerRecords
        /\ sampler'.samples = sampler.samples
    BY DEF Heap!NeedInit, Heap!ClearNeedInit, HeapInv, HeapTypes, SamplerRecords
  <1>5. HeapLock'
    BY <1>2, <1>3, LockKept DEF Recording
  <1>6. frame[x].entry = Heap!Failed \/ InList(frame[x], lists.fns)
    BY <1>2 DEF HeapInv, HeapEntry, Heap!At, LookedUp
  <1>7. f.entry = Heap!Failed \/ InList(f, lists.fns)
    BY <1>3, <1>6 DEF InList
  <1>8. f.pc \notin {"cutfn", "cutarc", "linkfn", "linkarc"} /\ f.pc # "arc"
    BY <1>1, <1>3
  <1>9. QED
    BY <1>3, <1>4, <1>5, <1>7, <1>8, QuietActor

\* It disables interrupts, and remembers whether they were enabled.
LEMMA RecordDisableKeeps ==
  ASSUME HeapInv, NEW x \in Heap!Actors, Heap!RecordDisable(x)
  PROVE  HeapInv'
  <1>1. PICK to : to = IF frame[x].entry = Heap!Failed THEN "fn" ELSE "arc"
    OBVIOUS
  <1>2. PICK f : f = [frame[x] EXCEPT !.pc = to, !.saved = heap_pie]
    OBVIOUS
  <1>3. frame[x] \in ActorRecords /\ heap_pie \in BOOLEAN
    BY DEF HeapInv, HeapTypes
  <1>4. /\ f \in ActorRecords
        /\ f.pc = to
        /\ f.fn = frame[x].fn
        /\ f.entry = frame[x].entry
    BY <1>1, <1>2, <1>3 DEF ActorRecords, Recording
  <1>5. frame' = [frame EXCEPT ![x] = f]
    BY <1>1, <1>2 DEF Heap!RecordDisable
  <1>6. /\ heap_pie' = FALSE
        /\ UNCHANGED <<heap, slab, lists, ghost>>
        /\ sampler' \in SamplerRecords
        /\ sampler'.samples = sampler.samples
    BY DEF Heap!RecordDisable, HeapInv, HeapTypes
  <1>7. Heap!At(x, "disable")
    BY DEF Heap!RecordDisable
  <1>8. HeapLock'
    BY <1>4, <1>5, <1>6, <1>7, LockKept
  <1>9. frame[x].entry = Heap!Failed \/ InList(frame[x], lists.fns)
    BY <1>7 DEF HeapInv, HeapEntry, Heap!At, LookedUp
  <1>10. f.pc = "arc" => InList(f, lists.fns)
    BY <1>1, <1>4, <1>9 DEF InList
  <1>11. f.pc \notin {"cutfn", "cutarc", "linkfn", "linkarc"} /\ f.pc \notin LookedUp
    BY <1>1, <1>4 DEF LookedUp
  <1>12. QED
    BY <1>4, <1>5, <1>6, <1>8, <1>10, <1>11, QuietActor

\* It enables them again, if they were; and the function goes on.
LEMMA RecordEnableKeeps ==
  ASSUME HeapInv, NEW x \in Heap!Actors, Heap!RecordEnable(x) \/ Heap!Return(x)
  PROVE  HeapInv'
  <1>1. PICK at \in {"enable", "return"} : Heap!At(x, at)
    BY DEF Heap!RecordEnable, Heap!Return
  <1>2. PICK f \in ActorRecords :
          /\ frame' = [frame EXCEPT ![x] = f]
          /\ f.pc \in {"return", "ready"}
    <2>1. CASE Heap!RecordEnable(x)
      BY <2>1, ActorGoes DEF HeapInv, Heap!RecordEnable
    <2>2. CASE Heap!Return(x)
      <3>1. Heap!Ready \in ActorRecords /\ Heap!Ready.pc = "ready"
        BY DEF Heap!Ready, ActorRecords, Names, FromNames, Heap!Failed
      <3>2. QED
        BY <2>2, <3>1 DEF Heap!Return
    <2>3. QED
      BY <2>1, <2>2
  <1>3. heap_pie' \in BOOLEAN
    <2>1. frame[x].saved \in BOOLEAN
      BY DEF HeapInv, HeapTypes, ActorRecords
    <2>2. CASE Heap!RecordEnable(x)
      BY <2>1, <2>2, Zenon DEF Heap!RecordEnable
    <2>3. CASE Heap!Return(x)
      <3>1. heap_pie' = (x = "interrupt" \/ heap_pie)
        BY <2>3 DEF Heap!Return
      <3>2. QED
        BY <3>1
    <2>4. QED
      BY <2>2, <2>3
  <1>4. /\ UNCHANGED <<heap, slab, lists, ghost>>
        /\ sampler' \in SamplerRecords
        /\ sampler'.samples = sampler.samples
    BY DEF Heap!RecordEnable, Heap!Return, HeapInv, HeapTypes
  <1>5. HeapLock'
    BY <1>1, <1>2, LockKept DEF Recording
  <1>6. f.pc \notin {"cutfn", "cutarc", "linkfn", "linkarc"} \cup LookedUp /\ f.pc # "arc"
    BY <1>2 DEF LookedUp
  <1>7. QED
    BY <1>2, <1>3, <1>4, <1>5, <1>6, QuietActor

\* What memory is handed out, by sbrk or from the slab, leaves what was handed
\* out before.
LEMMA PiecesGrow ==
  ASSUME HeapInv, ghost.pieces \subseteq ghost'.pieces,
         ghost'.sampled = ghost.sampled, sampler'.samples = sampler.samples
  PROVE  HeapSamples' /\ Heap!SamplesKept'
  BY DEF HeapInv, HeapSamples, Heap!SamplesKept

\* sbrk, as the program and the sampler call it: nothing that was handed out
\* before, and nothing of the slab, is handed out.
LEMMA SbrkTakes ==
  ASSUME HeapInv, NEW n \in Nat, NEW k, k = Heap!ALT_SBRK(heap, n),
         k.ret # Heap!Failed, heap' = k.heap, slab' = slab,
         ghost' = [Heap!Take(ghost, k.ret, n) EXCEPT !.odd = @ \/ n % Align # 0]
  PROVE  /\ heap' \in HeapRecords
         /\ ghost' \in GhostRecords
         /\ ghost'.pieces = ghost.pieces \cup {[lo |-> k.ret, hi |-> k.ret + n]}
         /\ ghost'.taken = ghost.taken
         /\ ghost'.sampled = ghost.sampled
         /\ ghost'.wild = ghost.wild
         /\ HeapPieces' /\ HeapSlab' /\ HeapStack'
  <1>1. heap \in HeapRecords /\ ghost \in GhostRecords /\ slab \in SlabRecords
    BY DEF HeapInv, HeapTypes
  <1>2. /\ k.heap \in HeapRecords
        /\ k.heap.end >= heap.end
        /\ k.ret \in Nat
        /\ k.ret >= heap.end
        /\ k.heap.end = k.ret + n
        /\ k.ret + n <= HeapLimit
    BY <1>1, SbrkGives
  <1>3. ASSUME NEW p \in ghost.pieces PROVE p.hi <= k.ret /\ p.lo \in Nat /\ p.hi \in Nat
    <2>1. p.lo \in Nat /\ p.hi \in Nat /\ p.hi <= heap.end /\ heap.end \in Nat
      BY <1>1 DEF HeapInv, HeapPieces, GhostRecords, HeapRecords
    <2>2. QED
      BY <1>2, <2>1
  <1>4. PICK t : t = Heap!Take(ghost, k.ret, n)
    OBVIOUS
  <1>5. ~ghost.overlap
    BY DEF HeapInv, HeapPieces
  <1>6. /\ t \in GhostRecords
        /\ t.pieces = ghost.pieces \cup {[lo |-> k.ret, hi |-> k.ret + n]}
        /\ ~t.overlap
        /\ t.taken = ghost.taken
        /\ t.sampled = ghost.sampled
        /\ t.odd = ghost.odd
        /\ t.wild = ghost.wild
    BY <1>1, <1>2, <1>3, <1>4, <1>5, TakeApart
  <1>7. PICK odd : odd = (ghost.odd \/ n % Align # 0)
    OBVIOUS
  <1>8. ghost' = [t EXCEPT !.odd = odd]
    BY <1>4, <1>6, <1>7
  <1>9. odd \in BOOLEAN
    BY <1>7
  <1>10. /\ ghost' \in GhostRecords
         /\ ghost'.pieces = ghost.pieces \cup {[lo |-> k.ret, hi |-> k.ret + n]}
         /\ ghost'.taken = ghost.taken
         /\ ghost'.sampled = ghost.sampled
         /\ ghost'.wild = ghost.wild
         /\ ghost'.overlap = t.overlap
         /\ ghost'.odd = odd
    BY <1>6, <1>8, <1>9 DEF GhostRecords
  <1>11. heap'.end \in Nat /\ heap.end \in Nat /\ heap'.end >= heap.end
    BY <1>1, <1>2 DEF HeapRecords
  <1>12. HeapPieces'
    <2>1. ASSUME NEW p \in ghost'.pieces PROVE p.hi <= heap'.end
      <3>1. CASE p \in ghost.pieces
        BY <1>2, <1>3, <1>11, <3>1
      <3>2. CASE p = [lo |-> k.ret, hi |-> k.ret + n]
        BY <1>2, <3>2
      <3>3. QED
        BY <1>10, <3>1, <3>2
    <2>2. QED
      BY <1>6, <1>10, <2>1 DEF HeapPieces
  <1>13. HeapSlab'
    <2> SUFFICES ASSUME ~ghost'.wild PROVE HeapSlab'
      BY DEF HeapSlab
    <2>1. /\ slab.ptr \in Nat /\ slab.size \in Nat
          /\ slab.ptr + slab.size <= HeapLimit
          /\ slab.ptr + slab.size <= heap.end
          /\ \A p \in ghost.pieces : p.hi <= slab.ptr \/ slab.ptr + slab.size <= p.lo
      BY <1>1, <1>10 DEF HeapInv, HeapSlab, SlabRecords
    <2>2. slab.ptr + slab.size <= heap'.end /\ slab.ptr + slab.size <= k.ret
      BY <1>2, <1>11, <2>1
    <2>3. QED
      BY <1>10, <2>1, <2>2 DEF HeapSlab
  <1>14. HeapStack'
    <2> SUFFICES ASSUME ~odd PROVE Watched(heap')
      BY <1>10 DEF HeapStack, Watched
    <2>1. ~ghost.odd /\ n % Align = 0
      BY <1>7
    <2>2. Watched(heap) /\ Whole(n)
      BY <2>1, WholeIf DEF HeapInv, HeapStack
    <2>3. QED
      BY <1>1, <2>2, SbrkWatches
  <1>15. QED
    BY <1>2, <1>10, <1>12, <1>13, <1>14

\* sbrk fails: only the end of the heap may have moved up to a word.
LEMMA SbrkFails ==
  ASSUME HeapInv, NEW n \in Nat, NEW k, k = Heap!ALT_SBRK(heap, n),
         k.ret = Heap!Failed, heap' = k.heap,
         ghost'.pieces = ghost.pieces, ghost'.overlap = ghost.overlap, ghost'.odd = ghost.odd
  PROVE  /\ heap' \in HeapRecords
         /\ heap'.end >= heap.end
         /\ HeapPieces' /\ HeapStack'
  <1>1. heap \in HeapRecords /\ ghost \in GhostRecords
    BY DEF HeapInv, HeapTypes
  <1>2. k.heap \in HeapRecords /\ k.heap.end >= heap.end
    BY <1>1, SbrkGives
  <1>3. HeapPieces'
    <2>1. ASSUME NEW p \in ghost.pieces PROVE p.hi <= heap'.end
      <3>1. p.hi \in Nat /\ p.hi <= heap.end /\ heap.end \in Nat /\ heap'.end \in Nat
        BY <1>1, <1>2 DEF HeapInv, HeapPieces, GhostRecords, HeapRecords
      <3>2. QED
        BY <1>2, <3>1
    <2>2. QED
      BY <2>1 DEF HeapInv, HeapPieces
  <1>4. HeapStack'
    <2> SUFFICES ASSUME ~ghost.odd PROVE Watched(heap')
      BY DEF HeapStack, Watched
    <2>1. Watched(heap)
      BY DEF HeapInv, HeapStack
    <2>2. QED
      BY <1>1, <2>1, SbrkWatches
  <1>5. QED
    BY <1>2, <1>3, <1>4

\* The program asks sbrk for memory.
LEMMA MallocKeeps == HeapInv /\ Heap!Malloc => HeapInv'
  <1> SUFFICES ASSUME HeapInv, Heap!Malloc PROVE HeapInv'
    OBVIOUS
  <1>1. PICK n \in Increments :
          /\ heap' = Heap!ALT_SBRK(heap, n).heap
          /\ ghost' = IF Heap!ALT_SBRK(heap, n).ret = Heap!Failed THEN ghost
                      ELSE [Heap!Take(ghost, Heap!ALT_SBRK(heap, n).ret, n)
                              EXCEPT !.odd = @ \/ n % Align # 0]
    BY DEF Heap!Malloc
  <1>2. PICK k : k = Heap!ALT_SBRK(heap, n)
    OBVIOUS
  <1>3. n \in Nat
    BY HeapAssumption
  <1>4. UNCHANGED <<slab, lists, sampler, heap_pie, frame>>
    BY DEF Heap!Malloc
  <1>5. HeapLock' /\ HeapEntry' /\ HeapLink'
    BY <1>4 DEF HeapInv, HeapLock, HeapEntry, HeapLink, InList
  <1>6. CASE k.ret = Heap!Failed
    <2>1. heap' = k.heap /\ ghost' = ghost
      BY <1>1, <1>2, <1>6
    <2>2. /\ heap' \in HeapRecords
          /\ heap'.end >= heap.end
          /\ HeapPieces' /\ HeapStack'
      BY <1>2, <1>3, <1>6, <2>1, SbrkFails
    <2>3. HeapTypes'
      BY <1>4, <2>1, <2>2 DEF HeapInv, HeapTypes
    <2>4. HeapSlab'
      <3> SUFFICES ASSUME ~ghost.wild PROVE slab.ptr + slab.size <= heap'.end
        BY <1>4, <2>1 DEF HeapInv, HeapSlab
      <3>1. /\ slab.ptr \in Nat /\ slab.size \in Nat /\ heap.end \in Nat
            /\ heap'.end \in Nat /\ slab.ptr + slab.size <= heap.end
        BY <2>2 DEF HeapInv, HeapTypes, HeapSlab, SlabRecords, HeapRecords
      <3>2. QED
        BY <2>2, <3>1
    <2>5. HeapCut' /\ HeapSamples' /\ Heap!SamplesKept' /\ Heap!ArcsKept'
      BY <1>4, <2>1 DEF HeapInv, HeapCut, HeapSamples, Heap!SamplesKept, Heap!ArcsKept
    <2>6. QED
      BY <1>5, <2>2, <2>3, <2>4, <2>5 DEF HeapInv
  <1>7. CASE k.ret # Heap!Failed
    <2>1. /\ heap' = k.heap
          /\ ghost' = [Heap!Take(ghost, k.ret, n) EXCEPT !.odd = @ \/ n % Align # 0]
      BY <1>1, <1>2, <1>7
    <2>2. slab' = slab
      BY <1>4
    <2>3. /\ heap' \in HeapRecords
          /\ ghost' \in GhostRecords
          /\ ghost'.pieces = ghost.pieces \cup {[lo |-> k.ret, hi |-> k.ret + n]}
          /\ ghost'.taken = ghost.taken
          /\ ghost'.sampled = ghost.sampled
          /\ ghost'.wild = ghost.wild
          /\ HeapPieces' /\ HeapSlab' /\ HeapStack'
      BY <1>2, <1>3, <1>7, <2>1, <2>2, SbrkTakes
    <2>4. HeapTypes'
      BY <1>4, <2>3 DEF HeapInv, HeapTypes
    <2>5. HeapSamples' /\ Heap!SamplesKept'
      BY <1>4, <2>3, PiecesGrow
    <2>6. HeapCut' /\ Heap!ArcsKept'
      BY <1>4, <2>3 DEF HeapInv, HeapCut, Heap!ArcsKept
    <2>7. QED
      BY <1>5, <2>3, <2>4, <2>5, <2>6 DEF HeapInv
  <1>8. QED
    BY <1>6, <1>7

\* What an actor that has looked its function up knows remains true.
LEMMA LookupGoes ==
  ASSUME HeapInv, NEW x \in Heap!Actors, NEW f \in ActorRecords,
         frame' = [frame EXCEPT ![x] = f],
         frame[x].pc \in LookedUp, f.pc \in LookedUp,
         f.entry = frame[x].entry, f.fn = frame[x].fn,
         UNCHANGED <<slab, lists>>, ghost.wild => ghost'.wild
  PROVE  HeapCut' /\ HeapEntry' /\ HeapLink'
  <1>1. /\ frame'[x] = f
        /\ \A y \in Heap!Actors : y # x => frame'[y] = frame[y]
    BY ActorStep DEF HeapInv
  <1>2. f.pc \notin {"cutfn", "cutarc", "arc", "linkfn", "linkarc"}
    BY DEF LookedUp
  <1>3. HeapCut'
    BY <1>1, <1>2 DEF HeapInv, HeapCut
  <1>4. f.entry = Heap!Failed \/ InList(f, lists.fns)
    BY DEF HeapInv, HeapEntry, InList
  <1>5. HeapEntry'
    <2> SUFFICES ASSUME NEW y \in Heap!Actors
                 PROVE  /\ frame'[y].pc \in LookedUp =>
                             frame'[y].entry = Heap!Failed \/ InList(frame'[y], lists.fns)
                        /\ frame'[y].pc \in {"arc", "cutarc", "linkarc"} =>
                             InList(frame'[y], lists.fns)
      BY DEF HeapEntry, InList
    <2>1. CASE y = x
      BY <1>1, <1>2, <1>4, <2>1
    <2>2. CASE y # x
      BY <1>1, <2>2 DEF HeapInv, HeapEntry
    <2>3. QED
      BY <2>1, <2>2
  <1>6. HeapLink'
    BY <1>1, <1>2 DEF HeapInv, HeapLink
  <1>7. QED
    BY <1>3, <1>5, <1>6

\* The sampler asks for its histogram.
LEMMA SamplerKeeps ==
  ASSUME HeapInv, NEW x \in Heap!Actors, Heap!nios2_pcsample_init(x)
  PROVE  HeapInv'
  <1>1. PICK size : size = TextSize \div BucketSize
    OBVIOUS
  <1>2. size \in Nat
    BY <1>1, HeapAssumption, Division
  <1>3. PICK k : k = Heap!ALT_SBRK(heap, size)
    OBVIOUS
  <1>4. PICK f \in ActorRecords :
          /\ frame' = [frame EXCEPT ![x] = f]
          /\ f.pc = "disable"
          /\ f.fn = frame[x].fn
          /\ f.entry = frame[x].entry
    BY ActorGoes DEF HeapInv, LookedUp, Heap!nios2_pcsample_init
  <1>5. Heap!At(x, "sampler") /\ UNCHANGED <<slab, lists, heap_pie>>
    BY DEF Heap!nios2_pcsample_init
  <1>6. frame' \in [Heap!Actors -> ActorRecords]
    BY <1>4, ActorStep DEF HeapInv
  <1>7. HeapLock'
    BY <1>4, <1>5, LockKept DEF Recording
  <1>8. frame[x].pc \in LookedUp /\ f.pc \in LookedUp /\ ~ghost.wild
    BY <1>4, <1>5 DEF Heap!At, LookedUp
  <1>9. HeapCut' /\ HeapEntry' /\ HeapLink'
    BY <1>4, <1>5, <1>8, LookupGoes
  <1>10. CASE ~(sampler.rate > 0)
    <2>1. UNCHANGED <<heap, ghost>> /\ sampler' = [sampler EXCEPT !.need_init = TRUE]
      BY <1>10 DEF Heap!nios2_pcsample_init
    <2>2. sampler' \in SamplerRecords /\ sampler'.samples = sampler.samples
      BY <2>1 DEF HeapInv, HeapTypes, SamplerRecords
    <2>3. HeapTypes'
      BY <1>5, <1>6, <2>1, <2>2 DEF HeapInv, HeapTypes
    <2>4. HeapSamples' /\ Heap!SamplesKept'
      BY <2>1, <2>2, PiecesGrow
    <2>5. HeapPieces' /\ HeapSlab' /\ HeapStack' /\ Heap!ArcsKept'
      BY <1>5, <2>1 DEF HeapInv, HeapPieces, HeapSlab, HeapStack, Watched, Heap!ArcsKept
    <2>6. QED
      BY <1>7, <1>9, <2>3, <2>4, <2>5 DEF HeapInv
  <1>11. CASE sampler.rate > 0 /\ k.ret = Heap!Failed
    <2>1. /\ heap' = k.heap
          /\ ghost' = [ghost EXCEPT !.wild = TRUE]
          /\ sampler' = [sampler EXCEPT !.need_init = FALSE, !.samples = k.ret]
      BY <1>1, <1>3, <1>11 DEF Heap!nios2_pcsample_init
    <2>2. /\ ghost' \in GhostRecords
          /\ ghost'.pieces = ghost.pieces
          /\ ghost'.overlap = ghost.overlap
          /\ ghost'.odd = ghost.odd
          /\ ghost'.taken = ghost.taken
          /\ ghost'.sampled = ghost.sampled
          /\ ghost'.wild
      BY <2>1 DEF HeapInv, HeapTypes, GhostRecords
    <2>3. heap' \in HeapRecords /\ HeapPieces' /\ HeapStack'
      BY <1>2, <1>3, <1>11, <2>1, <2>2, SbrkFails
    <2>4. k.ret \in Int
      BY <1>11 DEF Heap!Failed
    <2>5. sampler' \in SamplerRecords /\ sampler'.samples = Heap!Failed
      BY <1>11, <2>1, <2>4 DEF HeapInv, HeapTypes, SamplerRecords
    <2>6. HeapTypes'
      BY <1>5, <1>6, <2>2, <2>3, <2>5 DEF HeapInv, HeapTypes
    <2>7. HeapSamples' /\ Heap!SamplesKept' /\ HeapSlab' /\ Heap!ArcsKept'
      BY <1>5, <2>2, <2>5 DEF HeapInv, HeapSamples, Heap!SamplesKept, HeapSlab, Heap!ArcsKept
    <2>8. QED
      BY <1>7, <1>9, <2>3, <2>6, <2>7 DEF HeapInv
  <1>12. CASE sampler.rate > 0 /\ k.ret # Heap!Failed
    <2>1. /\ heap' = k.heap
          /\ ghost' = [Heap!Take(ghost, k.ret, size) EXCEPT !.odd = @ \/ size % Align # 0]
          /\ sampler' = [sampler EXCEPT !.need_init = FALSE, !.samples = k.ret]
      BY <1>1, <1>3, <1>12 DEF Heap!nios2_pcsample_init
    <2>2. /\ heap' \in HeapRecords
          /\ ghost' \in GhostRecords
          /\ ghost'.pieces = ghost.pieces \cup {[lo |-> k.ret, hi |-> k.ret + size]}
          /\ ghost'.taken = ghost.taken
          /\ ghost'.sampled = ghost.sampled
          /\ ghost'.wild = ghost.wild
          /\ HeapPieces' /\ HeapSlab' /\ HeapStack'
      BY <1>2, <1>3, <1>5, <1>12, <2>1, SbrkTakes
    <2>3. k.ret \in Int
      BY <1>2, <1>3, SbrkGives DEF HeapInv, HeapTypes
    <2>4. sampler' \in SamplerRecords /\ sampler'.samples = k.ret
      BY <2>1, <2>3 DEF HeapInv, HeapTypes, SamplerRecords
    <2>5. HeapTypes'
      BY <1>5, <1>6, <2>2, <2>4 DEF HeapInv, HeapTypes
    <2>6. HeapSamples'
      <3>1. PICK p : p = [lo |-> k.ret, hi |-> k.ret + size]
        OBVIOUS
      <3>2. p \in ghost'.pieces /\ p.lo = k.ret /\ p.hi = k.ret + size
        BY <2>2, <3>1
      <3>3. QED
        BY <1>1, <2>4, <3>2 DEF HeapSamples
    <2>7. Heap!SamplesKept'
      BY <2>2 DEF HeapInv, Heap!SamplesKept
    <2>8. Heap!ArcsKept'
      BY <1>5, <2>2 DEF HeapInv, Heap!ArcsKept
    <2>9. QED
      BY <1>7, <1>9, <2>2, <2>5, <2>6, <2>7, <2>8 DEF HeapInv
  <1>13. QED
    BY <1>10, <1>11, <1>12

\* A sample is counted in the bucket of the place that was interrupted.
LEMMA SampleKeeps == HeapInv /\ Heap!nios2_pcsample => HeapInv'
  <1> SUFFICES ASSUME HeapInv, Heap!nios2_pcsample PROVE HeapInv'
    OBVIOUS
  <1>1. PICK pc \in 0 .. TextSize - 1 :
          ghost' = [ghost EXCEPT !.sampled = {sampler.samples + (pc \div BucketSize)}]
    BY DEF Heap!nios2_pcsample
  <1>2. UNCHANGED <<heap, slab, lists, sampler, heap_pie, frame>> /\ sampler.samples # Heap!Failed
    BY DEF Heap!nios2_pcsample
  <1>3. PICK b : b = pc \div BucketSize
    OBVIOUS
  <1>4. b \in Nat /\ sampler.samples \in Int
    BY <1>3, HeapAssumption, Division DEF HeapInv, HeapTypes, SamplerRecords
  <1>5. /\ ghost' \in GhostRecords
        /\ ghost'.pieces = ghost.pieces
        /\ ghost'.overlap = ghost.overlap
        /\ ghost'.odd = ghost.odd
        /\ ghost'.taken = ghost.taken
        /\ ghost'.wild = ghost.wild
        /\ ghost'.sampled = {sampler.samples + b}
    BY <1>1, <1>3, <1>4 DEF HeapInv, HeapTypes, GhostRecords
  <1>6. Heap!SamplesKept'
    <2>1. PICK size : size = TextSize \div BucketSize
      OBVIOUS
    <2>2. PICK p \in ghost.pieces : p.lo = sampler.samples /\ p.hi = sampler.samples + size
      BY <1>2, <2>1 DEF HeapInv, HeapSamples
    <2>3. PICK rest : rest = TextSize % BucketSize
      OBVIOUS
    <2>4. /\ BucketSize \in Nat /\ BucketSize > 0 /\ size \in Nat
          /\ TextSize = BucketSize * size + rest
          /\ rest \in 0 .. BucketSize - 1
      BY <2>1, <2>3, HeapAssumption, Division
    <2>5. pc \in Nat /\ BucketSize * b <= pc /\ pc < BucketSize * size + rest
      <3>1. pc \in Nat /\ pc < TextSize
        BY HeapAssumption
      <3>2. pc = BucketSize * b + (pc % BucketSize) /\ pc % BucketSize >= 0
        BY <1>3, <3>1, HeapAssumption, Division
      <3>3. BucketSize * b \in Nat /\ pc % BucketSize \in Int
        BY <1>4, <2>4, <3>1, HeapAssumption, Division
      <3>4. QED
        BY <2>4, <3>1, <3>2, <3>3
    <2>6. b < size \/ (b = size /\ rest > 0)
      <3>1. CASE b > size
        <4>1. BucketSize * b >= BucketSize * size + BucketSize
          BY <1>4, <2>4, <3>1, BehindMultiple
        <4>2. PICK here \in Nat : here = BucketSize * size
          BY <2>4
        <4>3. PICK there \in Nat : there = BucketSize * b
          BY <1>4, <2>4
        <4>4. there >= here + BucketSize /\ there < here + rest
          BY <1>4, <2>4, <2>5, <4>1, <4>2, <4>3
        <4>5. QED
          BY <2>4, <4>2, <4>3, <4>4
      <3>2. CASE b = size
        <4>1. BucketSize * size \in Nat
          BY <2>4
        <4>2. rest > 0
          BY <2>4, <2>5, <3>2, <4>1
        <4>3. QED
          BY <3>2, <4>2
      <3>3. QED
        BY <1>4, <2>4, <3>1, <3>2
    <2>7. PICK a : a = sampler.samples + b
      OBVIOUS
    <2>8. p.lo <= a /\ (a < p.hi \/ (a = p.hi /\ rest > 0))
      BY <1>4, <2>2, <2>4, <2>6, <2>7
    <2>9. QED
      BY <1>5, <2>2, <2>3, <2>7, <2>8 DEF Heap!SamplesKept
  <1>7. HeapTypes'
    BY <1>2, <1>5 DEF HeapInv, HeapTypes
  <1>8. HeapLock' /\ HeapPieces' /\ HeapSlab' /\ HeapCut'
    BY <1>2, <1>5 DEF HeapInv, HeapLock, HeapPieces, HeapSlab, HeapCut
  <1>9. HeapEntry' /\ HeapLink' /\ HeapSamples' /\ HeapStack' /\ Heap!ArcsKept'
    BY <1>2, <1>5 DEF HeapInv, HeapEntry, InList, HeapLink, HeapSamples, HeapStack, Watched,
       Heap!ArcsKept
  <1>10. QED
    BY <1>6, <1>7, <1>8, <1>9 DEF HeapInv

\* A step that changes nothing of the heap.
LEMMA SameHeap ==
  ASSUME HeapInv, UNCHANGED <<heap, slab, lists, sampler, heap_pie, frame, ghost>>
  PROVE  HeapInv'
  <1>1. HeapTypes' /\ HeapLock' /\ HeapPieces' /\ HeapSlab' /\ HeapCut'
    BY DEF HeapInv, HeapTypes, HeapLock, HeapPieces, HeapSlab, HeapCut
  <1>2. HeapEntry' /\ HeapLink' /\ HeapSamples' /\ Heap!SamplesKept' /\ HeapStack' /\ Heap!ArcsKept'
    BY DEF HeapInv, HeapEntry, InList, HeapLink, HeapSamples, Heap!SamplesKept, HeapStack, Watched,
       Heap!ArcsKept
  <1>3. QED
    BY <1>1, <1>2 DEF HeapInv

\* A system clock is started.
LEMMA ClockKeeps == HeapInv /\ Heap!ClockStarts => HeapInv'
  <1> SUFFICES ASSUME HeapInv, Heap!ClockStarts PROVE HeapInv'
    OBVIOUS
  <1>1. UNCHANGED <<heap, slab, lists, heap_pie, frame, ghost>>
    BY DEF Heap!ClockStarts
  <1>2. sampler' \in SamplerRecords /\ sampler'.samples = sampler.samples
    BY DEF Heap!ClockStarts, HeapInv, HeapTypes, SamplerRecords
  <1>3. HeapTypes' /\ HeapLock' /\ HeapPieces' /\ HeapSlab' /\ HeapCut'
    BY <1>1, <1>2 DEF HeapInv, HeapTypes, HeapLock, HeapPieces, HeapSlab, HeapCut
  <1>4. HeapEntry' /\ HeapLink' /\ HeapStack' /\ Heap!ArcsKept'
    BY <1>1 DEF HeapInv, HeapEntry, InList, HeapLink, HeapStack, Watched, Heap!ArcsKept
  <1>5. HeapSamples' /\ Heap!SamplesKept'
    BY <1>1, <1>2, PiecesGrow
  <1>6. QED
    BY <1>3, <1>4, <1>5 DEF HeapInv

\* A step of an actor that extends the lists: the other one is out.
LEMMA RecorderGoes ==
  ASSUME HeapInv, NEW x \in Heap!Actors, NEW at \in Recording, Heap!At(x, at),
         NEW f \in ActorRecords, frame' = [frame EXCEPT ![x] = f], heap_pie' = heap_pie,
         f.pc \notin LookedUp,
         ~ghost'.wild /\ f.pc \in {"cutfn", "cutarc"} =>
           f.data = slab'.ptr /\ slab'.size >= EntrySize,
         f.pc \in {"arc", "cutarc", "linkarc"} => InList(f, lists'.fns),
         f.pc = "linkfn" => f.data \in Addresses /\ f.rest = lists'.fns,
         f.pc = "linkarc" => f.rest = lists'.arcs[f.entry],
         \A g \in ActorRecords : InList(g, lists.fns) => InList(g, lists'.fns)
  PROVE  /\ frame' \in [Heap!Actors -> ActorRecords]
         /\ HeapLock' /\ HeapCut' /\ HeapEntry' /\ HeapLink'
  <1>1. /\ frame' \in [Heap!Actors -> ActorRecords]
        /\ frame'[x] = f
        /\ \A y \in Heap!Actors : y # x => frame'[y] = frame[y]
    BY ActorStep DEF HeapInv
  <1>2. at # "ready" /\ frame[x].pc = at
    BY DEF Recording, Heap!At
  <1>3. \A y \in Heap!Actors : y # x => frame[y].pc \notin Recording
    BY <1>2, OtherIsOut
  <1>4. x = "thread" => ~heap_pie
    BY <1>2 DEF HeapInv, HeapLock
  <1>5. HeapLock'
    BY <1>2, <1>4, LockKept
  <1>6. ASSUME NEW y \in Heap!Actors, y # x
        PROVE  /\ frame'[y] = frame[y]
               /\ frame[y].pc \notin {"cutfn", "cutarc", "arc", "linkfn", "linkarc"}
               /\ frame[y] \in ActorRecords
    BY <1>1, <1>3, <1>6 DEF Recording, HeapInv, HeapTypes
  <1>7. HeapCut'
    BY <1>1, <1>6 DEF HeapCut
  <1>8. HeapEntry'
    <2> SUFFICES ASSUME NEW y \in Heap!Actors
                 PROVE  /\ frame'[y].pc \in LookedUp =>
                             frame'[y].entry = Heap!Failed \/ InList(frame'[y], lists'.fns)
                        /\ frame'[y].pc \in {"arc", "cutarc", "linkarc"} =>
                             InList(frame'[y], lists'.fns)
      BY DEF HeapEntry, InList
    <2>1. CASE y = x
      BY <1>1, <2>1
    <2>2. CASE y # x
      BY <1>6, <2>2 DEF HeapInv, HeapEntry
    <2>3. QED
      BY <2>1, <2>2
  <1>9. HeapLink'
    <2> SUFFICES ASSUME NEW y \in Heap!Actors
                 PROVE  /\ frame'[y].pc = "linkfn" =>
                             frame'[y].data \in Addresses /\ frame'[y].rest = lists'.fns
                        /\ frame'[y].pc = "linkarc" =>
                             frame'[y].rest = lists'.arcs[frame'[y].entry]
      BY DEF HeapLink
    <2>1. CASE y = x
      BY <1>1, <2>1
    <2>2. CASE y # x
      BY <1>6, <2>2
    <2>3. QED
      BY <2>1, <2>2
  <1>10. QED
    BY <1>1, <1>5, <1>7, <1>8, <1>9

\* mcount_allocate: what is left of the slab is enough, or there is a new one.
LEMMA AllocateKeeps ==
  ASSUME HeapInv, NEW x \in Heap!Actors, NEW at, NEW to,
         \/ at = "fn" /\ to = "cutfn"
         \/ at = "arc" /\ to = "cutarc",
         Heap!Allocate(x, at, to)
  PROVE  HeapInv'
  <1>1. /\ heap \in HeapRecords /\ slab \in SlabRecords /\ ghost \in GhostRecords
        /\ frame[x] \in ActorRecords
    BY DEF HeapInv, HeapTypes
  <1>2. PICK k : k = Heap!ALT_SBRK(heap, Slab)
    OBVIOUS
  <1>3. Slab \in Nat /\ EntrySize \in Nat /\ EntrySize <= Slab /\ Whole(Slab)
    BY HeapAssumption, WholeIf
  <1>4. /\ k.heap \in HeapRecords
        /\ k.heap.end >= heap.end
        /\ k.ret \in Int
        /\ \/ k.ret = Heap!Failed
           \/ /\ k.ret \in Nat
              /\ k.ret # Heap!Failed
              /\ k.ret >= heap.end
              /\ k.heap.end = k.ret + Slab
              /\ k.ret + Slab <= HeapLimit
    BY <1>1, <1>2, <1>3, SbrkGives
  <1>5. /\ Heap!At(x, at)
        /\ frame' = [frame EXCEPT ![x].pc = to, ![x].data = slab'.ptr]
        /\ UNCHANGED <<lists, sampler, heap_pie>>
    BY DEF Heap!Allocate
  <1>6. CASE EntrySize > slab.size
    <2>1. /\ heap' = k.heap
          /\ slab' = [ptr |-> k.ret, size |-> Slab]
          /\ ghost' = [ghost EXCEPT !.wild = (k.ret = Heap!Failed)]
      BY <1>2, <1>6 DEF Heap!Allocate
    <2>2. (k.ret = Heap!Failed) \in BOOLEAN
      OBVIOUS
    <2>3. /\ ghost' \in GhostRecords
          /\ ghost'.pieces = ghost.pieces
          /\ ghost'.overlap = ghost.overlap
          /\ ghost'.odd = ghost.odd
          /\ ghost'.taken = ghost.taken
          /\ ghost'.sampled = ghost.sampled
          /\ ghost'.wild = (k.ret = Heap!Failed)
      BY <1>1, <2>1, <2>2 DEF GhostRecords
    <2>4. slab' \in SlabRecords /\ slab'.ptr = k.ret /\ slab'.size = Slab
      BY <1>3, <1>4, <2>1 DEF SlabRecords
    <2>5. ASSUME NEW p \in ghost.pieces PROVE p.hi <= heap.end /\ p.hi \in Nat
      BY <1>1 DEF HeapInv, HeapPieces, GhostRecords
    <2>6. heap.end \in Nat /\ heap'.end \in Nat
      BY <1>1, <1>4, <2>1 DEF HeapRecords
    <2>7. HeapPieces'
      <3>1. ASSUME NEW p \in ghost.pieces PROVE p.hi <= heap'.end
        BY <1>4, <2>1, <2>5, <2>6
      <3>2. QED
        BY <2>3, <3>1 DEF HeapInv, HeapPieces
    <2>8. HeapSlab'
      <3> SUFFICES ASSUME ~ghost'.wild PROVE HeapSlab'
        BY DEF HeapSlab
      <3>1. /\ k.ret \in Nat
            /\ k.ret >= heap.end
            /\ k.heap.end = k.ret + Slab
            /\ k.ret + Slab <= HeapLimit
        BY <1>4, <2>3
      <3>2. \A p \in ghost.pieces : p.hi <= k.ret
        BY <2>5, <2>6, <3>1
      <3>3. k.ret + Slab <= heap'.end
        BY <1>3, <2>1, <2>6, <3>1
      <3>4. QED
        BY <2>3, <2>4, <3>1, <3>2, <3>3 DEF HeapSlab
    <2>9. HeapStack'
      <3> SUFFICES ASSUME ~ghost.odd PROVE Watched(heap')
        BY <2>3 DEF HeapStack, Watched
      <3>1. Watched(heap)
        BY DEF HeapInv, HeapStack
      <3>2. QED
        BY <1>1, <1>2, <1>3, <2>1, <3>1, SbrkWatches
    <2>10. QED
      <3>1. PICK f : f = [frame[x] EXCEPT !.pc = to, !.data = k.ret]
        OBVIOUS
      <3>2. /\ f \in ActorRecords
            /\ f.pc = to
            /\ f.data = k.ret
            /\ f.entry = frame[x].entry
            /\ f.fn = frame[x].fn
        BY <1>1, <1>4, <3>1 DEF ActorRecords, Recording
      <3>3. frame' = [frame EXCEPT ![x] = f]
        BY <1>5, <2>4, <3>1
      <3>4. at \in Recording /\ f.pc \notin LookedUp /\ f.pc \notin {"arc", "linkarc", "linkfn"}
        BY <3>2 DEF Recording, LookedUp
      <3>5. f.pc = "cutarc" => InList(f, lists'.fns)
        BY <1>5, <3>2 DEF Heap!At, HeapInv, HeapEntry, InList
      <3>6. lists' = lists /\ heap_pie' = heap_pie /\ sampler' = sampler
        BY <1>5
      <3>7. slab'.size >= EntrySize
        BY <1>3, <2>4
      <3>8. /\ frame' \in [Heap!Actors -> ActorRecords]
            /\ HeapLock' /\ HeapCut' /\ HeapEntry' /\ HeapLink'
        BY <1>5, <2>4, <3>2, <3>3, <3>4, <3>5, <3>6, <3>7, RecorderGoes
      <3>9. HeapTypes'
        BY <1>4, <2>1, <2>3, <2>4, <3>6, <3>8 DEF HeapInv, HeapTypes
      <3>10. HeapSamples' /\ Heap!SamplesKept'
        BY <2>3, <3>6, PiecesGrow
      <3>11. Heap!ArcsKept'
        BY <2>3, <3>6 DEF HeapInv, Heap!ArcsKept
      <3>12. QED
        BY <2>7, <2>8, <2>9, <3>8, <3>9, <3>10, <3>11 DEF HeapInv
  <1>7. CASE ~(EntrySize > slab.size)
    <2>1. UNCHANGED <<heap, slab, ghost>>
      BY <1>7 DEF Heap!Allocate
    <2>2. slab.ptr \in Int /\ slab.size >= EntrySize
      BY <1>1, <1>3, <1>7 DEF SlabRecords
    <2>3. PICK f : f = [frame[x] EXCEPT !.pc = to, !.data = slab.ptr]
      OBVIOUS
    <2>4. /\ f \in ActorRecords
          /\ f.pc = to
          /\ f.data = slab.ptr
          /\ f.entry = frame[x].entry
          /\ f.fn = frame[x].fn
      BY <1>1, <2>2, <2>3 DEF ActorRecords, Recording
    <2>5. frame' = [frame EXCEPT ![x] = f]
      BY <1>5, <2>1, <2>3
    <2>6. at \in Recording /\ f.pc \notin LookedUp /\ f.pc \notin {"arc", "linkarc", "linkfn"}
      BY <2>4 DEF Recording, LookedUp
    <2>7. lists' = lists /\ heap_pie' = heap_pie /\ sampler' = sampler
      BY <1>5
    <2>8. f.pc = "cutarc" => InList(f, lists'.fns)
      BY <1>5, <2>4 DEF Heap!At, HeapInv, HeapEntry, InList
    <2>9. f.data = slab'.ptr /\ slab'.size >= EntrySize
      BY <2>1, <2>2, <2>4
    <2>10. /\ frame' \in [Heap!Actors -> ActorRecords]
           /\ HeapLock' /\ HeapCut' /\ HeapEntry' /\ HeapLink'
      BY <1>5, <2>4, <2>5, <2>6, <2>7, <2>8, <2>9, RecorderGoes
    <2>11. HeapTypes'
      BY <2>1, <2>7, <2>10 DEF HeapInv, HeapTypes
    <2>12. HeapPieces' /\ HeapSlab' /\ HeapStack' /\ Heap!ArcsKept'
      BY <2>1, <2>7 DEF HeapInv, HeapPieces, HeapSlab, HeapStack, Watched, Heap!ArcsKept
    <2>13. HeapSamples' /\ Heap!SamplesKept'
      BY <2>1, <2>7, PiecesGrow
    <2>14. QED
      BY <2>10, <2>11, <2>12, <2>13 DEF HeapInv
  <1>8. QED
    BY <1>6, <1>7

\* The piece is cut from the slab and filled in.
LEMMA CutKeeps ==
  ASSUME HeapInv, NEW x \in Heap!Actors, NEW at, NEW to, NEW rest,
         \/ at = "cutfn" /\ to = "linkfn" /\ rest = lists.fns
         \/ at = "cutarc" /\ to = "linkarc" /\ rest = lists.arcs[frame[x].entry],
         Heap!Cut(x, at, to, rest)
  PROVE  HeapInv'
  <1>1. /\ heap \in HeapRecords /\ slab \in SlabRecords /\ ghost \in GhostRecords
        /\ frame[x] \in ActorRecords /\ lists \in ListRecords
    BY DEF HeapInv, HeapTypes
  <1>2. /\ Heap!At(x, at)
        /\ slab' = [ptr |-> slab.ptr + EntrySize, size |-> slab.size - EntrySize]
        /\ ghost' = Heap!Take(ghost, frame[x].data, EntrySize)
        /\ frame' = [frame EXCEPT ![x].pc = to, ![x].rest = rest]
        /\ UNCHANGED <<heap, lists, sampler, heap_pie>>
    BY DEF Heap!Cut
  <1>3. ~ghost.wild /\ frame[x].pc = at
    BY <1>2 DEF Heap!At
  <1>4. /\ frame[x].data = slab.ptr
        /\ slab.size >= EntrySize
        /\ slab.ptr \in Nat /\ slab.size \in Nat /\ EntrySize \in Nat /\ heap.end \in Nat
        /\ HeapLimit \in Nat
        /\ slab.ptr + slab.size <= HeapLimit
        /\ slab.ptr + slab.size <= heap.end
        /\ \A p \in ghost.pieces : p.hi <= slab.ptr \/ slab.ptr + slab.size <= p.lo
    BY <1>1, <1>3, HeapAssumption DEF HeapInv, HeapCut, HeapSlab, SlabRecords, HeapRecords
  <1>5. \A p \in ghost.pieces : p.lo \in Nat /\ p.hi \in Nat
    BY <1>1 DEF GhostRecords
  <1>6. /\ slab.ptr + EntrySize <= HeapLimit
        /\ slab.ptr + EntrySize <= heap.end
        /\ \A p \in ghost.pieces : p.hi <= slab.ptr \/ slab.ptr + EntrySize <= p.lo
    BY <1>4, <1>5
  <1>7. ~ghost.overlap
    BY DEF HeapInv, HeapPieces
  <1>8. /\ ghost' \in GhostRecords
        /\ ghost'.pieces = ghost.pieces
                             \cup {[lo |-> slab.ptr, hi |-> slab.ptr + EntrySize]}
        /\ ~ghost'.overlap
        /\ ghost'.taken = ghost.taken
        /\ ghost'.sampled = ghost.sampled
        /\ ghost'.odd = ghost.odd
        /\ ghost'.wild = ghost.wild
    BY <1>1, <1>2, <1>4, <1>6, <1>7, TakeApart
  <1>9. HeapPieces'
    <2>1. ASSUME NEW p \in ghost'.pieces PROVE p.hi <= heap.end
      <3>1. CASE p \in ghost.pieces
        BY <3>1 DEF HeapInv, HeapPieces
      <3>2. CASE p = [lo |-> slab.ptr, hi |-> slab.ptr + EntrySize]
        BY <1>6, <3>2
      <3>3. QED
        BY <1>8, <3>1, <3>2
    <2>2. QED
      BY <1>2, <1>8, <2>1 DEF HeapPieces
  <1>10. slab'.ptr = slab.ptr + EntrySize /\ slab'.size = slab.size - EntrySize
    BY <1>2
  <1>11. slab' \in SlabRecords /\ slab'.ptr \in Nat /\ slab'.ptr + slab'.size = slab.ptr + slab.size
    BY <1>2, <1>4 DEF SlabRecords
  <1>12. HeapSlab'
    <2>1. ASSUME NEW p \in ghost'.pieces
          PROVE  p.hi <= slab'.ptr \/ slab'.ptr + slab'.size <= p.lo
      <3>1. CASE p \in ghost.pieces
        BY <1>4, <1>5, <1>10, <1>11, <3>1
      <3>2. CASE p = [lo |-> slab.ptr, hi |-> slab.ptr + EntrySize]
        BY <1>4, <1>10, <3>2
      <3>3. QED
        BY <1>8, <3>1, <3>2
    <2>2. heap' = heap
      BY <1>2
    <2>3. slab'.ptr + slab'.size <= HeapLimit /\ slab'.ptr + slab'.size <= heap'.end
      BY <1>4, <1>11, <2>2
    <2>4. QED
      BY <1>11, <2>1, <2>3 DEF HeapSlab
  <1>13. PICK f : f = [frame[x] EXCEPT !.pc = to, !.rest = rest]
    OBVIOUS
  <1>14. at = "cutarc" => InList(frame[x], lists.fns)
    BY <1>3 DEF HeapInv, HeapEntry
  <1>15. at = "cutarc" => frame[x].entry \in Addresses
    <2>1. \A i \in DOMAIN lists.fns : lists.fns[i].addr \in Addresses
      <3>1. lists.fns \in Seq(Entries)
        BY <1>1 DEF ListRecords
      <3>2. \A i \in DOMAIN lists.fns : lists.fns[i] \in Entries
        BY <3>1
      <3>3. QED
        BY <3>2 DEF Entries
    <2>2. QED
      BY <1>14, <2>1 DEF InList
  <1>16. rest \in Seq(Entries) \cup Seq(FromNames)
    <2>1. lists.fns \in Seq(Entries)
      BY <1>1 DEF ListRecords
    <2>2. at = "cutarc" => lists.arcs[frame[x].entry] \in Seq(FromNames)
      BY <1>1, <1>15 DEF ListRecords
    <2>3. QED
      BY <2>1, <2>2
  <1>17. /\ f \in ActorRecords
         /\ f.pc = to
         /\ f.rest = rest
         /\ f.data = frame[x].data
         /\ f.entry = frame[x].entry
         /\ f.fn = frame[x].fn
    BY <1>1, <1>13, <1>16 DEF ActorRecords, Recording
  <1>18. frame' = [frame EXCEPT ![x] = f]
    BY <1>2, <1>13
  <1>19. /\ at \in Recording
         /\ f.pc \notin LookedUp
         /\ f.pc \notin {"arc", "cutfn", "cutarc"}
    BY <1>17 DEF Recording, LookedUp
  <1>20. lists' = lists /\ heap_pie' = heap_pie /\ sampler' = sampler /\ heap' = heap
    BY <1>2
  <1>21. f.pc = "linkarc" => InList(f, lists'.fns) /\ f.rest = lists'.arcs[f.entry]
    BY <1>14, <1>17, <1>20 DEF InList
  <1>22. f.pc = "linkfn" => f.data \in Addresses /\ f.rest = lists'.fns
    <2>1. f.data \in Addresses
      BY <1>4, <1>6, <1>17 DEF Addresses
    <2>2. QED
      BY <1>17, <1>20, <2>1
  <1>23. /\ frame' \in [Heap!Actors -> ActorRecords]
         /\ HeapLock' /\ HeapCut' /\ HeapEntry' /\ HeapLink'
    BY <1>2, <1>17, <1>18, <1>19, <1>20, <1>21, <1>22, RecorderGoes
  <1>24. HeapTypes'
    BY <1>8, <1>11, <1>20, <1>23 DEF HeapInv, HeapTypes
  <1>25. HeapSamples' /\ Heap!SamplesKept'
    BY <1>8, <1>20, PiecesGrow
  <1>26. HeapStack' /\ Heap!ArcsKept'
    BY <1>8, <1>20 DEF HeapInv, HeapStack, Watched, Heap!ArcsKept
  <1>27. QED
    BY <1>9, <1>12, <1>23, <1>24, <1>25, <1>26 DEF HeapInv

\* A sequence with an element in front of it.
LEMMA FrontOfList ==
  ASSUME NEW S, NEW e \in S, NEW s \in Seq(S), NEW t, t = <<e>> \o s
  PROVE  /\ t \in Seq(S)
         /\ 1 \in DOMAIN t
         /\ t[1] = e
         /\ \A i \in DOMAIN s : i + 1 \in DOMAIN t /\ t[i + 1] = s[i]
  <1>1. t \in Seq(S) /\ Len(t) = Len(s) + 1 /\ Len(s) \in Nat
    OBVIOUS
  <1>2. \A i \in 1 .. Len(t) : t[i] = IF i = 1 THEN e ELSE s[i - 1]
    OBVIOUS
  <1>3. DOMAIN t = 1 .. Len(t) /\ DOMAIN s = 1 .. Len(s)
    BY <1>1
  <1>4. 1 \in DOMAIN t /\ t[1] = e
    BY <1>1, <1>2, <1>3
  <1>5. ASSUME NEW i \in DOMAIN s PROVE i + 1 \in DOMAIN t /\ t[i + 1] = s[i]
    <2>1. PICK l \in Nat : l = Len(s) /\ Len(t) = l + 1
      BY <1>1
    <2>2. i \in 1 .. l
      BY <1>3, <2>1
    <2>3. i + 1 \in 1 .. l + 1 /\ i + 1 # 1 /\ (i + 1) - 1 = i
      BY <2>2
    <2>4. QED
      BY <1>2, <1>3, <2>1, <2>3
  <1>6. QED
    BY <1>1, <1>4, <1>5

\* The memory is as it was.
LEMMA SameMemory ==
  ASSUME HeapInv, UNCHANGED <<heap, slab, sampler>>,
         ghost'.pieces = ghost.pieces, ghost'.overlap = ghost.overlap,
         ghost'.sampled = ghost.sampled, ghost'.odd = ghost.odd, ghost'.wild = ghost.wild
  PROVE  HeapPieces' /\ HeapSlab' /\ HeapSamples' /\ Heap!SamplesKept' /\ HeapStack'
  BY DEF HeapInv, HeapPieces, HeapSlab, HeapSamples, Heap!SamplesKept, HeapStack, Watched

\* The entry of a function becomes the head of the list: all others are behind it.
LEMMA LinkFnKeeps ==
  ASSUME HeapInv, NEW x \in Heap!Actors, Heap!LinkFn(x)
  PROVE  HeapInv'
  <1>1. /\ Heap!At(x, "linkfn")
        /\ lists' = [lists EXCEPT !.fns = <<[addr |-> frame[x].data, self |-> frame[x].fn]>>
                                             \o frame[x].rest]
        /\ frame' = [frame EXCEPT ![x].pc = "arc", ![x].entry = frame[x].data]
        /\ UNCHANGED <<heap, slab, sampler, heap_pie, ghost>>
    BY DEF Heap!LinkFn
  <1>2. frame[x] \in ActorRecords /\ lists \in ListRecords /\ lists.fns \in Seq(Entries)
    BY DEF HeapInv, HeapTypes, ListRecords
  <1>3. frame[x].data \in Addresses /\ frame[x].rest = lists.fns
    BY <1>1 DEF Heap!At, HeapInv, HeapLink
  <1>4. PICK e : e = [addr |-> frame[x].data, self |-> frame[x].fn]
    OBVIOUS
  <1>5. /\ e \in Entries
        /\ e.addr = frame[x].data
        /\ e.self = frame[x].fn
    BY <1>2, <1>3, <1>4 DEF Entries, ActorRecords
  <1>6. PICK t : t = <<e>> \o lists.fns
    OBVIOUS
  <1>7. /\ t \in Seq(Entries)
        /\ 1 \in DOMAIN t
        /\ t[1] = e
        /\ \A i \in DOMAIN lists.fns : i + 1 \in DOMAIN t /\ t[i + 1] = lists.fns[i]
    BY <1>2, <1>5, <1>6, FrontOfList
  <1>8. lists' = [lists EXCEPT !.fns = t]
    BY <1>1, <1>3, <1>4, <1>6
  <1>9. lists' \in ListRecords /\ lists'.fns = t /\ lists'.arcs = lists.arcs
    BY <1>2, <1>7, <1>8 DEF ListRecords
  <1>10. PICK f : f = [frame[x] EXCEPT !.pc = "arc", !.entry = frame[x].data]
    OBVIOUS
  <1>11. /\ f \in ActorRecords
         /\ f.pc = "arc"
         /\ f.entry = frame[x].data
         /\ f.fn = frame[x].fn
    BY <1>2, <1>10, ActorFields DEF ActorRecords, Recording
  <1>12. frame' = [frame EXCEPT ![x] = f]
    BY <1>1, <1>10
  <1>13. InList(f, lists'.fns)
    BY <1>5, <1>7, <1>9, <1>11 DEF InList
  <1>14. \A g \in ActorRecords : InList(g, lists.fns) => InList(g, lists'.fns)
    BY <1>7, <1>9 DEF InList
  <1>15. /\ "linkfn" \in Recording
         /\ f.pc \notin LookedUp
         /\ f.pc \notin {"cutfn", "cutarc", "linkfn", "linkarc"}
    BY <1>11 DEF Recording, LookedUp
  <1>16. heap_pie' = heap_pie
    BY <1>1
  <1>17. /\ frame' \in [Heap!Actors -> ActorRecords]
         /\ HeapLock' /\ HeapCut' /\ HeapEntry' /\ HeapLink'
    BY <1>1, <1>11, <1>12, <1>13, <1>14, <1>15, <1>16, RecorderGoes
  <1>18. HeapTypes'
    BY <1>1, <1>9, <1>17 DEF HeapInv, HeapTypes
  <1>19. HeapPieces' /\ HeapSlab' /\ HeapSamples' /\ Heap!SamplesKept' /\ HeapStack'
    BY <1>1, SameMemory
  <1>20. Heap!ArcsKept'
    <2> SUFFICES ASSUME NEW a \in ghost'.taken
                 PROVE  \E i \in DOMAIN lists'.fns :
                          /\ lists'.fns[i].self = a[1]
                          /\ \E j \in DOMAIN lists'.arcs[lists'.fns[i].addr] :
                               lists'.arcs[lists'.fns[i].addr][j] = a[2]
      BY DEF Heap!ArcsKept
    <2>1. PICK i \in DOMAIN lists.fns :
            /\ lists.fns[i].self = a[1]
            /\ \E j \in DOMAIN lists.arcs[lists.fns[i].addr] :
                 lists.arcs[lists.fns[i].addr][j] = a[2]
      BY <1>1 DEF HeapInv, Heap!ArcsKept
    <2>2. i + 1 \in DOMAIN t /\ t[i + 1] = lists.fns[i]
      BY <1>7
    <2>3. QED
      BY <1>9, <2>1, <2>2
  <1>21. QED
    BY <1>17, <1>18, <1>19, <1>20 DEF HeapInv

\* The arc becomes the head of the list of its function, which has an entry.
LEMMA LinkArcKeeps ==
  ASSUME HeapInv, NEW x \in Heap!Actors, Heap!LinkArc(x)
  PROVE  HeapInv'
  <1>1. /\ Heap!At(x, "linkarc")
        /\ lists' = [lists EXCEPT !.arcs[frame[x].entry] = <<frame[x].caller>> \o frame[x].rest]
        /\ ghost' = [ghost EXCEPT !.taken = @ \cup {<<frame[x].fn, frame[x].caller>>}]
        /\ Heap!Goes(x, "enable")
        /\ UNCHANGED <<heap, slab, sampler, heap_pie>>
    BY DEF Heap!LinkArc
  <1>2. /\ frame[x] \in ActorRecords /\ lists \in ListRecords /\ ghost \in GhostRecords
        /\ lists.fns \in Seq(Entries) /\ lists.arcs \in [Addresses -> Seq(FromNames)]
    BY DEF HeapInv, HeapTypes, ListRecords
  <1>3. InList(frame[x], lists.fns) /\ frame[x].rest = lists.arcs[frame[x].entry]
    BY <1>1 DEF Heap!At, HeapInv, HeapEntry, HeapLink
  <1>4. PICK n \in DOMAIN lists.fns :
          lists.fns[n].addr = frame[x].entry /\ lists.fns[n].self = frame[x].fn
    BY <1>3 DEF InList
  <1>5. PICK entry : entry = frame[x].entry
    OBVIOUS
  <1>6. entry \in Addresses
    <2>1. lists.fns[n] \in Entries
      BY <1>2
    <2>2. QED
      BY <1>4, <1>5, <2>1 DEF Entries
  <1>7. PICK c : c = frame[x].caller
    OBVIOUS
  <1>8. PICK t : t = <<c>> \o lists.arcs[entry]
    OBVIOUS
  <1>9. c \in FromNames /\ lists.arcs[entry] \in Seq(FromNames)
    BY <1>2, <1>6, <1>7 DEF ActorRecords
  <1>10. /\ t \in Seq(FromNames)
         /\ 1 \in DOMAIN t
         /\ t[1] = c
         /\ \A i \in DOMAIN lists.arcs[entry] :
              i + 1 \in DOMAIN t /\ t[i + 1] = lists.arcs[entry][i]
    BY <1>8, <1>9, FrontOfList
  <1>11. lists' = [lists EXCEPT !.arcs[entry] = t]
    BY <1>1, <1>3, <1>5, <1>7, <1>8
  <1>12. PICK arcs : arcs = [lists.arcs EXCEPT ![entry] = t]
    OBVIOUS
  <1>13. /\ arcs \in [Addresses -> Seq(FromNames)]
         /\ arcs[entry] = t
         /\ \A b \in Addresses : b # entry => arcs[b] = lists.arcs[b]
    BY <1>2, <1>6, <1>10, <1>12
  <1>14. lists' = [lists EXCEPT !.arcs = arcs]
    BY <1>11, <1>12
  <1>15. lists' \in ListRecords /\ lists'.fns = lists.fns /\ lists'.arcs = arcs
    BY <1>2, <1>13, <1>14 DEF ListRecords
  <1>16. <<frame[x].fn, frame[x].caller>> \in Names \X FromNames
    BY <1>2 DEF ActorRecords
  <1>17. /\ ghost' \in GhostRecords
         /\ ghost'.pieces = ghost.pieces
         /\ ghost'.overlap = ghost.overlap
         /\ ghost'.odd = ghost.odd
         /\ ghost'.sampled = ghost.sampled
         /\ ghost'.wild = ghost.wild
         /\ ghost'.taken = ghost.taken \cup {<<frame[x].fn, c>>}
    BY <1>1, <1>2, <1>7, <1>16 DEF GhostRecords
  <1>18. PICK f \in ActorRecords : frame' = [frame EXCEPT ![x] = f] /\ f.pc = "enable"
    BY <1>1, ActorGoes DEF HeapInv, Recording
  <1>19. /\ "linkarc" \in Recording
         /\ f.pc \notin LookedUp
         /\ f.pc \notin {"arc", "cutfn", "cutarc", "linkfn", "linkarc"}
    BY <1>18 DEF Recording, LookedUp
  <1>20. heap_pie' = heap_pie
    BY <1>1
  <1>21. /\ frame' \in [Heap!Actors -> ActorRecords]
         /\ HeapLock' /\ HeapCut' /\ HeapEntry' /\ HeapLink'
    BY <1>1, <1>15, <1>18, <1>19, <1>20, RecorderGoes
  <1>22. HeapTypes'
    BY <1>1, <1>15, <1>17, <1>21 DEF HeapInv, HeapTypes
  <1>23. HeapPieces' /\ HeapSlab' /\ HeapSamples' /\ Heap!SamplesKept' /\ HeapStack'
    BY <1>1, <1>17, SameMemory
  <1>24. Heap!ArcsKept'
    <2> SUFFICES ASSUME NEW a \in ghost'.taken
                 PROVE  \E i \in DOMAIN lists.fns :
                          /\ lists.fns[i].self = a[1]
                          /\ \E j \in DOMAIN arcs[lists.fns[i].addr] :
                               arcs[lists.fns[i].addr][j] = a[2]
      BY <1>15 DEF Heap!ArcsKept
    <2>1. CASE a = <<frame[x].fn, c>>
      <3>1. a[1] = frame[x].fn /\ a[2] = c
        BY <2>1
      <3>2. arcs[lists.fns[n].addr] = t
        BY <1>4, <1>5, <1>13
      <3>3. QED
        BY <1>4, <1>10, <3>1, <3>2
    <2>2. CASE a \in ghost.taken
      <3>1. PICK i \in DOMAIN lists.fns :
              /\ lists.fns[i].self = a[1]
              /\ \E j \in DOMAIN lists.arcs[lists.fns[i].addr] :
                   lists.arcs[lists.fns[i].addr][j] = a[2]
        BY <2>2 DEF HeapInv, Heap!ArcsKept
      <3>2. PICK j \in DOMAIN lists.arcs[lists.fns[i].addr] :
              lists.arcs[lists.fns[i].addr][j] = a[2]
        BY <3>1
      <3>3. CASE lists.fns[i].addr = entry
        <4>1. j + 1 \in DOMAIN t /\ t[j + 1] = a[2]
          BY <1>10, <3>2, <3>3
        <4>2. QED
          BY <1>13, <3>1, <3>3, <4>1
      <3>4. CASE lists.fns[i].addr # entry
        <4>1. lists.fns[i].addr \in Addresses
          <5>1. lists.fns[i] \in Entries
            BY <1>2
          <5>2. QED
            BY <5>1 DEF Entries
        <4>2. arcs[lists.fns[i].addr] = lists.arcs[lists.fns[i].addr]
          BY <1>13, <3>4, <4>1
        <4>3. QED
          BY <3>1, <4>2
      <3>5. QED
        BY <3>3, <3>4
    <2>3. QED
      BY <1>17, <2>1, <2>2
  <1>25. QED
    BY <1>21, <1>22, <1>23, <1>24 DEF HeapInv

\* The heap starts in the invariant.
LEMMA HeapFirst == Heap!Init => HeapInv
  <1> SUFFICES ASSUME Heap!Init PROVE HeapInv
    OBVIOUS
  <1>1. /\ heap = [end |-> 0, limit |-> 0, reported |-> FALSE]
        /\ slab = [ptr |-> 0, size |-> 0]
        /\ lists = [fns |-> <<>>, arcs |-> [a \in 0 .. HeapLimit |-> <<>>]]
        /\ sampler = [need_init |-> TRUE, samples |-> Heap!Failed, rate |-> 0]
        /\ heap_pie = TRUE
        /\ frame = [x \in Heap!Actors |-> Heap!Ready]
        /\ ghost = [pieces |-> {}, overlap |-> FALSE, taken |-> {}, sampled |-> {},
                    odd |-> FALSE, wild |-> FALSE]
    BY DEF Heap!Init
  <1>2. Heap!Ready \in ActorRecords /\ Heap!Ready.pc = "ready"
    BY DEF Heap!Ready, ActorRecords, Names, FromNames, Heap!Failed
  <1>3. HeapTypes
    <2>1. heap \in HeapRecords /\ slab \in SlabRecords /\ heap_pie \in BOOLEAN
      BY <1>1 DEF HeapRecords, SlabRecords
    <2>2. sampler \in SamplerRecords
      BY <1>1 DEF SamplerRecords, Heap!Failed
    <2>3. ghost \in GhostRecords
      BY <1>1 DEF GhostRecords
    <2>4. lists \in ListRecords
      <3>1. <<>> \in Seq(Entries) /\ <<>> \in Seq(FromNames)
        OBVIOUS
      <3>2. [a \in 0 .. HeapLimit |-> <<>>] \in [Addresses -> Seq(FromNames)]
        BY <3>1 DEF Addresses
      <3>3. QED
        BY <1>1, <3>1, <3>2 DEF ListRecords
    <2>5. frame \in [Heap!Actors -> ActorRecords]
      BY <1>1, <1>2
    <2>6. QED
      BY <2>1, <2>2, <2>3, <2>4, <2>5 DEF HeapTypes
  <1>4. \A x \in Heap!Actors : frame[x].pc = "ready"
    BY <1>1, <1>2
  <1>5. HeapLock /\ HeapCut /\ HeapEntry /\ HeapLink
    BY <1>4 DEF HeapLock, HeapCut, HeapEntry, HeapLink, Recording, LookedUp, Heap!Actors
  <1>6. HeapPieces /\ HeapSlab /\ HeapSamples /\ Heap!SamplesKept /\ Heap!ArcsKept
    BY <1>1, HeapAssumption
    DEF HeapPieces, HeapSlab, HeapSamples, Heap!SamplesKept, Heap!ArcsKept
  <1>7. HeapStack
    <2>1. 0 = Align * 0
      BY HeapAssumption
    <2>2. Whole(0) /\ 0 < StackPointer
      BY <2>1, HeapAssumption DEF Whole
    <2>3. heap.end = 0 /\ heap.limit = 0
      BY <1>1
    <2>4. QED
      BY <2>2, <2>3 DEF HeapStack, Watched
  <1>8. QED
    BY <1>3, <1>5, <1>6, <1>7 DEF HeapInv

\* Every step of the heap and the profiler keeps the invariant.
LEMMA HeapKeeps == HeapInv /\ Heap!Next => HeapInv'
  <1> SUFFICES ASSUME HeapInv, Heap!Next PROVE HeapInv'
    OBVIOUS
  <1>1. CASE Heap!Malloc \/ Heap!ClockStarts \/ Heap!Interrupt \/ Heap!nios2_pcsample
    BY <1>1, MallocKeeps, ClockKeeps, InterruptKeeps, SampleKeeps
  <1>2. CASE Heap!Wild
    BY <1>2, SameHeap DEF Heap!Wild, Heap!heapVars
  <1>3. ASSUME NEW x \in Heap!Actors,
               \/ Heap!Mcount(x) \/ Heap!NeedInit(x) \/ Heap!ClearNeedInit(x)
               \/ Heap!nios2_pcsample_init(x)
               \/ Heap!RecordDisable(x) \/ Heap!RecordEnable(x) \/ Heap!Return(x)
        PROVE  HeapInv'
    BY <1>3, McountKeeps, NeedInitKeeps, SamplerKeeps, RecordDisableKeeps, RecordEnableKeeps
  <1>4. ASSUME NEW x \in Heap!Actors,
               Heap!NewFn(x) \/ Heap!NewArc(x) \/ Heap!CutFn(x) \/ Heap!CutArc(x)
        PROVE  HeapInv'
    <2>1. CASE Heap!NewFn(x) \/ Heap!NewArc(x)
      <3>1. PICK at, to : /\ \/ at = "fn" /\ to = "cutfn"
                             \/ at = "arc" /\ to = "cutarc"
                          /\ Heap!Allocate(x, at, to)
        BY <2>1 DEF Heap!NewFn, Heap!NewArc
      <3>2. QED
        BY <3>1, AllocateKeeps
    <2>2. CASE Heap!CutFn(x) \/ Heap!CutArc(x)
      <3>1. PICK at, to, rest :
              /\ \/ at = "cutfn" /\ to = "linkfn" /\ rest = lists.fns
                 \/ at = "cutarc" /\ to = "linkarc" /\ rest = lists.arcs[frame[x].entry]
              /\ Heap!Cut(x, at, to, rest)
        BY <2>2 DEF Heap!CutFn, Heap!CutArc
      <3>2. QED
        BY <3>1, CutKeeps
    <2>3. QED
      BY <1>4, <2>1, <2>2
  <1>5. ASSUME NEW x \in Heap!Actors, Heap!LinkFn(x) \/ Heap!LinkArc(x)
        PROVE  HeapInv'
    BY <1>5, LinkFnKeeps, LinkArcKeeps
  <1>6. QED
    BY <1>1, <1>2, <1>3, <1>4, <1>5 DEF Heap!Next

\* The invariant holds in every state of the services that exercises the heap.
LEMMA HeapAlways == MCSpec => [](which = "heap" => HeapInv)
  <1> DEFINE P == which = "heap" => HeapInv
  <1>1. MCInit => P
    BY HeapFirst DEF MCInit
  <1>2. P /\ [MCNext]_vars => P'
    <2> SUFFICES ASSUME P, [MCNext]_vars, which' = "heap" PROVE HeapInv'
      OBVIOUS
    <2>1. CASE which = "heap" /\ Heap!Next
      BY <2>1, HeapKeeps
    <2>2. CASE which' = which /\ UNCHANGED heapVars
      BY <2>2, SameHeap DEF heapVars
    <2>3. QED
      BY <2>1, <2>2 DEF MCNext, vars
  <1>3. QED
    BY <1>1, <1>2, PTL DEF MCSpec

\* No memory is handed out twice, whoever asks sbrk or cuts from the slab, the
\* sampler counts in its histogram or in the bucket behind it that was rounded
\* away, and the stack never runs into the heap unreported.
THEOREM HeapMemoryIsKept == MCSpec => []HeapMemoryKept
  <1>1. (which = "heap" => HeapInv) => HeapMemoryKept
    BY DEF HeapInv, HeapPieces, Heap!SamplesKept, HeapStack, Watched, HeapMemoryKept, Heap!MemoryKept
  <1>2. QED
    BY <1>1, HeapAlways, PTL

\* No arc that was recorded is lost to an interrupt, whatever it interrupts.
THEOREM HeapArcsAreKept == MCSpec => []HeapArcsKept
  <1>1. (which = "heap" => HeapInv) => HeapArcsKept
    BY DEF HeapInv, HeapArcsKept
  <1>2. QED
    BY <1>1, HeapAlways, PTL

-----------------------------------------------------------------------------
(* The time of day and sleeping                                            *)

\* The offset is the one the time that was told last left.
TimeInv ==
  /\ tick_rate \in Nat
  /\ ticks \in Nat
  /\ tick_rate > 0 =>
       \A s \in told :
         \E t \in Time!Times, tz \in Zones :
           s = <<t, tz>> /\ resettime = Time!Offset(t) /\ timezone = tz

\* Division with remainder, and what it rounds away.
LEMMA Quotient ==
  ASSUME NEW a \in Nat, NEW d \in Nat \ {0}
  PROVE  /\ a \div d \in Nat
         /\ a % d \in 0 .. d - 1
         /\ a = d * (a \div d) + (a % d)
  OBVIOUS

\* A number below the divisor.
LEMMA SmallNumber ==
  ASSUME NEW a \in Nat, NEW d \in Nat \ {0}, a < d
  PROVE  a \div d = 0 /\ a % d = a
  OBVIOUS

\* A time of day is read as it was set while the microseconds fit in 32 bits.
LEMMA TimeIsTold == TimeInv => Time!SetThenGetEarly
  <1> SUFFICES ASSUME TimeInv, tick_rate > 0, Time!Microseconds < WordMod, NEW s \in told
               PROVE  Time!ALT_GETTIMEOFDAY = s
    BY DEF Time!SetThenGetEarly, Time!SetThenGet
  <1>1. PICK t \in Time!Times, tz \in Zones :
          s = <<t, tz>> /\ resettime = Time!Offset(t) /\ timezone = tz
    BY DEF TimeInv
  <1>2. tick_rate \in Nat \ {0} /\ ticks \in Nat
    BY DEF TimeInv
  <1>3. PICK m : m = Time!Microseconds
    OBVIOUS
  <1>4. m \in Nat
    <2>1. PICK u : u = US \div tick_rate
      OBVIOUS
    <2>2. u \in Nat
      BY <1>2, <2>1, TimeAssumption, Quotient
    <2>3. m = ticks * u
      BY <1>3, <2>1 DEF Time!Microseconds
    <2>4. QED
      BY <1>2, <2>2, <2>3
  <1>5. m < WordMod /\ WordMod \in Nat \ {0}
    BY <1>3, TimeAssumption
  <1>6. m % WordMod = m
    BY <1>4, <1>5, SmallNumber
  <1>7. PICK r : r = m % US
    OBVIOUS
  <1>8. PICK q : q = ticks \div tick_rate
    OBVIOUS
  <1>9. r \in Nat /\ q \in Nat
    <2>1. US \in Nat \ {0}
      BY TimeAssumption
    <2>2. m % US \in 0 .. US - 1
      BY <1>4, <2>1, Quotient
    <2>3. ticks \div tick_rate \in Nat
      BY <1>2, Quotient
    <2>4. QED
      BY <1>7, <1>8, <2>1, <2>2, <2>3
  <1>10. resettime = [tv_sec |-> t.tv_sec - q, tv_usec |-> t.tv_usec - r]
    BY <1>1, <1>3, <1>6, <1>7, <1>8 DEF Time!Offset
  <1>11. t.tv_sec \in Int /\ t.tv_usec \in 0 .. US - 1
    BY TimeAssumption DEF Time!Times
  <1>12. t.tv_sec = (t.tv_sec - q) + q /\ t.tv_usec = (t.tv_usec - r) + r
    BY <1>9, <1>11, TimeAssumption
  <1>13. [tv_sec |-> resettime.tv_sec + q, tv_usec |-> resettime.tv_usec + r] = t
    BY <1>10, <1>12 DEF Time!Times
  <1>14. Time!ALT_GETTIMEOFDAY = <<Time!Normal(t), tz>>
    BY <1>1, <1>2, <1>3, <1>7, <1>8, <1>13 DEF Time!ALT_GETTIMEOFDAY
  <1>15. Time!Normal(t) = t
    <2>1. US \in Nat \ {0} /\ t.tv_usec \in Nat /\ t.tv_usec < US
      BY <1>11, TimeAssumption
    <2>2. t.tv_usec \div US = 0 /\ t.tv_usec % US = t.tv_usec
      BY <2>1, SmallNumber
    <2>3. ~(t.tv_usec < 0) /\ t.tv_sec + 0 = t.tv_sec
      BY <1>11, <2>1
    <2>4. Time!Normal(t) = [tv_sec |-> t.tv_sec + (t.tv_usec \div US),
                            tv_usec |-> t.tv_usec % US]
      BY <2>3 DEF Time!Normal
    <2>5. QED
      BY <2>2, <2>3, <2>4 DEF Time!Times
  <1>16. QED
    BY <1>1, <1>14, <1>15

\* The rounds of big loops, whatever register they find, and of the rest.
LEMMA RoundsEnough ==
  ASSUME NEW us \in Nat, NEW k \in Nat \ {0}, NEW chunk \in Nat, NEW big \in Nat,
         NEW left \in Nat, NEW max \in Nat, NEW i \in Nat, NEW rest \in Nat,
         NEW full \in Nat,
         i <= big - 1, chunk * k <= max, us = chunk * big + left, full >= max,
         rest >= left * k
  PROVE  max + i * max + (big - 1 - i) * full + rest >= us * k
  <1>1. PICK j \in Nat : big = 1 + i + j
    <2>1. big - 1 - i \in Nat /\ big = 1 + i + (big - 1 - i)
      OBVIOUS
    <2>2. QED
      BY <2>1
  <1>2. big - 1 - i = j
    BY <1>1
  <1>3. j * full >= j * max
    <2>1. full - max \in Nat
      OBVIOUS
    <2>2. j * (full - max) >= 0
      BY <2>1
    <2>3. QED
      BY <2>2
  <1>4. max * big = max + i * max + j * max
    BY <1>1
  <1>5. max * big >= (chunk * k) * big
    <2>1. max - chunk * k \in Nat
      OBVIOUS
    <2>2. (max - chunk * k) * big >= 0
      BY <2>1
    <2>3. QED
      BY <2>2
  <1>6. us * k = (chunk * k) * big + left * k
    OBVIOUS
  <1>7. QED
    BY <1>2, <1>3, <1>4, <1>5, <1>6

\* usleep never returns early, whatever the asm of its loops finds in its register.
LEMMA SleepIsLong == Time!SleepsLongEnough
  <1> SUFFICES ASSUME NEW us \in 0 .. WordMod - 1, NEW k \in LoopRates,
                      NEW n \in Time!alt_busy_sleep(us, k)
               PROVE  /\ n >= us * k
                      /\ us < Time!INT_MAX \div k => n <= us * k \/ n = 1
    BY DEF Time!SleepsLongEnough, Time!ALT_USLEEP
  <1>1. PICK max : max = Time!INT_MAX
    OBVIOUS
  <1>2. us \in Nat /\ WordMod \in Nat
    BY TimeAssumption
  <1>3. /\ max \in Nat \ {0} /\ max <= WordMod /\ k \in Nat \ {0} /\ k <= max
    BY <1>1, TimeAssumption DEF Time!INT_MAX
  <1>4. PICK chunk : chunk = max \div k
    OBVIOUS
  <1>5. chunk \in Nat \ {0} /\ chunk * k <= max
    <2>1. chunk \in Nat /\ max % k \in 0 .. k - 1 /\ max = k * chunk + (max % k)
      BY <1>3, <1>4, Quotient
    <2>2. CASE chunk = 0
      <3>1. max = max % k
        BY <1>3, <2>1, <2>2
      <3>2. QED
        BY <1>3, <2>1, <3>1
    <2>3. chunk * k = k * chunk /\ k * chunk \in Nat
      BY <1>3, <2>1
    <2>4. QED
      BY <1>3, <2>1, <2>2, <2>3
  <1>6. PICK big : big = us \div chunk
    OBVIOUS
  <1>7. PICK left : left = us % chunk
    OBVIOUS
  <1>8. big \in Nat /\ left \in Nat /\ left < chunk /\ us = chunk * big + left
    <2>1. us \div chunk \in Nat
      BY <1>2, <1>5, Quotient
    <2>2. us % chunk \in 0 .. chunk - 1
      BY <1>2, <1>5, Quotient
    <2>3. us = chunk * (us \div chunk) + (us % chunk)
      BY <1>2, <1>5, Quotient
    <2>4. us = chunk * big + left
      BY <1>6, <1>7, <2>3
    <2>5. QED
      BY <1>5, <1>6, <1>7, <2>1, <2>2, <2>4
  <1>9. us - big * chunk = left
    <2>1. big * chunk = chunk * big /\ chunk * big \in Nat
      BY <1>5, <1>8
    <2>2. QED
      BY <1>2, <1>8, <2>1
  <1>10. PICK rest : rest = Time!UntilZero(left * k)
    OBVIOUS
  <1>11. rest \in Nat /\ rest >= left * k
    <2>1. left * k \in Nat
      BY <1>3, <1>8
    <2>2. QED
      BY <1>2, <1>10, <2>1 DEF Time!UntilZero
  <1>12. Time!UntilZero(max) = max /\ Time!UntilZero(0) = WordMod
    BY <1>3 DEF Time!UntilZero
  <1>13. Time!alt_busy_sleep(us, k) =
           IF big = 0 THEN {Time!UntilNotPositive(us * k)}
           ELSE {max + i * max + (big - 1 - i) * WordMod + rest : i \in 0 .. big - 1}
    <2>1. Time!alt_busy_sleep(us, k) =
            IF us \div (Time!INT_MAX \div k) = 0 THEN {Time!UntilNotPositive(us * k)}
            ELSE {Time!INT_MAX + i * Time!UntilZero(Time!INT_MAX)
                    + ((us \div (Time!INT_MAX \div k)) - 1 - i) * Time!UntilZero(0)
                    + Time!UntilZero((us - (us \div (Time!INT_MAX \div k))
                                              * (Time!INT_MAX \div k)) * k) :
                    i \in 0 .. (us \div (Time!INT_MAX \div k)) - 1}
      BY DEF Time!alt_busy_sleep
    <2>2. Time!INT_MAX \div k = chunk
      BY <1>1, <1>4
    <2>3. us \div (Time!INT_MAX \div k) = big
      BY <1>6, <2>2
    <2>4. Time!UntilZero((us - big * chunk) * k) = rest
      BY <1>9, <1>10
    <2>5. Time!alt_busy_sleep(us, k) =
            IF big = 0 THEN {Time!UntilNotPositive(us * k)}
            ELSE {Time!INT_MAX + i * Time!UntilZero(Time!INT_MAX)
                    + (big - 1 - i) * Time!UntilZero(0)
                    + Time!UntilZero((us - big * chunk) * k) : i \in 0 .. big - 1}
      BY <2>1, <2>2, <2>3, Zenon
    <2>6. QED
      BY <1>1, <1>12, <2>4, <2>5, Zenon
  <1>14. CASE big = 0
    <2>1. n = Time!UntilNotPositive(us * k)
      BY <1>13, <1>14
    <2>2. us * k \in Nat
      BY <1>2, <1>3
    <2>3. QED
      BY <2>1, <2>2 DEF Time!UntilNotPositive
  <1>15. CASE big # 0
    <2>1. PICK i \in 0 .. big - 1 : n = max + i * max + (big - 1 - i) * WordMod + rest
      BY <1>13, <1>15
    <2>2. i \in Nat /\ i <= big - 1
      BY <1>8
    <2>3. n >= us * k
      BY <1>2, <1>3, <1>5, <1>8, <1>11, <2>1, <2>2, RoundsEnough
    <2>4. ~(us < chunk)
      <3>1. big >= 1
        BY <1>8, <1>15
      <3>2. chunk * big >= chunk
        BY <1>5, <1>8, <3>1
      <3>3. QED
        BY <1>2, <1>5, <1>8, <3>2
    <2>5. QED
      BY <1>1, <1>4, <2>3, <2>4
  <1>16. QED
    BY <1>14, <1>15

\* The invariant of the time of day.
LEMMA TimeAlways == MCSpec => [](which = "time" => TimeInv)
  <1> DEFINE P == which = "time" => TimeInv
  <1>1. MCInit => P
    <2>1. Time!Init => TimeInv
      BY TimeAssumption DEF Time!Init, TimeInv
    <2>2. QED
      BY <2>1 DEF MCInit
  <1>2. P /\ [MCNext]_vars => P'
    <2> SUFFICES ASSUME P, [MCNext]_vars, which' = "time" PROVE TimeInv'
      OBVIOUS
    <2>1. CASE which = "time" /\ Time!Next
      <3>1. CASE Time!Tick
        BY <2>1, <3>1 DEF Time!Tick, TimeInv
      <3>2. CASE Time!ALT_SETTIMEOFDAY
        <4>1. UNCHANGED <<tick_rate, ticks>> /\ tick_rate \in Nat /\ ticks \in Nat
          BY <2>1, <3>2 DEF Time!ALT_SETTIMEOFDAY, TimeInv
        <4>2. CASE tick_rate = 0
          BY <4>1, <4>2 DEF TimeInv
        <4>3. CASE tick_rate # 0
          <5>1. PICK t \in Time!Times, tz \in Zones :
                  resettime' = Time!Offset(t) /\ timezone' = tz /\ told' = {<<t, tz>>}
            BY <3>2, <4>3 DEF Time!ALT_SETTIMEOFDAY
          <5>2. PICK o : o = Time!Offset(t)
            OBVIOUS
          <5>3. Time!Offset(t)' = o
            BY <4>1, <5>2 DEF Time!Offset, Time!Microseconds
          <5>4. resettime' = Time!Offset(t)'
            BY <5>1, <5>2, <5>3
          <5>5. QED
            BY <4>1, <5>1, <5>4 DEF TimeInv, Time!Times
        <4>4. QED
          BY <4>2, <4>3
      <3>3. QED
        BY <2>1, <3>1, <3>2 DEF Time!Next
    <2>2. CASE which' = which /\ UNCHANGED timeVars
      <3>1. TimeInv /\ UNCHANGED <<tick_rate, ticks, resettime, timezone, told>>
        BY <2>2 DEF timeVars
      <3>2. QED
        BY <3>1 DEF TimeInv, Time!Times, Time!Offset, Time!Microseconds
    <2>3. QED
      BY <2>1, <2>2 DEF MCNext, vars
  <1>3. QED
    BY <1>1, <1>2, PTL DEF MCSpec

\* gettimeofday returns what settimeofday set while 32 bits hold the microseconds
\* since the start, and usleep waits for no less than it was asked to.
THEOREM TimeIsKept == MCSpec => []TimeKept
  <1>1. (which = "time" => TimeInv) => TimeKept
    BY TimeIsTold, SleepIsLong DEF TimeKept, Time!TimeKept
  <1>2. QED
    BY <1>1, TimeAlways, PTL

-----------------------------------------------------------------------------
(* The debug log                                                           *)

Printers ==
  [left : Nat, pc : {"test", "write"}, crossed : BOOLEAN]

LogTypes ==
  /\ level \in -1 .. 3
  /\ clock \in [rate : Nat, ticks : Nat]
  /\ beat \in [count : Nat, sec : Nat]
  /\ report \in Nat
  /\ fifo \in Nat
  /\ printing \in [Log!Actors -> Printers]
  /\ record \in [messages : Nat, driver : {"off", "reports"}, lost : BOOLEAN, torn : BOOLEAN]

\* Who is about to write has seen room that only the other may have taken; nothing
\* takes it from an interrupt.
LogRoom ==
  /\ fifo <= FifoSize
  /\ \A x \in Log!Actors :
       printing[x].pc = "write" /\ ~printing[x].crossed => fifo < FifoSize
  /\ ~printing["interrupt"].crossed

\* Before the clock starts there are no heartbeats and no reports.
LogBeat ==
  /\ clock.rate = 0 =>
       /\ clock.ticks = 0 /\ beat.sec = 0 /\ beat.count = 0
       /\ report = 0 /\ record.driver = "off"
  /\ beat.count <= Log!Interval
  /\ Log!Flags.sys_clk => beat.sec * (Log!Interval + 1) + beat.count = clock.ticks
  /\ ~Log!Flags.sys_clk => beat.count = 0

\* A report that is under way goes on.
LogReport ==
  /\ report <= Log!Ticks + 1
  /\ report > 0 => Log!Flags.alarm
  /\ record.driver = "reports" => Log!Ticks > 0 /\ report > 0

LogInv == LogTypes /\ LogRoom /\ LogBeat /\ LogReport /\ Log!LogKept

\* The fields of a level; what is logged does not depend on anything else.
LEMMA FlagFields ==
  /\ Log!Flags.sys_clk = (level >= 1)
  /\ Log!Flags.alarm = (level >= 2)
  BY DEF Log!Flags

\* The room and the printing of the program and of the interrupt.
LEMMA SilentPrinter ==
  /\ Log!Silent \in Printers
  /\ Log!Silent.pc = "test"
  /\ ~Log!Silent.crossed
  BY DEF Log!Silent, Printers

\* A step that starts n messages of x.
LEMMA LogsStep ==
  ASSUME LogTypes, NEW x \in Log!Actors, NEW n \in Nat, Log!Logs(x, n)
  PROVE  /\ printing' \in [Log!Actors -> Printers]
         /\ \A y \in Log!Actors : /\ printing'[y].pc = printing[y].pc
                                  /\ printing'[y].crossed = printing[y].crossed
         /\ record' \in [messages : Nat, driver : {"off", "reports"},
                         lost : BOOLEAN, torn : BOOLEAN]
         /\ record'.lost = record.lost
         /\ record'.torn = record.torn
         /\ \/ record'.driver = "reports" /\ report' > 0 /\ Log!Ticks > 0
            \/ record'.driver = record.driver /\ ~(report' > 0 /\ Log!Ticks > 0)
  <1>1. printing \in [Log!Actors -> Printers]
    BY DEF LogTypes
  <1>2. PICK k : k = n * MessageLen
    OBVIOUS
  <1>3. k \in Nat
    BY <1>2, LogAssumption
  <1>4. printing' = [printing EXCEPT ![x].left = k]
    BY <1>2 DEF Log!Logs
  <1>5. /\ printing' \in [Log!Actors -> Printers]
        /\ \A y \in Log!Actors : /\ printing'[y].pc = printing[y].pc
                                 /\ printing'[y].crossed = printing[y].crossed
    BY <1>1, <1>3, <1>4 DEF Printers
  <1>6. PICK d : d = IF report' > 0 /\ Log!Ticks > 0 THEN "reports" ELSE record.driver
    OBVIOUS
  <1>7. PICK m : m = record.messages + n
    OBVIOUS
  <1>8. /\ record' \in [messages : Nat, driver : {"off", "reports"},
                        lost : BOOLEAN, torn : BOOLEAN]
        /\ record'.lost = record.lost
        /\ record'.torn = record.torn
        /\ record'.driver = d
    <2>1. record' = [record EXCEPT !.messages = m, !.driver = d]
      BY <1>6, <1>7 DEF Log!Logs
    <2>2. m \in Nat /\ d \in {"off", "reports"}
      BY <1>6, <1>7 DEF LogTypes
    <2>3. QED
      BY <2>1, <2>2 DEF LogTypes
  <1>9. QED
    BY <1>5, <1>6, <1>8

\* A step that writes no character.
LEMMA RoomKept ==
  ASSUME LogInv, UNCHANGED fifo,
         \A y \in Log!Actors : /\ printing'[y].pc = printing[y].pc
                               /\ printing'[y].crossed = printing[y].crossed,
         record'.lost = record.lost, record'.torn = record.torn
  PROVE  LogRoom' /\ Log!LogKept'
  BY DEF LogInv, LogRoom, Log!LogKept, Log!Actors

\* The program, or the UART, logs.
LEMMA MessageKeeps ==
  ASSUME LogInv,
         Log!ALT_LOG_PRINT_BOOT \/ Log!alt_log_write \/ Log!alt_log_jtag_uart_isr_proc
  PROVE  LogInv'
  <1>1. PICK x \in Log!Actors : Log!Logs(x, 1)
    BY DEF Log!ALT_LOG_PRINT_BOOT, Log!alt_log_write, Log!alt_log_jtag_uart_isr_proc, Log!Actors
  <1>2. UNCHANGED <<level, clock, beat, report, fifo>>
    BY DEF Log!ALT_LOG_PRINT_BOOT, Log!alt_log_write, Log!alt_log_jtag_uart_isr_proc
  <1>3. /\ printing' \in [Log!Actors -> Printers]
        /\ \A y \in Log!Actors : /\ printing'[y].pc = printing[y].pc
                                 /\ printing'[y].crossed = printing[y].crossed
        /\ record' \in [messages : Nat, driver : {"off", "reports"},
                        lost : BOOLEAN, torn : BOOLEAN]
        /\ record'.lost = record.lost
        /\ record'.torn = record.torn
        /\ \/ record'.driver = "reports" /\ report' > 0 /\ Log!Ticks > 0
           \/ record'.driver = record.driver /\ ~(report' > 0 /\ Log!Ticks > 0)
    BY <1>1, LogsStep DEF LogInv
  <1>4. LogTypes'
    BY <1>2, <1>3 DEF LogInv, LogTypes
  <1>5. LogRoom' /\ Log!LogKept'
    BY <1>2, <1>3, RoomKept
  <1>6. clock.rate = 0 => report = 0
    BY DEF LogInv, LogBeat
  <1>7. LogBeat'
    BY <1>2, <1>3, <1>6 DEF LogInv, LogBeat, Log!Interval, Log!Flags
  <1>8. LogReport'
    BY <1>2, <1>3 DEF LogInv, LogReport, Log!Ticks, Log!Flags
  <1>9. QED
    BY <1>4, <1>5, <1>7, <1>8 DEF LogInv

\* The ticks between two reports.
LEMMA TicksAre ==
  ASSUME LogTypes
  PROVE  Log!Ticks \in Nat /\ (clock.rate = 0 => Log!Ticks = 0)
  <1>1. clock.rate \in Nat
    BY DEF LogTypes
  <1>2. QED
    BY <1>1, LogAssumption, Quotient, SmallNumber DEF Log!Ticks

\* The driver of the UART asks for reports.
LEMMA RegisterKeeps ==
  ASSUME LogInv, Log!ALT_LOG_JTAG_UART_ALARM_REGISTER
  PROVE  LogInv'
  <1>1. PICK n \in Nat : Log!Logs("program", n)
    BY DEF Log!ALT_LOG_JTAG_UART_ALARM_REGISTER
  <1>2. UNCHANGED <<level, clock, beat, fifo>>
    BY DEF Log!ALT_LOG_JTAG_UART_ALARM_REGISTER
  <1>3. "program" \in Log!Actors
    BY DEF Log!Actors
  <1>4. /\ printing' \in [Log!Actors -> Printers]
        /\ \A y \in Log!Actors : /\ printing'[y].pc = printing[y].pc
                                 /\ printing'[y].crossed = printing[y].crossed
        /\ record' \in [messages : Nat, driver : {"off", "reports"},
                        lost : BOOLEAN, torn : BOOLEAN]
        /\ record'.lost = record.lost
        /\ record'.torn = record.torn
        /\ \/ record'.driver = "reports" /\ report' > 0 /\ Log!Ticks > 0
           \/ record'.driver = record.driver /\ ~(report' > 0 /\ Log!Ticks > 0)
    BY <1>1, <1>3, LogsStep DEF LogInv
  <1>5. Log!Ticks \in Nat
    BY TicksAre DEF LogInv
  <1>6. \/ report' = Log!Ticks + 1 /\ Log!Flags.alarm /\ clock.rate > 0
        \/ report' = 0
    BY DEF Log!ALT_LOG_JTAG_UART_ALARM_REGISTER
  <1>7. record.driver = "off" /\ report = 0
    BY DEF Log!ALT_LOG_JTAG_UART_ALARM_REGISTER
  <1>8. report' \in Nat
    BY <1>5, <1>6
  <1>9. LogTypes'
    BY <1>2, <1>4, <1>8 DEF LogInv, LogTypes
  <1>10. LogRoom' /\ Log!LogKept'
    BY <1>2, <1>4, RoomKept
  <1>11. clock.rate = 0 => report' = 0
    BY <1>6 DEF LogInv, LogTypes
  <1>12. LogBeat'
    BY <1>2, <1>4, <1>7, <1>11 DEF LogInv, LogBeat, Log!Interval, Log!Flags
  <1>13. Log!Ticks' = Log!Ticks /\ Log!Flags' = Log!Flags
    BY <1>2 DEF Log!Ticks, Log!Flags
  <1>14. LogReport'
    BY <1>4, <1>5, <1>6, <1>7, <1>13 DEF LogReport
  <1>15. QED
    BY <1>9, <1>10, <1>12, <1>14 DEF LogInv

\* The clock starts: there were no heartbeats and no reports before.
LEMMA LogClockKeeps ==
  ASSUME LogInv, Log!ClockStarts
  PROVE  LogInv'
  <1>1. PICK r \in LogRates : clock' = [clock EXCEPT !.rate = r]
    BY DEF Log!ClockStarts
  <1>2. clock.rate = 0 /\ UNCHANGED <<level, beat, report, fifo, printing, record>>
    BY DEF Log!ClockStarts
  <1>3. /\ clock.ticks = 0 /\ beat.sec = 0 /\ beat.count = 0
        /\ report = 0 /\ record.driver = "off"
    BY <1>2 DEF LogInv, LogBeat
  <1>4. r \in Nat \ {0}
    BY LogAssumption
  <1>5. clock' \in [rate : Nat, ticks : Nat] /\ clock'.rate = r /\ clock'.ticks = 0
    BY <1>1, <1>3, <1>4 DEF LogInv, LogTypes
  <1>6. LogTypes'
    BY <1>2, <1>5 DEF LogInv, LogTypes
  <1>7. LogRoom' /\ Log!LogKept'
    BY <1>2, RoomKept
  <1>8. LogBeat'
    <2>1. 0 * (r + 1) + 0 = 0 /\ 0 <= r /\ r # 0
      BY <1>4
    <2>2. Log!Interval' = r
      BY <1>5 DEF Log!Interval
    <2>3. QED
      BY <1>2, <1>3, <1>5, <2>1, <2>2 DEF LogBeat
  <1>9. Log!Ticks' \in Nat
    BY <1>4, <1>5, LogAssumption, Quotient DEF Log!Ticks
  <1>10. LogReport'
    <2>1. PICK t \in Nat : t = Log!Ticks'
      BY <1>9
    <2>2. report' = 0 /\ record'.driver = "off" /\ 0 <= t + 1
      BY <1>2, <1>3
    <2>3. report' <= Log!Ticks' + 1
      BY <2>1, <2>2
    <2>4. ~(report' > 0) /\ record'.driver # "reports"
      BY <2>2
    <2>5. QED
      BY <2>3, <2>4 DEF LogReport
  <1>11. QED
    BY <1>6, <1>7, <1>8, <1>10 DEF LogInv

\* A heartbeat in every interval: the seconds and what is counted since make up
\* the ticks.
LEMMA BeatGoesOn ==
  ASSUME LogInv, clock.rate > 0
  PROVE  /\ Log!alt_log_system_clock \in [count : Nat, sec : Nat]
         /\ Log!alt_log_system_clock.count <= Log!Interval
         /\ Log!Flags.sys_clk =>
              Log!alt_log_system_clock.sec * (Log!Interval + 1)
                + Log!alt_log_system_clock.count = clock.ticks + 1
         /\ ~Log!Flags.sys_clk => Log!alt_log_system_clock.count = 0
  <1>1. /\ beat \in [count : Nat, sec : Nat] /\ clock.ticks \in Nat /\ Log!Interval \in Nat
        /\ beat.count <= Log!Interval
        /\ Log!Flags.sys_clk => beat.sec * (Log!Interval + 1) + beat.count = clock.ticks
        /\ ~Log!Flags.sys_clk => beat.count = 0
    BY DEF LogInv, LogTypes, LogBeat, Log!Interval
  <1>2. PICK i \in Nat : i = Log!Interval
    BY <1>1
  <1>3. PICK b \in [count : Nat, sec : Nat] : b = beat
    BY <1>1
  <1>4. b.count \in Nat /\ b.sec \in Nat
    OBVIOUS
  <1>5. CASE ~Log!Flags.sys_clk
    <2>1. Log!alt_log_system_clock = beat
      BY <1>5 DEF Log!alt_log_system_clock
    <2>2. QED
      BY <1>1, <1>5, <2>1
  <1>6. CASE Log!Flags.sys_clk /\ b.count + 1 > i
    <2>1. Log!alt_log_system_clock = [count |-> 0, sec |-> b.sec + 1]
      BY <1>2, <1>3, <1>6 DEF Log!alt_log_system_clock
    <2>2. b.count = i
      BY <1>1, <1>2, <1>3, <1>4, <1>6
    <2>3. b.sec * (i + 1) + i = clock.ticks
      BY <1>1, <1>2, <1>3, <1>6, <2>2
    <2>4. (b.sec + 1) * (i + 1) + 0 = b.sec * (i + 1) + i + 1
      BY <1>4
    <2>5. b.sec * (i + 1) + i + 1 = clock.ticks + 1
      BY <1>4, <2>3
    <2>6. QED
      BY <1>2, <1>4, <1>6, <2>1, <2>4, <2>5
  <1>7. CASE Log!Flags.sys_clk /\ ~(b.count + 1 > i)
    <2>1. Log!alt_log_system_clock = [beat EXCEPT !.count = b.count + 1]
      BY <1>2, <1>3, <1>7 DEF Log!alt_log_system_clock
    <2>2. PICK c : c = [b EXCEPT !.count = b.count + 1]
      OBVIOUS
    <2>3. c \in [count : Nat, sec : Nat] /\ c.count = b.count + 1 /\ c.sec = b.sec
      BY <1>4, <2>2
    <2>4. b.sec * (i + 1) + b.count = clock.ticks
      BY <1>1, <1>2, <1>3, <1>7
    <2>5. b.sec * (i + 1) + (b.count + 1) = clock.ticks + 1
      BY <1>4, <2>4
    <2>6. Log!alt_log_system_clock = c
      BY <1>3, <2>1, <2>2
    <2>7. c.count <= i
      BY <1>4, <1>7, <2>3
    <2>8. QED
      BY <1>2, <1>7, <2>3, <2>5, <2>6, <2>7
  <1>8. QED
    BY <1>5, <1>6, <1>7

\* The interrupt of the clock: the heartbeat, and the report if it is due.
LEMMA ClockInterruptKeeps ==
  ASSUME LogInv, Log!ClockInterrupt
  PROVE  LogInv'
  <1>1. PICK n \in Nat : Log!Logs("interrupt", n)
    <2>1. /\ (IF beat'.sec # beat.sec THEN 1 ELSE 0) \in Nat
          /\ (IF report = 1 /\ Log!Flags.alarm THEN 1 ELSE 0) \in Nat
      OBVIOUS
    <2>2. (IF beat'.sec # beat.sec THEN 1 ELSE 0)
            + (IF report = 1 /\ Log!Flags.alarm THEN 1 ELSE 0) \in Nat
      BY <2>1
    <2>3. QED
      BY <2>2 DEF Log!ClockInterrupt
  <1>2. UNCHANGED <<level, fifo>> /\ clock.rate > 0
    BY DEF Log!ClockInterrupt
  <1>3. "interrupt" \in Log!Actors
    BY DEF Log!Actors
  <1>4. /\ printing' \in [Log!Actors -> Printers]
        /\ \A y \in Log!Actors : /\ printing'[y].pc = printing[y].pc
                                 /\ printing'[y].crossed = printing[y].crossed
        /\ record' \in [messages : Nat, driver : {"off", "reports"},
                        lost : BOOLEAN, torn : BOOLEAN]
        /\ record'.lost = record.lost
        /\ record'.torn = record.torn
        /\ \/ record'.driver = "reports" /\ report' > 0 /\ Log!Ticks > 0
           \/ record'.driver = record.driver /\ ~(report' > 0 /\ Log!Ticks > 0)
    BY <1>1, <1>3, LogsStep DEF LogInv
  <1>5. clock \in [rate : Nat, ticks : Nat] /\ report \in Nat /\ Log!Ticks \in Nat
    BY TicksAre DEF LogInv, LogTypes
  <1>6. /\ clock' \in [rate : Nat, ticks : Nat]
        /\ clock'.rate = clock.rate
        /\ clock'.ticks = clock.ticks + 1
    BY <1>5 DEF Log!ClockInterrupt
  <1>7. Log!Interval' = Log!Interval /\ Log!Ticks' = Log!Ticks /\ Log!Flags' = Log!Flags
    BY <1>2, <1>6 DEF Log!Interval, Log!Ticks, Log!Flags
  <1>8. PICK b : b = Log!alt_log_system_clock
    OBVIOUS
  <1>9. beat' = b
    BY <1>8 DEF Log!ClockInterrupt
  <1>10. /\ b \in [count : Nat, sec : Nat]
         /\ b.count <= Log!Interval
         /\ Log!Flags.sys_clk => b.sec * (Log!Interval + 1) + b.count = clock.ticks + 1
         /\ ~Log!Flags.sys_clk => b.count = 0
    BY <1>2, <1>8, BeatGoesOn
  <1>11. /\ report = 1 => report' = IF Log!Flags.alarm THEN Log!Ticks ELSE 0
         /\ report > 1 => report' = report - 1
         /\ ~(report = 1) /\ ~(report > 1) => report' = 0
    BY DEF Log!ClockInterrupt, Log!altera_avalon_jtag_uart_report_log
  <1>12. report = 0 \/ report = 1 \/ report > 1
    BY <1>5
  <1>13. report' \in Nat
    BY <1>5, <1>11, <1>12
  <1>14. LogTypes'
    BY <1>2, <1>4, <1>6, <1>9, <1>10, <1>13 DEF LogInv, LogTypes
  <1>15. LogRoom' /\ Log!LogKept'
    BY <1>2, <1>4, RoomKept
  <1>16. LogBeat'
    <2>1. clock'.rate # 0
      BY <1>2, <1>5, <1>6
    <2>2. beat'.count <= Log!Interval'
      BY <1>7, <1>9, <1>10
    <2>3. Log!Flags'.sys_clk =>
            beat'.sec * (Log!Interval' + 1) + beat'.count = clock'.ticks
      BY <1>6, <1>7, <1>9, <1>10
    <2>4. ~Log!Flags'.sys_clk => beat'.count = 0
      BY <1>7, <1>9, <1>10
    <2>5. QED
      BY <2>1, <2>2, <2>3, <2>4 DEF LogBeat
  <1>17. LogReport'
    <2>1. /\ report <= Log!Ticks + 1
          /\ report > 0 => Log!Flags.alarm
          /\ record.driver = "reports" => Log!Ticks > 0 /\ report > 0
      BY DEF LogInv, LogReport
    <2>2. report' <= Log!Ticks + 1
      BY <1>5, <1>11, <1>12, <2>1
    <2>3. report' > 0 => Log!Flags.alarm
      BY <1>5, <1>11, <1>12, <2>1
    <2>4. record.driver = "reports" => Log!Ticks > 0 /\ report' > 0
      BY <1>5, <1>11, <1>12, <2>1
    <2>5. record'.driver = "reports" => Log!Ticks > 0 /\ report' > 0
      BY <1>4, <2>4
    <2>6. QED
      BY <1>7, <2>2, <2>3, <2>5 DEF LogReport
  <1>18. QED
    BY <1>14, <1>15, <1>16, <1>17 DEF LogInv

\* What the characters of the messages leave alone.
LEMMA BeatKept ==
  ASSUME LogInv, UNCHANGED <<level, clock, beat, report>>, record'.driver = record.driver
  PROVE  LogBeat' /\ LogReport'
  BY DEF LogInv, LogBeat, LogReport, Log!Interval, Log!Ticks, Log!Flags

\* Room is seen.
LEMMA TxReadyKeeps ==
  ASSUME LogInv, NEW x \in Log!Actors, Log!TxReady(x)
  PROVE  LogInv'
  <1>1. /\ fifo < FifoSize
        /\ printing' = [printing EXCEPT ![x].pc = "write", ![x].crossed = FALSE]
        /\ UNCHANGED <<level, clock, beat, report, fifo, record>>
    BY DEF Log!TxReady
  <1>2. printing \in [Log!Actors -> Printers]
    BY DEF LogInv, LogTypes
  <1>3. /\ printing' \in [Log!Actors -> Printers]
        /\ ~printing'[x].crossed
        /\ \A y \in Log!Actors : y # x => printing'[y] = printing[y]
    BY <1>1, <1>2 DEF Printers
  <1>4. LogTypes'
    BY <1>1, <1>3 DEF LogInv, LogTypes
  <1>5. LogRoom'
    BY <1>1, <1>3 DEF LogInv, LogRoom, Log!Actors
  <1>6. LogBeat' /\ LogReport' /\ Log!LogKept'
    BY <1>1, BeatKept DEF LogInv, Log!LogKept
  <1>7. QED
    BY <1>4, <1>5, <1>6 DEF LogInv

\* A character is written into the room that was seen, unless the program was
\* interrupted in between.
LEMMA TxWriteKeeps ==
  ASSUME LogInv, NEW x \in Log!Actors, Log!TxWrite(x)
  PROVE  LogInv'
  <1>1. /\ Log!Prints(x) /\ printing[x].pc = "write"
        /\ fifo' = IF fifo < FifoSize THEN fifo + 1 ELSE fifo
        /\ record' = [record EXCEPT
             !.lost = @ \/ (fifo = FifoSize /\ ~printing[x].crossed),
             !.torn = @ \/ (x = "interrupt" /\ fifo = FifoSize)]
        /\ printing' = [y \in Log!Actors |->
             IF y # x THEN [printing[y] EXCEPT !.crossed = (printing[y].pc = "write")]
             ELSE IF printing[x].left = 1 THEN Log!Silent
             ELSE [printing[x] EXCEPT !.left = @ - 1, !.pc = "test"]]
        /\ UNCHANGED <<level, clock, beat, report>>
    BY DEF Log!TxWrite
  <1>2. /\ printing \in [Log!Actors -> Printers] /\ fifo \in Nat /\ fifo <= FifoSize
        /\ FifoSize \in Nat
    BY LogAssumption DEF LogInv, LogTypes, LogRoom
  <1>3. /\ record.lost = FALSE /\ record.torn = FALSE
        /\ record \in [messages : Nat, driver : {"off", "reports"},
                       lost : BOOLEAN, torn : BOOLEAN]
    BY DEF LogInv, LogTypes, Log!LogKept
  <1>4. ~(fifo = FifoSize /\ ~printing[x].crossed)
    BY <1>1, <1>2 DEF LogInv, LogRoom
  <1>5. ~(x = "interrupt" /\ fifo = FifoSize)
    BY <1>4 DEF LogInv, LogRoom
  <1>6. record' = record
    <2>1. (record.lost \/ (fifo = FifoSize /\ ~printing[x].crossed)) = FALSE
      BY <1>3, <1>4
    <2>2. (record.torn \/ (x = "interrupt" /\ fifo = FifoSize)) = FALSE
      BY <1>3, <1>5
    <2>3. record' = [record EXCEPT !.lost = FALSE, !.torn = FALSE]
      BY <1>1, <2>1, <2>2
    <2>4. QED
      BY <1>3, <2>3
  <1>7. fifo' \in Nat /\ fifo' <= FifoSize
    BY <1>1, <1>2
  <1>8. /\ printing'[x] \in Printers
        /\ printing'[x].pc = "test"
        /\ printing'[x].crossed => printing[x].crossed
    <2>1. CASE printing[x].left = 1
      <3>1. printing'[x] = Log!Silent
        BY <1>1, <2>1
      <3>2. QED
        BY <3>1, SilentPrinter
    <2>2. CASE printing[x].left # 1
      <3>1. printing'[x] = [printing[x] EXCEPT !.left = @ - 1, !.pc = "test"]
        BY <1>1, <2>2
      <3>2. printing[x].left \in Nat /\ printing[x].left > 0
        BY <1>1, <1>2 DEF Log!Prints, Printers
      <3>3. printing[x].left - 1 \in Nat /\ printing[x] \in Printers
        BY <1>2, <3>2
      <3>4. QED
        BY <3>1, <3>3 DEF Printers
    <2>3. QED
      BY <2>1, <2>2
  <1>9. ASSUME NEW y \in Log!Actors, y # x
        PROVE  /\ printing'[y] \in Printers
               /\ printing'[y].pc = printing[y].pc
               /\ printing'[y].crossed <=> printing[y].pc = "write"
    <2>1. printing[y] \in Printers /\ (printing[y].pc = "write") \in BOOLEAN
      BY <1>2
    <2>2. printing'[y] = [printing[y] EXCEPT !.crossed = (printing[y].pc = "write")]
      BY <1>1, <1>9
    <2>3. QED
      BY <2>1, <2>2 DEF Printers
  <1>10. printing' \in [Log!Actors -> Printers]
    <2>1. \A y \in Log!Actors : printing'[y] \in Printers
      BY <1>8, <1>9
    <2>2. \E g : printing' = [y \in Log!Actors |-> g[y]]
      <3>1. printing' = [y \in Log!Actors |-> printing'[y]]
        BY <1>1
      <3>2. QED
        BY <3>1
    <2>3. QED
      BY <2>1, <2>2
  <1>11. LogTypes'
    BY <1>1, <1>3, <1>6, <1>7, <1>10 DEF LogInv, LogTypes
  <1>12. ~printing'["interrupt"].crossed
    <2>1. CASE x = "interrupt"
      BY <1>8, <2>1 DEF LogInv, LogRoom
    <2>2. CASE x # "interrupt"
      <3>1. x = "program" /\ "interrupt" \in Log!Actors
        BY <2>2 DEF Log!Actors
      <3>2. printing["interrupt"] = Log!Silent
        BY <1>1, <3>1 DEF Log!Prints, Log!ProgramRuns
      <3>3. QED
        BY <1>9, <2>2, <3>1, <3>2, SilentPrinter
    <2>3. QED
      BY <2>1, <2>2
  <1>13. LogRoom'
    <2>1. ASSUME NEW y \in Log!Actors, printing'[y].pc = "write", ~printing'[y].crossed
          PROVE  FALSE
      <3>1. CASE y = x
        BY <1>8, <2>1, <3>1
      <3>2. CASE y # x
        BY <1>9, <2>1, <3>2
      <3>3. QED
        BY <3>1, <3>2
    <2>2. QED
      BY <1>7, <1>12, <2>1 DEF LogRoom
  <1>14. LogBeat' /\ LogReport' /\ Log!LogKept'
    BY <1>1, <1>6, BeatKept DEF LogInv, Log!LogKept
  <1>15. QED
    BY <1>11, <1>13, <1>14 DEF LogInv

\* The host makes room.
LEMMA HostTakesKeeps ==
  ASSUME LogInv, Log!HostTakes
  PROVE  LogInv'
  <1>1. fifo > 0 /\ fifo' = fifo - 1 /\ UNCHANGED <<level, clock, beat, report, printing, record>>
    BY DEF Log!HostTakes
  <1>2. fifo \in Nat /\ FifoSize \in Nat /\ fifo <= FifoSize
    BY LogAssumption DEF LogInv, LogTypes, LogRoom
  <1>3. fifo' \in Nat /\ fifo' < FifoSize
    BY <1>1, <1>2
  <1>4. LogTypes'
    BY <1>1, <1>3 DEF LogInv, LogTypes
  <1>5. LogRoom'
    BY <1>1, <1>2, <1>3 DEF LogInv, LogRoom
  <1>6. LogBeat' /\ LogReport' /\ Log!LogKept'
    BY <1>1, BeatKept DEF LogInv, Log!LogKept
  <1>7. QED
    BY <1>4, <1>5, <1>6 DEF LogInv

\* A step that changes nothing of the log.
LEMMA SameLog ==
  ASSUME LogInv, UNCHANGED <<level, clock, beat, report, fifo, printing, record>>
  PROVE  LogInv'
  <1>1. LogBeat' /\ LogReport' /\ Log!LogKept'
    BY BeatKept DEF LogInv, Log!LogKept
  <1>2. QED
    BY <1>1 DEF LogInv, LogTypes, LogRoom

\* The log starts in the invariant.
LEMMA LogFirst == Log!Init => LogInv
  <1> SUFFICES ASSUME Log!Init PROVE LogInv
    OBVIOUS
  <1>1. /\ level \in -1 .. 3
        /\ clock = [rate |-> 0, ticks |-> 0]
        /\ beat = [count |-> 0, sec |-> 0]
        /\ report = 0
        /\ fifo = 0
        /\ printing = [x \in Log!Actors |-> Log!Silent]
        /\ record = [messages |-> 0, driver |-> "off", lost |-> FALSE, torn |-> FALSE]
    BY DEF Log!Init
  <1>2. LogTypes
    BY <1>1, SilentPrinter DEF LogTypes
  <1>3. LogRoom
    BY <1>1, SilentPrinter, LogAssumption DEF LogRoom, Log!Actors
  <1>4. LogBeat
    <2>1. Log!Interval = 0 /\ 0 * (0 + 1) + 0 = 0
      BY <1>1 DEF Log!Interval
    <2>2. beat.count = 0 /\ beat.sec = 0 /\ clock.ticks = 0 /\ record.driver = "off"
      BY <1>1
    <2>3. QED
      BY <1>1, <2>1, <2>2 DEF LogBeat
  <1>5. LogReport
    <2>1. Log!Ticks = 0
      BY <1>1, <1>2, TicksAre
    <2>2. QED
      BY <1>1, <2>1 DEF LogReport
  <1>6. Log!LogKept
    BY <1>1 DEF Log!LogKept
  <1>7. QED
    BY <1>2, <1>3, <1>4, <1>5, <1>6 DEF LogInv

\* The invariant holds in every state of the services that exercises the log.
LEMMA LogAlways == MCSpec => [](which = "log" => LogInv)
  <1> DEFINE P == which = "log" => LogInv
  <1>1. MCInit => P
    BY LogFirst DEF MCInit
  <1>2. P /\ [MCNext]_vars => P'
    <2> SUFFICES ASSUME P, [MCNext]_vars, which' = "log" PROVE LogInv'
      OBVIOUS
    <2>1. CASE which = "log" /\ Log!Next
      <3>1. CASE Log!Quiet
        BY <2>1, <3>1, SameLog DEF Log!Quiet, Log!logVars
      <3>2. CASE \E x \in Log!Actors : Log!TxReady(x) \/ Log!TxWrite(x)
        BY <2>1, <3>2, TxReadyKeeps, TxWriteKeeps
      <3>3. CASE \/ Log!ALT_LOG_PRINT_BOOT
                 \/ Log!alt_log_write
                 \/ Log!alt_log_jtag_uart_isr_proc
        BY <2>1, <3>3, MessageKeeps
      <3>4. CASE \/ Log!ALT_LOG_JTAG_UART_ALARM_REGISTER
                 \/ Log!ClockStarts
                 \/ Log!ClockInterrupt
                 \/ Log!HostTakes
        BY <2>1, <3>4, RegisterKeeps, LogClockKeeps, ClockInterruptKeeps, HostTakesKeeps
      <3>5. QED
        BY <2>1, <3>1, <3>2, <3>3, <3>4 DEF Log!Next
    <2>2. CASE which' = which /\ UNCHANGED logVars
      BY <2>2, SameLog DEF logVars
    <2>3. QED
      BY <2>1, <2>2 DEF MCNext, vars
  <1>3. QED
    BY <1>1, <1>2, PTL DEF MCSpec

\* The log of an interrupt is complete, the program's loses a character only to an
\* interrupt, the heartbeat keeps the time and reports go on (the part of
\* TextFaithful about the log).
THEOREM LogIsFaithful == MCSpec => [](which = "log" => Log!LogFaithful)
  <1>1. LogInv => Log!LogFaithful
    <2> SUFFICES ASSUME LogInv PROVE Log!LogFaithful
      OBVIOUS
    <2>1. report \in Nat /\ Log!Ticks \in Nat
      BY TicksAre DEF LogInv, LogTypes
    <2>2. record.driver = "reports" => report \in 1 .. Log!Ticks + 1
      BY <2>1 DEF LogInv, LogReport
    <2>3. QED
      BY <2>2 DEF LogInv, LogBeat, Log!LogFaithful, Log!HeartbeatKept
  <1>2. QED
    BY <1>1, LogAlways, PTL

=============================================================================
