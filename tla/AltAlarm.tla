------------------------------ MODULE AltAlarm ------------------------------
(***************************************************************************)
(* Alarms and the system clock of the HAL: HAL/src/alt_tick.c and          *)
(* alt_alarm_start.c, and the linked lists of HAL/inc/sys/alt_llist.h.     *)
(*                                                                         *)
(* Two actors share the list of alarms: the program, which starts and      *)
(* stops alarms with interrupts disabled, and the interrupt of the system  *)
(* clock, which walks the list and makes the callbacks.  A step of the     *)
(* program is a group of stores; the clock interrupts between any two      *)
(* steps unless status.PIE is clear.                                       *)
(***************************************************************************)
EXTENDS Integers, FiniteSets

CONSTANTS
  Alarms,       \* the alt_alarm structures of the program
  ListHead,     \* &alt_alarm_list
  TickMod,      \* 2^32, the size of an alt_u32
  Delays,       \* the nticks the program starts alarms with
  Intervals,    \* what the callbacks return
  Rates         \* the rates a system clock driver may ask for

\* nticks + 1 is a 32-bit sum as well: a delay of 2^32 - 1 would become 0.
ASSUME DelaysAssumption ==
  /\ TickMod \in Nat \ {0}
  /\ Delays \subseteq 0 .. TickMod - 2
  /\ Intervals \subseteq 0 .. TickMod - 1
ASSUME RateAssumption == Rates \subseteq Nat \ {0}
ASSUME HeadAssumption == ListHead \notin Alarms
ASSUME NullAssumption == "NULL" \notin Alarms \cup {ListHead}

VARIABLES
  careful,    \* whether callbacks stop no alarm but their own; chosen at the start
  rate,       \* _alt_tick_rate
  nticks,     \* _alt_nticks
  alarm,      \* time and rollover of each alarm
  link,       \* next and previous of each entry of the list
  pie,        \* status.PIE
  thread,     \* the program, in alt_alarm_start or alt_alarm_stop
  isr,        \* alt_tick
  wait        \* ghost: the ticks until each alarm is due

alarmVars == <<careful, rate, nticks, alarm, link, pie, thread, isr, wait>>

Nodes == Alarms \cup {ListHead}

Linked(a) == link[a].next \notin {"NULL", a}

-----------------------------------------------------------------------------
(* Linked lists                                                            *)

InsertEntry(l, list, entry) == [l EXCEPT ![entry] = [next |-> l[list].next, previous |-> list]]
InsertList(l, list, entry) ==
  LET second == l[list].next
      backed == [l EXCEPT ![second].previous = entry]
  IN  [backed EXCEPT ![list].next = entry]

RemoveNeighbours(l, entry) ==
  LET backed == [l EXCEPT ![l[entry].next].previous = l[entry].previous]
  IN  [backed EXCEPT ![backed[entry].previous].next = backed[entry].next]
RemoveEntry(l, entry) == [l EXCEPT ![entry] = [next |-> entry, previous |-> entry]]

alt_llist_remove(l, entry) == RemoveEntry(RemoveNeighbours(l, entry), entry)

-----------------------------------------------------------------------------
(* The program                                                             *)

Idle == [pc |-> "idle"]

Init ==
  /\ careful \in BOOLEAN
  /\ rate = 0
  /\ nticks = 0
  /\ alarm = [a \in Alarms |-> [time |-> 0, rollover |-> FALSE]]
  /\ link = [n \in Nodes |-> IF n = ListHead THEN [next |-> ListHead, previous |-> ListHead]
                             ELSE [next |-> "NULL", previous |-> "NULL"]]
  /\ pie = TRUE
  /\ thread = Idle
  /\ isr = Idle
  /\ wait = [a \in Alarms |-> 0]

\* Only the first clock driver gets the clock.
alt_sysclk_init ==
  /\ thread = Idle /\ isr = Idle
  /\ \E r \in Rates : rate' = IF rate = 0 THEN r ELSE rate
  /\ UNCHANGED <<careful, nticks, alarm, link, pie, thread, isr, wait>>

\* Without a clock it fails with -ENOTSUP, with a null alarm with -EINVAL, and
\* nothing changes.  The program does not start an alarm that is running.
CallStart ==
  /\ thread = Idle /\ isr = Idle
  /\ \E a \in Alarms, n \in Delays :
       /\ ~Linked(a)
       /\ thread' = IF rate = 0 THEN Idle
                    ELSE [pc |-> "disable", op |-> "start", alarm |-> a, nticks |-> n]
  /\ UNCHANGED <<careful, rate, nticks, alarm, link, pie, isr, wait>>

\* alt_alarm_stop of an alarm that was started before, and may have ended.
CallStop ==
  /\ thread = Idle /\ isr = Idle
  /\ \E a \in Alarms :
       /\ link[a].next # "NULL"
       /\ thread' = [pc |-> "disable", op |-> "stop", alarm |-> a]
  /\ UNCHANGED <<careful, rate, nticks, alarm, link, pie, isr, wait>>

Runs(pc) == isr = Idle /\ thread.pc = pc

\* Mutant: the interrupts stay enabled.
DisableNothing ==
  /\ Runs("disable")
  /\ thread' = [pc |-> IF thread.op = "start" THEN "arm" ELSE "unlink",
                op |-> thread.op, alarm |-> thread.alarm, saved |-> pie,
                nticks |-> IF thread.op = "start" THEN thread.nticks ELSE 0]
  /\ UNCHANGED <<careful, rate, nticks, alarm, link, pie, isr, wait>>

alt_irq_disable_all ==
  /\ Runs("disable")
  /\ pie' = FALSE
  /\ thread' = [pc |-> IF thread.op = "start" THEN "arm" ELSE "unlink",
                op |-> thread.op, alarm |-> thread.alarm, saved |-> pie,
                nticks |-> IF thread.op = "start" THEN thread.nticks ELSE 0]
  /\ UNCHANGED <<careful, rate, nticks, alarm, link, isr, wait>>

\* Mutant: the rollover flag is left alone.
ArmNoRollover ==
  /\ Runs("arm")
  /\ LET a == thread.alarm
     IN  /\ alarm' = [alarm EXCEPT ![a].time = (thread.nticks + nticks + 1) % TickMod]
         /\ wait' = [wait EXCEPT ![a] = thread.nticks + 1]
  /\ thread' = [thread EXCEPT !.pc = "entry"]
  /\ UNCHANGED <<careful, rate, nticks, link, pie, isr>>

\* The body of alt_alarm_start up to alt_llist_insert.
Arm ==
  /\ Runs("arm")
  /\ LET a == thread.alarm
         time == (thread.nticks + nticks + 1) % TickMod
     IN  /\ alarm' = [alarm EXCEPT ![a] = [time |-> time, rollover |-> time < nticks]]
         /\ wait' = [wait EXCEPT ![a] = thread.nticks + 1]
  /\ thread' = [thread EXCEPT !.pc = "entry"]
  /\ UNCHANGED <<careful, rate, nticks, link, pie, isr>>

Relink(pc, l, to) ==
  /\ Runs(pc)
  /\ link' = l
  /\ thread' = [thread EXCEPT !.pc = to]
  /\ UNCHANGED <<careful, rate, nticks, alarm, pie, isr, wait>>

InsertFirst == Relink("entry", InsertEntry(link, ListHead, thread.alarm), "insert")
InsertSecond == Relink("insert", InsertList(link, ListHead, thread.alarm), "enable")
RemoveFirst == Relink("unlink", RemoveNeighbours(link, thread.alarm), "self")
RemoveSecond == Relink("self", RemoveEntry(link, thread.alarm), "enable")

alt_irq_enable_all ==
  /\ Runs("enable")
  /\ pie' = thread.saved
  /\ thread' = Idle
  /\ UNCHANGED <<careful, rate, nticks, alarm, link, isr, wait>>

-----------------------------------------------------------------------------
(* alt_tick, at interrupt level                                            *)

\* The clock interrupt: the processor clears status.PIE.
alt_tick ==
  /\ rate > 0 /\ pie /\ isr = Idle
  /\ pie' = FALSE
  /\ nticks' = (nticks + 1) % TickMod
  /\ wait' = [a \in Alarms |-> IF Linked(a) THEN wait[a] - 1 ELSE wait[a]]
  /\ isr' = [pc |-> "walk", alarm |-> link[ListHead].next]
  /\ UNCHANGED <<careful, rate, alarm, link, thread>>

\* Mutant: next is not saved before the callback, but taken from the entry it
\* leaves behind, which points to itself if the callback stopped the alarm.
WalkRereads ==
  /\ isr.pc = "walk" /\ isr.alarm # ListHead
  /\ LET a == isr.alarm
         rollover == alarm[a].rollover /\ nticks # 0
     IN  /\ alarm' = [alarm EXCEPT ![a].rollover = rollover]
         /\ isr' = IF alarm[a].time <= nticks /\ ~rollover
                   THEN [pc |-> "callback", alarm |-> a, next |-> a]
                   ELSE [pc |-> "walk", alarm |-> link[a].next]
  /\ UNCHANGED <<careful, rate, nticks, link, pie, thread, wait>>

\* An entry of the list up to its callback.
Walk ==
  /\ isr.pc = "walk" /\ isr.alarm # ListHead
  /\ LET a == isr.alarm
         rollover == alarm[a].rollover /\ nticks # 0
     IN  /\ alarm' = [alarm EXCEPT ![a].rollover = rollover]
         /\ isr' = IF alarm[a].time <= nticks /\ ~rollover
                   THEN [pc |-> "callback", alarm |-> a, next |-> link[a].next]
                   ELSE [pc |-> "walk", alarm |-> link[a].next]
  /\ UNCHANGED <<careful, rate, nticks, link, pie, thread, wait>>

\* The callback, which may itself stop alarms, and what its result asks for.
Callback ==
  /\ isr.pc = "callback"
  /\ \E n \in Intervals, stops \in SUBSET (IF careful THEN {isr.alarm} ELSE Alarms) :
       LET a == isr.alarm
           time == (alarm[a].time + n) % TickMod
       IN  /\ Cardinality(stops) <= 1
           /\ \A b \in stops : link[b].next # "NULL"
           /\ LET l == IF stops = {} THEN link
                       ELSE alt_llist_remove(link, CHOOSE b \in stops : TRUE)
              IN  link' = IF n = 0 THEN alt_llist_remove(l, a) ELSE l
           /\ alarm' = IF n = 0 THEN alarm
                       ELSE [alarm EXCEPT ![a] = [time |-> time,
                                                  rollover |-> @.rollover \/ time < nticks]]
           /\ wait' = [wait EXCEPT ![a] = n]
           /\ isr' = [pc |-> "walk", alarm |-> isr.next]
  /\ UNCHANGED <<careful, rate, nticks, pie, thread>>

TickEnd ==
  /\ isr.pc = "walk" /\ isr.alarm = ListHead
  /\ isr' = Idle
  /\ pie' = TRUE
  /\ UNCHANGED <<careful, rate, nticks, alarm, link, thread, wait>>

Next ==
  \/ alt_sysclk_init \/ CallStart \/ CallStop \/ alt_irq_disable_all \/ Arm
  \/ InsertFirst \/ InsertSecond \/ RemoveFirst \/ RemoveSecond \/ alt_irq_enable_all
  \/ alt_tick \/ Walk \/ Callback \/ TickEnd

\* The processor goes on in the interrupt, or in the program, until it is done.
Processor ==
  \/ alt_irq_disable_all \/ Arm \/ InsertFirst \/ InsertSecond
  \/ RemoveFirst \/ RemoveSecond \/ alt_irq_enable_all
  \/ Walk \/ Callback \/ TickEnd

Spec == Init /\ [][Next]_alarmVars /\ WF_alarmVars(Processor)

-----------------------------------------------------------------------------

\* While no operation is half done, next and previous chain exactly the
\* running alarms into one ring through the head.
ListIntact ==
  thread.pc \in {"idle", "disable"} /\ isr.pc \in {"idle", "walk"} =>
    LET ring == {n \in Nodes : n = ListHead \/ Linked(n)}
    IN  /\ \A n \in ring : /\ link[n].next \in ring
                           /\ link[n].previous \in ring
                           /\ link[link[n].next].previous = n
        /\ \A S \in SUBSET ring :
             ListHead \in S /\ (\A n \in S : link[n].next \in S) => S = ring

\* Between ticks no running alarm is overdue, and an alarm is called only in
\* the tick it is due, whenever the 32-bit clock wraps, and not after it was
\* stopped.
OnTime ==
  careful =>
    /\ isr.pc = "idle" => \A a \in Alarms : Linked(a) => wait[a] > 0
    /\ isr.pc = "callback" => wait[isr.alarm] = 0 /\ Linked(isr.alarm)

\* Every tick ends: the walk of alt_tick comes back to the head of the list.
TickEnds == careful => (isr.pc = "walk" ~> isr.pc = "idle")

=============================================================================
