------------------------------- MODULE AltLog -------------------------------
(***************************************************************************)
(* The debug log of the HAL (HAL/inc/sys/alt_log_printf.h and the log      *)
(* procedures of HAL/src/alt_log_printf.c): what is logged at which level, *)
(* by the program and by interrupts, and how the characters of a message   *)
(* reach the UART the log shares.                                          *)
(*                                                                         *)
(* alt_log_txchar waits for room and writes in two steps; an interrupt     *)
(* that logs too may come in between.  What a message says is left to      *)
(* AltText.                                                                *)
(***************************************************************************)
EXTENDS Integers, Sequences

CONSTANTS
  FifoSize,     \* the room of the transmitter
  MessageLen,   \* the characters of a message
  LogRates,     \* the rates of the system clock
  Divisor,      \* ALT_LOG_JTAG_UART_TICKS_DIVISOR
  MaxMessages,  \* bound on the messages of a run
  MaxLogTicks   \* bound on its ticks

VARIABLES
  level,      \* ALT_LOG_FLAGS; fixed when the BSP is built
  clock,      \* _alt_tick_rate and the ticks so far
  beat,       \* alt_log_sys_clk_count and alt_system_clock_in_sec
  report,     \* ticks until the alarm of the UART report; 0 where there is none
  fifo,       \* the characters in the transmitter
  printing,   \* the messages the program, and the interrupt, have still to print
  record      \* ghost: messages, whether the driver reports, characters lost

logVars == <<level, clock, beat, report, fifo, printing, record>>

\* The flag settings of each level, with a JTAG UART in the system.
Flags ==
  [boot |-> level # -1, sys_clk |-> level >= 1, write |-> level >= 2,
   alarm |-> level >= 2, startup_info |-> level >= 1, isr |-> level >= 3]

Ticks == clock.rate \div Divisor      \* ALT_LOG_JTAG_UART_TICKS
Interval == clock.rate                \* ALT_LOG_SYS_CLK_INTERVAL

Actors == {"program", "interrupt"}
Silent == [left |-> 0, pc |-> "test", crossed |-> FALSE]

Init ==
  /\ level \in -1 .. 3
  /\ clock = [rate |-> 0, ticks |-> 0]
  /\ beat = [count |-> 0, sec |-> 0]
  /\ report = 0
  /\ fifo = 0
  /\ printing = [x \in Actors |-> Silent]
  /\ record = [messages |-> 0, driver |-> "off", lost |-> FALSE, torn |-> FALSE]

\* The program runs while no interrupt does, and starts one message at a time.
ProgramRuns == printing["interrupt"] = Silent
Idle == ProgramRuns /\ printing["program"] = Silent

\* x prints n messages.
Logs(x, n) ==
  /\ record.messages + n <= MaxMessages
  /\ record' = [record EXCEPT !.messages = @ + n,
                              !.driver = IF report' > 0 /\ Ticks > 0 THEN "reports" ELSE @]
  /\ printing' = [printing EXCEPT ![x].left = n * MessageLen]

-----------------------------------------------------------------------------
(* What is logged                                                          *)

\* The start-up and shut-down messages of alt_main and _exit.
ALT_LOG_PRINT_BOOT ==
  /\ Idle /\ Flags.boot
  /\ UNCHANGED <<level, clock, beat, report, fifo>>
  /\ Logs("program", 1)

\* The echo of what the program writes to the console.
alt_log_write ==
  /\ Idle /\ Flags.write
  /\ UNCHANGED <<level, clock, beat, report, fifo>>
  /\ Logs("program", 1)

\* When the driver of the UART starts.  alt_alarm_start refuses without a clock.
ALT_LOG_JTAG_UART_ALARM_REGISTER ==
  /\ Idle /\ report = 0 /\ record.driver = "off"
  /\ report' = IF Flags.alarm /\ clock.rate > 0 THEN Ticks + 1 ELSE 0
  /\ Logs("program", IF Flags.startup_info THEN 1 ELSE 0)
  /\ UNCHANGED <<level, clock, beat, fifo>>

\* The interrupt of the UART.
alt_log_jtag_uart_isr_proc ==
  /\ ProgramRuns /\ Flags.isr
  /\ UNCHANGED <<level, clock, beat, report, fifo>>
  /\ Logs("interrupt", 1)

\* External: a timer driver starts the clock.
ClockStarts ==
  /\ Idle /\ clock.rate = 0
  /\ \E r \in LogRates : clock' = [clock EXCEPT !.rate = r]
  /\ UNCHANGED <<level, beat, report, fifo, printing, record>>

\* The heartbeat; it prints when sec goes on.
alt_log_system_clock ==
  IF ~Flags.sys_clk THEN beat
  ELSE IF beat.count + 1 > Interval THEN [count |-> 0, sec |-> beat.sec + 1]
  ELSE [beat EXCEPT !.count = @ + 1]

\* The alarm: the ticks until the next report, which stops at 0.
altera_avalon_jtag_uart_report_log == IF Flags.alarm THEN Ticks ELSE 0

\* The interrupt of the clock: the heartbeat, then the alarm if it is due.
ClockInterrupt ==
  /\ ProgramRuns /\ clock.rate > 0 /\ clock.ticks < MaxLogTicks
  /\ clock' = [clock EXCEPT !.ticks = @ + 1]
  /\ beat' = alt_log_system_clock
  /\ report' = IF report = 1 THEN altera_avalon_jtag_uart_report_log
               ELSE IF report > 1 THEN report - 1 ELSE 0
  /\ Logs("interrupt", (IF beat'.sec # beat.sec THEN 1 ELSE 0)
                       + (IF report = 1 /\ Flags.alarm THEN 1 ELSE 0))
  /\ UNCHANGED <<level, fifo>>

-----------------------------------------------------------------------------
(* alt_log_txchar                                                          *)

Prints(x) == printing[x].left > 0 /\ (x = "program" => ProgramRuns)

\* The loop ends when there is room.
TxReady(x) ==
  /\ Prints(x) /\ printing[x].pc = "test"
  /\ fifo < FifoSize
  /\ printing' = [printing EXCEPT ![x].pc = "write", ![x].crossed = FALSE]
  /\ UNCHANGED <<level, clock, beat, report, fifo, record>>

\* The UART drops a character it has no room for.
TxWrite(x) ==
  /\ Prints(x) /\ printing[x].pc = "write"
  /\ fifo' = IF fifo < FifoSize THEN fifo + 1 ELSE fifo
  /\ record' = [record EXCEPT
       !.lost = @ \/ (fifo = FifoSize /\ ~printing[x].crossed),
       !.torn = @ \/ (x = "interrupt" /\ fifo = FifoSize)]
  /\ printing' = [y \in Actors |->
       IF y # x THEN [printing[y] EXCEPT !.crossed = printing[y].pc = "write"]
       ELSE IF printing[x].left = 1 THEN Silent
       ELSE [printing[x] EXCEPT !.left = @ - 1, !.pc = "test"]]
  /\ UNCHANGED <<level, clock, beat, report>>

\* External: the host takes a character.
HostTakes ==
  /\ fifo > 0
  /\ fifo' = fifo - 1
  /\ UNCHANGED <<level, clock, beat, report, printing, record>>

\* Nothing is left to be logged within the bounds.
Quiet == Idle /\ fifo = 0 /\ UNCHANGED logVars

Next ==
  \/ ALT_LOG_PRINT_BOOT \/ alt_log_write \/ ALT_LOG_JTAG_UART_ALARM_REGISTER
  \/ alt_log_jtag_uart_isr_proc \/ ClockStarts \/ ClockInterrupt
  \/ (\E x \in Actors : TxReady(x) \/ TxWrite(x)) \/ HostTakes \/ Quiet

Spec == Init /\ [][Next]_logVars

-----------------------------------------------------------------------------

\* A message of an interrupt is complete, and the program loses a character only
\* if an interrupt logged between its look at the UART and its write.
LogKept == ~record.lost /\ ~record.torn

\* Heartbeats keep time: one every Interval + 1 ticks.  A report that was started
\* goes on, unless the clock is too slow for the divisor.
HeartbeatKept ==
  /\ Flags.sys_clk => beat.sec * (Interval + 1) + beat.count = clock.ticks
  /\ record.driver = "reports" => report \in 1 .. Ticks + 1

LogFaithful == LogKept /\ HeartbeatKept

=============================================================================
