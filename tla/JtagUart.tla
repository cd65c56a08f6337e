------------------------------ MODULE JtagUart ------------------------------
(***************************************************************************)
(* The driver of the JTAG UART through which the program's printf and      *)
(* scanf talk to the host (altera_avalon_jtag_uart_*.c): two ring buffers  *)
(* between one thread that calls read, write, close and ioctl, and an      *)
(* interrupt routine that moves characters from and to the FIFOs of the    *)
(* core.  Nothing but the two updates of irq_enable in read and write is   *)
(* done with interrupts disabled; the interrupt routine may run between    *)
(* any two accesses of the thread, and the host acts at any time.          *)
(*                                                                         *)
(* Characters are numbered in each direction, so that the contents of      *)
(* every buffer tell which characters are where.                           *)
(***************************************************************************)
EXTENDS Integers, Sequences

CONSTANTS
  BufLen,           \* ALTERA_AVALON_JTAG_UART_BUF_LEN
  MaxCount,         \* the longest read or write the program asks for
  DefaultTimeout,   \* ALTERA_AVALON_JTAG_UART_DEFAULT_TIMEOUT
  IntMax,           \* INT_MAX
  Configs           \* the systems considered, see Config

ASSUME BufLenAssumption == BufLen \in Nat \ {0, 1}
ASSUME MaxCountAssumption == MaxCount \in Nat
ASSUME TimeoutAssumption ==
  IntMax \in Nat /\ DefaultTimeout \in 2 .. IntMax - 2

\* small: the polled driver is built (ALTERA_AVALON_JTAG_UART_SMALL); clocked:
\* there is a system clock, so that alarms can be started; depth: of the two
\* FIFOs of the core.  Characters are numbered modulo rx and tx in the two
\* directions; in a direction with number 0 there is no traffic.
Config == [small : BOOLEAN, clocked : BOOLEAN, depth : Nat \ {0},
           rx : Nat, tx : Nat]

ASSUME ConfigsAssumption == Configs \subseteq Config

VARIABLES
  config,    \* what is built and connected; chosen at the start
  dev,       \* registers and FIFOs of the core
  sp,        \* altera_avalon_jtag_uart_state
  thread,    \* the driver call in progress and its locals
  isr,       \* locals of altera_avalon_jtag_uart_irq
  host       \* the characters the host has sent and received, by number

vars == <<config, dev, sp, thread, isr, host>>

small == config.small
FifoDepth == config.depth
clocked == config.clocked

Index == 0 .. BufLen - 1

Enables == {"RE", "WE"}   \* the interrupt enable bits of the control register

\* The characters between the indices out and in of a ring buffer.
RingLen(out, in) == (in - out + BufLen) % BufLen
Ring(buf, out, in) ==
  [i \in 1 .. RingLen(out, in) |-> buf[(out + i - 1) % BufLen]]

-----------------------------------------------------------------------------
(* The core                                                                *)

RI == "RE" \in dev.enable /\ dev.rfifo # <<>>
WI == "WE" \in dev.enable /\ Len(dev.wfifo) < FifoDepth

HostSends ==
  /\ config.rx > 0
  /\ Len(dev.rfifo) < FifoDepth
  /\ dev' = [dev EXCEPT !.rfifo = Append(@, host.sent), !.ac = clocked]
  /\ host' = [host EXCEPT !.sent = (@ + 1) % config.rx]
  /\ UNCHANGED <<config, sp, thread, isr>>

HostTakes ==
  /\ dev.wfifo # <<>>
  /\ dev' = [dev EXCEPT !.wfifo = Tail(@), !.ac = clocked]
  /\ host' = [host EXCEPT !.got = (@ + 1) % config.tx]
  /\ UNCHANGED <<config, sp, thread, isr>>

HostPolls ==
  /\ clocked
  /\ dev' = [dev EXCEPT !.ac = TRUE]
  /\ UNCHANGED <<config, sp, thread, isr, host>>

\* irq_enable |= bit (or &= ~bit) followed by a write of the control register
SetEnable(enable) ==
  /\ sp' = [sp EXCEPT !.irq_enable = enable]
  /\ dev' = [dev EXCEPT !.enable = enable]

-----------------------------------------------------------------------------
(* Initialisation                                                          *)

NoCall == [pc |-> "idle", count |-> 0, done |-> 0, in |-> 0, out |-> 0,
           n |-> 0, nonblock |-> FALSE, buf |-> <<>>, rx |-> 0, tx |-> 0]

NoIsr == [pc |-> "off", wi |-> FALSE, space |-> 0, ravail |-> FALSE]

\* The state structure is static: zero but for the default timeout.  init
\* gives up the timeout when the alarm that watches the host cannot start.
altera_avalon_jtag_uart_init ==
  /\ sp = [timeout |-> IF clocked THEN DefaultTimeout ELSE IntMax,
           irq_enable |-> IF small THEN {} ELSE {"RE"},
           host_inactive |-> 0, rx_in |-> 0, rx_out |-> 0,
           tx_in |-> 0, tx_out |-> 0,
           rx_buf |-> [i \in Index |-> 0], tx_buf |-> [i \in Index |-> 0]]
  /\ dev = [rfifo |-> <<>>, wfifo |-> <<>>, ac |-> FALSE,
            enable |-> sp.irq_enable]

Init ==
  /\ config \in Configs
  /\ altera_avalon_jtag_uart_init
  /\ thread = NoCall
  /\ isr = NoIsr
  /\ host = [sent |-> 0, got |-> 0]

-----------------------------------------------------------------------------
(* The interrupt routine.  It runs to its end before the thread goes on;   *)
(* the host acts between its accesses to the core.                         *)

\* Top of the loop, and entry: the control register decides what is served.
ReadControl ==
  isr' = IF ~RI /\ ~WI THEN NoIsr
         ELSE [pc |-> IF RI THEN "rx" ELSE "tx", wi |-> WI,
               space |-> IF WI THEN FifoDepth - Len(dev.wfifo) ELSE 0,
               ravail |-> RI]

Interrupt ==
  /\ isr.pc = "off" /\ ~small
  /\ RI \/ WI
  /\ ReadControl
  /\ UNCHANGED <<config, dev, sp, thread, host>>

IsrControl ==
  /\ isr.pc = "control"
  /\ ReadControl
  /\ UNCHANGED <<config, dev, sp, thread, host>>

\* Mutant: the routine does not look whether the buffer is full.
IsrRxCharOverruns ==
  /\ isr.pc = "rx"
  /\ dev.rfifo # <<>>
  /\ dev' = [dev EXCEPT !.rfifo = Tail(@)]
  /\ sp' = [sp EXCEPT !.rx_buf[sp.rx_in] = Head(dev.rfifo),
                      !.rx_in = (@ + 1) % BufLen]
  /\ isr' = [isr EXCEPT !.ravail = Len(dev.rfifo) > 1]
  /\ UNCHANGED <<config, thread, host>>

IsrRxChar ==
  /\ isr.pc = "rx"
  /\ (sp.rx_in + 1) % BufLen # sp.rx_out
  /\ dev.rfifo # <<>>
  /\ dev' = [dev EXCEPT !.rfifo = Tail(@)]
  /\ sp' = [sp EXCEPT !.rx_buf[sp.rx_in] = Head(dev.rfifo),
                      !.rx_in = (@ + 1) % BufLen]
  /\ isr' = [isr EXCEPT !.ravail = Len(dev.rfifo) > 1]
  /\ UNCHANGED <<config, thread, host>>

AtTop == [NoIsr EXCEPT !.pc = "control"]
IsrAfterRx ==
  IF isr.wi THEN [isr EXCEPT !.pc = "tx", !.ravail = FALSE] ELSE AtTop

\* The last word read was not valid, and says that nothing is left.
IsrRxEmpty ==
  /\ isr.pc = "rx"
  /\ (sp.rx_in + 1) % BufLen # sp.rx_out
  /\ dev.rfifo = <<>>
  /\ isr' = IsrAfterRx
  /\ UNCHANGED <<config, dev, sp, thread, host>>

\* The buffer is full: no more receive interrupts until it has been read,
\* unless the last word read said that nothing was left.
IsrRxFull ==
  /\ isr.pc = "rx"
  /\ (sp.rx_in + 1) % BufLen = sp.rx_out
  /\ IF isr.ravail THEN SetEnable(sp.irq_enable \ {"RE"})
                   ELSE UNCHANGED <<sp, dev>>
  /\ isr' = IsrAfterRx
  /\ UNCHANGED <<config, thread, host>>

IsrTxChar ==
  /\ isr.pc = "tx"
  /\ isr.space > 0 /\ sp.tx_out # sp.tx_in
  /\ dev' = [dev EXCEPT !.wfifo = Append(@, sp.tx_buf[sp.tx_out])]
  /\ sp' = [sp EXCEPT !.tx_out = (@ + 1) % BufLen]
  /\ isr' = [isr EXCEPT !.space = @ - 1]
  /\ UNCHANGED <<config, thread, host>>

\* Mutant: transmit interrupts end although characters may be left.
IsrTxEndAlways ==
  /\ isr.pc = "tx"
  /\ isr.space = 0 \/ sp.tx_out = sp.tx_in
  /\ SetEnable(sp.irq_enable \ {"WE"})
  /\ isr' = AtTop
  /\ UNCHANGED <<config, thread, host>>

IsrTxEnd ==
  /\ isr.pc = "tx"
  /\ isr.space = 0 \/ sp.tx_out = sp.tx_in
  /\ IF isr.space > 0 THEN SetEnable(sp.irq_enable \ {"WE"})
                      ELSE UNCHANGED <<sp, dev>>
  /\ isr' = AtTop
  /\ UNCHANGED <<config, thread, host>>

Isr == IsrControl \/ IsrRxChar \/ IsrRxEmpty \/ IsrRxFull \/ IsrTxChar \/ IsrTxEnd

\* Mutant: the count of silent seconds stops one too late.
TimeoutLate ==
  /\ clocked /\ ~small /\ isr.pc = "off"
  /\ IF dev.ac
     THEN /\ dev' = [dev EXCEPT !.ac = FALSE, !.enable = sp.irq_enable]
          /\ sp' = [sp EXCEPT !.host_inactive = 0]
     ELSE /\ sp.host_inactive < IntMax - 1
          /\ sp' = [sp EXCEPT !.host_inactive = @ + 1]
          /\ UNCHANGED dev
  /\ UNCHANGED <<config, thread, isr, host>>

\* The alarm that watches for the presence of the host, in the interrupt of
\* the system clock.
altera_avalon_jtag_uart_timeout ==
  /\ clocked /\ ~small /\ isr.pc = "off"
  /\ IF dev.ac
     THEN /\ dev' = [dev EXCEPT !.ac = FALSE, !.enable = sp.irq_enable]
          /\ sp' = [sp EXCEPT !.host_inactive = 0]
     ELSE /\ sp.host_inactive < IntMax - 2
          /\ sp' = [sp EXCEPT !.host_inactive = @ + 1]
          /\ UNCHANGED dev
  /\ UNCHANGED <<config, thread, isr, host>>

-----------------------------------------------------------------------------
(* The calls.  thread.rx and thread.tx number the characters the program   *)
(* has received and handed over in the calls that have returned.           *)

Connected == sp.host_inactive < sp.timeout

At(pc) == thread.pc = pc /\ isr.pc = "off"
Goto(pc) == thread' = [thread EXCEPT !.pc = pc]

Call(pc) ==
  /\ At("idle")
  /\ \E count \in 0 .. MaxCount, nonblock \in BOOLEAN :
       thread' = [thread EXCEPT !.pc = pc, !.count = count, !.nonblock = nonblock]
  /\ UNCHANGED <<config, dev, sp, isr, host>>

RxNumber(i) == IF config.rx = 0 THEN 0 ELSE i % config.rx
TxNumber(i) == IF config.tx = 0 THEN 0 ELSE i % config.tx

Return ==
  thread' = [NoCall EXCEPT !.rx = RxNumber(thread.rx + Len(thread.buf)),
                           !.tx = TxNumber(thread.tx + thread.done)]

CallRead == ~small /\ config.rx > 0 /\ Call("rd_load")

\* How many characters can be copied without wrapping around.
ReadRun(in, out) == IF in >= out THEN in - out ELSE BufLen - out

\* A read that got something, or may not block, returns.
AfterRuns(buf) == IF buf # <<>> \/ thread.nonblock THEN "rd_done" ELSE "rd_wait"

RdLoad ==
  /\ At("rd_load")
  /\ LET n == ReadRun(sp.rx_in, sp.rx_out)
     IN  thread' = IF thread.count = 0 THEN [thread EXCEPT !.pc = "rd_done"]
                   ELSE IF n = 0
                   THEN [thread EXCEPT !.pc = AfterRuns(thread.buf), !.in = sp.rx_in]
                   ELSE [thread EXCEPT !.pc = "rd_copy", !.in = sp.rx_in,
                           !.out = sp.rx_out,
                           !.n = IF n > thread.count THEN thread.count ELSE n]
  /\ UNCHANGED <<config, dev, sp, isr, host>>

RdCopy ==
  /\ At("rd_copy")
  /\ thread' = [thread EXCEPT
       !.pc = "rd_publish",
       !.buf = @ \o [i \in 1 .. thread.n |-> sp.rx_buf[thread.out + i - 1]]]
  /\ UNCHANGED <<config, dev, sp, isr, host>>

RdPublish ==
  /\ At("rd_publish")
  /\ sp' = [sp EXCEPT !.rx_out = (thread.out + thread.n) % BufLen]
  /\ thread' = [thread EXCEPT
       !.pc = IF thread.count > thread.n THEN "rd_load" ELSE AfterRuns(thread.buf),
       !.count = @ - thread.n, !.out = 0, !.n = 0]
  /\ UNCHANGED <<config, dev, isr, host>>

\* Mutant: a waiting read does not look at the timeout.
RdWaitForever ==
  /\ At("rd_wait")
  /\ thread.in # sp.rx_in
  /\ Goto("rd_load")
  /\ UNCHANGED <<config, dev, sp, isr, host>>

RdWait ==
  /\ At("rd_wait")
  /\ thread.in # sp.rx_in \/ ~Connected
  /\ Goto(IF thread.in # sp.rx_in THEN "rd_load" ELSE "rd_done")
  /\ UNCHANGED <<config, dev, sp, isr, host>>

\* Mutant: irq_enable is overwritten instead of or-ed.
RdDoneOverwrites ==
  /\ At("rd_done")
  /\ IF thread.buf # <<>> THEN SetEnable({"RE"}) ELSE UNCHANGED <<sp, dev>>
  /\ Return
  /\ UNCHANGED <<config, isr, host>>

RdDone ==
  /\ At("rd_done")
  /\ IF thread.buf # <<>> THEN SetEnable(sp.irq_enable \cup {"RE"})
                          ELSE UNCHANGED <<sp, dev>>
  /\ Return
  /\ UNCHANGED <<config, isr, host>>

CallWrite == ~small /\ config.tx > 0 /\ Call("wr_load")

\* How many characters can be copied without wrapping around; one slot stays
\* free, so that a full buffer differs from an empty one.
WriteRun(in, out) ==
  IF in < out THEN out - 1 - in
  ELSE IF out > 0 THEN BufLen - in
  ELSE BufLen - 1 - in

WrLoad ==
  /\ At("wr_load")
  /\ LET n == WriteRun(sp.tx_in, sp.tx_out)
     IN  thread' = IF thread.count = 0 THEN [thread EXCEPT !.pc = "wr_kick"]
                   ELSE IF n = 0
                   THEN [thread EXCEPT !.pc = "wr_kick", !.out = sp.tx_out]
                   ELSE [thread EXCEPT !.pc = "wr_copy", !.in = sp.tx_in,
                           !.out = sp.tx_out,
                           !.n = IF n > thread.count THEN thread.count ELSE n]
  /\ UNCHANGED <<config, dev, sp, isr, host>>

WrCopy ==
  /\ At("wr_copy")
  /\ sp' = [sp EXCEPT !.tx_buf = [i \in Index |->
       IF i \in thread.in .. thread.in + thread.n - 1
       THEN TxNumber(thread.tx + thread.done + i - thread.in)
       ELSE @[i]]]
  /\ Goto("wr_publish")
  /\ UNCHANGED <<config, dev, isr, host>>

WrPublish ==
  /\ At("wr_publish")
  /\ sp' = [sp EXCEPT !.tx_in = (thread.in + thread.n) % BufLen]
  /\ thread' = [thread EXCEPT !.pc = "wr_load", !.count = @ - thread.n,
                              !.done = @ + thread.n, !.in = 0, !.n = 0]
  /\ UNCHANGED <<config, dev, isr, host>>

WrKick ==
  /\ At("wr_kick")
  /\ SetEnable(sp.irq_enable \cup {"WE"})
  /\ Goto(IF thread.count = 0 \/ thread.nonblock THEN "wr_done" ELSE "wr_wait")
  /\ UNCHANGED <<config, isr, host>>

WrWait ==
  /\ At("wr_wait")
  /\ thread.out # sp.tx_out \/ ~Connected
  /\ Goto(IF sp.host_inactive > 0 THEN "wr_done" ELSE "wr_load")
  /\ UNCHANGED <<config, dev, sp, isr, host>>

WrDone ==
  /\ At("wr_done")
  /\ Return
  /\ UNCHANGED <<config, dev, sp, isr, host>>

\* close drains the transmit buffer; the polled driver has no close.
CallClose ==
  /\ ~small
  /\ At("idle")
  /\ \E nonblock \in BOOLEAN :
       thread' = [thread EXCEPT !.pc = "close", !.nonblock = nonblock]
  /\ UNCHANGED <<config, dev, sp, isr, host>>

altera_avalon_jtag_uart_close ==
  /\ At("close")
  /\ sp.tx_out = sp.tx_in \/ ~Connected \/ thread.nonblock
  /\ Return
  /\ UNCHANGED <<config, dev, sp, isr, host>>

\* TIOCSTIMEOUT.  TIOCGCONNECTED only reports Connected.
altera_avalon_jtag_uart_ioctl ==
  /\ ~small
  /\ At("idle")
  /\ sp.timeout # IntMax
  /\ \E timeout \in 0 .. IntMax :
       sp' = [sp EXCEPT !.timeout =
                IF timeout >= 2 /\ timeout < IntMax THEN timeout ELSE IntMax - 1]
  /\ UNCHANGED <<config, dev, thread, isr, host>>

-----------------------------------------------------------------------------
(* The polled driver                                                       *)

CallSmallRead == small /\ config.rx > 0 /\ Call("small_read")
CallSmallWrite == small /\ config.tx > 0 /\ Call("small_write")

SmallRead ==
  /\ At("small_read")
  /\ \/ /\ thread.count > 0 /\ dev.rfifo # <<>>
        /\ dev' = [dev EXCEPT !.rfifo = Tail(@)]
        /\ thread' = [thread EXCEPT !.buf = Append(@, Head(dev.rfifo)),
                                    !.count = @ - 1]
     \/ /\ \/ thread.count = 0
           \/ dev.rfifo = <<>> /\ (thread.buf # <<>> \/ thread.nonblock)
        /\ Return
        /\ UNCHANGED dev
  /\ UNCHANGED <<config, sp, isr, host>>

SmallWrite ==
  /\ At("small_write")
  /\ \/ /\ thread.count > 0 /\ Len(dev.wfifo) < FifoDepth
        /\ dev' = [dev EXCEPT !.wfifo =
                     Append(@, TxNumber(thread.tx + thread.done))]
        /\ thread' = [thread EXCEPT !.done = @ + 1, !.count = @ - 1]
     \/ /\ thread.count = 0
        /\ Return
        /\ UNCHANGED dev
  /\ UNCHANGED <<config, sp, isr, host>>

-----------------------------------------------------------------------------

Reading == RdLoad \/ RdCopy \/ RdPublish \/ RdWait \/ RdDone
Writing == WrLoad \/ WrCopy \/ WrPublish \/ WrKick \/ WrWait \/ WrDone

Thread ==
  Reading \/ Writing \/ altera_avalon_jtag_uart_close \/ SmallRead \/ SmallWrite

Program ==
  \/ CallRead \/ CallWrite \/ CallClose \/ altera_avalon_jtag_uart_ioctl
  \/ CallSmallRead \/ CallSmallWrite

Host == HostSends \/ HostTakes \/ HostPolls

Next ==
  Host \/ Interrupt \/ Isr \/ altera_avalon_jtag_uart_timeout \/ Thread \/ Program

Spec == Init /\ [][Next]_vars

\* The processor runs, interrupts are taken and the clock ticks.  Nothing is
\* assumed of the host, nor that the program makes further calls.
FairSpec ==
  /\ Spec
  /\ WF_vars(Thread)
  /\ WF_vars(Interrupt)
  /\ WF_vars(Isr)
  /\ WF_vars(altera_avalon_jtag_uart_timeout)

-----------------------------------------------------------------------------

TypeOK ==
  /\ config \in Config
  /\ dev.enable \subseteq Enables /\ sp.irq_enable = dev.enable
  /\ Len(dev.rfifo) <= FifoDepth /\ Len(dev.wfifo) <= FifoDepth
  /\ sp.rx_in \in Index /\ sp.rx_out \in Index
  /\ sp.tx_in \in Index /\ sp.tx_out \in Index
  /\ sp.rx_buf \in [Index -> Nat] /\ sp.tx_buf \in [Index -> Nat]
  /\ sp.host_inactive \in 0 .. IntMax - 2 /\ sp.timeout \in 2 .. IntMax

\* Characters first, first + 1, ... up to (not including) last.
Numbered(s, Number(_), first, last) ==
  /\ \A i \in 1 .. Len(s) : s[i] = Number(first + i - 1)
  /\ last = Number(first + Len(s))

ReceivedIntact ==
  LET ring == Ring(sp.rx_buf, sp.rx_out, sp.rx_in)
      rest == IF thread.pc = "rd_publish"
              THEN SubSeq(ring, thread.n + 1, Len(ring)) ELSE ring
  IN  Numbered(thread.buf \o rest \o dev.rfifo, RxNumber, thread.rx, host.sent)

SentIntact ==
  Numbered(dev.wfifo \o Ring(sp.tx_buf, sp.tx_out, sp.tx_in),
           TxNumber, host.got, TxNumber(thread.tx + thread.done))

\* What the host has sent and the program has not been given yet is, in order
\* and without gap or repetition, in the caller's buffer, the receive ring and
\* the FIFO of the core, wherever the interrupt routine cuts into a read; and
\* what the program has handed over and the host has not taken is in the FIFO
\* and the transmit ring.  A write that returns early reports what it took.
StreamsIntact == ReceivedIntact /\ SentIntact

\* No wakeup is lost: while a read waits for an empty buffer to fill, receive
\* interrupts are enabled; characters left in the transmit ring have the
\* transmit interrupt enabled, except while write is about to enable it.
InterruptsArmed ==
  isr.pc = "off" /\ ~small =>
    /\ RingLen(sp.rx_out, sp.rx_in) = 0 /\ thread.buf = <<>> => "RE" \in dev.enable
    /\ sp.tx_out # sp.tx_in =>
         \/ "WE" \in dev.enable
         \/ thread.pc \in {"wr_load", "wr_copy", "wr_publish", "wr_kick"}

\* Neither FIFO stalls: received characters are moved on unless the receive
\* ring is full, and characters in the transmit ring unless the FIFO is full.
Flows ==
  /\ (~small /\ dev.rfifo # <<>>) ~>
       (dev.rfifo = <<>> \/ RingLen(sp.rx_out, sp.rx_in) = BufLen - 1)
  /\ (sp.tx_out # sp.tx_in) ~>
       (sp.tx_out = sp.tx_in \/ Len(dev.wfifo) = FifoDepth)

\* A call ends if the host keeps silent and the driver can tell: there is a
\* clock and the timeout is finite.
CallsEnd ==
  (<>[](clocked /\ ~small /\ ~dev.ac /\ sp.timeout < IntMax - 1)) =>
    []<>(thread.pc = "idle")

\* A timeout that ioctl was asked to switch off, or that init gave up, never
\* expires, however long the host is away: host_inactive stops short of it.
NeverMeansNever == sp.timeout >= IntMax - 1 => Connected

-----------------------------------------------------------------------------
(* Systems for model checking.  Characters are numbered modulo 2 or 4      *)
(* against rings of 3, so that a stale slot never holds the number that is *)
(* due.                                                                    *)

System(s, c, d, r, t) ==
  [small |-> s, clocked |-> c, depth |-> d, rx |-> r, tx |-> t]

\* Without a clock, as this board support package is built: traffic both ways,
\* and numbered characters in one direction.  With the clock running: one
\* direction.  The polled driver.
MCConfigs ==
  {System(FALSE, FALSE, 1, 1, 1),
   System(FALSE, FALSE, 2, 4, 0), System(FALSE, FALSE, 2, 0, 4),
   System(FALSE, TRUE, 1, 2, 0), System(FALSE, TRUE, 1, 0, 2),
   System(TRUE, FALSE, 2, 4, 4)}

=============================================================================
