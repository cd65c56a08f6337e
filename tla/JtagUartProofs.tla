--------------------------- MODULE JtagUartProofs ---------------------------
(***************************************************************************)
(* Proofs about the driver of the JTAG UART: for every length of the       *)
(* rings, depth of the FIFOs and timeout, whatever the interleaving of the *)
(* program, the interrupt routine and the host, no character is lost,      *)
(* repeated or reordered, no interrupt that is waited for is disabled, and *)
(* a timeout that is switched off never expires.                           *)
(***************************************************************************)
EXTENDS JtagUart, TLAPS

-----------------------------------------------------------------------------
(* The inductive invariant                                                 *)

ReadPcs == {"rd_load", "rd_copy", "rd_publish", "rd_wait", "rd_done"}
WritePcs == {"wr_load", "wr_copy", "wr_publish", "wr_kick", "wr_wait", "wr_done"}
SmallPcs == {"small_read", "small_write"}
Pcs == {"idle", "close"} \cup ReadPcs \cup WritePcs \cup SmallPcs

DevType == [rfifo : Seq(Nat), wfifo : Seq(Nat), ac : BOOLEAN, enable : SUBSET Enables]
SpType == [timeout : 2 .. IntMax, irq_enable : SUBSET Enables,
           host_inactive : 0 .. IntMax - 2, rx_in : Index, rx_out : Index,
           tx_in : Index, tx_out : Index,
           rx_buf : [Index -> Nat], tx_buf : [Index -> Nat]]
ThreadType == [pc : Pcs, count : Nat, done : Nat, in : Index, out : Index,
               n : Nat, nonblock : BOOLEAN, buf : Seq(Nat), rx : Nat, tx : Nat]
IsrType == [pc : {"off", "control", "rx", "tx"}, wi : BOOLEAN, space : Nat,
            ravail : BOOLEAN]
HostType == [sent : Nat, got : Nat]

Types ==
  /\ config \in Config
  /\ dev \in DevType
  /\ sp \in SpType
  /\ thread \in ThreadType
  /\ isr \in IsrType
  /\ host \in HostType

\* What the interrupt routine took for the room in the FIFO of the core is
\* there, because the host only makes more; the control register shows
\* irq_enable; the polled driver and the other one do not mix
\* (the polled one leaves the rings empty); and there is
\* no traffic in a direction that has no numbers.
Modes ==
  /\ sp.irq_enable = dev.enable
  /\ Len(dev.rfifo) <= FifoDepth
  /\ Len(dev.wfifo) + (IF isr.pc \in {"rx", "tx"} THEN isr.space ELSE 0) <= FifoDepth
  /\ small => /\ isr.pc = "off" /\ thread.pc \in {"idle"} \cup SmallPcs
              /\ sp.rx_in = sp.rx_out /\ sp.tx_in = sp.tx_out
  /\ ~small => thread.pc \notin SmallPcs
  /\ thread.pc \notin ReadPcs \cup {"small_read"} => thread.buf = <<>>
  /\ thread.pc \in WritePcs \cup {"small_write"} => config.tx > 0
  /\ config.tx = 0 => dev.wfifo = <<>> /\ sp.tx_in = sp.tx_out

\* How far position to of a ring is behind position from.
Dist(from, to) == IF to >= from THEN to - from ELSE to - from + BufLen

\* The number of the i-th of characters numbered modulo m: RxNumber and TxNumber.
Number(m, i) == IF m = 0 THEN 0 ELSE i % m

\* The characters a read has copied out of the ring and not yet given up there.
Taken == IF thread.pc = "rd_publish" THEN thread.n ELSE 0
RxHeld == Dist(sp.rx_out, sp.rx_in) - Taken
TxHeld == Dist(sp.tx_out, sp.tx_in)

\* The run a read copies stays filled and does not wrap around.
RxRun ==
  /\ thread.pc \in {"rd_copy", "rd_publish"} =>
       /\ thread.n \in 1 .. Dist(sp.rx_out, sp.rx_in)
       /\ thread.out = sp.rx_out /\ thread.out + thread.n <= BufLen
       /\ thread.n <= thread.count
  /\ thread.pc = "rd_publish" => thread.buf # <<>>

\* The characters received, by where they are.
RxStream ==
  LET b == Len(thread.buf) IN
  /\ \A i \in 1 .. b : thread.buf[i] = Number(config.rx, thread.rx + i - 1)
  /\ \A p \in Index :
       Dist(sp.rx_out, p) >= Taken /\ Dist(sp.rx_out, p) < Dist(sp.rx_out, sp.rx_in) =>
         sp.rx_buf[p] = Number(config.rx, thread.rx + b + Dist(sp.rx_out, p) - Taken)
  /\ \A i \in 1 .. Len(dev.rfifo) :
       dev.rfifo[i] = Number(config.rx, thread.rx + b + RxHeld + i - 1)
  /\ host.sent = Number(config.rx, thread.rx + b + RxHeld + Len(dev.rfifo))

\* The run a write fills stays free and does not wrap around; once it is
\* copied it holds what comes next.
TxRun ==
  thread.pc \in {"wr_copy", "wr_publish"} =>
    /\ thread.n \in 1 .. BufLen - 1 - TxHeld
    /\ thread.in = sp.tx_in /\ thread.in + thread.n <= BufLen
    /\ thread.n <= thread.count
    /\ thread.pc = "wr_publish" =>
         \A p \in thread.in .. thread.in + thread.n - 1 :
           sp.tx_buf[p] = Number(config.tx, thread.tx + thread.done + p - thread.in)

\* The characters handed over, by where they are.
TxStream ==
  /\ \A i \in 1 .. Len(dev.wfifo) : dev.wfifo[i] = Number(config.tx, host.got + i - 1)
  /\ \A p \in Index :
       Dist(sp.tx_out, p) < TxHeld =>
         sp.tx_buf[p] = Number(config.tx, host.got + Len(dev.wfifo) + Dist(sp.tx_out, p))
  /\ Number(config.tx, thread.tx + thread.done) = Number(config.tx, host.got + Len(dev.wfifo) + TxHeld)

\* Receive interrupts are disabled only when the ring is full, and stay so
\* only until the read that makes room has returned; transmit interrupts only
\* when the ring is empty.
Armed ==
  ~small =>
    /\ "RE" \in dev.enable \/ sp.rx_in # sp.rx_out \/ thread.buf # <<>>
    /\ \/ "WE" \in dev.enable
       \/ sp.tx_in = sp.tx_out
       \/ thread.pc \in {"wr_load", "wr_copy", "wr_publish", "wr_kick"}

IInv == Types /\ Modes /\ RxRun /\ RxStream /\ TxRun /\ TxStream /\ Armed

-----------------------------------------------------------------------------
(* Positions in a ring, and numbers of characters                          *)

\* Two positions in a ring are less than a round apart.
LEMMA RingMod ==
  ASSUME NEW x \in 0 .. 2 * BufLen - 1
  PROVE  x % BufLen = IF x < BufLen THEN x ELSE x - BufLen
  <1>1. BufLen \in Nat /\ BufLen > 0
    BY BufLenAssumption
  <1>2. CASE x < BufLen
    BY <1>1, <1>2
  <1>3. CASE x >= BufLen
    <2> DEFINE q == x \div BufLen
               r == x % BufLen
    <2>1. q \in Int /\ r \in 0 .. BufLen - 1 /\ x = BufLen * q + r
      BY <1>1
    <2> HIDE DEF q, r
    <2>2. CASE q = 1
      BY <1>1, <1>3, <2>1, <2>2 DEF r
    <2>3. CASE q <= 0
      <3>1. BufLen * q <= 0
        BY <1>1, <2>1, <2>3
      <3>2. QED
        BY <1>1, <1>3, <2>1, <3>1
    <2>4. CASE q >= 2
      <3>1. BufLen * q >= BufLen * 2
        BY <1>1, <2>1, <2>4
      <3>2. QED
        BY <1>1, <1>3, <2>1, <3>1
    <2>5. QED
      BY <2>1, <2>2, <2>3, <2>4
  <1>4. QED
    BY <1>1, <1>2, <1>3

\* The position after a position.
LEMMA NextIndex ==
  ASSUME NEW x \in Index
  PROVE  /\ (x + 1) % BufLen = IF x + 1 = BufLen THEN 0 ELSE x + 1
         /\ (x + 1) % BufLen \in Index
  <1>1. BufLen \in Nat /\ BufLen > 1 /\ x + 1 \in 0 .. 2 * BufLen - 1
    BY BufLenAssumption DEF Index
  <1>2. QED
    BY <1>1, RingMod DEF Index

\* The position after a run that does not wrap around.
LEMMA RunIndex ==
  ASSUME NEW x \in Index, NEW n \in Nat, x + n <= BufLen
  PROVE  /\ (x + n) % BufLen = IF x + n = BufLen THEN 0 ELSE x + n
         /\ (x + n) % BufLen \in Index
  <1>1. BufLen \in Nat /\ BufLen > 1 /\ x + n \in 0 .. 2 * BufLen - 1
    BY BufLenAssumption DEF Index
  <1>2. QED
    BY <1>1, RingMod DEF Index

\* RingLen is the distance between its indices.
LEMMA RingLenIsDist ==
  ASSUME NEW out \in Index, NEW in \in Index
  PROVE  RingLen(out, in) = Dist(out, in)
  <1>1. BufLen \in Nat /\ BufLen > 1 /\ in - out + BufLen \in 0 .. 2 * BufLen - 1
    BY BufLenAssumption DEF Index
  <1>2. QED
    BY <1>1, RingMod DEF Index, RingLen, Dist

\* Reducing one summand first does not change the remainder of a sum.
LEMMA ModOfSum ==
  ASSUME NEW m \in Nat, m > 0, NEW x \in Nat, NEW y \in Nat
  PROVE  ((x % m) + y) % m = (x + y) % m
  <1> DEFINE q == x \div m
             u == (x % m) + y
             p == u \div m
             r == u % m
             k == (x + y) \div m
             s == (x + y) % m
  <1>1. q \in Int /\ x % m \in 0 .. m - 1 /\ x = m * q + (x % m)
    OBVIOUS
  <1>2. u \in Int /\ u = x + y - m * q
    BY <1>1
  <1> HIDE DEF u
  <1>3. p \in Int /\ r \in 0 .. m - 1 /\ u = m * p + r
    BY <1>2
  <1>4. k \in Int /\ s \in 0 .. m - 1 /\ x + y = m * k + s
    OBVIOUS
  <1> HIDE DEF q, p, r, k, s
  <1> DEFINE d == k - q - p
  <1>5. d \in Int /\ m * d = r - s
    BY <1>1, <1>2, <1>3, <1>4
  <1> HIDE DEF d
  <1>6. CASE d = 0
    BY <1>3, <1>4, <1>5, <1>6 DEF r, s, u
  <1>7. CASE d >= 1
    <2>1. m * d >= m
      BY <1>5, <1>7
    <2>2. QED
      BY <1>3, <1>4, <1>5, <2>1
  <1>8. CASE d <= -1
    <2>1. m * d <= -m
      BY <1>5, <1>8
    <2>2. QED
      BY <1>3, <1>4, <1>5, <2>1
  <1>9. QED
    BY <1>5, <1>6, <1>7, <1>8

\* The number of a character is a number.
LEMMA NumberType ==
  ASSUME NEW m \in Nat, NEW x \in Nat
  PROVE  Number(m, x) \in Nat
  BY DEF Number

\* Numbers may be reduced early.
LEMMA NumberFold ==
  ASSUME NEW m \in Nat, NEW x \in Nat
  PROVE  \A y \in Nat : Number(m, Number(m, x) + y) = Number(m, x + y)
  <1>1. CASE m = 0
    BY <1>1 DEF Number
  <1>2. CASE m > 0
    <2> SUFFICES ASSUME NEW y \in Nat
                 PROVE  Number(m, Number(m, x) + y) = Number(m, x + y)
      OBVIOUS
    <2>1. \A z \in Nat : Number(m, z) = z % m /\ z % m \in Nat
      BY <1>2 DEF Number
    <2>2. ((x % m) + y) % m = (x + y) % m
      BY <1>2, ModOfSum
    <2>3. Number(m, x) = x % m /\ x % m \in Nat /\ (x % m) + y \in Nat /\ x + y \in Nat
      BY <2>1
    <2>4. Number(m, (x % m) + y) = ((x % m) + y) % m /\ Number(m, x + y) = (x + y) % m
      BY <2>1, <2>3
    <2>5. QED
      BY <2>2, <2>3, <2>4
  <1>3. QED
    BY <1>1, <1>2

\* The number of the next character.
LEMMA NumberNext ==
  ASSUME NEW m \in Nat, NEW x \in Nat
  PROVE  Number(m, Number(m, x) + 1) = Number(m, x + 1)
  <1>1. \A y \in Nat : Number(m, Number(m, x) + y) = Number(m, x + y)
    BY NumberFold
  <1>2. QED
    BY <1>1

\* Equal numbers stay equal when as many characters follow.
LEMMA NumberCongruence ==
  ASSUME NEW m \in Nat, NEW x \in Nat, NEW y \in Nat, Number(m, x) = Number(m, y)
  PROVE  \A k \in Nat : Number(m, x + k) = Number(m, y + k)
  <1>1. \A k \in Nat : Number(m, Number(m, x) + k) = Number(m, x + k)
    BY NumberFold
  <1>2. \A k \in Nat : Number(m, Number(m, y) + k) = Number(m, y + k)
    BY NumberFold
  <1>3. QED
    BY <1>1, <1>2

\* How much a read may copy at once.
LEMMA ReadRunFits ==
  ASSUME NEW in \in Index, NEW out \in Index
  PROVE  /\ ReadRun(in, out) \in 0 .. Dist(out, in)
         /\ out + ReadRun(in, out) <= BufLen
         /\ ReadRun(in, out) = 0 => in = out
  BY BufLenAssumption DEF ReadRun, Index, Dist

\* How much a write may copy at once: one slot stays free.
LEMMA WriteRunFits ==
  ASSUME NEW in \in Index, NEW out \in Index
  PROVE  /\ WriteRun(in, out) \in 0 .. BufLen - 1 - Dist(out, in)
         /\ in + WriteRun(in, out) <= BufLen
  BY BufLenAssumption DEF WriteRun, Index, Dist

\* The distance of two positions.
LEMMA DistType ==
  ASSUME NEW from \in Index, NEW to \in Index
  PROVE  /\ Dist(from, to) \in 0 .. BufLen - 1
         /\ Dist(from, to) = 0 <=> from = to
  BY BufLenAssumption DEF Index, Dist

\* Where a ring has room, an advance of its in index adds one position at the
\* end of it ...
LEMMA DistIn ==
  ASSUME NEW out \in Index, NEW in \in Index, (in + 1) % BufLen # out
  PROVE  Dist(out, (in + 1) % BufLen) = Dist(out, in) + 1
  <1> DEFINE j == (in + 1) % BufLen
  <1>1. j = (IF in + 1 = BufLen THEN 0 ELSE in + 1) /\ j # out
    BY NextIndex
  <1> HIDE DEF j
  <1>2. Dist(out, j) = Dist(out, in) + 1
    BY <1>1, BufLenAssumption DEF Index, Dist
  <1>3. QED
    BY <1>2 DEF j

\* ... and an advance of its out index by a run takes as many from its start.
LEMMA DistOut ==
  ASSUME NEW out \in Index, NEW n \in Nat, out + n <= BufLen,
         NEW p \in Index, n <= Dist(out, p)
  PROVE  Dist((out + n) % BufLen, p) = Dist(out, p) - n
  <1> DEFINE j == (out + n) % BufLen
  <1>1. j = (IF out + n = BufLen THEN 0 ELSE out + n)
    BY RunIndex
  <1> HIDE DEF j
  <1>2. Dist(j, p) = Dist(out, p) - n
    BY <1>1, BufLenAssumption DEF Index, Dist
  <1>3. QED
    BY <1>2 DEF j

\* The positions taken are then the farthest.
LEMMA DistOutPast ==
  ASSUME NEW out \in Index, NEW n \in Nat, out + n <= BufLen,
         NEW p \in Index, n > Dist(out, p)
  PROVE  Dist((out + n) % BufLen, p) = Dist(out, p) - n + BufLen
  <1> DEFINE j == (out + n) % BufLen
  <1>1. j = (IF out + n = BufLen THEN 0 ELSE out + n)
    BY RunIndex
  <1> HIDE DEF j
  <1>2. Dist(j, p) = Dist(out, p) - n + BufLen
    BY <1>1, BufLenAssumption DEF Index, Dist
  <1>3. QED
    BY <1>2 DEF j

\* An advance of the in index by a run into free room adds as many.
LEMMA DistRun ==
  ASSUME NEW out \in Index, NEW in \in Index, NEW n \in Nat, in + n <= BufLen,
         n <= BufLen - 1 - Dist(out, in)
  PROVE  Dist(out, (in + n) % BufLen) = Dist(out, in) + n
  <1> DEFINE j == (in + n) % BufLen
  <1>1. j = (IF in + n = BufLen THEN 0 ELSE in + n)
    BY RunIndex
  <1> HIDE DEF j
  <1>2. Dist(out, j) = Dist(out, in) + n
    BY <1>1, BufLenAssumption DEF Index, Dist
  <1>3. QED
    BY <1>2 DEF j

\* Sequences: the elements of a concatenation ...
LEMMA ConcatElements ==
  ASSUME NEW s \in Seq(Nat), NEW t \in Seq(Nat)
  PROVE  /\ s \o t \in Seq(Nat)
         /\ Len(s \o t) = Len(s) + Len(t)
         /\ \A i \in 1 .. Len(s) + Len(t) :
              (s \o t)[i] = IF i <= Len(s) THEN s[i] ELSE t[i - Len(s)]
  OBVIOUS

\* ... and a sequence given by its elements.
LEMMA ArraySequence ==
  ASSUME NEW n \in Nat, NEW f \in [1 .. n -> Nat]
  PROVE  f \in Seq(Nat) /\ Len(f) = n
  OBVIOUS

-----------------------------------------------------------------------------
(* Types                                                                   *)

\* The fields of the configuration.
LEMMA ConfigFields ==
  ASSUME config \in Config
  PROVE  /\ small \in BOOLEAN /\ clocked \in BOOLEAN
         /\ FifoDepth \in Nat /\ FifoDepth > 0
         /\ config.rx \in Nat /\ config.tx \in Nat
  BY DEF Config, small, clocked, FifoDepth

\* The fields of the core.
LEMMA DevFields ==
  ASSUME dev \in DevType
  PROVE  /\ dev.rfifo \in Seq(Nat) /\ dev.wfifo \in Seq(Nat)
         /\ dev.ac \in BOOLEAN /\ dev.enable \in SUBSET Enables
  BY DEF DevType

\* The fields of the driver's state.
LEMMA SpFields ==
  ASSUME sp \in SpType
  PROVE  /\ sp.timeout \in 2 .. IntMax /\ sp.host_inactive \in 0 .. IntMax - 2
         /\ sp.irq_enable \in SUBSET Enables
         /\ sp.rx_in \in Index /\ sp.rx_out \in Index
         /\ sp.tx_in \in Index /\ sp.tx_out \in Index
         /\ sp.rx_buf \in [Index -> Nat] /\ sp.tx_buf \in [Index -> Nat]
  BY DEF SpType

\* The locals of a call.
LEMMA ThreadFields ==
  ASSUME thread \in ThreadType
  PROVE  /\ thread.pc \in Pcs /\ thread.nonblock \in BOOLEAN
         /\ thread.in \in Index /\ thread.out \in Index
         /\ thread.count \in Nat /\ thread.done \in Nat /\ thread.n \in Nat
         /\ thread.rx \in Nat /\ thread.tx \in Nat
         /\ thread.buf \in Seq(Nat)
  BY DEF ThreadType

\* The locals of the interrupt routine.
LEMMA IsrFields ==
  ASSUME isr \in IsrType
  PROVE  /\ isr.pc \in {"off", "control", "rx", "tx"}
         /\ isr.wi \in BOOLEAN /\ isr.ravail \in BOOLEAN /\ isr.space \in Nat
  BY DEF IsrType

\* All of them.
LEMMA Fields ==
  ASSUME IInv
  PROVE  /\ config \in Config /\ dev \in DevType /\ sp \in SpType
         /\ thread \in ThreadType /\ isr \in IsrType /\ host \in HostType
         /\ host.sent \in Nat /\ host.got \in Nat
         /\ IntMax \in Nat /\ BufLen \in Nat /\ BufLen > 1 /\ 0 \in Index
  <1>1. 0 \in Index /\ IntMax \in Nat /\ BufLen \in Nat /\ BufLen > 1
    BY BufLenAssumption, TimeoutAssumption DEF Index
  <1>2. QED
    BY <1>1 DEF IInv, Types, HostType

\* Setting the interrupt enable bits.
LEMMA SetEnableTypes ==
  ASSUME dev \in DevType, sp \in SpType, NEW e \in SUBSET Enables, SetEnable(e)
  PROVE  /\ dev' \in DevType /\ sp' \in SpType
         /\ dev'.enable = e /\ sp'.irq_enable = e
         /\ dev'.rfifo = dev.rfifo /\ dev'.wfifo = dev.wfifo /\ dev'.ac = dev.ac
         /\ sp'.rx_in = sp.rx_in /\ sp'.rx_out = sp.rx_out /\ sp'.rx_buf = sp.rx_buf
         /\ sp'.tx_in = sp.tx_in /\ sp'.tx_out = sp.tx_out /\ sp'.tx_buf = sp.tx_buf
  BY DEF SetEnable, DevType, SpType

\* A call that returns leaves the thread idle, and numbers go on.
LEMMA ReturnTypes ==
  ASSUME IInv, Return
  PROVE  /\ thread' \in ThreadType
         /\ thread'.pc = "idle" /\ thread'.buf = <<>> /\ thread'.done = 0
         /\ thread'.rx = Number(config.rx, thread.rx + Len(thread.buf))
         /\ thread'.tx = Number(config.tx, thread.tx + thread.done)
  <1>1. /\ RxNumber(thread.rx + Len(thread.buf)) = Number(config.rx, thread.rx + Len(thread.buf))
        /\ TxNumber(thread.tx + thread.done) = Number(config.tx, thread.tx + thread.done)
        /\ Number(config.rx, thread.rx + Len(thread.buf)) \in Nat
        /\ Number(config.tx, thread.tx + thread.done) \in Nat
    <2>1. thread.rx + Len(thread.buf) \in Nat /\ thread.tx + thread.done \in Nat
      <3>1. /\ thread.rx \in Nat /\ thread.tx \in Nat /\ thread.done \in Nat
            /\ thread.buf \in Seq(Nat)
        BY Fields, ThreadFields
      <3>2. Len(thread.buf) \in Nat
        BY <3>1
      <3>3. QED
        BY <3>1, <3>2
    <2>2. config.rx \in Nat /\ config.tx \in Nat
      BY Fields, ConfigFields
    <2>3. QED
      BY <2>1, <2>2, NumberType DEF RxNumber, TxNumber, Number
  <1>2. /\ 0 \in Index /\ <<>> \in Seq(Nat) /\ "idle" \in Pcs
    BY Fields DEF Pcs
  <1>3. QED
    BY <1>1, <1>2 DEF Return, NoCall, ThreadType

\* A call begins.
LEMMA CallTypes ==
  ASSUME IInv, NEW pc \in Pcs, Call(pc)
  PROVE  /\ thread' \in ThreadType
         /\ thread.pc = "idle" /\ thread'.pc = pc
         /\ \A f \in {"done", "in", "out", "n", "buf", "rx", "tx"} : thread'[f] = thread[f]
  <1>1. PICK count \in 0 .. MaxCount, nonblock \in BOOLEAN :
          thread' = [thread EXCEPT !.pc = pc, !.count = count, !.nonblock = nonblock]
    BY DEF Call
  <1>2. count \in Nat /\ thread \in ThreadType
    BY MaxCountAssumption, Fields
  <1>3. QED
    BY <1>1, <1>2 DEF ThreadType, Call, At

-----------------------------------------------------------------------------
(* What a step that leaves one direction alone preserves                   *)

\* What the rings hold.
LEMMA HeldTypes ==
  ASSUME IInv
  PROVE  /\ Taken \in Nat /\ RxHeld \in Nat
         /\ TxHeld \in 0 .. BufLen - 1
  <1>1. /\ Dist(sp.rx_out, sp.rx_in) \in 0 .. BufLen - 1
        /\ Dist(sp.tx_out, sp.tx_in) \in 0 .. BufLen - 1
    BY Fields, SpFields, DistType
  <1>2. thread.n \in Nat /\ BufLen \in Nat
    BY Fields, ThreadFields
  <1>3. thread.pc = "rd_publish" => thread.n <= Dist(sp.rx_out, sp.rx_in)
    BY <1>1, <1>2 DEF IInv, RxRun
  <1>4. QED
    BY <1>1, <1>2, <1>3 DEF Taken, RxHeld, TxHeld

\* Nothing happens to the characters received.
LEMMA RxFrame ==
  ASSUME IInv, config' = config,
         thread'.buf = thread.buf, thread'.rx = thread.rx,
         \/ thread' = thread
         \/ thread.pc # "rd_publish" /\ thread'.pc \notin {"rd_copy", "rd_publish"},
         sp'.rx_in = sp.rx_in, sp'.rx_out = sp.rx_out, sp'.rx_buf = sp.rx_buf,
         dev'.rfifo = dev.rfifo, host'.sent = host.sent
  PROVE  RxRun' /\ RxStream'
  <1>1. Taken' = Taken /\ RxHeld' = RxHeld
    BY DEF Taken, RxHeld
  <1>2. RxRun'
    BY DEF IInv, RxRun
  <1>3. RxStream'
    BY <1>1 DEF IInv, RxStream
  <1>4. QED
    BY <1>2, <1>3

\* A call that is not between copying and publishing returns.
LEMMA RxReturn ==
  ASSUME IInv, config' = config, Return, thread.pc # "rd_publish",
         sp'.rx_in = sp.rx_in, sp'.rx_out = sp.rx_out, sp'.rx_buf = sp.rx_buf,
         dev'.rfifo = dev.rfifo, host'.sent = host.sent
  PROVE  RxRun' /\ RxStream'
  <1> DEFINE b == Len(thread.buf)
             N(i) == Number(config.rx, i)
  <1>1. /\ thread'.pc = "idle" /\ thread'.buf = <<>>
        /\ thread'.rx = N(thread.rx + b)
    BY ReturnTypes
  <1>2. /\ config.rx \in Nat /\ thread.rx \in Nat /\ b \in Nat
        /\ thread.rx + b \in Nat /\ N(thread.rx + b) \in Nat
    <2>1. config.rx \in Nat /\ thread.rx \in Nat /\ b \in Nat
      BY Fields, ConfigFields, ThreadFields
    <2>2. thread.rx + b \in Nat
      BY <2>1
    <2>3. QED
      BY <2>1, <2>2, NumberType
  <1>2a. \A x \in Nat : N(N(thread.rx + b) + x) = N(thread.rx + b + x)
    BY <1>2, NumberFold
  <1>3. Taken = 0 /\ Taken' = 0 /\ RxHeld' = RxHeld
    BY <1>1 DEF Taken, RxHeld
  <1>4. /\ RxHeld \in Nat /\ Len(dev.rfifo) \in Nat /\ Len(thread'.buf) = 0
        /\ \A p \in Index : Dist(sp.rx_out, p) \in Nat
    <2>1. \A p \in Index : Dist(sp.rx_out, p) \in 0 .. BufLen - 1
      BY Fields, SpFields, DistType
    <2>2. sp.rx_in \in Index /\ Len(dev.rfifo) \in Nat
      BY Fields, SpFields, DevFields
    <2>3. QED
      BY <1>1, <1>3, <2>1, <2>2, Fields DEF RxHeld
  <1>5. RxRun'
    BY <1>1 DEF RxRun
  <1> HIDE DEF b
  <1>6. RxStream'
    <2>1. ASSUME NEW p \in Index, Dist(sp.rx_out, p) < Dist(sp.rx_out, sp.rx_in)
          PROVE  sp.rx_buf[p] = N(N(thread.rx + b) + Dist(sp.rx_out, p))
      <3>1. sp.rx_buf[p] = N(thread.rx + b + Dist(sp.rx_out, p))
        BY <1>2, <1>3, <1>4, <2>1 DEF IInv, RxStream, b
      <3>2. QED
        BY <1>4, <1>2a, <3>1
    <2>2. ASSUME NEW i \in 1 .. Len(dev.rfifo)
          PROVE  dev.rfifo[i] = N(N(thread.rx + b) + (RxHeld + i - 1))
      <3>1. RxHeld + i - 1 \in Nat
        BY <1>4
      <3>2. dev.rfifo[i] = N(thread.rx + b + RxHeld + i - 1)
        BY DEF IInv, RxStream, b
      <3>3. thread.rx + b + RxHeld + i - 1 = thread.rx + b + (RxHeld + i - 1)
        BY <1>2, <1>4
      <3>4. QED
        BY <1>2a, <3>1, <3>2, <3>3
    <2>3. host.sent = N(N(thread.rx + b) + (RxHeld + Len(dev.rfifo)))
      <3>1. host.sent = N(thread.rx + b + RxHeld + Len(dev.rfifo))
        BY DEF IInv, RxStream, b
      <3>2. RxHeld + Len(dev.rfifo) \in Nat
        BY <1>4
      <3>3. thread.rx + b + RxHeld + Len(dev.rfifo) =
              thread.rx + b + (RxHeld + Len(dev.rfifo))
        BY <1>2, <1>4
      <3>4. QED
        BY <1>2a, <3>1, <3>2, <3>3
    <2>4. thread'.rx + Len(thread'.buf) = N(thread.rx + b)
      BY <1>1, <1>2, <1>4
    <2>5. ASSUME NEW p \in Index, Dist(sp.rx_out, p) < Dist(sp.rx_out, sp.rx_in)
          PROVE  sp.rx_buf[p] = N(N(thread.rx + b) + Dist(sp.rx_out, p) - Taken')
      BY <1>2, <1>3, <1>4, <2>1, <2>5
    <2>6. ASSUME NEW i \in 1 .. Len(dev.rfifo)
          PROVE  dev.rfifo[i] = N(N(thread.rx + b) + RxHeld' + i - 1)
      BY <1>2, <1>3, <1>4, <2>2
    <2>7. host.sent = N(N(thread.rx + b) + RxHeld' + Len(dev.rfifo))
      BY <1>2, <1>3, <1>4, <2>3
    <2> HIDE DEF N
    <2>8. QED
      BY <1>1, <1>3, <1>4, <2>4, <2>5, <2>6, <2>7 DEF RxStream, N
  <1>7. QED
    BY <1>5, <1>6

\* Nothing happens to the characters handed over.
LEMMA TxFrame ==
  ASSUME IInv, config' = config,
         \/ thread' = thread
         \/ thread'.pc \notin {"wr_copy", "wr_publish"},
         Number(config.tx, thread'.tx + thread'.done) =
           Number(config.tx, thread.tx + thread.done),
         sp'.tx_in = sp.tx_in, sp'.tx_out = sp.tx_out, sp'.tx_buf = sp.tx_buf,
         dev'.wfifo = dev.wfifo, host'.got = host.got
  PROVE  TxRun' /\ TxStream'
  <1>1. TxHeld' = TxHeld
    BY DEF TxHeld
  <1>2. TxRun'
    BY <1>1 DEF IInv, TxRun
  <1>3. TxStream'
    BY <1>1 DEF IInv, TxStream
  <1>4. QED
    BY <1>2, <1>3

\* A call returns.
LEMMA TxReturn ==
  ASSUME IInv, config' = config, Return,
         sp'.tx_in = sp.tx_in, sp'.tx_out = sp.tx_out, sp'.tx_buf = sp.tx_buf,
         dev'.wfifo = dev.wfifo, host'.got = host.got
  PROVE  TxRun' /\ TxStream'
  <1>1. /\ thread'.pc = "idle" /\ thread'.done = 0
        /\ thread'.tx = Number(config.tx, thread.tx + thread.done)
    BY ReturnTypes
  <1>2. config.tx \in Nat /\ thread.tx + thread.done \in Nat
    BY Fields, ConfigFields, ThreadFields
  <1>3. Number(config.tx, thread'.tx + thread'.done) =
          Number(config.tx, thread.tx + thread.done)
    <2>1. Number(config.tx, thread.tx + thread.done) \in Nat
      BY <1>2, NumberType
    <2>2. Number(config.tx, Number(config.tx, thread.tx + thread.done) + 0) =
            Number(config.tx, thread.tx + thread.done + 0)
      BY <1>2, NumberFold
    <2>3. QED
      BY <1>1, <1>2, <2>1, <2>2
  <1>4. QED
    BY <1>1, <1>3, TxFrame

-----------------------------------------------------------------------------
(* The host                                                                *)

\* A character the host sends takes the number that is due at the end of the
\* receive FIFO.
LEMMA HostSendsStep == IInv /\ HostSends => IInv'
  <1> SUFFICES ASSUME IInv, HostSends PROVE IInv'
    OBVIOUS
  <1>1. /\ config' = config /\ sp' = sp /\ thread' = thread /\ isr' = isr
        /\ Len(dev.rfifo) < FifoDepth
    BY DEF HostSends
  <1>2. /\ dev' \in DevType
        /\ dev'.rfifo = Append(dev.rfifo, host.sent)
        /\ dev'.wfifo = dev.wfifo /\ dev'.enable = dev.enable
    <2>1. Append(dev.rfifo, host.sent) \in Seq(Nat) /\ clocked \in BOOLEAN
      BY Fields, ConfigFields, DevFields
    <2>2. QED
      BY <2>1, Fields DEF HostSends, DevType
  <1>3. /\ host' \in HostType /\ host'.got = host.got
        /\ host'.sent = Number(config.rx, host.sent + 1)
    BY Fields, ConfigFields DEF HostSends, HostType, Number
  <1>4. Types'
    BY <1>1, <1>2, <1>3 DEF IInv, Types
  <1>5. Modes'
    <2>1. Len(dev'.rfifo) = Len(dev.rfifo) + 1 /\ FifoDepth' = FifoDepth
      BY <1>1, <1>2, Fields, DevFields DEF FifoDepth
    <2>2. Len(dev'.rfifo) <= FifoDepth'
      BY <1>1, <2>1, Fields, DevFields, ConfigFields
    <2>3. QED
      BY <1>1, <1>2, <2>1, <2>2 DEF IInv, Modes, small
  <1>6. RxRun'
    BY <1>1 DEF IInv, RxRun
  <1>7. RxStream'
    <2> DEFINE b == Len(thread.buf)
               k == thread.rx + b + RxHeld
               l == Len(dev.rfifo)
    <2>1. Taken' = Taken /\ RxHeld' = RxHeld
      BY <1>1 DEF Taken, RxHeld
    <2>2. k \in Nat /\ l \in Nat /\ config.rx \in Nat
      <3>1. thread.rx \in Nat /\ thread.buf \in Seq(Nat)
        BY Fields, ThreadFields
      <3>2. b \in Nat
        BY <3>1
      <3>3. l \in Nat
        BY Fields, DevFields
      <3>4. config.rx \in Nat
        BY Fields, ConfigFields
      <3>5. QED
        BY <3>1, <3>2, <3>3, <3>4, HeldTypes
    <2>3. host.sent = Number(config.rx, k + l)
      BY DEF IInv, RxStream
    <2>4. /\ Len(dev'.rfifo) = l + 1
          /\ \A i \in 1 .. l + 1 :
               dev'.rfifo[i] = IF i <= l THEN dev.rfifo[i] ELSE host.sent
      BY <1>2, Fields, DevFields
    <2> HIDE DEF k, l
    <2>5. host'.sent = Number(config.rx, k + (l + 1))
      <3>1. k + l \in Nat /\ k + l + 1 = k + (l + 1)
        BY <2>2
      <3>2. Number(config.rx, Number(config.rx, k + l) + 1) = Number(config.rx, k + l + 1)
        BY <2>2, <3>1, NumberNext
      <3>3. QED
        BY <1>3, <2>3, <3>1, <3>2
    <2>6. ASSUME NEW i \in 1 .. Len(dev'.rfifo)
          PROVE  dev'.rfifo[i] = Number(config.rx, k + i - 1)
      <3>1. CASE i <= l
        <4>1. i \in 1 .. l
          BY <2>2, <2>4, <3>1
        <4>2. QED
          BY <2>4, <4>1, <3>1 DEF IInv, RxStream, k, l
      <3>2. CASE i = l + 1
        <4>1. k + i - 1 = k + l
          BY <2>2, <3>2
        <4>2. QED
          BY <2>2, <2>3, <2>4, <3>2, <4>1
      <3>3. QED
        BY <2>2, <2>4, <3>1, <3>2
    <2>7. QED
      BY <1>1, <2>1, <2>5, <2>4, <2>6 DEF IInv, RxStream, k, l
  <1>8. TxRun' /\ TxStream'
    BY <1>1, <1>2, <1>3, TxFrame
  <1>9. Armed'
    BY <1>1, <1>2 DEF IInv, Armed, small
  <1>10. QED
    BY <1>4, <1>5, <1>6, <1>7, <1>8, <1>9 DEF IInv

\* A character the host takes is the one that is due.
LEMMA HostTakesStep == IInv /\ HostTakes => IInv'
  <1> SUFFICES ASSUME IInv, HostTakes PROVE IInv'
    OBVIOUS
  <1> DEFINE l == Len(dev.wfifo)
             N(i) == Number(config.tx, i)
  <1>1. config' = config /\ sp' = sp /\ thread' = thread /\ isr' = isr
    BY DEF HostTakes
  <1>2. /\ config.tx \in Nat /\ config.tx > 0
        /\ host.got \in Nat /\ host.got + 1 \in Nat
    BY Fields, ConfigFields DEF HostTakes, IInv, Modes
  <1>3. /\ dev' \in DevType
        /\ dev'.wfifo = Tail(dev.wfifo)
        /\ dev'.rfifo = dev.rfifo /\ dev'.enable = dev.enable
    <2>1. Tail(dev.wfifo) \in Seq(Nat) /\ clocked \in BOOLEAN
      BY Fields, ConfigFields, DevFields DEF HostTakes
    <2>2. QED
      BY <2>1, Fields DEF HostTakes, DevType
  <1>4. /\ l \in Nat /\ l > 0 /\ Len(dev'.wfifo) = l - 1
        /\ \A i \in 1 .. l - 1 : dev'.wfifo[i] = dev.wfifo[i + 1]
    BY <1>3, Fields, DevFields DEF HostTakes
  <1> HIDE DEF l
  <1>5. /\ host' \in HostType /\ host'.sent = host.sent /\ host'.got = N(host.got + 1)
    <2>1. N(host.got + 1) \in Nat
      BY <1>2, NumberType
    <2>2. host' = [host EXCEPT !.got = N(host.got + 1)]
      BY <1>2 DEF HostTakes, Number
    <2> HIDE DEF N
    <2>3. QED
      BY <2>1, <2>2, Fields DEF HostType
  <1>6. Types'
    BY <1>1, <1>3, <1>5 DEF IInv, Types
  <1>7. Modes'
    <2>1. FifoDepth' = FifoDepth /\ small' = small
      BY <1>1 DEF FifoDepth, small
    <2>2. Len(dev'.wfifo) + (IF isr.pc \in {"rx", "tx"} THEN isr.space ELSE 0) <= FifoDepth
      <3>1. l + (IF isr.pc \in {"rx", "tx"} THEN isr.space ELSE 0) <= FifoDepth
        BY DEF IInv, Modes, l
      <3>2. QED
        BY <1>4, <3>1, Fields, IsrFields, ConfigFields
    <2>3. QED
      BY <1>1, <1>2, <1>3, <2>1, <2>2 DEF IInv, Modes
  <1>8. RxRun' /\ RxStream'
    BY <1>1, <1>3, <1>5, RxFrame
  <1>9. TxRun'
    BY <1>1 DEF IInv, TxRun, TxHeld
  <1>10. TxStream'
    <2>1. \A y \in Nat : N(N(host.got + 1) + y) = N(host.got + 1 + y)
      BY <1>2, NumberFold
    <2>2. TxHeld' = TxHeld /\ TxHeld \in Nat
      BY <1>1, HeldTypes, Fields DEF TxHeld
    <2>3. ASSUME NEW i \in 1 .. l - 1
          PROVE  dev'.wfifo[i] = N(N(host.got + 1) + i - 1)
      <3>1. i - 1 \in Nat /\ i + 1 \in 1 .. l
        BY <1>4
      <3>2. dev.wfifo[i + 1] = N(host.got + (i + 1) - 1)
        <4>1. \A k \in 1 .. l : dev.wfifo[k] = N(host.got + k - 1)
          BY DEF IInv, TxStream, l
        <4> HIDE DEF N
        <4>2. QED
          BY <3>1, <4>1
      <3>3. N(N(host.got + 1) + (i - 1)) = N(host.got + 1 + (i - 1))
        BY <2>1, <3>1
      <3>4. N(host.got + 1) \in Nat
        BY <1>2, NumberType
      <3>5. N(N(host.got + 1) + i - 1) = N(N(host.got + 1) + (i - 1))
        BY <3>4
      <3>6. N(host.got + (i + 1) - 1) = N(host.got + 1 + (i - 1))
        BY <1>2
      <3>7. QED
        BY <1>4, <3>2, <3>3, <3>5, <3>6
    <2>4. ASSUME NEW d \in Nat
          PROVE  N(host.got + l + d) = N(N(host.got + 1) + (l - 1) + d)
      <3>1. N(host.got + 1) \in Nat
        BY <1>2, NumberType
      <3>2. (l - 1) + d \in Nat
        BY <1>4
      <3>3. N(N(host.got + 1) + ((l - 1) + d)) = N(host.got + 1 + ((l - 1) + d))
        BY <2>1, <3>2
      <3>4. N(N(host.got + 1) + (l - 1) + d) = N(N(host.got + 1) + ((l - 1) + d))
        BY <1>4, <3>1
      <3>5. N(host.got + l + d) = N(host.got + 1 + ((l - 1) + d))
        BY <1>2, <1>4
      <3>6. QED
        BY <3>3, <3>4, <3>5
    <2>5. \A p \in Index : Dist(sp.tx_out, p) \in Nat
      BY Fields, SpFields, DistType
    <2>6. ASSUME NEW p \in Index, Dist(sp.tx_out, p) < TxHeld
          PROVE  sp.tx_buf[p] = N(N(host.got + 1) + (l - 1) + Dist(sp.tx_out, p))
      <3>1. sp.tx_buf[p] = N(host.got + l + Dist(sp.tx_out, p))
        BY <2>6 DEF IInv, TxStream, l
      <3>2. QED
        BY <2>4, <2>5, <3>1
    <2>7. N(thread.tx + thread.done) = N(N(host.got + 1) + (l - 1) + TxHeld)
      BY <2>2, <2>4 DEF IInv, TxStream, l
    <2> HIDE DEF N
    <2>8. QED
      BY <1>1, <1>4, <1>5, <2>2, <2>3, <2>6, <2>7 DEF TxStream, N
  <1>11. Armed'
    BY <1>1, <1>3 DEF IInv, Armed, small
  <1>12. QED
    BY <1>6, <1>7, <1>8, <1>9, <1>10, <1>11 DEF IInv

\* A poll only sets ac.
LEMMA HostPollsStep == IInv /\ HostPolls => IInv'
  <1> SUFFICES ASSUME IInv, HostPolls PROVE IInv'
    OBVIOUS
  <1>1. /\ config' = config /\ sp' = sp /\ thread' = thread /\ isr' = isr
        /\ host' = host
        /\ dev' \in DevType /\ dev'.enable = dev.enable
        /\ dev'.rfifo = dev.rfifo /\ dev'.wfifo = dev.wfifo
    BY Fields DEF HostPolls, DevType
  <1>2. Types'
    BY <1>1 DEF IInv, Types
  <1>3. Modes'
    BY <1>1 DEF IInv, Modes, small, FifoDepth
  <1>4. RxRun' /\ RxStream' /\ TxRun' /\ TxStream'
    BY <1>1, RxFrame, TxFrame
  <1>5. Armed'
    BY <1>1 DEF IInv, Armed, small
  <1>6. QED
    BY <1>2, <1>3, <1>4, <1>5 DEF IInv

-----------------------------------------------------------------------------
(* The interrupt routine                                                   *)

\* Reading the control register: the room it finds in the FIFO is there.
LEMMA ReadControlStep ==
  ASSUME IInv, ReadControl, ~small, UNCHANGED <<config, dev, sp, thread, host>>
  PROVE  IInv'
  <1>1. /\ config' = config /\ dev' = dev /\ sp' = sp /\ thread' = thread
        /\ host' = host
    OBVIOUS
  <1>2. Len(dev.wfifo) \in Nat /\ Len(dev.wfifo) <= FifoDepth /\ FifoDepth \in Nat
    <2>1. Len(dev.wfifo) \in Nat /\ FifoDepth \in Nat /\ isr.space \in Nat
      BY Fields, DevFields, IsrFields, ConfigFields
    <2>2. Len(dev.wfifo) + (IF isr.pc \in {"rx", "tx"} THEN isr.space ELSE 0) <= FifoDepth
      BY DEF IInv, Modes
    <2>3. QED
      BY <2>1, <2>2
  <1>3. /\ isr' \in IsrType
        /\ isr'.space <= FifoDepth - Len(dev.wfifo)
    <2>1. RI \in BOOLEAN /\ WI \in BOOLEAN
      BY DEF RI, WI
    <2>2. CASE ~RI /\ ~WI
      BY <1>2, <2>2 DEF ReadControl, NoIsr, IsrType
    <2>3. CASE WI
      <3>1. isr' = [pc |-> IF RI THEN "rx" ELSE "tx", wi |-> WI,
                    space |-> FifoDepth - Len(dev.wfifo), ravail |-> RI]
        BY <2>3 DEF ReadControl
      <3>2. FifoDepth - Len(dev.wfifo) \in Nat
        BY <1>2
      <3>3. QED
        BY <1>2, <2>1, <3>1, <3>2 DEF IsrType
    <2>4. CASE RI /\ ~WI
      <3>1. isr' = [pc |-> "rx", wi |-> WI, space |-> 0, ravail |-> RI]
        BY <2>4 DEF ReadControl
      <3>2. QED
        BY <1>2, <2>1, <3>1 DEF IsrType
    <2>5. QED
      BY <2>2, <2>3, <2>4
  <1>4. Types'
    BY <1>1, <1>3 DEF IInv, Types
  <1>5. Modes'
    <2>1. small' = small /\ FifoDepth' = FifoDepth
      BY <1>1 DEF small, FifoDepth
    <2>2. isr'.space \in Nat
      BY <1>3 DEF IsrType
    <2>3. Len(dev.wfifo) + (IF isr'.pc \in {"rx", "tx"} THEN isr'.space ELSE 0) <= FifoDepth
      BY <1>2, <1>3, <2>2
    <2>4. QED
      BY <1>1, <2>1, <2>3 DEF IInv, Modes
  <1>6. RxRun' /\ RxStream' /\ TxRun' /\ TxStream'
    BY <1>1, RxFrame, TxFrame
  <1>7. Armed'
    BY <1>1 DEF IInv, Armed, small
  <1>8. QED
    BY <1>4, <1>5, <1>6, <1>7 DEF IInv

\* An interrupt.
LEMMA InterruptStep == IInv /\ Interrupt => IInv'
  BY ReadControlStep DEF Interrupt

\* The loop of the interrupt routine.
LEMMA IsrControlStep == IInv /\ IsrControl => IInv'
  <1>1. IInv /\ IsrControl => ~small
    BY DEF IInv, Modes, IsrControl
  <1>2. QED
    BY <1>1, ReadControlStep DEF IsrControl

\* Where the interrupt routine goes when it is done with received characters.
LEMMA AfterRxTypes ==
  ASSUME IInv, isr.pc = "rx", isr' = IsrAfterRx
  PROVE  /\ isr' \in IsrType
         /\ isr'.space <= isr.space
         /\ ~small
  <1>1. isr \in IsrType /\ isr.space \in Nat /\ isr.wi \in BOOLEAN
    BY Fields, IsrFields
  <1>2. ~small
    BY DEF IInv, Modes
  <1>3. CASE isr.wi
    <2>1. isr' = [isr EXCEPT !.pc = "tx", !.ravail = FALSE]
      BY <1>3 DEF IsrAfterRx
    <2>2. isr' \in IsrType /\ isr'.space = isr.space
      BY <1>1, <2>1 DEF IsrType
    <2>3. QED
      BY <1>1, <1>2, <2>2
  <1>4. CASE ~isr.wi
    <2>1. isr' = [pc |-> "control", wi |-> FALSE, space |-> 0, ravail |-> FALSE]
      BY <1>4 DEF IsrAfterRx, AtTop, NoIsr
    <2>2. QED
      BY <1>1, <1>2, <2>1 DEF IsrType
  <1>5. QED
    BY <1>3, <1>4

\* A step of the interrupt routine that changes no more than its locals and
\* the interrupt enable bits keeps the rest of Modes.
LEMMA IsrModes ==
  ASSUME IInv, ~small, config' = config, thread' = thread,
         isr' \in IsrType, isr.pc \in {"rx", "tx"}, isr'.space <= isr.space,
         sp'.irq_enable = dev'.enable,
         sp'.tx_in = sp.tx_in, sp'.tx_out = sp.tx_out,
         dev'.wfifo = dev.wfifo, Len(dev'.rfifo) <= FifoDepth
  PROVE  Modes'
  <1>1. small' = small /\ FifoDepth' = FifoDepth
    BY DEF small, FifoDepth
  <1>2. /\ Len(dev.wfifo) \in Nat /\ FifoDepth \in Nat /\ isr.space \in Nat
        /\ isr'.space \in Nat
    BY Fields, DevFields, IsrFields, ConfigFields DEF IsrType
  <1>3. Len(dev.wfifo) + isr.space <= FifoDepth
    BY DEF IInv, Modes
  <1>4. Len(dev.wfifo) + (IF isr'.pc \in {"rx", "tx"} THEN isr'.space ELSE 0) <= FifoDepth
    BY <1>2, <1>3
  <1>5. QED
    BY <1>1, <1>4 DEF IInv, Modes

\* The FIFO of the core turned out to be empty.
LEMMA IsrRxEmptyStep == IInv /\ IsrRxEmpty => IInv'
  <1> SUFFICES ASSUME IInv, IsrRxEmpty PROVE IInv'
    OBVIOUS
  <1>1. /\ config' = config /\ dev' = dev /\ sp' = sp /\ thread' = thread
        /\ host' = host /\ isr.pc = "rx" /\ isr' = IsrAfterRx
    BY DEF IsrRxEmpty
  <1>2. isr' \in IsrType /\ isr'.space <= isr.space /\ ~small
    BY <1>1, AfterRxTypes
  <1>3. Types'
    BY <1>1, <1>2 DEF IInv, Types
  <1>4. Modes'
    BY <1>1, <1>2, IsrModes DEF IInv, Modes
  <1>5. RxRun' /\ RxStream' /\ TxRun' /\ TxStream'
    BY <1>1, RxFrame, TxFrame
  <1>6. Armed'
    BY <1>1 DEF IInv, Armed, small
  <1>7. QED
    BY <1>3, <1>4, <1>5, <1>6 DEF IInv

\* The receive ring is full: disabling the interrupt loses no wakeup, because
\* a full ring is not an empty one.
LEMMA IsrRxFullStep == IInv /\ IsrRxFull => IInv'
  <1> SUFFICES ASSUME IInv, IsrRxFull PROVE IInv'
    OBVIOUS
  <1>1. /\ config' = config /\ thread' = thread /\ host' = host
        /\ isr.pc = "rx" /\ isr' = IsrAfterRx
        /\ (sp.rx_in + 1) % BufLen = sp.rx_out
    BY DEF IsrRxFull
  <1>2. isr' \in IsrType /\ isr'.space <= isr.space /\ ~small
    BY <1>1, AfterRxTypes
  <1>3. /\ dev' \in DevType /\ sp' \in SpType
        /\ dev'.rfifo = dev.rfifo /\ dev'.wfifo = dev.wfifo
        /\ sp'.rx_in = sp.rx_in /\ sp'.rx_out = sp.rx_out /\ sp'.rx_buf = sp.rx_buf
        /\ sp'.tx_in = sp.tx_in /\ sp'.tx_out = sp.tx_out /\ sp'.tx_buf = sp.tx_buf
        /\ sp'.irq_enable = dev'.enable
        /\ "WE" \in dev'.enable <=> "WE" \in dev.enable
    <2>1. dev.enable \in SUBSET Enables /\ sp.irq_enable = dev.enable
      BY Fields, DevFields DEF IInv, Modes
    <2>2. CASE isr.ravail
      <3>1. SetEnable(sp.irq_enable \ {"RE"})
        BY <2>2 DEF IsrRxFull
      <3>2. sp.irq_enable \ {"RE"} \in SUBSET Enables
        BY <2>1
      <3>3. QED
        BY <2>1, <3>1, <3>2, Fields, SetEnableTypes
    <2>3. CASE ~isr.ravail
      BY <2>1, <2>3, Fields DEF IsrRxFull
    <2>4. QED
      BY <2>2, <2>3
  <1>4. Types'
    BY <1>1, <1>2, <1>3 DEF IInv, Types
  <1>5. Modes'
    <2>1. Len(dev'.rfifo) <= FifoDepth
      BY <1>3 DEF IInv, Modes
    <2>2. QED
      BY <1>1, <1>2, <1>3, <2>1, IsrModes
  <1>6. RxRun' /\ RxStream' /\ TxRun' /\ TxStream'
    BY <1>1, <1>3, RxFrame, TxFrame
  <1>7. Armed'
    <2>1. sp.rx_in \in Index /\ BufLen \in Nat /\ BufLen > 1
      BY Fields, SpFields
    <2>2. sp.rx_in # sp.rx_out
      BY <1>1, <2>1, NextIndex DEF Index
    <2>3. QED
      BY <1>1, <1>3, <2>2 DEF IInv, Armed, small
  <1>8. QED
    BY <1>4, <1>5, <1>6, <1>7 DEF IInv

\* A character goes from the receive FIFO to the end of the receive ring.
LEMMA IsrRxCharStep == IInv /\ IsrRxChar => IInv'
  <1> SUFFICES ASSUME IInv, IsrRxChar PROVE IInv'
    OBVIOUS
  <1> DEFINE l == Len(dev.rfifo)
             j == (sp.rx_in + 1) % BufLen
             c == Head(dev.rfifo)
             N(i) == Number(config.rx, i)
  <1>1. /\ config' = config /\ thread' = thread /\ host' = host
        /\ isr.pc = "rx" /\ j # sp.rx_out
    BY DEF IsrRxChar
  <1>2. /\ dev.rfifo \in Seq(Nat) /\ dev.rfifo # <<>> /\ l \in Nat /\ l > 0
        /\ c = dev.rfifo[1] /\ c \in Nat
    BY Fields, DevFields DEF IsrRxChar
  <1>3. /\ dev' \in DevType /\ dev'.rfifo = Tail(dev.rfifo)
        /\ dev'.wfifo = dev.wfifo /\ dev'.enable = dev.enable
    <2>1. Tail(dev.rfifo) \in Seq(Nat)
      BY <1>2
    <2>2. QED
      BY <2>1, Fields DEF IsrRxChar, DevType
  <1>4. /\ Len(dev'.rfifo) = l - 1
        /\ \A i \in 1 .. l - 1 : dev'.rfifo[i] = dev.rfifo[i + 1]
    BY <1>2, <1>3
  <1>5. /\ sp.rx_in \in Index /\ sp.rx_out \in Index /\ j \in Index
        /\ Dist(sp.rx_out, j) = Dist(sp.rx_out, sp.rx_in) + 1
    BY <1>1, Fields, SpFields, NextIndex, DistIn
  <1>6. /\ sp' \in SpType /\ sp'.rx_in = j /\ sp'.rx_out = sp.rx_out
        /\ sp'.rx_buf = [sp.rx_buf EXCEPT ![sp.rx_in] = c]
        /\ sp'.tx_in = sp.tx_in /\ sp'.tx_out = sp.tx_out /\ sp'.tx_buf = sp.tx_buf
        /\ sp'.irq_enable = sp.irq_enable
    BY <1>2, <1>5, Fields DEF IsrRxChar, SpType
  <1>7. /\ isr' \in IsrType /\ isr'.pc = isr.pc /\ isr'.space = isr.space
    <2>1. (l > 1) \in BOOLEAN
      OBVIOUS
    <2>2. QED
      BY <2>1, Fields DEF IsrRxChar, IsrType
  <1> HIDE DEF l, j, c
  <1>8. ~small /\ small' = small
    BY <1>1 DEF IInv, Modes, small
  <1>9. Types'
    BY <1>1, <1>3, <1>6, <1>7 DEF IInv, Types
  <1>10. Modes'
    <2>1. FifoDepth \in Nat /\ isr.space \in Nat /\ l <= FifoDepth
      BY Fields, ConfigFields, IsrFields DEF IInv, Modes, l
    <2>2. Len(dev'.rfifo) <= FifoDepth
      BY <1>2, <1>4, <2>1
    <2>3. isr'.space <= isr.space /\ sp'.irq_enable = dev'.enable
      BY <1>3, <1>6, <1>7, <2>1 DEF IInv, Modes
    <2>4. QED
      BY <1>1, <1>3, <1>6, <1>7, <1>8, <2>2, <2>3, IsrModes
  <1>11. /\ Dist(sp.rx_out, sp.rx_in) \in Nat /\ Taken \in Nat /\ Taken' = Taken
         /\ RxHeld' = RxHeld + 1 /\ RxHeld \in Nat
         /\ RxHeld = Dist(sp.rx_out, sp.rx_in) - Taken
    <2>1. Dist(sp.rx_out, sp.rx_in) \in Nat
      BY <1>5, Fields, DistType
    <2>2. Taken \in Nat /\ RxHeld \in Nat /\ Taken' = Taken
      BY <1>1, HeldTypes DEF Taken
    <2>3. QED
      BY <1>5, <1>6, <2>1, <2>2 DEF RxHeld
  <1>12. RxRun'
    BY <1>1, <1>5, <1>6, <1>11, Fields, ThreadFields DEF IInv, RxRun
  <1>13. RxStream'
    <2> DEFINE k == thread.rx + Len(thread.buf)
    <2>1. k \in Nat
      BY Fields, ThreadFields
    <2>2. c = N(k + RxHeld)
      <3>1. c = N(k + RxHeld + 1 - 1)
        BY <1>2 DEF IInv, RxStream, l
      <3>2. QED
        BY <1>11, <2>1, <3>1
    <2>3. ASSUME NEW p \in Index, Dist(sp.rx_out, p) >= Taken,
                 Dist(sp.rx_out, p) < Dist(sp.rx_out, j)
          PROVE  sp'.rx_buf[p] = N(k + Dist(sp.rx_out, p) - Taken)
      <3>1. CASE p = sp.rx_in
        <4>1. sp'.rx_buf[p] = c
          BY <1>5, <1>6, <3>1, Fields, SpFields
        <4>2. k + RxHeld = k + Dist(sp.rx_out, p) - Taken
          BY <1>11, <2>1, <3>1
        <4>3. QED
          BY <2>2, <4>1, <4>2
      <3>2. CASE p # sp.rx_in
        <4>1. sp'.rx_buf[p] = sp.rx_buf[p]
          BY <1>6, <3>2, Fields, SpFields
        <4>2. Dist(sp.rx_out, p) # Dist(sp.rx_out, sp.rx_in)
          BY <1>5, <3>2, Fields DEF Dist, Index
        <4>3. Dist(sp.rx_out, p) < Dist(sp.rx_out, sp.rx_in)
          BY <1>5, <1>11, <2>3, <4>2, DistType, Fields
        <4>4. QED
          BY <2>3, <4>1, <4>3 DEF IInv, RxStream
      <3>3. QED
        BY <3>1, <3>2
    <2>4. ASSUME NEW i \in 1 .. l - 1
          PROVE  dev'.rfifo[i] = N(k + RxHeld' + i - 1)
      <3>1. i + 1 \in 1 .. l
        BY <1>2
      <3>2. dev.rfifo[i + 1] = N(k + RxHeld + (i + 1) - 1)
        BY <3>1 DEF IInv, RxStream, l
      <3>3. k + RxHeld' + i - 1 = k + RxHeld + (i + 1) - 1
        BY <1>11, <2>1
      <3>4. QED
        BY <1>4, <3>2, <3>3
    <2>5. host.sent = N(k + RxHeld' + (l - 1))
      <3>1. host.sent = N(k + RxHeld + l)
        BY DEF IInv, RxStream, l
      <3>2. k + RxHeld' + (l - 1) = k + RxHeld + l
        BY <1>2, <1>11, <2>1
      <3>3. QED
        BY <3>1, <3>2
    <2> HIDE DEF N
    <2>6. QED
      BY <1>1, <1>4, <1>6, <1>11, <2>3, <2>4, <2>5 DEF IInv, RxStream, N
  <1>14. TxRun' /\ TxStream'
    BY <1>1, <1>3, <1>6, TxFrame
  <1>15. Armed'
    <2>1. sp'.rx_in # sp'.rx_out
      BY <1>1, <1>6
    <2>2. QED
      BY <1>1, <1>3, <1>6, <2>1 DEF IInv, Armed, small
  <1>16. QED
    BY <1>9, <1>10, <1>12, <1>13, <1>14, <1>15 DEF IInv

\* A character goes from the start of the transmit ring to the transmit FIFO,
\* which has room for it.
LEMMA IsrTxCharStep == IInv /\ IsrTxChar => IInv'
  <1> SUFFICES ASSUME IInv, IsrTxChar PROVE IInv'
    OBVIOUS
  <1> DEFINE l == Len(dev.wfifo)
             j == (sp.tx_out + 1) % BufLen
             c == sp.tx_buf[sp.tx_out]
             N(i) == Number(config.tx, i)
  <1>1. /\ config' = config /\ thread' = thread /\ host' = host
        /\ isr.pc = "tx" /\ isr.space > 0 /\ sp.tx_out # sp.tx_in
    BY DEF IsrTxChar
  <1>2. /\ sp.tx_in \in Index /\ sp.tx_out \in Index /\ j \in Index
        /\ TxHeld \in Nat /\ TxHeld > 0 /\ c \in Nat /\ l \in Nat
    <2>1. /\ sp.tx_in \in Index /\ sp.tx_out \in Index
          /\ c \in Nat /\ l \in Nat
      <3>1. sp.tx_in \in Index /\ sp.tx_out \in Index /\ sp.tx_buf \in [Index -> Nat]
        BY Fields, SpFields
      <3>2. l \in Nat
        BY Fields, DevFields
      <3>3. QED
        BY <3>1, <3>2
    <2>2. TxHeld \in 0 .. BufLen - 1 /\ TxHeld # 0
      BY <1>1, <2>1, DistType DEF TxHeld
    <2>3. j \in Index
      BY <2>1, NextIndex
    <2>4. QED
      BY <2>1, <2>2, <2>3, Fields
  <1>3. /\ dev' \in DevType /\ dev'.wfifo = Append(dev.wfifo, c)
        /\ dev'.rfifo = dev.rfifo /\ dev'.enable = dev.enable
    <2>1. Append(dev.wfifo, c) \in Seq(Nat)
      BY <1>2, Fields, DevFields
    <2>2. QED
      BY <2>1, Fields DEF IsrTxChar, DevType
  <1>4. /\ Len(dev'.wfifo) = l + 1
        /\ \A i \in 1 .. l + 1 :
             dev'.wfifo[i] = IF i <= l THEN dev.wfifo[i] ELSE c
    BY <1>2, <1>3, Fields, DevFields
  <1>5. /\ sp' \in SpType /\ sp'.tx_out = j /\ sp'.tx_in = sp.tx_in
        /\ sp'.tx_buf = sp.tx_buf
        /\ sp'.rx_in = sp.rx_in /\ sp'.rx_out = sp.rx_out /\ sp'.rx_buf = sp.rx_buf
        /\ sp'.irq_enable = sp.irq_enable
    BY <1>2, Fields DEF IsrTxChar, SpType
  <1>6. /\ isr' \in IsrType /\ isr'.pc = isr.pc /\ isr'.space = isr.space - 1
        /\ isr.space \in Nat
    <2>1. isr.space \in Nat /\ isr.space - 1 \in Nat
      BY <1>1, Fields, IsrFields
    <2>2. QED
      BY <2>1, Fields DEF IsrTxChar, IsrType
  <1>7. \A p \in Index : Dist(sp.tx_out, p) > 0 => Dist(j, p) = Dist(sp.tx_out, p) - 1
    <2> SUFFICES ASSUME NEW p \in Index, Dist(sp.tx_out, p) > 0
                 PROVE  Dist(j, p) = Dist(sp.tx_out, p) - 1
      OBVIOUS
    <2>1. 1 <= Dist(sp.tx_out, p) /\ sp.tx_out + 1 <= BufLen
      <3>1. Dist(sp.tx_out, p) \in 0 .. BufLen - 1
        BY <1>2, DistType
      <3>2. QED
        BY <1>2, <3>1, Fields DEF Index
    <2>2. QED
      BY <1>2, <2>1, DistOut
  <1> HIDE DEF l, j, c
  <1>8. TxHeld' = TxHeld - 1
    BY <1>2, <1>5, <1>7 DEF TxHeld
  <1>9. ~small /\ small' = small
    BY <1>1 DEF IInv, Modes, small
  <1>10. Types'
    BY <1>1, <1>3, <1>5, <1>6 DEF IInv, Types
  <1>11. Modes'
    <2>1. FifoDepth' = FifoDepth /\ FifoDepth \in Nat
      BY <1>1, Fields, ConfigFields DEF FifoDepth
    <2>2. l + isr.space <= FifoDepth
      BY <1>1 DEF IInv, Modes, l
    <2>3. (l + 1) + (isr.space - 1) <= FifoDepth
      BY <1>2, <1>6, <2>1, <2>2
    <2>4. config.tx # 0
      BY <1>1 DEF IInv, Modes
    <2>5. QED
      BY <1>1, <1>3, <1>4, <1>5, <1>6, <1>9, <2>1, <2>3, <2>4 DEF IInv, Modes
  <1>12. RxRun' /\ RxStream'
    BY <1>1, <1>3, <1>5, RxFrame
  <1>13. TxRun'
    <2>1. BufLen \in Nat /\ thread.n \in Nat
      BY Fields, ThreadFields
    <2>2. QED
      BY <1>1, <1>2, <1>5, <1>8, <2>1 DEF IInv, TxRun
  <1>14. TxStream'
    <2>1. host.got \in Nat
      BY Fields
    <2>2. c = N(host.got + l)
      <3>1. Dist(sp.tx_out, sp.tx_out) = 0
        BY <1>2, DistType
      <3>2. c = N(host.got + l + 0)
        BY <1>2, <3>1 DEF IInv, TxStream, l, c
      <3>3. QED
        BY <1>2, <2>1, <3>2
    <2>3. ASSUME NEW i \in 1 .. l + 1
          PROVE  dev'.wfifo[i] = N(host.got + i - 1)
      <3>1. CASE i <= l
        <4>1. i \in 1 .. l
          BY <1>2, <3>1
        <4>2. QED
          BY <1>4, <3>1, <4>1 DEF IInv, TxStream, l
      <3>2. CASE i = l + 1
        <4>1. host.got + i - 1 = host.got + l
          BY <1>2, <2>1, <3>2
        <4>2. QED
          BY <1>2, <1>4, <2>2, <3>2, <4>1
      <3>3. QED
        BY <1>2, <3>1, <3>2
    <2>4. ASSUME NEW p \in Index, Dist(j, p) < TxHeld'
          PROVE  sp.tx_buf[p] = N(host.got + (l + 1) + Dist(j, p))
      <3>1. /\ Dist(sp.tx_out, p) \in 0 .. BufLen - 1
            /\ Dist(sp.tx_out, sp.tx_in) \in 0 .. BufLen - 1
            /\ Dist(j, p) \in 0 .. BufLen - 1 /\ BufLen \in Nat
        <4>1. j \in Index
          BY <1>2
        <4>2. QED
          BY <1>2, <4>1, Fields, DistType
      <3>2. Dist(sp.tx_out, p) > 0
        <4>1. SUFFICES ASSUME Dist(sp.tx_out, p) = 0 PROVE FALSE
          BY <3>1
        <4>2. p = sp.tx_out
          BY <1>2, <4>1, DistType
        <4>3. j = (IF p + 1 = BufLen THEN 0 ELSE p + 1)
          BY <1>2, <4>2, NextIndex DEF j
        <4>4. Dist(j, p) = BufLen - 1
          BY <4>3, Fields DEF Dist, Index
        <4>5. QED
          BY <2>4, <3>1, <4>4, <1>8 DEF TxHeld
      <3>3. Dist(j, p) = Dist(sp.tx_out, p) - 1 /\ Dist(sp.tx_out, p) < TxHeld
        BY <1>2, <1>7, <1>8, <2>4, <3>1, <3>2
      <3>4. sp.tx_buf[p] = N(host.got + l + Dist(sp.tx_out, p))
        BY <3>3 DEF IInv, TxStream, l
      <3>5. host.got + (l + 1) + Dist(j, p) = host.got + l + Dist(sp.tx_out, p)
        BY <1>2, <2>1, <3>1, <3>3
      <3>6. QED
        BY <3>4, <3>5
    <2>5. N(thread.tx + thread.done) = N(host.got + (l + 1) + TxHeld')
      <3>1. N(thread.tx + thread.done) = N(host.got + l + TxHeld)
        BY DEF IInv, TxStream, l
      <3>2. host.got + (l + 1) + TxHeld' = host.got + l + TxHeld
        BY <1>2, <1>8, <2>1
      <3>3. QED
        BY <3>1, <3>2
    <2> HIDE DEF N
    <2>6. QED
      BY <1>1, <1>4, <1>5, <2>3, <2>4, <2>5 DEF TxStream, N
  <1>15. Armed'
    BY <1>1, <1>3, <1>5 DEF IInv, Armed, small
  <1>16. QED
    BY <1>10, <1>11, <1>12, <1>13, <1>14, <1>15 DEF IInv

\* The interrupt routine is done with the transmit ring: it disables the
\* interrupt only when the ring is empty.
LEMMA IsrTxEndStep == IInv /\ IsrTxEnd => IInv'
  <1> SUFFICES ASSUME IInv, IsrTxEnd PROVE IInv'
    OBVIOUS
  <1>1. /\ config' = config /\ thread' = thread /\ host' = host /\ isr.pc = "tx"
        /\ isr' = [pc |-> "control", wi |-> FALSE, space |-> 0, ravail |-> FALSE]
    BY DEF IsrTxEnd, AtTop, NoIsr
  <1>2. /\ isr' \in IsrType /\ isr'.space = 0 /\ isr.space \in Nat
        /\ isr'.space <= isr.space
    BY <1>1, Fields, IsrFields DEF IsrType
  <1>3. /\ dev' \in DevType /\ sp' \in SpType
        /\ dev'.rfifo = dev.rfifo /\ dev'.wfifo = dev.wfifo
        /\ sp'.rx_in = sp.rx_in /\ sp'.rx_out = sp.rx_out /\ sp'.rx_buf = sp.rx_buf
        /\ sp'.tx_in = sp.tx_in /\ sp'.tx_out = sp.tx_out /\ sp'.tx_buf = sp.tx_buf
        /\ sp'.irq_enable = dev'.enable
        /\ "RE" \in dev'.enable <=> "RE" \in dev.enable
        /\ "WE" \in dev.enable => "WE" \in dev'.enable \/ sp.tx_in = sp.tx_out
    <2>1. dev.enable \in SUBSET Enables /\ sp.irq_enable = dev.enable
      BY Fields, DevFields DEF IInv, Modes
    <2>2. CASE isr.space > 0
      <3>1. SetEnable(sp.irq_enable \ {"WE"}) /\ sp.tx_in = sp.tx_out
        BY <1>2, <2>2 DEF IsrTxEnd
      <3>2. sp.irq_enable \ {"WE"} \in SUBSET Enables
        BY <2>1
      <3>3. QED
        BY <2>1, <3>1, <3>2, Fields, SetEnableTypes
    <2>3. CASE ~(isr.space > 0)
      BY <2>1, <2>3, Fields DEF IsrTxEnd
    <2>4. QED
      BY <2>2, <2>3
  <1>4. ~small
    BY <1>1 DEF IInv, Modes
  <1>5. Types'
    BY <1>1, <1>2, <1>3 DEF IInv, Types
  <1>6. Modes'
    <2>1. Len(dev'.rfifo) <= FifoDepth
      BY <1>3 DEF IInv, Modes
    <2>2. QED
      BY <1>1, <1>2, <1>3, <1>4, <2>1, IsrModes
  <1>7. RxRun' /\ RxStream' /\ TxRun' /\ TxStream'
    BY <1>1, <1>3, RxFrame, TxFrame
  <1>8. Armed'
    BY <1>1, <1>3 DEF IInv, Armed, small
  <1>9. QED
    BY <1>5, <1>6, <1>7, <1>8 DEF IInv

\* The alarm counts the seconds the host is silent, up to INT_MAX - 2, and
\* writes the enable bits that the control register has anyway.
LEMMA TimeoutStep == IInv /\ altera_avalon_jtag_uart_timeout => IInv'
  <1> SUFFICES ASSUME IInv, altera_avalon_jtag_uart_timeout PROVE IInv'
    OBVIOUS
  <1>1. config' = config /\ thread' = thread /\ host' = host /\ isr' = isr
    BY DEF altera_avalon_jtag_uart_timeout
  <1>2. /\ dev' \in DevType /\ sp' \in SpType
        /\ dev'.rfifo = dev.rfifo /\ dev'.wfifo = dev.wfifo
        /\ dev'.enable = dev.enable /\ sp'.irq_enable = sp.irq_enable
        /\ sp'.rx_in = sp.rx_in /\ sp'.rx_out = sp.rx_out /\ sp'.rx_buf = sp.rx_buf
        /\ sp'.tx_in = sp.tx_in /\ sp'.tx_out = sp.tx_out /\ sp'.tx_buf = sp.tx_buf
    <2>1. dev.enable \in SUBSET Enables /\ sp.irq_enable = dev.enable
      BY Fields, DevFields DEF IInv, Modes
    <2>2. CASE dev.ac
      <3>1. /\ dev' = [dev EXCEPT !.ac = FALSE, !.enable = sp.irq_enable]
            /\ sp' = [sp EXCEPT !.host_inactive = 0]
        BY <2>2 DEF altera_avalon_jtag_uart_timeout
      <3>2. 0 \in 0 .. IntMax - 2
        BY TimeoutAssumption
      <3>3. QED
        BY <2>1, <3>1, <3>2, Fields DEF DevType, SpType
    <2>3. CASE ~dev.ac
      <3>1. /\ dev' = dev /\ sp.host_inactive < IntMax - 2
            /\ sp' = [sp EXCEPT !.host_inactive = sp.host_inactive + 1]
        BY <2>3 DEF altera_avalon_jtag_uart_timeout
      <3>2. sp.host_inactive + 1 \in 0 .. IntMax - 2
        BY <3>1, Fields, SpFields
      <3>3. QED
        BY <3>1, <3>2, Fields DEF SpType
    <2>4. QED
      BY <2>2, <2>3
  <1>3. Types'
    BY <1>1, <1>2 DEF IInv, Types
  <1>4. Modes'
    BY <1>1, <1>2 DEF IInv, Modes, small, FifoDepth
  <1>5. RxRun' /\ RxStream' /\ TxRun' /\ TxStream'
    BY <1>1, <1>2, RxFrame, TxFrame
  <1>6. Armed'
    BY <1>1, <1>2 DEF IInv, Armed, small
  <1>7. QED
    BY <1>3, <1>4, <1>5, <1>6 DEF IInv

-----------------------------------------------------------------------------
(* The calls                                                               *)

\* A step of the thread that changes no more than its locals, outside of
\* copying, and does not return.
LEMMA ThreadStep ==
  ASSUME IInv, UNCHANGED <<config, dev, sp, isr, host>>,
         thread' \in ThreadType,
         thread'.buf = thread.buf, thread'.rx = thread.rx,
         thread'.tx = thread.tx, thread'.done = thread.done,
         thread.pc # "rd_publish", thread'.pc \notin {"rd_copy", "rd_publish"},
         thread'.pc \notin {"wr_copy", "wr_publish"},
         small => thread'.pc \in {"idle"} \cup SmallPcs,
         ~small => thread'.pc \notin SmallPcs,
         thread'.pc \in ReadPcs \cup {"small_read"} \/ thread.buf = <<>>,
         thread'.pc \in WritePcs \cup {"small_write"} => config.tx > 0,
         \/ thread.pc \notin {"wr_load", "wr_copy", "wr_publish", "wr_kick"}
         \/ thread'.pc \in {"wr_load", "wr_copy", "wr_publish", "wr_kick"}
  PROVE  IInv'
  <1>1. Types'
    BY DEF IInv, Types
  <1>2. Modes'
    BY DEF IInv, Modes, small, FifoDepth
  <1>3. RxRun' /\ RxStream'
    BY RxFrame
  <1>4. TxRun' /\ TxStream'
    BY TxFrame
  <1>5. Armed'
    BY DEF IInv, Armed, small
  <1>6. QED
    BY <1>1, <1>2, <1>3, <1>4, <1>5 DEF IInv

\* A call returns that has not moved characters in this step.
LEMMA ReturnStep ==
  ASSUME IInv, Return, UNCHANGED <<config, dev, sp, isr, host>>,
         thread.pc \notin {"rd_publish", "wr_load", "wr_copy", "wr_publish", "wr_kick"},
         thread.buf # <<>> => small
  PROVE  IInv'
  <1>1. /\ thread' \in ThreadType
        /\ thread'.pc = "idle" /\ thread'.buf = <<>>
    BY ReturnTypes
  <1>2. Types'
    BY <1>1 DEF IInv, Types
  <1>3. Modes'
    BY <1>1 DEF IInv, Modes, small, FifoDepth, ReadPcs, WritePcs, SmallPcs
  <1>4. RxRun' /\ RxStream' /\ TxRun' /\ TxStream'
    BY RxReturn, TxReturn
  <1>5. Armed'
    BY <1>1 DEF IInv, Armed, small
  <1>6. QED
    BY <1>2, <1>3, <1>4, <1>5 DEF IInv

\* The program calls read or write of one driver or the other.
LEMMA CallStep ==
  ASSUME IInv, NEW pc \in {"rd_load", "wr_load", "small_read", "small_write"}, Call(pc),
         small <=> pc \in SmallPcs,
         pc \in WritePcs \cup {"small_write"} => config.tx > 0
  PROVE  IInv'
  <1>1. pc \in Pcs
    BY DEF Pcs, ReadPcs, WritePcs, SmallPcs
  <1>2. /\ thread' \in ThreadType
        /\ thread.pc = "idle" /\ thread'.pc = pc
        /\ thread'.buf = thread.buf /\ thread'.rx = thread.rx
        /\ thread'.tx = thread.tx /\ thread'.done = thread.done
    BY <1>1, CallTypes
  <1>3. thread.buf = <<>>
    BY <1>2 DEF IInv, Modes, ReadPcs
  <1>4. UNCHANGED <<config, dev, sp, isr, host>>
    BY DEF Call
  <1>5. QED
    BY <1>2, <1>3, <1>4, ThreadStep

\* The program calls the driver.
LEMMA ProgramStep == IInv /\ Program => IInv'
  <1> SUFFICES ASSUME IInv, Program PROVE IInv'
    OBVIOUS
  <1>1. CASE CallRead
    BY <1>1, CallStep DEF CallRead, SmallPcs, WritePcs
  <1>2. CASE CallWrite
    BY <1>2, CallStep DEF CallWrite, SmallPcs
  <1>3. CASE CallSmallRead
    BY <1>3, CallStep DEF CallSmallRead, SmallPcs, WritePcs
  <1>4. CASE CallSmallWrite
    BY <1>4, CallStep DEF CallSmallWrite, SmallPcs
  <1>5. CASE CallClose
    <2>1. PICK nonblock \in BOOLEAN :
            thread' = [thread EXCEPT !.pc = "close", !.nonblock = nonblock]
      BY <1>5 DEF CallClose
    <2>2. /\ thread' \in ThreadType /\ thread'.pc = "close"
          /\ thread'.buf = thread.buf /\ thread'.rx = thread.rx
          /\ thread'.tx = thread.tx /\ thread'.done = thread.done
      BY <2>1, Fields DEF ThreadType, Pcs
    <2>3. thread.pc = "idle" /\ ~small /\ UNCHANGED <<config, dev, sp, isr, host>>
      BY <1>5 DEF CallClose, At
    <2>4. thread.buf = <<>>
      BY <2>3 DEF IInv, Modes, ReadPcs
    <2>5. QED
      BY <2>2, <2>3, <2>4, ThreadStep DEF SmallPcs, ReadPcs, WritePcs
  <1>6. CASE altera_avalon_jtag_uart_ioctl
    <2>1. /\ config' = config /\ dev' = dev /\ thread' = thread /\ isr' = isr
          /\ host' = host
      BY <1>6 DEF altera_avalon_jtag_uart_ioctl
    <2>2. PICK timeout \in 0 .. IntMax :
            sp' = [sp EXCEPT !.timeout =
                     IF timeout >= 2 /\ timeout < IntMax THEN timeout ELSE IntMax - 1]
      BY <1>6 DEF altera_avalon_jtag_uart_ioctl
    <2>3. (IF timeout >= 2 /\ timeout < IntMax THEN timeout ELSE IntMax - 1) \in 2 .. IntMax
      BY TimeoutAssumption
    <2>4. /\ sp' \in SpType /\ sp'.irq_enable = sp.irq_enable
          /\ sp'.rx_in = sp.rx_in /\ sp'.rx_out = sp.rx_out /\ sp'.rx_buf = sp.rx_buf
          /\ sp'.tx_in = sp.tx_in /\ sp'.tx_out = sp.tx_out /\ sp'.tx_buf = sp.tx_buf
      BY <2>2, <2>3, Fields DEF SpType
    <2>5. Types'
      BY <2>1, <2>4 DEF IInv, Types
    <2>6. Modes'
      BY <2>1, <2>4 DEF IInv, Modes, small, FifoDepth
    <2>7. RxRun' /\ RxStream' /\ TxRun' /\ TxStream'
      BY <2>1, <2>4, RxFrame, TxFrame
    <2>8. Armed'
      BY <2>1, <2>4 DEF IInv, Armed, small
    <2>9. QED
      BY <2>5, <2>6, <2>7, <2>8 DEF IInv
  <1>7. QED
    BY <1>1, <1>2, <1>3, <1>4, <1>5, <1>6 DEF Program

\* A read looks for a run of characters in the ring.
LEMMA RdLoadStep == IInv /\ RdLoad => IInv'
  <1> SUFFICES ASSUME IInv, RdLoad PROVE IInv'
    OBVIOUS
  <1> DEFINE n == ReadRun(sp.rx_in, sp.rx_out)
             m == IF n > thread.count THEN thread.count ELSE n
  <1>1. /\ thread.pc = "rd_load"
        /\ UNCHANGED <<config, dev, sp, isr, host>>
    BY DEF RdLoad, At
  <1>2. /\ sp.rx_in \in Index /\ sp.rx_out \in Index /\ thread.count \in Nat
        /\ thread \in ThreadType
    BY Fields, SpFields, ThreadFields
  <1>3. n \in 0 .. Dist(sp.rx_out, sp.rx_in) /\ sp.rx_out + n <= BufLen
    BY <1>2, ReadRunFits
  <1>4. ~small
    BY <1>1 DEF IInv, Modes, SmallPcs
  <1>5. CASE thread.count = 0 \/ n = 0
    <2>1. /\ thread' \in ThreadType /\ thread'.pc \in {"rd_done", "rd_wait"}
          /\ thread'.buf = thread.buf /\ thread'.rx = thread.rx
          /\ thread'.tx = thread.tx /\ thread'.done = thread.done
      <3>1. \/ thread' = [thread EXCEPT !.pc = "rd_done"]
            \/ thread' = [thread EXCEPT !.pc = AfterRuns(thread.buf), !.in = sp.rx_in]
        BY <1>5 DEF RdLoad
      <3>2. AfterRuns(thread.buf) \in {"rd_done", "rd_wait"}
        BY DEF AfterRuns
      <3>3. {"rd_done", "rd_wait"} \subseteq Pcs
        BY DEF Pcs, ReadPcs
      <3>4. QED
        BY <1>2, <3>1, <3>2, <3>3 DEF ThreadType
    <2>2. QED
      BY <1>1, <1>4, <2>1, ThreadStep DEF ReadPcs, WritePcs, SmallPcs
  <1>6. CASE thread.count # 0 /\ n # 0
    <2>1. thread' = [thread EXCEPT !.pc = "rd_copy", !.in = sp.rx_in,
                                   !.out = sp.rx_out, !.n = m]
      BY <1>6 DEF RdLoad
    <2>2. Dist(sp.rx_out, sp.rx_in) \in Nat /\ BufLen \in Nat
      BY <1>2, Fields, DistType
    <2>3. sp.rx_out \in Nat
      BY <1>2, <2>2 DEF Index
    <2>4. /\ m \in Nat /\ m \in 1 .. Dist(sp.rx_out, sp.rx_in)
          /\ sp.rx_out + m <= BufLen /\ m <= thread.count
      BY <1>2, <1>3, <1>6, <2>2, <2>3
    <2> HIDE DEF m, n
    <2>5. /\ thread' \in ThreadType /\ thread'.pc = "rd_copy"
          /\ thread'.out = sp.rx_out /\ thread'.n = m /\ thread'.count = thread.count
          /\ thread'.buf = thread.buf /\ thread'.rx = thread.rx
          /\ thread'.tx = thread.tx /\ thread'.done = thread.done
      <3>1. "rd_copy" \in Pcs
        BY DEF Pcs, ReadPcs
      <3>2. QED
        BY <1>2, <2>1, <2>4, <3>1 DEF ThreadType
    <2>6. Types'
      BY <1>1, <2>5 DEF IInv, Types
    <2>7. Modes'
      BY <1>1, <1>4, <2>5 DEF IInv, Modes, small, FifoDepth, ReadPcs, WritePcs, SmallPcs
    <2>8. RxRun'
      BY <1>1, <2>4, <2>5 DEF RxRun
    <2>9. RxStream'
      <3>1. Taken' = Taken /\ RxHeld' = RxHeld
        BY <1>1, <2>5 DEF Taken, RxHeld
      <3>2. QED
        BY <1>1, <2>5, <3>1 DEF IInv, RxStream
    <2>10. TxRun' /\ TxStream'
      BY <1>1, <2>5, TxFrame
    <2>11. Armed'
      BY <1>1, <2>5 DEF IInv, Armed, small
    <2>12. QED
      BY <2>6, <2>7, <2>8, <2>9, <2>10, <2>11 DEF IInv
  <1>7. QED
    BY <1>5, <1>6

\* A read copies the run it found.
LEMMA RdCopyStep == IInv /\ RdCopy => IInv'
  <1> SUFFICES ASSUME IInv, RdCopy PROVE IInv'
    OBVIOUS
  <1> DEFINE run == [i \in 1 .. thread.n |-> sp.rx_buf[thread.out + i - 1]]
             b == Len(thread.buf)
             N(i) == Number(config.rx, i)
  <1>1. /\ thread.pc = "rd_copy"
        /\ UNCHANGED <<config, dev, sp, isr, host>>
    BY DEF RdCopy, At
  <1>2. /\ thread.n \in Nat /\ thread.n > 0 /\ thread.out = sp.rx_out
        /\ thread.n <= Dist(sp.rx_out, sp.rx_in)
        /\ thread.out + thread.n <= BufLen /\ thread.n <= thread.count
    BY <1>1, Fields, ThreadFields DEF IInv, RxRun
  <1>3. /\ sp.rx_out \in Index /\ sp.rx_in \in Index /\ sp.rx_buf \in [Index -> Nat]
        /\ thread \in ThreadType /\ thread.rx \in Nat /\ b \in Nat
        /\ thread.buf \in Seq(Nat) /\ BufLen \in Nat
    <2>1. /\ sp.rx_out \in Index /\ sp.rx_in \in Index
          /\ sp.rx_buf \in [Index -> Nat] /\ BufLen \in Nat
      BY Fields, SpFields
    <2>2. thread \in ThreadType /\ thread.rx \in Nat /\ thread.buf \in Seq(Nat)
      BY Fields, ThreadFields
    <2>3. b \in Nat
      BY <2>2
    <2>4. QED
      BY <2>1, <2>2, <2>3
  <1>4. ASSUME NEW i \in 1 .. thread.n
        PROVE  /\ thread.out + i - 1 \in Index
               /\ Dist(sp.rx_out, thread.out + i - 1) = i - 1
    <2>1. thread.out \in 0 .. BufLen - 1
      BY <1>2, <1>3 DEF Index
    <2>2. thread.out + i - 1 \in 0 .. BufLen - 1 /\ thread.out + i - 1 >= thread.out
      <3>1. thread.n \in Nat /\ thread.out + thread.n <= BufLen /\ BufLen \in Nat
        BY <1>2, <1>3
      <3>2. QED
        BY <2>1, <3>1
    <2>3. QED
      BY <1>2, <1>3, <2>1, <2>2 DEF Dist, Index
  <1>5. run \in Seq(Nat) /\ Len(run) = thread.n
    <2>1. run \in [1 .. thread.n -> Nat]
      BY <1>3, <1>4
    <2>2. QED
      BY <1>2, <2>1, ArraySequence
  <1>6. \A i \in 1 .. thread.n : run[i] = N(thread.rx + b + i - 1)
    <2> SUFFICES ASSUME NEW i \in 1 .. thread.n
                 PROVE  sp.rx_buf[thread.out + i - 1] = N(thread.rx + b + i - 1)
      OBVIOUS
    <2>1. Taken = 0
      BY <1>1 DEF Taken
    <2>2. i - 1 >= 0 /\ i - 1 < Dist(sp.rx_out, sp.rx_in)
      <3>1. Dist(sp.rx_out, sp.rx_in) \in Nat
        BY <1>3, DistType
      <3>2. QED
        BY <1>2, <3>1
    <2>3. sp.rx_buf[thread.out + i - 1] = N(thread.rx + b + (i - 1) - 0)
      BY <1>4, <2>1, <2>2 DEF IInv, RxStream
    <2>4. thread.rx + b + (i - 1) - 0 = thread.rx + b + i - 1
      BY <1>2, <1>3
    <2>5. QED
      BY <2>3, <2>4
  <1> HIDE DEF run, b
  <1>7. /\ thread' \in ThreadType /\ thread'.pc = "rd_publish"
        /\ thread'.buf = thread.buf \o run
        /\ thread'.rx = thread.rx /\ thread'.tx = thread.tx /\ thread'.done = thread.done
        /\ thread'.n = thread.n /\ thread'.out = thread.out /\ thread'.count = thread.count
    <2>1. thread.buf \o run \in Seq(Nat) /\ "rd_publish" \in Pcs
      BY <1>3, <1>5 DEF Pcs, ReadPcs
    <2>2. thread' = [thread EXCEPT !.pc = "rd_publish", !.buf = thread.buf \o run]
      BY DEF RdCopy, run
    <2>3. QED
      BY <1>3, <2>1, <2>2 DEF ThreadType
  <1>8. /\ Len(thread'.buf) = b + thread.n
        /\ \A i \in 1 .. b + thread.n :
             thread'.buf[i] = IF i <= b THEN thread.buf[i] ELSE run[i - b]
    BY <1>3, <1>5, <1>7, ConcatElements DEF b
  <1>9. ~small
    BY <1>1 DEF IInv, Modes, SmallPcs
  <1>10. Types'
    BY <1>1, <1>7 DEF IInv, Types
  <1>11. Modes'
    BY <1>1, <1>7, <1>9 DEF IInv, Modes, small, FifoDepth, ReadPcs, WritePcs, SmallPcs
  <1>12. RxRun'
    <2>1. thread'.buf # <<>>
      <3>1. Len(thread'.buf) # 0
        BY <1>2, <1>3, <1>8
      <3>2. QED
        BY <3>1
    <2>2. QED
      BY <1>1, <1>7, <2>1 DEF IInv, RxRun
  <1>13. RxStream'
    <2>1. /\ Taken = 0 /\ Taken' = thread.n /\ RxHeld' = RxHeld - thread.n
          /\ RxHeld \in Nat
      <3>1. Dist(sp.rx_out, sp.rx_in) \in Nat
        BY <1>3, DistType
      <3>2. QED
        BY <1>1, <1>2, <1>7, <3>1 DEF Taken, RxHeld
    <2>2. ASSUME NEW i \in 1 .. b + thread.n
          PROVE  thread'.buf[i] = N(thread.rx + i - 1)
      <3>1. CASE i <= b
        <4>1. i \in 1 .. b
          BY <1>2, <1>3, <3>1
        <4>2. QED
          BY <1>8, <3>1, <4>1 DEF IInv, RxStream, b
      <3>2. CASE i > b
        <4>1. i - b \in 1 .. thread.n
          BY <1>2, <1>3, <3>2
        <4>2. thread'.buf[i] = run[i - b]
          BY <1>3, <1>8, <3>2
        <4>3. thread.rx + b + (i - b) - 1 = thread.rx + i - 1
          BY <1>3
        <4>4. QED
          BY <1>6, <4>1, <4>2, <4>3
      <3>3. QED
        BY <1>3, <3>1, <3>2
    <2>3. ASSUME NEW p \in Index, Dist(sp.rx_out, p) >= thread.n,
                 Dist(sp.rx_out, p) < Dist(sp.rx_out, sp.rx_in)
          PROVE  sp.rx_buf[p] = N(thread.rx + (b + thread.n) + Dist(sp.rx_out, p) - thread.n)
      <3>1. Dist(sp.rx_out, p) \in Nat
        BY <1>3, DistType
      <3>2. sp.rx_buf[p] = N(thread.rx + b + Dist(sp.rx_out, p) - 0)
        BY <1>2, <2>1, <2>3, <3>1 DEF IInv, RxStream, b
      <3>3. thread.rx + b + Dist(sp.rx_out, p) - 0 =
              thread.rx + (b + thread.n) + Dist(sp.rx_out, p) - thread.n
        BY <1>2, <1>3, <3>1
      <3>4. QED
        BY <3>2, <3>3
    <2>4. ASSUME NEW i \in 1 .. Len(dev.rfifo)
          PROVE  dev.rfifo[i] = N(thread.rx + (b + thread.n) + RxHeld' + i - 1)
      <3>1. dev.rfifo[i] = N(thread.rx + b + RxHeld + i - 1)
        BY DEF IInv, RxStream, b
      <3>2. thread.rx + (b + thread.n) + RxHeld' + i - 1 = thread.rx + b + RxHeld + i - 1
        BY <1>2, <1>3, <2>1
      <3>3. QED
        BY <3>1, <3>2
    <2>5. host.sent = N(thread.rx + (b + thread.n) + RxHeld' + Len(dev.rfifo))
      <3>1. host.sent = N(thread.rx + b + RxHeld + Len(dev.rfifo))
        BY DEF IInv, RxStream, b
      <3>2. Len(dev.rfifo) \in Nat
        BY Fields, DevFields
      <3>3. thread.rx + (b + thread.n) + RxHeld' + Len(dev.rfifo) =
              thread.rx + b + RxHeld + Len(dev.rfifo)
        BY <1>2, <1>3, <2>1, <3>2
      <3>4. QED
        BY <3>1, <3>3
    <2> HIDE DEF N
    <2>6. QED
      BY <1>1, <1>7, <1>8, <2>1, <2>2, <2>3, <2>4, <2>5 DEF RxStream, N
  <1>14. TxRun' /\ TxStream'
    BY <1>1, <1>7, TxFrame
  <1>15. Armed'
    BY <1>1, <1>7, <1>12 DEF IInv, Armed, RxRun, small
  <1>16. QED
    BY <1>10, <1>11, <1>12, <1>13, <1>14, <1>15 DEF IInv

\* A read gives up the run it has copied.
LEMMA RdPublishStep == IInv /\ RdPublish => IInv'
  <1> SUFFICES ASSUME IInv, RdPublish PROVE IInv'
    OBVIOUS
  <1> DEFINE n == thread.n
             b == Len(thread.buf)
             j == (thread.out + thread.n) % BufLen
             D == Dist(sp.rx_out, sp.rx_in)
             N(i) == Number(config.rx, i)
  <1>1. /\ thread.pc = "rd_publish"
        /\ UNCHANGED <<config, dev, isr, host>>
    BY DEF RdPublish, At
  <1>2. /\ n \in Nat /\ n > 0 /\ thread.out = sp.rx_out /\ n <= D
        /\ thread.out + n <= BufLen /\ n <= thread.count
        /\ thread.buf # <<>> /\ thread.count \in Nat
    BY <1>1, Fields, ThreadFields DEF IInv, RxRun
  <1>3. /\ sp.rx_out \in Index /\ sp.rx_in \in Index /\ BufLen \in Nat
        /\ thread \in ThreadType /\ thread.rx \in Nat /\ b \in Nat
    <2>1. thread \in ThreadType /\ thread.rx \in Nat /\ thread.buf \in Seq(Nat)
      BY Fields, ThreadFields
    <2>2. b \in Nat
      BY <2>1
    <2>3. QED
      BY <2>1, <2>2, Fields, SpFields
  <1>4. j \in Index /\ D \in 0 .. BufLen - 1
    BY <1>2, <1>3, RunIndex, DistType
  <1>5. \A p \in Index : Dist(sp.rx_out, p) \in 0 .. BufLen - 1
    BY <1>3, DistType
  <1>6. \A p \in Index :
          Dist(j, p) = IF n <= Dist(sp.rx_out, p) THEN Dist(sp.rx_out, p) - n
                       ELSE Dist(sp.rx_out, p) - n + BufLen
    <2> SUFFICES ASSUME NEW p \in Index
                 PROVE  Dist(j, p) = IF n <= Dist(sp.rx_out, p)
                                     THEN Dist(sp.rx_out, p) - n
                                     ELSE Dist(sp.rx_out, p) - n + BufLen
      OBVIOUS
    <2>1. CASE n <= Dist(sp.rx_out, p)
      BY <1>2, <1>3, <2>1, DistOut
    <2>2. CASE n > Dist(sp.rx_out, p)
      <3>1. Dist(j, p) = Dist(sp.rx_out, p) - n + BufLen
        BY <1>2, <1>3, <2>2, DistOutPast
      <3>2. QED
        BY <1>2, <1>5, <2>2, <3>1
    <2>3. QED
      BY <1>2, <1>5, <2>1, <2>2
  <1>7. /\ sp' \in SpType /\ sp'.rx_out = j /\ sp'.rx_in = sp.rx_in
        /\ sp'.rx_buf = sp.rx_buf /\ sp'.irq_enable = sp.irq_enable
        /\ sp'.tx_in = sp.tx_in /\ sp'.tx_out = sp.tx_out /\ sp'.tx_buf = sp.tx_buf
    BY <1>4, Fields DEF RdPublish, SpType
  <1>8. /\ thread' \in ThreadType /\ thread'.pc \in {"rd_load", "rd_done", "rd_wait"}
        /\ thread'.buf = thread.buf /\ thread'.rx = thread.rx
        /\ thread'.tx = thread.tx /\ thread'.done = thread.done
    <2> DEFINE pc == IF thread.count > thread.n THEN "rd_load" ELSE AfterRuns(thread.buf)
    <2>1. pc \in {"rd_load", "rd_done", "rd_wait"}
      BY DEF AfterRuns
    <2>2. pc \in Pcs
      BY <2>1 DEF Pcs, ReadPcs
    <2>3. thread' = [thread EXCEPT !.pc = pc, !.count = thread.count - thread.n,
                                   !.out = 0, !.n = 0]
      BY DEF RdPublish
    <2>4. thread.count - thread.n \in Nat /\ 0 \in Index
      BY <1>2, Fields
    <2> HIDE DEF pc
    <2>5. QED
      BY <1>3, <2>1, <2>2, <2>3, <2>4 DEF ThreadType
  <1> HIDE DEF b, j, D
  <1>9. ~small
    BY <1>1 DEF IInv, Modes, SmallPcs
  <1>10. Types'
    BY <1>1, <1>7, <1>8 DEF IInv, Types
  <1>11. Modes'
    BY <1>1, <1>7, <1>8, <1>9 DEF IInv, Modes, small, FifoDepth, ReadPcs, WritePcs, SmallPcs
  <1>12. RxRun'
    BY <1>8 DEF RxRun
  <1>13. RxStream'
    <2>1. Taken = n /\ Taken' = 0 /\ RxHeld = D - n
      BY <1>1, <1>8 DEF Taken, RxHeld, D
    <2>2. RxHeld' = D - n
      <3>1. Dist(j, sp.rx_in) = D - n
        BY <1>2, <1>3, <1>6 DEF D
      <3>2. QED
        BY <1>2, <1>4, <1>7, <2>1, <3>1 DEF RxHeld
    <2>3. ASSUME NEW p \in Index, Dist(j, p) < Dist(j, sp.rx_in)
          PROVE  sp.rx_buf[p] = N(thread.rx + b + Dist(j, p) - Taken')
      <3>1. Dist(j, sp.rx_in) = D - n /\ Dist(sp.rx_out, p) \in 0 .. BufLen - 1
        BY <1>2, <1>3, <1>5, <1>6 DEF D
      <3>2. n <= Dist(sp.rx_out, p)
        BY <1>2, <1>3, <1>4, <1>6, <2>3, <3>1
      <3>3. Dist(j, p) = Dist(sp.rx_out, p) - n /\ Dist(sp.rx_out, p) < D
        BY <1>2, <1>3, <1>4, <1>6, <2>3, <3>1, <3>2
      <3>4. sp.rx_buf[p] = N(thread.rx + b + Dist(sp.rx_out, p) - n)
        BY <2>1, <3>2, <3>3 DEF IInv, RxStream, b, D
      <3>5. thread.rx + b + Dist(j, p) - Taken' = thread.rx + b + Dist(sp.rx_out, p) - n
        BY <1>2, <1>3, <2>1, <3>1, <3>3
      <3>6. QED
        BY <3>4, <3>5
    <2> HIDE DEF N
    <2>4. QED
      BY <1>1, <1>7, <1>8, <2>1, <2>2, <2>3 DEF IInv, RxStream, b, N
  <1>14. TxRun' /\ TxStream'
    BY <1>1, <1>7, <1>8, TxFrame
  <1>15. Armed'
    BY <1>1, <1>2, <1>7, <1>8 DEF IInv, Armed, small
  <1>16. QED
    BY <1>10, <1>11, <1>12, <1>13, <1>14, <1>15 DEF IInv

\* Moving the thread to another point of its call.
LEMMA GotoTypes ==
  ASSUME IInv, NEW pc \in Pcs, Goto(pc)
  PROVE  /\ thread' \in ThreadType /\ thread'.pc = pc
         /\ thread'.buf = thread.buf /\ thread'.rx = thread.rx
         /\ thread'.tx = thread.tx /\ thread'.done = thread.done
         /\ thread'.in = thread.in /\ thread'.n = thread.n
         /\ thread'.count = thread.count
  BY Fields DEF Goto, ThreadType

\* A read waits.
LEMMA RdWaitStep == IInv /\ RdWait => IInv'
  <1> SUFFICES ASSUME IInv, RdWait PROVE IInv'
    OBVIOUS
  <1>1. thread.pc = "rd_wait" /\ UNCHANGED <<config, dev, sp, isr, host>>
    BY DEF RdWait, At
  <1>2. PICK pc \in {"rd_load", "rd_done"} : Goto(pc)
    BY DEF RdWait
  <1>3. pc \in Pcs
    BY DEF Pcs, ReadPcs
  <1>4. ~small
    BY <1>1 DEF IInv, Modes, SmallPcs
  <1>5. QED
    BY <1>1, <1>2, <1>3, <1>4, GotoTypes, ThreadStep DEF ReadPcs, WritePcs, SmallPcs

\* A read that got something enables the receive interrupt and returns.
LEMMA RdDoneStep == IInv /\ RdDone => IInv'
  <1> SUFFICES ASSUME IInv, RdDone PROVE IInv'
    OBVIOUS
  <1>1. thread.pc = "rd_done" /\ UNCHANGED <<config, isr, host>> /\ Return
    BY DEF RdDone, At
  <1>2. CASE thread.buf = <<>>
    BY <1>1, <1>2, ReturnStep DEF RdDone
  <1>3. CASE thread.buf # <<>>
    <2>1. SetEnable(sp.irq_enable \cup {"RE"})
      BY <1>3 DEF RdDone
    <2>2. dev.enable \in SUBSET Enables /\ sp.irq_enable = dev.enable
      BY Fields, DevFields DEF IInv, Modes
    <2>3. sp.irq_enable \cup {"RE"} \in SUBSET Enables
      BY <2>2 DEF Enables
    <2>4. /\ dev' \in DevType /\ sp' \in SpType
          /\ dev'.enable = dev.enable \cup {"RE"} /\ sp'.irq_enable = dev'.enable
          /\ dev'.rfifo = dev.rfifo /\ dev'.wfifo = dev.wfifo
          /\ sp'.rx_in = sp.rx_in /\ sp'.rx_out = sp.rx_out /\ sp'.rx_buf = sp.rx_buf
          /\ sp'.tx_in = sp.tx_in /\ sp'.tx_out = sp.tx_out /\ sp'.tx_buf = sp.tx_buf
      BY <2>1, <2>2, <2>3, Fields, SetEnableTypes
    <2>5. thread' \in ThreadType /\ thread'.pc = "idle" /\ thread'.buf = <<>>
      BY <1>1, ReturnTypes
    <2>6. Types'
      BY <1>1, <2>4, <2>5 DEF IInv, Types
    <2>7. Modes'
      BY <1>1, <2>4, <2>5 DEF IInv, Modes, small, FifoDepth, ReadPcs, WritePcs, SmallPcs
    <2>8. RxRun' /\ RxStream' /\ TxRun' /\ TxStream'
      BY <1>1, <2>4, RxReturn, TxReturn
    <2>9. Armed'
      BY <1>1, <2>4, <2>5 DEF IInv, Armed, small
    <2>10. QED
      BY <2>6, <2>7, <2>8, <2>9 DEF IInv
  <1>4. QED
    BY <1>2, <1>3

\* A write looks for free room in the ring.
LEMMA WrLoadStep == IInv /\ WrLoad => IInv'
  <1> SUFFICES ASSUME IInv, WrLoad PROVE IInv'
    OBVIOUS
  <1> DEFINE n == WriteRun(sp.tx_in, sp.tx_out)
             m == IF n > thread.count THEN thread.count ELSE n
  <1>1. /\ thread.pc = "wr_load"
        /\ UNCHANGED <<config, dev, sp, isr, host>>
    BY DEF WrLoad, At
  <1>2. /\ sp.tx_in \in Index /\ sp.tx_out \in Index /\ thread.count \in Nat
        /\ thread \in ThreadType
    BY Fields, SpFields, ThreadFields
  <1>3. n \in 0 .. BufLen - 1 - TxHeld /\ sp.tx_in + n <= BufLen
    BY <1>2, WriteRunFits DEF TxHeld
  <1>4. ~small /\ config.tx > 0 /\ thread.buf = <<>>
    BY <1>1 DEF IInv, Modes, SmallPcs, ReadPcs, WritePcs
  <1>5. CASE thread.count = 0 \/ n = 0
    <2>1. /\ thread' \in ThreadType /\ thread'.pc = "wr_kick"
          /\ thread'.buf = thread.buf /\ thread'.rx = thread.rx
          /\ thread'.tx = thread.tx /\ thread'.done = thread.done
      <3>1. \/ thread' = [thread EXCEPT !.pc = "wr_kick"]
            \/ thread' = [thread EXCEPT !.pc = "wr_kick", !.out = sp.tx_out]
        BY <1>5 DEF WrLoad
      <3>2. "wr_kick" \in Pcs
        BY DEF Pcs, WritePcs
      <3>3. QED
        BY <1>2, <3>1, <3>2 DEF ThreadType
    <2>2. QED
      BY <1>1, <1>4, <2>1, ThreadStep DEF ReadPcs, WritePcs, SmallPcs
  <1>6. CASE thread.count # 0 /\ n # 0
    <2>1. thread' = [thread EXCEPT !.pc = "wr_copy", !.in = sp.tx_in,
                                   !.out = sp.tx_out, !.n = m]
      BY <1>6 DEF WrLoad
    <2>2. TxHeld \in Nat /\ BufLen \in Nat /\ sp.tx_in \in Nat
      BY <1>2, Fields, HeldTypes DEF Index
    <2>3. /\ m \in Nat /\ m \in 1 .. BufLen - 1 - TxHeld
          /\ sp.tx_in + m <= BufLen /\ m <= thread.count
      BY <1>2, <1>3, <1>6, <2>2
    <2> HIDE DEF m, n
    <2>4. /\ thread' \in ThreadType /\ thread'.pc = "wr_copy"
          /\ thread'.in = sp.tx_in /\ thread'.n = m /\ thread'.count = thread.count
          /\ thread'.buf = thread.buf /\ thread'.rx = thread.rx
          /\ thread'.tx = thread.tx /\ thread'.done = thread.done
      <3>1. "wr_copy" \in Pcs
        BY DEF Pcs, WritePcs
      <3>2. QED
        BY <1>2, <2>1, <2>3, <3>1 DEF ThreadType
    <2>5. Types'
      BY <1>1, <2>4 DEF IInv, Types
    <2>6. Modes'
      BY <1>1, <1>4, <2>4 DEF IInv, Modes, small, FifoDepth, ReadPcs, WritePcs, SmallPcs
    <2>7. RxRun' /\ RxStream'
      BY <1>1, <2>4, RxFrame
    <2>8. TxHeld' = TxHeld
      BY <1>1 DEF TxHeld
    <2>9. TxRun'
      BY <1>1, <2>3, <2>4, <2>8 DEF TxRun
    <2>10. TxStream'
      BY <1>1, <2>4, <2>8 DEF IInv, TxStream
    <2>11. Armed'
      BY <1>1, <2>4 DEF IInv, Armed, small
    <2>12. QED
      BY <2>5, <2>6, <2>7, <2>9, <2>10, <2>11 DEF IInv
  <1>7. QED
    BY <1>5, <1>6

\* The free room a write fills is behind what the ring holds, ...
LEMMA RunBehind ==
  ASSUME NEW out \in Index, NEW in \in Index, NEW n \in Nat, in + n <= BufLen,
         n <= BufLen - 1 - Dist(out, in), NEW p \in in .. in + n - 1
  PROVE  p \in Index /\ Dist(out, p) = Dist(out, in) + (p - in)
  BY BufLenAssumption DEF Index, Dist

\* ... and all that is behind it up to its length.
LEMMA RunCovers ==
  ASSUME NEW out \in Index, NEW in \in Index, NEW n \in Nat, in + n <= BufLen,
         NEW p \in Index, Dist(out, p) >= Dist(out, in),
         Dist(out, p) < Dist(out, in) + n
  PROVE  p \in in .. in + n - 1 /\ Dist(out, p) = Dist(out, in) + (p - in)
  BY BufLenAssumption DEF Index, Dist

\* A write fills the room it found, and nothing else.
LEMMA WrCopyStep == IInv /\ WrCopy => IInv'
  <1> SUFFICES ASSUME IInv, WrCopy PROVE IInv'
    OBVIOUS
  <1> DEFINE N(i) == Number(config.tx, i)
             run == thread.in .. thread.in + thread.n - 1
             t == thread.tx + thread.done
             buf == [i \in Index |-> IF i \in run THEN N(t + i - thread.in)
                                     ELSE sp.tx_buf[i]]
  <1>1. /\ thread.pc = "wr_copy" /\ Goto("wr_publish")
        /\ UNCHANGED <<config, dev, isr, host>>
    BY DEF WrCopy, At
  <1>2. /\ thread.n \in 1 .. BufLen - 1 - TxHeld /\ thread.in = sp.tx_in
        /\ thread.in + thread.n <= BufLen /\ thread.n <= thread.count
    BY <1>1 DEF IInv, TxRun
  <1>3. /\ sp.tx_in \in Index /\ sp.tx_out \in Index /\ sp.tx_buf \in [Index -> Nat]
        /\ thread.n \in Nat /\ thread.in \in Nat /\ t \in Nat
        /\ config.tx \in Nat /\ BufLen \in Nat /\ TxHeld \in Nat
    <2>1. sp.tx_in \in Index /\ sp.tx_out \in Index /\ sp.tx_buf \in [Index -> Nat]
      BY Fields, SpFields
    <2>2. thread.n \in Nat /\ thread.tx \in Nat /\ thread.done \in Nat
      BY Fields, ThreadFields
    <2>3. config.tx \in Nat /\ BufLen \in Nat /\ TxHeld \in Nat
      BY Fields, ConfigFields, HeldTypes
    <2>4. thread.in \in Nat
      BY <1>2, <2>1, <2>3 DEF Index
    <2>5. QED
      BY <2>1, <2>2, <2>3, <2>4
  <1>4. sp' = [sp EXCEPT !.tx_buf = buf]
    BY DEF WrCopy, TxNumber, Number
  <1> HIDE DEF t
  <1>5. buf \in [Index -> Nat]
    <2> SUFFICES ASSUME NEW i \in Index
                 PROVE  (IF i \in run THEN N(t + i - thread.in) ELSE sp.tx_buf[i]) \in Nat
      OBVIOUS
    <2>1. i \in run => t + i - thread.in \in Nat
      BY <1>3
    <2>2. i \in run => N(t + i - thread.in) \in Nat
      BY <1>3, <2>1, NumberType
    <2>3. QED
      BY <1>3, <2>2
  <1>6. \A p \in Index : Dist(sp.tx_out, p) < TxHeld => buf[p] = sp.tx_buf[p]
    <2> SUFFICES ASSUME NEW p \in Index, Dist(sp.tx_out, p) < TxHeld
                 PROVE  p \notin run
      OBVIOUS
    <2>1. SUFFICES ASSUME p \in run PROVE FALSE
      OBVIOUS
    <2>2. p \in sp.tx_in .. sp.tx_in + thread.n - 1
      BY <1>2, <2>1
    <2>3. Dist(sp.tx_out, p) = TxHeld + (p - sp.tx_in)
      <3>1. /\ sp.tx_in + thread.n <= BufLen
            /\ thread.n <= BufLen - 1 - Dist(sp.tx_out, sp.tx_in)
        BY <1>2, <1>3 DEF TxHeld
      <3>2. Dist(sp.tx_out, p) = Dist(sp.tx_out, sp.tx_in) + (p - sp.tx_in)
        BY <1>3, <2>2, <3>1, RunBehind
      <3>3. QED
        BY <3>2 DEF TxHeld
    <2>4. sp.tx_in \in Nat
      BY <1>2, <1>3
    <2>5. QED
      BY <1>3, <2>2, <2>3, <2>4
  <1>7. \A p \in run : buf[p] = N(t + p - thread.in)
    <2>1. ASSUME NEW p \in run PROVE p \in 0 .. BufLen - 1
      BY <1>2, <1>3
    <2>2. QED
      BY <2>1 DEF Index
  <1> HIDE DEF buf
  <1>8. /\ sp' \in SpType /\ sp'.tx_buf = buf /\ sp'.irq_enable = sp.irq_enable
        /\ sp'.tx_in = sp.tx_in /\ sp'.tx_out = sp.tx_out
        /\ sp'.rx_in = sp.rx_in /\ sp'.rx_out = sp.rx_out /\ sp'.rx_buf = sp.rx_buf
    BY <1>4, <1>5, Fields DEF SpType
  <1>9. /\ thread' \in ThreadType /\ thread'.pc = "wr_publish"
        /\ thread'.buf = thread.buf /\ thread'.rx = thread.rx
        /\ thread'.tx = thread.tx /\ thread'.done = thread.done
        /\ thread'.in = thread.in /\ thread'.n = thread.n
        /\ thread'.count = thread.count
    <2>1. "wr_publish" \in Pcs
      BY DEF Pcs, WritePcs
    <2>2. QED
      BY <1>1, <2>1, GotoTypes
  <1>10. ~small /\ config.tx > 0 /\ thread.buf = <<>>
    BY <1>1 DEF IInv, Modes, SmallPcs, ReadPcs, WritePcs
  <1>11. Types'
    BY <1>1, <1>8, <1>9 DEF IInv, Types
  <1>12. Modes'
    BY <1>1, <1>8, <1>9, <1>10 DEF IInv, Modes, small, FifoDepth, ReadPcs, WritePcs, SmallPcs
  <1>13. RxRun' /\ RxStream'
    BY <1>1, <1>8, <1>9, RxFrame
  <1>14. TxHeld' = TxHeld
    BY <1>8 DEF TxHeld
  <1>15. TxRun'
    BY <1>1, <1>2, <1>7, <1>8, <1>9, <1>14 DEF TxRun, t
  <1>16. TxStream'
    BY <1>1, <1>6, <1>8, <1>9, <1>14 DEF IInv, TxStream
  <1>17. Armed'
    BY <1>1, <1>8, <1>9 DEF IInv, Armed, small
  <1>18. QED
    BY <1>11, <1>12, <1>13, <1>15, <1>16, <1>17 DEF IInv

\* A write hands over the run it has filled: the characters due come next.
LEMMA WrPublishStep == IInv /\ WrPublish => IInv'
  <1> SUFFICES ASSUME IInv, WrPublish PROVE IInv'
    OBVIOUS
  <1> DEFINE N(i) == Number(config.tx, i)
             n == thread.n
             t == thread.tx + thread.done
             g == host.got + Len(dev.wfifo)
             j == (thread.in + thread.n) % BufLen
  <1>1. /\ thread.pc = "wr_publish"
        /\ UNCHANGED <<config, dev, isr, host>>
    BY DEF WrPublish, At
  <1>2. /\ n \in 1 .. BufLen - 1 - TxHeld /\ thread.in = sp.tx_in
        /\ thread.in + n <= BufLen /\ n <= thread.count
        /\ \A p \in thread.in .. thread.in + n - 1 : sp.tx_buf[p] = N(t + p - thread.in)
    BY <1>1 DEF IInv, TxRun
  <1>3. /\ sp.tx_in \in Index /\ sp.tx_out \in Index /\ n \in Nat /\ sp.tx_in \in Nat
        /\ t \in Nat /\ config.tx \in Nat /\ BufLen \in Nat /\ TxHeld \in Nat
        /\ g \in Nat /\ thread.tx \in Nat /\ thread.done \in Nat
    <2>1. sp.tx_in \in Index /\ sp.tx_out \in Index
      BY Fields, SpFields
    <2>2. n \in Nat /\ thread.tx \in Nat /\ thread.done \in Nat
      BY Fields, ThreadFields
    <2>3. config.tx \in Nat /\ BufLen \in Nat /\ TxHeld \in Nat
      BY Fields, ConfigFields, HeldTypes
    <2>4. Len(dev.wfifo) \in Nat /\ host.got \in Nat
      BY Fields, DevFields
    <2>5. sp.tx_in \in Nat
      BY <2>1, <2>3 DEF Index
    <2>6. t \in Nat
      BY <2>2
    <2>7. g \in Nat
      BY <2>4
    <2> HIDE DEF t, g, n
    <2>8. QED
      BY <2>1, <2>2, <2>3, <2>5, <2>6, <2>7
  <1>4. j \in Index /\ Dist(sp.tx_out, j) = TxHeld + n
    <2>1. /\ sp.tx_in + n <= BufLen /\ n <= BufLen - 1 - Dist(sp.tx_out, sp.tx_in)
          /\ j = (sp.tx_in + n) % BufLen
      BY <1>2, <1>3 DEF TxHeld
    <2> HIDE DEF j, n
    <2>2. (sp.tx_in + n) % BufLen \in Index
      BY <1>3, <2>1, RunIndex
    <2>3. Dist(sp.tx_out, (sp.tx_in + n) % BufLen) = Dist(sp.tx_out, sp.tx_in) + n
      BY <1>3, <2>1, DistRun
    <2>4. QED
      BY <2>1, <2>2, <2>3 DEF TxHeld
  <1>5. N(t) = N(g + TxHeld)
    BY DEF IInv, TxStream
  <1>6. \A k \in Nat : N(t + k) = N(g + TxHeld + k)
    <2> HIDE DEF t, g
    <2>1. g + TxHeld \in Nat
      BY <1>3
    <2>2. QED
      BY <1>3, <1>5, <2>1, NumberCongruence
  <1>7. \A p \in Index : Dist(sp.tx_out, p) < TxHeld => sp.tx_buf[p] = N(g + Dist(sp.tx_out, p))
    BY DEF IInv, TxStream
  <1>8. /\ sp' \in SpType /\ sp'.tx_in = j /\ sp'.tx_out = sp.tx_out
        /\ sp'.tx_buf = sp.tx_buf /\ sp'.irq_enable = sp.irq_enable
        /\ sp'.rx_in = sp.rx_in /\ sp'.rx_out = sp.rx_out /\ sp'.rx_buf = sp.rx_buf
    BY <1>4, Fields DEF WrPublish, SpType
  <1>9. /\ thread' \in ThreadType /\ thread'.pc = "wr_load"
        /\ thread'.buf = thread.buf /\ thread'.rx = thread.rx
        /\ thread'.tx = thread.tx /\ thread'.done = thread.done + n
    <2>1. /\ "wr_load" \in Pcs /\ 0 \in Index
          /\ thread.count - n \in Nat /\ thread.done + n \in Nat
      <3>1. "wr_load" \in Pcs /\ 0 \in Index /\ thread.count \in Nat
        BY Fields, ThreadFields DEF Pcs, WritePcs
      <3>2. n \in Nat /\ n <= thread.count /\ thread.done \in Nat
        BY <1>2, <1>3
      <3> HIDE DEF n
      <3>3. thread.count - n \in Nat /\ thread.done + n \in Nat
        BY <3>1, <3>2
      <3>4. QED
        BY <3>1, <3>3
    <2>2. QED
      BY <2>1, Fields DEF WrPublish, ThreadType
  <1>10. ~small /\ config.tx > 0 /\ thread.buf = <<>>
    BY <1>1 DEF IInv, Modes, SmallPcs, ReadPcs, WritePcs
  <1>11. Types'
    BY <1>1, <1>8, <1>9 DEF IInv, Types
  <1>12. Modes'
    BY <1>1, <1>8, <1>9, <1>10 DEF IInv, Modes, small, FifoDepth, ReadPcs, WritePcs, SmallPcs
  <1>13. RxRun' /\ RxStream'
    BY <1>1, <1>8, <1>9, RxFrame
  <1>14. TxRun'
    BY <1>9 DEF TxRun
  <1>15. TxStream'
    <2>1. TxHeld' = TxHeld + n
      BY <1>4, <1>8 DEF TxHeld
    <2>2. ASSUME NEW p \in Index, Dist(sp.tx_out, p) < TxHeld + n
          PROVE  sp.tx_buf[p] = N(g + Dist(sp.tx_out, p))
      <3>1. Dist(sp.tx_out, p) \in Nat
        BY <1>3, DistType
      <3>2. CASE Dist(sp.tx_out, p) < TxHeld
        BY <1>7, <3>2
      <3>3. CASE Dist(sp.tx_out, p) >= TxHeld
        <4>1. /\ p \in sp.tx_in .. sp.tx_in + n - 1
              /\ Dist(sp.tx_out, p) = TxHeld + (p - sp.tx_in)
          <5>1. sp.tx_in + n <= BufLen
            BY <1>2
          <5>2. /\ sp.tx_out \in Index /\ sp.tx_in \in Index /\ n \in Nat /\ p \in Index
                /\ Dist(sp.tx_out, p) >= Dist(sp.tx_out, sp.tx_in)
                /\ Dist(sp.tx_out, p) < Dist(sp.tx_out, sp.tx_in) + n
            BY <1>3, <2>2, <3>3 DEF TxHeld
          <5>3. /\ p \in sp.tx_in .. sp.tx_in + n - 1
                /\ Dist(sp.tx_out, p) = Dist(sp.tx_out, sp.tx_in) + (p - sp.tx_in)
            BY <5>1, <5>2, RunCovers
          <5>4. QED
            BY <5>3 DEF TxHeld
        <4>2. p - sp.tx_in \in Nat
          <5>1. sp.tx_in \in Nat /\ n \in Nat
            BY <1>3
          <5> HIDE DEF n
          <5>2. QED
            BY <4>1, <5>1
        <4>3. sp.tx_buf[p] = N(t + p - sp.tx_in)
          BY <1>2, <4>1
        <4>4. t + p - sp.tx_in = t + (p - sp.tx_in)
          BY <1>3, <4>1
        <4>5. N(t + (p - sp.tx_in)) = N(g + TxHeld + (p - sp.tx_in))
          BY <1>6, <4>2
        <4>6. g + TxHeld + (p - sp.tx_in) = g + Dist(sp.tx_out, p)
          BY <1>3, <4>1, <4>2
        <4>7. QED
          BY <4>3, <4>4, <4>5, <4>6
      <3>4. QED
        BY <1>3, <3>1, <3>2, <3>3
    <2>3. N(thread.tx + (thread.done + n)) = N(g + (TxHeld + n))
      <3>1. N(t + n) = N(g + TxHeld + n)
        BY <1>3, <1>6
      <3>2. t + n = thread.tx + (thread.done + n) /\ g + TxHeld + n = g + (TxHeld + n)
        BY <1>3
      <3>3. QED
        BY <3>1, <3>2
    <2> HIDE DEF N
    <2>4. QED
      BY <1>1, <1>8, <1>9, <2>1, <2>2, <2>3 DEF IInv, TxStream, N
  <1>16. Armed'
    BY <1>1, <1>8, <1>9 DEF IInv, Armed, small
  <1>17. QED
    BY <1>11, <1>12, <1>13, <1>14, <1>15, <1>16 DEF IInv

\* A write that has filled the ring, or is done, enables the interrupt that
\* empties it.
LEMMA WrKickStep == IInv /\ WrKick => IInv'
  <1> SUFFICES ASSUME IInv, WrKick PROVE IInv'
    OBVIOUS
  <1>1. thread.pc = "wr_kick" /\ UNCHANGED <<config, isr, host>>
    BY DEF WrKick, At
  <1>2. SetEnable(sp.irq_enable \cup {"WE"})
    BY DEF WrKick
  <1>3. dev.enable \in SUBSET Enables /\ sp.irq_enable = dev.enable
    BY Fields, DevFields DEF IInv, Modes
  <1>4. sp.irq_enable \cup {"WE"} \in SUBSET Enables
    BY <1>3 DEF Enables
  <1>5. /\ dev' \in DevType /\ sp' \in SpType
        /\ dev'.enable = dev.enable \cup {"WE"} /\ sp'.irq_enable = dev'.enable
        /\ dev'.rfifo = dev.rfifo /\ dev'.wfifo = dev.wfifo
        /\ sp'.rx_in = sp.rx_in /\ sp'.rx_out = sp.rx_out /\ sp'.rx_buf = sp.rx_buf
        /\ sp'.tx_in = sp.tx_in /\ sp'.tx_out = sp.tx_out /\ sp'.tx_buf = sp.tx_buf
    BY <1>2, <1>3, <1>4, Fields, SetEnableTypes
  <1>6. PICK pc \in {"wr_done", "wr_wait"} : Goto(pc)
    BY DEF WrKick
  <1>7. /\ thread' \in ThreadType /\ thread'.pc \in {"wr_done", "wr_wait"}
        /\ thread'.buf = thread.buf /\ thread'.rx = thread.rx
        /\ thread'.tx = thread.tx /\ thread'.done = thread.done
    <2>1. pc \in Pcs
      BY DEF Pcs, WritePcs
    <2>2. QED
      BY <1>6, <2>1, GotoTypes
  <1>8. ~small /\ config.tx > 0 /\ thread.buf = <<>>
    BY <1>1 DEF IInv, Modes, SmallPcs, ReadPcs, WritePcs
  <1>9. Types'
    BY <1>1, <1>5, <1>7 DEF IInv, Types
  <1>10. Modes'
    BY <1>1, <1>5, <1>7, <1>8 DEF IInv, Modes, small, FifoDepth, ReadPcs, WritePcs, SmallPcs
  <1>11. RxRun' /\ RxStream' /\ TxRun' /\ TxStream'
    BY <1>1, <1>5, <1>7, RxFrame, TxFrame
  <1>12. Armed'
    BY <1>1, <1>5, <1>7 DEF IInv, Armed, small
  <1>13. QED
    BY <1>9, <1>10, <1>11, <1>12 DEF IInv

\* A write waits.
LEMMA WrWaitStep == IInv /\ WrWait => IInv'
  <1> SUFFICES ASSUME IInv, WrWait PROVE IInv'
    OBVIOUS
  <1>1. thread.pc = "wr_wait" /\ UNCHANGED <<config, dev, sp, isr, host>>
    BY DEF WrWait, At
  <1>2. PICK pc \in {"wr_load", "wr_done"} : Goto(pc)
    BY DEF WrWait
  <1>3. pc \in Pcs
    BY DEF Pcs, WritePcs
  <1>4. ~small /\ config.tx > 0 /\ thread.buf = <<>>
    BY <1>1 DEF IInv, Modes, SmallPcs, ReadPcs, WritePcs
  <1>5. QED
    BY <1>1, <1>2, <1>3, <1>4, GotoTypes, ThreadStep DEF ReadPcs, WritePcs, SmallPcs

\* A write returns.
LEMMA WrDoneStep == IInv /\ WrDone => IInv'
  <1> SUFFICES ASSUME IInv, WrDone PROVE IInv'
    OBVIOUS
  <1>1. thread.pc = "wr_done" /\ UNCHANGED <<config, dev, sp, isr, host>> /\ Return
    BY DEF WrDone, At
  <1>2. thread.buf = <<>>
    BY <1>1 DEF IInv, Modes, ReadPcs
  <1>3. QED
    BY <1>1, <1>2, ReturnStep

\* A close returns.
LEMMA CloseStep == IInv /\ altera_avalon_jtag_uart_close => IInv'
  <1> SUFFICES ASSUME IInv, altera_avalon_jtag_uart_close PROVE IInv'
    OBVIOUS
  <1>1. thread.pc = "close" /\ UNCHANGED <<config, dev, sp, isr, host>> /\ Return
    BY DEF altera_avalon_jtag_uart_close, At
  <1>2. thread.buf = <<>>
    BY <1>1 DEF IInv, Modes, ReadPcs
  <1>3. QED
    BY <1>1, <1>2, ReturnStep

-----------------------------------------------------------------------------
(* The polled driver                                                       *)

\* The polled read takes a character, the polled write gives one.
SmallTakes ==
  /\ thread.pc = "small_read" /\ thread.count > 0 /\ dev.rfifo # <<>>
  /\ dev' = [dev EXCEPT !.rfifo = Tail(@)]
  /\ thread' = [thread EXCEPT !.buf = Append(@, Head(dev.rfifo)), !.count = @ - 1]
  /\ UNCHANGED <<config, sp, isr, host>>

SmallGives ==
  /\ thread.pc = "small_write" /\ thread.count > 0 /\ Len(dev.wfifo) < FifoDepth
  /\ dev' = [dev EXCEPT !.wfifo = Append(@, TxNumber(thread.tx + thread.done))]
  /\ thread' = [thread EXCEPT !.done = @ + 1, !.count = @ - 1]
  /\ UNCHANGED <<config, sp, isr, host>>

\* A character goes from the receive FIFO to the caller's buffer.
LEMMA SmallTakesStep == IInv /\ SmallTakes => IInv'
  <1> SUFFICES ASSUME IInv, SmallTakes PROVE IInv'
    OBVIOUS
  <1> DEFINE N(i) == Number(config.rx, i)
             b == Len(thread.buf)
             l == Len(dev.rfifo)
             c == Head(dev.rfifo)
  <1>0. /\ config' = config /\ sp' = sp /\ isr' = isr /\ host' = host
        /\ thread.pc = "small_read" /\ thread.count > 0 /\ dev.rfifo # <<>>
    BY DEF SmallTakes
  <1>1. small /\ sp.rx_in = sp.rx_out
    BY <1>0 DEF IInv, Modes, SmallPcs
  <1>2. /\ dev.rfifo \in Seq(Nat) /\ l \in Nat /\ l > 0
        /\ c = dev.rfifo[1] /\ c \in Nat /\ Tail(dev.rfifo) \in Seq(Nat)
    BY <1>0, Fields, DevFields
  <1>3. /\ thread \in ThreadType /\ thread.rx \in Nat /\ thread.buf \in Seq(Nat)
        /\ b \in Nat /\ thread.count - 1 \in Nat
    BY <1>0, Fields, ThreadFields
  <1>4. /\ dev' \in DevType /\ dev'.rfifo = Tail(dev.rfifo)
        /\ dev'.wfifo = dev.wfifo /\ dev'.enable = dev.enable
    BY <1>2, Fields DEF SmallTakes, DevType
  <1>5. /\ Len(dev'.rfifo) = l - 1
        /\ \A i \in 1 .. l - 1 : dev'.rfifo[i] = dev.rfifo[i + 1]
    BY <1>2, <1>4
  <1>6. /\ thread' \in ThreadType /\ thread'.pc = "small_read"
        /\ thread'.buf = Append(thread.buf, c) /\ thread'.rx = thread.rx
        /\ thread'.tx = thread.tx /\ thread'.done = thread.done
    <2>1. Append(thread.buf, c) \in Seq(Nat)
      BY <1>2, <1>3
    <2>2. QED
      BY <1>0, <1>3, <2>1 DEF SmallTakes, ThreadType
  <1>7. /\ Len(thread'.buf) = b + 1
        /\ \A i \in 1 .. b + 1 : thread'.buf[i] = IF i <= b THEN thread.buf[i] ELSE c
    BY <1>2, <1>3, <1>6
  <1> HIDE DEF b, l, c
  <1>8. /\ Taken = 0 /\ Taken' = 0 /\ RxHeld = 0 /\ RxHeld' = 0
        /\ Dist(sp.rx_out, sp.rx_in) = 0
    <2>1. Dist(sp.rx_out, sp.rx_in) = 0
      BY <1>1, Fields, SpFields, DistType
    <2>2. QED
      BY <1>0, <1>6, <2>1 DEF Taken, RxHeld
  <1>9. Types'
    BY <1>0, <1>4, <1>6 DEF IInv, Types
  <1>10. Modes'
    <2>1. FifoDepth' = FifoDepth /\ small' = small /\ FifoDepth \in Nat
      BY <1>0, Fields, ConfigFields DEF FifoDepth, small
    <2>2. l <= FifoDepth
      BY DEF IInv, Modes, l
    <2>3. Len(dev'.rfifo) <= FifoDepth
      BY <1>2, <1>5, <2>1, <2>2
    <2>4. QED
      BY <1>0, <1>1, <1>4, <1>6, <2>1, <2>3 DEF IInv, Modes, SmallPcs, ReadPcs, WritePcs
  <1>11. RxRun'
    BY <1>6 DEF RxRun
  <1>12. RxStream'
    <2>1. c = N(thread.rx + b)
      <3>1. c = N(thread.rx + b + 0 + 1 - 1)
        BY <1>2, <1>8 DEF IInv, RxStream, b, l
      <3>2. thread.rx + b + 0 + 1 - 1 = thread.rx + b
        BY <1>3 DEF b
      <3>3. QED
        BY <3>1, <3>2
    <2>2. ASSUME NEW i \in 1 .. b + 1
          PROVE  thread'.buf[i] = N(thread.rx + i - 1)
      <3>1. CASE i <= b
        <4>1. i \in 1 .. b
          BY <1>3, <3>1
        <4>2. QED
          BY <1>7, <3>1, <4>1 DEF IInv, RxStream, b
      <3>2. CASE i = b + 1
        <4>1. thread.rx + i - 1 = thread.rx + b
          BY <1>3, <3>2
        <4>2. QED
          BY <1>3, <1>7, <2>1, <3>2, <4>1
      <3>3. QED
        BY <1>3, <3>1, <3>2
    <2>3. ASSUME NEW i \in 1 .. l - 1
          PROVE  dev'.rfifo[i] = N(thread.rx + (b + 1) + RxHeld' + i - 1)
      <3>1. i + 1 \in 1 .. l
        BY <1>2
      <3>2. dev.rfifo[i + 1] = N(thread.rx + b + 0 + (i + 1) - 1)
        BY <1>8, <3>1 DEF IInv, RxStream, b, l
      <3>3. thread.rx + (b + 1) + RxHeld' + i - 1 = thread.rx + b + 0 + (i + 1) - 1
        <4>1. thread.rx \in Nat /\ b \in Nat /\ RxHeld' = 0
          BY <1>3, <1>8
        <4>2. QED
          BY <4>1
      <3>4. QED
        BY <1>5, <3>2, <3>3
    <2>4. host.sent = N(thread.rx + (b + 1) + RxHeld' + (l - 1))
      <3>1. host.sent = N(thread.rx + b + 0 + l)
        BY <1>8 DEF IInv, RxStream, b, l
      <3>2. thread.rx + (b + 1) + RxHeld' + (l - 1) = thread.rx + b + 0 + l
        <4>1. thread.rx \in Nat /\ b \in Nat /\ l \in Nat /\ RxHeld' = 0
          BY <1>2, <1>3, <1>8
        <4>2. QED
          BY <4>1
      <3>3. QED
        BY <3>1, <3>2
    <2>5. \A p \in Index : ~(Dist(sp.rx_out, p) >= 0 /\ Dist(sp.rx_out, p) < 0)
      <3>1. \A p \in Index : Dist(sp.rx_out, p) \in 0 .. BufLen - 1
        BY Fields, SpFields, DistType
      <3>2. QED
        BY <3>1, Fields
    <2> HIDE DEF N
    <2>6. QED
      BY <1>0, <1>5, <1>6, <1>7, <1>8, <2>2, <2>3, <2>4, <2>5 DEF RxStream, N
  <1>13. TxRun' /\ TxStream'
    BY <1>0, <1>4, <1>6, TxFrame
  <1>14. Armed'
    BY <1>0, <1>1 DEF Armed, small
  <1>15. QED
    BY <1>9, <1>10, <1>11, <1>12, <1>13, <1>14 DEF IInv

\* A character goes to the transmit FIFO.
LEMMA SmallGivesStep == IInv /\ SmallGives => IInv'
  <1> SUFFICES ASSUME IInv, SmallGives PROVE IInv'
    OBVIOUS
  <1> DEFINE N(i) == Number(config.tx, i)
             l == Len(dev.wfifo)
             t == thread.tx + thread.done
  <1>0. /\ config' = config /\ sp' = sp /\ isr' = isr /\ host' = host
        /\ thread.pc = "small_write" /\ thread.count > 0 /\ l < FifoDepth
    BY DEF SmallGives
  <1>1. small /\ sp.tx_in = sp.tx_out /\ isr.pc = "off" /\ config.tx > 0
    BY <1>0 DEF IInv, Modes, SmallPcs
  <1>2. /\ thread \in ThreadType /\ thread.tx \in Nat /\ thread.done \in Nat
        /\ t \in Nat /\ thread.count - 1 \in Nat
    <2>1. /\ thread \in ThreadType /\ thread.tx \in Nat /\ thread.done \in Nat
          /\ thread.count \in Nat
      BY Fields, ThreadFields
    <2>2. t \in Nat /\ thread.count - 1 \in Nat
      BY <1>0, <2>1
    <2>3. QED
      BY <2>1, <2>2
  <1>3. /\ dev.wfifo \in Seq(Nat) /\ l \in Nat /\ host.got \in Nat /\ config.tx \in Nat
    BY Fields, DevFields, ConfigFields
  <1>4. N(t) \in Nat /\ TxNumber(t) = N(t)
    <2>1. TxNumber(t) = N(t)
      BY DEF TxNumber, Number
    <2> HIDE DEF t
    <2>2. QED
      BY <1>2, <1>3, <2>1, NumberType
  <1>5. /\ dev' \in DevType /\ dev'.wfifo = Append(dev.wfifo, N(t))
        /\ dev'.rfifo = dev.rfifo /\ dev'.enable = dev.enable
    <2>1. Append(dev.wfifo, N(t)) \in Seq(Nat)
      BY <1>3, <1>4
    <2>2. dev' = [dev EXCEPT !.wfifo = Append(dev.wfifo, N(t))]
      BY <1>4 DEF SmallGives
    <2>3. QED
      BY <2>1, <2>2, Fields DEF DevType
  <1>6. /\ Len(dev'.wfifo) = l + 1
        /\ \A i \in 1 .. l + 1 : dev'.wfifo[i] = IF i <= l THEN dev.wfifo[i] ELSE N(t)
    BY <1>3, <1>4, <1>5
  <1>7. /\ thread' \in ThreadType /\ thread'.pc = "small_write"
        /\ thread'.buf = thread.buf /\ thread'.rx = thread.rx
        /\ thread'.tx = thread.tx /\ thread'.done = thread.done + 1
    <2>1. thread.done + 1 \in Nat
      BY <1>2
    <2>2. QED
      BY <1>0, <1>2, <2>1 DEF SmallGives, ThreadType
  <1> HIDE DEF l, t
  <1>8. TxHeld = 0 /\ TxHeld' = 0
    <2>1. Dist(sp.tx_out, sp.tx_in) = 0
      BY <1>1, Fields, SpFields, DistType
    <2>2. QED
      BY <1>0, <2>1 DEF TxHeld
  <1>9. N(t) = N(host.got + l) /\ N(t + 1) = N(host.got + l + 1)
    <2>1. N(t) = N(host.got + l + 0)
      BY <1>8 DEF IInv, TxStream, t, l
    <2>2. host.got + l + 0 = host.got + l /\ host.got + l \in Nat
      BY <1>3
    <2>3. N(t) = N(host.got + l)
      BY <2>1, <2>2
    <2>4. QED
      BY <1>2, <1>3, <2>2, <2>3, NumberCongruence
  <1>10. Types'
    BY <1>0, <1>5, <1>7 DEF IInv, Types
  <1>11. Modes'
    <2>1. FifoDepth' = FifoDepth /\ small' = small /\ FifoDepth \in Nat
      BY <1>0, Fields, ConfigFields DEF FifoDepth, small
    <2>2. l + 1 <= FifoDepth /\ l + 1 + 0 <= FifoDepth
      BY <1>0, <1>3, <2>1
    <2>3. thread.buf = <<>>
      BY <1>0 DEF IInv, Modes, ReadPcs
    <2>4. QED
      BY <1>0, <1>1, <1>3, <1>5, <1>6, <1>7, <2>1, <2>2, <2>3
         DEF IInv, Modes, SmallPcs, ReadPcs, WritePcs
  <1>12. RxRun' /\ RxStream'
    BY <1>0, <1>5, <1>7, RxFrame
  <1>13. TxRun'
    BY <1>7 DEF TxRun
  <1>14. TxStream'
    <2>1. ASSUME NEW i \in 1 .. l + 1
          PROVE  dev'.wfifo[i] = N(host.got + i - 1)
      <3>1. CASE i <= l
        <4>1. i \in 1 .. l
          BY <1>3, <3>1
        <4>2. QED
          BY <1>6, <3>1, <4>1 DEF IInv, TxStream, l
      <3>2. CASE i = l + 1
        <4>1. host.got + i - 1 = host.got + l
          BY <1>3, <3>2
        <4>2. QED
          BY <1>3, <1>6, <1>9, <3>2, <4>1
      <3>3. QED
        BY <1>3, <3>1, <3>2
    <2>2. N(thread.tx + (thread.done + 1)) = N(host.got + (l + 1) + TxHeld')
      <3>1. t + 1 = thread.tx + (thread.done + 1)
        BY <1>2 DEF t
      <3>2. host.got + l + 1 = host.got + (l + 1) + TxHeld'
        BY <1>3, <1>8
      <3>3. QED
        BY <1>9, <3>1, <3>2
    <2>3. \A p \in Index : ~(Dist(sp.tx_out, p) < 0)
      <3>1. \A p \in Index : Dist(sp.tx_out, p) \in 0 .. BufLen - 1
        BY Fields, SpFields, DistType
      <3>2. QED
        BY <3>1, Fields
    <2> HIDE DEF N
    <2>4. QED
      BY <1>0, <1>6, <1>7, <1>8, <2>1, <2>2, <2>3 DEF TxStream, N
  <1>15. Armed'
    BY <1>0, <1>1 DEF Armed, small
  <1>16. QED
    BY <1>10, <1>11, <1>12, <1>13, <1>14, <1>15 DEF IInv

\* A step of the polled read.
LEMMA SmallReadStep == IInv /\ SmallRead => IInv'
  <1> SUFFICES ASSUME IInv, SmallRead PROVE IInv'
    OBVIOUS
  <1>1. thread.pc = "small_read" /\ UNCHANGED <<config, sp, isr, host>>
    BY DEF SmallRead, At
  <1>2. small
    BY <1>1 DEF IInv, Modes, SmallPcs
  <1>3. CASE Return /\ UNCHANGED dev
    BY <1>1, <1>2, <1>3, ReturnStep
  <1>4. CASE ~(Return /\ UNCHANGED dev)
    BY <1>1, <1>4, SmallTakesStep DEF SmallRead, SmallTakes
  <1>5. QED
    BY <1>3, <1>4

\* A step of the polled write.
LEMMA SmallWriteStep == IInv /\ SmallWrite => IInv'
  <1> SUFFICES ASSUME IInv, SmallWrite PROVE IInv'
    OBVIOUS
  <1>1. thread.pc = "small_write" /\ UNCHANGED <<config, sp, isr, host>>
    BY DEF SmallWrite, At
  <1>2. small
    BY <1>1 DEF IInv, Modes, SmallPcs
  <1>3. CASE Return /\ UNCHANGED dev
    BY <1>1, <1>2, <1>3, ReturnStep
  <1>4. CASE ~(Return /\ UNCHANGED dev)
    BY <1>1, <1>4, SmallGivesStep DEF SmallWrite, SmallGives
  <1>5. QED
    BY <1>3, <1>4

-----------------------------------------------------------------------------
(* The theorems                                                            *)

\* The invariant holds at the start.
LEMMA InitInv == Init => IInv
  <1> SUFFICES ASSUME Init PROVE IInv
    OBVIOUS
  <1>1. /\ config \in Config /\ small \in BOOLEAN /\ clocked \in BOOLEAN
        /\ FifoDepth \in Nat /\ config.rx \in Nat /\ config.tx \in Nat
    BY ConfigsAssumption, ConfigFields DEF Init
  <1>2. BufLen \in Nat /\ BufLen > 1 /\ 0 \in Index /\ <<>> \in Seq(Nat)
    BY BufLenAssumption DEF Index
  <1>3. sp = [timeout |-> IF clocked THEN DefaultTimeout ELSE IntMax,
              irq_enable |-> IF small THEN {} ELSE {"RE"},
              host_inactive |-> 0, rx_in |-> 0, rx_out |-> 0,
              tx_in |-> 0, tx_out |-> 0,
              rx_buf |-> [i \in Index |-> 0], tx_buf |-> [i \in Index |-> 0]]
    BY DEF Init, altera_avalon_jtag_uart_init
  <1>4. dev = [rfifo |-> <<>>, wfifo |-> <<>>, ac |-> FALSE, enable |-> sp.irq_enable]
    BY DEF Init, altera_avalon_jtag_uart_init
  <1>5. /\ sp \in SpType /\ sp.irq_enable = (IF small THEN {} ELSE {"RE"})
        /\ sp.rx_in = 0 /\ sp.rx_out = 0 /\ sp.tx_in = 0 /\ sp.tx_out = 0
    <2>1. (IF clocked THEN DefaultTimeout ELSE IntMax) \in 2 .. IntMax
      BY TimeoutAssumption
    <2>2. 0 \in 0 .. IntMax - 2
      BY TimeoutAssumption
    <2>3. (IF small THEN {} ELSE {"RE"}) \in SUBSET Enables
      BY DEF Enables
    <2>4. [i \in Index |-> 0] \in [Index -> Nat]
      OBVIOUS
    <2>5. QED
      BY <1>2, <1>3, <2>1, <2>2, <2>3, <2>4 DEF SpType
  <1>6. /\ dev \in DevType /\ dev.enable = sp.irq_enable
        /\ dev.rfifo = <<>> /\ dev.wfifo = <<>>
    BY <1>2, <1>4, <1>5 DEF DevType, SpType
  <1>7. /\ thread \in ThreadType /\ thread.pc = "idle" /\ thread.buf = <<>>
        /\ thread.rx = 0 /\ thread.tx = 0 /\ thread.done = 0
    <2>1. "idle" \in Pcs
      BY DEF Pcs
    <2>2. QED
      BY <1>2, <2>1 DEF Init, NoCall, ThreadType
  <1>8. isr \in IsrType /\ isr.pc = "off"
    BY DEF Init, NoIsr, IsrType
  <1>9. host \in HostType /\ host.sent = 0 /\ host.got = 0
    BY DEF Init, HostType
  <1>10. Types
    BY <1>1, <1>5, <1>6, <1>7, <1>8, <1>9 DEF Types
  <1>11. Modes
    BY <1>1, <1>5, <1>6, <1>7, <1>8 DEF Modes, SmallPcs, ReadPcs, WritePcs
  <1>12. RxRun /\ TxRun
    BY <1>7 DEF RxRun, TxRun
  <1>13. /\ Taken = 0 /\ RxHeld = 0 /\ TxHeld = 0
         /\ Len(thread.buf) = 0 /\ Len(dev.rfifo) = 0 /\ Len(dev.wfifo) = 0
         /\ Dist(0, 0) = 0 /\ \A p \in Index : ~(Dist(0, p) < 0)
    <2>1. \A p \in Index : Dist(0, p) \in 0 .. BufLen - 1 /\ Dist(0, 0) = 0
      BY <1>2, DistType
    <2>2. QED
      BY <1>2, <1>5, <1>6, <1>7, <2>1 DEF Taken, RxHeld, TxHeld
  <1>14. /\ Number(config.rx, 0) = 0 /\ Number(config.tx, 0) = 0
    BY <1>1 DEF Number
  <1>15. RxStream
    BY <1>5, <1>7, <1>9, <1>13, <1>14 DEF RxStream
  <1>16. TxStream
    BY <1>5, <1>7, <1>9, <1>13, <1>14 DEF TxStream
  <1>17. Armed
    BY <1>5, <1>6 DEF Armed
  <1>18. QED
    BY <1>10, <1>11, <1>12, <1>15, <1>16, <1>17 DEF IInv

\* A step that changes nothing.
LEMMA StutterStep == IInv /\ UNCHANGED vars => IInv'
  <1> SUFFICES ASSUME IInv, UNCHANGED vars PROVE IInv'
    OBVIOUS
  <1>1. /\ config' = config /\ dev' = dev /\ sp' = sp /\ thread' = thread
        /\ isr' = isr /\ host' = host
    BY DEF vars
  <1>2. Types'
    BY <1>1 DEF IInv, Types
  <1>3. Modes'
    BY <1>1 DEF IInv, Modes, small, FifoDepth
  <1>4. RxRun' /\ RxStream' /\ TxRun' /\ TxStream'
    BY <1>1, RxFrame, TxFrame
  <1>5. Armed'
    BY <1>1 DEF IInv, Armed, small
  <1>6. QED
    BY <1>2, <1>3, <1>4, <1>5 DEF IInv

\* The driver, the interrupt routine, the program and the host keep the
\* invariant at every step.
THEOREM Invariance == Spec => []IInv
  <1>1. IInv /\ [Next]_vars => IInv'
    <2> SUFFICES ASSUME IInv, [Next]_vars PROVE IInv'
      OBVIOUS
    <2>1. CASE Host
      BY <2>1, HostSendsStep, HostTakesStep, HostPollsStep DEF Host
    <2>2. CASE Interrupt
      BY <2>2, InterruptStep
    <2>3. CASE Isr
      BY <2>3, IsrControlStep, IsrRxCharStep, IsrRxEmptyStep, IsrRxFullStep,
         IsrTxCharStep, IsrTxEndStep DEF Isr
    <2>4. CASE altera_avalon_jtag_uart_timeout
      BY <2>4, TimeoutStep
    <2>5. CASE Reading
      BY <2>5, RdLoadStep, RdCopyStep, RdPublishStep, RdWaitStep, RdDoneStep DEF Reading
    <2>6. CASE Writing
      BY <2>6, WrLoadStep, WrCopyStep, WrPublishStep, WrKickStep, WrWaitStep, WrDoneStep
         DEF Writing
    <2>7. CASE altera_avalon_jtag_uart_close \/ SmallRead \/ SmallWrite
      BY <2>7, CloseStep, SmallReadStep, SmallWriteStep
    <2>8. CASE Program
      BY <2>8, ProgramStep
    <2>9. CASE UNCHANGED vars
      BY <2>9, StutterStep
    <2>10. QED
      BY <2>1, <2>2, <2>3, <2>4, <2>5, <2>6, <2>7, <2>8, <2>9 DEF Next, Thread
  <1>2. QED
    BY <1>1, InitInv, PTL DEF Spec

\* The variables of the driver keep their types, and neither FIFO of the core
\* is overrun.
THEOREM TypeCorrect == Spec => []TypeOK
  <1>1. IInv => TypeOK
    <2> SUFFICES ASSUME IInv PROVE TypeOK
      OBVIOUS
    <2>1. /\ Len(dev.wfifo) \in Nat /\ isr.space \in Nat /\ FifoDepth \in Nat
          /\ Len(dev.wfifo) + (IF isr.pc \in {"rx", "tx"} THEN isr.space ELSE 0) <= FifoDepth
      BY Fields, DevFields, IsrFields, ConfigFields DEF IInv, Modes
    <2>2. Len(dev.wfifo) <= FifoDepth
      BY <2>1
    <2>3. dev.enable \in SUBSET Enables
      BY Fields, DevFields
    <2>4. QED
      BY <2>2, <2>3, Fields, SpFields DEF IInv, Modes, TypeOK
  <1>2. QED
    BY <1>1, Invariance, PTL

\* A timeout that is switched off never expires: the count of silent seconds
\* stops short of INT_MAX - 1.
THEOREM NeverExpires == Spec => []NeverMeansNever
  <1>1. IInv => NeverMeansNever
    <2> SUFFICES ASSUME IInv PROVE NeverMeansNever
      OBVIOUS
    <2>1. /\ sp.timeout \in 2 .. IntMax /\ sp.host_inactive \in 0 .. IntMax - 2
          /\ IntMax \in Nat
      BY Fields, SpFields
    <2>2. QED
      BY <2>1 DEF NeverMeansNever, Connected
  <1>2. QED
    BY <1>1, Invariance, PTL

\* No wakeup is lost, wherever the interrupt routine cuts into a call.
THEOREM NoLostWakeup == Spec => []InterruptsArmed
  <1>1. IInv => InterruptsArmed
    <2> SUFFICES ASSUME IInv PROVE InterruptsArmed
      OBVIOUS
    <2>1. /\ RingLen(sp.rx_out, sp.rx_in) = 0 => sp.rx_in = sp.rx_out
      BY Fields, SpFields, RingLenIsDist, DistType
    <2>2. QED
      BY <2>1 DEF IInv, Armed, InterruptsArmed
  <1>2. QED
    BY <1>1, Invariance, PTL

-----------------------------------------------------------------------------
(* The streams                                                             *)

\* The end of a sequence.
LEMMA RestElements ==
  ASSUME NEW s \in Seq(Nat), NEW k \in 0 .. Len(s)
  PROVE  /\ SubSeq(s, k + 1, Len(s)) \in Seq(Nat)
         /\ Len(SubSeq(s, k + 1, Len(s))) = Len(s) - k
         /\ \A i \in 1 .. Len(s) - k : SubSeq(s, k + 1, Len(s))[i] = s[k + i]
  <1>1. SubSeq(s, k + 1, Len(s)) = [i \in 1 .. Len(s) - k |-> s[k + i]]
    OBVIOUS
  <1>2. QED
    BY <1>1

\* What a ring holds, in order.
LEMMA RingElements ==
  ASSUME NEW buf \in [Index -> Nat], NEW out \in Index, NEW in \in Index
  PROVE  /\ Ring(buf, out, in) \in Seq(Nat)
         /\ Len(Ring(buf, out, in)) = Dist(out, in)
         /\ \A i \in 1 .. Dist(out, in) :
              \E p \in Index : Dist(out, p) = i - 1 /\ Ring(buf, out, in)[i] = buf[p]
  <1> DEFINE d == Dist(out, in)
             ring == Ring(buf, out, in)
  <1>1. d \in 0 .. BufLen - 1 /\ d \in Nat /\ BufLen \in Nat /\ BufLen > 1
    BY DistType, BufLenAssumption
  <1>2. ring = [i \in 1 .. d |-> buf[(out + i - 1) % BufLen]]
    BY RingLenIsDist DEF Ring
  <1>3. ASSUME NEW i \in 1 .. d
        PROVE  /\ (out + i - 1) % BufLen \in Index
               /\ Dist(out, (out + i - 1) % BufLen) = i - 1
    <2> DEFINE x == out + i - 1
               p == x % BufLen
    <2>1. out \in 0 .. BufLen - 1
      BY DEF Index
    <2>2. x \in 0 .. 2 * BufLen - 1
      BY <1>1, <2>1
    <2>3. p = IF x < BufLen THEN x ELSE x - BufLen
      BY <2>2, RingMod
    <2> HIDE DEF p
    <2>4. p \in Index /\ Dist(out, p) = i - 1
      BY <1>1, <2>1, <2>3 DEF Index, Dist
    <2>5. QED
      BY <2>4 DEF p
  <1>4. ring \in [1 .. d -> Nat]
    BY <1>2, <1>3
  <1>5. ring \in Seq(Nat) /\ Len(ring) = d
    BY <1>1, <1>4, ArraySequence
  <1>6. ASSUME NEW i \in 1 .. d
        PROVE  \E p \in Index : Dist(out, p) = i - 1 /\ ring[i] = buf[p]
    <2>1. ring[i] = buf[(out + i - 1) % BufLen]
      BY <1>2
    <2>2. QED
      BY <1>3, <2>1
  <1>7. QED
    BY <1>5, <1>6

\* The characters received, put together.
LEMMA Received == IInv => ReceivedIntact
  <1> SUFFICES ASSUME IInv PROVE ReceivedIntact
    OBVIOUS
  <1> DEFINE N(i) == Number(config.rx, i)
             b == Len(thread.buf)
             ring == Ring(sp.rx_buf, sp.rx_out, sp.rx_in)
             rest == IF thread.pc = "rd_publish"
                     THEN SubSeq(ring, thread.n + 1, Len(ring)) ELSE ring
             D == Dist(sp.rx_out, sp.rx_in)
  <1>1. /\ sp.rx_out \in Index /\ sp.rx_in \in Index /\ sp.rx_buf \in [Index -> Nat]
    BY Fields, SpFields
  <1>2. /\ thread.buf \in Seq(Nat) /\ b \in Nat /\ thread.rx \in Nat
        /\ dev.rfifo \in Seq(Nat) /\ Len(dev.rfifo) \in Nat
    BY Fields, ThreadFields, DevFields
  <1>3. /\ ring \in Seq(Nat) /\ Len(ring) = D /\ D \in Nat
        /\ \A i \in 1 .. D :
             \E p \in Index : Dist(sp.rx_out, p) = i - 1 /\ ring[i] = sp.rx_buf[p]
    <2>1. D \in Nat
      BY <1>1, Fields, DistType
    <2>2. QED
      BY <1>1, <2>1, RingElements
  <1>4. Taken \in Nat /\ RxHeld \in Nat /\ RxHeld = D - Taken /\ Taken \in 0 .. D
    <2>1. Taken \in Nat /\ RxHeld \in Nat /\ RxHeld = D - Taken
      BY HeldTypes DEF RxHeld
    <2>2. QED
      BY <1>3, <2>1
  <1> HIDE DEF ring, D
  <1>5. /\ rest \in Seq(Nat) /\ Len(rest) = RxHeld
        /\ \A i \in 1 .. RxHeld : rest[i] = ring[Taken + i]
    <2>1. CASE thread.pc = "rd_publish"
      <3>1. Taken = thread.n /\ thread.n \in 0 .. Len(ring)
        BY <1>3, <1>4, <2>1 DEF Taken
      <3>2. rest = SubSeq(ring, thread.n + 1, Len(ring))
        BY <2>1
      <3> HIDE DEF rest
      <3>3. QED
        BY <1>3, <1>4, <3>1, <3>2, RestElements
    <2>2. CASE thread.pc # "rd_publish"
      <3>1. Taken = 0 /\ rest = ring
        BY <2>2 DEF Taken
      <3> HIDE DEF rest
      <3>2. QED
        BY <1>3, <1>4, <3>1
    <2>3. QED
      BY <2>1, <2>2
  <1>6. ASSUME NEW i \in 1 .. RxHeld
        PROVE  rest[i] = N(thread.rx + b + i - 1)
    <2>1. Taken + i \in 1 .. D
      BY <1>3, <1>4
    <2> DEFINE k == Taken + i
    <2>a. k \in 1 .. D
      BY <2>1
    <2> HIDE DEF k
    <2>b. PICK p \in Index : Dist(sp.rx_out, p) = k - 1 /\ ring[k] = sp.rx_buf[p]
      BY <2>a, <1>3
    <2>2. k = Taken + i /\ k \in Nat
      BY <2>a, <1>4 DEF k
    <2>3. Dist(sp.rx_out, p) >= Taken /\ Dist(sp.rx_out, p) < D
      <3>1. D \in Nat /\ Taken \in Nat
        BY <1>3, <1>4
      <3>2. QED
        BY <3>1, <2>a, <2>b, <2>2
    <2>4. sp.rx_buf[p] = N(thread.rx + b + Dist(sp.rx_out, p) - Taken)
      BY <2>3 DEF IInv, RxStream, D
    <2>5. thread.rx + b + Dist(sp.rx_out, p) - Taken = thread.rx + b + i - 1
      BY <1>2, <1>4, <2>b, <2>2
    <2>6. QED
      BY <1>5, <2>b, <2>2, <2>4, <2>5
  <1> DEFINE head == thread.buf \o rest
             all == head \o dev.rfifo
  <1> HIDE DEF rest
  <1>7. /\ head \in Seq(Nat) /\ Len(head) = b + RxHeld
        /\ \A i \in 1 .. b + RxHeld :
             head[i] = IF i <= b THEN thread.buf[i] ELSE rest[i - b]
    BY <1>2, <1>5, ConcatElements
  <1> DEFINE h == b + RxHeld
             f == Len(dev.rfifo)
  <1>a. b \in Nat /\ RxHeld \in Nat /\ h \in Nat /\ f \in Nat /\ thread.rx \in Nat
    BY <1>2, <1>4
  <1> HIDE DEF head, b
  <1>8. /\ Len(all) = h + f
        /\ \A i \in 1 .. h + f :
             all[i] = IF i <= h THEN head[i] ELSE dev.rfifo[i - h]
    <2>1. head \in Seq(Nat) /\ dev.rfifo \in Seq(Nat) /\ Len(head) = h
      BY <1>2, <1>7
    <2> HIDE DEF h
    <2>2. QED
      BY <2>1, ConcatElements
  <1> HIDE DEF f
  <1> HIDE DEF all
  <1>9. ASSUME NEW i \in 1 .. Len(all)
        PROVE  all[i] = N(thread.rx + i - 1)
    <2>1. i \in Nat /\ i >= 1 /\ i <= b + RxHeld + f /\ i \in 1 .. h + f
      BY <1>a, <1>8
    <2>2. CASE i <= b
      <3>1. all[i] = thread.buf[i]
        BY <1>a, <1>7, <1>8, <2>1, <2>2
      <3>2. i \in 1 .. b
        BY <1>a, <2>1, <2>2
      <3>3. QED
        BY <3>1, <3>2 DEF IInv, RxStream, b
    <2>3. CASE i > b /\ i <= b + RxHeld
      <3>a. i \in 1 .. b + RxHeld /\ i <= h /\ ~(i <= b) /\ i - b \in 1 .. RxHeld
        BY <1>a, <2>1, <2>3
      <3>b. all[i] = head[i]
        BY <1>8, <2>1, <3>a
      <3>1. all[i] = rest[i - b] /\ i - b \in 1 .. RxHeld
        BY <1>7, <3>a, <3>b
      <3>2. thread.rx + b + (i - b) - 1 = thread.rx + i - 1
        BY <1>a, <2>1
      <3>3. QED
        BY <1>6, <3>1, <3>2
    <2>4. CASE i > b + RxHeld
      <3>a. ~(i <= h)
        BY <1>a, <2>1, <2>4
      <3>1. all[i] = dev.rfifo[i - (b + RxHeld)]
        BY <1>8, <2>1, <3>a
      <3>b. i - (b + RxHeld) \in 1 .. f
        BY <1>a, <2>1, <2>4
      <3>2. i - (b + RxHeld) \in 1 .. Len(dev.rfifo)
        BY <3>b DEF f
      <3>3. dev.rfifo[i - (b + RxHeld)] = N(thread.rx + b + RxHeld + (i - (b + RxHeld)) - 1)
        BY <3>2 DEF IInv, RxStream, b
      <3>4. thread.rx + b + RxHeld + (i - (b + RxHeld)) - 1 = thread.rx + i - 1
        BY <1>a, <2>1
      <3>5. QED
        BY <3>1, <3>3, <3>4
    <2>5. QED
      BY <1>a, <2>1, <2>2, <2>3, <2>4
  <1>10. host.sent = N(thread.rx + Len(all))
    <2>1. host.sent = N(thread.rx + b + RxHeld + f)
      BY DEF IInv, RxStream, b, f
    <2>2. thread.rx + Len(all) = thread.rx + b + RxHeld + f
      BY <1>a, <1>8
    <2>3. QED
      BY <2>1, <2>2
  <1>11. /\ \A i \in 1 .. Len(all) : all[i] = RxNumber(thread.rx + i - 1)
         /\ host.sent = RxNumber(thread.rx + Len(all))
    BY <1>9, <1>10 DEF RxNumber, Number
  <1>12. QED
    BY <1>11 DEF ReceivedIntact, Numbered, all, head, rest, ring

\* The characters handed over, put together.
LEMMA Sent == IInv => SentIntact
  <1> SUFFICES ASSUME IInv PROVE SentIntact
    OBVIOUS
  <1> DEFINE N(i) == Number(config.tx, i)
             l == Len(dev.wfifo)
             ring == Ring(sp.tx_buf, sp.tx_out, sp.tx_in)
             all == dev.wfifo \o ring
  <1>1. /\ sp.tx_out \in Index /\ sp.tx_in \in Index /\ sp.tx_buf \in [Index -> Nat]
    BY Fields, SpFields
  <1>2. dev.wfifo \in Seq(Nat) /\ l \in Nat /\ host.got \in Nat
    BY Fields, DevFields
  <1>3. TxHeld \in Nat
    BY HeldTypes, Fields
  <1>4. /\ ring \in Seq(Nat) /\ Len(ring) = TxHeld
        /\ \A i \in 1 .. TxHeld :
             \E p \in Index : Dist(sp.tx_out, p) = i - 1 /\ ring[i] = sp.tx_buf[p]
    BY <1>1, RingElements DEF TxHeld
  <1> HIDE DEF ring
  <1>5. /\ Len(all) = l + TxHeld
        /\ \A i \in 1 .. l + TxHeld :
             all[i] = IF i <= l THEN dev.wfifo[i] ELSE ring[i - l]
    BY <1>2, <1>4, ConcatElements
  <1> HIDE DEF all, l
  <1>6. ASSUME NEW i \in 1 .. Len(all)
        PROVE  all[i] = N(host.got + i - 1)
    <2>1. i \in Nat /\ i >= 1 /\ i <= l + TxHeld
      BY <1>2, <1>3, <1>5
    <2>2. CASE i <= l
      <3>1. all[i] = dev.wfifo[i] /\ i \in 1 .. l
        BY <1>2, <1>3, <1>5, <2>1, <2>2
      <3>2. QED
        BY <3>1 DEF IInv, TxStream, l
    <2>3. CASE i > l
      <3>1. all[i] = ring[i - l] /\ i - l \in 1 .. TxHeld
        BY <1>2, <1>3, <1>5, <2>1, <2>3
      <3>2. PICK p \in Index : Dist(sp.tx_out, p) = (i - l) - 1 /\ ring[i - l] = sp.tx_buf[p]
        BY <1>4, <3>1
      <3>3. Dist(sp.tx_out, p) < TxHeld
        BY <1>2, <1>3, <2>1, <3>1, <3>2
      <3>4. sp.tx_buf[p] = N(host.got + l + Dist(sp.tx_out, p))
        BY <3>3 DEF IInv, TxStream, l
      <3>5. host.got + l + Dist(sp.tx_out, p) = host.got + i - 1
        BY <1>2, <2>1, <3>2
      <3>6. QED
        BY <3>1, <3>2, <3>4, <3>5
    <2>4. QED
      BY <1>2, <2>1, <2>2, <2>3
  <1>7. N(thread.tx + thread.done) = N(host.got + Len(all))
    <2>1. N(thread.tx + thread.done) = N(host.got + l + TxHeld)
      BY DEF IInv, TxStream, l
    <2>2. host.got + Len(all) = host.got + l + TxHeld
      BY <1>2, <1>3, <1>5
    <2>3. QED
      BY <2>1, <2>2
  <1>8. /\ \A i \in 1 .. Len(all) : all[i] = TxNumber(host.got + i - 1)
        /\ TxNumber(thread.tx + thread.done) = TxNumber(host.got + Len(all))
    BY <1>6, <1>7 DEF TxNumber, Number
  <1>9. QED
    BY <1>8 DEF SentIntact, Numbered, all, ring

\* No character is lost, repeated or overtaken between the host and the
\* program, for rings and FIFOs of any size, wherever the interrupt routine
\* cuts into a read or a write and whenever a write gives up.
THEOREM StreamsStayIntact == Spec => []StreamsIntact
  <1>1. IInv => StreamsIntact
    BY Received, Sent DEF StreamsIntact
  <1>2. QED
    BY <1>1, Invariance, PTL

=============================================================================
