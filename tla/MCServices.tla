----------------------------- MODULE MCServices -----------------------------
(***************************************************************************)
(* The services of the HAL and the software encryption, for model          *)
(* checking.  They do not call each other: a behaviour exercises the one   *)
(* that "which" names, and the variables of the others hold Off.           *)
(***************************************************************************)
EXTENDS AltAlarm, Sequences

CONSTANTS
  NIRQ, Isrs, NULL,                                      \* AltIrq
  Functions, Callers, InterruptFns, HeapLimit, Align,    \* AltHeap
  Increments, StackPointer, Slab, EntrySize, TextSize, BucketSize,
  US, WordMod, ClockRates, Seconds, Micros, Zones, MaxTicks, LoopRates,    \* AltTime
  WordBase, WordDigits, EchoLen,                         \* AltText
  FifoSize, MessageLen, LogRates, Divisor, MaxMessages, MaxLogTicks,    \* AltLog
  MemSize, LineSize, CacheSize, BlockSize,               \* AltFlash, AltDma
  Start, Length, DmaMemory,
  IntMod, Numbers, Messages,                             \* RsaSoftware
  Off

VARIABLES
  which,
  table, active, priorities, ienable, irq_pie, lines, exception, stack,
  heap, slab, lists, sampler, heap_pie, frame, ghost,
  tick_rate, ticks, resettime, timezone, told,
  call, pos, args, state, fmtv, out,
  level, clock, beat, report, fifo, printing, record,
  flushda, mem, dcache, icache, flash,
  initda, channel, alias, phase, want,
  step, key, text

ASSUME IrqAssumption == NIRQ \in Nat

\* Memory is asked for, not given back; a slab is a whole number of words and
\* has room for an entry.
ASSUME HeapAssumption ==
  /\ HeapLimit \in Nat /\ StackPointer \in Nat \ {0}
  /\ Align \in Nat \ {0} /\ Increments \subseteq Nat
  /\ Slab \in Nat /\ Slab % Align = 0
  /\ EntrySize \in Nat /\ EntrySize <= Slab
  /\ TextSize \in Nat /\ BucketSize \in Nat \ {0}

\* The program sets times whose microseconds are less than a second; a
\* microsecond takes a round of the waiting loop or more, and fewer than INT_MAX.
ASSUME TimeAssumption ==
  /\ US \in Nat \ {0} /\ Micros \subseteq 0 .. US - 1 /\ Seconds \subseteq Int
  /\ ClockRates \subseteq Nat /\ WordMod \in Nat \ 0 .. 3
  /\ LoopRates \subseteq 1 .. (WordMod \div 2) - 1

\* Messages have characters, and the UART has room for one.
ASSUME LogAssumption ==
  /\ FifoSize \in Nat \ {0} /\ MessageLen \in Nat \ {0}
  /\ LogRates \subseteq Nat \ {0} /\ Divisor \in Nat \ {0}

-----------------------------------------------------------------------------
(* Constants that are not plain values                                     *)

ContextOf == [r \in Isrs |-> r]

\* Two sections to copy, which meet in a cache line, and one that is in place.
Sections == <<[from |-> 0, to |-> 6, end |-> 9], [from |-> 3, to |-> 9, end |-> 11],
              [from |-> 5, to |-> 5, end |-> 6]>>

Text == INSTANCE AltText WITH Formats <- {}

\* One number with each conversion, no width or one that pads most numbers, and
\* one format that has every other case.
Numbered(proc, fmt, conversion, width) ==
  {[proc |-> proc, fmt |-> <<Text!Other, Text!Percent>> \o fmt \o <<conversion, Text!Other>>,
    args |-> <<v>>, number |-> <<conversion, width>>] : v \in 0 .. Text!WordSize - 1}

Integral == {Text!CharD, Text!CharU, Text!CharO, Text!CharX}

Formats ==
  UNION {Numbered("alt_log_printf", <<>>, k, 0) : k \in Integral}
  \cup UNION {Numbered("alt_log_printf", <<0, 5>>, k, 5) : k \in Integral}
  \cup UNION {Numbered("alt_log_printf", <<1, 0, Text!Dot, 2, Text!Long>>, k, 10) : k \in Integral}
  \cup Numbered("alt_printf", <<>>, Text!CharX, 0)
  \cup {[proc |-> proc, args |-> <<<<Text!Other, Text!Other>>, Text!Other>>, number |-> <<>>,
         fmt |-> <<Text!Percent, Text!CharS, Text!Percent, Text!Percent, Text!Percent,
                   Text!Unknown, Text!Percent, Text!CharC, Text!Percent>>] :
          proc \in {"alt_printf", "alt_log_printf"}}

-----------------------------------------------------------------------------

Irqs == INSTANCE AltIrq
Heap == INSTANCE AltHeap
Time == INSTANCE AltTime
Printf == INSTANCE AltText
Log == INSTANCE AltLog
Flash == INSTANCE AltFlash
Dma == INSTANCE AltDma WITH MemSize <- DmaMemory
Soft == INSTANCE RsaSoftware

irqVars == <<table, active, priorities, ienable, irq_pie, lines, exception, stack>>
heapVars == <<heap, slab, lists, sampler, heap_pie, frame, ghost>>
timeVars == <<tick_rate, ticks, resettime, timezone, told>>
textVars == <<call, pos, args, state, fmtv, out>>
logVars == <<level, clock, beat, report, fifo, printing, record>>
cacheVars == <<flushda, mem, dcache>>
flashVars == <<icache, flash>>
dmaVars == <<initda, channel, alias, phase, want>>
memoryVars == <<cacheVars, flashVars, dmaVars>>
softVars == <<step, key, text>>

vars == <<which, alarmVars, irqVars, heapVars, timeVars, textVars, logVars, memoryVars,
          softVars>>

AlarmOff ==
  /\ careful = Off /\ rate = Off /\ nticks = Off /\ alarm = Off /\ link = Off
  /\ pie = Off /\ thread = Off /\ isr = Off /\ wait = Off
IrqOff ==
  /\ table = Off /\ active = Off /\ priorities = Off /\ ienable = Off
  /\ irq_pie = Off /\ lines = Off /\ exception = Off /\ stack = Off
HeapOff ==
  /\ heap = Off /\ slab = Off /\ lists = Off /\ sampler = Off
  /\ heap_pie = Off /\ frame = Off /\ ghost = Off
TimeOff == tick_rate = Off /\ ticks = Off /\ resettime = Off /\ timezone = Off /\ told = Off
TextOff == call = Off /\ pos = Off /\ args = Off /\ state = Off /\ fmtv = Off /\ out = Off
LogOff ==
  /\ level = Off /\ clock = Off /\ beat = Off /\ report = Off
  /\ fifo = Off /\ printing = Off /\ record = Off
CacheOff == flushda = Off /\ mem = Off /\ dcache = Off
FlashOff == icache = Off /\ flash = Off
DmaOff == initda = Off /\ channel = Off /\ alias = Off /\ phase = Off /\ want = Off
SoftOff == step = Off /\ key = Off /\ text = Off

MCInit ==
  /\ which \in {"alarm", "irq", "heap", "time", "text", "log", "flash", "dma", "software"}
  /\ IF which = "alarm" THEN Init ELSE AlarmOff
  /\ IF which = "irq" THEN Irqs!Init ELSE IrqOff
  /\ IF which = "heap" THEN Heap!Init ELSE HeapOff
  /\ IF which = "time" THEN Time!Init ELSE TimeOff
  /\ IF which = "text" THEN Printf!Init ELSE TextOff
  /\ IF which = "log" THEN Log!Init ELSE LogOff
  /\ IF which = "flash" THEN Flash!Init ELSE FlashOff
  /\ IF which = "dma" THEN Dma!Init ELSE DmaOff
  /\ which \notin {"flash", "dma"} => CacheOff
  /\ IF which = "software" THEN Soft!Init ELSE SoftOff

MCNext ==
  \/ /\ which = "alarm" /\ Next
     /\ UNCHANGED <<which, irqVars, heapVars, timeVars, textVars, logVars, memoryVars,
                    softVars>>
  \/ /\ which = "irq" /\ Irqs!Next
     /\ UNCHANGED <<which, alarmVars, heapVars, timeVars, textVars, logVars, memoryVars,
                    softVars>>
  \/ /\ which = "heap" /\ Heap!Next
     /\ UNCHANGED <<which, alarmVars, irqVars, timeVars, textVars, logVars, memoryVars,
                    softVars>>
  \/ /\ which = "time" /\ Time!Next
     /\ UNCHANGED <<which, alarmVars, irqVars, heapVars, textVars, logVars, memoryVars,
                    softVars>>
  \/ /\ which = "text" /\ Printf!Next
     /\ UNCHANGED <<which, alarmVars, irqVars, heapVars, timeVars, logVars, memoryVars,
                    softVars>>
  \/ /\ which = "log" /\ Log!Next
     /\ UNCHANGED <<which, alarmVars, irqVars, heapVars, timeVars, textVars, memoryVars,
                    softVars>>
  \/ /\ which = "flash" /\ Flash!Next
     /\ UNCHANGED <<which, alarmVars, irqVars, heapVars, timeVars, textVars, logVars,
                    dmaVars, softVars>>
  \/ /\ which = "dma" /\ Dma!Next
     /\ UNCHANGED <<which, alarmVars, irqVars, heapVars, timeVars, textVars, logVars,
                    flashVars, softVars>>
  \/ /\ which = "software" /\ Soft!Next
     /\ UNCHANGED <<which, alarmVars, irqVars, heapVars, timeVars, textVars, logVars,
                    memoryVars>>

\* The fairness of AltAlarm: the processor goes on in the interrupt, or in the
\* program, until it is done.
MCProcessor ==
  /\ which = "alarm" /\ Processor
  /\ UNCHANGED <<which, irqVars, heapVars, timeVars, textVars, logVars, memoryVars,
                 softVars>>

MCSpec == MCInit /\ [][MCNext]_vars /\ WF_vars(MCProcessor)

-----------------------------------------------------------------------------

\* The ring of running alarms is never broken, whatever interrupts alt_alarm_start
\* and alt_alarm_stop.
AlarmList == which = "alarm" => ListIntact

\* An alarm is called in the tick it is due, across the wrap of the 32-bit clock.
AlarmOnTime == which = "alarm" => OnTime

\* Every tick of the clock ends.
AlarmTickEnds ==
  (which = "alarm" /\ careful /\ isr.pc = "walk") ~> (which = "alarm" /\ isr.pc = "idle")

\* An interrupt that comes during a registration finds no handler that is NULL
\* or has the context of another (alt_irq_register).
IrqHandlerMatches == which = "irq" => Irqs!HandlerMatches

\* Interrupt routines nest by priority and leave the enabled lines as they were
\* (alt_irq_interruptible, alt_irq_non_interruptible).
IrqNestingKept == which = "irq" => Irqs!NestingKept

\* sbrk and the slabs of mcount hand no memory out twice, and no memory of the
\* stack unreported.
HeapMemoryKept == which = "heap" => Heap!MemoryKept

\* No arc that __mcount_record recorded is lost to an interrupt.
HeapArcsKept == which = "heap" => Heap!ArcsKept

\* gettimeofday returns what settimeofday set, for the first 2^32 microseconds,
\* and usleep never returns early.
TimeKept == which = "time" => Time!TimeKept

\* Numbers printed by alt_printf and alt_log_printf read back, at any width, and
\* the echo of alt_log_write sends no control-D; the log of an interrupt loses no
\* character, and the program's only to an interrupt; the heartbeat keeps time.
TextFaithful ==
  /\ which = "text" => Printf!TextFaithful
  /\ which = "log" => Log!LogFaithful

\* Neither cache holds what the flash or the loaded program no longer is, and
\* program and device see the same of a buffer they share by DMA.
CachesCoherent ==
  /\ which = "flash" => Flash!MemoryCoherent
  /\ which = "dma" => Dma!BufferCoherent

\* With a good key the software encryption decrypts what it encrypted.
SoftwareRoundTrip == which = "software" => Soft!SoftwareRoundTrip

=============================================================================
