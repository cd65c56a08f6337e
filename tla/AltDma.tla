------------------------------- MODULE AltDma -------------------------------
(***************************************************************************)
(* A buffer that the program shares with a DMA device, through the         *)
(* channels of HAL/inc/sys/alt_dma.h (opened by alt_dma_txchan_open.c and  *)
(* alt_dma_rxchan_open.c) and the uncached aliases of                      *)
(* alt_remap_uncached.c, alt_remap_cached.c, alt_uncached_malloc.c and     *)
(* alt_uncached_free.c.                                                    *)
(*                                                                         *)
(* The driver of the channel and the program are external.  The program    *)
(* flushes a cached buffer before it hands it to the device, and drops     *)
(* what the cache holds of it when the device is done.  The buffer owns    *)
(* the cache lines it is in.                                               *)
(***************************************************************************)
EXTENDS AltCache

CONSTANTS
  Start, Length    \* the buffer; its start need not be aligned

VARIABLES
  flushda,    \* NIOS2_FLUSHDA_SUPPORTED; chosen at the start
  initda,     \* NIOS2_INITDA_SUPPORTED; chosen at the start
  mem,        \* the memory
  dcache,     \* the line each index of the data cache holds, or none
  channel,    \* the channels that are listed, and those the program has a handle of
  alias,      \* how the program reaches the buffer: cached, uncached or not at all
  phase,      \* who has the buffer
  want        \* ghost: what was last written to the buffer, by either side

dmaVars == <<flushda, initda, mem, dcache, channel, alias, phase, want>>

Buffer == Start .. Start + Length - 1
Channels == {"tx", "rx"}
Bit == {0, 1}

Store == [mem |-> mem, dcache |-> dcache]
Becomes(s) == mem' = s.mem /\ dcache' = s.dcache
Flush(start) == alt_dcache_flush(flushda, Store, start, Length)

Init ==
  /\ flushda \in BOOLEAN /\ initda \in BOOLEAN
  /\ mem = [a \in Address |-> 0]
  /\ dcache = [i \in Indices |-> None]
  /\ channel = [listed |-> {}, open |-> {}]
  /\ alias = "none" /\ phase = "own"
  /\ want = [a \in Buffer |-> 0]

-----------------------------------------------------------------------------
(* Allocation and aliases                                                  *)

\* Whoever had the memory before wrote to it through the cache.
EarlierOwner ==
  /\ alias = "none"
  /\ \E a \in Buffer, v \in Bit : Becomes(Stored(Store, a, v))
  /\ UNCHANGED <<flushda, initda, channel, alias, phase, want>>

\* Plain malloc; the program fills the buffer.
Malloc ==
  /\ alias = "none"
  /\ Becomes(FoldLeft(LAMBDA t, a : Stored(t, a, 0), Store, [k \in 1 .. Length |-> Start + k - 1]))
  /\ want' = [a \in Buffer |-> 0]
  /\ alias' = "cached"
  /\ UNCHANGED <<flushda, initda, channel, phase>>

\* The flush comes first, of address 0 where malloc failed.
alt_uncached_malloc ==
  /\ alias = "none"
  /\ \/ Becomes(Flush(0)) /\ UNCHANGED <<alias, want>>
     \/ /\ Becomes(Flush(Start))
        /\ alias' = "uncached"
        /\ want' = [a \in Buffer |-> mem'[a]]
  /\ UNCHANGED <<flushda, initda, channel, phase>>

alt_uncached_free ==
  /\ alias = "uncached" /\ phase = "own"
  /\ alias' = "none"
  /\ UNCHANGED <<flushda, initda, mem, dcache, channel, phase, want>>

alt_remap_uncached ==
  /\ alias = "cached" /\ phase = "own"
  /\ Becomes(Flush(Start))
  /\ alias' = "uncached"
  /\ UNCHANGED <<flushda, initda, channel, phase, want>>

\* No flush: while the buffer was uncached the cache held nothing of it.
alt_remap_cached ==
  /\ alias = "uncached" /\ phase = "own"
  /\ alias' = "cached"
  /\ UNCHANGED <<flushda, initda, mem, dcache, channel, phase, want>>

-----------------------------------------------------------------------------
(* The program's accesses                                                  *)

Write ==
  /\ alias # "none" /\ phase = "own"
  /\ \E a \in Buffer, v \in Bit :
       /\ want' = [want EXCEPT ![a] = v]
       /\ IF alias = "cached" THEN Becomes(Stored(Store, a, v))
          ELSE mem' = [mem EXCEPT ![a] = v] /\ UNCHANGED dcache
  /\ UNCHANGED <<flushda, initda, channel, alias, phase>>

\* Reads replace lines of the cache: of other memory at any time, of a cached
\* buffer while it is the program's or the device reads it too.  A program that
\* looks at a buffer the device may fill needs initda.
Read ==
  /\ \E a \in Address :
       /\ Line(a) \in {Line(b) : b \in Buffer} =>
            /\ alias = "cached"
            /\ phase \in {"own", "sending"} \/ (phase \in {"flushed", "receiving"} /\ initda)
       /\ Becomes(Fetched(Store, a))
  /\ UNCHANGED <<flushda, initda, channel, alias, phase, want>>

FlushBuffer ==
  /\ alias = "cached" /\ phase = "own"
  /\ Becomes(Flush(Start))
  /\ phase' = "flushed"
  /\ UNCHANGED <<flushda, initda, channel, alias, want>>

DropBuffer ==
  /\ phase = "arrived"
  /\ Becomes(IF alias = "cached"
             THEN alt_dcache_flush_no_writeback(initda, Store, Start, Length) ELSE Store)
  /\ phase' = "own"
  /\ UNCHANGED <<flushda, initda, channel, alias, want>>

-----------------------------------------------------------------------------
(* Channels                                                                *)

\* alt_dma_txchan_reg and alt_dma_rxchan_reg
Register(c) ==
  /\ channel' = [channel EXCEPT !.listed = @ \cup {c}]
  /\ UNCHANGED <<flushda, initda, mem, dcache, alias, phase, want>>

\* NULL, and ENODEV, while the channel is not listed.  Closing does nothing.
Open(c) ==
  /\ c \in channel.listed
  /\ channel' = [channel EXCEPT !.open = @ \cup {c}]
  /\ UNCHANGED <<flushda, initda, mem, dcache, alias, phase, want>>

\* What a call of the channel may return: the driver takes it, or has no room.
Results(c) == IF c \in channel.open THEN {"taken", "full"} ELSE {"ENODEV"}

\* alt_dma_txchan_send and alt_dma_rxchan_prepare
HandOver(c, to) ==
  /\ phase = IF alias = "cached" THEN "flushed" ELSE "own"
  /\ alias # "none"
  /\ \E r \in Results(c) : phase' = IF r = "taken" THEN to ELSE "own"
  /\ UNCHANGED <<flushda, initda, mem, dcache, channel, alias, want>>

alt_dma_txchan_send == HandOver("tx", "sending")
alt_dma_rxchan_prepare == HandOver("rx", "receiving")

\* The device writes the memory, and calls back when it is done.
DeviceWrites ==
  /\ phase = "receiving"
  /\ \E a \in Buffer, v \in Bit :
       mem' = [mem EXCEPT ![a] = v] /\ want' = [want EXCEPT ![a] = v]
  /\ UNCHANGED <<flushda, initda, dcache, channel, alias, phase>>

Done ==
  /\ phase \in {"sending", "receiving"}
  /\ phase' = IF phase = "sending" THEN "own" ELSE "arrived"
  /\ UNCHANGED <<flushda, initda, mem, dcache, channel, alias, want>>

Next ==
  \/ EarlierOwner \/ Malloc \/ alt_uncached_malloc \/ alt_uncached_free
  \/ alt_remap_uncached \/ alt_remap_cached
  \/ Write \/ Read \/ FlushBuffer \/ DropBuffer
  \/ \E c \in Channels : Register(c) \/ Open(c)
  \/ alt_dma_txchan_send \/ alt_dma_rxchan_prepare \/ DeviceWrites \/ Done

Spec == Init /\ [][Next]_dmaVars

-----------------------------------------------------------------------------

\* What the program reads of the buffer through the alias it has.
Seen(a) == IF alias = "cached" THEN ValueAt(Store, a) ELSE mem[a]

\* While the device has the buffer the memory, which is all a device sees, holds
\* what was written last, and no line of the cache will be written over it.
\* While the program has it the program reads what was written last.
BufferCoherent ==
  alias # "none" =>
    \A a \in Buffer :
      IF phase = "own" THEN Seen(a) = want[a]
      ELSE /\ mem[a] = want[a]
           /\ dcache[Index(a)].line = Line(a) => ~dcache[Index(a)].dirty

=============================================================================
