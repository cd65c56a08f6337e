------------------------------ MODULE AltFlash ------------------------------
(***************************************************************************)
(* Memory behind the caches of the processor: the loader that copies the   *)
(* program to RAM (HAL/src/alt_load.c) and the flash device                *)
(* (HAL/inc/sys/alt_flash.h, HAL/src/alt_flash_dev.c), which both rely on  *)
(* the flushes of AltCache.  The flash driver is external.                 *)
(***************************************************************************)
EXTENDS AltCache

CONSTANTS
  BlockSize,    \* the size of a flash block
  Sections      \* from, to and end of the sections alt_load copies

VARIABLES
  flushda,    \* NIOS2_FLUSHDA_SUPPORTED; chosen at the start
  mem,        \* the lower half is flash, the upper half is RAM
  dcache,     \* the line each index of the data cache holds, or none
  icache,     \* the same for the instruction cache
  flash       \* the device: whether it is listed and open, and whether it failed

flashVars == <<flushda, mem, dcache, icache, flash>>

FlashEnd == MemSize \div 2

-----------------------------------------------------------------------------
(* alt_load                                                                *)

\* Words are copied one by one, through the data cache.
alt_load_section(s, from, to, end) ==
  IF to = from THEN s
  ELSE FoldLeft(LAMBDA t, k : Stored(t, to + k, ValueAt(t, from + k)), s,
                [k \in 1 .. end - to |-> k - 1])

alt_load ==
  /\ flash = "boot"
  /\ LET s == FoldLeft(LAMBDA t, x : alt_load_section(t, x.from, x.to, x.end),
                       [mem |-> mem, dcache |-> dcache], Sections)
         t == alt_dcache_flush_all(s)
     IN  mem' = t.mem /\ dcache' = t.dcache
  /\ icache' = alt_icache_flush_all(icache)
  /\ flash' = "unlisted"
  /\ UNCHANGED flushda

\* The caches come out of reset empty (crt0.S); the first instructions run from
\* the RAM that is loaded afterwards, or not.
Init ==
  /\ flushda \in BOOLEAN
  /\ mem = [a \in Address |-> IF a < FlashEnd THEN a % 2 ELSE 2]
  /\ dcache = [i \in Indices |-> None]
  /\ icache \in {[i \in Indices |-> None],
                 [i \in Indices |-> [line |-> Line(FlashEnd) + i, dirty |-> FALSE,
                                     data |-> Contents(mem, Line(FlashEnd) + i)]]}
  /\ flash = "boot"

-----------------------------------------------------------------------------
(* The program                                                             *)

ReadData ==
  /\ flash \in {"unlisted", "closed", "open"}
  /\ \E a \in Address : LET s == Fetched([mem |-> mem, dcache |-> dcache], a)
                        IN  mem' = s.mem /\ dcache' = s.dcache
  /\ UNCHANGED <<flushda, icache, flash>>

FetchInstruction ==
  /\ flash \in {"unlisted", "closed", "open"}
  /\ \E a \in FlashEnd .. MemSize - 1 :
       icache' = IF icache[Index(a)].line = Line(a) THEN icache
                 ELSE [icache EXCEPT ![Index(a)] =
                        [line |-> Line(a), data |-> Contents(mem, Line(a)), dirty |-> FALSE]]
  /\ UNCHANGED <<flushda, mem, dcache, flash>>

\* The driver lists its device.
alt_flash_device_register ==
  /\ flash = "unlisted"
  /\ flash' = "closed"
  /\ UNCHANGED <<flushda, mem, dcache, icache>>

\* NULL while the device is not listed
alt_flash_open_dev ==
  /\ flash = "closed"
  /\ flash' = "open"
  /\ UNCHANGED <<flushda, mem, dcache, icache>>

alt_flash_close_dev ==
  /\ flash = "open"
  /\ flash' = "closed"
  /\ UNCHANGED <<flushda, mem, dcache, icache>>

\* The driver changes len bytes from start, not through the cache.  Only after
\* a success are they flushed; a driver that fails may have changed some.
Changes(start, len, Value(_), ok) ==
  /\ flash = "open"
  /\ LET n == IF ok THEN len ELSE len \div 2
         s == [mem |-> [a \in Address |-> IF a \in start .. start + n - 1 THEN Value(a) ELSE mem[a]],
               dcache |-> dcache]
         t == IF ok THEN alt_dcache_flush(flushda, s, start, len) ELSE s
     IN  mem' = t.mem /\ dcache' = t.dcache
  /\ flash' = IF ok THEN flash ELSE "failed"
  /\ UNCHANGED <<flushda, icache>>

alt_erase_flash_block ==
  \E block \in 0 .. (FlashEnd \div BlockSize) - 1, ok \in BOOLEAN :
    Changes(block * BlockSize, BlockSize, LAMBDA a : 1, ok)

alt_write_flash_block ==
  \E start \in 0 .. FlashEnd - 1, len \in 1 .. BlockSize, ok \in BOOLEAN :
    /\ start \div BlockSize = (start + len - 1) \div BlockSize
    /\ Changes(start, len, LAMBDA a : 0, ok)

\* The program gives up on a device that failed.
Failed == flash = "failed" /\ UNCHANGED flashVars

Next ==
  \/ alt_load \/ ReadData \/ FetchInstruction \/ Failed
  \/ alt_flash_device_register \/ alt_flash_open_dev \/ alt_flash_close_dev
  \/ alt_erase_flash_block \/ alt_write_flash_block

Spec == Init /\ [][Next]_flashVars

-----------------------------------------------------------------------------

\* What the data cache holds of the flash is what the flash holds, after every
\* erase and write that succeeded, whatever part of a block it changed.
FlashCoherent ==
  flash # "failed" =>
    \A i \in Indices : dcache[i] # None /\ ~dcache[i].dirty =>
      dcache[i].data = Contents(mem, dcache[i].line)

\* After alt_load the RAM, and any instruction that is fetched from it, is the
\* image of the sections.
ImageLoaded ==
  flash # "boot" =>
    /\ \A k \in DOMAIN Sections : LET x == Sections[k] IN
         x.to # x.from => \A a \in x.to .. x.end - 1 : mem[a] = (x.from + a - x.to) % 2
    /\ \A i \in Indices : icache[i] # None => icache[i].data = Contents(mem, icache[i].line)

MemoryCoherent == FlashCoherent /\ ImageLoaded

=============================================================================
