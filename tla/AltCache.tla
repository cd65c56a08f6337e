------------------------------ MODULE AltCache ------------------------------
(***************************************************************************)
(* The caches of the processor and the calls of the HAL that flush them:   *)
(* alt_dcache_flush.c, alt_dcache_flush_no_writeback.c, alt_icache_flush.c *)
(* and the _all forms.  A data cache and the memory behind it are a record *)
(* s of the fields mem and dcache.                                         *)
(*                                                                         *)
(* The caches are direct mapped; the data cache is written back.  They     *)
(* are external.                                                           *)
(***************************************************************************)
EXTENDS Integers, Sequences, SequencesExt

CONSTANTS
  MemSize,      \* addresses
  LineSize,     \* NIOS2_DCACHE_LINE_SIZE, NIOS2_ICACHE_LINE_SIZE
  CacheSize     \* NIOS2_DCACHE_SIZE, NIOS2_ICACHE_SIZE

Address == 0 .. MemSize - 1
Line(a) == a \div LineSize
Index(a) == Line(a) % (CacheSize \div LineSize)
Indices == 0 .. (CacheSize \div LineSize) - 1
None == [line |-> -1, data |-> <<>>, dirty |-> FALSE]

-----------------------------------------------------------------------------
(* External: the caches                                                    *)

Contents(m, l) == [k \in 1 .. LineSize |-> m[l * LineSize + k - 1]]

WriteBack(m, e) ==
  IF ~e.dirty THEN m
  ELSE [a \in Address |-> IF Line(a) = e.line THEN e.data[(a % LineSize) + 1] ELSE m[a]]

Evict(s, i) == [mem |-> WriteBack(s.mem, s.dcache[i]), dcache |-> [s.dcache EXCEPT ![i] = None]]

Fetched(s, a) ==
  LET i == Index(a)
      v == Evict(s, i)
  IN  IF s.dcache[i].line = Line(a) THEN s
      ELSE [v EXCEPT !.dcache[i] = [line |-> Line(a), data |-> Contents(v.mem, Line(a)),
                                    dirty |-> FALSE]]

Stored(s, a, value) ==
  [Fetched(s, a) EXCEPT !.dcache[Index(a)].data[(a % LineSize) + 1] = value,
                        !.dcache[Index(a)].dirty = TRUE]
ValueAt(s, a) == Fetched(s, a).dcache[Index(a)].data[(a % LineSize) + 1]

\* flushd takes whatever is at the index, flushda only the line itself.
ALT_FLUSH_DATA(flushda, s, a) ==
  IF flushda /\ s.dcache[Index(a)].line # Line(a) THEN s ELSE Evict(s, Index(a))

-----------------------------------------------------------------------------
(* Flushes                                                                 *)

\* Mutant: no extra line when the start is not aligned.
FlushedAligned(start, len) ==
  LET n == (len + LineSize - 1) \div LineSize
  IN  [k \in 1 .. n |-> start + (k - 1) * LineSize]

\* The addresses the loop of a flush goes through.
Flushed(start, len) ==
  LET n == (len + LineSize - 1) \div LineSize
      more == IF start % LineSize # 0 THEN 1 ELSE 0
  IN  [k \in 1 .. n + more |-> start + (k - 1) * LineSize]

Clamped(len) == IF len > CacheSize THEN CacheSize ELSE len

alt_dcache_flush(flushda, s, start, len) ==
  FoldLeft(LAMBDA t, a : ALT_FLUSH_DATA(flushda, t, a), s,
           Flushed(start, IF flushda THEN len ELSE Clamped(len)))

\* initda drops the line itself without writing it back; nothing is done at all
\* where the processor does not have it.
alt_dcache_flush_no_writeback(initda, s, start, len) ==
  IF ~initda THEN s
  ELSE FoldLeft(LAMBDA t, a : IF t.dcache[Index(a)].line # Line(a) THEN t
                              ELSE [t EXCEPT !.dcache[Index(a)] = None],
                s, Flushed(start, len))

\* flushd in both cases
alt_dcache_flush_all(s) ==
  FoldLeft(Evict, s, [k \in 1 .. CacheSize \div LineSize |-> k - 1])

alt_icache_flush(c, start, len) ==
  FoldLeft(LAMBDA d, a : [d EXCEPT ![Index(a)] = None], c, Flushed(start, Clamped(len)))
alt_icache_flush_all(c) == alt_icache_flush(c, 0, CacheSize)

=============================================================================
