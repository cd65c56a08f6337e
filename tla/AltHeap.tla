------------------------------ MODULE AltHeap ------------------------------
(***************************************************************************)
(* The memory of the HAL: sbrk (HAL/src/alt_sbrk.c) and the call profiler  *)
(* that allocates from it (alt_gmon.c and the look-up of alt_mcount.S).    *)
(*                                                                         *)
(* Every instrumented function calls mcount, the ones an interrupt runs    *)
(* too: a thread and an interrupt walk, allocate for and extend the same   *)
(* lists.  How often an arc is taken and how often a sample falls into a   *)
(* bucket is left out; where they are written is kept.                     *)
(***************************************************************************)
EXTENDS Integers, Sequences

CONSTANTS
  Functions,    \* instrumented functions (self_pc), all in one bucket
  Callers,      \* where they are called from (from_pc)
  InterruptFns, \* the functions the interrupt runs
  HeapLimit,    \* __alt_heap_limit; __alt_heap_start is 0
  Align,        \* the size of a word
  Increments,   \* what the program asks sbrk for
  StackPointer, \* the program's
  Slab,         \* MCOUNT_SLAB_INCREMENT
  EntrySize,    \* the size of an mcount_fn_entry, and of an mcount_fn_arc
  TextSize,     \* etext - stext
  BucketSize    \* PCSAMPLE_BYTES_PER_BUCKET

VARIABLES
  heap,       \* heap_end; the stack limit, and whether an overflow was reported
  slab,       \* mcount_slab_ptr and mcount_slab_size
  lists,      \* a list of __mcount_fn_head from its head, and the arc_heads
  sampler,    \* pcsample_need_init, s_pcsamples and _alt_tick_rate
  heap_pie,   \* status.PIE
  frame,      \* what the thread, and the interrupt, are doing
  ghost       \* what was handed out, recorded and sampled, and what went wrong

heapVars == <<heap, slab, lists, sampler, heap_pie, frame, ghost>>

Actors == {"thread", "interrupt"}
Failed == -1      \* what sbrk returns; no address
Ready == [pc |-> "ready", fn |-> "none", caller |-> "none", entry |-> Failed,
          saved |-> TRUE, data |-> Failed, rest |-> <<>>]

Aligned(a) == ((a + Align - 1) \div Align) * Align

\* Memory is handed out: it should be nobody else's, and in the heap.
Take(g, a, size) ==
  [g EXCEPT !.pieces = @ \cup {[lo |-> a, hi |-> a + size]},
            !.overlap = @ \/ a + size > HeapLimit
                          \/ \E p \in g.pieces : p.lo < a + size /\ a < p.hi]

-----------------------------------------------------------------------------
(* sbrk                                                                    *)

\* Mutant: the limit is not looked at.
SbrkUnbounded(h, incr) ==
  [heap |-> [h EXCEPT !.end = Aligned(@) + incr], ret |-> Aligned(h.end)]

alt_stack_limit(h) == h.limit
alt_set_stack_limit(h, limit) == [h EXCEPT !.limit = limit]
alt_report_stack_overflow(h) == [h EXCEPT !.reported = TRUE]

\* With ALT_STACK_CHECK the limit of the default stack, which ends where the
\* heap does, follows the heap.
StackCheck(h, prev) ==
  IF alt_stack_limit(h) # prev THEN h
  ELSE alt_set_stack_limit(IF StackPointer <= h.end THEN alt_report_stack_overflow(h) ELSE h,
                           h.end)

\* The whole call, with interrupts disabled.  The end of the heap is aligned
\* even when the call fails.
ALT_SBRK(h, incr) ==
  LET prev == Aligned(h.end)
      end == prev + incr
  IN  IF end > HeapLimit THEN [heap |-> [h EXCEPT !.end = prev], ret |-> Failed]
      ELSE [heap |-> StackCheck([h EXCEPT !.end = end], prev), ret |-> prev]

\* The program, for malloc: it looks at the result.
Malloc ==
  /\ frame = [x \in Actors |-> Ready]
  /\ \E n \in Increments :
       LET call == ALT_SBRK(heap, n)
       IN  /\ heap' = call.heap
           /\ ghost' = IF call.ret = Failed THEN ghost
                       ELSE [Take(ghost, call.ret, n) EXCEPT !.odd = @ \/ n % Align # 0]
  /\ UNCHANGED <<slab, lists, sampler, heap_pie, frame>>

-----------------------------------------------------------------------------
(* mcount                                                                  *)

Init ==
  /\ heap = [end |-> 0, limit |-> 0, reported |-> FALSE]
  /\ slab = [ptr |-> 0, size |-> 0]
  /\ lists = [fns |-> <<>>, arcs |-> [a \in 0 .. HeapLimit |-> <<>>]]
  /\ sampler = [need_init |-> TRUE, samples |-> Failed, rate |-> 0]
  /\ heap_pie = TRUE
  /\ frame = [x \in Actors |-> Ready]
  /\ ghost = [pieces |-> {}, overlap |-> FALSE, taken |-> {}, sampled |-> {},
              odd |-> FALSE, wild |-> FALSE]

\* A system clock driver starts the clock.
ClockStarts ==
  /\ sampler.rate = 0 /\ frame = [x \in Actors |-> Ready]
  /\ sampler' = [sampler EXCEPT !.rate = 1]
  /\ UNCHANGED <<heap, slab, lists, heap_pie, frame, ghost>>

\* Actor x is at pc.  The thread does not run while the interrupt does, and
\* nobody runs after a failure of sbrk was taken for an address.
At(x, pc) ==
  /\ frame[x].pc = pc
  /\ x = "thread" => frame["interrupt"] = Ready
  /\ ~ghost.wild

Goes(x, pc) == frame' = [frame EXCEPT ![x].pc = pc]

\* The processor takes an interrupt: it clears PIE.
Interrupt ==
  /\ heap_pie /\ At("interrupt", "ready")
  /\ heap_pie' = FALSE
  /\ Goes("interrupt", "call")
  /\ UNCHANGED <<heap, slab, lists, sampler, ghost>>

\* The look-up of alt_mcount.S, with interrupts as they are: the entry of the
\* function, or none, and on to __mcount_record if the arc is new.
Mcount(x) ==
  /\ At(x, IF x = "thread" THEN "ready" ELSE "call")
  /\ \E f \in IF x = "thread" THEN Functions ELSE InterruptFns, c \in Callers :
       LET mine == {i \in DOMAIN lists.fns : lists.fns[i].self = f}
           entry == IF mine = {} THEN Failed
                    ELSE lists.fns[CHOOSE i \in mine : \A j \in mine : i <= j].addr
           known == mine # {} /\ \E i \in DOMAIN lists.arcs[entry] : lists.arcs[entry][i] = c
       IN  frame' = [frame EXCEPT ![x] =
             IF known THEN [@ EXCEPT !.pc = "return"]
             ELSE [@ EXCEPT !.pc = "init", !.fn = f, !.caller = c, !.entry = entry]]
  /\ UNCHANGED <<heap, slab, lists, sampler, heap_pie, ghost>>

NeedInit(x) ==
  /\ At(x, "init")
  /\ Goes(x, IF sampler.need_init THEN "clear" ELSE "disable")
  /\ UNCHANGED <<heap, slab, lists, sampler, heap_pie, ghost>>

ClearNeedInit(x) ==
  /\ At(x, "clear")
  /\ sampler' = [sampler EXCEPT !.need_init = FALSE]
  /\ Goes(x, "sampler")
  /\ UNCHANGED <<heap, slab, lists, heap_pie, ghost>>

\* Tried until there is a clock.  A failure of sbrk is not the 0 it looks for.
nios2_pcsample_init(x) ==
  /\ At(x, "sampler")
  /\ IF sampler.rate > 0
     THEN LET size == TextSize \div BucketSize
              call == ALT_SBRK(heap, size)
          IN  /\ heap' = call.heap
              /\ sampler' = [sampler EXCEPT !.need_init = FALSE, !.samples = call.ret]
              /\ ghost' = IF call.ret = Failed THEN [ghost EXCEPT !.wild = TRUE]
                          ELSE [Take(ghost, call.ret, size) EXCEPT !.odd = @ \/ size % Align # 0]
     ELSE /\ sampler' = [sampler EXCEPT !.need_init = TRUE]
          /\ UNCHANGED <<heap, ghost>>
  /\ Goes(x, "disable")
  /\ UNCHANGED <<slab, lists, heap_pie>>

\* Mutant: the lists are extended with interrupts enabled.
RecordOpen(x) ==
  /\ At(x, "disable")
  /\ frame' = [frame EXCEPT ![x].pc = IF frame[x].entry = Failed THEN "fn" ELSE "arc",
                            ![x].saved = heap_pie]
  /\ UNCHANGED <<heap, slab, lists, sampler, heap_pie, ghost>>

RecordDisable(x) ==
  /\ At(x, "disable")
  /\ heap_pie' = FALSE
  /\ frame' = [frame EXCEPT ![x].pc = IF frame[x].entry = Failed THEN "fn" ELSE "arc",
                            ![x].saved = heap_pie]
  /\ UNCHANGED <<heap, slab, lists, sampler, ghost>>

\* mcount_allocate: a new slab if the old one is too small, whatever sbrk says;
\* the piece is cut from it in a second step.
Allocate(x, pc, to) ==
  /\ At(x, pc)
  /\ LET call == ALT_SBRK(heap, Slab)
     IN  IF EntrySize > slab.size
         THEN /\ heap' = call.heap
              /\ slab' = [ptr |-> call.ret, size |-> Slab]
              /\ ghost' = [ghost EXCEPT !.wild = call.ret = Failed]
         ELSE UNCHANGED <<heap, slab, ghost>>
  /\ frame' = [frame EXCEPT ![x].pc = to, ![x].data = slab'.ptr]
  /\ UNCHANGED <<lists, sampler, heap_pie>>

\* The piece is cut from the slab and filled in; it points at the rest of the list.
Cut(x, pc, to, rest) ==
  /\ At(x, pc)
  /\ slab' = [ptr |-> slab.ptr + EntrySize, size |-> slab.size - EntrySize]
  /\ ghost' = Take(ghost, frame[x].data, EntrySize)
  /\ frame' = [frame EXCEPT ![x].pc = to, ![x].rest = rest]
  /\ UNCHANGED <<heap, lists, sampler, heap_pie>>

NewFn(x) == Allocate(x, "fn", "cutfn")
CutFn(x) == Cut(x, "cutfn", "linkfn", lists.fns)
NewArc(x) == Allocate(x, "arc", "cutarc")
CutArc(x) == Cut(x, "cutarc", "linkarc", lists.arcs[frame[x].entry])

LinkFn(x) ==
  /\ At(x, "linkfn")
  /\ lists' = [lists EXCEPT !.fns = <<[addr |-> frame[x].data, self |-> frame[x].fn]>>
                                     \o frame[x].rest]
  /\ frame' = [frame EXCEPT ![x].pc = "arc", ![x].entry = frame[x].data]
  /\ UNCHANGED <<heap, slab, sampler, heap_pie, ghost>>

LinkArc(x) ==
  /\ At(x, "linkarc")
  /\ lists' = [lists EXCEPT !.arcs[frame[x].entry] = <<frame[x].caller>> \o frame[x].rest]
  /\ ghost' = [ghost EXCEPT !.taken = @ \cup {<<frame[x].fn, frame[x].caller>>}]
  /\ Goes(x, "enable")
  /\ UNCHANGED <<heap, slab, sampler, heap_pie>>

RecordEnable(x) ==
  /\ At(x, "enable")
  /\ heap_pie' = frame[x].saved
  /\ Goes(x, "return")
  /\ UNCHANGED <<heap, slab, lists, sampler, ghost>>

\* The function that called mcount is done; an interrupt returns.
Return(x) ==
  /\ At(x, "return")
  /\ heap_pie' = (x = "interrupt" \/ heap_pie)
  /\ frame' = [frame EXCEPT ![x] = Ready]
  /\ UNCHANGED <<heap, slab, lists, sampler, ghost>>

\* The alarm of the sampler, in a clock interrupt: it increments the bucket of
\* the place the interrupt found the program at, if it is in the text.
nios2_pcsample ==
  /\ heap_pie /\ At("interrupt", "ready")
  /\ sampler.samples # Failed
  /\ \E pc \in 0 .. TextSize - 1 :
       ghost' = [ghost EXCEPT !.sampled = {sampler.samples + (pc \div BucketSize)}]
  /\ UNCHANGED <<heap, slab, lists, sampler, heap_pie, frame>>

\* What happens after a wild address was written is not modelled.
Wild == ghost.wild /\ UNCHANGED heapVars

Next ==
  \/ Malloc \/ ClockStarts \/ Interrupt \/ nios2_pcsample \/ Wild
  \/ \E x \in Actors :
       \/ Mcount(x) \/ NeedInit(x) \/ ClearNeedInit(x) \/ nios2_pcsample_init(x)
       \/ RecordDisable(x)
       \/ NewFn(x) \/ CutFn(x) \/ LinkFn(x) \/ NewArc(x) \/ CutArc(x) \/ LinkArc(x)
       \/ RecordEnable(x) \/ Return(x)

Spec == Init /\ [][Next]_heapVars

-----------------------------------------------------------------------------

\* A sample is counted in memory that was handed out; or, if the text is not a
\* whole number of buckets, in the one bucket behind it that nios2_pcsample_init
\* has rounded away.
SamplesKept ==
  \A a \in ghost.sampled : \E p \in ghost.pieces :
    p.lo <= a /\ (a < p.hi \/ (a = p.hi /\ TextSize % BucketSize > 0))

\* Memory that sbrk and the slabs of the profiler hand out, to the thread and
\* to interrupts, is in the heap and never handed out twice; and, while only
\* whole words were asked for, the stack never runs into it unreported.
MemoryKept ==
  /\ ~ghost.overlap
  /\ SamplesKept
  /\ ~ghost.odd => heap.end < StackPointer \/ heap.reported

\* Every arc that was recorded can be found from the head of the list, whatever
\* interrupted its recording.
ArcsKept ==
  \A t \in ghost.taken :
    \E i \in DOMAIN lists.fns :
      /\ lists.fns[i].self = t[1]
      /\ \E j \in DOMAIN lists.arcs[lists.fns[i].addr] :
           lists.arcs[lists.fns[i].addr][j] = t[2]

=============================================================================
