------------------------------ MODULE AltTime ------------------------------
(***************************************************************************)
(* The wall clock of the HAL: gettimeofday (HAL/src/alt_gettod.c),         *)
(* settimeofday (alt_settod.c) and times (alt_times.c), computed from the  *)
(* ticks of the system clock and the offset settimeofday left; and usleep  *)
(* (alt_usleep.c, alt_busy_sleep.c), which counts loops instead.           *)
(***************************************************************************)
EXTENDS Integers

CONSTANTS
  US,           \* ALT_US, the microseconds of a second
  WordMod,      \* 2^32, the size of an alt_u32
  ClockRates,   \* the values of _alt_tick_rate; 0 where there is no clock
  Seconds,      \* tv_sec and tv_usec of the times of day the program sets
  Micros,
  Zones,        \* tz_minuteswest and tz_dsttime, as one value
  MaxTicks,     \* bound on the ticks of a run
  LoopRates     \* rounds of the waiting loop in a microsecond

VARIABLES
  tick_rate,    \* _alt_tick_rate; fixed by the clock driver at the start
  ticks,        \* _alt_nticks
  resettime,    \* alt_resettime
  timezone,     \* alt_timezone
  told          \* ghost: the time set since the last tick, if any

timeVars == <<tick_rate, ticks, resettime, timezone, told>>

Times == [tv_sec : Seconds, tv_usec : Micros]
Zero == [tv_sec |-> 0, tv_usec |-> 0]

Microseconds == ticks * (US \div tick_rate)

\* Carries a number of microseconds that is out of range into the seconds;
\* a time before the epoch is the epoch.
Normal(t) ==
  LET borrow == (US - 1 - t.tv_usec) \div US      \* rounds of the first loop
  IN  IF t.tv_usec < 0 /\ t.tv_sec < borrow THEN Zero
      ELSE [tv_sec |-> t.tv_sec + (t.tv_usec \div US), tv_usec |-> t.tv_usec % US]

\* -ENOTSUP without a clock.  The product is computed in 64 bits.
ALT_GETTIMEOFDAY ==
  IF tick_rate = 0 THEN "ENOTSUP"
  ELSE <<Normal([tv_sec |-> resettime.tv_sec + (ticks \div tick_rate),
                 tv_usec |-> resettime.tv_usec + (Microseconds % US)]), timezone>>

\* times(): ticks, or ENOSYS without a clock.
ALT_TIMES == IF tick_rate = 0 THEN "ENOSYS" ELSE ticks

\* Mutant: the microseconds of the ticks are not subtracted.
SetWholeSeconds(t) ==
  [tv_sec |-> t.tv_sec - (ticks \div tick_rate), tv_usec |-> t.tv_usec]

\* The product is computed in 32 bits.
Offset(t) ==
  [tv_sec |-> t.tv_sec - (ticks \div tick_rate),
   tv_usec |-> t.tv_usec - ((Microseconds % WordMod) % US)]

Init ==
  /\ tick_rate \in ClockRates
  /\ ticks = 0
  /\ resettime = Zero
  /\ timezone = 0
  /\ told = {}

\* -ENOSYS without a clock.
ALT_SETTIMEOFDAY ==
  /\ IF tick_rate = 0 THEN UNCHANGED <<resettime, timezone, told>>
     ELSE \E t \in Times, tz \in Zones :
            resettime' = Offset(t) /\ timezone' = tz /\ told' = {<<t, tz>>}
  /\ UNCHANGED <<tick_rate, ticks>>

Tick ==
  /\ tick_rate > 0 /\ ticks < MaxTicks
  /\ ticks' = ticks + 1
  /\ told' = {}
  /\ UNCHANGED <<tick_rate, resettime, timezone>>

Next == ALT_SETTIMEOFDAY \/ Tick

-----------------------------------------------------------------------------
(* usleep                                                                  *)

INT_MAX == (WordMod \div 2) - 1

\* Rounds of a loop that counts n down until it is 0 (bne), or not positive (bgt).
UntilZero(n) == IF n = 0 THEN WordMod ELSE n
UntilNotPositive(n) == IF n > 0 THEN n ELSE 1

\* The rounds a call waits for, where k of them take a microsecond.  Long waits
\* begin with big loops of INT_MAX rounds.  Their asm changes a register it says
\* it only reads: from the second on it may find INT_MAX there, or the 0 the one
\* before has left.
alt_busy_sleep(us, k) ==
  LET chunk == INT_MAX \div k
      big == us \div chunk
      rest == UntilZero((us - big * chunk) * k)
  IN  IF big = 0 THEN {UntilNotPositive(us * k)}
      ELSE {INT_MAX + i * UntilZero(INT_MAX) + (big - 1 - i) * UntilZero(0) + rest :
              i \in 0 .. big - 1}

Spec == Init /\ [][Next]_timeVars

ALT_USLEEP(us, k) == alt_busy_sleep(us, k)

-----------------------------------------------------------------------------

\* "an immediate call to gettimeofday() would return the value specified by
\* "t" and "tz"" (alt_settod.c:62-63).
SetThenGet == \A t \in told : ALT_GETTIMEOFDAY = t

\* It does so while the microseconds since the start fit in 32 bits.
SetThenGetEarly == tick_rate > 0 /\ Microseconds < WordMod => SetThenGet

\* usleep never returns early: no wait, whatever its length and however the asm
\* is compiled, has fewer rounds than the time takes, and one without big loops
\* has no more, but for the one round of a wait of 0.
SleepsLongEnough ==
  \A us \in 0 .. WordMod - 1, k \in LoopRates :
    \A n \in ALT_USLEEP(us, k) :
      /\ n >= us * k
      /\ us < INT_MAX \div k => n <= us * k \/ n = 1

TimeKept == SetThenGetEarly /\ SleepsLongEnough

=============================================================================
