------------------------ MODULE ModularExponentiation ------------------------
(***************************************************************************)
(* modular_exponentiation.sv: multiplies base by power and reduces modulo  *)
(* denominator, e times over.  Its multiplier mult0 and modulo unit        *)
(* modular0 have reset registers of their own, multiplier_reset and        *)
(* modulo_reset, which it pulses before every round.  base, power and      *)
(* denominator are latched in WAIT, e is read at the end of every round.   *)
(***************************************************************************)
EXTENDS Words

VARIABLES
  reset_n, modexp_ready, base, power, e, denominator,
  modexp, mult, modular

mult0 == INSTANCE MultiplierSM
  WITH reset_n <- modexp.multiplier_reset, mult_ready <- modexp.mult_ready,
       in1 <- modexp.C, in2 <- modexp.M

modular0 == INSTANCE Modular
  WITH reset_n <- modexp.modulo_reset, modular_ready <- modexp.modular_ready,
       numerator <- mult.out, denominator <- modexp.n

States == {"RESET", "WAIT", "INIT_RESET_0", "INIT_RESET_1", "MULTIPLY",
           "MODULO", "CHECK_COUNTER", "MODEXP_DONE"}

Registers ==
  [state: States, counter: Word, C: Word, M: Word, n: Word, result: Word,
   mult_ready: Bit, modular_ready: Bit, multiplier_reset: Bit,
   modulo_reset: Bit, modexp_done: Bit]

Cleared ==
  [state |-> "RESET", counter |-> 0, C |-> 0, M |-> 0, n |-> 0, result |-> 0,
   mult_ready |-> 0, modular_ready |-> 0, multiplier_reset |-> 0,
   modulo_reset |-> 0, modexp_done |-> 0]

ClearedUnits == mult = mult0!Cleared /\ modular = modular0!Cleared

-----------------------------------------------------------------------------

NextState(s) == IF reset_n = 0 \/ reset_n' = 0 THEN "RESET" ELSE s

\* counter counts the rounds: it is incremented at the edge that enters
\* CHECK_COUNTER and cleared by nothing but reset_n.
Counter(s) ==
  CASE NextState(s) = "RESET"         -> 0
    [] NextState(s) = "CHECK_COUNTER" -> AddW(modexp.counter, 1)
    [] OTHER                          -> modexp.counter

Reset ==
  /\ modexp.state = "RESET"
  /\ modexp' = [Cleared EXCEPT !.state = NextState("WAIT"),
                               !.counter = Counter("WAIT")]

Wait ==
  LET s == IF modexp_ready = 1 THEN "INIT_RESET_0" ELSE "WAIT"
  IN  /\ modexp.state = "WAIT"
      /\ modexp' = [modexp EXCEPT
           !.state = NextState(s), !.counter = Counter(s),
           !.C = base, !.M = power, !.n = denominator,
           !.multiplier_reset = 1, !.modulo_reset = 1]

InitReset0 ==
  /\ modexp.state = "INIT_RESET_0"
  /\ modexp' = [modexp EXCEPT
       !.state = NextState("INIT_RESET_1"), !.counter = Counter("INIT_RESET_1"),
       !.multiplier_reset = 0, !.modulo_reset = 0]

\* Mutant: the modulo unit is left in reset.
InitReset1Half ==
  /\ modexp.state = "INIT_RESET_1"
  /\ modexp' = [modexp EXCEPT
       !.state = NextState("MULTIPLY"), !.counter = Counter("MULTIPLY"),
       !.multiplier_reset = 1]

InitReset1 ==
  /\ modexp.state = "INIT_RESET_1"
  /\ modexp' = [modexp EXCEPT
       !.state = NextState("MULTIPLY"), !.counter = Counter("MULTIPLY"),
       !.multiplier_reset = 1, !.modulo_reset = 1]

Multiply ==
  LET s == IF mult.mult_done = 1 THEN "MODULO" ELSE "MULTIPLY"
  IN  /\ modexp.state = "MULTIPLY"
      /\ modexp' = [modexp EXCEPT
           !.state = NextState(s), !.counter = Counter(s), !.mult_ready = 1]

Modulo ==
  LET s == IF modular.modular_done = 1 THEN "CHECK_COUNTER" ELSE "MODULO"
  IN  /\ modexp.state = "MODULO"
      /\ modexp' = [modexp EXCEPT
           !.state = NextState(s), !.counter = Counter(s),
           !.mult_ready = 0, !.modular_ready = 1]

\* Mutant: one round too many.
CheckCounterOnce ==
  LET s == IF modexp.counter <= e THEN "INIT_RESET_0" ELSE "MODEXP_DONE"
  IN  /\ modexp.state = "CHECK_COUNTER"
      /\ modexp' = [modexp EXCEPT
           !.state = NextState(s), !.counter = Counter(s),
           !.modular_ready = 0, !.C = modular.result]

\* Mutant: the units are not reset between rounds.
CheckCounterNoReset ==
  LET s == IF modexp.counter < e THEN "MULTIPLY" ELSE "MODEXP_DONE"
  IN  /\ modexp.state = "CHECK_COUNTER"
      /\ modexp' = [modexp EXCEPT
           !.state = NextState(s), !.counter = Counter(s),
           !.modular_ready = 0, !.C = modular.result]

CheckCounter ==
  LET s == IF modexp.counter < e THEN "INIT_RESET_0" ELSE "MODEXP_DONE"
  IN  /\ modexp.state = "CHECK_COUNTER"
      /\ modexp' = [modexp EXCEPT
           !.state = NextState(s), !.counter = Counter(s),
           !.modular_ready = 0, !.C = modular.result]

ModexpDone ==
  LET s == IF modexp_ready = 0 THEN "WAIT" ELSE "MODEXP_DONE"
  IN  /\ modexp.state = "MODEXP_DONE"
      /\ modexp' = [modexp EXCEPT
           !.state = NextState(s), !.counter = Counter(s),
           !.result = modexp.C, !.modexp_done = 1]

Control == Reset \/ Wait \/ InitReset0 \/ InitReset1 \/ Multiply \/ Modulo
           \/ CheckCounter \/ ModexpDone

\* One edge clocks the controller and both units.
Clock == Control /\ mult0!Clock /\ modular0!Clock

=============================================================================
