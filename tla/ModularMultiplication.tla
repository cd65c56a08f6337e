------------------------ MODULE ModularMultiplication ------------------------
(***************************************************************************)
(* modular_multiplication.sv: (base * power) % denominator, by its own     *)
(* multiplier mult0 and modulo unit modular0, which share its reset.       *)
(***************************************************************************)
EXTENDS Words

VARIABLES
  reset_n, modmult_ready, base, power, denominator,
  modmult, mult, modular

mult0 == INSTANCE MultiplierSM
  WITH mult_ready <- modmult.mult_ready, in1 <- modmult.d, in2 <- modmult.e

modular0 == INSTANCE Modular
  WITH modular_ready <- modmult.modular_ready,
       numerator <- mult.out, denominator <- modmult.phi

States == {"RESET", "WAIT", "MULTIPLY", "MULTIPLY_DONE", "MODULO",
           "MODULO_DONE", "MODMULT_DONE"}

Registers ==
  [state: States, d: Word, e: Word, phi: Word, result: Word,
   mult_ready: Bit, modular_ready: Bit, modmult_done: Bit]

Cleared ==
  [state |-> "RESET", d |-> 0, e |-> 0, phi |-> 0, result |-> 0,
   mult_ready |-> 0, modular_ready |-> 0, modmult_done |-> 0]

ClearedUnits == mult = mult0!Cleared /\ modular = modular0!Cleared

-----------------------------------------------------------------------------

NextState(s) == IF reset_n = 0 \/ reset_n' = 0 THEN "RESET" ELSE s

Reset ==
  /\ modmult.state = "RESET"
  /\ modmult' = [Cleared EXCEPT !.state = NextState("WAIT")]

Wait ==
  /\ modmult.state = "WAIT"
  /\ modmult' = [modmult EXCEPT
       !.state = NextState(IF modmult_ready = 1 THEN "MULTIPLY" ELSE "WAIT"),
       !.d = base, !.e = power, !.phi = denominator]

Multiply ==
  /\ modmult.state = "MULTIPLY"
  /\ modmult' = [modmult EXCEPT
       !.state = NextState(IF mult.mult_done = 1
                           THEN "MULTIPLY_DONE" ELSE "MULTIPLY"),
       !.mult_ready = 1]

MultiplyDone ==
  /\ modmult.state = "MULTIPLY_DONE"
  /\ modmult' = [modmult EXCEPT !.state = NextState("MODULO"),
                                !.mult_ready = 0]

Modulo ==
  /\ modmult.state = "MODULO"
  /\ modmult' = [modmult EXCEPT
       !.state = NextState(IF modular.modular_done = 1
                           THEN "MODULO_DONE" ELSE "MODULO"),
       !.modular_ready = 1]

\* Mutant: the product is taken for the residue.
ModuloDoneTakesProduct ==
  /\ modmult.state = "MODULO_DONE"
  /\ modmult' = [modmult EXCEPT !.state = NextState("MODMULT_DONE"),
                                !.modular_ready = 0,
                                !.result = mult.out]

ModuloDone ==
  /\ modmult.state = "MODULO_DONE"
  /\ modmult' = [modmult EXCEPT !.state = NextState("MODMULT_DONE"),
                                !.modular_ready = 0,
                                !.result = modular.result]

ModmultDone ==
  /\ modmult.state = "MODMULT_DONE"
  /\ modmult' = [modmult EXCEPT
       !.state = NextState(IF modmult_ready = 0 THEN "WAIT" ELSE "MODMULT_DONE"),
       !.modmult_done = 1]

Control == Reset \/ Wait \/ Multiply \/ MultiplyDone \/ Modulo \/ ModuloDone
           \/ ModmultDone

\* One edge clocks the controller and both units.
Clock == Control /\ mult0!Clock /\ modular0!Clock

=============================================================================
