------------------------------ MODULE GenerateD ------------------------------
(***************************************************************************)
(* generate_d.sv: the search for the private exponent.  dholder runs       *)
(* through 1, 2, ... and its modular multiplication unit mm0, reset before *)
(* every candidate, computes e * dholder modulo phi until that is 1.       *)
(***************************************************************************)
EXTENDS Words

VARIABLES
  reset_n, compute, e, phi,
  gend, modmult, mult, modular

mm0 == INSTANCE ModularMultiplication
  WITH reset_n <- gend.modmult_reset, modmult_ready <- gend.modmult_ready,
       base <- e, power <- gend.dholder, denominator <- phi

States == {"RESET", "WAIT", "INIT_MODMULT", "INIT_DONE", "INIT_RESET",
           "INIT_RESET_DONE", "MODMULT_LOOP_0", "MODMULT_LOOP_1", "COMPARE",
           "DECREMENT", "FINISHED"}

Registers ==
  [state: States, s_holder: Word, dholder: Word, d: Word,
   modmult_ready: Bit, modmult_reset: Bit, generated_done: Bit]

Cleared ==
  [state |-> "RESET", s_holder |-> 0, dholder |-> 1 % Radix, d |-> 5 % Radix,
   modmult_ready |-> 0, modmult_reset |-> 0, generated_done |-> 0]

\* Registers are zero when the device has been configured.
PowerUp ==
  /\ gend = [Cleared EXCEPT !.dholder = 0, !.d = 0]
  /\ modmult = mm0!Cleared
  /\ mm0!ClearedUnits

-----------------------------------------------------------------------------

NextState(s) == IF reset_n = 0 \/ reset_n' = 0 THEN "RESET" ELSE s

Reset ==
  /\ gend.state = "RESET"
  /\ gend' = [Cleared EXCEPT !.state = NextState("WAIT")]

Wait ==
  /\ gend.state = "WAIT"
  /\ gend' = [gend EXCEPT
       !.state = NextState(IF compute = 1 THEN "INIT_MODMULT" ELSE "WAIT"),
       !.modmult_reset = 1]

InitModmult ==
  /\ gend.state = "INIT_MODMULT"
  /\ gend' = [gend EXCEPT
       !.state = NextState(IF modmult.modmult_done = 1
                           THEN "INIT_DONE" ELSE "INIT_MODMULT"),
       !.modmult_ready = 1]

InitDone ==
  /\ gend.state = "INIT_DONE"
  /\ gend' = [gend EXCEPT !.state = NextState("INIT_RESET"),
                          !.modmult_ready = 0, !.s_holder = modmult.result]

InitReset ==
  /\ gend.state = "INIT_RESET"
  /\ gend' = [gend EXCEPT !.state = NextState("INIT_RESET_DONE"),
                          !.modmult_reset = 0]

InitResetDone ==
  /\ gend.state = "INIT_RESET_DONE"
  /\ gend' = [gend EXCEPT !.state = NextState("MODMULT_LOOP_0"),
                          !.modmult_reset = 1]

ModmultLoop0 ==
  /\ gend.state = "MODMULT_LOOP_0"
  /\ gend' = [gend EXCEPT
       !.state = NextState(IF modmult.modmult_done = 1
                           THEN "MODMULT_LOOP_1" ELSE "MODMULT_LOOP_0"),
       !.modmult_ready = 1]

ModmultLoop1 ==
  /\ gend.state = "MODMULT_LOOP_1"
  /\ gend' = [gend EXCEPT !.state = NextState("COMPARE"),
                          !.modmult_ready = 0,
                          !.s_holder = modmult.result,
                          !.dholder = AddW(gend.dholder, 1)]

Compare ==
  /\ gend.state = "COMPARE"
  /\ gend' = [gend EXCEPT
       !.state = NextState(IF gend.s_holder = 1 THEN "DECREMENT" ELSE "INIT_RESET")]

\* Mutant: the increment before the comparison is not undone.
DecrementNothing ==
  /\ gend.state = "DECREMENT"
  /\ gend' = [gend EXCEPT !.state = NextState("FINISHED"),
                          !.d = gend.dholder]

Decrement ==
  /\ gend.state = "DECREMENT"
  /\ gend' = [gend EXCEPT !.state = NextState("FINISHED"),
                          !.d = SubW(gend.dholder, 1)]

Finished ==
  /\ gend.state = "FINISHED"
  /\ gend' = [gend EXCEPT
       !.state = NextState(IF compute = 0 THEN "WAIT" ELSE "FINISHED"),
       !.generated_done = 1]

Control == Reset \/ Wait \/ InitModmult \/ InitDone \/ InitReset
           \/ InitResetDone \/ ModmultLoop0 \/ ModmultLoop1 \/ Compare
           \/ Decrement \/ Finished

Clock == Control /\ mm0!Clock

=============================================================================
