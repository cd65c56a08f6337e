------------------------------ MODULE Modular ------------------------------
(***************************************************************************)
(* modular.sv: the remainder of numerator by denominator, by repeated      *)
(* subtraction.  The registers of the unit are the fields of one record;   *)
(* an action is what the unit does at one rising clock edge in one state.  *)
(* reset_n, modular_ready, numerator and denominator are its input ports.  *)
(***************************************************************************)
EXTENDS Words

VARIABLES
  reset_n, modular_ready, numerator, denominator,
  modular

States == {"RESET", "WAIT", "MOD_INIT", "MOD_ASSIGN", "MOD_DONE"}

Registers ==
  [state: States, numerator_hold: Word, denominator_hold: Word,
   sub_hold: Word, result: Word, modular_done: Bit]

\* Registers after configuration of the device, and after a clock in RESET.
Cleared ==
  [state |-> "RESET", numerator_hold |-> 0, denominator_hold |-> 0,
   sub_hold |-> 0, result |-> 0, modular_done |-> 0]

-----------------------------------------------------------------------------

\* The state register: posedge clk, negedge reset_n.
NextState(s) == IF reset_n = 0 \/ reset_n' = 0 THEN "RESET" ELSE s

\* Mutant: the done flag survives a reset.
ResetKeepsDone ==
  /\ modular.state = "RESET"
  /\ modular' = [Cleared EXCEPT !.state = NextState("WAIT"),
                                !.modular_done = modular.modular_done]

Reset ==
  /\ modular.state = "RESET"
  /\ modular' = [Cleared EXCEPT !.state = NextState("WAIT")]

Wait ==
  /\ modular.state = "WAIT"
  /\ modular' = [modular EXCEPT
       !.state = NextState(IF modular_ready = 1 THEN "MOD_INIT" ELSE "WAIT"),
       !.numerator_hold = numerator,
       !.denominator_hold = denominator]

\* Mutant: the loop ends one subtraction early.
ModInitEarly ==
  /\ modular.state = "MOD_INIT"
  /\ modular' = [modular EXCEPT
       !.state = NextState(IF modular.numerator_hold <= modular.denominator_hold
                           THEN "MOD_DONE" ELSE "MOD_ASSIGN"),
       !.sub_hold = SubW(modular.numerator_hold, modular.denominator_hold)]

ModInit ==
  /\ modular.state = "MOD_INIT"
  /\ modular' = [modular EXCEPT
       !.state = NextState(IF modular.numerator_hold < modular.denominator_hold
                           THEN "MOD_DONE" ELSE "MOD_ASSIGN"),
       !.sub_hold = SubW(modular.numerator_hold, modular.denominator_hold)]

\* Mutant: the difference is not copied back.
ModAssignNothing ==
  /\ modular.state = "MOD_ASSIGN"
  /\ modular' = [modular EXCEPT !.state = NextState("MOD_INIT")]

ModAssign ==
  /\ modular.state = "MOD_ASSIGN"
  /\ modular' = [modular EXCEPT
       !.state = NextState("MOD_INIT"),
       !.numerator_hold = modular.sub_hold]

ModDone ==
  /\ modular.state = "MOD_DONE"
  /\ modular' = [modular EXCEPT
       !.state = NextState(IF modular_ready = 0 THEN "WAIT" ELSE "MOD_DONE"),
       !.result = modular.numerator_hold,
       !.modular_done = 1]

Clock == Reset \/ Wait \/ ModInit \/ ModAssign \/ ModDone

=============================================================================
