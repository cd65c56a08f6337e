----------------------------- MODULE ProductGen -----------------------------
(***************************************************************************)
(* phi_gen.sv and n_gen.sv: the product of two words derived from in1 and  *)
(* in2, by a multiplier that shares the unit's reset.  The two sources     *)
(* differ in that derivation only: phi_gen multiplies the predecessors,    *)
(* n_gen the words themselves.  mult_ready is raised in COMPUTE and        *)
(* lowered by nothing but a reset.                                         *)
(***************************************************************************)
EXTENDS Words

VARIABLES
  decrement,   \* 1 for phi_gen.sv, 0 for n_gen.sv; never changes
  reset_n, gen_ready, in1, in2,
  gen, mult

gen_multiplier == INSTANCE MultiplierSM
  WITH mult_ready <- gen.mult_ready, in1 <- gen.gen_in1, in2 <- gen.gen_in2

States == {"RESET", "WAIT", "COMPUTE", "FINISHED"}

Registers ==
  [state: States, gen_in1: Word, gen_in2: Word, out: Word, mult_ready: Bit,
   gen_done: Bit]

Cleared ==
  [state |-> "RESET", gen_in1 |-> 0, gen_in2 |-> 0, out |-> 0,
   mult_ready |-> 0, gen_done |-> 0]

PowerUp == gen = Cleared /\ mult = gen_multiplier!Cleared

-----------------------------------------------------------------------------

NextState(s) == IF reset_n = 0 \/ reset_n' = 0 THEN "RESET" ELSE s

Reset ==
  /\ gen.state = "RESET"
  /\ gen' = [Cleared EXCEPT !.state = NextState("WAIT")]

Wait ==
  /\ gen.state = "WAIT"
  /\ gen' = [gen EXCEPT
       !.state = NextState(IF gen_ready = 1 THEN "COMPUTE" ELSE "WAIT")]

Compute ==
  /\ gen.state = "COMPUTE"
  /\ gen' = [gen EXCEPT
       !.state = NextState(IF mult.mult_done = 1 THEN "FINISHED" ELSE "COMPUTE"),
       !.gen_in1 = SubW(in1, decrement),
       !.gen_in2 = SubW(in2, decrement),
       !.mult_ready = 1]

Finished ==
  /\ gen.state = "FINISHED"
  /\ gen' = [gen EXCEPT
       !.state = NextState(IF gen_ready = 0 THEN "WAIT" ELSE "FINISHED"),
       !.out = mult.out,
       !.gen_done = 1]

Control == Reset \/ Wait \/ Compute \/ Finished

Clock == Control /\ gen_multiplier!Clock

=============================================================================
