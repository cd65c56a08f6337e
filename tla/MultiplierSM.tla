---------------------------- MODULE MultiplierSM ----------------------------
(***************************************************************************)
(* multiplier_sm.sv: the product of in1 and in2 by repeated addition.      *)
(* in1 and in2 are read at every edge, never latched; counter has the      *)
(* asynchronous reset of the state register, the other registers are       *)
(* cleared by a clock in RESET.                                            *)
(***************************************************************************)
EXTENDS Words

VARIABLES
  reset_n, mult_ready, in1, in2,
  mult

States == {"RESET", "WAIT", "MULTIPLY_LOOP_0", "MULTIPLY_LOOP_1",
           "MULTIPLY_DONE"}

Registers ==
  [state: States, counter: Word, temp_sum: Word, out: Word, mult_done: Bit]

Cleared ==
  [state |-> "RESET", counter |-> 0, temp_sum |-> 0, out |-> 0,
   mult_done |-> 0]

-----------------------------------------------------------------------------

NextState(s) == IF reset_n = 0 \/ reset_n' = 0 THEN "RESET" ELSE s

\* counter is incremented at the edge that enters or stays in
\* MULTIPLY_LOOP_0, because state is assigned before it is tested.
Counter(s) ==
  CASE NextState(s) = "RESET"           -> 0
    [] NextState(s) = "MULTIPLY_LOOP_0" -> AddW(mult.counter, 1)
    [] OTHER                            -> mult.counter

\* Mutant: the sum survives a reset.
ResetKeepsSum ==
  /\ mult.state = "RESET"
  /\ mult' = [Cleared EXCEPT !.state = NextState("WAIT"),
                             !.counter = Counter("WAIT"),
                             !.out = mult.out]

Reset ==
  /\ mult.state = "RESET"
  /\ mult' = [Cleared EXCEPT !.state = NextState("WAIT"),
                             !.counter = Counter("WAIT")]

\* Mutant: waiting withdraws the answer.
WaitWithdraws ==
  LET s == IF mult_ready = 1 THEN "MULTIPLY_LOOP_0" ELSE "WAIT"
  IN  /\ mult.state = "WAIT"
      /\ mult' = [mult EXCEPT !.state = NextState(s), !.counter = Counter(s),
                              !.mult_done = 0]

Wait ==
  LET s == IF mult_ready = 1 THEN "MULTIPLY_LOOP_0" ELSE "WAIT"
  IN  /\ mult.state = "WAIT"
      /\ mult' = [mult EXCEPT !.state = NextState(s), !.counter = Counter(s)]

\* Mutant: the limit is in2, as if counter started from 0.
MultiplyLoop0Short ==
  LET s == CASE mult.counter = in2 -> "MULTIPLY_DONE"
             [] mult.counter < in2 -> "MULTIPLY_LOOP_1"
             [] OTHER              -> "MULTIPLY_LOOP_0"
  IN  /\ mult.state = "MULTIPLY_LOOP_0"
      /\ mult' = [mult EXCEPT !.state = NextState(s), !.counter = Counter(s),
                              !.temp_sum = AddW(mult.out, in1)]

\* Mutant: no exit when counter equals the limit.
MultiplyLoop0NoExit ==
  LET s == IF mult.counter < AddW(in2, 1) THEN "MULTIPLY_LOOP_1" ELSE "MULTIPLY_LOOP_0"
  IN  /\ mult.state = "MULTIPLY_LOOP_0"
      /\ mult' = [mult EXCEPT !.state = NextState(s), !.counter = Counter(s),
                              !.temp_sum = AddW(mult.out, in1)]

MultiplyLoop0 ==
  LET limit == AddW(in2, 1)
      s == CASE mult.counter = limit -> "MULTIPLY_DONE"
             [] mult.counter < limit -> "MULTIPLY_LOOP_1"
             [] OTHER                -> "MULTIPLY_LOOP_0"
  IN  /\ mult.state = "MULTIPLY_LOOP_0"
      /\ mult' = [mult EXCEPT !.state = NextState(s), !.counter = Counter(s),
                              !.temp_sum = AddW(mult.out, in1)]

MultiplyLoop1 ==
  /\ mult.state = "MULTIPLY_LOOP_1"
  /\ mult' = [mult EXCEPT !.state = NextState("MULTIPLY_LOOP_0"),
                          !.counter = Counter("MULTIPLY_LOOP_0"),
                          !.out = mult.temp_sum]

MultiplyDone ==
  LET s == IF mult_ready = 0 THEN "WAIT" ELSE "MULTIPLY_DONE"
  IN  /\ mult.state = "MULTIPLY_DONE"
      /\ mult' = [mult EXCEPT !.state = NextState(s), !.counter = Counter(s),
                              !.mult_done = 1]

Clock == Reset \/ Wait \/ MultiplyLoop0 \/ MultiplyLoop1 \/ MultiplyDone

=============================================================================
