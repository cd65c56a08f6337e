--------------------------- MODULE MultiplierSpec ---------------------------
(***************************************************************************)
(* multiplier_sm.sv closed with a parent that follows the handshake: what  *)
(* the unit promises to phi_gen.sv, n_gen.sv, modular_multiplication.sv    *)
(* and modular_exponentiation.sv.                                          *)
(***************************************************************************)
EXTENDS MultiplierSM

VARIABLE fresh

vars == <<reset_n, mult_ready, in1, in2, mult, fresh>>

client == INSTANCE UnitClient WITH ready <- mult_ready, done <- mult.mult_done

Init ==
  /\ client!Init
  /\ mult = Cleared
  /\ in1 \in Word
  /\ in2 \in Word

Operands ==
  \/ client!Serving /\ UNCHANGED <<in1, in2>>
  \/ ~client!Serving /\ in1' \in Word /\ in2' \in Word

Next ==
  /\ client!Drive
  /\ Operands
  /\ Clock

Spec == Init /\ [][Next]_vars

\* A clock edge at which the parent leaves the ports alone.
Edge ==
  /\ client!Hold
  /\ UNCHANGED <<in1, in2>>
  /\ Clock

\* The clock of the device never stops; that the parent resets a unit that
\* does not answer is not assumed.
FairSpec == Spec /\ WF_vars(Edge)

-----------------------------------------------------------------------------

TypeOK ==
  /\ reset_n \in Bit
  /\ mult_ready \in Bit
  /\ in1 \in Word
  /\ in2 \in Word
  /\ mult \in Registers
  /\ fresh \in BOOLEAN

\* The answer the parent sees: the low word of the product.  When in2 is the
\* largest word, in2 + 1 wraps to 0, no addition is made and out stays 0
\* (multiplier_sm.sv 38-43).
Product(a, b) == IF b = Radix - 1 THEN 0 ELSE (a * b) % Radix

\* When the parent sees mult_done, out is the product of the operands it
\* presented, neither one addition short nor one too many, and nothing of an
\* earlier request is left in it.
ProductCorrect ==
  client!Asked /\ mult.mult_done = 1 => mult.out = Product(in1, in2)

\* out keeps the answer once mult_done is up, also after mult_ready is
\* lowered and the operands have changed: modular_exponentiation.sv and
\* modular_multiplication.sv feed it to the modulo unit only then.
ProductKept ==
  [][mult.mult_done = 1 /\ reset_n = 1 =>
       mult'.out = mult.out /\ mult'.mult_done = 1]_vars

\* A request is answered unless a reset cuts it short; for the largest in2
\* only after counter has wrapped around.
ProductArrives == client!Asked ~> (mult.mult_done = 1 \/ reset_n = 0)

-----------------------------------------------------------------------------
(* The inductive strengthening of ProductCorrect. *)

\* Reset reaches the state register and counter at once and the other
\* registers at the next edge; a unit that has been reset and not started
\* starts from zero.
ResetClears ==
  /\ reset_n = 0 => mult.state = "RESET" /\ mult.counter = 0
  /\ reset_n = 1 /\ fresh => /\ mult_ready = 0
                             /\ mult.state \in {"RESET", "WAIT"}
                             /\ mult.mult_done = 0
                             /\ mult.out = 0
                             /\ mult.counter = 0

\* While a request is served, out holds one summand less than counter says
\* in MULTIPLY_LOOP_0 and temp_sum holds as many as counter says in
\* MULTIPLY_LOOP_1.
LoopInvariant ==
  client!Asked =>
    /\ mult.state \in {"RESET", "WAIT"} =>
         mult.mult_done = 0 /\ mult.out = 0 /\ mult.counter = 0
    /\ mult.mult_done = 1 => mult.state = "MULTIPLY_DONE"
    /\ in2 = Radix - 1 => /\ mult.out = 0
                          /\ mult.state # "MULTIPLY_LOOP_1"
    /\ in2 < Radix - 1 =>
         /\ mult.state = "MULTIPLY_LOOP_0" =>
              /\ mult.counter \in 1 .. in2 + 1
              /\ mult.out = (in1 * (mult.counter - 1)) % Radix
         /\ mult.state = "MULTIPLY_LOOP_1" =>
              /\ mult.counter \in 1 .. in2
              /\ mult.temp_sum = (in1 * mult.counter) % Radix
         /\ mult.state = "MULTIPLY_DONE" => mult.out = (in1 * in2) % Radix

\* Outside a reset an answer that is up was computed in MULTIPLY_DONE, and
\* the unit is not started again.
AnsweredIsIdle ==
  reset_n = 1 /\ mult.mult_done = 1 =>
    /\ mult.state \in {"MULTIPLY_DONE", "WAIT"}
    /\ mult.state = "WAIT" => mult_ready = 0 /\ ~fresh

IInv == TypeOK /\ ResetClears /\ LoopInvariant /\ AnsweredIsIdle

=============================================================================
