---------------------------- MODULE ModularSpec ----------------------------
(***************************************************************************)
(* modular.sv closed with a parent that follows the handshake: what the    *)
(* unit promises to modular_multiplication.sv, modular_exponentiation.sv   *)
(* and rsa_encrypt.sv.                                                     *)
(***************************************************************************)
EXTENDS Modular

VARIABLE fresh

vars == <<reset_n, modular_ready, numerator, denominator, modular, fresh>>

client == INSTANCE UnitClient
            WITH ready <- modular_ready, done <- modular.modular_done

Init ==
  /\ client!Init
  /\ modular = Cleared
  /\ numerator \in Word
  /\ denominator \in Word

Operands ==
  \/ client!Serving /\ UNCHANGED <<numerator, denominator>>
  \/ ~client!Serving /\ numerator' \in Word /\ denominator' \in Word

Next ==
  /\ client!Drive
  /\ Operands
  /\ Clock

Spec == Init /\ [][Next]_vars

\* A clock edge at which the parent leaves the ports alone.
Edge ==
  /\ client!Hold
  /\ UNCHANGED <<numerator, denominator>>
  /\ Clock

\* The clock of the device never stops; that the parent resets a unit that
\* does not answer is not assumed.
FairSpec == Spec /\ WF_vars(Edge)

-----------------------------------------------------------------------------

TypeOK ==
  /\ reset_n \in Bit
  /\ modular_ready \in Bit
  /\ numerator \in Word
  /\ denominator \in Word
  /\ modular \in Registers
  /\ fresh \in BOOLEAN

\* What the parent reads when it sees modular_done is the remainder of the
\* operands it presented, never the answer to an earlier request, although
\* modular_done stays up until the next reset (modular.sv 77-80).
RemainderCorrect ==
  client!Asked /\ modular.modular_done = 1 =>
    /\ denominator > 0
    /\ modular.result = numerator % denominator

\* A request with a nonzero denominator is answered unless a reset cuts it
\* short: the subtraction loop of MOD_INIT and MOD_ASSIGN ends.
RemainderArrives ==
  (client!Asked /\ denominator > 0) ~> (modular.modular_done = 1 \/ reset_n = 0)

-----------------------------------------------------------------------------
(* The inductive strengthening of RemainderCorrect. *)

\* Reset reaches the state register at once and clears modular_done at the
\* next edge; a unit that has been reset and not started has no answer up.
ResetClears ==
  /\ reset_n = 0 => modular.state = "RESET"
  /\ reset_n = 1 /\ fresh => /\ modular_ready = 0
                             /\ modular.state \in {"RESET", "WAIT"}
                             /\ modular.modular_done = 0

\* While a request is served the operands are the latched ones, and
\* subtraction keeps the remainder.
LoopInvariant ==
  client!Asked =>
    /\ modular.state \in {"RESET", "WAIT"} => modular.modular_done = 0
    /\ modular.modular_done = 1 => /\ modular.state = "MOD_DONE"
                                   /\ modular.result = modular.numerator_hold
    /\ modular.state \in {"MOD_INIT", "MOD_ASSIGN", "MOD_DONE"} =>
         /\ modular.denominator_hold = denominator
         /\ denominator > 0 =>
              modular.numerator_hold % denominator = numerator % denominator
    /\ modular.state = "MOD_ASSIGN" =>
         /\ modular.numerator_hold >= denominator
         /\ modular.sub_hold = modular.numerator_hold - denominator
    /\ modular.state = "MOD_DONE" => modular.numerator_hold < denominator

IInv == TypeOK /\ ResetClears /\ LoopInvariant

=============================================================================
