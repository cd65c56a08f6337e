---------------------- MODULE ModularMultiplicationSpec ----------------------
(***************************************************************************)
(* modular_multiplication.sv closed with a parent that follows the         *)
(* handshake: what the unit promises to generate_d.sv, and that it follows *)
(* the handshake itself towards its multiplier and its modulo unit.        *)
(***************************************************************************)
EXTENDS ModularMultiplication

CONSTANTS Bases, Powers, Denominators   \* the operands the parent presents

ASSUME OperandsAssumption ==
  Bases \subseteq Word /\ Powers \subseteq Word /\ Denominators \subseteq Word

VARIABLE fresh

vars == <<reset_n, modmult_ready, base, power, denominator,
          modmult, mult, modular, fresh>>

client == INSTANCE UnitClient
            WITH ready <- modmult_ready, done <- modmult.modmult_done

Init ==
  /\ client!Init
  /\ modmult = Cleared
  /\ ClearedUnits
  /\ base \in Bases
  /\ power \in Powers
  /\ denominator \in Denominators

Operands ==
  \/ client!Serving /\ UNCHANGED <<base, power, denominator>>
  \/ /\ ~client!Serving
     /\ base' \in Bases
     /\ power' \in Powers
     /\ denominator' \in Denominators

Next ==
  /\ client!Drive
  /\ Operands
  /\ Clock

Spec == Init /\ [][Next]_vars

\* A clock edge at which the parent leaves the ports alone.
Edge ==
  /\ client!Hold
  /\ UNCHANGED <<base, power, denominator>>
  /\ Clock

-----------------------------------------------------------------------------

\* When the parent sees modmult_done, result is the remainder of the low word
\* of base * power, for the operands it presented, although the product is
\* handed over to the modulo unit after mult_ready has been lowered.
ResidueCorrect ==
  client!Asked /\ modmult.modmult_done = 1 /\ power < Radix - 1 =>
    /\ denominator > 0
    /\ modmult.result = ((base * power) % Radix) % denominator

\* A unit is fresh when it is in reset or has not been started.
MultiplierFresh ==
  \/ reset_n = 0
  \/ /\ modmult.mult_ready = 0
     /\ mult.state \in {"RESET", "WAIT"}
     /\ mult.mult_done = 0

ModularFresh ==
  \/ reset_n = 0
  \/ /\ modmult.modular_ready = 0
     /\ modular.state \in {"RESET", "WAIT"}
     /\ modular.modular_done = 0

\* Towards mult0 the controller is a parent as MultiplierSpec assumes it: one
\* request for each reset, ready held until mult_done, d and e stable
\* meanwhile.
MultiplierContract ==
  INSTANCE MultiplierSpec
    WITH mult_ready <- modmult.mult_ready, in1 <- modmult.d, in2 <- modmult.e,
         fresh <- MultiplierFresh

\* Towards modular0 it is a parent as ModularSpec assumes it; the numerator is
\* the product, which is final before modular_ready is raised.
ModularContract ==
  INSTANCE ModularSpec
    WITH modular_ready <- modmult.modular_ready,
         numerator <- mult.out, denominator <- modmult.phi,
         fresh <- ModularFresh

=============================================================================
