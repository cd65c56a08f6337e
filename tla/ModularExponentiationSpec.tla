---------------------- MODULE ModularExponentiationSpec ----------------------
(***************************************************************************)
(* modular_exponentiation.sv closed with a parent that follows the         *)
(* handshake: what the unit promises to rsa_encrypt.sv, and that it        *)
(* follows the handshake itself towards its multiplier and modulo unit.    *)
(***************************************************************************)
EXTENDS ModularExponentiation

CONSTANTS Bases, Powers, Exponents, Denominators   \* the operands presented

VARIABLE fresh

vars == <<reset_n, modexp_ready, base, power, e, denominator,
          modexp, mult, modular, fresh>>

client == INSTANCE UnitClient
            WITH ready <- modexp_ready, done <- modexp.modexp_done

Init ==
  /\ client!Init
  /\ modexp = Cleared
  /\ ClearedUnits
  /\ base \in Bases
  /\ power \in Powers
  /\ e \in Exponents
  /\ denominator \in Denominators

Operands ==
  \/ client!Serving /\ UNCHANGED <<base, power, e, denominator>>
  \/ /\ ~client!Serving
     /\ base' \in Bases
     /\ power' \in Powers
     /\ e' \in Exponents
     /\ denominator' \in Denominators

Next ==
  /\ client!Drive
  /\ Operands
  /\ Clock

Spec == Init /\ [][Next]_vars

\* A clock edge at which the parent leaves the ports alone.
Edge ==
  /\ client!Hold
  /\ UNCHANGED <<base, power, e, denominator>>
  /\ Clock

-----------------------------------------------------------------------------

\* No intermediate product of the request on the ports needs a second word.
Fits == base * power < Radix /\ (denominator - 1) * power < Radix

\* When the parent sees modexp_done, result is base * power^e reduced by
\* denominator, with every one of the e rounds done once.  One round is done
\* even for e = 0, because the counter is compared after the round.
PowerCorrect ==
  client!Asked /\ modexp.modexp_done = 1 /\ Fits /\ power < Radix - 1 =>
    /\ denominator > 0
    /\ modexp.result =
         (base * power ^ (IF e = 0 THEN 1 ELSE e)) % denominator

\* Towards mult0 the controller is a parent as MultiplierSpec assumes it:
\* the two-edge reset pulse is long enough to clear the unit, so every round
\* is a request of its own, with C and M stable until mult_done.
MultiplierContract ==
  INSTANCE MultiplierSpec
    WITH reset_n <- modexp.multiplier_reset, mult_ready <- modexp.mult_ready,
         in1 <- modexp.C, in2 <- modexp.M,
         fresh <- \/ modexp.multiplier_reset = 0
                  \/ /\ modexp.mult_ready = 0
                     /\ mult.state \in {"RESET", "WAIT"}
                     /\ mult.mult_done = 0

\* Towards modular0 it is a parent as ModularSpec assumes it: the product it
\* hands over is final, and C changes only when the remainder has been read.
ModularContract ==
  INSTANCE ModularSpec
    WITH reset_n <- modexp.modulo_reset, modular_ready <- modexp.modular_ready,
         numerator <- mult.out, denominator <- modexp.n,
         fresh <- \/ modexp.modulo_reset = 0
                  \/ /\ modexp.modular_ready = 0
                     /\ modular.state \in {"RESET", "WAIT"}
                     /\ modular.modular_done = 0

=============================================================================
