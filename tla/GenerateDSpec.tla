---------------------------- MODULE GenerateDSpec ----------------------------
(***************************************************************************)
(* generate_d.sv closed with a parent that follows the handshake: the key  *)
(* it promises to io_module.sv.                                            *)
(***************************************************************************)
EXTENDS GenerateD, UnitAnswers

CONSTANTS Exponents, Totients   \* the public exponents and phi presented

VARIABLE fresh

vars == <<reset_n, compute, e, phi, gend, modmult, mult, modular, fresh>>

client == INSTANCE UnitClient WITH ready <- compute, done <- gend.generated_done

Init ==
  /\ client!Init
  /\ PowerUp
  /\ e \in Exponents
  /\ phi \in Totients

Operands ==
  \/ client!Serving /\ UNCHANGED <<e, phi>>
  \/ ~client!Serving /\ e' \in Exponents /\ phi' \in Totients

Next ==
  /\ client!Drive
  /\ Operands
  /\ Clock

Spec == Init /\ [][Next]_vars

\* A clock edge at which the parent leaves the ports alone.
Edge ==
  /\ client!Hold
  /\ UNCHANGED <<e, phi>>
  /\ Clock

-----------------------------------------------------------------------------

\* The candidates that pass the comparison with 1: none for a zero phi.
Inverses == {k \in 1 .. Radix - 2 : phi > 0 /\ ((e * k) % Radix) % phi = 1}

\* When the parent sees generated_done and no product below e * phi overflows, d
\* is the least inverse of e modulo phi: no candidate is skipped between the
\* pre-computed round of INIT_MODMULT and the loop, and the decrement undoes
\* the increment made before the comparison.  Nothing checks that e has an
\* inverse: when it has none, d is a number whose product has wrapped.
KeyCorrect ==
  client!Asked /\ gend.generated_done = 1 /\ e * phi < Radix =>
    /\ phi > 1
    /\ IF \E k \in 1 .. phi - 1 : (e * k) % phi = 1
       THEN /\ gend.d \in 1 .. phi - 1
            /\ (e * gend.d) % phi = 1
            /\ \A k \in 1 .. gend.d - 1 : (e * k) % phi # 1
       ELSE e * gend.d >= Radix

\* Towards mm0 the search is a parent as ModularMultiplicationSpec assumes it:
\* dholder moves on only when the residue has been read and the request
\* withdrawn, and each candidate finds the unit reset.  The one exception is
\* the edge at which reset_n arrives: e may be cleared there, while mm0 is
\* reset one clock later.
ModmultContract ==
  INSTANCE ModularMultiplicationSpec
    WITH reset_n <- gend.modmult_reset, modmult_ready <- gend.modmult_ready,
         base <- e, power <- gend.dholder, denominator <- phi,
         Bases <- Word, Powers <- Word, Denominators <- Word,
         fresh <- \/ gend.modmult_reset = 0
                  \/ /\ gend.modmult_ready = 0
                     /\ modmult.state \in {"RESET", "WAIT"}
                     /\ modmult.modmult_done = 0

\* What is seen of the unit through its done flag.
Status ==
  CASE gend.state = "RESET" -> "RESET"
    [] gend.state = "WAIT" /\ gend.generated_done = 0 -> "WAIT"
    [] gend.state = "WAIT" /\ gend.generated_done = 1 -> "SPENT"
    [] gend.state \notin {"RESET", "WAIT"} /\ gend.generated_done = 1 -> "FINISHED"
    [] OTHER -> IF KeyAnswers(<<e, phi>>) = {} THEN "STUCK" ELSE "BUSY"

Unit == [status |-> Status,
         result |-> IF gend.generated_done = 1 THEN gend.d ELSE 0,
         done |-> gend.generated_done]

\* The unit is a ComputeUnit: it waits, computes on the operands presented and
\* shows one allowed answer until the next reset.
ComputeUnitView ==
  INSTANCE ComputeUnit
    WITH Answers <- KeyAnswers, ready <- compute, arg <- <<e, phi>>, unit <- Unit

=============================================================================
