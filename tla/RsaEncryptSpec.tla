--------------------------- MODULE RsaEncryptSpec ---------------------------
(***************************************************************************)
(* rsa_encrypt.sv closed with a parent that follows the handshake: the     *)
(* ciphertext, or the decrypted text, it promises to io_module.sv.         *)
(***************************************************************************)
EXTENDS RsaEncrypt, UnitAnswers

CONSTANTS Texts, Exponents, Moduli   \* the operands presented

VARIABLE fresh

vars == <<reset_n, compute, M, e, n, rsa, modexp, mult, modular, final, fresh>>

client == INSTANCE UnitClient WITH ready <- compute, done <- rsa.encrypt_done

Init ==
  /\ client!Init
  /\ PowerUp
  /\ M \in Texts
  /\ e \in Exponents
  /\ n \in Moduli

Operands ==
  \/ client!Serving /\ UNCHANGED <<M, e, n>>
  \/ /\ ~client!Serving
     /\ M' \in Texts
     /\ e' \in Exponents
     /\ n' \in Moduli

Next ==
  /\ client!Drive
  /\ Operands
  /\ Clock

Spec == Init /\ [][Next]_vars

\* A clock edge at which the parent leaves the ports alone.
Edge ==
  /\ client!Hold
  /\ UNCHANGED <<M, e, n>>
  /\ Clock

-----------------------------------------------------------------------------

\* Towards me0 the unit is a parent as ModularExponentiationSpec assumes it,
\* with M, e and n, which come straight from its own ports, stable until
\* modexp_done.
ModexpContract ==
  INSTANCE ModularExponentiationSpec
    WITH modexp_ready <- rsa.modexp_ready, base <- rsa.Cin, power <- M,
         denominator <- n,
         Bases <- Word, Powers <- Word, Exponents <- Word, Denominators <- Word,
         fresh <- \/ reset_n = 0
                  \/ /\ rsa.modexp_ready = 0
                     /\ modexp.state \in {"RESET", "WAIT"}
                     /\ modexp.modexp_done = 0

\* The unit is a ComputeUnit: seen through its done flag it waits, computes on
\* the operands presented and shows one allowed answer until the next reset.
ComputeUnitView ==
  INSTANCE ComputeUnit
    WITH Answers <- PowerAnswers, ready <- compute, arg <- <<M, e, n>>,
         unit <- [status |-> CASE rsa.state = "RESET" -> "RESET"
                               [] rsa.state = "WAIT" /\ rsa.encrypt_done = 0 -> "WAIT"
                               [] rsa.state = "WAIT" /\ rsa.encrypt_done = 1 -> "SPENT"
                               [] rsa.state \notin {"RESET", "WAIT"} /\ rsa.encrypt_done = 1
                                    -> "FINISHED"
                               [] OTHER ->
                                    IF PowerAnswers(<<M, e, n>>) = {} THEN "STUCK" ELSE "BUSY",
                  result |-> IF rsa.encrypt_done = 1 THEN rsa.C ELSE 0,
                  done |-> rsa.encrypt_done]

=============================================================================
