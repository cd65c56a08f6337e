---------------------------- MODULE UnitAnswers ----------------------------
(***************************************************************************)
(* The answers each compute unit may give, as sets of words for module     *)
(* ComputeUnit: the mathematical functions that phi_gen.sv, n_gen.sv,      *)
(* generate_d.sv and rsa_encrypt.sv are there to compute, with the limits  *)
(* their 32-bit registers set.                                             *)
(***************************************************************************)
EXTENDS Words

\* The multiplier adds nothing when its second factor is the largest word.
WordProduct(a, b) == IF b = Radix - 1 THEN 0 ELSE (a * b) % Radix

\* arg is <<prime1, prime2>>.  The predecessor of 0 is the largest word, so
\* that phi is 0 when the second prime is 0.
PhiAnswers(arg) == {WordProduct(SubW(arg[1], 1), SubW(arg[2], 1))}

NAnswers(arg) == {WordProduct(arg[1], arg[2])}

\* arg is <<e, phi>>: the least inverse of e, none for a zero phi.
KeyAnswers(arg) ==
  LET inverses == {k \in 1 .. Radix - 2 :
                     arg[2] > 0 /\ ((arg[1] * k) % Radix) % arg[2] = 1}
  IN  {k \in inverses : \A m \in inverses : k <= m}

\* base^exponent modulo n, reduced after every factor.
PowMod(base, exponent, n) ==
  LET power[i \in 0 .. exponent] ==
        IF i = 0 THEN 1 % n ELSE (power[i - 1] * base) % n
  IN  power[exponent]

\* arg is <<text, exponent, modulus>>: the power, when no product of the
\* exponentiation overflows; some word, when one may; none for modulus zero.
PowerAnswers(arg) ==
  CASE arg[3] = 0 -> {}
    [] arg[3] > 0 /\ arg[1] < Radix - 1 /\ (arg[3] - 1) * arg[1] < Radix ->
         {PowMod(arg[1], IF arg[2] = 0 THEN 1 ELSE arg[2], arg[3])}
    [] OTHER -> Word

=============================================================================
