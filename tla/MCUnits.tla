------------------------------ MODULE MCUnits ------------------------------
(***************************************************************************)
(* The compute units that are built from the multiplier and the modulo     *)
(* unit, for model checking: modular_multiplication, modular_exponentiation*)
(* generate_d, rsa_encrypt and phi_gen or n_gen, each with a parent that   *)
(* follows the handshake.  A behaviour is one of the unit that "which"     *)
(* names; the ports and registers it does not have are Off, a signal 0.    *)
(***************************************************************************)
EXTENDS ModularMultiplicationSpec

CONSTANTS
  ExpBases, ExpPowers, ExpExponents, ExpDenominators,    \* of modexp
  KeyExponents, Totients,                                \* of generate_d
  Texts, TextExponents, Moduli,                          \* of rsa_encrypt
  Primes,                                                \* of phi_gen and n_gen
  Off

ASSUME UnitOperandsAssumption ==
  \A S \in {ExpBases, ExpPowers, ExpExponents, ExpDenominators, KeyExponents,
             Totients, Texts, TextExponents, Moduli, Primes} : S \subseteq Word

VARIABLES
  which,
  modexp_ready, compute, gen_ready,
  e, phi, M, n, in1, in2, decrement,
  modexp, gend, rsa, gen, final

Modexp == INSTANCE ModularExponentiationSpec
            WITH Bases <- ExpBases, Powers <- ExpPowers,
                 Exponents <- ExpExponents, Denominators <- ExpDenominators
Key == INSTANCE GenerateDSpec WITH Exponents <- KeyExponents
Encrypt == INSTANCE RsaEncryptSpec WITH Exponents <- TextExponents
Gen == INSTANCE ProductGenSpec

mcvars == <<which, vars, modexp_ready, compute, gen_ready, e, phi, M, n, in1, in2,
            decrement, modexp, gend, rsa, gen, final>>

-----------------------------------------------------------------------------
(* What a unit does not have                                               *)

NoModmult == modmult_ready = 0 /\ power = Off
NoModexp == modexp_ready = 0
NoKey == phi = Off /\ gend = Off
NoEncrypt == M = Off /\ n = Off /\ rsa = Off /\ final = Off
NoGen == gen_ready = 0 /\ in1 = Off /\ in2 = Off /\ decrement = Off /\ gen = Off
NoOperands == base = Off /\ denominator = Off

MCInit ==
  \/ /\ which = "modmult" /\ Init
     /\ NoModexp /\ NoKey /\ NoEncrypt /\ NoGen
     /\ compute = 0 /\ e = Off /\ modexp = Off
  \/ /\ which = "modexp" /\ Modexp!Init
     /\ modmult_ready = 0 /\ NoKey /\ NoEncrypt /\ NoGen
     /\ compute = 0 /\ modmult = Off
  \/ /\ which = "generate_d" /\ Key!Init
     /\ NoModmult /\ NoModexp /\ NoEncrypt /\ NoGen /\ NoOperands
     /\ modexp = Off
  \/ /\ which = "encrypt" /\ Encrypt!Init
     /\ NoModmult /\ NoModexp /\ NoKey /\ NoGen /\ NoOperands
     /\ modmult = Off
  \/ /\ which = "product_gen" /\ Gen!Init
     /\ NoModmult /\ NoModexp /\ NoKey /\ NoEncrypt /\ NoOperands
     /\ compute = 0 /\ e = Off /\ modmult = Off /\ modexp = Off /\ modular = Off

modmultLacks == <<modexp_ready, compute, gen_ready, e, phi, M, n, in1, in2, decrement,
                  modexp, gend, rsa, gen, final>>
modexpLacks == <<modmult_ready, compute, gen_ready, phi, M, n, in1, in2, decrement,
                 modmult, gend, rsa, gen, final>>
keyLacks == <<modmult_ready, modexp_ready, gen_ready, base, power, denominator,
              M, n, in1, in2, decrement, modexp, rsa, gen, final>>
encryptLacks == <<modmult_ready, modexp_ready, gen_ready, base, power, denominator,
                  phi, in1, in2, decrement, modmult, gend, gen>>
genLacks == <<modmult_ready, modexp_ready, compute, base, power, denominator,
              e, phi, M, n, modmult, modexp, modular, gend, rsa, final>>

MCNext ==
  /\ UNCHANGED which
  /\ \/ which = "modmult" /\ Next /\ UNCHANGED modmultLacks
     \/ which = "modexp" /\ Modexp!Next /\ UNCHANGED modexpLacks
     \/ which = "generate_d" /\ Key!Next /\ UNCHANGED keyLacks
     \/ which = "encrypt" /\ Encrypt!Next /\ UNCHANGED encryptLacks
     \/ which = "product_gen" /\ Gen!Next /\ UNCHANGED genLacks

\* A clock edge at which the parent leaves the ports alone.
MCEdge ==
  /\ UNCHANGED which
  /\ \/ which = "modmult" /\ Edge /\ UNCHANGED modmultLacks
     \/ which = "modexp" /\ Modexp!Edge /\ UNCHANGED modexpLacks
     \/ which = "generate_d" /\ Key!Edge /\ UNCHANGED keyLacks
     \/ which = "encrypt" /\ Encrypt!Edge /\ UNCHANGED encryptLacks
     \/ which = "product_gen" /\ Gen!Edge /\ UNCHANGED genLacks

\* The clock of the device never stops; that the parent resets a unit that
\* does not answer is not assumed.
MCSpec == MCInit /\ [][MCNext]_mcvars /\ WF_mcvars(MCEdge)

-----------------------------------------------------------------------------

\* modular_exponentiation.sv computes base * power^e modulo the denominator.
PowerCorrect == which = "modexp" => Modexp!PowerCorrect

\* generate_d.sv finds the least inverse of the public exponent.
KeyCorrect == which = "generate_d" => Key!KeyCorrect

\* Every unit answers a request that has an answer, unless it is reset.
UnitsAnswer ==
  /\ (which = "modmult" /\ client!Asked /\ denominator > 0) ~>
       (which = "modmult" /\ (modmult.modmult_done = 1 \/ reset_n = 0))
  /\ (which = "modexp" /\ Modexp!client!Asked /\ denominator > 0) ~>
       (which = "modexp" /\ (modexp.modexp_done = 1 \/ reset_n = 0))
  /\ (which = "generate_d" /\ Key!client!Asked /\ phi > 0 /\ Key!Inverses # {}) ~>
       (which = "generate_d" /\ (gend.generated_done = 1 \/ reset_n = 0))
  /\ (which = "encrypt" /\ Encrypt!client!Asked /\ n > 0) ~>
       (which = "encrypt" /\ (rsa.encrypt_done = 1 \/ reset_n = 0))
  /\ (which = "product_gen" /\ Gen!client!Asked) ~>
       (which = "product_gen" /\ (gen.gen_done = 1 \/ reset_n = 0))

\* Towards the units it starts, every unit is a parent as they assume it: one
\* request for each reset, ready held until done, the operands stable meanwhile.
\* At the edge at which reset_n falls generate_d.sv may lose e a clock before it
\* resets mm0.
UnitsAreParents ==
  /\ which = "modmult" => MultiplierContract!Init /\ ModularContract!Init
  /\ which = "modexp" => Modexp!MultiplierContract!Init /\ Modexp!ModularContract!Init
  /\ which = "generate_d" => Key!ModmultContract!Init
  /\ which = "encrypt" => Encrypt!ModexpContract!Init
  /\ which = "product_gen" => Gen!MultiplierContract!Init
  /\ [][/\ which = "modmult" => /\ [MultiplierContract!Next]_(MultiplierContract!vars)
                                /\ [ModularContract!Next]_(ModularContract!vars)
        /\ which = "modexp" =>
             /\ [Modexp!MultiplierContract!Next]_(Modexp!MultiplierContract!vars)
             /\ [Modexp!ModularContract!Next]_(Modexp!ModularContract!vars)
        /\ which = "generate_d" /\ reset_n' = 1 =>
             [Key!ModmultContract!Next]_(Key!ModmultContract!vars)
        /\ which = "encrypt" => [Encrypt!ModexpContract!Next]_(Encrypt!ModexpContract!vars)
        /\ which = "product_gen" =>
             [Gen!MultiplierContract!Next]_(Gen!MultiplierContract!vars)]_mcvars

\* The three units that io_module.sv starts implement ComputeUnit: seen through
\* the done flag they wait, compute on the operands presented and show one
\* allowed answer until the next reset.
UnitsAreComputeUnits ==
  /\ which = "generate_d" => Key!ComputeUnitView!Init
  /\ which = "encrypt" => Encrypt!ComputeUnitView!Init
  /\ which = "product_gen" => Gen!ComputeUnitView!Init
  /\ [][/\ which = "generate_d" => [Key!ComputeUnitView!Clock]_(Key!ComputeUnitView!vars)
        /\ which = "encrypt" => [Encrypt!ComputeUnitView!Clock]_(Encrypt!ComputeUnitView!vars)
        /\ which = "product_gen" => [Gen!ComputeUnitView!Clock]_(Gen!ComputeUnitView!vars)]_mcvars

=============================================================================
