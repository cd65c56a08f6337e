----------------------------- MODULE RsaEncrypt -----------------------------
(***************************************************************************)
(* rsa_encrypt.sv: M^e modulo n, by the exponentiation unit me0 started    *)
(* from Cin = 1 and a last reduction by the modulo unit mod0.  Both share  *)
(* its reset.  The chip has two of these units; the second is given the    *)
(* ciphertext and d and decrypts.                                          *)
(***************************************************************************)
EXTENDS Words

VARIABLES
  reset_n, compute, M, e, n,
  rsa, modexp, mult, modular, \* the controller, me0 and its two units
  final                       \* mod0

me0 == INSTANCE ModularExponentiation
  WITH modexp_ready <- rsa.modexp_ready, base <- rsa.Cin, power <- M,
       denominator <- n

mod0 == INSTANCE Modular
  WITH modular_ready <- rsa.modular_ready, numerator <- modexp.result,
       denominator <- n, modular <- final

States == {"RESET", "WAIT", "MOD_EXP_LOOP", "MODULAR", "FINISHED"}

Registers ==
  [state: States, Cin: Word, C: Word, modexp_ready: Bit, modular_ready: Bit,
   encrypt_done: Bit]

Cleared ==
  [state |-> "RESET", Cin |-> 1, C |-> 0, modexp_ready |-> 0,
   modular_ready |-> 0, encrypt_done |-> 0]

\* Registers are zero when the device has been configured.
PowerUp ==
  /\ rsa = [Cleared EXCEPT !.Cin = 0]
  /\ modexp = me0!Cleared
  /\ me0!ClearedUnits
  /\ final = mod0!Cleared

-----------------------------------------------------------------------------

NextState(s) == IF reset_n = 0 \/ reset_n' = 0 THEN "RESET" ELSE s

\* Mutant: Cin starts from 0.
ResetCinZero ==
  /\ rsa.state = "RESET"
  /\ rsa' = [Cleared EXCEPT !.state = NextState("WAIT"), !.Cin = 0]

Reset ==
  /\ rsa.state = "RESET"
  /\ rsa' = [Cleared EXCEPT !.state = NextState("WAIT")]

Wait ==
  /\ rsa.state = "WAIT"
  /\ rsa' = [rsa EXCEPT
       !.state = NextState(IF compute = 1 THEN "MOD_EXP_LOOP" ELSE "WAIT")]

ModExpLoop ==
  /\ rsa.state = "MOD_EXP_LOOP"
  /\ rsa' = [rsa EXCEPT
       !.state = NextState(IF modexp.modexp_done = 1
                           THEN "MODULAR" ELSE "MOD_EXP_LOOP"),
       !.modexp_ready = 1]

Modular ==
  /\ rsa.state = "MODULAR"
  /\ rsa' = [rsa EXCEPT
       !.state = NextState(IF final.modular_done = 1
                           THEN "FINISHED" ELSE "MODULAR"),
       !.modexp_ready = 0,
       !.modular_ready = 1]

Finished ==
  /\ rsa.state = "FINISHED"
  /\ rsa' = [rsa EXCEPT
       !.state = NextState(IF compute = 0 THEN "WAIT" ELSE "FINISHED"),
       !.modular_ready = 0,
       !.C = final.result,
       !.encrypt_done = 1]

Control == Reset \/ Wait \/ ModExpLoop \/ Modular \/ Finished

Clock == Control /\ me0!Clock /\ mod0!Clock

=============================================================================
