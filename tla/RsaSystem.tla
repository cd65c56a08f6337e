----------------------------- MODULE RsaSystem -----------------------------
(***************************************************************************)
(* final_project.sv: the program on the processor, io_module and the       *)
(* compute units it drives.  Program and hardware run asynchronously: a    *)
(* step is a statement of the program, an action of the user, or a clock   *)
(* edge of the hardware.  The prime checkers are those of their source;    *)
(* the other units are ComputeUnits with the answers of UnitAnswers, which *)
(* the specifications of the units are checked to implement.               *)
(***************************************************************************)
EXTENDS UnitAnswers

CONSTANTS Candidates, Exponents, Texts,   \* what the user enters
          MaxResets,    \* bound on presses of KEY[1], the hardware's reset
          MaxRestarts   \* bound on presses of KEY[0], the processor's reset

ASSUME EntriesAssumption ==
  Candidates \subseteq Int /\ Exponents \subseteq Int /\ Texts \subseteq Int

ASSUME BoundsAssumption == MaxResets \in Nat /\ MaxRestarts \in Nat

VARIABLES
  reset_n,                   \* KEY[1]
  to_hw_sig, to_hw_port,     \* the processor's output registers
  sw,                        \* the program
  io,                        \* io_module0
  checker1, checker2,        \* prime_checker_sv0, prime_checker_sv1
  phi_gen0, n_gen0, generate_d0, rsa_encrypt0, rsa_decrypt0,
  resets, restarts,          \* presses so far
  clean                      \* history: a session that started on hardware
                             \* in WAIT, and no key pressed since

hardware == <<reset_n, io, checker1, checker2, phi_gen0, n_gen0, generate_d0,
              rsa_encrypt0, rsa_decrypt0>>

vars == <<hardware, to_hw_sig, to_hw_port, sw, resets, restarts, clean>>

-----------------------------------------------------------------------------
(* The wires. *)

Program == INSTANCE Software
  WITH to_sw_sig <- io.to_sw_sig, to_sw_port <- io.to_sw_port

IoModule0 == INSTANCE IoModule
  WITH done <- [PRIME_1 |-> checker1.prime_checker_done,
                PRIME_2 |-> checker2.prime_checker_done,
                N |-> n_gen0.done, PHI |-> phi_gen0.done,
                GEND |-> generate_d0.done, ENCRYPTED |-> rsa_encrypt0.done,
                DECRYPTED |-> rsa_decrypt0.done],
       value <- [PRIME_1 |-> checker1.isprime, PRIME_2 |-> checker2.isprime,
                 N |-> n_gen0.result, PHI |-> phi_gen0.result,
                 GEND |-> generate_d0.result, ENCRYPTED |-> rsa_encrypt0.result,
                 DECRYPTED |-> rsa_decrypt0.result]

Checker1 == INSTANCE PrimeChecker
  WITH prime_checker_ready <- io.ready["PRIME_1"],
       candidate <- io.held["PRM1"], checker <- checker1

Checker2 == INSTANCE PrimeChecker
  WITH prime_checker_ready <- io.ready["PRIME_2"],
       candidate <- io.held["PRM2"], checker <- checker2

PhiGen == INSTANCE ComputeUnit
  WITH Answers <- PhiAnswers, ready <- io.ready["PHI"],
       arg <- <<io.held["PRM1"], io.held["PRM2"]>>, unit <- phi_gen0

NGen == INSTANCE ComputeUnit
  WITH Answers <- NAnswers, ready <- io.ready["N"],
       arg <- <<io.held["PRM1"], io.held["PRM2"]>>, unit <- n_gen0

GenerateD == INSTANCE ComputeUnit
  WITH Answers <- KeyAnswers, ready <- io.ready["GEND"],
       arg <- <<io.held["E"], phi_gen0.result>>, unit <- generate_d0

RsaEncrypt == INSTANCE ComputeUnit
  WITH Answers <- PowerAnswers, ready <- io.ready["ENCRYPTED"],
       arg <- <<io.held["PLAINTEXT"], io.held["E"], n_gen0.result>>,
       unit <- rsa_encrypt0

\* Mutant: the decrypting unit is given the public exponent.
DecryptOperandsPublic ==
  <<rsa_encrypt0.result, io.held["E"], n_gen0.result>>

\* The decrypting unit is fed from the encrypting one.
DecryptOperands ==
  <<rsa_encrypt0.result, generate_d0.result, n_gen0.result>>

RsaDecrypt == INSTANCE ComputeUnit
  WITH Answers <- PowerAnswers, ready <- io.ready["DECRYPTED"],
       arg <- DecryptOperands, unit <- rsa_decrypt0

-----------------------------------------------------------------------------

Init ==
  /\ reset_n = 1
  /\ to_hw_sig = 0
  /\ to_hw_port = 0
  /\ sw = Program!Boot
  /\ IoModule0!PowerUp
  /\ checker1 = Checker1!Cleared
  /\ checker2 = Checker2!Cleared
  /\ phi_gen0 = PhiGen!Cleared
  /\ n_gen0 = NGen!Cleared
  /\ generate_d0 = GenerateD!Cleared
  /\ rsa_encrypt0 = RsaEncrypt!Cleared
  /\ rsa_decrypt0 = RsaDecrypt!Cleared
  /\ resets = 0
  /\ restarts = 0
  /\ clean = FALSE

\* KEY[1] seen from one clock edge to the next.
KeepKey == UNCHANGED <<reset_n, resets, clean>>

PressKey ==
  /\ reset_n = 1
  /\ resets < MaxResets
  /\ reset_n' = 0
  /\ resets' = resets + 1
  /\ clean' = FALSE

ReleaseKey ==
  /\ reset_n = 0
  /\ reset_n' = 1
  /\ UNCHANGED <<resets, clean>>

\* One rising edge of CLOCK_50.
Tick ==
  /\ KeepKey \/ PressKey \/ ReleaseKey
  /\ IoModule0!Clock
  /\ Checker1!Clock
  /\ Checker2!Clock
  /\ PhiGen!Clock
  /\ NGen!Clock
  /\ GenerateD!Clock
  /\ RsaEncrypt!Clock
  /\ RsaDecrypt!Clock
  /\ UNCHANGED <<to_hw_sig, to_hw_port, sw, restarts>>

Statement ==
  /\ Program!Program
  /\ UNCHANGED <<hardware, resets, restarts, clean>>

Choice ==
  /\ Program!Option
  /\ clean' = (sw'.job = "PRM1" /\ io.phase = "WAIT" /\ reset_n = 1)
  /\ UNCHANGED <<hardware, resets, restarts>>

Entry ==
  /\ Program!Scan
  /\ UNCHANGED <<hardware, resets, restarts, clean>>

\* KEY[0] restarts the processor and clears its output registers.
Restart ==
  /\ restarts < MaxRestarts
  /\ restarts' = restarts + 1
  /\ sw' = Program!Boot
  /\ to_hw_sig' = 0
  /\ to_hw_port' = 0
  /\ clean' = FALSE
  /\ UNCHANGED <<hardware, resets>>

Next == Tick \/ Statement \/ Choice \/ Entry \/ Restart

Spec == Init /\ [][Next]_vars

=============================================================================
