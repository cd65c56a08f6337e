--------------------------- MODULE ProductGenSpec ---------------------------
(***************************************************************************)
(* phi_gen.sv and n_gen.sv closed with a parent that follows the           *)
(* handshake: the product of the two primes, or of their predecessors,     *)
(* that they promise to io_module.sv.                                      *)
(***************************************************************************)
EXTENDS ProductGen, UnitAnswers

CONSTANT Primes   \* the values presented

VARIABLE fresh

vars == <<decrement, reset_n, gen_ready, in1, in2, gen, mult, fresh>>

client == INSTANCE UnitClient WITH ready <- gen_ready, done <- gen.gen_done

Init ==
  /\ decrement \in Bit
  /\ client!Init
  /\ PowerUp
  /\ in1 \in Primes
  /\ in2 \in Primes

Operands ==
  \/ client!Serving /\ UNCHANGED <<in1, in2>>
  \/ ~client!Serving /\ in1' \in Primes /\ in2' \in Primes

Next ==
  /\ client!Drive
  /\ Operands
  /\ Clock
  /\ UNCHANGED decrement

Spec == Init /\ [][Next]_vars

\* A clock edge at which the parent leaves the ports alone.
Edge ==
  /\ client!Hold
  /\ UNCHANGED <<decrement, in1, in2>>
  /\ Clock

-----------------------------------------------------------------------------

\* Towards the multiplier the unit is a parent as MultiplierSpec assumes it,
\* although it loads gen_in1 and gen_in2 again at every edge in COMPUTE.
MultiplierContract ==
  INSTANCE MultiplierSpec
    WITH mult_ready <- gen.mult_ready, in1 <- gen.gen_in1, in2 <- gen.gen_in2,
         fresh <- \/ reset_n = 0
                  \/ /\ gen.mult_ready = 0
                     /\ mult.state \in {"RESET", "WAIT"}
                     /\ mult.mult_done = 0

\* arg is <<decrement, in1, in2>>
GenAnswers(arg) ==
  LET factors == <<arg[2], arg[3]>>
  IN  IF arg[1] = 1 THEN PhiAnswers(factors) ELSE NAnswers(factors)

\* What is seen of the unit through its done flag.
Status ==
  CASE gen.state = "RESET" -> "RESET"
    [] gen.state = "WAIT" /\ gen.gen_done = 0 -> "WAIT"
    [] gen.state = "WAIT" /\ gen.gen_done = 1 -> "SPENT"
    [] gen.state \notin {"RESET", "WAIT"} /\ gen.gen_done = 1 -> "FINISHED"
    [] OTHER -> "BUSY"

Unit == [status |-> Status,
         result |-> IF gen.gen_done = 1 THEN gen.out ELSE 0,
         done |-> gen.gen_done]

\* The unit is a ComputeUnit: it waits, computes on the operands presented and
\* shows one allowed answer until the next reset.
ComputeUnitView ==
  INSTANCE ComputeUnit
    WITH Answers <- GenAnswers, ready <- gen_ready, arg <- <<decrement, in1, in2>>,
         unit <- Unit

=============================================================================
