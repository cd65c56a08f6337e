---------------------------- MODULE ComputeUnit ----------------------------
(***************************************************************************)
(* What io_module.sv may assume of each of the units it starts and waits   *)
(* for: phi_gen, n_gen, generate_d and the two rsa_encrypt units.  After a *)
(* reset the unit waits, computes for any number of clocks on operands     *)
(* that do not change, and then shows its answer and its done flag until   *)
(* the next reset.  Answers(arg) is the set of answers allowed for the     *)
(* operands arg; started on operands for which it is empty, the unit is    *)
(* stuck until it is reset.                                                *)
(***************************************************************************)
EXTENDS Words

CONSTANT Answers(_)

VARIABLES
  reset_n, ready, arg,
  unit

Statuses == {"RESET", "WAIT", "BUSY", "STUCK", "FINISHED", "SPENT"}

Registers == [status: Statuses, result: Word, done: Bit]

Cleared == [status |-> "RESET", result |-> 0, done |-> 0]

NextStatus(s) == IF reset_n = 0 \/ reset_n' = 0 THEN "RESET" ELSE s

Reset ==
  /\ unit.status = "RESET"
  /\ unit' = [Cleared EXCEPT !.status = NextStatus("WAIT")]

Wait ==
  /\ unit.status = "WAIT"
  /\ unit' = [unit EXCEPT
       !.status = NextStatus(IF ready = 0 THEN "WAIT"
                             ELSE IF Answers(arg) = {} THEN "STUCK" ELSE "BUSY")]

Work ==
  /\ unit.status = "BUSY"
  /\ unit' = [unit EXCEPT !.status = NextStatus("BUSY")]

Stuck ==
  /\ unit.status = "STUCK"
  /\ unit' = [unit EXCEPT !.status = NextStatus("STUCK")]

Finish ==
  /\ unit.status = "BUSY"
  /\ \E v \in Answers(arg) :
       unit' = [status |-> NextStatus("FINISHED"), result |-> v, done |-> 1]

\* Once the request is withdrawn the unit is spent: nothing is promised of a
\* second request before a reset.
Finished ==
  /\ unit.status = "FINISHED"
  /\ unit' = [unit EXCEPT
       !.status = NextStatus(IF ready = 0 THEN "SPENT" ELSE "FINISHED")]

Spent ==
  /\ unit.status = "SPENT"
  /\ unit' = [unit EXCEPT !.status = NextStatus("SPENT")]

Clock == Reset \/ Wait \/ Work \/ Stuck \/ Finish \/ Finished \/ Spent

vars == <<reset_n, ready, arg, unit>>

Init == unit = Cleared

Spec == Init /\ [][Clock]_vars

=============================================================================
