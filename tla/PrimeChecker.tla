---------------------------- MODULE PrimeChecker ----------------------------
(***************************************************************************)
(* prime_checker_sv.sv: trial division by the odd primes below 20.  The    *)
(* verdict is computed from the candidate on the port in the one clock of  *)
(* COMPUTE; prime_checker_done stays up until the next reset, also while   *)
(* the unit works on another candidate.                                    *)
(***************************************************************************)
EXTENDS Words

VARIABLES
  reset_n, prime_checker_ready, candidate,
  checker

States == {"RESET", "WAIT", "COMPUTE", "FINISHED"}

Registers == [state: States, isprime: Bit, prime_checker_done: Bit]

Cleared == [state |-> "RESET", isprime |-> 0, prime_checker_done |-> 0]

SmallPrimes == {3, 5, 7, 11, 13, 17, 19}

\* The last arm of the source, candidate == 0 | 2, is always taken: == binds
\* tighter than |.
Verdict(c) ==
  IF c % 2 = 1 /\ (c \in SmallPrimes \/ \A p \in SmallPrimes : c % p # 0)
  THEN 1 ELSE 0

-----------------------------------------------------------------------------

NextState(s) == IF reset_n = 0 \/ reset_n' = 0 THEN "RESET" ELSE s

Reset ==
  /\ checker.state = "RESET"
  /\ checker' = [Cleared EXCEPT !.state = NextState("WAIT")]

Wait ==
  /\ checker.state = "WAIT"
  /\ checker' = [checker EXCEPT
       !.state = NextState(IF prime_checker_ready = 1 THEN "COMPUTE" ELSE "WAIT")]

Compute ==
  /\ checker.state = "COMPUTE"
  /\ checker' = [checker EXCEPT !.state = NextState("FINISHED"),
                                !.isprime = Verdict(candidate)]

Finished ==
  /\ checker.state = "FINISHED"
  /\ checker' = [checker EXCEPT !.state = NextState("WAIT"),
                                !.prime_checker_done = 1]

Clock == Reset \/ Wait \/ Compute \/ Finished

=============================================================================
