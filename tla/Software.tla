------------------------------ MODULE Software ------------------------------
(***************************************************************************)
(* software/rsa/rsa_intonly.c on the Nios II: main and hardware_encrypt,   *)
(* one C statement at a time.  A job is the part of the program that talks *)
(* to one channel of the hardware; its steps are the statements of that    *)
(* part, in the program's order.  int values are entered by the user; the  *)
(* PIO registers to_hw_sig and to_hw_port hold what was last written.      *)
(***************************************************************************)
EXTENDS Words

CONSTANTS
  Candidates,   \* what the user enters for a prime
  Exponents,    \* for e
  Texts         \* for the plain text

VARIABLES
  to_sw_sig, to_sw_port,     \* input ports of the processor
  to_hw_sig, to_hw_port,     \* its output registers
  sw

Loads == {"PRM1", "PRM2", "E", "PLAINTEXT"}

Fetches == {"PRIME_1", "PRIME_2", "N", "PHI", "GEND", "ENCRYPTED", "DECRYPTED"}

Jobs == {"MENU"} \cup Loads \cup Fetches

Steps ==
  {"CLEAR", "CLEAR_PORT", "POLL_RESET", "OPTION",        \* main
   "SCAN", "PORT", "POLL_READ", "DROP", "POLL_ACK",      \* loads
   "POLL_SEND_TO", "CONFIRM", "POLL_GET_FROM", "TAKE",   \* fetches
   "POLL_SEND_BACK", "READ_PORT", "ACKNOWLEDGE", "POLL_GOT_ACK",
   "COMMAND", "RELEASE", "POLL_WAIT"}                    \* several

\* entered stands for the locals p1, p2, pk and pt, fetched for isprime1,
\* isprime2, n, phi, d, ct and new_pt.
Locals ==
  [job: Jobs, step: Steps, entered: [Loads -> Int], fetched: [Fetches -> Int]]

Boot ==
  [job |-> "MENU", step |-> "CLEAR", entered |-> [c \in Loads |-> 0],
   fetched |-> [c \in Fetches |-> 0]]

-----------------------------------------------------------------------------

\* A word of the bus as the program's int.
ToInt(w) == IF 2 * w >= Radix THEN w - Radix ELSE w

\* Nothing between 2 and number - 1 divides number: also true of 1, of 0 and
\* of negative numbers.
prime_checker(number) == \A i \in 2 .. number - 1 : number % i # 0

e_checker(e, phi) == prime_checker(e) /\ e < phi

-----------------------------------------------------------------------------

\* The signal a writing step writes.
Written(job, step) ==
  CASE step = "CLEAR"       -> 0
    [] step = "DROP"        -> 0
    [] step = "TAKE"        -> 1
    [] step = "ACKNOWLEDGE" -> 2
    [] step = "CONFIRM"     -> 5
    [] step = "RELEASE"     -> 8
    [] step = "COMMAND"     ->
         [PRM1 |-> 1, PRIME_1 |-> 11, PRM2 |-> 2, PRIME_2 |-> 12, N |-> 9,
          PHI |-> 3, E |-> 4, GEND |-> 10, PLAINTEXT |-> 5, ENCRYPTED |-> 6,
          DECRYPTED |-> 7][job]

\* The signal a polling step waits for.
Awaited(job, step) ==
  CASE step = "POLL_RESET"     -> 3
    [] step = "POLL_READ"      -> 1
    [] step = "POLL_ACK"       -> IF job = "PRM1" THEN 2 ELSE 0
    [] step = "POLL_SEND_TO"   -> 3
    [] step = "POLL_GET_FROM"  -> 2
    [] step = "POLL_SEND_BACK" -> 1
    [] step = "POLL_GOT_ACK"   -> 0
    [] step = "POLL_WAIT"      -> 7

\* The statement after a writing or polling one of the same job.
After(job, step) ==
  CASE step = "CLEAR"          -> "CLEAR_PORT"
    [] step = "POLL_RESET"     -> "RELEASE"
    [] step = "COMMAND"        ->
         CASE job \in Loads                              -> "PORT"
           [] job \in {"GEND", "ENCRYPTED", "DECRYPTED"} -> "POLL_SEND_TO"
           [] OTHER                                      -> "POLL_GET_FROM"
    [] step = "POLL_READ"      -> "DROP"
    [] step = "DROP"           -> "POLL_ACK"
    [] step = "POLL_ACK"       -> "RELEASE"
    [] step = "POLL_SEND_TO"   -> "CONFIRM"
    [] step = "CONFIRM"        -> "POLL_GET_FROM"
    [] step = "POLL_GET_FROM"  -> "TAKE"
    [] step = "TAKE"           -> "POLL_SEND_BACK"
    [] step = "POLL_SEND_BACK" -> "READ_PORT"
    [] step = "ACKNOWLEDGE"    -> "POLL_GOT_ACK"
    [] step = "POLL_GOT_ACK"   -> "RELEASE"
    [] step = "RELEASE"        -> "POLL_WAIT"
\* The job after this one; a rejected prime is asked for again.
Following(job) ==
  CASE job = "PRM1"      -> "PRIME_1"
    [] job = "PRIME_1"   -> IF sw.fetched["PRIME_1"] = 1 THEN "PRM2" ELSE "PRM1"
    [] job = "PRM2"      -> "PRIME_2"
    [] job = "PRIME_2"   -> IF sw.fetched["PRIME_2"] = 1 THEN "N" ELSE "PRM2"
    [] job = "N"         -> "PHI"
    [] job = "PHI"       -> "E"
    [] job = "E"         -> "GEND"
    [] job = "GEND"      -> "PLAINTEXT"
    [] job = "PLAINTEXT" -> "ENCRYPTED"
    [] job = "ENCRYPTED" -> "DECRYPTED"
    [] job = "DECRYPTED" -> "MENU"

FirstStep(job) ==
  CASE job = "MENU"     -> "CLEAR"
    [] job \in Loads    -> "SCAN"
    [] job \in Fetches  -> "COMMAND"

-----------------------------------------------------------------------------

\* Mutant: the signal that starts the unit is not written.
WriteSignalNoConfirm ==
  /\ sw.step \in {"CLEAR", "COMMAND", "DROP", "CONFIRM", "TAKE", "ACKNOWLEDGE",
                  "RELEASE"}
  /\ to_hw_sig' = IF sw.step = "CONFIRM" THEN to_hw_sig ELSE Written(sw.job, sw.step)
  /\ sw' = [sw EXCEPT !.step = After(sw.job, sw.step)]
  /\ UNCHANGED to_hw_port

\* *to_hw_sig = ...;
WriteSignal ==
  /\ sw.step \in {"CLEAR", "COMMAND", "DROP", "CONFIRM", "TAKE", "ACKNOWLEDGE",
                  "RELEASE"}
  /\ to_hw_sig' = Written(sw.job, sw.step)
  /\ sw' = [sw EXCEPT !.step = After(sw.job, sw.step)]
  /\ UNCHANGED to_hw_port

\* Mutant: main does not wait for the hardware to be reset.
WritePortNoReset ==
  /\ \/ /\ sw.step = "CLEAR_PORT"
        /\ to_hw_port' = 0
        /\ sw' = [sw EXCEPT !.step = "RELEASE"]
     \/ /\ sw.step = "PORT"
        /\ to_hw_port' = sw.entered[sw.job] % Radix
        /\ sw' = [sw EXCEPT !.step = "POLL_READ"]
  /\ UNCHANGED to_hw_sig

\* *to_hw_port = ...;
WritePort ==
  /\ \/ /\ sw.step = "CLEAR_PORT"
        /\ to_hw_port' = 0
        /\ sw' = [sw EXCEPT !.step = "POLL_RESET"]
     \/ /\ sw.step = "PORT"
        /\ to_hw_port' = sw.entered[sw.job] % Radix
        /\ sw' = [sw EXCEPT !.step = "POLL_READ"]
  /\ UNCHANGED to_hw_sig

\* while (*to_sw_sig != ...);  within a job
Poll ==
  /\ sw.step \in {"POLL_RESET", "POLL_READ", "POLL_ACK", "POLL_SEND_TO",
                  "POLL_GET_FROM", "POLL_SEND_BACK", "POLL_GOT_ACK"}
  /\ to_sw_sig = Awaited(sw.job, sw.step)
  /\ sw' = [sw EXCEPT !.step = After(sw.job, sw.step)]
  /\ UNCHANGED <<to_hw_sig, to_hw_port>>

\* Mutant: the next job does not wait for signal 7.
PollWaitSkipped ==
  /\ sw.step = "POLL_WAIT"
  /\ \/ /\ sw.job = "MENU"
        /\ sw' = [sw EXCEPT !.step = "OPTION"]
     \/ /\ sw.job # "MENU"
        /\ sw' = [sw EXCEPT !.job = Following(sw.job),
                            !.step = FirstStep(Following(sw.job))]
  /\ UNCHANGED <<to_hw_sig, to_hw_port>>

\* while (*to_sw_sig != 7);  the last statement of every job
PollWait ==
  /\ sw.step = "POLL_WAIT"
  /\ to_sw_sig = Awaited(sw.job, sw.step)
  /\ \/ /\ sw.job = "MENU"
        /\ sw' = [sw EXCEPT !.step = "OPTION"]
     \/ /\ sw.job # "MENU"
        /\ sw' = [sw EXCEPT !.job = Following(sw.job),
                            !.step = FirstStep(Following(sw.job))]
  /\ UNCHANGED <<to_hw_sig, to_hw_port>>

\* ... = *to_sw_port;
ReadPort ==
  /\ sw.step = "READ_PORT"
  /\ sw' = [sw EXCEPT !.fetched[sw.job] = ToInt(to_sw_port),
                      !.step = "ACKNOWLEDGE"]
  /\ UNCHANGED <<to_hw_sig, to_hw_port>>

-----------------------------------------------------------------------------
(* What the user does. *)

\* Option 0 starts hardware_encrypt.  Any other leads back to the top of the
\* loop of main, option 1 by way of software_encrypt, which uses no hardware.
Option ==
  /\ sw.step = "OPTION"
  /\ \/ sw' = [Boot EXCEPT !.job = "PRM1", !.step = "SCAN"]
     \/ sw' = Boot
  /\ UNCHANGED <<to_hw_sig, to_hw_port>>

Entries(job) ==
  CASE job \in {"PRM1", "PRM2"} -> Candidates
    [] job = "E"                -> Exponents
    [] job = "PLAINTEXT"        -> Texts

\* scanf; the program asks again for an e that its check rejects.
Scan ==
  /\ sw.step = "SCAN"
  /\ \E v \in Entries(sw.job) :
       sw' = [sw EXCEPT
         !.entered[sw.job] = v,
         !.step = IF sw.job = "E" /\ ~e_checker(v, sw.fetched["PHI"])
                  THEN "SCAN" ELSE "COMMAND"]
  /\ UNCHANGED <<to_hw_sig, to_hw_port>>

Program == WriteSignal \/ WritePort \/ Poll \/ PollWait \/ ReadPort

User == Option \/ Scan

=============================================================================
