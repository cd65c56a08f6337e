----------------------------- MODULE RsaSession -----------------------------
(***************************************************************************)
(* What a session of the system promises to the user: the properties that  *)
(* join the program, io_module and the units.                              *)
(***************************************************************************)
EXTENDS RsaSystem

\* An edge at which KEY[1] is left alone,
QuietTick == Tick /\ UNCHANGED reset_n

\* and no unit that can answer keeps computing.
PromptTick ==
  /\ QuietTick
  /\ \A u \in {phi_gen0', n_gen0', generate_d0', rsa_encrypt0', rsa_decrypt0'} :
       u.status # "BUSY"

\* The clock and the processor never stop, and a unit that can answer does
\* (the ...Arrives properties of the units).  Nothing is assumed of the user.
FairSpec ==
  /\ Spec
  /\ WF_vars(QuietTick)
  /\ WF_vars(PromptTick)
  /\ WF_vars(Statement)

TypeOK ==
  /\ reset_n \in Bit
  /\ to_hw_sig \in IoModule0!Signals
  /\ to_hw_port \in Word
  /\ sw \in Program!Locals
  /\ io \in IoModule0!Registers
  /\ checker1 \in Checker1!Registers
  /\ checker2 \in Checker2!Registers
  /\ \A u \in {phi_gen0, n_gen0, generate_d0, rsa_encrypt0, rsa_decrypt0} :
       u \in PhiGen!Registers
  /\ resets \in 0 .. MaxResets
  /\ restarts \in 0 .. MaxRestarts
  /\ clean \in BOOLEAN

-----------------------------------------------------------------------------

JobOrder == <<"PRM1", "PRIME_1", "PRM2", "PRIME_2", "N", "PHI", "E", "GEND",
              "PLAINTEXT", "ENCRYPTED", "DECRYPTED">>

\* In an undisturbed session the program is done with the data of channel c.
Known(c) ==
  /\ clean
  /\ \/ \E i \in DOMAIN JobOrder : \E j \in 1 .. i - 1 :
          JobOrder[i] = sw.job /\ JobOrder[j] = c
     \/ /\ sw.job = c
        /\ sw.step \in {"ACKNOWLEDGE", "POLL_GOT_ACK", "RELEASE", "POLL_WAIT"}

p == sw.entered["PRM1"]
q == sw.entered["PRM2"]
e == sw.entered["E"]
text == sw.entered["PLAINTEXT"]

\* Signal values are reused: 1, 2 and 5 are commands in WAIT and answers
\* elsewhere.  In an undisturbed session the hardware never takes an answer
\* for a command, or a command meant for one channel for another's.
ChannelAgreement ==
  clean =>
    /\ io.phase # "RESET"
    /\ io.phase # "WAIT" => io.channel = sw.job

\* What the user entered is in the operand register once the transfer is
\* acknowledged, and stays there, although the program writes the command
\* before the data (rsa_intonly.c 77-78) and io_module may read the port in
\* between.
DeliveredAsEntered ==
  \A c \in Program!Loads : Known(c) => io.held[c] = sw.entered[c] % Radix

\* What the program has fetched is what the units answer to the operands of
\* this session, as words: the verdict is that of the candidate entered last,
\* although prime_checker_done is still up from the one before, the products
\* are those of the accepted primes, the key that of e and phi, and the second
\* power is taken of the first.
FetchedIsCurrent ==
  LET Operand(c) == sw.entered[c] % Radix
      Got(c, w) == sw.fetched[c] = Program!ToInt(w)
      n == WordProduct(Operand("PRM1"), Operand("PRM2"))
      phi == WordProduct(SubW(Operand("PRM1"), 1), SubW(Operand("PRM2"), 1))
      Keys == KeyAnswers(<<Operand("E"), phi>>)
      Ciphers == PowerAnswers(<<Operand("PLAINTEXT"), Operand("E"), n>>)
  IN  /\ Known("PRIME_1") => Got("PRIME_1", Checker1!Verdict(Operand("PRM1")))
      /\ Known("PRIME_2") => Got("PRIME_2", Checker2!Verdict(Operand("PRM2")))
      /\ Known("N") => Got("N", n)
      /\ Known("PHI") => Got("PHI", phi)
      /\ Known("GEND") => \E d \in Keys : Got("GEND", d)
      /\ Known("ENCRYPTED") => \E c \in Ciphers : Got("ENCRYPTED", c)
      /\ Known("DECRYPTED") =>
           \E c \in Ciphers, d \in Keys :
             /\ Got("ENCRYPTED", c) /\ Got("GEND", d)
             /\ \E m \in PowerAnswers(<<c, d, n>>) : Got("DECRYPTED", m)

\* With numbers that fit in a word, these are the numbers of RSA, and
\* decryption returns what was encrypted, for two different primes and a text
\* below their product.
RoundTrip ==
  /\ Known("N") => sw.fetched["N"] = p * q
  /\ Known("PHI") => sw.fetched["PHI"] = (p - 1) * (q - 1)
  /\ Known("GEND") => (e * sw.fetched["GEND"]) % ((p - 1) * (q - 1)) = 1
  /\ Known("ENCRYPTED") => sw.fetched["ENCRYPTED"] = (text ^ e) % (p * q)
  /\ /\ Known("DECRYPTED")
     /\ p # q
     /\ p > 1 /\ Program!prime_checker(p)
     /\ q > 1 /\ Program!prime_checker(q)
     /\ text \in 0 .. p * q - 1
     => sw.fetched["DECRYPTED"] = text

\* io_module is a parent as the units assume it: it does not start a unit a
\* second time without a reset,
OneRequestPerReset ==
  /\ phi_gen0.status = "SPENT" => io.ready["PHI"] = 0
  /\ n_gen0.status = "SPENT" => io.ready["N"] = 0
  /\ generate_d0.status = "SPENT" => io.ready["GEND"] = 0
  /\ rsa_encrypt0.status = "SPENT" => io.ready["ENCRYPTED"] = 0
  /\ rsa_decrypt0.status = "SPENT" => io.ready["DECRYPTED"] = 0

\* and no operand of a computing unit changes, whether it comes from a
\* register of io_module or from the output of another unit.
OperandsStable ==
  [][/\ phi_gen0.status = "BUSY" /\ reset_n' = 1 =>
          io'.held["PRM1"] = io.held["PRM1"] /\ io'.held["PRM2"] = io.held["PRM2"]
     /\ n_gen0.status = "BUSY" /\ reset_n' = 1 =>
          io'.held["PRM1"] = io.held["PRM1"] /\ io'.held["PRM2"] = io.held["PRM2"]
     /\ generate_d0.status = "BUSY" /\ reset_n' = 1 =>
          io'.held["E"] = io.held["E"] /\ phi_gen0'.result = phi_gen0.result
     /\ rsa_encrypt0.status = "BUSY" /\ reset_n' = 1 =>
          /\ io'.held["PLAINTEXT"] = io.held["PLAINTEXT"]
          /\ io'.held["E"] = io.held["E"]
          /\ n_gen0'.result = n_gen0.result
     /\ rsa_decrypt0.status = "BUSY" /\ reset_n' = 1 =>
          /\ rsa_encrypt0'.result = rsa_encrypt0.result
          /\ generate_d0'.result = generate_d0.result
          /\ n_gen0'.result = n_gen0.result]_vars

-----------------------------------------------------------------------------

HasKey == KeyAnswers(<<e % Radix, (p - 1) * (q - 1)>>) # {}

\* Program and hardware never wait for each other for ever: a command that is
\* given in an undisturbed session is carried out, also when earlier sessions
\* were cut short by either key; the search for a key if there is one and the
\* unit is not stuck from before (see SessionGetsKey).
CommandCompletes ==
  \A c \in Program!Loads \cup Program!Fetches :
    (/\ clean
     /\ sw.job = c
     /\ sw.step = "COMMAND"
     /\ c = "GEND" => HasKey /\ generate_d0.status # "STUCK") ~> (sw.job # c \/ ~clean)

\* With the hardware in reset and the program at "Press reset for options!"
\* the menu comes up, unless a key is pressed again.
MenuComesUp ==
  (sw.step = "POLL_RESET" /\ io.phase = "RESET" /\ reset_n = 1) ~>
    (sw.step = "OPTION" \/ sw.step = "CLEAR" \/ reset_n = 0)

\* rsa_intonly.c 42 says of hardware_encrypt "Start with pressing reset": a
\* session that starts on freshly reset hardware gets its key.
SessionGetsKey ==
  (/\ clean
   /\ sw.job = "GEND"
   /\ sw.step = "COMMAND"
   /\ HasKey) ~> (sw.job # "GEND" \/ ~clean)

\* rsa_intonly.c 374 says of prime_checker "return 0 if not prime, 1 if
\* prime": the public exponent the program accepts is a prime.
ExponentIsPrime ==
  Known("E") => e > 1 /\ \A k \in 2 .. e - 1 : e % k # 0

-----------------------------------------------------------------------------

\* Entries for the run without keys: what the hardware rejects (a negative even
\* number, 9), accepts although it is no prime (1), and accepts (3, 5, 11).
SessionCandidates == {-2, 1, 3, 5, 9, 11}

=============================================================================
