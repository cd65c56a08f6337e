-------------------------- MODULE RsaSessionProofs --------------------------
(***************************************************************************)
(* Program, io_module and units together, for words of any width, whatever *)
(* the user enters, however long the units compute and whenever either key *)
(* is pressed: who may be where at the same time, and what follows from it *)
(* for the operands and the requests of the units.                         *)
(***************************************************************************)
EXTENDS RsaSession, TLAPS

Loads == {"PRM1", "PRM2", "E", "PLAINTEXT"}
Fetches == {"PRIME_1", "PRIME_2", "N", "PHI", "GEND", "ENCRYPTED", "DECRYPTED"}
Confirmed == {"GEND", "ENCRYPTED", "DECRYPTED"}
Units == {"N", "PHI", "GEND", "ENCRYPTED", "DECRYPTED"}

\* The command of a job.
Cmd(j) ==
  CASE j = "PRM1" -> 1 [] j = "PRM2" -> 2 [] j = "PHI" -> 3 [] j = "E" -> 4
    [] j = "PLAINTEXT" -> 5 [] j = "ENCRYPTED" -> 6 [] j = "DECRYPTED" -> 7
    [] j = "N" -> 9 [] j = "GEND" -> 10 [] j = "PRIME_1" -> 11
    [] j = "PRIME_2" -> 12 [] OTHER -> 0

\* The place of a job in a session.
Rank(j) ==
  CASE j = "PRM1" -> 1 [] j = "PRIME_1" -> 2 [] j = "PRM2" -> 3
    [] j = "PRIME_2" -> 4 [] j = "N" -> 5 [] j = "PHI" -> 6 [] j = "E" -> 7
    [] j = "GEND" -> 8 [] j = "PLAINTEXT" -> 9 [] j = "ENCRYPTED" -> 10
    [] j = "DECRYPTED" -> 11 [] OTHER -> 0

\* How ACK answers.
AckSignal(j) == IF j = "PRM1" THEN 2 ELSE 0

-----------------------------------------------------------------------------
(* The program                                                             *)

\* The statements a job consists of,
Statements(j, st) ==
  /\ st \in Program!Steps
  /\ st \in {"CLEAR", "CLEAR_PORT", "POLL_RESET", "OPTION"} => j = "MENU"
  /\ st \in {"SCAN", "PORT", "POLL_READ", "DROP", "POLL_ACK"} => j \in Loads
  /\ st \in {"POLL_SEND_TO", "CONFIRM"} => j \in Confirmed
  /\ st \in {"POLL_GET_FROM", "TAKE", "POLL_SEND_BACK", "READ_PORT", "ACKNOWLEDGE",
             "POLL_GOT_ACK"} => j \in Fetches
  /\ st = "COMMAND" => j \in Loads \cup Fetches

\* and what the register to_hw_sig holds there.
Writes(j, st, sig) ==
  /\ st = "CLEAR" => sig \in {0, 8}
  /\ st \in {"CLEAR_PORT", "POLL_RESET", "POLL_ACK"} => sig = 0
  /\ st = "RELEASE" => sig = IF j \in Fetches THEN 2 ELSE 0
  /\ st \in {"POLL_WAIT", "OPTION", "SCAN", "COMMAND"} => sig = 8
  /\ st \in {"PORT", "POLL_READ", "DROP", "POLL_SEND_TO", "CONFIRM"} => sig = Cmd(j)
  /\ st \in {"POLL_GET_FROM", "TAKE"} => sig = IF j \in Confirmed THEN 5 ELSE Cmd(j)
  /\ st \in {"POLL_SEND_BACK", "READ_PORT", "ACKNOWLEDGE"} => sig = 1
  /\ st = "POLL_GOT_ACK" => sig = 2

-----------------------------------------------------------------------------
(* Program and io_module                                                   *)

\* What io_module shows in each phase: the signal of the phase, or the last
\* one of the phase before.  A reset leaves to_sw_sig alone.
Shows(ph, s) ==
  /\ ph = "WAIT" => s \in {0, 2, 3, 7}
  /\ ph = "READ" => s \in {1, 7}
  /\ ph = "ACK" => s \in {0, 1, 2}
  /\ ph = "SEND_TO" => s \in {3, 4, 7}
  /\ ph = "GET_FROM" => s \in {2, 3, 4}
  /\ ph = "SEND_BACK" => s \in {1, 2}
  /\ ph = "GOT_ACK" => s \in {0, 1}

\* A signal 3 of RESET, seen after the command, looks like that of SEND_TO: the
\* program confirms, and io_module takes the 5 for the command PLAINTEXT.
Derailed(j, st, ph, ch) ==
  /\ j \in Confirmed
  /\ \/ st \in {"CONFIRM", "POLL_GET_FROM"} /\ ph = "WAIT"
     \/ st = "POLL_GET_FROM" /\ ph = "READ" /\ ch = "PLAINTEXT"

\* Where io_module is while the program is at a statement of a session.
Together(j, st, ph, ch, s) ==
  /\ st \in {"SCAN", "COMMAND"} => ph = "WAIT" /\ s \in {3, 7}
  /\ st \in {"PORT", "POLL_READ"} =>
       \/ ph = "WAIT" /\ s \in {3, 7}
       \/ ph = "READ" /\ ch = j
  /\ st = "DROP" => ph = "READ" /\ ch = j /\ s = 1
  /\ st = "POLL_ACK" =>
       \/ ph = "READ" /\ ch = j /\ s = 1
       \/ ph = "ACK" /\ ch = j /\ s \in {1, AckSignal(j)}
  /\ st = "RELEASE" =>
       \/ j \in Loads /\ ph = "ACK" /\ ch = j /\ s = AckSignal(j)
       \/ j \in Fetches /\ ph = "GOT_ACK" /\ ch = j /\ s = 0
  /\ st = "POLL_WAIT" =>
       \/ ph = "WAIT"
       \/ j \in Loads /\ ph = "ACK" /\ ch = j /\ s = AckSignal(j)
       \/ j \in Fetches /\ ph = "GOT_ACK" /\ ch = j /\ s = 0
  /\ st = "POLL_SEND_TO" =>
       \/ ph = "WAIT" /\ s \in {3, 7}
       \/ ph \in {"SEND_TO", "GET_FROM"} /\ ch = j /\ s # 4
  /\ st = "CONFIRM" =>
       \/ Derailed(j, st, ph, ch) /\ s \in {3, 7}
       \/ ph \in {"SEND_TO", "GET_FROM"} /\ ch = j /\ s # 4
  /\ st = "POLL_GET_FROM" =>
       \/ Derailed(j, st, ph, ch) /\ s \in {1, 3, 7}
       \/ j \notin Confirmed /\ ph = "WAIT" /\ s \in {3, 7}
       \/ ph \in {"SEND_TO", "GET_FROM"} /\ ch = j
  /\ st = "TAKE" => ph = "GET_FROM" /\ ch = j /\ s = 2
  /\ st = "POLL_SEND_BACK" =>
       \/ ph = "GET_FROM" /\ ch = j /\ s = 2
       \/ ph = "SEND_BACK" /\ ch = j
  /\ st \in {"READ_PORT", "ACKNOWLEDGE"} => ph = "SEND_BACK" /\ ch = j /\ s = 1
  /\ st = "POLL_GOT_ACK" =>
       \/ ph = "SEND_BACK" /\ ch = j /\ s = 1
       \/ ph = "GOT_ACK" /\ ch = j

\* Before a session: io_module was reset, or the program, restarted, took the
\* signal 3 of SEND_TO for that of RESET and waits in vain.
AtMenu(st, ph, s) ==
  /\ st \in {"RELEASE", "POLL_WAIT"} =>
       \/ ph = "WAIT" /\ s \in {3, 7}
       \/ ph \in {"SEND_TO", "GET_FROM"} /\ s # 7
  /\ st = "OPTION" => ph = "WAIT" /\ s \in {3, 7}

\* A phase has channels of its own.
OwnChannel(ph, ch) ==
  /\ ph \in {"READ", "ACK"} => ch \in Loads
  /\ ph \in {"SEND_TO", "GET_FROM", "SEND_BACK", "GOT_ACK"} => ch \in Fetches

\* All of this.
Control(j, st, sig, ph, ch, s) ==
  /\ Statements(j, st) /\ Writes(j, st, sig) /\ Shows(ph, s)
  /\ ph # "RESET" /\ j # "MENU" => Together(j, st, ph, ch, s)
  /\ ph # "RESET" /\ j = "MENU" => AtMenu(st, ph, s)

\* An undisturbed session.
Undisturbed(j, st, ph, ch, s) ==
  /\ ph # "RESET"
  /\ j = "MENU" => st \in {"CLEAR", "CLEAR_PORT", "POLL_RESET"} /\ ph = "WAIT"
  /\ ph = "WAIT" /\ s = 3 => j = "PRM1"
  /\ ~Derailed(j, st, ph, ch)

-----------------------------------------------------------------------------
(* io_module and the units                                                 *)

\* A unit that has answered is not asked again: it is being served, or its
\* request is withdrawn and the program is past its job, or has left the
\* session for good, until io_module is reset.
Past(c, j, st, ph, ch) ==
  \/ j = "MENU" /\ st \in {"CLEAR", "CLEAR_PORT", "POLL_RESET"}
  \/ j = "MENU" /\ ph \in {"SEND_TO", "GET_FROM"}
  \/ Rank(j) > Rank(c)
  \/ j = c /\ ph # "WAIT"
  \/ j = c /\ st = "POLL_WAIT"

Requests(c, u, r, j, st, ph, ch, s) ==
  LET served == ch = c /\ ph \in {"SEND_TO", "GET_FROM"}
  IN  /\ u.status \in {"WAIT", "BUSY", "STUCK"} => u.done = 0
      /\ u.status \in {"FINISHED", "SPENT"} => u.done = 1
      /\ ph = "RESET" => u.status \in {"RESET", "WAIT", "STUCK"}
      /\ ph = "RESET" /\ c # "GEND" => u.status # "STUCK" /\ (u.status = "WAIT" => r = 0)
      /\ ph # "RESET" => u.status # "RESET"
      /\ r = 1 /\ ph # "RESET" => served \/ (c = "GEND" /\ u.status \in {"WAIT", "STUCK"})
      /\ u.status = "BUSY" => ch = c /\ ph = "SEND_TO" /\ r = 1
      /\ u.status = "FINISHED" => served /\ (ph = "SEND_TO" => r = 1)
      /\ u.status = "SPENT" => r = 0 /\ ~(ch = c /\ ph = "SEND_TO")
      /\ ch = c /\ ph = "GET_FROM" => u.status \in {"FINISHED", "SPENT"}
      /\ ch = c /\ ph = "GET_FROM" /\ s = 2 => r = 0
      /\ u.status \in {"FINISHED", "SPENT"} => Past(c, j, st, ph, ch)
      /\ ph = "WAIT" /\ s = 3 => u.status \notin {"FINISHED", "SPENT"}
      /\ ph = "WAIT" /\ j = "MENU" /\ st \in {"RELEASE", "POLL_WAIT", "OPTION"} =>
           u.status \notin {"FINISHED", "SPENT"}

-----------------------------------------------------------------------------
(* Types.  The results of the units are left out: that a power is a word   *)
(* takes an induction on the exponent.                                     *)

Phases == {"RESET", "WAIT", "READ", "ACK", "SEND_TO", "GET_FROM", "SEND_BACK", "GOT_ACK"}

IoType(r) ==
  /\ r = [phase |-> r.phase, channel |-> r.channel, held |-> r.held, n_hold |-> r.n_hold,
          ready |-> r.ready, to_sw_sig |-> r.to_sw_sig, to_sw_port |-> r.to_sw_port]
  /\ r.phase \in Phases
  /\ r.held \in [Loads -> Word]
  /\ r.ready \in [Fetches -> {0, 1}]
  /\ r.phase \in {"READ", "ACK"} => r.channel \in Loads
  /\ r.phase \in {"SEND_TO", "GET_FROM", "SEND_BACK", "GOT_ACK"} => r.channel \in Fetches

SwType(w) ==
  /\ w = [job |-> w.job, step |-> w.step, entered |-> w.entered, fetched |-> w.fetched]
  /\ w.job \in {"MENU"} \cup Loads \cup Fetches
  /\ w.entered \in [Loads -> Int]

UnitType(u) == u = [status |-> u.status, result |-> u.result, done |-> u.done]

Unit(c) ==
  CASE c = "N" -> n_gen0 [] c = "PHI" -> phi_gen0 [] c = "GEND" -> generate_d0
    [] c = "ENCRYPTED" -> rsa_encrypt0 [] c = "DECRYPTED" -> rsa_decrypt0

Types ==
  /\ reset_n \in {0, 1} /\ to_hw_port \in Word
  /\ SwType(sw) /\ IoType(io)
  /\ \A c \in Units : UnitType(Unit(c))

-----------------------------------------------------------------------------
(* The invariant                                                           *)

Protocol == Control(sw.job, sw.step, to_hw_sig, io.phase, io.channel, io.to_sw_sig)

CleanInv ==
  clean => /\ reset_n = 1
           /\ Undisturbed(sw.job, sw.step, io.phase, io.channel, io.to_sw_sig)

UnitInv ==
  /\ \A c \in Units : Requests(c, Unit(c), io.ready[c], sw.job, sw.step, io.phase,
                               io.channel, io.to_sw_sig)
  /\ generate_d0.status = "RESET" => phi_gen0.status = "RESET"
  /\ generate_d0.status = "WAIT" /\ io.ready["GEND"] = 1 =>
       phi_gen0.result = 0 \/ (io.channel = "GEND" /\ io.phase = "SEND_TO")
  /\ reset_n = 0 => io.phase = "RESET" /\ phi_gen0.status = "RESET"

PortInv ==
  /\ sw.step \in {"POLL_READ", "DROP", "POLL_ACK"} =>
       to_hw_port = sw.entered[sw.job] % Radix
  /\ clean /\ sw.step = "POLL_ACK" /\ io.phase = "ACK" =>
       io.held[sw.job] = sw.entered[sw.job] % Radix

\* The operand c of an undisturbed session is in its register.
Loaded(c, job, st) ==
  \/ job \in Loads \cup Fetches /\ Rank(job) > Rank(c)
  \/ job = c /\ st \in {"RELEASE", "POLL_WAIT"}

Operands ==
  clean => \A c \in Loads : Loaded(c, sw.job, sw.step) => io.held[c] = sw.entered[c] % Radix

IInv == Types /\ Protocol /\ CleanInv /\ UnitInv /\ PortInv /\ Operands

-----------------------------------------------------------------------------
(* The moves of the three, without their data                              *)

\* The job after j.
Follows(j, j2) ==
  \/ j = "DECRYPTED" /\ j2 = "MENU"
  \/ j = "PRIME_1" /\ j2 = "PRM1"
  \/ j = "PRIME_2" /\ j2 = "PRM2"
  \/ j2 \in Loads \cup Fetches /\ Rank(j2) = Rank(j) + 1

\* A statement of the program, which sees the signal s.
SwMove(j, st, sig, s, j2, st2, sig2) ==
  \/ /\ j2 = j
     /\ \/ st = "CLEAR" /\ st2 = "CLEAR_PORT" /\ sig2 = 0
        \/ st = "CLEAR_PORT" /\ st2 = "POLL_RESET" /\ sig2 = sig
        \/ st = "POLL_RESET" /\ s = 3 /\ st2 = "RELEASE" /\ sig2 = sig
        \/ /\ st = "COMMAND" /\ sig2 = Cmd(j)
           /\ \/ j \in Loads /\ st2 = "PORT"
              \/ j \in Confirmed /\ st2 = "POLL_SEND_TO"
              \/ j \in Fetches \ Confirmed /\ st2 = "POLL_GET_FROM"
        \/ st = "PORT" /\ st2 = "POLL_READ" /\ sig2 = sig
        \/ st = "POLL_READ" /\ s = 1 /\ st2 = "DROP" /\ sig2 = sig
        \/ st = "DROP" /\ st2 = "POLL_ACK" /\ sig2 = 0
        \/ st = "POLL_ACK" /\ s = AckSignal(j) /\ st2 = "RELEASE" /\ sig2 = sig
        \/ st = "POLL_SEND_TO" /\ s = 3 /\ st2 = "CONFIRM" /\ sig2 = sig
        \/ st = "CONFIRM" /\ st2 = "POLL_GET_FROM" /\ sig2 = 5
        \/ st = "POLL_GET_FROM" /\ s = 2 /\ st2 = "TAKE" /\ sig2 = sig
        \/ st = "TAKE" /\ st2 = "POLL_SEND_BACK" /\ sig2 = 1
        \/ st = "POLL_SEND_BACK" /\ s = 1 /\ st2 = "READ_PORT" /\ sig2 = sig
        \/ st = "READ_PORT" /\ st2 = "ACKNOWLEDGE" /\ sig2 = sig
        \/ st = "ACKNOWLEDGE" /\ st2 = "POLL_GOT_ACK" /\ sig2 = 2
        \/ st = "POLL_GOT_ACK" /\ s = 0 /\ st2 = "RELEASE" /\ sig2 = sig
        \/ st = "RELEASE" /\ st2 = "POLL_WAIT" /\ sig2 = 8
        \/ st = "POLL_WAIT" /\ s = 7 /\ j = "MENU" /\ st2 = "OPTION" /\ sig2 = sig
  \/ /\ st = "POLL_WAIT" /\ s = 7 /\ j # "MENU" /\ Follows(j, j2) /\ sig2 = sig
     /\ \/ j2 = "MENU" /\ st2 = "CLEAR"
        \/ j2 \in Loads /\ st2 = "SCAN"
        \/ j2 \in Fetches /\ st2 = "COMMAND"

\* A clock edge of io_module that KEY[1] does not disturb; dn is the done flag
\* of the channel.
IoMove(ph, ch, sig, dn, ph2, ch2, s2) ==
  \/ /\ ph = "RESET" /\ s2 = 3 /\ ch2 = ch
     /\ ph2 = IF sig = 8 THEN "WAIT" ELSE "RESET"
  \/ /\ ph = "WAIT" /\ s2 = 7
     /\ \/ /\ ch2 \in Loads \cup Fetches /\ sig = Cmd(ch2)
           /\ ph2 = IF ch2 \in Loads THEN "READ" ELSE "SEND_TO"
        \/ /\ \A c \in Loads \cup Fetches : sig # Cmd(c)
           /\ ph2 = ph /\ ch2 = ch
  \/ /\ ph = "READ" /\ s2 = 1 /\ ch2 = ch
     /\ ph2 = IF sig = 0 THEN "ACK" ELSE "READ"
  \/ /\ ph = "ACK" /\ s2 = AckSignal(ch)
     /\ \/ (sig = 8 \/ (ch = "PRM1" /\ sig = 2)) /\ ph2 = "WAIT" /\ ch2 = "NONE"
        \/ ~(sig = 8 \/ (ch = "PRM1" /\ sig = 2)) /\ ph2 = ph /\ ch2 = ch
  \/ /\ ph = "SEND_TO" /\ ch2 = ch
     /\ s2 = IF ch = "GEND" /\ sig = 5 THEN 4 ELSE 3
     /\ ph2 = IF dn = 1 THEN "GET_FROM" ELSE "SEND_TO"
  \/ /\ ph = "GET_FROM" /\ s2 = 2 /\ ch2 = ch
     /\ ph2 = IF sig = 1 THEN "SEND_BACK" ELSE "GET_FROM"
  \/ /\ ph = "SEND_BACK" /\ s2 = 1 /\ ch2 = ch
     /\ ph2 = IF sig = 2 THEN "GOT_ACK" ELSE "SEND_BACK"
  \/ /\ ph = "GOT_ACK" /\ s2 = 0
     /\ \/ sig = 8 /\ ph2 = "WAIT" /\ ch2 = "NONE"
        \/ sig # 8 /\ ph2 = ph /\ ch2 = ch

\* What such an edge does to the start signal of channel c.
ReadyMove(c, r, ph, ch, sig, r2) ==
  \/ ph = "RESET" /\ r2 = IF c \in {"ENCRYPTED", "DECRYPTED", "PHI", "N"} THEN 0 ELSE r
  \/ ph = "SEND_TO" /\ ch = c /\ r2 = IF c \in Confirmed /\ sig # 5 THEN r ELSE 1
  \/ ph = "GET_FROM" /\ ch = c /\ r2 = 0
  \/ ph # "RESET" /\ ~(ph \in {"SEND_TO", "GET_FROM"} /\ ch = c) /\ r2 = r

\* What it does to a unit.
UnitMove(u, r, u2) ==
  \/ u.status = "RESET" /\ u2.status = "WAIT" /\ u2.done = 0 /\ u2.result = 0
  \/ u.status = "WAIT" /\ r = 0 /\ u2 = u
  \/ /\ u.status = "WAIT" /\ r # 0 /\ u2.status \in {"BUSY", "STUCK"}
     /\ u2.done = u.done /\ u2.result = u.result
  \/ u.status \in {"BUSY", "STUCK", "SPENT"} /\ u2 = u
  \/ u.status = "BUSY" /\ u2.status = "FINISHED" /\ u2.done = 1
  \/ /\ u.status = "FINISHED" /\ u2.status = (IF r = 0 THEN "SPENT" ELSE "FINISHED")
     /\ u2.done = u.done /\ u2.result = u.result

-----------------------------------------------------------------------------
(* The actions make these moves                                            *)

\* Neither edge nor level of KEY[1].
Live == reset_n = 1 /\ reset_n' = 1

\* The wires of the units to io_module.
Done ==
  [PRIME_1 |-> checker1.prime_checker_done, PRIME_2 |-> checker2.prime_checker_done,
   N |-> n_gen0.done, PHI |-> phi_gen0.done, GEND |-> generate_d0.done,
   ENCRYPTED |-> rsa_encrypt0.done, DECRYPTED |-> rsa_decrypt0.done]
Value ==
  [PRIME_1 |-> checker1.isprime, PRIME_2 |-> checker2.isprime,
   N |-> n_gen0.result, PHI |-> phi_gen0.result, GEND |-> generate_d0.result,
   ENCRYPTED |-> rsa_encrypt0.result, DECRYPTED |-> rsa_decrypt0.result]

\* An undisturbed edge of io_module.
IoEdge ==
  /\ IoMove(io.phase, io.channel, to_hw_sig, Done[io.channel],
            io'.phase, io'.channel, io'.to_sw_sig)
  /\ \A c \in Fetches :
       ReadyMove(c, io.ready[c], io.phase, io.channel, to_hw_sig, io'.ready[c])
  /\ io'.held = IF io.phase = "READ" THEN [io.held EXCEPT ![io.channel] = to_hw_port]
                ELSE io.held
  /\ io'.to_sw_port = IF io.phase = "SEND_BACK" THEN Value[io.channel] ELSE io.to_sw_port
  /\ IoType(io')

\* It is in RESET,
LEMMA IoReset == Types /\ Live /\ IoModule0!Reset => IoEdge
  <1> SUFFICES ASSUME Types, Live, IoModule0!Reset PROVE IoEdge
    OBVIOUS
  <1> DEFINE r == [io EXCEPT
       !.phase = IF to_hw_sig = 8 THEN "WAIT" ELSE "RESET",
       !.ready = [c \in Fetches |->
                    IF c \in {"ENCRYPTED", "DECRYPTED", "PHI", "N"}
                    THEN 0 ELSE io.ready[c]],
       !.to_sw_sig = 3]
  <1>1. io' = r /\ io.phase = "RESET"
    BY DEF IoModule0!Reset, IoModule0!Latch, Live, IoModule0!Fetches, Fetches
  <1>2. IoType(io)
    BY DEF Types
  <1>3. /\ io'.to_sw_sig = 3 /\ io'.channel = io.channel
        /\ io'.phase = (IF to_hw_sig = 8 THEN "WAIT" ELSE "RESET")
        /\ io'.held = io.held /\ io'.to_sw_port = io.to_sw_port /\ IoType(io')
        /\ \A c \in Fetches : io'.ready[c] = IF c \in {"ENCRYPTED", "DECRYPTED", "PHI", "N"}
                                           THEN 0 ELSE io.ready[c]
    BY <1>1, <1>2 DEF IoType, Phases
  <1>4. QED
    BY <1>1, <1>3 DEF IoEdge, IoMove, ReadyMove

\* in WAIT,
LEMMA IoWait == Types /\ Live /\ IoModule0!Wait => IoEdge
  <1> SUFFICES ASSUME Types, Live, IoModule0!Wait PROVE IoEdge
    OBVIOUS
  <1>1. IoType(io) /\ io.phase = "WAIT"
    BY DEF Types, IoModule0!Wait
  <1>2. IoModule0!Channels = Loads \cup Fetches /\ IoModule0!Loads = Loads
    BY DEF IoModule0!Channels, IoModule0!Loads, IoModule0!Fetches, Loads, Fetches
  <1>3. \A c \in Loads \cup Fetches : IoModule0!Command[c] = Cmd(c)
    BY DEF IoModule0!Command, Cmd, Loads, Fetches
  <1>4. CASE \E c \in Loads \cup Fetches : to_hw_sig = Cmd(c) /\
               io' = [io EXCEPT !.phase = IF c \in Loads THEN "READ" ELSE "SEND_TO",
                                !.channel = c, !.to_sw_sig = 7]
    <2>1. PICK c \in Loads \cup Fetches :
             /\ to_hw_sig = Cmd(c)
             /\ io' = [io EXCEPT !.phase = IF c \in Loads THEN "READ" ELSE "SEND_TO",
                                 !.channel = c, !.to_sw_sig = 7]
      BY <1>4
    <2>2. /\ io'.to_sw_sig = 7 /\ io'.channel = c
          /\ io'.phase = (IF c \in Loads THEN "READ" ELSE "SEND_TO")
          /\ io'.held = io.held /\ io'.to_sw_port = io.to_sw_port /\ io'.ready = io.ready
          /\ IoType(io')
      BY <1>1, <2>1 DEF IoType, Phases
    <2>3. QED
      BY <1>1, <2>1, <2>2 DEF IoEdge, IoMove, ReadyMove
  <1>5. CASE (\A c \in Loads \cup Fetches : to_hw_sig # Cmd(c)) /\ io' = [io EXCEPT !.to_sw_sig = 7]
    <2>1. /\ io'.to_sw_sig = 7 /\ io'.channel = io.channel /\ io'.phase = io.phase
          /\ io'.held = io.held /\ io'.to_sw_port = io.to_sw_port /\ io'.ready = io.ready
          /\ IoType(io')
      BY <1>1, <1>5 DEF IoType, Phases
    <2>2. QED
      BY <1>1, <1>5, <2>1 DEF IoEdge, IoMove, ReadyMove
  <1>6. QED
    BY <1>2, <1>3, <1>4, <1>5 DEF IoModule0!Wait, IoModule0!Latch, Live

\* in READ,
LEMMA IoRead == Types /\ Live /\ IoModule0!Read => IoEdge
  <1> SUFFICES ASSUME Types, Live, IoModule0!Read PROVE IoEdge
    OBVIOUS
  <1>1. IoType(io) /\ io.phase = "READ" /\ to_hw_port \in Word /\ io.channel \in Loads
    BY DEF Types, IoModule0!Read, IoType
  <1>2. io' = [io EXCEPT !.phase = IF to_hw_sig = 0 THEN "ACK" ELSE "READ",
                         !.held[io.channel] = to_hw_port, !.to_sw_sig = 1]
    BY DEF IoModule0!Read, IoModule0!Latch, Live
  <1>3. /\ io'.to_sw_sig = 1 /\ io'.channel = io.channel
        /\ io'.phase = (IF to_hw_sig = 0 THEN "ACK" ELSE "READ")
        /\ io'.held = [io.held EXCEPT ![io.channel] = to_hw_port]
        /\ io'.to_sw_port = io.to_sw_port /\ io'.ready = io.ready
        /\ IoType(io')
    BY <1>1, <1>2 DEF IoType, Phases
  <1>4. QED
    BY <1>1, <1>3 DEF IoEdge, IoMove, ReadyMove

\* in ACK,
LEMMA IoAck == Types /\ Live /\ IoModule0!Ack => IoEdge
  <1> SUFFICES ASSUME Types, Live, IoModule0!Ack PROVE IoEdge
    OBVIOUS
  <1> DEFINE left == \/ to_hw_sig = 8
                     \/ io.channel = "PRM1" /\ to_hw_sig = 2
  <1>1. IoType(io) /\ io.phase = "ACK" /\ io.channel \in Loads
    BY DEF Types, IoModule0!Ack, IoType
  <1>2. io' = [io EXCEPT !.phase = IF left THEN "WAIT" ELSE "ACK",
                         !.channel = IF left THEN "NONE" ELSE io.channel,
                         !.to_sw_sig = IF io.channel = "PRM1" THEN 2 ELSE 0]
    BY DEF IoModule0!Ack, IoModule0!Latch, Live
  <1>3. /\ io'.to_sw_sig = AckSignal(io.channel)
        /\ io'.channel = (IF left THEN "NONE" ELSE io.channel)
        /\ io'.phase = (IF left THEN "WAIT" ELSE "ACK")
        /\ io'.held = io.held /\ io'.to_sw_port = io.to_sw_port /\ io'.ready = io.ready
        /\ IoType(io')
    BY <1>1, <1>2 DEF IoType, Phases, AckSignal
  <1>4. QED
    BY <1>1, <1>3 DEF IoEdge, IoMove, ReadyMove

\* in SEND_TO,
LEMMA IoSendTo == Types /\ Live /\ IoModule0!SendTo => IoEdge
  <1> SUFFICES ASSUME Types, Live, IoModule0!SendTo PROVE IoEdge
    OBVIOUS
  <1> DEFINE c == io.channel
  <1>1. IoType(io) /\ io.phase = "SEND_TO" /\ c \in Fetches
    BY DEF Types, IoModule0!SendTo, IoType
  <1>2. io' = [io EXCEPT !.phase = IF Done[c] = 1 THEN "GET_FROM" ELSE "SEND_TO",
                         !.ready[c] = IF c \in Confirmed /\ to_hw_sig # 5 THEN io.ready[c] ELSE 1,
                         !.to_sw_sig = IF c = "GEND" /\ to_hw_sig = 5 THEN 4 ELSE 3]
    BY DEF IoModule0!SendTo, IoModule0!Latch, Live, Done, IoModule0!Confirmed, Confirmed
  <1>3. /\ io'.to_sw_sig = (IF c = "GEND" /\ to_hw_sig = 5 THEN 4 ELSE 3)
        /\ io'.channel = io.channel
        /\ io'.phase = (IF Done[c] = 1 THEN "GET_FROM" ELSE "SEND_TO")
        /\ io'.held = io.held /\ io'.to_sw_port = io.to_sw_port
        /\ io'.ready = [io.ready EXCEPT
             ![c] = IF c \in Confirmed /\ to_hw_sig # 5 THEN io.ready[c] ELSE 1]
        /\ IoType(io')
    BY <1>1, <1>2 DEF IoType, Phases
  <1>4. \A b \in Fetches : ReadyMove(b, io.ready[b], io.phase, io.channel, to_hw_sig, io'.ready[b])
    <2>1. io.ready \in [Fetches -> {0, 1}]
      BY <1>1 DEF IoType
    <2>2. QED
      BY <1>1, <1>3, <2>1 DEF ReadyMove
  <1>5. QED
    BY <1>1, <1>3, <1>4 DEF IoEdge, IoMove

\* in GET_FROM,
LEMMA IoGetFrom == Types /\ Live /\ IoModule0!GetFrom => IoEdge
  <1> SUFFICES ASSUME Types, Live, IoModule0!GetFrom PROVE IoEdge
    OBVIOUS
  <1>1. IoType(io) /\ io.phase = "GET_FROM" /\ io.channel \in Fetches
    BY DEF Types, IoModule0!GetFrom, IoType
  <1>2. io' = [io EXCEPT !.phase = IF to_hw_sig = 1 THEN "SEND_BACK" ELSE "GET_FROM",
                         !.ready[io.channel] = 0, !.to_sw_sig = 2]
    BY DEF IoModule0!GetFrom, IoModule0!Latch, Live
  <1>3. /\ io'.to_sw_sig = 2 /\ io'.channel = io.channel
        /\ io'.phase = (IF to_hw_sig = 1 THEN "SEND_BACK" ELSE "GET_FROM")
        /\ io'.held = io.held /\ io'.to_sw_port = io.to_sw_port
        /\ io'.ready = [io.ready EXCEPT ![io.channel] = 0]
        /\ IoType(io')
    BY <1>1, <1>2 DEF IoType, Phases
  <1>4. \A b \in Fetches : ReadyMove(b, io.ready[b], io.phase, io.channel, to_hw_sig, io'.ready[b])
    <2>1. io.ready \in [Fetches -> {0, 1}]
      BY <1>1 DEF IoType
    <2>2. QED
      BY <1>1, <1>3, <2>1 DEF ReadyMove
  <1>5. QED
    BY <1>1, <1>3, <1>4 DEF IoEdge, IoMove

\* in SEND_BACK,
LEMMA IoSendBack == Types /\ Live /\ IoModule0!SendBack => IoEdge
  <1> SUFFICES ASSUME Types, Live, IoModule0!SendBack PROVE IoEdge
    OBVIOUS
  <1>1. IoType(io) /\ io.phase = "SEND_BACK" /\ io.channel \in Fetches
    BY DEF Types, IoModule0!SendBack, IoType
  <1>2. io' = [io EXCEPT !.phase = IF to_hw_sig = 2 THEN "GOT_ACK" ELSE "SEND_BACK",
                         !.to_sw_port = Value[io.channel],
                         !.n_hold = IF io.channel = "N" THEN Value["N"] ELSE io.n_hold,
                         !.to_sw_sig = 1]
    BY DEF IoModule0!SendBack, IoModule0!Latch, Live, Value
  <1>3. /\ io'.to_sw_sig = 1 /\ io'.channel = io.channel
        /\ io'.phase = (IF to_hw_sig = 2 THEN "GOT_ACK" ELSE "SEND_BACK")
        /\ io'.held = io.held /\ io'.to_sw_port = Value[io.channel] /\ io'.ready = io.ready
        /\ IoType(io')
    BY <1>1, <1>2 DEF IoType, Phases
  <1>4. QED
    BY <1>1, <1>3 DEF IoEdge, IoMove, ReadyMove

\* or in GOT_ACK.
LEMMA IoGotAck == Types /\ Live /\ IoModule0!GotAck => IoEdge
  <1> SUFFICES ASSUME Types, Live, IoModule0!GotAck PROVE IoEdge
    OBVIOUS
  <1>1. IoType(io) /\ io.phase = "GOT_ACK"
    BY DEF Types, IoModule0!GotAck, IoType
  <1>2. io' = [io EXCEPT !.phase = IF to_hw_sig = 8 THEN "WAIT" ELSE "GOT_ACK",
                         !.channel = IF to_hw_sig = 8 THEN "NONE" ELSE io.channel,
                         !.to_sw_sig = 0]
    BY DEF IoModule0!GotAck, IoModule0!Latch, Live
  <1>3. /\ io'.to_sw_sig = 0
        /\ io'.phase = (IF to_hw_sig = 8 THEN "WAIT" ELSE "GOT_ACK")
        /\ io'.channel = (IF to_hw_sig = 8 THEN "NONE" ELSE io.channel)
        /\ io'.held = io.held /\ io'.to_sw_port = io.to_sw_port /\ io'.ready = io.ready
        /\ IoType(io')
    BY <1>1, <1>2 DEF IoType, Phases
  <1>4. QED
    BY <1>1, <1>3 DEF IoEdge, IoMove, ReadyMove

\* Whatever the phase.
LEMMA IoLive == Types /\ Live /\ IoModule0!Clock => IoEdge
  BY IoReset, IoWait, IoRead, IoAck, IoSendTo, IoGetFrom, IoSendBack, IoGotAck DEF IoModule0!Clock

\* An edge at which KEY[1] is down, pressed or released resets io_module,
LEMMA IoDead ==
  ASSUME Types, reset_n' \in {0, 1}, ~Live, IoModule0!Clock
  PROVE  io'.phase = "RESET" /\ IoType(io')
  <1> DEFINE Down(r) == [r EXCEPT !.phase = "RESET", !.channel = "NONE",
                                  !.held = [c \in Loads |-> 0],
                                  !.n_hold = 0, !.to_sw_port = 0]
  <1> DEFINE Shape(r) ==
        /\ r = [phase |-> r.phase, channel |-> r.channel, held |-> r.held, n_hold |-> r.n_hold,
                ready |-> r.ready, to_sw_sig |-> r.to_sw_sig, to_sw_port |-> r.to_sw_port]
        /\ r.ready \in [Fetches -> {0, 1}]
  <1>1. ASSUME NEW r, Shape(r), io' = IoModule0!Latch(r)
        PROVE  io'.phase = "RESET" /\ IoType(io')
    <2>1. io' = Down(r)
      BY <1>1 DEF IoModule0!Latch, Live, Types, IoModule0!Loads, Loads
    <2>2. /\ io'.phase = "RESET" /\ io'.held = [c \in Loads |-> 0]
          /\ io'.ready = r.ready /\ Shape(io')
      BY <1>1, <2>1
    <2>3. [c \in Loads |-> 0] \in [Loads -> Word]
      BY RadixAssumption DEF Word
    <2>4. QED
      BY <2>2, <2>3 DEF IoType, Phases
  <1>2. Shape(io) /\ IoType(io)
    BY DEF Types, IoType
  <1>3. CASE IoModule0!Reset
    <2>1. PICK r : io' = IoModule0!Latch(r) /\ r = [io EXCEPT
          !.phase = IF to_hw_sig = 8 THEN "WAIT" ELSE "RESET",
          !.ready = [c \in Fetches |->
                       IF c \in {"ENCRYPTED", "DECRYPTED", "PHI", "N"}
                       THEN 0 ELSE io.ready[c]],
          !.to_sw_sig = 3]
      BY <1>3 DEF IoModule0!Reset, IoModule0!Fetches, Fetches
    <2>2. Shape(r)
      BY <1>2, <2>1
    <2>3. QED
      BY <1>1, <2>1, <2>2
  <1>4. CASE IoModule0!Read
    <2>1. PICK r : io' = IoModule0!Latch(r) /\ r = [io EXCEPT
          !.phase = IF to_hw_sig = 0 THEN "ACK" ELSE "READ",
          !.held[io.channel] = to_hw_port, !.to_sw_sig = 1]
      BY <1>4 DEF IoModule0!Read
    <2>2. Shape(r)
      BY <1>2, <2>1
    <2>3. QED
      BY <1>1, <2>1, <2>2
  <1>5. CASE IoModule0!Ack
    <2>1. PICK r : io' = IoModule0!Latch(r) /\ r = [io EXCEPT
          !.phase = IF to_hw_sig = 8 \/ (io.channel = "PRM1" /\ to_hw_sig = 2)
                    THEN "WAIT" ELSE "ACK",
          !.channel = IF to_hw_sig = 8 \/ (io.channel = "PRM1" /\ to_hw_sig = 2)
                      THEN "NONE" ELSE io.channel,
          !.to_sw_sig = IF io.channel = "PRM1" THEN 2 ELSE 0]
      BY <1>5 DEF IoModule0!Ack
    <2>2. Shape(r)
      BY <1>2, <2>1
    <2>3. QED
      BY <1>1, <2>1, <2>2
  <1>6. CASE IoModule0!SendTo
    <2>1. PICK r : io' = IoModule0!Latch(r) /\ r = [io EXCEPT
          !.phase = IF Done[io.channel] = 1 THEN "GET_FROM" ELSE "SEND_TO",
          !.ready[io.channel] = IF io.channel \in Confirmed /\ to_hw_sig # 5
                                THEN io.ready[io.channel] ELSE 1,
          !.to_sw_sig = IF io.channel = "GEND" /\ to_hw_sig = 5 THEN 4 ELSE 3]
      BY <1>6 DEF IoModule0!SendTo, Done, IoModule0!Confirmed, Confirmed
    <2>2. Shape(r)
      BY <1>2, <2>1, <1>6 DEF IoType, IoModule0!SendTo
    <2>3. QED
      BY <1>1, <2>1, <2>2
  <1>7. CASE IoModule0!GetFrom
    <2>1. PICK r : io' = IoModule0!Latch(r) /\ r = [io EXCEPT
          !.phase = IF to_hw_sig = 1 THEN "SEND_BACK" ELSE "GET_FROM",
          !.ready[io.channel] = 0, !.to_sw_sig = 2]
      BY <1>7 DEF IoModule0!GetFrom
    <2>2. Shape(r)
      BY <1>2, <2>1, <1>7 DEF IoType, IoModule0!GetFrom
    <2>3. QED
      BY <1>1, <2>1, <2>2
  <1>8. CASE IoModule0!SendBack
    <2>1. PICK r : io' = IoModule0!Latch(r) /\ r = [io EXCEPT
          !.phase = IF to_hw_sig = 2 THEN "GOT_ACK" ELSE "SEND_BACK",
          !.to_sw_port = Value[io.channel],
          !.n_hold = IF io.channel = "N" THEN Value["N"] ELSE io.n_hold,
          !.to_sw_sig = 1]
      BY <1>8 DEF IoModule0!SendBack, Value
    <2>2. Shape(r)
      BY <1>2, <2>1
    <2>3. QED
      BY <1>1, <2>1, <2>2
  <1>9. CASE IoModule0!GotAck
    <2>1. PICK r : io' = IoModule0!Latch(r) /\ r = [io EXCEPT
          !.phase = IF to_hw_sig = 8 THEN "WAIT" ELSE "GOT_ACK",
          !.channel = IF to_hw_sig = 8 THEN "NONE" ELSE io.channel,
          !.to_sw_sig = 0]
      BY <1>9 DEF IoModule0!GotAck
    <2>2. Shape(r)
      BY <1>2, <2>1
    <2>3. QED
      BY <1>1, <2>1, <2>2
  <1>10. CASE IoModule0!Wait
    <2>1. PICK ph, ch : io' = IoModule0!Latch([io EXCEPT !.phase = ph, !.channel = ch,
                                                     !.to_sw_sig = 7])
      <3>1. CASE \E c \in IoModule0!Channels : io' = IoModule0!Latch([io EXCEPT
                   !.phase = IF c \in IoModule0!Loads THEN "READ" ELSE "SEND_TO",
                   !.channel = c, !.to_sw_sig = 7])
        BY <3>1
      <3>2. CASE io' = IoModule0!Latch([io EXCEPT !.to_sw_sig = 7])
        <4>1. [io EXCEPT !.to_sw_sig = 7] =
                [io EXCEPT !.phase = io.phase, !.channel = io.channel, !.to_sw_sig = 7]
          BY <1>2
        <4>2. QED
          BY <3>2, <4>1
      <3>3. QED
        BY <1>10, <3>1, <3>2 DEF IoModule0!Wait
    <2>2. PICK r : r = [io EXCEPT !.phase = ph, !.channel = ch, !.to_sw_sig = 7]
      OBVIOUS
    <2>3. Shape(r) /\ io' = IoModule0!Latch(r)
      BY <1>2, <2>1, <2>2
    <2>4. QED
      BY <1>1, <2>3
  <1>11. QED
    BY <1>3, <1>4, <1>5, <1>6, <1>7, <1>8, <1>9, <1>10 DEF IoModule0!Clock

\* All units are clocked.
Clocked == PhiGen!Clock /\ NGen!Clock /\ GenerateD!Clock /\ RsaEncrypt!Clock /\ RsaDecrypt!Clock

\* Such an edge resets the units as well,
LEMMA UnitsDead ==
  ASSUME Types, reset_n' \in {0, 1}, ~Live, Clocked
  PROVE  \A c \in Units : Unit(c)'.status = "RESET" /\ UnitType(Unit(c)')
  <1>1. phi_gen0'.status = "RESET" /\ UnitType(phi_gen0')
    <2>1. UnitType(phi_gen0) /\ (reset_n = 0 \/ reset_n' = 0)
      BY DEF Types, Live, Units, Unit
    <2>2. QED
      BY <2>1 DEF Clocked, UnitType, PhiGen!Clock, PhiGen!Reset, PhiGen!Wait,
           PhiGen!Work, PhiGen!Stuck, PhiGen!Finish, PhiGen!Finished, PhiGen!Spent,
           PhiGen!NextStatus, PhiGen!Cleared
  <1>2. n_gen0'.status = "RESET" /\ UnitType(n_gen0')
    <2>1. UnitType(n_gen0) /\ (reset_n = 0 \/ reset_n' = 0)
      BY DEF Types, Live, Units, Unit
    <2>2. QED
      BY <2>1 DEF Clocked, UnitType, NGen!Clock, NGen!Reset, NGen!Wait, NGen!Work,
           NGen!Stuck, NGen!Finish, NGen!Finished, NGen!Spent, NGen!NextStatus,
           NGen!Cleared
  <1>3. generate_d0'.status = "RESET" /\ UnitType(generate_d0')
    <2>1. UnitType(generate_d0) /\ (reset_n = 0 \/ reset_n' = 0)
      BY DEF Types, Live, Units, Unit
    <2>2. QED
      BY <2>1 DEF Clocked, UnitType, GenerateD!Clock, GenerateD!Reset,
           GenerateD!Wait, GenerateD!Work, GenerateD!Stuck, GenerateD!Finish,
           GenerateD!Finished, GenerateD!Spent, GenerateD!NextStatus, GenerateD!Cleared
  <1>4. rsa_encrypt0'.status = "RESET" /\ UnitType(rsa_encrypt0')
    <2>1. UnitType(rsa_encrypt0) /\ (reset_n = 0 \/ reset_n' = 0)
      BY DEF Types, Live, Units, Unit
    <2>2. QED
      BY <2>1 DEF Clocked, UnitType, RsaEncrypt!Clock, RsaEncrypt!Reset,
           RsaEncrypt!Wait, RsaEncrypt!Work, RsaEncrypt!Stuck, RsaEncrypt!Finish,
           RsaEncrypt!Finished, RsaEncrypt!Spent, RsaEncrypt!NextStatus,
           RsaEncrypt!Cleared
  <1>5. rsa_decrypt0'.status = "RESET" /\ UnitType(rsa_decrypt0')
    <2>1. UnitType(rsa_decrypt0) /\ (reset_n = 0 \/ reset_n' = 0)
      BY DEF Types, Live, Units, Unit
    <2>2. QED
      BY <2>1 DEF Clocked, UnitType, RsaDecrypt!Clock, RsaDecrypt!Reset,
           RsaDecrypt!Wait, RsaDecrypt!Work, RsaDecrypt!Stuck, RsaDecrypt!Finish,
           RsaDecrypt!Finished, RsaDecrypt!Spent, RsaDecrypt!NextStatus,
           RsaDecrypt!Cleared
  <1>6. QED
    BY <1>1, <1>2, <1>3, <1>4, <1>5 DEF Units, Unit

\* and at any other each unit moves on.
LEMMA UnitsLive ==
  ASSUME Types, Live, Clocked
  PROVE  \A c \in Units : UnitMove(Unit(c), io.ready[c], Unit(c)') /\ UnitType(Unit(c)')
  <1>1. UnitMove(phi_gen0, io.ready["PHI"], phi_gen0') /\ UnitType(phi_gen0')
    <2>1. UnitType(phi_gen0) /\ reset_n # 0 /\ reset_n' # 0
      BY DEF Types, Live, Units, Unit
    <2>2. CASE PhiGen!Reset
      BY <2>1, <2>2 DEF UnitType, UnitMove, PhiGen!NextStatus, PhiGen!Reset, PhiGen!Cleared
    <2>3. CASE PhiGen!Wait
      <3> DEFINE x == IF io.ready["PHI"] = 0 THEN "WAIT"
                      ELSE IF PhiAnswers(<<io.held["PRM1"], io.held["PRM2"]>>) = {} THEN "STUCK" ELSE "BUSY"
      <3>1. phi_gen0.status = "WAIT" /\ phi_gen0' = [phi_gen0 EXCEPT !.status = x]
        BY <2>1, <2>3 DEF PhiGen!NextStatus, PhiGen!Wait
      <3>2. x \in {"WAIT", "BUSY", "STUCK"} /\ ((x = "WAIT") <=> (io.ready["PHI"] = 0))
        OBVIOUS
      <3> HIDE DEF x
      <3>3. QED
        BY <2>1, <3>1, <3>2 DEF UnitType, UnitMove
    <2>4. CASE PhiGen!Work \/ PhiGen!Stuck \/ PhiGen!Spent
      BY <2>1, <2>4 DEF UnitType, UnitMove, PhiGen!NextStatus, PhiGen!Work, PhiGen!Stuck, PhiGen!Spent
    <2>5. CASE PhiGen!Finish
      BY <2>1, <2>5 DEF UnitType, UnitMove, PhiGen!NextStatus, PhiGen!Finish
    <2>6. CASE PhiGen!Finished
      BY <2>1, <2>6 DEF UnitType, UnitMove, PhiGen!NextStatus, PhiGen!Finished
    <2>7. QED
      BY <2>2, <2>3, <2>4, <2>5, <2>6 DEF Clocked, PhiGen!Clock
  <1>2. UnitMove(n_gen0, io.ready["N"], n_gen0') /\ UnitType(n_gen0')
    <2>1. UnitType(n_gen0) /\ reset_n # 0 /\ reset_n' # 0
      BY DEF Types, Live, Units, Unit
    <2>2. CASE NGen!Reset
      BY <2>1, <2>2 DEF UnitType, UnitMove, NGen!NextStatus, NGen!Reset, NGen!Cleared
    <2>3. CASE NGen!Wait
      <3> DEFINE x == IF io.ready["N"] = 0 THEN "WAIT"
                      ELSE IF NAnswers(<<io.held["PRM1"], io.held["PRM2"]>>) = {} THEN "STUCK" ELSE "BUSY"
      <3>1. n_gen0.status = "WAIT" /\ n_gen0' = [n_gen0 EXCEPT !.status = x]
        BY <2>1, <2>3 DEF NGen!NextStatus, NGen!Wait
      <3>2. x \in {"WAIT", "BUSY", "STUCK"} /\ ((x = "WAIT") <=> (io.ready["N"] = 0))
        OBVIOUS
      <3> HIDE DEF x
      <3>3. QED
        BY <2>1, <3>1, <3>2 DEF UnitType, UnitMove
    <2>4. CASE NGen!Work \/ NGen!Stuck \/ NGen!Spent
      BY <2>1, <2>4 DEF UnitType, UnitMove, NGen!NextStatus, NGen!Work, NGen!Stuck, NGen!Spent
    <2>5. CASE NGen!Finish
      BY <2>1, <2>5 DEF UnitType, UnitMove, NGen!NextStatus, NGen!Finish
    <2>6. CASE NGen!Finished
      BY <2>1, <2>6 DEF UnitType, UnitMove, NGen!NextStatus, NGen!Finished
    <2>7. QED
      BY <2>2, <2>3, <2>4, <2>5, <2>6 DEF Clocked, NGen!Clock
  <1>3. UnitMove(generate_d0, io.ready["GEND"], generate_d0') /\ UnitType(generate_d0')
    <2>1. UnitType(generate_d0) /\ reset_n # 0 /\ reset_n' # 0
      BY DEF Types, Live, Units, Unit
    <2>2. CASE GenerateD!Reset
      BY <2>1, <2>2 DEF UnitType, UnitMove, GenerateD!NextStatus, GenerateD!Reset, GenerateD!Cleared
    <2>3. CASE GenerateD!Wait
      <3> DEFINE x == IF io.ready["GEND"] = 0 THEN "WAIT"
                      ELSE IF KeyAnswers(<<io.held["E"], phi_gen0.result>>) = {} THEN "STUCK" ELSE "BUSY"
      <3>1. generate_d0.status = "WAIT" /\ generate_d0' = [generate_d0 EXCEPT !.status = x]
        BY <2>1, <2>3 DEF GenerateD!NextStatus, GenerateD!Wait
      <3>2. x \in {"WAIT", "BUSY", "STUCK"} /\ ((x = "WAIT") <=> (io.ready["GEND"] = 0))
        OBVIOUS
      <3> HIDE DEF x
      <3>3. QED
        BY <2>1, <3>1, <3>2 DEF UnitType, UnitMove
    <2>4. CASE GenerateD!Work \/ GenerateD!Stuck \/ GenerateD!Spent
      BY <2>1, <2>4 DEF UnitType, UnitMove, GenerateD!NextStatus, GenerateD!Work, GenerateD!Stuck, GenerateD!Spent
    <2>5. CASE GenerateD!Finish
      BY <2>1, <2>5 DEF UnitType, UnitMove, GenerateD!NextStatus, GenerateD!Finish
    <2>6. CASE GenerateD!Finished
      BY <2>1, <2>6 DEF UnitType, UnitMove, GenerateD!NextStatus, GenerateD!Finished
    <2>7. QED
      BY <2>2, <2>3, <2>4, <2>5, <2>6 DEF Clocked, GenerateD!Clock
  <1>4. UnitMove(rsa_encrypt0, io.ready["ENCRYPTED"], rsa_encrypt0') /\ UnitType(rsa_encrypt0')
    <2>1. UnitType(rsa_encrypt0) /\ reset_n # 0 /\ reset_n' # 0
      BY DEF Types, Live, Units, Unit
    <2>2. CASE RsaEncrypt!Reset
      BY <2>1, <2>2 DEF UnitType, UnitMove, RsaEncrypt!NextStatus, RsaEncrypt!Reset, RsaEncrypt!Cleared
    <2>3. CASE RsaEncrypt!Wait
      <3> DEFINE x == IF io.ready["ENCRYPTED"] = 0 THEN "WAIT"
                      ELSE IF PowerAnswers(<<io.held["PLAINTEXT"], io.held["E"], n_gen0.result>>) = {} THEN "STUCK" ELSE "BUSY"
      <3>1. rsa_encrypt0.status = "WAIT" /\ rsa_encrypt0' = [rsa_encrypt0 EXCEPT !.status = x]
        BY <2>1, <2>3 DEF RsaEncrypt!NextStatus, RsaEncrypt!Wait
      <3>2. x \in {"WAIT", "BUSY", "STUCK"} /\ ((x = "WAIT") <=> (io.ready["ENCRYPTED"] = 0))
        OBVIOUS
      <3> HIDE DEF x
      <3>3. QED
        BY <2>1, <3>1, <3>2 DEF UnitType, UnitMove
    <2>4. CASE RsaEncrypt!Work \/ RsaEncrypt!Stuck \/ RsaEncrypt!Spent
      BY <2>1, <2>4 DEF UnitType, UnitMove, RsaEncrypt!NextStatus, RsaEncrypt!Work, RsaEncrypt!Stuck, RsaEncrypt!Spent
    <2>5. CASE RsaEncrypt!Finish
      BY <2>1, <2>5 DEF UnitType, UnitMove, RsaEncrypt!NextStatus, RsaEncrypt!Finish
    <2>6. CASE RsaEncrypt!Finished
      BY <2>1, <2>6 DEF UnitType, UnitMove, RsaEncrypt!NextStatus, RsaEncrypt!Finished
    <2>7. QED
      BY <2>2, <2>3, <2>4, <2>5, <2>6 DEF Clocked, RsaEncrypt!Clock
  <1>5. UnitMove(rsa_decrypt0, io.ready["DECRYPTED"], rsa_decrypt0') /\ UnitType(rsa_decrypt0')
    <2>1. UnitType(rsa_decrypt0) /\ reset_n # 0 /\ reset_n' # 0
      BY DEF Types, Live, Units, Unit
    <2>2. CASE RsaDecrypt!Reset
      BY <2>1, <2>2 DEF UnitType, UnitMove, RsaDecrypt!NextStatus, RsaDecrypt!Reset, RsaDecrypt!Cleared
    <2>3. CASE RsaDecrypt!Wait
      <3> DEFINE x == IF io.ready["DECRYPTED"] = 0 THEN "WAIT"
                      ELSE IF PowerAnswers(DecryptOperands) = {} THEN "STUCK" ELSE "BUSY"
      <3>1. rsa_decrypt0.status = "WAIT" /\ rsa_decrypt0' = [rsa_decrypt0 EXCEPT !.status = x]
        BY <2>1, <2>3 DEF RsaDecrypt!NextStatus, RsaDecrypt!Wait
      <3>2. x \in {"WAIT", "BUSY", "STUCK"} /\ ((x = "WAIT") <=> (io.ready["DECRYPTED"] = 0))
        OBVIOUS
      <3> HIDE DEF x
      <3>3. QED
        BY <2>1, <3>1, <3>2 DEF UnitType, UnitMove
    <2>4. CASE RsaDecrypt!Work \/ RsaDecrypt!Stuck \/ RsaDecrypt!Spent
      BY <2>1, <2>4 DEF UnitType, UnitMove, RsaDecrypt!NextStatus, RsaDecrypt!Work, RsaDecrypt!Stuck, RsaDecrypt!Spent
    <2>5. CASE RsaDecrypt!Finish
      BY <2>1, <2>5 DEF UnitType, UnitMove, RsaDecrypt!NextStatus, RsaDecrypt!Finish
    <2>6. CASE RsaDecrypt!Finished
      BY <2>1, <2>6 DEF UnitType, UnitMove, RsaDecrypt!NextStatus, RsaDecrypt!Finished
    <2>7. QED
      BY <2>2, <2>3, <2>4, <2>5, <2>6 DEF Clocked, RsaDecrypt!Clock
  <1>6. QED
    BY <1>1, <1>2, <1>3, <1>4, <1>5 DEF Units, Unit

\* There is no key for a phi of zero.
LEMMA NoKey ==
  ASSUME Types, Live, Clocked, generate_d0.status = "WAIT", io.ready["GEND"] = 1,
         phi_gen0.result = 0
  PROVE  generate_d0'.status = "STUCK"
  <1>1. KeyAnswers(<<io.held["E"], phi_gen0.result>>) = {}
    BY DEF KeyAnswers
  <1>2. UnitType(generate_d0) /\ reset_n # 0 /\ reset_n' # 0
    BY DEF Types, Live, Units, Unit
  <1>3. QED
    BY <1>1, <1>2 DEF Clocked, UnitType, GenerateD!Clock, GenerateD!Reset,
         GenerateD!Wait, GenerateD!Work, GenerateD!Stuck, GenerateD!Finish,
         GenerateD!Finished, GenerateD!Spent, GenerateD!NextStatus, GenerateD!Cleared

\* The program has the channels of io_module.
LEMMA SameChannels ==
  /\ Program!Loads = Loads /\ Program!Fetches = Fetches
  /\ \A j \in Loads \cup Fetches : Program!Written(j, "COMMAND") = Cmd(j)
  <1>1. Program!Loads = Loads /\ Program!Fetches = Fetches
    BY DEF Program!Loads, Program!Fetches, Loads, Fetches
  <1>2. \A j \in Loads \cup Fetches : Program!Written(j, "COMMAND") = Cmd(j)
    BY DEF Program!Written, Cmd, Loads, Fetches
  <1>3. QED
    BY <1>1, <1>2

\* The places of the jobs.
LEMMA Ranks ==
  /\ Rank("MENU") = 0 /\ Rank("PRM1") = 1 /\ Rank("PRIME_1") = 2 /\ Rank("PRM2") = 3
  /\ Rank("PRIME_2") = 4 /\ Rank("N") = 5 /\ Rank("PHI") = 6 /\ Rank("E") = 7
  /\ Rank("GEND") = 8 /\ Rank("PLAINTEXT") = 9 /\ Rank("ENCRYPTED") = 10
  /\ Rank("DECRYPTED") = 11
  BY DEF Rank

\* What a statement of the program does.
SwEdge ==
  /\ SwMove(sw.job, sw.step, to_hw_sig, io.to_sw_sig, sw'.job, sw'.step, to_hw_sig')
  /\ SwType(sw')
  /\ sw'.entered = sw.entered
  /\ to_hw_port' = CASE sw.step = "CLEAR_PORT" -> 0
                     [] sw.step = "PORT" -> sw.entered[sw.job] % Radix
                     [] sw.step \notin {"CLEAR_PORT", "PORT"} -> to_hw_port

\* A statement writes the signal register,
LEMMA SwWriteSignal ==
  ASSUME SwType(sw), Statements(sw.job, sw.step), Program!WriteSignal
  PROVE  SwEdge
  <1> DEFINE st == sw.step
             j == sw.job
             st2 == Program!After(j, st)
  <1>1. /\ st \in {"CLEAR", "COMMAND", "DROP", "CONFIRM", "TAKE", "ACKNOWLEDGE", "RELEASE"}
        /\ sw' = [sw EXCEPT !.step = st2] /\ to_hw_sig' = Program!Written(j, st)
        /\ to_hw_port' = to_hw_port
    BY DEF Program!WriteSignal
  <1>2. j \in {"MENU"} \cup Loads \cup Fetches /\ (st = "COMMAND" => j \in Loads \cup Fetches)
    BY DEF SwType, Statements
  <1>3. SwMove(j, st, to_hw_sig, io.to_sw_sig, j, st2, to_hw_sig')
    <2>1. CASE st = "COMMAND"
      <3>1. to_hw_sig' = Cmd(j)
        BY <1>1, <1>2, <2>1, SameChannels
      <3>2. \/ j \in Loads /\ st2 = "PORT"
            \/ j \in Confirmed /\ st2 = "POLL_SEND_TO"
            \/ j \in Fetches \ Confirmed /\ st2 = "POLL_GET_FROM"
        BY <1>2, <2>1 DEF Program!After, Program!Loads, Loads, Fetches, Confirmed
      <3> HIDE DEF st, j, st2
      <3>3. QED
        BY <2>1, <3>1, <3>2 DEF SwMove
    <2>2. CASE st # "COMMAND"
      <3>1. \/ st = "CLEAR" /\ st2 = "CLEAR_PORT" /\ to_hw_sig' = 0
            \/ st = "DROP" /\ st2 = "POLL_ACK" /\ to_hw_sig' = 0
            \/ st = "CONFIRM" /\ st2 = "POLL_GET_FROM" /\ to_hw_sig' = 5
            \/ st = "TAKE" /\ st2 = "POLL_SEND_BACK" /\ to_hw_sig' = 1
            \/ st = "ACKNOWLEDGE" /\ st2 = "POLL_GOT_ACK" /\ to_hw_sig' = 2
            \/ st = "RELEASE" /\ st2 = "POLL_WAIT" /\ to_hw_sig' = 8
        BY <1>1, <2>2 DEF Program!After, Program!Written
      <3> HIDE DEF st, j, st2
      <3>2. QED
        BY <3>1 DEF SwMove
    <2>3. QED
      BY <2>1, <2>2
  <1>4. sw'.job = j /\ sw'.step = st2 /\ sw'.entered = sw.entered /\ SwType(sw')
    <2> HIDE DEF st2
    <2>1. QED
      BY <1>1 DEF SwType
  <1> HIDE DEF st2
  <1>5. QED
    BY <1>1, <1>3, <1>4 DEF SwEdge

\* or the port,
LEMMA SwWritePort ==
  ASSUME SwType(sw), Program!WritePort
  PROVE  SwEdge
  <1>1. PICK st2 : /\ sw' = [sw EXCEPT !.step = st2] /\ to_hw_sig' = to_hw_sig
                   /\ \/ sw.step = "CLEAR_PORT" /\ st2 = "POLL_RESET" /\ to_hw_port' = 0
                      \/ /\ sw.step = "PORT" /\ st2 = "POLL_READ"
                         /\ to_hw_port' = sw.entered[sw.job] % Radix
    BY DEF Program!WritePort
  <1>2. sw'.job = sw.job /\ sw'.step = st2 /\ sw'.entered = sw.entered /\ SwType(sw')
    BY <1>1 DEF SwType
  <1>3. QED
    BY <1>1, <1>2 DEF SwEdge, SwMove

\* polls within a job,
LEMMA SwPoll ==
  ASSUME SwType(sw), Program!Poll
  PROVE  SwEdge
  <1> DEFINE st == sw.step
             j == sw.job
             st2 == Program!After(j, st)
  <1>1. /\ st \in {"POLL_RESET", "POLL_READ", "POLL_ACK", "POLL_SEND_TO", "POLL_GET_FROM",
                   "POLL_SEND_BACK", "POLL_GOT_ACK"}
        /\ sw' = [sw EXCEPT !.step = st2] /\ io.to_sw_sig = Program!Awaited(j, st)
        /\ to_hw_port' = to_hw_port /\ to_hw_sig' = to_hw_sig
    BY DEF Program!Poll
  <1>2. \/ st = "POLL_RESET" /\ st2 = "RELEASE" /\ io.to_sw_sig = 3
        \/ st = "POLL_READ" /\ st2 = "DROP" /\ io.to_sw_sig = 1
        \/ st = "POLL_ACK" /\ st2 = "RELEASE" /\ io.to_sw_sig = AckSignal(j)
        \/ st = "POLL_SEND_TO" /\ st2 = "CONFIRM" /\ io.to_sw_sig = 3
        \/ st = "POLL_GET_FROM" /\ st2 = "TAKE" /\ io.to_sw_sig = 2
        \/ st = "POLL_SEND_BACK" /\ st2 = "READ_PORT" /\ io.to_sw_sig = 1
        \/ st = "POLL_GOT_ACK" /\ st2 = "RELEASE" /\ io.to_sw_sig = 0
    BY <1>1 DEF Program!After, Program!Awaited, AckSignal
  <1> HIDE DEF st2
  <1>3. sw'.job = j /\ sw'.step = st2 /\ sw'.entered = sw.entered /\ SwType(sw')
    BY <1>1 DEF SwType
  <1>4. SwMove(j, st, to_hw_sig, io.to_sw_sig, j, st2, to_hw_sig')
    BY <1>1, <1>2 DEF SwMove
  <1>5. QED
    BY <1>1, <1>3, <1>4 DEF SwEdge

\* polls for the end of one,
LEMMA SwPollWait ==
  ASSUME SwType(sw), Program!PollWait
  PROVE  SwEdge
  <1>1. /\ sw.step = "POLL_WAIT" /\ io.to_sw_sig = 7
        /\ to_hw_port' = to_hw_port /\ to_hw_sig' = to_hw_sig
    BY DEF Program!PollWait, Program!Awaited
  <1>2. CASE sw.job = "MENU"
    <2>1. sw' = [sw EXCEPT !.step = "OPTION"]
      BY <1>2 DEF Program!PollWait
    <2>2. sw'.job = sw.job /\ sw'.step = "OPTION" /\ sw'.entered = sw.entered /\ SwType(sw')
      BY <2>1 DEF SwType
    <2>3. QED
      BY <1>1, <1>2, <2>2 DEF SwEdge, SwMove
  <1>3. CASE sw.job # "MENU"
    <2> DEFINE j == sw.job
               j2 == Program!Following(j)
               st2 == Program!FirstStep(j2)
    <2>1. sw' = [sw EXCEPT !.job = j2, !.step = st2]
      BY <1>3 DEF Program!PollWait
    <2>2. j \in Loads \cup Fetches
      BY <1>3 DEF SwType
    <2>3. Follows(j, j2) /\ j2 \in {"MENU"} \cup Loads \cup Fetches
      <3>1. \/ j = "PRM1" /\ j2 = "PRIME_1"
            \/ j = "PRIME_1" /\ j2 \in {"PRM1", "PRM2"}
            \/ j = "PRM2" /\ j2 = "PRIME_2"
            \/ j = "PRIME_2" /\ j2 \in {"PRM2", "N"}
            \/ j = "N" /\ j2 = "PHI"
            \/ j = "PHI" /\ j2 = "E"
            \/ j = "E" /\ j2 = "GEND"
            \/ j = "GEND" /\ j2 = "PLAINTEXT"
            \/ j = "PLAINTEXT" /\ j2 = "ENCRYPTED"
            \/ j = "ENCRYPTED" /\ j2 = "DECRYPTED"
            \/ j = "DECRYPTED" /\ j2 = "MENU"
        BY <2>2 DEF Program!Following, Loads, Fetches
      <3> HIDE DEF j, j2
      <3>2. QED
        BY <3>1, Ranks DEF Follows, Loads, Fetches
    <2>4. \/ j2 = "MENU" /\ st2 = "CLEAR"
          \/ j2 \in Loads /\ st2 = "SCAN"
          \/ j2 \in Fetches /\ st2 = "COMMAND"
      BY <2>3 DEF Program!FirstStep, Program!Loads, Program!Fetches, Loads, Fetches
    <2> HIDE DEF j2, st2
    <2>5. sw'.job = j2 /\ sw'.step = st2 /\ sw'.entered = sw.entered /\ SwType(sw')
      BY <2>1, <2>3 DEF SwType
    <2>6. QED
      BY <1>1, <1>3, <2>3, <2>4, <2>5 DEF SwEdge, SwMove
  <1>4. QED
    BY <1>2, <1>3

\* or reads the port.
LEMMA SwReadPort ==
  ASSUME SwType(sw), Program!ReadPort
  PROVE  SwEdge
  <1>1. PICK v : /\ sw' = [sw EXCEPT !.fetched[sw.job] = v, !.step = "ACKNOWLEDGE"]
                 /\ sw.step = "READ_PORT" /\ to_hw_sig' = to_hw_sig
                 /\ to_hw_port' = to_hw_port
    BY DEF Program!ReadPort
  <1>2. /\ sw'.job = sw.job /\ sw'.step = "ACKNOWLEDGE" /\ sw'.entered = sw.entered
        /\ SwType(sw')
    BY <1>1 DEF SwType
  <1>3. QED
    BY <1>1, <1>2 DEF SwEdge, SwMove

\* Whatever the statement.
LEMMA SwStatement == Types /\ Protocol /\ Statement => SwEdge
  BY SwWriteSignal, SwWritePort, SwPoll, SwPollWait, SwReadPort
     DEF Types, Protocol, Control, Statement, Program!Program

-----------------------------------------------------------------------------
(* The moves keep program and io_module together                           *)

\* The commands are different signals, and neither 0 nor 8.
LEMMA Commands ==
  /\ Cmd("PRM1") = 1 /\ Cmd("PRM2") = 2 /\ Cmd("PHI") = 3 /\ Cmd("E") = 4
  /\ Cmd("PLAINTEXT") = 5 /\ Cmd("ENCRYPTED") = 6 /\ Cmd("DECRYPTED") = 7 /\ Cmd("N") = 9
  /\ Cmd("GEND") = 10 /\ Cmd("PRIME_1") = 11 /\ Cmd("PRIME_2") = 12
  BY DEF Cmd

\* So none is taken for another, or for an answer.
LEMMA Distinct ==
  /\ \A a, b \in Loads \cup Fetches : Cmd(a) = Cmd(b) => a = b
  /\ \A a \in Loads \cup Fetches : Cmd(a) # 0 /\ Cmd(a) # 8
  /\ \A a \in Loads \cup Fetches : Cmd(a) = 5 => a = "PLAINTEXT"
  /\ \A a \in Fetches : Cmd(a) \notin {1, 2, 5}
  BY Commands DEF Loads, Fetches

\* A job is a load, a confirmed fetch or another fetch.
LEMMA Kinds ==
  /\ "MENU" \notin Loads /\ "MENU" \notin Fetches
  /\ \A j \in Loads : j \notin Fetches
  /\ \A j \in Confirmed : j \in Fetches
  /\ \A j \in Units : j \in Fetches
  /\ "PLAINTEXT" \in Loads
  BY DEF Loads, Fetches, Confirmed, Units

\* The program moves.
LEMMA SwControl ==
  ASSUME NEW j \in {"MENU"} \cup Loads \cup Fetches, NEW st, NEW sig, NEW ph \in Phases, NEW ch,
         NEW s, NEW j2, NEW st2, NEW sig2,
         Control(j, st, sig, ph, ch, s), SwMove(j, st, sig, s, j2, st2, sig2)
  PROVE  Control(j2, st2, sig2, ph, ch, s)
  <1>1. CASE j2 = j
    <2>1. Statements(j, st2)
      BY <1>1, Kinds DEF Control, Statements, SwMove, Program!Steps
    <2>2. Writes(j, st2, sig2)
      BY <1>1, Kinds DEF Control, Statements, Writes, SwMove
    <2>3. ASSUME ph # "RESET", j # "MENU" PROVE Together(j, st2, ph, ch, s)
      BY <1>1, <2>3, Kinds DEF Control, Statements, SwMove, Together, Derailed, Shows, AckSignal
    <2>4. ASSUME ph # "RESET", j = "MENU" PROVE AtMenu(st2, ph, s)
      BY <1>1, <2>4, Kinds DEF Control, Statements, SwMove, AtMenu, Shows, Phases
    <2>5. QED
      BY <1>1, <2>1, <2>2, <2>3, <2>4 DEF Control
  <1>2. CASE j2 # j
    <2>1. /\ st = "POLL_WAIT" /\ s = 7 /\ sig2 = sig /\ sig = 8 /\ j # "MENU"
          /\ \/ j2 = "MENU" /\ st2 = "CLEAR"
             \/ j2 \in Loads /\ st2 = "SCAN"
             \/ j2 \in Fetches /\ st2 = "COMMAND"
      BY <1>2 DEF SwMove, Control, Writes
    <2>2. ph \notin {"RESET", "WAIT"} => FALSE
      BY <2>1 DEF Control, Together, AckSignal
    <2>3. QED
      BY <2>1, <2>2, Kinds DEF Control, Statements, Writes, Together, AtMenu, Program!Steps
  <1>3. QED
    BY <1>1, <1>2

\* io_module moves; its channel is one of its own.
LEMMA IoControl ==
  ASSUME NEW j \in {"MENU"} \cup Loads \cup Fetches, NEW st, NEW sig, NEW ph, NEW ch, NEW s,
         NEW dn, NEW ph2, NEW ch2, NEW s2,
         OwnChannel(ph, ch),
         Control(j, st, sig, ph, ch, s), IoMove(ph, ch, sig, dn, ph2, ch2, s2)
  PROVE  Control(j, st, sig, ph2, ch2, s2)
  <1>1. Statements(j, st) /\ Writes(j, st, sig)
    BY DEF Control
  <1>2. Shows(ph2, s2)
    BY DEF Control, IoMove, Shows, AckSignal
  <1>3. ASSUME j # "MENU", ph # "RESET" PROVE Together(j, st, ph2, ch2, s2)
    <2>1. Together(j, st, ph, ch, s) /\ Shows(ph, s)
      BY <1>3 DEF Control
    <2>2. CASE ph = "WAIT"
      BY <1>1, <1>3, <2>1, <2>2, Kinds, Distinct
         DEF Statements, Writes, IoMove, Together, Derailed
    <2>3. CASE ph \in {"READ", "ACK"}
      BY <1>1, <1>3, <2>1, <2>3, Kinds, Distinct
         DEF Statements, Writes, IoMove, Together, Derailed, AckSignal, Shows
    <2>4. CASE ph \in {"SEND_TO", "GET_FROM"}
      BY <1>1, <1>3, <2>1, <2>4, Kinds, Distinct
         DEF Statements, Writes, IoMove, Together, Derailed, Shows
    <2>5. CASE ph \in {"SEND_BACK", "GOT_ACK"}
      BY <1>1, <1>3, <2>1, <2>5, Kinds, Distinct
         DEF Statements, Writes, IoMove, Together, Derailed, Shows
    <2>6. QED
      BY <1>3, <2>2, <2>3, <2>4, <2>5 DEF IoMove
  <1>4. ASSUME j = "MENU", ph # "RESET" PROVE AtMenu(st, ph2, s2)
    <2>1. AtMenu(st, ph, s)
      BY <1>4 DEF Control
    <2>2. QED
      BY <1>1, <1>4, <2>1, Kinds, Distinct DEF Statements, Writes, IoMove, AtMenu, Shows
  <1>5. ASSUME ph = "RESET", ph2 # "RESET"
        PROVE  (j # "MENU" => Together(j, st, ph2, ch2, s2)) /\ (j = "MENU" => AtMenu(st, ph2, s2))
    <2>1. ph2 = "WAIT" /\ s2 = 3 /\ sig = 8
      BY <1>5 DEF IoMove
    <2>2. QED
      BY <1>1, <2>1, Kinds, Distinct DEF Statements, Writes, Together, AtMenu
  <1>6. QED
    BY <1>1, <1>2, <1>3, <1>4, <1>5 DEF Control

\* An undisturbed session stays one, when the program moves
LEMMA SwUndisturbed ==
  ASSUME NEW j \in {"MENU"} \cup Loads \cup Fetches, NEW st, NEW sig, NEW ph \in Phases, NEW ch,
         NEW s, NEW j2, NEW st2, NEW sig2,
         Control(j, st, sig, ph, ch, s), Undisturbed(j, st, ph, ch, s),
         SwMove(j, st, sig, s, j2, st2, sig2)
  PROVE  Undisturbed(j2, st2, ph, ch, s)
  <1>1. CASE j2 = j
    BY <1>1, Kinds DEF Control, Statements, SwMove, Together, Undisturbed, Derailed, Shows,
                       Confirmed
  <1>2. CASE j2 # j
    <2>1. /\ st = "POLL_WAIT" /\ s = 7 /\ j # "MENU"
          /\ \/ j2 = "MENU" /\ st2 = "CLEAR"
             \/ j2 \in Loads /\ st2 = "SCAN"
             \/ j2 \in Fetches /\ st2 = "COMMAND"
      BY <1>2 DEF SwMove
    <2>2. ph = "WAIT"
      BY <2>1 DEF Control, Together, AckSignal, Undisturbed
    <2>3. QED
      BY <2>1, <2>2, Kinds DEF Undisturbed, Derailed
  <1>3. QED
    BY <1>1, <1>2

\* or io_module.
LEMMA IoUndisturbed ==
  ASSUME NEW j \in {"MENU"} \cup Loads \cup Fetches, NEW st, NEW sig, NEW ph \in Phases, NEW ch,
         NEW s, NEW dn, NEW ph2, NEW ch2, NEW s2,
         Control(j, st, sig, ph, ch, s), Undisturbed(j, st, ph, ch, s),
         IoMove(ph, ch, sig, dn, ph2, ch2, s2)
  PROVE  Undisturbed(j, st, ph2, ch2, s2)
  <1>1. Statements(j, st) /\ Writes(j, st, sig) /\ (j # "MENU" => Together(j, st, ph, ch, s))
    BY DEF Control, Undisturbed
  <1>2. CASE ph = "WAIT"
    <2>1. ph2 \in {"WAIT", "READ", "SEND_TO"} /\ s2 = 7
      BY <1>2 DEF IoMove
    <2>2. j = "MENU" => ph2 = "WAIT"
      BY <1>1, <1>2, Distinct DEF IoMove, Undisturbed, Writes
    <2>3. ~Derailed(j, st, ph2, ch2)
      BY <1>1, <1>2, <2>1, Distinct, Kinds DEF IoMove, Undisturbed, Writes, Derailed, Together
    <2>4. QED
      BY <2>1, <2>2, <2>3 DEF Undisturbed
  <1>3. CASE ph # "WAIT"
    <2>1. ph2 # "RESET" /\ j # "MENU" /\ (ph2 = "WAIT" => s2 \in {0, 2})
      BY <1>3 DEF IoMove, Undisturbed, AckSignal
    <2>2. ~Derailed(j, st, ph2, ch2)
      BY <1>1, <1>3, <2>1, Kinds DEF IoMove, Undisturbed, Writes, Derailed, Together
    <2>3. QED
      BY <2>1, <2>2 DEF Undisturbed
  <1>4. QED
    BY <1>2, <1>3

-----------------------------------------------------------------------------
(* The moves keep the requests of the units                                *)

\* The units come after the primes.
LEMMA LateUnits == \A c \in Units : Rank(c) \in 5 .. 11 /\ c # "MENU"
  BY Ranks DEF Units

\* The program moves.
LEMMA SwRequests ==
  ASSUME NEW j \in {"MENU"} \cup Loads \cup Fetches, NEW st, NEW sig, NEW ph \in Phases, NEW ch,
         NEW s, NEW j2, NEW st2, NEW sig2, NEW c \in Units, NEW u, NEW r,
         Control(j, st, sig, ph, ch, s), Requests(c, u, r, j, st, ph, ch, s),
         SwMove(j, st, sig, s, j2, st2, sig2)
  PROVE  Requests(c, u, r, j2, st2, ph, ch, s)
  <1> DEFINE answered == u.status \in {"FINISHED", "SPENT"}
  <1>1. ASSUME answered PROVE Past(c, j2, st2, ph, ch)
    <2>1. Past(c, j, st, ph, ch) /\ ph # "RESET" /\ ~(ph = "WAIT" /\ s = 3)
      BY <1>1 DEF Requests
    <2>2. CASE j2 = j
      <3>1. j = "MENU" /\ st = "POLL_RESET" /\ s = 3 => ph \in {"SEND_TO", "GET_FROM"}
        BY <2>1 DEF Control, Shows, Phases
      <3>2. ~Follows(j, j)
        BY Ranks DEF Follows, Loads, Fetches
      <3>3. QED
        BY <2>1, <2>2, <3>1, <3>2, LateUnits DEF Past, SwMove
    <2>3. CASE j2 # j
      <3>1. st = "POLL_WAIT" /\ s = 7 /\ j # "MENU" /\ Follows(j, j2) /\ (j2 = "MENU" => st2 = "CLEAR")
        BY <2>3, Kinds DEF SwMove
      <3>2. ph = "WAIT"
        BY <2>1, <3>1 DEF Control, Together, AckSignal
      <3>3. Rank(j) > Rank(c) \/ j = c
        BY <2>1, <3>1, <3>2 DEF Past
      <3>4. Rank(j) \in 5 .. 11 /\ Rank(j) >= Rank(c)
        BY <3>3, Ranks, LateUnits DEF Loads, Fetches
      <3>5. j2 = "MENU" \/ Rank(j2) = Rank(j) + 1
        BY <3>1, <3>4, Ranks DEF Follows
      <3>6. QED
        BY <3>1, <3>4, <3>5, LateUnits DEF Past
    <2>4. QED
      BY <2>2, <2>3
  <1>2. ASSUME ph = "WAIT", j2 = "MENU", st2 \in {"RELEASE", "POLL_WAIT", "OPTION"}
        PROVE  ~answered
    BY <1>2, Kinds DEF Requests, SwMove, Control, Statements
  <1>3. QED
    BY <1>1, <1>2 DEF Requests

\* Where the program is when io_module serves a channel, or leaves it.
LEMMA Serving ==
  ASSUME NEW j \in {"MENU"} \cup Loads \cup Fetches, NEW st, NEW sig, NEW ph, NEW ch, NEW s,
         OwnChannel(ph, ch), Control(j, st, sig, ph, ch, s)
  PROVE  /\ ph \in {"SEND_TO", "GET_FROM"} => j = "MENU" \/ j = ch
         /\ ph = "ACK" /\ j \in Fetches => FALSE
         /\ ph = "READ" /\ j \in Fetches => sig = 5
         /\ ph = "GET_FROM" /\ sig = 1 => j # "MENU" /\ s = 2
         /\ ph = "GOT_ACK" /\ sig = 8 /\ j # "MENU" => st = "POLL_WAIT"
         /\ ph = "WAIT" => \A c \in Fetches : sig = Cmd(c) => j = c /\ st # "POLL_WAIT"
  <1>1. /\ Statements(j, st) /\ Writes(j, st, sig)
        /\ ph # "RESET" /\ j # "MENU" => Together(j, st, ph, ch, s)
        /\ ph # "RESET" /\ j = "MENU" => AtMenu(st, ph, s)
    BY DEF Control
  <1>2. ph \in {"SEND_TO", "GET_FROM"} => j = "MENU" \/ j = ch
    BY <1>1, Kinds DEF Statements, Together, Derailed, Program!Steps
  <1>3. ph = "ACK" /\ j \in Fetches => FALSE
    BY <1>1, Kinds DEF Statements, Together, Derailed, Program!Steps
  <1>4. ph = "READ" /\ j \in Fetches => sig = 5
    BY <1>1, Kinds DEF Statements, Together, Derailed, Writes, Program!Steps
  <1>5. ph = "GET_FROM" /\ sig = 1 => j # "MENU" /\ s = 2
    BY <1>1, Kinds, Distinct DEF Statements, Together, Derailed, Writes, Program!Steps
  <1>6. ph = "GOT_ACK" /\ sig = 8 /\ j # "MENU" => st = "POLL_WAIT"
    BY <1>1, Kinds DEF Statements, Together, Derailed, Writes, Program!Steps
  <1>7. ph = "WAIT" => \A c \in Fetches : sig = Cmd(c) => j = c /\ st # "POLL_WAIT"
    BY <1>1, Kinds, Distinct DEF Statements, Together, Derailed, Writes, Program!Steps
  <1>8. QED
    BY <1>2, <1>3, <1>4, <1>5, <1>6, <1>7

\* io_module sees the unit it serves.
DoneOf(c, u, ch, dn) == ch = c => dn = u.done

\* The search for a key that a reset has interrupted starts without a phi.
Premature(c, u, r, ph, ch, u2) ==
  c = "GEND" /\ u.status = "WAIT" /\ r = 1 /\ ~(ch = "GEND" /\ ph = "SEND_TO") =>
    u2.status = "STUCK"

\* io_module and the unit move.
LEMMA IoRequests ==
  ASSUME NEW j \in {"MENU"} \cup Loads \cup Fetches, NEW st, NEW sig, NEW ph \in Phases, NEW ch,
         NEW s, NEW dn, NEW ph2, NEW ch2, NEW s2,
         NEW c \in Units, NEW u, NEW r \in {0, 1}, NEW u2, NEW r2,
         OwnChannel(ph, ch),
         Control(j, st, sig, ph, ch, s), Requests(c, u, r, j, st, ph, ch, s),
         IoMove(ph, ch, sig, dn, ph2, ch2, s2), DoneOf(c, u, ch, dn),
         ReadyMove(c, r, ph, ch, sig, r2), UnitMove(u, r, u2), Premature(c, u, r, ph, ch, u2)
  PROVE  Requests(c, u2, r2, j, st, ph2, ch2, s2)
  <1>1. c \in Fetches /\ c \notin Loads /\ c # "MENU" /\ "MENU" \notin Fetches
    BY Kinds DEF Units, Loads
  <1>2. ASSUME ph = "RESET" PROVE Requests(c, u2, r2, j, st, ph2, ch2, s2)
    <2>1. ph2 \in {"RESET", "WAIT"} /\ (c # "GEND" => r2 = 0)
      BY <1>2 DEF IoMove, ReadyMove, Units
    <2>2. u2.status \in {"WAIT", "STUCK"} /\ u2.done = 0 /\ (c # "GEND" => u2.status = "WAIT")
      BY <1>2 DEF UnitMove, Requests, Premature
    <2>3. QED
      BY <2>1, <2>2 DEF Requests
  <1>3. ASSUME ph # "RESET", ~(ch = c /\ ph \in {"SEND_TO", "GET_FROM"})
        PROVE  Requests(c, u2, r2, j, st, ph2, ch2, s2)
    <2>1. r2 = r /\ u.status \in {"WAIT", "STUCK", "SPENT"}
      BY <1>3 DEF ReadyMove, Requests, UnitMove
    <2>2. \/ u2 = u /\ (u.status = "WAIT" => r = 0)
          \/ c = "GEND" /\ u2.status = "STUCK" /\ u2.done = 0
      BY <1>3, <2>1 DEF UnitMove, Requests, Premature
    <2>3. ph2 # "RESET" /\ (ph2 = "WAIT" => s2 # 3) /\ (ph2 = "GET_FROM" => ch2 # c)
      BY <1>3 DEF IoMove, AckSignal
    <2>4. ASSUME u2.status = "SPENT"
          PROVE  r2 = 0 /\ ~(ch2 = c /\ ph2 = "SEND_TO") /\ Past(c, j, st, ph2, ch2)
      <3>1. u2 = u /\ r2 = 0 /\ Past(c, j, st, ph, ch)
        BY <2>1, <2>2, <2>4 DEF Requests
      <3>2. CASE ph = "WAIT"
        <4>1. sig # Cmd(c)
          BY <1>1, <3>1, <3>2, Serving, LateUnits DEF Past
        <4>2. QED
          BY <3>1, <3>2, <4>1 DEF Past, IoMove
      <3>3. CASE ph \in {"READ", "ACK"}
        <4>1. ph2 \in {"READ", "ACK", "WAIT"} /\ (j = c => ph = "READ" /\ ph2 = "READ")
          BY <1>1, <3>3, Serving DEF IoMove
        <4>2. QED
          BY <3>1, <3>3, <4>1 DEF Past
      <3>4. CASE ph \in {"SEND_TO", "GET_FROM"}
        <4>1. ch2 = ch /\ ph2 \in {"SEND_TO", "GET_FROM", "SEND_BACK"}
              /\ (ph2 = "SEND_BACK" => j # "MENU")
          BY <3>4, Serving DEF IoMove
        <4>2. QED
          BY <1>3, <3>1, <3>4, <4>1 DEF Past
      <3>5. CASE ph \in {"SEND_BACK", "GOT_ACK"}
        <4>1. ph2 \in {"SEND_BACK", "GOT_ACK", "WAIT"} /\ (ph2 = "WAIT" => ph = "GOT_ACK" /\ sig = 8)
          BY <3>5 DEF IoMove
        <4>2. QED
          BY <1>1, <3>1, <3>5, <4>1, Serving DEF Past
      <3>6. QED
        BY <1>3, <3>1, <3>2, <3>3, <3>4, <3>5 DEF Phases
    <2>5. ASSUME u2.status = "SPENT", ph2 = "WAIT", j = "MENU",
                 st \in {"RELEASE", "POLL_WAIT", "OPTION"}
          PROVE  FALSE
      <3>1. u2 = u
        BY <2>2, <2>5
      <3>2. ph = "WAIT"
        BY <1>3, <2>5 DEF Control, AtMenu, IoMove
      <3>3. QED
        BY <2>5, <3>1, <3>2 DEF Requests
    <2>6. /\ u2.status \in {"WAIT", "STUCK"} => u2.done = 0
          /\ u2.status = "SPENT" => u2.done = 1
          /\ u2.status \in {"WAIT", "STUCK", "SPENT"}
          /\ r2 = 1 => c = "GEND" /\ u2.status \in {"WAIT", "STUCK"}
      BY <1>3, <2>1, <2>2 DEF Requests
    <2>7. QED
      BY <2>3, <2>4, <2>5, <2>6 DEF Requests
  <1>4. ASSUME ch = c, ph = "SEND_TO" PROVE Requests(c, u2, r2, j, st, ph2, ch2, s2)
    <2>1. /\ ch2 = c /\ ph2 = (IF u.done = 1 THEN "GET_FROM" ELSE "SEND_TO") /\ s2 # 2
          /\ r2 \in {r, 1} /\ (j = "MENU" \/ j = c)
      BY <1>4, Serving DEF IoMove, ReadyMove, DoneOf
    <2>2. u.status \in {"WAIT", "BUSY", "STUCK", "FINISHED"}
      BY <1>4 DEF Requests, UnitMove
    <2>3. \/ u.done = 0 /\ u2 = u /\ u.status = "WAIT" /\ r = 0
          \/ u.done = 0 /\ u2.status \in {"BUSY", "STUCK"} /\ u2.done = 0 /\ r2 = 1
          \/ u.done = 0 /\ u2.status = "STUCK" /\ u2.done = 0
          \/ u.done = 0 /\ u2.status = "FINISHED" /\ u2.done = 1 /\ r2 = 1
          \/ u.done = 1 /\ u2.status = "FINISHED" /\ u2.done = 1
      BY <1>4, <2>1, <2>2 DEF Requests, UnitMove
    <2>4. Past(c, j, st, ph2, ch2)
      BY <2>1 DEF Past
    <2>5. QED
      BY <2>1, <2>3, <2>4 DEF Requests
  <1>5. ASSUME ch = c, ph = "GET_FROM" PROVE Requests(c, u2, r2, j, st, ph2, ch2, s2)
    <2>1. /\ ch2 = c /\ ph2 = (IF sig = 1 THEN "SEND_BACK" ELSE "GET_FROM") /\ s2 = 2 /\ r2 = 0
          /\ (j = "MENU" \/ j = c)
      BY <1>5, Serving DEF IoMove, ReadyMove
    <2>2. u.status \in {"FINISHED", "SPENT"} /\ u.done = 1 /\ (s = 2 => r = 0)
      BY <1>5 DEF Requests
    <2>3. u2.status \in {"FINISHED", "SPENT"} /\ u2.done = 1 /\ (r = 0 => u2.status = "SPENT")
      BY <2>2 DEF UnitMove
    <2>4. sig = 1 => j # "MENU" /\ s = 2
      BY <1>5, Serving
    <2>5. Past(c, j, st, ph2, ch2)
      BY <2>1, <2>4 DEF Past
    <2>6. QED
      BY <2>1, <2>2, <2>3, <2>4, <2>5 DEF Requests
  <1>6. QED
    BY <1>2, <1>3, <1>4, <1>5

-----------------------------------------------------------------------------
(* Every step keeps the invariant                                          *)

\* The order of the jobs is that of their ranks.
Before(c, job) ==
  \E i \in DOMAIN JobOrder : \E j \in 1 .. i - 1 : JobOrder[i] = job /\ JobOrder[j] = c

LEMMA RankOrder ==
  ASSUME NEW c \in Loads \cup Fetches, NEW job
  PROVE  Before(c, job) <=> job \in Loads \cup Fetches /\ Rank(job) > Rank(c)
  <1>1. DOMAIN JobOrder = 1 .. 11 /\ \A i \in 1 .. 11 : Rank(JobOrder[i]) = i
    BY Ranks DEF JobOrder
  <1>2. \A j \in Loads \cup Fetches : Rank(j) \in 1 .. 11 /\ JobOrder[Rank(j)] = j
    BY Ranks DEF JobOrder, Loads, Fetches
  <1>3. \A i \in 1 .. 11 : JobOrder[i] \in Loads \cup Fetches
    BY DEF JobOrder, Loads, Fetches
  <1>4. ASSUME Before(c, job) PROVE job \in Loads \cup Fetches /\ Rank(job) > Rank(c)
    <2>1. PICK i \in 1 .. 11 : \E j \in 1 .. i - 1 : JobOrder[i] = job /\ JobOrder[j] = c
      BY <1>1, <1>4 DEF Before
    <2>2. PICK j \in 1 .. i - 1 : JobOrder[i] = job /\ JobOrder[j] = c
      BY <2>1
    <2>3. j \in 1 .. 11 /\ i > j
      BY <2>2
    <2>4. QED
      BY <1>1, <1>3, <2>2, <2>3
  <1>5. ASSUME job \in Loads \cup Fetches, Rank(job) > Rank(c) PROVE Before(c, job)
    <2>1. /\ Rank(job) \in DOMAIN JobOrder /\ Rank(c) \in 1 .. Rank(job) - 1
          /\ JobOrder[Rank(job)] = job /\ JobOrder[Rank(c)] = c
      BY <1>1, <1>2, <1>5
    <2>2. QED
      BY <2>1 DEF Before
  <1>6. QED
    BY <1>4, <1>5

\* What Known says of a channel that is loaded.
LEMMA KnownLoaded ==
  ASSUME NEW c \in Loads, Statements(sw.job, sw.step)
  PROVE  Known(c) <=> clean /\ Loaded(c, sw.job, sw.step)
  <1>1. Known(c) <=> /\ clean
                     /\ \/ Before(c, sw.job)
                        \/ /\ sw.job = c
                           /\ sw.step \in {"ACKNOWLEDGE", "POLL_GOT_ACK", "RELEASE", "POLL_WAIT"}
    BY DEF Known, Before
  <1>2. QED
    BY <1>1, RankOrder, Kinds DEF Loaded, Statements

\* A statement of the program.
LEMMA StatementKeeps == IInv /\ Statement => IInv'
  <1> SUFFICES ASSUME IInv, Statement PROVE IInv'
    OBVIOUS
  <1> USE DEF IInv
  <1>1. SwEdge
    BY SwStatement
  <1>2. UNCHANGED <<reset_n, io, clean>> /\ \A c \in Units : Unit(c)' = Unit(c)
    BY DEF Statement, hardware, Unit, Units
  <1>3. /\ sw.job \in {"MENU"} \cup Loads \cup Fetches /\ io.phase \in Phases
        /\ Control(sw.job, sw.step, to_hw_sig, io.phase, io.channel, io.to_sw_sig)
    BY DEF Types, SwType, IoType, Protocol
  <1>4. SwMove(sw.job, sw.step, to_hw_sig, io.to_sw_sig, sw'.job, sw'.step, to_hw_sig')
    BY <1>1 DEF SwEdge
  <1>5. Types'
    <2>1. to_hw_port' \in Word
      <3>1. sw.step = "PORT" => sw.job \in Loads
        BY <1>3 DEF Control, Statements
      <3>2. sw.step = "PORT" => sw.entered[sw.job] \in Int
        BY <3>1 DEF Types, SwType
      <3>3. \A x \in Int : x % Radix \in Word
        BY RadixAssumption DEF Word
      <3>4. 0 \in Word
        BY RadixAssumption DEF Word
      <3>5. QED
        BY <1>1, <3>2, <3>3, <3>4 DEF SwEdge, Types
    <2>2. QED
      BY <1>1, <1>2, <2>1 DEF Types, SwEdge
  <1>6. Protocol'
    BY <1>2, <1>3, <1>4, SwControl DEF Protocol
  <1>7. CleanInv'
    BY <1>2, <1>3, <1>4, SwUndisturbed DEF CleanInv
  <1>8. UnitInv'
    <2>1. \A c \in Units : Requests(c, Unit(c), io.ready[c], sw'.job, sw'.step, io.phase,
                                    io.channel, io.to_sw_sig)
      BY <1>3, <1>4, SwRequests DEF UnitInv
    <2>2. UNCHANGED <<phi_gen0, generate_d0>>
      BY DEF Statement, hardware
    <2>3. QED
      BY <1>2, <2>1, <2>2 DEF UnitInv
  <1>9. PortInv'
    <2>1. sw'.entered = sw.entered /\ (sw.step = "PORT" => to_hw_port' = sw.entered[sw.job] % Radix)
          /\ (sw.step \notin {"CLEAR_PORT", "PORT"} => to_hw_port' = to_hw_port)
      BY <1>1 DEF SwEdge
    <2>2. /\ sw'.step = "POLL_READ" => sw.step = "PORT" /\ sw'.job = sw.job
          /\ sw'.step = "DROP" => sw.step = "POLL_READ" /\ sw'.job = sw.job
          /\ sw'.step = "POLL_ACK" => sw.step = "DROP" /\ sw'.job = sw.job
      BY <1>4 DEF SwMove
    <2>3. ASSUME clean, sw.step = "DROP", io.phase = "ACK" PROVE FALSE
      BY <1>3, <2>3, Kinds DEF Control, Statements, Together
    <2>4. QED
      BY <1>2, <2>1, <2>2, <2>3 DEF PortInv
  <1>10. Operands'
    <2> SUFFICES ASSUME clean, NEW c \in Loads, Loaded(c, sw'.job, sw'.step)
                 PROVE  io.held[c] = sw.entered[c] % Radix
      BY <1>1, <1>2 DEF Operands, SwEdge
    <2>1. CASE Loaded(c, sw.job, sw.step)
      BY <2>1 DEF Operands
    <2>2. CASE ~Loaded(c, sw.job, sw.step)
      <3>1. sw.job = c /\ sw.step = "POLL_ACK" /\ io.to_sw_sig = AckSignal(c)
        <4>1. CASE sw'.job = sw.job
          BY <1>3, <1>4, <2>2, <4>1, Kinds DEF Loaded, SwMove, Statements, Control
        <4>2. CASE sw'.job # sw.job
          <5>1. sw.step = "POLL_WAIT" /\ Follows(sw.job, sw'.job) /\ sw.job \in Loads \cup Fetches
                /\ sw'.step \notin {"RELEASE", "POLL_WAIT"}
            BY <1>3, <1>4, <4>2 DEF SwMove
          <5>2. sw'.job \in Loads \cup Fetches /\ Rank(sw'.job) > Rank(c)
            BY <5>1 DEF Loaded
          <5>3. Rank(sw.job) > Rank(c) \/ sw.job = c
            BY <5>1, <5>2, Ranks DEF Follows, Loads, Fetches
          <5>4. QED
            BY <2>2, <5>1, <5>3 DEF Loaded
        <4>3. QED
          BY <4>1, <4>2
      <3>2. io.phase = "ACK"
        BY <1>3, <3>1, Kinds DEF CleanInv, Undisturbed, Control, Together, AckSignal
      <3>3. QED
        BY <3>1, <3>2 DEF PortInv
    <2>3. QED
      BY <2>1, <2>2
  <1>11. QED
    BY <1>5, <1>6, <1>7, <1>8, <1>9, <1>10

\* An entry of the user.
LEMMA EntryKeeps == IInv /\ Entry => IInv'
  <1> SUFFICES ASSUME IInv, Entry PROVE IInv'
    OBVIOUS
  <1> USE DEF IInv
  <1> DEFINE j == sw.job
  <1>1. UNCHANGED <<reset_n, io, clean, to_hw_sig, to_hw_port, phi_gen0, generate_d0>>
        /\ \A c \in Units : Unit(c)' = Unit(c)
    BY DEF Entry, hardware, Unit, Units, Program!Scan
  <1>2. /\ sw.step = "SCAN" /\ j \in Loads /\ j # "MENU" /\ SwType(sw)
        /\ Control(j, sw.step, to_hw_sig, io.phase, io.channel, io.to_sw_sig)
    BY Kinds DEF Entry, Program!Scan, Types, Protocol, Control, Statements
  <1>3. \A v \in Program!Entries(j) : v \in Int
    BY <1>2, EntriesAssumption DEF Program!Entries, Loads
  <1>4. PICK v \in Int, st \in {"SCAN", "COMMAND"} :
           sw' = [sw EXCEPT !.entered[j] = v, !.step = st]
    <2>1. PICK v \in Program!Entries(j) : sw' = [sw EXCEPT
             !.entered[j] = v,
             !.step = IF j = "E" /\ ~Program!e_checker(v, sw.fetched["PHI"])
                      THEN "SCAN" ELSE "COMMAND"]
      BY DEF Entry, Program!Scan
    <2>2. QED
      BY <1>3, <2>1
  <1>5. /\ sw'.job = j /\ sw'.step = st /\ SwType(sw')
        /\ \A c \in Loads : c # j => sw'.entered[c] = sw.entered[c]
    BY <1>2, <1>4 DEF SwType
  <1>6. Types'
    BY <1>1, <1>5 DEF Types
  <1>7. Protocol'
    BY <1>1, <1>2, <1>5, Kinds
       DEF Protocol, Control, Statements, Writes, Together, Program!Steps
  <1>8. CleanInv'
    BY <1>1, <1>2, <1>5, Kinds DEF CleanInv, Undisturbed, Derailed
  <1>9. UnitInv'
    <2>1. ASSUME NEW c \in Units
          PROVE  Requests(c, Unit(c), io.ready[c], j, st, io.phase, io.channel, io.to_sw_sig)
      <3>1. Requests(c, Unit(c), io.ready[c], j, "SCAN", io.phase, io.channel, io.to_sw_sig)
        BY <1>2 DEF UnitInv
      <3>2. QED
        BY <1>2, <3>1 DEF Requests, Past
    <2>2. QED
      BY <1>1, <1>5, <2>1 DEF UnitInv
  <1>10. PortInv'
    BY <1>5 DEF PortInv
  <1>11. Operands'
    <2> SUFFICES ASSUME clean, NEW c \in Loads, Loaded(c, j, st)
                 PROVE  io.held[c] = sw'.entered[c] % Radix
      BY <1>1, <1>5 DEF Operands
    <2>1. Loaded(c, j, sw.step) /\ c # j
      BY Ranks DEF Loaded, Loads
    <2>2. QED
      BY <1>5, <2>1 DEF Operands
  <1>12. QED
    BY <1>6, <1>7, <1>8, <1>9, <1>10, <1>11

\* The program starts, or starts again.
LEMMA BootTypes ==
  /\ SwType(Program!Boot)
  /\ SwType([Program!Boot EXCEPT !.job = "PRM1", !.step = "SCAN"])
  <1>1. [c \in Loads |-> 0] \in [Loads -> Int]
    OBVIOUS
  <1>2. SwType(Program!Boot)
    BY <1>1 DEF SwType, Program!Boot, Program!Loads, Loads
  <1>3. PICK w : w = [Program!Boot EXCEPT !.job = "PRM1", !.step = "SCAN"]
    OBVIOUS
  <1>4. SwType(w)
    BY <1>2, <1>3 DEF SwType, Loads
  <1>5. QED
    BY <1>2, <1>3, <1>4

\* A choice in the menu.
LEMMA ChoiceKeeps == IInv /\ Choice => IInv'
  <1> SUFFICES ASSUME IInv, Choice PROVE IInv'
    OBVIOUS
  <1> USE DEF IInv
  <1>1. UNCHANGED <<reset_n, io, to_hw_sig, to_hw_port, phi_gen0, generate_d0>>
        /\ \A c \in Units : Unit(c)' = Unit(c)
    BY DEF Choice, hardware, Unit, Units, Program!Option
  <1>2. /\ sw.step = "OPTION" /\ sw.job = "MENU" /\ to_hw_sig = 8
        /\ Shows(io.phase, io.to_sw_sig)
        /\ io.phase # "RESET" => io.phase = "WAIT" /\ io.to_sw_sig \in {3, 7}
    BY DEF Choice, Program!Option, Protocol, Control, Statements, Writes, AtMenu
  <1>3. /\ SwType(sw')
        /\ \/ sw'.job = "PRM1" /\ sw'.step = "SCAN"
           \/ sw'.job = "MENU" /\ sw'.step = "CLEAR"
        /\ clean' => sw'.job = "PRM1" /\ io.phase = "WAIT" /\ reset_n = 1
    <2>1. clean' = (sw'.job = "PRM1" /\ io.phase = "WAIT" /\ reset_n = 1)
      BY DEF Choice
    <2>2. CASE sw' = Program!Boot
      BY <2>1, <2>2, BootTypes DEF Program!Boot
    <2>3. CASE sw' = [Program!Boot EXCEPT !.job = "PRM1", !.step = "SCAN"]
      BY <2>1, <2>3, BootTypes DEF Program!Boot
    <2>4. QED
      BY <2>2, <2>3 DEF Choice, Program!Option
  <1>4. Types'
    BY <1>1, <1>3 DEF Types
  <1>5. Protocol'
    BY <1>1, <1>2, <1>3, Kinds
       DEF Protocol, Control, Statements, Writes, Together, AtMenu, Program!Steps, Loads
  <1>6. CleanInv'
    BY <1>1, <1>3 DEF CleanInv, Undisturbed, Derailed, Confirmed
  <1>7. UnitInv'
    <2>1. ASSUME NEW c \in Units
          PROVE  Requests(c, Unit(c), io.ready[c], sw'.job, sw'.step, io.phase, io.channel,
                          io.to_sw_sig)
      <3>1. Requests(c, Unit(c), io.ready[c], "MENU", "OPTION", io.phase, io.channel, io.to_sw_sig)
        BY <1>2 DEF UnitInv
      <3>2. Unit(c).status \notin {"FINISHED", "SPENT"}
        BY <1>2, <3>1 DEF Requests
      <3>3. QED
        BY <1>3, <3>1, <3>2 DEF Requests
    <2>2. QED
      BY <1>1, <2>1 DEF UnitInv
  <1>8. PortInv' /\ Operands'
    BY <1>3, Ranks, Kinds DEF PortInv, Operands, Loaded, Loads
  <1>9. QED
    BY <1>4, <1>5, <1>6, <1>7, <1>8

\* KEY[0].
LEMMA RestartKeeps == IInv /\ Restart => IInv'
  <1> SUFFICES ASSUME IInv, Restart PROVE IInv'
    OBVIOUS
  <1> USE DEF IInv
  <1>1. UNCHANGED <<reset_n, io, phi_gen0, generate_d0>> /\ \A c \in Units : Unit(c)' = Unit(c)
    BY DEF Restart, hardware, Unit, Units
  <1>2. /\ SwType(sw') /\ sw'.job = "MENU" /\ sw'.step = "CLEAR" /\ ~clean'
        /\ to_hw_sig' = 0 /\ to_hw_port' = 0
    BY BootTypes DEF Restart, Program!Boot
  <1>3. Types'
    BY <1>1, <1>2, RadixAssumption DEF Types, Word
  <1>4. Protocol'
    BY <1>1, <1>2, Kinds DEF Protocol, Control, Statements, Writes, AtMenu, Program!Steps
  <1>5. UnitInv'
    <2>1. ASSUME NEW c \in Units
          PROVE  Requests(c, Unit(c), io.ready[c], "MENU", "CLEAR", io.phase, io.channel,
                          io.to_sw_sig)
      <3>1. Requests(c, Unit(c), io.ready[c], sw.job, sw.step, io.phase, io.channel, io.to_sw_sig)
        BY DEF UnitInv
      <3>2. QED
        BY <3>1 DEF Requests, Past
    <2>2. QED
      BY <1>1, <1>2, <2>1 DEF UnitInv
  <1>6. CleanInv' /\ PortInv' /\ Operands'
    BY <1>2 DEF CleanInv, PortInv, Operands
  <1>7. QED
    BY <1>3, <1>4, <1>5, <1>6

\* What every clock edge does.
LEMMA TickEdge ==
  ASSUME Types, CleanInv, Tick
  PROVE  /\ reset_n' \in {0, 1} /\ UNCHANGED <<to_hw_sig, to_hw_port, sw>>
         /\ IoModule0!Clock /\ Clocked
         /\ IF Live THEN clean' = clean ELSE ~clean'
  <1>1. UNCHANGED <<to_hw_sig, to_hw_port, sw>> /\ IoModule0!Clock /\ Clocked
    BY DEF Tick, Clocked
  <1>2. reset_n' \in {0, 1} /\ IF Live THEN clean' = clean ELSE ~clean'
    BY DEF Types, CleanInv, Tick, KeepKey, PressKey, ReleaseKey, Live
  <1>3. QED
    BY <1>1, <1>2

\* An edge that resets the hardware.
LEMMA DeadTickKeeps == IInv /\ Tick /\ ~Live => IInv'
  <1> SUFFICES ASSUME IInv, Tick, ~Live PROVE IInv'
    OBVIOUS
  <1> USE DEF IInv
  <1>1. /\ reset_n' \in {0, 1} /\ UNCHANGED <<to_hw_sig, to_hw_port, sw>>
        /\ IoModule0!Clock /\ Clocked /\ ~clean'
    BY TickEdge
  <1>2. io'.phase = "RESET" /\ IoType(io')
    BY <1>1, IoDead
  <1>3. \A c \in Units : Unit(c)'.status = "RESET" /\ UnitType(Unit(c)')
    BY <1>1, UnitsDead
  <1>4. Types'
    BY <1>1, <1>2, <1>3 DEF Types
  <1>5. Protocol'
    BY <1>1, <1>2 DEF Protocol, Control, Shows
  <1>6. UnitInv'
    <2>1. phi_gen0'.status = "RESET" /\ generate_d0'.status = "RESET"
      BY <1>3 DEF Unit, Units
    <2>2. \A c \in Units : Requests(c, Unit(c)', io'.ready[c], sw'.job, sw'.step, io'.phase,
                                    io'.channel, io'.to_sw_sig)
      BY <1>2, <1>3 DEF Requests
    <2>3. QED
      BY <1>2, <2>1, <2>2 DEF UnitInv
  <1>7. CleanInv' /\ PortInv' /\ Operands'
    BY <1>1 DEF CleanInv, PortInv, Operands
  <1>8. QED
    BY <1>4, <1>5, <1>6, <1>7

\* In an undisturbed session io_module reads the operand the program sends.
LEMMA ReadsJob ==
  ASSUME Types, Protocol, CleanInv, clean, io.phase \in {"READ", "ACK"}
  PROVE  /\ io.channel = sw.job /\ sw.job \in Loads
         /\ io.phase = "READ" => sw.step \in {"PORT", "POLL_READ", "DROP", "POLL_ACK"}
  BY Kinds DEF Protocol, Control, CleanInv, Undisturbed, Statements, Together, Derailed,
               Program!Steps, Types, SwType, IoType

\* Any other edge.
LEMMA LiveTickKeeps == IInv /\ Tick /\ Live => IInv'
  <1> SUFFICES ASSUME IInv, Tick, Live PROVE IInv'
    OBVIOUS
  <1> USE DEF IInv
  <1> DEFINE ch == io.channel
             ph == io.phase
  <1>1. /\ UNCHANGED <<reset_n, to_hw_sig, to_hw_port, sw, clean>> /\ reset_n = 1
        /\ IoModule0!Clock /\ Clocked
    BY TickEdge DEF Live
  <1>2. IoEdge
    BY <1>1, IoLive
  <1>3. /\ IoMove(ph, ch, to_hw_sig, Done[ch], io'.phase, io'.channel, io'.to_sw_sig)
        /\ IoType(io')
        /\ \A c \in Fetches : ReadyMove(c, io.ready[c], ph, ch, to_hw_sig, io'.ready[c])
    BY <1>2 DEF IoEdge
  <1>4. /\ sw.job \in {"MENU"} \cup Loads \cup Fetches /\ ph \in Phases
        /\ OwnChannel(ph, ch)
        /\ Control(sw.job, sw.step, to_hw_sig, ph, ch, io.to_sw_sig)
    BY DEF Types, SwType, IoType, OwnChannel, Protocol
  <1>5. \A c \in Units : UnitMove(Unit(c), io.ready[c], Unit(c)') /\ UnitType(Unit(c)')
    BY <1>1, UnitsLive
  <1>6. Types'
    BY <1>1, <1>3, <1>5 DEF Types
  <1>7. Protocol'
    <2>1. Control(sw.job, sw.step, to_hw_sig, io'.phase, io'.channel, io'.to_sw_sig)
      BY <1>3, <1>4, IoControl
    <2>2. QED
      BY <1>1, <2>1 DEF Protocol
  <1>8. CleanInv'
    <2>1. ASSUME clean PROVE Undisturbed(sw.job, sw.step, io'.phase, io'.channel, io'.to_sw_sig)
      <3>1. Undisturbed(sw.job, sw.step, ph, ch, io.to_sw_sig)
        BY <2>1 DEF CleanInv
      <3>2. /\ sw.job \in {"MENU"} \cup Loads \cup Fetches /\ ph \in Phases
            /\ Control(sw.job, sw.step, to_hw_sig, ph, ch, io.to_sw_sig)
            /\ IoMove(ph, ch, to_hw_sig, Done[ch], io'.phase, io'.channel, io'.to_sw_sig)
        BY <1>3, <1>4
      <3> HIDE DEF IInv, ph, ch
      <3>3. QED
        BY <3>1, <3>2, IoUndisturbed
    <2>2. QED
      BY <1>1, <2>1 DEF CleanInv
  <1>9. UnitInv'
    <2>1. /\ UnitMove(generate_d0, io.ready["GEND"], generate_d0')
          /\ UnitMove(phi_gen0, io.ready["PHI"], phi_gen0')
      BY <1>5 DEF Unit, Units
    <2>2. /\ \A c \in Units : Requests(c, Unit(c), io.ready[c], sw.job, sw.step, ph, ch, io.to_sw_sig)
          /\ generate_d0.status = "RESET" => phi_gen0.status = "RESET"
          /\ generate_d0.status = "WAIT" /\ io.ready["GEND"] = 1 =>
               phi_gen0.result = 0 \/ (ch = "GEND" /\ ph = "SEND_TO")
      BY DEF UnitInv
    <2>3. generate_d0.status = "WAIT" /\ io.ready["GEND"] = 1 /\ ~(ch = "GEND" /\ ph = "SEND_TO") =>
            generate_d0'.status = "STUCK"
      BY <1>1, <2>2, NoKey
    <2>4. ASSUME NEW c \in Units
          PROVE  Requests(c, Unit(c)', io'.ready[c], sw.job, sw.step, io'.phase, io'.channel,
                          io'.to_sw_sig)
      <3>1. c \in Fetches /\ io.ready[c] \in {0, 1}
        BY Kinds DEF Types, IoType
      <3>2. DoneOf(c, Unit(c), ch, Done[ch])
        BY DEF Done, Unit, Units, DoneOf
      <3>3. Premature(c, Unit(c), io.ready[c], ph, ch, Unit(c)')
        BY <2>3 DEF Unit, Premature
      <3>4. /\ sw.job \in {"MENU"} \cup Loads \cup Fetches /\ ph \in Phases
            /\ OwnChannel(ph, ch)
            /\ Control(sw.job, sw.step, to_hw_sig, ph, ch, io.to_sw_sig)
            /\ Requests(c, Unit(c), io.ready[c], sw.job, sw.step, ph, ch, io.to_sw_sig)
            /\ IoMove(ph, ch, to_hw_sig, Done[ch], io'.phase, io'.channel, io'.to_sw_sig)
            /\ ReadyMove(c, io.ready[c], ph, ch, to_hw_sig, io'.ready[c])
            /\ UnitMove(Unit(c), io.ready[c], Unit(c)')
        BY <1>3, <1>4, <1>5, <2>2, <3>1
      <3> HIDE DEF IInv, ph, ch
      <3>5. QED
        BY <3>1, <3>2, <3>3, <3>4, IoRequests
    <2>5. generate_d0'.status # "RESET"
      BY <2>1 DEF UnitMove
    <2>6. ASSUME generate_d0'.status = "WAIT", io'.ready["GEND"] = 1
          PROVE  phi_gen0'.result = 0 \/ (io'.channel = "GEND" /\ io'.phase = "SEND_TO")
      <3>1. CASE generate_d0.status = "RESET"
        BY <2>1, <2>2, <3>1 DEF UnitMove
      <3>2. CASE generate_d0.status = "WAIT"
        <4>1. io.ready["GEND"] = 0
          BY <2>1, <2>6, <3>2 DEF UnitMove
        <4>2. ReadyMove("GEND", io.ready["GEND"], ph, ch, to_hw_sig, io'.ready["GEND"])
          BY <1>3 DEF Fetches
        <4>3. ph = "SEND_TO" /\ ch = "GEND"
          BY <2>6, <4>1, <4>2 DEF ReadyMove
        <4>4. Done[ch] = 0
          <5>1. Requests("GEND", generate_d0, io.ready["GEND"], sw.job, sw.step, ph, ch, io.to_sw_sig)
            BY <2>2 DEF Unit, Units
          <5>2. QED
            BY <3>2, <4>3, <5>1 DEF Requests, Done
        <4>5. QED
          BY <1>3, <4>3, <4>4 DEF IoMove
      <3>3. QED
        BY <2>1, <2>6, <3>1, <3>2 DEF UnitMove
    <2>7. QED
      BY <1>1, <2>4, <2>5, <2>6 DEF UnitInv
  <1>10. PortInv'
    <2>1. ASSUME clean, sw.step = "POLL_ACK", io'.phase = "ACK"
          PROVE  io'.held[sw.job] = sw.entered[sw.job] % Radix
      <3>1. ph \in {"READ", "ACK"}
        BY <1>3, <2>1 DEF IoMove
      <3>2. ch = sw.job /\ sw.job \in Loads
        BY <2>1, <3>1, ReadsJob
      <3>3. io.held \in [Loads -> Word]
        BY DEF Types, IoType
      <3>4. CASE ph = "READ"
        BY <1>2, <2>1, <3>2, <3>3, <3>4 DEF IoEdge, PortInv
      <3>5. CASE ph = "ACK"
        BY <1>2, <2>1, <3>5 DEF IoEdge, PortInv
      <3>6. QED
        BY <3>1, <3>4, <3>5
    <2>2. QED
      BY <1>1, <2>1 DEF PortInv
  <1>11. Operands'
    <2> SUFFICES ASSUME clean, NEW c \in Loads, Loaded(c, sw.job, sw.step)
                 PROVE  io'.held[c] = io.held[c]
      BY <1>1 DEF Operands
    <2>1. ph = "READ" => ch # c
      BY ReadsJob, Ranks DEF Loaded, Loads
    <2>2. io.held \in [Loads -> Word]
      BY DEF Types, IoType
    <2>3. QED
      BY <1>2, <2>1, <2>2 DEF IoEdge
  <1>12. QED
    BY <1>6, <1>7, <1>8, <1>9, <1>10, <1>11

\* The initial state.
LEMMA InitInv == Init => IInv
  <1> SUFFICES ASSUME Init PROVE IInv
    OBVIOUS
  <1>1. /\ reset_n = 1 /\ to_hw_sig = 0 /\ to_hw_port = 0 /\ ~clean
        /\ SwType(sw) /\ sw.job = "MENU" /\ sw.step = "CLEAR"
    BY BootTypes DEF Init, Program!Boot
  <1>2. IoType(io) /\ io.phase = "RESET"
    <2>1. io = [phase |-> "RESET", channel |-> "NONE", held |-> [c \in Loads |-> 0],
                n_hold |-> 0, ready |-> [c \in Fetches |-> 0], to_sw_sig |-> 0, to_sw_port |-> 0]
      BY DEF Init, IoModule0!PowerUp, IoModule0!Loads, IoModule0!Fetches, Loads, Fetches
    <2>2. /\ [c \in Loads |-> 0] \in [Loads -> Word]
          /\ [c \in Fetches |-> 0] \in [Fetches -> {0, 1}]
      BY RadixAssumption DEF Word
    <2>3. QED
      BY <2>1, <2>2 DEF IoType, Phases
  <1>3. \A c \in Units : Unit(c) = [status |-> "RESET", result |-> 0, done |-> 0]
    BY DEF Init, Units, Unit, PhiGen!Cleared, NGen!Cleared, GenerateD!Cleared,
           RsaEncrypt!Cleared, RsaDecrypt!Cleared
  <1>4. Types
    BY <1>1, <1>2, <1>3, RadixAssumption DEF Types, UnitType, Word
  <1>5. Protocol
    BY <1>1, <1>2, Kinds DEF Protocol, Control, Statements, Writes, Shows, Program!Steps
  <1>6. UnitInv
    <2>1. \A c \in Units : Requests(c, Unit(c), io.ready[c], sw.job, sw.step, io.phase,
                                    io.channel, io.to_sw_sig)
      BY <1>2, <1>3 DEF Requests
    <2>2. phi_gen0.status = "RESET" /\ generate_d0.status = "RESET"
      BY <1>3 DEF Unit, Units
    <2>3. QED
      BY <1>2, <2>1, <2>2 DEF UnitInv
  <1>7. CleanInv /\ PortInv /\ Operands
    BY <1>1 DEF CleanInv, PortInv, Operands
  <1>8. QED
    BY <1>4, <1>5, <1>6, <1>7 DEF IInv

\* A step that changes nothing.
LEMMA StutterKeeps == IInv /\ UNCHANGED vars => IInv'
  <1> SUFFICES ASSUME IInv, UNCHANGED vars PROVE IInv'
    OBVIOUS
  <1>1. /\ UNCHANGED <<reset_n, to_hw_sig, to_hw_port, sw, io, clean, phi_gen0, generate_d0>>
        /\ \A c \in Units : Unit(c)' = Unit(c)
    BY DEF vars, hardware, Unit, Units
  <1>2. Types' /\ Protocol' /\ CleanInv' /\ PortInv' /\ Operands'
    BY <1>1 DEF IInv, Types, Protocol, CleanInv, PortInv, Operands
  <1>3. UnitInv'
    BY <1>1 DEF IInv, UnitInv
  <1>4. QED
    BY <1>2, <1>3 DEF IInv

-----------------------------------------------------------------------------
(* The theorems                                                            *)

\* Program, io_module and units stay together as IInv says, in every session,
\* whatever the user enters and whenever a key is pressed.
THEOREM SessionInvariant == Spec => []IInv
  <1>1. IInv /\ [Next]_vars => IInv'
    BY StatementKeeps, EntryKeeps, ChoiceKeeps, RestartKeeps, DeadTickKeeps, LiveTickKeeps,
       StutterKeeps DEF Next
  <1>2. QED
    BY InitInv, <1>1, PTL DEF Spec

\* In an undisturbed session io_module serves the channel of the program's
\* job, although signals are used for several purposes.
THEOREM ChannelsAgree == Spec => []ChannelAgreement
  <1>1. IInv => ChannelAgreement
    <2> SUFFICES ASSUME IInv, clean
                 PROVE  io.phase # "RESET" /\ (io.phase # "WAIT" => io.channel = sw.job)
      BY DEF ChannelAgreement
    <2>1. /\ sw.job \in {"MENU"} \cup Loads \cup Fetches /\ io.phase \in Phases
          /\ Control(sw.job, sw.step, to_hw_sig, io.phase, io.channel, io.to_sw_sig)
          /\ Undisturbed(sw.job, sw.step, io.phase, io.channel, io.to_sw_sig)
      BY DEF IInv, Types, SwType, IoType, Protocol, CleanInv
    <2>2. QED
      BY <2>1, Kinds DEF Control, Statements, Undisturbed, Together, Derailed, Program!Steps
  <1>2. QED
    BY SessionInvariant, <1>1, PTL

\* What the user entered is in the operand register once its transfer is
\* acknowledged, and stays there to the end of the session.
THEOREM OperandsDelivered == Spec => []DeliveredAsEntered
  <1>1. IInv => DeliveredAsEntered
    <2> SUFFICES ASSUME IInv, NEW c \in Loads, Known(c)
                 PROVE  io.held[c] = sw.entered[c] % Radix
      BY SameChannels DEF DeliveredAsEntered
    <2>1. clean /\ Loaded(c, sw.job, sw.step)
      BY KnownLoaded DEF IInv, Protocol, Control
    <2>2. QED
      BY <2>1 DEF IInv, Operands
  <1>2. QED
    BY SessionInvariant, <1>1, PTL

\* io_module does not start a unit a second time without a reset.
THEOREM RequestsOnce == Spec => []OneRequestPerReset
  <1>1. IInv => OneRequestPerReset
    <2> SUFFICES ASSUME IInv PROVE OneRequestPerReset
      OBVIOUS
    <2>1. \A c \in Units : Unit(c).status = "SPENT" => io.ready[c] = 0
      BY DEF IInv, UnitInv, Requests
    <2>2. QED
      BY <2>1 DEF OneRequestPerReset, Unit, Units
  <1>2. QED
    BY SessionInvariant, <1>1, PTL

\* While a unit computes no other unit's result changes, and no operand.
LEMMA ServedAlone ==
  ASSUME IInv, Tick, NEW c \in Units, Unit(c).status = "BUSY", reset_n' = 1
  PROVE  /\ io'.held = io.held
         /\ \A b \in Units : b # c => Unit(b)'.result = Unit(b).result
  <1>1. /\ io.channel = c /\ io.phase = "SEND_TO"
        /\ \A b \in Units : Requests(b, Unit(b), io.ready[b], sw.job, sw.step, io.phase,
                                     io.channel, io.to_sw_sig)
    BY DEF IInv, UnitInv, Requests
  <1>2. Live /\ IoModule0!Clock /\ Clocked
    BY <1>1, TickEdge DEF IInv, UnitInv, Types, Live
  <1>3. io'.held = io.held
    BY <1>1, <1>2, IoLive DEF IoEdge, IInv
  <1>4. ASSUME NEW b \in Units, b # c PROVE Unit(b)'.result = Unit(b).result
    <2>1. UnitMove(Unit(b), io.ready[b], Unit(b)')
      BY <1>2, UnitsLive DEF IInv
    <2>2. Unit(b).status \notin {"BUSY", "RESET"}
      BY <1>1, <1>4 DEF Requests
    <2>3. QED
      BY <2>1, <2>2 DEF UnitMove
  <1>5. QED
    BY <1>3, <1>4

\* The operands of a computing unit do not change, whether they come from a
\* register of io_module or from the output of another unit.
THEOREM OperandsStay == Spec => OperandsStable
  <1> DEFINE Kept(c) == /\ io'.held = io.held
                        /\ \A b \in Units : b # c => Unit(b)'.result = Unit(b).result
  <1>1. ASSUME IInv, [Next]_vars, NEW c \in Units, Unit(c).status = "BUSY", reset_n' = 1
        PROVE  Kept(c)
    <2>1. CASE Tick
      BY <1>1, <2>1, ServedAlone
    <2>2. CASE ~Tick
      <3>1. UNCHANGED <<io, n_gen0, phi_gen0, generate_d0, rsa_encrypt0, rsa_decrypt0>>
        BY <1>1, <2>2 DEF Next, Statement, Choice, Entry, Restart, hardware, vars
      <3>2. QED
        BY <3>1 DEF Unit, Units
    <2>3. QED
      BY <2>1, <2>2
  <1>2. IInv /\ [Next]_vars =>
          [/\ phi_gen0.status = "BUSY" /\ reset_n' = 1 =>
                io'.held["PRM1"] = io.held["PRM1"] /\ io'.held["PRM2"] = io.held["PRM2"]
           /\ n_gen0.status = "BUSY" /\ reset_n' = 1 =>
                io'.held["PRM1"] = io.held["PRM1"] /\ io'.held["PRM2"] = io.held["PRM2"]
           /\ generate_d0.status = "BUSY" /\ reset_n' = 1 =>
                io'.held["E"] = io.held["E"] /\ phi_gen0'.result = phi_gen0.result
           /\ rsa_encrypt0.status = "BUSY" /\ reset_n' = 1 =>
                /\ io'.held["PLAINTEXT"] = io.held["PLAINTEXT"]
                /\ io'.held["E"] = io.held["E"]
                /\ n_gen0'.result = n_gen0.result
           /\ rsa_decrypt0.status = "BUSY" /\ reset_n' = 1 =>
                /\ rsa_encrypt0'.result = rsa_encrypt0.result
                /\ generate_d0'.result = generate_d0.result
                /\ n_gen0'.result = n_gen0.result]_vars
    <2> SUFFICES ASSUME IInv, [Next]_vars
                 PROVE  \A c \in Units : Unit(c).status = "BUSY" /\ reset_n' = 1 => Kept(c)
      BY DEF Unit, Units
    <2>1. QED
      BY <1>1
  <1>3. QED
    BY SessionInvariant, <1>2, PTL DEF Spec, OperandsStable

-----------------------------------------------------------------------------
(* What is fetched                                                         *)

Checkers == {"PRIME_1", "PRIME_2"}
Checker(c) == IF c = "PRIME_1" THEN checker1 ELSE checker2
Verdict(c) == IF c = "PRIME_1" THEN Checker1!Verdict(io.held["PRM1"])
              ELSE Checker2!Verdict(io.held["PRM2"])

CheckerType(k) ==
  k = [state |-> k.state, isprime |-> k.isprime, prime_checker_done |-> k.prime_checker_done]

\* A checker k whose verdict on the operand is v.  The done flag of an earlier
\* candidate may send io_module on to GET_FROM before the unit has started:
\* then the request is still up for one clock, and the verdict is there two
\* clocks later, before io_module can copy it.
Checked(c, k, v, r, ph, ch, s) ==
  /\ ph # "RESET" => k.state # "RESET"
  /\ ch = c /\ ph \in {"SEND_TO", "GET_FROM"} /\ k.state = "FINISHED" => k.isprime = v
  /\ ch = c /\ ph = "GET_FROM" /\ s # 2 => r = 1
  /\ ch = c /\ ph = "GET_FROM" /\ s = 2 => r = 0 /\ (k.state = "WAIT" => k.isprime = v)
  /\ ch = c /\ ph = "SEND_BACK" => k.isprime = v

\* What channel c has to send back.
ValueOf(c) == IF c \in Checkers THEN Verdict(c) ELSE Unit(c).result

\* What the unit of channel c may answer to its operands.
AnswersOf(c) ==
  CASE c = "N" -> NAnswers(<<io.held["PRM1"], io.held["PRM2"]>>)
    [] c = "PHI" -> PhiAnswers(<<io.held["PRM1"], io.held["PRM2"]>>)
    [] c = "GEND" -> KeyAnswers(<<io.held["E"], phi_gen0.result>>)
    [] c = "ENCRYPTED" ->
         PowerAnswers(<<io.held["PLAINTEXT"], io.held["E"], n_gen0.result>>)
    [] c = "DECRYPTED" -> PowerAnswers(DecryptOperands)

\* The program is done with channel c.
Taken(c, job, st) ==
  \/ job \in Loads \cup Fetches /\ Rank(job) > Rank(c)
  \/ job = c /\ st \in {"ACKNOWLEDGE", "POLL_GOT_ACK", "RELEASE", "POLL_WAIT"}

FetchTypes ==
  /\ sw.fetched = [c \in Fetches |-> sw.fetched[c]]
  /\ \A c \in Checkers : CheckerType(Checker(c))

CheckerInv ==
  \A c \in Checkers :
    Checked(c, Checker(c), Verdict(c), io.ready[c], io.phase, io.channel, io.to_sw_sig)

\* In SEND_BACK the unit has seen that its request is withdrawn.
SpentInv ==
  \A c \in Units : io.channel = c /\ io.phase = "SEND_BACK" => Unit(c).status = "SPENT"

AnswerInv ==
  clean => \A c \in Units : Unit(c).status \in {"FINISHED", "SPENT"} =>
                              Unit(c).result \in AnswersOf(c)

SentInv ==
  clean => \A c \in Fetches : io.channel = c /\ io.phase = "SEND_BACK" /\ io.to_sw_sig = 1 =>
                                io.to_sw_port = ValueOf(c)

TakenInv ==
  clean => \A c \in Fetches : Taken(c, sw.job, sw.step) =>
             /\ sw.fetched[c] = Program!ToInt(ValueOf(c))
             /\ c \in Units => Unit(c).status = "SPENT"

FInv == FetchTypes /\ CheckerInv /\ SpentInv /\ AnswerInv /\ SentInv /\ TakenInv

\* A clock edge of a checker.
CheckerMove(k, r, v, k2) ==
  \/ k.state = "RESET" /\ k2.state = "WAIT"
  \/ /\ k.state = "WAIT" /\ k2.state = (IF r = 1 THEN "COMPUTE" ELSE "WAIT")
     /\ k2.isprime = k.isprime
  \/ k.state = "COMPUTE" /\ k2.state = "FINISHED" /\ k2.isprime = v
  \/ k.state = "FINISHED" /\ k2.state = "WAIT" /\ k2.isprime = k.isprime

\* The checkers make these moves.
LEMMA CheckersLive ==
  ASSUME FetchTypes, Live, Checker1!Clock, Checker2!Clock
  PROVE  \A c \in Checkers : /\ CheckerMove(Checker(c), io.ready[c], Verdict(c), Checker(c)')
                             /\ CheckerType(Checker(c)')
  <1>1. /\ CheckerMove(checker1, io.ready["PRIME_1"], Checker1!Verdict(io.held["PRM1"]), checker1')
        /\ CheckerType(checker1')
    <2>1. CheckerType(checker1) /\ reset_n # 0 /\ reset_n' # 0
      BY DEF FetchTypes, Live, Checkers, Checker
    <2>2. CASE Checker1!Reset
      BY <2>1, <2>2 DEF CheckerType, CheckerMove, Checker1!Reset, Checker1!Cleared, Checker1!NextState
    <2>3. CASE Checker1!Wait
      BY <2>1, <2>3 DEF CheckerType, CheckerMove, Checker1!Wait, Checker1!NextState
    <2>4. CASE Checker1!Compute
      BY <2>1, <2>4 DEF CheckerType, CheckerMove, Checker1!Compute, Checker1!NextState
    <2>5. CASE Checker1!Finished
      BY <2>1, <2>5 DEF CheckerType, CheckerMove, Checker1!Finished, Checker1!NextState
    <2>6. QED
      BY <2>2, <2>3, <2>4, <2>5 DEF Checker1!Clock
  <1>2. /\ CheckerMove(checker2, io.ready["PRIME_2"], Checker2!Verdict(io.held["PRM2"]), checker2')
        /\ CheckerType(checker2')
    <2>1. CheckerType(checker2) /\ reset_n # 0 /\ reset_n' # 0
      BY DEF FetchTypes, Live, Checkers, Checker
    <2>2. CASE Checker2!Reset
      BY <2>1, <2>2 DEF CheckerType, CheckerMove, Checker2!Reset, Checker2!Cleared, Checker2!NextState
    <2>3. CASE Checker2!Wait
      BY <2>1, <2>3 DEF CheckerType, CheckerMove, Checker2!Wait, Checker2!NextState
    <2>4. CASE Checker2!Compute
      BY <2>1, <2>4 DEF CheckerType, CheckerMove, Checker2!Compute, Checker2!NextState
    <2>5. CASE Checker2!Finished
      BY <2>1, <2>5 DEF CheckerType, CheckerMove, Checker2!Finished, Checker2!NextState
    <2>6. QED
      BY <2>2, <2>3, <2>4, <2>5 DEF Checker2!Clock
  <1>3. QED
    BY <1>1, <1>2 DEF Checkers, Checker, Verdict

\* KEY[1] resets them.
LEMMA CheckersDead ==
  ASSUME FetchTypes, reset_n \in {0, 1}, reset_n' \in {0, 1}, ~Live,
         Checker1!Clock, Checker2!Clock
  PROVE  \A c \in Checkers : CheckerType(Checker(c)')
  <1>1. CheckerType(checker1')
    <2>1. CheckerType(checker1)
      BY DEF FetchTypes, Checkers, Checker
    <2>2. QED
      BY <2>1 DEF CheckerType, Checker1!Clock, Checker1!Reset, Checker1!Wait, Checker1!Compute, Checker1!Finished,
                  Checker1!Cleared, Checker1!NextState
  <1>2. CheckerType(checker2')
    <2>1. CheckerType(checker2)
      BY DEF FetchTypes, Checkers, Checker
    <2>2. QED
      BY <2>1 DEF CheckerType, Checker2!Clock, Checker2!Reset, Checker2!Wait, Checker2!Compute, Checker2!Finished,
                  Checker2!Cleared, Checker2!NextState
  <1>3. QED
    BY <1>1, <1>2 DEF Checkers, Checker

\* io_module and a checker move.
LEMMA CheckerKeeps ==
  ASSUME NEW c \in Checkers, NEW k, NEW v, NEW r, NEW ph \in Phases, NEW ch, NEW s,
         NEW sig, NEW dn, NEW ph2, NEW ch2, NEW s2, NEW r2, NEW k2, NEW v2,
         Checked(c, k, v, r, ph, ch, s), IoMove(ph, ch, sig, dn, ph2, ch2, s2),
         ReadyMove(c, r, ph, ch, sig, r2), CheckerMove(k, r, v, k2),
         ph # "READ" => v2 = v, sig = 1 /\ ph = "GET_FROM" => s = 2
  PROVE  Checked(c, k2, v2, r2, ph2, ch2, s2)
  <1>1. k2.state # "RESET" /\ c \notin Confirmed /\ c # "GEND"
    BY DEF CheckerMove, Checkers, Confirmed
  <1>2. CASE ph \in {"RESET", "READ", "ACK", "SEND_BACK", "GOT_ACK"} \/ ch # c
    <2>1. /\ ph2 \notin {"GET_FROM"} \/ ch2 # c
          /\ ph2 = "SEND_BACK" /\ ch2 = c => ph = "SEND_BACK" /\ ch = c
          /\ ph2 = "SEND_TO" /\ ch2 = c => ph = "WAIT"
      BY <1>2 DEF IoMove
    <2>2. k2.state = "FINISHED" /\ ph = "WAIT" => k2.isprime = v2
      BY DEF CheckerMove
    <2>3. ph = "SEND_BACK" /\ ch = c => k2.isprime = v2
      BY DEF CheckerMove, Checked
    <2>4. QED
      BY <1>1, <2>1, <2>2, <2>3 DEF Checked
  <1>3. CASE ph = "WAIT"
    BY <1>1, <1>3 DEF IoMove, CheckerMove, Checked
  <1>4. CASE ph = "SEND_TO" /\ ch = c
    <2>1. ph2 \in {"SEND_TO", "GET_FROM"} /\ s2 = 3 /\ r2 = 1 /\ v2 = v
      BY <1>1, <1>4 DEF IoMove, ReadyMove
    <2>2. k2.state = "FINISHED" => k2.isprime = v
      BY DEF CheckerMove
    <2>3. QED
      BY <1>1, <2>1, <2>2 DEF Checked
  <1>5. CASE ph = "GET_FROM" /\ ch = c
    <2>1. /\ ph2 = (IF sig = 1 THEN "SEND_BACK" ELSE "GET_FROM") /\ s2 = 2 /\ r2 = 0 /\ v2 = v
          /\ sig = 1 => s = 2
      BY <1>5 DEF IoMove, ReadyMove
    <2>2. k2.state = "FINISHED" => k2.isprime = v
      BY DEF CheckerMove
    <2>3. k2.state = "WAIT" => k2.isprime = v
      BY <1>5 DEF CheckerMove, Checked
    <2>4. s = 2 => k2.isprime = v
      BY <1>5 DEF CheckerMove, Checked
    <2>5. QED
      BY <1>1, <2>1, <2>2, <2>3, <2>4 DEF Checked
  <1>6. QED
    BY <1>2, <1>3, <1>4, <1>5 DEF Phases

\* A unit that finishes shows an answer to its operands.
LEMMA UnitsAnswer ==
  ASSUME Types, Live, Clocked
  PROVE  \A c \in Units : Unit(c).status = "BUSY" /\ Unit(c)'.status = "FINISHED" =>
                            Unit(c)'.result \in AnswersOf(c)
  <1>1. ASSUME phi_gen0.status = "BUSY", phi_gen0'.status = "FINISHED"
        PROVE  phi_gen0'.result \in PhiAnswers(<<io.held["PRM1"], io.held["PRM2"]>>)
    <2>1. phi_gen0 = [status |-> phi_gen0.status, result |-> phi_gen0.result, done |-> phi_gen0.done]
      BY DEF Types, UnitType, Units, Unit
    <2>2. PhiGen!Work => phi_gen0'.status # "FINISHED"
      BY <2>1 DEF PhiGen!Work, PhiGen!NextStatus
    <2>3. PhiGen!Finish
      BY <1>1, <2>2 DEF Clocked, PhiGen!Clock, PhiGen!Reset, PhiGen!Wait, PhiGen!Stuck, PhiGen!Finished,
                      PhiGen!Spent
    <2>4. QED
      BY <2>3 DEF PhiGen!Finish
  <1>2. ASSUME n_gen0.status = "BUSY", n_gen0'.status = "FINISHED"
        PROVE  n_gen0'.result \in NAnswers(<<io.held["PRM1"], io.held["PRM2"]>>)
    <2>1. n_gen0 = [status |-> n_gen0.status, result |-> n_gen0.result, done |-> n_gen0.done]
      BY DEF Types, UnitType, Units, Unit
    <2>2. NGen!Work => n_gen0'.status # "FINISHED"
      BY <2>1 DEF NGen!Work, NGen!NextStatus
    <2>3. NGen!Finish
      BY <1>2, <2>2 DEF Clocked, NGen!Clock, NGen!Reset, NGen!Wait, NGen!Stuck, NGen!Finished,
                      NGen!Spent
    <2>4. QED
      BY <2>3 DEF NGen!Finish
  <1>3. ASSUME generate_d0.status = "BUSY", generate_d0'.status = "FINISHED"
        PROVE  generate_d0'.result \in KeyAnswers(<<io.held["E"], phi_gen0.result>>)
    <2>1. generate_d0 = [status |-> generate_d0.status, result |-> generate_d0.result, done |-> generate_d0.done]
      BY DEF Types, UnitType, Units, Unit
    <2>2. GenerateD!Work => generate_d0'.status # "FINISHED"
      BY <2>1 DEF GenerateD!Work, GenerateD!NextStatus
    <2>3. GenerateD!Finish
      BY <1>3, <2>2 DEF Clocked, GenerateD!Clock, GenerateD!Reset, GenerateD!Wait, GenerateD!Stuck, GenerateD!Finished,
                      GenerateD!Spent
    <2>4. QED
      BY <2>3 DEF GenerateD!Finish
  <1>4. ASSUME rsa_encrypt0.status = "BUSY", rsa_encrypt0'.status = "FINISHED"
        PROVE  rsa_encrypt0'.result \in PowerAnswers(<<io.held["PLAINTEXT"], io.held["E"], n_gen0.result>>)
    <2>1. rsa_encrypt0 = [status |-> rsa_encrypt0.status, result |-> rsa_encrypt0.result, done |-> rsa_encrypt0.done]
      BY DEF Types, UnitType, Units, Unit
    <2>2. RsaEncrypt!Work => rsa_encrypt0'.status # "FINISHED"
      BY <2>1 DEF RsaEncrypt!Work, RsaEncrypt!NextStatus
    <2>3. RsaEncrypt!Finish
      BY <1>4, <2>2 DEF Clocked, RsaEncrypt!Clock, RsaEncrypt!Reset, RsaEncrypt!Wait, RsaEncrypt!Stuck, RsaEncrypt!Finished,
                      RsaEncrypt!Spent
    <2>4. QED
      BY <2>3 DEF RsaEncrypt!Finish
  <1>5. ASSUME rsa_decrypt0.status = "BUSY", rsa_decrypt0'.status = "FINISHED"
        PROVE  rsa_decrypt0'.result \in PowerAnswers(DecryptOperands)
    <2>1. rsa_decrypt0 = [status |-> rsa_decrypt0.status, result |-> rsa_decrypt0.result, done |-> rsa_decrypt0.done]
      BY DEF Types, UnitType, Units, Unit
    <2>2. RsaDecrypt!Work => rsa_decrypt0'.status # "FINISHED"
      BY <2>1 DEF RsaDecrypt!Work, RsaDecrypt!NextStatus
    <2>3. RsaDecrypt!Finish
      BY <1>5, <2>2 DEF Clocked, RsaDecrypt!Clock, RsaDecrypt!Reset, RsaDecrypt!Wait, RsaDecrypt!Stuck, RsaDecrypt!Finished,
                      RsaDecrypt!Spent
    <2>4. QED
      BY <2>3 DEF RsaDecrypt!Finish
  <1>6. QED
    BY <1>1, <1>2, <1>3, <1>4, <1>5 DEF Units, Unit, AnswersOf

\* In an undisturbed session the program has come to channel c.
Reached(c) == (sw.job = "MENU" /\ io.phase = "WAIT") \/ Rank(sw.job) >= Rank(c)

\* Then the operands of its unit stay: io_module reads and starts only what
\* the program asks for.
LEMMA OperandsKept ==
  ASSUME IInv, Tick, Live, clean, NEW c \in Units, Reached(c)
  PROVE  AnswersOf(c)' = AnswersOf(c)
  <1>1. IoEdge /\ Clocked
    BY IoLive, TickEdge DEF IInv
  <1>2. ASSUME NEW x \in Loads, Rank(x) < Rank(c) PROVE io'.held[x] = io.held[x]
    <2>1. io.phase = "READ" => io.channel # x
      BY <1>2, ReadsJob, Ranks, Kinds, LateUnits DEF IInv, Reached, Loads
    <2>2. io.held \in [Loads -> Word]
      BY DEF IInv, Types, IoType
    <2>3. QED
      BY <1>1, <2>1, <2>2 DEF IoEdge
  <1>3. ASSUME NEW b \in Units, Rank(b) < Rank(c) PROVE Unit(b)'.result = Unit(b).result
    <2>1. UnitMove(Unit(b), io.ready[b], Unit(b)')
      BY <1>1, UnitsLive DEF IInv
    <2>2. /\ Requests(b, Unit(b), io.ready[b], sw.job, sw.step, io.phase, io.channel, io.to_sw_sig)
          /\ io.phase # "RESET" /\ (sw.job = "MENU" => io.phase = "WAIT")
      BY DEF IInv, UnitInv, CleanInv, Undisturbed
    <2>3. io.phase = "SEND_TO" => sw.job = io.channel
      <3>1. io.phase = "SEND_TO" => sw.job = "MENU" \/ sw.job = io.channel
        BY Serving DEF IInv, Types, SwType, IoType, Protocol, OwnChannel
      <3>2. QED
        BY <2>2, <3>1
    <2>4. sw.job # b \/ io.phase # "SEND_TO"
      BY <1>3, <2>2, LateUnits DEF Reached
    <2>5. Unit(b).status \notin {"BUSY", "RESET"}
      BY <2>2, <2>3, <2>4 DEF Requests
    <2>6. QED
      BY <2>1, <2>5 DEF UnitMove
  <1>4. CASE c \in {"N", "PHI"}
    <2>1. io'.held["PRM1"] = io.held["PRM1"] /\ io'.held["PRM2"] = io.held["PRM2"]
      BY <1>2, <1>4, Ranks DEF Loads
    <2>2. QED
      BY <1>4, <2>1 DEF AnswersOf
  <1>5. CASE c = "GEND"
    <2>1. io'.held["E"] = io.held["E"]
      BY <1>2, <1>5, Ranks DEF Loads
    <2>2. phi_gen0'.result = phi_gen0.result
      BY <1>3, <1>5, Ranks DEF Units, Unit
    <2>3. QED
      BY <1>5, <2>1, <2>2 DEF AnswersOf
  <1>6. CASE c = "ENCRYPTED"
    <2>1. io'.held["E"] = io.held["E"] /\ io'.held["PLAINTEXT"] = io.held["PLAINTEXT"]
      BY <1>2, <1>6, Ranks DEF Loads
    <2>2. n_gen0'.result = n_gen0.result
      BY <1>3, <1>6, Ranks DEF Units, Unit
    <2>3. QED
      BY <1>6, <2>1, <2>2 DEF AnswersOf
  <1>7. CASE c = "DECRYPTED"
    <2>1. n_gen0'.result = n_gen0.result
      BY <1>3, <1>7, Ranks DEF Units, Unit
    <2>2. generate_d0'.result = generate_d0.result
      BY <1>3, <1>7, Ranks DEF Units, Unit
    <2>3. rsa_encrypt0'.result = rsa_encrypt0.result
      BY <1>3, <1>7, Ranks DEF Units, Unit
    <2>4. QED
      BY <1>7, <2>1, <2>2, <2>3 DEF AnswersOf, DecryptOperands
  <1>8. QED
    BY <1>4, <1>5, <1>6, <1>7 DEF Units

\* What is sent back or taken stays as it is, at any edge but a reset.
LEMMA LiveTickFetch == IInv /\ FInv /\ Tick /\ Live => FInv'
  <1> SUFFICES ASSUME IInv, FInv, Tick, Live PROVE FInv'
    OBVIOUS
  <1> DEFINE ch == io.channel
             ph == io.phase
  <1>1. /\ UNCHANGED <<to_hw_sig, sw, clean>> /\ Clocked /\ IoEdge
        /\ Checker1!Clock /\ Checker2!Clock
    BY TickEdge, IoLive DEF IInv, Tick
  <1>2. /\ IoMove(ph, ch, to_hw_sig, Done[ch], io'.phase, io'.channel, io'.to_sw_sig)
        /\ \A c \in Fetches : ReadyMove(c, io.ready[c], ph, ch, to_hw_sig, io'.ready[c])
        /\ ph # "READ" => io'.held = io.held
        /\ ph = "SEND_BACK" => io'.to_sw_port = Value[ch]
    BY <1>1 DEF IoEdge
  <1>3. \A c \in Units : UnitMove(Unit(c), io.ready[c], Unit(c)')
    BY <1>1, UnitsLive DEF IInv
  <1>4. \A c \in Units : Requests(c, Unit(c), io.ready[c], sw.job, sw.step, ph, ch, io.to_sw_sig)
    BY DEF IInv, UnitInv
  <1>5. /\ ph \in Phases /\ sw.job \in {"MENU"} \cup Loads \cup Fetches /\ OwnChannel(ph, ch)
        /\ ph = "GET_FROM" /\ to_hw_sig = 1 => io.to_sw_sig = 2
        /\ ph \in {"SEND_TO", "GET_FROM"} => sw.job = "MENU" \/ sw.job = ch
    <2>1. /\ ph \in Phases /\ sw.job \in {"MENU"} \cup Loads \cup Fetches /\ OwnChannel(ph, ch)
          /\ Control(sw.job, sw.step, to_hw_sig, ph, ch, io.to_sw_sig)
      BY DEF IInv, Types, SwType, IoType, OwnChannel, Protocol
    <2>2. ph \in {"SEND_TO", "GET_FROM"} => sw.job = "MENU" \/ sw.job = ch
      BY Serving DEF IInv, Types, SwType, IoType, Protocol, OwnChannel
    <2>3. ph = "GET_FROM" /\ to_hw_sig = 1 => io.to_sw_sig = 2
      <3> SUFFICES ASSUME ph = "GET_FROM", to_hw_sig = 1 PROVE io.to_sw_sig = 2
        OBVIOUS
      <3>1. /\ sw.job = "MENU" => AtMenu(sw.step, ph, io.to_sw_sig)
            /\ sw.job # "MENU" => Together(sw.job, sw.step, ph, ch, io.to_sw_sig)
            /\ Statements(sw.job, sw.step) /\ Writes(sw.job, sw.step, to_hw_sig)
        BY <2>1 DEF Control
      <3>2. sw.job # "MENU"
        BY <2>1, <3>1, Kinds DEF AtMenu, Statements, Writes, Program!Steps
      <3>3. QED
        BY <2>1, <3>1, <3>2, Kinds, Distinct
           DEF Statements, Writes, Together, Derailed, Program!Steps
    <2>4. QED
      BY <2>1, <2>2, <2>3
  <1>6. FetchTypes'
    BY <1>1, CheckersLive DEF FInv, FetchTypes
  <1>7. ASSUME NEW c \in Checkers, ph # "READ" PROVE Verdict(c)' = Verdict(c)
    BY <1>2, <1>7 DEF Verdict, Checker1!Verdict, Checker2!Verdict
  <1>8. CheckerInv'
    <2> SUFFICES ASSUME NEW c \in Checkers
                 PROVE  Checked(c, Checker(c)', Verdict(c)', io'.ready[c], io'.phase, io'.channel,
                                io'.to_sw_sig)
      BY DEF CheckerInv
    <2>1. /\ Checked(c, Checker(c), Verdict(c), io.ready[c], ph, ch, io.to_sw_sig)
          /\ CheckerMove(Checker(c), io.ready[c], Verdict(c), Checker(c)')
          /\ ReadyMove(c, io.ready[c], ph, ch, to_hw_sig, io'.ready[c])
      BY <1>1, <1>2, CheckersLive DEF FInv, CheckerInv, Checkers, Fetches
    <2>2. /\ ph # "READ" => Verdict(c)' = Verdict(c)
          /\ to_hw_sig = 1 /\ ph = "GET_FROM" => io.to_sw_sig = 2
      BY <1>5, <1>7
    <2>3. QED
      BY <1>2, <1>5, <2>1, <2>2, CheckerKeeps
  <1>9. SpentInv'
    <2> SUFFICES ASSUME NEW c \in Units, io'.channel = c, io'.phase = "SEND_BACK"
                 PROVE  Unit(c)'.status = "SPENT"
      BY DEF SpentInv
    <2>1. ch = c /\ (ph = "SEND_BACK" \/ (ph = "GET_FROM" /\ to_hw_sig = 1))
      BY <1>2 DEF IoMove
    <2>2. CASE ph = "SEND_BACK"
      BY <1>3, <2>1, <2>2 DEF FInv, SpentInv, UnitMove
    <2>3. CASE ph = "GET_FROM" /\ to_hw_sig = 1
      <3>1. io.ready[c] = 0 /\ Unit(c).status \in {"FINISHED", "SPENT"}
        BY <1>4, <1>5, <2>1, <2>3 DEF Requests
      <3>2. QED
        BY <1>3, <3>1 DEF UnitMove
    <2>4. QED
      BY <2>1, <2>2, <2>3
  <1>10. AnswerInv'
    <2> SUFFICES ASSUME clean, NEW c \in Units, Unit(c)'.status \in {"FINISHED", "SPENT"}
                 PROVE  Unit(c)'.result \in AnswersOf(c)'
      BY <1>1 DEF AnswerInv
    <2>1. sw.job = "MENU" => ph = "WAIT"
      BY DEF IInv, CleanInv, Undisturbed
    <2>2. CASE Unit(c).status = "BUSY"
      <3>1. Reached(c)
        BY <1>4, <1>5, <2>1, <2>2, LateUnits DEF Requests, Reached
      <3>2. AnswersOf(c)' = AnswersOf(c)
        BY <3>1, OperandsKept
      <3>3. Unit(c)'.status = "FINISHED"
        BY <1>3, <2>2 DEF UnitMove
      <3>4. QED
        BY <1>1, <2>2, <3>2, <3>3, UnitsAnswer DEF IInv
    <2>3. CASE Unit(c).status # "BUSY"
      <3>1. Unit(c).status \in {"FINISHED", "SPENT"} /\ Unit(c)'.result = Unit(c).result
        BY <1>3, <2>3 DEF UnitMove
      <3>2. Past(c, sw.job, sw.step, ph, ch)
        BY <1>4, <3>1 DEF Requests
      <3>3. Reached(c)
        BY <1>5, <2>1, <3>2, Ranks, LateUnits DEF Past, Reached, Loads, Fetches
      <3>4. AnswersOf(c)' = AnswersOf(c)
        BY <3>3, OperandsKept
      <3>5. QED
        BY <3>1, <3>4 DEF FInv, AnswerInv
    <2>4. QED
      BY <2>2, <2>3
  <1>11. \A c \in Fetches : c \in Checkers \/ c \in Units
    BY DEF Fetches, Checkers, Units
  <1>12. SentInv'
    <2> SUFFICES ASSUME clean, NEW c \in Fetches, io'.channel = c, io'.phase = "SEND_BACK",
                        io'.to_sw_sig = 1
                 PROVE  io'.to_sw_port = ValueOf(c)'
      BY <1>1 DEF SentInv
    <2>1. ph = "SEND_BACK" /\ ch = c
      BY <1>2 DEF IoMove
    <2>2. io'.to_sw_port = Value[c]
      BY <1>2, <2>1
    <2>3. CASE c \in Units
      <3>1. Unit(c).status = "SPENT" /\ Unit(c)' = Unit(c)
        BY <1>3, <2>1, <2>3 DEF FInv, SpentInv, UnitMove
      <3>2. Value[c] = Unit(c).result
        BY <2>3 DEF Value, Unit, Units
      <3>3. c \notin Checkers
        BY <2>3 DEF Units, Checkers
      <3>4. ValueOf(c)' = Unit(c)'.result
        BY <3>3 DEF ValueOf
      <3>5. QED
        BY <2>2, <3>1, <3>2, <3>4
    <2>4. CASE c \in Checkers
      <3>1. Checker(c).isprime = Verdict(c)
        BY <2>1, <2>4 DEF FInv, CheckerInv, Checked
      <3>2. Value[c] = Checker(c).isprime
        BY <2>4 DEF Value, Checker, Checkers
      <3>3. ValueOf(c)' = Verdict(c)'
        BY <2>4 DEF ValueOf
      <3>4. QED
        BY <1>7, <2>1, <2>2, <2>4, <3>1, <3>2, <3>3
    <2>5. QED
      BY <1>11, <2>3, <2>4
  <1>13. TakenInv'
    <2> SUFFICES ASSUME clean, NEW c \in Fetches, Taken(c, sw.job, sw.step)
                 PROVE  ValueOf(c)' = ValueOf(c) /\ (c \in Units => Unit(c)'.status = "SPENT")
      BY <1>1 DEF FInv, TakenInv, Program!ToInt
    <2>1. CASE c \in Units
      <3>1. Unit(c).status = "SPENT"
        BY <2>1 DEF FInv, TakenInv
      <3>2. Unit(c)' = Unit(c)
        BY <1>3, <2>1, <3>1 DEF UnitMove
      <3>3. QED
        BY <2>1, <3>1, <3>2 DEF ValueOf, Units, Checkers
    <2>2. CASE c \in Checkers
      <3>1. c \notin Units
        BY <2>2 DEF Units, Checkers
      <3>2. ASSUME NEW x \in Loads, Rank(x) < Rank(c) PROVE io'.held[x] = io.held[x]
        <4>1. ph = "READ" => ch # x
          BY <3>2, ReadsJob, Ranks, Kinds DEF IInv, Taken, Loads, Fetches
        <4>2. io.held \in [Loads -> Word]
          BY DEF IInv, Types, IoType
        <4>3. QED
          BY <1>1, <4>1, <4>2 DEF IoEdge
      <3>3. CASE c = "PRIME_1"
        <4>1. io'.held["PRM1"] = io.held["PRM1"]
          BY <3>2, <3>3, Ranks DEF Loads
        <4>2. QED
          BY <2>2, <3>1, <3>3, <4>1 DEF ValueOf, Verdict, Checker1!Verdict
      <3>4. CASE c = "PRIME_2"
        <4>1. io'.held["PRM2"] = io.held["PRM2"]
          BY <3>2, <3>4, Ranks DEF Loads
        <4>2. QED
          BY <2>2, <3>1, <3>4, <4>1 DEF ValueOf, Verdict, Checker2!Verdict
      <3>5. QED
        BY <2>2, <3>3, <3>4 DEF Checkers
    <2>3. QED
      BY <1>11, <2>1, <2>2
  <1>14. QED
    BY <1>6, <1>8, <1>9, <1>10, <1>12, <1>13 DEF FInv

\* A reset ends the session.
LEMMA DeadTickFetch == IInv /\ FInv /\ Tick /\ ~Live => FInv'
  <1> SUFFICES ASSUME IInv, FInv, Tick, ~Live PROVE FInv'
    OBVIOUS
  <1>1. /\ reset_n \in {0, 1} /\ reset_n' \in {0, 1} /\ sw' = sw /\ ~clean'
        /\ IoModule0!Clock /\ Checker1!Clock /\ Checker2!Clock
    BY TickEdge DEF IInv, Types, Tick
  <1>2. io'.phase = "RESET"
    BY <1>1, IoDead DEF IInv
  <1>3. FetchTypes'
    BY <1>1, CheckersDead DEF FInv, FetchTypes
  <1>4. CheckerInv' /\ SpentInv'
    BY <1>2 DEF CheckerInv, Checked, SpentInv
  <1>5. AnswerInv' /\ SentInv' /\ TakenInv'
    BY <1>1 DEF AnswerInv, SentInv, TakenInv
  <1>6. QED
    BY <1>3, <1>4, <1>5 DEF FInv

\* Between clock edges only the program moves.
HardwareHolds ==
  /\ \A c \in Checkers : Checker(c)' = Checker(c) /\ Verdict(c)' = Verdict(c)
  /\ \A c \in Units : Unit(c)' = Unit(c) /\ AnswersOf(c)' = AnswersOf(c)
  /\ \A c \in Fetches : ValueOf(c)' = ValueOf(c)
  /\ io' = io

LEMMA NoEdge == UNCHANGED hardware => HardwareHolds
  <1> SUFFICES ASSUME UNCHANGED hardware PROVE HardwareHolds
    OBVIOUS
  <1>1. UNCHANGED <<io, checker1, checker2, phi_gen0, n_gen0, generate_d0, rsa_encrypt0,
                    rsa_decrypt0>>
    BY DEF hardware
  <1>2. ASSUME NEW c \in Checkers PROVE Checker(c)' = Checker(c) /\ Verdict(c)' = Verdict(c)
    BY <1>1 DEF Checker, Verdict, Checker1!Verdict, Checker2!Verdict
  <1>3. ASSUME NEW c \in Units PROVE Unit(c)' = Unit(c)
    BY <1>1 DEF Unit, Units
  <1>4. ASSUME NEW c \in Units PROVE AnswersOf(c)' = AnswersOf(c)
    BY <1>1 DEF AnswersOf, Units, DecryptOperands
  <1>5. ASSUME NEW c \in Fetches PROVE ValueOf(c)' = ValueOf(c)
    <2>1. CASE c \in Checkers
      BY <1>2, <2>1 DEF ValueOf
    <2>2. CASE c \in Units
      <3>1. c \notin Checkers
        BY <2>2 DEF Units, Checkers
      <3>2. QED
        BY <1>3, <2>2, <3>1 DEF ValueOf
    <2>3. QED
      BY <2>1, <2>2 DEF Fetches, Units, Checkers
  <1>6. QED
    BY <1>1, <1>2, <1>3, <1>4, <1>5 DEF HardwareHolds

\* Then the part of the invariant that is about the hardware stays, in a
\* session that goes on.
LEMMA HardwareKept ==
  ASSUME FInv, HardwareHolds
  PROVE  /\ \A c \in Checkers : CheckerType(Checker(c)')
         /\ CheckerInv' /\ SpentInv'
         /\ (clean' => clean) => AnswerInv' /\ SentInv'
  <1>1. \A c \in Checkers : CheckerType(Checker(c)')
    BY DEF FInv, FetchTypes, HardwareHolds
  <1>2. CheckerInv'
    BY DEF FInv, CheckerInv, HardwareHolds
  <1>3. SpentInv'
    BY DEF FInv, SpentInv, HardwareHolds
  <1>4. ASSUME clean' => clean PROVE AnswerInv'
    BY <1>4 DEF FInv, AnswerInv, HardwareHolds
  <1>5. ASSUME clean' => clean PROVE SentInv'
    BY <1>5 DEF FInv, SentInv, HardwareHolds
  <1>6. QED
    BY <1>1, <1>2, <1>3, <1>4, <1>5

\* A statement changes what was fetched only where it reads the port.
LEMMA FetchedEdge ==
  ASSUME SwType(sw), Statement
  PROVE  sw'.fetched = IF sw.step = "READ_PORT"
                       THEN [sw.fetched EXCEPT ![sw.job] = Program!ToInt(io.to_sw_port)]
                       ELSE sw.fetched
  <1>1. CASE Program!ReadPort
    <2>1. PICK v : v = Program!ToInt(io.to_sw_port)
      OBVIOUS
    <2>2. sw.step = "READ_PORT" /\ sw' = [sw EXCEPT !.fetched[sw.job] = v, !.step = "ACKNOWLEDGE"]
      BY <1>1, <2>1 DEF Program!ReadPort
    <2>3. sw'.fetched = [sw.fetched EXCEPT ![sw.job] = v]
      BY <2>2 DEF SwType
    <2>4. QED
      BY <2>1, <2>2, <2>3
  <1>2. CASE Program!WriteSignal
    <2>1. PICK st2 : sw.step # "READ_PORT" /\ sw' = [sw EXCEPT !.step = st2]
      BY <1>2 DEF Program!WriteSignal
    <2>2. QED
      BY <2>1 DEF SwType
  <1>3. CASE Program!WritePort
    <2>1. PICK st2 : sw.step # "READ_PORT" /\ sw' = [sw EXCEPT !.step = st2]
      BY <1>3 DEF Program!WritePort
    <2>2. QED
      BY <2>1 DEF SwType
  <1>4. CASE Program!Poll
    <2>1. PICK st2 : sw.step # "READ_PORT" /\ sw' = [sw EXCEPT !.step = st2]
      BY <1>4 DEF Program!Poll
    <2>2. QED
      BY <2>1 DEF SwType
  <1>5. CASE Program!PollWait
    <2>1. CASE sw.job = "MENU"
      <3>1. PICK st2 : sw.step # "READ_PORT" /\ sw' = [sw EXCEPT !.step = st2]
        BY <1>5, <2>1 DEF Program!PollWait
      <3>2. QED
        BY <3>1 DEF SwType
    <2>2. CASE sw.job # "MENU"
      <3>1. PICK j2, st2 : sw.step # "READ_PORT" /\ sw' = [sw EXCEPT !.job = j2, !.step = st2]
        BY <1>5, <2>2 DEF Program!PollWait
      <3>2. QED
        BY <3>1 DEF SwType
    <2>3. QED
      BY <2>1, <2>2
  <1>6. QED
    BY <1>1, <1>2, <1>3, <1>4, <1>5 DEF Statement, Program!Program

\* A statement of the program: what it reads from the port is sent by the
\* channel it serves.
LEMMA StatementFetch == IInv /\ FInv /\ Statement => FInv'
  <1> SUFFICES ASSUME IInv, FInv, Statement PROVE FInv'
    OBVIOUS
  <1>1. SwEdge
    BY SwStatement DEF IInv
  <1>2. HardwareHolds /\ clean' = clean
    BY NoEdge DEF Statement
  <1>3. /\ sw.job \in {"MENU"} \cup Loads \cup Fetches /\ SwType(sw)
        /\ Control(sw.job, sw.step, to_hw_sig, io.phase, io.channel, io.to_sw_sig)
    BY DEF IInv, Types, SwType, Protocol
  <1>4. SwMove(sw.job, sw.step, to_hw_sig, io.to_sw_sig, sw'.job, sw'.step, to_hw_sig')
    BY <1>1 DEF SwEdge
  <1>5. sw'.fetched = IF sw.step = "READ_PORT"
                      THEN [sw.fetched EXCEPT ![sw.job] = Program!ToInt(io.to_sw_port)]
                      ELSE sw.fetched
    BY <1>3, FetchedEdge
  <1>6. sw.fetched = [c \in Fetches |-> sw.fetched[c]]
    BY DEF FInv, FetchTypes
  <1>7. sw'.fetched = [c \in Fetches |-> sw'.fetched[c]]
    BY <1>5, <1>6
  <1>8. TakenInv'
    <2> SUFFICES ASSUME clean, NEW c \in Fetches, Taken(c, sw'.job, sw'.step)
                 PROVE  /\ sw'.fetched[c] = Program!ToInt(ValueOf(c))
                        /\ c \in Units => Unit(c).status = "SPENT"
      BY <1>2 DEF TakenInv, HardwareHolds, Program!ToInt
    <2>1. CASE Taken(c, sw.job, sw.step)
      <3>1. sw.fetched[c] = Program!ToInt(ValueOf(c)) /\ (c \in Units => Unit(c).status = "SPENT")
        BY <2>1 DEF FInv, TakenInv
      <3>2. sw.step = "READ_PORT" => sw.job # c
        BY <2>1, Ranks DEF Taken, Fetches
      <3>3. sw'.fetched[c] = sw.fetched[c]
        BY <1>5, <1>6, <3>2
      <3>4. QED
        BY <3>1, <3>3
    <2>2. CASE ~Taken(c, sw.job, sw.step)
      <3>1. sw.job = c /\ sw.step = "READ_PORT"
        <4>1. CASE sw'.job = sw.job
          BY <1>3, <1>4, <2>2, <4>1, Kinds DEF Taken, SwMove, Statements, Control
        <4>2. CASE sw'.job # sw.job
          <5>1. sw.step = "POLL_WAIT" /\ Follows(sw.job, sw'.job) /\ sw.job \in Loads \cup Fetches
                /\ sw'.step \notin {"ACKNOWLEDGE", "POLL_GOT_ACK", "RELEASE", "POLL_WAIT"}
            BY <1>3, <1>4, <4>2 DEF SwMove
          <5>2. sw'.job \in Loads \cup Fetches /\ Rank(sw'.job) > Rank(c)
            BY <5>1 DEF Taken
          <5>3. Rank(sw.job) > Rank(c) \/ sw.job = c
            BY <5>1, <5>2, Ranks DEF Follows, Loads, Fetches
          <5>4. QED
            BY <2>2, <5>1, <5>3 DEF Taken
        <4>3. QED
          BY <4>1, <4>2
      <3>2. io.phase # "RESET" /\ sw.job # "MENU"
        BY <3>1, Kinds DEF IInv, CleanInv, Undisturbed
      <3>3. io.phase = "SEND_BACK" /\ io.channel = c /\ io.to_sw_sig = 1
        BY <1>3, <3>1, <3>2 DEF Control, Together
      <3>4. io.to_sw_port = ValueOf(c) /\ (c \in Units => Unit(c).status = "SPENT")
        BY <3>3 DEF FInv, SentInv, SpentInv
      <3>5. sw'.fetched[c] = Program!ToInt(io.to_sw_port)
        BY <1>5, <1>6, <3>1
      <3>6. QED
        BY <3>4, <3>5
    <2>3. QED
      BY <2>1, <2>2
  <1>9. QED
    BY <1>2, <1>7, <1>8, HardwareKept DEF FInv, FetchTypes

\* An entry of the user.
LEMMA EntryFetch == IInv /\ FInv /\ Entry => FInv'
  <1> SUFFICES ASSUME IInv, FInv, Entry PROVE FInv'
    OBVIOUS
  <1>1. HardwareHolds /\ clean' = clean
    BY NoEdge DEF Entry
  <1>2. sw.step = "SCAN" /\ sw.job \in Loads /\ SwType(sw)
    BY DEF Entry, Program!Scan, IInv, Types, Protocol, Control, Statements
  <1>3. PICK v, st : sw' = [sw EXCEPT !.entered[sw.job] = v, !.step = st]
    BY DEF Entry, Program!Scan
  <1>4. sw'.job = sw.job /\ sw'.fetched = sw.fetched
    BY <1>2, <1>3 DEF SwType
  <1>5. TakenInv'
    <2> SUFFICES ASSUME clean, NEW c \in Fetches, Taken(c, sw.job, sw'.step)
                 PROVE  /\ sw.fetched[c] = Program!ToInt(ValueOf(c))
                        /\ c \in Units => Unit(c).status = "SPENT"
      BY <1>1, <1>4 DEF TakenInv, HardwareHolds, Program!ToInt
    <2>1. Taken(c, sw.job, sw.step)
      BY <1>2, Kinds DEF Taken
    <2>2. QED
      BY <2>1 DEF FInv, TakenInv
  <1>6. QED
    BY <1>1, <1>4, <1>5, HardwareKept DEF FInv, FetchTypes

\* A choice in the menu.
LEMMA ChoiceFetch == IInv /\ FInv /\ Choice => FInv'
  <1> SUFFICES ASSUME IInv, FInv, Choice PROVE FInv'
    OBVIOUS
  <1>1. HardwareHolds
    BY NoEdge DEF Choice
  <1>2. sw.step = "OPTION" /\ sw.job = "MENU"
    BY DEF Choice, Program!Option, IInv, Protocol, Control, Statements
  <1>3. /\ sw'.fetched = [c \in Fetches |-> sw'.fetched[c]]
        /\ clean' => sw'.job = "PRM1" /\ sw'.step = "SCAN" /\ io.phase = "WAIT"
    <2>1. clean' = (sw'.job = "PRM1" /\ io.phase = "WAIT" /\ reset_n = 1)
      BY DEF Choice
    <2>2. CASE sw' = Program!Boot
      BY <2>1, <2>2, SameChannels DEF Program!Boot
    <2>3. CASE sw' = [Program!Boot EXCEPT !.job = "PRM1", !.step = "SCAN"]
      BY <2>1, <2>3, SameChannels DEF Program!Boot
    <2>4. QED
      BY <2>2, <2>3 DEF Choice, Program!Option
  <1>4. ASSUME clean', NEW c \in Units PROVE Unit(c).status \notin {"FINISHED", "SPENT"}
    BY <1>2, <1>3, <1>4 DEF IInv, UnitInv, Requests
  <1>5. AnswerInv'
    BY <1>1, <1>4 DEF AnswerInv, HardwareHolds
  <1>6. SentInv'
    BY <1>1, <1>3 DEF SentInv, HardwareHolds
  <1>7. TakenInv'
    <2>1. ASSUME clean', NEW c \in Fetches, Taken(c, "PRM1", "SCAN") PROVE FALSE
      BY <2>1, Ranks DEF Taken, Fetches
    <2>2. QED
      BY <1>3, <2>1 DEF TakenInv
  <1>8. QED
    BY <1>1, <1>3, <1>5, <1>6, <1>7, HardwareKept DEF FInv, FetchTypes

\* KEY[0].
LEMMA RestartFetch == IInv /\ FInv /\ Restart => FInv'
  <1> SUFFICES ASSUME IInv, FInv, Restart PROVE FInv'
    OBVIOUS
  <1>1. HardwareHolds /\ ~clean'
    BY NoEdge DEF Restart
  <1>2. sw'.fetched = [c \in Fetches |-> sw'.fetched[c]]
    BY SameChannels DEF Restart, Program!Boot
  <1>3. TakenInv'
    BY <1>1 DEF TakenInv
  <1>4. QED
    BY <1>1, <1>2, <1>3, HardwareKept DEF FInv, FetchTypes

\* A step that changes nothing.
LEMMA StutterFetch == FInv /\ UNCHANGED vars => FInv'
  <1> SUFFICES ASSUME FInv, UNCHANGED vars PROVE FInv'
    OBVIOUS
  <1>1. HardwareHolds /\ clean' = clean /\ sw' = sw
    BY NoEdge DEF vars
  <1>2. TakenInv'
    BY <1>1 DEF FInv, TakenInv, HardwareHolds, Program!ToInt
  <1>3. QED
    BY <1>1, <1>2, HardwareKept DEF FInv, FetchTypes

\* The initial state.
LEMMA InitFetch == Init => FInv
  <1> SUFFICES ASSUME Init PROVE FInv
    OBVIOUS
  <1>1. ~clean /\ sw.fetched = [c \in Fetches |-> sw.fetched[c]]
    BY SameChannels DEF Init, Program!Boot
  <1>2. \A c \in Checkers : CheckerType(Checker(c)) 
    BY DEF Init, Checkers, Checker, CheckerType, Checker1!Cleared, Checker2!Cleared
  <1>3. io.phase = "RESET"
    BY DEF Init, IoModule0!PowerUp
  <1>4. CheckerInv /\ SpentInv
    BY <1>3 DEF CheckerInv, Checked, SpentInv
  <1>5. QED
    BY <1>1, <1>2, <1>4 DEF FInv, FetchTypes, AnswerInv, SentInv, TakenInv

\* In every session what a unit answers, what io_module sends back and what
\* the program takes belong to the operands in the registers, also when the
\* done flag of a checker is still up from the candidate before.
THEOREM FetchInvariant == Spec => []FInv
  <1>1. IInv /\ FInv /\ [Next]_vars => FInv'
    BY StatementFetch, EntryFetch, ChoiceFetch, RestartFetch, DeadTickFetch, LiveTickFetch,
       StutterFetch DEF Next
  <1>2. QED
    BY InitFetch, SessionInvariant, <1>1, PTL DEF Spec

\* What Known says of a channel that is fetched.
LEMMA KnownTaken ==
  ASSUME NEW c \in Fetches
  PROVE  Known(c) <=> clean /\ Taken(c, sw.job, sw.step)
  <1>1. Known(c) <=> /\ clean
                     /\ \/ Before(c, sw.job)
                        \/ /\ sw.job = c
                           /\ sw.step \in {"ACKNOWLEDGE", "POLL_GOT_ACK", "RELEASE", "POLL_WAIT"}
    BY DEF Known, Before
  <1>2. QED
    BY <1>1, RankOrder DEF Taken

\* What the program has fetched from the channels before, and the operands it
\* has sent, are then known too.
LEMMA EarlierKnown ==
  ASSUME IInv, FInv, NEW c \in Fetches, Known(c)
  PROVE  /\ \A a \in Loads : Rank(a) < Rank(c) => io.held[a] = sw.entered[a] % Radix
         /\ \A a \in Fetches : Rank(a) <= Rank(c) =>
              /\ sw.fetched[a] = Program!ToInt(ValueOf(a))
              /\ a \in Units => Unit(a).status = "SPENT" /\ Unit(a).result \in AnswersOf(a)
  <1>1. clean /\ Taken(c, sw.job, sw.step)
    BY KnownTaken
  <1>2. ASSUME NEW a \in Loads, Rank(a) < Rank(c) PROVE Loaded(a, sw.job, sw.step)
    BY <1>1, <1>2, Ranks DEF Taken, Loaded, Loads, Fetches
  <1>3. ASSUME NEW a \in Fetches, Rank(a) <= Rank(c) PROVE Taken(a, sw.job, sw.step)
    BY <1>1, <1>3, Ranks DEF Taken, Loads, Fetches
  <1>4. ASSUME NEW a \in Loads, Rank(a) < Rank(c) PROVE io.held[a] = sw.entered[a] % Radix
    BY <1>1, <1>2, <1>4 DEF IInv, Operands
  <1>5. ASSUME NEW a \in Fetches, Rank(a) <= Rank(c)
        PROVE  /\ sw.fetched[a] = Program!ToInt(ValueOf(a))
               /\ a \in Units => Unit(a).status = "SPENT"
    BY <1>1, <1>3, <1>5 DEF FInv, TakenInv
  <1>6. ASSUME NEW a \in Units, Unit(a).status = "SPENT" PROVE Unit(a).result \in AnswersOf(a)
    BY <1>1, <1>6 DEF FInv, AnswerInv
  <1>7. QED
    BY <1>4, <1>5, <1>6

\* What the program has fetched is what the units answer to what the user
\* entered in this session, for words of any width.
THEOREM FetchedStaysCurrent == Spec => []FetchedIsCurrent
  <1> DEFINE O(c) == sw.entered[c] % Radix
             Got(c, w) == sw.fetched[c] = Program!ToInt(w)
             n == WordProduct(O("PRM1"), O("PRM2"))
             phi == WordProduct(SubW(O("PRM1"), 1), SubW(O("PRM2"), 1))
             Keys == KeyAnswers(<<O("E"), phi>>)
             Ciphers == PowerAnswers(<<O("PLAINTEXT"), O("E"), n>>)
  <1>1. ASSUME IInv, FInv PROVE FetchedIsCurrent
    <2>1. ASSUME Known("PRIME_1") PROVE Got("PRIME_1", Checker1!Verdict(O("PRM1")))
      <3>1. /\ sw.fetched["PRIME_1"] = Program!ToInt(ValueOf("PRIME_1"))
            /\ io.held["PRM1"] = O("PRM1")
        BY <1>1, <2>1, EarlierKnown, Ranks DEF Loads, Fetches
      <3>2. ValueOf("PRIME_1") = Checker1!Verdict(io.held["PRM1"])
        BY DEF ValueOf, Checkers, Verdict
      <3>3. QED
        BY <3>1, <3>2
    <2>2. ASSUME Known("PRIME_2") PROVE Got("PRIME_2", Checker2!Verdict(O("PRM2")))
      <3>1. /\ sw.fetched["PRIME_2"] = Program!ToInt(ValueOf("PRIME_2"))
            /\ io.held["PRM2"] = O("PRM2")
        BY <1>1, <2>2, EarlierKnown, Ranks DEF Loads, Fetches
      <3>2. ValueOf("PRIME_2") = Checker2!Verdict(io.held["PRM2"])
        BY DEF ValueOf, Checkers, Verdict
      <3>3. QED
        BY <3>1, <3>2
    <2>3. ValueOf("N") = n_gen0.result /\ ValueOf("PHI") = phi_gen0.result
          /\ ValueOf("GEND") = generate_d0.result /\ ValueOf("ENCRYPTED") = rsa_encrypt0.result
          /\ ValueOf("DECRYPTED") = rsa_decrypt0.result
      BY DEF ValueOf, Checkers, Unit
    <2>4. ASSUME NEW c \in Units, Known(c) PROVE n_gen0.result = n /\ Got("N", n)
      <3>1. /\ sw.fetched["N"] = Program!ToInt(ValueOf("N"))
            /\ Unit("N").result \in AnswersOf("N")
            /\ io.held["PRM1"] = O("PRM1") /\ io.held["PRM2"] = O("PRM2")
        BY <1>1, <2>4, EarlierKnown, Ranks, LateUnits, Kinds DEF Loads, Fetches, Units
      <3>2. n_gen0.result \in {WordProduct(io.held["PRM1"], io.held["PRM2"])}
        BY <3>1 DEF AnswersOf, NAnswers, Unit
      <3>3. QED
        BY <2>3, <3>1, <3>2
    <2>5. ASSUME NEW c \in Units \ {"N"}, Known(c) PROVE phi_gen0.result = phi /\ Got("PHI", phi)
      <3>1. /\ sw.fetched["PHI"] = Program!ToInt(ValueOf("PHI"))
            /\ Unit("PHI").result \in AnswersOf("PHI")
            /\ io.held["PRM1"] = O("PRM1") /\ io.held["PRM2"] = O("PRM2")
        BY <1>1, <2>5, EarlierKnown, Ranks DEF Loads, Fetches, Units
      <3>2. phi_gen0.result \in {WordProduct(SubW(io.held["PRM1"], 1), SubW(io.held["PRM2"], 1))}
        BY <3>1 DEF AnswersOf, PhiAnswers, Unit
      <3>3. QED
        BY <2>3, <3>1, <3>2
    <2>6. ASSUME NEW c \in Confirmed, Known(c)
          PROVE  generate_d0.result \in Keys /\ Got("GEND", generate_d0.result)
      <3>1. /\ sw.fetched["GEND"] = Program!ToInt(ValueOf("GEND"))
            /\ Unit("GEND").result \in AnswersOf("GEND") /\ io.held["E"] = O("E")
        BY <1>1, <2>6, EarlierKnown, Ranks DEF Loads, Fetches, Units, Confirmed
      <3>2. phi_gen0.result = phi
        BY <2>5, <2>6 DEF Units, Confirmed
      <3>3. generate_d0.result \in KeyAnswers(<<io.held["E"], phi_gen0.result>>)
        BY <3>1 DEF AnswersOf, Unit
      <3>4. QED
        BY <2>3, <3>1, <3>2, <3>3
    <2>7. ASSUME NEW c \in {"ENCRYPTED", "DECRYPTED"}, Known(c)
          PROVE  rsa_encrypt0.result \in Ciphers /\ Got("ENCRYPTED", rsa_encrypt0.result)
      <3>1. /\ sw.fetched["ENCRYPTED"] = Program!ToInt(ValueOf("ENCRYPTED"))
            /\ Unit("ENCRYPTED").result \in AnswersOf("ENCRYPTED")
            /\ io.held["E"] = O("E") /\ io.held["PLAINTEXT"] = O("PLAINTEXT")
        BY <1>1, <2>7, EarlierKnown, Ranks DEF Loads, Fetches, Units
      <3>2. n_gen0.result = n
        BY <2>4, <2>7 DEF Units
      <3>3. rsa_encrypt0.result \in
              PowerAnswers(<<io.held["PLAINTEXT"], io.held["E"], n_gen0.result>>)
        BY <3>1 DEF AnswersOf, Unit
      <3>4. QED
        BY <2>3, <3>1, <3>2, <3>3
    <2>8. ASSUME Known("DECRYPTED")
          PROVE  /\ rsa_decrypt0.result \in
                      PowerAnswers(<<rsa_encrypt0.result, generate_d0.result, n>>)
                 /\ Got("DECRYPTED", rsa_decrypt0.result)
      <3>1. /\ sw.fetched["DECRYPTED"] = Program!ToInt(ValueOf("DECRYPTED"))
            /\ Unit("DECRYPTED").result \in AnswersOf("DECRYPTED")
        BY <1>1, <2>8, EarlierKnown, Ranks DEF Loads, Fetches, Units
      <3>2. n_gen0.result = n
        BY <2>4, <2>8 DEF Units
      <3>3. rsa_decrypt0.result \in
              PowerAnswers(<<rsa_encrypt0.result, generate_d0.result, n_gen0.result>>)
        BY <3>1 DEF AnswersOf, Unit, DecryptOperands
      <3>4. QED
        BY <2>3, <3>1, <3>2, <3>3
    <2> HIDE DEF n, phi, Keys, Ciphers, Got, O
    <2>9. Known("N") => Got("N", n)
      BY <2>4 DEF Units
    <2>10. Known("PHI") => Got("PHI", phi)
      BY <2>5 DEF Units
    <2>11. Known("GEND") => \E d \in Keys : Got("GEND", d)
      BY <2>6 DEF Confirmed
    <2>12. Known("ENCRYPTED") => \E c \in Ciphers : Got("ENCRYPTED", c)
      BY <2>7
    <2>13. Known("DECRYPTED") =>
             \E c \in Ciphers, d \in Keys :
               /\ Got("ENCRYPTED", c) /\ Got("GEND", d)
               /\ \E m \in PowerAnswers(<<c, d, n>>) : Got("DECRYPTED", m)
      BY <2>6, <2>7, <2>8 DEF Confirmed
    <2>14. QED
      BY <2>1, <2>2, <2>9, <2>10, <2>11, <2>12, <2>13
         DEF FetchedIsCurrent, n, phi, Keys, Ciphers, Got, O
  <1>2. QED
    BY SessionInvariant, FetchInvariant, <1>1, PTL

=============================================================================
