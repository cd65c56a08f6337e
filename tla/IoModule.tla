------------------------------ MODULE IoModule ------------------------------
(***************************************************************************)
(* io_module.sv: the hardware end of the signalling protocol with the      *)
(* processor.  The 38 states of the source are a phase and a channel here: *)
(* READ_PRM1 is phase READ of channel PRM1, SEND_TO_RSA_PHI and            *)
(* GET_FROM_PRIME_CHECKER_1 are the phases SEND_TO of PHI and GET_FROM of  *)
(* PRIME_1, and so on.  done and value are what the compute unit of each   *)
(* channel shows; to_hw_sig and to_hw_port are written by the processor.   *)
(***************************************************************************)
EXTENDS Words

VARIABLES
  reset_n, to_hw_sig, to_hw_port, done, value,
  io

Loads == {"PRM1", "PRM2", "E", "PLAINTEXT"}

Fetches == {"PRIME_1", "PRIME_2", "N", "PHI", "GEND", "ENCRYPTED", "DECRYPTED"}

\* Units that are started only when the processor has answered with signal 5.
Confirmed == {"GEND", "ENCRYPTED", "DECRYPTED"}

Channels == Loads \cup Fetches

Command ==
  [PRM1 |-> 1, PRM2 |-> 2, PHI |-> 3, E |-> 4, PLAINTEXT |-> 5,
   ENCRYPTED |-> 6, DECRYPTED |-> 7, N |-> 9, GEND |-> 10, PRIME_1 |-> 11,
   PRIME_2 |-> 12]

Phases == {"RESET", "WAIT", "READ", "ACK", "SEND_TO", "GET_FROM", "SEND_BACK",
           "GOT_ACK"}

Signals == 0 .. 15

\* held stands for the registers prime1, prime2, e and plaintext, ready for
\* the seven start signals.
Registers ==
  [phase: Phases, channel: Channels \cup {"NONE"}, held: [Loads -> Word],
   n_hold: Word, ready: [Fetches -> Bit], to_sw_sig: Signals,
   to_sw_port: Word]

PowerUp ==
  io = [phase |-> "RESET", channel |-> "NONE", held |-> [c \in Loads |-> 0],
        n_hold |-> 0, ready |-> [c \in Fetches |-> 0], to_sw_sig |-> 0,
        to_sw_port |-> 0]

-----------------------------------------------------------------------------

\* The state, operand and to_sw_port registers have an asynchronous reset;
\* to_sw_sig and the start signals have none.
Latch(r) ==
  IF reset_n = 1 /\ reset_n' = 1
  THEN r
  ELSE [r EXCEPT !.phase = "RESET", !.channel = "NONE",
                 !.held = [c \in Loads |-> 0],
                 !.n_hold = 0, !.to_sw_port = 0]

\* Mutant: RESET does not announce itself.
ResetSilent ==
  /\ io.phase = "RESET"
  /\ io' = Latch([io EXCEPT
       !.phase = IF to_hw_sig = 8 THEN "WAIT" ELSE "RESET",
       !.ready = [c \in Fetches |->
                    IF c \in {"ENCRYPTED", "DECRYPTED", "PHI", "N"}
                    THEN 0 ELSE io.ready[c]]])

\* generated_ready, prime_checker_ready1 and prime_checker_ready2 are not
\* among the start signals that RESET clears.
Reset ==
  /\ io.phase = "RESET"
  /\ io' = Latch([io EXCEPT
       !.phase = IF to_hw_sig = 8 THEN "WAIT" ELSE "RESET",
       !.ready = [c \in Fetches |->
                    IF c \in {"ENCRYPTED", "DECRYPTED", "PHI", "N"}
                    THEN 0 ELSE io.ready[c]],
       !.to_sw_sig = 3])

Wait ==
  /\ io.phase = "WAIT"
  /\ \/ \E c \in Channels :
          /\ to_hw_sig = Command[c]
          /\ io' = Latch([io EXCEPT
               !.phase = IF c \in Loads THEN "READ" ELSE "SEND_TO",
               !.channel = c,
               !.to_sw_sig = 7])
     \/ /\ \A c \in Channels : to_hw_sig # Command[c]
        /\ io' = Latch([io EXCEPT !.to_sw_sig = 7])

\* Mutant: READ lasts one clock.
ReadOnce ==
  /\ io.phase = "READ"
  /\ io' = Latch([io EXCEPT
       !.phase = "ACK",
       !.held[io.channel] = to_hw_port,
       !.to_sw_sig = 1])

\* The operand register follows to_hw_port at every edge of the phase.
Read ==
  /\ io.phase = "READ"
  /\ io' = Latch([io EXCEPT
       !.phase = IF to_hw_sig = 0 THEN "ACK" ELSE "READ",
       !.held[io.channel] = to_hw_port,
       !.to_sw_sig = 1])

Ack ==
  LET left == \/ to_hw_sig = 8
              \/ io.channel = "PRM1" /\ to_hw_sig = 2
  IN  /\ io.phase = "ACK"
      /\ io' = Latch([io EXCEPT
           !.phase = IF left THEN "WAIT" ELSE "ACK",
           !.channel = IF left THEN "NONE" ELSE io.channel,
           !.to_sw_sig = IF io.channel = "PRM1" THEN 2 ELSE 0])

\* Mutant: a unit whose done flag is up is not started.
SendToTrustsDone ==
  LET c == io.channel
  IN  /\ io.phase = "SEND_TO"
      /\ io' = Latch([io EXCEPT
           !.phase = IF done[c] = 1 THEN "GET_FROM" ELSE "SEND_TO",
           !.ready[c] = IF \/ c \in Confirmed /\ to_hw_sig # 5
                           \/ done[c] = 1
                        THEN io.ready[c] ELSE 1,
           !.to_sw_sig = IF c = "GEND" /\ to_hw_sig = 5 THEN 4 ELSE 3])

\* Mutant: the done flag is not waited for.
SendToHurries ==
  LET c == io.channel
  IN  /\ io.phase = "SEND_TO"
      /\ io' = Latch([io EXCEPT
           !.phase = IF io.ready[c] = 1 THEN "GET_FROM" ELSE "SEND_TO",
           !.ready[c] = IF c \in Confirmed /\ to_hw_sig # 5 THEN io.ready[c] ELSE 1,
           !.to_sw_sig = IF c = "GEND" /\ to_hw_sig = 5 THEN 4 ELSE 3])

SendTo ==
  LET c == io.channel
  IN  /\ io.phase = "SEND_TO"
      /\ io' = Latch([io EXCEPT
           !.phase = IF done[c] = 1 THEN "GET_FROM" ELSE "SEND_TO",
           !.ready[c] = IF c \in Confirmed /\ to_hw_sig # 5 THEN io.ready[c] ELSE 1,
           !.to_sw_sig = IF c = "GEND" /\ to_hw_sig = 5 THEN 4 ELSE 3])

GetFrom ==
  /\ io.phase = "GET_FROM"
  /\ io' = Latch([io EXCEPT
       !.phase = IF to_hw_sig = 1 THEN "SEND_BACK" ELSE "GET_FROM",
       !.ready[io.channel] = 0,
       !.to_sw_sig = 2])

SendBack ==
  /\ io.phase = "SEND_BACK"
  /\ io' = Latch([io EXCEPT
       !.phase = IF to_hw_sig = 2 THEN "GOT_ACK" ELSE "SEND_BACK",
       !.to_sw_port = value[io.channel],
       !.n_hold = IF io.channel = "N" THEN value["N"] ELSE io.n_hold,
       !.to_sw_sig = 1])

GotAck ==
  /\ io.phase = "GOT_ACK"
  /\ io' = Latch([io EXCEPT
       !.phase = IF to_hw_sig = 8 THEN "WAIT" ELSE "GOT_ACK",
       !.channel = IF to_hw_sig = 8 THEN "NONE" ELSE io.channel,
       !.to_sw_sig = 0])

Clock == Reset \/ Wait \/ Read \/ Ack \/ SendTo \/ GetFrom \/ SendBack \/ GotAck

=============================================================================
