---------------------- MODULE ModularMultiplicationProofs ----------------------
(***************************************************************************)
(* Proofs about modular_multiplication.sv: for every word size it uses its *)
(* multiplier and its modulo unit the way their own correctness assumes,   *)
(* and what its parent reads together with modmult_done is the remainder   *)
(* of the product of the operands it presented.  The arithmetic is that of *)
(* the two units: their invariants are part of the invariant of the whole. *)
(***************************************************************************)
EXTENDS ModularMultiplicationSpec, TLAPS

\* mult0 and modular0, each with its handshake history.
MultiplierUnit ==
  INSTANCE MultiplierProofs
    WITH mult_ready <- modmult.mult_ready, in1 <- modmult.d, in2 <- modmult.e,
         fresh <- MultiplierFresh

ModularUnit ==
  INSTANCE ModularProofs
    WITH modular_ready <- modmult.modular_ready,
         numerator <- mult.out, denominator <- modmult.phi,
         fresh <- ModularFresh

-----------------------------------------------------------------------------

TypeOK ==
  /\ reset_n \in Bit /\ modmult_ready \in Bit /\ fresh \in BOOLEAN
  /\ base \in Word /\ power \in Word /\ denominator \in Word
  /\ modmult \in Registers

MultiplierIdle ==
  /\ modmult.mult_ready = 0
  /\ mult.state \in {"RESET", "WAIT"}
  /\ mult.mult_done = 0

ModularIdle ==
  /\ modmult.modular_ready = 0
  /\ modular.state \in {"RESET", "WAIT"}
  /\ modular.modular_done = 0

Multiplied == mult.state # "RESET" /\ mult.mult_done = 1
Reduced == modular.state # "RESET" /\ modular.modular_done = 1

\* Towards its parent: a reset unit that was not started has no answer up, an
\* answer outlives its request only in a unit that is not started again, and a
\* request under way has the operands that are presented.
ParentInv ==
  /\ reset_n = 0 => modmult.state = "RESET"
  /\ reset_n = 1 /\ fresh => /\ modmult_ready = 0
                             /\ modmult.state \in {"RESET", "WAIT"}
                             /\ modmult.modmult_done = 0
  /\ reset_n = 1 /\ modmult.modmult_done = 1 =>
       /\ ~fresh
       /\ \/ modmult.state = "MODMULT_DONE"
          \/ modmult.state = "WAIT" /\ modmult_ready = 0
  /\ reset_n = 1 /\ modmult.state \notin {"RESET", "WAIT"} =>
       /\ modmult_ready = 1 \/ modmult.modmult_done = 1
       /\ modmult_ready = 1 => /\ modmult.d = base
                               /\ modmult.e = power
                               /\ modmult.phi = denominator

\* Towards its units: which of them may have been started and which have
\* answered, state by state.
Stages ==
  reset_n = 1 =>
    /\ modmult.state \in {"RESET", "WAIT"} /\ modmult.modmult_done = 0 =>
         MultiplierIdle /\ ModularIdle
    /\ modmult.state = "MULTIPLY" =>
         ModularIdle /\ (modmult.mult_ready = 0 => MultiplierIdle)
    /\ modmult.state = "MULTIPLY_DONE" =>
         ModularIdle /\ modmult.mult_ready = 1 /\ Multiplied
    /\ modmult.state = "MODULO" =>
         /\ modmult.mult_ready = 0 /\ Multiplied
         /\ modmult.modular_ready = 0 => ModularIdle
    /\ modmult.state = "MODULO_DONE" =>
         modmult.mult_ready = 0 /\ Multiplied /\ modmult.modular_ready = 1 /\ Reduced
    /\ modmult.state = "MODMULT_DONE" \/ modmult.modmult_done = 1 =>
         /\ modmult.mult_ready = 0 /\ Multiplied
         /\ modmult.modular_ready = 0 /\ Reduced

\* The product of the latched operands, and its remainder.
Results ==
  reset_n = 1 =>
    /\ modmult.state \in {"MODULO", "MODULO_DONE"} =>
         mult.out = MultiplierUnit!Product(modmult.d, modmult.e)
    /\ modmult.state = "MODMULT_DONE" =>
         /\ modmult.phi > 0
         /\ modmult.result
              = MultiplierUnit!Product(modmult.d, modmult.e) % modmult.phi

IInv ==
  /\ TypeOK /\ ParentInv /\ Stages /\ Results
  /\ MultiplierUnit!IInv /\ ModularUnit!IInv

\* The types alone, which hold whatever the parent does.
TypeInv == TypeOK /\ MultiplierUnit!TypeOK /\ ModularUnit!TypeOK

USE DEF Bit, States, NextState

-----------------------------------------------------------------------------
(* The clock edge, part by part                                            *)

\* The multiplier of the controller is the one the proofs are about.
LEMMA SameMultiplier == mult0!Clock <=> MultiplierUnit!Clock
  BY Zenon
     DEF mult0!Clock, mult0!Reset, mult0!Wait, mult0!MultiplyLoop0,
         mult0!MultiplyLoop1, mult0!MultiplyDone, mult0!Cleared,
         mult0!NextState, mult0!Counter, mult0!AddW,
         MultiplierUnit!Clock, MultiplierUnit!Reset, MultiplierUnit!Wait,
         MultiplierUnit!MultiplyLoop0, MultiplierUnit!MultiplyLoop1,
         MultiplierUnit!MultiplyDone, MultiplierUnit!Cleared,
         MultiplierUnit!NextState, MultiplierUnit!Counter, MultiplierUnit!AddW

\* So is its modulo unit.
LEMMA SameModular == modular0!Clock <=> ModularUnit!Clock
  BY Zenon
     DEF modular0!Clock, modular0!Reset, modular0!Wait, modular0!ModInit,
         modular0!ModAssign, modular0!ModDone, modular0!Cleared,
         modular0!NextState, modular0!SubW,
         ModularUnit!Clock, ModularUnit!Reset, ModularUnit!Wait,
         ModularUnit!ModInit, ModularUnit!ModAssign, ModularUnit!ModDone,
         ModularUnit!Cleared, ModularUnit!NextState, ModularUnit!SubW

Live == reset_n = 1 /\ reset_n' = 1

\* Out of reset, a multiplier that is not asked stays idle, and none goes
\* back to RESET.
LEMMA MultiplierEdge ==
  ASSUME Live, mult \in MultiplierUnit!Registers, MultiplierUnit!Clock
  PROVE  /\ mult'.state # "RESET"
         /\ MultiplierIdle => mult'.state = "WAIT" /\ mult'.mult_done = 0
  <1> USE DEF Live, MultiplierUnit!NextState, MultiplierUnit!Registers,
              MultiplierUnit!States, MultiplierIdle
  <1>1. CASE MultiplierUnit!Reset
    BY <1>1 DEF MultiplierUnit!Reset, MultiplierUnit!Cleared
  <1>2. CASE MultiplierUnit!Wait
    BY <1>2 DEF MultiplierUnit!Wait
  <1>3. CASE MultiplierUnit!MultiplyLoop0
    <2>1. mult.state = "MULTIPLY_LOOP_0"
      BY <1>3 DEF MultiplierUnit!MultiplyLoop0
    <2>2. mult'.state \in {"MULTIPLY_DONE", "MULTIPLY_LOOP_1", "MULTIPLY_LOOP_0"}
      BY <1>3 DEF MultiplierUnit!MultiplyLoop0
    <2>3. QED
      BY <2>1, <2>2
  <1>4. CASE MultiplierUnit!MultiplyLoop1
    BY <1>4 DEF MultiplierUnit!MultiplyLoop1
  <1>5. CASE MultiplierUnit!MultiplyDone
    BY <1>5 DEF MultiplierUnit!MultiplyDone
  <1>6. QED
    BY <1>1, <1>2, <1>3, <1>4, <1>5 DEF MultiplierUnit!Clock

\* The same of the modulo unit, which also keeps its answer up.
LEMMA ModularEdge ==
  ASSUME Live, modular \in ModularUnit!Registers, ModularUnit!Clock
  PROVE  /\ modular'.state # "RESET"
         /\ ModularIdle => modular'.state = "WAIT" /\ modular'.modular_done = 0
         /\ Reduced => modular'.modular_done = 1
  <1> USE DEF Live, ModularUnit!NextState, ModularUnit!Registers,
              ModularUnit!States, ModularIdle, Reduced
  <1>1. CASE ModularUnit!Reset
    BY <1>1 DEF ModularUnit!Reset, ModularUnit!Cleared
  <1>2. CASE ModularUnit!Wait
    BY <1>2 DEF ModularUnit!Wait
  <1>3. CASE ModularUnit!ModInit
    BY <1>3 DEF ModularUnit!ModInit
  <1>4. CASE ModularUnit!ModAssign
    BY <1>4 DEF ModularUnit!ModAssign
  <1>5. CASE ModularUnit!ModDone
    BY <1>5 DEF ModularUnit!ModDone
  <1>6. QED
    BY <1>1, <1>2, <1>3, <1>4, <1>5 DEF ModularUnit!Clock

\* What a register of the controller holds after an edge out of reset.
ControlEdge ==
  LET old == modmult  new == modmult'  IN
  /\ old.state = "RESET" =>
       /\ new.state = "WAIT"
       /\ new.mult_ready = 0 /\ new.modular_ready = 0 /\ new.modmult_done = 0
  /\ old.state = "WAIT" =>
       /\ new.state = IF modmult_ready = 1 THEN "MULTIPLY" ELSE "WAIT"
       /\ new.d = base /\ new.e = power /\ new.phi = denominator
       /\ new.mult_ready = old.mult_ready /\ new.modular_ready = old.modular_ready
       /\ new.modmult_done = old.modmult_done
  /\ old.state \notin {"RESET", "WAIT"} =>
       new.d = old.d /\ new.e = old.e /\ new.phi = old.phi
  /\ old.state = "MULTIPLY" =>
       /\ new.state = IF mult.mult_done = 1 THEN "MULTIPLY_DONE" ELSE "MULTIPLY"
       /\ new.mult_ready = 1 /\ new.modular_ready = old.modular_ready
       /\ new.modmult_done = old.modmult_done
  /\ old.state = "MULTIPLY_DONE" =>
       /\ new.state = "MODULO"
       /\ new.mult_ready = 0 /\ new.modular_ready = old.modular_ready
       /\ new.modmult_done = old.modmult_done
  /\ old.state = "MODULO" =>
       /\ new.state = IF modular.modular_done = 1 THEN "MODULO_DONE" ELSE "MODULO"
       /\ new.mult_ready = old.mult_ready /\ new.modular_ready = 1
       /\ new.modmult_done = old.modmult_done
  /\ old.state = "MODULO_DONE" =>
       /\ new.state = "MODMULT_DONE" /\ new.result = modular.result
       /\ new.mult_ready = old.mult_ready /\ new.modular_ready = 0
       /\ new.modmult_done = old.modmult_done
  /\ old.state = "MODMULT_DONE" =>
       /\ new.state = IF modmult_ready = 0 THEN "WAIT" ELSE "MODMULT_DONE"
       /\ new.result = old.result /\ new.modmult_done = 1
       /\ new.mult_ready = old.mult_ready /\ new.modular_ready = old.modular_ready

\* The output and next-state blocks of the controller (modular_multiplication.sv
\* 38-121) do that.
LEMMA ControlStep == TypeOK /\ Live /\ Control => ControlEdge
  <1> SUFFICES ASSUME TypeOK, Live, Control PROVE ControlEdge
    OBVIOUS
  <1> USE DEF TypeOK, Registers, Live, ControlEdge
  <1>1. CASE Reset
    BY <1>1 DEF Reset, Cleared
  <1>2. CASE Wait
    BY <1>2 DEF Wait
  <1>3. CASE Multiply
    BY <1>3 DEF Multiply
  <1>4. CASE MultiplyDone
    BY <1>4 DEF MultiplyDone
  <1>5. CASE Modulo
    BY <1>5 DEF Modulo
  <1>6. CASE ModuloDone
    BY <1>6 DEF ModuloDone
  <1>7. CASE ModmultDone
    BY <1>7 DEF ModmultDone
  <1>8. QED
    BY <1>1, <1>2, <1>3, <1>4, <1>5, <1>6, <1>7 DEF Control

\* The registers keep their types, and reset_n forces RESET.
LEMMA RegistersStep ==
  ASSUME TypeOK, Clock, modular \in ModularUnit!Registers
  PROVE  modmult' \in Registers /\ (reset_n' = 0 => modmult'.state = "RESET")
  <1>0. 0 \in Word /\ modular.result \in Word
    BY RadixAssumption DEF ModularUnit!Registers, ModularUnit!Word, Word
  <1> USE <1>0 DEF TypeOK, Registers
  <1>1. CASE Reset
    BY <1>1 DEF Reset, Cleared
  <1>2. CASE Wait
    BY <1>2 DEF Wait
  <1>3. CASE Multiply
    BY <1>3 DEF Multiply
  <1>4. CASE MultiplyDone
    BY <1>4 DEF MultiplyDone
  <1>5. CASE Modulo
    BY <1>5 DEF Modulo
  <1>6. CASE ModuloDone
    BY <1>6 DEF ModuloDone
  <1>7. CASE ModmultDone
    BY <1>7 DEF ModmultDone
  <1>8. QED
    BY <1>1, <1>2, <1>3, <1>4, <1>5, <1>6, <1>7 DEF Clock, Control

\* So do the ports.
LEMMA TypeStep ==
  ASSUME TypeOK, Next, modular \in ModularUnit!Registers
  PROVE  TypeOK' /\ (reset_n' = 0 => modmult'.state = "RESET")
  <1>1. reset_n' \in Bit /\ modmult_ready' \in Bit /\ fresh' \in BOOLEAN
    BY DEF TypeOK, Next, client!Drive, client!AssertReset, client!ReleaseReset,
           client!RaiseReady, client!LowerReady, client!Hold
  <1>2. base' \in Word /\ power' \in Word /\ denominator' \in Word
    BY OperandsAssumption DEF TypeOK, Next, Operands
  <1>3. modmult' \in Registers /\ (reset_n' = 0 => modmult'.state = "RESET")
    BY RegistersStep DEF Next
  <1>4. QED
    BY <1>1, <1>2, <1>3 DEF TypeOK

\* A parent that does not keep to the handshake disturbs no type.
LEMMA TypeInvStep ==
  ASSUME TypeInv, Clock,
         reset_n' \in Bit, modmult_ready' \in Bit, fresh' \in BOOLEAN,
         base' \in Word, power' \in Word, denominator' \in Word
  PROVE  TypeInv'
  <1>1. modmult' \in Registers
    BY RegistersStep DEF TypeInv, ModularUnit!TypeOK
  <1>2. mult' \in MultiplierUnit!Registers
    BY RadixAssumption, SameMultiplier, MultiplierUnit!RegistersStep DEF TypeInv,
                                                                         Clock
  <1>3. modular' \in ModularUnit!Registers
    BY RadixAssumption, SameModular, ModularUnit!RegistersStep DEF TypeInv, Clock
  <1>4. TypeOK'
    BY <1>1 DEF TypeOK
  <1>5. MultiplierUnit!TypeOK'
    BY <1>1, <1>2
       DEF MultiplierUnit!TypeOK, MultiplierUnit!Bit, MultiplierUnit!Word, Registers,
           Word, MultiplierFresh
  <1>6. mult'.out \in ModularUnit!Word
    BY <1>2 DEF MultiplierUnit!Registers, MultiplierUnit!Word, ModularUnit!Word
  <1>7. ModularUnit!TypeOK'
    BY <1>1, <1>3, <1>6
       DEF ModularUnit!TypeOK, ModularUnit!Bit, ModularUnit!Word, Registers, Word,
           ModularFresh
  <1>8. QED
    BY <1>4, <1>5, <1>7 DEF TypeInv

-----------------------------------------------------------------------------
(* The controller as parent of its units                                   *)

\* At the edge that releases reset_n everything is cleared.
LEMMA ReleaseEdge ==
  ASSUME IInv, Clock, reset_n = 0, reset_n' = 1
  PROVE  /\ modmult'.state = "RESET" /\ modmult'.modmult_done = 0
         /\ modmult'.mult_ready = 0 /\ modmult'.modular_ready = 0
         /\ mult'.state = "RESET" /\ mult'.mult_done = 0
         /\ modular'.state = "RESET" /\ modular'.modular_done = 0
  <1>1. modmult.state = "RESET" /\ mult.state = "RESET" /\ modular.state = "RESET"
    BY DEF IInv, ParentInv, MultiplierUnit!IInv, MultiplierUnit!ResetClears,
           ModularUnit!IInv, ModularUnit!ResetClears
  <1>2. Reset
    BY <1>1
       DEF Clock, Control, Wait, Multiply, MultiplyDone, Modulo, ModuloDone,
           ModmultDone
  <1>3. MultiplierUnit!Reset
    BY <1>1, SameMultiplier
       DEF Clock, MultiplierUnit!Clock, MultiplierUnit!Wait,
           MultiplierUnit!MultiplyLoop0, MultiplierUnit!MultiplyLoop1,
           MultiplierUnit!MultiplyDone
  <1>4. ModularUnit!Reset
    BY <1>1, SameModular
       DEF Clock, ModularUnit!Clock, ModularUnit!Wait, ModularUnit!ModInit,
           ModularUnit!ModAssign, ModularUnit!ModDone
  <1>5. QED
    BY <1>2, <1>3, <1>4
       DEF Reset, Cleared, MultiplierUnit!Reset, MultiplierUnit!Cleared,
           MultiplierUnit!NextState, ModularUnit!Reset, ModularUnit!Cleared,
           ModularUnit!NextState

\* A request of the multiplier that is answered was made.
LEMMA AnswerOfRequest ==
  ASSUME IInv, reset_n = 1
  PROVE  /\ modmult.state = "MULTIPLY" /\ mult.mult_done = 1 =>
              modmult.mult_ready = 1 /\ Multiplied
         /\ modmult.state = "MODULO" /\ modular.modular_done = 1 =>
              modmult.modular_ready = 1 /\ Reduced
  <1>1. ASSUME modmult.state = "MULTIPLY", mult.mult_done = 1
        PROVE  modmult.mult_ready = 1 /\ Multiplied
    BY <1>1
       DEF IInv, TypeOK, Registers, Stages, MultiplierIdle, Multiplied,
           MultiplierUnit!IInv, MultiplierUnit!AnsweredIsIdle
  <1>2. ASSUME modmult.state = "MODULO", modular.modular_done = 1
        PROVE  modmult.modular_ready = 1 /\ Reduced
    BY <1>2
       DEF IInv, TypeOK, Registers, Stages, ModularIdle, Reduced,
           ModularUnit!IInv, ModularUnit!LoopInvariant, ModularUnit!client!Asked
  <1>3. QED
    BY <1>1, <1>2

\* An edge that asserts reset_n is one of both units whatever they were doing.
LEMMA UnitsReset ==
  ASSUME TypeInv, Next, reset_n' = 0
  PROVE  MultiplierUnit!Next /\ ModularUnit!Next
  <1>0. TypeInv' /\ MultiplierUnit!Clock /\ ModularUnit!Clock
    <2>1. TypeOK'
      BY TypeStep DEF TypeInv, ModularUnit!TypeOK
    <2>2. Clock /\ MultiplierUnit!Clock /\ ModularUnit!Clock
      BY SameMultiplier, SameModular DEF Next, Clock
    <2>3. QED
      BY <2>1, <2>2, TypeInvStep DEF TypeOK
  <1>1. MultiplierFresh' = TRUE /\ ModularFresh' = TRUE
    BY DEF MultiplierFresh, ModularFresh
  <1>2. modmult'.mult_ready \in {0, 1} /\ modmult'.modular_ready \in {0, 1}
    BY <1>0 DEF TypeInv, TypeOK, Registers
  <1>3. MultiplierUnit!client!Drive
    BY <1>1, <1>2 DEF MultiplierUnit!client!Drive, MultiplierUnit!client!AssertReset
  <1>4. MultiplierUnit!Operands
    BY <1>0
       DEF MultiplierUnit!Operands, MultiplierUnit!client!Serving,
           MultiplierUnit!client!Asked, TypeInv, MultiplierUnit!TypeOK
  <1>5. ModularUnit!client!Drive
    BY <1>1, <1>2 DEF ModularUnit!client!Drive, ModularUnit!client!AssertReset
  <1>6. ModularUnit!Operands
    BY <1>0
       DEF ModularUnit!Operands, ModularUnit!client!Serving,
           ModularUnit!client!Asked, TypeInv, ModularUnit!TypeOK
  <1>7. QED
    BY <1>0, <1>3, <1>4, <1>5, <1>6 DEF MultiplierUnit!Next, ModularUnit!Next

\* Every clock edge of the whole is one of the multiplier under a parent that
\* follows the handshake,
LEMMA MultiplierNext == IInv /\ Next => MultiplierUnit!Next
  <1> SUFFICES ASSUME IInv, Next PROVE MultiplierUnit!Next
    OBVIOUS
  <1>0. /\ mult \in MultiplierUnit!Registers
        /\ modular \in ModularUnit!Registers
        /\ TypeOK /\ TypeOK'
        /\ MultiplierUnit!Clock /\ Control /\ Clock
    BY TypeStep, SameMultiplier
       DEF IInv, MultiplierUnit!IInv, MultiplierUnit!TypeOK, ModularUnit!IInv,
           ModularUnit!TypeOK, Next, Clock
  <1>1. modmult'.d \in MultiplierUnit!Word /\ modmult'.e \in MultiplierUnit!Word
    BY <1>0 DEF TypeOK, Registers, MultiplierUnit!Word, Word
  <1>2. modmult'.mult_ready \in {0, 1}
    BY <1>0 DEF TypeOK, Registers
  <1>3. CASE reset_n' = 0
    BY <1>3, UnitsReset DEF IInv, TypeInv, MultiplierUnit!IInv, ModularUnit!IInv
  <1>4. CASE reset_n = 0 /\ reset_n' = 1
    <2>1. modmult'.mult_ready = 0 /\ mult'.state = "RESET" /\ mult'.mult_done = 0
      BY <1>0, <1>4, ReleaseEdge
    <2>2. MultiplierFresh' = TRUE /\ MultiplierFresh = TRUE
      BY <1>4, <2>1 DEF MultiplierFresh
    <2>3. MultiplierUnit!client!Drive
      BY <1>4, <2>1, <2>2
         DEF MultiplierUnit!client!Drive, MultiplierUnit!client!ReleaseReset
    <2>4. MultiplierUnit!Operands
      BY <1>1, <1>4
         DEF MultiplierUnit!Operands, MultiplierUnit!client!Serving,
             MultiplierUnit!client!Asked
    <2>5. QED
      BY <1>0, <2>3, <2>4 DEF MultiplierUnit!Next
  <1>5. CASE Live
    <2>0. reset_n = 1 /\ reset_n' = 1
      BY <1>5 DEF Live
    <2>1. ControlEdge
      BY <1>0, <1>5, ControlStep
    <2>2. /\ MultiplierIdle => mult'.state = "WAIT" /\ mult'.mult_done = 0
          /\ Multiplied => mult'.mult_done = 1
      <3>1. MultiplierIdle => mult'.state = "WAIT" /\ mult'.mult_done = 0
        BY <1>0, <1>5, MultiplierEdge
      <3>2. MultiplierUnit!AnsweredIsIdle
        BY DEF IInv, MultiplierUnit!IInv
      <3>3. Multiplied => mult'.mult_done = 1
        BY <1>0, <2>0, <3>2, RadixAssumption, MultiplierUnit!AnswerKept DEF Multiplied
      <3>4. QED
        BY <3>1, <3>3
    <2>3. \/ /\ modmult.mult_ready = 0 /\ modmult'.mult_ready = 0
             /\ MultiplierIdle /\ mult'.state = "WAIT" /\ mult'.mult_done = 0
          \/ /\ modmult.mult_ready = 0 /\ modmult'.mult_ready = 1
             /\ MultiplierIdle
          \/ /\ modmult.mult_ready = 1 /\ modmult'.mult_ready = 1
             /\ modmult'.d = modmult.d /\ modmult'.e = modmult.e
          \/ /\ modmult.mult_ready = 1 /\ modmult'.mult_ready = 0
             /\ Multiplied /\ mult'.mult_done = 1
          \/ /\ modmult.mult_ready = 0 /\ modmult'.mult_ready = 0
             /\ Multiplied /\ mult'.mult_done = 1
      <3>1. modmult.state \in States /\ modmult.mult_ready \in {0, 1} /\ modmult.modmult_done \in {0, 1}
        BY <1>0 DEF TypeOK, Registers
      <3>2. CASE modmult.state \in {"RESET", "WAIT"} /\ modmult.modmult_done = 0
        BY <2>0, <2>1, <2>2, <3>2 DEF IInv, Stages, MultiplierIdle, ControlEdge
      <3>3. CASE modmult.state = "MULTIPLY"
        BY <2>0, <2>1, <2>2, <3>1, <3>3
           DEF IInv, Stages, MultiplierIdle, ControlEdge
      <3>4. CASE modmult.state = "MULTIPLY_DONE"
        BY <2>0, <2>1, <2>2, <3>4 DEF IInv, Stages, ControlEdge
      <3>5. CASE modmult.state \in {"MODULO", "MODULO_DONE", "MODMULT_DONE"}
        BY <2>0, <2>1, <2>2, <3>5 DEF IInv, Stages, ControlEdge
      <3>6. CASE modmult.state \in {"RESET", "WAIT"} /\ modmult.modmult_done = 1
        <4>1. modmult.mult_ready = 0 /\ Multiplied
          BY <2>0, <3>6 DEF IInv, Stages
        <4>2. QED
          BY <2>1, <2>2, <3>6, <4>1 DEF ControlEdge
      <3>7. QED
        BY <3>1, <3>2, <3>3, <3>4, <3>5, <3>6
    <2>4. MultiplierUnit!client!Drive
      <3> USE DEF MultiplierUnit!client!Drive
      <3>1. CASE modmult.mult_ready = 0 /\ modmult'.mult_ready = 1 /\ MultiplierIdle
        <4>1. MultiplierFresh = TRUE /\ MultiplierFresh' = FALSE
          BY <2>0, <3>1 DEF MultiplierFresh, MultiplierIdle
        <4>2. MultiplierUnit!client!RaiseReady
          BY <2>0, <3>1, <4>1 DEF MultiplierUnit!client!RaiseReady
        <4>3. QED
          BY <4>2
      <3>2. CASE modmult.mult_ready = 1 /\ modmult'.mult_ready = 0
                 /\ Multiplied /\ mult'.mult_done = 1
        <4>1. MultiplierFresh = FALSE /\ MultiplierFresh' = FALSE
          BY <2>0, <3>2 DEF MultiplierFresh
        <4>2. MultiplierUnit!client!LowerReady
          BY <2>0, <3>2, <4>1 DEF MultiplierUnit!client!LowerReady, Multiplied
        <4>3. QED
          BY <4>2
      <3>3. CASE modmult.mult_ready = modmult'.mult_ready
        <4>1. MultiplierFresh' = MultiplierFresh
          BY <2>0, <2>3, <3>3 DEF MultiplierFresh, MultiplierIdle, Multiplied
        <4>2. MultiplierUnit!client!Hold
          BY <2>0, <3>3, <4>1 DEF MultiplierUnit!client!Hold
        <4>3. QED
          BY <4>2
      <3>4. QED
        BY <2>3, <3>1, <3>2, <3>3
    <2>5. MultiplierUnit!Operands
      BY <1>1, <2>3
         DEF MultiplierUnit!Operands, MultiplierUnit!client!Serving,
             MultiplierUnit!client!Asked
    <2>6. QED
      BY <1>0, <2>4, <2>5 DEF MultiplierUnit!Next
  <1>6. QED
    BY <1>0, <1>3, <1>4, <1>5 DEF TypeOK, Live

\* after which its invariant holds again.
LEMMA MultiplierKeeps == IInv /\ Next => MultiplierUnit!IInv'
  BY MultiplierNext, RadixAssumption, MultiplierUnit!StepInv DEF IInv

\* A product that is up stays.
LEMMA ProductStays ==
  ASSUME IInv, Next, Live, Multiplied
  PROVE  Multiplied' /\ mult'.out = mult.out
  <1>1. /\ mult \in MultiplierUnit!Registers
        /\ MultiplierUnit!AnsweredIsIdle
        /\ MultiplierUnit!Clock
    BY SameMultiplier
       DEF IInv, MultiplierUnit!IInv, MultiplierUnit!TypeOK, Next, Clock
  <1>2. mult'.state # "RESET"
    BY <1>1, MultiplierEdge
  <1>3. mult'.out = mult.out /\ mult'.mult_done = 1
    BY <1>1, RadixAssumption, MultiplierUnit!AnswerKept DEF Live, Multiplied
  <1>4. QED
    BY <1>2, <1>3 DEF Multiplied

\* It is one of the modulo unit under such a parent too,
LEMMA ModularNext == IInv /\ Next => ModularUnit!Next
  <1> SUFFICES ASSUME IInv, Next PROVE ModularUnit!Next
    OBVIOUS
  <1>0. /\ modular \in ModularUnit!Registers
        /\ TypeOK /\ TypeOK'
        /\ ModularUnit!Clock /\ Control /\ Clock
    BY TypeStep, SameModular
       DEF IInv, ModularUnit!IInv, ModularUnit!TypeOK, Next, Clock
  <1>1. mult'.out \in ModularUnit!Word /\ modmult'.phi \in ModularUnit!Word
    <2>1. mult' \in MultiplierUnit!Registers
      BY MultiplierKeeps DEF MultiplierUnit!IInv, MultiplierUnit!TypeOK
    <2>2. mult'.out \in MultiplierUnit!Word
      BY <2>1 DEF MultiplierUnit!Registers
    <2>3. QED
      BY <1>0, <2>2 DEF TypeOK, Registers, MultiplierUnit!Word, ModularUnit!Word,
                        Word
  <1>2. modmult'.modular_ready \in {0, 1}
    BY <1>0 DEF TypeOK, Registers
  <1>3. CASE reset_n' = 0
    BY <1>3, UnitsReset DEF IInv, TypeInv, MultiplierUnit!IInv, ModularUnit!IInv
  <1>4. CASE reset_n = 0 /\ reset_n' = 1
    <2>1. /\ modmult'.modular_ready = 0
          /\ modular'.state = "RESET" /\ modular'.modular_done = 0
      BY <1>0, <1>4, ReleaseEdge
    <2>2. ModularFresh' = TRUE /\ ModularFresh = TRUE
      BY <1>4, <2>1 DEF ModularFresh
    <2>3. ModularUnit!client!Drive
      BY <1>4, <2>1, <2>2
         DEF ModularUnit!client!Drive, ModularUnit!client!ReleaseReset
    <2>4. ModularUnit!Operands
      BY <1>1, <1>4
         DEF ModularUnit!Operands, ModularUnit!client!Serving,
             ModularUnit!client!Asked
    <2>5. QED
      BY <1>0, <2>3, <2>4 DEF ModularUnit!Next
  <1>5. CASE Live
    <2>0. reset_n = 1 /\ reset_n' = 1
      BY <1>5 DEF Live
    <2>1. ControlEdge
      BY <1>0, <1>5, ControlStep
    <2>2. /\ ModularIdle => modular'.state = "WAIT" /\ modular'.modular_done = 0
          /\ Reduced => modular'.modular_done = 1
      BY <1>0, <1>5, ModularEdge
    <2>3. \/ /\ modmult.modular_ready = 0 /\ modmult'.modular_ready = 0
             /\ ModularIdle /\ modular'.state = "WAIT" /\ modular'.modular_done = 0
          \/ /\ modmult.modular_ready = 0 /\ modmult'.modular_ready = 1
             /\ ModularIdle
          \/ /\ modmult.modular_ready = 1 /\ modmult'.modular_ready = 1
             /\ mult'.out = mult.out /\ modmult'.phi = modmult.phi
          \/ /\ modmult.modular_ready = 1 /\ modmult'.modular_ready = 0
             /\ Reduced /\ modular'.modular_done = 1
          \/ /\ modmult.modular_ready = 0 /\ modmult'.modular_ready = 0
             /\ Reduced /\ modular'.modular_done = 1
      <3>1. /\ modmult.state \in States
            /\ modmult.modular_ready \in {0, 1} /\ modmult.modmult_done \in {0, 1}
        BY <1>0 DEF TypeOK, Registers
      <3>2. CASE /\ modmult.state \in {"RESET", "WAIT"}
                 /\ modmult.modmult_done = 0
        BY <2>0, <2>1, <2>2, <3>2 DEF IInv, Stages, ModularIdle, ControlEdge
      <3>3. CASE modmult.state \in {"MULTIPLY", "MULTIPLY_DONE"}
        BY <2>0, <2>1, <2>2, <3>1, <3>3
           DEF IInv, Stages, ModularIdle, ControlEdge
      <3>4. CASE modmult.state = "MODULO"
        <4>1. mult'.out = mult.out
          BY <1>5, <2>0, <3>4, ProductStays DEF IInv, Stages
        <4>2. QED
          BY <2>0, <2>1, <2>2, <3>1, <3>4, <4>1
             DEF IInv, Stages, ModularIdle, ControlEdge
      <3>5. CASE modmult.state \in {"MODULO_DONE", "MODMULT_DONE"}
        BY <2>0, <2>1, <2>2, <3>5 DEF IInv, Stages, ControlEdge
      <3>6. CASE /\ modmult.state \in {"RESET", "WAIT"}
                 /\ modmult.modmult_done = 1
        <4>1. modmult.modular_ready = 0 /\ Reduced
          BY <2>0, <3>6 DEF IInv, Stages
        <4>2. QED
          BY <2>1, <2>2, <3>6, <4>1 DEF ControlEdge
      <3>7. QED
        BY <3>1, <3>2, <3>3, <3>4, <3>5, <3>6
    <2>4. ModularUnit!client!Drive
      <3> USE DEF ModularUnit!client!Drive
      <3>1. CASE modmult.modular_ready = 0 /\ modmult'.modular_ready = 1 /\ ModularIdle
        <4>1. ModularFresh = TRUE /\ ModularFresh' = FALSE
          BY <2>0, <3>1 DEF ModularFresh, ModularIdle
        <4>2. ModularUnit!client!RaiseReady
          BY <2>0, <3>1, <4>1 DEF ModularUnit!client!RaiseReady
        <4>3. QED
          BY <4>2
      <3>2. CASE /\ modmult.modular_ready = 1 /\ modmult'.modular_ready = 0
                 /\ Reduced /\ modular'.modular_done = 1
        <4>1. ModularFresh = FALSE /\ ModularFresh' = FALSE
          BY <2>0, <3>2 DEF ModularFresh
        <4>2. ModularUnit!client!LowerReady
          BY <2>0, <3>2, <4>1 DEF ModularUnit!client!LowerReady, Reduced
        <4>3. QED
          BY <4>2
      <3>3. CASE modmult.modular_ready = modmult'.modular_ready
        <4>1. ModularFresh' = ModularFresh
          BY <2>0, <2>3, <3>3 DEF ModularFresh, ModularIdle, Reduced
        <4>2. ModularUnit!client!Hold
          BY <2>0, <3>3, <4>1 DEF ModularUnit!client!Hold
        <4>3. QED
          BY <4>2
      <3>4. QED
        BY <2>3, <3>1, <3>2, <3>3
    <2>5. ModularUnit!Operands
      BY <1>1, <2>3
         DEF ModularUnit!Operands, ModularUnit!client!Serving,
             ModularUnit!client!Asked
    <2>6. QED
      BY <1>0, <2>4, <2>5 DEF ModularUnit!Next
  <1>6. QED
    BY <1>0, <1>3, <1>4, <1>5 DEF TypeOK, Live

\* and its invariant holds again as well.
LEMMA ModularKeeps == IInv /\ Next => ModularUnit!IInv'
  BY ModularNext, RadixAssumption, ModularUnit!StepInv DEF IInv

-----------------------------------------------------------------------------
(* The controller as unit of its parent                                    *)

\* What the parent may do while the unit is out of reset.
LEMMA ClientStep ==
  ASSUME TypeOK, Next, Live
  PROVE  \/ modmult_ready = 0 /\ modmult_ready' = 1 /\ fresh /\ ~fresh'
         \/ /\ modmult_ready = 1 /\ modmult_ready' = 0 /\ fresh' = fresh
            /\ modmult.modmult_done = 1
         \/ modmult_ready' = modmult_ready /\ fresh' = fresh
  <1>1. CASE client!AssertReset
    BY <1>1 DEF client!AssertReset, Live
  <1>2. CASE client!ReleaseReset
    BY <1>2 DEF client!ReleaseReset, Live
  <1>3. CASE client!RaiseReady
    BY <1>3, Zenon DEF client!RaiseReady
  <1>4. CASE client!LowerReady
    BY <1>4, Zenon DEF client!LowerReady
  <1>5. CASE client!Hold
    BY <1>5, Zenon DEF client!Hold
  <1>6. QED
    BY <1>1, <1>2, <1>3, <1>4, <1>5 DEF Next, client!Drive

\* The operands of a request that goes on do not change.
LEMMA OperandsStay ==
  ASSUME Next, Live, modmult_ready = 1, modmult_ready' = 1
  PROVE  base' = base /\ power' = power /\ denominator' = denominator
  BY DEF Next, Operands, client!Serving, client!Asked, Live

\* At the edge that releases reset_n the parent's request is low.
LEMMA ClientRelease ==
  ASSUME Next, reset_n = 0, reset_n' = 1
  PROVE  modmult_ready' = 0
  BY DEF Next, client!Drive, client!AssertReset, client!ReleaseReset,
         client!RaiseReady, client!LowerReady, client!Hold

\* The handshake with the parent.
LEMMA ParentStep == IInv /\ Next => ParentInv'
  <1> SUFFICES ASSUME IInv, Next PROVE ParentInv'
    OBVIOUS
  <1>0. /\ TypeOK /\ TypeOK' /\ Control /\ Clock
        /\ reset_n' = 0 => modmult'.state = "RESET"
    BY TypeStep DEF IInv, ModularUnit!IInv, ModularUnit!TypeOK, Next, Clock
  <1>1. CASE reset_n' = 0
    BY <1>0, <1>1 DEF ParentInv
  <1>2. CASE reset_n = 0 /\ reset_n' = 1
    <2>1. modmult'.state = "RESET" /\ modmult'.modmult_done = 0
      BY <1>0, <1>2, ReleaseEdge
    <2>2. modmult_ready' = 0
      BY <1>2, ClientRelease
    <2>3. QED
      BY <1>2, <2>1, <2>2 DEF ParentInv
  <1>3. CASE Live
    <2>0. /\ reset_n = 1 /\ reset_n' = 1
          /\ modmult.state \in States /\ modmult'.modmult_done \in {0, 1}
          /\ modmult.modmult_done \in {0, 1}
          /\ modmult_ready \in {0, 1} /\ modmult_ready' \in {0, 1}
      BY <1>0, <1>3 DEF Live, TypeOK, Registers
    <2>1. ControlEdge
      BY <1>0, <1>3, ControlStep
    <2>2. \/ modmult_ready = 0 /\ modmult_ready' = 1 /\ fresh /\ ~fresh'
          \/ /\ modmult_ready = 1 /\ modmult_ready' = 0 /\ fresh' = fresh
             /\ modmult.modmult_done = 1
          \/ modmult_ready' = modmult_ready /\ fresh' = fresh
      BY <1>0, <1>3, ClientStep
    <2>3. ASSUME fresh'
          PROVE  /\ modmult_ready' = 0
                 /\ modmult'.state \in {"RESET", "WAIT"}
                 /\ modmult'.modmult_done = 0
      <3>1. fresh
        BY <2>2, <2>3, Zenon
      <3>2. /\ modmult_ready = 0 /\ modmult.state \in {"RESET", "WAIT"}
            /\ modmult.modmult_done = 0
        BY <2>0, <3>1 DEF IInv, ParentInv
      <3>3. modmult_ready' = 0
        <4>1. ~(modmult_ready = 0 /\ modmult_ready' = 1 /\ fresh /\ ~fresh')
          BY <2>3
        <4>2. QED
          BY <2>2, <3>2, <4>1
      <3>4. QED
        BY <2>1, <3>2, <3>3 DEF ControlEdge
    <2>4. ASSUME modmult'.modmult_done = 1
          PROVE  /\ ~fresh'
                 /\ \/ modmult'.state = "MODMULT_DONE"
                    \/ modmult'.state = "WAIT" /\ modmult_ready' = 0
      <3>1. ~fresh'
        BY <2>3, <2>4
      <3>2. ~fresh
        <4>1. ASSUME fresh PROVE FALSE
          <5>1. modmult.state \in {"RESET", "WAIT"} /\ modmult.modmult_done = 0
            BY <2>0, <4>1 DEF IInv, ParentInv
          <5>2. QED
            BY <2>1, <2>4, <5>1 DEF ControlEdge
        <4>2. QED
          BY <4>1
      <3>3. modmult_ready = 0 => modmult_ready' = 0
        BY <2>2, <3>2
      <3>4. CASE modmult.state = "MODMULT_DONE"
        BY <2>0, <2>1, <3>1, <3>3, <3>4 DEF ControlEdge
      <3>5. CASE modmult.state # "MODMULT_DONE"
        <4>1. modmult.modmult_done = 1
          BY <2>0, <2>1, <2>4, <3>5 DEF ControlEdge
        <4>2. modmult.state = "WAIT" /\ modmult_ready = 0
          BY <2>0, <3>5, <4>1 DEF IInv, ParentInv
        <4>3. QED
          BY <2>1, <3>1, <3>3, <4>2 DEF ControlEdge
      <3>6. QED
        BY <3>4, <3>5
    <2>5. ASSUME modmult'.state \notin {"RESET", "WAIT"}, modmult'.modmult_done = 0
          PROVE  modmult_ready' = 1
      <3>1. modmult.modmult_done = 0 /\ modmult.state \notin {"RESET", "MODMULT_DONE"}
        BY <2>0, <2>1, <2>5 DEF ControlEdge, IInv, ParentInv
      <3>2. modmult_ready = 1
        BY <2>0, <2>1, <2>5, <3>1 DEF ControlEdge, IInv, ParentInv
      <3>3. QED
        BY <2>2, <3>1, <3>2
    <2>6. ASSUME modmult'.state \notin {"RESET", "WAIT"}, modmult_ready' = 1
          PROVE  /\ modmult'.d = base' /\ modmult'.e = power'
                 /\ modmult'.phi = denominator'
      <3>1. modmult.state # "RESET"
        BY <2>1, <2>6 DEF ControlEdge
      <3>2. modmult_ready = 1
        <4>1. CASE modmult.state = "WAIT"
          BY <2>0, <2>1, <2>6, <4>1 DEF ControlEdge
        <4>2. CASE modmult.state # "WAIT"
          <5>1. ~fresh
            BY <2>0, <3>1, <4>2 DEF IInv, ParentInv
          <5>2. QED
            BY <2>2, <2>6, <5>1
        <4>3. QED
          BY <4>1, <4>2
      <3>3. base' = base /\ power' = power /\ denominator' = denominator
        BY <1>3, <2>6, <3>2, OperandsStay
      <3>4. CASE modmult.state = "WAIT"
        BY <2>1, <3>3, <3>4 DEF ControlEdge
      <3>5. CASE modmult.state # "WAIT"
        <4>1. /\ modmult.d = base /\ modmult.e = power
              /\ modmult.phi = denominator
          BY <2>0, <3>1, <3>2, <3>5 DEF IInv, ParentInv
        <4>2. QED
          BY <2>1, <3>1, <3>3, <3>5, <4>1 DEF ControlEdge
      <3>6. QED
        BY <3>4, <3>5
    <2>7. QED
      BY <2>0, <2>3, <2>4, <2>5, <2>6 DEF ParentInv
  <1>4. QED
    BY <1>0, <1>1, <1>2, <1>3 DEF TypeOK, Live

\* The order in which the units are used.
LEMMA StagesStep == IInv /\ Next => Stages'
  <1> SUFFICES ASSUME IInv, Next, reset_n' = 1 PROVE Stages'
    BY DEF Stages
  <1>0. /\ TypeOK /\ TypeOK' /\ Control /\ Clock
        /\ mult \in MultiplierUnit!Registers /\ MultiplierUnit!Clock
        /\ modular \in ModularUnit!Registers /\ ModularUnit!Clock
    BY TypeStep, SameMultiplier, SameModular
       DEF IInv, MultiplierUnit!IInv, MultiplierUnit!TypeOK, ModularUnit!IInv,
           ModularUnit!TypeOK, Next, Clock
  <1>1. CASE reset_n = 0
    <2>1. /\ modmult'.state = "RESET" /\ modmult'.modmult_done = 0
          /\ modmult'.mult_ready = 0 /\ modmult'.modular_ready = 0
          /\ mult'.state = "RESET" /\ mult'.mult_done = 0
          /\ modular'.state = "RESET" /\ modular'.modular_done = 0
      BY <1>0, <1>1, ReleaseEdge
    <2>2. QED
      BY <2>1 DEF Stages, MultiplierIdle, ModularIdle
  <1>2. CASE Live
    <2>0. /\ reset_n = 1 /\ reset_n' = 1
          /\ modmult.state \in States /\ modmult.modmult_done \in {0, 1}
          /\ modmult.mult_ready \in {0, 1} /\ modmult.modular_ready \in {0, 1}
      BY <1>0, <1>2 DEF Live, TypeOK, Registers
    <2>1. ControlEdge
      BY <1>0, <1>2, ControlStep
    <2>2. MultiplierIdle => mult'.state = "WAIT" /\ mult'.mult_done = 0
      BY <1>0, <1>2, MultiplierEdge
    <2>3. Multiplied => Multiplied'
      BY <1>2, ProductStays
    <2>4. ModularIdle => modular'.state = "WAIT" /\ modular'.modular_done = 0
      BY <1>0, <1>2, ModularEdge
    <2>5. Reduced => Reduced'
      BY <1>0, <1>2, ModularEdge DEF Reduced
    <2>6. CASE modmult.state \in {"RESET", "WAIT"} /\ modmult.modmult_done = 0
      <3>1. MultiplierIdle /\ ModularIdle
        BY <2>0, <2>6 DEF IInv, Stages
      <3>2. /\ modmult'.state \in {"WAIT", "MULTIPLY"}
            /\ modmult'.mult_ready = 0 /\ modmult'.modular_ready = 0
            /\ modmult'.modmult_done = 0
        BY <2>1, <2>6, <3>1 DEF ControlEdge, MultiplierIdle, ModularIdle
      <3>3. MultiplierIdle' /\ ModularIdle'
        BY <2>2, <2>4, <3>1, <3>2 DEF MultiplierIdle, ModularIdle
      <3>4. QED
        BY <3>2, <3>3 DEF Stages
    <2>7. CASE modmult.modmult_done = 1
      <3>1. /\ modmult.mult_ready = 0 /\ Multiplied
            /\ modmult.modular_ready = 0 /\ Reduced
        BY <2>0, <2>7 DEF IInv, Stages
      <3>2. \/ modmult.state = "MODMULT_DONE"
            \/ modmult.state = "WAIT" /\ modmult_ready = 0
        BY <2>0, <2>7 DEF IInv, ParentInv
      <3>3. /\ modmult'.state \in {"WAIT", "MODMULT_DONE"}
            /\ modmult'.mult_ready = 0 /\ modmult'.modular_ready = 0
            /\ modmult'.modmult_done = 1
        BY <2>1, <2>7, <3>1, <3>2 DEF ControlEdge
      <3>4. Multiplied' /\ Reduced'
        BY <2>3, <2>5, <3>1
      <3>5. QED
        BY <3>3, <3>4 DEF Stages
    <2>8. CASE modmult.state = "MULTIPLY" /\ modmult.modmult_done = 0
      <3>1. ModularIdle
        BY <2>0, <2>8 DEF IInv, Stages
      <3>2. /\ modmult'.state = IF mult.mult_done = 1
                                THEN "MULTIPLY_DONE" ELSE "MULTIPLY"
            /\ modmult'.mult_ready = 1 /\ modmult'.modular_ready = 0
            /\ modmult'.modmult_done = 0
        BY <2>1, <2>8, <3>1 DEF ControlEdge, ModularIdle
      <3>3. ModularIdle'
        BY <2>4, <3>1, <3>2 DEF ModularIdle
      <3>4. mult.mult_done = 1 => Multiplied'
        BY <2>0, <2>3, <2>8, AnswerOfRequest
      <3>5. QED
        BY <3>2, <3>3, <3>4 DEF Stages
    <2>9. CASE modmult.state = "MULTIPLY_DONE" /\ modmult.modmult_done = 0
      <3>1. ModularIdle /\ Multiplied
        BY <2>0, <2>9 DEF IInv, Stages
      <3>2. /\ modmult'.state = "MODULO"
            /\ modmult'.mult_ready = 0 /\ modmult'.modular_ready = 0
            /\ modmult'.modmult_done = 0
        BY <2>1, <2>9, <3>1 DEF ControlEdge, ModularIdle
      <3>3. ModularIdle' /\ Multiplied'
        BY <2>3, <2>4, <3>1, <3>2 DEF ModularIdle
      <3>4. QED
        BY <3>2, <3>3 DEF Stages
    <2>10. CASE modmult.state = "MODULO" /\ modmult.modmult_done = 0
      <3>1. modmult.mult_ready = 0 /\ Multiplied
        BY <2>0, <2>10 DEF IInv, Stages
      <3>2. /\ modmult'.state = IF modular.modular_done = 1
                                THEN "MODULO_DONE" ELSE "MODULO"
            /\ modmult'.mult_ready = 0 /\ modmult'.modular_ready = 1
            /\ modmult'.modmult_done = 0
        BY <2>1, <2>10, <3>1 DEF ControlEdge
      <3>3. modular.modular_done = 1 => Reduced'
        BY <2>0, <2>5, <2>10, AnswerOfRequest
      <3>4. Multiplied'
        BY <2>3, <3>1
      <3>5. QED
        BY <3>2, <3>3, <3>4 DEF Stages
    <2>11. CASE /\ modmult.state \in {"MODULO_DONE", "MODMULT_DONE"}
                /\ modmult.modmult_done = 0
      <3>1. modmult.mult_ready = 0 /\ Multiplied /\ Reduced
        BY <2>0, <2>11 DEF IInv, Stages
      <3>2. /\ modmult'.state \in {"WAIT", "MODMULT_DONE"}
            /\ modmult'.state = "WAIT" => modmult'.modmult_done = 1
            /\ modmult'.mult_ready = 0 /\ modmult'.modular_ready = 0
        BY <2>0, <2>1, <2>11, <3>1 DEF ControlEdge, IInv, Stages
      <3>3. Multiplied' /\ Reduced'
        BY <2>3, <2>5, <3>1
      <3>4. QED
        BY <3>2, <3>3 DEF Stages
    <2>12. QED
      BY <2>0, <2>6, <2>7, <2>8, <2>9, <2>10, <2>11
  <1>3. QED
    BY <1>0, <1>1, <1>2 DEF TypeOK, Live

\* The product and its remainder.
LEMMA ResultsStep == IInv /\ Next => Results'
  <1> SUFFICES ASSUME IInv, Next, reset_n' = 1 PROVE Results'
    BY DEF Results
  <1>0. /\ TypeOK /\ TypeOK' /\ Control /\ Clock
    BY TypeStep DEF IInv, ModularUnit!IInv, ModularUnit!TypeOK, Next, Clock
  <1>1. CASE reset_n = 0
    <2>1. modmult'.state = "RESET"
      BY <1>0, <1>1, ReleaseEdge
    <2>2. QED
      BY <2>1 DEF Results
  <1>2. CASE Live
    <2>0. /\ reset_n = 1 /\ reset_n' = 1 /\ modmult.state \in States
      BY <1>0, <1>2 DEF Live, TypeOK, Registers
    <2>1. ControlEdge
      BY <1>0, <1>2, ControlStep
    <2>2. ASSUME modmult'.state \in {"MODULO", "MODULO_DONE"}
          PROVE  mult'.out = MultiplierUnit!Product(modmult'.d, modmult'.e)
      <3>1. /\ modmult.state \in {"MULTIPLY_DONE", "MODULO"}
            /\ modmult'.d = modmult.d /\ modmult'.e = modmult.e
        BY <2>0, <2>1, <2>2 DEF ControlEdge
      <3>2. Multiplied
        BY <2>0, <3>1 DEF IInv, Stages
      <3>3. mult.out = MultiplierUnit!Product(modmult.d, modmult.e)
        <4>1. CASE modmult.state = "MULTIPLY_DONE"
          <5>1. modmult.mult_ready = 1
            BY <2>0, <4>1 DEF IInv, Stages
          <5>2. MultiplierUnit!ProductCorrect
            BY RadixAssumption, MultiplierUnit!AnswerIsProduct DEF IInv
          <5>3. QED
            BY <2>0, <3>2, <5>1, <5>2
               DEF MultiplierUnit!ProductCorrect, MultiplierUnit!client!Asked,
                   Multiplied
        <4>2. CASE modmult.state = "MODULO"
          BY <2>0, <4>2 DEF IInv, Results
        <4>3. QED
          BY <3>1, <4>1, <4>2
      <3>4. mult'.out = mult.out
        BY <1>2, <3>2, ProductStays
      <3>5. QED
        BY <3>1, <3>3, <3>4
    <2>3. ASSUME modmult'.state = "MODMULT_DONE"
          PROVE  /\ modmult'.phi > 0
                 /\ modmult'.result
                      = MultiplierUnit!Product(modmult'.d, modmult'.e) % modmult'.phi
      <3>1. /\ modmult.state \in {"MODULO_DONE", "MODMULT_DONE"}
            /\ modmult'.d = modmult.d /\ modmult'.e = modmult.e
            /\ modmult'.phi = modmult.phi
        BY <2>0, <2>1, <2>3 DEF ControlEdge
      <3>2. CASE modmult.state = "MODULO_DONE"
        <4>1. modmult.modular_ready = 1 /\ Reduced
          BY <2>0, <3>2 DEF IInv, Stages
        <4>2. ModularUnit!RemainderCorrect
          BY RadixAssumption, ModularUnit!AnswerIsRemainder DEF IInv
        <4>3. modmult.phi > 0 /\ modular.result = mult.out % modmult.phi
          BY <2>0, <4>1, <4>2
             DEF ModularUnit!RemainderCorrect, ModularUnit!client!Asked, Reduced
        <4>4. mult.out = MultiplierUnit!Product(modmult.d, modmult.e)
          BY <2>0, <3>2 DEF IInv, Results
        <4>5. modmult'.result = modular.result
          BY <2>1, <3>2 DEF ControlEdge
        <4>6. QED
          BY <3>1, <4>3, <4>4, <4>5
      <3>3. CASE modmult.state = "MODMULT_DONE"
        <4>1. /\ modmult.phi > 0
              /\ modmult.result
                   = MultiplierUnit!Product(modmult.d, modmult.e) % modmult.phi
          BY <2>0, <3>3 DEF IInv, Results
        <4>2. modmult'.result = modmult.result
          BY <2>1, <3>3 DEF ControlEdge
        <4>3. QED
          BY <3>1, <4>1, <4>2
      <3>4. QED
        BY <3>1, <3>2, <3>3
    <2>4. QED
      BY <2>2, <2>3 DEF Results
  <1>3. QED
    BY <1>0, <1>1, <1>2 DEF TypeOK, Live

-----------------------------------------------------------------------------

\* The invariants of the two units hold at the start,
LEMMA InitUnits == Init => MultiplierUnit!Init /\ ModularUnit!Init
  <1> SUFFICES ASSUME Init PROVE MultiplierUnit!Init /\ ModularUnit!Init
    OBVIOUS
  <1>1. /\ reset_n = 0
        /\ modmult.mult_ready = 0 /\ modmult.modular_ready = 0
        /\ modmult.d = 0 /\ modmult.e = 0 /\ modmult.phi = 0
    BY DEF Init, client!Init, Cleared
  <1>2. mult = MultiplierUnit!Cleared /\ modular = ModularUnit!Cleared
    BY DEF Init, ClearedUnits, mult0!Cleared, modular0!Cleared,
           MultiplierUnit!Cleared, ModularUnit!Cleared
  <1>3. 0 \in MultiplierUnit!Word /\ 0 \in ModularUnit!Word
    BY RadixAssumption DEF MultiplierUnit!Word, ModularUnit!Word
  <1>4. mult.out = 0
    BY <1>2 DEF MultiplierUnit!Cleared
  <1>5. MultiplierFresh = TRUE /\ ModularFresh = TRUE
    BY <1>1 DEF MultiplierFresh, ModularFresh
  <1>6. QED
    BY <1>1, <1>2, <1>3, <1>4, <1>5
       DEF MultiplierUnit!Init, MultiplierUnit!client!Init,
           ModularUnit!Init, ModularUnit!client!Init

\* and so does that of the whole.
LEMMA InitInv == Init => IInv
  <1> SUFFICES ASSUME Init PROVE IInv
    OBVIOUS
  <1>1. /\ reset_n = 0 /\ modmult_ready = 0 /\ fresh = TRUE /\ modmult = Cleared
        /\ base \in Word /\ power \in Word /\ denominator \in Word
    BY OperandsAssumption DEF Init, client!Init
  <1>2. TypeOK
    BY <1>1, RadixAssumption DEF TypeOK, Registers, Cleared, Word
  <1>3. ParentInv /\ Stages /\ Results
    BY <1>1 DEF ParentInv, Stages, Results, Cleared
  <1>4. MultiplierUnit!IInv /\ ModularUnit!IInv
    BY InitUnits, RadixAssumption, MultiplierUnit!InitInv, ModularUnit!InitInv
  <1>5. QED
    BY <1>2, <1>3, <1>4 DEF IInv

\* Nothing depends on anything else.
LEMMA StutterInv == IInv /\ UNCHANGED vars => IInv'
  <1> SUFFICES ASSUME IInv, UNCHANGED vars PROVE IInv'
    OBVIOUS
  <1>1. TypeOK' /\ ParentInv' /\ Stages'
    BY DEF IInv, vars, TypeOK, ParentInv, Stages, MultiplierIdle, ModularIdle,
           Multiplied, Reduced
  <1>2. Results'
    BY DEF IInv, vars, Results, MultiplierUnit!Product
  <1>3. UNCHANGED MultiplierUnit!vars /\ UNCHANGED ModularUnit!vars
    BY DEF vars, MultiplierUnit!vars, ModularUnit!vars, MultiplierFresh, ModularFresh
  <1>4. MultiplierUnit!IInv' /\ ModularUnit!IInv'
    BY <1>3, RadixAssumption, MultiplierUnit!StutterInv, ModularUnit!StutterInv
       DEF IInv
  <1>5. QED
    BY <1>1, <1>2, <1>4 DEF IInv

\* An edge that asserts reset_n restores the invariant from any state of the
\* registers.
LEMMA ResetInv == TypeInv /\ Next /\ reset_n' = 0 => IInv'
  <1> SUFFICES ASSUME TypeInv, Next, reset_n' = 0 PROVE IInv'
    OBVIOUS
  <1>1. TypeOK' /\ modmult'.state = "RESET"
    BY TypeStep DEF TypeInv, ModularUnit!TypeOK
  <1>2. ParentInv' /\ Stages' /\ Results'
    BY <1>1 DEF ParentInv, Stages, Results
  <1>3. MultiplierUnit!IInv' /\ ModularUnit!IInv'
    BY UnitsReset, RadixAssumption, MultiplierUnit!ResetInv, ModularUnit!ResetInv
       DEF TypeInv
  <1>4. QED
    BY <1>1, <1>2, <1>3 DEF IInv

\* A unit that is not asked stays idle.
LEMMA IdleStays ==
  ASSUME TypeOK, Clock, Live,
         modmult_ready = 0, modmult.state \in {"RESET", "WAIT"},
         modmult.modmult_done = 0
  PROVE  modmult'.state = "WAIT" /\ modmult'.modmult_done = 0
  BY ControlStep DEF Clock, ControlEdge

\* An answer that is up stays up until the next reset.
LEMMA AnswerStays ==
  ASSUME IInv, Clock, Live, modmult.modmult_done = 1
  PROVE  modmult'.modmult_done = 1
  <1>1. ControlEdge
    BY ControlStep DEF IInv, Clock
  <1>2. modmult.state \in {"WAIT", "MODMULT_DONE"}
    BY DEF IInv, ParentInv, Live
  <1>3. QED
    BY <1>1, <1>2 DEF ControlEdge

\* Every clock edge keeps the invariant.
LEMMA StepInv == IInv /\ Next => IInv'
  <1>1. IInv /\ Next => TypeOK'
    BY TypeStep DEF IInv, ModularUnit!IInv, ModularUnit!TypeOK
  <1>2. QED
    BY <1>1, ParentStep, StagesStep, ResultsStep, MultiplierKeeps, ModularKeeps
       DEF IInv

\* The controller, its two units and its parent stay together as IInv says
\* (modular_multiplication.sv 33-121), for every word size, for all operands
\* and whenever the parent resets.
THEOREM ModmultInvariant == Spec => []IInv
  <1>1. IInv /\ [Next]_vars => IInv'
    BY StepInv, StutterInv
  <1>2. QED
    BY <1>1, InitInv, PTL DEF Spec

\* The invariant says what the answer is.
LEMMA AnswerIsResidue ==
  ASSUME IInv, client!Asked, modmult.modmult_done = 1
  PROVE  /\ denominator > 0
         /\ modmult.result = MultiplierUnit!Product(base, power) % denominator
  <1>1. reset_n = 1 /\ modmult_ready = 1
    BY DEF client!Asked
  <1>2. modmult.state = "MODMULT_DONE"
    BY <1>1 DEF IInv, ParentInv
  <1>3. modmult.d = base /\ modmult.e = power /\ modmult.phi = denominator
    BY <1>1, <1>2 DEF IInv, ParentInv
  <1>4. /\ modmult.phi > 0
        /\ modmult.result = MultiplierUnit!Product(modmult.d, modmult.e) % modmult.phi
    BY <1>1, <1>2 DEF IInv, Results
  <1>5. QED
    BY <1>3, <1>4

\* What the parent reads together with modmult_done is the remainder of the
\* low word of the product of the operands it presented, although the product
\* reaches the modulo unit only after mult_ready was lowered
\* (modular_multiplication.sv 95-117), for every word size.
THEOREM ModmultCorrect == Spec => []ResidueCorrect
  <1>1. IInv => ResidueCorrect
    <2> SUFFICES ASSUME IInv, client!Asked, modmult.modmult_done = 1,
                        power < Radix - 1
                 PROVE  /\ denominator > 0
                        /\ modmult.result = ((base * power) % Radix) % denominator
      BY DEF ResidueCorrect
    <2>1. power # Radix - 1
      BY RadixAssumption DEF IInv, TypeOK, Word
    <2>2. MultiplierUnit!Product(base, power) = (base * power) % Radix
      BY <2>1 DEF MultiplierUnit!Product
    <2>3. QED
      BY <2>2, AnswerIsResidue
  <1>2. QED
    BY <1>1, ModmultInvariant, PTL

\* Towards mult0 the controller is a parent as MultiplierSpec assumes it
\* (modular_multiplication.sv 93-103): every behaviour of the whole is one of
\* the multiplier closed with a parent that follows the handshake.
THEOREM MultiplierContractKept == Spec => MultiplierContract!Spec
  <1>1. Init => MultiplierContract!Init
    BY InitUnits, Zenon
       DEF MultiplierUnit!Init, MultiplierUnit!client!Init, MultiplierUnit!Cleared,
           MultiplierUnit!Word, MultiplierContract!Init,
           MultiplierContract!client!Init, MultiplierContract!Cleared,
           MultiplierContract!Word
  <1>2. IInv /\ [Next]_vars => [MultiplierContract!Next]_MultiplierContract!vars
    <2>1. MultiplierUnit!Clock <=> MultiplierContract!Clock
      BY Zenon
         DEF MultiplierContract!Clock, MultiplierContract!Reset,
             MultiplierContract!Wait, MultiplierContract!MultiplyLoop0,
             MultiplierContract!MultiplyLoop1, MultiplierContract!MultiplyDone,
             MultiplierContract!Cleared, MultiplierContract!NextState,
             MultiplierContract!Counter, MultiplierContract!AddW,
             MultiplierUnit!Clock, MultiplierUnit!Reset, MultiplierUnit!Wait,
             MultiplierUnit!MultiplyLoop0, MultiplierUnit!MultiplyLoop1,
             MultiplierUnit!MultiplyDone, MultiplierUnit!Cleared,
             MultiplierUnit!NextState, MultiplierUnit!Counter, MultiplierUnit!AddW
    <2>2. MultiplierUnit!client!Drive <=> MultiplierContract!client!Drive
      BY Zenon
         DEF MultiplierUnit!client!Drive, MultiplierUnit!client!AssertReset,
             MultiplierUnit!client!ReleaseReset, MultiplierUnit!client!RaiseReady,
             MultiplierUnit!client!LowerReady, MultiplierUnit!client!Hold,
             MultiplierContract!client!Drive,
             MultiplierContract!client!AssertReset,
             MultiplierContract!client!ReleaseReset,
             MultiplierContract!client!RaiseReady,
             MultiplierContract!client!LowerReady,
             MultiplierContract!client!Hold
    <2>3. MultiplierUnit!Operands <=> MultiplierContract!Operands
      BY Zenon
         DEF MultiplierUnit!Operands, MultiplierUnit!client!Serving,
             MultiplierUnit!client!Asked, MultiplierUnit!Word,
             MultiplierContract!Operands, MultiplierContract!client!Serving,
             MultiplierContract!client!Asked, MultiplierContract!Word
    <2>4. IInv /\ Next => MultiplierContract!Next
      BY <2>1, <2>2, <2>3, MultiplierNext
         DEF MultiplierUnit!Next, MultiplierContract!Next
    <2>5. UNCHANGED vars => UNCHANGED MultiplierContract!vars
      BY DEF vars, MultiplierContract!vars, MultiplierFresh
    <2>6. QED
      BY <2>4, <2>5
  <1>3. QED
    BY <1>1, <1>2, ModmultInvariant, PTL DEF Spec, MultiplierContract!Spec

\* Towards modular0 it is a parent as ModularSpec assumes it, although the
\* numerator is the output register of another unit
\* (modular_multiplication.sv 105-116).
THEOREM ModularContractKept == Spec => ModularContract!Spec
  <1>1. Init => ModularContract!Init
    BY InitUnits, Zenon
       DEF ModularUnit!Init, ModularUnit!client!Init, ModularUnit!Cleared,
           ModularUnit!Word, ModularContract!Init, ModularContract!client!Init,
           ModularContract!Cleared, ModularContract!Word
  <1>2. IInv /\ [Next]_vars => [ModularContract!Next]_ModularContract!vars
    <2>1. ModularUnit!Clock <=> ModularContract!Clock
      BY Zenon
         DEF ModularContract!Clock, ModularContract!Reset, ModularContract!Wait,
             ModularContract!ModInit, ModularContract!ModAssign,
             ModularContract!ModDone, ModularContract!Cleared,
             ModularContract!NextState, ModularContract!SubW,
             ModularUnit!Clock, ModularUnit!Reset, ModularUnit!Wait,
             ModularUnit!ModInit, ModularUnit!ModAssign, ModularUnit!ModDone,
             ModularUnit!Cleared, ModularUnit!NextState, ModularUnit!SubW
    <2>2. ModularUnit!client!Drive <=> ModularContract!client!Drive
      BY Zenon
         DEF ModularUnit!client!Drive, ModularUnit!client!AssertReset,
             ModularUnit!client!ReleaseReset, ModularUnit!client!RaiseReady,
             ModularUnit!client!LowerReady, ModularUnit!client!Hold,
             ModularContract!client!Drive, ModularContract!client!AssertReset,
             ModularContract!client!ReleaseReset,
             ModularContract!client!RaiseReady,
             ModularContract!client!LowerReady, ModularContract!client!Hold
    <2>3. ModularUnit!Operands <=> ModularContract!Operands
      BY Zenon
         DEF ModularUnit!Operands, ModularUnit!client!Serving,
             ModularUnit!client!Asked, ModularUnit!Word,
             ModularContract!Operands, ModularContract!client!Serving,
             ModularContract!client!Asked, ModularContract!Word
    <2>4. IInv /\ Next => ModularContract!Next
      BY <2>1, <2>2, <2>3, ModularNext DEF ModularUnit!Next, ModularContract!Next
    <2>5. UNCHANGED vars => UNCHANGED ModularContract!vars
      BY DEF vars, ModularContract!vars, ModularFresh
    <2>6. QED
      BY <2>4, <2>5
  <1>3. QED
    BY <1>1, <1>2, ModmultInvariant, PTL DEF Spec, ModularContract!Spec

=============================================================================
