--------------------------- MODULE ModularProofs ---------------------------
(***************************************************************************)
(* Proofs about modular.sv: for every word size, what a parent that        *)
(* follows the handshake reads together with modular_done is the remainder *)
(* of the operands it presented.                                           *)
(***************************************************************************)
EXTENDS ModularSpec, TLAPS

-----------------------------------------------------------------------------
(* Remainders and the difference of words                                  *)

\* Division with remainder.
LEMMA DivMod ==
  ASSUME NEW a \in Int, NEW d \in Nat, d > 0
  PROVE  /\ a = d * (a \div d) + (a % d)
         /\ a % d \in 0 .. d - 1
         /\ a \div d \in Int
  OBVIOUS

\* Two divisions of the same number with remainders in range agree.
LEMMA DivisionUnique ==
  ASSUME NEW d \in Nat, d > 0, NEW q1 \in Int, NEW q2 \in Int,
         NEW r1 \in 0 .. d - 1, NEW r2 \in 0 .. d - 1,
         d * q1 + r1 = d * q2 + r2
  PROVE  r1 = r2
  <1>1. CASE q1 < q2
    <2>1. q2 - q1 - 1 \in Nat
      BY <1>1
    <2>2. d * (q2 - q1 - 1) >= 0
      BY <2>1
    <2>3. QED
      BY <2>2
  <1>2. CASE q2 < q1
    <2>1. q1 - q2 - 1 \in Nat
      BY <1>2
    <2>2. d * (q1 - q2 - 1) >= 0
      BY <2>1
    <2>3. QED
      BY <2>2
  <1>3. CASE q1 = q2
    BY <1>3
  <1>4. QED
    BY <1>1, <1>2, <1>3

\* A number written as a multiple of d plus something in range has that
\* something as its remainder.
LEMMA ModUnique ==
  ASSUME NEW a \in Int, NEW d \in Nat, d > 0,
         NEW q \in Int, NEW r \in 0 .. d - 1, a = d * q + r
  PROVE  a % d = r
  <1>1. d * (a \div d) + (a % d) = d * q + r
    BY DivMod
  <1>2. QED
    BY <1>1, DivMod, DivisionUnique

\* Adding a multiple of the divisor does not change the remainder.
LEMMA ModPlusMultiple ==
  ASSUME NEW a \in Int, NEW d \in Nat, d > 0, NEW k \in Int
  PROVE  (a + d * k) % d = a % d
  <1> DEFINE x == a + d * k
             q == (a \div d) + k
             r == a % d
  <1>1. /\ x \in Int
        /\ q \in Int
        /\ r \in 0 .. d - 1
        /\ x = d * q + r
    BY DivMod
  <1> HIDE DEF x, q, r
  <1>2. x % d = r
    BY <1>1, ModUnique
  <1>3. QED
    BY <1>2 DEF x, r

\* Subtracting the divisor once does not change the remainder.
LEMMA SubtractKeepsRemainder ==
  ASSUME NEW a \in Int, NEW d \in Nat, d > 0
  PROVE  (a - d) % d = a % d
  <1>1. a - d = a + d * (-1)
    OBVIOUS
  <1>2. (a + d * (-1)) % d = a % d
    BY ModPlusMultiple
  <1>3. QED
    BY <1>1, <1>2

\* A number below the divisor is its own remainder.
LEMMA SmallIsRemainder ==
  ASSUME NEW a \in Nat, NEW d \in Nat, a < d
  PROVE  a % d = a
  OBVIOUS

\* The difference of two words is a word.
LEMMA SubWType ==
  ASSUME NEW a \in Word, NEW b \in Word
  PROVE  SubW(a, b) \in Word
  BY RadixAssumption, DivMod DEF SubW, Word

\* Subtraction of words without borrow is subtraction.
LEMMA SubWNoBorrow ==
  ASSUME NEW a \in Word, NEW b \in Word, b <= a
  PROVE  SubW(a, b) = a - b
  BY RadixAssumption, SmallIsRemainder DEF SubW, Word

-----------------------------------------------------------------------------
(* modular.sv                                                              *)

USE DEF Bit, States, NextState

\* The registers stay words at every edge, whatever the parent does.
LEMMA RegistersStep == TypeOK /\ Clock => modular' \in Registers
  <1> SUFFICES ASSUME TypeOK, Clock PROVE modular' \in Registers
    OBVIOUS
  <1>0. 0 \in Word /\ Word \subseteq Nat
    BY RadixAssumption DEF Word
  <1>1. CASE Reset
    BY <1>1, <1>0 DEF TypeOK, Reset, Registers, Cleared
  <1>2. CASE Wait
    BY <1>2 DEF TypeOK, Wait, Registers
  <1>3. CASE ModInit
    <2>1. modular.numerator_hold \in Word /\ modular.denominator_hold \in Word
      BY DEF TypeOK, Registers
    <2>2. SubW(modular.numerator_hold, modular.denominator_hold) \in Word
      BY <2>1, SubWType, SubWNoBorrow
    <2>3. QED
      BY <1>3, <2>2 DEF TypeOK, ModInit, Registers
  <1>4. CASE ModAssign
    BY <1>4 DEF TypeOK, ModAssign, Registers
  <1>5. CASE ModDone
    BY <1>5 DEF TypeOK, ModDone, Registers
  <1>6. QED
    BY <1>1, <1>2, <1>3, <1>4, <1>5 DEF Clock

\* So do the ports, and the handshake signals are bits.
LEMMA TypeStep == TypeOK /\ Next => TypeOK'
  <1> SUFFICES ASSUME TypeOK, Next PROVE TypeOK'
    OBVIOUS
  <1>1. reset_n' \in Bit /\ modular_ready' \in Bit /\ fresh' \in BOOLEAN
    BY DEF TypeOK, Next, client!Drive, client!AssertReset,
           client!ReleaseReset, client!RaiseReady,
           client!LowerReady, client!Hold
  <1>2. numerator' \in Word /\ denominator' \in Word
    BY DEF TypeOK, Next, Operands
  <1>3. modular' \in Registers
    BY RegistersStep DEF Next
  <1>4. QED
    BY <1>1, <1>2, <1>3 DEF TypeOK

\* Reset holds the unit in RESET, and until ready is raised again there is
\* no answer up.
LEMMA ResetStep == IInv /\ Next => ResetClears'
  <1> SUFFICES ASSUME IInv, Next PROVE ResetClears'
    OBVIOUS
  <1> USE DEF IInv, TypeOK, ResetClears, Registers
  <1>1. reset_n' = 0 => modular'.state = "RESET"
    BY DEF Next, Clock, Reset, Wait, ModInit, ModAssign,
           ModDone, Cleared
  <1>2. ASSUME reset_n' = 1, fresh'
        PROVE  /\ modular_ready' = 0
               /\ modular'.state \in {"RESET", "WAIT"}
               /\ modular'.modular_done = 0
    <2>1. \/ reset_n = 0 /\ fresh /\ modular_ready' = 0
          \/ reset_n = 1 /\ fresh /\ modular_ready' = modular_ready
          \/ reset_n = 1 /\ fresh /\ modular_ready' = 0
      <3>1. CASE client!AssertReset
        BY <3>1, <1>2 DEF client!AssertReset
      <3>2. CASE client!ReleaseReset
        BY <3>2, <1>2, Zenon DEF client!ReleaseReset
      <3>3. CASE client!RaiseReady
        BY <3>3, <1>2, Zenon DEF client!RaiseReady
      <3>4. CASE client!LowerReady
        BY <3>4, <1>2, Zenon DEF client!LowerReady
      <3>5. CASE client!Hold
        BY <3>5, <1>2, Zenon DEF client!Hold
      <3>6. QED
        BY <3>1, <3>2, <3>3, <3>4, <3>5 DEF Next, client!Drive
    <2>2. QED
      BY <1>2, <2>1
         DEF Next, Clock, Reset, Wait, ModInit,
             ModAssign, ModDone, Cleared
  <1>3. QED
    BY <1>1, <1>2

\* One step of the subtraction loop keeps the loop invariant.
LEMMA LoopStep == IInv /\ Next => LoopInvariant'
  <1> SUFFICES ASSUME IInv, Next, client!Asked' PROVE LoopInvariant'
    BY DEF LoopInvariant
  <1> USE DEF client!Asked
  <1>1. reset_n' = 1 /\ modular_ready' = 1
    OBVIOUS
  \* The parent either raised ready at this edge or holds it.
  <1>2. \/ fresh /\ reset_n = 1 /\ modular_ready = 0
        \/ client!Asked /\ UNCHANGED <<numerator, denominator>>
    BY <1>1
       DEF Next, Operands, client!Drive, client!AssertReset,
           client!ReleaseReset, client!RaiseReady,
           client!LowerReady, client!Hold, client!Serving, IInv,
           TypeOK
  <1>3. CASE fresh /\ reset_n = 1 /\ modular_ready = 0
    <2>1. modular.state \in {"RESET", "WAIT"} /\ modular.modular_done = 0
      BY <1>3 DEF IInv, ResetClears
    <2>2. modular'.state = "WAIT" /\ modular'.modular_done = 0
      <3>1. reset_n = 1 /\ modular_ready = 0 /\ modular \in Registers
        BY <1>3 DEF IInv, TypeOK
      <3>2. Reset \/ Wait
        BY <2>1 DEF Next, Clock, ModInit, ModAssign, ModDone
      <3>3. CASE Reset
        BY <1>1, <3>1, <3>3 DEF Reset, Cleared
      <3>4. CASE Wait
        BY <1>1, <2>1, <3>1, <3>4 DEF Wait, Registers
      <3>5. QED
        BY <3>2, <3>3, <3>4
    <2>3. QED
      BY <2>2 DEF LoopInvariant
  <1>4. CASE client!Asked /\ UNCHANGED <<numerator, denominator>>
    <2> USE <1>1, <1>4
    <2>0. /\ numerator \in Nat /\ denominator \in Nat
          /\ modular.numerator_hold \in Word
          /\ modular.denominator_hold \in Word
          /\ modular.numerator_hold \in Nat
          /\ modular.denominator_hold \in Nat
          /\ modular \in Registers
      BY RadixAssumption DEF IInv, TypeOK, Registers, Word
    <2>1. CASE Reset
      BY <2>1 DEF Reset, Cleared, LoopInvariant
    <2>2. CASE Wait
      BY <2>0, <2>2 DEF Wait, Registers, LoopInvariant, IInv
    <2>3. CASE ModInit
      <3>1. CASE modular.numerator_hold < modular.denominator_hold
        BY <2>0, <2>3, <3>1
           DEF ModInit, Registers, LoopInvariant, IInv
      <3>2. CASE ~(modular.numerator_hold < modular.denominator_hold)
        <4>1. modular.denominator_hold <= modular.numerator_hold
          BY <2>0, <3>2
        <4>2. SubW(modular.numerator_hold, modular.denominator_hold)
                = modular.numerator_hold - modular.denominator_hold
          BY <4>1, <2>0, SubWType, SubWNoBorrow
        <4>3. QED
          BY <2>0, <2>3, <3>2, <4>1, <4>2
             DEF ModInit, Registers, LoopInvariant, IInv
      <3>3. QED
        BY <3>1, <3>2
    <2>4. CASE ModAssign
      <3>1. /\ modular.sub_hold = modular.numerator_hold - denominator
            /\ modular.modular_done = 0
            /\ modular.denominator_hold = denominator
        BY <2>0, <2>4
           DEF ModAssign, Registers, LoopInvariant, IInv
      <3>2. ASSUME denominator > 0
            PROVE  modular.sub_hold % denominator = numerator % denominator
        <4>1. modular.numerator_hold % denominator = numerator % denominator
          BY <2>4, <3>2 DEF ModAssign, LoopInvariant, IInv
        <4>2. (modular.numerator_hold - denominator) % denominator
                = modular.numerator_hold % denominator
          BY <2>0, <3>2, SubtractKeepsRemainder
        <4>3. QED
          BY <3>1, <4>1, <4>2
      <3>3. /\ modular'.state = "MOD_INIT"
            /\ modular'.numerator_hold = modular.sub_hold
            /\ modular'.denominator_hold = modular.denominator_hold
            /\ modular'.modular_done = 0
        BY <2>0, <2>4, <3>1 DEF ModAssign, Registers
      <3>4. QED
        BY <3>1, <3>2, <3>3 DEF LoopInvariant
    <2>5. CASE ModDone
      BY <2>0, <2>5 DEF ModDone, Registers, LoopInvariant, IInv
    <2>6. QED
      BY <2>1, <2>2, <2>3, <2>4, <2>5 DEF Next, Clock
  <1>5. QED
    BY <1>2, <1>3, <1>4

\* A unit that is being reset satisfies the inductive invariant,
LEMMA InitInv == Init => IInv
  BY RadixAssumption
     DEF Init, client!Init, IInv, TypeOK, ResetClears,
         LoopInvariant, client!Asked, Registers, Cleared,
         Word

\* and every clock edge keeps it.
LEMMA StepInv == IInv /\ Next => IInv'
  BY TypeStep, ResetStep, LoopStep DEF IInv

\* So does an edge at which nothing happens.
LEMMA StutterInv == IInv /\ UNCHANGED vars => IInv'
  BY DEF IInv, vars, TypeOK, ResetClears, LoopInvariant,
         client!Asked

\* An edge that asserts reset_n restores it from any state of the registers.
LEMMA ResetInv == TypeOK /\ Next /\ reset_n' = 0 => IInv'
  <1> SUFFICES ASSUME TypeOK, Next, reset_n' = 0 PROVE IInv'
    OBVIOUS
  <1>1. modular'.state = "RESET"
    BY DEF TypeOK, Registers, Next, Clock, Reset, Wait,
           ModInit, ModAssign, ModDone, Cleared
  <1>2. TypeOK'
    BY TypeStep
  <1>3. QED
    BY <1>1, <1>2
       DEF IInv, ResetClears, LoopInvariant, client!Asked

\* The inductive invariant holds of every behaviour of the unit, for every
\* word size.
THEOREM ModularInvariant == Spec => []IInv
  <1>1. IInv /\ [Next]_(vars) => IInv'
    BY StepInv, StutterInv
  <1>2. QED
    BY <1>1, InitInv, PTL DEF Spec

\* The inductive invariant says what the answer is.
LEMMA AnswerIsRemainder == IInv => RemainderCorrect
  <1> SUFFICES ASSUME IInv, client!Asked, modular.modular_done = 1
               PROVE  denominator > 0 /\ modular.result = numerator % denominator
    BY DEF RemainderCorrect
  <1>1. /\ numerator \in Nat /\ denominator \in Nat
        /\ modular.numerator_hold \in Nat
    BY RadixAssumption DEF IInv, TypeOK, Registers, Word
  <1>2. /\ modular.state = "MOD_DONE"
        /\ modular.result = modular.numerator_hold
        /\ modular.numerator_hold < denominator
    BY DEF IInv, LoopInvariant
  <1>3. denominator > 0
    BY <1>1, <1>2
  <1>4. modular.numerator_hold % denominator = numerator % denominator
    BY <1>2, <1>3 DEF IInv, LoopInvariant
  <1>5. modular.numerator_hold % denominator = modular.numerator_hold
    BY <1>1, <1>2, SmallIsRemainder
  <1>6. QED
    BY <1>2, <1>3, <1>4, <1>5

\* What the parent reads together with modular_done is the remainder of the
\* operands it presented (modular.sv 69-80), for every word size.
THEOREM ModularCorrect == Spec => []RemainderCorrect
  BY AnswerIsRemainder, ModularInvariant, PTL

=============================================================================
