-------------------------- MODULE MultiplierProofs --------------------------
(***************************************************************************)
(* Proofs about multiplier_sm.sv: for every word size, what a parent that  *)
(* follows the handshake reads together with mult_done is the low word of  *)
(* the product of the operands it presented, or zero when the second one   *)
(* is the largest word.                                                    *)
(***************************************************************************)
EXTENDS MultiplierSpec, TLAPS

-----------------------------------------------------------------------------
(* Remainders and the sum of words                                         *)

\* Division with remainder.
LEMMA DivMod ==
  ASSUME NEW a \in Int, NEW d \in Nat, d > 0
  PROVE  /\ a = d * (a \div d) + (a % d)
         /\ a % d \in 0 .. d - 1
         /\ a \div d \in Int
  OBVIOUS

\* Two divisions of the same number with remainders in range agree.
LEMMA DivisionUnique ==
  ASSUME NEW d \in Nat, d > 0, NEW q1 \in Int, NEW q2 \in Int,
         NEW r1 \in 0 .. d - 1, NEW r2 \in 0 .. d - 1,
         d * q1 + r1 = d * q2 + r2
  PROVE  r1 = r2
  <1>1. CASE q1 < q2
    <2>1. q2 - q1 - 1 \in Nat
      BY <1>1
    <2>2. d * (q2 - q1 - 1) >= 0
      BY <2>1
    <2>3. QED
      BY <2>2
  <1>2. CASE q2 < q1
    <2>1. q1 - q2 - 1 \in Nat
      BY <1>2
    <2>2. d * (q1 - q2 - 1) >= 0
      BY <2>1
    <2>3. QED
      BY <2>2
  <1>3. CASE q1 = q2
    BY <1>3
  <1>4. QED
    BY <1>1, <1>2, <1>3

\* A number written as a multiple of d plus something in range has that
\* something as its remainder.
LEMMA ModUnique ==
  ASSUME NEW a \in Int, NEW d \in Nat, d > 0,
         NEW q \in Int, NEW r \in 0 .. d - 1, a = d * q + r
  PROVE  a % d = r
  <1>1. d * (a \div d) + (a % d) = d * q + r
    BY DivMod
  <1>2. QED
    BY <1>1, DivMod, DivisionUnique

\* Adding a multiple of the divisor does not change the remainder.
LEMMA ModPlusMultiple ==
  ASSUME NEW a \in Int, NEW d \in Nat, d > 0, NEW k \in Int
  PROVE  (a + d * k) % d = a % d
  <1> DEFINE x == a + d * k
             q == (a \div d) + k
             r == a % d
  <1>1. /\ x \in Int
        /\ q \in Int
        /\ r \in 0 .. d - 1
        /\ x = d * q + r
    BY DivMod
  <1> HIDE DEF x, q, r
  <1>2. x % d = r
    BY <1>1, ModUnique
  <1>3. QED
    BY <1>2 DEF x, r

\* A number below the divisor is its own remainder.
LEMMA SmallIsRemainder ==
  ASSUME NEW a \in Nat, NEW d \in Nat, a < d
  PROVE  a % d = a
  OBVIOUS

\* Reducing one summand first does not change the remainder of a sum.
LEMMA ModOfSum ==
  ASSUME NEW a \in Int, NEW b \in Int, NEW d \in Nat, d > 0
  PROVE  ((a % d) + b) % d = (a + b) % d
  <1> DEFINE k == a \div d
             s == (a % d) + b
  <1>1. /\ k \in Int
        /\ s \in Int
        /\ a + b = s + d * k
    BY DivMod
  <1> HIDE DEF k, s
  <1>2. (s + d * k) % d = s % d
    BY <1>1, ModPlusMultiple
  <1>3. (a + b) % d = s % d
    BY <1>1, <1>2
  <1>4. QED
    BY <1>3 DEF s

\* The sum of two words is a word.
LEMMA AddWType ==
  ASSUME NEW a \in Word, NEW b \in Word
  PROVE  AddW(a, b) \in Word
  BY RadixAssumption, DivMod DEF AddW, Word

\* Addition of words without carry is addition.
LEMMA AddWNoCarry ==
  ASSUME NEW a \in Word, NEW b \in Word, a + b < Radix
  PROVE  AddW(a, b) = a + b
  BY RadixAssumption, SmallIsRemainder DEF AddW, Word

\* The successor of the largest word is zero.
LEMMA AddWWraps == AddW(Radix - 1, 1) = 0
  <1>1. (0 + Radix * 1) % Radix = 0 % Radix
    BY RadixAssumption, ModPlusMultiple
  <1>2. 0 % Radix = 0
    BY RadixAssumption, SmallIsRemainder
  <1>3. 0 + Radix * 1 = Radix /\ (Radix - 1) + 1 = Radix
    BY RadixAssumption
  <1>4. QED
    BY <1>1, <1>2, <1>3 DEF AddW

\* One more addition to the low word of a multiple gives the next multiple.
LEMMA NextMultiple ==
  ASSUME NEW a \in Word, NEW k \in Nat, k > 0
  PROVE  AddW((a * (k - 1)) % Radix, a) = (a * k) % Radix
  <1> DEFINE x == a * (k - 1)
  <1>1. x \in Int /\ a \in Int /\ Radix \in Nat /\ Radix > 0
    BY RadixAssumption DEF Word
  <1>2. x + a = a * k
    BY RadixAssumption DEF Word
  <1> HIDE DEF x
  <1>3. ((x % Radix) + a) % Radix = (x + a) % Radix
    BY <1>1, ModOfSum
  <1>4. QED
    BY <1>2, <1>3 DEF AddW, x

-----------------------------------------------------------------------------
(* multiplier_sm.sv                                                        *)

USE DEF Bit, States, NextState, Counter

\* 0 and 1 are words, and words are natural numbers.
LEMMA WordFacts == 0 \in Word /\ 1 \in Word /\ \A w \in Word : w \in Nat /\ w < Radix
  BY RadixAssumption DEF Word

\* counter stays a word, whatever state is entered.
LEMMA CounterType ==
  ASSUME mult.counter \in Word, NEW s
  PROVE  Counter(s) \in Word
  BY WordFacts, AddWType

\* The registers stay words at every edge, whatever the parent does.
LEMMA RegistersStep == TypeOK /\ Clock => mult' \in Registers
  <1> SUFFICES ASSUME TypeOK, Clock PROVE mult' \in Registers
    OBVIOUS
  <1>0. /\ mult \in Registers
        /\ mult.counter \in Word
        /\ mult.out \in Word
        /\ mult.temp_sum \in Word
        /\ in1 \in Word
        /\ AddW(mult.out, in1) \in Word
    BY AddWType DEF TypeOK, Registers
  <1>1. \A s : Counter(s) \in Word
    BY <1>0, CounterType
  <1> HIDE DEF Counter
  <1>2. CASE Reset
    BY <1>2, <1>1, WordFacts DEF Reset, Registers, Cleared
  <1>3. CASE Wait
    BY <1>0, <1>1, <1>3 DEF Wait, Registers
  <1>4. CASE MultiplyLoop0
    BY <1>0, <1>1, <1>4 DEF MultiplyLoop0, Registers
  <1>5. CASE MultiplyLoop1
    BY <1>0, <1>1, <1>5 DEF MultiplyLoop1, Registers
  <1>6. CASE MultiplyDone
    BY <1>0, <1>1, <1>6 DEF MultiplyDone, Registers
  <1>7. QED
    BY <1>2, <1>3, <1>4, <1>5, <1>6 DEF Clock

\* So do the ports, and the handshake signals are bits.
LEMMA TypeStep == TypeOK /\ Next => TypeOK'
  <1> SUFFICES ASSUME TypeOK, Next PROVE TypeOK'
    OBVIOUS
  <1>1. reset_n' \in Bit /\ mult_ready' \in Bit /\ fresh' \in BOOLEAN
    BY DEF TypeOK, Next, client!Drive, client!AssertReset, client!ReleaseReset,
           client!RaiseReady, client!LowerReady, client!Hold
  <1>2. in1' \in Word /\ in2' \in Word
    BY DEF TypeOK, Next, Operands
  <1>3. mult' \in Registers
    BY RegistersStep DEF Next
  <1>4. QED
    BY <1>1, <1>2, <1>3 DEF TypeOK

\* What the parent may have done at an edge after which the unit is out of
\* reset: it released reset, raised ready on a fresh unit, lowered it on an
\* answer, or kept everything.
LEMMA ClientStep ==
  ASSUME TypeOK, Next, reset_n' = 1
  PROVE  \/ reset_n = 0 /\ mult_ready' = 0 /\ fresh' = fresh
         \/ reset_n = 1 /\ mult_ready = 0 /\ mult_ready' = 1 /\ fresh /\ ~fresh'
         \/ /\ reset_n = 1 /\ mult_ready = 1 /\ mult_ready' = 0
            /\ mult.mult_done = 1 /\ fresh' = fresh
         \/ reset_n = 1 /\ mult_ready' = mult_ready /\ fresh' = fresh
  <1>1. CASE client!AssertReset
    BY <1>1 DEF client!AssertReset
  <1>2. CASE client!ReleaseReset
    BY <1>2, Zenon DEF client!ReleaseReset
  <1>3. CASE client!RaiseReady
    BY <1>3, Zenon DEF client!RaiseReady
  <1>4. CASE client!LowerReady
    BY <1>4, Zenon DEF client!LowerReady
  <1>5. CASE client!Hold
    BY <1>5, Zenon DEF client!Hold
  <1>6. QED
    BY <1>1, <1>2, <1>3, <1>4, <1>5 DEF Next, client!Drive

\* A parent that has used the unit does not start it again before a reset.
LEMMA StaysLowered ==
  ASSUME Next, reset_n = 1, reset_n' = 1, mult_ready = 0, ~fresh
  PROVE  mult_ready' = 0 /\ ~fresh'
  <1>1. CASE client!AssertReset
    BY <1>1 DEF client!AssertReset
  <1>2. CASE client!ReleaseReset
    BY <1>2 DEF client!ReleaseReset
  <1>3. CASE client!RaiseReady
    BY <1>3 DEF client!RaiseReady
  <1>4. CASE client!LowerReady
    BY <1>4 DEF client!LowerReady
  <1>5. CASE client!Hold
    BY <1>5, Zenon DEF client!Hold
  <1>6. QED
    BY <1>1, <1>2, <1>3, <1>4, <1>5 DEF Next, client!Drive

\* counter counts the entries into MULTIPLY_LOOP_0 and is cleared by reset_n.
LEMMA CounterValue ==
  ASSUME reset_n \in Bit, reset_n' \in Bit
  PROVE  /\ reset_n = 0 \/ reset_n' = 0 => \A s : Counter(s) = 0
         /\ reset_n = 1 /\ reset_n' = 1 =>
              /\ Counter("MULTIPLY_LOOP_0") = AddW(mult.counter, 1)
              /\ \A s \in {"WAIT", "MULTIPLY_LOOP_1", "MULTIPLY_DONE"} :
                   Counter(s) = mult.counter
  OBVIOUS

\* reset_n forces RESET and clears counter.
LEMMA ResetEdge ==
  ASSUME TypeOK, Clock, reset_n' = 0
  PROVE  mult'.state = "RESET" /\ mult'.counter = 0
  <1>0. mult \in Registers /\ reset_n \in Bit
    BY DEF TypeOK
  <1> HIDE DEF Counter
  <1>1. \A s : Counter(s) = 0
    BY <1>0, CounterValue
  <1>2. CASE Reset
    BY <1>1, <1>2 DEF Reset, Cleared
  <1>3. CASE Wait
    BY <1>0, <1>1, <1>3 DEF Wait, Registers
  <1>4. CASE MultiplyLoop0
    BY <1>0, <1>1, <1>4 DEF MultiplyLoop0, Registers
  <1>5. CASE MultiplyLoop1
    BY <1>0, <1>1, <1>5 DEF MultiplyLoop1, Registers
  <1>6. CASE MultiplyDone
    BY <1>0, <1>1, <1>6 DEF MultiplyDone, Registers
  <1>7. QED
    BY <1>2, <1>3, <1>4, <1>5, <1>6 DEF Clock

\* A reset unit, and one that has not been started since, is at zero.
LEMMA ResetStep == IInv /\ Next => ResetClears'
  <1> SUFFICES ASSUME IInv, Next PROVE ResetClears'
    OBVIOUS
  <1>0. /\ mult \in Registers
        /\ reset_n \in Bit /\ reset_n' \in Bit
    BY TypeStep DEF IInv, TypeOK
  <1> HIDE DEF Counter
  <1>1. reset_n' = 0 => mult'.state = "RESET" /\ mult'.counter = 0
    BY ResetEdge DEF IInv, Next
  <1>2. ASSUME reset_n' = 1, fresh'
        PROVE  /\ mult_ready' = 0
               /\ mult'.state \in {"RESET", "WAIT"}
               /\ mult'.mult_done = 0
               /\ mult'.out = 0
               /\ mult'.counter = 0
    <2>1. TypeOK
      BY DEF IInv
    <2>2. \/ reset_n = 0 /\ mult_ready' = 0
          \/ reset_n = 1 /\ fresh /\ mult_ready' = mult_ready
          \/ reset_n = 1 /\ fresh /\ mult_ready' = 0
      BY <1>2, <2>1, ClientStep, Zenon
    <2>3. CASE reset_n = 0 /\ mult_ready' = 0
      <3>1. mult.state = "RESET"
        BY <2>3 DEF IInv, ResetClears
      <3>2. Reset
        BY <3>1
           DEF Next, Clock, Wait, MultiplyLoop0, MultiplyLoop1, MultiplyDone
      <3>3. QED
        BY <1>0, <1>2, <2>3, <3>2, CounterValue DEF Reset, Cleared
    <2>4. CASE reset_n = 1 /\ fresh
      <3>1. /\ mult_ready = 0
            /\ mult.state \in {"RESET", "WAIT"}
            /\ mult.mult_done = 0 /\ mult.out = 0 /\ mult.counter = 0
        BY <2>4 DEF IInv, ResetClears
      <3>2. mult_ready' = 0
        BY <2>2, <3>1
      <3>3. Reset \/ Wait
        BY <3>1 DEF Next, Clock, MultiplyLoop0, MultiplyLoop1, MultiplyDone
      <3>4. Counter("WAIT") = 0
        BY <1>0, <1>2, <2>4, <3>1, CounterValue
      <3>5. CASE Reset
        BY <1>2, <2>4, <3>2, <3>4, <3>5 DEF Reset, Cleared
      <3>6. CASE Wait
        BY <1>0, <1>2, <2>4, <3>1, <3>2, <3>4, <3>6 DEF Wait, Registers
      <3>7. QED
        BY <3>3, <3>5, <3>6
    <2>5. QED
      BY <2>2, <2>3, <2>4
  <1>3. QED
    BY <1>1, <1>2 DEF ResetClears

\* An answer that is up stays with an idle unit.
LEMMA AnsweredStep == IInv /\ Next => AnsweredIsIdle'
  <1> SUFFICES ASSUME IInv, Next, reset_n' = 1, mult'.mult_done = 1
               PROVE  /\ mult'.state \in {"MULTIPLY_DONE", "WAIT"}
                      /\ mult'.state = "WAIT" => mult_ready' = 0 /\ ~fresh'
    BY DEF AnsweredIsIdle
  <1>0. /\ mult \in Registers
        /\ reset_n \in Bit /\ reset_n' \in Bit
        /\ mult_ready \in Bit
        /\ fresh \in BOOLEAN
        /\ TypeOK
    BY TypeStep DEF IInv, TypeOK
  <1> HIDE DEF Counter
  <1>1. ~Reset
    <2> SUFFICES ASSUME Reset PROVE FALSE
      OBVIOUS
    <2>1. mult'.mult_done = 0
      BY DEF Reset, Cleared
    <2>2. QED
      BY <2>1
  <1>2. reset_n = 1
    <2>1. reset_n = 0 => mult.state = "RESET"
      BY DEF IInv, ResetClears
    <2>2. mult.state # "RESET"
      BY <1>1 DEF Next, Clock, Wait, MultiplyLoop0, MultiplyLoop1, MultiplyDone
    <2>3. QED
      BY <1>0, <2>1, <2>2
  <1>3. CASE MultiplyDone
    <2>1. mult'.state = IF mult_ready = 0 THEN "WAIT" ELSE "MULTIPLY_DONE"
      BY <1>0, <1>2, <1>3 DEF MultiplyDone, Registers
    <2>2. mult.state = "MULTIPLY_DONE"
      BY <1>3 DEF MultiplyDone
    <2>3. ~fresh
      BY <1>2, <2>2 DEF IInv, ResetClears
    <2>4. ASSUME mult_ready = 0
          PROVE  mult_ready' = 0 /\ ~fresh'
      BY <1>2, <2>3, <2>4, StaysLowered
    <2>5. QED
      BY <2>1, <2>4
  <1>4. CASE Wait
    <2>1. mult.mult_done = 1 /\ mult.state = "WAIT"
      BY <1>0, <1>4 DEF Wait, Registers
    <2>2. mult_ready = 0 /\ ~fresh
      BY <1>2, <2>1 DEF IInv, AnsweredIsIdle
    <2>3. mult'.state = "WAIT"
      BY <1>0, <1>2, <1>4, <2>2 DEF Wait, Registers
    <2>4. mult_ready' = 0 /\ ~fresh'
      BY <1>2, <2>2, StaysLowered
    <2>5. QED
      BY <2>3, <2>4
  <1>5. CASE MultiplyLoop0 \/ MultiplyLoop1
    <2>1. mult.mult_done = 1
      BY <1>0, <1>5 DEF MultiplyLoop0, MultiplyLoop1, Registers
    <2>2. mult.state \in {"MULTIPLY_LOOP_0", "MULTIPLY_LOOP_1"}
      BY <1>5 DEF MultiplyLoop0, MultiplyLoop1
    <2>3. QED
      BY <1>2, <2>1, <2>2 DEF IInv, AnsweredIsIdle
  <1>6. QED
    BY <1>1, <1>3, <1>4, <1>5 DEF Next, Clock

\* At an edge of a request the unit was either idle and fresh, or serving the
\* same operands already.
LEMMA ServingStep ==
  ASSUME IInv, Next, client!Asked'
  PROVE  \/ reset_n = 1 /\ fresh /\ mult_ready = 0
         \/ client!Asked /\ in1' = in1 /\ in2' = in2
  <1>1. reset_n' = 1 /\ mult_ready' = 1
    BY DEF client!Asked
  <1>2. QED
    BY <1>1 DEF Next, Operands, client!Drive, client!AssertReset,
                client!ReleaseReset, client!RaiseReady, client!LowerReady,
                client!Hold, client!Serving, client!Asked, IInv, TypeOK

\* One step of the addition loop keeps the loop invariant.
LEMMA LoopStep == IInv /\ Next => LoopInvariant'
  <1> SUFFICES ASSUME IInv, Next, client!Asked' PROVE LoopInvariant'
    BY DEF LoopInvariant
  <1>0. /\ mult \in Registers
        /\ reset_n \in Bit /\ reset_n' = 1 /\ mult_ready' = 1
        /\ in1 \in Word /\ in2 \in Word /\ in1' \in Word /\ in2' \in Word
        /\ in2 \in Nat /\ in2 < Radix /\ Radix \in Nat /\ Radix > 1
        /\ mult.counter \in Word /\ mult.counter \in Nat
        /\ 1 \in Word
    BY TypeStep, WordFacts, RadixAssumption
       DEF IInv, TypeOK, Registers, client!Asked
  <1> HIDE DEF Counter
  <1>1. CASE reset_n = 1 /\ fresh /\ mult_ready = 0
    <2>1. /\ reset_n = 1 /\ mult_ready = 0
          /\ mult.state \in {"RESET", "WAIT"}
          /\ mult.mult_done = 0 /\ mult.out = 0 /\ mult.counter = 0
      BY <1>1 DEF IInv, ResetClears
    <2>2. Counter("WAIT") = 0
      BY <1>0, <2>1, CounterValue
    <2>3. /\ mult'.state = "WAIT"
          /\ mult'.mult_done = 0 /\ mult'.out = 0 /\ mult'.counter = 0
      <3>1. CASE Reset
        BY <1>0, <2>1, <2>2, <3>1 DEF Reset, Cleared
      <3>2. CASE Wait
        BY <1>0, <2>1, <2>2, <3>2 DEF Wait, Registers
      <3>3. QED
        BY <2>1, <3>1, <3>2
           DEF Next, Clock, MultiplyLoop0, MultiplyLoop1, MultiplyDone
    <2>4. QED
      BY <2>3 DEF LoopInvariant
  <1>2. CASE client!Asked /\ in1' = in1 /\ in2' = in2
    <2>0. /\ reset_n = 1 /\ mult_ready = 1
          /\ in1' = in1 /\ in2' = in2
      BY <1>2 DEF client!Asked
    <2>c. /\ Counter("MULTIPLY_LOOP_0") = AddW(mult.counter, 1)
          /\ \A s \in {"WAIT", "MULTIPLY_LOOP_1", "MULTIPLY_DONE"} :
               Counter(s) = mult.counter
      BY <1>0, <2>0, CounterValue
    <2>1. CASE Reset
      <3>1. mult.state = "RESET" /\ mult.counter = 0
        BY <1>2, <2>1 DEF Reset, IInv, LoopInvariant
      <3>2. /\ mult'.state = "WAIT"
            /\ mult'.mult_done = 0 /\ mult'.out = 0 /\ mult'.counter = 0
        BY <1>0, <2>0, <2>1, <2>c, <3>1 DEF Reset, Cleared
      <3>3. QED
        BY <3>2 DEF LoopInvariant
    <2>2. CASE Wait
      <3>1. /\ mult.state = "WAIT"
            /\ mult.mult_done = 0 /\ mult.out = 0 /\ mult.counter = 0
        BY <1>2, <2>2 DEF Wait, IInv, LoopInvariant
      <3>2. AddW(0, 1) = 1
        BY <1>0, AddWNoCarry, WordFacts
      <3>3. /\ mult'.state = "MULTIPLY_LOOP_0"
            /\ mult'.mult_done = 0 /\ mult'.out = 0 /\ mult'.counter = 1
        BY <1>0, <2>0, <2>2, <2>c, <3>1, <3>2 DEF Wait, Registers
      <3>4. (in1 * (1 - 1)) % Radix = 0
        <4>1. in1 * (1 - 1) = 0
          BY <1>0, WordFacts
        <4>2. QED
          BY <1>0, <4>1, SmallIsRemainder
      <3>5. QED
        BY <1>0, <2>0, <3>3, <3>4 DEF LoopInvariant
    <2>3. CASE MultiplyLoop0
      <3>1. /\ mult.state = "MULTIPLY_LOOP_0"
            /\ mult.mult_done = 0
        BY <1>0, <1>2, <2>3 DEF MultiplyLoop0, Registers, IInv, LoopInvariant
      <3>2. CASE in2 = Radix - 1
        <4>1. mult.out = 0
          BY <1>2, <3>2 DEF IInv, LoopInvariant
        <4>2. AddW(in2, 1) = 0
          BY <3>2, AddWWraps
        <4>3. ~(mult.counter < 0)
          BY <1>0
        <4>4. /\ mult'.state \in {"MULTIPLY_DONE", "MULTIPLY_LOOP_0"}
              /\ mult'.out = 0
              /\ mult'.mult_done = 0
          <5>1. CASE mult.counter = 0
            BY <1>0, <2>0, <2>3, <3>1, <4>1, <4>2, <4>3, <5>1
               DEF MultiplyLoop0, Registers
          <5>2. CASE mult.counter # 0
            BY <1>0, <2>0, <2>3, <3>1, <4>1, <4>2, <4>3, <5>2
               DEF MultiplyLoop0, Registers
          <5>3. QED
            BY <5>1, <5>2
        <4>5. QED
          BY <1>0, <2>0, <3>2, <4>4 DEF LoopInvariant
      <3>3. CASE in2 < Radix - 1
        <4>1. /\ mult.counter \in 1 .. in2 + 1
              /\ mult.out = (in1 * (mult.counter - 1)) % Radix
          BY <1>2, <3>1, <3>3 DEF IInv, LoopInvariant
        <4>2. AddW(in2, 1) = in2 + 1
          BY <1>0, <3>3, AddWNoCarry
        <4>3. AddW(mult.out, in1) = (in1 * mult.counter) % Radix
          <5>1. mult.counter \in 1 .. in2 + 1
            BY <4>1, Zenon
          <5>2. mult.counter \in Nat /\ mult.counter > 0 /\ in1 \in Word
            BY <1>0, <5>1
          <5>3. AddW((in1 * (mult.counter - 1)) % Radix, in1)
                  = (in1 * mult.counter) % Radix
            BY <5>2, NextMultiple, Zenon
          <5>4. QED
            BY <4>1, <5>3, Zenon
        <4>4. CASE mult.counter = in2 + 1
          <5>1. mult.counter - 1 = in2
            BY <1>0, <4>4
          <5>2. mult.out = (in1 * in2) % Radix
            BY <4>1, <5>1
          <5>3. /\ mult'.state = "MULTIPLY_DONE"
                /\ mult'.out = mult.out
                /\ mult'.mult_done = 0
            BY <1>0, <2>0, <2>3, <3>1, <4>2, <4>4 DEF MultiplyLoop0, Registers
          <5>4. QED
            BY <1>0, <2>0, <3>3, <5>2, <5>3 DEF LoopInvariant
        <4>5. CASE mult.counter < in2 + 1
          <5>1. /\ mult'.state = "MULTIPLY_LOOP_1"
                /\ mult'.counter = mult.counter
                /\ mult'.temp_sum = AddW(mult.out, in1)
                /\ mult'.mult_done = 0
            BY <1>0, <2>0, <2>3, <2>c, <3>1, <4>2, <4>5
               DEF MultiplyLoop0, Registers
          <5>2. mult.counter \in 1 .. in2
            BY <1>0, <4>1, <4>5
          <5>3. QED
            BY <1>0, <2>0, <3>3, <4>3, <5>1, <5>2 DEF LoopInvariant
        <4>6. QED
          BY <1>0, <4>1, <4>4, <4>5
      <3>4. QED
        BY <1>0, <3>2, <3>3
    <2>4. CASE MultiplyLoop1
      <3>1. /\ mult.state = "MULTIPLY_LOOP_1"
            /\ mult.mult_done = 0
            /\ in2 < Radix - 1
        BY <1>0, <1>2, <2>4 DEF MultiplyLoop1, Registers, IInv, LoopInvariant
      <3>2. /\ mult.counter \in 1 .. in2
            /\ mult.temp_sum = (in1 * mult.counter) % Radix
        BY <1>2, <3>1 DEF IInv, LoopInvariant
      <3>3. AddW(mult.counter, 1) = mult.counter + 1
        BY <1>0, <3>1, <3>2, AddWNoCarry
      <3>4. /\ mult'.state = "MULTIPLY_LOOP_0"
            /\ mult'.counter = mult.counter + 1
            /\ mult'.out = mult.temp_sum
            /\ mult'.mult_done = 0
        BY <1>0, <2>0, <2>4, <2>c, <3>1, <3>3 DEF MultiplyLoop1, Registers
      <3>5. mult'.counter - 1 = mult.counter /\ mult'.counter \in 1 .. in2 + 1
        BY <1>0, <3>2, <3>4
      <3>6. mult'.out = (in1 * (mult'.counter - 1)) % Radix
        BY <3>2, <3>4, <3>5
      <3>7. QED
        BY <1>0, <2>0, <3>1, <3>4, <3>5, <3>6 DEF LoopInvariant
    <2>5. CASE MultiplyDone
      <3>1. mult.state = "MULTIPLY_DONE"
        BY <2>5 DEF MultiplyDone
      <3>2. mult'.state = "MULTIPLY_DONE" /\ mult'.out = mult.out
        BY <1>0, <2>0, <2>5 DEF MultiplyDone, Registers
      <3>3. QED
        BY <1>0, <1>2, <2>0, <3>1, <3>2 DEF LoopInvariant, IInv
    <2>6. QED
      BY <2>1, <2>2, <2>3, <2>4, <2>5 DEF Next, Clock
  <1>3. QED
    BY <1>1, <1>2, ServingStep

\* A unit that is being reset satisfies the inductive invariant,
LEMMA InitInv == Init => IInv
  <1> SUFFICES ASSUME Init PROVE IInv
    OBVIOUS
  <1>1. /\ reset_n = 0 /\ mult_ready = 0 /\ fresh = TRUE
        /\ in1 \in Word /\ in2 \in Word /\ mult = Cleared
    BY DEF Init, client!Init
  <1>2. TypeOK
    BY <1>1, RadixAssumption DEF TypeOK, Registers, Cleared, Word, Bit, States
  <1>3. ResetClears /\ LoopInvariant /\ AnsweredIsIdle
    BY <1>1
       DEF ResetClears, LoopInvariant, AnsweredIsIdle, client!Asked, Cleared
  <1>4. QED
    BY <1>2, <1>3 DEF IInv

\* and every clock edge keeps it.
LEMMA StepInv == IInv /\ Next => IInv'
  BY TypeStep, ResetStep, LoopStep, AnsweredStep DEF IInv

\* So does an edge at which nothing happens.
LEMMA StutterInv == IInv /\ UNCHANGED vars => IInv'
  BY DEF IInv, vars, TypeOK, ResetClears, LoopInvariant, AnsweredIsIdle,
         client!Asked

\* An edge that asserts reset_n restores it from any state of the registers.
LEMMA ResetInv == TypeOK /\ Next /\ reset_n' = 0 => IInv'
  BY TypeStep, ResetEdge
     DEF IInv, TypeOK, Next, ResetClears, LoopInvariant, AnsweredIsIdle,
         client!Asked

\* The inductive invariant holds of every behaviour of the unit, for every
\* word size.
THEOREM MultiplierInvariant == Spec => []IInv
  <1>1. IInv /\ [Next]_vars => IInv'
    BY StepInv, StutterInv
  <1>2. QED
    BY <1>1, InitInv, PTL DEF Spec

\* The inductive invariant says what the answer is.
LEMMA AnswerIsProduct == IInv => ProductCorrect
  <1> SUFFICES ASSUME IInv, client!Asked, mult.mult_done = 1
               PROVE  mult.out = Product(in1, in2)
    BY DEF ProductCorrect
  <1>1. in2 \in Nat /\ Radix \in Nat /\ (in2 = Radix - 1 \/ in2 < Radix - 1)
    BY RadixAssumption DEF IInv, TypeOK, Word
  <1>2. mult.state = "MULTIPLY_DONE"
    BY DEF IInv, LoopInvariant
  <1>3. CASE in2 = Radix - 1
    BY <1>3 DEF IInv, LoopInvariant, Product
  <1>4. CASE in2 < Radix - 1
    <2>1. mult.out = (in1 * in2) % Radix
      BY <1>2, <1>4 DEF IInv, LoopInvariant
    <2>2. in2 # Radix - 1
      BY <1>1, <1>4
    <2>3. QED
      BY <2>1, <2>2 DEF Product
  <1>5. QED
    BY <1>1, <1>3, <1>4

\* What the parent reads together with mult_done is the low word of the
\* product of the operands it presented, or 0 for the largest multiplier
\* (multiplier_sm.sv 38-49), for every word size.
THEOREM MultiplierCorrect == Spec => []ProductCorrect
  BY AnswerIsProduct, MultiplierInvariant, PTL

\* An answer that is up survives the clock edge, whatever the parent does.
LEMMA AnswerKept ==
  mult \in Registers /\ AnsweredIsIdle /\ Clock /\ mult.mult_done = 1 /\ reset_n = 1
    => mult'.out = mult.out /\ mult'.mult_done = 1
  <1> SUFFICES ASSUME mult \in Registers, AnsweredIsIdle, Clock,
                      mult.mult_done = 1, reset_n = 1
               PROVE  mult'.out = mult.out /\ mult'.mult_done = 1
    OBVIOUS
  <1>1. mult.state \in {"MULTIPLY_DONE", "WAIT"}
    BY DEF AnsweredIsIdle
  <1>2. CASE Wait
    BY <1>2 DEF Wait, Registers
  <1>3. CASE MultiplyDone
    BY <1>3 DEF MultiplyDone, Registers
  <1>4. QED
    BY <1>1, <1>2, <1>3 DEF Clock, Reset, MultiplyLoop0, MultiplyLoop1

\* Once mult_done is up, out and mult_done survive every clock edge up to the
\* next reset, whatever the parent does to mult_ready and the operands
\* (multiplier_sm.sv 45-55, 77-80), for every word size.
THEOREM MultiplierKeepsProduct == Spec => ProductKept
  <1> DEFINE Kept == mult.mult_done = 1 /\ reset_n = 1 =>
                       mult'.out = mult.out /\ mult'.mult_done = 1
  <1>1. IInv /\ [Next]_vars => [Kept]_vars
    BY AnswerKept DEF IInv, TypeOK, Next
  <1>2. QED
    BY <1>1, MultiplierInvariant, PTL DEF Spec, ProductKept

=============================================================================
