----------------------------- MODULE UnitsProofs -----------------------------
(***************************************************************************)
(* Proofs about the units that derive the keys, for every word size.       *)
(* generate_d.sv uses its modular multiplication unit the way that unit's  *)
(* own correctness assumes, skips no candidate, and answers with the least *)
(* inverse of e modulo phi; phi_gen.sv and n_gen.sv use their multiplier   *)
(* as its correctness assumes and answer with its product.  Each of them   *)
(* implements the ComputeUnit that io_module.sv relies on.                 *)
(***************************************************************************)
EXTENDS MCUnits, TLAPS

\* mm0 is fresh when it is in reset or has not been started.
ModmultFresh ==
  \/ gend.modmult_reset = 0
  \/ /\ gend.modmult_ready = 0
     /\ modmult.state \in {"RESET", "WAIT"}
     /\ modmult.modmult_done = 0

MM ==
  INSTANCE ModularMultiplicationProofs
    WITH reset_n <- gend.modmult_reset, modmult_ready <- gend.modmult_ready,
         base <- e, power <- gend.dholder, denominator <- phi,
         Bases <- Key!Word, Powers <- Key!Word, Denominators <- Key!Word,
         fresh <- ModmultFresh

-----------------------------------------------------------------------------

KeyTypeOK ==
  /\ reset_n \in Key!Bit /\ compute \in Key!Bit /\ fresh \in BOOLEAN
  /\ e \in Key!Word /\ phi \in Key!Word
  /\ gend \in Key!Registers
  /\ MM!TypeInv

\* Towards its parent: a reset unit that was not started has no key up, and a
\* key outlives its request only in a unit that is not started again.
KeyParentInv ==
  /\ reset_n = 0 => gend.state = "RESET"
  /\ reset_n = 1 /\ fresh => /\ compute = 0
                             /\ gend.state \in {"RESET", "WAIT"}
                             /\ gend.generated_done = 0
  /\ reset_n = 1 /\ gend.generated_done = 1 =>
       /\ ~fresh
       /\ \/ gend.state = "FINISHED"
          \/ gend.state = "WAIT" /\ compute = 0
  /\ reset_n = 1 /\ gend.state \notin {"RESET", "WAIT"} =>
       compute = 1 \/ gend.generated_done = 1

ModmultReset == gend.modmult_reset = 0 /\ gend.modmult_ready = 0

ModmultIdle ==
  /\ gend.modmult_ready = 0
  /\ modmult.state \in {"RESET", "WAIT"}
  /\ modmult.modmult_done = 0

ModmultAnswered == gend.modmult_reset = 1 /\ modmult.modmult_done = 1

\* Towards mm0: whether it is reset, may have been started or has answered,
\* state by state.
KeyStages ==
  reset_n = 1 =>
    /\ gend.state \in {"RESET", "INIT_RESET_DONE"} => ModmultReset
    /\ gend.state = "WAIT" /\ gend.generated_done = 0 =>
         ModmultReset \/ (gend.modmult_reset = 1 /\ ModmultIdle)
    /\ gend.state \in {"INIT_MODMULT", "MODMULT_LOOP_0"} =>
         /\ gend.modmult_reset = 1
         /\ gend.modmult_ready = 0 => ModmultIdle
    /\ gend.state \in {"INIT_DONE", "MODMULT_LOOP_1"} =>
         ModmultAnswered /\ gend.modmult_ready = 1
    /\ gend.state \in {"INIT_RESET", "COMPARE", "DECREMENT", "FINISHED"} =>
         ModmultAnswered /\ gend.modmult_ready = 0
    /\ gend.state = "WAIT" /\ gend.generated_done = 1 =>
         ModmultAnswered /\ gend.modmult_ready = 0

\* reset_n clears the search at once but reaches mm0 a clock later: in between
\* nothing but the types is known of mm0.
ModmultInv == MM!IInv \/ (gend.state = "RESET" /\ gend.modmult_reset = 1)

Residue(k) == MM!MultiplierUnit!Product(e, k) % phi

\* The number whose residue is being computed or compared.
Candidate ==
  IF gend.state \in {"COMPARE", "DECREMENT"} THEN Key!SubW(gend.dholder, 1)
                                             ELSE gend.dholder

LeastInverse(k) == k \in Key!Inverses /\ \A m \in Key!Inverses : k <= m

\* No inverse lies below the candidate, which is what s_holder is compared for.
Search ==
  /\ reset_n = 1 /\ gend.state = "WAIT" /\ gend.generated_done = 0 =>
       gend.dholder = 1
  /\ reset_n = 1 /\ compute = 1 =>
       /\ gend.state \notin {"RESET", "WAIT", "FINISHED"} =>
            \A m \in Key!Inverses : Candidate \in 1 .. m
       /\ gend.state \in {"COMPARE", "DECREMENT"} =>
            phi > 0 /\ gend.s_holder = Residue(Candidate)
       /\ gend.state = "DECREMENT" => gend.s_holder = 1
       /\ gend.state = "FINISHED" => phi > 0 /\ LeastInverse(gend.d)

KeyInv == KeyTypeOK /\ KeyParentInv /\ KeyStages /\ ModmultInv /\ Search

USE DEF Key!Bit, Key!States, Key!NextState

-----------------------------------------------------------------------------
(* Words                                                                   *)

\* The operands presented are words, and all instances speak of the same words.
LEMMA OperandWords ==
  /\ KeyExponents \subseteq Key!Word /\ Totients \subseteq Key!Word
  /\ Primes \subseteq Word
  BY UnitOperandsAssumption DEF Key!Word, Word

\* Facts of the arithmetic units about the words of the search.
LEMMA AddWType ==
  ASSUME NEW a \in Key!Word, NEW b \in Key!Word
  PROVE  Key!AddW(a, b) \in Key!Word
  BY RadixAssumption, MM!ModularUnit!DivMod DEF Key!AddW, Key!Word

LEMMA SubWType ==
  ASSUME NEW a \in Key!Word, NEW b \in Key!Word
  PROVE  Key!SubW(a, b) \in Key!Word
  BY RadixAssumption, MM!ModularUnit!DivMod DEF Key!SubW, Key!Word

LEMMA SubWNoBorrow ==
  ASSUME NEW a \in Key!Word, NEW b \in Key!Word, b <= a
  PROVE  Key!SubW(a, b) = a - b
  BY RadixAssumption, MM!ModularUnit!SmallIsRemainder DEF Key!SubW, Key!Word

LEMMA AddWNoCarry ==
  ASSUME NEW a \in Key!Word, NEW b \in Key!Word, a + b < Radix
  PROVE  Key!AddW(a, b) = a + b
  BY RadixAssumption, MM!ModularUnit!SmallIsRemainder DEF Key!AddW, Key!Word

LEMMA AddWWraps == Key!AddW(Radix - 1, 1) = 0
  BY RadixAssumption, MM!MultiplierUnit!AddWWraps DEF Key!AddW,
                                                      MM!MultiplierUnit!AddW

-----------------------------------------------------------------------------
(* The clock edge, part by part                                            *)

\* mm0 is the unit the proofs of ModularMultiplicationProofs are about.
LEMMA SameModmult == Key!mm0!Clock <=> MM!Clock
  <1>1. Key!mm0!Control <=> MM!Control
    BY Zenon
       DEF Key!mm0!Control, Key!mm0!Reset, Key!mm0!Wait, Key!mm0!Multiply,
           Key!mm0!MultiplyDone, Key!mm0!Modulo, Key!mm0!ModuloDone,
           Key!mm0!ModmultDone, Key!mm0!Cleared, Key!mm0!NextState, MM!Control,
           MM!Reset, MM!Wait, MM!Multiply, MM!MultiplyDone, MM!Modulo, MM!ModuloDone,
           MM!ModmultDone, MM!Cleared, MM!NextState
  <1>2. Key!mm0!mult0!Clock <=> MM!mult0!Clock
    BY Zenon
       DEF Key!mm0!mult0!Clock, Key!mm0!mult0!Reset, Key!mm0!mult0!Wait,
           Key!mm0!mult0!MultiplyLoop0, Key!mm0!mult0!MultiplyLoop1,
           Key!mm0!mult0!MultiplyDone, Key!mm0!mult0!Cleared,
           Key!mm0!mult0!NextState, Key!mm0!mult0!Counter, Key!mm0!mult0!AddW,
           MM!mult0!Clock, MM!mult0!Reset, MM!mult0!Wait, MM!mult0!MultiplyLoop0,
           MM!mult0!MultiplyLoop1, MM!mult0!MultiplyDone, MM!mult0!Cleared,
           MM!mult0!NextState, MM!mult0!Counter, MM!mult0!AddW
  <1>3. Key!mm0!modular0!Clock <=> MM!modular0!Clock
    BY Zenon
       DEF Key!mm0!modular0!Clock, Key!mm0!modular0!Reset, Key!mm0!modular0!Wait,
           Key!mm0!modular0!ModInit, Key!mm0!modular0!ModAssign,
           Key!mm0!modular0!ModDone, Key!mm0!modular0!Cleared,
           Key!mm0!modular0!NextState, Key!mm0!modular0!SubW, MM!modular0!Clock,
           MM!modular0!Reset, MM!modular0!Wait, MM!modular0!ModInit,
           MM!modular0!ModAssign, MM!modular0!ModDone, MM!modular0!Cleared,
           MM!modular0!NextState, MM!modular0!SubW
  <1>4. QED
    BY <1>1, <1>2, <1>3 DEF Key!mm0!Clock, MM!Clock

\* The ports of mm0 are words.
LEMMA Presented == MM!Word = Key!Word /\ MM!Bit = Key!Bit
  BY DEF MM!Word, Key!Word, MM!Bit

Live == reset_n = 1 /\ reset_n' = 1

\* What a register of the search holds after an edge out of reset.
ControlEdge ==
  LET old == gend  new == gend'
      ReadyKept == new.modmult_ready = old.modmult_ready
      ResetKept == new.modmult_reset = old.modmult_reset
      DoneKept == new.generated_done = old.generated_done
      HolderKept == new.dholder = old.dholder
  IN
  /\ old.state = "RESET" =>
       /\ new.state = "WAIT" /\ new.dholder = 1 /\ new.generated_done = 0
       /\ new.modmult_ready = 0 /\ new.modmult_reset = 0
  /\ old.state = "WAIT" =>
       /\ new.state = IF compute = 1 THEN "INIT_MODMULT" ELSE "WAIT"
       /\ new.modmult_reset = 1 /\ ReadyKept /\ DoneKept /\ HolderKept
  /\ old.state = "INIT_MODMULT" =>
       /\ new.state = IF modmult.modmult_done = 1
                      THEN "INIT_DONE" ELSE "INIT_MODMULT"
       /\ new.modmult_ready = 1 /\ ResetKept /\ DoneKept /\ HolderKept
  /\ old.state = "INIT_DONE" =>
       /\ new.state = "INIT_RESET" /\ new.modmult_ready = 0
       /\ ResetKept /\ DoneKept /\ HolderKept
  /\ old.state = "INIT_RESET" =>
       /\ new.state = "INIT_RESET_DONE" /\ new.modmult_reset = 0
       /\ ReadyKept /\ DoneKept /\ HolderKept
  /\ old.state = "INIT_RESET_DONE" =>
       /\ new.state = "MODMULT_LOOP_0" /\ new.modmult_reset = 1
       /\ ReadyKept /\ DoneKept /\ HolderKept
  /\ old.state = "MODMULT_LOOP_0" =>
       /\ new.state = IF modmult.modmult_done = 1
                      THEN "MODMULT_LOOP_1" ELSE "MODMULT_LOOP_0"
       /\ new.modmult_ready = 1 /\ ResetKept /\ DoneKept /\ HolderKept
  /\ old.state = "MODMULT_LOOP_1" =>
       /\ new.state = "COMPARE" /\ new.modmult_ready = 0
       /\ new.s_holder = modmult.result /\ new.dholder = Key!AddW(old.dholder, 1)
       /\ ResetKept /\ DoneKept
  /\ old.state = "COMPARE" =>
       /\ new.state = IF old.s_holder = 1 THEN "DECREMENT" ELSE "INIT_RESET"
       /\ new.s_holder = old.s_holder
       /\ ReadyKept /\ ResetKept /\ DoneKept /\ HolderKept
  /\ old.state = "DECREMENT" =>
       /\ new.state = "FINISHED" /\ new.d = Key!SubW(old.dholder, 1)
       /\ ReadyKept /\ ResetKept /\ DoneKept
  /\ old.state = "FINISHED" =>
       /\ new.state = IF compute = 0 THEN "WAIT" ELSE "FINISHED"
       /\ new.generated_done = 1 /\ new.d = old.d
       /\ ReadyKept /\ ResetKept

\* The output and next-state blocks of generate_d.sv do that.
LEMMA ControlStep ==
  ASSUME gend \in Key!Registers, Live, Key!Control
  PROVE  ControlEdge
  <1> USE DEF Key!Registers, Live, ControlEdge
  <1>1. CASE Key!Reset
    <2>1. 1 % Radix = 1
      BY RadixAssumption, MM!ModularUnit!SmallIsRemainder
    <2>2. QED
      BY <1>1, <2>1 DEF Key!Reset, Key!Cleared
  <1>2. CASE Key!Wait
    BY <1>2 DEF Key!Wait
  <1>3. CASE Key!InitModmult
    BY <1>3 DEF Key!InitModmult
  <1>4. CASE Key!InitDone
    BY <1>4 DEF Key!InitDone
  <1>5. CASE Key!InitReset
    BY <1>5 DEF Key!InitReset
  <1>6. CASE Key!InitResetDone
    BY <1>6 DEF Key!InitResetDone
  <1>7. CASE Key!ModmultLoop0
    BY <1>7 DEF Key!ModmultLoop0
  <1>8. CASE Key!ModmultLoop1
    BY <1>8 DEF Key!ModmultLoop1
  <1>9. CASE Key!Compare
    BY <1>9 DEF Key!Compare
  <1>10. CASE Key!Decrement
    BY <1>10 DEF Key!Decrement
  <1>11. CASE Key!Finished
    BY <1>11 DEF Key!Finished
  <1>12. QED
    BY <1>1, <1>2, <1>3, <1>4, <1>5, <1>6, <1>7, <1>8, <1>9, <1>10, <1>11
       DEF Key!Control

\* While reset_n is low the search is cleared.
LEMMA ResetStep ==
  ASSUME gend.state = "RESET", Key!Control
  PROVE  gend' = [Key!Cleared EXCEPT !.state = Key!NextState("WAIT")]
  BY DEF Key!Control, Key!Reset, Key!Wait, Key!InitModmult, Key!InitDone,
         Key!InitReset, Key!InitResetDone, Key!ModmultLoop0, Key!ModmultLoop1,
         Key!Compare, Key!Decrement, Key!Finished

\* The registers keep their types, and reset_n forces RESET.
LEMMA RegistersStep ==
  ASSUME gend \in Key!Registers, modmult.result \in Key!Word, Key!Control
  PROVE  gend' \in Key!Registers /\ (reset_n' = 0 => gend'.state = "RESET")
  <1>1. 0 \in Key!Word /\ 1 \in Key!Word /\ 1 % Radix \in Key!Word /\ 5 % Radix \in Key!Word
    BY RadixAssumption, MM!ModularUnit!DivMod DEF Key!Word
  <1>2. Key!AddW(gend.dholder, 1) \in Key!Word /\ Key!SubW(gend.dholder, 1) \in Key!Word
    BY <1>1, AddWType, SubWType DEF Key!Registers
  <1> USE <1>1, <1>2 DEF Key!Registers
  <1>3. CASE Key!Reset
    BY <1>3 DEF Key!Reset, Key!Cleared
  <1>4. CASE Key!Wait
    BY <1>4 DEF Key!Wait
  <1>5. CASE Key!InitModmult
    BY <1>5 DEF Key!InitModmult
  <1>6. CASE Key!InitDone
    BY <1>6 DEF Key!InitDone
  <1>7. CASE Key!InitReset
    BY <1>7 DEF Key!InitReset
  <1>8. CASE Key!InitResetDone
    BY <1>8 DEF Key!InitResetDone
  <1>9. CASE Key!ModmultLoop0
    BY <1>9 DEF Key!ModmultLoop0
  <1>10. CASE Key!ModmultLoop1
    BY <1>10 DEF Key!ModmultLoop1
  <1>11. CASE Key!Compare
    BY <1>11 DEF Key!Compare
  <1>12. CASE Key!Decrement
    BY <1>12 DEF Key!Decrement
  <1>13. CASE Key!Finished
    BY <1>13 DEF Key!Finished
  <1>14. QED
    BY <1>3, <1>4, <1>5, <1>6, <1>7, <1>8, <1>9, <1>10, <1>11, <1>12, <1>13
       DEF Key!Control

\* Everything keeps its type, for operands that are words.
LEMMA TypeStep ==
  ASSUME KeyTypeOK, Key!Next
  PROVE  KeyTypeOK' /\ (reset_n' = 0 => gend'.state = "RESET")
  <1>1. reset_n' \in Key!Bit /\ compute' \in Key!Bit /\ fresh' \in BOOLEAN
    BY DEF KeyTypeOK, Key!Next, Key!client!Drive, Key!client!AssertReset,
           Key!client!ReleaseReset, Key!client!RaiseReady, Key!client!LowerReady,
           Key!client!Hold
  <1>2. e' \in Key!Word /\ phi' \in Key!Word
    BY OperandWords DEF KeyTypeOK, Key!Next, Key!Operands
  <1>3. modmult.result \in Key!Word
    BY Presented DEF KeyTypeOK, MM!TypeInv, MM!TypeOK, MM!Registers
  <1>4. gend' \in Key!Registers /\ (reset_n' = 0 => gend'.state = "RESET")
    BY <1>3, RegistersStep DEF KeyTypeOK, Key!Next, Key!Clock
  <1>5. MM!TypeInv'
    <2>1. MM!Clock
      BY SameModmult DEF Key!Next, Key!Clock
    <2>2. /\ gend'.modmult_reset \in MM!Bit /\ gend'.modmult_ready \in MM!Bit
          /\ ModmultFresh' \in BOOLEAN
          /\ e' \in MM!Word /\ gend'.dholder \in MM!Word /\ phi' \in MM!Word
      BY <1>2, <1>4, Presented DEF Key!Registers, ModmultFresh
    <2>3. Key!Word \subseteq MM!Word
      BY Presented
    <2>4. QED
      BY <2>1, <2>2, <2>3, RadixAssumption, MM!TypeInvStep DEF KeyTypeOK
  <1>6. QED
    BY <1>1, <1>2, <1>4, <1>5 DEF KeyTypeOK

\* What the parent may do while the unit is out of reset.
LEMMA ClientStep ==
  ASSUME Key!Next, Live
  PROVE  \/ compute = 0 /\ compute' = 1 /\ fresh /\ ~fresh'
         \/ /\ compute = 1 /\ compute' = 0 /\ fresh' = fresh
            /\ gend.generated_done = 1
         \/ compute' = compute /\ fresh' = fresh
  <1>1. CASE Key!client!AssertReset
    BY <1>1 DEF Key!client!AssertReset, Live
  <1>2. CASE Key!client!ReleaseReset
    BY <1>2 DEF Key!client!ReleaseReset, Live
  <1>3. CASE Key!client!RaiseReady
    BY <1>3, Zenon DEF Key!client!RaiseReady
  <1>4. CASE Key!client!LowerReady
    BY <1>4, Zenon DEF Key!client!LowerReady
  <1>5. CASE Key!client!Hold
    BY <1>5, Zenon DEF Key!client!Hold
  <1>6. QED
    BY <1>1, <1>2, <1>3, <1>4, <1>5 DEF Key!Next, Key!client!Drive

\* The operands of a request that goes on do not change.
LEMMA OperandsStay ==
  ASSUME Key!Next, Live, compute = 1, compute' = 1
  PROVE  e' = e /\ phi' = phi
  BY DEF Key!Next, Key!Operands, Key!client!Serving, Key!client!Asked, Live

\* At the edge that releases reset_n the request is low and the search clear.
LEMMA ReleaseEdge ==
  ASSUME KeyParentInv, Key!Next, reset_n = 0, reset_n' = 1
  PROVE  /\ compute' = 0
         /\ gend'.state = "RESET" /\ gend'.generated_done = 0
         /\ gend'.modmult_reset = 0 /\ gend'.modmult_ready = 0
  <1>1. compute' = 0
    BY DEF Key!Next, Key!client!Drive, Key!client!AssertReset,
           Key!client!ReleaseReset, Key!client!RaiseReady, Key!client!LowerReady,
           Key!client!Hold
  <1>2. gend' = [Key!Cleared EXCEPT !.state = "RESET"]
    BY ResetStep DEF KeyParentInv, Key!Next, Key!Clock
  <1>3. QED
    BY <1>1, <1>2 DEF Key!Cleared

-----------------------------------------------------------------------------
(* The search as parent of mm0                                             *)

\* Out of reset nothing is left of a state of mm0 that its invariant excludes.
LEMMA LiveModmult ==
  ASSUME KeyInv, reset_n = 1
  PROVE  MM!IInv
  BY DEF KeyInv, ModmultInv, KeyStages, ModmultReset

\* mm0 out of reset: what is idle or answered stays so, and released it has
\* nothing left to answer.
LEMMA ModmultEdge ==
  ASSUME MM!IInv, Key!Next, gend'.modmult_reset = 1
  PROVE  /\ gend.modmult_reset = 1 /\ ModmultIdle =>
              modmult'.state = "WAIT" /\ modmult'.modmult_done = 0
         /\ gend.modmult_reset = 1 /\ modmult.modmult_done = 1 =>
              modmult'.modmult_done = 1
         /\ gend.modmult_reset = 0 =>
              modmult'.state = "RESET" /\ modmult'.modmult_done = 0
  <1>0. MM!Clock /\ MM!TypeOK /\ Key!Word \subseteq MM!Word
    BY SameModmult, Presented DEF Key!Next, Key!Clock, MM!IInv
  <1>1. gend.modmult_reset = 1 => MM!Live
    BY DEF MM!Live
  <1>2. ASSUME gend.modmult_reset = 1, ModmultIdle
        PROVE  modmult'.state = "WAIT" /\ modmult'.modmult_done = 0
    BY <1>0, <1>1, <1>2, RadixAssumption, MM!IdleStays DEF ModmultIdle
  <1>3. ASSUME gend.modmult_reset = 1, modmult.modmult_done = 1
        PROVE  modmult'.modmult_done = 1
    BY <1>0, <1>1, <1>3, RadixAssumption, MM!AnswerStays
  <1>4. ASSUME gend.modmult_reset = 0
        PROVE  modmult'.state = "RESET" /\ modmult'.modmult_done = 0
    BY <1>0, <1>4, RadixAssumption, MM!ReleaseEdge
  <1>5. QED
    BY <1>2, <1>3, <1>4

\* The ways in which an edge uses mm0.
LEMMA ModmultUse ==
  ASSUME KeyInv, Key!Next, Live, gend'.modmult_reset = 1
  PROVE  \/ gend.modmult_reset = 0 /\ gend'.modmult_ready = 0
         \/ /\ gend.modmult_reset = 1 /\ ModmultIdle
            /\ gend'.modmult_ready \in {0, 1}
         \/ /\ gend.modmult_reset = 1
            /\ gend.modmult_ready = 1 /\ gend'.modmult_ready = 1
            /\ gend'.dholder = gend.dholder /\ e' = e /\ phi' = phi
         \/ ModmultAnswered /\ gend'.modmult_ready = 0
  <1>0. /\ reset_n = 1 /\ reset_n' = 1
        /\ gend.state \in Key!States /\ gend.modmult_ready \in {0, 1}
        /\ gend.generated_done \in {0, 1} /\ gend \in Key!Registers
        /\ compute \in {0, 1}
    BY DEF Live, KeyInv, KeyTypeOK, Key!Registers
  <1>1. ControlEdge
    BY <1>0, ControlStep DEF Key!Next, Key!Clock
  <1>2. CASE gend.state \in {"RESET", "INIT_RESET"}
    BY <1>0, <1>1, <1>2 DEF ControlEdge
  <1>3. CASE gend.state = "WAIT" /\ gend.generated_done = 0
    BY <1>0, <1>1, <1>3 DEF ControlEdge, KeyInv, KeyStages, ModmultReset, ModmultIdle
  <1>4. CASE gend.state \in {"INIT_MODMULT", "MODMULT_LOOP_0"}
    <2>1. /\ gend'.modmult_ready = 1 /\ gend'.dholder = gend.dholder
          /\ gend.modmult_reset = 1
      BY <1>0, <1>1, <1>4 DEF ControlEdge, KeyInv, KeyStages
    <2>2. CASE gend.modmult_ready = 0
      BY <1>0, <1>4, <2>1, <2>2 DEF KeyInv, KeyStages
    <2>3. CASE gend.modmult_ready = 1
      <3>1. gend.generated_done = 0 /\ compute = 1
        BY <1>0, <1>4 DEF KeyInv, KeyParentInv
      <3>2. compute' = 1
        BY <3>1, ClientStep
      <3>3. e' = e /\ phi' = phi
        BY <3>1, <3>2, OperandsStay
      <3>4. QED
        BY <2>1, <2>3, <3>3
    <2>4. QED
      BY <1>0, <2>2, <2>3
  <1>5. CASE gend.state \in {"INIT_DONE", "MODMULT_LOOP_1"}
    BY <1>0, <1>1, <1>5 DEF ControlEdge, KeyInv, KeyStages
  <1>6. CASE gend.state = "INIT_RESET_DONE"
    BY <1>0, <1>1, <1>6 DEF ControlEdge, KeyInv, KeyStages, ModmultReset
  <1>7. CASE gend.state \in {"COMPARE", "DECREMENT", "FINISHED"}
    BY <1>0, <1>1, <1>7 DEF ControlEdge, KeyInv, KeyStages
  <1>8. CASE gend.state = "WAIT" /\ gend.generated_done = 1
    BY <1>0, <1>1, <1>8 DEF ControlEdge, KeyInv, KeyStages
  <1>9. QED
    BY <1>0, <1>2, <1>3, <1>4, <1>5, <1>6, <1>7, <1>8 DEF Key!States

\* Every edge out of reset is one of mm0 under a parent that follows the
\* handshake; so is every edge that resets mm0.
LEMMA ModmultNext ==
  ASSUME KeyInv, Key!Next,
         Live \/ gend'.modmult_reset = 0
  PROVE  MM!Next
  <1>0. /\ KeyTypeOK /\ KeyTypeOK' /\ MM!Clock
        /\ e' \in Key!Word /\ gend'.dholder \in Key!Word /\ phi' \in Key!Word
        /\ gend'.modmult_ready \in {0, 1} /\ gend'.modmult_reset \in {0, 1}
        /\ gend.modmult_reset \in {0, 1}
    BY TypeStep, SameModmult DEF KeyInv, KeyTypeOK, Key!Registers, Key!Next,
                                 Key!Clock
  <1>1. CASE gend'.modmult_reset = 0
    <2>1. ModmultFresh' = TRUE
      BY <1>1 DEF ModmultFresh
    <2>2. MM!client!Drive
      BY <1>0, <1>1, <2>1 DEF MM!client!Drive, MM!client!AssertReset
    <2>3. MM!Operands
      BY <1>0, <1>1 DEF MM!Operands, MM!client!Serving, MM!client!Asked
    <2>4. QED
      BY <1>0, <2>2, <2>3 DEF MM!Next
  <1>2. CASE Live /\ gend'.modmult_reset = 1
    <2>0. MM!IInv
      BY <1>2, LiveModmult DEF Live
    <2>1. /\ gend.modmult_reset = 1 /\ ModmultIdle =>
               modmult'.state = "WAIT" /\ modmult'.modmult_done = 0
          /\ gend.modmult_reset = 1 /\ modmult.modmult_done = 1 =>
               modmult'.modmult_done = 1
          /\ gend.modmult_reset = 0 =>
               modmult'.state = "RESET" /\ modmult'.modmult_done = 0
      BY <1>2, <2>0, ModmultEdge
    <2> USE DEF MM!client!Drive
    <2>2. CASE gend.modmult_reset = 0 /\ gend'.modmult_ready = 0
      <3>1. ModmultFresh = TRUE /\ ModmultFresh' = TRUE
        BY <2>1, <2>2 DEF ModmultFresh
      <3>2. MM!client!ReleaseReset
        BY <1>2, <2>2, <3>1 DEF MM!client!ReleaseReset
      <3>3. MM!Operands
        BY <1>0, <2>2 DEF MM!Operands, MM!client!Serving, MM!client!Asked
      <3>4. QED
        BY <1>0, <3>2, <3>3 DEF MM!Next
    <2>3. CASE gend.modmult_reset = 1 /\ ModmultIdle /\ gend'.modmult_ready = 0
      <3>1. ModmultFresh = TRUE /\ ModmultFresh' = TRUE
        BY <2>1, <2>3 DEF ModmultFresh, ModmultIdle
      <3>2. MM!client!Hold
        BY <1>2, <2>3, <3>1 DEF MM!client!Hold, ModmultIdle
      <3>3. MM!Operands
        BY <1>0, <2>3 DEF MM!Operands, MM!client!Serving, MM!client!Asked
      <3>4. QED
        BY <1>0, <3>2, <3>3 DEF MM!Next
    <2>4. CASE gend.modmult_reset = 1 /\ ModmultIdle /\ gend'.modmult_ready = 1
      <3>1. ModmultFresh = TRUE /\ ModmultFresh' = FALSE
        BY <1>2, <2>4 DEF ModmultFresh, ModmultIdle
      <3>2. MM!client!RaiseReady
        BY <1>2, <2>4, <3>1 DEF MM!client!RaiseReady, ModmultIdle
      <3>3. MM!Operands
        BY <1>0, <2>4
           DEF MM!Operands, MM!client!Serving, MM!client!Asked, ModmultIdle
      <3>4. QED
        BY <1>0, <3>2, <3>3 DEF MM!Next
    <2>5. CASE /\ gend.modmult_reset = 1
               /\ gend.modmult_ready = 1 /\ gend'.modmult_ready = 1
               /\ gend'.dholder = gend.dholder /\ e' = e /\ phi' = phi
      <3>1. ModmultFresh = FALSE /\ ModmultFresh' = FALSE
        BY <1>2, <2>5 DEF ModmultFresh
      <3>2. MM!client!Hold
        BY <1>2, <2>5, <3>1 DEF MM!client!Hold
      <3>3. MM!Operands
        BY <1>0, <1>2, <2>5 DEF MM!Operands, MM!client!Serving, MM!client!Asked
      <3>4. QED
        BY <1>0, <3>2, <3>3 DEF MM!Next
    <2>6. CASE ModmultAnswered /\ gend'.modmult_ready = 0
      <3>1. ModmultFresh = FALSE /\ ModmultFresh' = FALSE
        BY <1>2, <2>1, <2>6 DEF ModmultFresh, ModmultAnswered
      <3>2. MM!client!Hold \/ MM!client!LowerReady
        BY <1>0, <1>2, <2>6, <3>1
           DEF MM!client!Hold, MM!client!LowerReady, ModmultAnswered, KeyTypeOK,
               Key!Registers
      <3>3. MM!Operands
        BY <1>0, <2>6 DEF MM!Operands, MM!client!Serving, MM!client!Asked
      <3>4. QED
        BY <1>0, <3>2, <3>3 DEF MM!Next
    <2>7. QED
      BY <1>2, <2>2, <2>3, <2>4, <2>5, <2>6, ModmultUse
  <1>3. QED
    BY <1>0, <1>1, <1>2

\* The invariant of mm0 is kept, or the clock is the one between reset_n and
\* the reset of mm0.
LEMMA ModmultStep ==
  ASSUME KeyInv, Key!Next
  PROVE  ModmultInv'
  <1>0. /\ reset_n \in {0, 1} /\ reset_n' \in {0, 1}
        /\ gend'.modmult_reset \in {0, 1}
        /\ reset_n' = 0 => gend'.state = "RESET"
        /\ MM!TypeInv
        /\ MM!Word \subseteq MM!Word /\ Key!Word \subseteq MM!Word
    BY TypeStep, Presented DEF KeyInv, KeyTypeOK, Key!Registers
  <1>1. CASE gend'.modmult_reset = 0
    BY <1>0, <1>1, ModmultNext, RadixAssumption, MM!ResetInv DEF ModmultInv
  <1>2. CASE Live
    <2>1. MM!IInv /\ MM!Next
      BY <1>2, LiveModmult, ModmultNext DEF Live
    <2>2. QED
      BY <1>0, <2>1, RadixAssumption, MM!StepInv DEF ModmultInv
  <1>3. CASE reset_n' = 0 /\ gend'.modmult_reset = 1
    BY <1>0, <1>3 DEF ModmultInv
  <1>4. CASE reset_n = 0 /\ reset_n' = 1
    <2>1. gend'.modmult_reset = 0
      BY <1>4, ReleaseEdge DEF KeyInv
    <2>2. QED
      BY <1>1, <2>1
  <1>5. QED
    BY <1>0, <1>1, <1>2, <1>3, <1>4 DEF Live

-----------------------------------------------------------------------------
(* The search as unit of its parent                                        *)

\* The handshake with the parent.
LEMMA ParentStep ==
  ASSUME KeyInv, Key!Next
  PROVE  KeyParentInv'
  <1>0. /\ reset_n \in {0, 1} /\ reset_n' \in {0, 1}
        /\ reset_n' = 0 => gend'.state = "RESET"
        /\ gend \in Key!Registers /\ gend' \in Key!Registers
        /\ compute \in {0, 1} /\ compute' \in {0, 1}
    BY TypeStep DEF KeyInv, KeyTypeOK
  <1>1. CASE reset_n' = 0
    BY <1>0, <1>1 DEF KeyParentInv
  <1>2. CASE reset_n = 0 /\ reset_n' = 1
    <2>1. /\ compute' = 0
          /\ gend'.state = "RESET" /\ gend'.generated_done = 0
      BY <1>2, ReleaseEdge DEF KeyInv
    <2>2. QED
      BY <1>2, <2>1 DEF KeyParentInv
  <1>3. CASE Live
    <2>0. /\ reset_n = 1 /\ reset_n' = 1
          /\ gend.state \in Key!States
          /\ gend.generated_done \in {0, 1} /\ gend'.generated_done \in {0, 1}
      BY <1>0, <1>3 DEF Live, Key!Registers
    <2>1. ControlEdge
      BY <1>0, <1>3, ControlStep DEF Key!Next, Key!Clock
    <2>2. \/ compute = 0 /\ compute' = 1 /\ fresh /\ ~fresh'
          \/ /\ compute = 1 /\ compute' = 0 /\ fresh' = fresh
             /\ gend.generated_done = 1
          \/ compute' = compute /\ fresh' = fresh
      BY <1>3, ClientStep
    <2>3. ASSUME fresh'
          PROVE  /\ compute' = 0
                 /\ gend'.state \in {"RESET", "WAIT"}
                 /\ gend'.generated_done = 0
      <3>1. fresh
        BY <2>2, <2>3, Zenon
      <3>2. /\ compute = 0 /\ gend.state \in {"RESET", "WAIT"}
            /\ gend.generated_done = 0
        BY <2>0, <3>1 DEF KeyInv, KeyParentInv
      <3>3. compute' = 0
        <4>1. ~(compute = 0 /\ compute' = 1 /\ fresh /\ ~fresh')
          BY <2>3
        <4>2. QED
          BY <2>2, <3>2, <4>1
      <3>4. QED
        BY <2>1, <3>2, <3>3 DEF ControlEdge
    <2>4. ASSUME gend'.generated_done = 1
          PROVE  /\ ~fresh'
                 /\ \/ gend'.state = "FINISHED"
                    \/ gend'.state = "WAIT" /\ compute' = 0
      <3>1. ~fresh'
        BY <2>3, <2>4
      <3>2. ~fresh
        <4>1. ASSUME fresh PROVE FALSE
          <5>1. gend.state \in {"RESET", "WAIT"} /\ gend.generated_done = 0
            BY <2>0, <4>1 DEF KeyInv, KeyParentInv
          <5>2. QED
            BY <2>1, <2>4, <5>1 DEF ControlEdge
        <4>2. QED
          BY <4>1
      <3>3. compute = 0 => compute' = 0
        BY <2>2, <3>2
      <3>4. CASE gend.state = "FINISHED"
        BY <1>0, <2>1, <3>1, <3>3, <3>4 DEF ControlEdge
      <3>5. CASE gend.state # "FINISHED"
        <4>1. gend.generated_done = 1
          BY <2>0, <2>1, <2>4, <3>5 DEF ControlEdge
        <4>2. gend.state = "WAIT" /\ compute = 0
          BY <2>0, <3>5, <4>1 DEF KeyInv, KeyParentInv
        <4>3. QED
          BY <2>1, <3>1, <3>3, <4>2 DEF ControlEdge
      <3>6. QED
        BY <3>4, <3>5
    <2>5. ASSUME gend'.state \notin {"RESET", "WAIT"}, gend'.generated_done = 0
          PROVE  compute' = 1
      <3>1. gend.generated_done = 0 /\ gend.state \notin {"RESET", "FINISHED"}
        BY <2>0, <2>1, <2>5 DEF ControlEdge, KeyInv, KeyParentInv
      <3>2. compute = 1
        BY <1>0, <2>0, <2>1, <2>5, <3>1 DEF ControlEdge, KeyInv, KeyParentInv
      <3>3. QED
        BY <2>2, <3>1, <3>2
    <2>6. QED
      BY <2>0, <2>3, <2>4, <2>5 DEF KeyParentInv
  <1>4. QED
    BY <1>0, <1>1, <1>2, <1>3 DEF Live

\* The order in which mm0 is reset, started and answers.
LEMMA StagesStep ==
  ASSUME KeyInv, Key!Next
  PROVE  KeyStages'
  <1> SUFFICES ASSUME reset_n' = 1 PROVE KeyStages'
    BY DEF KeyStages
  <1>0. /\ reset_n \in {0, 1} /\ gend \in Key!Registers /\ gend' \in Key!Registers
        /\ compute \in {0, 1}
    BY TypeStep DEF KeyInv, KeyTypeOK
  <1>1. CASE reset_n = 0
    <2>1. /\ gend'.state = "RESET"
          /\ gend'.modmult_reset = 0 /\ gend'.modmult_ready = 0
      BY <1>1, ReleaseEdge DEF KeyInv
    <2>2. QED
      BY <2>1 DEF KeyStages, ModmultReset
  <1>2. CASE Live
    <2>0. /\ reset_n = 1 /\ reset_n' = 1
          /\ gend.state \in Key!States /\ gend.generated_done \in {0, 1}
          /\ gend.modmult_ready \in {0, 1} /\ gend.modmult_reset \in {0, 1}
      BY <1>0, <1>2 DEF Live, Key!Registers
    <2>1. ControlEdge
      BY <1>0, <1>2, ControlStep DEF Key!Next, Key!Clock
    <2>2. gend'.modmult_reset = 1 =>
            /\ gend.modmult_reset = 1 /\ ModmultIdle =>
                 modmult'.state = "WAIT" /\ modmult'.modmult_done = 0
            /\ gend.modmult_reset = 1 /\ modmult.modmult_done = 1 =>
                 modmult'.modmult_done = 1
            /\ gend.modmult_reset = 0 =>
                 modmult'.state = "RESET" /\ modmult'.modmult_done = 0
      BY <2>0, LiveModmult, ModmultEdge
    <2> USE DEF ControlEdge, KeyStages, ModmultReset, ModmultIdle, ModmultAnswered
    <2>3. CASE gend.state = "RESET"
      BY <2>0, <2>1, <2>3
    <2>4. CASE gend.state = "WAIT" /\ gend.generated_done = 0
      BY <1>0, <2>0, <2>1, <2>2, <2>4 DEF KeyInv
    <2>5. CASE gend.state = "WAIT" /\ gend.generated_done = 1
      <3>1. compute = 0
        BY <2>0, <2>5 DEF KeyInv, KeyParentInv
      <3>2. QED
        BY <2>0, <2>1, <2>2, <2>5, <3>1 DEF KeyInv
    <2>6. CASE gend.state \in {"INIT_MODMULT", "MODMULT_LOOP_0"}
      <3>1. gend.modmult_reset = 1 /\ gend'.modmult_reset = 1
            /\ gend'.modmult_ready = 1
        BY <2>0, <2>1, <2>6 DEF KeyInv
      <3>2. CASE modmult.modmult_done = 1
        <4>1. modmult'.modmult_done = 1
          BY <2>2, <3>1, <3>2
        <4>2. gend'.state \in {"INIT_DONE", "MODMULT_LOOP_1"}
          BY <2>1, <2>6, <3>2
        <4>3. QED
          BY <3>1, <4>1, <4>2
      <3>3. CASE modmult.modmult_done # 1
        <4>1. gend'.state \in {"INIT_MODMULT", "MODMULT_LOOP_0"}
          BY <2>1, <2>6, <3>3
        <4>2. QED
          BY <3>1, <4>1
      <3>4. QED
        BY <3>2, <3>3
    <2>7. CASE gend.state = "INIT_DONE"
      BY <2>0, <2>1, <2>2, <2>7 DEF KeyInv
    <2>8. CASE gend.state = "INIT_RESET"
      BY <2>0, <2>1, <2>8 DEF KeyInv
    <2>9. CASE gend.state = "INIT_RESET_DONE"
      BY <2>0, <2>1, <2>2, <2>9 DEF KeyInv
    <2>10. CASE gend.state \in {"MODMULT_LOOP_1", "COMPARE", "DECREMENT"}
      <3>1. ModmultAnswered
        BY <2>0, <2>10 DEF KeyInv
      <3>2. /\ gend'.modmult_reset = 1 /\ gend'.modmult_ready = 0
            /\ gend'.state \in {"COMPARE", "DECREMENT", "INIT_RESET", "FINISHED"}
        BY <2>0, <2>1, <2>10, <3>1 DEF KeyInv
      <3>3. ModmultAnswered'
        BY <2>2, <3>1, <3>2
      <3>4. QED
        BY <3>2, <3>3
    <2>11. CASE gend.state = "FINISHED"
      <3>1. /\ gend'.modmult_reset = 1 /\ gend'.modmult_ready = 0
            /\ gend'.state \in {"WAIT", "FINISHED"} /\ gend'.generated_done = 1
        BY <2>0, <2>1, <2>11 DEF KeyInv
      <3>2. modmult'.modmult_done = 1
        BY <2>0, <2>2, <2>11, <3>1 DEF KeyInv
      <3>3. QED
        BY <3>1, <3>2
    <2>12. QED
      BY <2>0, <2>3, <2>4, <2>5, <2>6, <2>7, <2>8, <2>9, <2>10, <2>11 DEF Key!States
  <1>3. QED
    BY <1>0, <1>1, <1>2 DEF Live

-----------------------------------------------------------------------------
(* The numbers                                                             *)

\* What the increment before the comparison does, the decrement undoes.
LEMMA Undone ==
  ASSUME NEW a \in Key!Word
  PROVE  Key!SubW(Key!AddW(a, 1), 1) = a
  <1>0. a \in Nat /\ Radix \in Nat /\ Radix > 1 /\ a < Radix /\ 0 \in Key!Word /\ 1 \in Key!Word
    BY RadixAssumption DEF Key!Word
  <1>1. CASE a = Radix - 1
    <2>1. Key!AddW(a, 1) = 0
      BY <1>1, AddWWraps
    <2>2. /\ 0 - 1 \in Int /\ Radix \in Nat /\ Radix > 0 /\ -1 \in Int
          /\ Radix - 1 \in 0 .. Radix - 1
          /\ 0 - 1 = Radix * (-1) + (Radix - 1)
      BY <1>0
    <2>3. (0 - 1) % Radix = Radix - 1
      BY <2>2, MM!ModularUnit!ModUnique
    <2>4. QED
      BY <1>1, <2>1, <2>3 DEF Key!SubW
  <1>2. CASE a < Radix - 1
    <2>1. Key!AddW(a, 1) = a + 1
      BY <1>0, <1>2, AddWNoCarry
    <2>2. a + 1 \in Key!Word /\ 1 <= a + 1
      BY <1>0, <1>2 DEF Key!Word
    <2>3. Key!SubW(a + 1, 1) = (a + 1) - 1
      BY <1>0, <2>2, SubWNoBorrow
    <2>4. QED
      BY <1>0, <2>1, <2>3
  <1>3. QED
    BY <1>0, <1>1, <1>2

\* A candidate that is at least 1 and not the largest word is one less than
\* what dholder was incremented to.
LEMMA Incremented ==
  ASSUME NEW a \in Key!Word, Key!SubW(a, 1) < Radix - 1
  PROVE  a = Key!SubW(a, 1) + 1
  <1>0. a \in Nat /\ Radix \in Nat /\ Radix > 1 /\ 1 \in Key!Word
    BY RadixAssumption DEF Key!Word
  <1>1. a # 0
    <2>1. ASSUME a = 0 PROVE FALSE
      <3>1. /\ 0 - 1 \in Int /\ Radix \in Nat /\ Radix > 0 /\ -1 \in Int
            /\ Radix - 1 \in 0 .. Radix - 1
            /\ 0 - 1 = Radix * (-1) + (Radix - 1)
        BY <1>0
      <3>2. (0 - 1) % Radix = Radix - 1
        BY <3>1, MM!ModularUnit!ModUnique
      <3>3. Key!SubW(a, 1) = Radix - 1
        BY <2>1, <3>2 DEF Key!SubW
      <3>4. QED
        BY <1>0, <3>3
    <2>2. QED
      BY <2>1
  <1>2. Key!SubW(a, 1) = a - 1
    BY <1>0, <1>1, SubWNoBorrow
  <1>3. QED
    BY <1>0, <1>2

\* The candidates that pass the comparison are the elements of Inverses.
LEMMA FoundInverse ==
  ASSUME e \in Key!Word, phi \in Key!Word, phi > 0, NEW k \in Key!Word
  PROVE  Residue(k) = 1 <=> k \in Key!Inverses
  <1>0. /\ e \in Nat /\ phi \in Nat /\ k \in Nat /\ k < Radix
        /\ Radix \in Nat /\ Radix > 1
    BY RadixAssumption DEF Key!Word
  <1>1. 0 % phi = 0 /\ 0 % Radix = 0
    BY <1>0, MM!ModularUnit!SmallIsRemainder
  <1>2. CASE k = Radix - 1
    <2>1. Residue(k) = 0
      BY <1>1, <1>2 DEF Residue, MM!MultiplierUnit!Product
    <2>2. k \notin Key!Inverses
      BY <1>0, <1>2 DEF Key!Inverses
    <2>3. QED
      BY <2>1, <2>2
  <1>3. CASE k < Radix - 1
    <2>1. Residue(k) = ((e * k) % Radix) % phi
      BY <1>0, <1>3 DEF Residue, MM!MultiplierUnit!Product
    <2>2. CASE k = 0
      <3>1. e * k = 0
        BY <1>0, <2>2
      <3>2. Residue(k) = 0
        BY <1>1, <2>1, <3>1
      <3>3. k \notin Key!Inverses
        BY <2>2 DEF Key!Inverses
      <3>4. QED
        BY <3>2, <3>3
    <2>3. CASE k > 0
      <3>1. k \in 1 .. Radix - 2
        BY <1>0, <1>3, <2>3
      <3>2. QED
        BY <2>1, <3>1 DEF Key!Inverses
    <2>4. QED
      BY <1>0, <2>2, <2>3
  <1>4. QED
    BY <1>0, <1>2, <1>3

-----------------------------------------------------------------------------
(* The search                                                              *)

\* An edge of a request that goes on: no candidate is skipped.
LEMMA SearchServing ==
  ASSUME KeyInv, Key!Next, Live,
         compute = 1, compute' = 1
  PROVE  /\ gend'.state \notin {"RESET", "WAIT", "FINISHED"} =>
              \A m \in Key!Inverses' : Candidate' \in 1 .. m
         /\ gend'.state \in {"COMPARE", "DECREMENT"} =>
              phi' > 0 /\ gend'.s_holder = Residue(Candidate)'
         /\ gend'.state = "DECREMENT" => gend'.s_holder = 1
         /\ gend'.state = "FINISHED" => phi' > 0 /\ LeastInverse(gend.d)'
  <1>0. /\ reset_n = 1
        /\ gend \in Key!Registers /\ gend.state \in Key!States /\ gend.dholder \in Key!Word
        /\ e \in Key!Word /\ phi \in Key!Word
    BY DEF Live, KeyInv, KeyTypeOK, Key!Registers
  <1>1. ControlEdge
    BY <1>0, ControlStep DEF Key!Next, Key!Clock
  <1>2. e' = e /\ phi' = phi
    BY OperandsStay
  <1>3. Key!Inverses' = Key!Inverses
    BY <1>2 DEF Key!Inverses
  <1>4. \A m \in Key!Inverses : m \in Nat /\ m >= 1 /\ m <= Radix - 2
    BY RadixAssumption DEF Key!Inverses
  <1>5. CASE gend.state = "RESET"
    BY <1>1, <1>5 DEF ControlEdge
  <1>6. CASE gend.state = "WAIT"
    <2>1. gend.generated_done = 0
      BY <1>0, <1>6 DEF KeyInv, KeyParentInv, KeyTypeOK, Key!Registers
    <2>2. gend.dholder = 1
      BY <1>0, <1>6, <2>1 DEF KeyInv, Search
    <2>3. gend'.state = "INIT_MODMULT" /\ gend'.dholder = 1
      BY <1>1, <1>6, <2>2 DEF ControlEdge
    <2>4. Candidate' = 1
      BY <2>3 DEF Candidate
    <2>5. QED
      BY <1>3, <1>4, <2>3, <2>4
  <1>7. CASE gend.state \in {"INIT_MODMULT", "INIT_DONE", "INIT_RESET",
                            "INIT_RESET_DONE", "MODMULT_LOOP_0"}
    <2>1. /\ gend'.dholder = gend.dholder
          /\ gend'.state \in {"INIT_MODMULT", "INIT_DONE", "INIT_RESET",
                             "INIT_RESET_DONE", "MODMULT_LOOP_0",
                             "MODMULT_LOOP_1"}
      BY <1>1, <1>7 DEF ControlEdge
    <2>2. Candidate' = Candidate
      BY <1>7, <2>1 DEF Candidate
    <2>3. \A m \in Key!Inverses : Candidate \in 1 .. m
      BY <1>0, <1>7 DEF KeyInv, Search
    <2>4. QED
      BY <1>3, <2>1, <2>2, <2>3
  <1>8. CASE gend.state = "MODMULT_LOOP_1"
    <2>1. /\ gend'.state = "COMPARE"
          /\ gend'.s_holder = modmult.result
          /\ gend'.dholder = Key!AddW(gend.dholder, 1)
      BY <1>1, <1>8 DEF ControlEdge
    <2>2. Candidate = gend.dholder /\ Candidate' = gend.dholder
      BY <1>0, <1>8, <2>1, Undone DEF Candidate
    <2>3. \A m \in Key!Inverses : Candidate \in 1 .. m
      BY <1>0, <1>8 DEF KeyInv, Search
    <2>4. phi > 0 /\ modmult.result = Residue(gend.dholder)
      <3>1. /\ gend.modmult_reset = 1 /\ gend.modmult_ready = 1
            /\ modmult.modmult_done = 1
        BY <1>0, <1>8 DEF KeyInv, KeyStages, ModmultAnswered
      <3>2. MM!IInv
        BY <1>0, LiveModmult
      <3>3. MM!client!Asked
        BY <3>1 DEF MM!client!Asked
      <3>4. Key!Word \subseteq MM!Word
        BY Presented
      <3>5. QED
        BY <3>1, <3>2, <3>3, <3>4, RadixAssumption, MM!AnswerIsResidue DEF Residue
    <2>5. Residue(Candidate)' = Residue(gend.dholder)
      BY <1>2, <2>2 DEF Residue, MM!MultiplierUnit!Product
    <2>6. QED
      BY <1>2, <1>3, <2>1, <2>2, <2>3, <2>4, <2>5
  <1>9. CASE gend.state \in {"COMPARE", "DECREMENT"}
    <2>1. /\ phi > 0 /\ gend.s_holder = Residue(Candidate)
          /\ \A m \in Key!Inverses : Candidate \in 1 .. m
          /\ gend.state = "DECREMENT" => gend.s_holder = 1
      BY <1>0, <1>9 DEF KeyInv, Search
    <2>2. Candidate = Key!SubW(gend.dholder, 1) /\ Candidate \in Key!Word
      <3>1. 1 \in Key!Word
        BY RadixAssumption DEF Key!Word
      <3>2. QED
        BY <1>0, <1>9, <3>1, SubWType DEF Candidate
    <2>3. Residue(Candidate) = 1 <=> Candidate \in Key!Inverses
      BY <1>0, <2>1, <2>2, FoundInverse
    <2>4. CASE gend.state = "COMPARE" /\ gend.s_holder = 1
      <3>1. /\ gend'.state = "DECREMENT" /\ gend'.s_holder = 1
            /\ gend'.dholder = gend.dholder
        BY <1>1, <2>4 DEF ControlEdge
      <3>2. Candidate' = Candidate
        BY <2>4, <3>1 DEF Candidate
      <3>3. Residue(Candidate)' = Residue(Candidate)
        BY <1>2, <3>2 DEF Residue, MM!MultiplierUnit!Product
      <3>4. QED
        BY <1>2, <1>3, <2>1, <2>4, <3>1, <3>2, <3>3
    <2>5. CASE gend.state = "COMPARE" /\ gend.s_holder # 1
      <3>1. gend'.state = "INIT_RESET" /\ gend'.dholder = gend.dholder
        BY <1>1, <2>5 DEF ControlEdge
      <3>2. Candidate' = gend.dholder
        BY <3>1 DEF Candidate
      <3>3. ASSUME NEW m \in Key!Inverses PROVE gend.dholder \in 1 .. m
        <4>1. Candidate \in 1 .. m /\ Candidate # m
          BY <2>1, <2>3, <2>5
        <4>2. Candidate \in Nat /\ Candidate < m /\ m \in Nat /\ m <= Radix - 2
          BY <1>4, <4>1
        <4>3. Key!SubW(gend.dholder, 1) < Radix - 1
          BY <2>2, <4>2, RadixAssumption
        <4>4. gend.dholder = Candidate + 1
          BY <1>0, <2>2, <4>3, Incremented
        <4>5. QED
          BY <4>2, <4>4
      <3>4. QED
        BY <1>3, <3>1, <3>2, <3>3
    <2>6. CASE gend.state = "DECREMENT"
      <3>1. gend'.state = "FINISHED" /\ gend'.d = Candidate
        BY <1>1, <2>2, <2>6 DEF ControlEdge
      <3>2. Candidate \in Key!Inverses
        BY <2>1, <2>3, <2>6
      <3>3. \A m \in Key!Inverses : Candidate <= m
        BY <1>4, <2>1
      <3>4. QED
        BY <1>2, <1>3, <2>1, <3>1, <3>2, <3>3 DEF LeastInverse
    <2>7. QED
      BY <1>9, <2>4, <2>5, <2>6
  <1>10. CASE gend.state = "FINISHED"
    <2>1. gend'.state = "FINISHED" /\ gend'.d = gend.d
      BY <1>1, <1>10 DEF ControlEdge
    <2>2. phi > 0 /\ LeastInverse(gend.d)
      BY <1>0, <1>10 DEF KeyInv, Search
    <2>3. QED
      BY <1>2, <1>3, <2>1, <2>2 DEF LeastInverse
  <1>11. QED
    BY <1>0, <1>5, <1>6, <1>7, <1>8, <1>9, <1>10 DEF Key!States

LEMMA SearchStep ==
  ASSUME KeyInv, Key!Next
  PROVE  Search'
  <1>0. /\ reset_n \in {0, 1} /\ reset_n' \in {0, 1}
        /\ compute \in {0, 1} /\ compute' \in {0, 1}
        /\ gend \in Key!Registers /\ gend' \in Key!Registers
        /\ reset_n' = 0 => gend'.state = "RESET"
    BY TypeStep DEF KeyInv, KeyTypeOK
  <1>1. CASE reset_n' = 0
    BY <1>1 DEF Search
  <1>2. CASE reset_n = 0 /\ reset_n' = 1
    <2>1. compute' = 0 /\ gend'.state = "RESET"
      BY <1>2, ReleaseEdge DEF KeyInv
    <2>2. QED
      BY <2>1 DEF Search
  <1>3. CASE Live
    <2>0. /\ reset_n = 1 /\ gend.state \in Key!States
          /\ gend.generated_done \in {0, 1} /\ gend'.generated_done \in {0, 1}
      BY <1>0, <1>3 DEF Live, Key!Registers
    <2>1. ControlEdge
      BY <1>0, <1>3, ControlStep DEF Key!Next, Key!Clock
    <2>2. gend'.state = "WAIT" /\ gend'.generated_done = 0 => gend'.dholder = 1
      <3>1. CASE gend.state = "RESET"
        BY <2>1, <3>1 DEF ControlEdge
      <3>2. CASE gend.state = "WAIT"
        BY <2>0, <2>1, <3>2 DEF ControlEdge, KeyInv, Search
      <3>3. CASE gend.state \notin {"RESET", "WAIT"}
        BY <2>0, <2>1, <3>3 DEF ControlEdge
      <3>4. QED
        BY <3>1, <3>2, <3>3
    <2>3. CASE compute' = 0
      BY <2>2, <2>3 DEF Search
    <2>4. CASE compute' = 1 /\ compute = 1
      BY <1>3, <2>2, <2>4, SearchServing DEF Search
    <2>5. CASE compute' = 1 /\ compute = 0
      <3>1. fresh
        BY <1>3, <2>5, ClientStep
      <3>2. gend.state \in {"RESET", "WAIT"}
        BY <2>0, <3>1 DEF KeyInv, KeyParentInv
      <3>3. gend'.state = "WAIT"
        BY <2>1, <2>5, <3>2 DEF ControlEdge
      <3>4. QED
        BY <2>2, <3>3 DEF Search
    <2>6. QED
      BY <1>0, <2>3, <2>4, <2>5
  <1>4. QED
    BY <1>0, <1>1, <1>2, <1>3 DEF Live

-----------------------------------------------------------------------------
(* The invariant                                                           *)

\* At power-up mm0 is in its initial state, held in reset.
LEMMA InitUnit ==
  ASSUME Key!Init
  PROVE  MM!Init
  <1>1. modmult = MM!Cleared /\ MM!ClearedUnits
    BY DEF Key!Init, Key!PowerUp, Key!mm0!Cleared, Key!mm0!ClearedUnits,
           Key!mm0!mult0!Cleared, Key!mm0!modular0!Cleared, MM!Cleared,
           MM!ClearedUnits, MM!mult0!Cleared, MM!modular0!Cleared
  <1>2. /\ e \in Key!Word /\ phi \in Key!Word
        /\ gend.modmult_reset = 0 /\ gend.modmult_ready = 0 /\ gend.dholder = 0
    BY OperandWords DEF Key!Init, Key!PowerUp, Key!Cleared
  <1>3. 0 \in Key!Word /\ ModmultFresh = TRUE
    BY <1>2, RadixAssumption DEF Key!Word, ModmultFresh
  <1>4. QED
    BY <1>1, <1>2, <1>3 DEF MM!Init, MM!client!Init

LEMMA InitInv ==
  ASSUME Key!Init
  PROVE  KeyInv
  <1>1. /\ reset_n = 0 /\ compute = 0 /\ fresh = TRUE
        /\ e \in Key!Word /\ phi \in Key!Word
        /\ gend = [Key!Cleared EXCEPT !.dholder = 0, !.d = 0]
    BY OperandWords DEF Key!Init, Key!client!Init, Key!PowerUp
  <1>2. 0 \in Key!Word
    BY RadixAssumption DEF Key!Word
  <1>3. /\ gend \in Key!Registers
        /\ gend.state = "RESET" /\ gend.modmult_reset = 0
        /\ gend.modmult_ready = 0 /\ gend.dholder = 0
    BY <1>1, <1>2 DEF Key!Registers, Key!Cleared
  <1>4. MM!Init
    BY InitUnit
  <1>5. MM!IInv
    <2>1. Key!Word \subseteq MM!Word
      BY Presented
    <2>2. QED
      BY <1>4, <2>1, RadixAssumption, MM!InitInv
  <1>6. KeyTypeOK
    BY <1>1, <1>3, <1>5
       DEF KeyTypeOK, MM!IInv, MM!TypeInv, MM!MultiplierUnit!IInv,
           MM!ModularUnit!IInv
  <1>7. KeyParentInv /\ KeyStages /\ ModmultInv /\ Search
    BY <1>1, <1>3, <1>5 DEF KeyParentInv, KeyStages, ModmultInv, Search
  <1>8. QED
    BY <1>6, <1>7 DEF KeyInv

\* Nothing depends on anything else.
LEMMA StutterInv ==
  ASSUME KeyInv, UNCHANGED Key!vars
  PROVE  KeyInv'
  <1>1. UNCHANGED MM!vars
    BY DEF Key!vars, MM!vars, ModmultFresh
  <1>2. MM!IInv => MM!IInv'
    <2>1. Key!Word \subseteq MM!Word
      BY Presented
    <2>2. QED
      BY <1>1, <2>1, RadixAssumption, MM!StutterInv
  <1>3. MM!TypeInv'
    <2>1. MM!TypeInv
      BY DEF KeyInv, KeyTypeOK
    <2>2. QED
      BY <2>1
         DEF Key!vars, MM!TypeInv, MM!TypeOK, MM!MultiplierUnit!TypeOK,
             MM!ModularUnit!TypeOK, ModmultFresh, MM!MultiplierFresh, MM!ModularFresh
  <1>4. KeyTypeOK' /\ KeyParentInv' /\ KeyStages' /\ ModmultInv'
    BY <1>2, <1>3
       DEF KeyInv, Key!vars, KeyTypeOK, KeyParentInv, KeyStages, ModmultInv,
           ModmultReset, ModmultIdle, ModmultAnswered
  <1>5. Search'
    BY DEF KeyInv, Key!vars, Search, Candidate, Residue, Key!Inverses, LeastInverse,
           MM!MultiplierUnit!Product
  <1>6. QED
    BY <1>4, <1>5 DEF KeyInv

LEMMA StepInv ==
  ASSUME KeyInv, Key!Next
  PROVE  KeyInv'
  BY TypeStep, ParentStep, StagesStep, ModmultStep, SearchStep DEF KeyInv

\* The search, mm0 with its units and the parent stay together as KeyInv says
\* (generate_d.sv), for every word size, all operands that are words and
\* whenever the parent resets.
THEOREM KeyInvariant ==
  Key!Spec => []KeyInv
  <1>1. Key!Init => KeyInv
    BY InitInv
  <1>2. KeyInv /\ [Key!Next]_(Key!vars) => KeyInv'
    BY StepInv, StutterInv
  <1>3. QED
    BY <1>1, <1>2, PTL DEF Key!Spec

-----------------------------------------------------------------------------
(* The answer                                                              *)

\* Products of numbers grow with their second factor.
LEMMA TimesMonotone ==
  ASSUME NEW a \in Nat, NEW b \in Nat, NEW c \in Nat, b <= c
  PROVE  a * b \in Nat /\ a * c \in Nat /\ a * b <= a * c
  <1>1. c - b \in Nat
    OBVIOUS
  <1>2. a * (c - b) \in Nat /\ a * b \in Nat /\ a * c \in Nat
    BY <1>1
  <1>3. a * c = a * b + a * (c - b)
    OBVIOUS
  <1>4. QED
    BY <1>2, <1>3

\* An inverse leaves the remainder 1, which only a modulus above 1 has.
LEMMA ModulusAboveOne ==
  ASSUME NEW a \in Int, NEW p \in Nat, p > 0, a % p = 1
  PROVE  p > 1
  BY MM!ModularUnit!DivMod

\* A number below the modulus with remainder 1 is among the candidates.
LEMMA SmallInverse ==
  ASSUME NEW a \in Key!Word, NEW p \in Key!Word, p > 1, a * p < Radix,
         NEW k \in 1 .. p - 1, (a * k) % p = 1
  PROVE  k \in 1 .. Radix - 2 /\ ((a * k) % Radix) % p = 1
  <1>1. /\ a \in Nat /\ p \in Nat /\ k \in Nat /\ Radix \in Nat
        /\ p < Radix /\ k <= p
    BY RadixAssumption DEF Key!Word
  <1>2. a * k \in Nat /\ a * k < Radix
    BY <1>1, TimesMonotone
  <1>3. (a * k) % Radix = a * k
    BY <1>1, <1>2, MM!ModularUnit!SmallIsRemainder
  <1>4. QED
    BY <1>1, <1>3

\* A multiple of the modulus leaves no trace in a remainder.
LEMMA DropMultiple ==
  ASSUME NEW a \in Int, NEW r \in Int, NEW q \in Int, NEW p \in Nat, p > 1
  PROVE  (a * r + p * (a * q)) % p = (a * r) % p
  <1>1. PICK x \in Int : x = a * r
    OBVIOUS
  <1>2. PICK y \in Int : y = a * q
    OBVIOUS
  <1>3. p > 0
    OBVIOUS
  <1>4. Key!Word \subseteq MM!Word
    BY DEF Key!Word, MM!Word
  <1>5. (x + p * y) % p = x % p
    BY <1>3, <1>4, RadixAssumption, MM!ModularUnit!ModPlusMultiple
  <1>6. QED
    BY <1>1, <1>2, <1>5

\* A candidate whose product has not wrapped has an inverse below the modulus.
LEMMA ReducedInverse ==
  ASSUME NEW a \in Nat, NEW p \in Nat, p > 1, NEW k \in Nat, (a * k) % p = 1
  PROVE  k % p \in 1 .. p - 1 /\ (a * (k % p)) % p = 1
  <1> DEFINE q == k \div p
             r == k % p
  <1>1. k = p * q + r /\ r \in 0 .. p - 1 /\ q \in Int
    BY MM!ModularUnit!DivMod
  <1> HIDE DEF q, r
  <1>2. a * k = a * r + p * (a * q) /\ a * r \in Int /\ a * q \in Int
    BY <1>1
  <1>3. (a * r + p * (a * q)) % p = (a * r) % p
    <2>1. a \in Int /\ r \in Int /\ q \in Int
      BY <1>1
    <2>2. QED
      BY <2>1, DropMultiple, Zenon
  <1>4. (a * r) % p = 1
    BY <1>2, <1>3
  <1>5. r # 0
    <2>1. ASSUME r = 0 PROVE FALSE
      <3>1. a * r = 0
        BY <2>1
      <3>2. 0 % p = 0
        BY MM!ModularUnit!SmallIsRemainder
      <3>3. QED
        BY <1>4, <3>1, <3>2
    <2>2. QED
      BY <2>1
  <1>6. r \in 1 .. p - 1
    BY <1>1, <1>5
  <1>7. QED
    BY <1>4, <1>6 DEF r

\* The least candidate that passes the comparison is what KeyCorrect says.
LEMMA LeastIsKey ==
  ASSUME e \in Key!Word, phi \in Key!Word, phi > 0, e * phi < Radix,
         NEW d \in Nat, LeastInverse(d)
  PROVE  /\ phi > 1
         /\ IF \E k \in 1 .. phi - 1 : (e * k) % phi = 1
            THEN /\ d \in 1 .. phi - 1
                 /\ (e * d) % phi = 1
                 /\ \A k \in 1 .. d - 1 : (e * k) % phi # 1
            ELSE e * d >= Radix
  <1>0. /\ e \in Nat /\ phi \in Nat /\ Radix \in Nat /\ Radix > 1
        /\ e * d \in Nat
    BY RadixAssumption DEF Key!Word
  <1>1. /\ d \in 1 .. Radix - 2 /\ ((e * d) % Radix) % phi = 1
        /\ \A m \in Key!Inverses : d <= m
    BY DEF LeastInverse, Key!Inverses
  <1>2. phi > 1
    <2>1. (e * d) % Radix \in Int
      BY <1>0, MM!ModularUnit!DivMod
    <2>2. QED
      BY <1>0, <1>1, <2>1, ModulusAboveOne
  <1>3. ASSUME NEW k \in 1 .. phi - 1, (e * k) % phi = 1
        PROVE  d <= k
    <2>1. k \in Key!Inverses
      BY <1>2, <1>3, SmallInverse DEF Key!Inverses
    <2>2. QED
      BY <1>1, <2>1
  <1>4. CASE \E k \in 1 .. phi - 1 : (e * k) % phi = 1
    <2>1. PICK k \in 1 .. phi - 1 : (e * k) % phi = 1
      BY <1>4
    <2>2. d <= k
      BY <1>3, <2>1
    <2>3. d \in 1 .. phi - 1 /\ d <= phi
      BY <1>0, <1>1, <2>2
    <2>4. e * d < Radix
      BY <1>0, <2>3, TimesMonotone
    <2>5. (e * d) % Radix = e * d
      BY <1>0, <2>4, MM!ModularUnit!SmallIsRemainder
    <2>6. (e * d) % phi = 1
      BY <1>1, <2>5
    <2>7. ASSUME NEW m \in 1 .. d - 1 PROVE (e * m) % phi # 1
      <3>1. m \in 1 .. phi - 1 /\ m < d
        BY <1>0, <2>3
      <3>2. ASSUME (e * m) % phi = 1 PROVE FALSE
        <4>1. d <= m
          BY <1>3, <3>1, <3>2
        <4>2. QED
          BY <3>1, <4>1
      <3>3. QED
        BY <3>2
    <2>8. QED
      BY <1>2, <1>4, <2>3, <2>6, <2>7
  <1>5. CASE ~ \E k \in 1 .. phi - 1 : (e * k) % phi = 1
    <2>1. ASSUME e * d < Radix PROVE FALSE
      <3>1. (e * d) % Radix = e * d
        BY <1>0, <2>1, MM!ModularUnit!SmallIsRemainder
      <3>2. (e * d) % phi = 1
        BY <1>1, <3>1
      <3>3. d % phi \in 1 .. phi - 1 /\ (e * (d % phi)) % phi = 1
        BY <1>0, <1>2, <3>2, ReducedInverse
      <3>4. QED
        BY <1>5, <3>3
    <2>2. e * d >= Radix
      BY <1>0, <2>1
    <2>3. QED
      BY <1>2, <1>5, <2>2
  <1>6. QED
    BY <1>4, <1>5

\* The invariant says what the key is.
LEMMA KeyIsCorrect == KeyInv => Key!KeyCorrect
  <1> SUFFICES ASSUME KeyInv, Key!client!Asked, gend.generated_done = 1,
                      e * phi < Radix
               PROVE  /\ phi > 1
                      /\ IF \E k \in 1 .. phi - 1 : (e * k) % phi = 1
                         THEN /\ gend.d \in 1 .. phi - 1
                              /\ (e * gend.d) % phi = 1
                              /\ \A k \in 1 .. gend.d - 1 : (e * k) % phi # 1
                         ELSE e * gend.d >= Radix
    BY DEF Key!KeyCorrect
  <1>1. e \in Key!Word /\ phi \in Key!Word /\ gend.d \in Nat
    BY DEF KeyInv, KeyTypeOK, Key!Registers, Key!Word
  <1>2. reset_n = 1 /\ compute = 1 /\ gend.state = "FINISHED"
    BY DEF KeyInv, KeyParentInv, Key!client!Asked
  <1>3. phi > 0 /\ LeastInverse(gend.d)
    BY <1>2 DEF KeyInv, Search
  <1>4. QED
    BY <1>1, <1>3, LeastIsKey

\* The same of the model that runs one of the units, when it runs this one.
LEMMA KeyHolds == MCSpec => [](which = "generate_d" => KeyInv)
  <1> DEFINE Inv == which = "generate_d" => KeyInv
  <1>1. MCInit => Inv
    <2> SUFFICES ASSUME MCInit, which = "generate_d" PROVE KeyInv
      OBVIOUS
    <2>1. Key!Init
      BY DEF MCInit
    <2>2. QED
      BY <2>1, InitInv
  <1>2. Inv /\ [MCNext]_mcvars => Inv'
    <2> SUFFICES ASSUME Inv, [MCNext]_mcvars, which' = "generate_d" PROVE KeyInv'
      OBVIOUS
    <2>1. CASE MCNext
      <3>1. which = "generate_d" /\ Key!Next
        BY <2>1 DEF MCNext
      <3>2. QED
        BY <3>1, StepInv
    <2>2. CASE UNCHANGED mcvars
      <3>1. which = "generate_d" /\ UNCHANGED Key!vars
        BY <2>2 DEF mcvars, vars, Key!vars
      <3>2. QED
        BY <3>1, StutterInv
    <2>3. QED
      BY <2>1, <2>2
  <1>3. QED
    BY <1>1, <1>2, PTL DEF MCSpec

\* When the parent sees generated_done and no product below e * phi overflows,
\* d is the least inverse of e modulo phi (generate_d.sv 79-155), whatever the
\* word size; where e has no inverse, the product of d has wrapped.
THEOREM KeyIsInverse == MCSpec => []KeyCorrect
  <1>1. (which = "generate_d" => KeyInv) => KeyCorrect
    BY KeyIsCorrect DEF KeyCorrect
  <1>2. QED
    BY <1>1, KeyHolds, PTL

-----------------------------------------------------------------------------
(* The contract with mm0                                                   *)

\* The contract the runs check is the specification proved about here.
LEMMA SameContract ==
  /\ MM!Init <=> Key!ModmultContract!Init
  /\ MM!Next <=> Key!ModmultContract!Next
  <1>1. MM!Init <=> Key!ModmultContract!Init
    BY Zenon
       DEF MM!Init, MM!client!Init, MM!Cleared, MM!ClearedUnits, MM!mult0!Cleared,
           MM!modular0!Cleared, ModmultFresh, Key!ModmultContract!Init,
           Key!ModmultContract!client!Init, Key!ModmultContract!Cleared,
           Key!ModmultContract!ClearedUnits, Key!ModmultContract!mult0!Cleared,
           Key!ModmultContract!modular0!Cleared
  <1>2. MM!Clock <=> Key!ModmultContract!Clock
    <2>1. MM!Control <=> Key!ModmultContract!Control
      BY Zenon
         DEF MM!Control, MM!Reset, MM!Wait, MM!Multiply, MM!MultiplyDone, MM!Modulo,
             MM!ModuloDone, MM!ModmultDone, MM!Cleared, MM!NextState,
             Key!ModmultContract!Control, Key!ModmultContract!Reset,
             Key!ModmultContract!Wait, Key!ModmultContract!Multiply,
             Key!ModmultContract!MultiplyDone, Key!ModmultContract!Modulo,
             Key!ModmultContract!ModuloDone, Key!ModmultContract!ModmultDone,
             Key!ModmultContract!Cleared, Key!ModmultContract!NextState
    <2>2. MM!mult0!Clock <=> Key!ModmultContract!mult0!Clock
      BY Zenon
         DEF MM!mult0!Clock, MM!mult0!Reset, MM!mult0!Wait, MM!mult0!MultiplyLoop0,
             MM!mult0!MultiplyLoop1, MM!mult0!MultiplyDone, MM!mult0!Cleared,
             MM!mult0!NextState, MM!mult0!Counter, MM!mult0!AddW,
             Key!ModmultContract!mult0!Clock, Key!ModmultContract!mult0!Reset,
             Key!ModmultContract!mult0!Wait, Key!ModmultContract!mult0!MultiplyLoop0,
             Key!ModmultContract!mult0!MultiplyLoop1,
             Key!ModmultContract!mult0!MultiplyDone,
             Key!ModmultContract!mult0!Cleared, Key!ModmultContract!mult0!NextState,
             Key!ModmultContract!mult0!Counter, Key!ModmultContract!mult0!AddW
    <2>3. MM!modular0!Clock <=> Key!ModmultContract!modular0!Clock
      BY Zenon
         DEF MM!modular0!Clock, MM!modular0!Reset, MM!modular0!Wait,
             MM!modular0!ModInit, MM!modular0!ModAssign, MM!modular0!ModDone,
             MM!modular0!Cleared, MM!modular0!NextState, MM!modular0!SubW,
             Key!ModmultContract!modular0!Clock, Key!ModmultContract!modular0!Reset,
             Key!ModmultContract!modular0!Wait, Key!ModmultContract!modular0!ModInit,
             Key!ModmultContract!modular0!ModAssign,
             Key!ModmultContract!modular0!ModDone,
             Key!ModmultContract!modular0!Cleared,
             Key!ModmultContract!modular0!NextState,
             Key!ModmultContract!modular0!SubW
    <2>4. QED
      BY <2>1, <2>2, <2>3 DEF MM!Clock, Key!ModmultContract!Clock
  <1>3. MM!client!Drive <=> Key!ModmultContract!client!Drive
    BY Zenon
       DEF MM!client!Drive, MM!client!AssertReset, MM!client!ReleaseReset,
           MM!client!RaiseReady, MM!client!LowerReady, MM!client!Hold, ModmultFresh,
           Key!ModmultContract!client!Drive, Key!ModmultContract!client!AssertReset,
           Key!ModmultContract!client!ReleaseReset,
           Key!ModmultContract!client!RaiseReady,
           Key!ModmultContract!client!LowerReady, Key!ModmultContract!client!Hold
  <1>4. MM!Operands <=> Key!ModmultContract!Operands
    BY Zenon
       DEF MM!Operands, MM!client!Serving, MM!client!Asked,
           Key!ModmultContract!Operands, Key!ModmultContract!client!Serving,
           Key!ModmultContract!client!Asked
  <1>5. QED
    BY <1>1, <1>2, <1>3, <1>4 DEF MM!Next, Key!ModmultContract!Next

\* Towards mm0 the search is a parent as ModularMultiplicationSpec assumes it
\* (generate_d.sv 89-131): one request for each reset, held until the answer,
\* its operands stable.  The edge at which reset_n arrives is the exception:
\* e may be cleared there, while mm0 is reset one clock later.
THEOREM ModmultContractKept ==
  Key!Spec => /\ Key!ModmultContract!Init
                 /\ [][reset_n' = 1 =>
                         [Key!ModmultContract!Next]_(Key!ModmultContract!vars)]_(Key!vars)
  <1>1. Key!Init => Key!ModmultContract!Init
    BY InitUnit, SameContract
  <1>2. KeyInv /\ [Key!Next]_(Key!vars) /\ reset_n' = 1 =>
          [Key!ModmultContract!Next]_(Key!ModmultContract!vars)
    <2>1. ASSUME KeyInv, Key!Next, reset_n' = 1 PROVE Key!ModmultContract!Next
      <3>1. reset_n \in {0, 1}
        BY <2>1 DEF KeyInv, KeyTypeOK
      <3>2. CASE reset_n = 0
        <4>1. gend'.modmult_reset = 0
          BY <2>1, <3>2, ReleaseEdge DEF KeyInv
        <4>2. QED
          BY <2>1, <4>1, ModmultNext, SameContract
      <3>3. CASE reset_n = 1
        BY <2>1, <3>3, ModmultNext, SameContract DEF Live
      <3>4. QED
        BY <3>1, <3>2, <3>3
    <2>2. ASSUME UNCHANGED Key!vars PROVE UNCHANGED Key!ModmultContract!vars
      BY <2>2 DEF Key!vars, Key!ModmultContract!vars
    <2>3. QED
      BY <2>1, <2>2
  <1>3. QED
    BY <1>1, <1>2, KeyInvariant, PTL DEF Key!Spec

-----------------------------------------------------------------------------
(* The abstract unit                                                       *)

\* What the next-state and output blocks do to what is seen of the search, at
\* an edge before which it was out of reset.
LEMMA SeenEdge ==
  ASSUME gend \in Key!Registers, reset_n = 1, Key!Control
  PROVE  /\ gend.state = "RESET" =>
              gend'.state = Key!NextState("WAIT") /\ gend'.generated_done = 0
         /\ gend.state = "WAIT" =>
              /\ gend'.state = Key!NextState(IF compute = 1 THEN "INIT_MODMULT"
                                                        ELSE "WAIT")
              /\ gend'.generated_done = gend.generated_done
              /\ gend'.d = gend.d
         /\ gend.state \notin {"RESET", "WAIT", "FINISHED"} =>
              /\ gend'.generated_done = gend.generated_done
              /\ gend'.state \notin {"RESET", "WAIT"} \/ reset_n' = 0
              /\ reset_n' = 0 => gend'.state = "RESET"
         /\ gend.state = "FINISHED" =>
              /\ gend'.state = Key!NextState(IF compute = 0 THEN "WAIT"
                                                        ELSE "FINISHED")
              /\ gend'.generated_done = 1
              /\ gend'.d = gend.d
  <1> USE DEF Key!Registers
  <1>1. CASE Key!Reset
    BY <1>1 DEF Key!Reset, Key!Cleared
  <1>2. CASE Key!Wait
    BY <1>2 DEF Key!Wait
  <1>3. CASE Key!InitModmult
    BY <1>3 DEF Key!InitModmult
  <1>4. CASE Key!InitDone
    BY <1>4 DEF Key!InitDone
  <1>5. CASE Key!InitReset
    BY <1>5 DEF Key!InitReset
  <1>6. CASE Key!InitResetDone
    BY <1>6 DEF Key!InitResetDone
  <1>7. CASE Key!ModmultLoop0
    BY <1>7 DEF Key!ModmultLoop0
  <1>8. CASE Key!ModmultLoop1
    BY <1>8 DEF Key!ModmultLoop1
  <1>9. CASE Key!Compare
    BY <1>9 DEF Key!Compare
  <1>10. CASE Key!Decrement
    BY <1>10 DEF Key!Decrement
  <1>11. CASE Key!Finished
    BY <1>11 DEF Key!Finished
  <1>12. QED
    BY <1>1, <1>2, <1>3, <1>4, <1>5, <1>6, <1>7, <1>8, <1>9, <1>10, <1>11
       DEF Key!Control

\* The answer allowed for e and phi is their least inverse.
LEMMA AnswerIsLeast == Key!KeyAnswers(<<e, phi>>) = {k \in Key!Inverses : LeastInverse(k)}
  BY DEF Key!KeyAnswers, Key!Inverses, LeastInverse

\* Every edge is one of the ComputeUnit that is seen through generated_done.
LEMMA SeenStep ==
  ASSUME KeyInv, Key!Next
  PROVE  Key!ComputeUnitView!Clock
  <1> USE DEF Key!ComputeUnitView!Clock
  <1>0. /\ reset_n \in {0, 1} /\ reset_n' \in {0, 1} /\ compute \in {0, 1}
        /\ gend \in Key!Registers /\ gend.state \in Key!States
        /\ gend.generated_done \in {0, 1} /\ Key!Control
    BY TypeStep DEF KeyInv, KeyTypeOK, Key!Registers, Key!Next, Key!Clock
  <1>1. CASE reset_n = 0
    <2>1. gend.state = "RESET"
      BY <1>1 DEF KeyInv, KeyParentInv
    <2>2. gend'.state = "RESET" /\ gend'.generated_done = 0
      BY <1>0, <1>1, <2>1, ResetStep DEF Key!Cleared
    <2>3. Key!Unit' = [status |-> "RESET", result |-> 0, done |-> 0]
      BY <2>2 DEF Key!Unit, Key!Status
    <2>4. Key!Unit.status = "RESET"
      BY <2>1 DEF Key!Unit, Key!Status
    <2>5. Key!ComputeUnitView!Reset
      BY <1>1, <2>3, <2>4
         DEF Key!ComputeUnitView!Reset, Key!ComputeUnitView!Cleared,
             Key!ComputeUnitView!NextStatus
    <2>6. QED
      BY <2>5
  <1>2. CASE reset_n = 1
    <2>0. /\ gend.state \notin {"RESET", "WAIT"} =>
               compute = 1 \/ gend.generated_done = 1
          /\ gend.state = "WAIT" /\ gend.generated_done = 1 => compute = 0
          /\ gend.generated_done = 1 => gend.state \in {"WAIT", "FINISHED"}
      BY <1>2 DEF KeyInv, KeyParentInv
    <2>1. ASSUME compute = 1, gend.generated_done = 0, reset_n' = 1
          PROVE  e' = e /\ phi' = phi
      <3>1. compute' = 1
        BY <1>2, <2>1, ClientStep DEF Live
      <3>2. QED
        BY <1>2, <2>1, <3>1, OperandsStay DEF Live
    <2>2. CASE gend.state = "RESET"
      <3>1. gend'.state = Key!NextState("WAIT") /\ gend'.generated_done = 0
        BY <1>0, <1>2, <2>2, SeenEdge
      <3>2. Key!Unit' = [status |-> Key!NextState("WAIT"), result |-> 0, done |-> 0]
        BY <3>1 DEF Key!Unit, Key!Status
      <3>3. Key!Unit.status = "RESET"
        BY <2>2 DEF Key!Unit, Key!Status
      <3>4. Key!ComputeUnitView!Reset
        BY <3>2, <3>3
           DEF Key!ComputeUnitView!Reset, Key!ComputeUnitView!Cleared,
               Key!ComputeUnitView!NextStatus
      <3>5. QED
        BY <3>4
    <2>3. CASE gend.state = "WAIT" /\ gend.generated_done = 0
      <3>1. /\ gend'.state = Key!NextState(IF compute = 1 THEN "INIT_MODMULT"
                                                      ELSE "WAIT")
            /\ gend'.generated_done = 0
        BY <1>0, <1>2, <2>3, SeenEdge
      <3>2. Key!Unit = [status |-> "WAIT", result |-> 0, done |-> 0]
        BY <2>3 DEF Key!Unit, Key!Status
      <3>3. Key!Unit' = [status |-> Key!NextState(IF compute = 0 THEN "WAIT"
                                          ELSE IF Key!KeyAnswers(<<e, phi>>) = {}
                                               THEN "STUCK" ELSE "BUSY"),
                     result |-> 0, done |-> 0]
        <4>1. Key!Unit'.result = 0 /\ Key!Unit'.done = 0
          BY <3>1 DEF Key!Unit
        <4>2. CASE reset_n' = 0
          BY <3>1, <4>2 DEF Key!Unit, Key!Status
        <4>3. CASE reset_n' = 1 /\ compute = 0
          BY <1>2, <3>1, <4>3 DEF Key!Unit, Key!Status
        <4>4. CASE reset_n' = 1 /\ compute = 1
          <5>1. Key!KeyAnswers(<<e, phi>>)' = Key!KeyAnswers(<<e, phi>>)
            BY <2>1, <2>3, <4>4 DEF Key!KeyAnswers
          <5>2. gend'.state = "INIT_MODMULT"
            BY <1>2, <3>1, <4>4
          <5>3. QED
            BY <1>2, <3>1, <4>4, <5>1, <5>2 DEF Key!Unit, Key!Status
        <4>5. QED
          BY <1>0, <4>2, <4>3, <4>4
      <3>4. Key!ComputeUnitView!Wait
        BY <3>2, <3>3
           DEF Key!ComputeUnitView!Wait, Key!ComputeUnitView!NextStatus
      <3>5. QED
        BY <3>4
    <2>4. CASE gend.state = "FINISHED" /\ gend.generated_done = 0
      <3>1. /\ gend'.state = Key!NextState("FINISHED")
            /\ gend'.generated_done = 1 /\ gend'.d = gend.d
        BY <1>0, <1>2, <2>0, <2>4, SeenEdge
      <3>2. gend.d \in Key!KeyAnswers(<<e, phi>>)
        <4>1. LeastInverse(gend.d)
          BY <1>2, <2>0, <2>4 DEF KeyInv, Search
        <4>2. QED
          BY <4>1, AnswerIsLeast DEF LeastInverse
      <3>3. Key!Unit.status = "BUSY"
        BY <2>4, <3>2 DEF Key!Unit, Key!Status
      <3>4. Key!Unit' = [status |-> Key!NextState("FINISHED"), result |-> gend.d, done |-> 1]
        BY <3>1 DEF Key!Unit, Key!Status
      <3>5. Key!ComputeUnitView!Finish
        BY <3>2, <3>3, <3>4
           DEF Key!ComputeUnitView!Finish, Key!ComputeUnitView!NextStatus
      <3>6. QED
        BY <3>5
    <2>5. CASE /\ gend.state \notin {"RESET", "WAIT", "FINISHED"}
               /\ gend.generated_done = 0
      <3>1. /\ gend'.generated_done = 0
            /\ gend'.state \notin {"RESET", "WAIT"} \/ reset_n' = 0
            /\ reset_n' = 0 => gend'.state = "RESET"
        BY <1>0, <1>2, <2>5, SeenEdge
      <3>2. Key!Unit = [status |-> IF Key!KeyAnswers(<<e, phi>>) = {}
                               THEN "STUCK" ELSE "BUSY",
                    result |-> 0, done |-> 0]
        BY <2>5 DEF Key!Unit, Key!Status
      <3>3. Key!Unit' = [status |-> Key!NextState(IF Key!KeyAnswers(<<e, phi>>) = {}
                                          THEN "STUCK" ELSE "BUSY"),
                     result |-> 0, done |-> 0]
        <4>1. CASE reset_n' = 0
          BY <3>1, <4>1 DEF Key!Unit, Key!Status
        <4>2. CASE reset_n' = 1
          <5>1. Key!KeyAnswers(<<e, phi>>)' = Key!KeyAnswers(<<e, phi>>)
            BY <2>0, <2>1, <2>5, <4>2 DEF Key!KeyAnswers
          <5>2. QED
            BY <1>2, <3>1, <4>2, <5>1 DEF Key!Unit, Key!Status
        <4>3. QED
          BY <1>0, <4>1, <4>2
      <3>4. Key!ComputeUnitView!Work \/ Key!ComputeUnitView!Stuck
        BY <3>2, <3>3
           DEF Key!ComputeUnitView!Work, Key!ComputeUnitView!Stuck,
               Key!ComputeUnitView!NextStatus
      <3>5. QED
        BY <3>4
    <2>6. CASE gend.state = "FINISHED" /\ gend.generated_done = 1
      <3>1. /\ gend'.state = Key!NextState(IF compute = 0 THEN "WAIT" ELSE "FINISHED")
            /\ gend'.generated_done = 1 /\ gend'.d = gend.d
        BY <1>0, <1>2, <2>6, SeenEdge
      <3>2. Key!Unit = [status |-> "FINISHED", result |-> gend.d, done |-> 1]
        BY <2>6 DEF Key!Unit, Key!Status
      <3>3. Key!Unit' = [status |-> Key!NextState(IF compute = 0 THEN "SPENT"
                                                         ELSE "FINISHED"),
                     result |-> gend.d, done |-> 1]
        BY <3>1 DEF Key!Unit, Key!Status
      <3>4. Key!ComputeUnitView!Finished
        BY <3>2, <3>3
           DEF Key!ComputeUnitView!Finished, Key!ComputeUnitView!NextStatus
      <3>5. QED
        BY <3>4
    <2>7. CASE gend.state = "WAIT" /\ gend.generated_done = 1
      <3>1. /\ gend'.state = Key!NextState("WAIT")
            /\ gend'.generated_done = 1 /\ gend'.d = gend.d
        BY <1>0, <1>2, <2>0, <2>7, SeenEdge
      <3>2. Key!Unit = [status |-> "SPENT", result |-> gend.d, done |-> 1]
        BY <2>7 DEF Key!Unit, Key!Status
      <3>3. Key!Unit' = [status |-> Key!NextState("SPENT"), result |-> gend.d, done |-> 1]
        BY <3>1 DEF Key!Unit, Key!Status
      <3>4. Key!ComputeUnitView!Spent
        BY <3>2, <3>3
           DEF Key!ComputeUnitView!Spent, Key!ComputeUnitView!NextStatus
      <3>5. QED
        BY <3>4
    <2>8. QED
      BY <1>0, <2>0, <2>2, <2>3, <2>4, <2>5, <2>6, <2>7
  <1>3. QED
    BY <1>0, <1>1, <1>2

\* generate_d.sv is the compute unit that io_module.sv relies on: reset, it
\* waits; started, it computes on the operands presented, for ever if the
\* comparison never succeeds; and it shows the least inverse until its next
\* reset.
THEOREM KeyImplements ==
  Key!Spec => Key!ComputeUnitView!Spec
  <1>1. Key!Init => Key!ComputeUnitView!Init
    <2>1. Key!Init => gend.state = "RESET" /\ gend.generated_done = 0
      BY DEF Key!Init, Key!PowerUp, Key!Cleared
    <2>2. QED
      BY <2>1 DEF Key!Unit, Key!Status, Key!ComputeUnitView!Init,
                  Key!ComputeUnitView!Cleared
  <1>2. KeyInv /\ [Key!Next]_(Key!vars) => [Key!ComputeUnitView!Clock]_(Key!ComputeUnitView!vars)
    <2>1. UNCHANGED Key!vars => UNCHANGED Key!ComputeUnitView!vars
      BY DEF Key!vars, Key!ComputeUnitView!vars, Key!Unit, Key!Status
    <2>2. QED
      BY <2>1, SeenStep
  <1>3. QED
    BY <1>1, <1>2, KeyInvariant, PTL DEF Key!Spec, Key!ComputeUnitView!Spec

-----------------------------------------------------------------------------
(* phi_gen.sv and n_gen.sv                                                 *)

GenMultiplierFresh ==
  \/ reset_n = 0
  \/ /\ gen.mult_ready = 0
     /\ mult.state \in {"RESET", "WAIT"}
     /\ mult.mult_done = 0

\* The multiplier of the product generator.
Multiplier ==
  INSTANCE MultiplierProofs
    WITH mult_ready <- gen.mult_ready, in1 <- gen.gen_in1, in2 <- gen.gen_in2,
         fresh <- GenMultiplierFresh

USE DEF Bit

GenTypeOK ==
  /\ reset_n \in Bit /\ gen_ready \in Bit /\ fresh \in BOOLEAN
  /\ decrement \in Bit /\ in1 \in Word /\ in2 \in Word
  /\ gen \in Gen!Registers

\* Towards its parent, as ParentInv says of the search.
GenParentInv ==
  /\ reset_n = 0 => gen.state = "RESET"
  /\ reset_n = 1 /\ fresh => /\ gen_ready = 0
                                 /\ gen.state \in {"RESET", "WAIT"}
                                 /\ gen.gen_done = 0
  /\ reset_n = 1 /\ gen.gen_done = 1 =>
       /\ ~fresh
       /\ gen.state = "FINISHED" \/ (gen.state = "WAIT" /\ gen_ready = 0)
  /\ reset_n = 1 /\ gen.state \notin {"RESET", "WAIT"} =>
       gen_ready = 1 \/ gen.gen_done = 1

MultiplierIdle ==
  /\ gen.mult_ready = 0
  /\ mult.state \in {"RESET", "WAIT"}
  /\ mult.mult_done = 0

Factors == gen.gen_in1 = SubW(in1, decrement) /\ gen.gen_in2 = SubW(in2, decrement)

\* Towards the multiplier, state by state: once started it has the factors of
\* the operands presented, and mult_ready stays up until the next reset.
GenStages ==
  reset_n = 1 =>
    /\ gen.state \in {"RESET", "WAIT"} /\ gen.gen_done = 0 => MultiplierIdle
    /\ gen.state = "COMPUTE" /\ gen.mult_ready = 0 => MultiplierIdle
    /\ gen.state = "COMPUTE" /\ gen.mult_ready = 1 => Factors
    /\ gen.state = "FINISHED" \/ gen.gen_done = 1 =>
         gen.mult_ready = 1 /\ mult.mult_done = 1
    /\ gen.state = "FINISHED" /\ gen.gen_done = 0 => Factors
    /\ gen.state = "FINISHED" /\ gen.gen_done = 1 => gen.out = mult.out

GenIInv == GenTypeOK /\ GenParentInv /\ GenStages /\ Multiplier!IInv

\* The multiplier of the unit is the one the proofs are about.
LEMMA SameMultiplier == Gen!gen_multiplier!Clock <=> Multiplier!Clock
  BY Zenon
     DEF Gen!gen_multiplier!Clock, Gen!gen_multiplier!Reset,
         Gen!gen_multiplier!Wait, Gen!gen_multiplier!MultiplyLoop0,
         Gen!gen_multiplier!MultiplyLoop1, Gen!gen_multiplier!MultiplyDone,
         Gen!gen_multiplier!Cleared, Gen!gen_multiplier!NextState,
         Gen!gen_multiplier!Counter, Gen!gen_multiplier!AddW,
         Multiplier!Clock, Multiplier!Reset, Multiplier!Wait,
         Multiplier!MultiplyLoop0, Multiplier!MultiplyLoop1,
         Multiplier!MultiplyDone, Multiplier!Cleared, Multiplier!NextState,
         Multiplier!Counter, Multiplier!AddW

\* All instances speak of the same words.
LEMMA SameWords ==
  /\ Gen!Word = Word /\ Multiplier!Word = Word /\ Gen!Bit = Bit
  /\ \A a, b \in Word : Gen!SubW(a, b) = SubW(a, b)
  BY DEF Gen!Word, Multiplier!Word, Word, Gen!Bit, Gen!SubW, SubW

\* What an edge does to the registers of the generator.
GenEdge ==
  LET old == gen  new == gen'
      MultKept == /\ new.mult_ready = old.mult_ready
                  /\ new.gen_in1 = old.gen_in1 /\ new.gen_in2 = old.gen_in2
  IN
  /\ old.state = "RESET" =>
       /\ new.state = Gen!NextState("WAIT")
       /\ new.mult_ready = 0 /\ new.gen_done = 0
  /\ old.state = "WAIT" =>
       /\ new.state = Gen!NextState(IF gen_ready = 1 THEN "COMPUTE" ELSE "WAIT")
       /\ new.gen_done = old.gen_done /\ new.out = old.out /\ MultKept
  /\ old.state = "COMPUTE" =>
       /\ new.state = Gen!NextState(IF mult.mult_done = 1 THEN "FINISHED"
                                                         ELSE "COMPUTE")
       /\ new.gen_done = old.gen_done /\ new.mult_ready = 1
       /\ new.gen_in1 = SubW(in1, decrement) /\ new.gen_in2 = SubW(in2, decrement)
  /\ old.state = "FINISHED" =>
       /\ new.state = Gen!NextState(IF gen_ready = 0 THEN "WAIT" ELSE "FINISHED")
       /\ new.gen_done = 1 /\ new.out = mult.out /\ MultKept

LEMMA GenControlStep ==
  ASSUME GenTypeOK, mult.out \in Word, Gen!Control
  PROVE  /\ GenEdge
         /\ gen' \in Gen!Registers /\ (reset_n' = 0 => gen'.state = "RESET")
  <1>0. /\ gen \in Gen!Registers /\ 0 \in Word /\ 1 \in Word
        /\ decrement \in Word /\ in1 \in Word /\ in2 \in Word
    BY RadixAssumption DEF GenTypeOK, Word
  <1>1. /\ SubW(in1, decrement) \in Word /\ SubW(in2, decrement) \in Word
        /\ Gen!SubW(in1, decrement) = SubW(in1, decrement)
        /\ Gen!SubW(in2, decrement) = SubW(in2, decrement)
    BY <1>0, SameWords, SubWType DEF Key!Word, Key!SubW, Word, SubW
  <1> USE <1>0, <1>1, SameWords DEF Gen!Registers, GenEdge, Gen!NextState, Gen!States
  <1>2. CASE Gen!Reset
    BY <1>2 DEF Gen!Reset, Gen!Cleared
  <1>3. CASE Gen!Wait
    BY <1>3 DEF Gen!Wait
  <1>4. CASE Gen!Compute
    BY <1>4 DEF Gen!Compute
  <1>5. CASE Gen!Finished
    BY <1>5 DEF Gen!Finished
  <1>6. QED
    BY <1>2, <1>3, <1>4, <1>5 DEF Gen!Control

\* Everything keeps its type.
LEMMA GenTypeStep ==
  ASSUME GenIInv, Gen!Next
  PROVE  /\ GenTypeOK' /\ GenEdge
         /\ reset_n' = 0 => gen'.state = "RESET"
         /\ Multiplier!Clock
  <1>1. /\ reset_n' \in Bit /\ gen_ready' \in Bit /\ fresh' \in BOOLEAN
    BY DEF GenIInv, GenTypeOK, Gen!Next, Gen!client!Drive, Gen!client!AssertReset,
           Gen!client!ReleaseReset, Gen!client!RaiseReady, Gen!client!LowerReady,
           Gen!client!Hold
  <1>2. decrement' \in Bit /\ in1' \in Word /\ in2' \in Word
    BY OperandWords DEF GenIInv, GenTypeOK, Gen!Next, Gen!Operands
  <1>3. mult.out \in Word
    BY SameWords
       DEF GenIInv, Multiplier!IInv, Multiplier!TypeOK, Multiplier!Registers
  <1>4. QED
    BY <1>1, <1>2, <1>3, GenControlStep, SameMultiplier
       DEF GenIInv, Gen!Next, Gen!Clock, GenTypeOK

\* What the parent may do while the unit is out of reset.
LEMMA GenClientStep ==
  ASSUME Gen!Next, reset_n = 1, reset_n' = 1
  PROVE  /\ \/ gen_ready = 0 /\ gen_ready' = 1 /\ fresh /\ ~fresh'
            \/ /\ gen_ready = 1 /\ gen_ready' = 0 /\ fresh' = fresh
               /\ gen.gen_done = 1
            \/ gen_ready' = gen_ready /\ fresh' = fresh
         /\ gen_ready = 1 /\ gen_ready' = 1 => in1' = in1 /\ in2' = in2
         /\ decrement' = decrement
  <1>1. gen_ready = 1 /\ gen_ready' = 1 => in1' = in1 /\ in2' = in2
    BY DEF Gen!Next, Gen!Operands, Gen!client!Serving, Gen!client!Asked
  <1>2. CASE Gen!client!AssertReset \/ Gen!client!ReleaseReset
    BY <1>2 DEF Gen!client!AssertReset, Gen!client!ReleaseReset
  <1>3. CASE Gen!client!RaiseReady
    BY <1>1, <1>3, Zenon DEF Gen!client!RaiseReady, Gen!Next
  <1>4. CASE Gen!client!LowerReady
    BY <1>1, <1>4, Zenon DEF Gen!client!LowerReady, Gen!Next
  <1>5. CASE Gen!client!Hold
    BY <1>1, <1>5, Zenon DEF Gen!client!Hold, Gen!Next
  <1>6. QED
    BY <1>2, <1>3, <1>4, <1>5 DEF Gen!Next, Gen!client!Drive

LEMMA GenParentStep ==
  ASSUME GenIInv, Gen!Next
  PROVE  GenParentInv'
  <1>0. /\ reset_n \in {0, 1} /\ reset_n' \in {0, 1}
        /\ gen_ready \in {0, 1} /\ gen_ready' \in {0, 1}
        /\ gen.state \in Gen!States /\ gen.gen_done \in {0, 1}
        /\ GenEdge /\ (reset_n' = 0 => gen'.state = "RESET")
    BY GenTypeStep DEF GenIInv, GenTypeOK, Gen!Registers, Gen!Bit
  <1> USE DEF Gen!States, Gen!NextState
  <1>1. CASE reset_n' = 0
    BY <1>0, <1>1 DEF GenParentInv
  <1>2. CASE reset_n = 0 /\ reset_n' = 1
    <2>1. gen_ready' = 0
      BY <1>2 DEF Gen!Next, Gen!client!Drive, Gen!client!AssertReset,
                  Gen!client!ReleaseReset, Gen!client!RaiseReady,
                  Gen!client!LowerReady, Gen!client!Hold
    <2>2. gen'.state = "RESET" /\ gen'.gen_done = 0
      BY <1>0, <1>2 DEF GenEdge, GenIInv, GenParentInv
    <2>3. QED
      BY <1>2, <2>1, <2>2 DEF GenParentInv
  <1>3. CASE reset_n = 1 /\ reset_n' = 1
    <2>1. \/ gen_ready = 0 /\ gen_ready' = 1 /\ fresh /\ ~fresh'
          \/ /\ gen_ready = 1 /\ gen_ready' = 0 /\ fresh' = fresh
             /\ gen.gen_done = 1
          \/ gen_ready' = gen_ready /\ fresh' = fresh
      BY <1>3, GenClientStep
    <2>2. GenParentInv
      BY DEF GenIInv
    <2>3. CASE gen.state = "RESET"
      BY <1>0, <1>3, <2>1, <2>2, <2>3 DEF GenParentInv, GenEdge
    <2>4. CASE gen.state = "WAIT"
      BY <1>0, <1>3, <2>1, <2>2, <2>4 DEF GenParentInv, GenEdge
    <2>5. CASE gen.state = "COMPUTE"
      BY <1>0, <1>3, <2>1, <2>2, <2>5 DEF GenParentInv, GenEdge
    <2>6. CASE gen.state = "FINISHED"
      BY <1>0, <1>3, <2>1, <2>2, <2>6 DEF GenParentInv, GenEdge
    <2>7. QED
      BY <1>0, <2>3, <2>4, <2>5, <2>6
  <1>4. QED
    BY <1>0, <1>1, <1>2, <1>3

\* What an edge does to a multiplier that is idle, has answered or is in reset.
LEMMA MultiplierEdge ==
  ASSUME GenIInv, Multiplier!Clock, reset_n' = 1
  PROVE  /\ reset_n = 1 /\ MultiplierIdle =>
              mult'.state = "WAIT" /\ mult'.mult_done = 0
         /\ reset_n = 1 /\ mult.mult_done = 1 =>
              mult'.out = mult.out /\ mult'.mult_done = 1
         /\ reset_n = 0 => mult'.state = "RESET" /\ mult'.mult_done = 0
  <1>0. mult \in Multiplier!Registers /\ Multiplier!AnsweredIsIdle
        /\ (reset_n = 0 => mult.state = "RESET")
    BY DEF GenIInv, Multiplier!IInv, Multiplier!TypeOK, Multiplier!ResetClears
  <1>1. CASE reset_n = 1 /\ MultiplierIdle
    <2>1. Multiplier!Reset \/ Multiplier!Wait
      BY <1>1
         DEF MultiplierIdle, Multiplier!Clock, Multiplier!MultiplyLoop0,
             Multiplier!MultiplyLoop1, Multiplier!MultiplyDone
    <2>2. CASE Multiplier!Reset
      BY <1>1, <2>2
         DEF MultiplierIdle, Multiplier!Reset, Multiplier!Cleared,
             Multiplier!NextState
    <2>3. CASE Multiplier!Wait
      BY <1>0, <1>1, <2>3
         DEF MultiplierIdle, Multiplier!Wait, Multiplier!NextState,
             Multiplier!Registers
    <2>4. QED
      BY <2>1, <2>2, <2>3
  <1>2. CASE reset_n = 1 /\ mult.mult_done = 1
    <2>1. mult'.out = mult.out /\ mult'.mult_done = 1
      BY <1>0, <1>2, RadixAssumption, Multiplier!AnswerKept
    <2>2. QED
      BY <1>2, <2>1 DEF MultiplierIdle
  <1>3. CASE reset_n = 0
    <2>1. Multiplier!Reset
      BY <1>0, <1>3
         DEF Multiplier!Clock, Multiplier!Wait, Multiplier!MultiplyLoop0,
             Multiplier!MultiplyLoop1, Multiplier!MultiplyDone
    <2>2. QED
      BY <1>3, <2>1
         DEF Multiplier!Reset, Multiplier!Cleared, Multiplier!NextState
  <1>4. QED
    BY <1>1, <1>2, <1>3

\* The ways in which an edge uses the multiplier.
LEMMA MultiplierUse ==
  ASSUME GenIInv, Gen!Next, reset_n = 1, reset_n' = 1
  PROVE  \/ MultiplierIdle /\ gen'.mult_ready \in {0, 1}
         \/ /\ gen.mult_ready = 1 /\ gen'.mult_ready = 1
            /\ gen'.gen_in1 = gen.gen_in1 /\ gen'.gen_in2 = gen.gen_in2
  <1>0. /\ gen.state \in Gen!States /\ gen.gen_done \in {0, 1}
        /\ gen.mult_ready \in {0, 1} /\ GenEdge /\ GenParentInv /\ GenStages
    BY GenTypeStep DEF GenIInv, GenTypeOK, Gen!Registers, Gen!Bit
  <1> USE DEF Gen!States
  <1>1. CASE gen.state \in {"RESET", "WAIT"} /\ gen.gen_done = 0
    <2>1. MultiplierIdle
      BY <1>0, <1>1 DEF GenStages
    <2>2. gen'.mult_ready = 0
      BY <1>0, <1>1, <2>1 DEF GenEdge, MultiplierIdle
    <2>3. QED
      BY <2>1, <2>2
  <1>2. CASE gen.state = "WAIT" /\ gen.gen_done = 1
    BY <1>0, <1>2 DEF GenEdge, GenStages
  <1>3. CASE gen.state = "COMPUTE" /\ gen.mult_ready = 0
    BY <1>0, <1>3 DEF GenEdge, GenStages
  <1>4. CASE gen.state = "COMPUTE" /\ gen.mult_ready = 1
    BY <1>0, <1>4 DEF GenEdge, GenStages, Factors
  <1>5. CASE gen.state = "FINISHED"
    BY <1>0, <1>5 DEF GenEdge, GenStages
  <1>6. QED
    BY <1>0, <1>1, <1>2, <1>3, <1>4, <1>5 DEF GenParentInv

\* Every edge is one of the multiplier under a parent that follows the
\* handshake.
LEMMA MultiplierNext ==
  ASSUME GenIInv, Gen!Next
  PROVE  Multiplier!Next
  <1>0. /\ reset_n \in {0, 1} /\ reset_n' \in {0, 1} /\ Multiplier!Clock /\ GenEdge
        /\ gen'.mult_ready \in {0, 1}
        /\ gen'.gen_in1 \in Multiplier!Word /\ gen'.gen_in2 \in Multiplier!Word
        /\ (reset_n = 0 => gen.state = "RESET")
    BY GenTypeStep, SameWords
       DEF GenIInv, GenTypeOK, GenParentInv, Gen!Registers, Gen!Bit
  <1> USE DEF Multiplier!client!Drive
  <1>1. CASE reset_n' = 0
    <2>1. GenMultiplierFresh' = TRUE
      BY <1>1 DEF GenMultiplierFresh
    <2>2. Multiplier!client!AssertReset
      BY <1>0, <1>1, <2>1 DEF Multiplier!client!AssertReset
    <2>3. Multiplier!Operands
      BY <1>0, <1>1
         DEF Multiplier!Operands, Multiplier!client!Serving, Multiplier!client!Asked
    <2>4. QED
      BY <1>0, <2>2, <2>3 DEF Multiplier!Next
  <1>2. CASE reset_n = 0 /\ reset_n' = 1
    <2>1. gen'.mult_ready = 0 /\ mult'.state = "RESET" /\ mult'.mult_done = 0
      BY <1>0, <1>2, MultiplierEdge DEF GenEdge
    <2>2. GenMultiplierFresh = TRUE /\ GenMultiplierFresh' = TRUE
      BY <1>2, <2>1 DEF GenMultiplierFresh
    <2>3. Multiplier!client!ReleaseReset
      BY <1>2, <2>1, <2>2 DEF Multiplier!client!ReleaseReset
    <2>4. Multiplier!Operands
      BY <1>0, <1>2
         DEF Multiplier!Operands, Multiplier!client!Serving, Multiplier!client!Asked
    <2>5. QED
      BY <1>0, <2>3, <2>4 DEF Multiplier!Next
  <1>3. CASE reset_n = 1 /\ reset_n' = 1
    <2>1. CASE MultiplierIdle /\ gen'.mult_ready = 0
      <3>1. mult'.state = "WAIT" /\ mult'.mult_done = 0
        BY <1>0, <1>3, <2>1, MultiplierEdge
      <3>2. GenMultiplierFresh = TRUE /\ GenMultiplierFresh' = TRUE
        BY <2>1, <3>1 DEF GenMultiplierFresh, MultiplierIdle
      <3>3. Multiplier!client!Hold
        BY <1>3, <2>1, <3>2 DEF Multiplier!client!Hold, MultiplierIdle
      <3>4. Multiplier!Operands
        BY <1>0, <2>1
           DEF Multiplier!Operands, Multiplier!client!Serving,
               Multiplier!client!Asked
      <3>5. QED
        BY <1>0, <3>3, <3>4 DEF Multiplier!Next
    <2>2. CASE MultiplierIdle /\ gen'.mult_ready = 1
      <3>1. GenMultiplierFresh = TRUE /\ GenMultiplierFresh' = FALSE
        BY <1>3, <2>2 DEF GenMultiplierFresh, MultiplierIdle
      <3>2. Multiplier!client!RaiseReady
        BY <1>3, <2>2, <3>1 DEF Multiplier!client!RaiseReady, MultiplierIdle
      <3>3. Multiplier!Operands
        BY <1>0, <2>2
           DEF Multiplier!Operands, Multiplier!client!Serving,
               Multiplier!client!Asked, MultiplierIdle
      <3>4. QED
        BY <1>0, <3>2, <3>3 DEF Multiplier!Next
    <2>3. CASE /\ gen.mult_ready = 1 /\ gen'.mult_ready = 1
               /\ gen'.gen_in1 = gen.gen_in1 /\ gen'.gen_in2 = gen.gen_in2
      <3>1. GenMultiplierFresh = FALSE /\ GenMultiplierFresh' = FALSE
        BY <1>3, <2>3 DEF GenMultiplierFresh
      <3>2. Multiplier!client!Hold
        BY <1>3, <2>3, <3>1 DEF Multiplier!client!Hold
      <3>3. Multiplier!Operands
        BY <1>0, <1>3, <2>3
           DEF Multiplier!Operands, Multiplier!client!Serving,
               Multiplier!client!Asked
      <3>4. QED
        BY <1>0, <3>2, <3>3 DEF Multiplier!Next
    <2>4. QED
      BY <1>3, <2>1, <2>2, <2>3, MultiplierUse
  <1>4. QED
    BY <1>0, <1>1, <1>2, <1>3

LEMMA GenStagesStep ==
  ASSUME GenIInv, Gen!Next
  PROVE  GenStages'
  <1>0. /\ reset_n \in {0, 1} /\ reset_n' \in {0, 1}
        /\ gen_ready \in {0, 1} /\ gen_ready' \in {0, 1}
        /\ gen.state \in Gen!States /\ gen.gen_done \in {0, 1}
        /\ gen.mult_ready \in {0, 1} /\ GenEdge /\ Multiplier!Clock
    BY GenTypeStep DEF GenIInv, GenTypeOK, Gen!Registers, Gen!Bit
  <1> USE DEF Gen!States, Gen!NextState
  <1>1. CASE reset_n' = 0
    BY <1>1 DEF GenStages
  <1>2. CASE reset_n = 0 /\ reset_n' = 1
    <2>1. /\ gen'.state = "RESET" /\ gen'.mult_ready = 0 /\ gen'.gen_done = 0
          /\ mult'.state = "RESET" /\ mult'.mult_done = 0
      BY <1>0, <1>2, MultiplierEdge DEF GenEdge, GenIInv, GenParentInv
    <2>2. QED
      BY <2>1 DEF GenStages, MultiplierIdle
  <1>3. CASE reset_n = 1 /\ reset_n' = 1
    <2>0. /\ MultiplierIdle => mult'.state = "WAIT" /\ mult'.mult_done = 0
          /\ mult.mult_done = 1 => mult'.out = mult.out /\ mult'.mult_done = 1
          /\ GenParentInv /\ GenStages
      BY <1>0, <1>3, MultiplierEdge DEF GenIInv
    <2>1. /\ gen_ready = 1 /\ gen.gen_done = 0 => in1' = in1 /\ in2' = in2
          /\ decrement' = decrement
      BY <1>3, GenClientStep
    <2>2. CASE gen.state \in {"RESET", "WAIT"} /\ gen.gen_done = 0
      <3>1. MultiplierIdle
        BY <1>3, <2>0, <2>2 DEF GenStages
      <3>2. /\ gen'.state \in {"WAIT", "COMPUTE"}
            /\ gen'.mult_ready = 0 /\ gen'.gen_done = 0
        BY <1>0, <1>3, <2>2, <3>1 DEF GenEdge, MultiplierIdle
      <3>3. MultiplierIdle'
        BY <2>0, <3>1, <3>2 DEF MultiplierIdle
      <3>4. QED
        BY <3>2, <3>3 DEF GenStages
    <2>3. CASE gen.state = "WAIT" /\ gen.gen_done = 1
      <3>1. gen.mult_ready = 1 /\ mult.mult_done = 1 /\ gen_ready = 0
        BY <1>3, <2>0, <2>3 DEF GenStages, GenParentInv
      <3>2. /\ gen'.state = "WAIT" /\ gen'.mult_ready = 1 /\ gen'.gen_done = 1
            /\ mult'.mult_done = 1
        BY <1>0, <1>3, <2>0, <2>3, <3>1 DEF GenEdge
      <3>3. QED
        BY <3>2 DEF GenStages
    <2>4. CASE gen.state = "COMPUTE"
      <3>1. gen.gen_done = 0 /\ gen_ready = 1
        BY <1>0, <1>3, <2>0, <2>4 DEF GenParentInv
      <3>2. /\ gen'.state \in {"COMPUTE", "FINISHED"}
            /\ gen'.state = "FINISHED" => mult.mult_done = 1
            /\ gen'.gen_done = 0 /\ gen'.mult_ready = 1
            /\ gen'.gen_in1 = SubW(in1, decrement)
            /\ gen'.gen_in2 = SubW(in2, decrement)
        BY <1>0, <1>3, <2>4, <3>1 DEF GenEdge
      <3>3. Factors'
        BY <2>1, <3>1, <3>2 DEF Factors
      <3>4. QED
        BY <2>0, <3>2, <3>3 DEF GenStages
    <2>5. CASE gen.state = "FINISHED"
      <3>1. /\ gen.mult_ready = 1 /\ mult.mult_done = 1
        BY <1>3, <2>0, <2>5 DEF GenStages
      <3>2. /\ gen'.state \in {"WAIT", "FINISHED"} /\ gen'.gen_done = 1
            /\ gen'.mult_ready = 1 /\ gen'.out = mult.out
            /\ mult'.mult_done = 1 /\ mult'.out = mult.out
        BY <1>0, <1>3, <2>0, <2>5, <3>1 DEF GenEdge
      <3>3. QED
        BY <3>2 DEF GenStages
    <2>6. QED
      BY <1>0, <1>3, <2>0, <2>2, <2>3, <2>4, <2>5 DEF GenParentInv
  <1>4. QED
    BY <1>0, <1>1, <1>2, <1>3

\* At power-up the multiplier is in its initial state, held in reset.
LEMMA GenInitUnit ==
  ASSUME Gen!Init
  PROVE  Multiplier!Init
  <1>1. mult = Multiplier!Cleared
    BY DEF Gen!Init, Gen!PowerUp, Gen!gen_multiplier!Cleared, Multiplier!Cleared
  <1>2. reset_n = 0 /\ gen.mult_ready = 0 /\ gen.gen_in1 = 0 /\ gen.gen_in2 = 0
    BY DEF Gen!Init, Gen!client!Init, Gen!PowerUp, Gen!Cleared
  <1>3. 0 \in Multiplier!Word /\ GenMultiplierFresh = TRUE
    BY <1>2, RadixAssumption DEF Multiplier!Word, GenMultiplierFresh
  <1>4. QED
    BY <1>1, <1>2, <1>3 DEF Multiplier!Init, Multiplier!client!Init

LEMMA GenInitInv ==
  ASSUME Gen!Init
  PROVE  GenIInv
  <1>1. /\ reset_n = 0 /\ gen_ready = 0 /\ fresh = TRUE
        /\ decrement \in {0, 1} /\ in1 \in Word /\ in2 \in Word
        /\ gen = Gen!Cleared
    BY OperandWords DEF Gen!Init, Gen!client!Init, Gen!PowerUp, Gen!Bit
  <1>2. gen \in Gen!Registers /\ gen.state = "RESET" /\ gen.gen_done = 0
    <2>1. 0 \in Gen!Word
      BY RadixAssumption DEF Gen!Word
    <2>2. QED
      BY <1>1, <2>1 DEF Gen!Registers, Gen!Cleared, Gen!States, Gen!Bit
  <1>3. Multiplier!IInv
    BY GenInitUnit, RadixAssumption, Multiplier!InitInv
  <1>4. QED
    BY <1>1, <1>2, <1>3 DEF GenIInv, GenTypeOK, GenParentInv, GenStages

LEMMA GenStepInv ==
  ASSUME GenIInv, Gen!Next
  PROVE  GenIInv'
  <1>1. Multiplier!IInv'
    BY MultiplierNext, RadixAssumption, Multiplier!StepInv DEF GenIInv
  <1>2. QED
    BY <1>1, GenTypeStep, GenParentStep, GenStagesStep DEF GenIInv

LEMMA GenStutterInv ==
  ASSUME GenIInv, UNCHANGED Gen!vars
  PROVE  GenIInv'
  <1>1. UNCHANGED Multiplier!vars
    BY DEF Gen!vars, Multiplier!vars, GenMultiplierFresh
  <1>2. Multiplier!IInv'
    BY <1>1, RadixAssumption, Multiplier!StutterInv DEF GenIInv
  <1>3. QED
    BY <1>2
       DEF GenIInv, Gen!vars, GenTypeOK, GenParentInv, GenStages, MultiplierIdle,
           Factors

\* The generator, its multiplier and the parent stay together as GenIInv says
\* (phi_gen.sv and n_gen.sv), for every word size and all operands that are
\* words.
THEOREM GenInvariant ==
  Gen!Spec => []GenIInv
  <1>1. Gen!Init => GenIInv
    BY GenInitInv
  <1>2. GenIInv /\ [Gen!Next]_(Gen!vars) => GenIInv'
    BY GenStepInv, GenStutterInv
  <1>3. QED
    BY <1>1, <1>2, PTL DEF Gen!Spec

\* Towards its multiplier the unit is a parent as MultiplierSpec assumes it
\* (phi_gen.sv and n_gen.sv), although it loads the factors again at every edge
\* in COMPUTE and lowers mult_ready by a reset only.
THEOREM GenContractKept ==
  Gen!Spec => Gen!MultiplierContract!Spec
  <1>1. Multiplier!Init <=> Gen!MultiplierContract!Init
    BY Zenon
       DEF Multiplier!Init, Multiplier!client!Init, Multiplier!Cleared,
           Multiplier!Word, GenMultiplierFresh, Gen!MultiplierContract!Init,
           Gen!MultiplierContract!client!Init, Gen!MultiplierContract!Cleared,
           Gen!MultiplierContract!Word
  <1>2. Multiplier!Next <=> Gen!MultiplierContract!Next
    <2>1. Multiplier!Clock <=> Gen!MultiplierContract!Clock
      BY Zenon
         DEF Multiplier!Clock, Multiplier!Reset, Multiplier!Wait,
             Multiplier!MultiplyLoop0, Multiplier!MultiplyLoop1,
             Multiplier!MultiplyDone, Multiplier!Cleared, Multiplier!NextState,
             Multiplier!Counter, Multiplier!AddW, Gen!MultiplierContract!Clock,
             Gen!MultiplierContract!Reset, Gen!MultiplierContract!Wait,
             Gen!MultiplierContract!MultiplyLoop0,
             Gen!MultiplierContract!MultiplyLoop1,
             Gen!MultiplierContract!MultiplyDone, Gen!MultiplierContract!Cleared,
             Gen!MultiplierContract!NextState, Gen!MultiplierContract!Counter,
             Gen!MultiplierContract!AddW
    <2>2. Multiplier!client!Drive <=> Gen!MultiplierContract!client!Drive
      BY Zenon
         DEF Multiplier!client!Drive, Multiplier!client!AssertReset,
             Multiplier!client!ReleaseReset, Multiplier!client!RaiseReady,
             Multiplier!client!LowerReady, Multiplier!client!Hold,
             GenMultiplierFresh, Gen!MultiplierContract!client!Drive,
             Gen!MultiplierContract!client!AssertReset,
             Gen!MultiplierContract!client!ReleaseReset,
             Gen!MultiplierContract!client!RaiseReady,
             Gen!MultiplierContract!client!LowerReady,
             Gen!MultiplierContract!client!Hold
    <2>3. Multiplier!Operands <=> Gen!MultiplierContract!Operands
      BY Zenon
         DEF Multiplier!Operands, Multiplier!client!Serving,
             Multiplier!client!Asked, Multiplier!Word,
             Gen!MultiplierContract!Operands,
             Gen!MultiplierContract!client!Serving,
             Gen!MultiplierContract!client!Asked, Gen!MultiplierContract!Word
    <2>4. QED
      BY <2>1, <2>2, <2>3 DEF Multiplier!Next, Gen!MultiplierContract!Next
  <1>3. Gen!Init => Gen!MultiplierContract!Init
    BY <1>1, GenInitUnit
  <1>4. GenIInv /\ [Gen!Next]_(Gen!vars)
          => [Gen!MultiplierContract!Next]_(Gen!MultiplierContract!vars)
    <2>1. UNCHANGED Gen!vars => UNCHANGED Gen!MultiplierContract!vars
      BY DEF Gen!vars, Gen!MultiplierContract!vars
    <2>2. QED
      BY <1>2, <2>1, MultiplierNext
  <1>5. QED
    BY <1>3, <1>4, GenInvariant, PTL DEF Gen!Spec, Gen!MultiplierContract!Spec

\* The answer of the multiplier is the one allowed for the operands.
LEMMA GenAnswer ==
  ASSUME GenIInv, reset_n = 1, gen.state = "FINISHED", gen.gen_done = 0
  PROVE  mult.out \in Gen!GenAnswers(<<decrement, in1, in2>>)
  <1>0. /\ decrement \in {0, 1} /\ in1 \in Word /\ in2 \in Word
        /\ 0 \in Word /\ 1 \in Word
    BY RadixAssumption DEF GenIInv, GenTypeOK, Word
  <1>1. gen.mult_ready = 1 /\ mult.mult_done = 1 /\ Factors
    BY DEF GenIInv, GenStages
  <1>2. Multiplier!ProductCorrect
    BY RadixAssumption, Multiplier!AnswerIsProduct DEF GenIInv
  <1>3. mult.out = Multiplier!Product(gen.gen_in1, gen.gen_in2)
    BY <1>1, <1>2 DEF Multiplier!ProductCorrect, Multiplier!client!Asked
  <1>4. mult.out = Gen!WordProduct(SubW(in1, decrement), SubW(in2, decrement))
    BY <1>1, <1>3 DEF Multiplier!Product, Gen!WordProduct, Factors
  <1>5. CASE decrement = 1
    <2>1. Gen!SubW(in1, 1) = SubW(in1, 1) /\ Gen!SubW(in2, 1) = SubW(in2, 1)
      BY <1>0, SameWords
    <2>2. QED
      BY <1>4, <1>5, <2>1 DEF Gen!GenAnswers, Gen!PhiAnswers
  <1>6. CASE decrement = 0
    <2>1. SubW(in1, 0) = in1 /\ SubW(in2, 0) = in2
      <3>1. \A w \in Word : 0 <= w /\ w - 0 = w
        BY RadixAssumption DEF Word
      <3>2. QED
        BY <1>0, <3>1, SubWNoBorrow DEF Key!Word, Key!SubW, Word, SubW
    <2>2. QED
      BY <1>4, <1>6, <2>1 DEF Gen!GenAnswers, Gen!NAnswers
  <1>7. QED
    BY <1>0, <1>5, <1>6

\* No operands leave the generator without an answer.
LEMMA GenAnswerExists == Gen!GenAnswers(<<decrement, in1, in2>>) # {}
  BY DEF Gen!GenAnswers, Gen!PhiAnswers, Gen!NAnswers

\* Every edge is one of the ComputeUnit that is seen through gen_done.
LEMMA GenSeenStep ==
  ASSUME GenIInv, Gen!Next
  PROVE  Gen!ComputeUnitView!Clock
  <1> USE DEF Gen!ComputeUnitView!Clock, Gen!States
  <1>0. /\ reset_n \in {0, 1} /\ reset_n' \in {0, 1} /\ gen_ready \in {0, 1}
        /\ gen.state \in Gen!States /\ gen.gen_done \in {0, 1} /\ GenEdge
        /\ GenParentInv /\ GenStages
        /\ (reset_n = 0 => gen.state = "RESET")
    BY GenTypeStep DEF GenIInv, GenTypeOK, GenParentInv, Gen!Registers, Gen!Bit
  <1>1. CASE gen.state = "RESET"
    <2>1. gen'.state = Gen!NextState("WAIT") /\ gen'.gen_done = 0
      BY <1>0, <1>1 DEF GenEdge
    <2>2. Gen!Unit' = [status |-> Gen!NextState("WAIT"), result |-> 0, done |-> 0]
      BY <2>1 DEF Gen!Unit, Gen!Status, Gen!NextState
    <2>3. Gen!Unit.status = "RESET"
      BY <1>1 DEF Gen!Unit, Gen!Status
    <2>4. Gen!ComputeUnitView!Reset
      BY <2>2, <2>3
         DEF Gen!ComputeUnitView!Reset, Gen!ComputeUnitView!Cleared,
             Gen!ComputeUnitView!NextStatus, Gen!NextState
    <2>5. QED
      BY <2>4
  <1>2. CASE gen.state = "WAIT" /\ gen.gen_done = 0
    <2>1. /\ gen'.state = Gen!NextState(IF gen_ready = 1 THEN "COMPUTE" ELSE "WAIT")
          /\ gen'.gen_done = 0
      BY <1>0, <1>2 DEF GenEdge
    <2>2. Gen!Unit = [status |-> "WAIT", result |-> 0, done |-> 0]
      BY <1>2 DEF Gen!Unit, Gen!Status
    <2>3. Gen!Unit' = [status |-> Gen!NextState(IF gen_ready = 0 THEN "WAIT"
                                                             ELSE "BUSY"),
                       result |-> 0, done |-> 0]
      BY <1>0, <2>1 DEF Gen!Unit, Gen!Status, Gen!NextState
    <2>4. Gen!ComputeUnitView!Wait
      BY <2>2, <2>3, GenAnswerExists
         DEF Gen!ComputeUnitView!Wait, Gen!ComputeUnitView!NextStatus, Gen!NextState
    <2>5. QED
      BY <2>4
  <1>3. CASE gen.state = "WAIT" /\ gen.gen_done = 1
    <2>1. gen_ready = 0
      BY <1>0, <1>3 DEF GenParentInv
    <2>2. /\ gen'.state = Gen!NextState("WAIT")
          /\ gen'.gen_done = 1 /\ gen'.out = gen.out
      BY <1>0, <1>3, <2>1 DEF GenEdge
    <2>3. Gen!Unit = [status |-> "SPENT", result |-> gen.out, done |-> 1]
      BY <1>3 DEF Gen!Unit, Gen!Status
    <2>4. Gen!Unit' = [status |-> Gen!NextState("SPENT"), result |-> gen.out,
                       done |-> 1]
      BY <2>2 DEF Gen!Unit, Gen!Status, Gen!NextState
    <2>5. Gen!ComputeUnitView!Spent
      BY <2>3, <2>4
         DEF Gen!ComputeUnitView!Spent, Gen!ComputeUnitView!NextStatus, Gen!NextState
    <2>6. QED
      BY <2>5
  <1>4. CASE gen.state = "COMPUTE"
    <2>0. gen.gen_done = 0
      BY <1>0, <1>4 DEF GenParentInv
    <2>1. /\ gen'.state = Gen!NextState(IF mult.mult_done = 1 THEN "FINISHED"
                                                              ELSE "COMPUTE")
          /\ gen'.gen_done = 0
      BY <1>0, <1>4, <2>0 DEF GenEdge
    <2>2. Gen!Unit = [status |-> "BUSY", result |-> 0, done |-> 0]
      BY <1>4, <2>0 DEF Gen!Unit, Gen!Status
    <2>3. Gen!Unit' = [status |-> Gen!NextState("BUSY"), result |-> 0, done |-> 0]
      BY <2>1 DEF Gen!Unit, Gen!Status, Gen!NextState
    <2>4. Gen!ComputeUnitView!Work
      BY <2>2, <2>3
         DEF Gen!ComputeUnitView!Work, Gen!ComputeUnitView!NextStatus, Gen!NextState
    <2>5. QED
      BY <2>4
  <1>5. CASE gen.state = "FINISHED" /\ gen.gen_done = 0
    <2>0. reset_n = 1 /\ gen_ready = 1
      BY <1>0, <1>5 DEF GenParentInv
    <2>1. /\ gen'.state = Gen!NextState("FINISHED")
          /\ gen'.gen_done = 1 /\ gen'.out = mult.out
      BY <1>0, <1>5, <2>0 DEF GenEdge
    <2>2. mult.out \in Gen!GenAnswers(<<decrement, in1, in2>>)
      BY <1>5, <2>0, GenAnswer
    <2>3. Gen!Unit.status = "BUSY"
      BY <1>5 DEF Gen!Unit, Gen!Status
    <2>4. Gen!Unit' = [status |-> Gen!NextState("FINISHED"), result |-> mult.out,
                       done |-> 1]
      BY <2>1 DEF Gen!Unit, Gen!Status, Gen!NextState
    <2>5. Gen!ComputeUnitView!Finish
      BY <2>2, <2>3, <2>4
         DEF Gen!ComputeUnitView!Finish, Gen!ComputeUnitView!NextStatus,
             Gen!NextState
    <2>6. QED
      BY <2>5
  <1>6. CASE gen.state = "FINISHED" /\ gen.gen_done = 1
    <2>0. reset_n = 1
      BY <1>0, <1>6
    <2>1. /\ gen'.state = Gen!NextState(IF gen_ready = 0 THEN "WAIT" ELSE "FINISHED")
          /\ gen'.gen_done = 1 /\ gen'.out = gen.out
      BY <1>0, <1>6, <2>0 DEF GenEdge, GenStages
    <2>2. Gen!Unit = [status |-> "FINISHED", result |-> gen.out, done |-> 1]
      BY <1>6 DEF Gen!Unit, Gen!Status
    <2>3. Gen!Unit' = [status |-> Gen!NextState(IF gen_ready = 0 THEN "SPENT"
                                                             ELSE "FINISHED"),
                       result |-> gen.out, done |-> 1]
      BY <1>0, <2>1 DEF Gen!Unit, Gen!Status, Gen!NextState
    <2>4. Gen!ComputeUnitView!Finished
      BY <2>2, <2>3
         DEF Gen!ComputeUnitView!Finished, Gen!ComputeUnitView!NextStatus,
             Gen!NextState
    <2>5. QED
      BY <2>4
  <1>7. QED
    BY <1>0, <1>1, <1>2, <1>3, <1>4, <1>5, <1>6

\* phi_gen.sv and n_gen.sv are the compute units that io_module.sv relies on:
\* reset, they wait; started, they compute on the operands presented; and they
\* show the product the multiplier gives of the operands or of their
\* predecessors until the next reset.
THEOREM GenImplements ==
  Gen!Spec => Gen!ComputeUnitView!Spec
  <1>1. Gen!Init => Gen!ComputeUnitView!Init
    <2>1. Gen!Init => gen.state = "RESET" /\ gen.gen_done = 0
      BY DEF Gen!Init, Gen!PowerUp, Gen!Cleared
    <2>2. QED
      BY <2>1
         DEF Gen!Unit, Gen!Status, Gen!ComputeUnitView!Init,
             Gen!ComputeUnitView!Cleared
  <1>2. GenIInv /\ [Gen!Next]_(Gen!vars)
          => [Gen!ComputeUnitView!Clock]_(Gen!ComputeUnitView!vars)
    <2>1. UNCHANGED Gen!vars => UNCHANGED Gen!ComputeUnitView!vars
      BY DEF Gen!vars, Gen!ComputeUnitView!vars, Gen!Unit, Gen!Status
    <2>2. QED
      BY <2>1, GenSeenStep
  <1>3. QED
    BY <1>1, <1>2, GenInvariant, PTL DEF Gen!Spec, Gen!ComputeUnitView!Spec


==============================================================================
