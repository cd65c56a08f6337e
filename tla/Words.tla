------------------------------- MODULE Words -------------------------------
(***************************************************************************)
(* The unsigned machine words of the SystemVerilog sources.  Every data    *)
(* register there is logic [31:0]; a word here is a number below Radix, so *)
(* that 2^32 becomes a small number in a model and stays arbitrary in a    *)
(* proof.                                                                  *)
(***************************************************************************)
EXTENDS Integers

CONSTANT Radix   \* 2^32 in the sources

ASSUME RadixAssumption == Radix \in Nat /\ Radix > 1

Word == 0 .. Radix - 1

Bit == {0, 1}

AddW(a, b) == (a + b) % Radix

SubW(a, b) == (a - b) % Radix

=============================================================================
