---------------------------- MODULE RsaSoftware ----------------------------
(***************************************************************************)
(* The encryption in software: software_encrypt of                         *)
(* software/rsa/rsa_intonly.c and the desktop program src/rsa_intonly.c,   *)
(* which is the same code.  It asks for two primes, a public exponent, a   *)
(* text and a cipher text, and searches the private exponent by trial.     *)
(*                                                                         *)
(* An int has IntMod values; sums and products wrap, as the build makes    *)
(* them.  The user types numbers that are not negative.                    *)
(***************************************************************************)
EXTENDS Integers

CONSTANTS
  IntMod,       \* 2^32
  Numbers,      \* what the user types for p, q and e
  Messages      \* what the user types for M

VARIABLES
  step,       \* where the program is
  key,        \* p, q, e, d and s
  text        \* M, the cipher text and what it decrypts to

softVars == <<step, key, text>>

\* The value an int holds, and the remainder of C, which has the sign of a.
AsInt(x) == ((x + IntMod \div 2) % IntMod) - IntMod \div 2
Rem(a, b) == IF a >= 0 THEN a % b ELSE -((-a) % b)

prime_checker(number) == ~\E i \in 2 .. number - 1 : number % i = 0
e_checker(e, phi) == e < phi /\ prime_checker(e)

n == AsInt(key.p * key.q)
phi == AsInt((key.p - 1) * (key.q - 1))

\* The loop of encrypt and of decrypt, which makes no round for a count of 0 or
\* less.
Power(x, count, m) ==
  LET rounds == IF count < 0 THEN 0 ELSE count
      P[i \in 0 .. rounds] == IF i = 0 THEN 1 ELSE Rem(AsInt(P[i - 1] * x), m)
  IN  Rem(P[rounds], m)

encrypt(M, e, m) == Power(M, e, m)
decrypt(C, d, m) == Power(C, d, m)

Init ==
  /\ step = "p"
  /\ key = [p |-> 0, q |-> 0, e |-> 0, d |-> 0, s |-> 0]
  /\ text = [M |-> 0, ciphertext |-> 0, plaintext |-> 0]

\* A number that is refused is asked for again.
ReadP ==
  /\ step = "p"
  /\ \E x \in Numbers : /\ key' = [key EXCEPT !.p = x]
                        /\ step' = IF prime_checker(x) THEN "q" ELSE "p"
  /\ UNCHANGED text

ReadQ ==
  /\ step = "q"
  /\ \E x \in Numbers : /\ key' = [key EXCEPT !.q = x]
                        /\ step' = IF prime_checker(x) THEN "e" ELSE "q"
  /\ UNCHANGED text

\* The first test of the search is made before d is counted.
ReadE ==
  /\ step = "e"
  /\ \E x \in Numbers :
       IF e_checker(x, phi)
       THEN key' = [key EXCEPT !.e = x, !.d = 1, !.s = Rem(AsInt(x), phi)] /\ step' = "search"
       ELSE key' = [key EXCEPT !.e = x] /\ step' = "e"
  /\ UNCHANGED text

\* Mutant: d is not counted back.
SearchNoDecrement ==
  /\ step = "search"
  /\ IF key.s # 1
     THEN key' = [key EXCEPT !.s = Rem(AsInt(key.d * key.e), phi), !.d = AsInt(@ + 1)]
          /\ UNCHANGED step
     ELSE UNCHANGED key /\ step' = "text"
  /\ UNCHANGED text

Search ==
  /\ step = "search"
  /\ IF key.s # 1
     THEN key' = [key EXCEPT !.s = Rem(AsInt(key.d * key.e), phi), !.d = AsInt(@ + 1)]
          /\ UNCHANGED step
     ELSE key' = [key EXCEPT !.d = @ - 1] /\ step' = "text"
  /\ UNCHANGED text

Encrypt ==
  /\ step = "text"
  /\ \E M \in Messages : text' = [text EXCEPT !.M = M, !.ciphertext = encrypt(M, key.e, n)]
  /\ step' = "cipher"
  /\ UNCHANGED key

\* The user types the cipher text that was printed.
Decrypt ==
  /\ step = "cipher"
  /\ text' = [text EXCEPT !.plaintext = decrypt(text.ciphertext, key.d, n)]
  /\ step' = "done"
  /\ UNCHANGED key

Done == step = "done" /\ UNCHANGED softVars

Next == ReadP \/ ReadQ \/ ReadE \/ Search \/ Encrypt \/ Decrypt \/ Done

Spec == Init /\ [][Next]_softVars

-----------------------------------------------------------------------------

IsPrime(x) == x > 1 /\ prime_checker(x)
Coprime(a, b) == ~\E k \in 2 .. a : a % k = 0 /\ b % k = 0

\* The keys a user of RSA may choose: two different primes and an exponent
\* above 1 that has an inverse, with products that fit in an int.
GoodKey ==
  /\ IsPrime(key.p) /\ IsPrime(key.q) /\ key.p # key.q
  /\ key.e > 1 /\ Coprime(key.e, phi)
  /\ n * n < IntMod \div 2

\* With a good key the search finds the inverse of e, before anything
\* overflows, and what was encrypted decrypts to itself.
SoftwareRoundTrip ==
  /\ step = "text" /\ GoodKey => (key.d * key.e) % phi = 1
  /\ step = "search" /\ GoodKey => key.d <= phi + 1
  /\ step = "done" /\ GoodKey /\ text.M < n => text.plaintext = text.M

=============================================================================
