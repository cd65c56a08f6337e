------------------------------ MODULE AltText ------------------------------
(***************************************************************************)
(* The formatted output of the HAL: alt_printf (HAL/src/alt_printf.c) and  *)
(* alt_log_private_printf with its helpers (HAL/src/alt_log_printf.c).     *)
(*                                                                         *)
(* Both read the format one character at a time.  A character is a value   *)
(* of Chars: a digit is its number, 10 .. 15 are the letters a .. f, and   *)
(* the rest are named.  An argument of %s is a sequence of them.           *)
(***************************************************************************)
EXTENDS Integers, Sequences, SequencesExt

CONSTANTS
  WordBase,     \* 2^32 is WordBase ^ WordDigits: a word in base 16
  WordDigits,
  Formats,      \* the formats and arguments of the calls
  EchoLen       \* ALT_LOG_WRITE_ECHO_LEN

Percent == 100
Space == 101
Minus == 102
Dot == 103
Long == 104             \* 'l'
Newline == 105
Return == 106
Eot == 107              \* 0x4
LetterD == 108
Other == 109            \* any other character
CharC == 200
CharS == 201
CharD == 202            \* 'd', 'i'
CharU == 203
CharO == 204
CharX == 205            \* 'x', 'X'
Unknown == 206          \* any other conversion

WordSize == WordBase ^ WordDigits

VARIABLES
  call,       \* which of the two runs, its format and its arguments
  pos,        \* w - fmt
  args,       \* the arguments that are left
  state,      \* pfState
  fmtv,       \* fmtLeadingZero, fmtBase, fmtSigned, fmtBeforeDecimal, fmtAfterDecimal
  out         \* what was sent

textVars == <<call, pos, args, state, fmtv, out>>

Fresh == [zero |-> FALSE, base |-> 10, signed |-> TRUE, before |-> -1, after |-> -1]

Init ==
  /\ call \in Formats
  /\ pos = 0
  /\ args = call.args
  /\ state = "chars"
  /\ fmtv = Fresh
  /\ out = <<>>

\* alt_log_repchar: nothing for a count that is not positive.
alt_log_repchar(c, r) == [i \in 1 .. r |-> c]

-----------------------------------------------------------------------------
(* Numbers                                                                 *)

\* digitCount, and p = base ^ (digitCount - 1)
DigitCount(v, base) == CHOOSE n \in 1 .. 64 : v < base ^ n /\ (n > 1 => base ^ (n - 1) <= v)

Digits(v, base) ==
  LET n == DigitCount(v, base)
  IN  [i \in 1 .. n |-> (v \div (base ^ (n - i))) % base]

\* Mutant: the sign of the most negative number is lost.
IntegerUnsigned(v, f) ==
  LET digits == Digits(v, f.base)
      pad == f.before - Len(digits)
  IN  IF f.zero THEN alt_log_repchar(0, pad) \o digits
      ELSE alt_log_repchar(Space, pad) \o digits

\* doIntegerPrint: v is an unsigned long; ~v + 1 is its negative.
doIntegerPrint(v, f) ==
  LET sign == f.signed /\ v >= WordSize \div 2
      magnitude == IF sign THEN (WordSize - v) % WordSize ELSE v
      digits == Digits(magnitude, f.base)
      minus == IF sign THEN <<Minus>> ELSE <<>>
      pad == f.before - Len(digits) - Len(minus)
  IN  IF f.zero THEN minus \o alt_log_repchar(0, pad) \o digits
      ELSE alt_log_repchar(Space, pad) \o minus \o digits

\* %x of alt_printf: from the first nibble that is not zero.
Nibbles(v) ==
  LET nibble(i) == (v \div (WordBase ^ i)) % WordBase
      first == CHOOSE i \in 0 .. WordDigits - 1 :
                 nibble(i) # 0 /\ \A j \in i + 1 .. WordDigits - 1 : nibble(j) = 0
  IN  IF v = 0 THEN <<0>> ELSE [i \in 1 .. first + 1 |-> nibble(first + 1 - i)]

-----------------------------------------------------------------------------
(* One character of the format                                             *)

c == call.fmt[pos + 1]
More == pos < Len(call.fmt)

Sends(s) == out' = out \o s
Takes(s) == Sends(s) /\ args' = Tail(args)

alt_putchar(ch) == Sends(<<ch>>)

\* alt_printf
PlainChar ==
  /\ call.proc = "alt_printf" /\ More /\ state = "chars"
  /\ IF c = Percent THEN state' = "first" /\ UNCHANGED out
                    ELSE alt_putchar(c) /\ UNCHANGED state
  /\ pos' = pos + 1
  /\ UNCHANGED <<call, args, fmtv>>

PlainConversion ==
  /\ call.proc = "alt_printf" /\ More /\ state = "first"
  /\ CASE c = Percent -> alt_putchar(c) /\ UNCHANGED args
       [] c = CharC -> alt_putchar(Head(args)) /\ args' = Tail(args)
       [] c = CharX -> Takes(Nibbles(Head(args)))
       [] c = CharS -> Takes(Head(args))
       [] OTHER -> UNCHANGED <<out, args>>
  /\ state' = "chars"
  /\ pos' = pos + 1
  /\ UNCHANGED <<call, fmtv>>

\* alt_log_private_printf
LogChars ==
  /\ call.proc = "alt_log_printf" /\ More /\ state = "chars"
  /\ IF c = Percent THEN fmtv' = Fresh /\ state' = "first" /\ UNCHANGED out
                    ELSE Sends(<<c>>) /\ UNCHANGED <<fmtv, state>>
  /\ pos' = pos + 1
  /\ UNCHANGED <<call, args>>

LogFirst ==
  /\ call.proc = "alt_log_printf" /\ More /\ state = "first" /\ c \in {0, Percent}
  /\ IF c = 0 THEN /\ fmtv' = [fmtv EXCEPT !.zero = TRUE]
                   /\ state' = "other" /\ UNCHANGED out
              ELSE Sends(<<c>>) /\ state' = "chars" /\ UNCHANGED fmtv
  /\ pos' = pos + 1
  /\ UNCHANGED <<call, args>>

AtOther == More /\ (state = "other" \/ (state = "first" /\ c \notin {0, Percent}))

\* '.', a digit or 'l'
LogFlag ==
  /\ call.proc = "alt_log_printf" /\ AtOther /\ c \in {Dot, Long} \cup 0 .. 9
  /\ fmtv' = CASE c = Dot -> [fmtv EXCEPT !.after = 0]
               [] c = Long -> fmtv      \* int and long are the same here
               [] OTHER -> IF fmtv.after >= 0 THEN [fmtv EXCEPT !.after = @ * 10 + c]
                           ELSE [fmtv EXCEPT !.before = IF @ < 0 THEN c ELSE @ * 10 + c]
  /\ state' = "other"
  /\ pos' = pos + 1
  /\ UNCHANGED <<call, args, out>>

\* What a conversion prints of its argument.
Converted(v, f) ==
  CASE c \in {CharD, CharU} -> doIntegerPrint(v, [f EXCEPT !.signed = c = CharD])
    [] c = CharO -> doIntegerPrint(v, [f EXCEPT !.base = 8, !.signed = FALSE])
    [] c = CharX -> doIntegerPrint(v, [f EXCEPT !.base = 16, !.signed = FALSE])
    [] c = CharC -> alt_log_repchar(Space, f.before - 1) \o <<v>>
    [] c = CharS -> alt_log_repchar(Space, f.before - Len(v)) \o v

LogConversion ==
  /\ call.proc = "alt_log_printf" /\ AtOther /\ c \notin {Dot, Long} \cup 0 .. 9
  /\ IF c \in {CharD, CharU, CharO, CharX, CharC, CharS} THEN Takes(Converted(Head(args), fmtv))
     ELSE UNCHANGED <<out, args>>
  /\ state' = "chars"
  /\ pos' = pos + 1
  /\ UNCHANGED <<call, fmtv>>

Printed == ~More /\ UNCHANGED textVars

Next ==
  \/ PlainChar \/ PlainConversion
  \/ LogChars \/ LogFirst \/ LogFlag \/ LogConversion \/ Printed

Spec == Init /\ [][Next]_textVars

\* alt_log_write: the string it prints of the Len(s) bytes of s, which holds no
\* NUL, or none.  The last byte makes room for the end of the line.
alt_log_write(s) ==
  LET length == IF EchoLen > Len(s) THEN Len(s) ELSE EchoLen
  IN  IF length < 2 THEN <<>>
      ELSE [i \in 1 .. length + 1 |->
              CASE i = length -> Newline
                [] i = length + 1 -> Return
                [] OTHER -> IF s[i] = Eot THEN LetterD ELSE s[i]]

-----------------------------------------------------------------------------

ReadBack(s, base) == FoldLeft(LAMBDA a, d : a * base + d, 0, SelectSeq(s, LAMBDA d : d < 16))

Base(conversion) == CASE conversion = CharO -> 8 [] conversion = CharX -> 16 [] OTHER -> 10

\* A number that was printed, by either function, in any base, with any width
\* and padding, reads back as the argument, the most negative one included; and
\* it is as wide as the format asked, and no wider than it has to be.
NumbersReadBack ==
  ~More /\ call.number # <<>> =>
    LET v == call.args[1]
        negative == call.number[1] = CharD /\ v >= WordSize \div 2
        natural == IF negative THEN <<Minus>> \o Digits(WordSize - v, 10)
                   ELSE Digits(v, Base(call.number[1]))
        printed == SelectSeq(out, LAMBDA d : d # Other)
    IN  /\ ReadBack(out, Base(call.number[1])) = IF negative THEN WordSize - v ELSE v
        /\ Contains(out, Minus) <=> negative
        /\ Len(printed) = IF call.number[2] > Len(natural) THEN call.number[2] ELSE Len(natural)

\* The echo of what is written to the console never ends the session of the
\* terminal that shows it, nor runs over its buffer.
EchoSafe ==
  \A n \in 0 .. EchoLen + 2 : \A s \in [1 .. n -> {Other, Eot}] :
    LET echo == alt_log_write(s)
    IN  ~Contains(echo, Eot) /\ Len(echo) <= EchoLen + 1

TextFaithful == NumbersReadBack /\ EchoSafe

=============================================================================
