------------------------------- MODULE Numbers -------------------------------
(***************************************************************************)
(* A big_uint under a sequence of operations, beside the number that it is *)
(* meant to be.                                                            *)
(***************************************************************************)
EXTENDS Permissions

CONSTANTS Words,   \* the words that operands are made of
          MaxValue \* no number grows past it

ASSUME NumbersAssumption == Words \subseteq 0 .. Ones /\ MaxValue \in Nat

VARIABLES number, \* the big_uint
          exact   \* history: what it should be

numberVars == <<number, exact>>

\* The operands: numbers of at most two words.
Numbers == {Trim(d) : d \in BoundedSeq(Words, 2)}

Becomes(big, n) == n <= MaxValue /\ number' = big /\ exact' = n

Add(b)      == Becomes(Plus(number, b), exact + Value(b))
Multiply(b) == Becomes(Times(number, b), exact * Value(b))
Scale(n)    == Becomes(TimesInt(number, n), exact * n)
Subtract(b) == Value(b) <= exact /\ Becomes(Minus(number, b), exact - Value(b))

NumberInit == number = <<>> /\ exact = 0

NumberNext ==
    \/ \E b \in Numbers : Add(b) \/ Multiply(b) \/ Subtract(b)
    \/ \E n \in Words : Scale(n)

-----------------------------------------------------------------------------
\* The digits of a number in a base, most significant first.
DigitsIn(m, base) ==
    LET digits[n \in 0 .. m] ==
          IF n = 0 THEN <<>> ELSE Append(digits[n \div base], n % base)
    IN  digits[m]

\* NumbersAreExact. Whatever was added, subtracted and multiplied, a big_uint is
\* the exact number in as few words as it needs (which comparisons rely on),
\* and compares as equal to that built-in number and to no other.  The string that
\* is written for it has its digits and is read as that number, with a leading
\* zero, too, and by the parser of any base.
NumbersAreExact ==
    /\ Value(number) = exact
    /\ Trim(number) = number
    /\ \A n \in 0 .. Width - 1 : EqualsInt(number, n) <=> n = exact
    /\ StringOf(number) = IF exact = 0 THEN <<0>> ELSE DigitsIn(exact, Ten)
    /\ Parse(StringOf(number)) = number
    /\ Parse(<<0>> \o StringOf(number)) = number
    /\ ParseBase(DigitsIn(exact, Base)) = number

=============================================================================
