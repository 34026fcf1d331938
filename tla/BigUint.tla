------------------------------ MODULE BigUint ------------------------------
(***************************************************************************)
(* big_uint (common/big_uint.h): an unsigned integer of any length as a    *)
(* sequence of words, least significant first, without trailing zero       *)
(* words.  The code's word has 32 bits; here it has WordBits, and          *)
(* strings are written in base Ten, Chunk digits of which fit in a word as *)
(* nine decimal digits do.                                                 *)
(***************************************************************************)
EXTENDS Integers, SequencesExt

CONSTANTS WordBits, Ten, Chunk, Base, BaseChunk
    \* ... and Base and BaseChunk are the base and the chunk of the second parser.

\* std::pow.
Power(b, n) ==
    LET p[k \in 0 .. n] == IF k = 0 THEN 1 ELSE b * p[k - 1]
    IN  p[n]

Radix == Power(2, WordBits)
Ones  == Radix - 1

ASSUME BigUintAssumption ==
    /\ WordBits \in Nat \ {0}
    /\ {Ten, Base} \subseteq Nat \ {0, 1} /\ {Chunk, BaseChunk} \subseteq Nat \ {0}
    /\ Power(Ten, Chunk) < Radix /\ Power(Base, BaseChunk) < Radix

-----------------------------------------------------------------------------
\* The number that digits (words, or bits) stand for, least significant first.
Number(d, base) ==
    LET sum[i \in 0 .. Len(d)] == IF i = 0 THEN 0 ELSE sum[i - 1] + d[i] * Power(base, i - 1)
    IN  sum[Len(d)]

\* The bitwise operators of integers of some bits.
Bits(n, size) == [i \in 1 .. size |-> (n \div Power(2, i - 1)) % 2]
And(m, n, size) ==
    Number([i \in 1 .. size |-> IF Bits(m, size)[i] = 1 THEN Bits(n, size)[i] ELSE 0], 2)
Or(m, n, size) ==
    Number([i \in 1 .. size |-> IF Bits(m, size)[i] = 1 THEN 1 ELSE Bits(n, size)[i]], 2)

Longer(a, b) == IF Len(a) < Len(b) THEN Len(b) ELSE Len(a)

\* The word at an index, or what stands for the words that are not there.
At(a, i, absent) == IF i \in DOMAIN a THEN a[i] ELSE absent

\* What the loops over words and digits have in common: each adds the carry of
\* the one before to a column, t = x[i] + carry, keeps t modulo the base and
\* carries the rest, the first of them the carry that the loop begins with.
Carries(x, base, first) ==
    LET c[i \in 0 .. Len(x)] == IF i = 0 THEN first ELSE (x[i] + c[i - 1]) \div base
    IN  c
Carried(x, base, first) ==
    LET c == Carries(x, base, first) IN [i \in 1 .. Len(x) |-> (x[i] + c[i - 1]) % base]
Overflow(x, base, first) == Carries(x, base, first)[Len(x)]

Sums(a, b)        == [i \in 1 .. Longer(a, b) |-> At(a, i, 0) + At(b, i, 0)]
Differences(a, b) == [i \in 1 .. Longer(a, b) |-> At(a, i, 0) - At(b, i, 0)]

-----------------------------------------------------------------------------
\* Mutants.
PlusNoCarryOut(a, b) ==
    LET sum == Carried(Sums(a, b), Radix, 0)
    IN  SubSeq(sum, 1, SelectLastInSeq(sum, LAMBDA w : w # 0))

-----------------------------------------------------------------------------
\* trim_trailing_zeros.
Trim(d) == SubSeq(d, 1, SelectLastInSeq(d, LAMBDA w : w # 0))

\* The constructors from an integer of at most two words.
FromInt(n) == Trim(<<n % Radix, n \div Radix>>)

\* operator+ and operator+=.
Plus(a, b) ==
    LET x == Sums(a, b) IN Trim(Append(Carried(x, Radix, 0), Overflow(x, Radix, 0)))

\* operator-: a word that is too small borrows from the next, which is to carry
\* -1; what the last word borrows is dropped.
Minus(a, b) == Trim(Carried(Differences(a, b), Radix, 0))

\* a's words times one word, shifted by some words: one row of a product.
Row(a, word, shift) ==
    LET x == [i \in 1 .. Len(a) |-> a[i] * word]
    IN  [i \in 1 .. shift |-> 0] \o Append(Carried(x, Radix, 0), Overflow(x, Radix, 0))

\* operator*(big_uint, uint32_t) and its twin for int.
TimesWord(a, word) ==
    IF a = <<>> \/ word = 0 THEN <<>> ELSE Trim(Row(a, word, 0))
TimesInt(a, n) == TimesWord(a, n)

\* operator*(big_uint, big_uint): the sum of the rows.
Times(a, b) ==
    LET sum[j \in 0 .. Len(b)] ==
          IF j = 0 THEN <<>> ELSE Plus(sum[j - 1], Trim(Row(a, b[j], j - 1)))
    IN  IF a = <<>> \/ b = <<>> THEN <<>> ELSE sum[Len(b)]

BitAnd(a, b) ==
    Trim([i \in 1 .. Longer(a, b) |-> And(At(a, i, 0), At(b, i, 0), WordBits)])
BitOr(a, b) ==
    Trim([i \in 1 .. Longer(a, b) |-> Or(At(a, i, 0), At(b, i, 0), WordBits)])

\* operator~ complements the words there are, and trims.
Complement(a) == Trim([i \in 1 .. Len(a) |-> Ones - a[i]])

\* bitwise_and_but_missing_bits_are_1.
AndMissingOnes(a, b) ==
    Trim([i \in 1 .. Longer(a, b) |-> And(At(a, i, Ones), At(b, i, Ones), WordBits)])

\* operator==(uint64_t); the shorter integers compare with a single word.
EqualsInt(a, n) ==
    \/ n = 0 /\ a = <<>>
    \/ n >= Radix /\ a = <<n % Radix, n \div Radix>>
    \/ n < Radix /\ a = <<n>>

-----------------------------------------------------------------------------
\* Strings of digits, most significant first.

\* The chunks a string is read in: of n digits, the last one shorter.
Chunks(s, n) ==
    [i \in 1 .. ((Len(s) + n - 1) \div n) |->
        SubSeq(s, (i - 1) * n + 1, IF i * n < Len(s) THEN i * n ELSE Len(s))]

\* std::from_chars on one chunk.
FromChars(s, base) ==
    LET n[i \in 0 .. Len(s)] == IF i = 0 THEN 0 ELSE n[i - 1] * base + s[i]
    IN  n[Len(s)]

\* big_uint(string_view): without leading zeros, chunk by chunk; and
\* big_uint(string_view, base), which takes shorter chunks.
ReadChunks(s, base, n) ==
    LET first  == SelectInSeq(s, LAMBDA d : d # 0)
        chunks == Chunks(SubSeq(s, first, Len(s)), n)
        read[i \in 0 .. Len(chunks)] ==
          IF i = 0 THEN <<>>
          ELSE Plus(TimesWord(read[i - 1], Power(base, Len(chunks[i]))),
                    FromInt(FromChars(chunks[i], base)))
    IN  IF first = 0 THEN <<>> ELSE read[Len(chunks)]
Parse(s)       == ReadChunks(s, Ten, Chunk)
ParseBase(s)   == ReadChunks(s, Base, BaseChunk)

\* std::to_string of a built-in integer, least significant digit first.
Digits(n) ==
    LET rest[k \in 0 .. n] ==
          IF k < Ten THEN <<k>> ELSE <<k % Ten>> \o rest[k \div Ten]
    IN  rest[n]

\* What a carry leaves to append to an accumulator.
CarryDigits(n) == IF n = 0 THEN <<>> ELSE Digits(n)

\* big_uint_to_string_accumulator += uint32_t
AccPlusInt(d, n) == Carried(d, Ten, n) \o CarryDigits(Overflow(d, Ten, n))

\* big_uint_to_string_accumulator += accumulator
AccPlus(d, e) ==
    LET x == Sums(d, e) IN Carried(x, Ten, 0) \o CarryDigits(Overflow(x, Ten, 0))

\* multiply_by_10_to_pow
AccShift(d, exp) == [i \in 1 .. exp |-> 0] \o d

\* big_uint_to_string_accumulator *= uint64_t
AccTimes(d, n) ==
    LET sum[i \in 0 .. Len(d)] ==
          IF i = 0 THEN <<>> ELSE AccPlus(sum[i - 1], AccShift(Digits(d[i] * n), i - 1))
    IN  sum[Len(d)]

\* to_string: from the most significant word down.
StringOf(a) ==
    LET acc[k \in 0 .. Len(a)] ==
          IF k = 0 THEN <<>>
          ELSE AccPlusInt(AccTimes(acc[k - 1], Radix), a[Len(a) + 1 - k])
    IN  IF a = <<>> THEN <<0>> ELSE Reverse(acc[Len(a)])

=============================================================================
