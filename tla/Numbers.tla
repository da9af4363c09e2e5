------------------------------ MODULE Numbers ------------------------------
(***************************************************************************)
(* How random words become numbers: detail/BitStream.hpp takes bits off a  *)
(* source of words, gen/detail/ScaleInteger.cpp scales a range with the    *)
(* size, detail/FrequencyMap.cpp finds an element by weight.               *)
(*                                                                         *)
(* A word has 2 * HalfBits bits.  A type is its number of bits and whether *)
(* it is signed.  A stream reads the words it is given in order.           *)
(***************************************************************************)
EXTENDS Integers, Sequences, SequencesExt

CONSTANTS
    HalfBits,       \* bits of half a Random::Number
    kNominalSize    \* the size at which ranges are full

ASSUME NumbersAssumption ==
    /\ HalfBits \in Nat \ {0}
    /\ kNominalSize \in 2..(2 ^ HalfBits - 1) /\ kNominalSize % 2 = 0

Half     == 2 ^ HalfBits
WordBits == 2 * HalfBits
WordMod  == 2 ^ WordBits

IntType(bits, signed) == [bits |-> bits, signed |-> signed]
Word == IntType(WordBits, FALSE)
Bool == IntType(1, FALSE)       \* read as one bit of an unsigned int

Least(T)    == IF T.signed THEN -(2 ^ (T.bits - 1)) ELSE 0
Greatest(T) == IF T.signed THEN 2 ^ (T.bits - 1) - 1 ELSE 2 ^ T.bits - 1

\* static_cast to T.
AsType(T, n) == ((n - Least(T)) % (2 ^ T.bits)) + Least(T)

Smaller(m, n) == IF m < n THEN m ELSE n

-----------------------------------------------------------------------------
(* BitStream *)

bitStreamOf(words) == [words |-> words, fetched |-> 0, bits |-> 0, numBits |-> 0]

Refilled(s) ==
    [s EXCEPT !.bits = s.words[s.fetched + 1], !.fetched = @ + 1, !.numBits = WordBits]

\* Mutant: the bits of the next word land on those of the last one.
Placed_NotShifted(value, bits, shift) == value + bits

\* value |= bits << shift, where these bits of value are still 0.
Placed(value, bits, shift) == value + bits * 2 ^ shift

\* The loop of next(): wantBits of the nbits are still wanted, value has the others.
RECURSIVE TakeBits(_, _, _, _)
TakeBits(s, value, nbits, wantBits) ==
    IF wantBits = 0 THEN [value |-> value, stream |-> s]
    ELSE IF s.numBits = 0 THEN TakeBits(Refilled(s), value, nbits, wantBits)
    ELSE LET n == Smaller(s.numBits, wantBits)
         IN TakeBits([s EXCEPT !.bits = IF n < WordBits THEN @ \div 2 ^ n ELSE @,
                               !.numBits = @ - n],
                     Placed(value, s.bits % 2 ^ n, nbits - wantBits),
                     nbits, wantBits - n)

\* next<T>(nbits): the last bit is the sign, and fills the bits above.
nextBits(s, T, nbits) ==
    LET n == Smaller(nbits, T.bits)
        r == TakeBits(s, 0, n, n)
        negative == T.signed /\ n > 0 /\ r.value \div 2 ^ (n - 1) = 1
    IN [r EXCEPT !.value = IF negative THEN @ - 2 ^ n ELSE @]

nextWithSize(s, T, size) ==
    nextBits(s, T, (size * T.bits + kNominalSize \div 2) \div kNominalSize)

-----------------------------------------------------------------------------
(* ScaleInteger *)

\* Mutant: the sum of the lower words wraps unnoticed.
Carry_Lost(added, part) == 0

Carry(added, part) == IF added < part THEN 1 ELSE 0

\* a * b / c, rounded, where the product needs more than a word: it is added up in
\* halves with a carry, and divided half by half.
mulDiv(a, b, c) ==
    LET x1  == (a % Half) * b
        x2  == (a \div Half) * b
        xl0 == (x2 * Half) % WordMod
        xl  == (xl0 + x1) % WordMod
        xh  == x2 \div Half + Carry(xl, xl0)
        r1  == (xh % c) * Half + xl \div Half
        r2  == (r1 % c) * Half + (xl % Half)
        y   == (((r1 \div c) * Half) % WordMod) + r2 \div c
    IN IF r2 % c < c \div 2 THEN y ELSE (y + 1) % WordMod

scaleInteger(x, size) == mulDiv(x, Smaller(kNominalSize, size), kNominalSize)

-----------------------------------------------------------------------------
(* FrequencyMap *)

table(frequencies) == [i \in DOMAIN frequencies |-> FoldLeft(+, 0, SubSeq(frequencies, 1, i))]

sum(frequencies) == FoldLeft(+, 0, frequencies)

\* upper_bound: the index, from 1, of the first partial sum above x.
lookup(frequencies, x) ==
    1 + Cardinality({i \in DOMAIN frequencies : table(frequencies)[i] <= x})
=============================================================================
