--------------------------- MODULE Serialization ---------------------------
(***************************************************************************)
(* The bytes that a map of failures is written as, and how they are read   *)
(* back: detail/Serialization.hpp, Random.hpp and detail/Results.hpp, and  *)
(* the characters these bytes become: detail/Base64.cpp.                   *)
(*                                                                         *)
(* Bytes are those of the code or, for TLC, of 4 bits: three bytes always  *)
(* make four characters.  What is read is a value and the rest of the      *)
(* input, or that the input ended too early, or that what happens is       *)
(* undefined.  A Random that is written has drawn nothing, so its counter  *)
(* is 0 and its block is not looked at.                                    *)
(***************************************************************************)
EXTENDS Texts

CONSTANTS
    Byte, Base,     \* how many bytes there are, and how many characters of Base64
    WordBytes,      \* bytes of an integer
    KeyWords        \* words of the key of a Random

ASSUME SerializationAssumption ==
    /\ <<Byte, Base>> \in {<<256, 64>>, <<16, 8>>}
    /\ WordBytes \in Nat \ {0} /\ KeyWords \in Nat \ {0}

Read(value, rest) == [status |-> "read", value |-> value, rest |-> rest]
UnexpectedEnd     == [status |-> "end"]
Undefined         == [status |-> "undefined"]

\* Go on with what was read, if it was.
Then(r, Op(_, _)) == IF r.status = "read" THEN Op(r.value, r.rest) ELSE r

-----------------------------------------------------------------------------
(* Digits, the lowest first *)

\* i |-> b to the i-th power.
Powers(b, n) ==
    LET power[i \in 0..n] == IF i = 0 THEN 1 ELSE b * power[i - 1]
    IN power

\* i |-> what is left of n without its first i digits.
Shifted(n, b, digits) ==
    LET rest[i \in 0..digits] == IF i = 0 THEN n ELSE rest[i - 1] \div b
    IN rest

\* k |-> what the last k of n digits amount to.
LastDigits(digits, n, b) ==
    LET last[k \in 0..n] == IF k = 0 THEN 0 ELSE digits[n - k + 1] + b * last[k - 1]
    IN last

Number(digits, n, b) == LastDigits(digits, n, b)[n]

-----------------------------------------------------------------------------
(* Integers *)

Word == Powers(Byte, WordBytes)[WordBytes]

serializeInt(n) == [i \in 1..WordBytes |-> Shifted(n, Byte, WordBytes)[i - 1] % Byte]

deserializeInt(in) ==
    IF Len(in) < WordBytes THEN UnexpectedEnd
    ELSE Read(Number(in, WordBytes, Byte), From(in, WordBytes))

\* What is written: bytes, integers, and strings and vectors whose size is one.
Bytes    == 0..(Byte - 1)
Words    == 0..(Word - 1)
Lists(S) == {s \in Seq(S) : Len(s) < Word}

Randoms       == [key : [1..KeyWords -> Words], bits : Words, bitsi : Bytes]
Reproductions == [random : Randoms, size : Words, shrinkPath : Lists(Words)]

\* The high bit of a byte says that more of them come.
Half == Byte \div 2

\* How many bytes without their high bits fill a word.
CompactBytes == Min({i \in 1..(2 * WordBytes) : Powers(Half, 2 * WordBytes)[i] >= Word})

\* Mutant: a byte that says more will come although nothing does.
More_Always(rest) == Half

More(rest) == IF rest = 0 THEN 0 ELSE Half

serializeCompact(n) ==
    LET rest == Shifted(n, Half, CompactBytes)
        size == Min({i \in 1..CompactBytes : rest[i] = 0})
    IN [i \in 1..size |-> (rest[i - 1] % Half) + More(rest[i])]

\* A shift by the width of the type, for a byte beyond those that fill it, is undefined.
deserializeCompact(in) ==
    LET size == Min({i \in DOMAIN in : in[i] < Half} \cup {Len(in) + 1})
    IN IF CompactBytes < size /\ CompactBytes < Len(in) THEN Undefined
       ELSE IF size > Len(in) THEN UnexpectedEnd
       ELSE Read(Number([i \in 1..size |-> in[i] % Half], size, Half) % Word, From(in, size))

-----------------------------------------------------------------------------
(* Several values: n of them, or a count and then as many *)

serializeN(values) == Joined([i \in DOMAIN values |-> serializeInt(values[i])])

deserializeN(n, in) ==
    LET state[i \in 0..n] ==
          IF i = 0 THEN Read(<<>>, in)
          ELSE Then(state[i - 1], LAMBDA values, rest :
                 Then(deserializeInt(rest), LAMBDA v, last : Read(Append(values, v), last)))
    IN state[n]

serializeCompactRange(values) ==
    serializeCompact(Len(values)) \o Joined([i \in DOMAIN values |-> serializeCompact(values[i])])

CompactN(n, in) ==
    LET state[i \in 0..n] ==
          IF i = 0 THEN Read(<<>>, in)
          ELSE Then(state[i - 1], LAMBDA values, rest :
                 Then(deserializeCompact(rest), LAMBDA v, last : Read(Append(values, v), last)))
    IN state[n]

deserializeCompactRange(in) == Then(deserializeCompact(in), CompactN)

serializeString(s) == serializeCompact(Len(s)) \o s

deserializeString(in) ==
    Then(deserializeCompact(in), LAMBDA len, rest :
      IF Len(rest) < len THEN UnexpectedEnd ELSE Read(SubSeq(rest, 1, len), From(rest, len)))

-----------------------------------------------------------------------------
(* Random and Reproduce *)

serializeRandom(random) ==
    serializeN(random.key) \o serializeCompact(random.bits)
      \o serializeCompact(0) \o <<random.bitsi>>

\* The last byte is read without asking whether there is one.
deserializeRandom(in) ==
    Then(deserializeN(KeyWords, in), LAMBDA key, in1 :
      Then(deserializeCompact(in1), LAMBDA bits, in2 :
        Then(deserializeCompact(in2), LAMBDA counter, in3 :
          IF in3 = <<>> THEN Undefined
          ELSE Read([key |-> key, bits |-> bits, bitsi |-> Head(in3)], Tail(in3)))))

serializeReproduce(value) ==
    serializeRandom(value.random) \o serializeInt(value.size)
      \o serializeCompactRange(value.shrinkPath)

deserializeReproduce(in) ==
    Then(deserializeRandom(in), LAMBDA random, in1 :
      Then(deserializeInt(in1), LAMBDA size, in2 :
        Then(deserializeCompactRange(in2), LAMBDA shrinkPath, in3 :
          Read([random |-> random, size |-> size, shrinkPath |-> shrinkPath], in3))))

-----------------------------------------------------------------------------
(* The map: ids to Reproduces.  Its order is that of the hash table; here it is
   any fixed one. *)

serializePair(key, value) == serializeString(key) \o serializeReproduce(value)

deserializePair(in) ==
    Then(deserializeString(in), LAMBDA key, rest :
      Then(deserializeReproduce(rest), LAMBDA value, last : Read(<<key, value>>, last)))

serializeMap(map) ==
    LET keys == SetToSeq(DOMAIN map)
    IN serializeCompact(Cardinality(DOMAIN map))
         \o Joined([i \in DOMAIN keys |-> serializePair(keys[i], map[keys[i]])])

\* The loop: it ends when the map has its size, so a key that comes twice does not
\* count; insert keeps the first.  Every pair takes at least a byte.
Inserted(len, in) ==
    LET state[i \in 0..(Len(in) + 1)] ==
          IF i = 0 THEN Read([k \in {} |-> <<>>], in)
          ELSE Then(state[i - 1], LAMBDA output, rest :
                 IF Cardinality(DOMAIN output) >= len THEN Read(output, rest)
                 ELSE Then(deserializePair(rest), LAMBDA element, last :
                        Read([k \in DOMAIN output \cup {element[1]} |->
                                IF k \in DOMAIN output THEN output[k] ELSE element[2]], last)))
    IN state[Len(in) + 1]

deserializeMap(in) == Then(deserializeCompact(in), Inserted)

-----------------------------------------------------------------------------
(* Base64: three bytes are four characters *)

kBase64Alphabet ==
    <<"A", "B", "C", "D", "E", "F", "G", "H", "I", "J", "K", "L", "M", "N", "O", "P",
      "Q", "R", "S", "T", "U", "V", "W", "X", "Y", "Z", "a", "b", "c", "d", "e", "f",
      "g", "h", "i", "j", "k", "l", "m", "n", "o", "p", "q", "r", "s", "t", "u", "v",
      "w", "x", "y", "z", "0", "1", "2", "3", "4", "5", "6", "7", "8", "9", "+", "_">>

Alphabet == [n \in 0..(Base - 1) |-> kBase64Alphabet[n + 1]]

reverseAlphabet ==
    [c \in {Alphabet[n] : n \in DOMAIN Alphabet} |->
       CHOOSE n \in DOMAIN Alphabet : Alphabet[n] = c]

\* The bits of the g-th group of n digits, as far as there are that many.
Group(digits, g, n, b) ==
    Number([i \in 1..n |-> IF g * n + i \in DOMAIN digits THEN digits[g * n + i] ELSE 0], n, b)

\* The bits of a group that are left over at its end are filled up with 0.
base64Encode(data) ==
    [i \in 1..((Len(data) * 4 + 2) \div 3) |->
       Alphabet[Shifted(Group(data, (i - 1) \div 4, 3, Byte), Base, 3)[(i - 1) % 4] % Base]]

ParseFailed == [status |-> "failed"]

\* Those that are left over are dropped.
base64Decode(str) ==
    LET digits == [i \in DOMAIN str |-> reverseAlphabet[str[i]]]
    IN IF Len(str) % 4 = 1 \/ \E i \in DOMAIN str : str[i] \notin DOMAIN reverseAlphabet
         THEN ParseFailed
       ELSE Read([i \in 1..((Len(str) * 3) \div 4) |->
                    Shifted(Group(digits, (i - 1) \div 3, 4, Base), Byte, 2)[(i - 1) % 3] % Byte],
                 <<>>)

-----------------------------------------------------------------------------
(* detail/StringSerialization.cpp *)

reproduceMapToString(reproduceMap) == base64Encode(serializeMap(reproduceMap))

\* What is left of the input is not looked at.
stringToReproduceMap(str) ==
    LET data == base64Decode(str)
        map  == deserializeMap(data.value)
    IN IF data.status # "read" THEN ParseFailed
       ELSE IF map.status = "end" THEN ParseFailed ELSE map
=============================================================================
