----------------------------- MODULE ShrinkSeqs -----------------------------
(***************************************************************************)
(* The shrinking algorithms of shrink/Shrink.hpp: the sequences they make. *)
(*                                                                         *)
(* Integers have Width bits.  Real numbers are counted in halves.  Vectors *)
(* and strings are sequences.                                              *)
(***************************************************************************)
EXTENDS SeqCreate

CONSTANT Width     \* bits of an integer type

Lowest   == -(2 ^ (Width - 1))
Highest  == 2 ^ (Width - 1) - 1
Signed   == Lowest..Highest
Unsigned == 0..(2 ^ Width - 1)

\* Two's complement of a result that does not fit.
AsSigned(n) == ((n - Lowest) % (2 ^ Width)) + Lowest
AsUInt(n)   == n % (2 ^ Width)

-----------------------------------------------------------------------------
(* shrink::towards *)

\* The difference may not fit the signed type; as an unsigned number it does.
Distance(value, target) ==
    AsUInt(IF target < value THEN value - target ELSE target - value)

towards(value, target) ==
    [class |-> "towards", value |-> value, diff |-> Distance(value, target),
     down |-> target < value]

-----------------------------------------------------------------------------
(* shrink::removeChunks *)

removeChunks(elements) ==
    [class |-> "removeChunks", elements |-> elements, start |-> 0, size |-> Len(elements)]

-----------------------------------------------------------------------------
(* shrink::eachElement, where shrink is a callable that makes a Seq *)

eachElement(elements, shrink) ==
    [class |-> "eachElement", elements |-> elements, shrink |-> shrink,
     shrinks |-> Empty, i |-> 0]

-----------------------------------------------------------------------------
(* shrink::integral, real, boolean and character *)

\* Mutant: the smallest number is negated too, to itself.
integralSigned_NegatesLowest(value) ==
    IF value < 0
      THEN concat(<<just(<<0, AsSigned(-value)>>), drop(1, towards(value, 0))>>)
      ELSE towards(value, 0)

integralSigned(value) ==
    IF value < 0 /\ value > Lowest
      THEN concat(<<just(<<0, -value>>), drop(1, towards(value, 0))>>)
      ELSE towards(value, 0)

integralUnsigned(value) == towards(value, 0)

\* Towards zero, in halves.
Trunc(h) == IF h < 0 THEN -2 * ((-h) \div 2) ELSE 2 * (h \div 2)

Size(h) == IF h < 0 THEN -h ELSE h

real(h) ==
    fromContainer((IF Size(h) > 0 THEN <<0>> ELSE <<>>)
               \o (IF h < 0 THEN <<-h>> ELSE <<>>)
               \o (IF Size(Trunc(h)) < Size(h) THEN <<Trunc(h)>> ELSE <<>>))

boolean(value) == IF value THEN just(<<FALSE>>) ELSE Empty

ToLower(c) == CASE c = "A" -> "a" [] c = "B" -> "b" [] c = "C" -> "c"
                [] c = "D" -> "d" [] OTHER -> c
IsLower(c) == c \in {"a", "b", "c", "d"}

character(value) ==
    takeWhile(concat(<<fromContainer(<<"a", "b", "c">>),
                       IF IsLower(value) THEN Empty ELSE just(<<ToLower(value)>>),
                       fromContainer(<<"A", "B", "C", "1", "2", "3", " ", "\n">>)>>),
              [callable |-> "isNot", value |-> value])
=============================================================================
