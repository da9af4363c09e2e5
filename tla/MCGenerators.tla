---------------------------- MODULE MCGenerators ----------------------------
(***************************************************************************)
(* Generators of every class, with captured values, sizes and numbers that *)
(* bring each of them to its limits, for words of 6 bits.                  *)
(***************************************************************************)
EXTENDS Generators

Constant(v) == [gen |-> "just", value |-> v]
Elem(s)     == [gen |-> "elementOf", elements |-> s]
Sized(s)    == [gen |-> "sizedElementOf", elements |-> s]
Signed      == IntType(WordBits, TRUE)
InRange(min, max) == [gen |-> "inRange", min |-> min, max |-> max, type |-> Signed]
Integral(bits, signed) == [gen |-> "integral", type |-> IntType(bits, signed)]
Coin        == [gen |-> "boolean"]
Function(s) == [i \in 0..(Len(s) - 1) |-> s[i + 1]]

\* Of one number: any word.
Leaves ==
    {Integral(6, FALSE), Integral(6, TRUE), Integral(3, TRUE), Integral(4, FALSE), Coin}
    \cup {InRange(-32, max) : max \in -33..31}
    \cup {InRange(-2, 3), InRange(5, 5)}
    \cup {[gen |-> "weightedElement", elements |-> <<1, 2, 3, 4>>, weights |-> w] :
            w \in {<<0, 2, 1, 5>>, <<3, 0, 0, 0>>, <<0, 0, 0, 0>>}}
    \cup {Elem(<<>>), Elem(<<7, 8, 9>>), Sized(<<>>), Sized(<<1, 2, 3, 4, 5>>)}

\* Of two numbers: any words.
Calls == {[type |-> Word, nbits |-> 4], [type |-> Word, nbits |-> 6],
          [type |-> IntType(3, TRUE), nbits |-> 2], [type |-> IntType(3, TRUE), nbits |-> 9],
          [type |-> IntType(6, TRUE), nbits |-> 5], [type |-> Word, nbits |-> 0]}
Streams == {[gen |-> "stream", calls |-> <<c, d, e>>] : c, d, e \in Calls}

Texts ==
    {[gen |-> t, type |-> IntType(3, s)] : t \in {"character", "string"}, s \in BOOLEAN}

Composed ==
    {[gen |-> "oneOf", gens |-> <<Constant(5), InRange(0, 4)>>],
     weightedOneOf(<<Constant(6), InRange(0, 4), Sized(<<7, 8>>)>>, <<0, 2, 1>>),
     sizedOneOf(<<Constant(6), InRange(0, 4), Sized(<<7, 8>>)>>),
     sizedOneOf(<<>>),
     [gen |-> "mapped", of |-> InRange(0, 4), mapper |-> Function(<<3, 1, 3, 0>>)],
     [gen |-> "mapcat", of |-> InRange(0, 3),
      mapper |-> Function(<<Constant(9), InRange(1, 3), InRange(1, 1)>>)],
     [gen |-> "tuple", gens |-> <<InRange(0, 3), Coin, Sized(<<7, 8, 9>>)>>],
     [gen |-> "tuple", gens |-> <<InRange(0, 3), Elem(<<>>)>>],
     [gen |-> "build", of |-> Constant([a |-> 5, b |-> 6, c |-> 7]),
      gens |-> <<InRange(0, 4), Sized(<<8, 9>>), InRange(4, 8)>>, members |-> <<"a", "b", "a">>],
     [gen |-> "maybe", of |-> InRange(0, 4)],
     [gen |-> "maybe", of |-> Elem(<<>>)],
     [gen |-> "lazy", of |-> InRange(0, 4)],
     [gen |-> "resize", of |-> InRange(0, 4), to |-> 2],
     [gen |-> "scale", of |-> InRange(0, 8), percent |-> 50],
     [gen |-> "withSize",
      callable |-> Function([i \in 1..7 |-> IF i % 2 = 0 THEN InRange(0, i) ELSE Constant(i)])],
     [gen |-> "suchThat", of |-> Sized(<<1, 2, 3, 4, 5>>), pred |-> [is |-> "in", set |-> {3, 5}]],
     [gen |-> "suchThat", of |-> [gen |-> "oneOf", gens |-> <<Constant(1), Elem(<<>>)>>],
      pred |-> [is |-> "in", set |-> {2}]],
     distinctFrom(InRange(0, 3), 1),
     nonZero(Integral(2, TRUE)), positive(Integral(2, TRUE)), negative(Integral(3, TRUE)),
     nonNegative(Integral(3, TRUE)),
     [gen |-> "cast", of |-> Integral(4, TRUE), type |-> IntType(2, TRUE)],
     apply([t \in (0..2) \X (0..1) |-> t[1] + 2 * t[2]], <<InRange(0, 3), InRange(0, 2)>>)}

Letters == <<1, 2, 3, 4>>
Parity  == <<1, 0, 1, 0>>

Collections ==
    UNION {{Container(s, Sized(Letters)), ContainerOf(0, s, Sized(Letters)),
            ContainerOf(2, s, Sized(Letters)), ContainerOf(3, s, Sized(Letters))} :
             s \in {"collection", "set", "unique"}}
    \cup
    {uniqueBy(Sized(Letters), Parity), uniqueByOf(2, Sized(Letters), Parity),
     uniqueByOf(3, Sized(Letters), Parity),
     unique(InRange(0, 3)), uniqueOf(2, InRange(0, 3)),
     MultiMap(InRange(0, 2), InRange(0, 4)),
     ContainerOf(2, "collection", Container("collection", InRange(0, 4))),
     nonEmpty(Container("collection", InRange(0, 4))),
     ContainerOf(1, "set", Elem(<<>>))}
    \cup
    {[gen |-> "map", strategy |-> "set", of |-> Sized(Letters), values |-> v, count |-> c] :
       v \in {InRange(0, 4), Sized(<<>>)}, c \in {Nothing, Just(2)}}
    \cup
    {[gen |-> "array", of |-> InRange(0, 4), length |-> 2, count |-> c] :
       c \in {Nothing, Just(2), Just(1)}}

MCGens == Leaves \cup Streams \cup Texts \cup Composed \cup Collections

MCSizes(g) ==
    IF g \in Leaves THEN 0..6
    ELSE IF g \in Streams THEN {0}
    ELSE IF g \in Texts THEN {0, 3, 6}
    ELSE {0, 1, 2, 5}

MCTables(g) ==
    IF g \in Leaves THEN [1..1 -> 0..(WordMod - 1)]
    ELSE IF g \in Streams THEN [1..3 -> {0, 1, 13, 18, 32, 63}]
    ELSE IF g \in Texts THEN [1..3 -> {0, 1, 4, 42, 63}] \ {<<0, 0, 0>>}
    ELSE IF g \in Composed THEN [1..5 -> {0, 1, 2, 3}]
    ELSE [1..6 -> {0, 1, 63}]

=============================================================================
