----------------------------- MODULE Generators -----------------------------
(***************************************************************************)
(* What the generators of gen/*.hpp generate from a Random and a size.     *)
(* What their values shrink to is in ShrinkTrees.                          *)
(*                                                                         *)
(* A generator is a record: its class and what it has captured.  A Random  *)
(* is its place in the tree of splits, and next() returns any number, but  *)
(* the same one whenever the same Random is asked again.  An exception     *)
(* (GenerationFailure) passes through every generator to the one who asks  *)
(* for the value: Gen::operator() keeps it in the Shrinkable until then.   *)
(***************************************************************************)
EXTENDS Numbers, TLC

CONSTANTS
    MaxTries,       \* 100 in FilterGen and generateShrinkables
    Gens,           \* the generators that are run
    Sizes(_),       \* the sizes one is run with
    Tables(_)       \* and the tables of numbers, see Number

ASSUME GeneratorsAssumption == MaxTries \in Nat \ {0}

VARIABLES
    gen, size,
    numbers,        \* what Random::next returns
    outcome         \* of running gen, once it was

vars == <<gen, size, numbers, outcome>>

Nothing == <<>>
Just(v) == <<v>>

-----------------------------------------------------------------------------
(* Random *)

\* After r.split(): what is returned, and what r has become.
Split(r) == Append(r, 1)
Kept(r)  == Append(r, 0)

AfterSplits(r, n) == r \o [i \in 1..n |-> 0]

Pick(s, n) == s[(n % Len(s)) + 1]

\* The k-th number, from 0, of a Random.  numbers is a table that is shared by
\* Randoms far from each other in the tree.
Number(r, k) ==
    Pick(numbers, Len(r) + 3 * Len(SelectSeq(r, LAMBDA b : b = 1)) + k)

Stream(r) == bitStreamOf([k \in Nat \ {0} |-> Number(r, k - 1)])

\* Random(), which a map uses for a value that is thrown away.
DefaultRandom == <<2>>

\* The first n numbers of r were drawn.
Drawn(r, n) == [k \in 1..n |-> [random |-> r, k |-> k - 1]]

-----------------------------------------------------------------------------
(* Outcomes: the value, if it did not fail, the numbers that were drawn, and
   the attempts of a generator that tries until it is satisfied. *)

Outcome(value, drawn, tries) == [value |-> value, drawn |-> drawn, tries |-> tries]
Got(v, drawn) == Outcome(Just(v), drawn, <<>>)
Failed(drawn) == Outcome(Nothing, drawn, <<>>)

Fails(x) == x.value = Nothing

\* x was generated after these numbers were drawn.
After(drawn, x) == [x EXCEPT !.drawn = drawn \o @]

Mapped(x, Op(_)) == IF Fails(x) THEN x ELSE [x EXCEPT !.value = Just(Op(@[1]))]

Try(n, ok) == [size |-> n, ok |-> ok]

RECURSIVE Generate(_, _, _)

-----------------------------------------------------------------------------
(* gen/Numeric.hpp, gen/Text.hpp *)

integral(g, r, n) ==
    LET x == nextWithSize(Stream(r), g.type, n)
    IN Got(x.value, Drawn(r, x.stream.fetched))

boolean(r) == Got(nextBits(Stream(r), Bool, 1).value = 1, Drawn(r, 1))

\* The range is taken as an unsigned word, whatever the type.
inRange(g, r, n) ==
    IF g.max <= g.min THEN Failed(<<>>)
    ELSE LET rangeSize == scaleInteger((g.max - g.min - 1) % WordMod, n) + 1
         IN Got(AsType(g.type, (Number(r, 0) % rangeSize) + g.min), Drawn(r, 1))

\* One character: all bits, or all but one of them if it is to be a small one.
RECURSIVE NonNull(_, _, _)
NonNull(s, T, small) ==
    LET x == nextBits(s, T, IF small THEN T.bits - 1 ELSE T.bits)
    IN IF x.value = 0 THEN NonNull(x.stream, T, small) ELSE x

nextCharacter(s, T) ==
    LET small == nextBits(s, Bool, 1)
    IN NonNull(small.stream, T, small.value = 1)

character(g, r) ==
    LET x == nextCharacter(Stream(r), g.type)
    IN Got(x.value, Drawn(r, x.stream.fetched))

RECURSIVE Characters(_, _, _)
Characters(s, T, length) ==
    IF length = 0 THEN [value |-> <<>>, stream |-> s]
    ELSE LET x  == nextCharacter(s, T)
             xs == Characters(x.stream, T, length - 1)
         IN [xs EXCEPT !.value = <<x.value>> \o @]

string(g, r, n) ==
    LET length == nextBits(Stream(r), Word, WordBits)
        x == Characters(length.stream, g.type, length.value % (n + 1))
    IN Got(x.value, Drawn(r, x.stream.fetched))

-----------------------------------------------------------------------------
(* gen/Select.hpp; oneOf splits, as its generators need numbers too *)

elementOf(g, r) ==
    IF g.elements = <<>> THEN Failed(<<>>)
    ELSE Got(Pick(g.elements, Number(r, 0)), Drawn(r, 1))

weightedElement(g, r) ==
    IF sum(g.weights) = 0 THEN Failed(<<>>)
    ELSE Got(g.elements[lookup(g.weights, Number(r, 0) % sum(g.weights))], Drawn(r, 1))

sizedElementOf(g, r, n) ==
    IF g.elements = <<>> THEN Failed(<<>>)
    ELSE LET max == scaleInteger(Len(g.elements) - 1, n) + 1
         IN Got(g.elements[(Number(r, 0) % max) + 1], Drawn(r, 1))

oneOf(g, r, n) ==
    After(Drawn(Split(r), 1), Generate(Pick(g.gens, Number(Split(r), 0)), Kept(r), n))

weightedOneOf(gens, weights) ==
    [gen |-> "join", of |-> [gen |-> "weightedElement", elements |-> gens, weights |-> weights]]

sizedOneOf(gens) == [gen |-> "join", of |-> [gen |-> "sizedElementOf", elements |-> gens]]

-----------------------------------------------------------------------------
(* gen/Transform.hpp, gen/Create.hpp, gen/Tuple.hpp, gen/Build.hpp, gen/Maybe.hpp *)

mapGen(g, r, n) == Mapped(Generate(g.of, r, n), LAMBDA v : g.mapper[v])

cast(g, r, n) == Mapped(Generate(g.of, r, n), LAMBDA v : AsType(g.type, v))

\* Mutant: the inner generator draws from the Random of the outer one.
InnerRandom_Shared(r) == Kept(r)

InnerRandom(r) == Split(r)

mapcat(g, r, n) ==
    LET x == Generate(g.of, Kept(r), n)
    IN IF Fails(x) THEN x
       ELSE After(x.drawn, Generate(g.mapper[x.value[1]], InnerRandom(r), n))

join(g, r, n) ==
    LET x == Generate(g.of, Kept(r), n)
    IN IF Fails(x) THEN x ELSE After(x.drawn, Generate(x.value[1], InnerRandom(r), n))

\* All components are generated, each with a Random of its own.
tuple(gens, r, n) ==
    LET xs == [i \in DOMAIN gens |-> Generate(gens[i], Split(AfterSplits(r, i - 1)), n)]
    IN Outcome(IF \E i \in DOMAIN xs : Fails(xs[i]) THEN Nothing
               ELSE Just([i \in DOMAIN xs |-> xs[i].value[1]]),
               FlattenSeq([i \in DOMAIN xs |-> xs[i].drawn]), <<>>)

pair(gen1, gen2) == [gen |-> "tuple", gens |-> <<gen1, gen2>>]

apply(callable, gens) ==
    [gen |-> "mapped", of |-> [gen |-> "tuple", gens |-> gens], mapper |-> callable]

\* Lens::set of a data member.
Set(obj, member, arg) == [obj EXCEPT ![member] = arg]

\* BuildMapper: the members are set in the order in which they are given.
Built(vs, members) ==
    FoldLeft(LAMBDA obj, i : Set(obj, members[i], vs[i + 1]),
             vs[1], [i \in DOMAIN members |-> i])

build(g, r, n) ==
    Mapped(tuple(<<g.of>> \o g.gens, r, n), LAMBDA vs : Built(vs, g.members))

resize(g, r) == Generate(g.of, r, g.to)

\* The factor is a percentage.
scale(g, r, n) == Generate(g.of, r, (n * g.percent) \div 100)

withSize(g, r, n) == Generate(g.callable[n], r, n)

maybe(g, r, n) ==
    IF Number(Split(r), 0) % (n + 1) = 0 THEN Got(Nothing, Drawn(Split(r), 1))
    ELSE After(Drawn(Split(r), 1), Mapped(Generate(g.of, Kept(r), n), Just))

-----------------------------------------------------------------------------
(* gen/Predicate.hpp *)

Pred(name) == [is |-> name]

nonEmpty(of)        == [gen |-> "suchThat", of |-> of, pred |-> Pred("nonEmpty")]
distinctFrom(of, v) == [gen |-> "suchThat", of |-> of, pred |-> [is |-> "distinct", from |-> v]]
nonZero(of)         == [gen |-> "suchThat", of |-> of, pred |-> Pred("nonZero")]
positive(of)        == [gen |-> "suchThat", of |-> of, pred |-> Pred("positive")]
negative(of)        == [gen |-> "suchThat", of |-> of, pred |-> Pred("negative")]
nonNegative(of)     == [gen |-> "suchThat", of |-> of, pred |-> Pred("nonNegative")]

Satisfies(pred, x) ==
    CASE pred.is = "in"          -> x \in pred.set
      [] pred.is = "nonEmpty"    -> x # <<>>
      [] pred.is = "distinct"    -> x # pred.from
      [] pred.is = "nonZero"     -> x # 0
      [] pred.is = "positive"    -> x > 0
      [] pred.is = "negative"    -> x < 0
      [] pred.is = "nonNegative" -> x >= 0

RECURSIVE Filtered(_, _, _, _)
Filtered(g, r, currentSize, tries) ==
    LET x  == Generate(g.of, Split(r), currentSize)
        ok == Satisfies(g.pred, x.value[1])
    IN IF Len(tries) = MaxTries THEN Outcome(Nothing, <<>>, tries)
       ELSE IF Fails(x) THEN x
       ELSE IF ok THEN Outcome(x.value, x.drawn, Append(tries, Try(currentSize, TRUE)))
       ELSE After(x.drawn, Filtered(g, Kept(r), currentSize + 1,
                                    Append(tries, Try(currentSize, FALSE))))

-----------------------------------------------------------------------------
(* gen/Container.hpp *)

\* container and uniqueBy, of any or of a fixed count; key is how uniqueBy tells them
\* apart, and unique has none.
Container(strategy, of) ==
    [gen |-> "container", strategy |-> strategy, of |-> of, key |-> Nothing, count |-> Nothing]
ContainerOf(count, strategy, of) == [Container(strategy, of) EXCEPT !.count = Just(count)]
uniqueBy(of, f)          == [Container("unique", of) EXCEPT !.key = Just(f)]
uniqueByOf(count, of, f) == [ContainerOf(count, "unique", of) EXCEPT !.key = Just(f)]
unique(of)               == Container("unique", of)
uniqueOf(count, of)      == ContainerOf(count, "unique", of)

\* A multimap is generated as a collection of pairs.
MultiMap(of, values) == Container("collection", pair(of, values))

Key(g, v) == IF g.key = Nothing THEN v ELSE g.key[1][v]

\* Mutant: what is unique are the values, not their keys.
InsertsKey_Value(g, v, values) == \A i \in DOMAIN values : v # values[i]

\* UniqueContainerStrategy: the keys of what it takes are inserted in a set.
InsertsKey(g, v, values) == \A i \in DOMAIN values : Key(g, v) # Key(g, values[i])

\* GenericContainerStrategy of sets, and the keys of maps.
Inserts(v, values) == \A i \in DOMAIN values : v # values[i]

\* The predicate of generateShrinkables: whether v is taken besides these values.
Accepts(g, v, values) ==
    CASE g.strategy = "collection" -> TRUE
      [] g.strategy = "set"        -> Inserts(v, values)
      [] g.strategy = "unique"     -> InsertsKey(g, v, values)

\* Mutant: the tries of all elements count.
InARow_Total(tries) == Len(SelectSeq(tries, LAMBDA t : ~t.ok))

\* tries of the code: those since the last one that was accepted.
InARow(tries) ==
    Len(tries) - Max({0} \cup {i \in DOMAIN tries : tries[i].ok})

\* Mutant: the size starts over with each element.
NextSize_Reset(n, tries) == n + InARow(tries)

\* currentSize: it grows with each try that fails, also from element to element.
NextSize(n, tries) == n + Len(SelectSeq(tries, LAMBDA t : ~t.ok))

\* generateShrinkables, after these values and tries; a value that fails is asked for
\* at once.
RECURSIVE Elements(_, _, _, _, _, _, _)
Elements(g, of, r, n, count, values, tries) ==
    LET currentSize == NextSize(n, tries)
        x  == Generate(of, Split(r), currentSize)
        ok == Accepts(g, x.value[1], values)
    IN IF Len(values) = count THEN Outcome(Just(values), <<>>, tries)
       ELSE IF InARow(tries) >= MaxTries THEN Outcome(Nothing, <<>>, tries)
       ELSE IF Fails(x) THEN x
       ELSE After(x.drawn,
              Elements(g, of, Kept(r), n, count,
                       IF ok THEN Append(values, x.value[1]) ELSE values,
                       Append(tries, Try(currentSize, ok))))

Pairs(keys, values) == [i \in DOMAIN keys |-> <<keys[i], values[i]>>]

\* The keys of a map are tried with a value that is never looked at.
MapElements(g, r, n, count) ==
    LET keys   == Elements(g, g.of, Split(r), n, count, <<>>, <<>>)
        values == Elements([strategy |-> "collection"], g.values, Kept(r), n, count, <<>>, <<>>)
        dummy  == Generate(g.values, DefaultRandom, 0)
    IN IF count > 0 /\ Fails(dummy) THEN Failed(<<>>)
       ELSE IF Fails(keys) THEN keys
       ELSE After(keys.drawn, [Mapped(values, LAMBDA vs : Pairs(keys.value[1], vs))
                                 EXCEPT !.tries = keys.tries])

generateElements(g, r, n, count) ==
    IF g.gen = "map" THEN MapElements(g, r, n, count)
    ELSE Elements(g, g.of, r, n, count, <<>>, <<>>)

\* Mutant: the number of elements is drawn from the Random they are drawn from.
CountRandom_Shared(r) == Kept(r)

CountRandom(r) == Split(r)

\* ContainerHelper: of any number of elements up to the size, or of a fixed one; an
\* array has a fixed one already.
container(g, r, n) ==
    After(Drawn(CountRandom(r), 1),
          generateElements(g, Kept(r), n, Number(CountRandom(r), 0) % (n + 1)))

containerOf(g, r, n) == generateElements(g, r, n, g.count[1])

array(g, r, n) ==
    IF g.count \notin {Nothing, Just(g.length)} THEN Failed(<<>>)
    ELSE Elements([strategy |-> "collection"], g.of, r, n, g.length, <<>>, <<>>)

-----------------------------------------------------------------------------
(* Calls of BitStream::next one after the other, and of mulDiv and lookup *)

RECURSIVE Reads(_, _)
Reads(s, calls) ==
    IF calls = <<>> THEN <<>>
    ELSE LET x == nextBits(s, Head(calls).type, Head(calls).nbits)
         IN <<x.value>> \o Reads(x.stream, Tail(calls))

-----------------------------------------------------------------------------
Generate(g, r, n) ==
    CASE g.gen = "just"            -> Got(g.value, <<>>)
      [] g.gen = "integral"        -> integral(g, r, n)
      [] g.gen = "boolean"         -> boolean(r)
      [] g.gen = "inRange"         -> inRange(g, r, n)
      [] g.gen = "character"       -> character(g, r)
      [] g.gen = "string"          -> string(g, r, n)
      [] g.gen = "elementOf"       -> elementOf(g, r)
      [] g.gen = "weightedElement" -> weightedElement(g, r)
      [] g.gen = "sizedElementOf"  -> sizedElementOf(g, r, n)
      [] g.gen = "oneOf"           -> oneOf(g, r, n)
      [] g.gen = "mapped"          -> mapGen(g, r, n)
      [] g.gen = "mapcat"          -> mapcat(g, r, n)
      [] g.gen = "join"            -> join(g, r, n)
      [] g.gen = "tuple"           -> tuple(g.gens, r, n)
      [] g.gen = "build"           -> build(g, r, n)
      [] g.gen = "maybe"           -> maybe(g, r, n)
      [] g.gen = "lazy"            -> Generate(g.of, r, n)
      [] g.gen = "cast"            -> cast(g, r, n)
      [] g.gen = "resize"          -> resize(g, r)
      [] g.gen = "scale"           -> scale(g, r, n)
      [] g.gen = "withSize"        -> withSize(g, r, n)
      [] g.gen = "suchThat"        -> Filtered(g, r, n, <<>>)
      [] g.gen \in {"container", "map"} ->
           IF g.count = Nothing THEN container(g, r, n) ELSE containerOf(g, r, n)
      [] g.gen = "array"           -> array(g, r, n)
      [] g.gen = "stream"          -> Got(Reads(Stream(r), g.calls), <<>>)

Init ==
    /\ gen \in Gens
    /\ size \in Sizes(gen)
    /\ numbers \in Tables(gen)
    /\ outcome = Nothing

Run ==
    /\ outcome = Nothing
    /\ outcome' = Just(Generate(gen, <<>>, size))
    /\ UNCHANGED <<gen, size, numbers>>

Spec == Init /\ [][Run]_vars
-----------------------------------------------------------------------------
(* Properties *)

\* x * n / kNominalSize, rounded, for sizes up to the nominal one.
Rounded(x, n) == (x * Smaller(n, kNominalSize) + kNominalSize \div 2) \div kNominalSize

\* What the documentation of each generator says of a value it makes with size n.
RECURSIVE Promised(_, _, _)

\* Containers: how many elements, and which ones may be together.
PromisedElements(g, n, vs) ==
    /\ IF g.count = Nothing THEN Len(vs) <= n ELSE Len(vs) = g.count[1]
    /\ CASE g.gen = "map"               -> \A i, j \in DOMAIN vs : i # j => vs[i][1] # vs[j][1]
         [] g.strategy = "set"          -> IsInjective(vs)
         [] g.strategy = "unique"       -> IsInjective([i \in DOMAIN vs |-> Key(g, vs[i])])
         [] OTHER                       -> TRUE
    /\ \A i \in DOMAIN vs : \E m \in n..(n + i * (MaxTries - 1)) :
         IF g.gen = "map"
           THEN Promised(g.of, m, vs[i][1]) /\ Promised(g.values, n, vs[i][2])
           ELSE Promised(g.of, m, vs[i])

Promised(g, n, v) ==
    CASE g.gen = "just"      -> v = g.value
      [] g.gen = "integral"  -> IF n = 0 THEN v = 0
                                ELSE LET T == IntType(Smaller(Rounded(g.type.bits, n), g.type.bits),
                                                      g.type.signed)
                                     IN v \in Least(T)..Greatest(T)
      [] g.gen = "boolean"   -> v \in BOOLEAN
      [] g.gen = "inRange"   -> /\ v \in g.min..(g.max - 1)
                                /\ v - g.min <= Rounded(g.max - g.min - 1, n)
      [] g.gen = "character" -> v \in (Least(g.type)..Greatest(g.type)) \ {0}
      [] g.gen = "string"    -> /\ Len(v) <= n
                                /\ Range(v) \subseteq (Least(g.type)..Greatest(g.type)) \ {0}
      [] g.gen = "elementOf"       -> v \in Range(g.elements)
      [] g.gen = "weightedElement" ->
           \E i \in DOMAIN g.elements : g.weights[i] > 0 /\ v = g.elements[i]
      [] g.gen = "sizedElementOf"  ->
           v \in Range(SubSeq(g.elements, 1, Rounded(Len(g.elements) - 1, n) + 1))
      [] g.gen = "oneOf"     -> \E i \in DOMAIN g.gens : Promised(g.gens[i], n, v)
      [] g.gen = "mapped"    ->
           \E x \in DOMAIN g.mapper : g.mapper[x] = v /\ Promised(g.of, n, x)
      [] g.gen = "cast"      ->
           \E x \in Least(g.of.type)..Greatest(g.of.type) :
             Promised(g.of, n, x) /\ v = AsType(g.type, x)
      [] g.gen = "mapcat"    ->
           \E x \in DOMAIN g.mapper : Promised(g.of, n, x) /\ Promised(g.mapper[x], n, v)
      [] g.gen = "join"      ->
           \E x \in Range(g.of.elements) : Promised(g.of, n, x) /\ Promised(x, n, v)
      [] g.gen = "tuple"     -> \A i \in DOMAIN g.gens : Promised(g.gens[i], n, v[i])
      [] g.gen = "build"     ->
           \A m \in DOMAIN v :
             IF m \in Range(g.members)
               THEN LET i == Max({k \in DOMAIN g.members : g.members[k] = m})
                    IN Promised(g.gens[i], n, v[m])
               ELSE \E obj \in {g.of.value} : v[m] = obj[m]
      [] g.gen = "maybe"     -> v = Nothing \/ (n > 0 /\ Promised(g.of, n, v[1]))
      [] g.gen = "lazy"      -> Promised(g.of, n, v)
      [] g.gen = "resize"    -> Promised(g.of, g.to, v)
      [] g.gen = "scale"     -> Promised(g.of, (n * g.percent) \div 100, v)
      [] g.gen = "withSize"  -> Promised(g.callable[n], n, v)
      [] g.gen = "suchThat"  ->
           Satisfies(g.pred, v) /\ \E m \in n..(n + MaxTries - 1) : Promised(g.of, m, v)
      [] g.gen \in {"container", "map"} -> PromisedElements(g, n, v)
      [] g.gen = "array"     -> Len(v) = g.length /\ \A i \in DOMAIN v : Promised(g.of, n, v[i])
      [] g.gen = "stream"    -> TRUE

Ran == outcome # Nothing

\* A generator that returns a value returns one that its documentation promises, at
\* any size (gen/*.h).
KeepsPromise ==
    Ran /\ ~Fails(outcome[1]) => Promised(gen, size, outcome[1].value[1])

\* No number of a Random is used twice in a run, so what is generated in one place
\* does not depend on what is generated in another; and a Random that numbers were
\* drawn from is never split (the assertion in Random::split).
DrawsAreSeparate ==
    Ran => LET d == outcome[1].drawn
           IN \A i, j \in DOMAIN d :
                i # j => d[i] # d[j] /\ ~IsStrictPrefix(d[i].random, d[j].random)

\* A generator that tries again gives up after MaxTries failures in a row and for no
\* other reason, and every failure makes the next try one larger (FilterGen,
\* generateShrinkables).
GivesUpInARow ==
    Ran /\ outcome[1].tries # <<>> =>
      LET t == outcome[1].tries
          failed(i, j) == \A k \in i..j : ~t[k].ok
          last == Len(t) - MaxTries + 1
      IN /\ Fails(outcome[1]) <=> last >= 1 /\ failed(last, Len(t))
         /\ \A i \in 1..(last - 1) : ~failed(i, i + MaxTries - 1)
         /\ t[1].size = size
         /\ \A i \in 2..Len(t) : t[i].size = t[i - 1].size + (IF t[i - 1].ok THEN 0 ELSE 1)

\* The bits of an endless run of numbers, the lowest first.
Bit(j) == (Number(<<>>, j \div WordBits) \div 2 ^ (j % WordBits)) % 2

ReadAt(offset, T, n) ==
    LET v == FoldLeft(LAMBDA x, i : x + Bit(offset + i - 1) * 2 ^ (i - 1), 0, [i \in 1..n |-> i])
    IN IF T.signed /\ n > 0 /\ Bit(offset + n - 1) = 1 THEN v - 2 ^ n ELSE v

\* Arithmetic that is done in pieces is exact: a stream hands out every bit of its
\* source once and in order, whatever is read in between (detail/BitStream.hpp); a
\* range is scaled as if there was no word to overflow (ScaleInteger.cpp); and an
\* element is looked up by as many numbers as its weight says (FrequencyMap.cpp).
NumbersExact ==
    CASE gen.gen = "stream" /\ Ran ->
           LET width(c) == Smaller(c.nbits, c.type.bits)
               offset(i) == FoldLeft(LAMBDA x, c : x + width(c), 0, SubSeq(gen.calls, 1, i - 1))
           IN outcome[1].value[1] = [i \in DOMAIN gen.calls |->
                ReadAt(offset(i), gen.calls[i].type, width(gen.calls[i]))]
      [] gen.gen = "inRange" ->
           gen.max > gen.min =>
             scaleInteger(gen.max - gen.min - 1, size) = Rounded(gen.max - gen.min - 1, size)
      [] gen.gen = "weightedElement" ->
           \A i \in DOMAIN gen.weights :
             Cardinality({x \in 0..(sum(gen.weights) - 1) : lookup(gen.weights, x) = i})
               = gen.weights[i]
      [] OTHER -> TRUE
=============================================================================
